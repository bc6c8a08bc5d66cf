SPECIFICATION Spec
CONSTANTS
  a = a
  b = b
  c = c
  Name = {a, b, c}
  GlobName = {}
  CaseTwin <- NoPairs
  Data = {x}
  Raw = {}
  Empty = empty
  Handle = {h1}
  DeleteUnderHandle = TRUE
  FcacheLimit = 2
  MaxDepth = 1
  MaxRow = 1
  MaxFile = 3
PROPERTY CloseSparesOthers
