SPECIFICATION Spec
CONSTANTS
  a = a
  b = b
  Name = {a, b}
  GlobName = {}
  CaseTwin <- TwinPairs
  Data = {x}
  Raw = {}
  Empty = empty
  Handle = {h1}
  DeleteUnderHandle = FALSE
  FcacheLimit = 2
  MaxDepth = 2
  MaxRow = 4
  MaxFile = 2
INVARIANT NothingInDeleted
