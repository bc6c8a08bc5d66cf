SPECIFICATION Spec
CONSTANTS
  a = a
  b = b
  Name = {a, b}
  GlobName = {}
  CaseTwin <- NoPairs
  Data = {x}
  Raw = {x}
  Empty = empty
  Handle = {h1}
  DeleteUnderHandle = FALSE
  FcacheLimit = 2
  MaxDepth = 2
  MaxRow = 3
  MaxFile = 2
INVARIANTS TypeOK CacheTransparent FcacheAgrees HandleOnOwnFile NamesUnique NothingInDeleted
PROPERTY DeleteIsLocal CloseKeepsOtherFiles ImplementsTree
