SPECIFICATION Spec
CONSTANTS
  Byte = {p, q}
  MaxLen = 3
  ZLen <- RunLength
  CompressValue = {FALSE}
PROPERTY CloseStoresText
