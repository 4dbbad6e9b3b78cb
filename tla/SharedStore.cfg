SPECIFICATION Spec
CONSTANTS
  a = a
  b = b
  Base = 5
  Groups = 3
  WordSize = 64
  Ids <- MCIds
  IdText <- MCIdText
  KeyText <- MCKeyText
  ValueText <- MCValueText
  FieldLimit = 1
  MaxFields = 1
  Header <- MCHeader
  ChecksumSize = 1
  Writers = {v, w}
  Batches <- MCBatches
  Hole = 0
  NoFile = NoFile
CHECK_DEADLOCK FALSE
INVARIANTS
  TypeOK
  BytesKeepOffset
  CalmReadIsCut
  CalmLoadIsPrefix
  SameSavesAgree
  GrowingStoreLoads
