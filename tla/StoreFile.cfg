SPECIFICATION FairSpec
CONSTANTS
  a = a
  b = b
  Base = 5
  Groups = 3
  WordSize = 64
  Ids <- MCIds
  IdText <- MCIdText
  KeyText <- MCKeyText
  ValueText <- MCValueText
  FieldLimit = 1
  MaxFields = 2
  Paths = {main}
  Drafts <- MCDrafts
  MaxEvents = 2
  Header <- MCHeader
  ChecksumSize = 1
  NoFile = NoFile
  NoJob = NoJob
  NoLoad = NoLoad
INVARIANTS
  TypeOK
  DiskIsCut
  LoadAligned
PROPERTIES
  ImplementsRecordStore
  LoadFinishes
  SaveFinishes
