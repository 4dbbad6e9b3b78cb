SPECIFICATION Spec
CONSTANTS
  a = a
  b = b
  Ids <- MCIds
  Drafts <- MCDrafts
  Paths = {main}
  FieldLimit = 1
  MaxEvents = 3
  NoFile = NoFile
  NoJob = NoJob
INVARIANTS
  TypeOK
  TornFileIsPrefix
  AnswerIsPrefix
  FinishedSaveReplays
