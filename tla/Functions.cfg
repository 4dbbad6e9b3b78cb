SPECIFICATION Spec
CONSTANTS
  a = a
  b = b
  Base = 3
  Groups = 4
  WordSize = 54
  Ids <- MCIds
  IdText <- MCIdText
  KeyText <- MCKeyText
  ValueText <- MCValueText
  FieldLimit = 1
  MaxFields = 1
  Header <- MCHeader
  ChecksumSize = 1
  MinuteSeconds = 2
  HourSeconds = 4
  DaySeconds = 8
  SecondTicks = 10
  TickRange = 17080320
  TimeTexts <- MCTimeTexts
  Epoch <- Epoch0
  GeneratedRows = 20
  DayWindows <- MCDayWindows
CHECK_DEADLOCK FALSE
INVARIANTS
  EncodeInvertsDecode
  CutVarintRefused
  DamageStaysInRecord
  CsvRowReadBack
  CsvEventsReadBack
  IniEntriesReadBack
  JsonMembersReadBack
  RedactionAtOnce
  StampsReadBack
PROPERTIES
  DecodingIsFinal
  CivilDatesFollow
