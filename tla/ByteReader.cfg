SPECIFICATION Spec
CONSTANTS
  ByteSize = 3
  WordSize = 32
  Widths = {1, 2}
  Lengths <- MCLengths
  MaxBytes = 4
  Lost = Lost
INVARIANTS
  TypeOK
  ReadsStayInside
  ReadsTileInput
