SPECIFICATION Spec
CONSTANTS
  Names = {f, g}
  Contents <- MCContents
  MaxArgs = 2
  Unreadable = Unreadable
CHECK_DEADLOCK FALSE
INVARIANTS
  AccessLinesAreAccess
