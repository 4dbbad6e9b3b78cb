SPECIFICATION QuerySpec
CONSTANTS
  Lexemes <- MCLexemes
  Events <- MCFewEvents
  Numbers <- MCNumbers
  Atoms <- MCAtoms
  MaxText = 14
CHECK_DEADLOCK FALSE
INVARIANTS
  SelectsAsMeant
