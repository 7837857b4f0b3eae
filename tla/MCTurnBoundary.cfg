SPECIFICATION Spec
CONSTANTS
  f1 = f1
  Files <- MCFiles
  MaxTurns = 3
  MaxMessages = 3
  MaxChanges = 3
  MaxTroubles = 1
  MaxTogether = 4
INVARIANTS
  ToldOnlyWhenUnattended
  FlagIsHeld
  SurfacedInOneTurn
CHECK_DEADLOCK FALSE
