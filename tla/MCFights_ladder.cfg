SPECIFICATION Spec
CONSTANTS
  Fighters = {1, 2, 3}
  Owner <- Ranks
  Moves = {"slam", "sprint", "prank", "throw", "wall"}
  TypeOf <- Types
  InitialMoves <- Known
  Careers = {1075, 1975}
  Students = {2}
  KFACTOR = 50
  ALMS = 38
  MaxMoves = 2
  MaxPlayed = 2
INVARIANTS TypeOK
PROPERTIES BetterMovesPay
CHECK_DEADLOCK FALSE
