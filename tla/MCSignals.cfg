CONSTANTS
  N = 4
  ForkMayFail = TRUE
  EarlySignals = 1
  Procs <- MCProcs
  ParentOf <- MCParent
  KidOf <- MCKid
  Points = 3
  A = 1
  S = 3
SPECIFICATION MCSpec
INVARIANTS TreeInv TurnInv
PROPERTIES BuildingEnds FrozenAfterExit RoundEnds
CHECK_DEADLOCK FALSE
