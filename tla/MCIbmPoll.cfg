CONSTANTS
  c1 = c1
  c2 = c2
  c3 = c3
  Clients <- MCClients
  Resetting <- MCResetting
  MaxFds = 5
  Buf = 2
  SndBuf = 2
  MaxTyped <- MCTyped
  Inherits = TRUE
  AcceptMayFail = TRUE
SPECIFICATION FairSpec
INVARIANTS TableInv EndsInOrder
PROPERTIES EveryoneIsServed ClosedIsFreed
CHECK_DEADLOCK FALSE
