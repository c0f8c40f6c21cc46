CONSTANTS
  c1 = c1
  c2 = c2
  c3 = c3
  Clients <- MCTwo
  Resetting <- MCNobody
  MaxFds = 5
  Buf = 1
  SndBuf = 2
  MaxTyped <- MCTypedTwo
  Inherits = FALSE
  AcceptMayFail = FALSE
SPECIFICATION FairSpec
PROPERTY EveryoneIsServed
CHECK_DEADLOCK FALSE
