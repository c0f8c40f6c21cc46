CONSTANTS
  c1 = c1
  c2 = c2
  c3 = c3
  c4 = c4
  Clients <- MCClients
  MaxClients = 3
  MaxSends = 1
  MayType = {c1, c2}
  InTurn <- MCInTurn
  MayClose = {c3, c4}
  MayReset = {c2}
  StdinLines = 1
  StdinEof = TRUE
SPECIFICATION FairSpec
INVARIANTS TableInv DeliveryExact
PROPERTY EveryoneIsServed
CHECK_DEADLOCK FALSE
