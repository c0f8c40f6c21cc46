CONSTANTS
  c1 = c1
  c2 = c2
  c3 = c3
  Clients <- MCClients
  MaxSlots = 2
  MaxSends = 1
  MayType <- MCClients
  InTurn <- MCInTurn
  MayClose = {c3}
  MayReset = {c2}
  StdinLines = 1
SPECIFICATION FairSpec
INVARIANT ChatInv
PROPERTIES TypedIsSentOn LeaverIsForgotten
CHECK_DEADLOCK FALSE
