CONSTANTS
  c1 = c1
  c2 = c2
  c3 = c3
  c4 = c4
  Clients <- MCClients
  MaxClients = 2
  MaxSends = 1
  MayType = {}
  InTurn <- MCInTurn
  MayClose <- MCClients
  MayReset = {}
  StdinLines = 0
  StdinEof = TRUE
SPECIFICATION Spec
INVARIANT AddedToArray
CHECK_DEADLOCK FALSE
