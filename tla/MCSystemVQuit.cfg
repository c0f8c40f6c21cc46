CONSTANTS
  s1 = s1
  s2 = s2
  c1 = c1
  c2 = c2
  c3 = c3
  None = None
  Servers <- MCServers
  Clients <- MCClients
  NUMMSG = 2
  MayDie = {s1}
  Capacity = 2
  MaxLines = 2
  Rounds = 3
  Tokens = 2
  Preset = 1
  Cells = 3
SPECIFICATION MCSpec
PROPERTY QuitTerminates
CHECK_DEADLOCK FALSE
