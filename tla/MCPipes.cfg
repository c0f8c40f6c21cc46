CONSTANTS
  Ms <- MCMs
  Ns <- MCNs
  Capacity = 2
  MaxOutput = 3
  MaxLines = 2
  Rounds = 3
  MaxFds = 2
SPECIFICATION MCSpec
INVARIANTS TokenInv PipeInv TalkInv
PROPERTIES ReadIsExact ParentPrints Ends TalkGoesOn
CHECK_DEADLOCK FALSE
