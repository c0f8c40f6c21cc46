\* c1 is never killed: it must get its item through.
CONSTANTS
  c1 = c1
  c2 = c2
  c3 = c3
  NoItem = NoItem
  Unread = Unread
  SubClients <- MCSubClients
  Fields <- MCFields
  MayDie = {c2, c3}
  MayStop = TRUE
SPECIFICATION FairSpec
INVARIANTS ExchangeInv NoTornItem CountIsItemsShown
PROPERTIES ImplementsMailbox ExchangeEnds
CHECK_DEADLOCK FALSE
