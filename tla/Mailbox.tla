------------------------------ MODULE Mailbox ------------------------------
(***************************************************************************)
(* What a shared-memory segment guarded by a pair of semaphores promises   *)
(* to the programs that use it: a mailbox with room for one item.  An item *)
(* is put only when the previous one has been taken, is put once, and is   *)
(* taken once and whole.                                                   *)
(***************************************************************************)

CONSTANT Items

VARIABLES
  sent,        \* the items put so far
  delivered    \* the items taken so far

mailboxVars == <<sent, delivered>>

Init == sent = {} /\ delivered = {}

Put(i) ==
  /\ sent = delivered                 \* the mailbox is empty
  /\ i \notin sent
  /\ sent' = sent \cup {i}
  /\ UNCHANGED delivered

Take(i) ==
  /\ i \in sent \ delivered
  /\ delivered' = delivered \cup {i}
  /\ UNCHANGED sent

Next == \E i \in Items : Put(i) \/ Take(i)

Spec == Init /\ [][Next]_mailboxVars
=============================================================================
