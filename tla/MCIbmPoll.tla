---- MODULE MCIbmPoll ----
(* Three clients: two can leave in one turn of the loop while a third       *)
(* arrives, which is what the compression of the table must get right.  One *)
(* of them sends more than one read, and one send, can take.                *)
EXTENDS IbmPoll, TLC
CONSTANTS c1, c2, c3
MCClients == {c1, c2, c3}
MCTwo == {c1, c2}
MCResetting == {c2}
MCNobody == {}
MCTyped == (c1 :> 0) @@ (c2 :> 3) @@ (c3 :> 0)
MCTypedTwo == [c \in MCTwo |-> 1]
====
