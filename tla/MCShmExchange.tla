---- MODULE MCShmExchange ----
(* Three sub-clients, the four fields of data_item reduced to two: two are  *)
(* enough for a torn item.                                                  *)
EXTENDS ShmExchange

CONSTANTS c1, c2, c3
MCSubClients == {c1, c2, c3}
MCFields == {"pid", "slno"}
====
