---- MODULE MCPollServer ----
(* Four clients compete for three slots: one too many, and two that leave,  *)
(* so that two freed slots poll standard input at once.                     *)
EXTENDS PollServer

CONSTANTS c1, c2, c3, c4
MCClients == {c1, c2, c3, c4}
MCInTurn == <<c1, c3, c4, c2>>
====
