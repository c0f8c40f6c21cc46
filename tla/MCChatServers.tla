--------------------------- MODULE MCChatServers ---------------------------
(* Three clients for two slots; one closes, one may be reset.               *)
EXTENDS ChatServers

CONSTANTS c1, c2, c3
MCClients == {c1, c2, c3}
MCInTurn == <<>>
=============================================================================
