------------------------------ MODULE IbmPoll ------------------------------
(***************************************************************************)
(* ex5/ibmpoll.c: an echo server on poll() with a table of descriptors     *)
(* that grows at the end and is squeezed together after connections were   *)
(* closed.  The code takes it that accepted sockets inherit FIONBIO from   *)
(* the listening one; Inherits says whether they do (not on Linux).        *)
(*                                                                         *)
(* A connection is named by its client; what travels is counted in units.  *)
(***************************************************************************)
EXTENDS Integers, Sequences, FiniteSets

CONSTANTS
  Clients,        \* each connects once
  Resetting,      \* the clients that may reset their connection
  MaxFds,         \* entries of fds[]; 200 in the code
  Buf, SndBuf,    \* units that buffer[] holds, and that a send buffer holds
  MaxTyped,       \* bound: units each client sends
  Inherits,       \* accepted sockets are nonblocking
  AcceptMayFail   \* accept may fail for another reason than EWOULDBLOCK

Listen == "listen_sd"
Gone == "-1"

ASSUME IbmAssumption ==
  /\ {Listen, Gone} \cap Clients = {}
  /\ IsFiniteSet(Clients) /\ Resetting \subseteq Clients
  /\ MaxFds \in Nat /\ Cardinality(Clients) + 1 < MaxFds
  /\ Buf \in Nat \ {0} /\ SndBuf \in Nat \ {0} /\ MaxTyped \in [Clients -> Nat]
  /\ Inherits \in BOOLEAN /\ AcceptMayFail \in BOOLEAN

VARIABLES
  fds, nfds, revents, i, size, len,     \* the server's
  compress, ending,                     \* compress_array; end_server and why
  pc, stop,                             \* place, and why the server ended
  open,                                 \* connections whose descriptor is open
  backlog, st,                          \* queue of connects; state of each connection
  typed, inbox, outbox, got             \* units sent, unread, echoed, read back

table == <<fds, nfds, compress>>
loop == <<revents, i, size, len, ending, pc, stop>>
data == <<typed, inbox, outbox, got>>
vars == <<table, loop, open, backlog, st, data>>

Slots == 0 .. MaxFds

(* "fin": the client has closed; "finsent": and was sent something since;  *)
(* "finrst": and its reset has arrived.                                    *)
States == {"new", "up", "rst", "fin", "finsent", "finrst"}
Places == {"poll", "scan", "accept", "recv", "send", "compress", "cleanup", "stopped"}

TypeOK ==
  /\ fds \in [Slots -> Clients \cup {Listen, Gone}] /\ fds[0] = Listen
  /\ nfds \in 1 .. MaxFds - 1 /\ size \in 0 .. nfds + Cardinality(Clients)
  /\ revents \in [Slots -> {"none", "in", "other"}]
  /\ i \in Slots /\ len \in 0 .. Buf
  /\ compress \in BOOLEAN /\ ending \in {"no", "accept", "error"}
  /\ pc \in Places
  /\ stop \in {"no", "timeout", "accept", "error", "sigpipe"}
  /\ open \subseteq Clients /\ st \in [Clients -> States]
  /\ {typed, inbox, outbox, got} \subseteq [Clients -> Nat]
  /\ \A c \in Clients : {typed[c], inbox[c], outbox[c], got[c]} \subseteq 0 .. MaxTyped[c]

Init ==
  /\ fds = [k \in Slots |-> Listen]      \* those from nfds on are not read
  /\ nfds = 1 /\ compress = FALSE
  /\ revents = [k \in Slots |-> "none"] /\ i = 0 /\ size = 0 /\ len = 0
  /\ ending = "no" /\ pc = "poll" /\ stop = "no"
  /\ open = {} /\ backlog = <<>> /\ st = [c \in Clients |-> "new"]
  /\ typed = [c \in Clients |-> 0] /\ inbox = typed /\ outbox = typed /\ got = typed

Least(a, b) == IF a < b THEN a ELSE b
-----------------------------------------------------------------------------
(* poll() on one entry; a closed descriptor in the table is POLLNVAL.      *)
Failed(fd) == fd \notin {Gone, Listen} /\ (fd \notin open \/ st[fd] \in {"rst", "finrst"})
Readable(fd) ==
  \/ fd = Listen /\ backlog # <<>>
  \/ fd \in open /\ (inbox[fd] > 0 \/ st[fd] \in {"fin", "finsent"})
Readiness(fd) == IF Failed(fd) THEN "other" ELSE IF Readable(fd) THEN "in" ELSE "none"

SomeReady == \E k \in 0 .. nfds - 1 : Readiness(fds[k]) # "none"

PollReturns ==
  /\ pc = "poll" /\ SomeReady
  /\ revents' = [k \in Slots |-> IF k < nfds THEN Readiness(fds[k]) ELSE revents[k]]
  /\ size' = nfds /\ i' = 0 /\ pc' = "scan"
  /\ UNCHANGED <<table, len, ending, stop, open, backlog, st, data>>

PollTimesOut ==
  /\ pc = "poll" /\ ~SomeReady
  /\ pc' = "cleanup" /\ stop' = "timeout"
  /\ UNCHANGED <<table, revents, i, size, len, ending, open, backlog, st, data>>

NextSlot == i' = i + 1 /\ pc' = "scan"

ScanSkip ==
  /\ pc = "scan" /\ i < size /\ revents[i] = "none"
  /\ NextSlot
  /\ UNCHANGED <<table, revents, size, len, ending, stop, open, backlog, st, data>>

(* Anything but POLLIN ends the server, after this turn's compression.     *)
ScanError ==
  /\ pc = "scan" /\ i < size /\ revents[i] = "other"
  /\ ending' = "error" /\ pc' = "compress" /\ i' = 0
  /\ UNCHANGED <<table, revents, size, len, stop, open, backlog, st, data>>

ScanReadable ==
  /\ pc = "scan" /\ i < size /\ revents[i] = "in"
  /\ pc' = IF fds[i] = Listen THEN "accept" ELSE "recv"
  /\ UNCHANGED <<table, revents, i, size, len, ending, stop, open, backlog, st, data>>

ScanEnds ==
  /\ pc = "scan" /\ i = size
  /\ pc' = "compress" /\ i' = 0
  /\ UNCHANGED <<table, revents, size, len, ending, stop, open, backlog, st, data>>

(* All queued connections are taken; the scan ends at the old nfds.        *)
Accept ==
  /\ pc = "accept" /\ backlog # <<>>
  /\ fds' = [fds EXCEPT ![nfds] = Head(backlog)]
  /\ nfds' = nfds + 1
  /\ open' = open \cup {Head(backlog)}
  /\ backlog' = Tail(backlog)
  /\ UNCHANGED <<compress, loop, st, data>>

AcceptEnds ==
  /\ pc = "accept"
  /\ \/ backlog = <<>> /\ UNCHANGED ending
     \/ AcceptMayFail /\ ending' = "accept"
  /\ NextSlot
  /\ UNCHANGED <<table, revents, size, len, stop, open, backlog, st, data>>

(* mutated form: the descriptor stays open                                 *)
CloseConnUnclosed ==
  /\ fds' = [fds EXCEPT ![i] = Gone]
  /\ compress' = TRUE
  /\ NextSlot
  /\ UNCHANGED <<nfds, revents, size, len, ending, stop, open, backlog, st>>

(* mutated form: the slot keeps the descriptor, which is closed            *)
CloseConnListed ==
  /\ open' = open \ {fds[i]}
  /\ compress' = TRUE
  /\ NextSlot
  /\ UNCHANGED <<fds, nfds, revents, size, len, ending, stop, backlog, st>>

(* close_conn: the slot keeps its place until the array is compressed.     *)
CloseConn ==
  /\ open' = open \ {fds[i]}
  /\ fds' = [fds EXCEPT ![i] = Gone]
  /\ compress' = TRUE
  /\ NextSlot
  /\ UNCHANGED <<nfds, revents, size, len, ending, stop, backlog, st>>

RecvData ==
  /\ pc = "recv" /\ inbox[fds[i]] > 0
  /\ len' = Least(Buf, inbox[fds[i]])
  /\ inbox' = [inbox EXCEPT ![fds[i]] = @ - len']
  /\ pc' = "send"
  /\ UNCHANGED <<table, revents, i, size, ending, stop, open, backlog, st, typed, outbox, got>>

(* EWOULDBLOCK; a blocking recv waits here instead.                        *)
RecvWouldBlock ==
  /\ pc = "recv" /\ inbox[fds[i]] = 0 /\ st[fds[i]] = "up" /\ Inherits
  /\ NextSlot
  /\ UNCHANGED <<table, revents, size, len, ending, stop, open, backlog, st, data>>

RecvEnd ==
  /\ pc = "recv" /\ inbox[fds[i]] = 0 /\ st[fds[i]] # "up"
  /\ CloseConn
  /\ UNCHANGED data

(* To a client that is there: a nonblocking send takes what fits, and fails *)
(* when nothing does; a blocking one waits for room.                       *)
Send ==
  LET c == fds[i]  room == SndBuf - outbox[c] IN
  /\ pc = "send" /\ st[c] = "up"
  /\ \/ /\ IF Inherits THEN room > 0 ELSE room >= len
        /\ outbox' = [outbox EXCEPT ![c] = @ + Least(room, len)]
        /\ pc' = "recv"
        /\ UNCHANGED <<table, revents, i, size, len, ending, stop, open, backlog, st, typed, inbox, got>>
     \/ /\ Inherits /\ room = 0
        /\ CloseConn
        /\ UNCHANGED data

(* To a client that has closed: taken and dropped, and answered by a reset. *)
SendToClosed ==
  /\ pc = "send" /\ st[fds[i]] \in {"fin", "finsent"}
  /\ st' = [st EXCEPT ![fds[i]] = "finsent"]
  /\ pc' = "recv"
  /\ UNCHANGED <<table, revents, i, size, len, ending, stop, open, backlog, data>>

SendFails ==
  /\ pc = "send" /\ st[fds[i]] = "rst"
  /\ CloseConn
  /\ UNCHANGED data

Sigpipe ==
  /\ pc = "send" /\ st[fds[i]] = "finrst"
  /\ pc' = "stopped" /\ stop' = "sigpipe" /\ open' = {}
  /\ UNCHANGED <<table, revents, i, size, len, ending, backlog, st, data>>
-----------------------------------------------------------------------------
(* mutated form: i is not moved back after a shift                         *)
CompressShiftSkips ==
  /\ pc = "compress" /\ compress /\ i < nfds /\ fds[i] = Gone
  /\ fds' = [k \in Slots |-> IF k \in i .. nfds - 1 THEN fds[k + 1] ELSE fds[k]]
  /\ nfds' = nfds - 1 /\ i' = i + 1
  /\ UNCHANGED <<compress, revents, size, len, ending, pc, stop, open, backlog, st, data>>

(* mutated form: the entries behind are not moved                          *)
CompressShiftMissing ==
  /\ pc = "compress" /\ compress /\ i < nfds /\ fds[i] = Gone
  /\ nfds' = nfds - 1 /\ i' = i + 1
  /\ UNCHANGED <<fds, compress, revents, size, len, ending, pc, stop, open, backlog, st, data>>

CompressShift ==
  /\ pc = "compress" /\ compress /\ i < nfds /\ fds[i] = Gone
  /\ fds' = [k \in Slots |-> IF k \in i .. nfds - 1 THEN fds[k + 1] ELSE fds[k]]
  /\ nfds' = nfds - 1
  /\ UNCHANGED <<compress, loop, open, backlog, st, data>>

CompressSkip ==
  /\ pc = "compress" /\ compress /\ i < nfds /\ fds[i] # Gone
  /\ i' = i + 1
  /\ UNCHANGED <<table, revents, size, len, ending, pc, stop, open, backlog, st, data>>

CompressEnds ==
  /\ pc = "compress" /\ (compress => i = nfds)
  /\ compress' = FALSE
  /\ pc' = IF ending # "no" THEN "cleanup" ELSE "poll"
  /\ stop' = IF ending # "no" THEN ending ELSE stop
  /\ UNCHANGED <<fds, nfds, revents, i, size, len, ending, open, backlog, st, data>>

Cleanup ==
  /\ pc = "cleanup"
  /\ open' = open \ {fds[k] : k \in 0 .. nfds - 1}
  /\ pc' = "stopped"
  /\ UNCHANGED <<table, revents, i, size, len, ending, stop, backlog, st, data>>

Server ==
  \/ PollReturns \/ ScanSkip \/ ScanError \/ ScanReadable \/ ScanEnds
  \/ Accept \/ AcceptEnds
  \/ RecvData \/ RecvWouldBlock \/ RecvEnd
  \/ Send \/ SendToClosed \/ SendFails \/ Sigpipe
  \/ CompressShift \/ CompressSkip \/ CompressEnds \/ Cleanup
-----------------------------------------------------------------------------
(* The clients and their TCP.                                              *)

Connect(c) ==
  /\ st[c] = "new" /\ pc # "stopped"
  /\ st' = [st EXCEPT ![c] = "up"]
  /\ backlog' = Append(backlog, c)
  /\ UNCHANGED <<table, loop, open, data>>

Type(c) ==
  /\ st[c] = "up" /\ typed[c] < MaxTyped[c]
  /\ typed' = [typed EXCEPT ![c] = @ + 1]
  /\ inbox' = [inbox EXCEPT ![c] = @ + 1]
  /\ UNCHANGED <<table, loop, open, backlog, st, outbox, got>>

ReadEcho(c) ==
  /\ st[c] = "up" /\ outbox[c] > 0
  /\ got' = [got EXCEPT ![c] = @ + outbox[c]]
  /\ outbox' = [outbox EXCEPT ![c] = 0]
  /\ UNCHANGED <<table, loop, open, backlog, st, typed, inbox>>

(* Closing with data unread sends a reset instead of a FIN.                *)
Close(c) ==
  /\ st[c] = "up"
  /\ st' = [st EXCEPT ![c] = IF outbox[c] = 0 THEN "fin" ELSE "rst"]
  /\ outbox' = [outbox EXCEPT ![c] = 0]
  /\ UNCHANGED <<table, loop, open, backlog, typed, inbox, got>>

Reset(c) ==
  /\ c \in Resetting /\ st[c] = "up"
  /\ st' = [st EXCEPT ![c] = "rst"]
  /\ outbox' = [outbox EXCEPT ![c] = 0]
  /\ UNCHANGED <<table, loop, open, backlog, typed, inbox, got>>

ResetArrives(c) ==
  /\ st[c] = "finsent"
  /\ st' = [st EXCEPT ![c] = "finrst"]
  /\ UNCHANGED <<table, loop, open, backlog, data>>

Client(c) == Connect(c) \/ Type(c) \/ ReadEcho(c) \/ Close(c) \/ Reset(c) \/ ResetArrives(c)

Next == Server \/ PollTimesOut \/ \E c \in Clients : Client(c)
Spec == Init /\ [][Next]_vars
FairSpec == Spec /\ WF_vars(Server)
-----------------------------------------------------------------------------
Listed == {fds[k] : k \in 1 .. nfds - 1}

(* Whenever the server polls, the table lists exactly the connections it   *)
(* has open, each once: none is leaked, none polled twice, none stale.     *)
TableIsOpen ==
  pc = "poll" => Listed = open /\ nfds = 1 + Cardinality(open)
(* What a client sent is waiting, being echoed, on its way back or read:   *)
(* nothing is lost or repeated while the connection is up, as long as a    *)
(* client sends no more than a send buffer holds: the result of send is    *)
(* not compared with the length, and what does not fit is dropped.         *)
Echoing(c) == IF pc = "send" /\ fds[i] = c THEN len ELSE 0
EchoExact ==
  \A c \in Clients : st[c] = "up" /\ stop = "no" /\ typed[c] <= SndBuf =>
    typed[c] = inbox[c] + Echoing(c) + outbox[c] + got[c]

(* The table, and what passes through its connections.                     *)
TableInv == TypeOK /\ TableIsOpen /\ EchoExact

(* What poll reports of an entry ends the server only when a client has     *)
(* reset its connection, never for a descriptor the server closed itself;   *)
(* and it closes every connection first, whatever the reason.               *)
EndsInOrder ==
  /\ stop = "error" => \E c \in Clients : st[c] \in {"rst", "finrst"}
  /\ pc = "stopped" => open = {}

(* "All of the sockets for the incoming connections will also be           *)
(* nonblocking": whoever is being served, another's data is read too.      *)
EveryoneIsServed ==
  \A c \in Clients : inbox[c] > 0 ~> inbox[c] = 0 \/ st[c] # "up" \/ stop # "no"

(* The slot of a client that has closed is given back.                     *)
ClosedIsFreed ==
  \A c \in Clients : c \in open /\ st[c] # "up" ~> c \notin open
=============================================================================
