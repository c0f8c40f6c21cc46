----------------------------- MODULE PollServer -----------------------------
(***************************************************************************)
(* ex5/2017A7PS0097P_lab5/poll.c: a chat server that polls one listening   *)
(* socket and max_clients slots and sends what one client types to all the *)
(* others.                                                                 *)
(*                                                                         *)
(* A free slot has fd 0, which is also the descriptor of standard input:   *)
(* a slot that was used once keeps events = POLLIN and so polls stdin.     *)
(* poll reports a reset as POLLIN|POLLERR|POLLHUP, which the program's     *)
(* "revents == POLLIN" is false of.                                        *)
(***************************************************************************)
EXTENDS ChatClients

CONSTANTS
  MaxClients,   \* argv[1]
  StdinLines,   \* bound: lines the operator types at the server
  StdinEof      \* TRUE when the server's stdin reaches end of file

OtherFiles == {"stdin", "listener", "closed"}

ASSUME PollAssumption ==
  /\ MaxClients \in Nat \ {0} /\ StdinLines \in Nat /\ StdinEof \in BOOLEAN
  /\ OtherFiles \cap Clients = {}

VARIABLES
  fd, armed, revents,    \* fds[]: descriptor, events = POLLIN, what poll said
  count,                 \* clients connected, by the program's own count
  pc, at,                \* where the server is, and the slot it looks at
  to,                    \* in a broadcast: the slots up to this one are done
  buffer,                \* what the last successful read left in buffer
  owner,                 \* the open file behind each descriptor
  received,              \* what the server has sent to each client
  typed, stdinAtEof,     \* standard input: lines not read yet, end of file
  log, joined            \* history: broadcasts; where in it a client came in

slotVars == <<fd, armed, revents>>
stdinVars == <<typed, stdinAtEof>>
histVars == <<log, joined>>
vars == <<fd, armed, revents, count, pc, at, to, buffer, owner, conn, inq,
          sends, backlog, received, typed, stdinAtEof, log, joined>>

Slots == 1 .. MaxClients
FDs == 0 .. Cardinality(Clients) + 1     \* 0 is stdin, 1 stands for the listener
Master == 1
Files == Clients \cup OtherFiles
Entries == [from : Files, msg : Msgs]    \* one broadcast message

TypeOK ==
  /\ fd \in [Slots -> FDs] /\ armed \in [Slots -> BOOLEAN]
  /\ revents \in [{0} \cup Slots -> {"none", "in", "other"}]
  /\ count \in Int
  /\ pc \in {"poll", "accept", "scan", "send", "dead"} /\ at \in Slots /\ to \in 0 .. MaxClients
  /\ buffer \in Seq(Msgs)
  /\ owner \in [FDs -> Files]
  /\ NetTypeOK
  /\ received \in [Clients -> Seq(Entries)]
  /\ typed \in Nat /\ stdinAtEof \in BOOLEAN
  /\ log \in Seq(Entries)
  /\ joined \in [Clients -> Nat]

Init ==
  /\ fd = [i \in Slots |-> 0] /\ armed = [i \in Slots |-> FALSE]
  /\ revents = [i \in {0} \cup Slots |-> "none"]
  /\ count = 0
  /\ pc = "poll" /\ at = 1 /\ to = 0
  /\ buffer = <<Garbage>>
  /\ owner = [d \in FDs |-> IF d = 0 THEN "stdin" ELSE IF d = Master THEN "listener" ELSE "closed"]
  /\ NetInit
  /\ received = [c \in Clients |-> <<>>]
  /\ typed = StdinLines /\ stdinAtEof = FALSE
  /\ log = <<>> /\ joined = [c \in Clients |-> 0]
-----------------------------------------------------------------------------
serverVars == <<fd, armed, revents, count, pc, at, to, buffer, owner, received,
                log, joined>>

StdinEnds ==
  /\ StdinEof /\ ~stdinAtEof
  /\ stdinAtEof' = TRUE
  /\ UNCHANGED <<serverVars, netVars, typed>>
-----------------------------------------------------------------------------
Readable(f) ==
  IF f = "stdin" THEN typed > 0 \/ stdinAtEof ELSE ClientReadable(f)

(* Events POLLERR, POLLHUP and POLLNVAL are reported whether asked or not; *)
(* POLLIN only to an armed slot.                                           *)
PollSlot(i) ==
  LET f == owner[fd[i]]
  IN IF f = "closed" \/ (f \in Clients /\ conn[f] \in {"rst", "broken"}) THEN "other"
     ELSE IF armed[i] /\ Readable(f) THEN "in" ELSE "none"

(* mutated form: poll is told of one entry too few                         *)
ReadinessShort == [i \in {0} \cup Slots |->
  IF i = 0 THEN IF backlog # <<>> THEN "in" ELSE "none"
  ELSE IF i = MaxClients THEN "none" ELSE PollSlot(i)]

Readiness == [i \in {0} \cup Slots |->
  IF i = 0 THEN IF backlog # <<>> THEN "in" ELSE "none" ELSE PollSlot(i)]

Least(S) == CHOOSE i \in S : \A j \in S : i <= j
LowestFree == Least({d \in FDs : owner[d] = "closed"})
-----------------------------------------------------------------------------
(* The server: one pass is poll, the branch on fds[0], then every slot.    *)

Poll ==
  /\ pc = "poll"
  /\ \E i \in {0} \cup Slots : Readiness[i] # "none"      \* timeout is infinite
  /\ revents' = Readiness
  /\ pc' = "accept"
  /\ UNCHANGED <<fd, armed, count, at, to, buffer, owner, received>>
  /\ UNCHANGED <<netVars, stdinVars, histVars>>

FreeSlots == {i \in Slots : fd[i] = 0}
FirstFree == Least(FreeSlots)

(* On to the next slot behind slot i that poll has reported on; behind the *)
(* last one comes the next poll.                                           *)
Reported(i) == {j \in Slots : j > i /\ revents[j] = "in"}
ScanFrom(i) ==
  IF Reported(i) = {} THEN pc' = "poll" /\ at' = 1
                      ELSE pc' = "scan" /\ at' = Least(Reported(i))

NothingToAccept ==
  /\ pc = "accept" /\ revents[0] # "in"
  /\ ScanFrom(0)
  /\ UNCHANGED <<slotVars, count, to, buffer, owner, received>>
  /\ UNCHANGED <<netVars, stdinVars, histVars>>

(* Greet the client and put it in the first empty slot, if there is one;   *)
(* count goes up either way.                                               *)
Accept ==
  /\ pc = "accept" /\ revents[0] = "in" /\ count < MaxClients
  /\ LET c == Head(backlog)
         new == LowestFree
     IN /\ owner' = [owner EXCEPT ![new] = c]
        /\ conn' = [conn EXCEPT ![c] = Sent(c)]
        /\ IF FreeSlots = {}
           THEN UNCHANGED <<fd, armed>>
           ELSE /\ fd' = [fd EXCEPT ![FirstFree] = new]
                /\ armed' = [armed EXCEPT ![FirstFree] = TRUE]
        /\ joined' = [joined EXCEPT ![c] = Len(log)]
  /\ backlog' = Tail(backlog)
  /\ count' = count + 1
  /\ ScanFrom(0)
  /\ UNCHANGED <<revents, to, buffer, received, inq, sends, stdinVars, log>>

Refuse ==
  /\ pc = "accept" /\ revents[0] = "in" /\ count >= MaxClients
  /\ conn' = [conn EXCEPT ![Head(backlog)] = "broken"]    \* closed by the server
  /\ backlog' = Tail(backlog)
  /\ ScanFrom(0)
  /\ UNCHANGED <<slotVars, count, to, buffer, owner, received, inq, sends>>
  /\ UNCHANGED <<stdinVars, histVars>>

(* The slot at: what read leaves in buffer is broadcast.                   *)
StartBroadcast == pc' = "send" /\ to' = 0 /\ at' = at

ReadClient ==
  /\ pc = "scan"
  /\ owner[fd[at]] \in Clients
  /\ LET c == owner[fd[at]]
     IN \E n \in 1 .. Len(inq[c]) :          \* a read may take several messages
          /\ inq' = [inq EXCEPT ![c] = SubSeq(@, n + 1, Len(@))]
          /\ buffer' = SubSeq(inq[c], 1, n)
  /\ StartBroadcast
  /\ UNCHANGED <<slotVars, count, owner, received, conn, sends, backlog>>
  /\ UNCHANGED <<stdinVars, histVars>>

ReadStdin ==
  /\ pc = "scan"
  /\ owner[fd[at]] = "stdin" /\ typed > 0
  /\ typed' = typed - 1
  /\ buffer' = <<Line>>
  /\ StartBroadcast
  /\ UNCHANGED <<slotVars, count, owner, received, netVars, stdinAtEof, histVars>>

(* read returned -1 (a reset client in a slot with a stale revents, or a   *)
(* closed stdin): what the buffer held is sent once more.                  *)
ReadError ==
  /\ pc = "scan"
  /\ LET f == owner[fd[at]]
     IN \/ f = "closed" /\ conn' = conn
        \/ f \in Clients /\ HasError(f) /\ conn' = [conn EXCEPT ![f] = Sent(f)]
  /\ StartBroadcast
  /\ UNCHANGED <<slotVars, count, buffer, owner, received, inq, sends, backlog>>
  /\ UNCHANGED <<stdinVars, histVars>>
-----------------------------------------------------------------------------
(* The broadcast: one slot after the other, between whose sends the        *)
(* connections change.                                                     *)

(* mutated form: the sender is not left out                                *)
TargetsEcho == {j \in Slots : fd[j] > 0}

(* Every other slot that does not look empty.                              *)
Targets == {j \in Slots : fd[j] > 0 /\ j # at}

Message == [k \in 1 .. Len(buffer) |-> [from |-> owner[fd[at]], msg |-> buffer[k]]]

Left == {j \in Targets : j > to}

Send ==
  /\ pc = "send" /\ Left # {}
  /\ LET c == owner[fd[Least(Left)]]
     IN /\ conn[c] # "broken"
        /\ conn' = [conn EXCEPT ![c] = Sent(c)]
        /\ received' = IF conn[c] = "open" THEN [received EXCEPT ![c] = @ \o Message]
                       ELSE received
  /\ to' = Least(Left)
  /\ UNCHANGED <<slotVars, count, pc, at, buffer, owner, inq, sends, backlog>>
  /\ UNCHANGED <<stdinVars, histVars>>

(* A send to a broken connection ends the process with SIGPIPE.            *)
SigPipe ==
  /\ pc = "send" /\ Left # {} /\ conn[owner[fd[Least(Left)]]] = "broken"
  /\ pc' = "dead"
  /\ UNCHANGED <<slotVars, count, at, to, buffer, owner, received>>
  /\ UNCHANGED <<netVars, stdinVars, histVars>>

EndBroadcast ==
  /\ pc = "send" /\ Left = {}
  /\ log' = log \o Message
  /\ to' = 0
  /\ ScanFrom(at)
  /\ UNCHANGED <<slotVars, count, buffer, owner, received, netVars, stdinVars, joined>>
-----------------------------------------------------------------------------
(* read returned 0: an end of file, of a client or of standard input.      *)
AtEof(f) ==
  \/ f \in Clients /\ AtEndOfFile(f)
  \/ f = "stdin" /\ typed = 0 /\ stdinAtEof

(* mutated form: the slot is freed and the socket left open                *)
DisconnectUnclosed ==
  /\ pc = "scan"
  /\ AtEof(owner[fd[at]])
  /\ fd' = [fd EXCEPT ![at] = 0]
  /\ count' = count - 1
  /\ ScanFrom(at)
  /\ UNCHANGED <<armed, revents, to, buffer, owner, received, netVars, stdinVars, histVars>>

Disconnect ==
  /\ pc = "scan"
  /\ AtEof(owner[fd[at]])
  /\ owner' = [owner EXCEPT ![fd[at]] = "closed"]
  /\ fd' = [fd EXCEPT ![at] = 0]             \* events stays POLLIN
  /\ count' = count - 1
  /\ ScanFrom(at)
  /\ UNCHANGED <<armed, revents, to, buffer, received, netVars, stdinVars, histVars>>
-----------------------------------------------------------------------------
Server == \/ Poll \/ NothingToAccept \/ Accept \/ Refuse
          \/ ReadClient \/ ReadStdin \/ Disconnect \/ ReadError
          \/ Send \/ SigPipe \/ EndBroadcast

Environment ==
  \/ (\E c \in Clients : ClientStep(c)) /\ UNCHANGED <<serverVars, stdinVars>>
  \/ StdinEnds

Next == Server \/ Environment
Spec == Init /\ [][Next]_vars
(* The server runs when it can; clients and the operator owe nothing.      *)
FairSpec == Spec /\ WF_vars(Server)
-----------------------------------------------------------------------------
Tracked(c) == \E i \in Slots : fd[i] > 0 /\ owner[fd[i]] = c

(* The program's count is the number of clients in the table: it decides    *)
(* who is refused.  (Until the end of file of stdin, which is taken for a   *)
(* disconnect of the free slot that polls it.)                              *)
CountIsTracked == stdinAtEof \/ count = Cardinality({i \in Slots : fd[i] > 0})

(* "add new socket to array of sockets": every open connection the server   *)
(* holds is in exactly one slot, so that it is polled and closed some day.  *)
AddedToArray ==
  \A d \in FDs : owner[d] \in Clients =>
    d > 0 /\ Cardinality({i \in Slots : fd[i] = d}) = 1

(* No descriptor is leaked and no slot overwritten while its client is      *)
(* connected, again as long as stdin has not ended.                         *)
AcceptedIsTracked == stdinAtEof \/ AddedToArray

(* The table, the count and the descriptors the server holds agree.         *)
TableInv == TypeOK /\ CountIsTracked /\ AcceptedIsTracked

(* The log as client c has it: with the broadcast that is under way if the  *)
(* loop has passed its slot, and up to entry k what others wrote in it since *)
(* c came in.                                                               *)
Reached(c) == pc = "send" /\ \E i \in Targets : i <= to /\ owner[fd[i]] = c
Heard(c) == IF Reached(c) THEN log \o Message ELSE log
FromOthers(c, k) == {l \in joined[c] + 1 .. k : Heard(c)[l].from # c}

(* A client in the table has been sent, in order, exactly what the others   *)
(* had broadcast since it was accepted, and nothing of its own: the n-th of *)
(* those entries is the n-th that it has received.                          *)
DeliveryExact ==
  \A c \in Clients : pc # "dead" /\ Tracked(c) /\ conn[c] = "open" =>
    LET all == FromOthers(c, Len(Heard(c)))
    IN /\ Len(received[c]) = Cardinality(all)
       /\ \A l \in all : received[c][Cardinality(FromOthers(c, l))] = Heard(c)[l]

(* The server waits in read for something that is not there: revents is of  *)
(* the poll before.  It is a new and silent client in a slot that poll had  *)
(* found readable as stdin, or stdin itself, whose one line a slot before   *)
(* has read: two freed slots poll it.                                       *)
StaleRead ==
  /\ pc = "scan"
  /\ LET f == owner[fd[at]]
     IN \/ f \in Clients /\ inq[f] = <<>> /\ conn[f] = "open"
        \/ f = "stdin" /\ typed = 0 /\ ~stdinAtEof

(* What a client in the table types is read and broadcast, and the slot of  *)
(* a client that closed is freed, unless SIGPIPE has ended the server, the  *)
(* connection was reset (by the client, or in answer to a broadcast that    *)
(* came after its close), stdin has ended, or the server waits in a stale   *)
(* read for ever.                                                           *)
Excused(c) == conn[c] \in {"rst", "broken"} \/ pc = "dead" \/ stdinAtEof

TypedIsBroadcast ==
  \A c \in Clients : Tracked(c) /\ inq[c] # <<>> ~> inq[c] = <<>> \/ Excused(c)

ClosedIsFreed ==
  \A c \in Clients : Tracked(c) /\ conn[c] = "fin" ~> ~Tracked(c) \/ Excused(c)

(* Whoever is in the table is listened to, and forgotten when it has left.  *)
EveryoneIsServed == <>[]StaleRead \/ (TypedIsBroadcast /\ ClosedIsFreed)
=============================================================================
