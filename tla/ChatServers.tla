---------------------------- MODULE ChatServers ----------------------------
(***************************************************************************)
(* The chat servers before PollServer: ex5/select.c, and ex5/poll_try.c,   *)
(* its first translation to poll.  A client that is accepted when no slot   *)
(* is empty is greeted and forgotten: its connection stays open, and the    *)
(* server never looks at it again.                                         *)
(*                                                                         *)
(* An empty slot holds 0, the descriptor of standard input.  select.c skips *)
(* it; poll_try.c polls it, and once the slot has been used asks for input. *)
(* (The end of standard input does there what it does in PollServer, and is *)
(* left out.)                                                              *)
(***************************************************************************)
EXTENDS ChatClients

CONSTANTS
  MaxSlots,     \* max_clients of select.c, one less than that of poll_try.c
  StdinLines    \* bound: lines the operator types at the server

ASSUME ServersAssumption ==
  MaxSlots \in Nat \ {0} /\ StdinLines \in Nat /\ "stdin" \notin Clients

VARIABLES
  program,      \* which of the two
  slot, armed,  \* client_socket[] or fds[].fd; events = POLLIN
  ready,        \* what select or poll has reported; 0 for the listener
  pc, at,       \* where the server is, and the slot it looks at
  buffer,       \* what the last successful read left in buffer
  received,     \* what the server has sent to each client
  typed,        \* lines typed at the server and not read yet
  log, joined,  \* history: broadcasts; where in it a client came in
  forgotten     \* history: clients that found no empty slot

serverVars == <<program, slot, armed, ready, pc, at, buffer, received, typed, log, joined, forgotten>>
vars == <<serverVars, netVars>>

Slots == 1 .. MaxSlots
Stdin == "stdin"
Entries == [from : Clients \cup {Stdin}, msg : Msgs]

TypeOK ==
  /\ NetTypeOK
  /\ program \in {"select", "poll_try"}
  /\ slot \in [Slots -> Clients \cup {Stdin}] /\ armed \subseteq Slots
  /\ ready \subseteq {0} \cup Slots
  /\ pc \in {"wait", "accept", "scan", "dead"} /\ at \in Slots
  /\ buffer \in Seq(Msgs) /\ received \in [Clients -> Seq(Entries)] /\ log \in Seq(Entries)
  /\ typed \in 0 .. StdinLines /\ joined \in [Clients -> Nat] /\ forgotten \subseteq Clients

Init ==
  /\ NetInit
  /\ program \in {"select", "poll_try"}
  /\ slot = [i \in Slots |-> Stdin] /\ armed = {} /\ ready = {}
  /\ pc = "wait" /\ at = 1 /\ buffer = <<Garbage>>
  /\ received = [c \in Clients |-> <<>>] /\ log = <<>>
  /\ typed = StdinLines /\ joined = [c \in Clients |-> 0] /\ forgotten = {}
-----------------------------------------------------------------------------
Readable(f) == IF f = Stdin THEN typed > 0 ELSE ClientReadable(f)
WasReset(f) == f # Stdin /\ conn[f] \in {"rst", "broken"}

(* mutated form: the loop ends one slot too early                          *)
SelectReportsShort ==
  {i \in Slots : i # MaxSlots /\ slot[i] # Stdin /\ (Readable(slot[i]) \/ WasReset(slot[i]))}

(* The set is built anew from the slots that are not empty.  A reset makes  *)
(* a socket readable.                                                      *)
SelectReports == {i \in Slots : slot[i] # Stdin /\ (Readable(slot[i]) \/ WasReset(slot[i]))}

(* Slots of which revents == POLLIN: a reset would add POLLERR or POLLHUP.  *)
PollReports == {i \in armed : Readable(slot[i]) /\ ~WasReset(slot[i])}

Listener == IF backlog = <<>> THEN {} ELSE {0}

Select ==
  /\ program = "select" /\ pc = "wait"
  /\ SelectReports \cup Listener # {}
  /\ ready' = SelectReports \cup Listener
  /\ pc' = "accept"
  /\ UNCHANGED <<program, slot, armed, at, buffer, received, typed, log, joined, forgotten, netVars>>

(* poll returns for a connection that was reset, too, at once and for ever. *)
Poll ==
  /\ program = "poll_try" /\ pc = "wait"
  /\ PollReports \cup Listener # {} \/ \E i \in Slots : WasReset(slot[i])
  /\ ready' = PollReports \cup Listener
  /\ pc' = "accept"
  /\ UNCHANGED <<program, slot, armed, at, buffer, received, typed, log, joined, forgotten, netVars>>

NothingToAccept ==
  /\ pc = "accept" /\ 0 \notin ready
  /\ pc' = "scan" /\ at' = 1
  /\ UNCHANGED <<program, slot, armed, ready, buffer, received, typed, log, joined, forgotten, netVars>>

Empty == {i \in Slots : slot[i] = Stdin}
FirstEmpty == CHOOSE i \in Empty : \A j \in Empty : i <= j

(* The new client is greeted before there is a slot for it.                *)
Admit(c, arms) ==
  /\ pc = "accept" /\ 0 \in ready
  /\ c = Head(backlog) /\ backlog' = Tail(backlog)
  /\ conn' = [conn EXCEPT ![c] = Sent(c)]
  /\ joined' = [joined EXCEPT ![c] = Len(log)]
  /\ \/ Empty # {} /\ slot' = [slot EXCEPT ![FirstEmpty] = c] /\ armed' = armed \cup arms /\ UNCHANGED forgotten
     \/ Empty = {} /\ forgotten' = forgotten \cup {c} /\ UNCHANGED <<slot, armed>>
  /\ pc' = "scan" /\ at' = 1
  /\ UNCHANGED <<program, ready, buffer, received, typed, log, inq, sends>>

(* mutated form: the loop does not end at the first empty slot              *)
SelectAcceptNoBreak(c) ==
  /\ program = "select" /\ pc = "accept" /\ 0 \in ready
  /\ c = Head(backlog) /\ backlog' = Tail(backlog)
  /\ conn' = [conn EXCEPT ![c] = Sent(c)]
  /\ joined' = [joined EXCEPT ![c] = Len(log)]
  /\ slot' = [i \in Slots |-> IF i \in Empty THEN c ELSE slot[i]]
  /\ forgotten' = IF Empty = {} THEN forgotten \cup {c} ELSE forgotten
  /\ pc' = "scan" /\ at' = 1
  /\ UNCHANGED <<program, armed, ready, buffer, received, typed, log, inq, sends>>

SelectAccept(c) == program = "select" /\ Admit(c, {})
PollAccept(c) == program = "poll_try" /\ Admit(c, {FirstEmpty})

NextSlot ==
  /\ at' = IF at = MaxSlots THEN 1 ELSE at + 1
  /\ pc' = IF at = MaxSlots THEN "wait" ELSE "scan"

SkipSlot ==
  /\ pc = "scan" /\ at \notin ready
  /\ NextSlot
  /\ UNCHANGED <<program, slot, armed, ready, buffer, received, typed, log, joined, forgotten, netVars>>

(* select.c leaves the sender out, poll_try.c does not.                     *)
SelectTargets == {i \in Slots : slot[i] # Stdin /\ slot[i] # slot[at]}
PollTargets == {i \in Slots : slot[i] # Stdin}
Targets == IF program = "select" THEN SelectTargets ELSE PollTargets

(* The sends in slot order; the first to a broken connection ends the       *)
(* server with SIGPIPE.  (net: the connections after the read.)             *)
Broadcast(data, net) ==
  LET entries == [k \in 1 .. Len(data) |-> [from |-> slot[at], msg |-> data[k]]]
      broken  == {i \in Targets : net[slot[i]] = "broken"}
      members == {slot[i] : i \in {j \in Targets : \A b \in broken : j < b}}
  IN  /\ received' = [c \in Clients |-> IF c \in members /\ net[c] = "open"
                                        THEN received[c] \o entries ELSE received[c]]
      /\ conn' = [c \in Clients |->
           IF c \in members /\ net[c] = "fin" THEN "finSent"
           ELSE IF c \in members /\ net[c] = "rst" THEN "broken" ELSE net[c]]
      /\ log' = log \o entries
      /\ at' = IF at = MaxSlots THEN 1 ELSE at + 1
      /\ pc' = IF broken # {} THEN "dead" ELSE IF at = MaxSlots THEN "wait" ELSE "scan"

(* A read takes one or more of the messages that have come.                *)
ReadClient ==
  /\ pc = "scan" /\ at \in ready /\ slot[at] # Stdin
  /\ \E n \in 1 .. Len(inq[slot[at]]) :
       /\ inq' = [inq EXCEPT ![slot[at]] = SubSeq(@, n + 1, Len(@))]
       /\ buffer' = SubSeq(inq[slot[at]], 1, n)
       /\ Broadcast(SubSeq(inq[slot[at]], 1, n), conn)
  /\ UNCHANGED <<program, slot, armed, ready, typed, joined, forgotten, sends, backlog>>

(* Of poll_try.c: an empty slot reads standard input.                      *)
ReadStdin ==
  /\ pc = "scan" /\ at \in ready /\ slot[at] = Stdin /\ typed > 0
  /\ typed' = typed - 1 /\ buffer' = <<Line>>
  /\ Broadcast(<<Line>>, conn)
  /\ UNCHANGED <<program, slot, armed, ready, joined, forgotten, inq, sends, backlog>>

(* read returned -1: what the buffer held is sent once more.               *)
ReadError ==
  /\ pc = "scan" /\ at \in ready /\ slot[at] # Stdin /\ HasError(slot[at])
  /\ Broadcast(buffer, [conn EXCEPT ![slot[at]] = "broken"])
  /\ UNCHANGED <<program, slot, armed, ready, buffer, typed, joined, forgotten, inq, sends, backlog>>

(* mutated form: the slot is not emptied                                   *)
DisconnectUnmarked ==
  /\ pc = "scan" /\ at \in ready /\ slot[at] # Stdin /\ AtEndOfFile(slot[at])
  /\ NextSlot
  /\ UNCHANGED <<program, slot, armed, ready, buffer, received, typed, log, joined, forgotten, netVars>>

Disconnect ==
  /\ pc = "scan" /\ at \in ready /\ slot[at] # Stdin /\ AtEndOfFile(slot[at])
  /\ slot' = [slot EXCEPT ![at] = Stdin]
  /\ NextSlot
  /\ UNCHANGED <<program, armed, ready, buffer, received, typed, log, joined, forgotten, netVars>>
-----------------------------------------------------------------------------
Server ==
  \/ Select \/ Poll \/ NothingToAccept \/ (\E c \in Clients : SelectAccept(c) \/ PollAccept(c))
  \/ SkipSlot \/ ReadClient \/ ReadStdin \/ ReadError \/ Disconnect

Next == Server \/ ((\E c \in Clients : ClientStep(c)) /\ UNCHANGED serverVars)

Spec == Init /\ [][Next]_vars
(* The server runs when it can; clients and the operator owe nothing.      *)
FairSpec == Spec /\ WF_vars(Server)
-----------------------------------------------------------------------------
Tracked(c) == \E i \in Slots : slot[i] = c

(* A client has one slot, or none for ever: the forgotten hear nothing.     *)
OneSlotEach ==
  /\ \A i, j \in Slots : slot[i] = slot[j] /\ slot[i] # Stdin => i = j
  /\ \A c \in forgotten : ~Tracked(c) /\ received[c] = <<>>

(* Up to entry k of the log, what c is to be sent: what was broadcast since  *)
(* it was accepted; of select.c, not its own.                               *)
Due(c, k) == {l \in joined[c] + 1 .. k : program = "poll_try" \/ log[l].from # c}

(* A client in the table has been sent, once and in order, what it was due:  *)
(* the n-th of those entries is the n-th that it has received.              *)
DeliveryExact ==
  \A c \in Clients : pc # "dead" /\ Tracked(c) /\ conn[c] = "open" =>
    /\ Len(received[c]) = Cardinality(Due(c, Len(log)))
    /\ \A l \in Due(c, Len(log)) : received[c][Cardinality(Due(c, l))] = log[l]

(* What is sent on in the name of a client was typed by it, except by one    *)
(* that was reset: the read that fails brings back what somebody else's left *)
(* in the buffer.                                                           *)
TypedByTheSender ==
  \A k \in DOMAIN log :
    log[k].from \in Clients /\ log[k].msg[1] # log[k].from => WasReset(log[k].from)

(* Slots, deliveries and the authors of what is delivered.                  *)
ChatInv == TypeOK /\ OneSlotEach /\ DeliveryExact /\ TypedByTheSender

(* A read of a slot that is no longer readable stops the whole server; it    *)
(* happens to poll_try.c when two empty slots have polled one line, or a     *)
(* client came into a slot that was ready as standard input.                 *)
Blocked ==
  /\ program = "poll_try" /\ pc = "scan" /\ at \in ready
  /\ ~Readable(slot[at]) /\ ~WasReset(slot[at])
Stops == pc = "dead" \/ Blocked

(* What a client in the table types is read and sent on, unless the server   *)
(* ends or blocks or, of poll_try.c, the client was reset: it may hold its   *)
(* slot for ever.                                                           *)
TypedIsSentOn ==
  \A c \in Clients : Tracked(c) /\ inq[c] # <<>> ~>
    inq[c] = <<>> \/ Stops \/ (program = "poll_try" /\ WasReset(c))

(* The slot of a client that has left is emptied; select.c does so also      *)
(* after a reset.                                                           *)
LeaverIsForgotten ==
  \A c \in Clients :
    Tracked(c) /\ (conn[c] = "fin" \/ (program = "select" /\ WasReset(c))) ~>
      ~Tracked(c) \/ Stops \/ (program = "poll_try" /\ WasReset(c))
=============================================================================
