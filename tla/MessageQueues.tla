--------------------------- MODULE MessageQueues ---------------------------
(***************************************************************************)
(* Programs that talk through message queues:                              *)
(*  - lab3: mq.c starts co_process.c for every line, waits for it to end    *)
(*    and then for a message of any type; it may be started twice, or       *)
(*    killed while its co_process lives on;                                 *)
(*  - msgq: msgq_client.c, which removes the queue at its end of input, and *)
(*    msgq_server.c;                                                        *)
(*  - notify: mq_notify.c, told by a signal of a message that comes to the  *)
(*    empty POSIX queue, with pmsg_send.c and pmsg_receive.c on the same.   *)
(*                                                                         *)
(* A System V queue is found by its key and used by its identifier, here    *)
(* its place in queue: removed and created anew it is another one.  A       *)
(* message is who sent it and its number; number 0 stands for "exit".       *)
(* co_process is taken to be there, and its line not to be at end of file.  *)
(***************************************************************************)
EXTENDS Integers, Sequences

CONSTANTS Capacity,   \* what a queue holds (msg_qbytes, mq_maxmsg)
          MaxLines    \* bound: lines typed at a process, or at all co_processes

VARIABLES program,    \* which of the three
          at, id,     \* per process: where it is, and its queue
          line, typed,\* the message it is about to send; lines so far
          queue,      \* all queues there ever were
          current,    \* the one the key names now, or 0
          shown,      \* what a process has printed
          armed, pending,      \* notify: registration, blocked SIGUSR1
          zero, behind, old    \* history: see below

vars == <<program, at, id, line, typed, queue, current, shown, armed, pending, zero, behind, old>>

Mains == {"main1", "main2"}
CoOf == [main1 |-> "co1", main2 |-> "co2"]
MainOf == [co1 |-> "main1", co2 |-> "main2"]
Cos == DOMAIN MainOf
QueueClients == {"client1", "client2"}
Procs == Mains \cup Cos \cup QueueClients \cup {"server", "notifier", "sender", "receiver"}
Msgs == [by : Procs, n : 0 .. MaxLines]
NoMsg == [by |-> "sender", n |-> 0]
Empty == [alive |-> TRUE, msgs |-> <<>>]
ProcsOf(prog) == IF prog = "lab3" THEN Mains ELSE IF prog = "msgq" THEN QueueClients \cup {"server"}
                 ELSE {"notifier", "sender", "receiver"}

TypeOK ==
  /\ program \in {"lab3", "msgq", "notify"}
  /\ at \in [Procs -> {"off", "start", "open", "fork", "wait", "receive", "blocked", "type", "send",
                       "register", "suspend", "rearm", "drain", "ended", "killed"}]
  /\ id \in [Procs -> 0 .. Len(queue)] /\ line \in [Procs -> Msgs] /\ typed \in [Procs -> 0 .. MaxLines]
  /\ \A q \in DOMAIN queue : queue[q].msgs \in Seq(Msgs) /\ Len(queue[q].msgs) <= Capacity
  /\ current \in 0 .. Len(queue) /\ (current # 0 => queue[current].alive)
  /\ shown \in [Procs -> Seq(Msgs)] /\ old \subseteq Msgs
  /\ {armed, pending, zero, behind} \subseteq BOOLEAN

(* An earlier run may have left the queue, with a message in it.  (Of       *)
(* history, that message is the server's, which sends none.)                *)
Init ==
  /\ program \in {"lab3", "msgq", "notify"}
  /\ at = [p \in Procs |-> IF p \in ProcsOf(program) THEN "start" ELSE "off"]
  /\ id = [p \in Procs |-> 0] /\ line = [p \in Procs |-> NoMsg] /\ typed = [p \in Procs |-> 0]
  /\ \/ queue = <<>> /\ current = 0
     \/ current = 1 /\ queue \in {<<Empty>>, <<[Empty EXCEPT !.msgs = <<[by |-> "server", n |-> 1]>>]>>}
  /\ shown = [p \in Procs |-> <<>>]
  /\ armed = FALSE /\ pending = FALSE /\ zero = FALSE /\ behind = FALSE /\ old = {}

Goes(p, to) == at' = [at EXCEPT ![p] = to]
Shows(p, m) == shown' = [shown EXCEPT ![p] = Append(@, m)]
Alive(p) == queue[id[p]].alive
Held(p) == IF id[p] = 0 THEN <<>> ELSE queue[id[p]].msgs
noNotify == <<armed, pending, behind>>

(* msgget with IPC_CREAT, mq_open with O_CREAT                             *)
Open(p) ==
  /\ \/ current # 0 /\ UNCHANGED <<queue, current>>
     \/ current = 0 /\ queue' = Append(queue, Empty) /\ current' = Len(queue) + 1
  /\ id' = [id EXCEPT ![p] = current']

Removed(q) == queue' = [queue EXCEPT ![q] = [alive |-> FALSE, msgs |-> <<>>]]
Take(p) == queue' = [queue EXCEPT ![id[p]].msgs = Tail(@)]
Put(p) == Len(Held(p)) < Capacity /\ queue' = [queue EXCEPT ![id[p]].msgs = Append(@, line[p])]
-----------------------------------------------------------------------------
(* mq.c                                                                    *)

(* mutated form: the queue of an earlier run is kept                       *)
StartKeepsQueue(m) ==
  /\ program = "lab3" /\ at[m] = "start" /\ Goes(m, "open")
  /\ old' = IF m = "main2" /\ current # 0 THEN {queue[current].msgs[k] : k \in DOMAIN queue[current].msgs} ELSE old
  /\ UNCHANGED <<program, id, line, typed, queue, current, shown, noNotify, zero>>

(* old: what was in the queue when the second main was started.            *)
Start(m) ==
  /\ program = "lab3" /\ at[m] = "start" /\ Goes(m, "open")
  /\ old' = IF m = "main2" /\ current # 0 THEN {queue[current].msgs[k] : k \in DOMAIN queue[current].msgs} ELSE old
  /\ current' = 0 /\ (IF current = 0 THEN UNCHANGED queue ELSE Removed(current))
  /\ UNCHANGED <<program, id, line, typed, shown, noNotify, zero>>

Create(m) ==
  /\ m \in Mains /\ at[m] = "open" /\ Open(m) /\ Goes(m, "fork")
  /\ UNCHANGED <<program, line, typed, shown, noNotify, zero, old>>

(* If fork fails wait returns at once.                                     *)
Fork(m) ==
  /\ at[m] = "fork"
  /\ \/ at' = [at EXCEPT ![m] = "wait", ![CoOf[m]] = "open"]
     \/ Goes(m, "receive")
  /\ UNCHANGED <<program, id, line, typed, queue, current, shown, noNotify, zero, old>>

WaitForCo(m) ==
  /\ at[m] = "wait" /\ at[CoOf[m]] = "ended" /\ Goes(m, "receive")
  /\ UNCHANGED <<program, id, line, typed, queue, current, shown, noNotify, zero, old>>

(* msgrcv fails when the queue has been removed: the last text is shown     *)
(* again, for ever if forks fail, which shown does not count.               *)
MainReceives(m) ==
  /\ m \in Mains /\ at[m] = "receive"
  /\ \/ /\ Held(m) # <<>> /\ Take(m) /\ line' = [line EXCEPT ![m] = Head(Held(m))]
        /\ IF Head(Held(m)).n = 0 THEN Goes(m, "ended") /\ UNCHANGED shown
           ELSE Goes(m, "fork") /\ Shows(m, Head(Held(m)))
     \/ ~Alive(m) /\ Goes(m, "fork") /\ UNCHANGED <<queue, line, shown>>
  /\ UNCHANGED <<program, id, typed, current, noNotify, zero, old>>

Kill(m) ==
  /\ m = "main1" /\ at[m] \in {"wait", "receive"} /\ Goes(m, "killed")
  /\ UNCHANGED <<program, id, line, typed, queue, current, shown, noNotify, zero, old>>

(* co_process.c                                                            *)

CoOpens(c) ==
  /\ c \in Cos /\ at[c] = "open" /\ Open(c) /\ Goes(c, "type")
  /\ UNCHANGED <<program, line, typed, shown, noNotify, zero, old>>

CoTypes(c) ==
  /\ c \in Cos /\ at[c] = "type" /\ typed["co1"] + typed["co2"] < MaxLines /\ Goes(c, "send")
  /\ typed' = [typed EXCEPT ![c] = @ + 1]
  /\ \E n \in {0, typed[c] + 1} : line' = [line EXCEPT ![c] = [by |-> c, n |-> n]]
  /\ UNCHANGED <<program, id, queue, current, shown, noNotify, zero, old>>

(* The message is not sent if its random type is 0, which msgsnd refuses    *)
(* (history zero), or if the queue is gone; co_process does not look.       *)
CoSends(c) ==
  /\ c \in Cos /\ at[c] = "send" /\ Goes(c, "ended")
  /\ \/ Alive(c) /\ Put(c) /\ UNCHANGED zero
     \/ ~Alive(c) /\ UNCHANGED <<queue, zero>>
     \/ line[c].n # 0 /\ zero' = TRUE /\ UNCHANGED queue
  /\ UNCHANGED <<program, id, line, typed, current, shown, noNotify, old>>
-----------------------------------------------------------------------------
(* msgq_client.c, msgq_server.c                                            *)

MsgqOpens(p) ==
  /\ program = "msgq" /\ p \in QueueClients \cup {"server"} /\ at[p] = "start"
  /\ Open(p) /\ Goes(p, IF p = "server" THEN "receive" ELSE "type")
  /\ UNCHANGED <<program, line, typed, shown, noNotify, zero, old>>

ClientTypes(c) ==
  /\ c \in QueueClients /\ at[c] = "type" /\ typed[c] < MaxLines /\ Goes(c, "send")
  /\ typed' = [typed EXCEPT ![c] = @ + 1]
  /\ line' = [line EXCEPT ![c] = [by |-> c, n |-> typed[c] + 1]]
  /\ UNCHANGED <<program, id, queue, current, shown, noNotify, zero, old>>

ClientSends(c) ==
  /\ c \in QueueClients /\ at[c] = "send" /\ Goes(c, "type")
  /\ (Alive(c) /\ Put(c)) \/ (~Alive(c) /\ UNCHANGED queue)
  /\ UNCHANGED <<program, id, line, typed, current, shown, noNotify, zero, old>>

(* mutated form: the queue stays                                           *)
ClientQuitsOnly(c) ==
  /\ c \in QueueClients /\ at[c] = "type" /\ Goes(c, "ended")
  /\ UNCHANGED <<program, id, line, typed, queue, current, shown, noNotify, zero, old>>

(* What has not been received goes with the queue.                         *)
ClientQuits(c) ==
  /\ c \in QueueClients /\ at[c] = "type" /\ Goes(c, "ended")
  /\ \/ Alive(c) /\ Removed(id[c]) /\ current' = 0
     \/ ~Alive(c) /\ UNCHANGED <<queue, current>>
  /\ UNCHANGED <<program, id, line, typed, shown, noNotify, zero, old>>

ServerReceives ==
  /\ at["server"] = "receive"
  /\ \/ Held("server") # <<>> /\ Take("server") /\ Shows("server", Head(Held("server"))) /\ UNCHANGED at
     \/ ~Alive("server") /\ Goes("server", "ended") /\ UNCHANGED <<queue, shown>>
  /\ UNCHANGED <<program, id, line, typed, current, noNotify, zero, old>>
-----------------------------------------------------------------------------
(* mq_notify.c, with SIGUSR1 blocked from before it registers              *)

NotifyOpens(p, next) ==
  /\ program = "notify" /\ at[p] = "start" /\ Open(p) /\ Goes(p, next)
  /\ UNCHANGED <<program, line, typed, shown, noNotify, zero, old>>
NotifierOpens == NotifyOpens("notifier", "register")

(* behind: messages that were there before the registration.               *)
Register ==
  /\ at["notifier"] = "register" /\ Goes("notifier", "suspend")
  /\ armed' = TRUE /\ behind' = (Held("notifier") # <<>>)
  /\ UNCHANGED <<program, id, line, typed, queue, current, shown, pending, zero, old>>

Suspend ==
  /\ at["notifier"] = "suspend" /\ pending /\ pending' = FALSE /\ Goes("notifier", "rearm")
  /\ UNCHANGED <<program, id, line, typed, queue, current, shown, armed, behind, zero, old>>

Rearm ==
  /\ at["notifier"] = "rearm" /\ Goes("notifier", "drain") /\ armed' = TRUE
  /\ UNCHANGED <<program, id, line, typed, queue, current, shown, pending, behind, zero, old>>

Drain ==
  /\ at["notifier"] = "drain"
  /\ \/ /\ Held("notifier") # <<>> /\ Take("notifier") /\ Shows("notifier", Head(Held("notifier")))
        /\ behind' = (behind /\ Len(Held("notifier")) > 1) /\ UNCHANGED at
     \/ Held("notifier") = <<>> /\ Goes("notifier", "suspend") /\ UNCHANGED <<queue, shown, behind>>
  /\ UNCHANGED <<program, id, line, typed, current, armed, pending, zero, old>>

(* pmsg_send.c, pmsg_receive.c                                             *)

SenderOpens == NotifyOpens("sender", "type")
ReceiverOpens == NotifyOpens("receiver", "receive")

SenderTypes ==
  /\ at["sender"] = "type" /\ typed["sender"] < MaxLines /\ Goes("sender", "send")
  /\ typed' = [typed EXCEPT !["sender"] = @ + 1]
  /\ \E n \in {0, typed["sender"] + 1} : line' = [line EXCEPT !["sender"] = [by |-> "sender", n |-> n]]
  /\ UNCHANGED <<program, id, queue, current, shown, noNotify, zero, old>>

AfterSend == IF line["sender"].n = 0 THEN "ended" ELSE "type"
AfterReceive(m) == IF m.n = 0 THEN "ended" ELSE "receive"
Receives(m) == IF m.n = 0 THEN UNCHANGED shown ELSE Shows("receiver", m)

(* A receiver that waits gets the message and nobody is notified; else the  *)
(* registration is used up by a message to the empty queue.                 *)
SenderSends ==
  /\ at["sender"] = "send"
  /\ \/ /\ at["receiver"] = "blocked"
        /\ at' = [at EXCEPT !["sender"] = AfterSend, !["receiver"] = AfterReceive(line["sender"])]
        /\ Receives(line["sender"]) /\ UNCHANGED <<queue, armed, pending>>
     \/ /\ at["receiver"] # "blocked" /\ Put("sender") /\ Goes("sender", AfterSend)
        /\ IF armed /\ Held("sender") = <<>> THEN armed' = FALSE /\ pending' = TRUE
           ELSE UNCHANGED <<armed, pending>>
        /\ UNCHANGED shown
  /\ UNCHANGED <<program, id, line, typed, current, behind, zero, old>>

ReceiverReceives ==
  /\ at["receiver"] = "receive"
  /\ \/ /\ Held("receiver") # <<>> /\ Take("receiver") /\ Receives(Head(Held("receiver")))
        /\ Goes("receiver", AfterReceive(Head(Held("receiver"))))
        /\ behind' = (behind /\ Len(Held("receiver")) > 1)
     \/ Held("receiver") = <<>> /\ Goes("receiver", "blocked") /\ UNCHANGED <<queue, shown, behind>>
  /\ UNCHANGED <<program, id, line, typed, current, armed, pending, zero, old>>
-----------------------------------------------------------------------------
(* Typing, starting and killing are the user's.                            *)
User ==
  \/ \E m \in Mains : Start(m) \/ Kill(m)
  \/ \E p \in Procs : CoTypes(p) \/ MsgqOpens(p) \/ ClientTypes(p) \/ ClientQuits(p)
  \/ NotifierOpens \/ SenderOpens \/ ReceiverOpens \/ SenderTypes

System(p) ==
  \/ p \in Mains /\ (Create(p) \/ Fork(p) \/ WaitForCo(p) \/ MainReceives(p))
  \/ CoOpens(p) \/ CoSends(p) \/ ClientSends(p)
  \/ p = "server" /\ ServerReceives
  \/ p = "notifier" /\ (Register \/ Suspend \/ Rearm \/ Drain)
  \/ p = "sender" /\ SenderSends
  \/ p = "receiver" /\ ReceiverReceives

Next == User \/ \E p \in Procs : System(p)
Spec == Init /\ [][Next]_vars /\ \A p \in Procs : WF_vars(System(p))
-----------------------------------------------------------------------------
(* A main started anew is not shown what was in the queue before, not even  *)
(* when a co_process of the one before lives on.                            *)
NothingOld == program = "lab3" => \A k \in DOMAIN shown["main2"] : shown["main2"][k] \notin old

(* While only one main has been started it shows the lines in the order     *)
(* they were typed, each once.                                              *)
LinesInOrder ==
  program = "lab3" /\ at["main2"] = "start" =>
    \A j, k \in DOMAIN shown["main1"] : j < k => shown["main1"][j].n < shown["main1"][k].n

(* The server and the receivers show what a sender sent in its order.       *)
SendersInOrder ==
  \A p \in {"server", "notifier", "receiver"} : \A j, k \in DOMAIN shown[p] :
    j < k /\ shown[p][j].by = shown[p][k].by => shown[p][j].n < shown[p][k].n \/ shown[p][k].n = 0

(* A notifier that waits has been told of what is in the queue, or will be   *)
(* told of the next: only messages from before it registered go unnoticed,  *)
(* and with them all that come until somebody else has emptied the queue.   *)
NoLostWakeUp ==
  at["notifier"] = "suspend" =>
    (IF Held("notifier") = <<>> THEN armed \/ pending ELSE pending \/ behind)

QueuesInv == TypeOK /\ NothingOld /\ LinesInOrder /\ SendersInOrder /\ NoLostWakeUp

(* What is sent to a notifier or a server is taken from the queue.          *)
IsTaken ==
  /\ at["notifier"] = "suspend" /\ Held("notifier") # <<>> ~> Held("notifier") = <<>> \/ behind
  /\ at["server"] = "receive" /\ Held("server") # <<>> ~> Held("server") = <<>>

(* The first client that ends ends the server with it.                     *)
ServerEnds ==
  \A c \in QueueClients :
    at[c] = "ended" /\ at["server"] = "receive" /\ id["server"] = id[c] ~> at["server"] = "ended"

(* A main that is alone ends after "exit", unless a type was 0 or a fork     *)
(* failed: then it waits for a message that nobody will send.               *)
MainEnds ==
  at["co1"] = "send" /\ line["co1"].n = 0 /\ at["main1"] = "wait" ~>
    at["main1"] \in {"ended", "killed"} \/ zero \/ at["main2"] # "start"

QueuesEnd == IsTaken /\ ServerEnds /\ MainEnds
=============================================================================
