---------------------------- MODULE ShmExchange ----------------------------
(***************************************************************************)
(* ex4/2017A7PS0097P_lab4: server.c keeps one data_item in shared memory   *)
(* and two named POSIX semaphores; client.c forks sub-clients that take    *)
(* turns to fill the item in.  "semaphore_client" = 1 means a sub-client   *)
(* may write, "semaphore_server" = 1 means the server may read.            *)
(*                                                                         *)
(* The item is copied by memmove and printed field by field, so the fields *)
(* are written and read one at a time.  What a field holds is abstracted   *)
(* to the sub-client whose value it is.  A sub-client can be killed at any *)
(* point, and SIGINT can stop the server at any point.                     *)
(***************************************************************************)
EXTENDS Naturals, FiniteSets

CONSTANTS
  SubClients,   \* the processes client.c forks
  Fields,       \* the fields of data_item
  NoItem,       \* what the fresh segment holds (zeros)
  Unread,       \* a field the server has not printed yet
  MayDie,       \* the sub-clients that may be killed
  MayStop       \* TRUE when the operator may press Ctrl-C at the server

ASSUME ShmAssumption ==
  /\ IsFiniteSet(SubClients)
  /\ Fields # {}
  /\ NoItem \notin SubClients
  /\ Unread \notin SubClients \cup {NoItem}
  /\ MayDie \subseteq SubClients
  /\ MayStop \in BOOLEAN

VARIABLES
  semClient, semServer,   \* the values of the two semaphores
  shm,                    \* the data_item in the segment, per field
  pc,                     \* where each sub-client is
  written,                \* the fields a sub-client has copied so far
  mainDone,               \* client.c's parent has returned from main
  srv,                    \* where the server is
  got,                    \* the fields printed so far, with what they held
  count,                  \* server.c's count
  shown,                  \* history: whose fields the server has printed
  report                  \* what the SIGINT handler printed, as a set

vars == <<semClient, semServer, shm, pc, written, mainDone,
          srv, got, count, shown, report>>
clientVars == <<pc, written, mainDone>>
serverVars == <<srv, got, count, shown, report>>

ClientPC == {"unborn", "wait", "input", "write", "done", "dead", "lost"}
ServerPC == {"wait", "read", "count", "post", "exited"}

Item(c) == [f \in Fields |-> c]

TypeOK ==
  /\ semClient \in Nat /\ semServer \in Nat
  /\ shm \in [Fields -> SubClients \cup {NoItem}]
  /\ pc \in [SubClients -> ClientPC]
  /\ written \in [SubClients -> SUBSET Fields]
  /\ mainDone \in BOOLEAN
  /\ srv \in ServerPC
  /\ got \in [Fields -> SubClients \cup {NoItem, Unread}]
  /\ count \in Nat
  /\ shown \in SUBSET (SubClients \cup {NoItem})
  /\ report \in SUBSET Nat

(* The server has created both semaphores and the segment; it runs before  *)
(* any client can open them.                                               *)
Init ==
  /\ semClient = 1 /\ semServer = 0
  /\ shm = Item(NoItem)
  /\ pc = [c \in SubClients |-> "unborn"]
  /\ written = [c \in SubClients |-> {}]
  /\ mainDone = FALSE
  /\ srv = "wait"
  /\ got = Item(Unread)
  /\ count = 0
  /\ shown = {}
  /\ report = {}

Goto(c, from, to) == pc[c] = from /\ pc' = [pc EXCEPT ![c] = to]
ServerGoto(from, to) == srv = from /\ srv' = to
-----------------------------------------------------------------------------
(* The client: the parent forks, each child runs its critical section.     *)

Fork(c) ==
  /\ Goto(c, "unborn", "wait")
  /\ UNCHANGED <<semClient, semServer, shm, written, mainDone>>
  /\ UNCHANGED serverVars

(* fork() returned -1: the parent just goes on with the loop.              *)
ForkFails(c) ==
  /\ c \in MayDie
  /\ Goto(c, "unborn", "dead")
  /\ UNCHANGED <<semClient, semServer, shm, written, mainDone>>
  /\ UNCHANGED serverVars

(* mutated form: the sub-client goes on although sem_wait has not returned *)
ClientWaitUnguarded(c) ==
  /\ semClient' = semClient - 1
  /\ Goto(c, "wait", "input")
  /\ UNCHANGED <<semServer, shm, written, mainDone>>
  /\ UNCHANGED serverVars

ClientWait(c) ==
  /\ semClient > 0
  /\ semClient' = semClient - 1
  /\ Goto(c, "wait", "input")
  /\ UNCHANGED <<semServer, shm, written, mainDone>>
  /\ UNCHANGED serverVars

(* mmap, then scanf returns: the user has typed a and b.                   *)
Input(c) ==
  /\ Goto(c, "input", "write")
  /\ UNCHANGED <<semClient, semServer, shm, written, mainDone>>
  /\ UNCHANGED serverVars

(* One field of the memmove.                                               *)
WriteField(c, f) ==
  /\ pc[c] = "write"
  /\ f \notin written[c]
  /\ shm' = [shm EXCEPT ![f] = c]
  /\ written' = [written EXCEPT ![c] = @ \cup {f}]
  /\ UNCHANGED <<semClient, semServer, pc, mainDone>>
  /\ UNCHANGED serverVars

ClientPost(c) ==
  /\ written[c] = Fields
  /\ Goto(c, "write", "done")
  /\ semServer' = semServer + 1
  /\ UNCHANGED <<semClient, shm, written, mainDone>>
  /\ UNCHANGED serverVars

(* A signal ends the sub-client: "lost" when it has waited for the client  *)
(* semaphore and not yet posted the server's.                              *)
Kill(c) ==
  /\ c \in MayDie
  /\ \/ Goto(c, "wait", "dead")
     \/ Goto(c, "input", "lost")
     \/ Goto(c, "write", "lost")
  /\ UNCHANGED <<semClient, semServer, shm, written, mainDone>>
  /\ UNCHANGED serverVars

(* while (wait(NULL) > 0); return 0;                                       *)
MainReturn ==
  /\ ~mainDone
  /\ \A c \in SubClients : pc[c] \in {"done", "dead", "lost"}
  /\ mainDone' = TRUE
  /\ UNCHANGED <<semClient, semServer, shm, pc, written>>
  /\ UNCHANGED serverVars
-----------------------------------------------------------------------------
(* The server's loop.                                                      *)

ServerWait ==
  /\ semServer > 0
  /\ semServer' = semServer - 1
  /\ ServerGoto("wait", "read")
  /\ got' = Item(Unread)
  /\ UNCHANGED <<semClient, shm, count, shown, report>>
  /\ UNCHANGED clientVars

(* One printf of a field of *ptr.                                          *)
ReadField(f) ==
  /\ srv = "read"
  /\ got[f] = Unread
  /\ got' = [got EXCEPT ![f] = shm[f]]
  /\ UNCHANGED <<semClient, semServer, shm, srv, count, shown, report>>
  /\ UNCHANGED clientVars

Shown ==
  /\ \A f \in Fields : got[f] # Unread
  /\ ServerGoto("read", "count")
  /\ shown' = shown \cup {got[f] : f \in Fields}
  /\ UNCHANGED <<semClient, semServer, shm, got, count, report>>
  /\ UNCHANGED clientVars

(* mutated form: the segment is handed back without counting the item       *)
CountItemSkipped ==
  /\ ServerGoto("count", "wait")
  /\ semClient' = semClient + 1
  /\ UNCHANGED <<semServer, shm, got, count, shown, report>>
  /\ UNCHANGED clientVars

CountItem ==
  /\ ServerGoto("count", "post")
  /\ count' = count + 1
  /\ UNCHANGED <<semClient, semServer, shm, got, shown, report>>
  /\ UNCHANGED clientVars

(* mutated form: the server posts the semaphore it has just waited for     *)
ServerPostWrongSemaphore ==
  /\ ServerGoto("post", "wait")
  /\ semServer' = semServer + 1
  /\ UNCHANGED <<semClient, shm, got, count, shown, report>>
  /\ UNCHANGED clientVars

(* mutated form: the server does not hand the segment back                 *)
ServerPostMissing ==
  /\ ServerGoto("post", "wait")
  /\ UNCHANGED <<semClient, semServer, shm, got, count, shown, report>>
  /\ UNCHANGED clientVars

ServerPost ==
  /\ ServerGoto("post", "wait")
  /\ semClient' = semClient + 1
  /\ UNCHANGED <<semServer, shm, got, count, shown, report>>
  /\ UNCHANGED clientVars

(* handler(): print the count and exit, wherever main was.                 *)
Sigint ==
  /\ MayStop
  /\ srv # "exited"
  /\ srv' = "exited"
  /\ report' = {count}
  /\ UNCHANGED <<semClient, semServer, shm, got, count, shown>>
  /\ UNCHANGED clientVars
-----------------------------------------------------------------------------
SubClientStep(c) ==
  \/ ClientWait(c)
  \/ Input(c)
  \/ \E f \in Fields : WriteField(c, f)
  \/ ClientPost(c)

ServerStep ==
  \/ ServerWait
  \/ \E f \in Fields : ReadField(f)
  \/ Shown
  \/ CountItem
  \/ ServerPost

Next ==
  \/ \E c \in SubClients :
       Fork(c) \/ ForkFails(c) \/ SubClientStep(c) \/ Kill(c)
  \/ MainReturn
  \/ ServerStep
  \/ Sigint

Spec == Init /\ [][Next]_vars

(* A runnable process is scheduled, and the user answers a prompt.  The    *)
(* operating system owes no fairness to signals or to failures of fork.    *)
Fairness ==
  /\ \A c \in SubClients : WF_vars(Fork(c)) /\ WF_vars(SubClientStep(c))
  /\ WF_vars(MainReturn)
  /\ WF_vars(ServerStep)

FairSpec == Spec /\ Fairness
-----------------------------------------------------------------------------
Sent == {c \in SubClients : pc[c] = "done"}
Holding(c) == pc[c] \in {"input", "write", "lost"}
Reading == srv \in {"read", "count", "post"}

(* The segment has one owner at a time: while a sub-client is between its  *)
(* sem_wait and its sem_post (or was killed there), no other sub-client is *)
(* and the server is not between its own two calls; and a semaphore that   *)
(* can be waited for means that nobody is inside.                          *)
OneOwner ==
  /\ semClient + semServer <= 1
  /\ \A c \in SubClients : Holding(c) =>
       /\ semClient = 0 /\ semServer = 0 /\ ~Reading
       /\ \A d \in SubClients : Holding(d) => d = c
  /\ Reading => semClient = 0 /\ semServer = 0

(* The server never prints a mixture of two items, nor a segment that is   *)
(* still zero: what it has printed so far is part of one posted item.      *)
NoTornItem ==
  srv = "read" =>
    \E c \in Sent \ shown : \A f \in Fields : got[f] \in {Unread, c}

(* What the segment holds follows who owns it; with OneOwner this is the    *)
(* inductive invariant behind NoTornItem and ImplementsMailbox.             *)
Waiting == semServer = 1 \/ srv = "read"
DataInv ==
  /\ shown \subseteq Sent
  /\ Waiting => \E c \in Sent \ shown :
       /\ \A f \in Fields : shm[f] = c
       /\ Sent \ shown = {c}
  /\ srv = "read" => \A f \in Fields : got[f] \in {Unread, shm[f]}
  /\ \A c \in SubClients : pc[c] = "write" =>
       \A f \in written[c] : shm[f] = c
  /\ \A c \in SubClients : pc[c] \in {"unborn", "wait", "input"} => written[c] = {}
  /\ semClient = 1 \/ (\E c \in SubClients : Holding(c)) \/ srv \in {"count", "post"}
       => Sent = shown

(* The inductive invariant.                                                 *)
ExchangeInv == TypeOK /\ OneOwner /\ DataInv

(* The count is the number of items printed, but for the one the server is *)
(* about to count; a Ctrl-C between the last printf and count++ reports    *)
(* one item too few, never more and never two.                             *)
CountIsItemsShown ==
  /\ srv \notin {"count", "exited"} => count = Cardinality(shown)
  /\ srv = "count" => count + 1 = Cardinality(shown)
  /\ srv = "exited" => /\ report = {count}
                       /\ Cardinality(shown) \in {count, count + 1}

(* An item leaves the segment at most once, and only after it was posted:  *)
(* the server's loop implements the one-place mailbox.                     *)
Box == INSTANCE Mailbox WITH Items <- SubClients,
                             sent <- Sent, delivered <- shown
ImplementsMailbox == Box!Spec

(* Every sub-client that reaches its sem_wait gets its item printed, unless *)
(* it is killed itself, the server is stopped, or some sub-client was       *)
(* killed while it held the segment: nothing else blocks the exchange.      *)
ItemsGetThrough ==
  \A c \in SubClients :
    pc[c] = "wait" ~> \/ c \in shown
                      \/ pc[c] \in {"dead", "lost"}
                      \/ srv = "exited"
                      \/ \E d \in SubClients : pc[d] = "lost"

(* client.c's parent returns once its children are gone, whatever order     *)
(* they finish in; a child blocked by a lost one keeps it waiting.          *)
ParentReturns ==
  <>(mainDone \/ srv = "exited" \/ \E d \in SubClients : pc[d] = "lost")

(* Nobody waits for ever but for a sub-client killed inside, or the server.  *)
ExchangeEnds == ItemsGetThrough /\ ParentReturns
=============================================================================
