------------------------------ MODULE SysvShm ------------------------------
(***************************************************************************)
(* ex4/server_ibm.c and ex4/client_ibm.c: a server that creates a set of   *)
(* two System V semaphores and a shared segment, prints NUMMSG messages    *)
(* and removes both again; and clients that look both up and write one     *)
(* message each.  Semaphore 0 says "in use", semaphore 1 "changed".        *)
(*                                                                         *)
(* Several servers may be started, one after the other or at once; an      *)
(* object is named by the server that created it, as its identifier is not *)
(* used again.  A client finds a segment and attaches it in two steps, and  *)
(* tests the address for NULL where shmat returns -1.  strcpy and printf    *)
(* run over the segment in two halves.                                     *)
(***************************************************************************)
EXTENDS Integers, FiniteSets

CONSTANTS Servers, Clients, NUMMSG,
          MayDie,   \* the processes that may be killed
          None      \* no object; nobody's text

ASSUME SysvAssumption ==
  /\ IsFiniteSet(Servers) /\ IsFiniteSet(Clients) /\ Servers \cap Clients = {}
  /\ NUMMSG \in Nat \ {0} /\ MayDie \subseteq Servers \cup Clients
  /\ None \notin Servers \cup Clients

VARIABLES
  semset, segment,    \* what the two keys lead to
  used, changed,      \* semaphores 0 and 1 of each set
  text,               \* what each segment holds, half by half
  srv, seen, i,       \* servers: place, halves printed, messages printed
  cli, semid, shmid,  \* clients: place, identifiers found
  attached,           \* the clients whose shm_address is one
  overtaken           \* history: segments written over an unread message

objects == <<semset, segment>>
serverVars == <<srv, seen, i>>
clientVars == <<cli, semid, shmid, attached>>
vars == <<objects, used, changed, text, serverVars, clientVars, overtaken>>

Ended == {"done", "failed", "killed", "crashed"}
Half == {1, 2}
ServerPC == {"semget", "setall", "shmget", "wait", "print1", "print2", "free", "rmsem",
             "rmshm"} \cup Ended
ClientPC == {"semget", "shmget", "attach", "lock", "write1", "write2", "release"} \cup Ended

TypeOK ==
  /\ semset \in Servers \cup {None} /\ segment \in Servers \cup {None}
  /\ used \in [Servers -> Nat] /\ changed \in [Servers -> Nat]
  /\ text \in [Servers -> [Half -> Clients \cup {None}]]
  /\ srv \in [Servers -> ServerPC]
  /\ seen \in [Servers -> [Half -> Clients \cup {None}]]
  /\ i \in [Servers -> 0 .. NUMMSG]
  /\ cli \in [Clients -> ClientPC]
  /\ semid \in [Clients -> Servers \cup {None}] /\ shmid \in [Clients -> Servers \cup {None}]
  /\ attached \subseteq Clients
  /\ overtaken \subseteq Servers

Init ==
  /\ semset = None /\ segment = None
  /\ used = [s \in Servers |-> 0] /\ changed = used
  /\ text = [s \in Servers |-> [h \in Half |-> None]] /\ seen = text
  /\ srv = [s \in Servers |-> "semget"] /\ i = [s \in Servers |-> 0]
  /\ cli = [c \in Clients |-> "semget"]
  /\ semid = [c \in Clients |-> None] /\ shmid = semid /\ attached = {}
  /\ overtaken = {}

ServerGoto(s, from, to) == srv[s] = from /\ srv' = [srv EXCEPT ![s] = to]
ClientGoto(c, from, to) == cli[c] = from /\ cli' = [cli EXCEPT ![c] = to]
-----------------------------------------------------------------------------
(* The server.  IPC_CREAT | IPC_EXCL: an object that exists is an error,   *)
(* and what was created before it stays.                                   *)

CreateSet(s) ==
  /\ \/ semset = None /\ semset' = s /\ ServerGoto(s, "semget", "setall")
     \/ semset # None /\ ServerGoto(s, "semget", "failed") /\ UNCHANGED semset
  /\ UNCHANGED <<segment, used, changed, text, seen, i, clientVars, overtaken>>

SetAll(s) ==
  /\ ServerGoto(s, "setall", "shmget")
  /\ used' = [used EXCEPT ![s] = 0] /\ changed' = [changed EXCEPT ![s] = 0]
  /\ UNCHANGED <<objects, text, seen, i, clientVars, overtaken>>

CreateSegment(s) ==
  /\ \/ segment = None /\ segment' = s /\ ServerGoto(s, "shmget", "wait")
     \/ segment # None /\ ServerGoto(s, "shmget", "failed") /\ UNCHANGED segment
  /\ UNCHANGED <<semset, used, changed, text, seen, i, clientVars, overtaken>>

(* mutated form: the segment is not marked as in use                       *)
TakeNotBusy(s) ==
  /\ changed[s] > 0
  /\ changed' = [changed EXCEPT ![s] = @ - 1]
  /\ ServerGoto(s, "wait", "print1")
  /\ UNCHANGED <<objects, used, text, seen, i, clientVars, overtaken>>

(* One semop: semaphore 1 down and semaphore 0 up, together.               *)
Take(s) ==
  /\ changed[s] > 0
  /\ changed' = [changed EXCEPT ![s] = @ - 1]
  /\ used' = [used EXCEPT ![s] = @ + 1]
  /\ ServerGoto(s, "wait", "print1")
  /\ UNCHANGED <<objects, text, seen, i, clientVars, overtaken>>

PrintHalf(s) ==
  /\ \E h \in Half :
       /\ \/ h = 1 /\ ServerGoto(s, "print1", "print2")
          \/ h = 2 /\ ServerGoto(s, "print2", "free")
       /\ seen' = [seen EXCEPT ![s][h] = text[s][h]]
  /\ UNCHANGED <<objects, used, changed, text, i, clientVars, overtaken>>

(* IPC_NOWAIT: the server fails when semaphore 0 is 0 already.             *)
Free(s) ==
  /\ \/ /\ used[s] > 0
        /\ used' = [used EXCEPT ![s] = @ - 1]
        /\ i' = [i EXCEPT ![s] = @ + 1]
        /\ ServerGoto(s, "free", IF i[s] + 1 = NUMMSG THEN "rmsem" ELSE "wait")
     \/ used[s] = 0 /\ ServerGoto(s, "free", "failed") /\ UNCHANGED <<used, i>>
  /\ UNCHANGED <<objects, changed, text, seen, clientVars, overtaken>>

RemoveSet(s) ==
  /\ ServerGoto(s, "rmsem", "rmshm")
  /\ semset' = None
  /\ UNCHANGED <<segment, used, changed, text, seen, i, clientVars, overtaken>>

RemoveSegment(s) ==
  /\ ServerGoto(s, "rmshm", "done")
  /\ segment' = None
  /\ UNCHANGED <<semset, used, changed, text, seen, i, clientVars, overtaken>>
-----------------------------------------------------------------------------
(* The client.                                                             *)

FindSet(c) ==
  /\ ClientGoto(c, "semget", IF semset = None THEN "failed" ELSE "shmget")
  /\ semid' = [semid EXCEPT ![c] = semset]
  /\ UNCHANGED <<objects, used, changed, text, serverVars, shmid, attached, overtaken>>

FindSegment(c) ==
  /\ ClientGoto(c, "shmget", IF segment = None THEN "failed" ELSE "attach")
  /\ shmid' = [shmid EXCEPT ![c] = segment]
  /\ UNCHANGED <<objects, used, changed, text, serverVars, semid, attached, overtaken>>

(* A segment that was removed is there until the last one detaches it.     *)
Exists(x) == segment = x \/ \E d \in attached : shmid[d] = x /\ cli[d] \notin Ended

(* shmat fails when the segment is not there, and the client goes on.      *)
Attach(c) ==
  /\ ClientGoto(c, "attach", "lock")
  /\ attached' = attached \cup {d \in {c} : Exists(shmid[d])}
  /\ UNCHANGED <<objects, used, changed, text, serverVars, semid, shmid, overtaken>>

(* semop on a set that was removed, or is removed while it waits, fails.   *)
SetIsGone(c, from) ==
  /\ semset # semid[c]
  /\ ClientGoto(c, from, "failed")
  /\ UNCHANGED <<objects, used, changed, text, serverVars, semid, shmid, attached, overtaken>>

Entered(c) == overtaken' = overtaken \cup {s \in {semid[c]} : changed[s] > 0}

(* One semop: wait for semaphore 0 to be zero and raise it.                *)
Lock(c) ==
  /\ ClientGoto(c, "lock", "write1")
  /\ semset = semid[c] /\ used[semid[c]] = 0
  /\ used' = [used EXCEPT ![semid[c]] = @ + 1]
  /\ Entered(c)
  /\ UNCHANGED <<objects, changed, text, serverVars, semid, shmid, attached>>

WriteHalf(c) ==
  /\ c \in attached
  /\ \E h \in Half :
       /\ \/ h = 1 /\ ClientGoto(c, "write1", "write2")
          \/ h = 2 /\ ClientGoto(c, "write2", "release")
       /\ text' = [text EXCEPT ![shmid[c]][h] = c]
  /\ UNCHANGED <<objects, used, changed, serverVars, semid, shmid, attached, overtaken>>

(* strcpy to the address -1: semaphore 0 stays raised.                     *)
Crash(c) ==
  /\ c \notin attached /\ ClientGoto(c, "write1", "crashed")
  /\ UNCHANGED <<objects, used, changed, text, serverVars, semid, shmid, attached, overtaken>>

(* mutated form: semaphore 0 is left as it is                              *)
ReleaseStaysBusy(c) ==
  /\ ClientGoto(c, "release", "done")
  /\ semset = semid[c] /\ used[semid[c]] > 0
  /\ changed' = [changed EXCEPT ![semid[c]] = @ + 1]
  /\ UNCHANGED <<objects, used, text, serverVars, semid, shmid, attached, overtaken>>

(* One semop: semaphore 0 down, semaphore 1 up.                            *)
Release(c) ==
  /\ ClientGoto(c, "release", "done")
  /\ semset = semid[c] /\ used[semid[c]] > 0
  /\ used' = [used EXCEPT ![semid[c]] = @ - 1]
  /\ changed' = [changed EXCEPT ![semid[c]] = @ + 1]
  /\ UNCHANGED <<objects, text, serverVars, semid, shmid, attached, overtaken>>
-----------------------------------------------------------------------------
(* No SEM_UNDO: a process that is killed leaves semaphores and objects as  *)
(* they are.                                                               *)
Kill ==
  /\ \/ \E s \in MayDie \cap Servers : /\ srv[s] \notin Ended
                                       /\ srv' = [srv EXCEPT ![s] = "killed"]
                                       /\ UNCHANGED cli
     \/ \E c \in MayDie \cap Clients : /\ cli[c] \notin Ended
                                       /\ cli' = [cli EXCEPT ![c] = "killed"]
                                       /\ UNCHANGED srv
  /\ UNCHANGED <<objects, used, changed, text, seen, i, semid, shmid, attached, overtaken>>

ServerStep(s) ==
  \/ SetAll(s) \/ CreateSegment(s) \/ Take(s) \/ PrintHalf(s) \/ Free(s)
  \/ RemoveSet(s) \/ RemoveSegment(s)
ClientStep(c) ==
  \/ FindSegment(c) \/ Attach(c) \/ SetIsGone(c, "lock") \/ SetIsGone(c, "release")
  \/ Lock(c) \/ WriteHalf(c) \/ Crash(c) \/ Release(c)

Next ==
  \/ \E s \in Servers : CreateSet(s) \/ ServerStep(s)
  \/ \E c \in Clients : FindSet(c) \/ ClientStep(c)
  \/ Kill
Spec == Init /\ [][Next]_vars

(* Processes that run go on; nobody owes to be started.                    *)
FairSpec == /\ Spec
            /\ \A s \in Servers : WF_vars(ServerStep(s))
            /\ \A c \in Clients : WF_vars(ClientStep(c))
-----------------------------------------------------------------------------
Writing(s) == {c \in Clients : cli[c] \in {"write1", "write2", "release"} /\ semid[c] = s}
Printing(s) == srv[s] \in {"print1", "print2", "free"}
Running(s) == srv[s] = "wait" \/ Printing(s)
NobodyKilled == "killed" \notin {srv[s] : s \in Servers} \cup {cli[c] : c \in Clients}

(* A client has found the set of s, but the segment of the server before.  *)
Astray(c, s) == semid[c] = s /\ shmid[c] \notin {s, None}
Sound(s) == NobodyKilled /\ \A c \in Clients : ~Astray(c, s)

(* "The shared memory segment is being used": semaphore 0 of a running      *)
(* server counts the processes inside, of which at most one is a client;    *)
(* unless somebody was killed, or a client came as the server before was    *)
(* between removing its set and its segment (SETALL forgets that client).   *)
UsedIsInside ==
  \A s \in Servers : Sound(s) /\ Running(s) =>
    /\ used[s] = Cardinality(Writing(s)) + IF Printing(s) THEN 1 ELSE 0
    /\ Cardinality(Writing(s)) <= 1

(* Whatever servers come, go and are killed: the segment of a running one   *)
(* is written only under its own semaphores, though a client looks the two  *)
(* objects up one after the other.                                          *)
SameRun ==
  \A c \in Clients : cli[c] \in {"write1", "write2", "release"} /\ Running(shmid[c]) =>
    semid[c] = shmid[c]

(* What a server prints is one client's message, whole, unless a client was *)
(* let in before an earlier message had been taken (or as in UsedIsInside). *)
ReceivedIntact ==
  \A s \in Servers \ overtaken : Sound(s) /\ srv[s] = "free" =>
    seen[s][1] = seen[s][2] /\ seen[s][1] # None

SegmentInv == TypeOK /\ UsedIsInside /\ SameRun /\ ReceivedIntact

(* A client that has found both objects ends, with its message written or   *)
(* an error, whatever servers come and go (or as in UsedIsInside: a client   *)
(* astray may have crashed, and nobody lowers semaphore 0 again).           *)
ClientsEnd ==
  \A c \in Clients :
    cli[c] = "attach" ~> cli[c] \in Ended \/ \E s \in Servers : semid[c] = s /\ ~Sound(s)
=============================================================================
