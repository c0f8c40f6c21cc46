------------------------------ MODULE Handoff ------------------------------
(***************************************************************************)
(* Small programs whose processes wait for each other:                     *)
(*  - alternate: sem_wait_post.c, parent and child in turn through two      *)
(*    named semaphores, which outlive a run that is killed;                 *)
(*  - semop: semopPC.c, where the child takes what the parent gives, and    *)
(*    seminit.c, which sets the semaphore of the same key;                  *)
(*  - shelf: producer.c and consumer.c;                                     *)
(*  - oneshot: shmserver.c and shmclient.c, the protocol of SysvShm for one *)
(*    message with no result looked at;                                     *)
(*  - sync: Signals/sync.c, where kill and pause take turns;                *)
(*  - critical: Signals/critical.c, which waits out its section with SIGQUIT *)
(*    blocked.                                                              *)
(***************************************************************************)
EXTENDS Integers, Sequences

CONSTANTS Rounds,   \* turns of the loops (100, 5000, 3)
          Tokens,   \* what semopPC sets, and producer adds (100, 10)
          Preset    \* what seminit sets (6)

VARIABLES program,  \* which of the six
          at, n,    \* per process: where it is; turns it has done
          sem,      \* the values of the semaphores
          there,    \* what exists: names or sets of semaphores, the segment
          sees,     \* oneshot: what a process has got hold of
          shown,    \* what the loops have printed, by whom
          signalled,\* sync: who has a SIGUSR1 pending
          missed,   \* history: a signal came while nobody waited for it, or was ready
          kills     \* bound: runs that were killed, seminits, SIGQUITs

vars == <<program, at, n, sem, there, sees, shown, signalled, missed, kills>>

Pair == {"parent", "child"}
Producers == {"producer1", "producer2"}
ShmClients == {"client1", "client2"}
Procs == Pair \cup Producers \cup ShmClients \cup {"consumer", "server"}
Other == [parent |-> "child", child |-> "parent"]
Things == {"sem", "shm"}

TypeOK ==
  /\ program \in {"alternate", "semop", "shelf", "oneshot", "sync", "critical"}
  /\ at \in [Procs -> {"off", "start", "turn", "wait", "hold", "setall", "shmget", "enter", "write",
                       "leave", "read", "free", "remove", "sleep", "kill", "pause", "ended", "crashed"}]
  /\ n \in [Procs -> 0 .. Rounds] /\ sem \in [1 .. 2 -> Nat]
  /\ there \subseteq Things /\ sees \in [Procs -> SUBSET Things]
  /\ shown \in Seq(Pair) /\ signalled \subseteq Pair /\ missed \in BOOLEAN /\ kills \in 0 .. 2

Starts(procs) == [p \in Procs |-> IF p \in procs THEN "start" ELSE "off"]

(* A semaphore of producer and consumer keeps what an earlier run left.    *)
Init ==
  /\ \/ program \in {"alternate", "semop"} /\ at = Starts({"parent"}) /\ sem = <<0, 0>>
     \/ /\ program = "shelf" /\ sem \in {<<0, 0>>, <<1, 0>>}
        /\ at = [p \in Procs |-> IF p \in Producers \cup {"consumer"} THEN "turn" ELSE "off"]
     \/ program = "oneshot" /\ at = Starts({"server"} \cup ShmClients) /\ sem = <<0, 0>>
     \/ program \in {"sync", "critical"} /\ at = Starts({"parent"}) /\ sem = <<0, 0>>
  /\ n = [p \in Procs |-> 0] /\ there = {} /\ sees = [p \in Procs |-> {}]
  /\ shown = <<>> /\ signalled = {} /\ missed = FALSE /\ kills = 0

Goes(p, to) == at' = [at EXCEPT ![p] = to]
Turns(p) == n' = [n EXCEPT ![p] = @ + 1]
noSignals == <<signalled, missed>>
-----------------------------------------------------------------------------
(* sem_wait_post.c                                                         *)

(* sem_open without O_EXCL: a semaphore that is there keeps its value.     *)
AltStart ==
  /\ program = "alternate" /\ at["parent"] = "start"
  /\ at' = [at EXCEPT !["parent"] = "wait", !["child"] = "wait"]
  /\ sem' = IF "sem" \in there THEN sem ELSE <<1, 0>>
  /\ there' = {"sem"} /\ n' = [p \in Procs |-> 0] /\ shown' = <<>>
  /\ UNCHANGED <<program, sees, noSignals, kills>>

Mine(p) == IF p = "parent" THEN 1 ELSE 2

SemWait(p) ==
  /\ program = "alternate" /\ at[p] = "wait" /\ sem[Mine(p)] > 0
  /\ sem' = [sem EXCEPT ![Mine(p)] = @ - 1]
  /\ Goes(p, "hold") /\ shown' = Append(shown, p)
  /\ UNCHANGED <<program, n, there, sees, noSignals, kills>>

SemPost(p) ==
  /\ program = "alternate" /\ at[p] = "hold"
  /\ sem' = [sem EXCEPT ![Mine(Other[p])] = @ + 1]
  /\ Turns(p) /\ Goes(p, IF n[p] + 1 < Rounds THEN "wait" ELSE "leave")
  /\ UNCHANGED <<program, there, sees, shown, noSignals, kills>>

(* The names are unlinked by both; the parent waits for its child.         *)
AltLeave(p) ==
  /\ program = "alternate" /\ at[p] = "leave" /\ (p = "parent" => at["child"] = "ended")
  /\ Goes(p, "ended") /\ there' = {}
  /\ UNCHANGED <<program, n, sem, sees, shown, noSignals, kills>>

(* Control-C; the program is started again.                                *)
Interrupted ==
  /\ program = "alternate" /\ kills = 0 /\ kills' = 1
  /\ \E p \in Pair : at[p] \in {"wait", "hold", "leave"}
  /\ at' = Starts({"parent"})
  /\ UNCHANGED <<program, n, sem, there, sees, shown, noSignals>>
-----------------------------------------------------------------------------
(* semopPC.c, seminit.c                                                    *)

SetVal ==
  /\ program = "semop" /\ at["parent"] = "start"
  /\ sem' = [sem EXCEPT ![1] = Tokens]
  /\ at' = [at EXCEPT !["parent"] = "turn", !["child"] = "turn"]
  /\ UNCHANGED <<program, n, there, sees, shown, noSignals, kills>>

Acquire ==
  /\ program = "semop" /\ at["child"] = "turn" /\ sem[1] > 0
  /\ sem' = [sem EXCEPT ![1] = @ - 1] /\ Turns("child")
  /\ Goes("child", IF n["child"] + 1 < Rounds THEN "turn" ELSE "ended")
  /\ UNCHANGED <<program, there, sees, shown, noSignals, kills>>

Release ==
  /\ program = "semop" /\ at["parent"] = "turn"
  /\ sem' = [sem EXCEPT ![1] = @ + 1] /\ Turns("parent")
  /\ Goes("parent", IF n["parent"] + 1 < Rounds THEN "turn" ELSE "ended")
  /\ UNCHANGED <<program, there, sees, shown, noSignals, kills>>

Seminit ==
  /\ program = "semop" /\ at["parent"] # "start" /\ kills = 0 /\ kills' = 1
  /\ sem' = [sem EXCEPT ![1] = Preset]
  /\ UNCHANGED <<program, at, n, there, sees, shown, noSignals>>
-----------------------------------------------------------------------------
(* producer.c, consumer.c: waiting for 0 and adding are one semop.         *)

(* mutated form: it does not wait for the shelf to be empty                *)
ProduceAnyTime(p) ==
  /\ p \in Producers /\ at[p] = "turn" /\ n[p] < Rounds
  /\ sem' = [sem EXCEPT ![1] = @ + Tokens] /\ Turns(p)
  /\ UNCHANGED <<program, at, there, sees, shown, noSignals, kills>>

Produce(p) ==
  /\ p \in Producers /\ at[p] = "turn" /\ n[p] < Rounds
  /\ sem[1] = 0 /\ sem' = [sem EXCEPT ![1] = Tokens] /\ Turns(p)
  /\ UNCHANGED <<program, at, there, sees, shown, noSignals, kills>>

Consume ==
  /\ at["consumer"] = "turn" /\ sem[1] > 0 /\ sem' = [sem EXCEPT ![1] = @ - 1]
  /\ UNCHANGED <<program, at, n, there, sees, shown, noSignals, kills>>
-----------------------------------------------------------------------------
(* shmserver.c, shmclient.c.  Semaphore 1 is theirs of number 0.           *)

(* The sets and the segment are created with IPC_EXCL.                     *)
ServerCreates ==
  /\ program = "oneshot" /\ at["server"] \in {"start", "setall", "shmget"}
  /\ \/ at["server"] = "start" /\ there' = there \cup {"sem"} /\ Goes("server", "setall") /\ UNCHANGED sem
     \/ at["server"] = "setall" /\ sem' = <<0, 0>> /\ Goes("server", "shmget") /\ UNCHANGED there
     \/ at["server"] = "shmget" /\ there' = there \cup {"shm"} /\ Goes("server", "wait") /\ UNCHANGED sem
  /\ UNCHANGED <<program, n, sees, shown, noSignals, kills>>

ServerWaits ==
  /\ at["server"] = "wait" /\ sem[2] > 0
  /\ sem' = <<sem[1] + 1, sem[2] - 1>> /\ Goes("server", "read")
  /\ UNCHANGED <<program, n, there, sees, shown, noSignals, kills>>

ServerFinishes ==
  /\ \/ /\ at["server"] = "read" /\ sem' = [sem EXCEPT ![1] = @ - 1]
        /\ Goes("server", "free") /\ UNCHANGED there
     \/ at["server"] = "free" /\ there' = {"shm"} /\ Goes("server", "remove") /\ UNCHANGED sem
     \/ at["server"] = "remove" /\ there' = {} /\ Goes("server", "ended") /\ UNCHANGED sem
  /\ UNCHANGED <<program, n, sees, shown, noSignals, kills>>

ClientGets(c) ==
  /\ c \in ShmClients
  /\ \/ at[c] = "start" /\ sees' = [sees EXCEPT ![c] = there \cap {"sem"}] /\ Goes(c, "shmget")
     \/ at[c] = "shmget" /\ sees' = [sees EXCEPT ![c] = @ \cup (there \cap {"shm"})] /\ Goes(c, "enter")
  /\ UNCHANGED <<program, n, sem, there, shown, noSignals, kills>>

(* A semop on a set that is not there fails at once; nobody looks.         *)
NoSet(c) == "sem" \notin sees[c] \cap there

ClientEnters(c) ==
  /\ c \in ShmClients /\ at[c] = "enter" /\ Goes(c, "write")
  /\ (NoSet(c) /\ UNCHANGED sem) \/ (~NoSet(c) /\ sem[1] = 0 /\ sem' = [sem EXCEPT ![1] = 1])
  /\ UNCHANGED <<program, n, there, sees, shown, noSignals, kills>>

(* strcpy to the address -1 when there was no segment.                     *)
ClientWrites(c) ==
  /\ c \in ShmClients /\ at[c] = "write"
  /\ Goes(c, IF "shm" \in sees[c] THEN "leave" ELSE "crashed")
  /\ UNCHANGED <<program, n, sem, there, sees, shown, noSignals, kills>>

(* mutated form: the server is not told                                    *)
ClientLeavesSilently(c) ==
  /\ c \in ShmClients /\ at[c] = "leave" /\ Goes(c, "ended")
  /\ (NoSet(c) /\ UNCHANGED sem) \/ (~NoSet(c) /\ sem[1] > 0 /\ sem' = [sem EXCEPT ![1] = @ - 1])
  /\ UNCHANGED <<program, n, there, sees, shown, noSignals, kills>>

ClientLeaves(c) ==
  /\ c \in ShmClients /\ at[c] = "leave" /\ Goes(c, "ended")
  /\ (NoSet(c) /\ UNCHANGED sem) \/ (~NoSet(c) /\ sem[1] > 0 /\ sem' = <<sem[1] - 1, sem[2] + 1>>)
  /\ UNCHANGED <<program, n, there, sees, shown, noSignals, kills>>
-----------------------------------------------------------------------------
(* sync.c                                                                  *)

(* The parent sleeps before its loop, until a signal or the time is up.    *)
SyncFork ==
  /\ program = "sync" /\ at["parent"] = "start"
  /\ at' = [at EXCEPT !["parent"] = "sleep", !["child"] = "turn"]
  /\ UNCHANGED <<program, n, sem, there, sees, shown, noSignals, kills>>

TimeIsUp ==
  /\ program = "sync" /\ at["parent"] = "sleep" /\ Goes("parent", "turn") /\ missed' = TRUE
  /\ UNCHANGED <<program, n, sem, there, sees, shown, signalled, kills>>

SyncTurn(p) ==
  /\ program = "sync" /\ at[p] = "turn" /\ n[p] < Rounds
  /\ shown' = Append(shown, p) /\ Turns(p) /\ Goes(p, "kill")
  /\ UNCHANGED <<program, sem, there, sees, noSignals, kills>>

(* kill; the other may be gone.                                            *)
SyncKill(p) ==
  /\ at[p] = "kill" /\ Goes(p, "pause")
  /\ signalled' = signalled \cup {q \in {Other[p]} : at[q] # "ended"}
  /\ UNCHANGED <<program, n, sem, there, sees, shown, missed, kills>>

(* The handler ends the pause that is going on, or nothing.                *)
Deliver(p) ==
  /\ program = "sync" /\ p \in signalled /\ at[p] # "ended" /\ signalled' = signalled \ {p}
  /\ IF at[p] \in {"pause", "sleep"} THEN Goes(p, "turn") /\ UNCHANGED missed
     ELSE missed' = TRUE /\ UNCHANGED at
  /\ UNCHANGED <<program, n, sem, there, sees, shown, kills>>

(* The child kills once more before it exits.                              *)
SyncEnd(p) ==
  /\ program = "sync" /\ at[p] = "turn" /\ n[p] = Rounds /\ Goes(p, "ended")
  /\ signalled' = IF p = "child" /\ at["parent"] # "ended" THEN signalled \cup {"parent"} ELSE signalled
  /\ UNCHANGED <<program, n, sem, there, sees, shown, missed, kills>>
-----------------------------------------------------------------------------
(* critical.c.  The handler, which n counts, restores the default.         *)

Caught == IF n["parent"] = 0 THEN Turns("parent") /\ UNCHANGED at ELSE Goes("parent", "crashed") /\ UNCHANGED n

CritSignal ==
  /\ program = "critical" /\ at["parent"] = "start" /\ Goes("parent", "turn")
  /\ UNCHANGED <<program, n, sem, there, sees, shown, noSignals, kills>>

CritBlock ==
  /\ program = "critical" /\ at["parent"] = "turn" /\ Goes("parent", "hold")
  /\ UNCHANGED <<program, n, sem, there, sees, shown, noSignals, kills>>

(* A SIGQUIT that is pending comes before sigprocmask returns.             *)
CritUnblock ==
  /\ program = "critical" /\ at["parent"] = "hold" /\ signalled' = {}
  /\ IF signalled = {} \/ n["parent"] = 0
       THEN Goes("parent", "sleep") /\ n' = [n EXCEPT !["parent"] = IF signalled = {} THEN @ ELSE 1]
       ELSE Goes("parent", "crashed") /\ UNCHANGED n
  /\ UNCHANGED <<program, sem, there, sees, shown, missed, kills>>

CritEnd ==
  /\ program = "critical" /\ at["parent"] = "sleep" /\ Goes("parent", "ended")
  /\ UNCHANGED <<program, n, sem, there, sees, shown, noSignals, kills>>

SigQuit ==
  /\ program = "critical" /\ at["parent"] \in {"start", "turn", "hold", "sleep"}
  /\ kills < 2 /\ kills' = kills + 1
  /\ IF at["parent"] = "hold" THEN signalled' = {"parent"} /\ UNCHANGED <<at, n, missed>>
     ELSE IF at["parent"] = "start" THEN missed' = TRUE /\ Goes("parent", "crashed") /\ UNCHANGED <<n, signalled>>
     ELSE Caught /\ UNCHANGED <<missed, signalled>>
  /\ UNCHANGED <<program, sem, there, sees, shown>>
-----------------------------------------------------------------------------
Step(p) ==
  \/ p = "parent" /\ (AltStart \/ SetVal \/ Release \/ SyncFork \/ CritSignal \/ CritBlock \/ CritUnblock \/ CritEnd)
  \/ p \in Pair /\ (SemWait(p) \/ SemPost(p) \/ AltLeave(p) \/ SyncTurn(p) \/ SyncKill(p) \/ Deliver(p) \/ SyncEnd(p))
  \/ p = "child" /\ Acquire
  \/ Produce(p) \/ (p = "consumer" /\ Consume)
  \/ p = "server" /\ (ServerCreates \/ ServerWaits \/ ServerFinishes)
  \/ ClientGets(p) \/ ClientEnters(p) \/ ClientWrites(p) \/ ClientLeaves(p)

Next == Interrupted \/ SigQuit \/ Seminit \/ TimeIsUp \/ \E p \in Procs : Step(p)
Spec == Init /\ [][Next]_vars /\ WF_vars(TimeIsUp) /\ \A p \in Procs : WF_vars(Step(p))
-----------------------------------------------------------------------------
Holding == {p \in Pair : at[p] = "hold"}

(* Parent and child print in turn: those of sem_wait_post.c even after an  *)
(* earlier run was killed, and the parent first if none was; of sync.c as  *)
(* long as every signal has come while the other waited for it.            *)
InTurn ==
  (program = "alternate" \/ (program = "sync" /\ ~missed)) =>
    /\ \A k \in 1 .. Len(shown) - 1 : shown[k] # shown[k + 1]
    /\ (shown # <<>> /\ kills = 0 /\ program = "alternate") => shown[1] = "parent"

(* There is never more than one token, whatever run was killed when.       *)
OneToken == program = "alternate" /\ "sem" \in there => sem[1] + sem[2] <= (IF Holding = {} THEN 1 ELSE 0)

(* However many producers there are, the shelf holds one batch at most.    *)
OneBatch == program = "shelf" => sem[1] <= Tokens

(* One SIGQUIT never ends critical.c once its handler is there, nor do two  *)
(* in its section, which are one; and the one that is caught is not lost.   *)
(* That holds in its last sleep, too, whatever the comment there says.      *)
QuitOnce ==
  program = "critical" =>
    /\ at["parent"] = "crashed" => missed \/ (n["parent"] = 1 /\ kills = 2)
    /\ at["parent"] = "ended" => n["parent"] = IF kills = 0 THEN 0 ELSE 1

(* "SIGQUIT here will terminate with core file", in the last sleep.         *)
QuitTerminates ==
  [][at["parent"] = "sleep" /\ program = "critical" /\ kills' # kills => at'["parent"] = "crashed"]_vars

HandoffInv == TypeOK /\ InTurn /\ OneToken /\ OneBatch /\ QuitOnce

Ended(p) == at[p] = "ended"

(* What comes to an end: a run of sem_wait_post.c, unless the token was lost *)
(* with a run that was killed; one of semopPC.c, unless seminit.c has set    *)
(* the value; sync.c, unless a signal was missed.  The server of oneshot     *)
(* ends when a client had got hold of both the set and the segment before    *)
(* it entered, unless another did not and crashed, holding the semaphore.    *)
HandoffEnds ==
  /\ at["parent"] = "wait" ~> Ended("parent") \/ (Holding = {} /\ sem = <<0, 0>>) \/ at["parent"] = "start"
  /\ program = "semop" => <>(Ended("child") \/ kills = 1)
  /\ program = "sync" => <>(missed \/ (Ended("parent") /\ Ended("child")))
  /\ \A c \in ShmClients : at[c] = "enter" /\ sees[c] = Things ~>
       Ended("server") \/ \E d \in ShmClients : at[d] = "crashed" /\ "sem" \in sees[d]
  /\ at["consumer"] = "turn" ~> sem[1] = 0
=============================================================================
