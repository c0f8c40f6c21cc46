----------------------------- MODULE SignalGame -----------------------------
(***************************************************************************)
(* ex1/2017A7PS0097P_lab1/signal_tree.c, second phase: in turns kept by    *)
(* semaphore_broadcast every process of the tree sends SIGUSR1 to all the  *)
(* others; the handler changes the process's points according to who sent  *)
(* it, under semaphore_handler, and ends the process at 0 points.          *)
(*                                                                         *)
(* SIGUSR1 does not queue: a process has at most one pending, and keeps    *)
(* the sender of the first.  A handler that runs while main waits for      *)
(* semaphore_broadcast makes that sem_wait fail (there is no SA_RESTART),  *)
(* and its result is not looked at.                                        *)
(***************************************************************************)
EXTENDS Integers, FiniteSets

CONSTANTS
  Procs,      \* process identifiers, positive integers
  ParentOf,   \* getppid() of each process, as the tree was built
  KidOf,      \* child[2] of each process
  Points,     \* N, the points everybody starts with
  A, S        \* argv[2], argv[3]

NoOne == -1

VARIABLES
  points,     \* N in each process
  pend,       \* the sender of the pending SIGUSR1, or NoOne
  loc,        \* where main is
  toSignal,   \* whom the broadcast loop has still to signal
  hloc, hsrc, \* where the handler is, and info->si_pid
  failed,     \* main's sem_wait was interrupted and has failed
  semH, semB, \* semaphore_handler, semaphore_broadcast
  exited,     \* the processes that have left
  intr        \* history: broadcasts begun without the semaphore

vars == <<points, pend, loc, toSignal, hloc, hsrc, failed, semH, semB, exited, intr>>
mainVars == <<loc, toSignal>>
handlerVars == <<hloc, hsrc>>

TypeOK ==
  /\ points \in [Procs -> Int]
  /\ pend \in [Procs -> Procs \cup {NoOne}]
  /\ loc \in [Procs -> {"wait", "broadcast", "pause"}]
  /\ toSignal \in [Procs -> SUBSET Procs]
  /\ hloc \in [Procs -> {"none", "wait", "apply", "post"}]
  /\ hsrc \in [Procs -> Procs \cup {NoOne}]
  /\ \A p \in Procs : hloc[p] # "none" => hsrc[p] # NoOne
  /\ failed \in [Procs -> BOOLEAN]
  /\ semH \in Nat /\ semB \in Nat
  /\ exited \in SUBSET Procs /\ intr \in Nat

(* From getppid() - N to getpid() + N, less oneself; the identifiers of the *)
(* range that belong to no process of the tree are left out.               *)
Addressed(p) == {q \in Procs \ {p} : ParentOf[p] - Points <= q /\ q <= p + Points}

Init ==
  /\ points = [p \in Procs |-> Points]
  /\ pend = [p \in Procs |-> NoOne]
  /\ loc = [p \in Procs |-> "wait"]
  /\ toSignal = [p \in Procs |-> Addressed(p)]
  /\ hloc = [p \in Procs |-> "none"] /\ hsrc = [p \in Procs |-> NoOne]
  /\ failed = [p \in Procs |-> FALSE]
  /\ semH = 1 /\ semB = 1
  /\ exited = {} /\ intr = 0

(* main runs when no handler does.                                         *)
MainRuns(p) == p \notin exited /\ hloc[p] = "none"
-----------------------------------------------------------------------------
BeginBroadcast(p) ==
  /\ MainRuns(p) /\ loc[p] = "wait"
  /\ \/ semB > 0 /\ ~failed[p] /\ semB' = semB - 1 /\ UNCHANGED intr
     \/ failed[p] /\ intr' = intr + 1 /\ UNCHANGED semB
  /\ loc' = [loc EXCEPT ![p] = "broadcast"]
  /\ UNCHANGED <<points, pend, toSignal, handlerVars, failed, semH, exited>>

(* One turn of the loop: identifiers in ascending order; sigqueue to a     *)
(* process that has one pending changes nothing.                           *)
Signal(p) ==
  /\ MainRuns(p) /\ loc[p] = "broadcast"
  /\ \E t \in toSignal[p] :
       /\ \A u \in toSignal[p] : t <= u
       /\ pend' = IF pend[t] = NoOne THEN [pend EXCEPT ![t] = p] ELSE pend
       /\ toSignal' = [toSignal EXCEPT ![p] = @ \ {t}]
  /\ UNCHANGED <<points, loc, handlerVars, failed, semH, semB, exited, intr>>

(* mutated form: the semaphore is not posted                               *)
EndBroadcastUnposted(p) ==
  /\ MainRuns(p) /\ loc[p] = "broadcast" /\ toSignal[p] = {}
  /\ loc' = [loc EXCEPT ![p] = "pause"]
  /\ UNCHANGED <<points, pend, toSignal, handlerVars, failed, semH, semB, exited, intr>>

EndBroadcast(p) ==
  /\ MainRuns(p) /\ loc[p] = "broadcast" /\ toSignal[p] = {}
  /\ loc' = [loc EXCEPT ![p] = "pause"]
  /\ semB' = semB + 1
  /\ UNCHANGED <<points, pend, toSignal, handlerVars, failed, semH, exited, intr>>

(* SIGUSR1 is delivered; main may be blocked in its sem_wait.              *)
Deliver(p) ==
  /\ MainRuns(p) /\ pend[p] # NoOne
  /\ hloc' = [hloc EXCEPT ![p] = "wait"]
  /\ hsrc' = [hsrc EXCEPT ![p] = pend[p]]
  /\ pend' = [pend EXCEPT ![p] = NoOne]
  /\ \E b \in IF loc[p] = "wait" THEN BOOLEAN ELSE {FALSE} :
       failed' = [failed EXCEPT ![p] = @ \/ b]
  /\ UNCHANGED <<points, mainVars, semH, semB, exited, intr>>

HandlerWait(p) ==
  /\ p \notin exited /\ hloc[p] = "wait" /\ semH > 0
  /\ semH' = semH - 1
  /\ hloc' = [hloc EXCEPT ![p] = "apply"]
  /\ UNCHANGED <<points, pend, mainVars, hsrc, failed, semB, exited, intr>>

(* getppid() is no longer the parent once the parent has left.             *)
Change(p, q) ==
  CASE q = ParentOf[p] /\ q \notin exited    -> A
    [] q \in {KidOf[p][0], KidOf[p][1]}      -> -S
    [] OTHER                                 -> -(S \div 2)

(* mutated form: the semaphore is posted before the process exits          *)
ApplyPostsFirst(p) ==
  /\ p \notin exited /\ hloc[p] = "apply"
  /\ LET left == points[p] + Change(p, hsrc[p])
     IN /\ points' = [points EXCEPT ![p] = left]
        /\ IF left = 0
           THEN exited' = exited \cup {p} /\ semH' = semH + 1 /\ UNCHANGED hloc
           ELSE hloc' = [hloc EXCEPT ![p] = "post"] /\ UNCHANGED <<exited, semH>>
  /\ UNCHANGED <<pend, mainVars, hsrc, failed, semB, intr>>

(* The points change; at 0 the process closes its semaphores and exits, as *)
(* the holder of semaphore_handler.                                        *)
Apply(p) ==
  /\ p \notin exited /\ hloc[p] = "apply"
  /\ LET left == points[p] + Change(p, hsrc[p])
     IN /\ points' = [points EXCEPT ![p] = left]
        /\ IF left = 0
           THEN exited' = exited \cup {p} /\ UNCHANGED hloc
           ELSE hloc' = [hloc EXCEPT ![p] = "post"] /\ UNCHANGED exited
  /\ UNCHANGED <<pend, mainVars, hsrc, failed, semH, semB, intr>>

(* mutated form: the handler returns without posting                       *)
HandlerPostMissing(p) ==
  /\ p \notin exited /\ hloc[p] = "post"
  /\ hloc' = [hloc EXCEPT ![p] = "none"]
  /\ UNCHANGED <<points, pend, mainVars, hsrc, failed, semH, semB, exited, intr>>

HandlerPost(p) ==
  /\ p \notin exited /\ hloc[p] = "post"
  /\ hloc' = [hloc EXCEPT ![p] = "none"]
  /\ semH' = semH + 1
  /\ UNCHANGED <<points, pend, mainVars, hsrc, failed, semB, exited, intr>>
-----------------------------------------------------------------------------
Step(p) == \/ BeginBroadcast(p) \/ Signal(p) \/ EndBroadcast(p)
           \/ Deliver(p) \/ HandlerWait(p) \/ Apply(p) \/ HandlerPost(p)
Next == \E p \in Procs : Step(p)
Spec == Init /\ [][Next]_vars
-----------------------------------------------------------------------------
InHandler(p) == hloc[p] \in {"apply", "post"}

(* One handler at a time changes points; a process that left in its handler *)
(* counts as being in it for ever.                                          *)
HandlerToken == semH + Cardinality({p \in Procs : InHandler(p)}) = 1

(* Each interrupted sem_wait adds one to the broadcasts that can run at     *)
(* once; with no interruption there is one at a time.                       *)
BroadcastToken == semB + Cardinality({p \in Procs : loc[p] = "broadcast"}) = 1 + intr

(* At most one process ever reaches the end of the game.                    *)
OneWinner == Cardinality(exited) <= 1

(* Turns are kept: by the handlers strictly, by the broadcasts as far as     *)
(* interruptions let them.                                                  *)
TurnInv == TypeOK /\ HandlerToken /\ BroadcastToken /\ OneWinner

(* Once a process has left, nobody's points change any more.                *)
FrozenAfterExit == [][exited # {} => points' = points]_vars

(* All broadcasts end and all signals are handled, unless somebody reaches  *)
(* exactly 0.                                                               *)
RoundEnds ==
  <>(exited # {} \/ \A p \in Procs : loc[p] = "pause" /\ pend[p] = NoOne /\ hloc[p] = "none")
=============================================================================
