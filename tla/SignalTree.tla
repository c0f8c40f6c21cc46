----------------------------- MODULE SignalTree -----------------------------
(***************************************************************************)
(* ex1/2017A7PS0097P_lab1/signal_tree.c, first phase: one process forks    *)
(* itself into a binary tree of N processes.  How many are left to create  *)
(* is a counter in shared memory, decremented under semaphore_count; but   *)
(* the process that waited for the semaphore forks before it posts it, and *)
(* parent and child both post.                                             *)
(*                                                                         *)
(* A process whose part of the tree stands broadcasts SIGUSR1 already: the  *)
(* handler of a process that is still forking waits for semaphore_handler,  *)
(* may end the process at 0 points as its holder, and makes a sem_wait that *)
(* it interrupts fail.  What it does to the points is SignalGame; here they *)
(* may be 0 or not.                                                        *)
(*                                                                         *)
(* Process identifiers are numbers from 2 up, in the order of the forks;   *)
(* 1 and 0 are the results of fork_well that are not identifiers.          *)
(***************************************************************************)
EXTENDS Integers, FiniteSets

CONSTANTS
  N,             \* argv[1]
  ForkMayFail,   \* TRUE when fork() may fail
  EarlySignals   \* bound: SIGUSR1s that arrive while the tree is being built

ASSUME TreeAssumption ==
  N \in Nat \ {0} /\ ForkMayFail \in BOOLEAN /\ EarlySignals \in Nat

(* floor(log(N) / log(2))                                                  *)
Level == CHOOSE l \in 0 .. N : 2^l <= N /\ N < 2^(l + 1)
Capacity == 2^(Level + 1) - 1
Root == 2
Pids == Root .. Root + Capacity - 1

VARIABLES
  count,         \* *count, in the shared mapping
  sem,           \* semaphore_count
  procs,         \* the processes forked so far
  pc, i, slot,   \* per process: place, loop variable, which fork_well
  kid,           \* child[2]
  result,        \* what the current fork_well will return
  reg,           \* the value of *count being decremented
  parent,        \* getppid()
  interrupted,   \* history: a sem_wait of fork_well has failed
  handler,       \* per process: where its handler is
  hsem,          \* semaphore_handler
  left,          \* the processes that have exited in their handler
  signals        \* bound counter: SIGUSR1s delivered

handlerVars == <<handler, hsem, left, signals>>
vars == <<count, sem, procs, pc, i, slot, kid, result, reg, parent, interrupted,
          handlerVars>>

PC == {"none", "loop", "wait", "eintr", "load", "store", "fork", "post", "done", "failed"}

BuildOK ==
  /\ count \in Int /\ sem \in Nat
  /\ procs \in SUBSET Pids
  /\ pc \in [Pids -> PC]
  /\ i \in [Pids -> 0 .. Level] /\ slot \in [Pids -> {0, 1}]
  /\ kid \in [Pids -> [{0, 1} -> Pids \cup {0, 1}]]
  /\ result \in [Pids -> Pids \cup {0, 1}]
  /\ reg \in [Pids -> Int]
  /\ parent \in [Pids -> Pids \cup {1}]
  /\ interrupted \in BOOLEAN

HandlerOK ==
  /\ handler \in [Pids -> {"none", "wait", "in"}]
  /\ hsem \in Nat /\ left \in SUBSET Pids /\ signals \in 0 .. EarlySignals

TypeOK == BuildOK /\ HandlerOK

Init ==
  /\ count = N /\ sem = 1
  /\ procs = {Root}
  /\ pc = [p \in Pids |-> IF p = Root THEN "loop" ELSE "none"]
  /\ i = [p \in Pids |-> 0] /\ slot = [p \in Pids |-> 0]
  /\ kid = [p \in Pids |-> [s \in {0, 1} |-> 0]]
  /\ result = [p \in Pids |-> 0]
  /\ reg = [p \in Pids |-> 0]
  /\ parent = [p \in Pids |-> 1]
  /\ interrupted = FALSE
  /\ handler = [p \in Pids |-> "none"] /\ hsem = 1
  /\ left = {} /\ signals = 0

Goto(p, from, to) == pc[p] = from /\ pc' = [pc EXCEPT ![p] = to]
-----------------------------------------------------------------------------
(* createBtree                                                             *)

LoopTest(p) ==
  /\ Goto(p, "loop", IF i[p] < Level THEN "wait" ELSE "done")
  /\ slot' = [slot EXCEPT ![p] = 0]
  /\ UNCHANGED <<count, sem, procs, i, kid, result, reg, parent, interrupted>>

(* fork_well                                                               *)

Wait(p) ==
  /\ sem > 0
  /\ sem' = sem - 1
  /\ Goto(p, "wait", "load")
  /\ UNCHANGED <<count, procs, i, slot, kid, result, reg, parent, interrupted>>

(* --( *count) reads the counter and writes it back.                       *)
Load(p) ==
  /\ Goto(p, "load", "store")
  /\ reg' = [reg EXCEPT ![p] = count]
  /\ UNCHANGED <<count, sem, procs, i, slot, kid, result, parent, interrupted>>

(* mutated form: the last two processes are not created                    *)
StoreEarlyStop(p) ==
  /\ Goto(p, "store", IF reg[p] - 1 <= 1 THEN "post" ELSE "fork")
  /\ count' = reg[p] - 1
  /\ result' = [result EXCEPT ![p] = 1]
  /\ UNCHANGED <<sem, procs, i, slot, kid, reg, parent, interrupted>>

Store(p) ==
  /\ Goto(p, "store", IF reg[p] - 1 <= 0 THEN "post" ELSE "fork")
  /\ count' = reg[p] - 1
  /\ result' = [result EXCEPT ![p] = 1]
  /\ UNCHANGED <<sem, procs, i, slot, kid, reg, parent, interrupted>>

NewPid == Root + Cardinality(procs)

(* The child starts as a copy of its parent, at the same place.            *)
Fork(p) ==
  /\ pc[p] = "fork"
  /\ LET c == NewPid
     IN /\ procs' = procs \cup {c}
        /\ pc' = [pc EXCEPT ![p] = "post", ![c] = "post"]
        /\ result' = [result EXCEPT ![p] = c, ![c] = 0]
        /\ i' = [i EXCEPT ![c] = i[p]]
        /\ slot' = [slot EXCEPT ![c] = slot[p]]
        /\ kid' = [kid EXCEPT ![c] = kid[p]]
        /\ reg' = [reg EXCEPT ![c] = reg[p]]
        /\ parent' = [parent EXCEPT ![c] = p]
  /\ UNCHANGED <<count, sem, interrupted>>

(* exit(1), with the semaphore taken                                       *)
ForkFails(p) ==
  /\ ForkMayFail
  /\ Goto(p, "fork", "failed")
  /\ UNCHANGED <<count, sem, procs, i, slot, kid, result, reg, parent, interrupted>>

(* child[slot] = the result of fork_well, and on to the next operand of ||, *)
(* the next turn of the loop, or out of it.                                *)
Return(p, from, res) ==
  /\ kid' = [kid EXCEPT ![p][slot[p]] = res]
  /\ \/ /\ res = 0
        /\ Goto(p, from, "loop")
        /\ i' = [i EXCEPT ![p] = @ + 1]
        /\ UNCHANGED slot
     \/ /\ res # 0 /\ slot[p] = 0
        /\ Goto(p, from, "wait")
        /\ slot' = [slot EXCEPT ![p] = 1]
        /\ UNCHANGED i
     \/ /\ res # 0 /\ slot[p] = 1
        /\ Goto(p, from, "done")
        /\ UNCHANGED <<i, slot>>
  /\ UNCHANGED <<count, procs, result, reg, parent>>

(* mutated form: after a fork neither process posts                        *)
PostAndReturnForkHolds(p) ==
  Return(p, "post", result[p]) /\ sem' = (IF result[p] = 1 THEN sem + 1 ELSE sem) /\ UNCHANGED interrupted

PostAndReturn(p) ==
  Return(p, "post", result[p]) /\ sem' = sem + 1 /\ UNCHANGED interrupted

(* A sem_wait that a signal interrupted fails, and fork_well returns 1     *)
(* without having forked.                                                  *)
WaitInterrupted(p) ==
  /\ Return(p, "eintr", 1)
  /\ interrupted' = TRUE
  /\ UNCHANGED sem

Build(p) == \/ LoopTest(p) \/ Wait(p) \/ Load(p) \/ Store(p) \/ Fork(p)
            \/ ForkFails(p) \/ PostAndReturn(p) \/ WaitInterrupted(p)
-----------------------------------------------------------------------------
(* The handler                                                             *)

MainRuns(p) == handler[p] = "none" /\ pc[p] # "failed"

otherVars == <<count, sem, procs, i, slot, kid, result, reg, parent, interrupted>>

(* A process that is through with its part of the tree broadcasts.         *)
Deliver(p) ==
  /\ MainRuns(p) /\ signals < EarlySignals
  /\ \E q \in procs \ {p} : pc[q] = "done"
  /\ signals' = signals + 1
  /\ handler' = [handler EXCEPT ![p] = "wait"]
  /\ pc' = pc \/ Goto(p, "wait", "eintr")
  /\ UNCHANGED <<otherVars, hsem, left>>

HandlerWait(p) ==
  /\ handler[p] = "wait" /\ hsem > 0
  /\ hsem' = hsem - 1
  /\ handler' = [handler EXCEPT ![p] = "in"]
  /\ UNCHANGED <<otherVars, pc, left, signals>>

HandlerPost(p) ==
  /\ handler[p] = "in" /\ p \notin left
  /\ hsem' = hsem + 1
  /\ handler' = [handler EXCEPT ![p] = "none"]
  /\ UNCHANGED <<otherVars, pc, left, signals>>

(* At 0 points: the process exits as the holder of semaphore_handler, and   *)
(* of semaphore_count if it was inside fork_well.                          *)
HandlerExits(p) ==
  /\ handler[p] = "in" /\ p \notin left
  /\ left' = left \cup {p}
  /\ UNCHANGED <<otherVars, pc, handler, hsem, signals>>
-----------------------------------------------------------------------------
Step(p) == \/ MainRuns(p) /\ Build(p) /\ UNCHANGED handlerVars
           \/ HandlerWait(p) \/ HandlerPost(p) \/ HandlerExits(p)
Next == \E p \in procs : Step(p) \/ Deliver(p)
Spec == Init /\ [][Next]_vars
-----------------------------------------------------------------------------
Inside == {p \in Pids : pc[p] \in {"load", "store", "fork", "post"}}
Failed == {p \in Pids : pc[p] = "failed"}
AllDone == \A p \in procs : pc[p] = "done"

(* What the handler of p makes of a signal from q once the tree stands:     *)
(* who has exited is nobody's parent any more.                             *)
Classify(p, q) ==
  IF q = parent[p] /\ q \notin left THEN "parent"
  ELSE IF q = kid[p][0] \/ q = kid[p][1] THEN "child"
  ELSE "sibling"

(* Each fork adds a token to the semaphore: parent and child both post it.  *)
EveryForkAddsAToken ==
  sem + Cardinality(Inside) + Cardinality(Failed)
    = Cardinality(procs)

(* However the decrements interleave the tree never ends up with fewer than *)
(* N processes, nor with more than the full tree of its depth, as long as   *)
(* no signal arrives before it is built.                                    *)
EnoughProcesses == AllDone /\ ~interrupted => Cardinality(procs) \in N .. Capacity

(* A process knows its own children: whatever it takes for a child is one,  *)
(* or else a sibling that a right leaf inherited in child[0].               *)
ChildrenAreKnown ==
  AllDone => \A p, q \in procs :
    /\ parent[q] = p => Classify(p, q) = "child"
    /\ Classify(p, q) = "child" /\ p # q =>
         parent[q] = p \/ parent[q] = parent[p]

(* One handler at a time; a process that exited in it counts for ever.      *)
OneHandler ==
  /\ hsem + Cardinality({p \in Pids : handler[p] = "in"}) = 1
  /\ \A p \in left : handler[p] = "in"

(* The tokens, the size of the tree and what its members know of each other. *)
TreeInv ==
  TypeOK /\ EveryForkAddsAToken /\ OneHandler /\ EnoughProcesses /\ ChildrenAreKnown

(* Every process leaves createBtree, unless a process has left in its        *)
(* handler, or a fork has failed, and taken along the semaphore that it      *)
(* waits for.                                                               *)
TreeIsBuilt ==
  <>[](\A p \in procs :
         \/ pc[p] \in {"done", "failed"} \/ p \in left
         \/ handler[p] = "wait" /\ left # {}
         \/ pc[p] = "wait" /\ sem = 0 /\ Failed \cup left # {})
=============================================================================
