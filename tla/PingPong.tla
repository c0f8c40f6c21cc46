------------------------------ MODULE PingPong ------------------------------
(***************************************************************************)
(* ex2/2017A7PS0097P_lab2/pipe.c: two children send a number to and fro    *)
(* over two pipes, dividing it by n each time, and report every message to *)
(* the parent with SIGUSR1, the end with SIGUSR2.  Standard signals do not *)
(* queue; two semaphores are there so that none is lost.                   *)
(*                                                                         *)
(* sa_mask is never initialised: whether one handler can interrupt the     *)
(* other is a choice made once, in Init.  A signal handler that interrupts *)
(* a sem_wait makes it fail, and the code goes on as if it had succeeded.  *)
(***************************************************************************)
EXTENDS Integers, Sequences

CONSTANTS
  Ms,     \* the values tried for argv[1]
  Ns      \* the values tried for argv[2]

Numbers == {v \in Nat : v <= 99999}
InFour == {v \in Nat : v <= 9999}       \* what four bytes of a pipe can hold

ASSUME PingPongAssumption ==
  /\ Ms \subseteq Numbers \ {0}       \* at most five digits, see Received
  /\ Ns \subseteq Nat \ {0, 1}        \* 0 divides by zero, 1 never ends

VARIABLES
  n,                 \* argv[2]
  sync, hsem,        \* semaphore_sync, semaphore_handler
  pending,           \* the signals pending at the parent
  mask,              \* sa_mask: the signals both handlers block
  frames,            \* the parent's stack of running handlers
  gone,              \* the parent has exited
  count, printed,    \* count; the numbers the SIGUSR2 handler has printed
  cpc,               \* where the two children are
  val, tail,         \* atoi(buffer); the fifth byte of buffer, if a digit
  pipe,              \* the number in each pipe; pipe[i] is written by child i
  messages, stray    \* history: numbers written to a pipe; signals sent to
                     \* a parent that has gone

parentVars == <<frames, gone, count, printed>>
childVars == <<cpc, val, tail, pipe, messages, stray>>
vars == <<n, sync, hsem, pending, mask, frames, gone, count, printed, cpc, val,
          tail, pipe, messages, stray>>

USR1 == "USR1"
USR2 == "USR2"
Signals == {USR1, USR2}
Child == {0, 1}
None == -1
Other(i) == 1 - i

ChildPC == {"send", "post", "read", "sync", "divide", "again", "last", "exited"}
Frame == [sig : Signals, at : {"wait", "act", "post"}]

TypeOK ==
  /\ n \in Ns
  /\ sync \in Nat /\ hsem \in Nat
  /\ pending \in SUBSET Signals /\ mask \in SUBSET Signals
  /\ frames \in Seq(Frame) /\ gone \in BOOLEAN
  /\ count \in Nat /\ printed \in SUBSET Nat
  /\ cpc \in [Child -> ChildPC]
  /\ val \in [Child -> Numbers]
  /\ tail \in [Child -> 0 .. 9 \cup {None}]
  /\ pipe \in [Child -> InFour \cup {None}]
  /\ messages \in Nat /\ stray \in Nat

(* The fifth byte of the text of v, when it has one.                       *)
FifthOf(v) == IF v >= 10000 THEN v % 10 ELSE None

(* argv[1] is in every process's copy of buffer.  child[0] starts by       *)
(* waiting for its turn to send, child[1] by reading.                      *)
Init ==
  /\ n \in Ns
  /\ sync = 1 /\ hsem = 0
  /\ pending = {} /\ mask \in SUBSET Signals
  /\ frames = <<>> /\ gone = FALSE
  /\ count = 0 /\ printed = {}
  /\ cpc = [i \in Child |-> IF i = 0 THEN "again" ELSE "read"]
  /\ \E m \in Ms : /\ val = [i \in Child |-> m]
                   /\ tail = [i \in Child |-> FifthOf(m)]
  /\ pipe = [i \in Child |-> None]
  /\ messages = 0 /\ stray = 0
-----------------------------------------------------------------------------
(* write(fd, buffer, 4) sends the first four characters: up to four digits, *)
(* with the NUL only if there are fewer.                                    *)
(* mutated form: one byte too few is written                                *)
FirstThree(v) == IF v >= 10000 THEN v \div 100 ELSE IF v >= 1000 THEN v \div 10 ELSE v

FirstFour(v) == IF v >= 10000 THEN v \div 10 ELSE v

(* read(fd, buffer, 4) leaves the rest of the old buffer behind them: four *)
(* digits without a NUL are continued by what the fifth byte was.          *)
Received(h, fifth) == IF h >= 1000 /\ fifth # None THEN 10 * h + fifth ELSE h

(* gcvt overwrites the buffer up to and with its NUL.                      *)
FifthAfter(v, fifth) == IF v >= 1000 THEN FifthOf(v) ELSE fifth
-----------------------------------------------------------------------------
(* The parent: it loops for ever and runs handlers.                        *)

Blocked == IF frames = <<>> THEN {}
           ELSE mask \cup {frames[k].sig : k \in 1 .. Len(frames)}

(* A signal is delivered.  If it finds the parent blocked in a sem_wait,   *)
(* that call will return -1 and its handler go on without the semaphore.   *)
Deliver(s) ==
  /\ ~gone /\ s \in pending \ Blocked
  /\ pending' = pending \ {s}
  /\ LET new == [sig |-> s, at |-> "wait"]
     IN IF frames # <<>> /\ frames[Len(frames)].at = "wait"
        THEN frames' = Append([frames EXCEPT ![Len(frames)].at = "act"], new)
        ELSE frames' = Append(frames, new)
  /\ UNCHANGED <<n, sync, hsem, mask, gone, count, printed>>
  /\ UNCHANGED childVars

Top(s, where) == frames # <<>> /\ frames[Len(frames)] = [sig |-> s, at |-> where]

HandlerWait ==
  /\ ~gone /\ \E s \in Signals : Top(s, "wait")
  /\ hsem > 0
  /\ hsem' = hsem - 1
  /\ frames' = [frames EXCEPT ![Len(frames)].at = "act"]
  /\ UNCHANGED <<n, sync, pending, mask, gone, count, printed>>
  /\ UNCHANGED childVars

CountMessage ==
  /\ ~gone /\ Top(USR1, "act")
  /\ count' = count + 1
  /\ frames' = [frames EXCEPT ![Len(frames)].at = "post"]
  /\ UNCHANGED <<n, sync, hsem, pending, mask, gone, printed>>
  /\ UNCHANGED childVars

PrintAndExit ==
  /\ ~gone /\ Top(USR2, "act")
  /\ printed' = printed \cup {count}
  /\ gone' = TRUE
  /\ UNCHANGED <<n, sync, hsem, pending, mask, frames, count>>
  /\ UNCHANGED childVars

(* mutated form: the handler returns without posting semaphore_sync         *)
HandlerPostMissing ==
  /\ ~gone /\ Top(USR1, "post")
  /\ frames' = SubSeq(frames, 1, Len(frames) - 1)
  /\ UNCHANGED <<n, sync, hsem, pending, mask, gone, count, printed>>
  /\ UNCHANGED childVars

HandlerPost ==
  /\ ~gone /\ Top(USR1, "post")
  /\ sync' = sync + 1
  /\ frames' = SubSeq(frames, 1, Len(frames) - 1)
  /\ UNCHANGED <<n, hsem, pending, mask, gone, count, printed>>
  /\ UNCHANGED childVars
-----------------------------------------------------------------------------
(* The children.  Both loops are: read, take sync, divide, and either stop *)
(* or send; child[0] puts sync back before it sends and takes it again,    *)
(* child[1] sends with the sync it has.                                    *)

Goto(i, from, to) == cpc[i] = from /\ cpc' = [cpc EXCEPT ![i] = to]

Raise(s) ==
  IF gone THEN stray' = stray + 1 /\ UNCHANGED pending
  ELSE pending' = pending \cup {s} /\ UNCHANGED stray

(* child[0] at the top of its loop.                                        *)
SyncToSend ==
  /\ sync > 0
  /\ sync' = sync - 1
  /\ Goto(0, "again", "send")
  /\ UNCHANGED <<n, hsem, pending, mask, parentVars, val, tail, pipe, messages, stray>>

(* write; sigqueue(getppid(), SIGUSR1, sig)                                *)
Send(i) ==
  /\ Goto(i, "send", "post")
  /\ pipe[i] = None
  /\ pipe' = [pipe EXCEPT ![i] = FirstFour(val[i])]
  /\ messages' = messages + 1
  /\ Raise(USR1)
  /\ UNCHANGED <<n, sync, hsem, mask, parentVars, val, tail>>

PostHandler(i) ==
  /\ \/ Goto(i, "post", "read")
     \/ Goto(i, "last", "exited")
  /\ hsem' = hsem + 1
  /\ UNCHANGED <<n, sync, pending, mask, parentVars, val, tail, pipe, messages, stray>>

(* read: the number, or end of file with the buffer as it was.             *)
Read(i) ==
  /\ Goto(i, "read", "sync")
  /\ \/ /\ pipe[Other(i)] # None
        /\ val' = [val EXCEPT ![i] = Received(pipe[Other(i)], tail[i])]
        /\ pipe' = [pipe EXCEPT ![Other(i)] = None]
     \/ /\ pipe[Other(i)] = None /\ cpc[Other(i)] = "exited"
        /\ UNCHANGED <<val, pipe>>
  /\ UNCHANGED <<n, sync, hsem, pending, mask, parentVars, tail, messages, stray>>

(* mutated form: the number is divided without waiting for the parent       *)
SyncToDivideEarly(i) ==
  /\ Goto(i, "sync", "divide")
  /\ UNCHANGED <<n, sync, hsem, pending, mask, parentVars, val, tail, pipe, messages, stray>>

SyncToDivide(i) ==
  /\ sync > 0
  /\ sync' = sync - 1
  /\ Goto(i, "sync", "divide")
  /\ UNCHANGED <<n, hsem, pending, mask, parentVars, val, tail, pipe, messages, stray>>

(* gcvt(atoi(buffer) / n, 15, buffer): on 0 raise SIGUSR2 and leave the    *)
(* loop; otherwise child[0] posts sync and starts over, child[1] sends.    *)
Divide(i) ==
  LET q == val[i] \div n
  IN /\ val' = [val EXCEPT ![i] = q]
     /\ tail' = [tail EXCEPT ![i] = FifthAfter(q, tail[i])]
     /\ IF q = 0
        THEN /\ Goto(i, "divide", "last")
             /\ Raise(USR2)
             /\ UNCHANGED sync
        ELSE /\ Goto(i, "divide", IF i = 0 THEN "again" ELSE "send")
             /\ sync' = IF i = 0 THEN sync + 1 ELSE sync
             /\ UNCHANGED <<pending, stray>>
  /\ UNCHANGED <<n, hsem, mask, parentVars, pipe, messages>>
-----------------------------------------------------------------------------
ParentStep ==
  \/ \E s \in Signals : Deliver(s)
  \/ HandlerWait \/ CountMessage \/ PrintAndExit \/ HandlerPost

ChildStep(i) ==
  \/ i = 0 /\ SyncToSend
  \/ Send(i) \/ PostHandler(i) \/ Read(i) \/ SyncToDivide(i) \/ Divide(i)

Next == ParentStep \/ \E i \in Child : ChildStep(i)
Spec == Init /\ [][Next]_vars
(* The three processes run; a pending signal that is not blocked is        *)
(* delivered to a process that runs.                                       *)
FairSpec == Spec /\ WF_vars(ParentStep) /\ \A i \in Child : WF_vars(ChildStep(i))
-----------------------------------------------------------------------------
(* SIGUSR1 never coalesces and the number the parent prints is the number   *)
(* of messages the children have exchanged.                                 *)
PrintedIsExact == printed \subseteq {messages}

(* One token is shared by the semaphores, the handlers and the children, so *)
(* that no second signal can be sent before the first has been handled.     *)
OneToken ==
  LET inChild == {i \in Child : cpc[i] \in {"send", "divide", "post", "last"}}
      busy    == {k \in 1 .. Len(frames) : frames[k].at # "wait"}
  IN sync + hsem <= 1 /\ (inChild # {} => sync = 0 /\ hsem = 0 /\ inChild # Child)
     /\ (busy # {} /\ ~gone => sync = 0 /\ hsem = 0 /\ inChild = {})

(* No signal can break into the handler's sem_wait, whatever sa_mask holds. *)
WaitIsNeverInterrupted ==
  \A k \in 1 .. Len(frames) : frames[k].at = "wait" => pending = {} /\ k = Len(frames)

(* A child signals only a parent that is there: otherwise getppid() is the  *)
(* process that adopted it.                                                 *)
NoStraySignal == stray = 0

(* The token in all its forms: nothing is ever lost, doubled or misdirected. *)
TokenInv == TypeOK /\ OneToken /\ WaitIsNeverInterrupted /\ NoStraySignal /\ PrintedIsExact

(* What one child reads is what the other wrote.  This needs the numbers to *)
(* stay below 10000: one of five digits does not fit in the four bytes.     *)
ReadIsExact ==
  [][\A i \in Child : cpc[i] = "read" /\ cpc'[i] = "sync" /\ pipe[Other(i)] # None
       => val'[i] = val[Other(i)]]_vars

(* The parent prints and exits.                                             *)
ParentExits == <>gone
=============================================================================
