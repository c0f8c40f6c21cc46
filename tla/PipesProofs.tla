---------------------------- MODULE PipesProofs ----------------------------
(***************************************************************************)
(* Proofs about the labs on pipes and FIFOs.                               *)
(*  - The ping-pong of lab 2, for every pair of numbers on the command line *)
(*    and every content of sa_mask: one token passes between the two        *)
(*    semaphores, the two children and the parent's handlers, so that no    *)
(*    signal is lost and the number printed is right; and, for numbers of   *)
(*    at most four digits, what one child reads is what the other had.      *)
(*  - The co-processes and the FIFO chat, for any number of rounds, lines   *)
(*    and descriptors: who has which message in its hands at each place of  *)
(*    its program, and what is relayed is there once and in its order.      *)
(*  - multi_pipes.c, pipeline.c and the shell, for any output, any lines and *)
(*    any size of a pipe: where each item is on its way to the terminal,     *)
(*    who holds which end, and who keeps whom waiting for ever.             *)
(***************************************************************************)
EXTENDS MCPipes, SequenceTheorems, FiniteSetTheorems, TLAPS

Active == {"send", "divide", "post", "last"}
Passive(i) == cpc[i] \notin Active
NobodyActive == \A i \in Child : Passive(i)

(* Signal s is on its way: pending, or its handler waits for                *)
(* semaphore_handler.                                                      *)
Notified(s) ==
  \/ pending = {s} /\ frames = <<>>
  \/ pending = {} /\ frames = <<[sig |-> s, at |-> "wait"]>>
Quiet == pending = {} /\ frames = <<>>
Handling(s, where) == pending = {} /\ frames = <<[sig |-> s, at |-> where]>>

(* Messages sent and not counted yet.                                       *)
Owed(k) == messages = count + k
OwedBy(s) == Owed(IF s = USR1 THEN 1 ELSE 0)

(* The places the token can be in.                                          *)
Free ==
  sync = 1 /\ hsem = 0 /\ Quiet /\ NobodyActive /\ Owed(0)
Working(i) ==
  /\ sync = 0 /\ hsem = 0 /\ Quiet /\ Owed(0)
  /\ cpc[i] \in {"send", "divide"} /\ Passive(Other(i))
Signalling(i, s) ==
  /\ sync = 0 /\ hsem = 0 /\ Notified(s) /\ OwedBy(s)
  /\ cpc[i] = (IF s = USR1 THEN "post" ELSE "last") /\ Passive(Other(i))
Posted(s) ==
  sync = 0 /\ hsem = 1 /\ Notified(s) /\ OwedBy(s) /\ NobodyActive
Acting(s) ==
  sync = 0 /\ hsem = 0 /\ Handling(s, "act") /\ OwedBy(s) /\ NobodyActive
Counted ==
  sync = 0 /\ hsem = 0 /\ Handling(USR1, "post") /\ Owed(0) /\ NobodyActive

TokenIsSomewhere ==
  \/ ~gone /\ printed = {} /\ ( \/ Free \/ Counted
                                \/ \E i \in Child : Working(i)
                                \/ \E i \in Child, s \in Signals : Signalling(i, s)
                                \/ \E s \in Signals : Posted(s) \/ Acting(s) )
  \/ gone /\ printed = {count} /\ Acting(USR2)

PlaceInv == TypeOK /\ NoStraySignal /\ TokenIsSomewhere

(* Where the number is that the children divide, when it has four digits at *)
(* most: with a child, in a pipe, or with one that has stopped.             *)
Small == \A i \in Child : val[i] <= 9999 /\ tail[i] = None
With(i) == /\ cpc[i] \in {"again", "send", "sync", "divide"}
           /\ cpc[Other(i)] \in {"post", "read"}
           /\ pipe[i] = None /\ pipe[Other(i)] = None
InPipe(i) == /\ cpc[i] \in {"post", "read"} /\ cpc[Other(i)] \in {"post", "read"}
             /\ pipe[i] = val[i] /\ pipe[Other(i)] = None
StoppedWith(i) == cpc[i] \in {"last", "exited"} /\ pipe[i] = None
FlowInv == TypeOK /\ Small /\ \E i \in Child : With(i) \/ InPipe(i) \/ StoppedWith(i)
-----------------------------------------------------------------------------
(* A stack of one frame: its top, what is below it, and a change of the top. *)
LEMMA OneFrame ==
  ASSUME NEW s \in Signals, NEW a \in {"wait", "act", "post"}, NEW b \in {"wait", "act", "post"},
         frames = <<[sig |-> s, at |-> a]>>
  PROVE  /\ frames # <<>> /\ Len(frames) = 1 /\ frames[Len(frames)] = [sig |-> s, at |-> a]
         /\ SubSeq(frames, 1, Len(frames) - 1) = <<>>
         /\ [frames EXCEPT ![Len(frames)].at = b] = <<[sig |-> s, at |-> b]>>
         /\ <<[sig |-> s, at |-> b]>> \in Seq(Frame)
<1>1. frames # <<>> /\ Len(frames) = 1 /\ frames[1] = [sig |-> s, at |-> a]
  OBVIOUS
<1>2. SubSeq(frames, 1, 0) = <<>>
  OBVIOUS
<1>3. [frames EXCEPT ![1].at = b] = <<[sig |-> s, at |-> b]>>
  OBVIOUS
<1>4. [sig |-> s, at |-> b] \in Frame
  BY DEF Frame
<1>5. QED
  BY <1>1, <1>2, <1>3, <1>4
-----------------------------------------------------------------------------
(* What the parent may change, and what it leaves alone.                    *)
LEMMA ParentTypes ==
  ASSUME TypeOK, UNCHANGED <<n, mask, childVars>>,
         sync' \in Nat, hsem' \in Nat, pending' \in SUBSET Signals, frames' \in Seq(Frame),
         gone' \in BOOLEAN, count' \in Nat, printed' \in SUBSET Nat
  PROVE  TypeOK'
<1>1. /\ n' = n /\ mask' = mask /\ cpc' = cpc /\ val' = val /\ tail' = tail /\ pipe' = pipe
      /\ messages' = messages /\ stray' = stray
  BY DEF childVars
<1>2. QED
  BY ONLY <1>1, TypeOK, sync' \in Nat, hsem' \in Nat, pending' \in SUBSET Signals,
     frames' \in Seq(Frame), gone' \in BOOLEAN, count' \in Nat, printed' \in SUBSET Nat,
     Zenon DEF TypeOK

(* The type of the parent's part of the state.                              *)
LEMMA TypeFacts ==
  ASSUME TypeOK
  PROVE  /\ sync \in Nat /\ hsem \in Nat /\ pending \in SUBSET Signals /\ frames \in Seq(Frame)
         /\ gone \in BOOLEAN /\ count \in Nat /\ printed \in SUBSET Nat /\ messages \in Nat
         /\ cpc \in [Child -> ChildPC]
  BY Zenon DEF TypeOK
-----------------------------------------------------------------------------
(* The children start, with the token in semaphore_sync.                    *)
LEMMA InitPlace == Init => PlaceInv
<1> SUFFICES ASSUME Init PROVE PlaceInv
  OBVIOUS
<1>1. PICK m \in Ms : val = [i \in Child |-> m] /\ tail = [i \in Child |-> FifthOf(m)]
  BY DEF Init
<1>2. m \in Numbers /\ FifthOf(m) \in 0 .. 9 \cup {None}
  BY PingPongAssumption DEF FifthOf, Numbers
<1>3. val \in [Child -> Numbers] /\ tail \in [Child -> 0 .. 9 \cup {None}]
  BY <1>1, <1>2
<1>4. cpc \in [Child -> ChildPC] /\ pipe \in [Child -> InFour \cup {None}]
  BY DEF Init, ChildPC
<1>5. TypeOK
  <2>1. /\ n \in Ns /\ sync \in Nat /\ hsem \in Nat /\ pending \in SUBSET Signals
        /\ mask \in SUBSET Signals /\ gone \in BOOLEAN /\ count \in Nat
        /\ printed \in SUBSET Nat /\ messages \in Nat /\ stray \in Nat
    BY DEF Init
  <2>2. frames \in Seq(Frame)
    BY DEF Init
  <2>3. QED
    BY <1>3, <1>4, <2>1, <2>2, Zenon DEF TypeOK
<1>6. Free
  BY DEF Init, Free, Quiet, NobodyActive, Passive, Active, Child, Owed
<1>7. QED
  BY <1>5, <1>6 DEF Init, PlaceInv, TokenIsSomewhere, NoStraySignal

(* The steps of the parent.                                                *)
LEMMA ParentPlace == PlaceInv /\ ParentStep => PlaceInv'
<1> SUFFICES ASSUME PlaceInv, ParentStep PROVE PlaceInv'
  OBVIOUS
<1> USE DEF PlaceInv, NoStraySignal, childVars
<1>0. ~gone /\ USR1 \in Signals /\ USR2 \in Signals /\ USR1 # USR2
  BY DEF ParentStep, Deliver, HandlerWait, CountMessage, PrintAndExit, HandlerPost,
         Signals, USR1, USR2
<1>1. ASSUME NEW s \in Signals, Deliver(s) PROVE PlaceInv'
  <2>1. /\ pending = {s} /\ frames = <<>>
        /\ Posted(s) \/ \E i \in Child : Signalling(i, s)
    BY <1>0, <1>1 DEF Deliver, TokenIsSomewhere, Free, Counted, Working, Signalling,
       Posted, Acting, Quiet, Handling, Notified
  <2>2. pending' = {} /\ frames' = <<[sig |-> s, at |-> "wait"]>>
    BY <1>1, <2>1 DEF Deliver
  <2>3. frames' \in Seq(Frame)
    BY <2>2 DEF Frame
  <2>4. TypeOK'
    BY <1>1, <2>2, <2>3, TypeFacts, ParentTypes DEF Deliver
  <2>5. Notified(s)'
    BY <2>2 DEF Notified
  <2>6. Posted(s)' \/ \E i \in Child : Signalling(i, s)'
    BY <1>1, <2>1, <2>5 DEF Deliver, Posted, Signalling, OwedBy, Owed, NobodyActive, Passive
  <2>7. QED
    BY <1>0, <1>1, <2>4, <2>6 DEF Deliver, TokenIsSomewhere
<1>2. CASE HandlerWait
  <2>1. PICK s \in Signals : Posted(s)
    BY <1>0, <1>2 DEF HandlerWait, TokenIsSomewhere, Free, Counted, Working, Signalling,
       Acting
  <2>2. pending = {} /\ frames = <<[sig |-> s, at |-> "wait"]>>
    BY <1>2, <2>1 DEF Posted, Notified, HandlerWait, Top
  <2>3. frames' = <<[sig |-> s, at |-> "act"]>> /\ frames' \in Seq(Frame)
    BY <1>2, <2>2, OneFrame DEF HandlerWait
  <2>4. hsem' \in Nat
    BY <1>2, TypeFacts DEF HandlerWait
  <2>5. TypeOK'
    BY <1>2, <2>3, <2>4, TypeFacts, ParentTypes DEF HandlerWait
  <2>6. Acting(s)'
    BY <1>2, <2>1, <2>2, <2>3
    DEF HandlerWait, Posted, Acting, Handling, OwedBy, Owed, NobodyActive, Passive
  <2>7. QED
    BY <1>0, <1>2, <2>5, <2>6 DEF HandlerWait, TokenIsSomewhere
<1>3. ASSUME NEW s \in Signals, NEW a \in {"act", "post"}, Top(s, a)
      PROVE  /\ pending = {} /\ frames = <<[sig |-> s, at |-> a]>>
             /\ IF a = "act" THEN Acting(s) ELSE s = USR1 /\ Counted
  <2>1. frames # <<>> /\ frames[Len(frames)].sig = s /\ frames[Len(frames)].at = a
    BY <1>3 DEF Top
  <2>2. (\E t \in Signals : Acting(t)) \/ Counted
    BY <1>0, <2>1, OneFrame DEF TokenIsSomewhere, Free, Working, Signalling, Posted, Quiet,
       Notified
  <2>3. ASSUME NEW t \in Signals, Acting(t) PROVE t = s /\ a = "act"
    BY <2>1, <2>3, OneFrame DEF Acting, Handling
  <2>4. Counted => USR1 = s /\ a = "post"
    BY <1>0, <2>1, OneFrame DEF Counted, Handling
  <2>5. QED
    BY <2>2, <2>3, <2>4 DEF Acting, Counted, Handling
<1>4. CASE CountMessage
  <2>1. Acting(USR1) /\ pending = {} /\ frames = <<[sig |-> USR1, at |-> "act"]>>
    BY <1>0, <1>3, <1>4 DEF CountMessage
  <2>2. frames' = <<[sig |-> USR1, at |-> "post"]>> /\ frames' \in Seq(Frame)
    BY <1>0, <1>4, <2>1, OneFrame DEF CountMessage
  <2>3. TypeOK'
    BY <1>4, <2>2, TypeFacts, ParentTypes DEF CountMessage
  <2>4. Counted'
    BY <1>0, <1>4, <2>1, <2>2, TypeFacts
    DEF CountMessage, Acting, Counted, Handling, OwedBy, Owed, NobodyActive, Passive
  <2>5. QED
    BY <1>0, <1>4, <2>3, <2>4 DEF CountMessage, TokenIsSomewhere
<1>5. CASE PrintAndExit
  <2>1. Acting(USR2)
    BY <1>0, <1>3, <1>5 DEF PrintAndExit
  <2>2. printed' = {count'} /\ gone'
    BY <1>0, <1>5 DEF PrintAndExit, TokenIsSomewhere
  <2>3. TypeOK'
    BY <1>5, <2>2, TypeFacts, ParentTypes DEF PrintAndExit
  <2>4. Acting(USR2)'
    BY <1>5, <2>1
    DEF PrintAndExit, Acting, Handling, OwedBy, Owed, NobodyActive, Passive
  <2>5. QED
    BY <1>5, <2>2, <2>3, <2>4 DEF PrintAndExit, TokenIsSomewhere
<1>6. CASE HandlerPost
  <2>1. Counted /\ pending = {} /\ frames = <<[sig |-> USR1, at |-> "post"]>>
    BY <1>0, <1>3, <1>6 DEF HandlerPost
  <2>2. frames' = <<>>
    BY <1>0, <1>6, <2>1, OneFrame DEF HandlerPost
  <2>3. TypeOK'
    BY <1>6, <2>2, TypeFacts, ParentTypes DEF HandlerPost
  <2>4. Free'
    BY <1>6, <2>1, <2>2
    DEF HandlerPost, Counted, Free, Quiet, Owed, NobodyActive, Passive
  <2>5. QED
    BY <1>0, <1>6, <2>3, <2>4 DEF HandlerPost, TokenIsSomewhere
<1>7. QED
  BY <1>1, <1>2, <1>4, <1>5, <1>6 DEF ParentStep
-----------------------------------------------------------------------------
(* What the children may change, and what they leave alone.                 *)
LEMMA ChildTypes ==
  ASSUME TypeOK, UNCHANGED <<n, mask, parentVars>>,
         sync' \in Nat, hsem' \in Nat, pending' \in SUBSET Signals,
         cpc' \in [Child -> ChildPC], val' \in [Child -> Numbers],
         tail' \in [Child -> 0 .. 9 \cup {None}], pipe' \in [Child -> InFour \cup {None}],
         messages' \in Nat, stray' \in Nat
  PROVE  TypeOK'
<1>1. /\ n' = n /\ mask' = mask /\ frames' = frames /\ gone' = gone /\ count' = count
      /\ printed' = printed
  BY DEF parentVars
<1>2. QED
  BY ONLY <1>1, TypeOK, sync' \in Nat, hsem' \in Nat, pending' \in SUBSET Signals,
     cpc' \in [Child -> ChildPC], val' \in [Child -> Numbers],
     tail' \in [Child -> 0 .. 9 \cup {None}], pipe' \in [Child -> InFour \cup {None}],
     messages' \in Nat, stray' \in Nat,
     Zenon DEF TypeOK

(* The type of the children's part of the state.                            *)
LEMMA ChildFacts ==
  ASSUME TypeOK
  PROVE  /\ val \in [Child -> Numbers] /\ tail \in [Child -> 0 .. 9 \cup {None}]
         /\ pipe \in [Child -> InFour \cup {None}] /\ stray \in Nat /\ n \in Ns
  BY Zenon DEF TypeOK

(* What is written fits in four bytes; what is read into a buffer with a    *)
(* fifth byte has five digits at most; and so has a quotient.               *)
LEMMA FirstFourType ==
  ASSUME NEW v \in Numbers
  PROVE  FirstFour(v) \in InFour
  BY DEF FirstFour, Numbers, InFour

(* What is put together from the characters read is a number of the range.  *)
LEMMA ReceivedType ==
  ASSUME NEW h \in InFour, NEW f \in 0 .. 9 \cup {None}
  PROVE  Received(h, f) \in Numbers
  BY DEF Received, Numbers, InFour, None

(* A quotient is a number of the range, and no greater than what was        *)
(* divided.                                                                 *)
LEMMA QuotientType ==
  ASSUME NEW v \in Numbers, NEW d \in Ns
  PROVE  v \div d \in Numbers /\ v \div d <= v
<1>1. d \in Nat \ {0, 1} /\ v \in Nat
  BY PingPongAssumption DEF Numbers
<1>2. v \div d \in Nat /\ v \div d <= v
  BY <1>1, Z3
<1>3. QED
  BY <1>1, <1>2 DEF Numbers

(* The fifth character is a digit or is none.                               *)
LEMMA FifthType ==
  ASSUME NEW v \in Numbers, NEW f \in 0 .. 9 \cup {None}
  PROVE  FifthAfter(v, f) \in 0 .. 9 \cup {None}
  BY DEF FifthAfter, FifthOf, Numbers

(* There are two children.                                                 *)
LEMMA TwoChildren ==
  ASSUME NEW i \in Child
  PROVE  /\ Other(i) \in Child /\ Other(i) # i /\ Other(Other(i)) = i
         /\ \A j \in Child : j = i \/ j = Other(i)
  BY DEF Child, Other

(* A child in the part of its loop between taking the token and handing it  *)
(* on is where the token is.                                               *)
LEMMA ActiveHasToken ==
  ASSUME PlaceInv, NEW i \in Child, ~Passive(i)
  PROVE  /\ ~gone /\ printed = {}
         /\ Working(i) \/ \E s \in Signals : Signalling(i, s)
<1>1. ~NobodyActive
  BY DEF NobodyActive
<1>2. ~gone /\ printed = {}
  BY <1>1 DEF PlaceInv, TokenIsSomewhere, Acting
<1>3. \E j \in Child : Working(j) \/ \E s \in Signals : Signalling(j, s)
  BY <1>1, <1>2 DEF PlaceInv, TokenIsSomewhere, Free, Counted, Posted, Acting
<1>4. \A j \in Child : Working(j) \/ (\E s \in Signals : Signalling(j, s)) => j = i
  BY TwoChildren DEF Working, Signalling
<1>5. QED
  BY <1>2, <1>3, <1>4

(* semaphore_sync has the token when it can be taken.                       *)
LEMMA SyncHasToken ==
  ASSUME PlaceInv, sync > 0
  PROVE  ~gone /\ printed = {} /\ Free
  BY DEF PlaceInv, TokenIsSomewhere, Counted, Working, Signalling, Posted, Acting

(* Taking semaphore_sync, in either place.                                  *)
LEMMA TakeSync ==
  ASSUME PlaceInv, NEW i \in Child, NEW to \in {"send", "divide"},
         sync > 0, sync' = sync - 1, cpc' = [cpc EXCEPT ![i] = to],
         UNCHANGED <<n, hsem, pending, mask, parentVars, val, tail, pipe, messages, stray>>
  PROVE  PlaceInv'
<1>1. ~gone /\ printed = {} /\ Free /\ TypeOK
  BY SyncHasToken DEF PlaceInv
<1>2. cpc' \in [Child -> ChildPC] /\ cpc'[i] = to /\ cpc'[Other(i)] = cpc[Other(i)]
  BY <1>1, TypeFacts, TwoChildren DEF ChildPC
<1>3. Working(i)'
  BY <1>1, <1>2, TwoChildren
  DEF Free, Working, Quiet, Owed, NobodyActive, Passive, parentVars
<1>4. TypeOK'
  BY <1>1, <1>2, TypeFacts, ChildFacts, ChildTypes DEF Free
<1>5. QED
  BY <1>1, <1>3, <1>4 DEF PlaceInv, TokenIsSomewhere, NoStraySignal, parentVars

(* The steps of the children.                                              *)
LEMMA ChildPlace ==
  ASSUME PlaceInv, NEW i \in Child, ChildStep(i)
  PROVE  PlaceInv'
<1>0. TypeOK /\ stray = 0 /\ USR1 \in Signals /\ USR2 \in Signals /\ USR1 # USR2
  BY DEF PlaceInv, NoStraySignal, Signals, USR1, USR2
<1>1. CASE i = 0 /\ SyncToSend
  BY <1>1, TakeSync DEF SyncToSend, Goto
<1>2. CASE Send(i)
  <2>1. ~gone /\ printed = {} /\ Working(i)
    BY <1>2, ActiveHasToken DEF Send, Goto, Passive, Active, Signalling
  <2>2. /\ cpc' \in [Child -> ChildPC] /\ cpc'[i] = "post"
        /\ cpc'[Other(i)] = cpc[Other(i)]
    BY <1>0, <1>2, TypeFacts, TwoChildren DEF Send, Goto, ChildPC
  <2>3. pending' = {USR1} /\ stray' = 0
    BY <1>0, <1>2, <2>1 DEF Send, Raise, Working, Quiet
  <2>4. Signalling(i, USR1)'
    BY <1>0, <1>2, <2>1, <2>2, <2>3, TypeFacts
    DEF Send, Working, Signalling, Notified, Quiet, OwedBy, Owed, Passive, parentVars
  <2>5. pipe' \in [Child -> InFour \cup {None}]
    BY <1>0, <1>2, ChildFacts, FirstFourType DEF Send
  <2>6. TypeOK'
    BY <1>0, <1>2, <2>2, <2>3, <2>5, TypeFacts, ChildFacts, ChildTypes DEF Send
  <2>7. QED
    BY <1>0, <1>2, <2>1, <2>3, <2>4, <2>6
    DEF Send, PlaceInv, TokenIsSomewhere, NoStraySignal, parentVars
<1>3. CASE PostHandler(i)
  <2>1. PICK s \in Signals : ~gone /\ printed = {} /\ Signalling(i, s)
    BY <1>3, ActiveHasToken DEF PostHandler, Goto, Passive, Active, Working
  <2>2. /\ cpc' \in [Child -> ChildPC] /\ cpc'[i] \in {"read", "exited"}
        /\ cpc'[Other(i)] = cpc[Other(i)]
    BY <1>0, <1>3, TypeFacts, TwoChildren DEF PostHandler, Goto, ChildPC
  <2>3. NobodyActive'
    BY <2>1, <2>2, TwoChildren DEF NobodyActive, Passive, Active, Signalling
  <2>4. Posted(s)'
    BY <1>3, <2>1, <2>3
    DEF PostHandler, Signalling, Posted, Notified, OwedBy, Owed, parentVars
  <2>5. TypeOK'
    BY <1>0, <1>3, <2>2, TypeFacts, ChildFacts, ChildTypes DEF PostHandler
  <2>6. QED
    BY <1>0, <1>3, <2>1, <2>4, <2>5
    DEF PostHandler, PlaceInv, TokenIsSomewhere, NoStraySignal, parentVars
<1>4. CASE Read(i)
  <2>1. /\ cpc' \in [Child -> ChildPC] /\ cpc[i] = "read" /\ cpc'[i] = "sync"
        /\ cpc'[Other(i)] = cpc[Other(i)]
    BY <1>0, <1>4, TypeFacts, TwoChildren DEF Read, Goto, ChildPC
  <2>2. /\ UNCHANGED <<sync, hsem, pending, frames, gone, count, printed, messages>>
        /\ stray' = stray
    BY <1>4 DEF Read, parentVars
  <2>3. \A j \in Child : (Passive(j)' <=> Passive(j)) /\ (~Passive(j) => cpc'[j] = cpc[j])
    BY <2>1, TwoChildren DEF Passive, Active
  <2>4. \A j \in Child : cpc'[j] \in Active \/ cpc[j] \in Active => cpc'[j] = cpc[j]
    BY <2>3 DEF Passive
  <2>5. TokenIsSomewhere'
    <3>1. (Free => Free') /\ (Counted => Counted')
      BY <2>2, <2>3 DEF Free, Counted, Quiet, Handling, NobodyActive, Owed
    <3>2. \A j \in Child : Working(j) => Working(j)'
      BY <2>2, <2>3, <2>4, TwoChildren DEF Working, Quiet, Owed, Active
    <3>3. \A j \in Child, s \in Signals : Signalling(j, s) => Signalling(j, s)'
      BY <2>2, <2>3, <2>4, TwoChildren DEF Signalling, Notified, OwedBy, Owed, Active
    <3>4. \A s \in Signals : (Posted(s) => Posted(s)') /\ (Acting(s) => Acting(s)')
      BY <2>2, <2>3 DEF Posted, Acting, Notified, Handling, NobodyActive, OwedBy, Owed
    <3>5. QED
      BY <1>0, <2>2, <3>1, <3>2, <3>3, <3>4 DEF PlaceInv, TokenIsSomewhere
  <2>6. /\ val' \in [Child -> Numbers] /\ pipe' \in [Child -> InFour \cup {None}]
        /\ tail' = tail
    <3>1. pipe[Other(i)] # None => Received(pipe[Other(i)], tail[i]) \in Numbers
      BY <1>0, TwoChildren, ChildFacts, ReceivedType
    <3>2. QED
      BY <1>0, <1>4, <3>1, ChildFacts DEF Read
  <2>7. TypeOK'
    BY <1>0, <1>4, <2>1, <2>2, <2>6, TypeFacts, ChildFacts, ChildTypes DEF Read
  <2>8. QED
    BY <1>0, <2>2, <2>5, <2>7 DEF PlaceInv, NoStraySignal
<1>5. CASE SyncToDivide(i)
  BY <1>5, TakeSync DEF SyncToDivide, Goto
<1>6. CASE Divide(i)
  <2> DEFINE q == val[i] \div n
  <2>1. ~gone /\ printed = {} /\ Working(i)
    BY <1>6, ActiveHasToken DEF Divide, Goto, Passive, Active, Signalling
  <2>2. /\ q \in Numbers /\ FifthAfter(q, tail[i]) \in 0 .. 9 \cup {None}
        /\ val' = [val EXCEPT ![i] = q]
        /\ tail' = [tail EXCEPT ![i] = FifthAfter(q, tail[i])]
    BY <1>0, <1>6, ChildFacts, QuotientType, FifthType DEF Divide
  <2>3. val' \in [Child -> Numbers] /\ tail' \in [Child -> 0 .. 9 \cup {None}]
    BY <1>0, <2>2, ChildFacts
  <2>4. CASE q = 0
    <3>1. /\ cpc' \in [Child -> ChildPC] /\ cpc'[i] = "last"
          /\ cpc'[Other(i)] = cpc[Other(i)]
      BY <1>0, <1>6, <2>4, TypeFacts, TwoChildren DEF Divide, Goto, ChildPC
    <3>2. pending' = {USR2} /\ stray' = 0
      BY <1>0, <1>6, <2>1, <2>4 DEF Divide, Raise, Working, Quiet
    <3>3. Signalling(i, USR2)'
      BY <1>0, <1>6, <2>1, <2>4, <3>1, <3>2
      DEF Divide, Working, Signalling, Notified, Quiet, OwedBy, Owed, Passive, parentVars
    <3>4. TypeOK'
      BY <1>0, <1>6, <2>3, <2>4, <3>1, <3>2, TypeFacts, ChildFacts, ChildTypes DEF Divide
    <3>5. QED
      BY <1>0, <1>6, <2>1, <3>2, <3>3, <3>4
      DEF Divide, PlaceInv, TokenIsSomewhere, NoStraySignal, parentVars
  <2>5. CASE q # 0
    <3>1. /\ cpc' \in [Child -> ChildPC] /\ cpc'[i] = (IF i = 0 THEN "again" ELSE "send")
          /\ cpc'[Other(i)] = cpc[Other(i)]
      BY <1>0, <1>6, <2>5, TypeFacts, TwoChildren DEF Divide, Goto, ChildPC
    <3>2. /\ sync' = (IF i = 0 THEN sync + 1 ELSE sync)
          /\ UNCHANGED <<n, mask, hsem, pending, parentVars, pipe, messages, stray>>
      BY <1>6, <2>5 DEF Divide
    <3>3. IF i = 0 THEN Free' ELSE Working(i)'
      BY <2>1, <3>1, <3>2, TwoChildren
      DEF Working, Free, Quiet, Owed, NobodyActive, Passive, Active, parentVars
    <3>4. TypeOK'
      BY <1>0, <2>3, <3>1, <3>2, TypeFacts, ChildFacts, ChildTypes
    <3>5. QED
      BY <1>0, <2>1, <3>2, <3>3, <3>4
      DEF PlaceInv, TokenIsSomewhere, NoStraySignal, parentVars
  <2>6. QED
    BY <2>4, <2>5
<1>7. QED
  BY <1>1, <1>2, <1>3, <1>4, <1>5, <1>6 DEF ChildStep
-----------------------------------------------------------------------------
(* At every moment the token is in exactly one of its places.               *)
THEOREM TokenHasPlace == Spec => []PlaceInv
<1>1. PlaceInv /\ [Next]_vars => PlaceInv'
  <2> SUFFICES ASSUME PlaceInv, [Next]_vars PROVE PlaceInv'
    OBVIOUS
  <2>1. CASE Next
    BY <2>1, ParentPlace, ChildPlace DEF Next
  <2>2. CASE UNCHANGED vars
    <3>1. TypeOK' /\ NoStraySignal'
      BY <2>2, Zenon DEF vars, PlaceInv, TypeOK, NoStraySignal
    <3>2. TokenIsSomewhere'
      BY <2>2, Zenon DEF vars, PlaceInv, TokenIsSomewhere, Free, Counted, Working, Signalling,
         Posted, Acting, Quiet, Notified, Handling, NobodyActive, Passive, OwedBy, Owed
    <3>3. QED
      BY <3>1, <3>2 DEF PlaceInv
  <2>3. QED
    BY <2>1, <2>2
<1>2. QED
  BY InitPlace, <1>1, PTL DEF Spec

(* One token for both semaphores, both children and all handlers.           *)
LEMMA PlaceGivesOneToken == PlaceInv => OneToken
<1> SUFFICES ASSUME PlaceInv PROVE OneToken
  OBVIOUS
<1> DEFINE inChild == {i \in Child : cpc[i] \in Active}
           busy == {k \in 1 .. Len(frames) : frames[k].at # "wait"}
<1>1. NobodyActive => inChild = {}
  BY DEF NobodyActive, Passive
<1>2. \A i \in Child : Passive(Other(i)) => Other(i) \in Child \ inChild
  BY TwoChildren DEF Passive
<1>3. Quiet => busy = {}
  BY DEF Quiet
<1>4. \A s \in Signals : Notified(s) => busy = {}
  BY OneFrame DEF Notified
<1>5. /\ sync + hsem <= 1
      /\ inChild # {} => sync = 0 /\ hsem = 0 /\ inChild # Child
      /\ busy # {} /\ ~gone => sync = 0 /\ hsem = 0 /\ inChild = {}
  <2>1. CASE Free \/ Counted \/ \E s \in Signals : Posted(s) \/ Acting(s)
    BY <1>1, <1>3, <1>4, <2>1 DEF Free, Counted, Posted, Acting
  <2>2. ASSUME NEW i \in Child, Working(i) \/ \E s \in Signals : Signalling(i, s)
        PROVE  sync = 0 /\ hsem = 0 /\ inChild # Child /\ busy = {}
    BY <1>2, <1>3, <1>4, <2>2 DEF Working, Signalling
  <2>3. QED
    BY <2>1, <2>2 DEF PlaceInv, TokenIsSomewhere, Signals
<1>6. QED
  BY <1>5 DEF OneToken, Active

(* The token in all its forms: no signal is lost or doubled or misdirected, *)
(* no sem_wait is interrupted, and the number printed is that of the        *)
(* messages, for every two numbers and whatever sa_mask holds.              *)
THEOREM TokenIsKept == Spec => []TokenInv
<1>1. PlaceInv => WaitIsNeverInterrupted
  <2> SUFFICES ASSUME PlaceInv, NEW k \in 1 .. Len(frames), frames[k].at = "wait"
               PROVE  pending = {} /\ k = Len(frames)
    BY DEF WaitIsNeverInterrupted
  <2>1. ~Quiet
    BY DEF Quiet
  <2>2. \A s \in Signals : ~Handling(s, "act") /\ ~Handling(s, "post")
    BY OneFrame DEF Handling
  <2>3. PICK s \in Signals : Notified(s)
    BY <2>1, <2>2 DEF PlaceInv, TokenIsSomewhere, Free, Counted, Working, Signalling, Posted,
       Acting, Signals
  <2>4. QED
    BY <2>3, OneFrame DEF Notified
<1>2. PlaceInv => PrintedIsExact
  BY TypeFacts DEF PlaceInv, TokenIsSomewhere, Acting, OwedBy, Owed, PrintedIsExact,
     USR1, USR2
<1>3. PlaceInv => TokenInv
  BY <1>1, <1>2, PlaceGivesOneToken DEF PlaceInv, TokenInv
<1>4. QED
  BY <1>3, TokenHasPlace, PTL
-----------------------------------------------------------------------------
(* One step of a child, where every number has at most four digits.         *)
LEMMA SmallDivision ==
  ASSUME TypeOK, Small, NEW i \in Child
  PROVE  /\ val[i] \div n <= 9999 /\ FifthAfter(val[i] \div n, tail[i]) = None
         /\ FirstFour(val[i]) = val[i]
<1>1. val[i] \in Numbers /\ n \in Ns /\ val[i] <= 9999 /\ tail[i] = None
  BY ChildFacts DEF Small
<1>2. val[i] \div n \in Numbers /\ val[i] \div n <= 9999
  BY <1>1, QuotientType DEF Numbers
<1>3. QED
  BY <1>1, <1>2 DEF FifthAfter, FifthOf, FirstFour, Numbers

(* The number stays in one of its places, and a child that reads from a     *)
(* pipe with a number in it reads what the other has.                       *)
LEMMA FlowStep ==
  ASSUME FlowInv, TypeOK', NEW i \in Child, ChildStep(i)
  PROVE  /\ FlowInv'
         /\ Read(i) /\ pipe[Other(i)] # None => val'[i] = val[Other(i)]
<1> DEFINE Place(j) == With(j) \/ InPipe(j) \/ StoppedWith(j)
<1>0. /\ TypeOK /\ Small /\ None \notin Numbers /\ None \notin InFour
      /\ cpc \in [Child -> ChildPC] /\ val \in [Child -> Numbers]
      /\ tail \in [Child -> 0 .. 9 \cup {None}] /\ pipe \in [Child -> InFour \cup {None}]
  BY TypeFacts, ChildFacts DEF FlowInv, None, Numbers, InFour
<1>1. PICK j \in Child : Place(j)
  BY DEF FlowInv
<1>2. SUFFICES /\ Small' /\ \E k \in Child : Place(k)'
               /\ Read(i) /\ pipe[Other(i)] # None => val'[i] = val[Other(i)]
  BY DEF FlowInv
<1>3. /\ Other(i) \in Child /\ Other(i) # i /\ Other(Other(i)) = i
      /\ j = i \/ j = Other(i)
  BY TwoChildren
<1> USE DEF With, InPipe, StoppedWith, Goto
<1>4. CASE i = 0 /\ SyncToSend
  BY <1>0, <1>1, <1>3, <1>4 DEF SyncToSend, Small, Read
<1>5. CASE Send(i)
  BY <1>0, <1>1, <1>3, <1>5, SmallDivision DEF Send, Small, Read
<1>6. CASE PostHandler(i)
  BY <1>0, <1>1, <1>3, <1>6 DEF PostHandler, Small, Read
<1>7. CASE Read(i)
  BY <1>0, <1>1, <1>3, <1>7 DEF Read, Received, Small
<1>8. CASE SyncToDivide(i)
  BY <1>0, <1>1, <1>3, <1>8 DEF SyncToDivide, Small, Read
<1>9. CASE Divide(i)
  BY <1>0, <1>1, <1>3, <1>9, SmallDivision DEF Divide, Small, Read
<1>10. QED
  BY <1>4, <1>5, <1>6, <1>7, <1>8, <1>9 DEF ChildStep

(* Where the number is does not depend on the parent.                       *)
LEMMA FlowElsewhere == FlowInv /\ TypeOK' /\ UNCHANGED childVars => FlowInv'
<1> SUFFICES ASSUME FlowInv, TypeOK', UNCHANGED childVars PROVE FlowInv'
  OBVIOUS
<1>1. cpc' = cpc /\ val' = val /\ tail' = tail /\ pipe' = pipe
  BY DEF childVars
<1>2. QED
  BY <1>1 DEF FlowInv, Small, With, InPipe, StoppedWith

(* The number on the command line is in the buffers of both children, and   *)
(* child[0] is the one to send it.                                          *)
LEMMA InitFlow ==
  ASSUME \A m \in Ms : m <= 9999, Init
  PROVE  FlowInv
<1>1. TypeOK
  BY InitPlace DEF PlaceInv
<1>2. PICK m \in Ms : val = [i \in Child |-> m] /\ tail = [i \in Child |-> FifthOf(m)]
  BY DEF Init
<1>3. m <= 9999 /\ m \in Numbers /\ FifthOf(m) = None
  BY PingPongAssumption DEF FifthOf, Numbers
<1>4. Small
  BY <1>2, <1>3 DEF Small
<1>5. 0 \in Child /\ With(0)
  BY DEF Init, With, Child, Other
<1>6. QED
  BY <1>1, <1>4, <1>5 DEF FlowInv

(* With at most four digits in argv[1], what a child reads is always what   *)
(* the other wrote; TLC shows a counterexample with five.                   *)
THEOREM ReadsAreExact ==
  ASSUME \A m \in Ms : m <= 9999
  PROVE  Spec => ReadIsExact
<1> DEFINE Exact == \A i \in Child : cpc[i] = "read" /\ cpc'[i] = "sync"
                      /\ pipe[Other(i)] # None => val'[i] = val[Other(i)]
<1>1. Init => FlowInv
  BY InitFlow
<1>2. FlowInv /\ PlaceInv /\ PlaceInv' /\ [Next]_vars => FlowInv' /\ [Exact]_vars
  <2> SUFFICES ASSUME FlowInv, TypeOK, TypeOK', [Next]_vars PROVE FlowInv' /\ [Exact]_vars
    BY DEF PlaceInv
  <2>1. CASE UNCHANGED vars \/ ParentStep
    <3>1. UNCHANGED childVars
      <4>1. UNCHANGED vars => UNCHANGED childVars
        BY DEF vars, childVars
      <4>2. ASSUME NEW s \in Signals, Deliver(s) PROVE UNCHANGED childVars
        BY <4>2 DEF Deliver
      <4>3. HandlerWait \/ CountMessage => UNCHANGED childVars
        BY DEF HandlerWait, CountMessage
      <4>4. PrintAndExit \/ HandlerPost => UNCHANGED childVars
        BY DEF PrintAndExit, HandlerPost
      <4>5. QED
        BY <2>1, <4>1, <4>2, <4>3, <4>4 DEF ParentStep
    <3>2. QED
      BY <3>1, FlowElsewhere DEF childVars
  <2>2. ASSUME NEW k \in Child, ChildStep(k) PROVE FlowInv' /\ Exact
    <3>1. FlowInv' /\ (Read(k) /\ pipe[Other(k)] # None => val'[k] = val[Other(k)])
      BY <2>2, FlowStep
    <3>2. ASSUME NEW i \in Child, cpc[i] = "read", cpc'[i] = "sync" PROVE i = k /\ Read(k)
      BY <2>2, <3>2, TypeFacts
      DEF ChildStep, SyncToSend, Send, PostHandler, Read, SyncToDivide, Divide, Goto
    <3>3. QED
      BY <3>1, <3>2
  <2>3. QED
    BY <2>1, <2>2 DEF Next
<1>3. QED
  BY <1>1, <1>2, TokenHasPlace, PTL DEF Spec, ReadIsExact
-----------------------------------------------------------------------------
(* The chat's messages, what pipes hold and programs print, where they are.  *)
Posts == [from : C!Clients, to : C!Clients \cup {"nobody"}, n : Nat]
Items == IF cProgram = "chat" THEN Posts ELSE Nat
Places == {"off", "start", "exec", "write", "read", "reply", "alone", "spin", "open", "first",
           "own", "type", "dest", "relay", "ended", "killed"}

(* How much a pipe holds, a process has printed, the buffer holds.           *)
Has(q) == Len(cPipe[q])
Printed(p) == Len(cShown[p])
Hand == Len(buf)

TalkTypes ==
  /\ cProgram \in {"email", "rounds", "filter", "chat"} /\ variant \in {"raw", "stdio", "missing"}
  /\ at \in [C!Procs -> Places] /\ cN \in [C!Procs -> Nat]
  /\ cPipe \in [C!Pipes -> Seq(Items)] /\ cShown \in [C!Procs -> Seq(Items)] /\ buf \in Seq(Items)
  /\ exists \subseteq C!Clients \cup {"server"} /\ deaf \subseteq C!Clients /\ fds \in 0 .. MaxFds
  /\ sent \in Seq(Posts) /\ lost \subseteq C!Range(sent) /\ killed \subseteq C!Clients

(* A program leaves the pipes and processes of the others alone.            *)
Unused ==
  /\ cProgram # "chat" => \A c \in C!Clients \cup {"server"} : at[c] = "off" /\ Has(c) = 0
  /\ cProgram = "chat" => /\ at["parent"] = "off" /\ at["child"] = "off"
                          /\ Has("p1") = 0 /\ Has("p2") = 0

(* The address that was sent last is in one of the pipes until it is        *)
(* answered.                                                               *)
RawInv ==
  variant = "raw" =>
    /\ Hand = 0 /\ \A k \in DOMAIN cShown["parent"] : cShown["parent"][k] = k
    /\ at["child"] = "ended" => at["parent"] \in {"ended", "killed"}
    /\ \/ at["parent"] # "read" /\ Has("p1") = 0 /\ Has("p2") = 0
       \/ at["parent"] = "read" /\ Has("p1") = 1 /\ cPipe["p1"][1] = cN["parent"] + 1 /\ Has("p2") = 0
       \/ at["parent"] = "read" /\ Has("p1") = 0 /\ Has("p2") = 1 /\ cPipe["p2"][1] = cN["parent"] + 1
(* The first answer never leaves the buffer.                                *)
StdioInv ==
  variant = "stdio" =>
    /\ Printed("parent") = 0 /\ Has("p2") = 0 /\ at["child"] # "ended"
    /\ Has("p1") + Hand = IF at["parent"] = "read" THEN 1 ELSE 0
(* Nobody reads what was written, and the second write is the last.         *)
MissingInv ==
  variant = "missing" =>
    /\ Hand = 0 /\ Has("p2") = 0 /\ at["child"] # "read"
    /\ \/ /\ cN["parent"] = 0 /\ Printed("parent") = 0
          /\ Has("p1") = IF at["parent"] = "read" THEN 1 ELSE 0
       \/ /\ cN["parent"] = 1 /\ Printed("parent") = 1 /\ cShown["parent"][1] = 0 /\ Has("p1") = 1
          /\ at["child"] = "ended" /\ at["parent"] # "read"
EmailPlaces ==
  /\ at["parent"] \in {"start", "write", "read", "ended", "killed"} /\ at["child"] \in {"off", "exec", "read", "ended"}
  /\ Printed("parent") = cN["parent"] /\ cN["parent"] <= Rounds
  /\ at["parent"] = "start" => at["child"] = "off" /\ cN["parent"] = 0
  /\ at["parent"] = "read" => at["child"] # "off" /\ cN["parent"] < Rounds
EmailInv == cProgram = "email" => EmailPlaces /\ RawInv /\ StdioInv /\ MissingInv

(* One message is under way, or the child has it in its hands, while the    *)
(* parent reads.                                                           *)
Empty == Has("p1") = 0 /\ Has("p2") = 0
RoundsInv ==
  cProgram = "rounds" =>
    \/ at["parent"] \in {"start", "alone", "killed"} /\ at["child"] = "off" /\ cN["parent"] = 0 /\ cN["child"] = 0 /\ Empty
    \/ at["parent"] = "write" /\ at["child"] = "read" /\ cN["child"] = cN["parent"] /\ cN["parent"] < Rounds /\ Empty
    \/ /\ at["parent"] = "read" /\ at["child"] = "read" /\ cN["child"] = cN["parent"] /\ cN["parent"] < Rounds
       /\ Has("p1") = 1 /\ Has("p2") = 0
    \/ at["parent"] = "read" /\ at["child"] = "reply" /\ cN["child"] = cN["parent"] /\ cN["parent"] < Rounds /\ Empty
    \/ /\ at["parent"] = "read" /\ cN["child"] = cN["parent"] + 1 /\ cN["parent"] < Rounds
       /\ at["child"] = (IF cN["child"] < Rounds THEN "read" ELSE "spin")
       /\ Has("p1") = 0 /\ Has("p2") = 1
    \/ at["parent"] = "spin" /\ at["child"] = "spin" /\ cN["child"] = cN["parent"] /\ Empty

FilterInv ==
  cProgram = "filter" =>
    /\ at["parent"] \in {"start", "read", "ended"} /\ at["child"] \in {"off", "read", "ended"}
    /\ Hand = 0 /\ Has("p2") = 0 /\ Has("p1") <= cN["child"] /\ cN["child"] <= MaxLines

(* The server holds a message from the moment it has read it until it has    *)
(* relayed or dropped it.                                                  *)
ChatPlaces ==
  /\ at["server"] \in {"start", "open", "read", "dest", "relay", "ended", "killed"}
  /\ \A c \in C!Clients : at[c] \in {"start", "open", "first", "own", "read", "type", "ended", "killed"}
  /\ Hand = IF at["server"] \in {"dest", "relay", "killed"} THEN 1 ELSE 0
  /\ at["server"] = "relay" => buf[1].to \in C!Clients
  /\ \A c \in C!Clients : cN[c] <= MaxLines /\ (at[c] = "type" => Printed(c) > 0)
(* Pipes hold no more than was typed, and every message relayed has opened    *)
(* a descriptor.                                                           *)
ChatCounts ==
  /\ Has("server") + Has("a") + Has("b") + Hand <= cN["a"] + cN["b"]
  /\ Printed("a") + Has("a") + Printed("b") + Has("b")
       + (IF at["server"] = "relay" THEN 1 ELSE 0) <= fds
(* What the server has or will read was sent, under a number that its        *)
(* sender had typed.                                                       *)
Known(w, s) == \A k \in DOMAIN w : \E l \in DOMAIN s : w[k] = s[l]
ChatKnown ==
  /\ Known(cPipe["server"], sent) /\ Known(buf, sent)
  /\ \A l \in DOMAIN sent : sent[l].n <= cN[sent[l].from]
(* w has what s has from x to y, except for what is in g, once and in order.  *)
Relayed(w, s, g, x, y) ==
  /\ {w[k] : k \in C!Between(w, x, y)} = {s[k] : k \in C!Between(s, x, y)} \ g
  /\ \A k, l \in C!Between(w, x, y) : k < l => w[k].n < w[l].n
Undisturbed == at["server"] \notin {"ended", "killed"} /\ killed = {}
ChatRelayed == Undisturbed => \A x, y \in C!Clients : Relayed(C!Way(y), sent, lost, x, y)
ChatInv == cProgram = "chat" => ChatPlaces /\ ChatCounts /\ ChatKnown /\ ChatRelayed

TalkIInv == TalkTypes /\ Unused /\ EmailInv /\ RoundsInv /\ FilterInv /\ ChatInv
-----------------------------------------------------------------------------
(* The next message of a sender has a number that is new.                   *)
LEMMA Added ==
  ASSUME NEW w \in Seq(Posts), NEW s \in Seq(Posts), NEW m \in Posts, NEW g, NEW x, NEW y,
         Relayed(w, s, g, x, y), m \notin g,
         \A k \in DOMAIN s : s[k].from = m.from => s[k].n < m.n
  PROVE  Relayed(Append(w, m), Append(s, m), g, x, y)
<1>1. \A t \in Seq(Posts) :
        /\ DOMAIN t = 1 .. Len(t) /\ Len(t) \in Nat /\ DOMAIN Append(t, m) = 1 .. Len(t) + 1
        /\ Append(t, m)[Len(t) + 1] = m /\ \A k \in DOMAIN t : Append(t, m)[k] = t[k]
  OBVIOUS
<1>2. CASE m.from = x /\ m.to = y
  <2>1. \A t \in Seq(Posts) : C!Between(Append(t, m), x, y) = C!Between(t, x, y) \cup {Len(t) + 1}
    BY <1>1, <1>2 DEF C!Between
  <2>2. \A t \in Seq(Posts) :
          {Append(t, m)[k] : k \in C!Between(Append(t, m), x, y)} = {t[k] : k \in C!Between(t, x, y)} \cup {m}
    BY <1>1, <2>1 DEF C!Between
  <2>3. {w[k] : k \in C!Between(w, x, y)} \cup {m} = ({s[k] : k \in C!Between(s, x, y)} \cup {m}) \ g
    BY DEF Relayed
  <2>4. \A k \in C!Between(w, x, y) : w[k].n < m.n
    <3>1. \A k \in C!Between(w, x, y) : \E l \in C!Between(s, x, y) : w[k] = s[l]
      BY DEF Relayed
    <3>2. QED
      BY <1>2, <3>1 DEF C!Between
  <2>5. ASSUME NEW k \in C!Between(Append(w, m), x, y), NEW l \in C!Between(Append(w, m), x, y), k < l
        PROVE  Append(w, m)[k].n < Append(w, m)[l].n
    <3>1. k \in C!Between(w, x, y) /\ k \in DOMAIN w /\ l \in DOMAIN w \cup {Len(w) + 1}
      BY <1>1, <2>1, <2>5 DEF C!Between
    <3>2. CASE l = Len(w) + 1
      BY <1>1, <2>4, <3>1, <3>2
    <3>3. CASE l \in DOMAIN w
      <4>1. l \in C!Between(w, x, y)
        BY <1>1, <2>1, <3>3
      <4>2. QED
        BY <1>1, <2>5, <3>1, <3>3, <4>1 DEF Relayed
    <3>4. QED
      BY <3>1, <3>2, <3>3
  <2>6. QED
    BY <2>2, <2>3, <2>5 DEF Relayed
<1>3. CASE ~(m.from = x /\ m.to = y)
  <2>1. \A t \in Seq(Posts) : C!Between(Append(t, m), x, y) = C!Between(t, x, y)
    BY <1>1, <1>3 DEF C!Between
  <2>2. \A t \in Seq(Posts) : \A k \in C!Between(t, x, y) : Append(t, m)[k] = t[k]
    BY <1>1 DEF C!Between
  <2>3. /\ {Append(w, m)[k] : k \in C!Between(Append(w, m), x, y)} = {w[k] : k \in C!Between(w, x, y)}
        /\ {Append(s, m)[k] : k \in C!Between(Append(s, m), x, y)} = {s[k] : k \in C!Between(s, x, y)}
    BY <2>1, <2>2
  <2>4. \A k, l \in C!Between(Append(w, m), x, y) : k < l => Append(w, m)[k].n < Append(w, m)[l].n
    BY <2>1, <2>2 DEF Relayed
  <2>5. QED
    BY <2>3, <2>4 DEF Relayed
<1>4. QED
  BY <1>2, <1>3

(* A message that is dropped was there once.                                *)
LEMMA Dropped ==
  ASSUME NEW u \in Seq(Posts), NEW q \in Seq(Posts), NEW m \in Posts, NEW s \in Seq(Posts), NEW g, NEW x, NEW y,
         Relayed((u \o <<m>>) \o q, s, g, x, y)
  PROVE  /\ Relayed(u \o q, s, g \cup {m}, x, y)
         /\ m.to # y => Relayed(u \o q, s, g, x, y)
<1> DEFINE w == (u \o <<m>>) \o q
           v == u \o q
           Old(k) == IF k <= Len(u) THEN k ELSE k + 1
<1>1. /\ Len(u) \in Nat /\ Len(q) \in Nat
      /\ DOMAIN w = 1 .. Len(u) + 1 + Len(q) /\ DOMAIN v = 1 .. Len(u) + Len(q)
  <2>1. u \o <<m>> \in Seq(Posts) /\ Len(u \o <<m>>) = Len(u) + 1
    OBVIOUS
  <2>2. QED
    BY <2>1
<1>2. \A k \in DOMAIN v : v[k] = w[Old(k)]
  <2>1. u \o <<m>> \in Seq(Posts) /\ Len(u \o <<m>>) = Len(u) + 1 /\ \A k \in 1 .. Len(u) : (u \o <<m>>)[k] = u[k]
    BY ConcatProperties
  <2>2. \A k \in 1 .. Len(u) + Len(q) : v[k] = IF k <= Len(u) THEN u[k] ELSE q[k - Len(u)]
    BY ConcatProperties
  <2>3. \A k \in 1 .. Len(u) + 1 + Len(q) : w[k] = IF k <= Len(u) + 1 THEN (u \o <<m>>)[k] ELSE q[k - (Len(u) + 1)]
    BY <2>1, ConcatProperties
  <2>4. ASSUME NEW k \in DOMAIN v PROVE v[k] = w[Old(k)]
    <3>1. CASE k <= Len(u)
      BY <1>1, <2>1, <2>2, <2>3, <3>1
    <3>2. CASE ~(k <= Len(u))
      <4>1. k + 1 \in 1 .. Len(u) + 1 + Len(q) /\ ~(k + 1 <= Len(u) + 1) /\ (k + 1) - (Len(u) + 1) = k - Len(u)
        BY <1>1, <3>2
      <4>2. QED
        BY <1>1, <2>2, <2>3, <3>2, <4>1
    <3>3. QED
      BY <3>1, <3>2
  <2>5. QED
    BY <2>4
<1>3. w[Len(u) + 1] = m /\ Len(u) + 1 \in DOMAIN w
  <2>1. u \o <<m>> \in Seq(Posts) /\ Len(u \o <<m>>) = Len(u) + 1 /\ (u \o <<m>>)[Len(u) + 1] = m
    BY ConcatProperties
  <2>2. w[Len(u) + 1] = (u \o <<m>>)[Len(u) + 1]
    BY <1>1, <2>1, ConcatProperties
  <2>3. QED
    BY <1>1, <2>1, <2>2
<1>4. /\ \A k \in DOMAIN v : Old(k) \in DOMAIN w /\ Old(k) # Len(u) + 1
      /\ \A k, l \in DOMAIN v : k < l => Old(k) < Old(l)
      /\ \A j \in DOMAIN w : j = Len(u) + 1 \/ \E k \in DOMAIN v : j = Old(k)
  <2>1. ASSUME NEW j \in DOMAIN w, j # Len(u) + 1 PROVE \E k \in DOMAIN v : j = Old(k)
    <3>1. CASE j <= Len(u)
      BY <1>1, <3>1
    <3>2. CASE ~(j <= Len(u))
      <4>1. j - 1 \in DOMAIN v /\ j = Old(j - 1)
        BY <1>1, <2>1, <3>2
      <4>2. QED
        BY <4>1
    <3>3. QED
      BY <3>1, <3>2
  <2>2. QED
    BY <1>1, <2>1
<1> HIDE DEF w, v, Old
<1>5. Relayed(w, s, g, x, y)
  BY DEF w
<1>6. /\ \A k \in C!Between(v, x, y) : k \in DOMAIN v /\ Old(k) \in C!Between(w, x, y) /\ v[k] = w[Old(k)]
      /\ \A j \in C!Between(w, x, y) : j = Len(u) + 1 \/ \E k \in C!Between(v, x, y) : j = Old(k)
  BY <1>2, <1>4 DEF C!Between
<1>7. \A k, l \in C!Between(v, x, y) : k < l => v[k].n < v[l].n
  BY <1>4, <1>5, <1>6 DEF Relayed
<1>8. \A k \in C!Between(v, x, y) : v[k] # m
  <2> SUFFICES ASSUME NEW k \in C!Between(v, x, y), v[k] = m PROVE FALSE
    OBVIOUS
  <2>1. /\ Old(k) \in C!Between(w, x, y) /\ w[Old(k)] = m /\ Old(k) # Len(u) + 1
        /\ Old(k) \in Nat /\ Len(u) + 1 \in Nat
    BY <1>1, <1>4, <1>6 DEF C!Between
  <2>2. Len(u) + 1 \in C!Between(w, x, y)
    BY <1>3, <2>1 DEF C!Between
  <2>3. m.n < m.n
    BY <1>3, <1>5, <2>1, <2>2, SMTT(30) DEF Relayed
  <2>4. m.n \in Nat
    BY DEF Posts
  <2>5. QED
    BY <2>3, <2>4
<1>9. {v[k] : k \in C!Between(v, x, y)} = {w[k] : k \in C!Between(w, x, y)} \ {m}
  BY <1>3, <1>6, <1>8, SMTT(30)
<1>10. Relayed(v, s, g \cup {m}, x, y)
  BY <1>5, <1>7, <1>9 DEF Relayed
<1>11. ASSUME m.to # y PROVE Relayed(v, s, g, x, y)
  <2>1. m \notin {w[k] : k \in C!Between(w, x, y)}
    BY <1>11 DEF C!Between
  <2>2. QED
    BY <1>5, <1>7, <1>9, <2>1 DEF Relayed
<1>12. QED
  BY <1>10, <1>11 DEF v
-----------------------------------------------------------------------------
(* What the calls do to the pipes and the terminals.                        *)
LEMMA Names ==
  /\ C!Clients = {"a", "b"} /\ C!Pair = {"parent", "child"}
  /\ C!Procs = {"parent", "child", "a", "b", "server"} /\ C!Pipes = {"p1", "p2", "a", "b", "server"}
BY DEF C!Clients, C!Pair, C!Procs, C!Pipes

(* What pipes hold, what was printed and typed are numbers.                 *)
LEMMA Lengths ==
  ASSUME TalkTypes
  PROVE  /\ \A q \in C!Pipes : Has(q) \in Nat
         /\ \A p \in C!Procs : Printed(p) \in Nat /\ cN[p] \in Nat
         /\ Hand \in Nat
BY DEF TalkTypes, Has, Printed, Hand

(* A write makes its pipe longer by the item, and no other.                 *)
LEMMA PutsEffect ==
  ASSUME TalkTypes, NEW q \in C!Pipes, NEW x \in Items, C!Puts(q, x), UNCHANGED cProgram
  PROVE  /\ cPipe' \in [C!Pipes -> Seq(Items')] /\ Has(q)' = Has(q) + 1
         /\ \A r \in C!Pipes \ {q} : cPipe'[r] = cPipe[r] /\ Has(r)' = Has(r)
         /\ cPipe'[q] = Append(cPipe[q], x)
<1>1. Items' = Items
  BY DEF Items
<1>2. cPipe \in [C!Pipes -> Seq(Items)] /\ cPipe' = [cPipe EXCEPT ![q] = Append(@, x)]
  BY DEF TalkTypes, C!Puts
<1>3. QED
  BY <1>1, <1>2 DEF Has

(* A read takes the first item of a pipe that is not empty.                 *)
LEMMA TakesEffect ==
  ASSUME TalkTypes, NEW q \in C!Pipes, C!Takes(q), UNCHANGED cProgram
  PROVE  /\ cPipe' \in [C!Pipes -> Seq(Items')] /\ Has(q) >= 1 /\ Has(q)' = Has(q) - 1
         /\ \A r \in C!Pipes \ {q} : cPipe'[r] = cPipe[r] /\ Has(r)' = Has(r)
         /\ cPipe'[q] = Tail(cPipe[q]) /\ cPipe[q] # <<>>
         /\ Head(cPipe[q]) \in Items /\ Head(cPipe[q]) = cPipe[q][1]
<1>1. Items' = Items
  BY DEF Items
<1>2. /\ cPipe \in [C!Pipes -> Seq(Items)] /\ cPipe[q] # <<>>
      /\ cPipe' = [cPipe EXCEPT ![q] = Tail(@)]
  BY DEF TalkTypes, C!Takes
<1>3. PICK s \in Seq(Items) : s = cPipe[q]
  BY <1>2
<1>4. Len(s) \in Nat /\ Len(s) >= 1 /\ Tail(s) \in Seq(Items) /\ Len(Tail(s)) = Len(s) - 1
      /\ Head(s) \in Items /\ Head(s) = s[1]
  BY <1>2, <1>3
<1>5. QED
  BY <1>1, <1>2, <1>3, <1>4 DEF Has

(* What a process prints comes after what it has printed.                   *)
LEMMA ShowsEffect ==
  ASSUME TalkTypes, NEW p \in C!Procs, NEW x \in Items, C!Shows(p, x), UNCHANGED cProgram
  PROVE  /\ cShown' \in [C!Procs -> Seq(Items')] /\ Printed(p)' = Printed(p) + 1
         /\ \A r \in C!Procs \ {p} : cShown'[r] = cShown[r] /\ Printed(r)' = Printed(r)
         /\ cShown'[p] = Append(cShown[p], x)
         /\ cShown'[p][Printed(p) + 1] = x
         /\ \A k \in 1 .. Printed(p) : cShown'[p][k] = cShown[p][k]
<1>1. Items' = Items
  BY DEF Items
<1>2. cShown \in [C!Procs -> Seq(Items)] /\ cShown' = [cShown EXCEPT ![p] = Append(@, x)]
  BY DEF TalkTypes, C!Shows
<1>3. PICK s \in Seq(Items) : s = cShown[p]
  BY <1>2
<1>4. /\ Append(s, x) \in Seq(Items) /\ Len(Append(s, x)) = Len(s) + 1 /\ Append(s, x)[Len(s) + 1] = x
      /\ \A k \in 1 .. Len(s) : Append(s, x)[k] = s[k]
  OBVIOUS
<1>5. QED
  BY <1>1, <1>2, <1>3, <1>4 DEF Printed

(* What does not change keeps its length.                                   *)
LEMMA SameLengths ==
  /\ cPipe' = cPipe => \A q \in C!Pipes : Has(q)' = Has(q)
  /\ cShown' = cShown => \A p \in C!Procs : Printed(p)' = Printed(p)
  /\ buf' = buf => Hand' = Hand
BY DEF Has, Printed, Hand

(* An empty pipe is one that holds nothing.                                 *)
LEMMA NoneLeft ==
  ASSUME TalkTypes, NEW q \in C!Pipes
  PROVE  cPipe[q] = <<>> <=> Has(q) = 0
BY DEF TalkTypes, Has

(* A process goes to a place; the others stay.                              *)
LEMMA GoesEffect ==
  ASSUME TalkTypes, NEW p \in C!Procs, NEW to \in Places, C!Goes(p, to)
  PROVE  at' \in [C!Procs -> Places] /\ at'[p] = to /\ \A r \in C!Procs \ {p} : at'[r] = at[r]
BY DEF TalkTypes, C!Goes

(* Parent and child go each to a place.                                     *)
LEMMA BothEffect ==
  ASSUME TalkTypes, NEW x \in Places, NEW y \in Places, C!Both(x, y)
  PROVE  at' \in [C!Procs -> Places] /\ at'["parent"] = x /\ at'["child"] = y
         /\ \A r \in C!Procs \ C!Pair : at'[r] = at[r]
BY Names DEF TalkTypes, C!Both

(* One turn more for a process, or one more line.                           *)
LEMMA TurnsEffect ==
  ASSUME TalkTypes, NEW p \in C!Procs, C!Turns(p)
  PROVE  cN' \in [C!Procs -> Nat] /\ cN'[p] = cN[p] + 1 /\ \A r \in C!Procs \ {p} : cN'[r] = cN[r]
BY DEF TalkTypes, C!Turns

(* Whatever the pair does, the chat stays as it is, if it stays off.         *)
LEMMA PairFrame ==
  ASSUME TalkTypes, Unused, cProgram # "chat", UNCHANGED C!same,
         at' \in [C!Procs -> Places], cN' \in [C!Procs -> Nat], cPipe' \in [C!Pipes -> Seq(Items)],
         cShown' \in [C!Procs -> Seq(Items)], buf' \in Seq(Items),
         \A c \in C!Clients \cup {"server"} : at'[c] = at[c] /\ cPipe'[c] = cPipe[c]
  PROVE  TalkTypes' /\ Unused' /\ ChatInv'
<1>1. /\ cProgram' = cProgram /\ variant' = variant /\ Items' = Items
      /\ exists' = exists /\ deaf' = deaf /\ fds' = fds /\ sent' = sent /\ lost' = lost /\ killed' = killed
  BY DEF C!same, C!chatVars, Items
<1>2. Posts' = Posts
  BY DEF Posts
<1>3. TalkTypes'
  BY <1>1, <1>2 DEF TalkTypes
<1>4. Unused'
  BY <1>1 DEF Unused, Has
<1>5. ChatInv'
  BY <1>1 DEF ChatInv
<1>6. QED
  BY <1>3, <1>4, <1>5
-----------------------------------------------------------------------------
(* The steps that coprocess_parent and its child have.                      *)
LEMMA EmailCases ==
  ASSUME TalkIInv, cProgram = "email", C!Next
  PROVE  C!EmailFork \/ C!EmailExec \/ C!EmailWrite \/ C!EmailRead \/ C!Validate \/ C!ValidateBuffered
<1>1. /\ at["server"] = "off" /\ \A c \in C!Clients : at[c] = "off"
      /\ at["parent"] # "alone" /\ at["child"] # "reply"
  BY DEF TalkIInv, Unused, EmailInv, EmailPlaces
<1>2. ~C!User
  BY DEF C!User, C!FilterLine, C!FilterEof, C!MkServerFifo, C!ClientStarts, C!FirstMessage, C!Reply, C!Kill, C!Chat
<1>3. ~(C!RoundsFork \/ C!RoundsAlone \/ C!RoundsWrite \/ C!RoundsRead \/ C!Popen \/ C!ParentReadsLine
        \/ C!RoundsChildReads \/ C!RoundsReply)
  BY <1>1 DEF C!RoundsFork, C!RoundsAlone, C!RoundsWrite, C!RoundsRead, C!Popen, C!ParentReadsLine,
              C!RoundsChildReads, C!RoundsReply
<1>4. ~(C!ServerOpens \/ C!ServerReads \/ C!ServerOpensDest \/ C!ServerRelays)
  BY <1>1 DEF C!ServerOpens, C!ServerReads, C!ServerOpensDest, C!ServerRelays, C!Chat
<1>5. \A p \in C!Clients : ~(C!ClientOpens(p) \/ C!ClientReads(p) \/ C!ClientEnds(p))
  BY DEF C!ClientOpens, C!ClientReads, C!ClientEnds, C!Chat
<1>6. QED
  BY <1>2, <1>3, <1>4, <1>5 DEF C!Next, C!System

(* They keep each answer with its address, or the reason why there is       *)
(* none.                                                                    *)
LEMMA EmailStep ==
  ASSUME TalkIInv, cProgram = "email", C!Next
  PROVE  TalkIInv'
<1>1. /\ TalkTypes /\ Unused /\ EmailPlaces /\ RawInv /\ StdioInv /\ MissingInv
      /\ {"parent", "child"} \subseteq C!Procs /\ {"p1", "p2"} \subseteq C!Pipes
      /\ C!Pair = {"parent", "child"} /\ {"a", "b", "server"} \subseteq C!Procs /\ {"a", "b", "server"} \subseteq C!Pipes
      /\ C!Clients = {"a", "b"} /\ Items = Nat
  BY Names DEF TalkIInv, EmailInv, Items
<1>2. /\ Has("p1") \in Nat /\ Has("p2") \in Nat /\ Printed("parent") \in Nat /\ cN["parent"] \in Nat /\ Hand \in Nat
      /\ variant \in {"raw", "stdio", "missing"}
  BY <1>1, Lengths DEF TalkTypes
<1>3. /\ at \in [C!Procs -> Places] /\ cN \in [C!Procs -> Nat] /\ cPipe \in [C!Pipes -> Seq(Items)]
      /\ cShown \in [C!Procs -> Seq(Items)] /\ buf \in Seq(Items)
  BY <1>1 DEF TalkTypes
<1>4. SUFFICES /\ UNCHANGED C!same
               /\ at' \in [C!Procs -> Places] /\ cN' \in [C!Procs -> Nat] /\ cPipe' \in [C!Pipes -> Seq(Items)]
               /\ cShown' \in [C!Procs -> Seq(Items)] /\ buf' \in Seq(Items)
               /\ \A c \in C!Clients \cup {"server"} : at'[c] = at[c] /\ cPipe'[c] = cPipe[c]
               /\ EmailPlaces' /\ RawInv' /\ StdioInv' /\ MissingInv'
  <2> SUFFICES ASSUME /\ UNCHANGED C!same
                      /\ at' \in [C!Procs -> Places] /\ cN' \in [C!Procs -> Nat] /\ cPipe' \in [C!Pipes -> Seq(Items)]
                      /\ cShown' \in [C!Procs -> Seq(Items)] /\ buf' \in Seq(Items)
                      /\ \A c \in C!Clients \cup {"server"} : at'[c] = at[c] /\ cPipe'[c] = cPipe[c]
                      /\ EmailPlaces' /\ RawInv' /\ StdioInv' /\ MissingInv'
               PROVE  TalkIInv'
    OBVIOUS
  <2>1. cProgram' = "email"
    BY DEF C!same
  <2>2. TalkTypes' /\ Unused' /\ ChatInv'
    BY <1>1, PairFrame
  <2>3. QED
    BY <2>1, <2>2 DEF TalkIInv, EmailInv, RoundsInv, FilterInv
<1>5. CASE C!EmailFork
  <2>1. UNCHANGED <<C!same, cN, cPipe, cShown, buf>>
    BY <1>5 DEF C!EmailFork
  <2>2. variant' = variant
    BY <2>1 DEF C!same
  <2>3. Has("p1")' = Has("p1") /\ Has("p2")' = Has("p2") /\ Printed("parent")' = Printed("parent") /\ Hand' = Hand
    BY <1>1, <2>1, SameLengths
  <2>4. at["parent"] = "start" /\ at["child"] = "off"
    BY <1>1, <1>5 DEF C!EmailFork, EmailPlaces
  <2>5. /\ at' \in [C!Procs -> Places] /\ at'["parent"] = "write" /\ at'["child"] \in {"off", "exec"}
        /\ \A c \in C!Clients \cup {"server"} : at'[c] = at[c]
    <3>1. CASE C!Both("write", "exec")
      BY <1>1, <3>1, BothEffect DEF Places
    <3>2. CASE C!Goes("parent", "write")
      BY <1>1, <2>4, <3>2, GoesEffect DEF Places
    <3>3. QED
      BY <1>5, <3>1, <3>2 DEF C!EmailFork
  <2>6. EmailPlaces' /\ RawInv' /\ StdioInv' /\ MissingInv'
    BY <1>1, <2>1, <2>2, <2>3, <2>4, <2>5 DEF EmailPlaces, RawInv, StdioInv, MissingInv
  <2>7. QED
    BY <1>3, <2>1, <2>5, <2>6
<1>6. CASE C!EmailExec
  <2>1. UNCHANGED <<C!same, cN, cPipe, cShown, buf>> /\ at["child"] = "exec"
    BY <1>6 DEF C!EmailExec
  <2>2. variant' = variant
    BY <2>1 DEF C!same
  <2>3. Has("p1")' = Has("p1") /\ Has("p2")' = Has("p2") /\ Printed("parent")' = Printed("parent") /\ Hand' = Hand
    BY <1>1, <2>1, SameLengths
  <2>4. /\ at' \in [C!Procs -> Places] /\ at'["parent"] = at["parent"]
        /\ at'["child"] = (IF variant = "missing" THEN "ended" ELSE "read")
        /\ \A c \in C!Clients \cup {"server"} : at'[c] = at[c]
    <3>1. C!Goes("child", IF variant = "missing" THEN "ended" ELSE "read")
      BY <1>6 DEF C!EmailExec
    <3>2. (IF variant = "missing" THEN "ended" ELSE "read") \in Places
      BY DEF Places
    <3>3. QED
      BY <1>1, <3>1, <3>2, GoesEffect
  <2>5. EmailPlaces' /\ RawInv' /\ StdioInv' /\ MissingInv'
    BY <1>1, <2>1, <2>2, <2>3, <2>4 DEF EmailPlaces, RawInv, StdioInv, MissingInv
  <2>6. QED
    BY <1>3, <2>1, <2>4, <2>5
<1>7. CASE C!EmailWrite
  <2>1. UNCHANGED <<C!same, cN, cShown, buf>> /\ at["parent"] = "write" /\ variant' = variant
    BY <1>7 DEF C!EmailWrite, C!same
  <2>2. Printed("parent")' = Printed("parent") /\ Hand' = Hand
    BY <1>1, <2>1, SameLengths
  <2>3. CASE cN["parent"] = Rounds /\ C!Goes("parent", "ended") /\ UNCHANGED cPipe
    <3>1. Has("p1")' = Has("p1") /\ Has("p2")' = Has("p2")
      BY <1>1, <2>3, SameLengths
    <3>2. /\ at' \in [C!Procs -> Places] /\ at'["parent"] = "ended" /\ at'["child"] = at["child"]
          /\ \A c \in C!Clients \cup {"server"} : at'[c] = at[c]
      BY <1>1, <2>3, GoesEffect DEF Places
    <3>3. EmailPlaces' /\ RawInv' /\ StdioInv' /\ MissingInv'
      BY <1>1, <2>1, <2>2, <2>3, <3>1, <3>2 DEF EmailPlaces, RawInv, StdioInv, MissingInv
    <3>4. QED
      BY <1>3, <2>1, <2>3, <3>2, <3>3
  <2>4. CASE C!Gone("child") /\ C!Goes("parent", "killed") /\ UNCHANGED cPipe
    <3>1. Has("p1")' = Has("p1") /\ Has("p2")' = Has("p2")
      BY <1>1, <2>4, SameLengths
    <3>2. /\ at' \in [C!Procs -> Places] /\ at'["parent"] = "killed" /\ at'["child"] = at["child"]
          /\ \A c \in C!Clients \cup {"server"} : at'[c] = at[c]
      BY <1>1, <2>4, GoesEffect DEF Places
    <3>3. EmailPlaces' /\ RawInv' /\ StdioInv' /\ MissingInv'
      BY <1>1, <2>1, <2>2, <2>4, <3>1, <3>2 DEF EmailPlaces, RawInv, StdioInv, MissingInv
    <3>4. QED
      BY <1>3, <2>1, <2>4, <3>2, <3>3
  <2>5. CASE cN["parent"] < Rounds /\ ~C!Gone("child") /\ C!Goes("parent", "read") /\ C!Puts("p1", cN["parent"] + 1)
    <3>1. /\ cPipe' \in [C!Pipes -> Seq(Items)] /\ Has("p1")' = Has("p1") + 1
          /\ \A q \in C!Pipes \ {"p1"} : cPipe'[q] = cPipe[q] /\ Has(q)' = Has(q)
          /\ cPipe'["p1"] = Append(cPipe["p1"], cN["parent"] + 1)
      <4>1. Items' = Items /\ cProgram' = cProgram /\ cN["parent"] + 1 \in Items
        BY <1>1, <1>2, <2>1 DEF C!same, Items
      <4>2. QED
        BY <1>1, <2>5, <4>1, PutsEffect
    <3>2. /\ at' \in [C!Procs -> Places] /\ at'["parent"] = "read" /\ at'["child"] = at["child"]
          /\ \A c \in C!Clients \cup {"server"} : at'[c] = at[c]
      BY <1>1, <2>5, GoesEffect DEF Places
    <3>3. at["child"] \in {"exec", "read"}
      BY <1>1, <2>5 DEF EmailPlaces, C!Gone
    <3>4. variant = "raw" => cPipe'["p1"][1] = cN["parent"] + 1
      <4>1. PICK s \in Seq(Nat) : s = cPipe["p1"]
        BY <1>1, <1>3
      <4>2. variant = "raw" => Len(s) = 0
        BY <1>1, <2>1, <4>1 DEF RawInv, Has
      <4>3. Len(s) = 0 => Append(s, cN["parent"] + 1)[1] = cN["parent"] + 1
        BY <1>2
      <4>4. QED
        BY <3>1, <4>1, <4>2, <4>3
    <3>5. Has("p2")' = Has("p2")
      BY <1>1, <3>1
    <3>6. EmailPlaces'
      BY <1>1, <1>2, <2>1, <2>2, <2>5, <3>2, <3>3 DEF EmailPlaces
    <3>7. RawInv'
      BY <1>1, <1>2, <2>1, <2>2, <3>1, <3>2, <3>3, <3>4, <3>5 DEF RawInv
    <3>8. StdioInv' /\ MissingInv'
      BY <1>1, <1>2, <2>1, <2>2, <3>1, <3>2, <3>3, <3>5 DEF StdioInv, MissingInv
    <3>9. QED
      BY <1>1, <1>3, <2>1, <3>1, <3>2, <3>6, <3>7, <3>8
  <2>6. QED
    BY <1>7, <2>3, <2>4, <2>5 DEF C!EmailWrite
<1>8. CASE C!EmailRead
  <2>1. UNCHANGED <<C!same, buf>> /\ at["parent"] = "read" /\ variant' = variant /\ cProgram' = cProgram
        /\ Items' = Items
    BY <1>8 DEF C!EmailRead, C!same, Items
  <2>2. Hand' = Hand
    BY <1>1, <2>1, SameLengths
  <2>3. /\ at' \in [C!Procs -> Places] /\ at'["parent"] = "write" /\ at'["child"] = at["child"]
        /\ \A c \in C!Clients \cup {"server"} : at'[c] = at[c]
    BY <1>1, <1>8, GoesEffect DEF Places, C!EmailRead
  <2>4. cN' \in [C!Procs -> Nat] /\ cN'["parent"] = cN["parent"] + 1
    BY <1>1, <1>8, TurnsEffect DEF C!EmailRead
  <2>5. CASE C!Takes("p2") /\ C!Shows("parent", Head(cPipe["p2"]))
    <3>1. /\ cPipe' \in [C!Pipes -> Seq(Items)] /\ Has("p2") >= 1 /\ Has("p2")' = Has("p2") - 1
          /\ \A q \in C!Pipes \ {"p2"} : cPipe'[q] = cPipe[q] /\ Has(q)' = Has(q)
          /\ Head(cPipe["p2"]) \in Items /\ Head(cPipe["p2"]) = cPipe["p2"][1]
      BY <1>1, <2>1, <2>5, TakesEffect
    <3>2. variant = "raw" /\ Has("p1") = 0 /\ Has("p2") = 1 /\ cPipe["p2"][1] = cN["parent"] + 1
      BY <1>1, <1>2, <2>1, <3>1 DEF RawInv, StdioInv, MissingInv
    <3>3. /\ cShown' \in [C!Procs -> Seq(Items)] /\ Printed("parent")' = Printed("parent") + 1
          /\ cShown'["parent"][Printed("parent") + 1] = cN["parent"] + 1
          /\ \A k \in 1 .. Printed("parent") : cShown'["parent"][k] = cShown["parent"][k]
      BY <1>1, <2>1, <2>5, <3>1, <3>2, ShowsEffect
    <3>4. Has("p1")' = Has("p1")
      BY <1>1, <3>1
    <3>5. EmailPlaces'
      BY <1>1, <1>2, <2>1, <2>3, <2>4, <3>3, TalkAssumption DEF EmailPlaces
    <3>6. DOMAIN cShown["parent"] = 1 .. Printed("parent") /\ DOMAIN cShown'["parent"] = 1 .. Printed("parent") + 1
      BY <1>1, <1>3, <3>3 DEF Printed
    <3>7. \A k \in DOMAIN cShown'["parent"] : cShown'["parent"][k] = k
      <4>1. \A k \in 1 .. Printed("parent") : cShown["parent"][k] = k
        BY <1>1, <3>2, <3>6 DEF RawInv
      <4>2. Printed("parent") = cN["parent"]
        BY <1>1 DEF EmailPlaces
      <4>3. \A k \in DOMAIN cShown'["parent"] : k \in 1 .. Printed("parent") \/ k = Printed("parent") + 1
        BY <1>2, <3>6
      <4>4. QED
        BY <3>3, <4>1, <4>2, <4>3
    <3>8. RawInv' /\ StdioInv' /\ MissingInv'
      BY <1>1, <1>2, <2>1, <2>2, <2>3, <3>1, <3>2, <3>4, <3>7 DEF RawInv, StdioInv, MissingInv
    <3>9. QED
      BY <1>1, <1>3, <2>1, <2>3, <2>4, <3>1, <3>3, <3>5, <3>8
  <2>6. CASE cPipe["p2"] = <<>> /\ C!Gone("child") /\ C!Shows("parent", 0) /\ UNCHANGED cPipe
    <3>1. Has("p1")' = Has("p1") /\ Has("p2")' = Has("p2")
      BY <1>1, <2>6, SameLengths
    <3>2. at["child"] = "ended"
      BY <1>1, <2>1, <2>6 DEF EmailPlaces, C!Gone
    <3>3. variant = "missing" /\ cN["parent"] = 0 /\ Printed("parent") = 0 /\ Has("p1") = 1 /\ Has("p2") = 0 /\ Hand = 0
      BY <1>1, <1>2, <2>1, <3>2 DEF RawInv, StdioInv, MissingInv
    <3>4. /\ cShown' \in [C!Procs -> Seq(Items)] /\ Printed("parent")' = Printed("parent") + 1
          /\ cShown'["parent"][Printed("parent") + 1] = 0
      BY <1>1, <2>1, <2>6, ShowsEffect
    <3>5. EmailPlaces'
      BY <1>1, <1>2, <2>1, <2>3, <2>4, <3>4, TalkAssumption, SMTT(30) DEF EmailPlaces
    <3>6. RawInv' /\ StdioInv' /\ MissingInv'
      BY <1>1, <1>2, <2>1, <2>2, <2>3, <2>4, <3>1, <3>2, <3>3, <3>4 DEF RawInv, StdioInv, MissingInv
    <3>7. QED
      BY <1>3, <2>1, <2>3, <2>4, <2>6, <3>4, <3>5, <3>6
  <2>7. QED
    BY <1>8, <2>5, <2>6 DEF C!EmailRead
<1>9. CASE C!Validate
  <2>1. UNCHANGED <<C!same, cN, cShown, buf>> /\ at["child"] = "read" /\ variant = "raw" /\ variant' = variant
        /\ cProgram' = cProgram /\ Items' = Items
    BY <1>9 DEF C!Validate, C!same, Items
  <2>2. Printed("parent")' = Printed("parent") /\ Hand' = Hand
    BY <1>1, <2>1, SameLengths
  <2>3. CASE C!Moves("p1", "p2", Head(cPipe["p1"])) /\ UNCHANGED at
    <3>1. PICK s \in Seq(Nat), t \in Seq(Nat) : s = cPipe["p1"] /\ t = cPipe["p2"]
      BY <1>1, <1>3
    <3>2. s # <<>> /\ cPipe' = [cPipe EXCEPT !["p1"] = Tail(s), !["p2"] = Append(t, Head(s))]
      BY <2>3, <3>1 DEF C!Moves
    <3>3. Tail(s) \in Seq(Nat) /\ Append(t, Head(s)) \in Seq(Nat) /\ Len(s) >= 1 /\ Len(Tail(s)) = Len(s) - 1
          /\ Len(Append(t, Head(s))) = Len(t) + 1 /\ (Len(t) = 0 => Append(t, Head(s))[1] = s[1])
      BY <3>2
    <3>4. cPipe' \in [C!Pipes -> Seq(Items)] /\ cPipe'["p1"] = Tail(s) /\ cPipe'["p2"] = Append(t, Head(s))
          /\ \A c \in C!Clients \cup {"server"} : cPipe'[c] = cPipe[c]
      BY <1>1, <1>3, <3>2, <3>3
    <3>5. Has("p1") >= 1 /\ Has("p1")' = Has("p1") - 1 /\ Has("p2")' = Has("p2") + 1
      BY <3>1, <3>3, <3>4 DEF Has
    <3>6. Has("p2") = 0 => cPipe'["p2"][1] = cPipe["p1"][1]
      BY <3>1, <3>3, <3>4 DEF Has
    <3>7. EmailPlaces'
      BY <1>1, <2>1, <2>2, <2>3 DEF EmailPlaces
    <3>8. RawInv' /\ StdioInv' /\ MissingInv'
      BY <1>1, <1>2, <2>1, <2>2, <2>3, <3>5, <3>6 DEF RawInv, StdioInv, MissingInv
    <3>9. QED
      BY <1>1, <1>3, <2>1, <2>3, <3>4, <3>7, <3>8
  <2>4. CASE C!Gone("parent") /\ C!Goes("child", "ended") /\ UNCHANGED cPipe
    <3>1. Has("p1")' = Has("p1") /\ Has("p2")' = Has("p2")
      BY <1>1, <2>4, SameLengths
    <3>2. /\ at' \in [C!Procs -> Places] /\ at'["child"] = "ended" /\ at'["parent"] = at["parent"]
          /\ \A c \in C!Clients \cup {"server"} : at'[c] = at[c]
      BY <1>1, <2>4, GoesEffect DEF Places
    <3>3. at["parent"] \in {"ended", "killed"}
      BY <1>1, <2>1, <2>4 DEF EmailPlaces, C!Gone
    <3>4. EmailPlaces' /\ RawInv' /\ StdioInv' /\ MissingInv'
      BY <1>1, <2>1, <2>2, <2>4, <3>1, <3>2, <3>3 DEF EmailPlaces, RawInv, StdioInv, MissingInv
    <3>5. QED
      BY <1>3, <2>1, <2>4, <3>2, <3>4
  <2>5. QED
    BY <1>9, <2>3, <2>4 DEF C!Validate
<1>10. CASE C!ValidateBuffered
  <2>1. UNCHANGED <<C!same, cN, cShown, at>> /\ at["child"] = "read" /\ variant = "stdio" /\ variant' = variant
        /\ cProgram' = cProgram /\ Items' = Items
    BY <1>10 DEF C!ValidateBuffered, C!same, Items
  <2>2. Printed("parent")' = Printed("parent")
    BY <1>1, <2>1, SameLengths
  <2>3. /\ cPipe' \in [C!Pipes -> Seq(Items)] /\ Has("p1")' = Has("p1") - 1
        /\ \A q \in C!Pipes \ {"p1"} : cPipe'[q] = cPipe[q] /\ Has(q)' = Has(q)
        /\ Head(cPipe["p1"]) \in Items
    BY <1>1, <1>10, <2>1, TakesEffect DEF C!ValidateBuffered
  <2>4. buf' \in Seq(Items) /\ Hand' = Hand + 1
    BY <1>3, <1>10, <2>3 DEF C!ValidateBuffered, Hand
  <2>5. Has("p2")' = Has("p2")
    BY <1>1, <2>3
  <2>6. EmailPlaces' /\ RawInv' /\ StdioInv' /\ MissingInv'
    BY <1>1, <1>2, <2>1, <2>2, <2>3, <2>4, <2>5 DEF EmailPlaces, RawInv, StdioInv, MissingInv
  <2>7. QED
    BY <1>1, <1>3, <2>1, <2>3, <2>4, <2>6
<1>11. QED
  BY <1>5, <1>6, <1>7, <1>8, <1>9, <1>10, EmailCases
-----------------------------------------------------------------------------
(* The steps that pipe.c has.                                               *)
LEMMA RoundsCases ==
  ASSUME TalkIInv, cProgram = "rounds", C!Next
  PROVE  C!RoundsFork \/ C!RoundsAlone \/ C!RoundsWrite \/ C!RoundsRead \/ C!RoundsChildReads \/ C!RoundsReply
<1>1. at["server"] = "off" /\ at["child"] # "exec"
  BY DEF TalkIInv, Unused, RoundsInv
<1>2. ~C!User
  BY DEF C!User, C!FilterLine, C!FilterEof, C!MkServerFifo, C!ClientStarts, C!FirstMessage, C!Reply, C!Kill, C!Chat
<1>3. ~(C!EmailFork \/ C!EmailExec \/ C!EmailWrite \/ C!EmailRead \/ C!Validate \/ C!ValidateBuffered
        \/ C!Popen \/ C!ParentReadsLine)
  BY <1>1 DEF C!EmailFork, C!EmailExec, C!EmailWrite, C!EmailRead, C!Validate, C!ValidateBuffered,
              C!Popen, C!ParentReadsLine
<1>4. ~(C!ServerOpens \/ C!ServerReads \/ C!ServerOpensDest \/ C!ServerRelays)
  BY <1>1 DEF C!ServerOpens, C!ServerReads, C!ServerOpensDest, C!ServerRelays, C!Chat
<1>5. \A p \in C!Clients : ~(C!ClientOpens(p) \/ C!ClientReads(p) \/ C!ClientEnds(p))
  BY DEF C!ClientOpens, C!ClientReads, C!ClientEnds, C!Chat
<1>6. QED
  BY <1>2, <1>3, <1>4, <1>5 DEF C!Next, C!System

(* They keep parent and child in step.                                      *)
LEMMA RoundsStep ==
  ASSUME TalkIInv, cProgram = "rounds", C!Next
  PROVE  TalkIInv'
<1>1. /\ TalkTypes /\ Unused /\ RoundsInv
      /\ {"parent", "child"} \subseteq C!Procs /\ {"p1", "p2"} \subseteq C!Pipes
      /\ C!Pair = {"parent", "child"} /\ {"a", "b", "server"} \subseteq C!Procs /\ {"a", "b", "server"} \subseteq C!Pipes
      /\ C!Clients = {"a", "b"} /\ Items = Nat
  BY Names DEF TalkIInv, Items
<1>2. /\ Has("p1") \in Nat /\ Has("p2") \in Nat /\ cN["parent"] \in Nat /\ cN["child"] \in Nat /\ Hand \in Nat
  BY <1>1, Lengths
<1>3. /\ at \in [C!Procs -> Places] /\ cN \in [C!Procs -> Nat] /\ cPipe \in [C!Pipes -> Seq(Items)]
      /\ cShown \in [C!Procs -> Seq(Items)] /\ buf \in Seq(Items)
  BY <1>1 DEF TalkTypes
<1>4. SUFFICES /\ UNCHANGED C!same
               /\ at' \in [C!Procs -> Places] /\ cN' \in [C!Procs -> Nat] /\ cPipe' \in [C!Pipes -> Seq(Items)]
               /\ cShown' \in [C!Procs -> Seq(Items)] /\ buf' \in Seq(Items)
               /\ \A c \in C!Clients \cup {"server"} : at'[c] = at[c] /\ cPipe'[c] = cPipe[c]
               /\ RoundsInv'
  <2> SUFFICES ASSUME /\ UNCHANGED C!same
                      /\ at' \in [C!Procs -> Places] /\ cN' \in [C!Procs -> Nat] /\ cPipe' \in [C!Pipes -> Seq(Items)]
                      /\ cShown' \in [C!Procs -> Seq(Items)] /\ buf' \in Seq(Items)
                      /\ \A c \in C!Clients \cup {"server"} : at'[c] = at[c] /\ cPipe'[c] = cPipe[c]
                      /\ RoundsInv'
               PROVE  TalkIInv'
    OBVIOUS
  <2>1. cProgram' = "rounds"
    BY DEF C!same
  <2>2. TalkTypes' /\ Unused' /\ ChatInv'
    BY <1>1, PairFrame
  <2>3. QED
    BY <2>1, <2>2 DEF TalkIInv, EmailInv, RoundsInv, FilterInv
<1>5. CASE C!RoundsFork
  <2>1. UNCHANGED <<C!same, cN, cPipe, cShown, buf>> /\ at["parent"] = "start"
    BY <1>5 DEF C!RoundsFork
  <2>2. Has("p1")' = Has("p1") /\ Has("p2")' = Has("p2")
    BY <1>1, <2>1, SameLengths
  <2>3. at["child"] = "off" /\ cN["parent"] = 0 /\ cN["child"] = 0 /\ Empty
    BY <2>1, <1>1 DEF RoundsInv
  <2>4. /\ at' \in [C!Procs -> Places] /\ \A c \in C!Clients \cup {"server"} : at'[c] = at[c]
        /\ \/ at'["parent"] = "write" /\ at'["child"] = "read"
           \/ at'["parent"] = "alone" /\ at'["child"] = "off"
    <3>1. CASE C!Both("write", "read")
      BY <1>1, <3>1, BothEffect DEF Places
    <3>2. CASE C!Goes("parent", "alone")
      BY <1>1, <2>3, <3>2, GoesEffect DEF Places
    <3>3. QED
      BY <1>5, <3>1, <3>2 DEF C!RoundsFork
  <2>5. RoundsInv'
    BY <2>1, <2>2, <2>3, <2>4, TalkAssumption DEF RoundsInv, Empty
  <2>6. QED
    BY <1>3, <2>1, <2>4, <2>5
<1>6. CASE C!RoundsAlone
  <2>1. UNCHANGED <<C!same, cN, cPipe, cShown, buf>> /\ at["parent"] = "alone"
    BY <1>6 DEF C!RoundsAlone
  <2>2. Has("p1")' = Has("p1") /\ Has("p2")' = Has("p2")
    BY <1>1, <2>1, SameLengths
  <2>3. at["child"] = "off" /\ cN["parent"] = 0 /\ cN["child"] = 0 /\ Empty
    BY <2>1, <1>1 DEF RoundsInv
  <2>4. /\ at' \in [C!Procs -> Places] /\ at'["parent"] = "killed" /\ at'["child"] = at["child"]
        /\ \A c \in C!Clients \cup {"server"} : at'[c] = at[c]
    BY <1>1, <1>6, GoesEffect DEF Places, C!RoundsAlone
  <2>5. RoundsInv'
    BY <2>1, <2>2, <2>3, <2>4 DEF RoundsInv, Empty
  <2>6. QED
    BY <1>3, <2>1, <2>4, <2>5
<1>7. CASE C!RoundsWrite
  <2>1. UNCHANGED <<C!same, cN, cShown, buf>> /\ at["parent"] = "write" /\ cProgram' = cProgram
    BY <1>7 DEF C!RoundsWrite, C!same
  <2>2. at["child"] = "read" /\ cN["child"] = cN["parent"] /\ cN["parent"] < Rounds /\ Has("p1") = 0 /\ Has("p2") = 0
    BY <2>1, <1>1 DEF RoundsInv, Empty
  <2>3. /\ cPipe' \in [C!Pipes -> Seq(Items)] /\ Has("p1")' = 1 /\ Has("p2")' = 0
        /\ \A c \in C!Clients \cup {"server"} : cPipe'[c] = cPipe[c]
    <3>1. Items' = Items /\ cN["parent"] + 1 \in Items /\ C!Puts("p1", cN["parent"] + 1)
      BY <1>1, <1>2, <1>7, <2>1 DEF C!RoundsWrite, Items
    <3>2. QED
      BY <1>1, <2>1, <2>2, <3>1, PutsEffect
  <2>4. /\ at' \in [C!Procs -> Places] /\ at'["parent"] = "read" /\ at'["child"] = at["child"]
        /\ \A c \in C!Clients \cup {"server"} : at'[c] = at[c]
    BY <1>1, <1>7, GoesEffect DEF Places, C!RoundsWrite
  <2>5. RoundsInv'
    BY <2>1, <2>2, <2>3, <2>4 DEF RoundsInv
  <2>6. QED
    BY <1>3, <2>1, <2>3, <2>4, <2>5
<1>8. CASE C!RoundsRead
  <2>1. UNCHANGED <<C!same, buf>> /\ at["parent"] = "read" /\ cProgram' = cProgram /\ Items' = Items
    BY <1>8 DEF C!RoundsRead, C!same, Items
  <2>2. /\ cPipe' \in [C!Pipes -> Seq(Items)] /\ Has("p2") >= 1 /\ Has("p2")' = Has("p2") - 1 /\ Has("p1")' = Has("p1")
        /\ \A c \in C!Clients \cup {"server"} : cPipe'[c] = cPipe[c]
        /\ Head(cPipe["p2"]) \in Items
    BY <1>1, <1>8, <2>1, TakesEffect DEF C!RoundsRead
  <2>3. cN["child"] = cN["parent"] + 1 /\ cN["parent"] < Rounds /\ Has("p1") = 0 /\ Has("p2") = 1
        /\ at["child"] = (IF cN["child"] < Rounds THEN "read" ELSE "spin")
    BY <1>1, <1>2, <2>1, <2>2 DEF RoundsInv, Empty
  <2>4. cShown' \in [C!Procs -> Seq(Items)]
    BY <1>1, <1>8, <2>1, <2>2, ShowsEffect DEF C!RoundsRead
  <2>5. cN' \in [C!Procs -> Nat] /\ cN'["parent"] = cN["parent"] + 1 /\ cN'["child"] = cN["child"]
    BY <1>1, <1>8, TurnsEffect DEF C!RoundsRead
  <2>6. /\ at' \in [C!Procs -> Places] /\ at'["child"] = at["child"]
        /\ at'["parent"] = (IF cN["parent"] + 1 < Rounds THEN "write" ELSE "spin")
        /\ \A c \in C!Clients \cup {"server"} : at'[c] = at[c]
    <3>1. C!Goes("parent", IF cN["parent"] + 1 < Rounds THEN "write" ELSE "spin")
      BY <1>8 DEF C!RoundsRead
    <3>2. (IF cN["parent"] + 1 < Rounds THEN "write" ELSE "spin") \in Places
      BY DEF Places
    <3>3. QED
      BY <1>1, <3>1, <3>2, GoesEffect
  <2>7. Has("p1")' = 0 /\ Has("p2")' = 0
    BY <2>2, <2>3
  <2>8. RoundsInv'
    <3>1. CASE cN["parent"] + 1 < Rounds
      BY <2>1, <2>3, <2>5, <2>6, <2>7, <3>1 DEF RoundsInv, Empty
    <3>2. CASE ~(cN["parent"] + 1 < Rounds)
      BY <2>1, <2>3, <2>5, <2>6, <2>7, <3>2 DEF RoundsInv, Empty
    <3>3. QED
      BY <3>1, <3>2
  <2>9. QED
    BY <1>3, <2>1, <2>2, <2>4, <2>5, <2>6, <2>8
<1>9. CASE C!RoundsChildReads
  <2>1. UNCHANGED <<C!same, cN, buf>> /\ at["child"] = "read" /\ cProgram' = cProgram /\ Items' = Items
    BY <1>9 DEF C!RoundsChildReads, C!same, Items
  <2>2. /\ cPipe' \in [C!Pipes -> Seq(Items)] /\ Has("p1") >= 1 /\ Has("p1")' = Has("p1") - 1 /\ Has("p2")' = Has("p2")
        /\ \A c \in C!Clients \cup {"server"} : cPipe'[c] = cPipe[c]
        /\ Head(cPipe["p1"]) \in Items
    BY <1>1, <1>9, <2>1, TakesEffect DEF C!RoundsChildReads
  <2>3. at["parent"] = "read" /\ cN["child"] = cN["parent"] /\ cN["parent"] < Rounds /\ Has("p1") = 1 /\ Has("p2") = 0
    BY <1>1, <1>2, <2>1, <2>2 DEF RoundsInv, Empty
  <2>4. cShown' \in [C!Procs -> Seq(Items)]
    BY <1>1, <1>9, <2>1, <2>2, ShowsEffect DEF C!RoundsChildReads
  <2>5. /\ at' \in [C!Procs -> Places] /\ at'["child"] = "reply" /\ at'["parent"] = at["parent"]
        /\ \A c \in C!Clients \cup {"server"} : at'[c] = at[c]
    BY <1>1, <1>9, GoesEffect DEF Places, C!RoundsChildReads
  <2>6. RoundsInv'
    BY <2>1, <2>2, <2>3, <2>5 DEF RoundsInv, Empty
  <2>7. QED
    BY <1>3, <2>1, <2>2, <2>4, <2>5, <2>6
<1>10. CASE C!RoundsReply
  <2>1. UNCHANGED <<C!same, cShown, buf>> /\ at["child"] = "reply" /\ cProgram' = cProgram
    BY <1>10 DEF C!RoundsReply, C!same
  <2>2. at["parent"] = "read" /\ cN["child"] = cN["parent"] /\ cN["parent"] < Rounds /\ Has("p1") = 0 /\ Has("p2") = 0
    BY <2>1, <1>1 DEF RoundsInv, Empty
  <2>3. /\ cPipe' \in [C!Pipes -> Seq(Items)] /\ Has("p2")' = 1 /\ Has("p1")' = 0
        /\ \A c \in C!Clients \cup {"server"} : cPipe'[c] = cPipe[c]
    <3>1. Items' = Items /\ cN["child"] + 1 \in Items /\ C!Puts("p2", cN["child"] + 1)
      BY <1>1, <1>2, <1>10, <2>1 DEF C!RoundsReply, Items
    <3>2. QED
      BY <1>1, <2>1, <2>2, <3>1, PutsEffect
  <2>4. cN' \in [C!Procs -> Nat] /\ cN'["child"] = cN["child"] + 1 /\ cN'["parent"] = cN["parent"]
    BY <1>1, <1>10, TurnsEffect DEF C!RoundsReply
  <2>5. /\ at' \in [C!Procs -> Places] /\ at'["parent"] = at["parent"]
        /\ at'["child"] = (IF cN["child"] + 1 < Rounds THEN "read" ELSE "spin")
        /\ \A c \in C!Clients \cup {"server"} : at'[c] = at[c]
    <3>1. C!Goes("child", IF cN["child"] + 1 < Rounds THEN "read" ELSE "spin")
      BY <1>10 DEF C!RoundsReply
    <3>2. (IF cN["child"] + 1 < Rounds THEN "read" ELSE "spin") \in Places
      BY DEF Places
    <3>3. QED
      BY <1>1, <3>1, <3>2, GoesEffect
  <2>6. RoundsInv'
    BY <2>1, <2>2, <2>3, <2>4, <2>5 DEF RoundsInv
  <2>7. QED
    BY <1>3, <2>1, <2>3, <2>4, <2>5, <2>6
<1>11. QED
  BY <1>5, <1>6, <1>7, <1>8, <1>9, <1>10, RoundsCases
-----------------------------------------------------------------------------
(* The steps that parent.c and filter.c have.                               *)
LEMMA FilterCases ==
  ASSUME TalkIInv, cProgram = "filter", C!Next
  PROVE  C!Popen \/ C!FilterLine \/ C!FilterEof \/ C!ParentReadsLine
<1>1. /\ at["server"] = "off" /\ at["child"] \notin {"exec", "reply"} /\ at["parent"] # "alone"
  BY DEF TalkIInv, Unused, FilterInv
<1>2. C!User => C!FilterLine \/ C!FilterEof
  BY DEF C!User, C!MkServerFifo, C!ClientStarts, C!FirstMessage, C!Reply, C!Kill, C!Chat
<1>3. ~(C!EmailFork \/ C!EmailExec \/ C!EmailWrite \/ C!EmailRead \/ C!Validate \/ C!ValidateBuffered
        \/ C!RoundsFork \/ C!RoundsAlone \/ C!RoundsWrite \/ C!RoundsRead \/ C!RoundsChildReads \/ C!RoundsReply)
  BY <1>1 DEF C!EmailFork, C!EmailExec, C!EmailWrite, C!EmailRead, C!Validate, C!ValidateBuffered,
              C!RoundsFork, C!RoundsAlone, C!RoundsWrite, C!RoundsRead, C!RoundsChildReads, C!RoundsReply
<1>4. ~(C!ServerOpens \/ C!ServerReads \/ C!ServerOpensDest \/ C!ServerRelays)
  BY <1>1 DEF C!ServerOpens, C!ServerReads, C!ServerOpensDest, C!ServerRelays, C!Chat
<1>5. \A p \in C!Clients : ~(C!ClientOpens(p) \/ C!ClientReads(p) \/ C!ClientEnds(p))
  BY DEF C!ClientOpens, C!ClientReads, C!ClientEnds, C!Chat
<1>6. QED
  BY <1>2, <1>3, <1>4, <1>5 DEF C!Next, C!System

(* What is flushed: with an empty buffer, the line that was typed.          *)
LEMMA FlushEffect ==
  ASSUME TalkTypes, NEW s \in Seq(Items), UNCHANGED cProgram,
         cPipe' = [cPipe EXCEPT !["p1"] = @ \o s]
  PROVE  /\ cPipe' \in [C!Pipes -> Seq(Items)] /\ Has("p1")' = Has("p1") + Len(s)
         /\ \A r \in C!Pipes \ {"p1"} : cPipe'[r] = cPipe[r] /\ Has(r)' = Has(r)
<1>1. PICK t \in Seq(Items) : t = cPipe["p1"]
  BY Names DEF TalkTypes
<1>2. t \o s \in Seq(Items) /\ Len(t \o s) = Len(t) + Len(s)
  OBVIOUS
<1>3. QED
  BY <1>1, <1>2, Names DEF TalkTypes, Has

(* They flush what they write.                                              *)
LEMMA FilterStep ==
  ASSUME TalkIInv, cProgram = "filter", C!Next
  PROVE  TalkIInv'
<1>1. /\ TalkTypes /\ Unused /\ FilterInv
      /\ {"parent", "child"} \subseteq C!Procs /\ {"p1", "p2"} \subseteq C!Pipes
      /\ C!Pair = {"parent", "child"} /\ {"a", "b", "server"} \subseteq C!Procs /\ {"a", "b", "server"} \subseteq C!Pipes
      /\ C!Clients = {"a", "b"} /\ Items = Nat
  BY Names DEF TalkIInv, Items
<1>2. /\ Has("p1") \in Nat /\ Has("p2") \in Nat /\ cN["parent"] \in Nat /\ cN["child"] \in Nat /\ Hand \in Nat
  BY <1>1, Lengths
<1>3. /\ at \in [C!Procs -> Places] /\ cN \in [C!Procs -> Nat] /\ cPipe \in [C!Pipes -> Seq(Items)]
      /\ cShown \in [C!Procs -> Seq(Items)] /\ buf \in Seq(Items)
  BY <1>1 DEF TalkTypes
<1>4. SUFFICES /\ UNCHANGED C!same
               /\ at' \in [C!Procs -> Places] /\ cN' \in [C!Procs -> Nat] /\ cPipe' \in [C!Pipes -> Seq(Items)]
               /\ cShown' \in [C!Procs -> Seq(Items)] /\ buf' \in Seq(Items)
               /\ \A c \in C!Clients \cup {"server"} : at'[c] = at[c] /\ cPipe'[c] = cPipe[c]
               /\ FilterInv'
  <2> SUFFICES ASSUME /\ UNCHANGED C!same
                      /\ at' \in [C!Procs -> Places] /\ cN' \in [C!Procs -> Nat] /\ cPipe' \in [C!Pipes -> Seq(Items)]
                      /\ cShown' \in [C!Procs -> Seq(Items)] /\ buf' \in Seq(Items)
                      /\ \A c \in C!Clients \cup {"server"} : at'[c] = at[c] /\ cPipe'[c] = cPipe[c]
                      /\ FilterInv'
               PROVE  TalkIInv'
    OBVIOUS
  <2>1. cProgram' = "filter"
    BY DEF C!same
  <2>2. TalkTypes' /\ Unused' /\ ChatInv'
    BY <1>1, PairFrame
  <2>3. QED
    BY <2>1, <2>2 DEF TalkIInv, EmailInv, RoundsInv, FilterInv
<1>5. /\ at["parent"] \in {"start", "read", "ended"} /\ at["child"] \in {"off", "read", "ended"}
      /\ Hand = 0 /\ Has("p2") = 0 /\ Has("p1") <= cN["child"] /\ cN["child"] <= MaxLines
  BY <1>1 DEF FilterInv
<1>6. CASE C!Popen
  <2>1. UNCHANGED <<C!same, cN, cPipe, cShown, buf>> /\ cProgram' = cProgram
    BY <1>6 DEF C!Popen, C!same
  <2>2. Has("p1")' = Has("p1") /\ Has("p2")' = Has("p2") /\ Hand' = Hand
    BY <1>1, <2>1, SameLengths
  <2>3. /\ at' \in [C!Procs -> Places] /\ at'["parent"] = "read" /\ at'["child"] \in {"read", "ended"}
        /\ \A c \in C!Clients \cup {"server"} : at'[c] = at[c]
    <3>1. C!Both("read", IF variant = "raw" THEN "read" ELSE "ended")
      BY <1>6 DEF C!Popen
    <3>2. (IF variant = "raw" THEN "read" ELSE "ended") \in Places /\ "read" \in Places
      BY DEF Places
    <3>3. QED
      BY <1>1, <3>1, <3>2, BothEffect
  <2>4. FilterInv'
    BY <1>5, <2>1, <2>2, <2>3 DEF FilterInv
  <2>5. QED
    BY <1>3, <2>1, <2>3, <2>4
<1>7. CASE C!FilterLine
  <2>1. UNCHANGED <<C!same, at, cShown>> /\ cProgram' = cProgram /\ cN["child"] < MaxLines
        /\ buf' = <<>> /\ cPipe' = [cPipe EXCEPT !["p1"] = @ \o Append(buf, cN["child"] + 1)]
    BY <1>7 DEF C!FilterLine, C!same
  <2>2. cN' \in [C!Procs -> Nat] /\ cN'["child"] = cN["child"] + 1
    BY <1>1, <1>7, TurnsEffect DEF C!FilterLine
  <2>3. Append(buf, cN["child"] + 1) \in Seq(Items) /\ Len(Append(buf, cN["child"] + 1)) = 1
    BY <1>1, <1>2, <1>3, <1>5 DEF Hand
  <2>4. /\ cPipe' \in [C!Pipes -> Seq(Items)] /\ Has("p1")' = Has("p1") + 1
        /\ \A r \in C!Pipes \ {"p1"} : cPipe'[r] = cPipe[r] /\ Has(r)' = Has(r)
    BY <1>1, <2>1, <2>3, FlushEffect
  <2>5. buf' \in Seq(Items) /\ Hand' = 0
    BY <2>1 DEF Hand
  <2>6. Has("p2")' = 0
    BY <1>1, <1>5, <2>4
  <2>7. FilterInv'
    BY <1>2, <1>5, <2>1, <2>2, <2>4, <2>5, <2>6, TalkAssumption DEF FilterInv
  <2>8. QED
    BY <1>1, <1>3, <2>1, <2>2, <2>4, <2>5, <2>7
<1>8. CASE C!FilterEof
  <2>1. UNCHANGED <<C!same, cN, cShown>> /\ cProgram' = cProgram
        /\ buf' = <<>> /\ cPipe' = [cPipe EXCEPT !["p1"] = @ \o buf]
    BY <1>8 DEF C!FilterEof, C!same
  <2>2. /\ at' \in [C!Procs -> Places] /\ at'["parent"] = at["parent"] /\ at'["child"] = "ended"
        /\ \A c \in C!Clients \cup {"server"} : at'[c] = at[c]
    BY <1>1, <1>8, GoesEffect DEF Places, C!FilterEof
  <2>3. /\ cPipe' \in [C!Pipes -> Seq(Items)] /\ Has("p1")' = Has("p1") + Len(buf)
        /\ \A r \in C!Pipes \ {"p1"} : cPipe'[r] = cPipe[r] /\ Has(r)' = Has(r)
    BY <1>1, <1>3, <2>1, FlushEffect
  <2>4. buf' \in Seq(Items) /\ Hand' = 0 /\ Len(buf) = 0
    BY <1>5, <2>1 DEF Hand
  <2>5. Has("p1")' = Has("p1") /\ Has("p2")' = 0
    BY <1>1, <1>2, <1>5, <2>3, <2>4
  <2>6. FilterInv'
    BY <1>5, <2>1, <2>2, <2>4, <2>5 DEF FilterInv
  <2>7. QED
    BY <1>1, <1>3, <2>1, <2>2, <2>3, <2>4, <2>6
<1>9. CASE C!ParentReadsLine
  <2>1. UNCHANGED <<C!same, cN, buf>> /\ at["parent"] = "read" /\ cProgram' = cProgram /\ Items' = Items
    BY <1>9 DEF C!ParentReadsLine, C!same, Items
  <2>2. Hand' = Hand
    BY <1>1, <2>1, SameLengths
  <2>3. CASE C!Takes("p1") /\ C!Shows("parent", Head(cPipe["p1"])) /\ UNCHANGED at
    <3>1. /\ cPipe' \in [C!Pipes -> Seq(Items)] /\ Has("p1")' = Has("p1") - 1
          /\ \A r \in C!Pipes \ {"p1"} : cPipe'[r] = cPipe[r] /\ Has(r)' = Has(r)
          /\ Head(cPipe["p1"]) \in Items
      BY <1>1, <2>1, <2>3, TakesEffect
    <3>2. cShown' \in [C!Procs -> Seq(Items)]
      BY <1>1, <2>1, <2>3, <3>1, ShowsEffect
    <3>3. Has("p2")' = 0
      BY <1>1, <1>5, <3>1
    <3>4. FilterInv'
      BY <1>2, <1>5, <2>1, <2>2, <2>3, <3>1, <3>3 DEF FilterInv
    <3>5. QED
      BY <1>1, <1>3, <2>1, <2>3, <3>1, <3>2, <3>4
  <2>4. CASE C!Goes("parent", "ended") /\ UNCHANGED <<cPipe, cShown>>
    <3>1. Has("p1")' = Has("p1") /\ Has("p2")' = Has("p2")
      BY <1>1, <2>4, SameLengths
    <3>2. /\ at' \in [C!Procs -> Places] /\ at'["parent"] = "ended" /\ at'["child"] = at["child"]
          /\ \A c \in C!Clients \cup {"server"} : at'[c] = at[c]
      BY <1>1, <2>4, GoesEffect DEF Places
    <3>3. FilterInv'
      BY <1>5, <2>1, <2>2, <3>1, <3>2 DEF FilterInv
    <3>4. QED
      BY <1>3, <2>1, <2>4, <3>2, <3>3
  <2>5. QED
    BY <1>9, <2>3, <2>4 DEF C!ParentReadsLine
<1>10. QED
  BY <1>6, <1>7, <1>8, <1>9, FilterCases
-----------------------------------------------------------------------------
(* Items only move: from the server's FIFO into its hand, ...                *)
LEMMA MoveToHand ==
  ASSUME NEW u \in Seq(Posts), NEW q \in Seq(Posts), q # <<>>
  PROVE  (u \o <<>>) \o q = (u \o <<Head(q)>>) \o Tail(q)
<1>1. u \o <<>> = u
  BY ConcatEmptySeq
<1>2. Head(q) \in Posts /\ Tail(q) \in Seq(Posts) /\ <<Head(q)>> \in Seq(Posts)
  BY HeadTailProperties
<1>3. <<Head(q)>> \o Tail(q) = q
  <2>1. Len(<<Head(q)>>) = 1 /\ <<Head(q)>>[1] = Head(q)
    OBVIOUS
  <2>2. <<Head(q)>> \o Tail(q) \in Seq(Posts) /\ Len(<<Head(q)>> \o Tail(q)) = Len(q)
    BY <1>2, <2>1, HeadTailProperties, ConcatProperties
  <2>3. ASSUME NEW k \in 1 .. Len(q) PROVE (<<Head(q)>> \o Tail(q))[k] = q[k]
    BY <1>2, <2>1, HeadTailProperties, ConcatProperties
  <2>4. QED
    BY <2>2, <2>3, SeqEqual
<1>4. (u \o <<Head(q)>>) \o Tail(q) = u \o (<<Head(q)>> \o Tail(q))
  BY <1>2, ConcatAssociative
<1>5. QED
  BY <1>1, <1>3, <1>4

(* ... from there to the FIFO of a client, ...                              *)
LEMMA MoveToClient ==
  ASSUME NEW s \in Seq(Posts), NEW p \in Seq(Posts), NEW m \in Posts, NEW q \in Seq(Posts)
  PROVE  (s \o Append(p, m)) \o <<>> \o q = (s \o p) \o <<m>> \o q
<1>1. Append(p, m) = p \o <<m>> /\ <<m>> \in Seq(Posts) /\ Append(p, m) \in Seq(Posts)
  BY AppendIsConcat
<1>2. s \o (p \o <<m>>) = (s \o p) \o <<m>>
  BY <1>1, ConcatAssociative
<1>3. s \o Append(p, m) \in Seq(Posts)
  BY <1>1, ConcatProperties
<1>4. (s \o Append(p, m)) \o <<>> = s \o Append(p, m)
  BY <1>3, ConcatEmptySeq
<1>5. QED
  BY <1>1, <1>2, <1>4

(* ... and to what it shows; what is sent comes last.                       *)
LEMMA MoveToScreen ==
  ASSUME NEW s \in Seq(Posts), NEW p \in Seq(Posts), p # <<>>
  PROVE  Append(s, Head(p)) \o Tail(p) = s \o p
<1>1. Head(p) \in Posts /\ Append(s, Head(p)) = s \o <<Head(p)>> /\ s \o <<>> = s
  BY HeadTailProperties, AppendIsConcat, ConcatEmptySeq
<1>2. QED
  BY <1>1, MoveToHand

(* What is added to the end of a pipe is at the end of the way.             *)
LEMMA SentLast ==
  ASSUME NEW u \in Seq(Posts), NEW q \in Seq(Posts), NEW m \in Posts
  PROVE  u \o Append(q, m) = Append(u \o q, m)
<1>1. Append(q, m) = q \o <<m>> /\ <<m>> \in Seq(Posts)
  BY AppendIsConcat
<1>2. u \o q \in Seq(Posts)
  BY ConcatProperties
<1>3. Append(u \o q, m) = (u \o q) \o <<m>>
  BY <1>2, AppendIsConcat
<1>4. QED
  BY <1>1, <1>3, ConcatAssociative

(* What a longer sequence has: the old items, and the new one at its end.   *)
LEMMA Longer ==
  ASSUME NEW s \in Seq(Posts), NEW m \in Posts
  PROVE  /\ Append(s, m) \in Seq(Posts) /\ Len(s) + 1 \in DOMAIN Append(s, m) /\ Append(s, m)[Len(s) + 1] = m
         /\ \A l \in DOMAIN s : l \in DOMAIN Append(s, m) /\ Append(s, m)[l] = s[l]
         /\ \A l \in DOMAIN Append(s, m) :
              \/ l \in DOMAIN s /\ Append(s, m)[l] = s[l]
              \/ Append(s, m)[l] = m
OBVIOUS
-----------------------------------------------------------------------------
(* The steps that the chat has.                                             *)
LEMMA ChatCases ==
  ASSUME TalkIInv, cProgram = "chat", C!Next
  PROVE  \/ C!MkServerFifo \/ C!ServerOpens \/ C!ServerReads \/ C!ServerOpensDest \/ C!ServerRelays
         \/ \E c \in C!Clients : \/ C!ClientStarts(c) \/ C!ClientOpens(c) \/ C!FirstMessage(c) \/ C!ClientReads(c)
                                 \/ C!ClientEnds(c) \/ C!Reply(c) \/ C!Kill(c)
<1>1. at["parent"] = "off" /\ at["child"] = "off"
  BY DEF TalkIInv, Unused
<1>2. ~C!FilterLine /\ ~C!FilterEof
  BY DEF C!FilterLine, C!FilterEof
<1>3. ~(C!EmailFork \/ C!EmailExec \/ C!EmailWrite \/ C!EmailRead \/ C!Validate \/ C!ValidateBuffered
        \/ C!RoundsFork \/ C!RoundsAlone \/ C!RoundsWrite \/ C!RoundsRead \/ C!RoundsChildReads \/ C!RoundsReply
        \/ C!Popen \/ C!ParentReadsLine)
  BY <1>1 DEF C!EmailFork, C!EmailExec, C!EmailWrite, C!EmailRead, C!Validate, C!ValidateBuffered,
              C!RoundsFork, C!RoundsAlone, C!RoundsWrite, C!RoundsRead, C!RoundsChildReads, C!RoundsReply,
              C!Popen, C!ParentReadsLine
<1>4. CASE C!User
  BY <1>2, <1>4 DEF C!User
<1>5. CASE \E p \in C!Procs : C!System(p)
  BY <1>3, <1>5 DEF C!System
<1>6. QED
  BY <1>4, <1>5 DEF C!Next

(* A step of the chat: the types, and what it leaves to the pair.            *)
StillChat ==
  /\ UNCHANGED C!choices
  /\ at' \in [C!Procs -> Places] /\ cN' \in [C!Procs -> Nat]
  /\ cPipe' \in [C!Pipes -> Seq(Posts)] /\ cShown' \in [C!Procs -> Seq(Posts)] /\ buf' \in Seq(Posts)
  /\ exists' \subseteq C!Clients \cup {"server"} /\ deaf' \subseteq C!Clients /\ fds' \in 0 .. MaxFds
  /\ sent' \in Seq(Posts) /\ lost' \subseteq C!Range(sent') /\ killed' \subseteq C!Clients
  /\ at'["parent"] = at["parent"] /\ at'["child"] = at["child"]
  /\ cPipe'["p1"] = cPipe["p1"] /\ cPipe'["p2"] = cPipe["p2"]

(* Whatever the chat does, the pair stays as it is.                         *)
LEMMA ChatFrame ==
  ASSUME TalkTypes, Unused, cProgram = "chat", StillChat
  PROVE  TalkTypes' /\ Unused' /\ EmailInv' /\ RoundsInv' /\ FilterInv'
<1>1. cProgram' = "chat" /\ cProgram' = cProgram /\ variant' = variant
  BY DEF StillChat, C!choices
<1>2. Posts' = Posts /\ Items' = Posts
  BY <1>1 DEF Posts, Items
<1>3. TalkTypes'
  BY <1>1, <1>2 DEF TalkTypes, StillChat
<1>4. Unused'
  BY <1>1 DEF Unused, Has, StillChat
<1>5. QED
  BY <1>1, <1>3, <1>4 DEF EmailInv, RoundsInv, FilterInv

(* What the invariant says of the chat, conjunct by conjunct.               *)
LEMMA ChatFacts ==
  ASSUME TalkIInv, cProgram = "chat"
  PROVE  /\ TalkTypes /\ Unused /\ ChatPlaces /\ ChatCounts /\ ChatKnown /\ ChatRelayed
         /\ at \in [C!Procs -> Places] /\ cN \in [C!Procs -> Nat]
         /\ cPipe \in [C!Pipes -> Seq(Posts)] /\ cShown \in [C!Procs -> Seq(Posts)] /\ buf \in Seq(Posts)
         /\ exists \subseteq C!Clients \cup {"server"} /\ deaf \subseteq C!Clients /\ fds \in 0 .. MaxFds
         /\ sent \in Seq(Posts) /\ lost \subseteq C!Range(sent) /\ killed \subseteq C!Clients
         /\ Items = Posts
         /\ Has("a") \in Nat /\ Has("b") \in Nat /\ Has("server") \in Nat /\ Hand \in Nat
         /\ Printed("a") \in Nat /\ Printed("b") \in Nat /\ cN["a"] \in Nat /\ cN["b"] \in Nat /\ fds \in Nat
         /\ \A c \in C!Clients : Has(c) \in Nat /\ Printed(c) \in Nat /\ cN[c] \in Nat
<1>1. TalkTypes /\ Unused /\ ChatPlaces /\ ChatCounts /\ ChatKnown /\ ChatRelayed /\ Items = Posts
  BY DEF TalkIInv, ChatInv, Items
<1>2. /\ at \in [C!Procs -> Places] /\ cN \in [C!Procs -> Nat]
      /\ cPipe \in [C!Pipes -> Seq(Posts)] /\ cShown \in [C!Procs -> Seq(Posts)] /\ buf \in Seq(Posts)
      /\ exists \subseteq C!Clients \cup {"server"} /\ deaf \subseteq C!Clients /\ fds \in 0 .. MaxFds
      /\ sent \in Seq(Posts) /\ lost \subseteq C!Range(sent) /\ killed \subseteq C!Clients
  BY <1>1 DEF TalkTypes
<1>3. /\ Has("a") \in Nat /\ Has("b") \in Nat /\ Has("server") \in Nat /\ Hand \in Nat
      /\ Printed("a") \in Nat /\ Printed("b") \in Nat /\ cN["a"] \in Nat /\ cN["b"] \in Nat
      /\ \A c \in C!Clients : Has(c) \in Nat /\ Printed(c) \in Nat /\ cN[c] \in Nat
  BY <1>1, Lengths, Names
<1>4. fds \in Nat
  BY <1>2, TalkAssumption
<1>5. QED
  BY <1>1, <1>2, <1>3, <1>4

(* The numbers of what is under way, of what is shown, and of descriptors.   *)
LEMMA ChatNumbers ==
  ASSUME TalkIInv, cProgram = "chat"
  PROVE  /\ Has("a") \in Nat /\ Has("b") \in Nat /\ Has("server") \in Nat /\ Hand \in Nat
         /\ Printed("a") \in Nat /\ Printed("b") \in Nat /\ cN["a"] \in Nat /\ cN["b"] \in Nat /\ fds \in Nat
BY ChatFacts

(* The one message that the server holds.                                   *)
LEMMA InHand ==
  ASSUME TalkIInv, cProgram = "chat", at["server"] \in {"dest", "relay"}
  PROVE  \E m \in Posts : m = buf[1] /\ buf = <<m>> /\ Hand = 1
<1>1. Hand = 1
  BY ChatFacts DEF ChatPlaces
<1>2. PICK w \in Seq(Posts) : w = buf
  BY ChatFacts
<1>3. ASSUME NEW v \in Seq(Posts), Len(v) = 1 PROVE v[1] \in Posts /\ v = <<v[1]>>
  <2>1. v[1] \in Posts
    BY <1>3
  <2>2. <<v[1]>> \in Seq(Posts) /\ Len(<<v[1]>>) = 1 /\ <<v[1]>>[1] = v[1]
    BY <2>1
  <2>3. QED
    BY <1>3, <2>1, <2>2, SeqEqual
<1>4. Len(w) = 1
  BY <1>1, <1>2 DEF Hand
<1>5. QED
  BY <1>1, <1>2, <1>3, <1>4

(* Clients stay where they are allowed to be.                               *)
LEMMA ClientsStay ==
  ASSUME TalkIInv, cProgram = "chat",
         \A c \in C!Clients : at'[c] = at[c] /\ cN'[c] = cN[c] /\ Printed(c)' = Printed(c)
  PROVE  \A c \in C!Clients : /\ at'[c] \in {"start", "open", "first", "own", "read", "type", "ended", "killed"}
                             /\ cN'[c] <= MaxLines /\ (at'[c] = "type" => Printed(c)' > 0)
BY ChatFacts DEF ChatPlaces

(* A step that moves no message.                                            *)
LEMMA NothingMoves ==
  ASSUME TalkIInv, cProgram = "chat", UNCHANGED <<C!choices, cN, cPipe, cShown, buf, fds, sent, lost, killed>>,
         at' \in [C!Procs -> Places], exists' \subseteq C!Clients \cup {"server"}, deaf' \subseteq C!Clients,
         at'["parent"] = at["parent"], at'["child"] = at["child"],
         at'["server"] = "relay" => at["server"] = "relay",
         at["server"] \in {"ended", "killed"} => at'["server"] \in {"ended", "killed"},
         ChatPlaces'
  PROVE  TalkIInv'
<1>1. TalkTypes' /\ Unused' /\ EmailInv' /\ RoundsInv' /\ FilterInv'
  BY ChatFacts, ChatFrame DEF StillChat
<1>2. /\ Has("a")' = Has("a") /\ Has("b")' = Has("b") /\ Has("server")' = Has("server") /\ Hand' = Hand
      /\ Printed("a")' = Printed("a") /\ Printed("b")' = Printed("b")
  BY SameLengths, Names
<1>3. ChatCounts'
  <2>1. /\ Has("server") + Has("a") + Has("b") + Hand <= cN["a"] + cN["b"]
        /\ Printed("a") + Has("a") + Printed("b") + Has("b") + (IF at["server"] = "relay" THEN 1 ELSE 0) <= fds
        /\ fds \in Nat /\ Printed("a") + Has("a") + Printed("b") + Has("b") \in Nat
    <3>1. /\ Has("server") + Has("a") + Has("b") + Hand <= cN["a"] + cN["b"]
          /\ Printed("a") + Has("a") + Printed("b") + Has("b") + (IF at["server"] = "relay" THEN 1 ELSE 0) <= fds
      BY ChatFacts DEF ChatCounts
    <3>2. fds \in Nat /\ Printed("a") \in Nat /\ Has("a") \in Nat /\ Printed("b") \in Nat /\ Has("b") \in Nat
      BY ChatFacts
    <3>3. QED
      BY <3>1, <3>2
  <2>2. /\ Has("server")' + Has("a")' + Has("b")' + Hand' <= cN'["a"] + cN'["b"]
        /\ Printed("a")' + Has("a")' + Printed("b")' + Has("b")' = Printed("a") + Has("a") + Printed("b") + Has("b")
    BY <1>2, <2>1
  <2>3. Printed("a")' + Has("a")' + Printed("b")' + Has("b")' + (IF at'["server"] = "relay" THEN 1 ELSE 0) <= fds'
    BY <2>1, <2>2
  <2>4. QED
    BY <2>2, <2>3 DEF ChatCounts
<1>4. ChatKnown'
  BY ChatFacts DEF ChatKnown
<1>5. ChatRelayed'
  <2>1. \A y \in C!Clients : C!Way(y)' = C!Way(y)
    BY DEF C!Way
  <2>2. Undisturbed' => Undisturbed
    BY DEF Undisturbed
  <2>3. QED
    BY <2>1, <2>2, ChatFacts DEF ChatRelayed
<1>6. QED
  BY <1>1, <1>3, <1>4, <1>5 DEF TalkIInv, ChatInv

(* FIFOs are made and opened, and a client ends: no message moves.          *)
LEMMA QuietSteps ==
  ASSUME TalkIInv, cProgram = "chat",
         \/ C!MkServerFifo \/ C!ServerOpens
         \/ \E c \in C!Clients : C!ClientStarts(c) \/ C!ClientOpens(c) \/ C!ClientEnds(c)
  PROVE  TalkIInv'
<1>1. /\ {"parent", "child", "server"} \subseteq C!Procs /\ C!Clients = {"a", "b"}
      /\ C!Clients \subseteq C!Procs
  BY Names
<1>2. TalkTypes /\ ChatPlaces /\ at \in [C!Procs -> Places] /\ exists \subseteq C!Clients \cup {"server"} /\ deaf \subseteq C!Clients
  BY ChatFacts
<1>3. (cShown' = cShown => \A c \in C!Clients : Printed(c)' = Printed(c)) /\ (buf' = buf => Hand' = Hand)
  BY <1>1, SameLengths
<1>4. CASE C!MkServerFifo
  <2>1. UNCHANGED <<C!choices, cN, cPipe, cShown, buf, deaf, fds, sent, lost, killed>> /\ at["server"] = "start"
        /\ exists' = exists \cup {"server"}
    BY <1>4 DEF C!MkServerFifo
  <2>2. at' \in [C!Procs -> Places] /\ at'["server"] = "open" /\ \A p \in C!Procs \ {"server"} : at'[p] = at[p]
    BY <1>1, <1>2, <1>4, GoesEffect DEF C!MkServerFifo, Places
  <2>3. ChatPlaces'
    BY <1>1, <1>2, <1>3, <2>1, <2>2 DEF ChatPlaces
  <2>4. QED
    BY <1>1, <1>2, <2>1, <2>2, <2>3, NothingMoves
<1>5. CASE C!ServerOpens
  <2>1. UNCHANGED <<C!choices, cN, cPipe, cShown, buf, exists, deaf, fds, sent, lost, killed>> /\ at["server"] = "open"
    BY <1>5 DEF C!ServerOpens, C!chatVars
  <2>2. at' \in [C!Procs -> Places] /\ at'["server"] = "read" /\ \A p \in C!Procs \ {"server"} : at'[p] = at[p]
    BY <1>1, <1>2, <1>5, GoesEffect DEF C!ServerOpens, Places
  <2>3. ChatPlaces'
    BY <1>1, <1>2, <1>3, <2>1, <2>2 DEF ChatPlaces
  <2>4. QED
    BY <1>1, <1>2, <2>1, <2>2, <2>3, NothingMoves
<1>6. ASSUME NEW c \in C!Clients, C!ClientStarts(c) PROVE TalkIInv'
  <2>1. UNCHANGED <<C!choices, cN, cPipe, cShown, buf, fds, sent, lost, killed>>
        /\ exists' = exists \cup {c} /\ deaf' \subseteq C!Clients
    BY <1>2, <1>6 DEF C!ClientStarts
  <2>2. at' \in [C!Procs -> Places] /\ at'[c] \in {"open", "first"} /\ \A p \in C!Procs \ {c} : at'[p] = at[p]
    <3>1. "open" \in Places /\ "first" \in Places /\ c \in C!Procs
      BY <1>1 DEF Places
    <3>2. C!Goes(c, "open") \/ C!Goes(c, "first")
      BY <1>6 DEF C!ClientStarts
    <3>3. QED
      BY <1>2, <3>1, <3>2, GoesEffect
  <2>3. at'["server"] = at["server"] /\ at'["parent"] = at["parent"] /\ at'["child"] = at["child"]
    BY <1>1, <2>2
  <2>4. ChatPlaces'
    BY <1>1, <1>2, <1>3, <2>1, <2>2, <2>3 DEF ChatPlaces
  <2>5. QED
    BY <1>1, <1>2, <2>1, <2>2, <2>3, <2>4, NothingMoves
<1>7. ASSUME NEW c \in C!Clients, C!ClientOpens(c) PROVE TalkIInv'
  <2>1. UNCHANGED <<C!choices, cN, cPipe, cShown, buf, exists, deaf, fds, sent, lost, killed>>
        /\ at["server"] \in {"open", "read", "dest", "relay"}
        /\ at' = [at EXCEPT ![c] = "first", !["server"] = IF @ = "open" THEN "read" ELSE @]
    BY <1>7 DEF C!ClientOpens, C!chatVars
  <2>2. at' \in [C!Procs -> Places] /\ at'[c] = "first" /\ \A p \in C!Procs \ {c, "server"} : at'[p] = at[p]
        /\ at'["server"] = (IF at["server"] = "open" THEN "read" ELSE at["server"])
    <3>1. "first" \in Places /\ "read" \in Places /\ c # "server" /\ c \in C!Procs
      BY <1>1 DEF Places
    <3>2. QED
      BY <1>1, <1>2, <2>1, <3>1
  <2>3. at'["parent"] = at["parent"] /\ at'["child"] = at["child"]
    BY <1>1, <2>2
  <2>4. ChatPlaces'
    BY <1>1, <1>2, <1>3, <2>1, <2>2 DEF ChatPlaces
  <2>5. QED
    BY <1>2, <2>1, <2>2, <2>3, <2>4, NothingMoves
<1>8. ASSUME NEW c \in C!Clients, C!ClientEnds(c) PROVE TalkIInv'
  <2>1. UNCHANGED <<C!choices, cN, cPipe, cShown, buf, deaf, fds, sent, lost, killed>>
        /\ exists' \subseteq C!Clients \cup {"server"}
    BY <1>2, <1>8 DEF C!ClientEnds
  <2>2. at' \in [C!Procs -> Places] /\ at'[c] = "ended" /\ \A p \in C!Procs \ {c} : at'[p] = at[p]
    BY <1>1, <1>2, <1>8, GoesEffect DEF C!ClientEnds, Places
  <2>3. at'["server"] = at["server"] /\ at'["parent"] = at["parent"] /\ at'["child"] = at["child"]
    BY <1>1, <2>2
  <2>4. ChatPlaces'
    BY <1>1, <1>2, <1>3, <2>1, <2>2, <2>3 DEF ChatPlaces
  <2>5. QED
    BY <1>1, <1>2, <2>1, <2>2, <2>3, <2>4, NothingMoves
<1>9. QED
  BY <1>4, <1>5, <1>6, <1>7, <1>8
-----------------------------------------------------------------------------
(* The server has read a message: from its FIFO it comes to its hands.       *)
LEMMA ServerTakes ==
  ASSUME TalkIInv, cProgram = "chat", at["server"] = "read", C!Takes("server"), buf' = <<Head(cPipe["server"])>>,
         C!Goes("server", "dest"), UNCHANGED <<C!choices, cN, cShown, C!chatVars>>
  PROVE  TalkIInv'
<1>1. /\ {"parent", "child", "server"} \subseteq C!Procs /\ C!Clients = {"a", "b"}
      /\ C!Clients \subseteq C!Procs /\ C!Clients \subseteq C!Pipes /\ {"server", "p1", "p2"} \subseteq C!Pipes
  BY Names
<1>2. UNCHANGED <<exists, deaf, fds, sent, lost, killed, cProgram>>
  BY DEF C!chatVars, C!choices
<1>3. at' \in [C!Procs -> Places] /\ at'["server"] = "dest" /\ \A p \in C!Procs \ {"server"} : at'[p] = at[p]
  BY <1>1, ChatFacts, GoesEffect DEF Places
<1>4. /\ cPipe' \in [C!Pipes -> Seq(Posts)] /\ Has("server") >= 1 /\ Has("server")' = Has("server") - 1
      /\ \A q \in C!Pipes \ {"server"} : cPipe'[q] = cPipe[q] /\ Has(q)' = Has(q)
      /\ cPipe'["server"] = Tail(cPipe["server"]) /\ cPipe["server"] # <<>> /\ Head(cPipe["server"]) \in Posts
      /\ Head(cPipe["server"]) = cPipe["server"][1]
  <2>1. Items' = Posts
    BY <1>2, ChatFacts DEF Items, Posts
  <2>2. QED
    BY <1>1, <1>2, <2>1, ChatFacts, TakesEffect
<1>5. buf' \in Seq(Posts) /\ Hand' = 1 /\ Hand = 0 /\ buf = <<>>
  <2>1. Hand = 0
    BY ChatFacts DEF ChatPlaces
  <2>2. buf = <<>>
    BY <2>1, ChatFacts DEF Hand
  <2>3. QED
    BY <1>4, <2>1, <2>2 DEF Hand
<1>6. TalkTypes' /\ Unused' /\ EmailInv' /\ RoundsInv' /\ FilterInv'
  <2>1. StillChat
    BY <1>1, <1>2, <1>3, <1>4, <1>5, ChatFacts DEF StillChat
  <2>2. QED
    BY <2>1, ChatFacts, ChatFrame
<1>7. \A c \in C!Clients : Has(c)' = Has(c) /\ Printed(c)' = Printed(c)
  BY <1>1, <1>4, SameLengths
<1>8. ChatPlaces'
  <2>1. \A c \in C!Clients : at'[c] = at[c] /\ cN'[c] = cN[c] /\ Printed(c)' = Printed(c)
    BY <1>1, <1>3, <1>7
  <2>2. \A c \in C!Clients : /\ at'[c] \in {"start", "open", "first", "own", "read", "type", "ended", "killed"}
                            /\ cN'[c] <= MaxLines /\ (at'[c] = "type" => Printed(c)' > 0)
    BY <2>1, ChatFacts DEF ChatPlaces
  <2>3. QED
    BY <1>3, <1>5, <2>2 DEF ChatPlaces
<1>9. ChatCounts'
  <2>1. /\ Has("server") + Has("a") + Has("b") + Hand <= cN["a"] + cN["b"]
        /\ Printed("a") + Has("a") + Printed("b") + Has("b") + 0 <= fds
    BY ChatFacts DEF ChatCounts
  <2>2. Has("a")' = Has("a") /\ Has("b")' = Has("b") /\ Printed("a")' = Printed("a") /\ Printed("b")' = Printed("b")
    BY <1>1, <1>7
  <2>3. QED
    BY <1>2, <1>3, <1>4, <1>5, <2>1, <2>2, ChatFacts DEF ChatCounts
<1>10. PICK q \in Seq(Posts) : q = cPipe["server"]
  BY <1>1, ChatFacts
<1>11. ChatKnown'
  <2>1. Known(q, sent) /\ q # <<>>
    BY <1>4, <1>10, ChatFacts DEF ChatKnown
  <2>2. Known(Tail(q), sent) /\ Known(<<Head(q)>>, sent)
    <3>1. 1 \in DOMAIN q /\ Head(q) = q[1] /\ \A k \in DOMAIN Tail(q) : k + 1 \in DOMAIN q /\ Tail(q)[k] = q[k + 1]
      BY <2>1
    <3>2. \A k \in DOMAIN <<Head(q)>> : <<Head(q)>>[k] = Head(q)
      OBVIOUS
    <3>3. QED
      BY <2>1, <3>1, <3>2 DEF Known
  <2>3. QED
    BY <1>2, <1>4, <1>10, <2>2, ChatFacts DEF ChatKnown
<1>12. ChatRelayed'
  <2>1. ASSUME NEW y \in C!Clients PROVE C!Way(y)' = C!Way(y)
    <3>1. PICK u \in Seq(Posts) : u = cShown[y] \o cPipe[y]
      <4>1. cShown[y] \in Seq(Posts) /\ cPipe[y] \in Seq(Posts)
        BY <1>1, ChatFacts
      <4>2. cShown[y] \o cPipe[y] \in Seq(Posts)
        BY <4>1, ConcatProperties
      <4>3. QED
        BY <4>2
    <3>2. C!Way(y) = (u \o <<>>) \o q
      BY <1>5, <1>10, <3>1 DEF C!Way
    <3>3. C!Way(y)' = (u \o <<Head(q)>>) \o Tail(q)
      <4>1. cPipe'[y] = cPipe[y]
        BY <1>1, <1>4
      <4>2. QED
        BY <1>4, <1>10, <3>1, <4>1 DEF C!Way
    <3>4. QED
      BY <1>4, <1>10, <3>2, <3>3, MoveToHand
  <2>2. Undisturbed' => Undisturbed
    BY <1>2 DEF Undisturbed
  <2>3. QED
    BY <1>2, <2>1, <2>2, ChatFacts DEF ChatRelayed
<1>13. QED
  BY <1>6, <1>8, <1>9, <1>11, <1>12 DEF TalkIInv, ChatInv

(* The server ends with an empty FIFO and nothing in its hands.             *)
LEMMA ServerEnds ==
  ASSUME TalkIInv, cProgram = "chat", at["server"] = "read", C!Goes("server", "ended"),
         UNCHANGED <<C!choices, cN, cPipe, cShown, buf, C!chatVars>>
  PROVE  TalkIInv'
<1>1. /\ {"parent", "child", "server"} \subseteq C!Procs /\ C!Clients = {"a", "b"} /\ C!Clients \subseteq C!Procs
  BY Names
<1>2. UNCHANGED <<exists, deaf, fds, sent, lost, killed>>
  BY DEF C!chatVars
<1>3. at' \in [C!Procs -> Places] /\ at'["server"] = "ended" /\ \A p \in C!Procs \ {"server"} : at'[p] = at[p]
  BY <1>1, ChatFacts, GoesEffect DEF Places
<1>4. (\A c \in C!Clients : Printed(c)' = Printed(c)) /\ Hand' = Hand
  BY <1>1, SameLengths
<1>5. ChatPlaces'
  <2>1. \A c \in C!Clients : at'[c] = at[c] /\ cN'[c] = cN[c] /\ Printed(c)' = Printed(c)
    BY <1>1, <1>3, <1>4
  <2>2. Hand' = 0
    BY <1>4, ChatFacts DEF ChatPlaces
  <2>3. QED
    BY <1>3, <2>1, <2>2, ClientsStay DEF ChatPlaces
<1>6. QED
  BY <1>1, <1>2, <1>3, <1>5, ChatFacts, NothingMoves

(* The server drops its message: it is the one that goes to lost.           *)
LEMMA ServerLoses ==
  ASSUME TalkIInv, cProgram = "chat", at["server"] = "dest", lost' = lost \cup {buf[1]}, buf' = <<>>,
         C!Goes("server", "read"), UNCHANGED <<C!choices, fds, cN, cPipe, cShown, exists, deaf, sent, killed>>
  PROVE  TalkIInv'
<1>1. /\ {"parent", "child", "server"} \subseteq C!Procs /\ C!Clients = {"a", "b"}
      /\ C!Clients \subseteq C!Procs /\ C!Clients \subseteq C!Pipes /\ {"server", "p1", "p2"} \subseteq C!Pipes
  BY Names
<1>2. at' \in [C!Procs -> Places] /\ at'["server"] = "read" /\ \A p \in C!Procs \ {"server"} : at'[p] = at[p]
  BY <1>1, ChatFacts, GoesEffect DEF Places
<1>3. PICK m \in Posts : m = buf[1] /\ buf = <<m>> /\ Hand = 1
  BY InHand
<1>4. \E l \in DOMAIN sent : m = sent[l]
  <2>1. 1 \in DOMAIN <<m>> /\ <<m>>[1] = m
    OBVIOUS
  <2>2. Known(<<m>>, sent)
    BY <1>3, ChatFacts DEF ChatKnown
  <2>3. QED
    BY <2>1, <2>2 DEF Known
<1>5. buf' \in Seq(Posts) /\ Hand' = 0 /\ lost' \subseteq C!Range(sent')
  BY <1>3, <1>4, ChatFacts DEF Hand, C!Range
<1>6. TalkTypes' /\ Unused' /\ EmailInv' /\ RoundsInv' /\ FilterInv'
  <2>1. StillChat
    BY <1>1, <1>2, <1>5, ChatFacts DEF StillChat
  <2>2. QED
    BY <2>1, ChatFacts, ChatFrame
<1>7. /\ Has("server")' = Has("server") /\ \A c \in C!Clients : Has(c)' = Has(c) /\ Printed(c)' = Printed(c)
  BY <1>1, SameLengths
<1>8. ChatPlaces'
  <2>1. \A c \in C!Clients : at'[c] = at[c] /\ cN'[c] = cN[c] /\ Printed(c)' = Printed(c)
    BY <1>1, <1>2, <1>7
  <2>2. \A c \in C!Clients : /\ at'[c] \in {"start", "open", "first", "own", "read", "type", "ended", "killed"}
                            /\ cN'[c] <= MaxLines /\ (at'[c] = "type" => Printed(c)' > 0)
    BY <2>1, ChatFacts DEF ChatPlaces
  <2>3. QED
    BY <1>2, <1>5, <2>2 DEF ChatPlaces
<1>9. ChatCounts'
  <2>1. /\ Has("server") + Has("a") + Has("b") + Hand <= cN["a"] + cN["b"]
        /\ Printed("a") + Has("a") + Printed("b") + Has("b") + 0 <= fds
    BY ChatFacts DEF ChatCounts
  <2>2. Has("a")' = Has("a") /\ Has("b")' = Has("b") /\ Printed("a")' = Printed("a") /\ Printed("b")' = Printed("b")
    BY <1>1, <1>7
  <2>3. /\ Has("server")' + Has("a")' + Has("b")' + Hand' <= cN["a"] + cN["b"]
        /\ Printed("a")' + Has("a")' + Printed("b")' + Has("b")' + 0 <= fds
    BY <1>3, <1>5, <1>7, <2>1, <2>2, ChatNumbers
  <2>4. QED
    BY <1>2, <2>3 DEF ChatCounts
<1>10. ChatKnown'
  BY ChatFacts DEF ChatKnown, Known
<1>11. ChatRelayed'
  <2>1. ASSUME NEW y \in C!Clients, NEW x \in C!Clients, Undisturbed'
        PROVE  Relayed(C!Way(y)', sent', lost', x, y)
    <3>1. PICK u \in Seq(Posts), q \in Seq(Posts) : u = cShown[y] \o cPipe[y] /\ q = cPipe["server"]
      <4>1. cShown[y] \in Seq(Posts) /\ cPipe[y] \in Seq(Posts) /\ cPipe["server"] \in Seq(Posts)
        BY <1>1, ChatFacts
      <4>2. cShown[y] \o cPipe[y] \in Seq(Posts)
        BY <4>1, ConcatProperties
      <4>3. QED
        BY <4>1, <4>2
    <3>2. C!Way(y) = (u \o <<m>>) \o q
      BY <1>3, <3>1 DEF C!Way
    <3>3. u \o <<>> = u
      BY ConcatEmptySeq
    <3>4. C!Way(y)' = u \o q
      BY <3>1, <3>3 DEF C!Way
    <3>5. Relayed((u \o <<m>>) \o q, sent, lost, x, y)
      <4>1. Undisturbed
        BY <2>1 DEF Undisturbed
      <4>2. QED
        BY <3>2, <4>1, ChatFacts DEF ChatRelayed
    <3>6. Relayed(u \o q, sent, lost \cup {m}, x, y)
      BY <3>5, ChatFacts, Dropped
    <3>7. QED
      BY <1>3, <3>4, <3>6
  <2>2. QED
    BY <2>1 DEF ChatRelayed
<1>12. QED
  BY <1>6, <1>8, <1>9, <1>10, <1>11 DEF TalkIInv, ChatInv
(* The server has opened the FIFO of the client that its message is for.    *)
LEMMA ServerOpensFifo ==
  ASSUME TalkIInv, cProgram = "chat", at["server"] = "dest", fds < MaxFds, C!ReadsOwn(C!To), fds' = fds + 1,
         at' = [at EXCEPT !["server"] = "relay", ![C!To] = IF @ = "own" THEN "read" ELSE @],
         UNCHANGED <<C!choices, cN, cPipe, cShown, buf, exists, deaf, sent, lost, killed>>
  PROVE  TalkIInv'
<1>1. /\ {"parent", "child", "server"} \subseteq C!Procs /\ C!Clients = {"a", "b"} /\ "server" \notin C!Clients
      /\ C!Clients \subseteq C!Procs /\ C!Clients \subseteq C!Pipes /\ {"server", "p1", "p2"} \subseteq C!Pipes
  BY Names
<1>2. PICK d \in C!Clients : d = C!To /\ at[d] \in {"own", "read", "type"}
  BY DEF C!ReadsOwn
<1>3. /\ at' \in [C!Procs -> Places] /\ at'["server"] = "relay" /\ at'[d] = (IF at[d] = "own" THEN "read" ELSE at[d])
      /\ \A p \in C!Procs \ {"server", d} : at'[p] = at[p]
  <2>1. at \in [C!Procs -> Places] /\ d # "server" /\ d \in C!Procs /\ "relay" \in Places /\ "read" \in Places
    BY <1>1, ChatFacts DEF Places
  <2>2. at' = [at EXCEPT !["server"] = "relay", ![d] = IF @ = "own" THEN "read" ELSE @]
    BY <1>2
  <2>3. DEFINE to == IF at[d] = "own" THEN "read" ELSE at[d]
  <2>4. to \in Places /\ at' = [[at EXCEPT !["server"] = "relay"] EXCEPT ![d] = to]
    BY <1>1, <2>1, <2>2
  <2> HIDE DEF to
  <2>5. PICK f \in [C!Procs -> Places] : /\ f["server"] = "relay" /\ at' = [f EXCEPT ![d] = to]
                                        /\ \A p \in C!Procs \ {"server"} : f[p] = at[p]
    <3>1. [at EXCEPT !["server"] = "relay"] \in [C!Procs -> Places]
      BY <1>1, <2>1
    <3>2. [at EXCEPT !["server"] = "relay"]["server"] = "relay"
      BY <1>1, <2>1
    <3>3. \A p \in C!Procs \ {"server"} : [at EXCEPT !["server"] = "relay"][p] = at[p]
      BY <2>1
    <3>4. QED
      BY <2>4, <3>1, <3>2, <3>3
  <2>6. /\ at' \in [C!Procs -> Places] /\ at'["server"] = "relay" /\ at'[d] = to
        /\ \A p \in C!Procs \ {"server", d} : at'[p] = at[p]
    <3>1. to \in Places /\ d \in C!Procs /\ d # "server" /\ "server" \in C!Procs
      BY <1>1, <2>1, <2>4
    <3>2. at' \in [C!Procs -> Places]
      BY <2>5, <3>1
    <3>3. at'[d] = to
      BY <2>5, <3>1
    <3>4. \A p \in C!Procs \ {d} : at'[p] = f[p]
      BY <2>5, <3>1
    <3>5. QED
      BY <2>5, <3>1, <3>2, <3>3, <3>4
  <2>7. QED
    BY <2>6 DEF to
<1>4. TalkTypes' /\ Unused' /\ EmailInv' /\ RoundsInv' /\ FilterInv'
  <2>1. fds' \in 0 .. MaxFds
    <3>1. fds \in Nat
      BY ChatNumbers
    <3>2. QED
      BY <3>1, TalkAssumption
  <2>2. at'["parent"] = at["parent"] /\ at'["child"] = at["child"]
    BY <1>1, <1>3
  <2>3. StillChat
    BY <1>3, <2>1, <2>2, ChatFacts DEF StillChat
  <2>4. QED
    BY <2>3, ChatFacts, ChatFrame
<1>5. /\ Has("a")' = Has("a") /\ Has("b")' = Has("b") /\ Has("server")' = Has("server") /\ Hand' = Hand
      /\ Printed("a")' = Printed("a") /\ Printed("b")' = Printed("b")
      /\ \A c \in C!Clients : Printed(c)' = Printed(c)
  BY <1>1, SameLengths
<1>6. ChatPlaces'
  <2>1. \A c \in C!Clients : at'[c] = at[c] \/ (at[c] = "own" /\ at'[c] = "read")
    BY <1>1, <1>3
  <2>2. \A c \in C!Clients : /\ at'[c] \in {"start", "open", "first", "own", "read", "type", "ended", "killed"}
                            /\ cN'[c] <= MaxLines /\ (at'[c] = "type" => Printed(c)' > 0)
    <3>1. \A c \in C!Clients : cN'[c] = cN[c] /\ Printed(c)' = Printed(c)
      BY <1>5
    <3>2. \A c \in C!Clients : /\ at[c] \in {"start", "open", "first", "own", "read", "type", "ended", "killed"}
                              /\ cN[c] <= MaxLines /\ (at[c] = "type" => Printed(c) > 0)
      BY ChatFacts DEF ChatPlaces
    <3>3. QED
      BY <2>1, <3>1, <3>2
  <2>3. Hand' = 1
    BY <1>5, ChatFacts DEF ChatPlaces
  <2>4. buf'[1].to \in C!Clients
    BY <1>2 DEF C!To
  <2>5. QED
    BY <1>3, <2>2, <2>3, <2>4 DEF ChatPlaces
<1>7. ChatCounts'
  <2>1. /\ Has("server") + Has("a") + Has("b") + Hand <= cN["a"] + cN["b"]
        /\ Printed("a") + Has("a") + Printed("b") + Has("b") + 0 <= fds
    BY ChatFacts DEF ChatCounts
  <2>2. Printed("a")' + Has("a")' + Printed("b")' + Has("b")' + 1 <= fds'
    BY <1>5, <2>1, ChatNumbers
  <2>3. Has("server")' + Has("a")' + Has("b")' + Hand' <= cN'["a"] + cN'["b"]
    BY <1>5, <2>1
  <2>4. QED
    BY <1>3, <2>2, <2>3 DEF ChatCounts
<1>8. ChatKnown'
  BY ChatFacts DEF ChatKnown
<1>9. ChatRelayed'
  <2>1. \A y \in C!Clients : C!Way(y)' = C!Way(y)
    BY DEF C!Way
  <2>2. Undisturbed' => Undisturbed
    BY DEF Undisturbed
  <2>3. QED
    BY <2>1, <2>2, ChatFacts DEF ChatRelayed
<1>10. QED
  BY <1>4, <1>6, <1>7, <1>8, <1>9 DEF TalkIInv, ChatInv

(* The server has relayed the message that it held.                         *)
LEMMA ServerPuts ==
  ASSUME TalkIInv, cProgram = "chat", at["server"] = "relay", C!Puts(C!To, buf[1]), buf' = <<>>,
         C!Goes("server", "read"), UNCHANGED <<C!choices, cN, cShown, C!chatVars>>
  PROVE  TalkIInv'
<1>1. /\ {"parent", "child", "server"} \subseteq C!Procs /\ C!Clients = {"a", "b"} /\ "server" \notin C!Clients
      /\ C!Clients \subseteq C!Procs /\ C!Clients \subseteq C!Pipes /\ {"server", "p1", "p2"} \subseteq C!Pipes
      /\ "p1" \notin C!Clients /\ "p2" \notin C!Clients
  BY Names
<1>2. UNCHANGED <<exists, deaf, fds, sent, lost, killed, cProgram>>
  BY DEF C!chatVars, C!choices
<1>3. at' \in [C!Procs -> Places] /\ at'["server"] = "read" /\ \A p \in C!Procs \ {"server"} : at'[p] = at[p]
  BY <1>1, ChatFacts, GoesEffect DEF Places
<1>4. PICK m \in Posts : m = buf[1] /\ buf = <<m>> /\ Hand = 1
  BY InHand
<1>5. PICK d \in C!Clients : d = C!To /\ d = m.to
  BY <1>4, ChatFacts DEF ChatPlaces, C!To
<1>6. /\ cPipe' \in [C!Pipes -> Seq(Posts)] /\ Has(d)' = Has(d) + 1
      /\ \A q \in C!Pipes \ {d} : cPipe'[q] = cPipe[q] /\ Has(q)' = Has(q)
      /\ cPipe'[d] = Append(cPipe[d], m)
  <2>1. Items' = Posts /\ Items = Posts
    BY <1>2, ChatFacts DEF Items, Posts
  <2>2. C!Puts(d, m) /\ d \in C!Pipes
    BY <1>1, <1>4, <1>5
  <2>3. QED
    BY <1>2, <2>1, <2>2, ChatFacts, PutsEffect
<1>7. buf' \in Seq(Posts) /\ Hand' = 0
  BY DEF Hand
<1>8. TalkTypes' /\ Unused' /\ EmailInv' /\ RoundsInv' /\ FilterInv'
  <2>1. StillChat
    BY <1>1, <1>2, <1>3, <1>6, <1>7, ChatFacts DEF StillChat
  <2>2. QED
    BY <2>1, ChatFacts, ChatFrame
<1>9. \A c \in C!Clients : Printed(c)' = Printed(c)
  BY <1>1, SameLengths
<1>10. ChatPlaces'
  <2>1. \A c \in C!Clients : at'[c] = at[c] /\ cN'[c] = cN[c]
    BY <1>1, <1>3
  <2>2. \A c \in C!Clients : /\ at'[c] \in {"start", "open", "first", "own", "read", "type", "ended", "killed"}
                            /\ cN'[c] <= MaxLines /\ (at'[c] = "type" => Printed(c)' > 0)
    BY <1>9, <2>1, ChatFacts DEF ChatPlaces
  <2>3. QED
    BY <1>3, <1>7, <2>2 DEF ChatPlaces
<1>11. ChatCounts'
  <2>1. /\ Has("server") + Has("a") + Has("b") + Hand <= cN["a"] + cN["b"]
        /\ Printed("a") + Has("a") + Printed("b") + Has("b") + 1 <= fds
    BY ChatFacts DEF ChatCounts
  <2>2. Printed("a")' = Printed("a") /\ Printed("b")' = Printed("b") /\ Has("server")' = Has("server")
    BY <1>1, <1>6, <1>9
  <2>3. \/ Has("a")' = Has("a") + 1 /\ Has("b")' = Has("b")
        \/ Has("a")' = Has("a") /\ Has("b")' = Has("b") + 1
    BY <1>1, <1>6
  <2>4. /\ Has("server")' + Has("a")' + Has("b")' + Hand' <= cN["a"] + cN["b"]
        /\ Printed("a")' + Has("a")' + Printed("b")' + Has("b")' + 0 <= fds
    BY <1>4, <1>7, <2>1, <2>2, <2>3, ChatNumbers, SMTT(30)
  <2>5. QED
    BY <1>2, <1>3, <2>4 DEF ChatCounts
<1>12. ChatKnown'
  <2>1. cPipe'["server"] = cPipe["server"]
    BY <1>1, <1>6
  <2>2. QED
    BY <1>2, <2>1, ChatFacts DEF ChatKnown, Known
<1>13. ChatRelayed'
  <2>1. ASSUME NEW y \in C!Clients, NEW x \in C!Clients, Undisturbed'
        PROVE  Relayed(C!Way(y)', sent', lost', x, y)
    <3>1. PICK s \in Seq(Posts), p \in Seq(Posts), q \in Seq(Posts) :
            s = cShown[y] /\ p = cPipe[y] /\ q = cPipe["server"]
      BY <1>1, ChatFacts
    <3>2. PICK u \in Seq(Posts) : u = s \o p
      BY ConcatProperties
    <3>3. C!Way(y) = (u \o <<m>>) \o q
      BY <1>4, <3>1, <3>2 DEF C!Way
    <3>4. Relayed((u \o <<m>>) \o q, sent, lost, x, y)
      <4>1. Undisturbed
        BY <1>2, <2>1 DEF Undisturbed
      <4>2. QED
        BY <3>3, <4>1, ChatFacts DEF ChatRelayed
    <3>5. cPipe'["server"] = q /\ cShown'[y] = s
      BY <1>1, <1>6, <3>1
    <3>6. CASE y = d
      <4>1. cPipe'[y] = Append(p, m)
        BY <1>6, <3>1, <3>6
      <4>2. C!Way(y)' = (s \o Append(p, m)) \o <<>> \o q
        BY <3>5, <4>1 DEF C!Way
      <4>3. C!Way(y)' = (u \o <<m>>) \o q
        BY <3>2, <4>2, MoveToClient
      <4>4. QED
        BY <1>2, <3>4, <4>3
    <3>7. CASE y # d
      <4>1. cPipe'[y] = p
        BY <1>1, <1>6, <3>1, <3>7
      <4>2. u \o <<>> = u
        BY ConcatEmptySeq
      <4>3. C!Way(y)' = u \o q
        BY <3>2, <3>5, <4>1, <4>2 DEF C!Way
      <4>4. Relayed(u \o q, sent, lost, x, y)
        BY <1>5, <3>4, <3>7, ChatFacts, Dropped
      <4>5. QED
        BY <1>2, <4>3, <4>4
    <3>8. QED
      BY <3>6, <3>7
  <2>2. QED
    BY <2>1 DEF ChatRelayed
<1>14. QED
  BY <1>8, <1>10, <1>11, <1>12, <1>13 DEF TalkIInv, ChatInv

(* A client shows the next message of its FIFO.                             *)
LEMMA ClientShows ==
  ASSUME TalkIInv, cProgram = "chat", NEW c \in C!Clients, C!ClientReads(c)
  PROVE  TalkIInv'
<1>1. /\ {"parent", "child", "server"} \subseteq C!Procs /\ C!Clients = {"a", "b"} /\ "server" \notin C!Clients
      /\ C!Clients \subseteq C!Procs /\ C!Clients \subseteq C!Pipes /\ {"server", "p1", "p2"} \subseteq C!Pipes
      /\ "p1" \notin C!Clients /\ "p2" \notin C!Clients /\ c \in C!Procs /\ c \in C!Pipes
      /\ "parent" \notin C!Clients /\ "child" \notin C!Clients
  BY Names
<1>2. UNCHANGED <<exists, deaf, fds, sent, lost, killed, cProgram, cN, buf>> /\ UNCHANGED C!choices
  BY DEF C!chatVars, C!choices, C!ClientReads
<1>3. at' \in [C!Procs -> Places] /\ at'[c] = "type" /\ \A p \in C!Procs \ {c} : at'[p] = at[p]
  BY <1>1, ChatFacts, GoesEffect DEF Places, C!ClientReads
<1>4. Items' = Posts /\ Items = Posts
  BY <1>2, ChatFacts DEF Items, Posts
<1>5. /\ cPipe' \in [C!Pipes -> Seq(Posts)] /\ Has(c) >= 1 /\ Has(c)' = Has(c) - 1
      /\ \A q \in C!Pipes \ {c} : cPipe'[q] = cPipe[q] /\ Has(q)' = Has(q)
      /\ cPipe'[c] = Tail(cPipe[c]) /\ cPipe[c] # <<>> /\ Head(cPipe[c]) \in Posts
  BY <1>1, <1>2, <1>4, ChatFacts, TakesEffect DEF C!ClientReads
<1>6. /\ cShown' \in [C!Procs -> Seq(Posts)] /\ Printed(c)' = Printed(c) + 1
      /\ \A p \in C!Procs \ {c} : cShown'[p] = cShown[p] /\ Printed(p)' = Printed(p)
      /\ cShown'[c] = Append(cShown[c], Head(cPipe[c]))
  BY <1>1, <1>2, <1>4, <1>5, ChatFacts, ShowsEffect DEF C!ClientReads
<1>7. Hand' = Hand
  BY <1>2, SameLengths
<1>8. TalkTypes' /\ Unused' /\ EmailInv' /\ RoundsInv' /\ FilterInv'
  <2>1. /\ at'["parent"] = at["parent"] /\ at'["child"] = at["child"]
        /\ cPipe'["p1"] = cPipe["p1"] /\ cPipe'["p2"] = cPipe["p2"]
    BY <1>1, <1>3, <1>5
  <2>2. StillChat
    BY <1>2, <1>3, <1>5, <1>6, <2>1, ChatFacts DEF StillChat
  <2>3. QED
    BY <2>2, ChatFacts, ChatFrame
<1>9. at'["server"] = at["server"]
  BY <1>1, <1>3
<1>10. ChatPlaces'
  <2>1. \A e \in C!Clients \ {c} : at'[e] = at[e] /\ cN'[e] = cN[e] /\ Printed(e)' = Printed(e)
    BY <1>1, <1>2, <1>3, <1>6
  <2>2. \A e \in C!Clients \ {c} :
             /\ at'[e] \in {"start", "open", "first", "own", "read", "type", "ended", "killed"}
             /\ cN'[e] <= MaxLines /\ (at'[e] = "type" => Printed(e)' > 0)
    BY <2>1, ChatFacts DEF ChatPlaces
  <2>3. at'[c] = "type" /\ cN'[c] <= MaxLines /\ Printed(c)' > 0
    BY <1>2, <1>3, <1>6, ChatFacts DEF ChatPlaces
  <2>4. \A e \in C!Clients :
             /\ at'[e] \in {"start", "open", "first", "own", "read", "type", "ended", "killed"}
             /\ cN'[e] <= MaxLines /\ (at'[e] = "type" => Printed(e)' > 0)
    BY <2>2, <2>3
  <2>5. QED
    BY <1>2, <1>7, <1>9, <2>4, ChatFacts DEF ChatPlaces
<1>11. ChatCounts'
  <2>1. /\ Has("server") + Has("a") + Has("b") + Hand <= cN["a"] + cN["b"]
        /\ Printed("a") + Has("a") + Printed("b") + Has("b") + (IF at["server"] = "relay" THEN 1 ELSE 0) <= fds
    BY ChatFacts DEF ChatCounts
  <2>2. Has("server")' = Has("server")
    BY <1>1, <1>5
  <2>3. \/ /\ Has("a")' = Has("a") - 1 /\ Printed("a")' = Printed("a") + 1
           /\ Has("b")' = Has("b") /\ Printed("b")' = Printed("b")
        \/ /\ Has("b")' = Has("b") - 1 /\ Printed("b")' = Printed("b") + 1
           /\ Has("a")' = Has("a") /\ Printed("a")' = Printed("a")
    BY <1>1, <1>5, <1>6
  <2>4. /\ Has("server")' + Has("a")' + Has("b")' + Hand' <= cN["a"] + cN["b"]
        /\ Printed("a")' + Has("a")' + Printed("b")' + Has("b")' = Printed("a") + Has("a") + Printed("b") + Has("b")
    BY <1>7, <2>1, <2>2, <2>3, ChatNumbers
  <2>5. QED
    BY <1>2, <1>9, <2>1, <2>4 DEF ChatCounts
<1>12. ChatKnown'
  <2>1. cPipe'["server"] = cPipe["server"]
    BY <1>1, <1>5
  <2>2. QED
    BY <1>2, <2>1, ChatFacts DEF ChatKnown
<1>13. ChatRelayed'
  <2>1. ASSUME NEW y \in C!Clients PROVE C!Way(y)' = C!Way(y)
    <3>1. cPipe'["server"] = cPipe["server"]
      BY <1>1, <1>5
    <3>2. cShown'[y] \o cPipe'[y] = cShown[y] \o cPipe[y]
      <4>1. CASE y = c
        <5>1. PICK s \in Seq(Posts), p \in Seq(Posts) : s = cShown[c] /\ p = cPipe[c]
          BY <1>1, ChatFacts
        <5>2. Append(s, Head(p)) \o Tail(p) = s \o p
          BY <1>5, <5>1, MoveToScreen
        <5>3. QED
          BY <1>5, <1>6, <4>1, <5>1, <5>2
      <4>2. CASE y # c
        BY <1>1, <1>5, <1>6, <4>2
      <4>3. QED
        BY <4>1, <4>2
    <3>3. QED
      BY <1>2, <3>1, <3>2 DEF C!Way
  <2>2. Undisturbed' => Undisturbed
    BY <1>2, <1>9 DEF Undisturbed
  <2>3. QED
    BY <1>2, <2>1, <2>2, ChatFacts DEF ChatRelayed
<1>14. QED
  BY <1>8, <1>10, <1>11, <1>12, <1>13 DEF TalkIInv, ChatInv

(* What was sent has a sender, and a number that was typed.                  *)
LEMMA SentFacts ==
  ASSUME TalkIInv, cProgram = "chat"
  PROVE  \A l \in DOMAIN sent : /\ sent[l] \in Posts /\ sent[l].from \in C!Procs /\ sent[l].n \in Nat
                                /\ sent[l].n <= cN[sent[l].from]
<1>1. PICK s \in Seq(Posts) : s = sent
  BY ChatFacts
<1>2. \A l \in DOMAIN s : s[l] \in Posts
  OBVIOUS
<1>3. \A m \in Posts : m.from \in C!Procs /\ m.n \in Nat
  BY Names DEF Posts
<1>4. \A l \in DOMAIN sent : sent[l].n <= cN[sent[l].from]
  BY ChatFacts DEF ChatKnown
<1>5. QED
  BY <1>1, <1>2, <1>3, <1>4

(* A client that is killed leaves an empty FIFO.                            *)
LEMMA ClientDies ==
  ASSUME TalkIInv, cProgram = "chat", NEW c \in C!Clients, C!Kill(c)
  PROVE  TalkIInv'
<1>1. /\ {"parent", "child", "server"} \subseteq C!Procs /\ C!Clients = {"a", "b"} /\ "server" \notin C!Clients
      /\ C!Clients \subseteq C!Procs /\ C!Clients \subseteq C!Pipes /\ {"server", "p1", "p2"} \subseteq C!Pipes
      /\ "p1" \notin C!Clients /\ "p2" \notin C!Clients /\ "parent" \notin C!Clients /\ "child" \notin C!Clients
  BY Names
<1>2. UNCHANGED <<C!choices, cN, cShown, buf, exists, deaf, fds, sent, lost>> /\ killed' = {c}
  BY DEF C!Kill
<1>3. at' \in [C!Procs -> Places] /\ at'[c] = "killed" /\ \A p \in C!Procs \ {c} : at'[p] = at[p]
  BY <1>1, ChatFacts, GoesEffect DEF Places, C!Kill
<1>4. /\ cPipe' \in [C!Pipes -> Seq(Posts)] /\ Has(c)' = 0
      /\ \A q \in C!Pipes \ {c} : cPipe'[q] = cPipe[q] /\ Has(q)' = Has(q)
  <2>1. cPipe \in [C!Pipes -> Seq(Posts)] /\ cPipe' = [cPipe EXCEPT ![c] = <<>>]
    BY ChatFacts DEF C!Kill
  <2>2. QED
    BY <1>1, <2>1 DEF Has
<1>5. at'["server"] = at["server"] /\ at'["parent"] = at["parent"] /\ at'["child"] = at["child"]
  BY <1>1, <1>3
<1>6. TalkTypes' /\ Unused' /\ EmailInv' /\ RoundsInv' /\ FilterInv'
  <2>1. cPipe'["p1"] = cPipe["p1"] /\ cPipe'["p2"] = cPipe["p2"] /\ killed' \subseteq C!Clients
    BY <1>1, <1>2, <1>4
  <2>2. StillChat
    BY <1>2, <1>3, <1>4, <1>5, <2>1, ChatFacts DEF StillChat
  <2>3. QED
    BY <2>2, ChatFacts, ChatFrame
<1>7. Hand' = Hand /\ \A e \in C!Clients : Printed(e)' = Printed(e)
  BY <1>1, <1>2, SameLengths
<1>8. ChatPlaces'
  <2>1. \A e \in C!Clients : at'[e] \in {at[e], "killed"} /\ cN'[e] = cN[e] /\ Printed(e)' = Printed(e)
    BY <1>1, <1>2, <1>3, <1>7
  <2>2. \A e \in C!Clients :
             /\ at'[e] \in {"start", "open", "first", "own", "read", "type", "ended", "killed"}
             /\ cN'[e] <= MaxLines /\ (at'[e] = "type" => Printed(e)' > 0)
    BY <2>1, ChatFacts DEF ChatPlaces
  <2>3. QED
    BY <1>2, <1>5, <1>7, <2>2, ChatFacts DEF ChatPlaces
<1>9. ChatCounts'
  <2>1. /\ Has("server") + Has("a") + Has("b") + Hand <= cN["a"] + cN["b"]
        /\ Printed("a") + Has("a") + Printed("b") + Has("b") + (IF at["server"] = "relay" THEN 1 ELSE 0) <= fds
    BY ChatFacts DEF ChatCounts
  <2>2. Has("server")' = Has("server") /\ Printed("a")' = Printed("a") /\ Printed("b")' = Printed("b")
    BY <1>1, <1>4, <1>7
  <2>3. \/ Has("a")' = 0 /\ Has("b")' = Has("b")
        \/ Has("a")' = Has("a") /\ Has("b")' = 0
    BY <1>1, <1>4
  <2>4. Has("server")' + Has("a")' + Has("b")' + Hand' <= cN["a"] + cN["b"]
    BY <1>7, <2>1, <2>2, <2>3, ChatNumbers
  <2>5. CASE at["server"] = "relay"
    <3>1. Printed("a")' + Has("a")' + Printed("b")' + Has("b")' + 1 <= fds
      BY <2>1, <2>2, <2>3, <2>5, ChatNumbers
    <3>2. QED
      BY <1>2, <1>5, <2>4, <2>5, <3>1 DEF ChatCounts
  <2>6. CASE at["server"] # "relay"
    <3>1. Printed("a")' + Has("a")' + Printed("b")' + Has("b")' + 0 <= fds
      BY <2>1, <2>2, <2>3, <2>6, ChatNumbers
    <3>2. QED
      BY <1>2, <1>5, <2>4, <2>6, <3>1 DEF ChatCounts
  <2>7. QED
    BY <2>5, <2>6
<1>10. ChatKnown'
  <2>1. cPipe'["server"] = cPipe["server"]
    BY <1>1, <1>4
  <2>2. QED
    BY <1>2, <2>1, ChatFacts DEF ChatKnown
<1>11. ChatRelayed'
  BY <1>2 DEF ChatRelayed, Undisturbed
<1>12. QED
  BY <1>6, <1>8, <1>9, <1>10, <1>11 DEF TalkIInv, ChatInv

(* A client has typed a line: it is sent, or it goes nowhere.               *)
LEMMA ClientWrites ==
  ASSUME TalkIInv, cProgram = "chat", NEW c \in C!Clients, NEW y \in C!Clients \cup {"nobody"},
         NEW next \in {"own", "read"}, C!Writes(c, y, next),
         UNCHANGED <<C!choices, cShown, buf, exists, deaf, fds, lost, killed>>
  PROVE  TalkIInv'
<1>1. /\ {"parent", "child", "server"} \subseteq C!Procs /\ C!Clients = {"a", "b"} /\ "server" \notin C!Clients
      /\ C!Clients \subseteq C!Procs /\ C!Clients \subseteq C!Pipes /\ {"server", "p1", "p2"} \subseteq C!Pipes
      /\ "p1" \notin C!Clients /\ "p2" \notin C!Clients /\ "parent" \notin C!Clients /\ "child" \notin C!Clients
  BY Names
<1>2. /\ cN[c] < MaxLines /\ cN' \in [C!Procs -> Nat] /\ cN'[c] = cN[c] + 1
      /\ \A p \in C!Procs \ {c} : cN'[p] = cN[p]
  BY <1>1, ChatFacts, TurnsEffect DEF C!Writes
<1> DEFINE m == C!Message(c, y, cN[c] + 1)
<1>3. m \in Posts /\ m.from = c /\ m.n = cN[c] + 1
  <2>1. cN[c] + 1 \in Nat
    <3>1. cN[c] \in Nat
      BY ChatFacts
    <3>2. QED
      BY <3>1
  <2>2. QED
    BY <2>1 DEF C!Message, Posts
<1>4. /\ C!Goes(c, next) \/ C!Goes(c, "killed")
      /\ (UNCHANGED <<cPipe, sent>>) \/ (C!Puts("server", m) /\ sent' = Append(sent, m))
  BY DEF C!Writes
<1> HIDE DEF m
<1>5. at' \in [C!Procs -> Places] /\ at'[c] \in {"own", "read", "killed"} /\ \A p \in C!Procs \ {c} : at'[p] = at[p]
  <2>1. {"own", "read", "killed"} \subseteq Places /\ c \in C!Procs
    BY <1>1 DEF Places
  <2>2. QED
    BY <1>4, <2>1, ChatFacts, GoesEffect
<1>6. at'["server"] = at["server"] /\ at'["parent"] = at["parent"] /\ at'["child"] = at["child"]
  BY <1>1, <1>5
<1>7. Hand' = Hand /\ \A e \in C!Clients : Printed(e)' = Printed(e)
  BY <1>1, SameLengths
<1>8. ChatPlaces'
  <2>1. \A e \in C!Clients \ {c} : at'[e] = at[e] /\ cN'[e] = cN[e] /\ Printed(e)' = Printed(e)
    BY <1>1, <1>2, <1>5, <1>7
  <2>2. \A e \in C!Clients \ {c} :
             /\ at'[e] \in {"start", "open", "first", "own", "read", "type", "ended", "killed"}
             /\ cN'[e] <= MaxLines /\ (at'[e] = "type" => Printed(e)' > 0)
    BY <2>1, ChatFacts DEF ChatPlaces
  <2>3. cN'[c] <= MaxLines
    <3>1. cN[c] \in Nat
      BY ChatFacts
    <3>2. QED
      BY <1>2, <3>1, TalkAssumption
  <2>4. \A e \in C!Clients :
             /\ at'[e] \in {"start", "open", "first", "own", "read", "type", "ended", "killed"}
             /\ cN'[e] <= MaxLines /\ (at'[e] = "type" => Printed(e)' > 0)
    BY <1>5, <2>2, <2>3
  <2>5. QED
    BY <1>6, <1>7, <2>4, ChatFacts DEF ChatPlaces
<1>9. /\ Has("server") + Has("a") + Has("b") + Hand + 1 <= cN'["a"] + cN'["b"]
      /\ Printed("a") + Has("a") + Printed("b") + Has("b") + (IF at["server"] = "relay" THEN 1 ELSE 0) <= fds
      /\ Printed("a")' = Printed("a") /\ Printed("b")' = Printed("b")
  <2>1. /\ Has("server") + Has("a") + Has("b") + Hand <= cN["a"] + cN["b"]
        /\ Printed("a") + Has("a") + Printed("b") + Has("b") + (IF at["server"] = "relay" THEN 1 ELSE 0) <= fds
    BY ChatFacts DEF ChatCounts
  <2>2. \/ cN'["a"] = cN["a"] + 1 /\ cN'["b"] = cN["b"]
        \/ cN'["a"] = cN["a"] /\ cN'["b"] = cN["b"] + 1
    BY <1>1, <1>2
  <2>3. Has("server") + Has("a") + Has("b") + Hand + 1 <= cN'["a"] + cN'["b"]
    BY <2>1, <2>2, ChatNumbers
  <2>4. QED
    BY <1>1, <1>7, <2>1, <2>3
<1>10. \A p \in C!Procs : cN[p] <= cN'[p]
  <2>1. \A p \in C!Procs : cN[p] \in Nat
    BY ChatFacts
  <2>2. QED
    BY <1>1, <1>2, <2>1
<1>11. CASE UNCHANGED <<cPipe, sent>>
  <2>1. TalkTypes' /\ Unused' /\ EmailInv' /\ RoundsInv' /\ FilterInv'
    <3>1. StillChat
      BY <1>2, <1>5, <1>6, <1>11, ChatFacts DEF StillChat
    <3>2. QED
      BY <3>1, ChatFacts, ChatFrame
  <2>2. ChatCounts'
    <3>1. Has("a")' = Has("a") /\ Has("b")' = Has("b") /\ Has("server")' = Has("server")
      BY <1>1, <1>11, SameLengths
    <3>2. Has("server")' + Has("a")' + Has("b")' + Hand' <= cN'["a"] + cN'["b"]
      <4>1. cN'["a"] \in Nat /\ cN'["b"] \in Nat
        BY <1>1, <1>2
      <4>2. QED
        BY <1>7, <1>9, <3>1, <4>1, ChatNumbers
    <3>3. Printed("a")' + Has("a")' + Printed("b")' + Has("b")' + (IF at'["server"] = "relay" THEN 1 ELSE 0) <= fds'
      BY <1>6, <1>9, <3>1
    <3>4. QED
      BY <3>2, <3>3 DEF ChatCounts
  <2>3. ChatKnown'
    <3>1. \A l \in DOMAIN sent : sent[l].from \in C!Procs /\ sent[l].n \in Nat
      BY SentFacts
    <3>2. \A l \in DOMAIN sent : sent[l].n <= cN[sent[l].from]
      BY SentFacts
    <3>3. \A p \in C!Procs : cN[p] \in Nat /\ cN'[p] \in Nat
      BY <1>2, ChatFacts
    <3>4. \A l \in DOMAIN sent : sent[l].n <= cN'[sent[l].from]
      BY <1>10, <3>1, <3>2, <3>3
    <3>5. QED
      BY <1>11, <3>4, ChatFacts DEF ChatKnown
  <2>4. ChatRelayed'
    <3>1. \A e \in C!Clients : C!Way(e)' = C!Way(e)
      BY <1>11 DEF C!Way
    <3>2. Undisturbed' => Undisturbed
      BY <1>6 DEF Undisturbed
    <3>3. QED
      BY <1>11, <3>1, <3>2, ChatFacts DEF ChatRelayed
  <2>5. QED
    BY <1>8, <2>1, <2>2, <2>3, <2>4 DEF TalkIInv, ChatInv
<1>12. CASE C!Puts("server", m) /\ sent' = Append(sent, m)
  <2>1. /\ cPipe' \in [C!Pipes -> Seq(Posts)] /\ Has("server")' = Has("server") + 1
        /\ \A q \in C!Pipes \ {"server"} : cPipe'[q] = cPipe[q] /\ Has(q)' = Has(q)
        /\ cPipe'["server"] = Append(cPipe["server"], m)
    <3>1. cProgram' = cProgram
      BY DEF C!choices
    <3>2. Items' = Posts /\ Items = Posts
      BY <3>1, ChatFacts DEF Items, Posts
    <3>3. QED
      BY <1>1, <1>3, <1>12, <3>1, <3>2, ChatFacts, PutsEffect
  <2>2. /\ sent' \in Seq(Posts) /\ Len(sent) + 1 \in DOMAIN sent' /\ sent'[Len(sent) + 1] = m
        /\ \A l \in DOMAIN sent : l \in DOMAIN sent' /\ sent'[l] = sent[l]
        /\ \A l \in DOMAIN sent' : \/ l \in DOMAIN sent /\ sent'[l] = sent[l]
                                   \/ sent'[l] = m
    <3>1. PICK s \in Seq(Posts) : s = sent
      BY ChatFacts
    <3>2. QED
      BY <1>3, <1>12, <3>1, Longer
  <2>3. TalkTypes' /\ Unused' /\ EmailInv' /\ RoundsInv' /\ FilterInv'
    <3>1. lost' \subseteq C!Range(sent')
      BY <2>2, ChatFacts DEF C!Range
    <3>2. cPipe'["p1"] = cPipe["p1"] /\ cPipe'["p2"] = cPipe["p2"]
      BY <1>1, <2>1
    <3>3. StillChat
      BY <1>2, <1>5, <1>6, <2>1, <2>2, <3>1, <3>2, ChatFacts DEF StillChat
    <3>4. QED
      BY <3>3, ChatFacts, ChatFrame
  <2>4. ChatCounts'
    <3>1. Has("a")' = Has("a") /\ Has("b")' = Has("b")
      BY <1>1, <2>1
    <3>2. Has("server")' + Has("a")' + Has("b")' + Hand' <= cN'["a"] + cN'["b"]
      <4>1. cN'["a"] \in Nat /\ cN'["b"] \in Nat
        BY <1>1, <1>2
      <4>2. QED
        BY <1>7, <1>9, <2>1, <3>1, <4>1, ChatNumbers
    <3>3. Printed("a")' + Has("a")' + Printed("b")' + Has("b")' + (IF at'["server"] = "relay" THEN 1 ELSE 0) <= fds'
      BY <1>6, <1>9, <3>1
    <3>4. QED
      BY <3>2, <3>3 DEF ChatCounts
  <2>5. \A l \in DOMAIN sent : /\ sent[l] \in Posts /\ sent[l].from \in C!Procs /\ sent[l].n \in Nat
                               /\ sent[l].n <= cN[sent[l].from]
    BY SentFacts
  <2>6. \A l \in DOMAIN sent : sent[l].from = m.from => sent[l].n < m.n
    <3>1. cN[c] \in Nat
      BY <1>1, ChatFacts
    <3>2. QED
      BY <1>3, <2>5, <3>1
  <2>7. ChatKnown'
    <3>1. Known(cPipe["server"], sent) /\ Known(buf, sent)
      BY ChatFacts DEF ChatKnown
    <3>2. Known(buf', sent')
      BY <2>2, <3>1 DEF Known
    <3>3. Known(cPipe'["server"], sent')
      <4>1. PICK q \in Seq(Posts) : q = cPipe["server"]
        BY <1>1, ChatFacts
      <4>2. \A k \in DOMAIN Append(q, m) :
              \/ k \in DOMAIN q /\ Append(q, m)[k] = q[k]
              \/ Append(q, m)[k] = m
        BY <1>3, Longer
      <4>3. Known(Append(q, m), sent')
        BY <2>2, <3>1, <4>1, <4>2 DEF Known
      <4>4. QED
        BY <2>1, <4>1, <4>3
    <3>4. \A l \in DOMAIN sent' : sent'[l].n <= cN'[sent'[l].from]
      <4>1. ASSUME NEW l \in DOMAIN sent, sent'[l] = sent[l] PROVE sent'[l].n <= cN'[sent'[l].from]
        <5>1. sent[l].from \in C!Procs /\ sent[l].n \in Nat /\ sent[l].n <= cN[sent[l].from]
          BY <2>5
        <5>2. cN[sent[l].from] \in Nat /\ cN'[sent[l].from] \in Nat /\ cN[sent[l].from] <= cN'[sent[l].from]
          BY <1>2, <1>10, <5>1, ChatFacts
        <5>3. QED
          BY <4>1, <5>1, <5>2
      <4>2. cN'[c] \in Nat /\ m.n <= cN'[m.from]
        BY <1>1, <1>2, <1>3
      <4>3. QED
        BY <2>2, <4>1, <4>2
    <3>5. QED
      BY <3>2, <3>3, <3>4 DEF ChatKnown
  <2>8. m \notin lost
    <3>1. \A l \in DOMAIN sent : sent[l] # m
      <4>1. m.n \in Nat
        BY <1>3 DEF Posts
      <4>2. QED
        BY <2>6, <4>1
    <3>2. QED
      BY <3>1, ChatFacts DEF C!Range
  <2>9. ChatRelayed'
    <3>1. ASSUME NEW z \in C!Clients, NEW x \in C!Clients, Undisturbed'
          PROVE  Relayed(C!Way(z)', sent', lost', x, z)
      <4>1. PICK u \in Seq(Posts), q \in Seq(Posts) :
              u = (cShown[z] \o cPipe[z]) \o buf /\ q = cPipe["server"]
        <5>1. cShown[z] \in Seq(Posts) /\ cPipe[z] \in Seq(Posts) /\ buf \in Seq(Posts) /\ cPipe["server"] \in Seq(Posts)
          BY <1>1, ChatFacts
        <5>2. cShown[z] \o cPipe[z] \in Seq(Posts)
          BY <5>1, ConcatProperties
        <5>3. (cShown[z] \o cPipe[z]) \o buf \in Seq(Posts)
          BY <5>1, <5>2, ConcatProperties
        <5>4. QED
          BY <5>1, <5>3
      <4>2. C!Way(z) = u \o q
        BY <4>1 DEF C!Way
      <4>3. C!Way(z)' = u \o Append(q, m)
        <5>1. cPipe'[z] = cPipe[z]
          BY <1>1, <2>1
        <5>2. QED
          BY <2>1, <4>1, <5>1 DEF C!Way
      <4>4. Relayed(u \o q, sent, lost, x, z) /\ u \o q \in Seq(Posts)
        <5>1. Undisturbed
          BY <1>6, <3>1 DEF Undisturbed
        <5>2. u \o q \in Seq(Posts)
          BY ConcatProperties
        <5>3. QED
          BY <4>2, <5>1, <5>2, ChatFacts DEF ChatRelayed
      <4>5. Relayed(Append(u \o q, m), Append(sent, m), lost, x, z)
        BY <1>3, <2>6, <2>8, <4>4, ChatFacts, Added
      <4>6. u \o Append(q, m) = Append(u \o q, m)
        BY <1>3, SentLast
      <4>7. QED
        BY <1>12, <4>3, <4>5, <4>6
    <3>2. QED
      BY <3>1 DEF ChatRelayed
  <2>10. QED
    BY <1>8, <2>3, <2>4, <2>7, <2>9 DEF TalkIInv, ChatInv
<1>13. QED
  BY <1>4, <1>11, <1>12

(* Each step of the chat, by the lemmas above.                              *)
LEMMA ChatStep ==
  ASSUME TalkIInv, cProgram = "chat", C!Next
  PROVE  TalkIInv'
<1>1. CASE C!ServerReads
  BY <1>1, ServerTakes, ServerEnds DEF C!ServerReads
<1>2. CASE C!ServerOpensDest
  <2>1. at["server"] = "dest" /\ UNCHANGED <<C!choices, cN, cPipe, cShown, exists, deaf, sent, killed>>
    BY <1>2 DEF C!ServerOpensDest
  <2>2. CASE /\ C!To \in exists /\ fds < MaxFds /\ C!ReadsOwn(C!To) /\ fds' = fds + 1 /\ UNCHANGED <<buf, lost>>
             /\ at' = [at EXCEPT !["server"] = "relay", ![C!To] = IF @ = "own" THEN "read" ELSE @]
    BY <2>1, <2>2, ServerOpensFifo
  <2>3. CASE lost' = lost \cup {buf[1]} /\ buf' = <<>> /\ C!Goes("server", "read") /\ UNCHANGED fds
    BY <2>1, <2>3, ServerLoses
  <2>4. QED
    BY <1>2, <2>2, <2>3 DEF C!ServerOpensDest
<1>3. CASE C!ServerRelays
  <2>1. at["server"] = "relay" /\ UNCHANGED <<C!choices, cN, cShown, C!chatVars>>
    BY <1>3 DEF C!ServerRelays
  <2>2. CASE C!Goes("server", "killed") /\ UNCHANGED <<cPipe, buf>>
    <3>1. /\ {"parent", "child", "server"} \subseteq C!Procs /\ C!Clients = {"a", "b"} /\ C!Clients \subseteq C!Procs
      BY Names
    <3>2. UNCHANGED <<exists, deaf, fds, sent, lost, killed>>
      BY <2>1 DEF C!chatVars
    <3>3. at' \in [C!Procs -> Places] /\ at'["server"] = "killed" /\ \A p \in C!Procs \ {"server"} : at'[p] = at[p]
      BY <2>2, <3>1, ChatFacts, GoesEffect DEF Places
    <3>4. (\A c \in C!Clients : Printed(c)' = Printed(c)) /\ Hand' = Hand
      BY <2>1, <2>2, <3>1, SameLengths
    <3>5. ChatPlaces'
      <4>1. \A c \in C!Clients : at'[c] = at[c] /\ cN'[c] = cN[c] /\ Printed(c)' = Printed(c)
        BY <2>1, <3>1, <3>3, <3>4
      <4>2. Hand' = 1
        BY <2>1, <3>4, ChatFacts DEF ChatPlaces
      <4>3. QED
        BY <3>3, <4>1, <4>2, ClientsStay DEF ChatPlaces
    <3>6. QED
      BY <2>1, <2>2, <3>1, <3>2, <3>3, <3>5, ChatFacts, NothingMoves
  <2>3. CASE C!Puts(C!To, buf[1]) /\ buf' = <<>> /\ C!Goes("server", "read")
    BY <2>1, <2>3, ServerPuts
  <2>4. QED
    BY <1>3, <2>2, <2>3 DEF C!ServerRelays
<1>4. ASSUME NEW c \in C!Clients, C!FirstMessage(c) PROVE TalkIInv'
  BY <1>4, ClientWrites DEF C!FirstMessage
<1>5. ASSUME NEW c \in C!Clients, C!Reply(c) PROVE TalkIInv'
  <2>1. PICK s \in Seq(Posts) : s = cShown[c]
    BY Names, ChatFacts
  <2>2. Len(s) > 0
    BY <1>5, <2>1, ChatFacts DEF ChatPlaces, Printed, C!Reply
  <2>3. s[Len(s)] \in Posts
    BY <2>2
  <2>4. C!Last(s).from \in C!Clients
    BY <2>3 DEF C!Last, Posts
  <2>5. QED
    BY <1>5, <2>1, <2>4, ClientWrites DEF C!Reply
<1>6. QED
  BY <1>1, <1>2, <1>3, <1>4, <1>5, ChatCases, QuietSteps, ClientShows, ClientDies

-----------------------------------------------------------------------------
(* At the start nothing is under way.                                       *)
LEMMA Start == C!Init => TalkIInv
<1> SUFFICES ASSUME C!Init PROVE TalkIInv
  OBVIOUS
<1>1. /\ \A p \in C!Pipes : Has(p) = 0
      /\ \A p \in C!Procs : Printed(p) = 0
      /\ Hand = 0 /\ Len(sent) = 0
  BY DEF C!Init, Has, Printed, Hand
<1>2. C!Clients \subseteq C!Pipes /\ "p1" \in C!Pipes /\ "p2" \in C!Pipes /\ "server" \in C!Pipes
      /\ C!Clients \subseteq C!Procs /\ "parent" \in C!Procs /\ "child" \in C!Procs /\ "server" \in C!Procs
      /\ C!Clients = {"a", "b"} /\ "server" \notin C!Clients
  BY DEF C!Clients, C!Pipes, C!Procs, C!Pair
<1>3. TalkTypes
  <2>1. at \in [C!Procs -> Places] /\ cProgram \in {"email", "rounds", "filter", "chat"}
        /\ variant \in {"raw", "stdio", "missing"}
    BY DEF C!Init, Places
  <2>2. fds \in 0 .. MaxFds /\ exists \subseteq C!Clients \cup {"server"}
    BY TalkAssumption DEF C!Init
  <2>3. cN \in [C!Procs -> Nat] /\ cPipe \in [C!Pipes -> Seq(Items)] /\ cShown \in [C!Procs -> Seq(Items)]
        /\ buf \in Seq(Items) /\ sent \in Seq(Posts)
    BY DEF C!Init
  <2>4. deaf = {} /\ lost = {} /\ killed = {}
    BY DEF C!Init
  <2>5. QED
    BY <2>1, <2>2, <2>3, <2>4 DEF TalkTypes
<1>4. Unused
  BY <1>1, <1>2 DEF C!Init, Unused, C!Clients
<1>5. EmailInv
  BY <1>1, <1>2, TalkAssumption DEF C!Init, EmailInv, EmailPlaces, RawInv, StdioInv, MissingInv, C!Clients
<1>6. RoundsInv
  BY <1>1, <1>2 DEF C!Init, RoundsInv, Empty, C!Clients
<1>7. FilterInv
  BY <1>1, <1>2, TalkAssumption DEF C!Init, FilterInv, C!Clients
<1>8. ChatInv
  <2> SUFFICES ASSUME cProgram = "chat" PROVE ChatPlaces /\ ChatCounts /\ ChatKnown /\ ChatRelayed
    BY DEF ChatInv
  <2>1. ChatPlaces
    <3>1. at["server"] = "start" /\ \A c \in C!Clients : at[c] = "start" /\ cN[c] = 0
      BY <1>2 DEF C!Init
    <3>2. QED
      BY <1>1, <3>1, TalkAssumption DEF ChatPlaces
  <2>2. ChatCounts
    BY <1>1, <1>2 DEF C!Init, ChatCounts, C!Clients
  <2>3. ChatKnown
    BY <1>1, <1>2 DEF C!Init, ChatKnown, Known
  <2>4. \A y \in C!Clients : C!Way(y) = <<>>
    BY <1>1, <1>2 DEF C!Init, C!Way
  <2>5. \A x, y : C!Between(<<>>, x, y) = {}
    BY DEF C!Between
  <2>6. QED
    BY <2>1, <2>2, <2>3, <2>4, <2>5 DEF ChatRelayed, Relayed, C!Init
<1>9. QED
  BY <1>3, <1>4, <1>5, <1>6, <1>7, <1>8 DEF TalkIInv

(* What follows from the invariant for the property.                        *)
LEMMA Holds == TalkIInv => C!TalkInv
<1> SUFFICES ASSUME TalkIInv PROVE C!TalkInv
  OBVIOUS
<1>1. C!Pipes = {"p1", "p2", "a", "b", "server"} /\ C!Clients = {"a", "b"}
      /\ C!Procs = {"parent", "child", "a", "b", "server"}
  BY DEF C!Pipes, C!Clients, C!Procs, C!Pair
<1>2. Hand \in Nat /\ \A p \in C!Pipes : Has(p) \in Nat
  BY DEF TalkIInv, TalkTypes, Has, Hand
<1>3. \A p \in C!Procs : cN[p] \in Nat /\ Printed(p) \in Nat
  BY DEF TalkIInv, TalkTypes, Printed
<1>4. /\ Has("p1") \in Nat /\ Has("p2") \in Nat
      /\ Has("a") \in Nat /\ Has("b") \in Nat /\ Has("server") \in Nat
      /\ cN["a"] \in Nat /\ cN["b"] \in Nat /\ cN["child"] \in Nat /\ cN["parent"] \in Nat
      /\ Printed("a") \in Nat /\ Printed("b") \in Nat /\ Printed("parent") \in Nat
      /\ Hand \in Nat /\ fds \in Nat
      /\ variant \in {"raw", "stdio", "missing"} /\ cProgram \in {"email", "rounds", "filter", "chat"}
  BY <1>1, <1>2, <1>3, TalkAssumption DEF TalkIInv, TalkTypes
<1>5. \A p \in C!Pipes : Has(p) <= Rounds + 2 * MaxLines
  <2>1. CASE cProgram # "chat"
    <3>1. Has("p1") <= 1 + MaxLines /\ Has("p2") <= 1
      <4>1. CASE cProgram = "email"
        BY <1>4, <4>1, TalkAssumption DEF TalkIInv, EmailInv, RawInv, StdioInv, MissingInv
      <4>2. CASE cProgram = "rounds"
        BY <1>4, <4>2, TalkAssumption DEF TalkIInv, RoundsInv, Empty
      <4>3. CASE cProgram = "filter"
        BY <1>4, <4>3, TalkAssumption DEF TalkIInv, FilterInv
      <4>4. QED
        BY <1>4, <2>1, <4>1, <4>2, <4>3
    <3>2. Has("a") = 0 /\ Has("b") = 0 /\ Has("server") = 0
      BY <1>1, <2>1 DEF TalkIInv, Unused
    <3>3. QED
      BY <1>1, <1>4, <3>1, <3>2, TalkAssumption
  <2>2. CASE cProgram = "chat"
    <3>1. cN["a"] <= MaxLines /\ cN["b"] <= MaxLines
      BY <1>1, <2>2 DEF TalkIInv, ChatInv, ChatPlaces
    <3>2. Has("server") + Has("a") + Has("b") + Hand <= cN["a"] + cN["b"]
      BY <2>2 DEF TalkIInv, ChatInv, ChatCounts
    <3>3. Has("p1") = 0 /\ Has("p2") = 0
      BY <2>2 DEF TalkIInv, Unused
    <3>4. Has("server") <= 2 * MaxLines /\ Has("a") <= 2 * MaxLines /\ Has("b") <= 2 * MaxLines
      BY <1>4, <3>1, <3>2, TalkAssumption
    <3>5. QED
      BY <1>1, <1>4, <3>3, <3>4, TalkAssumption
  <2>3. QED
    BY <2>1, <2>2
<1>6. C!TypeOK
  BY <1>5 DEF TalkIInv, TalkTypes, Places, C!TypeOK, Has
<1>7. C!OwnResult
  <2> SUFFICES ASSUME cProgram = "email"
               PROVE  /\ \A k \in DOMAIN cShown["parent"] : cShown["parent"][k] \in {0, k}
                      /\ 0 \in C!Range(cShown["parent"]) => variant = "missing" /\ Printed("parent") = 1
                      /\ variant = "stdio" => cShown["parent"] = <<>>
    BY DEF C!OwnResult, Printed
  <2>1. /\ DOMAIN cShown["parent"] = 1 .. Printed("parent")
        /\ Printed("parent") = 0 => cShown["parent"] = <<>>
    BY <1>1 DEF TalkIInv, TalkTypes, Printed
  <2>2. RawInv /\ StdioInv /\ MissingInv
    BY DEF TalkIInv, EmailInv
  <2>3. CASE variant = "raw"
    <3>1. \A k \in DOMAIN cShown["parent"] : cShown["parent"][k] = k /\ cShown["parent"][k] # 0
      BY <1>4, <2>1, <2>2, <2>3 DEF RawInv
    <3>2. QED
      BY <2>3, <3>1 DEF C!Range
  <2>4. CASE variant = "stdio"
    <3>1. Printed("parent") = 0
      BY <2>2, <2>4 DEF StdioInv
    <3>2. DOMAIN cShown["parent"] = {} /\ cShown["parent"] = <<>>
      BY <2>1, <3>1
    <3>3. QED
      BY <2>4, <3>2 DEF C!Range
  <2>5. CASE variant = "missing"
    <3>1. \/ Printed("parent") = 0
          \/ Printed("parent") = 1 /\ cShown["parent"][1] = 0
      BY <2>2, <2>5 DEF MissingInv
    <3>2. DOMAIN cShown["parent"] = {} \/ (DOMAIN cShown["parent"] = {1} /\ Printed("parent") = 1 /\ cShown["parent"][1] = 0)
      BY <2>1, <3>1
    <3>3. QED
      BY <2>5, <3>2 DEF C!Range
  <2>6. QED
    BY <1>4, <2>3, <2>4, <2>5
<1>8. C!InStep
  <2> SUFFICES ASSUME cProgram = "rounds"
               PROVE  Has("p1") + Has("p2") <= 1 /\ cN["child"] - cN["parent"] \in {0, 1}
    BY DEF C!InStep, Has
  <2>1. \/ cN["child"] = cN["parent"] /\ Has("p1") = 0 /\ Has("p2") = 0
        \/ cN["child"] = cN["parent"] /\ Has("p1") = 1 /\ Has("p2") = 0
        \/ cN["child"] = cN["parent"] + 1 /\ Has("p1") = 0 /\ Has("p2") = 1
    BY DEF TalkIInv, RoundsInv, Empty
  <2>2. QED
    BY <1>4, <2>1
<1>9. C!RelayedOnce
  <2> SUFFICES ASSUME cProgram = "chat" PROVE C!RelayedOnce
    BY DEF C!RelayedOnce
  <2>1. at["server"] \in {"start", "open", "read", "dest", "relay", "ended", "killed"}
    BY DEF TalkIInv, ChatInv, ChatPlaces
  <2>2. ~C!Gone("server") /\ killed = {} => \A x, y \in C!Clients : Relayed(C!Way(y), sent, lost, x, y)
    BY <2>1 DEF TalkIInv, ChatInv, ChatRelayed, Undisturbed, C!Gone
  <2>3. Printed("a") + Has("a") + Printed("b") + Has("b") <= fds
    BY <1>4 DEF TalkIInv, ChatInv, ChatCounts
  <2>4. QED
    BY <2>2, <2>3 DEF C!RelayedOnce, Relayed, Has, Printed
<1>10. QED
  BY <1>6, <1>7, <1>8, <1>9 DEF C!TalkInv

(* Every step of the four programs preserves the invariant.                 *)
LEMMA Preserved ==
  ASSUME TalkIInv, [C!Next]_cVars
  PROVE  TalkIInv'
<1>1. CASE C!Next
  <2>1. cProgram \in {"email", "rounds", "filter", "chat"}
    BY DEF TalkIInv, TalkTypes
  <2>2. QED
    BY <1>1, <2>1, EmailStep, RoundsStep, FilterStep, ChatStep
<1>2. CASE UNCHANGED cVars
  <2>1. UNCHANGED <<cProgram, variant, at, cN, cPipe, cShown, buf, exists, deaf, fds, sent, lost, killed>>
    BY <1>2 DEF cVars
  <2>2. /\ TalkTypes' /\ Unused'
        /\ EmailInv' /\ RoundsInv' /\ FilterInv'
    <3>1. TalkTypes' /\ Unused'
      BY <2>1 DEF TalkIInv, TalkTypes, Items, Posts, Unused, Has
    <3>2. EmailInv'
      BY <2>1 DEF TalkIInv, Has, Hand, Printed, EmailInv, EmailPlaces, RawInv, StdioInv, MissingInv
    <3>3. RoundsInv' /\ FilterInv'
      BY <2>1 DEF TalkIInv, Has, Hand, RoundsInv, Empty, FilterInv
    <3>4. QED
      BY <3>1, <3>2, <3>3
  <2>3. ChatInv'
    <3>1. \A y : C!Way(y)' = C!Way(y)
      BY <2>1 DEF C!Way
    <3>2. QED
      BY <2>1, <3>1 DEF TalkIInv, ChatInv, ChatPlaces, ChatCounts, ChatKnown, ChatRelayed, Undisturbed, Has, Hand, Printed
  <2>4. QED
    BY <2>2, <2>3 DEF TalkIInv
<1>3. QED
  BY <1>1, <1>2

(* The programs of CoProcesses keep to the invariant, whatever the other labs *)
(* do meanwhile.                                                           *)
THEOREM TalkInvariant == MCSpec => []TalkIInv
<1>1. MCInit => TalkIInv
  BY Start DEF MCInit
<1>2. TalkIInv /\ [MCNext]_mcVars => TalkIInv'
  <2> SUFFICES ASSUME TalkIInv, [MCNext]_mcVars PROVE TalkIInv'
    OBVIOUS
  <2>1. [C!Next]_cVars
    BY DEF MCNext, PingPongs, Pipeline, Talk, mcVars
  <2>2. QED
    BY <2>1, Preserved
<1>3. QED
  BY <1>1, <1>2, PTL DEF MCSpec

(* Each address gets its own result, the rounds of pipe.c are in step, and    *)
(* what one chat client sends another is relayed once and in its order, for    *)
(* any number of rounds, lines and descriptors.                             *)
THEOREM TalkIsSound == MCSpec => []TalkInv
<1>1. TalkIInv => TalkInv
  BY Holds DEF TalkInv
<1>2. QED
  BY <1>1, TalkInvariant, PTL
-----------------------------------------------------------------------------
(***************************************************************************)
(* Pipelines: the types, as records over the pipes there are.               *)
(***************************************************************************)

PPlaces == {"spawn", "last", "fork", "exec", "wait", "again", "prompt", "run", "ended"}
PEnds(k) == {P!R(p) : p \in 1 .. k} \cup {P!W(p) : p \in 1 .. k}
PProcess(k) ==
  [at : PPlaces, i : 1 .. 4, in : 0 .. k, fds : SUBSET PEnds(k), stdin : 0 .. k, stdout : 0 .. k,
   runs : P!Kinds, buf : Seq(Nat), eof : BOOLEAN]

PTyped ==
  /\ program \in {"multi_pipes", "pipeline", "shell"}
  /\ cmds \in Seq(P!Kinds) /\ output \in 0 .. MaxOutput
  /\ pPipe \in Seq(Seq(Nat)) /\ \A p \in 1 .. Len(pPipe) : Len(pPipe[p]) <= Capacity
  /\ shown \in Seq(Nat) /\ lines \in 0 .. MaxLines /\ failed \in Nat
  /\ proc \in Seq(PProcess(Len(pPipe))) /\ Len(proc) >= 1

(* multi_pipes.  Of its four commands at most one is missing.               *)
PFour ==
  /\ Len(cmds) = 4
  /\ cmds[1] \in {"source", "missing"} /\ cmds[2] \in {"copy", "missing"}
  /\ cmds[3] \in {"sort", "missing"} /\ cmds[4] \in {"copy", "missing"}
  /\ \A k, l \in 1 .. 4 : cmds[k] = "missing" /\ cmds[l] = "missing" => k = l

(* What the place of a process tells of its stage and of its ends.  A stage  *)
(* that runs is there; it ends for its end of file, or as the first or last.  *)
PStage(q) ==
  /\ proc[q].at \in {"spawn", "last", "exec", "run", "ended"}
  /\ proc[q].at = "spawn" => proc[q].i <= 3 /\ (proc[q].i > 1 => proc[q].in # 0)
  /\ proc[q].at = "last" => proc[q].i = 4 /\ proc[q].in # 0
  /\ proc[q].at = "exec" => proc[q].i <= 3 /\ proc[q].stdout # 0 /\ (proc[q].i > 1 => proc[q].stdin # 0)
  /\ proc[q].at = "run" => proc[q].runs = cmds[proc[q].i] /\ proc[q].runs # "missing"
                           /\ (proc[q].i > 1 => proc[q].stdin # 0)
  /\ proc[q].at = "ended" => \/ proc[q].i = 4 /\ cmds[4] = "missing"
                             \/ proc[q].i = 1 \/ proc[q].eof
  /\ q = 1 => proc[q].stdout = 0 /\ proc[q].at # "exec"
(* Only a command that runs holds items; a process holds the read end of the *)
(* pipe it writes to, and no write end but its standard output.              *)
PEmpties(q) ==
  /\ proc[q].at # "run" => Len(proc[q].buf) = 0
  /\ proc[q].at \notin {"run", "ended"} => ~proc[q].eof
PHasReader(q) == proc[q].stdout # 0 => P!R(proc[q].stdout) \in proc[q].fds
PNoWriters(q) == \A p \in Nat : P!W(p) \notin proc[q].fds
PMulti == PFour /\ \A q \in 1 .. Len(proc) : PStage(q) /\ PEmpties(q) /\ PHasReader(q) /\ PNoWriters(q)

(* When the first three are there, stage i is fed by stage i - 1.           *)
PAllThere == \A k \in 1 .. 3 : cmds[k] # "missing"
PTidyStage(q) ==
  IF q = 1 THEN /\ proc[q].i = Len(pPipe) + 1 /\ proc[q].in = Len(pPipe)
                /\ proc[q].at \in {"run", "ended"} => proc[q].i = 4
                /\ proc[q].at = "run" => proc[q].stdin = 3
  ELSE /\ proc[q].at \in {"exec", "run", "ended"}
       /\ proc[q].i <= 3 /\ proc[q].i <= Len(pPipe) /\ proc[q].stdout = proc[q].i
       /\ (proc[q].i > 1 => proc[q].stdin = proc[q].i - 1)
PTidy == PAllThere => \A q \in 1 .. Len(proc) : PTidyStage(q)

(* Nothing comes past stage f, which is missing or whose fork failed: the     *)
(* pipes from f on are empty, and who does not write below f has nothing and *)
(* reads nothing but such pipes.                                            *)
PBelow(f, q) == proc[q].stdout # 0 /\ proc[q].stdout < f
PDryStage(f, q) ==
  IF PBelow(f, q)
  THEN /\ proc[q].at \in {"exec", "run", "ended"}
       /\ proc[q].at = "exec" => cmds[proc[q].i] # "missing"
  ELSE /\ Len(proc[q].buf) = 0
       /\ proc[q].at = "exec" => IF cmds[proc[q].i] = "missing" THEN proc[q].i = f
                                 ELSE proc[q].i > f /\ proc[q].stdin >= f
       /\ proc[q].at = "run" => proc[q].stdin >= f
       /\ proc[q].at \in {"spawn", "last"} =>
            \/ proc[q].i > f /\ proc[q].in >= f
            \/ /\ q = 1 /\ cmds[f] = "missing"
               /\ proc[q].i <= f /\ proc[q].in = proc[q].i - 1 /\ Len(pPipe) = proc[q].i - 1
PDry(f) ==
  /\ Len(shown) = 0
  /\ \A p \in 1 .. Len(pPipe) : p >= f => Len(pPipe[p]) = 0
  /\ \A q \in 1 .. Len(proc) : PDryStage(f, q)

(* With all there and all forked, the numbers are, in their order, on the     *)
(* terminal, in main (the last command), in the third pipe, in its writer, and *)
(* so on; what ls has not begun to write counts as its buffer.  An end of file *)
(* was seen only when the stage before had ended and left the pipe empty.     *)
PBuf(q) ==
  IF q \in 1 .. Len(proc)
  THEN IF proc[q].at = "exec" /\ proc[q].i = 1 THEN P!Numbers ELSE proc[q].buf
  ELSE IF q = 2 THEN P!Numbers ELSE <<>>
PIn(p) == IF p \in 1 .. Len(pPipe) THEN pPipe[p] ELSE <<>>
PPart1 == PIn(1) \o PBuf(2)
PPart2 == PBuf(3) \o PPart1
PPart3 == PIn(2) \o PPart2
PPart4 == PBuf(4) \o PPart3
PPart5 == PIn(3) \o PPart4
PPart6 == PBuf(1) \o PPart5
PWay == shown \o PPart6
PCount == Len(proc) = proc[1].i /\ \A q \in 2 .. Len(proc) : proc[q].i = q - 1
PUnshown == proc[1].at \in {"spawn", "last"} \/ cmds[4] = "missing" => Len(shown) = 0
PSeen(q) ==
  proc[q].eof =>
    /\ \A p \in 1 .. Len(pPipe) : p = proc[q].i - 1 => Len(pPipe[p]) = 0
    /\ proc[q].i > 1 => proc[proc[q].i].at = "ended"
PFlow ==
  PCount /\ PUnshown /\ (\A q \in 1 .. Len(proc) : PSeen(q)) /\ PWay = P!Numbers

PWater ==
  /\ \A m \in 1 .. 3 : cmds[m] = "missing" => PDry(m)
  /\ PAllThere /\ failed > 0 => \E f \in 1 .. 3 : PDry(f)
  /\ PAllThere /\ failed = 0 => PFlow

(* With stage m missing and no fork failed, nothing ends: either main comes   *)
(* to spawn m, or m is about to find that it is missing, or there is a ring of *)
(* stages after m each of which reads what another one, or itself, writes.   *)
PFeed(q) == IF proc[q].at \in {"spawn", "last"} THEN proc[q].in ELSE proc[q].stdin
PMember(m, q) ==
  /\ proc[q].at \in {"spawn", "last", "exec", "run"} /\ proc[q].i > m
  /\ proc[q].stdout # 0 /\ ~proc[q].eof
PRound(m, S) ==
  /\ S # {}
  /\ \A q \in S : PMember(m, q) /\ \E r \in S : proc[r].stdout = PFeed(q)
PRing(m) ==
  \/ proc[1].at = "spawn" /\ proc[1].i <= m
  \/ \E q \in 1 .. Len(proc) : proc[q].at = "exec" /\ proc[q].i = m
  \/ \E S \in SUBSET (1 .. Len(proc)) : PRound(m, S)
PRings == \A m \in 1 .. 3 : cmds[m] = "missing" /\ failed = 0 => PRing(m)

(* pipeline.c: before the fork, after one that failed, or with ls as process *)
(* 2 and main as wc to be.  The numbers are on the terminal, in wc, in the    *)
(* pipe and in ls; wc begins when all of them fitted into the pipe.          *)
PFirst == IF cmds[1] = "source" THEN P!Numbers ELSE <<>>
PTwo ==
  /\ Len(cmds) = 2
  /\ cmds[1] \in {"source", "missing"} /\ cmds[2] \in {"sort", "missing"}
  /\ ~(cmds[1] = "missing" /\ cmds[2] = "missing")
PLs ==
  /\ proc[2].at \in {"exec", "run", "ended"} /\ proc[2].i = 1 /\ proc[2].stdout = 1
  /\ proc[2].fds = {P!W(1)}
  /\ proc[2].at = "run" => proc[2].runs = cmds[1] /\ cmds[1] = "source"
  /\ proc[2].at # "run" => Len(proc[2].buf) = 0
PWc ==
  /\ proc[1].at \in {"wait", "run", "ended"} /\ proc[1].stdin = 1 /\ proc[1].i = 2 /\ proc[1].fds = {P!R(1)}
  /\ proc[1].at # "run" => Len(proc[1].buf) = 0
  /\ proc[1].at = "run" => proc[1].runs = cmds[2] /\ cmds[2] = "sort"
  /\ proc[1].at # "wait" => proc[2].at = "ended"
  /\ proc[1].at = "ended" => cmds[2] = "missing" \/ proc[1].eof
  /\ proc[1].eof => Len(pPipe[1]) = 0 /\ proc[1].at # "wait"
PLsBuf == IF proc[2].at = "exec" THEN PFirst ELSE proc[2].buf
PLineWay ==
  /\ proc[1].at = "wait" \/ cmds[2] = "missing" => Len(shown) = 0
  /\ proc[1].at # "wait" => cmds[1] = "missing" \/ output <= Capacity
  /\ shown \o (proc[1].buf \o (pPipe[1] \o PLsBuf)) = PFirst
PLineBegins ==
  /\ Len(proc) = 1 /\ Len(pPipe) = 0 /\ Len(shown) = 0
  /\ proc[1].at = "fork" /\ proc[1].i = 1 /\ Len(proc[1].buf) = 0 /\ ~proc[1].eof
PLineFails == Len(proc) = 1 /\ proc[1].at = "ended" /\ failed > 0 /\ Len(shown) = 0
PLineGoes == Len(proc) = 2 /\ Len(pPipe) = 1 /\ PLs /\ PWc /\ PLineWay
PLine == PTwo /\ proc[1].stdout = 0 /\ (PLineBegins \/ PLineFails \/ PLineGoes)

(* gfg/shell.c.  Who lives is main and the last child; the children of earlier *)
(* lines and the first of this line have ended.  What a command makes of its  *)
(* own is on its way to the terminal or into the pipe, and the reader passes   *)
(* on what the writer left there.  The shell's ends are counted.            *)
PLast == proc[Len(proc)]
POwn(k) == IF cmds[k] = "source" THEN P!Numbers ELSE IF cmds[k] = "missing" THEN P!Message ELSE <<>>
PShellCmds ==
  /\ Len(cmds) <= 2
  /\ Len(cmds) > 0 => cmds[1] \in {"source", "missing"} \/ cmds = <<"builtin">>
  /\ Len(cmds) = 2 => cmds[1] # "builtin" /\ cmds[2] \in {"source", "copy", "sort", "missing"}
PIdle(q) == Len(proc[q].buf) = 0 /\ ~proc[q].eof
PQuiet == \A q \in 2 .. Len(proc) : proc[q].at = "ended"
PFew(s, k) == IsFiniteSet(s) /\ Cardinality(s) <= 2 * k
PLeak(s) == PFew(s, failed)
PNobody(p) == \A q \in 1 .. Len(proc) : proc[q].at # "ended" => P!W(p) \notin proc[q].fds
PChild(k) ==
  /\ Len(proc) >= 2
  /\ \A q \in 2 .. Len(proc) - 1 : proc[q].at = "ended"
  /\ PLast.at \in {"exec", "run", "ended"} /\ PLast.i = k
  /\ PLast.at = "run" => PLast.runs = cmds[k]
  /\ PLast.at # "run" => Len(PLast.buf) = 0
  /\ PLast.at = "exec" => ~PLast.eof
PSingle ==
  /\ Len(cmds) = 1 /\ cmds[1] # "builtin" /\ PChild(1) /\ PLast.stdout = 0
  /\ shown \o (IF PLast.at = "exec" THEN POwn(1) ELSE PLast.buf) = POwn(1)
PWriter ==
  /\ Len(cmds) = 2 /\ PChild(1) /\ PLast.stdout = Len(pPipe) /\ Len(shown) = 0
  /\ pPipe[Len(pPipe)] \o (IF PLast.at = "exec" THEN POwn(1) ELSE PLast.buf) = POwn(1)
PReader ==
  /\ Len(cmds) = 2 /\ PChild(2) /\ PLast.stdout = 0 /\ PLast.stdin = Len(pPipe) /\ Len(pPipe) > 0
  /\ PNobody(Len(pPipe))
  /\ PLast.eof => Len(pPipe[Len(pPipe)]) = 0
  /\ IF cmds[2] \in {"copy", "sort"}
     THEN /\ PLast.at = "ended" => PLast.eof
          /\ shown \o (PLast.buf \o pPipe[Len(pPipe)]) = POwn(1)
     ELSE shown \o (IF PLast.at = "exec" THEN POwn(2) ELSE PLast.buf) = POwn(2)
(* The shell by its place.                                                  *)
PAtPrompt ==
  /\ proc[1].at \in {"prompt", "ended"} /\ PQuiet /\ PLeak(proc[1].fds)
  /\ P!WholeResult \/ (failed > 0 /\ Len(shown) = 0)
PAtFork ==
  /\ proc[1].at = "fork" /\ PQuiet /\ PLeak(proc[1].fds)
  /\ Len(cmds) > 0 /\ cmds[1] # "builtin" /\ Len(shown) = 0
PAtWait == proc[1].at = "wait" /\ PLeak(proc[1].fds) /\ (PSingle \/ PReader)
PAtAgain ==
  /\ proc[1].at = "again" /\ proc[1].in = Len(pPipe) /\ Len(pPipe) > 0
  /\ P!R(Len(pPipe)) \in proc[1].fds /\ PLeak(proc[1].fds \ {P!R(Len(pPipe)), P!W(Len(pPipe))})
  /\ PWriter
PShell ==
  /\ PShellCmds /\ PIdle(1) /\ proc[1].stdout = 0 /\ proc[1].i = 1
  /\ PAtPrompt \/ PAtFork \/ PAtWait \/ PAtAgain

(* The inductive invariant.                                                 *)
PipeIInv ==
  /\ PTyped
  /\ program = "multi_pipes" => PMulti /\ PTidy /\ PWater /\ PRings
  /\ program = "pipeline" => PLine
  /\ program = "shell" => PShell

-----------------------------------------------------------------------------
(* Read ends are not write ends, and each pipe has its own.                 *)
LEMMA PEndsDiffer ==
  ASSUME NEW a, NEW b
  PROVE  /\ P!R(a) = P!R(b) => a = b
         /\ P!W(a) = P!W(b) => a = b
         /\ P!R(a) # P!W(b)
BY DEF P!R, P!W

(* A process's record stays one when a pipe is opened, so do all.           *)
LEMMA PRecordGrows ==
  ASSUME NEW k \in Nat, NEW x \in PProcess(k)
  PROVE  x \in PProcess(k + 1)
<1>1. PEnds(k) \subseteq PEnds(k + 1)
  BY DEF PEnds
<1>2. 0 .. k \subseteq 0 .. k + 1
  OBVIOUS
<1>3. x.fds \in SUBSET PEnds(k + 1)
  BY <1>1 DEF PProcess
<1>4. x.in \in 0 .. k + 1 /\ x.stdin \in 0 .. k + 1 /\ x.stdout \in 0 .. k + 1
  BY <1>2 DEF PProcess
<1> QED BY <1>3, <1>4 DEF PProcess

(* The same of the list of processes.                                       *)
LEMMA PProcsGrow ==
  ASSUME NEW k \in Nat, NEW s \in Seq(PProcess(k))
  PROVE  s \in Seq(PProcess(k + 1))
<1>1. \A x \in PProcess(k) : x \in PProcess(k + 1)
  BY PRecordGrows
<1> QED BY <1>1

(* What the three ways to go on do to the processes.                        *)
PSet(q, me) ==
  /\ Len(proc') = Len(proc) /\ proc'[q] = me
  /\ \A r \in 1 .. Len(proc) : r # q => proc'[r] = proc[r]
PGrow(q, parent, child) ==
  /\ Len(proc') = Len(proc) + 1 /\ proc'[q] = parent /\ proc'[Len(proc) + 1] = child
  /\ \A r \in 1 .. Len(proc) : r # q => proc'[r] = proc[r]

(* One process goes on, no other changes.                                   *)
LEMMA PSetting ==
  ASSUME NEW T, proc \in Seq(T), NEW q \in 1 .. Len(proc), NEW me \in T,
         proc' = [proc EXCEPT ![q] = me]
  PROVE  proc' \in Seq(T) /\ PSet(q, me)
BY DEF PSet

(* The process that forks goes on, and its child is the last.               *)
LEMMA PGrowing ==
  ASSUME NEW T, proc \in Seq(T), NEW q \in 1 .. Len(proc), NEW parent \in T, NEW child \in T,
         proc' = Append([proc EXCEPT ![q] = parent], child)
  PROVE  proc' \in Seq(T) /\ PGrow(q, parent, child)
<1> DEFINE mid == [proc EXCEPT ![q] = parent]
<1>1. /\ mid \in Seq(T) /\ Len(mid) = Len(proc) /\ mid[q] = parent
      /\ \A r \in 1 .. Len(proc) : r # q => mid[r] = proc[r]
  OBVIOUS
<1>2. proc' = Append(mid, child)
  OBVIOUS
<1> HIDE DEF mid
<1>3. /\ proc' \in Seq(T) /\ Len(proc') = Len(mid) + 1 /\ proc'[Len(mid) + 1] = child
      /\ \A r \in 1 .. Len(mid) : proc'[r] = mid[r]
  BY <1>1, <1>2
<1> QED BY <1>1, <1>3 DEF PGrow

(* The kinds of the lists, which most arithmetic needs.                     *)
LEMMA PPipesNumbers ==
  ASSUME PTyped
  PROVE  /\ Len(pPipe) \in Nat /\ Len(proc) \in Nat /\ Len(proc) >= 1 /\ Len(shown) \in Nat
         /\ \A q \in 1 .. Len(proc) : proc[q] \in PProcess(Len(pPipe))
         /\ \A p \in 1 .. Len(pPipe) : pPipe[p] \in Seq(Nat) /\ Len(pPipe[p]) \in Nat
BY DEF PTyped

(* The kinds of the fields of a process.                                    *)
LEMMA PFields ==
  ASSUME NEW k \in Nat, NEW x \in PProcess(k)
  PROVE  /\ x.at \in PPlaces /\ x.i \in 1 .. 4 /\ x.i \in Nat /\ x.in \in 0 .. k /\ x.in \in Nat
         /\ x.stdin \in 0 .. k /\ x.stdin \in Nat /\ x.stdout \in 0 .. k /\ x.stdout \in Nat
         /\ x.fds \subseteq PEnds(k) /\ x.runs \in P!Kinds
         /\ x.buf \in Seq(Nat) /\ Len(x.buf) \in Nat /\ x.eof \in BOOLEAN
BY DEF PProcess

(* The new pipe.                                                            *)
LEMMA PPipeOpens ==
  ASSUME PTyped, pPipe' = Append(pPipe, <<>>)
  PROVE  /\ pPipe' \in Seq(Seq(Nat)) /\ Len(pPipe') = Len(pPipe) + 1
         /\ \A p \in 1 .. Len(pPipe) : pPipe'[p] = pPipe[p]
         /\ Len(pPipe'[Len(pPipe) + 1]) = 0 /\ pPipe'[Len(pPipe) + 1] = <<>>
         /\ \A p \in 1 .. Len(pPipe') : Len(pPipe'[p]) <= Capacity
<1>1. /\ pPipe' \in Seq(Seq(Nat)) /\ Len(pPipe') = Len(pPipe) + 1
      /\ \A p \in 1 .. Len(pPipe) : pPipe'[p] = pPipe[p]
      /\ pPipe'[Len(pPipe) + 1] = <<>>
  <2>1. <<>> \in Seq(Nat)
    OBVIOUS
  <2> QED BY <2>1 DEF PTyped
<1>2. Len(pPipe'[Len(pPipe) + 1]) = 0
  BY <1>1
<1>3. \A p \in 1 .. Len(pPipe') : Len(pPipe'[p]) <= Capacity
  BY <1>1, <1>2, PipelinesAssumption DEF PTyped
<1> QED BY <1>1, <1>2, <1>3

(* What ls writes is as long as output.                                     *)
LEMMA PNumbers ==
  ASSUME PTyped
  PROVE  P!Numbers \in Seq(Nat) /\ Len(P!Numbers) = output
<1>1. output \in Nat
  BY PipelinesAssumption DEF PTyped
<1> QED BY <1>1 DEF P!Numbers

(* Two records of a process that differ in what it has read at most.        *)
PSame(x, y) ==
  /\ y.at = x.at /\ y.i = x.i /\ y.in = x.in /\ y.fds = x.fds
  /\ y.stdin = x.stdin /\ y.stdout = x.stdout /\ y.runs = x.runs
PTouches(q, b, e) ==
  /\ Len(proc') = Len(proc) /\ \A r \in 1 .. Len(proc) : PSame(proc[r], proc'[r])
  /\ \A r \in 1 .. Len(proc) : r # q => proc'[r] = proc[r]
  /\ proc'[q].buf = b /\ proc'[q].eof = e
PFrame == UNCHANGED <<program, cmds, output, lines, failed>>
PTakes(q) ==
  /\ P!Reads(q) /\ proc[q].stdin \in 1 .. Len(pPipe) /\ Len(pPipe[proc[q].stdin]) > 0
  /\ pPipe' = [pPipe EXCEPT ![proc[q].stdin] = Tail(@)]
  /\ PTouches(q, Append(proc[q].buf, Head(pPipe[proc[q].stdin])), proc[q].eof)
  /\ PFrame /\ shown' = shown
PSeesEnd(q) ==
  /\ P!Reads(q) /\ proc[q].stdin \in 1 .. Len(pPipe) /\ Len(pPipe[proc[q].stdin]) = 0
  /\ \A r \in 1 .. Len(proc) : ~P!Holds(r, P!W(proc[q].stdin))
  /\ pPipe' = pPipe /\ PTouches(q, proc[q].buf, TRUE)
  /\ PFrame /\ shown' = shown
PPrints(q) ==
  /\ proc[q].at = "run" /\ Len(proc[q].buf) > 0 /\ proc[q].stdout = 0
  /\ shown' = Append(shown, Head(proc[q].buf)) /\ pPipe' = pPipe
  /\ PTouches(q, Tail(proc[q].buf), proc[q].eof) /\ PFrame
PPuts(q) ==
  /\ proc[q].at = "run" /\ Len(proc[q].buf) > 0 /\ proc[q].stdout \in 1 .. Len(pPipe)
  /\ Len(pPipe[proc[q].stdout]) < Capacity
  /\ pPipe' = [pPipe EXCEPT ![proc[q].stdout] = Append(@, Head(proc[q].buf))]
  /\ PTouches(q, Tail(proc[q].buf), proc[q].eof) /\ PFrame /\ shown' = shown
PBreaks(q) ==
  /\ proc[q].at = "run" /\ proc[q].stdout # 0
  /\ \A r \in 1 .. Len(proc) : ~P!Holds(r, P!R(proc[q].stdout))
PEnding(q) == PSet(q, P!Exits(proc[q])) /\ PFrame /\ UNCHANGED <<pPipe, shown>>
PFinishes(q) ==
  proc[q].at = "run" /\ ~P!Reads(q) /\ Len(proc[q].buf) = 0 /\ PEnding(q)

(* A process that read or wrote something kept its place and its            *)
(* descriptors.                                                             *)
LEMMA PTouching ==
  ASSUME PTyped, NEW q \in 1 .. Len(proc), NEW b \in Seq(Nat), NEW e \in BOOLEAN,
         proc' = [proc EXCEPT ![q] = [proc[q] EXCEPT !.buf = b, !.eof = e]]
  PROVE  proc' \in Seq(PProcess(Len(pPipe))) /\ PTouches(q, b, e)
<1>1. proc \in Seq(PProcess(Len(pPipe))) /\ Len(pPipe) \in Nat
  BY DEF PTyped
<1> DEFINE me == [proc[q] EXCEPT !.buf = b, !.eof = e]
<1>2. me \in PProcess(Len(pPipe)) /\ PSame(proc[q], me) /\ me.buf = b /\ me.eof = e
  <2>1. proc[q] \in PProcess(Len(pPipe))
    BY <1>1
  <2> QED BY <2>1 DEF PProcess, PSame
<1>3. proc' \in Seq(PProcess(Len(pPipe))) /\ PSet(q, me)
  <2>1. proc' = [proc EXCEPT ![q] = me]
    OBVIOUS
  <2> HIDE DEF me
  <2> QED BY <1>1, <1>2, <2>1, PSetting
<1>4. \A r \in 1 .. Len(proc) : r # q => PSame(proc[r], proc'[r])
  BY <1>3 DEF PSet, PSame
<1> QED BY <1>2, <1>3, <1>4 DEF PTouches, PSet

(* The types, in a step that opens no pipe and forks nobody.                *)
LEMMA PTypedKept ==
  ASSUME PTyped, PFrame, pPipe' \in Seq(Seq(Nat)), Len(pPipe') = Len(pPipe), shown' \in Seq(Nat),
         proc' \in Seq(PProcess(Len(pPipe))), Len(proc') = Len(proc),
         \A p \in 1 .. Len(pPipe) : Len(pPipe'[p]) <= Capacity
  PROVE  PTyped'
BY DEF PTyped, PFrame

(* ReadPipe takes the first item of the pipe, or sees its end.              *)
LEMMA PReadEffect ==
  ASSUME PTyped, NEW q \in 1 .. Len(proc), P!ReadPipe(q)
  PROVE  PTyped' /\ (PTakes(q) \/ PSeesEnd(q))
<1> DEFINE p == proc[q].stdin
<1>1. proc[q] \in PProcess(Len(pPipe)) /\ Len(pPipe) \in Nat /\ pPipe \in Seq(Seq(Nat))
  BY PPipesNumbers DEF PTyped
<1>2. p \in 1 .. Len(pPipe) /\ pPipe[p] \in Seq(Nat) /\ P!Reads(q) /\ PFrame /\ shown' = shown
  <2>1. p # 0 /\ P!Reads(q) /\ UNCHANGED <<program, cmds, output, shown, lines>>
    BY DEF P!ReadPipe
  <2>2. UNCHANGED failed
    BY DEF P!ReadPipe, P!Becomes
  <2>3. p \in 0 .. Len(pPipe)
    BY <1>1, PFields
  <2>4. p \in 1 .. Len(pPipe)
    BY <1>1, <2>1, <2>3
  <2> QED BY <1>1, <2>1, <2>2, <2>4 DEF PFrame
<1>3. proc[q].buf \in Seq(Nat) /\ proc[q].eof \in BOOLEAN /\ shown \in Seq(Nat)
  BY <1>1, PFields DEF PTyped
<1>4. CASE pPipe[p] # <<>> /\ pPipe' = [pPipe EXCEPT ![p] = Tail(@)]
           /\ P!Becomes(q, [proc[q] EXCEPT !.buf = Append(@, Head(pPipe[p]))])
  <2>1. Head(pPipe[p]) \in Nat /\ Tail(pPipe[p]) \in Seq(Nat) /\ Len(Tail(pPipe[p])) = Len(pPipe[p]) - 1
        /\ Len(pPipe[p]) > 0
    BY <1>2, <1>4
  <2>2. proc' = [proc EXCEPT ![q] = [proc[q] EXCEPT !.buf = Append(proc[q].buf, Head(pPipe[p])), !.eof = proc[q].eof]]
    BY <1>1, <1>4 DEF P!Becomes, PProcess
  <2>3. Append(proc[q].buf, Head(pPipe[p])) \in Seq(Nat)
    BY <1>3, <2>1
  <2>4. proc' \in Seq(PProcess(Len(pPipe))) /\ PTouches(q, Append(proc[q].buf, Head(pPipe[p])), proc[q].eof)
    BY <1>3, <2>2, <2>3, PTouching
  <2>5. pPipe' \in Seq(Seq(Nat)) /\ Len(pPipe') = Len(pPipe)
        /\ \A x \in 1 .. Len(pPipe) : pPipe'[x] = IF x = p THEN Tail(pPipe[p]) ELSE pPipe[x]
    BY <1>1, <1>2, <1>4, <2>1
  <2>6. \A x \in 1 .. Len(pPipe) : Len(pPipe'[x]) <= Capacity
    <3>1. Capacity \in Nat /\ Len(pPipe[p]) \in Nat /\ Len(pPipe[p]) <= Capacity
      BY <1>2, PPipesNumbers, PipelinesAssumption DEF PTyped
    <3>2. Len(Tail(pPipe[p])) <= Capacity
      BY <2>1, <3>1
    <3> QED BY <2>5, <3>2 DEF PTyped
  <2>7. PTyped'
    BY <1>2, <1>3, <2>4, <2>5, <2>6, PTypedKept DEF PTouches
  <2>8. PTakes(q)
    BY <1>2, <1>4, <2>1, <2>4 DEF PTakes
  <2> QED BY <2>7, <2>8
<1>5. CASE pPipe[p] = <<>> /\ (\A r \in P!Procs : ~P!Holds(r, P!W(p)))
           /\ P!Becomes(q, [proc[q] EXCEPT !.eof = TRUE]) /\ pPipe' = pPipe
  <2>1. proc' = [proc EXCEPT ![q] = [proc[q] EXCEPT !.buf = proc[q].buf, !.eof = TRUE]]
    BY <1>1, <1>5 DEF P!Becomes, PProcess
  <2>2. proc' \in Seq(PProcess(Len(pPipe))) /\ PTouches(q, proc[q].buf, TRUE)
    BY <1>3, <2>1, PTouching
  <2>3. PTyped'
    BY <1>2, <1>3, <1>5, <2>2, PTypedKept DEF PTouches, PTyped
  <2>4. Len(pPipe[p]) = 0
    BY <1>5
  <2>5. PSeesEnd(q)
    BY <1>2, <1>5, <2>2, <2>4 DEF PSeesEnd, P!Procs
  <2> QED BY <2>3, <2>5
<1> QED BY <1>2, <1>4, <1>5 DEF P!ReadPipe

(* WriteOut is SIGPIPE, or puts an item on the terminal or into a pipe.     *)
LEMMA PWriteEffect ==
  ASSUME PTyped, NEW q \in 1 .. Len(proc), P!WriteOut(q)
  PROVE  PBreaks(q) \/ (PTyped' /\ (PPrints(q) \/ PPuts(q)))
<1> DEFINE p == proc[q].stdout
           me == [proc[q] EXCEPT !.buf = Tail(@)]
<1>1. proc[q] \in PProcess(Len(pPipe)) /\ Len(pPipe) \in Nat /\ pPipe \in Seq(Seq(Nat)) /\ shown \in Seq(Nat)
  BY PPipesNumbers DEF PTyped
<1>2. p \in 0 .. Len(pPipe) /\ proc[q].at = "run" /\ PFrame
      /\ proc[q].buf \in Seq(Nat) /\ proc[q].eof \in BOOLEAN
  <2>1. proc[q].at = "run" /\ UNCHANGED <<program, cmds, output, lines>>
    BY DEF P!WriteOut
  <2>2. UNCHANGED failed
    BY DEF P!WriteOut, P!Becomes
  <2> QED BY <1>1, <2>1, <2>2, PFields DEF PFrame
<1>3. Head(proc[q].buf) \in Nat /\ Tail(proc[q].buf) \in Seq(Nat) /\ Len(proc[q].buf) > 0
  BY <1>2 DEF P!WriteOut
<1>4. ASSUME P!Becomes(q, me)
      PROVE  proc' \in Seq(PProcess(Len(pPipe))) /\ PTouches(q, Tail(proc[q].buf), proc[q].eof)
  <2>1. proc' = [proc EXCEPT ![q] = [proc[q] EXCEPT !.buf = Tail(proc[q].buf), !.eof = proc[q].eof]]
    BY <1>1, <1>4 DEF P!Becomes, PProcess
  <2> QED BY <1>2, <1>3, <2>1, PTouching
<1>5. CASE p = 0 /\ shown' = Append(shown, Head(proc[q].buf)) /\ P!Becomes(q, me) /\ pPipe' = pPipe
  <2>1. PTyped'
    BY <1>1, <1>2, <1>3, <1>4, <1>5, PTypedKept DEF PTouches, PTyped
  <2>2. PPrints(q)
    BY <1>2, <1>3, <1>4, <1>5 DEF PPrints
  <2> QED BY <2>1, <2>2
<1>6. CASE p # 0 /\ shown' = shown /\ ~PBreaks(q)
  <2>1. Len(pPipe[p]) < Capacity /\ pPipe' = [pPipe EXCEPT ![p] = Append(@, Head(proc[q].buf))]
        /\ P!Becomes(q, me)
    BY <1>2, <1>6 DEF P!WriteOut, PBreaks, P!Procs
  <2>2. p \in 1 .. Len(pPipe) /\ pPipe[p] \in Seq(Nat)
    BY <1>1, <1>2, <1>6
  <2>3. Append(pPipe[p], Head(proc[q].buf)) \in Seq(Nat)
        /\ Len(Append(pPipe[p], Head(proc[q].buf))) = Len(pPipe[p]) + 1
    BY <1>3, <2>2
  <2>4. pPipe' \in Seq(Seq(Nat)) /\ Len(pPipe') = Len(pPipe)
        /\ \A x \in 1 .. Len(pPipe) :
             pPipe'[x] = IF x = p THEN Append(pPipe[p], Head(proc[q].buf)) ELSE pPipe[x]
    BY <1>1, <2>1, <2>2, <2>3
  <2>5. \A x \in 1 .. Len(pPipe) : Len(pPipe'[x]) <= Capacity
    <3>1. Capacity \in Nat /\ Len(pPipe[p]) \in Nat /\ Len(pPipe[p]) < Capacity
      BY <2>1, <2>2, PPipesNumbers, PipelinesAssumption
    <3>2. Len(Append(pPipe[p], Head(proc[q].buf))) <= Capacity
      BY <2>3, <3>1
    <3> QED BY <2>4, <3>2 DEF PTyped
  <2>6. PTyped'
    <3>1. proc' \in Seq(PProcess(Len(pPipe))) /\ Len(proc') = Len(proc)
      BY <1>4, <2>1 DEF PTouches
    <3>2. shown' \in Seq(Nat)
      BY <1>1, <1>6
    <3> QED BY <1>2, <2>4, <2>5, <3>1, <3>2, PTypedKept
  <2>7. PPuts(q)
    BY <1>2, <1>3, <1>4, <1>6, <2>1, <2>2 DEF PPuts
  <2> QED BY <2>6, <2>7
<1> QED BY <1>2, <1>5, <1>6 DEF P!WriteOut

(* _exit changes the place alone.                                           *)
LEMMA PExiting ==
  ASSUME NEW k \in Nat, NEW x \in PProcess(k)
  PROVE  /\ P!Exits(x) \in PProcess(k) /\ P!Exits(x).at = "ended" /\ P!Exits(x).i = x.i
         /\ P!Exits(x).in = x.in /\ P!Exits(x).fds = x.fds /\ P!Exits(x).stdin = x.stdin
         /\ P!Exits(x).stdout = x.stdout /\ P!Exits(x).runs = x.runs
         /\ P!Exits(x).buf = x.buf /\ P!Exits(x).eof = x.eof
BY DEF P!Exits, PProcess, PPlaces

(* The types, when one process becomes another record.                      *)
LEMMA PBecoming ==
  ASSUME PTyped, NEW q \in 1 .. Len(proc), NEW me \in PProcess(Len(pPipe)), P!Becomes(q, me),
         UNCHANGED <<program, cmds, output, pPipe, shown, lines>>
  PROVE  PTyped' /\ PSet(q, me) /\ PFrame
<1>1. proc' \in Seq(PProcess(Len(pPipe))) /\ PSet(q, me)
  BY PSetting DEF P!Becomes, PTyped
<1>2. PFrame
  BY DEF P!Becomes, PFrame
<1>3. PTyped'
  BY <1>1, <1>2, PTypedKept DEF PSet, PTyped
<1> QED BY <1>1, <1>2, <1>3

(* Finish ends a command that has nothing to read or to write.              *)
LEMMA PFinishEffect ==
  ASSUME PTyped, NEW q \in 1 .. Len(proc), P!Finish(q)
  PROVE  PTyped' /\ PFinishes(q)
<1>1. proc[q] \in PProcess(Len(pPipe)) /\ Len(pPipe) \in Nat
  BY PPipesNumbers
<1>2. P!Exits(proc[q]) \in PProcess(Len(pPipe))
  BY <1>1, PExiting
<1>3. P!Becomes(q, P!Exits(proc[q])) /\ UNCHANGED <<program, cmds, output, pPipe, shown, lines>>
  BY DEF P!Finish
<1>4. PTyped' /\ PSet(q, P!Exits(proc[q])) /\ PFrame
  BY <1>2, <1>3, PBecoming
<1> QED BY <1>3, <1>4 DEF P!Finish, PFinishes, PEnding

(* The records of multi_pipes after a step, by field.                       *)
PNext(i) == IF i + 1 < 4 THEN "spawn" ELSE "last"
PRest(x, y) == y.stdout = x.stdout /\ y.runs = x.runs /\ y.buf = x.buf /\ y.eof = x.eof
PParent(x, y, new) ==
  /\ y.at = PNext(x.i) /\ y.i = x.i + 1 /\ y.in = new /\ y.stdin = x.stdin
  /\ y.fds = x.fds \cup {P!R(new)} /\ PRest(x, y)
PChildOf(x, y, new) ==
  /\ y.at = "exec" /\ y.i = x.i /\ y.in = x.in /\ y.stdin = (IF x.in # 0 THEN x.in ELSE x.stdin)
  /\ y.stdout = new /\ y.fds = (x.fds \ {P!R(x.in)}) \cup {P!R(new)}
  /\ y.runs = x.runs /\ y.buf = x.buf /\ y.eof = x.eof
PPassing(x, y) ==
  /\ y.at = PNext(x.i) /\ y.i = x.i + 1 /\ y.in = x.stdout /\ y.stdin = x.stdin
  /\ y.fds = x.fds /\ PRest(x, y)
PRunning(x, y, c, in) ==
  /\ y.at = "run" /\ y.i = x.i /\ y.in = x.in /\ y.stdin = in /\ y.stdout = x.stdout
  /\ y.fds = x.fds /\ y.runs = c /\ y.buf = (IF c = "source" THEN P!Numbers ELSE <<>>) /\ y.eof = x.eof

(* The ends of the new pipe.                                                *)
LEMMA PNewEnd ==
  ASSUME NEW k \in Nat
  PROVE  P!R(k + 1) \in PEnds(k + 1) /\ P!W(k + 1) \in PEnds(k + 1)
BY DEF PEnds

(* multi_pipes after fork: the parent goes on to the next stage.            *)
LEMMA PParents ==
  ASSUME NEW k \in Nat, NEW x \in PProcess(k), x.i <= 3, Len(cmds) = 4
  PROVE  LET y == [P!NextStage(x, k + 1) EXCEPT !.fds = @ \cup {P!R(k + 1)}]
         IN  y \in PProcess(k + 1) /\ PParent(x, y, k + 1)
<1>1. x \in PProcess(k + 1)
  BY PRecordGrows
<1>2. x.fds \cup {P!R(k + 1)} \in SUBSET PEnds(k + 1)
  BY <1>1, PNewEnd DEF PProcess
<1>3. x.i + 1 \in 1 .. 4 /\ k + 1 \in 0 .. k + 1
  BY <1>1 DEF PProcess
<1>4. {"spawn", "last"} \subseteq PPlaces
  BY DEF PPlaces
<1> QED BY <1>1, <1>2, <1>3, <1>4 DEF PProcess, P!NextStage, PParent, PNext, PRest

(* multi_pipes after fork: the child is about to become its stage.          *)
LEMMA PChildren ==
  ASSUME NEW k \in Nat, NEW x \in PProcess(k)
  PROVE  LET y == P!StageOf(x, k + 1)
         IN  y \in PProcess(k + 1) /\ PChildOf(x, y, k + 1)
<1>1. x \in PProcess(k + 1)
  BY PRecordGrows
<1>2. (x.fds \ {P!R(x.in)}) \cup {P!R(k + 1)} \in SUBSET PEnds(k + 1)
  BY <1>1, PNewEnd DEF PProcess
<1>3. k + 1 \in 0 .. k + 1
  OBVIOUS
<1>4. "exec" \in PPlaces
  BY DEF PPlaces
<1> QED BY <1>1, <1>2, <1>3, <1>4 DEF PProcess, P!StageOf, PChildOf

(* A stage that is missing goes on as its parent did.                       *)
LEMMA PPassers ==
  ASSUME NEW k \in Nat, NEW x \in PProcess(k), x.i <= 3, Len(cmds) = 4
  PROVE  LET y == P!NextStage(x, x.stdout)
         IN  y \in PProcess(k) /\ PPassing(x, y)
<1>1. x.i + 1 \in 1 .. 4
  BY DEF PProcess
<1>2. {"spawn", "last"} \subseteq PPlaces
  BY DEF PPlaces
<1> QED BY <1>1, <1>2 DEF PProcess, P!NextStage, PPassing, PNext, PRest

(* What a process is once exec has worked, after a dup2 to standard input.  *)
LEMMA PRunners ==
  ASSUME PTyped, NEW k \in Nat, NEW x \in PProcess(k), NEW c \in P!Kinds, NEW in \in 0 .. k
  PROVE  LET y == P!Executes([x EXCEPT !.stdin = in], c)
         IN  y \in PProcess(k) /\ PRunning(x, y, c, in)
<1>1. (IF c = "source" THEN P!Numbers ELSE <<>>) \in Seq(Nat)
  BY PNumbers
<1>2. "run" \in PPlaces
  BY DEF PPlaces
<1> QED BY <1>1, <1>2 DEF PProcess, P!Executes, PRunning

(* What a process is once exec has worked.                                  *)
LEMMA PSimpleRunners ==
  ASSUME PTyped, NEW k \in Nat, NEW x \in PProcess(k), NEW c \in P!Kinds
  PROVE  LET y == P!Executes(x, c)
         IN  y \in PProcess(k) /\ PRunning(x, y, c, x.stdin)
<1>1. (IF c = "source" THEN P!Numbers ELSE <<>>) \in Seq(Nat)
  BY PNumbers
<1>2. "run" \in PPlaces
  BY DEF PPlaces
<1> QED BY <1>1, <1>2 DEF PProcess, P!Executes, PRunning

(* The three steps of multi_pipes.c.                                        *)
PNewPipe ==
  /\ Len(pPipe') = Len(pPipe) + 1 /\ Len(pPipe'[Len(pPipe) + 1]) = 0
  /\ \A p \in 1 .. Len(pPipe) : pPipe'[p] = pPipe[p]
PAlone(q) == \A r \in 1 .. Len(proc) : r # q => proc'[r] = proc[r]
PStill == UNCHANGED <<program, cmds, output, lines, shown>>
PForked(q) ==
  /\ proc[q].at = "spawn" /\ PNewPipe /\ PStill /\ PAlone(q) /\ PParent(proc[q], proc'[q], Len(pPipe) + 1)
  /\ \/ Len(proc') = Len(proc) + 1 /\ failed' = failed
        /\ PChildOf(proc[q], proc'[Len(proc) + 1], Len(pPipe) + 1)
     \/ Len(proc') = Len(proc) /\ failed' = failed + 1
PExecuted(q) ==
  /\ proc[q].at = "exec" /\ Len(proc') = Len(proc) /\ PAlone(q) /\ PStill /\ UNCHANGED <<pPipe, failed>>
  /\ IF cmds[proc[q].i] = "missing" THEN PPassing(proc[q], proc'[q])
     ELSE PRunning(proc[q], proc'[q], cmds[proc[q].i], proc[q].stdin)
PExecutedLast(q) ==
  /\ proc[q].at = "last" /\ Len(proc') = Len(proc) /\ PAlone(q) /\ PStill /\ UNCHANGED <<pPipe, failed>>
  /\ IF cmds[4] = "missing" THEN proc'[q] = P!Exits(proc[q])
     ELSE PRunning(proc[q], proc'[q], cmds[4], proc[q].in)

(* The types, in a step that opens a pipe.                                  *)
LEMMA PTypedGrows ==
  ASSUME PTyped, pPipe' = Append(pPipe, <<>>), PStill, failed' \in Nat,
         proc' \in Seq(PProcess(Len(pPipe) + 1)), Len(proc') >= 1
  PROVE  PTyped' /\ PNewPipe
<1>1. /\ pPipe' \in Seq(Seq(Nat)) /\ Len(pPipe') = Len(pPipe) + 1
      /\ \A p \in 1 .. Len(pPipe) : pPipe'[p] = pPipe[p]
      /\ Len(pPipe'[Len(pPipe) + 1]) = 0
      /\ \A p \in 1 .. Len(pPipe') : Len(pPipe'[p]) <= Capacity
  BY PPipeOpens
<1> QED BY <1>1 DEF PTyped, PStill, PNewPipe

(* Spawn, by what it does to the records.                                   *)
LEMMA PSpawnEffect ==
  ASSUME PTyped, PMulti, NEW q \in 1 .. Len(proc), P!Spawn(q)
  PROVE  PTyped' /\ PForked(q)
<1> DEFINE k == Len(pPipe)
           parent == [P!NextStage(proc[q], k + 1) EXCEPT !.fds = @ \cup {P!R(k + 1)}]
           child == P!StageOf(proc[q], k + 1)
<1>1. k \in Nat /\ proc[q] \in PProcess(k) /\ Len(proc) \in Nat /\ Len(proc) >= 1 /\ failed \in Nat
  BY PPipesNumbers DEF PTyped
<1>2. proc[q].at = "spawn" /\ proc[q].i <= 3 /\ Len(cmds) = 4
  BY DEF P!Spawn, PMulti, PStage, PFour
<1>3. pPipe' = Append(pPipe, <<>>) /\ PStill
  BY DEF P!Spawn, PStill
<1>4. parent \in PProcess(k + 1) /\ PParent(proc[q], parent, k + 1)
  BY <1>1, <1>2, PParents
<1>5. child \in PProcess(k + 1) /\ PChildOf(proc[q], child, k + 1)
  BY <1>1, PChildren
<1>6. proc \in Seq(PProcess(k + 1))
  BY <1>1, PProcsGrow DEF PTyped
<1>7. P!Forks(q, parent, child) \/ P!ForkFails(q, parent)
  BY DEF P!Spawn
<1> HIDE DEF parent, child
<1>8. CASE P!Forks(q, parent, child)
  <2>1. proc' \in Seq(PProcess(k + 1)) /\ PGrow(q, parent, child) /\ failed' = failed
    BY <1>4, <1>5, <1>6, <1>8, PGrowing DEF P!Forks
  <2>2. PTyped' /\ PNewPipe
    BY <1>1, <1>3, <2>1, PTypedGrows DEF PGrow
  <2> QED BY <1>2, <1>3, <1>4, <1>5, <2>1, <2>2 DEF PForked, PGrow, PAlone
<1>9. CASE P!ForkFails(q, parent)
  <2>1. proc' \in Seq(PProcess(k + 1)) /\ PSet(q, parent) /\ failed' = failed + 1
    BY <1>4, <1>6, <1>9, PSetting DEF P!ForkFails
  <2>2. PTyped' /\ PNewPipe
    BY <1>1, <1>3, <2>1, PTypedGrows DEF PSet
  <2> QED BY <1>2, <1>3, <1>4, <2>1, <2>2 DEF PForked, PSet, PAlone
<1> QED BY <1>7, <1>8, <1>9

(* ExecStage, by what it does to the records.                               *)
LEMMA PExecEffect ==
  ASSUME PTyped, PMulti, NEW q \in 1 .. Len(proc), P!ExecStage(q)
  PROVE  PTyped' /\ PExecuted(q)
<1> DEFINE k == Len(pPipe)
           c == cmds[proc[q].i]
           next == P!NextStage(proc[q], proc[q].stdout)
           me == IF c = "missing" THEN next ELSE P!Executes(proc[q], c)
<1>1. k \in Nat /\ proc[q] \in PProcess(k)
  BY PPipesNumbers
<1>2. proc[q].at = "exec" /\ proc[q].i <= 3 /\ Len(cmds) = 4
  BY DEF P!ExecStage, PMulti, PStage, PFour
<1>3. proc[q].i \in 1 .. 4
  BY <1>1, PFields
<1>4. c \in P!Kinds
  <2>1. cmds \in Seq(P!Kinds)
    BY DEF PTyped
  <2> QED BY <1>2, <1>3, <2>1
<1>5. next \in PProcess(k) /\ PPassing(proc[q], next)
  BY <1>1, <1>2, PPassers
<1>6. P!Executes(proc[q], c) \in PProcess(k) /\ PRunning(proc[q], P!Executes(proc[q], c), c, proc[q].stdin)
  BY <1>1, <1>4, PSimpleRunners
<1>7. me \in PProcess(k)
  BY <1>5, <1>6
<1>8. P!Becomes(q, me) /\ UNCHANGED <<program, cmds, output, pPipe, shown, lines>>
  BY DEF P!ExecStage
<1> HIDE DEF me
<1>9. PTyped' /\ PSet(q, me) /\ PFrame
  BY <1>7, <1>8, PBecoming
<1> QED
  <2>1. IF c = "missing" THEN PPassing(proc[q], proc'[q])
        ELSE PRunning(proc[q], proc'[q], c, proc[q].stdin)
    BY <1>5, <1>6, <1>9 DEF me, PSet
  <2> QED BY <1>2, <1>8, <1>9, <2>1 DEF PSet, PFrame, PExecuted, PAlone, PStill

(* ExecLast, by what it does to the records.                                *)
LEMMA PExecLastEffect ==
  ASSUME PTyped, PMulti, NEW q \in 1 .. Len(proc), P!ExecLast(q)
  PROVE  PTyped' /\ PExecutedLast(q)
<1> DEFINE k == Len(pPipe)
           c == cmds[4]
           runner == P!Executes([proc[q] EXCEPT !.stdin = proc[q].in], c)
           me == IF c = "missing" THEN P!Exits(proc[q]) ELSE runner
<1>1. k \in Nat /\ proc[q] \in PProcess(k)
  BY PPipesNumbers
<1>2. proc[q].at = "last" /\ Len(cmds) = 4
  BY DEF P!ExecLast, PMulti, PFour
<1>3. proc[q].in \in 0 .. k
  BY <1>1, PFields
<1>4. c \in P!Kinds
  <2>1. cmds \in Seq(P!Kinds)
    BY DEF PTyped
  <2>2. \A j \in 1 .. Len(cmds) : cmds[j] \in P!Kinds
    BY <2>1
  <2>3. 4 \in 1 .. Len(cmds)
    BY <1>2
  <2> QED BY <2>2, <2>3
<1>5. P!Exits(proc[q]) \in PProcess(k)
  BY <1>1, PExiting
<1>6. runner \in PProcess(k) /\ PRunning(proc[q], runner, c, proc[q].in)
  BY <1>1, <1>3, <1>4, PRunners
<1>7. me \in PProcess(k)
  BY <1>5, <1>6
<1>8. P!Becomes(q, me) /\ UNCHANGED <<program, cmds, output, pPipe, shown, lines>>
  BY <1>2 DEF P!ExecLast
<1> HIDE DEF me
<1>9. PTyped' /\ PSet(q, me) /\ PFrame
  BY <1>7, <1>8, PBecoming
<1> QED
  <2>1. IF c = "missing" THEN proc'[q] = P!Exits(proc[q])
        ELSE PRunning(proc[q], proc'[q], c, proc[q].in)
    BY <1>6, <1>9 DEF me, PSet
  <2> QED BY <1>2, <1>8, <1>9, <2>1 DEF PSet, PFrame, PExecutedLast, PAlone, PStill

-----------------------------------------------------------------------------
POk(q) == PStage(q) /\ PEmpties(q) /\ PHasReader(q) /\ PNoWriters(q)

(* Who does not go on keeps its part of PMulti.                             *)
LEMMA POkSame ==
  ASSUME NEW r, proc'[r] = proc[r], cmds' = cmds, POk(r)
  PROVE  POk(r)'
BY DEF POk, PStage, PEmpties, PHasReader, PNoWriters

(* Spawn: parent and child keep every pipe they write to readable.          *)
LEMMA POkSpawns ==
  ASSUME PTyped, PMulti, NEW q \in 1 .. Len(proc), PForked(q)
  PROVE  PMulti'
<1> DEFINE new == Len(pPipe) + 1
<1>1. proc[q] \in PProcess(Len(pPipe)) /\ Len(pPipe) \in Nat /\ Len(proc) \in Nat /\ POk(q) /\ cmds' = cmds
  BY PPipesNumbers DEF PMulti, PForked, PStill, POk
<1>2. proc[q].at = "spawn" /\ PParent(proc[q], proc'[q], new) /\ proc[q].i \in 1 .. 3 /\ proc[q].stdout \in Nat
  BY <1>1, PFields DEF PForked, POk, PStage
<1>3. PEmpties(q)' /\ PStage(q)'
  BY <1>1, <1>2 DEF PParent, PRest, PNext, POk, PStage, PEmpties
<1>4. PHasReader(q)' /\ PNoWriters(q)'
  BY <1>1, <1>2, PEndsDiffer DEF PParent, PRest, POk, PHasReader, PNoWriters
<1>5. ASSUME NEW c \in Nat, c = Len(proc) + 1, PChildOf(proc[q], proc'[c], new)
      PROVE  POk(c)'
  <2>1. c # 1 /\ new # 0
    BY <1>1, <1>5
  <2>2. PEmpties(c)'
    <3>1. Len(proc[q].buf) = 0 /\ ~proc[q].eof
      BY <1>1, <1>2 DEF POk, PEmpties
    <3>2. proc'[c].buf = proc[q].buf /\ proc'[c].eof = proc[q].eof
      BY <1>5 DEF PChildOf
    <3> QED BY <3>1, <3>2 DEF PEmpties
  <2>4. proc[q].i > 1 => proc[q].in # 0
    BY <1>1, <1>2 DEF POk, PStage
  <2>5. PStage(c)'
    BY <1>2, <1>5, <2>1, <2>4 DEF PChildOf, PStage
  <2>3. PHasReader(c)' /\ PNoWriters(c)'
    BY <1>1, <1>2, <1>5, PEndsDiffer DEF PChildOf, POk, PHasReader, PNoWriters
  <2> QED BY <2>2, <2>3, <2>5 DEF POk
<1>6. \A r \in 1 .. Len(proc) : POk(r)'
  <2> SUFFICES ASSUME NEW r \in 1 .. Len(proc), r # q PROVE POk(r)'
    BY <1>3, <1>4 DEF POk
  <2> QED BY <1>1, POkSame DEF PMulti, PForked, PAlone, POk
<1>7. \A r \in 1 .. Len(proc') : POk(r)'
  <2> SUFFICES ASSUME NEW r \in 1 .. Len(proc'), r \notin 1 .. Len(proc) PROVE POk(r)'
    BY <1>6
  <2>1. r = Len(proc) + 1 /\ PChildOf(proc[q], proc'[r], new)
    BY <1>1 DEF PForked
  <2> QED BY <1>5, <2>1
<1>8. PFour'
  BY <1>1 DEF PMulti, PFour
<1> QED BY <1>7, <1>8 DEF PMulti, POk

(* A step that changes process q alone and forks nobody.                    *)
LEMMA POkAlone ==
  ASSUME PMulti, NEW q \in 1 .. Len(proc), Len(proc') = Len(proc), PAlone(q), cmds' = cmds, POk(q)'
  PROVE  PMulti'
<1>1. \A r \in 1 .. Len(proc') : POk(r)'
  <2> SUFFICES ASSUME NEW r \in 1 .. Len(proc), r # q PROVE POk(r)'
    OBVIOUS
  <2> QED BY POkSame DEF PMulti, PAlone, POk
<1>2. PFour'
  BY DEF PMulti, PFour
<1> QED BY <1>1, <1>2 DEF PMulti, POk

(* ExecStage, missing or not, keeps PMulti.                                 *)
LEMMA POkExecutes ==
  ASSUME PTyped, PMulti, NEW q \in 1 .. Len(proc), PExecuted(q)
  PROVE  PMulti'
<1>1. proc[q] \in PProcess(Len(pPipe)) /\ POk(q) /\ cmds' = cmds
  BY PPipesNumbers DEF PMulti, PExecuted, PStill, POk
<1>2. proc[q].at = "exec" /\ proc[q].i \in 1 .. 3 /\ proc[q].stdout \in Nat
  BY <1>1, PFields DEF PExecuted, POk, PStage
<1>3. CASE cmds[proc[q].i] = "missing"
  <2>1. PPassing(proc[q], proc'[q])
    BY <1>3 DEF PExecuted
  <2>2. PEmpties(q)' /\ PStage(q)'
    BY <1>1, <1>2, <2>1 DEF PPassing, PRest, PNext, POk, PStage, PEmpties
  <2>3. PHasReader(q)' /\ PNoWriters(q)'
    BY <1>1, <2>1 DEF PPassing, PRest, POk, PHasReader, PNoWriters
  <2> QED BY <1>1, <2>2, <2>3, POkAlone DEF POk, PExecuted
<1>4. CASE cmds[proc[q].i] # "missing"
  <2>1. PRunning(proc[q], proc'[q], cmds[proc[q].i], proc[q].stdin)
    BY <1>4 DEF PExecuted
  <2>2. PEmpties(q)' /\ PStage(q)'
    BY <1>1, <1>2, <1>4, <2>1 DEF PRunning, POk, PStage, PEmpties
  <2>3. PHasReader(q)' /\ PNoWriters(q)'
    BY <1>1, <2>1 DEF PRunning, POk, PHasReader, PNoWriters
  <2> QED BY <1>1, <2>2, <2>3, POkAlone DEF POk, PExecuted
<1> QED BY <1>3, <1>4

(* ExecLast keeps PMulti.                                                   *)
LEMMA POkExecutesLast ==
  ASSUME PTyped, PMulti, NEW q \in 1 .. Len(proc), PExecutedLast(q)
  PROVE  PMulti'
<1>1. proc[q] \in PProcess(Len(pPipe)) /\ POk(q) /\ cmds' = cmds /\ Len(pPipe) \in Nat
  BY PPipesNumbers DEF PMulti, PExecutedLast, PStill, POk
<1>2. proc[q].at = "last" /\ proc[q].i = 4 /\ proc[q].in # 0
  BY <1>1, PFields DEF PExecutedLast, POk, PStage
<1>3. CASE cmds[4] = "missing"
  <2>1. /\ proc'[q].at = "ended" /\ proc'[q].i = proc[q].i /\ proc'[q].fds = proc[q].fds
        /\ proc'[q].stdout = proc[q].stdout /\ proc'[q].buf = proc[q].buf
    BY <1>1, <1>3, PExiting DEF PExecutedLast
  <2>2. PEmpties(q)' /\ PStage(q)'
    BY <1>1, <1>2, <1>3, <2>1 DEF POk, PStage, PEmpties
  <2>3. PHasReader(q)' /\ PNoWriters(q)'
    BY <1>1, <2>1 DEF POk, PHasReader, PNoWriters
  <2> QED BY <1>1, <2>2, <2>3, POkAlone DEF POk, PExecutedLast
<1>4. CASE cmds[4] # "missing"
  <2>1. PRunning(proc[q], proc'[q], cmds[4], proc[q].in)
    BY <1>4 DEF PExecutedLast
  <2>2. PEmpties(q)' /\ PStage(q)'
    BY <1>1, <1>2, <1>4, <2>1 DEF PRunning, POk, PStage, PEmpties
  <2>3. PHasReader(q)' /\ PNoWriters(q)'
    BY <1>1, <2>1 DEF PRunning, POk, PHasReader, PNoWriters
  <2> QED BY <1>1, <2>2, <2>3, POkAlone DEF POk, PExecutedLast
<1> QED BY <1>3, <1>4

(* So does what is read and written.                                        *)
LEMMA POkTouches ==
  ASSUME PMulti, NEW q \in 1 .. Len(proc), proc[q].at = "run", NEW b, NEW e,
         PTouches(q, b, e), cmds' = cmds
  PROVE  PMulti'
<1>1. POk(q) /\ PSame(proc[q], proc'[q]) /\ Len(proc') = Len(proc) /\ PAlone(q)
  BY DEF PMulti, POk, PTouches, PAlone
<1>2. POk(q)'
  BY <1>1 DEF POk, PSame, PStage, PEmpties, PHasReader, PNoWriters
<1> QED BY <1>1, <1>2, POkAlone

(* A command ends for its end of file, or as the first or last one.         *)
LEMMA POkFinishes ==
  ASSUME PTyped, PMulti, NEW q \in 1 .. Len(proc), PFinishes(q)
  PROVE  PMulti'
<1>1. proc[q] \in PProcess(Len(pPipe)) /\ POk(q) /\ cmds' = cmds /\ Len(pPipe) \in Nat /\ PFour
  BY PPipesNumbers DEF PMulti, PFinishes, PEnding, PFrame, POk
<1>2. /\ proc'[q].at = "ended" /\ proc'[q].i = proc[q].i /\ proc'[q].fds = proc[q].fds
      /\ proc'[q].stdout = proc[q].stdout /\ proc'[q].buf = proc[q].buf /\ proc'[q].eof = proc[q].eof
      /\ proc[q].i \in 1 .. 4
  BY <1>1, PExiting, PFields DEF PFinishes, PEnding, PSet
<1>3. proc[q].i = 1 \/ proc[q].eof
  BY <1>1, <1>2 DEF PFinishes, P!Reads, POk, PStage, PFour
<1>4. PEmpties(q)' /\ PStage(q)'
  BY <1>1, <1>2, <1>3 DEF PFinishes, POk, PStage, PEmpties
<1>5. PHasReader(q)' /\ PNoWriters(q)'
  BY <1>1, <1>2 DEF POk, PHasReader, PNoWriters
<1> QED BY <1>1, <1>4, <1>5, POkAlone DEF POk, PFinishes, PEnding, PSet, PAlone

(* No stage gets SIGPIPE: it holds the read end itself.                     *)
LEMMA PMultiUnbroken ==
  ASSUME PMulti, NEW q \in 1 .. Len(proc)
  PROVE  ~PBreaks(q)
BY DEF PMulti, PHasReader, PBreaks, P!Holds, P!Ended

(* Every step of multi_pipes, and what it does.                             *)
PMoves(q) ==
  \/ PForked(q) \/ PExecuted(q) \/ PExecutedLast(q)
  \/ PTakes(q) \/ PSeesEnd(q) \/ PPrints(q) \/ PPuts(q) \/ PFinishes(q)

(* A step of any process of multi_pipes is one of PMoves.                   *)
LEMMA PMultiStep ==
  ASSUME PTyped, PMulti, program = "multi_pipes", NEW q \in 1 .. Len(proc), P!Enter(q) \/ P!Step(q)
  PROVE  PTyped' /\ PMulti' /\ PMoves(q) /\ program' = program /\ cmds' = cmds /\ output' = output
<1> USE DEF PMoves
<1>0. proc[q].at \in {"spawn", "last", "exec", "run", "ended"}
  BY DEF PMulti, PStage
<1>1. CASE P!Spawn(q)
  <2>1. PTyped' /\ PForked(q)
    BY <1>1, PSpawnEffect
  <2> QED BY <2>1, POkSpawns DEF PForked, PStill
<1>2. CASE P!ExecStage(q)
  <2>1. PTyped' /\ PExecuted(q)
    BY <1>2, PExecEffect
  <2> QED BY <2>1, POkExecutes DEF PExecuted, PStill
<1>3. CASE P!ExecLast(q)
  <2>1. PTyped' /\ PExecutedLast(q)
    BY <1>3, PExecLastEffect
  <2> QED BY <2>1, POkExecutesLast DEF PExecutedLast, PStill
<1>4. CASE P!ReadPipe(q)
  <2>1. PTyped' /\ (PTakes(q) \/ PSeesEnd(q))
    BY <1>4, PReadEffect
  <2> QED BY <2>1, POkTouches DEF PTakes, PSeesEnd, PFrame, P!Reads
<1>5. CASE P!WriteOut(q)
  <2>1. PTyped' /\ (PPrints(q) \/ PPuts(q))
    BY <1>5, PWriteEffect, PMultiUnbroken
  <2> QED BY <2>1, POkTouches DEF PPrints, PPuts, PFrame
<1>6. CASE P!Finish(q)
  <2>1. PTyped' /\ PFinishes(q)
    BY <1>6, PFinishEffect
  <2> QED BY <2>1, POkFinishes DEF PFinishes, PEnding, PFrame
<1>7. P!Spawn(q) \/ P!ExecStage(q) \/ P!ExecLast(q) \/ P!ReadPipe(q) \/ P!WriteOut(q) \/ P!Finish(q)
  BY <1>0 DEF P!Enter, P!Step, P!ForkLs, P!ExecLs, P!WaitAndExecWc, P!ForkFirst, P!ForkSecond,
     P!ExecCommand, P!ShellWaits
<1> QED BY <1>1, <1>2, <1>3, <1>4, <1>5, <1>6, <1>7

(* When one process goes on in its row, the rows stay.                      *)
LEMMA PTidyAlone ==
  ASSUME PAllThere => \A q \in 1 .. Len(proc) : PTidyStage(q), NEW q \in 1 .. Len(proc),
         Len(proc') = Len(proc), PAlone(q), cmds' = cmds, Len(pPipe') = Len(pPipe),
         PAllThere => PTidyStage(q)'
  PROVE  PTidy'
<1> SUFFICES ASSUME PAllThere, NEW r \in 1 .. Len(proc') PROVE PTidyStage(r)'
  BY DEF PTidy, PAllThere
<1> QED BY DEF PAlone, PTidyStage

(* Every step keeps the rows of a pipeline whose first three commands       *)
(* exist.                                                                   *)
LEMMA PTidyKept ==
  ASSUME PTyped, PMulti, PTidy, NEW q \in 1 .. Len(proc), PMoves(q)
  PROVE  PTidy'
<1>1. /\ proc[q] \in PProcess(Len(pPipe)) /\ Len(pPipe) \in Nat /\ Len(proc) \in Nat /\ Len(proc) >= 1
      /\ POk(q) /\ (PAllThere => PTidyStage(q)) /\ proc[q].i \in 1 .. 4
  BY PPipesNumbers, PFields DEF PMulti, POk, PTidy
<1>2. CASE PForked(q)
  <2> SUFFICES ASSUME PAllThere, NEW r \in 1 .. Len(proc') PROVE PTidyStage(r)'
    BY <1>2 DEF PTidy, PAllThere, PForked, PStill
  <2>1. q = 1 /\ proc[q].i = Len(pPipe) + 1 /\ proc[q].in = Len(pPipe) /\ proc[q].i <= 3
        /\ Len(pPipe') = Len(pPipe) + 1
    BY <1>1, <1>2 DEF PTidyStage, PForked, POk, PStage, PNewPipe
  <2>2. CASE r = 1
    BY <1>1, <1>2, <2>1, <2>2 DEF PForked, PParent, PNext, PTidyStage
  <2>3. CASE r \in 2 .. Len(proc)
    <3>1. proc'[r] = proc[r] /\ PTidyStage(r)
      BY <1>1, <1>2, <2>1, <2>3 DEF PForked, PAlone, PTidy
    <3>2. proc[r].i \in Nat
      BY <2>3, <1>1, PPipesNumbers, PFields
    <3> QED BY <1>1, <2>1, <2>3, <3>1, <3>2 DEF PTidyStage
  <2>4. CASE r \notin 1 .. Len(proc)
    <3>1. r = Len(proc) + 1 /\ PChildOf(proc[q], proc'[r], Len(pPipe) + 1)
      BY <1>1, <1>2, <2>4 DEF PForked
    <3>2. /\ proc'[r].at = "exec" /\ proc'[r].i = Len(pPipe) + 1 /\ proc'[r].stdout = Len(pPipe) + 1
          /\ proc'[r].stdin = (IF Len(pPipe) # 0 THEN Len(pPipe) ELSE proc[q].stdin)
      BY <2>1, <3>1 DEF PChildOf
    <3>3. r # 1 /\ Len(pPipe) + 1 <= 3
      BY <1>1, <2>1, <3>1
    <3> QED BY <1>1, <2>1, <3>2, <3>3 DEF PTidyStage
  <2> QED BY <1>1, <2>2, <2>3, <2>4
<1>3. CASE PExecuted(q)
  <2>1. PAllThere => PTidyStage(q)'
    <3> HAVE PAllThere
    <3>1. q # 1 /\ proc[q].i \in 1 .. 3 /\ cmds[proc[q].i] # "missing"
      BY <1>1, <1>3 DEF PExecuted, POk, PStage, PAllThere
    <3> QED BY <1>1, <1>3, <3>1 DEF PExecuted, PRunning, PTidyStage
  <2> QED BY <1>3, <2>1, PTidyAlone DEF PExecuted, PStill, PTidy
<1>4. CASE PExecutedLast(q)
  <2>1. PAllThere => PTidyStage(q)'
    <3> HAVE PAllThere
    <3>1. q = 1 /\ proc[q].i = 4 /\ proc[q].in = 3 /\ Len(pPipe) = 3
      <4>1. proc[q].at = "last"
        BY <1>4 DEF PExecutedLast
      <4>2. proc[q].i = 4 /\ PTidyStage(q)
        BY <1>1, <4>1 DEF POk, PStage
      <4>3. q = 1
        BY <4>1, <4>2 DEF PTidyStage
      <4>4. proc[q].i = Len(pPipe) + 1 /\ proc[q].in = Len(pPipe) /\ Len(pPipe) \in Nat
        BY <1>1, <4>2, <4>3 DEF PTidyStage
      <4>5. Len(pPipe) + 1 = 4
        BY <4>2, <4>4
      <4>6. Len(pPipe) = 3
        <5>1. \A k \in Nat : k + 1 = 4 => k = 3
          OBVIOUS
        <5> QED BY <4>4, <4>5, <5>1
      <4> QED BY <4>2, <4>3, <4>4, <4>6
    <3>2. proc'[q].i = proc[q].i /\ proc'[q].in = proc[q].in
          /\ (proc'[q].at = "ended" \/ (proc'[q].at = "run" /\ proc'[q].stdin = proc[q].in))
      <4>1. CASE cmds[4] = "missing"
        <5>1. proc'[q] = P!Exits(proc[q])
          BY <1>4, <4>1 DEF PExecutedLast
        <5> QED BY <1>1, <5>1, PExiting
      <4>2. CASE cmds[4] # "missing"
        BY <1>4, <4>2 DEF PExecutedLast, PRunning
      <4> QED BY <4>1, <4>2
    <3> QED BY <1>1, <1>4, <3>1, <3>2 DEF PExecutedLast, PTidyStage
  <2> QED BY <1>4, <2>1, PTidyAlone DEF PExecutedLast, PStill, PTidy
<1>5. ASSUME NEW b, NEW e, PTouches(q, b, e), cmds' = cmds, Len(pPipe') = Len(pPipe)
      PROVE  PTidy'
  <2>1. PAllThere => PTidyStage(q)'
    BY <1>1, <1>5 DEF PTouches, PSame, PTidyStage
  <2> QED BY <1>5, <2>1, PTidyAlone DEF PTouches, PAlone, PTidy
<1>6. CASE PTakes(q) \/ PSeesEnd(q) \/ PPrints(q) \/ PPuts(q)
  <2>1. Len(pPipe') = Len(pPipe)
    <3>1. pPipe \in Seq(Seq(Nat))
      BY DEF PTyped
    <3>2. CASE PTakes(q)
      BY <3>1, <3>2 DEF PTakes
    <3>3. CASE PPuts(q)
      BY <3>1, <3>3 DEF PPuts
    <3> QED BY <1>6, <3>2, <3>3 DEF PSeesEnd, PPrints
  <2> QED BY <1>5, <1>6, <2>1 DEF PTakes, PSeesEnd, PPrints, PPuts, PFrame
<1>7. CASE PFinishes(q)
  <2>1. /\ proc'[q].at = "ended" /\ proc'[q].i = proc[q].i /\ proc'[q].in = proc[q].in
        /\ proc'[q].stdin = proc[q].stdin /\ proc'[q].stdout = proc[q].stdout
    BY <1>1, <1>7, PExiting DEF PFinishes, PEnding, PSet
  <2>2. PAllThere => PTidyStage(q)'
    BY <1>1, <1>7, <2>1 DEF PFinishes, PEnding, PTidyStage
  <2> QED BY <1>7, <2>2, PTidyAlone DEF PFinishes, PEnding, PFrame, PSet, PAlone, PTidy
<1> QED BY <1>2, <1>3, <1>4, <1>6, <1>7 DEF PMoves

(* In rows, only the stage before holds the write end.                      *)
LEMMA PMultiOneWriter ==
  ASSUME PTyped, PMulti, PTidy, program = "multi_pipes"
  PROVE  P!OneWriter
<1> SUFFICES ASSUME P!Missing \subseteq {4}, NEW q \in 1 .. Len(proc), NEW r \in 1 .. Len(proc),
                    P!Reads(q), P!Holds(r, P!W(proc[q].stdin))
             PROVE  proc[r].i = proc[q].i - 1
  BY DEF P!OneWriter, P!Procs
<1>1. /\ POk(q) /\ POk(r) /\ PFour /\ proc[q].i \in 1 .. 4 /\ proc[q].stdin \in Nat /\ proc[r].stdout \in Nat
  BY PPipesNumbers, PFields DEF PMulti, POk
<1>2. PAllThere
  <2>1. \A k \in 1 .. 4 : cmds[k] = "missing" => k = 4
    BY <1>1 DEF P!Missing, PFour, PTyped
  <2> QED BY <2>1 DEF PAllThere
<1>3. PTidyStage(q) /\ PTidyStage(r) /\ Len(pPipe) \in Nat
  BY <1>2, PPipesNumbers DEF PTidy
<1>4. proc[q].at = "run" /\ proc[q].i > 1 /\ proc[q].stdin # 0
  BY <1>1 DEF P!Reads, POk, PStage, PFour
<1>5. proc[r].stdout = proc[q].stdin
  BY <1>1, PEndsDiffer DEF P!Holds, POk, PNoWriters
<1>6. proc[q].stdin = proc[q].i - 1
  BY <1>1, <1>3, <1>4 DEF PTidyStage
<1>7. r # 1
  BY <1>1, <1>4, <1>5 DEF POk, PStage
<1> QED BY <1>3, <1>5, <1>6, <1>7 DEF PTidyStage

(* A stage can always read what it writes.                                  *)
LEMMA PMultiNeverBroken ==
  ASSUME PTyped, PMulti
  PROVE  P!NeverBroken
BY DEF PMulti, PHasReader, P!NeverBroken, P!Holds, P!Ended, P!Procs

(* When one process goes on beyond the dry stage, all stays dry.            *)
LEMMA PDryAlone ==
  ASSUME NEW f, PDry(f), NEW q \in 1 .. Len(proc),
         Len(proc') = Len(proc), PAlone(q), cmds' = cmds, Len(pPipe') = Len(pPipe), shown' = shown,
         \A p \in 1 .. Len(pPipe) : p >= f => pPipe'[p] = pPipe[p],
         PDryStage(f, q)'
  PROVE  PDry(f)'
<1>1. \A r \in 1 .. Len(proc') : PDryStage(f, r)'
  <2> SUFFICES ASSUME NEW r \in 1 .. Len(proc), r # q PROVE PDryStage(f, r)'
    OBVIOUS
  <2>1. PDryStage(f, r) /\ proc'[r] = proc[r]
    BY DEF PDry, PAlone
  <2> QED BY <2>1 DEF PDryStage, PBelow
<1>2. \A p \in 1 .. Len(pPipe') : p >= f => Len(pPipe'[p]) = 0
  BY DEF PDry
<1> QED BY <1>1, <1>2 DEF PDry

(* Spawn leaves dry what is dry.                                            *)
LEMMA PDryForked ==
  ASSUME PTyped, PMulti, NEW f \in 1 .. 3, cmds[f] = "missing" \/ PAllThere, PDry(f),
         NEW q \in 1 .. Len(proc), PForked(q)
  PROVE  PDry(f)'
<1> DEFINE new == Len(pPipe) + 1
<1>1. /\ Len(pPipe) \in Nat /\ Len(proc) \in Nat /\ POk(q) /\ PFour /\ proc[q].at = "spawn"
      /\ proc[q].i \in 1 .. 4 /\ proc[q].in \in 0 .. Len(pPipe) /\ proc[q].stdout \in Nat
      /\ proc[q].i <= 3
  <2>1. proc[q] \in PProcess(Len(pPipe)) /\ Len(pPipe) \in Nat /\ Len(proc) \in Nat
    BY PPipesNumbers
  <2>2. POk(q) /\ PFour /\ proc[q].at = "spawn"
    BY DEF PMulti, PForked, POk
  <2> QED BY <2>1, <2>2, PFields DEF POk, PStage
<1>2. PDryStage(f, q) /\ ~PBelow(f, q)
  BY <1>1 DEF PDry, PDryStage
<1>3. \/ proc[q].i > f /\ proc[q].in >= f
      \/ /\ q = 1 /\ cmds[f] = "missing"
         /\ proc[q].i <= f /\ proc[q].in = proc[q].i - 1 /\ Len(pPipe) = proc[q].i - 1
  BY <1>1, <1>2 DEF PDryStage
<1>4. new >= f \/ (new = proc[q].i /\ cmds[f] = "missing" /\ q = 1)
  BY <1>1, <1>3
<1>5. \A p \in 1 .. Len(pPipe') : p >= f => Len(pPipe'[p]) = 0
  <2> SUFFICES ASSUME NEW p \in 1 .. Len(pPipe'), p >= f PROVE Len(pPipe'[p]) = 0
    OBVIOUS
  <2>1. CASE p \in 1 .. Len(pPipe)
    BY <2>1 DEF PForked, PNewPipe, PDry
  <2>2. CASE p \notin 1 .. Len(pPipe)
    <3>1. p = new
      BY <1>1, <2>2 DEF PForked, PNewPipe
    <3> QED BY <3>1 DEF PForked, PNewPipe
  <2> QED BY <2>1, <2>2
<1>6. PParent(proc[q], proc'[q], new) /\ Len(pPipe') = new /\ cmds' = cmds
  BY DEF PForked, PNewPipe, PStill
<1>7. PDryStage(f, q)'
  <2>1. ~PBelow(f, q)' /\ Len(proc'[q].buf) = 0
    BY <1>1, <1>2, <1>6 DEF PParent, PRest, PBelow, POk, PEmpties
  <2>2. proc'[q].at \in {"spawn", "last"} /\ proc'[q].i = proc[q].i + 1 /\ proc'[q].in = new
    BY <1>6 DEF PParent, PNext
  <2>3. CASE proc[q].i > f
    <3>1. proc'[q].i > f /\ proc'[q].in >= f
      BY <1>1, <1>3, <2>2, <2>3
    <3> QED BY <2>1, <2>2, <3>1 DEF PDryStage
  <2>4. CASE proc[q].i <= f
    <3>1. q = 1 /\ cmds[f] = "missing" /\ new = proc[q].i
      BY <1>1, <1>3, <2>4
    <3>2. CASE proc[q].i = f
      <4>1. proc'[q].i > f /\ proc'[q].in >= f
        BY <1>1, <2>2, <3>1, <3>2
      <4> QED BY <2>1, <2>2, <4>1 DEF PDryStage
    <3>3. CASE proc[q].i < f
      <4>1. proc'[q].i <= f /\ proc'[q].in = proc'[q].i - 1 /\ Len(pPipe') = proc'[q].i - 1
        BY <1>1, <1>6, <2>2, <3>1, <3>3
      <4> QED BY <1>6, <2>1, <2>2, <3>1, <4>1 DEF PDryStage
    <3> QED BY <1>1, <2>4, <3>2, <3>3
  <2> QED BY <1>1, <2>3, <2>4
<1>8. ASSUME NEW r \in 1 .. Len(proc), r # q PROVE PDryStage(f, r)'
  <2>1. PDryStage(f, r) /\ proc'[r] = proc[r]
    BY <1>8 DEF PDry, PForked, PAlone
  <2>2. CASE proc[q].i > f
    <3>1. Len(pPipe) >= f
      BY <1>1, <1>3, <2>2
    <3>2. proc[r].i \in Nat
      BY PPipesNumbers, PFields
    <3>3. ~(proc[r].i <= f /\ Len(pPipe) = proc[r].i - 1)
      BY <1>1, <3>1, <3>2
    <3> QED BY <1>6, <2>1, <3>3 DEF PDryStage, PBelow
  <2>3. CASE proc[q].i <= f
    <3>1. r # 1
      BY <1>1, <1>3, <1>8, <2>3
    <3> QED BY <1>6, <2>1, <3>1 DEF PDryStage, PBelow
  <2> QED BY <1>1, <2>2, <2>3
<1>9. ASSUME NEW c \in Nat, PChildOf(proc[q], proc'[c], new) PROVE PDryStage(f, c)'
  <2>1. /\ proc'[c].at = "exec" /\ proc'[c].stdout = new /\ proc'[c].i = proc[q].i
        /\ Len(proc'[c].buf) = 0
        /\ proc'[c].stdin = (IF proc[q].in # 0 THEN proc[q].in ELSE proc[q].stdin)
    BY <1>1, <1>9 DEF PChildOf, POk, PEmpties
  <2>2. CASE proc[q].i > f
    <3>1. proc'[c].i > f /\ proc'[c].stdin >= f /\ ~(new < f) /\ new # 0
      BY <1>1, <1>3, <2>1, <2>2
    <3>2. cmds[proc'[c].i] # "missing"
      BY <1>1, <2>1, <2>2 DEF PFour, PAllThere
    <3> QED BY <1>6, <2>1, <3>1, <3>2 DEF PDryStage, PBelow
  <2>3. CASE proc[q].i = f
    <3>1. new = f /\ cmds[f] = "missing"
      BY <1>1, <1>3, <2>3
    <3> QED BY <1>1, <1>6, <2>1, <2>3, <3>1 DEF PDryStage, PBelow
  <2>4. CASE proc[q].i < f
    <3>1. new < f /\ new # 0 /\ cmds[f] = "missing"
      BY <1>1, <1>3, <2>4
    <3>2. cmds[proc'[c].i] # "missing"
      BY <1>1, <2>1, <2>4, <3>1 DEF PFour
    <3> QED BY <1>6, <2>1, <3>1, <3>2 DEF PDryStage, PBelow
  <2> QED BY <1>1, <2>2, <2>3, <2>4
<1>10. \A r \in 1 .. Len(proc') : PDryStage(f, r)'
  <2> SUFFICES ASSUME NEW r \in 1 .. Len(proc'), r \notin 1 .. Len(proc) PROVE PDryStage(f, r)'
    BY <1>7, <1>8
  <2>1. r = Len(proc) + 1 /\ PChildOf(proc[q], proc'[r], new)
    BY <1>1 DEF PForked
  <2> QED BY <1>9, <2>1
<1>11. Len(shown') = 0
  BY DEF PForked, PStill, PDry
<1> QED BY <1>5, <1>10, <1>11 DEF PDry

(* So do ExecStage and ExecLast.                                            *)
LEMMA PDryExecuted ==
  ASSUME PTyped, PMulti, NEW f \in 1 .. 3, cmds[f] = "missing" \/ PAllThere, PDry(f),
         NEW q \in 1 .. Len(proc), PExecuted(q) \/ PExecutedLast(q)
  PROVE  PDry(f)'
<1>1. /\ POk(q) /\ PFour /\ PDryStage(f, q) /\ PAlone(q) /\ Len(proc') = Len(proc)
      /\ cmds' = cmds /\ pPipe' = pPipe /\ shown' = shown
      /\ proc[q] \in PProcess(Len(pPipe)) /\ Len(pPipe) \in Nat
  BY PPipesNumbers DEF PMulti, POk, PDry, PExecuted, PExecutedLast, PStill
<1>2. proc[q].i \in 1 .. 4 /\ proc[q].stdout \in Nat /\ proc[q].in \in Nat /\ proc[q].stdin \in Nat
  BY <1>1, PFields
<1>3. PDryStage(f, q)'
  <2>1. CASE PExecuted(q)
    <3>1. proc[q].at = "exec" /\ proc[q].i <= 3 /\ proc[q].stdout # 0
      BY <1>1, <2>1 DEF PExecuted, POk, PStage
    <3>2. CASE cmds[proc[q].i] = "missing"
      <4>1. ~PBelow(f, q) /\ proc[q].i = f /\ Len(proc[q].buf) = 0
        BY <1>1, <3>1, <3>2 DEF PDryStage
      <4>2. proc[q].stdout >= f
        BY <1>2, <3>1, <4>1 DEF PBelow
      <4>3. /\ proc'[q].at \in {"spawn", "last"} /\ proc'[q].i = f + 1 /\ proc'[q].in = proc[q].stdout
            /\ proc'[q].stdout = proc[q].stdout /\ proc'[q].buf = proc[q].buf
        BY <2>1, <3>2, <4>1 DEF PExecuted, PPassing, PRest, PNext
      <4>4. ~PBelow(f, q)' /\ proc'[q].i > f /\ proc'[q].in >= f
        BY <1>2, <4>1, <4>2, <4>3 DEF PBelow
      <4> QED BY <4>1, <4>3, <4>4 DEF PDryStage
    <3>3. CASE cmds[proc[q].i] # "missing"
      <4>1. PRunning(proc[q], proc'[q], cmds[proc[q].i], proc[q].stdin)
        BY <2>1, <3>3 DEF PExecuted
      <4>2. CASE PBelow(f, q)
        <5>1. PBelow(f, q)' /\ proc'[q].at = "run"
          BY <4>1, <4>2 DEF PRunning, PBelow
        <5> QED BY <5>1 DEF PDryStage
      <4>3. CASE ~PBelow(f, q)
        <5>1. proc[q].i > f /\ proc[q].stdin >= f
          BY <1>1, <3>1, <3>3, <4>3 DEF PDryStage
        <5>2. cmds[proc[q].i] # "source"
          BY <1>1, <1>2, <5>1 DEF PFour
        <5>3. Len(proc'[q].buf) = 0 /\ proc'[q].stdin >= f /\ proc'[q].at = "run"
          BY <4>1, <5>1, <5>2 DEF PRunning
        <5>4. ~PBelow(f, q)'
          BY <4>1, <4>3 DEF PRunning, PBelow
        <5> QED BY <5>3, <5>4 DEF PDryStage
      <4> QED BY <4>2, <4>3
    <3> QED BY <3>2, <3>3
  <2>2. CASE PExecutedLast(q)
    <3>1. proc[q].at = "last" /\ proc[q].i = 4
      BY <1>1, <2>2 DEF PExecutedLast, POk, PStage
    <3>2. ~PBelow(f, q) /\ Len(proc[q].buf) = 0 /\ proc[q].in >= f
      <4>1. ~PBelow(f, q)
        BY <1>1, <3>1 DEF PDryStage
      <4>2. ~(proc[q].i <= f)
        BY <3>1
      <4> QED BY <1>1, <3>1, <4>1, <4>2 DEF PDryStage
    <3>3. CASE cmds[4] = "missing"
      <4>1. proc'[q] = P!Exits(proc[q])
        BY <2>2, <3>3 DEF PExecutedLast
      <4>2. proc'[q].at = "ended" /\ proc'[q].stdout = proc[q].stdout /\ proc'[q].buf = proc[q].buf
        BY <1>1, <4>1, PExiting
      <4>3. ~PBelow(f, q)'
        BY <3>2, <4>2 DEF PBelow
      <4> QED BY <3>2, <4>2, <4>3 DEF PDryStage
    <3>4. CASE cmds[4] # "missing"
      <4>1. PRunning(proc[q], proc'[q], cmds[4], proc[q].in) /\ cmds[4] # "source"
        BY <1>1, <2>2, <3>4 DEF PExecutedLast, PFour
      <4>2. Len(proc'[q].buf) = 0 /\ proc'[q].stdin >= f /\ proc'[q].at = "run"
        BY <3>2, <4>1 DEF PRunning
      <4>3. ~PBelow(f, q)'
        BY <3>2, <4>1 DEF PRunning, PBelow
      <4> QED BY <4>2, <4>3 DEF PDryStage
    <3> QED BY <3>3, <3>4
  <2> QED BY <2>1, <2>2
<1> QED BY <1>1, <1>3, PDryAlone

(* So do the commands: they read dry pipes or write before them.            *)
LEMMA PDryTouched ==
  ASSUME PTyped, PMulti, NEW f \in 1 .. 3, PDry(f), NEW q \in 1 .. Len(proc),
         PTakes(q) \/ PSeesEnd(q) \/ PPrints(q) \/ PPuts(q) \/ PFinishes(q)
  PROVE  PDry(f)'
<1>1. /\ PDryStage(f, q) /\ proc[q] \in PProcess(Len(pPipe)) /\ Len(pPipe) \in Nat
      /\ pPipe \in Seq(Seq(Nat))
  BY PPipesNumbers DEF PDry, PTyped
<1>2. proc[q].stdout \in Nat /\ proc[q].stdin \in Nat /\ Len(proc[q].buf) \in Nat
  BY <1>1, PFields
<1>3. proc[q].at = "run"
  BY DEF PTakes, PSeesEnd, PPrints, PPuts, PFinishes, P!Reads
<1>4. CASE PTakes(q)
  <2>1. proc[q].stdin < f
    BY <1>2, <1>4 DEF PTakes, PDry
  <2>2. PBelow(f, q)
    BY <1>1, <1>2, <1>3, <2>1 DEF PDryStage
  <2>3. PBelow(f, q)' /\ proc'[q].at = "run"
    BY <1>3, <1>4, <2>2 DEF PTakes, PTouches, PSame, PBelow
  <2>4. PDryStage(f, q)'
    BY <2>3 DEF PDryStage
  <2>5. Len(pPipe') = Len(pPipe) /\ \A p \in 1 .. Len(pPipe) : p # proc[q].stdin => pPipe'[p] = pPipe[p]
    BY <1>1, <1>4 DEF PTakes
  <2>6. \A p \in 1 .. Len(pPipe) : p >= f => pPipe'[p] = pPipe[p]
    BY <1>2, <2>1, <2>5
  <2> QED BY <1>4, <2>4, <2>5, <2>6, PDryAlone DEF PTakes, PTouches, PAlone, PFrame
<1>5. CASE PSeesEnd(q)
  <2>1. PDryStage(f, q)'
    BY <1>1, <1>3, <1>5 DEF PSeesEnd, PTouches, PSame, PDryStage, PBelow
  <2> QED BY <1>5, <2>1, PDryAlone DEF PSeesEnd, PTouches, PAlone, PFrame
<1>6. CASE PPrints(q)
  <2>1. ~PBelow(f, q) /\ Len(proc[q].buf) > 0
    BY <1>6 DEF PPrints, PBelow
  <2> QED BY <1>1, <1>2, <2>1 DEF PDryStage
<1>7. CASE PPuts(q)
  <2>1. PBelow(f, q)
    BY <1>1, <1>2, <1>7 DEF PPuts, PDryStage
  <2>2. PBelow(f, q)' /\ proc'[q].at = "run"
    BY <1>3, <1>7, <2>1 DEF PPuts, PTouches, PSame, PBelow
  <2>3. PDryStage(f, q)'
    BY <2>2 DEF PDryStage
  <2>4. Len(pPipe') = Len(pPipe) /\ \A p \in 1 .. Len(pPipe) : p # proc[q].stdout => pPipe'[p] = pPipe[p]
    BY <1>1, <1>7 DEF PPuts
  <2>5. \A p \in 1 .. Len(pPipe) : p >= f => pPipe'[p] = pPipe[p]
    BY <1>2, <2>1, <2>4 DEF PBelow
  <2> QED BY <1>7, <2>3, <2>4, <2>5, PDryAlone DEF PPuts, PTouches, PAlone, PFrame
<1>8. CASE PFinishes(q)
  <2>1. /\ proc'[q].at = "ended" /\ proc'[q].stdout = proc[q].stdout
        /\ proc'[q].buf = proc[q].buf /\ Len(proc[q].buf) = 0
    BY <1>1, <1>8, PExiting DEF PFinishes, PEnding, PSet
  <2>2. PDryStage(f, q)'
    BY <1>1, <1>8, <2>1 DEF PFinishes, PEnding, PFrame, PDryStage, PBelow
  <2> QED BY <1>8, <2>2, PDryAlone DEF PFinishes, PEnding, PFrame, PSet, PAlone
<1> QED BY <1>4, <1>5, <1>6, <1>7, <1>8

(* Every step leaves dry what is dry.                                       *)
LEMMA PDryKept ==
  ASSUME PTyped, PMulti, NEW f \in 1 .. 3, cmds[f] = "missing" \/ PAllThere, PDry(f),
         NEW q \in 1 .. Len(proc), PMoves(q)
  PROVE  PDry(f)'
BY PDryForked, PDryExecuted, PDryTouched DEF PMoves

(* An item taken from one sequence to the one before it, with a rest        *)
(* behind.                                                                  *)
LEMMA PShift ==
  ASSUME NEW a \in Seq(Nat), NEW b \in Seq(Nat), NEW r \in Seq(Nat), Len(b) > 0
  PROVE  Append(a, Head(b)) \o (Tail(b) \o r) = a \o (b \o r)
<1> DEFINE x == Head(b)
           t == Tail(b)
<1>1. x \in Nat /\ t \in Seq(Nat) /\ b = <<x>> \o t
  OBVIOUS
<1> HIDE DEF x, t
<1>2. Append(a, x) = a \o <<x>>
  BY <1>1
<1>3. (a \o <<x>>) \o (t \o r) = a \o (<<x>> \o (t \o r))
  BY <1>1
<1>4. <<x>> \o (t \o r) = (<<x>> \o t) \o r
  BY <1>1
<1> QED BY <1>1, <1>2, <1>3, <1>4 DEF x, t

(* The same without a rest.                                                 *)
LEMMA PShiftEnd ==
  ASSUME NEW a \in Seq(Nat), NEW b \in Seq(Nat), Len(b) > 0
  PROVE  Append(a, Head(b)) \o Tail(b) = a \o b
<1> DEFINE x == Head(b)
           t == Tail(b)
<1>1. x \in Nat /\ t \in Seq(Nat) /\ b = <<x>> \o t
  OBVIOUS
<1> HIDE DEF x, t
<1>2. Append(a, x) = a \o <<x>>
  BY <1>1
<1>3. (a \o <<x>>) \o t = a \o (<<x>> \o t)
  BY <1>1
<1> QED BY <1>1, <1>2, <1>3 DEF x, t

(* The pieces of the way are sequences of numbers.                          *)
LEMMA PPieces ==
  ASSUME PTyped
  PROVE  /\ \A q \in Nat : PBuf(q) \in Seq(Nat)
         /\ \A p \in Nat : PIn(p) \in Seq(Nat)
         /\ PBuf(1) \in Seq(Nat) /\ PBuf(2) \in Seq(Nat) /\ PBuf(3) \in Seq(Nat) /\ PBuf(4) \in Seq(Nat)
         /\ PIn(1) \in Seq(Nat) /\ PIn(2) \in Seq(Nat) /\ PIn(3) \in Seq(Nat)
         /\ PPart1 \in Seq(Nat) /\ PPart2 \in Seq(Nat) /\ PPart3 \in Seq(Nat)
         /\ PPart4 \in Seq(Nat) /\ PPart5 \in Seq(Nat) /\ PPart6 \in Seq(Nat) /\ shown \in Seq(Nat)
<1>1. ASSUME NEW q \in Nat PROVE PBuf(q) \in Seq(Nat)
  <2>1. q \in 1 .. Len(proc) => proc[q].buf \in Seq(Nat)
    BY PPipesNumbers, PFields
  <2> QED BY <2>1, PNumbers DEF PBuf
<1>2. ASSUME NEW p \in Nat PROVE PIn(p) \in Seq(Nat)
  BY PPipesNumbers DEF PIn
<1>3. /\ PBuf(1) \in Seq(Nat) /\ PBuf(2) \in Seq(Nat) /\ PBuf(3) \in Seq(Nat) /\ PBuf(4) \in Seq(Nat)
      /\ PIn(1) \in Seq(Nat) /\ PIn(2) \in Seq(Nat) /\ PIn(3) \in Seq(Nat)
  BY <1>1, <1>2
<1>4. PPart1 \in Seq(Nat) /\ PPart2 \in Seq(Nat) /\ PPart3 \in Seq(Nat)
  BY <1>3 DEF PPart1, PPart2, PPart3
<1>5. PPart4 \in Seq(Nat) /\ PPart5 \in Seq(Nat) /\ PPart6 \in Seq(Nat)
  BY <1>3, <1>4 DEF PPart4, PPart5, PPart6
<1> QED BY <1>1, <1>2, <1>3, <1>4, <1>5 DEF PTyped

(* Nothing on the way moves.                                                *)
LEMMA PWayStays ==
  ASSUME shown' = shown, \A k \in 1 .. 4 : PBuf(k)' = PBuf(k), \A p \in 1 .. 3 : PIn(p)' = PIn(p)
  PROVE  PWay' = PWay
<1>1. PBuf(1)' = PBuf(1) /\ PBuf(2)' = PBuf(2) /\ PBuf(3)' = PBuf(3) /\ PBuf(4)' = PBuf(4)
  OBVIOUS
<1>2. PIn(1)' = PIn(1) /\ PIn(2)' = PIn(2) /\ PIn(3)' = PIn(3)
  OBVIOUS
<1> QED BY <1>1, <1>2 DEF PWay, PPart1, PPart2, PPart3, PPart4, PPart5, PPart6

(* Process q takes from the pipe before it.                                 *)
LEMMA PWayTaken ==
  ASSUME PTyped, shown' = shown, NEW q \in {1, 3, 4}, NEW p \in 1 .. 3,
         p = (IF q = 1 THEN 3 ELSE q - 2),
         \A k \in 1 .. 4 : k # q => PBuf(k)' = PBuf(k), \A k \in 1 .. 3 : k # p => PIn(k)' = PIn(k),
         Len(PIn(p)) > 0, PBuf(q)' = Append(PBuf(q), Head(PIn(p))), PIn(p)' = Tail(PIn(p))
  PROVE  PWay' = PWay
<1>1. CASE q = 1
  <2>0. Len(PIn(3)) > 0 /\ PBuf(1)' = Append(PBuf(1), Head(PIn(3))) /\ PIn(3)' = Tail(PIn(3))
    BY <1>1
  <2>1. p = 3 /\ PBuf(2)' = PBuf(2) /\ PBuf(3)' = PBuf(3) /\ PBuf(4)' = PBuf(4)
        /\ PIn(1)' = PIn(1) /\ PIn(2)' = PIn(2)
    BY <1>1
  <2>4. PPart4' = PPart4
    BY <2>1 DEF PPart1, PPart2, PPart3, PPart4
  <2>2. Append(PBuf(1), Head(PIn(3))) \o (Tail(PIn(3)) \o PPart4) = PBuf(1) \o (PIn(3) \o PPart4)
    <3>1. PBuf(1) \in Seq(Nat) /\ PIn(3) \in Seq(Nat) /\ PPart4 \in Seq(Nat)
      BY PPieces
    <3> QED BY <2>0, <3>1, PShift
  <2>3. PPart6' = PPart6
    BY <2>0, <2>2, <2>4 DEF PPart5, PPart6
  <2> QED BY <2>3 DEF PWay
<1>2. CASE q = 3
  <2>0. Len(PIn(1)) > 0 /\ PBuf(3)' = Append(PBuf(3), Head(PIn(1))) /\ PIn(1)' = Tail(PIn(1))
    BY <1>2
  <2>1. p = 1 /\ PBuf(2)' = PBuf(2)
    BY <1>2
  <2>2. Append(PBuf(3), Head(PIn(1))) \o (Tail(PIn(1)) \o PBuf(2)) = PBuf(3) \o (PIn(1) \o PBuf(2))
    <3>1. PBuf(3) \in Seq(Nat) /\ PIn(1) \in Seq(Nat) /\ PBuf(2) \in Seq(Nat)
      BY PPieces
    <3> QED BY <2>0, <3>1, PShift
  <2>3. PPart2' = PPart2
    BY <2>0, <2>1, <2>2 DEF PPart1, PPart2
  <2>4. PBuf(1)' = PBuf(1) /\ PBuf(4)' = PBuf(4) /\ PIn(2)' = PIn(2) /\ PIn(3)' = PIn(3)
    BY <1>2, <2>1
  <2> QED BY <2>3, <2>4 DEF PWay, PPart3, PPart4, PPart5, PPart6
<1>3. CASE q = 4
  <2>0. Len(PIn(2)) > 0 /\ PBuf(4)' = Append(PBuf(4), Head(PIn(2))) /\ PIn(2)' = Tail(PIn(2))
    BY <1>3
  <2>1. p = 2 /\ PBuf(2)' = PBuf(2) /\ PBuf(3)' = PBuf(3) /\ PIn(1)' = PIn(1)
    BY <1>3
  <2>5. PPart2' = PPart2
    BY <2>1 DEF PPart1, PPart2
  <2>2. Append(PBuf(4), Head(PIn(2))) \o (Tail(PIn(2)) \o PPart2) = PBuf(4) \o (PIn(2) \o PPart2)
    <3>1. PBuf(4) \in Seq(Nat) /\ PIn(2) \in Seq(Nat) /\ PPart2 \in Seq(Nat)
      BY PPieces
    <3> QED BY <2>0, <3>1, PShift
  <2>3. PPart4' = PPart4
    BY <2>0, <2>2, <2>5 DEF PPart3, PPart4
  <2>4. PBuf(1)' = PBuf(1) /\ PIn(3)' = PIn(3)
    BY <1>3, <2>1
  <2> QED BY <2>3, <2>4 DEF PWay, PPart5, PPart6
<1> QED BY <1>1, <1>2, <1>3

(* Stage p, which is process p + 1, writes to its pipe.                     *)
LEMMA PWayPut ==
  ASSUME PTyped, shown' = shown, NEW p \in 1 .. 3, NEW q \in 2 .. 4, q = p + 1,
         \A k \in 1 .. 4 : k # q => PBuf(k)' = PBuf(k), \A k \in 1 .. 3 : k # p => PIn(k)' = PIn(k),
         Len(PBuf(q)) > 0, PIn(p)' = Append(PIn(p), Head(PBuf(q))), PBuf(q)' = Tail(PBuf(q))
  PROVE  PWay' = PWay
<1>1. CASE p = 1
  <2>0. Len(PBuf(2)) > 0 /\ PIn(1)' = Append(PIn(1), Head(PBuf(2))) /\ PBuf(2)' = Tail(PBuf(2))
    BY <1>1
  <2>1. q = 2
    BY <1>1
  <2>2. Append(PIn(1), Head(PBuf(2))) \o Tail(PBuf(2)) = PIn(1) \o PBuf(2)
    <3>1. PIn(1) \in Seq(Nat) /\ PBuf(2) \in Seq(Nat)
      BY PPieces
    <3> QED BY <2>0, <3>1, PShiftEnd
  <2>3. PPart1' = PPart1
    BY <2>0, <2>2 DEF PPart1
  <2>4. PBuf(1)' = PBuf(1) /\ PBuf(3)' = PBuf(3) /\ PBuf(4)' = PBuf(4) /\ PIn(2)' = PIn(2) /\ PIn(3)' = PIn(3)
    BY <1>1, <2>1
  <2> QED BY <2>3, <2>4 DEF PWay, PPart2, PPart3, PPart4, PPart5, PPart6
<1>2. CASE p = 2
  <2>0. Len(PBuf(3)) > 0 /\ PIn(2)' = Append(PIn(2), Head(PBuf(3))) /\ PBuf(3)' = Tail(PBuf(3))
    BY <1>2
  <2>1. q = 3 /\ PBuf(2)' = PBuf(2) /\ PIn(1)' = PIn(1)
    BY <1>2
  <2>5. PPart1' = PPart1
    BY <2>1 DEF PPart1
  <2>2. Append(PIn(2), Head(PBuf(3))) \o (Tail(PBuf(3)) \o PPart1) = PIn(2) \o (PBuf(3) \o PPart1)
    <3>1. PIn(2) \in Seq(Nat) /\ PBuf(3) \in Seq(Nat) /\ PPart1 \in Seq(Nat)
      BY PPieces
    <3> QED BY <2>0, <3>1, PShift
  <2>3. PPart3' = PPart3
    BY <2>0, <2>2, <2>5 DEF PPart2, PPart3
  <2>4. PBuf(1)' = PBuf(1) /\ PBuf(4)' = PBuf(4) /\ PIn(3)' = PIn(3)
    BY <1>2, <2>1
  <2> QED BY <2>3, <2>4 DEF PWay, PPart4, PPart5, PPart6
<1>3. CASE p = 3
  <2>0. Len(PBuf(4)) > 0 /\ PIn(3)' = Append(PIn(3), Head(PBuf(4))) /\ PBuf(4)' = Tail(PBuf(4))
    BY <1>3
  <2>1. q = 4 /\ PBuf(2)' = PBuf(2) /\ PBuf(3)' = PBuf(3) /\ PIn(1)' = PIn(1) /\ PIn(2)' = PIn(2)
    BY <1>3
  <2>5. PPart3' = PPart3
    BY <2>1 DEF PPart1, PPart2, PPart3
  <2>2. Append(PIn(3), Head(PBuf(4))) \o (Tail(PBuf(4)) \o PPart3) = PIn(3) \o (PBuf(4) \o PPart3)
    <3>1. PIn(3) \in Seq(Nat) /\ PBuf(4) \in Seq(Nat) /\ PPart3 \in Seq(Nat)
      BY PPieces
    <3> QED BY <2>0, <3>1, PShift
  <2>3. PPart5' = PPart5
    BY <2>0, <2>2, <2>5 DEF PPart4, PPart5
  <2>4. PBuf(1)' = PBuf(1)
    BY <1>3, <2>1
  <2> QED BY <2>3, <2>4 DEF PWay, PPart6
<1> QED BY <1>1, <1>2, <1>3

(* The last command prints an item.                                         *)
LEMMA PWayShown ==
  ASSUME PTyped, Len(PBuf(1)) > 0, shown' = Append(shown, Head(PBuf(1))), PBuf(1)' = Tail(PBuf(1)),
         \A k \in 2 .. 4 : PBuf(k)' = PBuf(k), \A p \in 1 .. 3 : PIn(p)' = PIn(p)
  PROVE  PWay' = PWay
<1>1. PBuf(2)' = PBuf(2) /\ PBuf(3)' = PBuf(3) /\ PBuf(4)' = PBuf(4)
  OBVIOUS
<1>2. PIn(1)' = PIn(1) /\ PIn(2)' = PIn(2) /\ PIn(3)' = PIn(3)
  OBVIOUS
<1>3. PPart5' = PPart5
  BY <1>1, <1>2 DEF PPart1, PPart2, PPart3, PPart4, PPart5
<1>4. Append(shown, Head(PBuf(1))) \o (Tail(PBuf(1)) \o PPart5) = shown \o (PBuf(1) \o PPart5)
  <2>1. shown \in Seq(Nat) /\ PBuf(1) \in Seq(Nat) /\ PPart5 \in Seq(Nat)
    BY PPieces
  <2> QED BY <2>1, PShift
<1> QED BY <1>3, <1>4 DEF PWay, PPart6

PLineUp ==
  /\ Len(proc) \in 1 .. 4 /\ Len(pPipe) \in Nat /\ Len(proc) = Len(pPipe) + 1
  /\ proc[1].i = Len(proc) /\ proc[1].stdout = 0 /\ proc[1].in = Len(proc) - 1
  /\ proc[1].at \in {"spawn", "last", "run", "ended"}
  /\ proc[1].at = "spawn" => Len(proc) <= 3
  /\ proc[1].at # "spawn" => Len(proc) = 4
  /\ proc[1].at = "run" => proc[1].stdin = 3
  /\ \A q \in 2 .. Len(proc) :
       /\ proc[q].i = q - 1 /\ proc[q].stdout = q - 1 /\ proc[q].at \in {"exec", "run", "ended"}
       /\ q > 2 => proc[q].stdin = q - 2

(* With all commands there and no fork failed, process q is stage q - 1.    *)
LEMMA PLinesUp ==
  ASSUME PTyped, PMulti, PTidy, PAllThere, PCount
  PROVE  PLineUp
<1>1. Len(pPipe) \in Nat /\ Len(proc) \in Nat /\ Len(proc) >= 1 /\ proc[1].i \in 1 .. 4
  BY PPipesNumbers, PFields
<1>2. \A q \in 1 .. Len(proc) : POk(q) /\ PTidyStage(q)
  BY DEF PMulti, POk, PTidy
<1>3. Len(proc) \in 1 .. 4 /\ Len(proc) = Len(pPipe) + 1 /\ proc[1].i = Len(proc) /\ proc[1].in = Len(proc) - 1
  BY <1>1, <1>2 DEF PTidyStage, PCount
<1>4. proc[1].stdout = 0 /\ proc[1].at \in {"spawn", "last", "run", "ended"}
  BY <1>1, <1>2 DEF POk, PStage
<1>5. /\ proc[1].at = "spawn" => Len(proc) <= 3
      /\ proc[1].at # "spawn" => Len(proc) = 4
      /\ proc[1].at = "run" => proc[1].stdin = 3
  BY <1>1, <1>2, <1>3, <1>4 DEF POk, PStage, PTidyStage
<1>6. ASSUME NEW q \in 2 .. Len(proc)
      PROVE  /\ proc[q].i = q - 1 /\ proc[q].stdout = q - 1 /\ proc[q].at \in {"exec", "run", "ended"}
             /\ q > 2 => proc[q].stdin = q - 2
  BY <1>1, <1>2 DEF PTidyStage, PCount
<1> QED BY <1>1, <1>3, <1>4, <1>5, <1>6 DEF PLineUp

(* Whose record stays keeps its piece of the way.                           *)
LEMMA PBufSame ==
  ASSUME NEW k, Len(proc') = Len(proc), output' = output, k \in 1 .. Len(proc) => proc'[k] = proc[k]
  PROVE  PBuf(k)' = PBuf(k)
BY DEF PBuf, P!Numbers

(* So does a pipe that stays.                                               *)
LEMMA PInSame ==
  ASSUME NEW p, Len(pPipe') = Len(pPipe), p \in 1 .. Len(pPipe) => pPipe'[p] = pPipe[p]
  PROVE  PIn(p)' = PIn(p)
BY DEF PIn

(* An end of file that was seen stays true: the stage before has ended.     *)
LEMMA PSeenSame ==
  ASSUME PLineUp, NEW r \in 1 .. Len(proc), PSeen(r),
         Len(pPipe') = Len(pPipe), proc'[r].i = proc[r].i, proc'[r].eof => proc[r].eof,
         \A k \in 1 .. Len(proc) : proc[k].at = "ended" => proc'[k].at = "ended",
         \A p \in 1 .. Len(pPipe) : p = proc[r].i - 1 /\ Len(pPipe[p]) = 0 => Len(pPipe'[p]) = 0
  PROVE  PSeen(r)'
<1>1. proc[r].i \in 1 .. Len(proc)
  BY DEF PLineUp
<1> QED BY <1>1 DEF PSeen

(* What is left to show when nobody is forked.                              *)
LEMMA PFlowIf ==
  ASSUME PTyped, PLineUp, PCount, PWay = P!Numbers, PWay' = PWay, output' = output,
         Len(proc') = Len(proc), \A r \in 1 .. Len(proc) : proc'[r].i = proc[r].i,
         PUnshown', \A r \in 1 .. Len(proc) : PSeen(r)'
  PROVE  PFlow'
<1>1. PCount'
  BY DEF PCount, PLineUp
<1>2. P!Numbers' = P!Numbers
  BY DEF P!Numbers
<1> QED BY <1>1, <1>2 DEF PFlow

(* Reading and writing move no process from its place.                      *)
LEMMA PTouchesAll ==
  ASSUME NEW q \in 1 .. Len(proc), NEW b, NEW e, PTouches(q, b, e)
  PROVE  /\ Len(proc') = Len(proc)
         /\ \A r \in 1 .. Len(proc) : proc'[r].i = proc[r].i /\ proc'[r].at = proc[r].at
         /\ \A r \in 1 .. Len(proc) : r # q => proc'[r] = proc[r]
         /\ proc'[q].buf = b /\ proc'[q].eof = e
BY DEF PTouches, PSame

(* A command reads an item: the way stays.                                  *)
LEMMA PFlowTakes ==
  ASSUME PTyped, PMulti, PLineUp, PFlow, NEW q \in 1 .. Len(proc), PTakes(q)
  PROVE  PFlow'
<1> SUFFICES ASSUME NEW p \in Nat, p = proc[q].stdin PROVE PFlow'
  BY PPipesNumbers, PFields
<1>1. /\ proc[q].at = "run" /\ POk(q) /\ PFour /\ p \in 1 .. Len(pPipe) /\ Len(pPipe[p]) > 0
      /\ output' = output /\ cmds' = cmds /\ shown' = shown
  BY DEF PTakes, P!Reads, PFrame, PMulti, POk
<1>2. proc[q].i > 1
  BY <1>1, PPipesNumbers, PFields, SMTT(30) DEF PTakes, P!Reads, POk, PStage, PFour
<1>3. q \in {1, 3, 4} /\ p = (IF q = 1 THEN 3 ELSE q - 2) /\ p \in 1 .. 3 /\ p = proc[q].i - 1
  BY <1>1, <1>2 DEF PLineUp
<1>4. /\ Len(proc') = Len(proc) /\ \A r \in 1 .. Len(proc) : r # q => proc'[r] = proc[r]
      /\ \A r \in 1 .. Len(proc) : proc'[r].i = proc[r].i /\ proc'[r].at = proc[r].at
      /\ proc'[q].buf = Append(proc[q].buf, Head(pPipe[p])) /\ proc'[q].eof = proc[q].eof
  BY PTouchesAll DEF PTakes
<1>5. /\ Len(pPipe') = Len(pPipe) /\ pPipe'[p] = Tail(pPipe[p])
      /\ \A k \in 1 .. Len(pPipe) : k # p => pPipe'[k] = pPipe[k]
  <2>1. pPipe \in Seq(Seq(Nat)) /\ pPipe' = [pPipe EXCEPT ![p] = Tail(@)]
    BY DEF PTyped, PTakes
  <2> QED BY <1>1, <2>1
<1>6. PWay' = PWay
  <2>1. \A k \in 1 .. 4 : k # q => PBuf(k)' = PBuf(k)
    BY <1>1, <1>4, PBufSame
  <2>2. \A k \in 1 .. 3 : k # p => PIn(k)' = PIn(k)
    BY <1>5, PInSame
  <2>3. PBuf(q) = proc[q].buf /\ PBuf(q)' = proc'[q].buf
    BY <1>1, <1>4 DEF PBuf
  <2>4. PIn(p) = pPipe[p]
    BY <1>1 DEF PIn
  <2>5. PIn(p)' = Tail(PIn(p))
    BY <1>1, <1>5 DEF PIn
  <2> QED BY <1>1, <1>3, <1>4, <2>1, <2>2, <2>3, <2>4, <2>5, PWayTaken
<1>7. PUnshown'
  BY <1>1, <1>4 DEF PFlow, PUnshown, PLineUp
<1>8. ASSUME NEW r \in 1 .. Len(proc) PROVE PSeen(r)'
  <2>1. PSeen(r)
    BY DEF PFlow
  <2>2. \A k \in 1 .. Len(pPipe) : Len(pPipe[k]) = 0 => Len(pPipe'[k]) = 0
    BY <1>1, <1>5
  <2>3. proc'[r].eof => proc[r].eof
    BY <1>4
  <2> QED BY <1>4, <1>5, <2>1, <2>2, <2>3, PSeenSame
<1> QED BY <1>1, <1>4, <1>6, <1>7, <1>8, PFlowIf DEF PFlow

(* A command sees the end: the pipe is empty and the one before has ended.  *)
LEMMA PFlowSeesEnd ==
  ASSUME PTyped, PMulti, PLineUp, PFlow, NEW q \in 1 .. Len(proc), PSeesEnd(q)
  PROVE  PFlow'
<1>1. /\ proc[q].at = "run" /\ POk(q) /\ PFour /\ proc[q].stdin \in 1 .. Len(pPipe)
      /\ Len(pPipe[proc[q].stdin]) = 0 /\ output' = output /\ cmds' = cmds /\ shown' = shown /\ pPipe' = pPipe
  BY DEF PSeesEnd, P!Reads, PFrame, PMulti, POk
<1>2. proc[q].i > 1
  BY <1>1, PPipesNumbers, PFields DEF PSeesEnd, P!Reads, POk, PStage, PFour
<1>3. proc[q].stdin = proc[q].i - 1 /\ proc[q].i \in 2 .. Len(proc)
  BY <1>1, <1>2 DEF PLineUp
<1>4. /\ Len(proc') = Len(proc) /\ \A r \in 1 .. Len(proc) : r # q => proc'[r] = proc[r]
      /\ \A r \in 1 .. Len(proc) : proc'[r].i = proc[r].i /\ proc'[r].at = proc[r].at
      /\ proc'[q].buf = proc[q].buf
  BY PTouchesAll DEF PSeesEnd
<1>5. PWay' = PWay
  <2>1. \A k \in 1 .. 4 : PBuf(k)' = PBuf(k)
    <3> TAKE k \in 1 .. 4
    <3>1. CASE k = q
      BY <1>1, <1>4, <3>1 DEF PBuf
    <3>2. CASE k # q
      BY <1>1, <1>4, <3>2, PBufSame
    <3> QED BY <3>1, <3>2
  <2>2. \A k \in 1 .. 3 : PIn(k)' = PIn(k)
    BY <1>1 DEF PIn
  <2> QED BY <1>1, <2>1, <2>2, PWayStays
<1>6. proc[proc[q].i].at = "ended"
  <2>1. proc[proc[q].i].stdout = proc[q].i - 1
    BY <1>3 DEF PLineUp
  <2>2. ~P!Holds(proc[q].i, P!W(proc[q].stdin))
    BY <1>3 DEF PSeesEnd
  <2> QED BY <1>3, <2>1, <2>2 DEF P!Holds, P!Ended
<1>7. PUnshown'
  BY <1>1, <1>4 DEF PFlow, PUnshown, PLineUp
<1>8. ASSUME NEW r \in 1 .. Len(proc) PROVE PSeen(r)'
  <2>1. CASE r = q
    BY <1>1, <1>3, <1>4, <1>6, <2>1 DEF PSeen
  <2>2. CASE r # q
    <3>1. PSeen(r)
      BY DEF PFlow
    <3> QED BY <1>1, <1>4, <2>2, <3>1, PSeenSame
  <2> QED BY <2>1, <2>2
<1> QED BY <1>1, <1>4, <1>5, <1>7, <1>8, PFlowIf DEF PFlow

(* The last command prints an item: the way stays.                          *)
LEMMA PFlowPrints ==
  ASSUME PTyped, PMulti, PLineUp, PFlow, NEW q \in 1 .. Len(proc), PPrints(q)
  PROVE  PFlow'
<1>1. /\ proc[q].at = "run" /\ POk(q) /\ PFour /\ proc[q].stdout = 0 /\ Len(proc[q].buf) > 0
      /\ output' = output /\ cmds' = cmds /\ shown' = Append(shown, Head(proc[q].buf)) /\ pPipe' = pPipe
  BY DEF PPrints, PFrame, PMulti, POk
<1>2. q = 1
  BY <1>1 DEF PLineUp
<1>3. cmds[4] # "missing"
  BY <1>1, <1>2 DEF PLineUp, POk, PStage
<1>4. /\ Len(proc') = Len(proc) /\ \A r \in 1 .. Len(proc) : r # q => proc'[r] = proc[r]
      /\ \A r \in 1 .. Len(proc) : proc'[r].i = proc[r].i /\ proc'[r].at = proc[r].at
      /\ proc'[q].buf = Tail(proc[q].buf) /\ proc'[q].eof = proc[q].eof
  BY PTouchesAll DEF PPrints
<1>5. PWay' = PWay
  <2>1. \A k \in 2 .. 4 : PBuf(k)' = PBuf(k)
    BY <1>1, <1>2, <1>4, PBufSame
  <2>2. \A k \in 1 .. 3 : PIn(k)' = PIn(k)
    BY <1>1 DEF PIn
  <2>3. PBuf(1) = proc[q].buf /\ PBuf(1)' = proc'[q].buf
    BY <1>1, <1>2, <1>4 DEF PBuf
  <2> QED BY <1>1, <1>4, <2>1, <2>2, <2>3, PWayShown
<1>6. PUnshown'
  BY <1>1, <1>2, <1>3, <1>4 DEF PUnshown
<1>7. ASSUME NEW r \in 1 .. Len(proc) PROVE PSeen(r)'
  <2>1. PSeen(r)
    BY DEF PFlow
  <2>2. proc'[r].eof => proc[r].eof
    BY <1>4
  <2> QED BY <1>1, <1>4, <2>1, <2>2, PSeenSame
<1> QED BY <1>1, <1>4, <1>5, <1>6, <1>7, PFlowIf DEF PFlow

(* A command writes an item into its pipe: the way stays.                   *)
LEMMA PFlowPuts ==
  ASSUME PTyped, PMulti, PLineUp, PFlow, NEW q \in 1 .. Len(proc), PPuts(q)
  PROVE  PFlow'
<1> SUFFICES ASSUME NEW p \in Nat, p = proc[q].stdout PROVE PFlow'
  BY PPipesNumbers, PFields
<1>1. /\ proc[q].at = "run" /\ POk(q) /\ p \in 1 .. Len(pPipe) /\ Len(proc[q].buf) > 0
      /\ output' = output /\ cmds' = cmds /\ shown' = shown
  BY DEF PPuts, PFrame, PMulti, POk
<1>2. q \in 2 .. 4 /\ q = p + 1 /\ p \in 1 .. 3 /\ proc[q].i = p
  BY <1>1 DEF PLineUp
<1>3. /\ Len(proc') = Len(proc) /\ \A r \in 1 .. Len(proc) : r # q => proc'[r] = proc[r]
      /\ \A r \in 1 .. Len(proc) : proc'[r].i = proc[r].i /\ proc'[r].at = proc[r].at
      /\ proc'[q].buf = Tail(proc[q].buf) /\ proc'[q].eof = proc[q].eof
  BY PTouchesAll DEF PPuts
<1>4. /\ Len(pPipe') = Len(pPipe) /\ pPipe'[p] = Append(pPipe[p], Head(proc[q].buf))
      /\ \A k \in 1 .. Len(pPipe) : k # p => pPipe'[k] = pPipe[k]
  <2>1. pPipe \in Seq(Seq(Nat)) /\ pPipe' = [pPipe EXCEPT ![p] = Append(@, Head(proc[q].buf))]
    BY DEF PTyped, PPuts
  <2> QED BY <1>1, <2>1
<1>5. PWay' = PWay
  <2>1. \A k \in 1 .. 4 : k # q => PBuf(k)' = PBuf(k)
    BY <1>1, <1>3, PBufSame
  <2>2. \A k \in 1 .. 3 : k # p => PIn(k)' = PIn(k)
    BY <1>4, PInSame
  <2>3. PBuf(q) = proc[q].buf /\ PBuf(q)' = proc'[q].buf
    BY <1>1, <1>3 DEF PBuf
  <2>4. PIn(p) = pPipe[p]
    BY <1>1 DEF PIn
  <2>5. PIn(p)' = pPipe'[p]
    BY <1>1, <1>4 DEF PIn
  <2> QED BY <1>1, <1>2, <1>3, <1>4, <2>1, <2>2, <2>3, <2>4, <2>5, PWayPut
<1>6. PUnshown'
  BY <1>1, <1>3 DEF PFlow, PUnshown, PLineUp
<1>7. ASSUME NEW r \in 1 .. Len(proc) PROVE PSeen(r)'
  <2>1. PSeen(r)
    BY DEF PFlow
  <2>2. CASE proc[r].eof /\ proc[r].i = p + 1
    <3>1. proc[q].at = "ended"
      BY <1>2, <2>1, <2>2 DEF PSeen
    <3> QED BY <1>1, <3>1
  <2>3. CASE ~(proc[r].eof /\ proc[r].i = p + 1)
    <3>1. proc'[r].eof => proc[r].eof
      BY <1>3
    <3>2. CASE ~proc[r].eof
      BY <3>1, <3>2 DEF PSeen
    <3>3. CASE proc[r].i # p + 1
      <4>1. proc[r].i \in Nat
        BY PPipesNumbers, PFields
      <4>2. \A k \in 1 .. Len(pPipe) : k = proc[r].i - 1 /\ Len(pPipe[k]) = 0 => Len(pPipe'[k]) = 0
        BY <1>1, <1>4, <3>3, <4>1, SMTT(30)
      <4> QED BY <1>3, <1>4, <2>1, <3>1, <4>2, PSeenSame
    <3> QED BY <2>3, <3>2, <3>3
  <2> QED BY <2>2, <2>3
<1> QED BY <1>1, <1>3, <1>5, <1>6, <1>7, PFlowIf DEF PFlow

(* A command ends with nothing left in it: the way stays.                   *)
LEMMA PFlowFinishes ==
  ASSUME PTyped, PMulti, PLineUp, PFlow, NEW q \in 1 .. Len(proc), PFinishes(q)
  PROVE  PFlow'
<1>1. /\ proc[q].at = "run" /\ output' = output /\ cmds' = cmds /\ shown' = shown /\ pPipe' = pPipe
      /\ Len(proc') = Len(proc) /\ proc'[q] = P!Exits(proc[q])
      /\ \A r \in 1 .. Len(proc) : r # q => proc'[r] = proc[r]
  BY DEF PFinishes, PEnding, PSet, PFrame
<1>2. /\ proc'[q].at = "ended" /\ proc'[q].i = proc[q].i /\ proc'[q].buf = proc[q].buf /\ proc'[q].eof = proc[q].eof
  BY <1>1, PExiting, PPipesNumbers
<1>3. PWay' = PWay
  <2>1. \A k \in 1 .. 4 : PBuf(k)' = PBuf(k)
    <3> TAKE k \in 1 .. 4
    <3>1. CASE k = q
      BY <1>1, <1>2, <3>1 DEF PBuf
    <3>2. CASE k # q
      BY <1>1, <3>2, PBufSame
    <3> QED BY <3>1, <3>2
  <2>2. \A k \in 1 .. 3 : PIn(k)' = PIn(k)
    BY <1>1 DEF PIn
  <2> QED BY <1>1, <2>1, <2>2, PWayStays
<1>4. PUnshown'
  <2>1. proc'[1].at \in {"spawn", "last"} => proc[1].at \in {"spawn", "last"}
    BY <1>1, <1>2 DEF PLineUp
  <2> QED BY <1>1, <2>1 DEF PFlow, PUnshown
<1>5. ASSUME NEW r \in 1 .. Len(proc) PROVE PSeen(r)'
  <2>1. PSeen(r)
    BY DEF PFlow
  <2>2. proc'[r].i = proc[r].i /\ (proc'[r].eof => proc[r].eof)
    BY <1>1, <1>2
  <2>3. \A k \in 1 .. Len(proc) : proc[k].at = "ended" => proc'[k].at = "ended"
    BY <1>1, <1>2
  <2> QED BY <1>1, <2>1, <2>2, <2>3, PSeenSame
<1>6. \A r \in 1 .. Len(proc) : proc'[r].i = proc[r].i
  BY <1>1, <1>2
<1> QED BY <1>1, <1>3, <1>4, <1>5, <1>6, PFlowIf DEF PFlow

(* A stage begins to run: what ls is about to write is its buffer.          *)
LEMMA PFlowExecuted ==
  ASSUME PTyped, PMulti, PLineUp, PAllThere, PFlow, NEW q \in 1 .. Len(proc), PExecuted(q)
  PROVE  PFlow'
<1>1. /\ proc[q].at = "exec" /\ POk(q) /\ PFour /\ output' = output /\ cmds' = cmds /\ shown' = shown
      /\ pPipe' = pPipe /\ Len(proc') = Len(proc) /\ \A r \in 1 .. Len(proc) : r # q => proc'[r] = proc[r]
  BY DEF PExecuted, PAlone, PStill, PMulti, POk
<1>2. q \in 2 .. 4 /\ proc[q].i = q - 1 /\ proc[q].i \in 1 .. 3
  BY <1>1 DEF PLineUp
<1>3. PRunning(proc[q], proc'[q], cmds[proc[q].i], proc[q].stdin)
  BY <1>2 DEF PExecuted, PAllThere
<1>4. /\ proc'[q].at = "run" /\ proc'[q].i = proc[q].i /\ proc'[q].eof = proc[q].eof
      /\ proc'[q].buf = (IF cmds[proc[q].i] = "source" THEN P!Numbers ELSE <<>>)
  BY <1>3 DEF PRunning
<1>5. Len(proc[q].buf) = 0 /\ ~proc[q].eof /\ proc[q].buf \in Seq(Nat)
  BY <1>1, PPipesNumbers, PFields DEF POk, PEmpties
<1>6. PBuf(q)' = PBuf(q)
  <2>1. cmds[proc[q].i] = "source" <=> proc[q].i = 1
    BY <1>1, <1>2 DEF PFour, PAllThere
  <2>2. proc[q].buf = <<>>
    BY <1>5
  <2>3. PBuf(q)' = proc'[q].buf
    BY <1>1, <1>4 DEF PBuf
  <2>4. PBuf(q) = (IF proc[q].i = 1 THEN P!Numbers ELSE <<>>)
    BY <1>1, <2>2 DEF PBuf
  <2> QED BY <1>4, <2>1, <2>3, <2>4
<1>7. PWay' = PWay
  <2>1. \A k \in 1 .. 4 : PBuf(k)' = PBuf(k)
    BY <1>1, <1>6, PBufSame
  <2>2. \A k \in 1 .. 3 : PIn(k)' = PIn(k)
    BY <1>1 DEF PIn
  <2> QED BY <1>1, <2>1, <2>2, PWayStays
<1>8. PUnshown'
  BY <1>1, <1>2 DEF PFlow, PUnshown, PLineUp
<1>9. ASSUME NEW r \in 1 .. Len(proc) PROVE PSeen(r)'
  <2>1. PSeen(r)
    BY DEF PFlow
  <2>2. proc'[r].i = proc[r].i /\ (proc'[r].eof => proc[r].eof)
    BY <1>1, <1>4
  <2>3. \A k \in 1 .. Len(proc) : proc[k].at = "ended" => proc'[k].at = "ended"
    BY <1>1
  <2> QED BY <1>1, <2>1, <2>2, <2>3, PSeenSame
<1>10. \A r \in 1 .. Len(proc) : proc'[r].i = proc[r].i
  BY <1>1, <1>4
<1> QED BY <1>1, <1>7, <1>8, <1>9, <1>10, PFlowIf DEF PFlow

(* The last command begins to run with nothing read.                        *)
LEMMA PFlowExecutedLast ==
  ASSUME PTyped, PMulti, PLineUp, PFlow, NEW q \in 1 .. Len(proc), PExecutedLast(q)
  PROVE  PFlow'
<1>1. /\ proc[q].at = "last" /\ POk(q) /\ PFour /\ output' = output /\ cmds' = cmds /\ shown' = shown
      /\ pPipe' = pPipe /\ Len(proc') = Len(proc) /\ \A r \in 1 .. Len(proc) : r # q => proc'[r] = proc[r]
  BY DEF PExecutedLast, PAlone, PStill, PMulti, POk
<1>2. q = 1
  BY <1>1 DEF PLineUp
<1>3. Len(proc[q].buf) = 0 /\ proc[q].buf \in Seq(Nat) /\ proc[q].buf = <<>>
  <2>1. Len(proc[q].buf) = 0 /\ proc[q].buf \in Seq(Nat)
    BY <1>1, PPipesNumbers, PFields DEF POk, PEmpties
  <2> QED BY <2>1
<1>4. /\ proc'[q].at \in {"run", "ended"} /\ proc'[q].i = proc[q].i /\ proc'[q].eof = proc[q].eof
      /\ proc'[q].buf = proc[q].buf
  <2>1. CASE cmds[4] = "missing"
    <3>1. proc'[q] = P!Exits(proc[q])
      BY <2>1 DEF PExecutedLast
    <3> QED BY <3>1, PExiting, PPipesNumbers
  <2>2. CASE cmds[4] # "missing"
    <3>1. PRunning(proc[q], proc'[q], cmds[4], proc[q].in) /\ cmds[4] # "source"
      BY <1>1, <2>2 DEF PExecutedLast, PFour
    <3> QED BY <1>3, <3>1 DEF PRunning
  <2> QED BY <2>1, <2>2
<1>5. PWay' = PWay
  <2>1. \A k \in 1 .. 4 : PBuf(k)' = PBuf(k)
    <3> TAKE k \in 1 .. 4
    <3>1. CASE k = q
      BY <1>1, <1>4, <3>1 DEF PBuf
    <3>2. CASE k # q
      BY <1>1, <3>2, PBufSame
    <3> QED BY <3>1, <3>2
  <2>2. \A k \in 1 .. 3 : PIn(k)' = PIn(k)
    BY <1>1 DEF PIn
  <2> QED BY <1>1, <2>1, <2>2, PWayStays
<1>6. PUnshown'
  BY <1>1, <1>2 DEF PFlow, PUnshown
<1>7. ASSUME NEW r \in 1 .. Len(proc) PROVE PSeen(r)'
  <2>1. PSeen(r)
    BY DEF PFlow
  <2>2. proc'[r].i = proc[r].i /\ (proc'[r].eof => proc[r].eof)
    BY <1>1, <1>4
  <2>3. \A k \in 1 .. Len(proc) : proc[k].at = "ended" => proc'[k].at = "ended"
    BY <1>1
  <2> QED BY <1>1, <2>1, <2>2, <2>3, PSeenSame
<1>8. \A r \in 1 .. Len(proc) : proc'[r].i = proc[r].i
  BY <1>1, <1>4
<1> QED BY <1>1, <1>5, <1>6, <1>7, <1>8, PFlowIf DEF PFlow

(* A stage is forked with nothing read, its pipe is empty.                  *)
LEMMA PFlowForked ==
  ASSUME PTyped, PTyped', PMulti, PLineUp, PFlow, NEW q \in 1 .. Len(proc), PForked(q), failed' = failed
  PROVE  PFlow'
<1> SUFFICES ASSUME NEW c \in Nat, c = Len(proc) + 1 PROVE PFlow'
  BY PPipesNumbers
<1>1. /\ proc[q].at = "spawn" /\ POk(q) /\ output' = output /\ cmds' = cmds /\ shown' = shown
      /\ \A r \in 1 .. Len(proc) : r # q => proc'[r] = proc[r]
      /\ PParent(proc[q], proc'[q], Len(pPipe) + 1)
      /\ Len(proc') = c /\ PChildOf(proc[q], proc'[c], Len(pPipe) + 1)
  <2>1. failed' # failed + 1
    BY DEF PTyped
  <2> QED BY <2>1 DEF PForked, PAlone, PStill, PMulti, POk
<1>2. q = 1 /\ Len(proc) \in 1 .. 3 /\ c \in 2 .. 4 /\ proc[1].i = Len(proc)
  BY <1>1 DEF PLineUp
<1>3. Len(proc[q].buf) = 0 /\ ~proc[q].eof /\ proc[q].buf = <<>>
  <2>1. Len(proc[q].buf) = 0 /\ proc[q].buf \in Seq(Nat) /\ ~proc[q].eof
    BY <1>1, PPipesNumbers, PFields DEF POk, PEmpties
  <2> QED BY <2>1
<1>4. /\ proc'[q].at \in {"spawn", "last"} /\ proc'[q].i = proc[q].i + 1 /\ proc'[q].buf = proc[q].buf
      /\ proc'[q].eof = proc[q].eof
  BY <1>1 DEF PParent, PNext, PRest
<1>5. /\ proc'[c].at = "exec" /\ proc'[c].i = proc[q].i /\ proc'[c].buf = proc[q].buf
      /\ proc'[c].eof = proc[q].eof
  BY <1>1 DEF PChildOf
<1>6. P!Numbers' = P!Numbers
  BY <1>1 DEF P!Numbers
<1>7. PCount'
  <2>1. \A r \in 2 .. Len(proc) : proc'[r].i = r - 1
    BY <1>1, <1>2 DEF PLineUp
  <2> QED BY <1>1, <1>2, <1>4, <1>5, <2>1 DEF PCount
<1>8. PUnshown'
  BY <1>1, <1>2 DEF PFlow, PUnshown
<1>9. \A k \in 1 .. 4 : PBuf(k)' = PBuf(k)
  <2> TAKE k \in 1 .. 4
  <2>1. CASE k = 1
    BY <1>1, <1>2, <1>4, <2>1 DEF PBuf
  <2>2. CASE k \in 2 .. Len(proc)
    <3>1. proc'[k] = proc[k] /\ k \in 1 .. Len(proc) /\ k \in 1 .. Len(proc')
      BY <1>1, <1>2, <2>2
    <3> QED BY <1>6, <3>1 DEF PBuf
  <2>3. CASE k = c
    <3>1. k \in 1 .. Len(proc') /\ k \notin 1 .. Len(proc) /\ (k = 2 <=> proc'[k].i = 1)
      BY <1>1, <1>2, <1>5, <2>3
    <3> QED BY <1>3, <1>5, <1>6, <2>3, <3>1 DEF PBuf
  <2>4. CASE k > c
    <3>1. k \notin 1 .. Len(proc') /\ k \notin 1 .. Len(proc)
      BY <1>1, <1>2, <2>4
    <3> QED BY <1>6, <3>1 DEF PBuf
  <2> QED BY <1>2, <2>1, <2>2, <2>3, <2>4
<1>10. \A p \in 1 .. 3 : PIn(p)' = PIn(p)
  <2> TAKE p \in 1 .. 3
  <2>1. PNewPipe /\ Len(pPipe) \in Nat
    BY PPipesNumbers DEF PForked
  <2>2. CASE p \in 1 .. Len(pPipe)
    BY <2>1, <2>2 DEF PNewPipe, PIn
  <2>3. CASE p = Len(pPipe) + 1
    <3>1. pPipe'[p] = <<>>
      <4>1. pPipe' \in Seq(Seq(Nat)) /\ p \in 1 .. Len(pPipe') /\ Len(pPipe'[p]) = 0
        BY <2>1, <2>3 DEF PNewPipe, PTyped
      <4> QED BY <4>1
    <3>2. p \in 1 .. Len(pPipe') /\ p \notin 1 .. Len(pPipe)
      BY <2>1, <2>3 DEF PNewPipe
    <3> QED BY <3>1, <3>2 DEF PIn
  <2>4. CASE p > Len(pPipe) + 1
    BY <2>1, <2>4 DEF PNewPipe, PIn
  <2> QED BY <2>1, <2>2, <2>3, <2>4
<1>11. PWay' = PWay
  BY <1>1, <1>9, <1>10, PWayStays
<1>12. ASSUME NEW r \in 1 .. Len(proc') PROVE PSeen(r)'
  <2>1. CASE r = 1 \/ r = c
    BY <1>2, <1>3, <1>4, <1>5, <2>1 DEF PSeen
  <2>2. CASE r \in 2 .. Len(proc)
    <3>1. PSeen(r) /\ proc'[r] = proc[r] /\ proc[r].i = r - 1
      BY <1>1, <1>2, <2>2 DEF PFlow, PLineUp
    <3>2. \A p \in 1 .. Len(pPipe') : p = r - 2 => p \in 1 .. Len(pPipe) /\ pPipe'[p] = pPipe[p]
      <4>1. Len(pPipe) \in Nat /\ Len(proc) = Len(pPipe) + 1
        BY DEF PLineUp
      <4> QED BY <2>2, <4>1 DEF PForked, PNewPipe
    <3>3. r - 1 > 1 => proc'[r - 1] = proc[r - 1]
      BY <1>1, <1>2, <2>2
    <3> QED BY <3>1, <3>2, <3>3, SMTT(30) DEF PSeen
  <2> QED BY <1>1, <1>2, <2>1, <2>2
<1> QED BY <1>6, <1>7, <1>8, <1>11, <1>12 DEF PFlow

(* The main process counts on when fork fails: the pipe it leads nowhere    *)
(* from stays dry.                                                          *)
LEMMA PFlowRunsDry ==
  ASSUME PTyped, PMulti, PLineUp, PAllThere, PFlow, NEW q \in 1 .. Len(proc), PForked(q),
         Len(proc') = Len(proc)
  PROVE  \E f \in 1 .. 3 : PDry(f)'
<1> SUFFICES ASSUME NEW f \in Nat, f = Len(pPipe) + 1 PROVE f \in 1 .. 3 /\ PDry(f)'
  BY PPipesNumbers
<1>1. /\ proc[q].at = "spawn" /\ POk(q) /\ cmds' = cmds /\ shown' = shown
      /\ \A r \in 1 .. Len(proc) : r # q => proc'[r] = proc[r]
      /\ PParent(proc[q], proc'[q], f) /\ Len(pPipe') = f /\ Len(pPipe'[f]) = 0
  BY DEF PForked, PAlone, PStill, PMulti, POk, PNewPipe
<1>2. q = 1 /\ f \in 1 .. 3 /\ Len(proc) = f /\ proc[1].i = f /\ proc[1].stdout = 0
  BY <1>1 DEF PLineUp
<1>3. Len(shown') = 0
  BY <1>1, <1>2 DEF PFlow, PUnshown
<1>4. \A p \in 1 .. Len(pPipe') : p >= f => Len(pPipe'[p]) = 0
  BY <1>1, <1>2
<1>5. PDryStage(f, 1)'
  <2>1. /\ proc'[1].at \in {"spawn", "last"} /\ proc'[1].i > f /\ proc'[1].in >= f
        /\ proc'[1].stdout = 0 /\ Len(proc'[1].buf) = 0
    BY <1>1, <1>2 DEF PParent, PNext, PRest, POk, PEmpties
  <2> QED BY <2>1 DEF PDryStage, PBelow
<1>6. ASSUME NEW r \in 2 .. Len(proc) PROVE PDryStage(f, r)'
  <2>1. /\ proc'[r] = proc[r] /\ proc[r].i = r - 1 /\ proc[r].stdout = r - 1
        /\ proc[r].at \in {"exec", "run", "ended"} /\ r - 1 \in 1 .. 3
    BY <1>1, <1>2 DEF PLineUp
  <2>2. cmds'[proc'[r].i] # "missing"
    BY <1>1, <2>1 DEF PAllThere
  <2>3. PBelow(f, r)'
    BY <1>2, <2>1 DEF PBelow
  <2> QED BY <2>1, <2>2, <2>3 DEF PDryStage
<1>7. \A r \in 1 .. Len(proc') : PDryStage(f, r)'
  BY <1>2, <1>5, <1>6
<1> QED BY <1>2, <1>3, <1>4, <1>7 DEF PDry

(* Every step keeps what is said of the items on the way.                   *)
LEMMA PWaterKept ==
  ASSUME PTyped, PTyped', PMulti, PTidy, PWater, NEW q \in 1 .. Len(proc), PMoves(q), cmds' = cmds
  PROVE  PWater'
<1>1. ASSUME NEW f \in 1 .. 3, cmds[f] = "missing" \/ PAllThere, PDry(f) PROVE PDry(f)'
  BY <1>1, PDryKept
<1>2. PAllThere' = PAllThere
  BY DEF PAllThere
<1>3. failed \in Nat /\ (failed' = failed \/ (failed' = failed + 1 /\ PForked(q) /\ Len(proc') = Len(proc)))
  BY DEF PTyped, PMoves, PForked, PExecuted, PExecutedLast, PTakes, PSeesEnd, PPrints, PPuts,
     PFinishes, PEnding, PFrame
<1>4. PAllThere /\ failed = 0 => PFlow /\ PLineUp
  BY PLinesUp DEF PWater, PFlow
<1>5. PAllThere' /\ failed' > 0 => \E f \in 1 .. 3 : PDry(f)'
  <2> HAVE PAllThere' /\ failed' > 0
  <2>1. CASE failed > 0
    <3>1. PICK f \in 1 .. 3 : PDry(f)
      BY <1>2, <2>1 DEF PWater
    <3>2. PDry(f)'
      BY <1>1, <1>2, <3>1
    <3> QED BY <3>2
  <2>2. CASE failed = 0
    <3>1. PForked(q) /\ Len(proc') = Len(proc) /\ PFlow /\ PLineUp
      BY <1>2, <1>3, <1>4, <2>2
    <3> QED BY <1>2, <3>1, PFlowRunsDry
  <2> QED BY <1>3, <2>1, <2>2
<1>6. PAllThere' /\ failed' = 0 => PFlow'
  <2> HAVE PAllThere' /\ failed' = 0
  <2>1. failed' = failed /\ PFlow /\ PLineUp /\ PAllThere
    BY <1>2, <1>3, <1>4
  <2> QED BY <2>1, PFlowForked, PFlowExecuted, PFlowExecutedLast, PFlowTakes, PFlowSeesEnd, PFlowPrints,
         PFlowPuts, PFlowFinishes DEF PMoves
<1> QED BY <1>1, <1>5, <1>6 DEF PWater

(* When nothing is left on the way, the terminal has it all.                *)
LEMMA PAllShown ==
  ASSUME PTyped, \A k \in 1 .. 4 : PBuf(k) = <<>>, \A p \in 1 .. 3 : PIn(p) = <<>>
  PROVE  PWay = shown
<1>1. /\ PBuf(1) = <<>> /\ PBuf(2) = <<>> /\ PBuf(3) = <<>> /\ PBuf(4) = <<>>
      /\ PIn(1) = <<>> /\ PIn(2) = <<>> /\ PIn(3) = <<>>
  OBVIOUS
<1>2. <<>> \o <<>> = <<>>
  OBVIOUS
<1>3. PPart6 = <<>>
  BY <1>1, <1>2 DEF PPart1, PPart2, PPart3, PPart4, PPart5, PPart6
<1>4. shown \in Seq(Nat)
  BY DEF PTyped
<1>5. shown \o <<>> = shown
  BY <1>4
<1> QED BY <1>3, <1>5 DEF PWay

(* When all have ended the terminal has what ls wrote, or uniq is missing.  *)
LEMMA PFlowDone ==
  ASSUME PTyped, PMulti, PLineUp, PAllThere, PFlow, P!AllEnded, program = "multi_pipes"
  PROVE  P!WholeResult
<1>1. \A q \in 1 .. Len(proc) : proc[q].at = "ended" /\ POk(q) /\ PSeen(q)
  BY DEF PMulti, POk, PStage, P!AllEnded, P!Procs, PFlow
<1>2. Len(proc) = 4 /\ Len(pPipe) = 3
  <2>1. 1 \in 1 .. Len(proc) /\ proc[1].at # "spawn"
    BY <1>1 DEF PLineUp
  <2>2. Len(proc) = 4 /\ Len(pPipe) \in Nat /\ Len(proc) = Len(pPipe) + 1
    BY <2>1 DEF PLineUp
  <2>3. \A k \in Nat : 4 = k + 1 => k = 3
    OBVIOUS
  <2> QED BY <2>2, <2>3
<1>3. PFour
  BY DEF PMulti
<1>4. DOMAIN cmds = 1 .. 4 /\ cmds # <<>>
  <2>1. cmds \in Seq(P!Kinds) /\ Len(cmds) = 4
    BY <1>3 DEF PFour, PTyped
  <2>2. Len(cmds) # 0
    BY <2>1
  <2> QED BY <2>1, <2>2
<1>5. CASE cmds[4] = "missing"
  <2>1. shown = <<>>
    BY <1>5 DEF PFlow, PUnshown, PTyped
  <2>2. \A k \in DOMAIN cmds : P!LastMaker(k) => k = 4
    BY <1>4, <1>5 DEF P!LastMaker
  <2>3. P!Makes(4) = <<>>
    BY <1>5 DEF P!Makes
  <2> QED BY <1>4, <2>1, <2>2, <2>3 DEF P!WholeResult
<1>6. CASE cmds[4] # "missing"
  <2>1. cmds[1] = "source" /\ cmds[2] = "copy" /\ cmds[3] = "sort" /\ cmds[4] = "copy"
    BY <1>3, <1>6 DEF PFour, PAllThere
  <2>2. \A k \in DOMAIN cmds : P!LastMaker(k) => k = 1
    BY <1>4, <2>1 DEF P!LastMaker
  <2>3. P!Makes(1) = P!Numbers
    BY <2>1 DEF P!Makes
  <2>4. \A k \in 1 .. 4 : PBuf(k) = <<>>
    <3> TAKE k \in 1 .. 4
    <3>1. proc[k].at = "ended" /\ Len(proc[k].buf) = 0 /\ proc[k].buf \in Seq(Nat)
      BY <1>1, <1>2, PPipesNumbers, PFields DEF POk, PEmpties
    <3>2. proc[k].buf = <<>>
      BY <3>1
    <3> QED BY <1>2, <3>1, <3>2 DEF PBuf
  <2>5. ASSUME NEW q \in {1, 3, 4}, NEW p \in 1 .. 3, p = proc[q].i - 1, proc[q].i > 1 PROVE PIn(p) = <<>>
    <3>1. proc[q].eof
      BY <1>1, <1>2, <1>6, <2>5 DEF POk, PStage
    <3>2. p \in 1 .. Len(pPipe) /\ Len(pPipe[p]) = 0 /\ pPipe[p] \in Seq(Nat)
      BY <1>1, <1>2, <2>5, <3>1, PPipesNumbers, SMTT(30) DEF PSeen
    <3>3. pPipe[p] = <<>>
      BY <3>2
    <3> QED BY <3>2, <3>3 DEF PIn
  <2>6. proc[1].i = 4 /\ proc[3].i = 2 /\ proc[4].i = 3
    BY <1>2 DEF PLineUp
  <2>7. PIn(1) = <<>> /\ PIn(2) = <<>> /\ PIn(3) = <<>>
    BY <2>5, <2>6
  <2>8. \A p \in 1 .. 3 : PIn(p) = <<>>
    BY <2>7
  <2>9. shown = P!Numbers
    BY <2>4, <2>8, PAllShown DEF PFlow
  <2> QED BY <1>4, <2>2, <2>3, <2>9 DEF P!WholeResult
<1> QED BY <1>5, <1>6

(* A ring does not end.                                                     *)
LEMMA PRingLives ==
  ASSUME PTyped, NEW m \in 1 .. 3, PRing(m)
  PROVE  ~P!AllEnded
<1>1. 1 \in 1 .. Len(proc)
  BY PPipesNumbers
<1> QED BY <1>1 DEF PRing, PRound, PMember, P!AllEnded, P!Procs

(* multi_pipes shows all when it is over, and with a stage missing it never *)
(* is.                                                                      *)
LEMMA PMultiPassesOn ==
  ASSUME PTyped, PMulti, PTidy, PWater, PRings, program = "multi_pipes"
  PROVE  P!PassesOn
<1> SUFFICES ASSUME P!AllEnded
             PROVE  /\ P!WholeResult \/ (failed > 0 /\ shown = <<>>)
                    /\ failed = 0 => P!Missing \subseteq {4}
  BY DEF P!PassesOn
<1>1. failed = 0 => PAllThere
  BY PRingLives DEF PRings, PAllThere
<1>2. PAllThere => P!Missing \subseteq {4}
  BY DEF PMulti, PFour, PAllThere, P!Missing, PTyped
<1>3. CASE failed = 0
  <2>1. PAllThere /\ PFlow /\ PLineUp
    BY <1>1, <1>3, PLinesUp DEF PWater, PFlow
  <2> QED BY <1>2, <2>1, PFlowDone
<1>4. CASE failed # 0
  <2>1. failed > 0
    BY <1>4 DEF PTyped
  <2>2. \E f \in 1 .. 3 : PDry(f)
    BY <2>1 DEF PWater, PAllThere
  <2>3. shown = <<>>
    BY <2>2 DEF PDry, PTyped
  <2> QED BY <1>4, <2>1, <2>3
<1> QED BY <1>3, <1>4

(* A ring whose members keep their ends stays.                              *)
LEMMA PRoundSame ==
  ASSUME NEW m, NEW S, PRound(m, S),
         \A r \in S : PMember(m, r)' /\ PFeed(r)' = PFeed(r) /\ proc'[r].stdout = proc[r].stdout
  PROVE  PRound(m, S)'
BY DEF PRound

(* Who does not go on stays a member.                                       *)
LEMMA PMemberSame ==
  ASSUME NEW m, NEW r, PMember(m, r), proc'[r] = proc[r]
  PROVE  PMember(m, r)' /\ PFeed(r)' = PFeed(r) /\ proc'[r].stdout = proc[r].stdout
BY DEF PMember, PFeed

(* In a step of multi_pipes one process goes on and at most one is new.     *)
LEMMA POthersSame ==
  ASSUME PTyped, NEW q \in 1 .. Len(proc), PMoves(q)
  PROVE  /\ \A r \in 1 .. Len(proc) : r # q => proc'[r] = proc[r]
         /\ Len(proc') = Len(proc) \/ Len(proc') = Len(proc) + 1
         /\ 1 .. Len(proc) \subseteq 1 .. Len(proc')
<1>1. /\ \A r \in 1 .. Len(proc) : r # q => proc'[r] = proc[r]
      /\ Len(proc') = Len(proc) \/ Len(proc') = Len(proc) + 1
  BY DEF PMoves, PForked, PExecuted, PExecutedLast, PTakes, PSeesEnd, PPrints, PPuts, PTouches,
     PFinishes, PEnding, PSet, PAlone
<1> QED BY <1>1, PPipesNumbers

(* The main process comes to the stage that is missing.                     *)
LEMMA PRingStarts ==
  ASSUME PTyped, PMulti, NEW m \in 1 .. 3, proc[1].at = "spawn", proc[1].i <= m,
         NEW q \in 1 .. Len(proc), PMoves(q), failed' = failed
  PROVE  PRing(m)'
<1>1. \A r \in 1 .. Len(proc) : r # q => proc'[r] = proc[r]
  BY POthersSame
<1>2. CASE q # 1
  BY <1>1, <1>2, PPipesNumbers DEF PRing
<1>3. CASE q = 1
  <2>1. PForked(q)
    BY <1>3 DEF PMoves, PExecuted, PExecutedLast, PTakes, PSeesEnd, PPrints, PPuts, PFinishes, P!Reads
  <2>2. failed' # failed + 1
    BY DEF PTyped
  <2>3. /\ PParent(proc[1], proc'[1], Len(pPipe) + 1) /\ Len(proc') = Len(proc) + 1
        /\ PChildOf(proc[1], proc'[Len(proc) + 1], Len(pPipe) + 1)
    BY <1>3, <2>1, <2>2 DEF PForked
  <2>4. proc[1].i \in 1 .. 4
    BY PPipesNumbers, PFields
  <2>5. CASE proc[1].i < m
    BY <2>3, <2>4, <2>5 DEF PParent, PNext, PRing
  <2>6. CASE proc[1].i = m
    <3>1. PICK c \in 1 .. Len(proc') : c = Len(proc) + 1
      BY <2>3, PPipesNumbers
    <3>2. proc'[c].at = "exec" /\ proc'[c].i = m
      BY <2>3, <2>6, <3>1 DEF PChildOf
    <3> QED BY <3>2 DEF PRing
  <2> QED BY <2>4, <2>5, <2>6
<1> QED BY <1>2, <1>3

(* The stage that is missing begins to read what it writes.                 *)
LEMMA PRingCloses ==
  ASSUME PTyped, PMulti, NEW m \in 1 .. 3, cmds[m] = "missing",
         NEW x \in 1 .. Len(proc), proc[x].at = "exec", proc[x].i = m,
         NEW q \in 1 .. Len(proc), PMoves(q)
  PROVE  PRing(m)'
<1>1. (\A r \in 1 .. Len(proc) : r # q => proc'[r] = proc[r]) /\ 1 .. Len(proc) \subseteq 1 .. Len(proc')
  BY POthersSame
<1>2. CASE q # x
  BY <1>1, <1>2 DEF PRing
<1>3. CASE q = x
  <2>1. PExecuted(q)
    BY <1>3 DEF PMoves, PForked, PExecutedLast, PTakes, PSeesEnd, PPrints, PPuts, PFinishes, P!Reads
  <2>2. PPassing(proc[x], proc'[x])
    BY <1>3, <2>1 DEF PExecuted
  <2>3. POk(x)
    BY DEF PMulti, POk
  <2>4. proc[x].stdout # 0 /\ ~proc[x].eof
    BY <2>3 DEF POk, PStage, PEmpties
  <2>5. /\ proc'[x].at \in {"spawn", "last"} /\ proc'[x].i > m /\ proc'[x].stdout # 0 /\ ~proc'[x].eof
        /\ proc'[x].in = proc'[x].stdout
    BY <2>2, <2>4 DEF PPassing, PNext, PRest
  <2>6. PRound(m, {x})'
    BY <2>5 DEF PRound, PMember, PFeed
  <2>7. {x} \in SUBSET (1 .. Len(proc'))
    BY <1>1
  <2> QED BY <2>6, <2>7 DEF PRing
<1> QED BY <1>2, <1>3

(* Each process of the ring has its input kept open by another one.         *)
LEMMA PRoundGoesOn ==
  ASSUME PTyped, PMulti, NEW m \in 1 .. 3, cmds[m] = "missing",
         NEW S \in SUBSET (1 .. Len(proc)), PRound(m, S), NEW q \in S, PMoves(q), failed' = failed
  PROVE  \E T \in SUBSET (1 .. Len(proc')) : PRound(m, T)'
<1>1. (\A r \in 1 .. Len(proc) : r # q => proc'[r] = proc[r]) /\ S \in SUBSET (1 .. Len(proc'))
  BY POthersSame
<1>2. /\ POk(q) /\ PFour /\ PMember(m, q) /\ Len(pPipe) \in Nat /\ Len(proc) \in Nat
      /\ proc[q] \in PProcess(Len(pPipe)) /\ proc[q].i \in 1 .. 4 /\ proc[q].stdin \in Nat /\ proc[q].in \in Nat
  BY PPipesNumbers, PFields DEF PMulti, POk, PRound
<1>3. proc[q].i > m /\ cmds[proc[q].i] # "missing" /\ cmds[4] # "missing" /\ ~proc[q].eof /\ proc[q].stdout # 0
  BY <1>2 DEF PFour, PMember
<1>4. ASSUME PMember(m, q)', PFeed(q)' = PFeed(q), proc'[q].stdout = proc[q].stdout
      PROVE  PRound(m, S)'
  <2>1. \A r \in S : PMember(m, r)' /\ PFeed(r)' = PFeed(r) /\ proc'[r].stdout = proc[r].stdout
    BY <1>1, <1>4, PMemberSame DEF PRound
  <2> QED BY <2>1, PRoundSame
<1>5. CASE PForked(q)
  <2>0. PICK c \in Nat : c = Len(proc) + 1
    BY <1>2
  <2>1. failed' # failed + 1
    BY DEF PTyped
  <2>2. /\ proc[q].at = "spawn" /\ PParent(proc[q], proc'[q], Len(pPipe) + 1) /\ Len(proc') = c
        /\ PChildOf(proc[q], proc'[c], Len(pPipe) + 1)
    BY <1>5, <2>0, <2>1 DEF PForked
  <2>3. proc[q].in # 0 /\ Len(pPipe) + 1 # 0
    BY <1>2, <1>3, <2>2 DEF POk, PStage
  <2>4. PMember(m, c)' /\ PFeed(c)' = PFeed(q) /\ proc'[c].stdout = Len(pPipe) + 1
    BY <1>3, <2>2, <2>3 DEF PChildOf, PMember, PFeed
  <2>5. PMember(m, q)' /\ PFeed(q)' = Len(pPipe) + 1 /\ proc'[q].stdout = proc[q].stdout
    BY <1>2, <1>3, <2>2 DEF PParent, PNext, PRest, PMember, PFeed
  <2>6. \A r \in S : r # q => PMember(m, r)' /\ PFeed(r)' = PFeed(r)
    BY <1>1, PMemberSame DEF PRound
  <2>7. \A r \in S : proc'[r].stdout = proc[r].stdout
    BY <1>1, <2>5
  <2>8. \A x \in S \cup {c} : PMember(m, x)' /\ \E r \in S \cup {c} : proc'[r].stdout = PFeed(x)'
    <3> TAKE x \in S \cup {c}
    <3>1. \A y \in S : \E r \in S : proc'[r].stdout = PFeed(y)
      <4> TAKE y \in S
      <4>1. PICK r \in S : proc[r].stdout = PFeed(y)
        BY DEF PRound
      <4> QED BY <2>7, <4>1
    <3>2. CASE x = c
      BY <2>4, <3>1, <3>2
    <3>3. CASE x = q
      BY <2>4, <2>5, <3>3
    <3>4. CASE x \in S /\ x # q
      BY <2>6, <3>1, <3>4
    <3> QED BY <3>2, <3>3, <3>4
  <2>9. PRound(m, S \cup {c})'
    BY <2>8 DEF PRound
  <2>10. S \cup {c} \in SUBSET (1 .. Len(proc'))
    <3>1. c \in 1 .. Len(proc')
      BY <1>2, <2>0, <2>2
    <3> QED BY <1>1, <3>1
  <2> QED BY <2>9, <2>10
<1>6. CASE PExecuted(q)
  <2>1. PRunning(proc[q], proc'[q], cmds[proc[q].i], proc[q].stdin) /\ proc[q].at = "exec"
    BY <1>3, <1>6 DEF PExecuted
  <2>2. PMember(m, q)' /\ PFeed(q)' = PFeed(q) /\ proc'[q].stdout = proc[q].stdout
    BY <1>3, <2>1 DEF PRunning, PMember, PFeed
  <2> QED BY <1>1, <1>4, <2>2
<1>7. CASE PExecutedLast(q)
  <2>1. PRunning(proc[q], proc'[q], cmds[4], proc[q].in) /\ proc[q].at = "last"
    BY <1>3, <1>7 DEF PExecutedLast
  <2>2. PMember(m, q)' /\ PFeed(q)' = PFeed(q) /\ proc'[q].stdout = proc[q].stdout
    BY <1>3, <2>1 DEF PRunning, PMember, PFeed
  <2> QED BY <1>1, <1>4, <2>2
<1>8. CASE PSeesEnd(q)
  <2>1. PICK r \in S : proc[r].stdout = PFeed(q)
    BY DEF PRound
  <2>2. proc[q].at = "run" /\ PFeed(q) = proc[q].stdin
    BY <1>8 DEF PSeesEnd, P!Reads, PFeed
  <2>3. P!Holds(r, P!W(proc[q].stdin))
    BY <2>1, <2>2 DEF P!Holds, P!Ended, PRound, PMember
  <2> QED BY <1>8, <2>3 DEF PSeesEnd
<1>9. CASE PTakes(q) \/ PPrints(q) \/ PPuts(q)
  <2>1. PSame(proc[q], proc'[q]) /\ proc'[q].eof = proc[q].eof
    BY <1>9 DEF PTakes, PPrints, PPuts, PTouches
  <2>2. PMember(m, q)' /\ PFeed(q)' = PFeed(q) /\ proc'[q].stdout = proc[q].stdout
    BY <1>2, <2>1 DEF PSame, PMember, PFeed
  <2> QED BY <1>1, <1>4, <2>2
<1>10. CASE PFinishes(q)
  <2>1. proc[q].runs \in {"copy", "sort"} /\ proc[q].at = "run"
    BY <1>2, <1>3, <1>10 DEF PFinishes, POk, PStage, PFour
  <2> QED BY <1>3, <1>10, <2>1 DEF PFinishes, P!Reads
<1> QED BY <1>5, <1>6, <1>7, <1>8, <1>9, <1>10 DEF PMoves

(* Every step keeps the ring, unless a fork fails.                          *)
LEMMA PRingsKept ==
  ASSUME PTyped, PTyped', PMulti, PRings, NEW q \in 1 .. Len(proc), PMoves(q), cmds' = cmds
  PROVE  PRings'
<1> SUFFICES ASSUME NEW m \in 1 .. 3, cmds[m] = "missing", failed' = 0 PROVE PRing(m)'
  BY DEF PRings
<1>1. failed' = failed
  <2>1. failed' = failed \/ failed' = failed + 1
    BY DEF PMoves, PForked, PExecuted, PExecutedLast, PTakes, PSeesEnd, PPrints, PPuts,
       PFinishes, PEnding, PFrame
  <2> QED BY <2>1 DEF PTyped
<1>2. PRing(m)
  BY <1>1 DEF PRings
<1>3. CASE proc[1].at = "spawn" /\ proc[1].i <= m
  BY <1>1, <1>3, PRingStarts
<1>4. CASE \E x \in 1 .. Len(proc) : proc[x].at = "exec" /\ proc[x].i = m
  BY <1>4, PRingCloses
<1>5. ASSUME NEW S \in SUBSET (1 .. Len(proc)), PRound(m, S) PROVE PRing(m)'
  <2>1. CASE q \in S
    <3>1. \E T \in SUBSET (1 .. Len(proc')) : PRound(m, T)'
      BY <1>1, <1>5, <2>1, PRoundGoesOn
    <3> QED BY <3>1 DEF PRing
  <2>2. CASE q \notin S
    <3>1. (\A r \in S : proc'[r] = proc[r]) /\ S \in SUBSET (1 .. Len(proc'))
      BY <2>2, POthersSame
    <3>2. PRound(m, S)'
      BY <1>5, <3>1, PMemberSame, PRoundSame, SMTT(30) DEF PRound
    <3> QED BY <3>1, <3>2 DEF PRing
  <2> QED BY <2>1, <2>2
<1> QED BY <1>2, <1>3, <1>4, <1>5 DEF PRing

(* The commands of multi_pipes, at most one missing.                        *)
LEMMA PFourAtFirst ==
  ASSUME cmds \in P!OneMissing(<<"source", "copy", "sort", "copy">>)
  PROVE  cmds \in Seq(P!Kinds) /\ PFour
<1> DEFINE list == <<"source", "copy", "sort", "copy">>
<1>1. list \in Seq(P!Kinds) /\ Len(list) = 4 /\ DOMAIN list = 1 .. 4 /\ "missing" \in P!Kinds
  BY DEF P!Kinds
<1>2. list[1] = "source" /\ list[2] = "copy" /\ list[3] = "sort" /\ list[4] = "copy"
  OBVIOUS
<1>3. cmds = list \/ \E k \in DOMAIN list : cmds = [list EXCEPT ![k] = "missing"]
  BY DEF P!OneMissing
<1> HIDE DEF list
<1>4. CASE cmds = list
  BY <1>1, <1>2, <1>4 DEF PFour
<1>5. ASSUME NEW k \in 1 .. 4, cmds = [list EXCEPT ![k] = "missing"]
      PROVE  cmds \in Seq(P!Kinds) /\ PFour
  <2>1. cmds \in Seq(P!Kinds) /\ Len(cmds) = 4 /\ \A l \in 1 .. 4 : cmds[l] = IF l = k THEN "missing" ELSE list[l]
    <3>1. list \in Seq(P!Kinds) /\ "missing" \in P!Kinds /\ k \in 1 .. Len(list)
      BY <1>1
    <3>2. cmds \in Seq(P!Kinds) /\ Len(cmds) = Len(list)
      BY <1>5, <3>1
    <3> QED BY <1>1, <1>5, <3>2
  <2> QED BY <1>2, <2>1 DEF PFour
<1> QED BY <1>1, <1>3, <1>4, <1>5

(* The commands of pipeline.c, at most one missing.                         *)
LEMMA PTwoAtFirst ==
  ASSUME cmds \in P!OneMissing(<<"source", "sort">>)
  PROVE  cmds \in Seq(P!Kinds) /\ PTwo
<1> DEFINE list == <<"source", "sort">>
<1>1. list \in Seq(P!Kinds) /\ Len(list) = 2 /\ DOMAIN list = 1 .. 2 /\ "missing" \in P!Kinds
  BY DEF P!Kinds
<1>2. list[1] = "source" /\ list[2] = "sort"
  OBVIOUS
<1>3. cmds = list \/ \E k \in DOMAIN list : cmds = [list EXCEPT ![k] = "missing"]
  BY DEF P!OneMissing
<1> HIDE DEF list
<1>4. CASE cmds = list
  BY <1>1, <1>2, <1>4 DEF PTwo
<1>5. ASSUME NEW k \in 1 .. 2, cmds = [list EXCEPT ![k] = "missing"]
      PROVE  cmds \in Seq(P!Kinds) /\ PTwo
  <2>1. cmds \in Seq(P!Kinds) /\ Len(cmds) = 2 /\ \A l \in 1 .. 2 : cmds[l] = IF l = k THEN "missing" ELSE list[l]
    BY <1>1, <1>5
  <2> QED BY <1>2, <2>1 DEF PTwo
<1> QED BY <1>1, <1>3, <1>4, <1>5

(* main at the start.                                                       *)
LEMMA PMainAtFirst ==
  ASSUME NEW place \in PPlaces
  PROVE  /\ P!Main(place) \in PProcess(0) /\ P!Main(place).at = place /\ P!Main(place).i = 1
         /\ P!Main(place).in = 0 /\ P!Main(place).stdin = 0 /\ P!Main(place).stdout = 0
         /\ P!Main(place).fds = {} /\ Len(P!Main(place).buf) = 0 /\ P!Main(place).buf = <<>>
         /\ ~P!Main(place).eof
<1>1. <<>> \in Seq(Nat) /\ Len(<<>>) = 0
  OBVIOUS
<1>2. "builtin" \in P!Kinds
  BY DEF P!Kinds
<1> QED BY <1>1, <1>2 DEF P!Main, PProcess

(* The first states of the three programs.                                  *)
LEMMA PTypedAtFirst ==
  ASSUME P!Init
  PROVE  /\ PTyped /\ Len(proc) = 1 /\ Len(pPipe) = 0 /\ Len(shown) = 0 /\ shown = <<>> /\ failed = 0
         /\ program = "multi_pipes" => proc[1] = P!Main("spawn") /\ PFour
         /\ program = "pipeline" => proc[1] = P!Main("fork") /\ PTwo
         /\ program = "shell" => proc[1] = P!Main("prompt") /\ cmds = <<>>
<1>1. PICK place \in PPlaces :
        /\ proc = <<P!Main(place)>> /\ cmds \in Seq(P!Kinds) /\ program \in {"multi_pipes", "pipeline", "shell"}
        /\ program = "multi_pipes" => place = "spawn" /\ PFour
        /\ program = "pipeline" => place = "fork" /\ PTwo
        /\ program = "shell" => place = "prompt" /\ cmds = <<>>
  <2>1. {"spawn", "fork", "prompt"} \subseteq PPlaces /\ <<>> \in Seq(P!Kinds)
    BY DEF PPlaces
  <2>2. CASE program = "multi_pipes"
    BY <2>1, <2>2, PFourAtFirst DEF P!Init
  <2>3. CASE program = "pipeline"
    BY <2>1, <2>3, PTwoAtFirst DEF P!Init
  <2>4. CASE program = "shell"
    BY <2>1, <2>4 DEF P!Init
  <2> QED BY <2>2, <2>3, <2>4 DEF P!Init
<1>2. P!Main(place) \in PProcess(0)
  BY PMainAtFirst
<1>3. proc \in Seq(PProcess(0)) /\ Len(proc) = 1 /\ proc[1] = P!Main(place)
  BY <1>1, <1>2
<1>4. pPipe = <<>> /\ shown = <<>> /\ lines = 0 /\ failed = 0 /\ output \in 0 .. MaxOutput
  BY DEF P!Init
<1>5. /\ pPipe \in Seq(Seq(Nat)) /\ Len(pPipe) = 0 /\ shown \in Seq(Nat) /\ Len(shown) = 0
      /\ lines \in 0 .. MaxLines /\ failed \in Nat
  BY <1>4, TalkAssumption
<1>6. PTyped
  BY <1>1, <1>3, <1>4, <1>5 DEF PTyped
<1> QED BY <1>1, <1>3, <1>4, <1>5, <1>6

PMultiInv == PMulti /\ PTidy /\ PWater /\ PRings

(* multi_pipes begins in its invariant.                                     *)
LEMMA PMultiAtFirst ==
  ASSUME P!Init, program = "multi_pipes"
  PROVE  PMultiInv
<1>1. /\ PTyped /\ Len(proc) = 1 /\ Len(pPipe) = 0 /\ Len(shown) = 0 /\ shown = <<>> /\ failed = 0
      /\ proc[1] = P!Main("spawn") /\ PFour
  BY PTypedAtFirst
<1>2. /\ proc[1].at = "spawn" /\ proc[1].i = 1 /\ proc[1].in = 0 /\ proc[1].stdin = 0 /\ proc[1].stdout = 0
      /\ proc[1].fds = {} /\ Len(proc[1].buf) = 0 /\ proc[1].buf = <<>> /\ ~proc[1].eof
  <2>1. "spawn" \in PPlaces
    BY DEF PPlaces
  <2> QED BY <1>1, <2>1, PMainAtFirst
<1>3. PMulti
  BY <1>1, <1>2 DEF PMulti, PStage, PEmpties, PHasReader, PNoWriters
<1>4. PTidy
  BY <1>1, <1>2 DEF PTidy, PTidyStage
<1>5. ASSUME NEW m \in 1 .. 3, cmds[m] = "missing" PROVE PDry(m) /\ PRing(m)
  <2>1. PDryStage(m, 1)
    BY <1>1, <1>2, <1>5 DEF PDryStage, PBelow
  <2> QED BY <1>1, <1>2, <2>1 DEF PDry, PRing
<1>6. PFlow
  <2>1. PBuf(1) = <<>> /\ PBuf(2) = P!Numbers /\ PBuf(3) = <<>> /\ PBuf(4) = <<>>
    BY <1>1, <1>2 DEF PBuf
  <2>2. PIn(1) = <<>> /\ PIn(2) = <<>> /\ PIn(3) = <<>>
    BY <1>1 DEF PIn
  <2>3. P!Numbers \in Seq(Nat)
    BY <1>1, PNumbers
  <2>4. <<>> \o P!Numbers = P!Numbers
    BY <2>3
  <2>5. PWay = P!Numbers
    BY <1>1, <2>1, <2>2, <2>4 DEF PWay, PPart1, PPart2, PPart3, PPart4, PPart5, PPart6
  <2> QED BY <1>1, <1>2, <2>5 DEF PFlow, PCount, PUnshown, PSeen
<1> QED BY <1>1, <1>3, <1>4, <1>5, <1>6 DEF PMultiInv, PWater, PRings

(* Every step of multi_pipes keeps its invariant.                           *)
LEMMA PMultiNext ==
  ASSUME PTyped, PMultiInv, program = "multi_pipes", NEW q \in 1 .. Len(proc), P!Enter(q) \/ P!Step(q)
  PROVE  PTyped' /\ PMultiInv' /\ program' = program
<1>1. PTyped' /\ PMulti' /\ PMoves(q) /\ program' = program /\ cmds' = cmds
  BY PMultiStep DEF PMultiInv
<1>2. PTidy' /\ PWater' /\ PRings'
  BY <1>1, PTidyKept, PWaterKept, PRingsKept DEF PMultiInv
<1> QED BY <1>1, <1>2 DEF PMultiInv

(* The invariant of multi_pipes is strong enough.                           *)
LEMMA PMultiSound ==
  ASSUME PTyped, PMultiInv, program = "multi_pipes"
  PROVE  P!OneWriter /\ P!NothingLeaks /\ P!NeverBroken /\ P!PassesOn
BY PMultiOneWriter, PMultiNeverBroken, PMultiPassesOn DEF PMultiInv, P!NothingLeaks

-----------------------------------------------------------------------------
(* What the first command of pipeline.c writes is a sequence.               *)
LEMMA PFirstTyped ==
  ASSUME PTyped
  PROVE  PFirst \in Seq(Nat)
BY PNumbers DEF PFirst

(* It stays the same.                                                       *)
LEMMA PFirstSame ==
  ASSUME output' = output, cmds' = cmds
  PROVE  PFirst' = PFirst
BY DEF PFirst, P!Numbers

(* A sequence with no items is the empty one.                               *)
LEMMA PEmptySeq ==
  ASSUME NEW s \in Seq(Nat), Len(s) = 0
  PROVE  s = <<>>
OBVIOUS

(* The empty sequence adds nothing.                                         *)
LEMMA PEmptyAdds ==
  ASSUME NEW s \in Seq(Nat)
  PROVE  <<>> \o s = s /\ s \o <<>> = s
OBVIOUS

(* pipeline.c begins in its invariant.                                      *)
LEMMA PLineAtFirst ==
  ASSUME P!Init, program = "pipeline"
  PROVE  PLine
<1>1. PTyped /\ Len(proc) = 1 /\ Len(pPipe) = 0 /\ Len(shown) = 0 /\ proc[1] = P!Main("fork") /\ PTwo
  BY PTypedAtFirst
<1>2. "fork" \in PPlaces
  BY DEF PPlaces
<1>3. proc[1].at = "fork" /\ proc[1].i = 1 /\ Len(proc[1].buf) = 0 /\ ~proc[1].eof /\ proc[1].stdout = 0
  BY <1>1, <1>2, PMainAtFirst
<1> QED BY <1>1, <1>3 DEF PLine, PLineBegins

(* The fork of pipeline.c: ls before its exec, or the end of main.          *)
LEMMA PLineForks ==
  ASSUME PTyped, PLine, program = "pipeline", NEW q \in 1 .. Len(proc), P!ForkLs(q)
  PROVE  PTyped' /\ PLine'
<1> DEFINE parent == [proc[q] EXCEPT !.at = "wait", !.i = 2, !.stdin = 1, !.fds = {P!R(1)}]
           child == [proc[q] EXCEPT !.at = "exec", !.stdout = 1, !.fds = {P!W(1)}]
<1>1. proc[q].at = "fork" /\ pPipe' = Append(pPipe, <<>>) /\ PStill
  BY DEF P!ForkLs, PStill
<1>2. PLineBegins /\ q = 1 /\ PTwo /\ proc[1].stdout = 0
  BY <1>1 DEF PLine, PLineBegins, PLineFails, PLineGoes, PLs, PWc
<1>3. Len(pPipe) = 0 /\ proc[q] \in PProcess(0) /\ Len(proc) = 1 /\ proc \in Seq(PProcess(0))
  BY <1>2, PPipesNumbers DEF PLineBegins, PTyped
<1>4. proc[q] \in PProcess(1) /\ proc \in Seq(PProcess(1))
  <2>1. 0 \in Nat /\ 0 + 1 = 1
    OBVIOUS
  <2> QED BY <1>3, <2>1, PRecordGrows, PProcsGrow
<1>5. {P!R(1)} \in SUBSET PEnds(1) /\ {P!W(1)} \in SUBSET PEnds(1)
  BY DEF PEnds
<1>6. {"wait", "exec", "ended"} \subseteq PPlaces /\ 2 \in 1 .. 4 /\ 1 \in 0 .. 1
  BY DEF PPlaces
<1>7. /\ parent \in PProcess(1) /\ parent.at = "wait" /\ parent.i = 2 /\ parent.stdin = 1 /\ parent.fds = {P!R(1)}
      /\ parent.stdout = proc[q].stdout /\ parent.buf = proc[q].buf /\ parent.eof = proc[q].eof
  BY <1>4, <1>5, <1>6 DEF PProcess
<1>8. /\ child \in PProcess(1) /\ child.at = "exec" /\ child.i = proc[q].i /\ child.stdout = 1
      /\ child.fds = {P!W(1)} /\ child.buf = proc[q].buf
  BY <1>4, <1>5, <1>6 DEF PProcess
<1>9. P!Forks(q, parent, child) \/ P!ForkFails(q, P!Exits(proc[q]))
  BY DEF P!ForkLs
<1> HIDE DEF parent, child
<1>10. failed \in Nat
  BY DEF PTyped
<1>11. CASE P!Forks(q, parent, child)
  <2>1. proc' \in Seq(PProcess(1)) /\ PGrow(q, parent, child) /\ failed' = failed
    BY <1>4, <1>7, <1>8, <1>11, PGrowing DEF P!Forks
  <2>2. Len(proc') = 2 /\ proc'[1] = parent /\ proc'[2] = child
    BY <1>2, <1>3, <2>1 DEF PGrow
  <2>3. PTyped' /\ PNewPipe
    BY <1>1, <1>3, <1>10, <2>1, <2>2, PTypedGrows
  <2>4. Len(pPipe') = 1 /\ Len(pPipe'[1]) = 0 /\ shown' = shown /\ cmds' = cmds /\ output' = output
    BY <1>1, <1>3, <2>3 DEF PNewPipe, PStill
  <2>5. PLs'
    BY <1>2, <1>8, <2>2 DEF PLs, PLineBegins
  <2>6. PWc'
    BY <1>2, <1>7, <2>2, <2>4 DEF PWc, PLineBegins
  <2>7. PLineWay'
    <3>1. shown' = <<>> /\ pPipe'[1] = <<>> /\ proc'[1].buf = <<>>
      <4>1. shown' \in Seq(Nat) /\ pPipe'[1] \in Seq(Nat) /\ proc'[1].buf \in Seq(Nat)
        <5>1. shown' \in Seq(Nat) /\ pPipe' \in Seq(Seq(Nat))
          BY <2>3 DEF PTyped
        <5>2. proc'[1].buf \in Seq(Nat)
          BY <1>7, <2>2 DEF PProcess
        <5> QED BY <2>4, <5>1, <5>2
      <4>2. Len(shown') = 0 /\ Len(pPipe'[1]) = 0 /\ Len(proc'[1].buf) = 0
        BY <1>2, <1>7, <2>2, <2>4 DEF PLineBegins
      <4> QED BY <4>1, <4>2, PEmptySeq
    <3>2. PLsBuf' = PFirst /\ PFirst' = PFirst /\ PFirst \in Seq(Nat)
      BY <1>8, <2>2, <2>4, PFirstSame, PFirstTyped DEF PLsBuf
    <3>3. proc'[1].at = "wait" /\ Len(shown') = 0
      BY <1>2, <1>7, <2>2, <2>4 DEF PLineBegins
    <3>4. <<>> \o (<<>> \o (<<>> \o PFirst)) = PFirst
      BY <3>2, PEmptyAdds
    <3> QED BY <3>1, <3>2, <3>3, <3>4 DEF PLineWay
  <2>8. PTwo' /\ proc'[1].stdout = 0
    BY <1>2, <1>7, <2>2, <2>4 DEF PTwo
  <2> QED BY <2>2, <2>3, <2>4, <2>5, <2>6, <2>7, <2>8 DEF PLine, PLineGoes
<1>12. CASE P!ForkFails(q, P!Exits(proc[q]))
  <2>1. P!Exits(proc[q]) \in PProcess(1) /\ P!Exits(proc[q]).at = "ended" /\ P!Exits(proc[q]).stdout = proc[q].stdout
    BY <1>4, PExiting
  <2>2. proc' \in Seq(PProcess(1)) /\ PSet(q, P!Exits(proc[q])) /\ failed' = failed + 1
    BY <1>4, <1>12, <2>1, PSetting DEF P!ForkFails
  <2>3. Len(proc') = 1 /\ proc'[1] = P!Exits(proc[q])
    BY <1>2, <1>3, <2>2 DEF PSet
  <2>4. PTyped' /\ PNewPipe
    BY <1>1, <1>3, <1>10, <2>2, <2>3, PTypedGrows
  <2>5. PTwo' /\ PLineFails'
    BY <1>1, <1>2, <1>10, <2>1, <2>2, <2>3 DEF PTwo, PLineFails, PLineBegins, PStill
  <2> QED BY <1>2, <2>1, <2>3, <2>4, <2>5 DEF PLine
<1> QED BY <1>9, <1>11, <1>12

(* The pieces of its way are sequences of numbers.                          *)
LEMMA PLinePieces ==
  ASSUME PTyped, PLineGoes
  PROVE  /\ proc[1] \in PProcess(Len(pPipe)) /\ proc[2] \in PProcess(Len(pPipe)) /\ Len(pPipe) \in Nat
         /\ shown \in Seq(Nat) /\ pPipe[1] \in Seq(Nat) /\ proc[1].buf \in Seq(Nat) /\ proc[2].buf \in Seq(Nat)
         /\ PLsBuf \in Seq(Nat) /\ PFirst \in Seq(Nat)
<1>1. proc[1] \in PProcess(Len(pPipe)) /\ proc[2] \in PProcess(Len(pPipe)) /\ Len(pPipe) \in Nat /\ pPipe[1] \in Seq(Nat)
  BY PPipesNumbers DEF PLineGoes
<1>2. proc[1].buf \in Seq(Nat) /\ proc[2].buf \in Seq(Nat)
  BY <1>1, PFields
<1> QED BY <1>1, <1>2, PFirstTyped DEF PLsBuf, PTyped

(* One process goes on; the other one and the pipe stay.                    *)
LEMMA PLineChild ==
  ASSUME PTyped, PLine, PLineGoes, PSet(2, proc'[2]), PFrame, UNCHANGED <<pPipe, shown>>,
         proc[1].at = "wait", PLs', PLsBuf' = PLsBuf
  PROVE  PLine'
<1>1. Len(proc) = 2 /\ Len(proc') = 2 /\ proc'[1] = proc[1] /\ Len(pPipe) = 1
  BY DEF PLineGoes, PSet
<1>2. PWc'
  BY <1>1 DEF PLineGoes, PWc, PFrame
<1>3. PFirst' = PFirst
  BY PFirstSame DEF PFrame
<1>4. PLineWay'
  BY <1>1, <1>3 DEF PLineGoes, PLineWay, PFrame
<1>5. PTwo'
  BY DEF PLine, PTwo, PFrame
<1> QED BY <1>1, <1>2, <1>4, <1>5 DEF PLine, PLineGoes

(* ls is there and will write its numbers, or it ends with none.            *)
LEMMA PLineExecLs ==
  ASSUME PTyped, PLine, program = "pipeline", NEW q \in 1 .. Len(proc), P!ExecLs(q)
  PROVE  PTyped' /\ PLine'
<1>1. proc[q].at = "exec"
  BY DEF P!ExecLs
<1>2. PLineGoes /\ q = 2 /\ PTwo /\ proc[1].at = "wait" /\ PLs
  BY <1>1 DEF PLine, PLineBegins, PLineFails, PLineGoes, PLs, PWc
<1>3. proc[2] \in PProcess(Len(pPipe)) /\ Len(pPipe) \in Nat /\ proc[2].buf \in Seq(Nat) /\ Len(proc[2].buf) = 0
  BY <1>1, <1>2, PLinePieces DEF PLs
<1>4. UNCHANGED <<program, cmds, output, pPipe, shown, lines>>
  BY DEF P!ExecLs
<1>5. CASE cmds[1] = "missing"
  <2>1. P!Exits(proc[2]) \in PProcess(Len(pPipe)) /\ P!Becomes(2, P!Exits(proc[2]))
    BY <1>2, <1>3, <1>5, PExiting DEF P!ExecLs
  <2>2. PTyped' /\ PSet(2, P!Exits(proc[2])) /\ PFrame
    BY <1>2, <1>4, <2>1, PBecoming
  <2>3. /\ proc'[2].at = "ended" /\ proc'[2].i = proc[2].i /\ proc'[2].stdout = proc[2].stdout
        /\ proc'[2].fds = proc[2].fds /\ proc'[2].buf = proc[2].buf
    BY <1>3, <2>2, PExiting DEF PSet
  <2>4. PLs'
    BY <1>2, <1>3, <1>4, <2>3 DEF PLs
  <2>5. PLsBuf' = PLsBuf
    <3>1. proc[2].buf = <<>>
      BY <1>3, PEmptySeq
    <3> QED BY <1>1, <1>2, <1>5, <2>3, <3>1 DEF PLsBuf, PFirst
  <2>6. PSet(2, proc'[2])
    BY <2>2 DEF PSet
  <2> QED BY <1>2, <1>4, <2>2, <2>4, <2>5, <2>6, PLineChild
<1>6. CASE cmds[1] # "missing"
  <2>1. cmds[1] = "source" /\ "source" \in P!Kinds
    BY <1>2, <1>6 DEF PTwo, P!Kinds
  <2>2. P!Executes(proc[2], "source") \in PProcess(Len(pPipe))
        /\ PRunning(proc[2], P!Executes(proc[2], "source"), "source", proc[2].stdin)
    BY <1>3, <2>1, PSimpleRunners
  <2>3. P!Becomes(2, P!Executes(proc[2], "source"))
    BY <1>2, <1>6, <2>1 DEF P!ExecLs
  <2>4. PTyped' /\ PSet(2, P!Executes(proc[2], "source")) /\ PFrame
    BY <1>2, <1>4, <2>2, <2>3, PBecoming
  <2>5. PRunning(proc[2], proc'[2], "source", proc[2].stdin)
    BY <2>2, <2>4 DEF PSet
  <2>6. PLs'
    BY <1>2, <1>4, <2>1, <2>5 DEF PLs, PRunning
  <2>7. PLsBuf' = PLsBuf
    BY <1>1, <1>2, <2>1, <2>5 DEF PLsBuf, PFirst, PRunning
  <2>8. PSet(2, proc'[2])
    BY <2>4 DEF PSet
  <2> QED BY <1>2, <1>4, <2>4, <2>6, <2>7, <2>8, PLineChild
<1> QED BY <1>5, <1>6

(* Main goes on once ls has ended.                                          *)
LEMMA PLineMain ==
  ASSUME PTyped, PLine, PLineGoes, Len(proc') = 2, proc'[2] = proc[2], proc[2].at = "ended",
         Len(pPipe') = Len(pPipe), PFrame, PWc', PLineWay', proc'[1].stdout = 0
  PROVE  PLine'
<1>1. PLs'
  BY DEF PLineGoes, PLs, PFrame
<1>2. PTwo'
  BY DEF PLine, PTwo, PFrame
<1> QED BY <1>1, <1>2 DEF PLine, PLineGoes

(* When ls has ended, all it wrote was in the pipe.                         *)
LEMMA PLineFits ==
  ASSUME PTyped, PLine, PLineGoes, proc[1].at = "wait", proc[2].at = "ended"
  PROVE  cmds[1] = "missing" \/ output <= Capacity
<1>1. /\ shown \in Seq(Nat) /\ pPipe[1] \in Seq(Nat) /\ proc[1].buf \in Seq(Nat) /\ proc[2].buf \in Seq(Nat)
      /\ Len(shown) = 0 /\ Len(proc[1].buf) = 0 /\ Len(proc[2].buf) = 0 /\ PLsBuf = proc[2].buf
  BY PLinePieces DEF PLineGoes, PLs, PWc, PLineWay, PLsBuf
<1>2. shown = <<>> /\ proc[1].buf = <<>> /\ PLsBuf = <<>>
  BY <1>1, PEmptySeq
<1>3. <<>> \o (<<>> \o (pPipe[1] \o <<>>)) = pPipe[1]
  BY <1>1, PEmptyAdds
<1>4. PFirst = pPipe[1]
  BY <1>2, <1>3 DEF PLineGoes, PLineWay
<1>5. Len(PFirst) <= Capacity
  BY <1>4 DEF PTyped, PLineGoes
<1>6. cmds[1] \in {"source", "missing"}
  BY DEF PLine, PTwo
<1> QED BY <1>5, <1>6, PNumbers DEF PFirst

(* wait returns: main becomes wc, or ends if there is none.                 *)
LEMMA PLineWaits ==
  ASSUME PTyped, PLine, program = "pipeline", NEW q \in 1 .. Len(proc), P!WaitAndExecWc(q)
  PROVE  PTyped' /\ PLine'
<1>1. proc[q].at = "wait" /\ UNCHANGED <<program, cmds, output, pPipe, shown, lines>>
  BY DEF P!WaitAndExecWc
<1>2. PLineGoes /\ q = 1 /\ PTwo /\ proc[1].stdout = 0
  BY <1>1 DEF PLine, PLineBegins, PLineFails, PLineGoes, PLs, PWc
<1>3. proc[2].at = "ended"
  BY <1>2 DEF P!WaitAndExecWc, P!Others, P!Procs, P!Ended, PLineGoes
<1>4. /\ proc[1] \in PProcess(Len(pPipe)) /\ Len(pPipe) \in Nat /\ proc[1].buf \in Seq(Nat)
      /\ Len(proc[1].buf) = 0 /\ proc[1].buf = <<>> /\ PWc /\ ~proc[1].eof /\ Len(shown) = 0
  <2>1. Len(proc[1].buf) = 0 /\ PWc /\ ~proc[1].eof /\ Len(shown) = 0
    BY <1>1, <1>2 DEF PLineGoes, PWc, PLineWay
  <2> QED BY <1>2, <2>1, PLinePieces, PEmptySeq
<1>5. cmds[1] = "missing" \/ output <= Capacity
  BY <1>1, <1>2, <1>3, PLineFits
<1>6. ASSUME PSet(1, proc'[1]), PFrame, PWc', proc'[1].buf = <<>>, proc'[1].at # "wait", proc'[1].stdout = 0
      PROVE  PLine'
  <2>1. Len(proc') = 2 /\ proc'[2] = proc[2] /\ Len(pPipe') = Len(pPipe) /\ 2 \in 1 .. Len(proc)
    BY <1>1, <1>2, <1>6 DEF PSet, PLineGoes
  <2>2. PLsBuf' = PLsBuf /\ PFirst' = PFirst
    BY <1>3, <1>6, <2>1, PFirstSame DEF PLsBuf, PFrame
  <2>3. PLineWay'
    BY <1>1, <1>2, <1>4, <1>5, <1>6, <2>2 DEF PLineGoes, PLineWay, PFrame
  <2> QED BY <1>2, <1>3, <1>6, <2>1, <2>3, PLineMain
<1>7. CASE cmds[2] = "missing"
  <2>1. P!Exits(proc[1]) \in PProcess(Len(pPipe)) /\ P!Becomes(1, P!Exits(proc[1]))
    BY <1>2, <1>4, <1>7, PExiting DEF P!WaitAndExecWc
  <2>2. PTyped' /\ PSet(1, P!Exits(proc[1])) /\ PFrame
    BY <1>1, <1>2, <2>1, PBecoming
  <2>3. /\ proc'[1].at = "ended" /\ proc'[1].i = proc[1].i /\ proc'[1].stdout = proc[1].stdout
        /\ proc'[1].stdin = proc[1].stdin /\ proc'[1].eof = proc[1].eof
        /\ proc'[1].fds = proc[1].fds /\ proc'[1].buf = proc[1].buf
    BY <1>4, <2>2, PExiting DEF PSet
  <2>4. PSet(1, proc'[1]) /\ proc'[2] = proc[2]
    BY <1>2, <2>2 DEF PSet, PLineGoes
  <2>5. PWc'
    BY <1>1, <1>3, <1>4, <1>7, <2>3, <2>4 DEF PWc
  <2> QED BY <1>2, <1>4, <1>6, <2>2, <2>3, <2>4, <2>5
<1>8. CASE cmds[2] # "missing"
  <2>1. cmds[2] = "sort" /\ "sort" \in P!Kinds
    BY <1>2, <1>8 DEF PTwo, P!Kinds
  <2>2. P!Executes(proc[1], "sort") \in PProcess(Len(pPipe))
        /\ PRunning(proc[1], P!Executes(proc[1], "sort"), "sort", proc[1].stdin)
    BY <1>4, <2>1, PSimpleRunners
  <2>3. P!Becomes(1, P!Executes(proc[1], "sort"))
    BY <1>2, <1>8, <2>1 DEF P!WaitAndExecWc
  <2>4. PTyped' /\ PSet(1, P!Executes(proc[1], "sort")) /\ PFrame
    BY <1>1, <1>2, <2>2, <2>3, PBecoming
  <2>5. PRunning(proc[1], proc'[1], "sort", proc[1].stdin)
    BY <2>2, <2>4 DEF PSet
  <2>6. PSet(1, proc'[1]) /\ proc'[2] = proc[2]
    BY <1>2, <2>4 DEF PSet, PLineGoes
  <2>7. PWc'
    BY <1>1, <1>3, <1>4, <2>1, <2>5, <2>6 DEF PWc, PRunning
  <2>8. proc'[1].buf = <<>> /\ proc'[1].at = "run" /\ proc'[1].stdout = 0
    BY <1>2, <2>5 DEF PRunning
  <2> QED BY <1>6, <2>4, <2>6, <2>7, <2>8
<1> QED BY <1>7, <1>8

(* wc reads and prints.                                                     *)
LEMMA PLineReads ==
  ASSUME PTyped, PLine, program = "pipeline", NEW q \in 1 .. Len(proc), PTakes(q) \/ PSeesEnd(q)
  PROVE  PLine'
<1>1. proc[q].at = "run" /\ proc[q].runs \in {"copy", "sort"} /\ ~proc[q].eof
  BY DEF PTakes, PSeesEnd, P!Reads
<1>2. PLineGoes /\ q = 1 /\ proc[1].stdout = 0 /\ PWc /\ proc[2].at = "ended"
  BY <1>1 DEF PLine, PLineBegins, PLineFails, PLineGoes, PLs, PWc
<1>3. /\ proc[1].stdin = 1 /\ Len(pPipe) = 1 /\ 2 \in 1 .. Len(proc) /\ PSame(proc[1], proc'[1])
      /\ Len(proc') = 2 /\ proc'[2] = proc[2] /\ PFrame /\ shown' = shown
  BY <1>2 DEF PTakes, PSeesEnd, PTouches, PLineGoes, PWc
<1>4. /\ shown \in Seq(Nat) /\ pPipe[1] \in Seq(Nat) /\ proc[1].buf \in Seq(Nat) /\ PLsBuf \in Seq(Nat)
      /\ pPipe \in Seq(Seq(Nat))
  BY <1>2, PLinePieces DEF PTyped
<1>5. PLsBuf' = PLsBuf /\ PFirst' = PFirst
  BY <1>2, <1>3, PFirstSame DEF PLsBuf, PFrame
<1>6. PWc' /\ Len(pPipe') = Len(pPipe) /\ proc'[1].buf \o (pPipe'[1] \o PLsBuf) = proc[1].buf \o (pPipe[1] \o PLsBuf)
  <2>1. CASE PTakes(q)
    <3>1. /\ Len(pPipe[1]) > 0 /\ pPipe' = [pPipe EXCEPT ![1] = Tail(@)]
          /\ proc'[1].buf = Append(proc[1].buf, Head(pPipe[1])) /\ proc'[1].eof = proc[1].eof
      BY <1>2, <1>3, <2>1 DEF PTakes, PTouches
    <3>2. pPipe'[1] = Tail(pPipe[1]) /\ Len(pPipe') = Len(pPipe)
      BY <1>3, <1>4, <3>1
    <3>3. PWc'
      BY <1>1, <1>2, <1>3, <3>1 DEF PWc, PSame, PFrame
    <3>4. Append(proc[1].buf, Head(pPipe[1])) \o (Tail(pPipe[1]) \o PLsBuf) = proc[1].buf \o (pPipe[1] \o PLsBuf)
      <4>1. Len(pPipe[1]) > 0
        BY <3>1
      <4> QED BY <1>4, <4>1, PShift
    <3> QED BY <3>1, <3>2, <3>3, <3>4
  <2>2. CASE PSeesEnd(q)
    <3>1. Len(pPipe[1]) = 0 /\ pPipe' = pPipe /\ proc'[1].buf = proc[1].buf
      BY <1>2, <1>3, <2>2 DEF PSeesEnd, PTouches
    <3>2. PWc'
      BY <1>1, <1>2, <1>3, <3>1 DEF PWc, PSame, PFrame
    <3> QED BY <3>1, <3>2
  <2> QED BY <2>1, <2>2
<1>7. PLineWay'
  BY <1>1, <1>2, <1>3, <1>5, <1>6 DEF PLineGoes, PLineWay, PWc, PSame, PFrame
<1>8. proc'[1].stdout = 0
  BY <1>2, <1>3 DEF PSame
<1> QED BY <1>2, <1>3, <1>6, <1>7, <1>8, PLineMain

(* wc prints an item.                                                       *)
LEMMA PLinePrints ==
  ASSUME PTyped, PLine, program = "pipeline", NEW q \in 1 .. Len(proc), PPrints(q)
  PROVE  PLine'
<1>1. proc[q].at = "run" /\ Len(proc[q].buf) > 0 /\ proc[q].stdout = 0
  BY DEF PPrints
<1>2. PLineGoes /\ q = 1 /\ PWc /\ proc[2].at = "ended"
  BY <1>1 DEF PLine, PLineBegins, PLineFails, PLineGoes, PLs, PWc
<1>3. /\ Len(pPipe) = 1 /\ 2 \in 1 .. Len(proc) /\ PSame(proc[1], proc'[1]) /\ pPipe' = pPipe
      /\ Len(proc') = 2 /\ proc'[2] = proc[2] /\ PFrame /\ shown' = Append(shown, Head(proc[1].buf))
      /\ proc'[1].buf = Tail(proc[1].buf) /\ proc'[1].eof = proc[1].eof
  BY <1>2 DEF PPrints, PTouches, PLineGoes
<1>4. /\ shown \in Seq(Nat) /\ pPipe[1] \in Seq(Nat) /\ proc[1].buf \in Seq(Nat) /\ PLsBuf \in Seq(Nat)
  BY <1>2, PLinePieces
<1>5. PLsBuf' = PLsBuf /\ PFirst' = PFirst
  BY <1>2, <1>3, PFirstSame DEF PLsBuf, PFrame
<1>6. PWc'
  BY <1>1, <1>2, <1>3 DEF PWc, PSame, PFrame
<1>7. shown' \o (proc'[1].buf \o (pPipe[1] \o PLsBuf)) = shown \o (proc[1].buf \o (pPipe[1] \o PLsBuf))
  <2>1. pPipe[1] \o PLsBuf \in Seq(Nat)
    BY <1>4
  <2>2. Len(proc[1].buf) > 0
    BY <1>1, <1>2
  <2>3. Append(shown, Head(proc[1].buf)) \o (Tail(proc[1].buf) \o (pPipe[1] \o PLsBuf))
          = shown \o (proc[1].buf \o (pPipe[1] \o PLsBuf))
    BY <1>4, <2>1, <2>2, PShift
  <2> QED BY <1>3, <2>3
<1>8. PLineWay'
  BY <1>1, <1>2, <1>3, <1>5, <1>7 DEF PLineGoes, PLineWay, PWc, PSame, PFrame
<1>9. proc'[1].stdout = 0
  BY <1>1, <1>2, <1>3 DEF PSame
<1> QED BY <1>2, <1>3, <1>6, <1>8, <1>9, PLineMain

(* ls writes.                                                               *)
LEMMA PLinePuts ==
  ASSUME PTyped, PLine, program = "pipeline", NEW q \in 1 .. Len(proc), PPuts(q)
  PROVE  PLine'
<1>1. proc[q].at = "run" /\ Len(proc[q].buf) > 0 /\ proc[q].stdout \in 1 .. Len(pPipe)
  BY DEF PPuts
<1>2. PLineGoes /\ q = 2 /\ PWc /\ PLs /\ PTwo /\ proc[1].at = "wait" /\ proc[1].stdout = 0
  BY <1>1 DEF PLine, PLineBegins, PLineFails, PLineGoes, PLs, PWc
<1>3. /\ Len(pPipe) = 1 /\ 1 \in 1 .. Len(proc) /\ PSame(proc[2], proc'[2]) /\ proc[2].stdout = 1
      /\ pPipe' = [pPipe EXCEPT ![1] = Append(@, Head(proc[2].buf))]
      /\ Len(proc') = 2 /\ proc'[1] = proc[1] /\ PFrame /\ shown' = shown
      /\ proc'[2].buf = Tail(proc[2].buf)
  <2>1. Len(pPipe) = 1 /\ Len(proc) = 2 /\ proc[2].stdout = 1 /\ 1 \in 1 .. Len(proc) /\ 2 \in 1 .. Len(proc)
    BY <1>2 DEF PLineGoes, PLs
  <2>2. pPipe' = [pPipe EXCEPT ![1] = Append(@, Head(proc[2].buf))] /\ PFrame /\ shown' = shown
    BY <1>2, <2>1 DEF PPuts
  <2>3. PTouches(2, Tail(proc[2].buf), proc[2].eof)
    BY <1>2 DEF PPuts
  <2>4. PSame(proc[2], proc'[2]) /\ Len(proc') = 2 /\ proc'[1] = proc[1] /\ proc'[2].buf = Tail(proc[2].buf)
    BY <2>1, <2>3 DEF PTouches
  <2> QED BY <2>1, <2>2, <2>4
<1>4. /\ shown \in Seq(Nat) /\ pPipe[1] \in Seq(Nat) /\ proc[1].buf \in Seq(Nat) /\ proc[2].buf \in Seq(Nat)
      /\ pPipe \in Seq(Seq(Nat))
  BY <1>2, PLinePieces DEF PTyped
<1>5. pPipe'[1] = Append(pPipe[1], Head(proc[2].buf)) /\ Len(pPipe') = 1
  BY <1>3, <1>4
<1>6. PLs'
  BY <1>1, <1>2, <1>3 DEF PLs, PSame, PFrame
<1>7. PWc'
  BY <1>2, <1>3 DEF PWc, PFrame
<1>8. PLsBuf = proc[2].buf /\ PLsBuf' = Tail(proc[2].buf) /\ PFirst' = PFirst
  BY <1>1, <1>2, <1>3, PFirstSame DEF PLsBuf, PSame, PFrame
<1>9. pPipe'[1] \o PLsBuf' = pPipe[1] \o PLsBuf
  BY <1>1, <1>2, <1>4, <1>5, <1>8, PShiftEnd
<1>10. PLineWay'
  BY <1>2, <1>3, <1>8, <1>9 DEF PLineGoes, PLineWay, PFrame
<1>11. PTwo'
  BY <1>2, <1>3 DEF PTwo, PFrame
<1> QED BY <1>2, <1>3, <1>5, <1>6, <1>7, <1>10, <1>11 DEF PLine, PLineGoes

(* ls gets no SIGPIPE: main holds the read end while it waits.              *)
LEMMA PLineUnbroken ==
  ASSUME PTyped, PLine, program = "pipeline", NEW q \in 1 .. Len(proc)
  PROVE  ~PBreaks(q)
<1> SUFFICES ASSUME PBreaks(q) PROVE FALSE
  OBVIOUS
<1>1. proc[q].at = "run" /\ proc[q].stdout # 0
  BY DEF PBreaks
<1>2. PLineGoes /\ proc[q].stdout = 1 /\ proc[1].at = "wait" /\ proc[1].fds = {P!R(1)} /\ 1 \in 1 .. Len(proc)
  BY <1>1 DEF PLine, PLineBegins, PLineFails, PLineGoes, PLs, PWc
<1> QED BY <1>2 DEF PBreaks, P!Holds, P!Ended

(* ls or wc ends.                                                           *)
LEMMA PLineFinishes ==
  ASSUME PTyped, PLine, program = "pipeline", NEW q \in 1 .. Len(proc), PFinishes(q)
  PROVE  PLine'
<1>1. /\ proc[q].at = "run" /\ ~P!Reads(q) /\ Len(proc[q].buf) = 0
      /\ PSet(q, P!Exits(proc[q])) /\ PFrame /\ UNCHANGED <<pPipe, shown>>
  BY DEF PFinishes, PEnding
<1>2. PLineGoes /\ PTwo /\ proc[1].stdout = 0 /\ PLs /\ PWc /\ q \in {1, 2}
  BY <1>1 DEF PLine, PLineBegins, PLineFails, PLineGoes
<1>3. proc[q] \in PProcess(Len(pPipe)) /\ Len(pPipe) \in Nat
  BY PPipesNumbers
<1>4. /\ proc'[q].at = "ended" /\ proc'[q].i = proc[q].i /\ proc'[q].stdout = proc[q].stdout
      /\ proc'[q].stdin = proc[q].stdin /\ proc'[q].eof = proc[q].eof
      /\ proc'[q].fds = proc[q].fds /\ proc'[q].buf = proc[q].buf
  BY <1>1, <1>3, PExiting DEF PSet
<1>5. PSet(q, proc'[q]) /\ Len(proc') = 2
  BY <1>1, <1>2 DEF PSet, PLineGoes
<1>6. CASE q = 2
  <2>1. proc[1].at = "wait"
    BY <1>1, <1>2, <1>6 DEF PWc
  <2>2. PLs'
    BY <1>1, <1>2, <1>4, <1>6 DEF PLs, PFrame
  <2>3. PLsBuf' = PLsBuf
    BY <1>1, <1>4, <1>6 DEF PLsBuf
  <2> QED BY <1>1, <1>2, <1>5, <1>6, <2>1, <2>2, <2>3, PLineChild
<1>7. CASE q = 1
  <2>1. proc'[2] = proc[2] /\ proc[2].at = "ended" /\ proc[1].runs = "sort" /\ proc[1].eof /\ cmds[2] = "sort"
    BY <1>1, <1>2, <1>5, <1>7 DEF PSet, PWc, PLineGoes, P!Reads
  <2>2. PWc'
    BY <1>1, <1>2, <1>4, <1>7, <2>1, ZenonT(40) DEF PWc, PFrame
  <2>3. PLsBuf' = PLsBuf /\ PFirst' = PFirst
    BY <1>1, <2>1, PFirstSame DEF PLsBuf, PFrame
  <2>4. PLineWay'
    BY <1>1, <1>2, <1>4, <1>7, <2>1, <2>3 DEF PLineGoes, PLineWay, PFrame
  <2> QED BY <1>1, <1>2, <1>4, <1>5, <1>7, <2>1, <2>2, <2>4, PLineMain
<1> QED BY <1>2, <1>6, <1>7

(* Every step of pipeline.c.                                                *)
LEMMA PLineNext ==
  ASSUME PTyped, PLine, program = "pipeline", NEW q \in 1 .. Len(proc), P!Enter(q) \/ P!Step(q)
  PROVE  PTyped' /\ PLine' /\ program' = program
<1>0. proc[q].at \in {"fork", "exec", "wait", "run", "ended"}
  BY DEF PLine, PLineBegins, PLineFails, PLineGoes, PLs, PWc
<1>1. CASE P!ForkLs(q)
  BY <1>1, PLineForks DEF P!ForkLs
<1>2. CASE P!ExecLs(q)
  BY <1>2, PLineExecLs DEF P!ExecLs
<1>3. CASE P!WaitAndExecWc(q)
  BY <1>3, PLineWaits DEF P!WaitAndExecWc
<1>4. CASE P!ReadPipe(q)
  <2>1. PTyped' /\ (PTakes(q) \/ PSeesEnd(q))
    BY <1>4, PReadEffect
  <2> QED BY <1>4, <2>1, PLineReads DEF P!ReadPipe
<1>5. CASE P!WriteOut(q)
  <2>1. PTyped' /\ (PPrints(q) \/ PPuts(q))
    BY <1>5, PWriteEffect, PLineUnbroken
  <2> QED BY <1>5, <2>1, PLinePrints, PLinePuts DEF P!WriteOut
<1>6. CASE P!Finish(q)
  <2>1. PTyped' /\ PFinishes(q)
    BY <1>6, PFinishEffect
  <2> QED BY <1>6, <2>1, PLineFinishes DEF P!Finish
<1>7. \/ P!ForkLs(q) \/ P!ExecLs(q) \/ P!WaitAndExecWc(q)
      \/ P!ReadPipe(q) \/ P!WriteOut(q) \/ P!Finish(q)
  BY <1>0 DEF P!Enter, P!Step, P!Spawn, P!ExecStage, P!ExecLast, P!ForkFirst, P!ForkSecond,
     P!ExecCommand, P!ShellWaits
<1> QED BY <1>1, <1>2, <1>3, <1>4, <1>5, <1>6, <1>7

(* The invariant of pipeline.c is strong enough.                            *)
LEMMA PLineSound ==
  ASSUME PTyped, PLine, program = "pipeline"
  PROVE  P!OneWriter /\ P!NothingLeaks /\ P!NeverBroken /\ P!PassesOn
<1>1. P!NothingLeaks
  BY DEF P!NothingLeaks
<1>2. P!NeverBroken
  <2> SUFFICES ASSUME NEW q \in 1 .. Len(proc), proc[q].at = "run", proc[q].stdout # 0
               PROVE  \E r \in 1 .. Len(proc) : P!Holds(r, P!R(proc[q].stdout))
    BY DEF P!NeverBroken, P!Procs
  <2> QED BY PLineUnbroken DEF PBreaks
<1>3. P!OneWriter
  <2> SUFFICES ASSUME NEW q \in 1 .. Len(proc), NEW r \in 1 .. Len(proc), P!Reads(q),
                      P!Holds(r, P!W(proc[q].stdin))
               PROVE  FALSE
    BY DEF P!OneWriter, P!Procs
  <2>1. PLineGoes /\ PWc /\ proc[1].stdout = 0 /\ proc[q].at = "run" /\ proc[q].runs \in {"copy", "sort"}
    BY DEF PLine, PLineBegins, PLineFails, PLineGoes, P!Reads
  <2>2. q = 1 /\ proc[q].stdin = 1 /\ proc[2].at = "ended"
    BY <2>1 DEF PLineGoes, PLs, PWc
  <2>3. r = 1
    BY <2>1, <2>2 DEF PLineGoes, P!Holds, P!Ended
  <2> QED BY <2>1, <2>2, <2>3, PEndsDiffer DEF P!Holds, PWc
<1>4. P!PassesOn
  <2> SUFFICES ASSUME P!AllEnded
               PROVE  /\ P!WholeResult \/ (failed > 0 /\ shown = <<>>)
                      /\ failed = 0 => P!Missing = {1} \/ output <= Capacity
    BY DEF P!PassesOn
  <2>0. \A q \in 1 .. Len(proc) : proc[q].at \in {"ended", "prompt"}
    BY DEF P!AllEnded, P!Procs
  <2>1. shown \in Seq(Nat) /\ PTwo /\ DOMAIN cmds = 1 .. 2
    BY DEF PTyped, PLine, PTwo
  <2>2. CASE PLineFails
    BY <2>1, <2>2, PEmptySeq DEF PLineFails
  <2>3. CASE PLineGoes
    <3>1. proc[1].at = "ended" /\ proc[2].at = "ended" /\ PWc /\ PLs /\ PLineWay
      BY <2>0, <2>3 DEF PLineGoes, PLs, PWc
    <3>2. proc[1].buf = <<>> /\ PLsBuf = <<>>
      BY <2>3, <3>1, PLinePieces, PEmptySeq DEF PLs, PWc, PLsBuf
    <3>3. CASE cmds[2] = "missing"
      <4>1. shown = <<>> /\ cmds[1] = "source"
        BY <2>1, <3>1, <3>3, PEmptySeq DEF PLineWay, PTwo
      <4>2. cmds # <<>> /\ \A k \in DOMAIN cmds : P!LastMaker(k) => k = 2
        BY <2>1, <3>3 DEF P!LastMaker, PTwo
      <4>3. P!Makes(2) = <<>>
        BY <3>3 DEF P!Makes
      <4>4. P!WholeResult
        BY <4>1, <4>2, <4>3 DEF P!WholeResult
      <4> QED BY <3>1, <4>1, <4>4 DEF PLineWay
    <3>4. CASE cmds[2] # "missing"
      <4>1. pPipe[1] = <<>> /\ cmds[2] = "sort"
        BY <2>1, <2>3, <3>1, <3>4, PLinePieces, PEmptySeq DEF PWc, PTwo
      <4>2. shown \o (<<>> \o (<<>> \o <<>>)) = shown
        BY <2>1, PEmptyAdds
      <4>3. shown = PFirst
        BY <3>1, <3>2, <4>1, <4>2 DEF PLineWay
      <4>4. cmds # <<>> /\ \A k \in DOMAIN cmds : P!LastMaker(k) => k = 1
        BY <2>1, <4>1 DEF P!LastMaker, PTwo
      <4>5. P!Makes(1) = PFirst
        BY <2>1 DEF P!Makes, PFirst, PTwo
      <4>6. P!WholeResult
        BY <2>1, <4>3, <4>4, <4>5 DEF P!WholeResult, PTwo
      <4>7. cmds[1] = "missing" => P!Missing = {1}
        BY <2>1, <4>1 DEF P!Missing
      <4> QED BY <3>1, <4>6, <4>7 DEF PLineWay
    <3> QED BY <3>3, <3>4
  <2>4. ~PLineBegins
    <3>1. 1 \in 1 .. Len(proc)
      BY PPipesNumbers
    <3> QED BY <2>0, <3>1 DEF PLineBegins
  <2> QED BY <2>2, <2>3, <2>4 DEF PLine
<1> QED BY <1>1, <1>2, <1>3, <1>4

-----------------------------------------------------------------------------
(* The module of the pipelines has its own name for the same operator.      *)
LEMMA PCounting ==
  ASSUME NEW s
  PROVE  P!Cardinality(s) = Cardinality(s)
BY DEF P!Cardinality, Cardinality, P!IsFiniteSet, IsFiniteSet

(* One more element counts for at most one.                                 *)
LEMMA PAddsOne ==
  ASSUME NEW s, NEW x, IsFiniteSet(s)
  PROVE  /\ IsFiniteSet(s \cup {x}) /\ Cardinality(s \cup {x}) \in Nat /\ Cardinality(s) \in Nat
         /\ Cardinality(s \cup {x}) <= Cardinality(s) + 1
<1>1. IsFiniteSet(s \cup {x}) /\ Cardinality(s) \in Nat
      /\ Cardinality(s \cup {x}) = IF x \in s THEN Cardinality(s) ELSE Cardinality(s) + 1
  BY FS_AddElement, FS_CardinalityType
<1>2. Cardinality(s \cup {x}) \in Nat
  BY <1>1, FS_CardinalityType
<1> QED BY <1>1, <1>2

(* The shell's descriptors after a fork that worked, and one that failed.   *)
LEMMA PFewLess ==
  ASSUME NEW s, NEW t, NEW k \in Nat, PFew(s, k), t \subseteq s
  PROVE  PFew(t, k)
<1>1. IsFiniteSet(s) /\ Cardinality(s) <= 2 * k /\ t \in SUBSET s
  BY DEF PFew
<1>2. IsFiniteSet(t) /\ Cardinality(t) <= Cardinality(s)
  BY <1>1, FS_Subset
<1>3. Cardinality(t) \in Nat /\ Cardinality(s) \in Nat
  BY <1>1, <1>2, FS_CardinalityType
<1> HIDE DEF PFew
<1>4. Cardinality(t) <= 2 * k
  BY <1>1, <1>2, <1>3
<1> QED BY <1>2, <1>4 DEF PFew

(* A fork that fails leaves two ends, for which it is counted.              *)
LEMMA PFewMore ==
  ASSUME NEW s, NEW a, NEW b, NEW k \in Nat, PFew(s \ {a, b}, k)
  PROVE  PFew(s, k + 1)
<1> DEFINE t == s \ {a, b}
<1>1. IsFiniteSet(t) /\ Cardinality(t) <= 2 * k /\ Cardinality(t) \in Nat
  BY FS_CardinalityType DEF PFew
<1> HIDE DEF t
<1>2. IsFiniteSet(t \cup {a}) /\ Cardinality(t \cup {a}) <= Cardinality(t) + 1 /\ Cardinality(t \cup {a}) \in Nat
  BY <1>1, PAddsOne
<1>3. /\ IsFiniteSet((t \cup {a}) \cup {b}) /\ Cardinality((t \cup {a}) \cup {b}) <= Cardinality(t \cup {a}) + 1
      /\ Cardinality((t \cup {a}) \cup {b}) \in Nat
  BY <1>2, PAddsOne
<1>4. Cardinality((t \cup {a}) \cup {b}) <= 2 * (k + 1)
  BY <1>1, <1>2, <1>3
<1>5. PFew((t \cup {a}) \cup {b}, k + 1) /\ k + 1 \in Nat
  BY <1>3, <1>4 DEF PFew
<1>6. s \subseteq (t \cup {a}) \cup {b}
  BY DEF t
<1> QED BY <1>5, <1>6, PFewLess

(* A fork that fails without a pipe leaves none.                            *)
LEMMA PFewLonger ==
  ASSUME NEW s, NEW k \in Nat, PFew(s, k)
  PROVE  PFew(s, k + 1)
<1>1. IsFiniteSet(s) /\ Cardinality(s) \in Nat /\ Cardinality(s) <= 2 * k
  BY FS_CardinalityType DEF PFew
<1> QED BY <1>1 DEF PFew

(* The shell begins in its invariant.                                       *)
LEMMA PShellAtFirst ==
  ASSUME P!Init, program = "shell"
  PROVE  PShell
<1>1. /\ PTyped /\ Len(proc) = 1 /\ shown = <<>> /\ failed = 0
      /\ proc[1] = P!Main("prompt") /\ cmds = <<>>
  BY PTypedAtFirst
<1>2. /\ proc[1].at = "prompt" /\ proc[1].i = 1 /\ proc[1].stdout = 0
      /\ proc[1].fds = {} /\ Len(proc[1].buf) = 0 /\ ~proc[1].eof
  <2>1. "prompt" \in PPlaces
    BY DEF PPlaces
  <2> QED BY <1>1, <2>1, PMainAtFirst
<1>3. PLeak(proc[1].fds)
  <2>1. IsFiniteSet({}) /\ Cardinality({}) = 0
    BY FS_EmptySet
  <2>2. PFew({}, 0)
    BY <2>1 DEF PFew
  <2> QED BY <1>1, <1>2, <2>2 DEF PLeak
<1>4. Len(cmds) = 0 /\ DOMAIN cmds = {}
  BY <1>1
<1>5. P!WholeResult
  BY <1>1, <1>4 DEF P!WholeResult
<1>6. PAtPrompt
  BY <1>1, <1>2, <1>3, <1>5 DEF PAtPrompt, PQuiet
<1> QED BY <1>2, <1>4, <1>6 DEF PShell, PShellCmds, PIdle

(* Who runs is the last one forked, while main waits for it.                *)
LEMMA PShellWho ==
  ASSUME PTyped, PShell, NEW q \in 1 .. Len(proc), proc[q].at # "ended"
  PROVE  /\ q = 1 \/ (q = Len(proc) /\ Len(proc) >= 2 /\ proc[q].at \in {"exec", "run"} /\ (PAtWait \/ PAtAgain))
         /\ q = 1 => proc[q].at \in {"prompt", "fork", "wait", "again"}
<1>1. Len(proc) \in Nat
  BY PPipesNumbers
<1>2. ASSUME PAtPrompt \/ PAtFork PROVE q = 1
  BY <1>1, <1>2 DEF PAtPrompt, PAtFork, PQuiet
<1>3. ASSUME NEW k, PChild(k), q # 1
      PROVE  q = Len(proc) /\ Len(proc) >= 2 /\ proc[q].at \in {"exec", "run"}
  BY <1>1, <1>3 DEF PChild, PLast
<1>4. ASSUME PAtWait \/ PAtAgain PROVE PChild(1) \/ PChild(2)
  BY <1>4 DEF PAtWait, PAtAgain, PSingle, PReader, PWriter
<1>5. q = 1 => proc[q].at \in {"prompt", "fork", "wait", "again"}
  BY DEF PShell, PAtPrompt, PAtFork, PAtWait, PAtAgain
<1> QED BY <1>2, <1>3, <1>4, <1>5 DEF PShell

(* The commands of a line.                                                  *)
LEMMA PShellPieces ==
  ASSUME PTyped, PShell
  PROVE  /\ shown \in Seq(Nat) /\ POwn(1) \in Seq(Nat) /\ POwn(2) \in Seq(Nat)
         /\ Len(cmds) \in 0 .. 2 /\ DOMAIN cmds = 1 .. Len(cmds)
         /\ Len(proc) \in Nat /\ Len(proc) >= 1 /\ PLast \in PProcess(Len(pPipe)) /\ Len(pPipe) \in Nat
         /\ PLast.buf \in Seq(Nat) /\ pPipe \in Seq(Seq(Nat)) /\ failed \in Nat
         /\ Len(pPipe) > 0 => pPipe[Len(pPipe)] \in Seq(Nat)
<1>1. Len(proc) \in Nat /\ Len(proc) >= 1 /\ Len(pPipe) \in Nat /\ PLast \in PProcess(Len(pPipe))
  BY PPipesNumbers DEF PLast
<1>2. Len(cmds) \in 0 .. 2 /\ DOMAIN cmds = 1 .. Len(cmds)
  <2>1. cmds \in Seq(P!Kinds) /\ Len(cmds) <= 2
    BY DEF PTyped, PShell, PShellCmds
  <2>2. Len(cmds) \in Nat /\ DOMAIN cmds = 1 .. Len(cmds)
    BY <2>1
  <2>3. \A k \in Nat : k <= 2 => k \in 0 .. 2
    OBVIOUS
  <2> QED BY <2>1, <2>2, <2>3
<1>3. POwn(1) \in Seq(Nat) /\ POwn(2) \in Seq(Nat)
  <2>1. <<>> \in Seq(Nat) /\ P!Message \in Seq(Nat)
    BY DEF P!Message
  <2> QED BY <2>1, PNumbers DEF POwn
<1>4. Len(pPipe) > 0 => pPipe[Len(pPipe)] \in Seq(Nat)
  BY <1>1, PPipesNumbers
<1>5. PLast.buf \in Seq(Nat)
  BY <1>1, PFields
<1> QED BY <1>1, <1>2, <1>3, <1>4, <1>5 DEF PTyped

(* What the terminal shows when the last child has ended.                   *)
LEMMA PShellResult ==
  ASSUME PTyped, PShell, program = "shell", PSingle \/ PReader, PLast.at = "ended"
  PROVE  P!WholeResult
<1>1. /\ shown \in Seq(Nat) /\ DOMAIN cmds = 1 .. Len(cmds) /\ PShellCmds
      /\ Len(PLast.buf) = 0 /\ PLast.buf = <<>> /\ Len(pPipe) \in Nat
  <2>1. Len(PLast.buf) = 0
    BY DEF PSingle, PReader, PChild
  <2> QED BY <2>1, PShellPieces, PEmptySeq DEF PShell
<1>2. shown \o <<>> = shown
  BY <1>1, PEmptyAdds
<1>3. POwn(1) = P!Makes(1) /\ POwn(2) = P!Makes(2)
  BY DEF POwn, P!Makes
<1>6. Len(cmds) > 0 => cmds # <<>>
  OBVIOUS
<1>4. CASE PSingle
  <2>1. Len(cmds) = 1 /\ shown = POwn(1) /\ cmds[1] \in {"source", "missing"}
    BY <1>1, <1>2, <1>4 DEF PSingle, PShellCmds
  <2>2. cmds # <<>> /\ \A k \in DOMAIN cmds : k = 1
    BY <1>1, <1>6, <2>1
  <2> QED BY <1>3, <2>1, <2>2 DEF P!WholeResult
<1>5. CASE PReader
  <2>0. Len(cmds) = 2 /\ cmds[1] \in {"source", "missing"}
    BY <1>1, <1>5 DEF PReader, PShellCmds
  <2>1. CASE cmds[2] \in {"copy", "sort"}
    <3>1. shown \o (PLast.buf \o pPipe[Len(pPipe)]) = POwn(1) /\ Len(pPipe[Len(pPipe)]) = 0 /\ Len(pPipe) > 0
      BY <1>5, <2>1 DEF PReader
    <3>2. pPipe[Len(pPipe)] = <<>>
      BY <3>1, PShellPieces, PEmptySeq
    <3>3. <<>> \o <<>> = <<>>
      OBVIOUS
    <3>4. shown = POwn(1)
      BY <1>1, <1>2, <3>1, <3>2, <3>3
    <3>5. \A k \in DOMAIN cmds : P!LastMaker(k) => k = 1
      BY <1>1, <2>0, <2>1 DEF P!LastMaker
    <3> QED BY <1>3, <1>6, <2>0, <3>4, <3>5 DEF P!WholeResult
  <2>2. CASE cmds[2] \notin {"copy", "sort"}
    <3>1. shown = POwn(2)
      BY <1>1, <1>2, <1>5, <2>2 DEF PReader
    <3>2. \A k \in DOMAIN cmds : P!LastMaker(k) => k = 2
      BY <1>1, <2>0, <2>2 DEF P!LastMaker
    <3> QED BY <1>3, <1>6, <2>0, <3>1, <3>2 DEF P!WholeResult
  <2> QED BY <2>1, <2>2
<1> QED BY <1>4, <1>5

(* The first command gets no SIGPIPE: the shell holds the read end.         *)
LEMMA PShellUnbroken ==
  ASSUME PTyped, PShell, NEW q \in 1 .. Len(proc)
  PROVE  ~PBreaks(q)
<1> SUFFICES ASSUME PBreaks(q) PROVE FALSE
  OBVIOUS
<1>1. proc[q].at = "run" /\ proc[q].stdout # 0 /\ 1 \in 1 .. Len(proc)
  BY PPipesNumbers DEF PBreaks
<1>2. q = Len(proc) /\ (PAtWait \/ PAtAgain)
  BY <1>1, PShellWho
<1>3. PAtAgain /\ proc[q].stdout = Len(pPipe)
  BY <1>1, <1>2 DEF PAtWait, PAtAgain, PSingle, PReader, PWriter, PLast
<1> QED BY <1>1, <1>3 DEF PBreaks, P!Holds, P!Ended, PAtAgain

(* The invariant of the shell is strong enough.                             *)
LEMMA PShellSound ==
  ASSUME PTyped, PShell, program = "shell"
  PROVE  P!OneWriter /\ P!NothingLeaks /\ P!NeverBroken /\ P!PassesOn
<1>1. P!NothingLeaks
  <2> SUFFICES ASSUME proc[1].at = "prompt" PROVE Cardinality(proc[1].fds) <= 2 * failed
    BY PCounting DEF P!NothingLeaks
  <2>1. PAtPrompt
    BY DEF PShell, PAtPrompt, PAtFork, PAtWait, PAtAgain
  <2> QED BY <2>1 DEF PAtPrompt, PLeak, PFew
<1>2. P!NeverBroken
  <2> SUFFICES ASSUME NEW q \in 1 .. Len(proc), proc[q].at = "run", proc[q].stdout # 0
               PROVE  \E r \in 1 .. Len(proc) : P!Holds(r, P!R(proc[q].stdout))
    BY DEF P!NeverBroken, P!Procs
  <2> QED BY PShellUnbroken DEF PBreaks
<1>3. P!OneWriter
  <2> SUFFICES ASSUME NEW q \in 1 .. Len(proc), NEW r \in 1 .. Len(proc), P!Reads(q),
                      P!Holds(r, P!W(proc[q].stdin))
               PROVE  FALSE
    BY DEF P!OneWriter, P!Procs
  <2>1. proc[q].at = "run" /\ proc[q].runs \in {"copy", "sort"}
    BY DEF P!Reads
  <2>2. q = Len(proc) /\ (PAtWait \/ PAtAgain)
    BY <2>1, PShellWho
  <2>3. PReader /\ proc[q].stdin = Len(pPipe) /\ proc[q].stdout = 0
    <3>1. PSingle => proc[q].runs \in {"source", "missing"}
      BY <2>1, <2>2 DEF PSingle, PChild, PLast, PShell, PShellCmds
    <3>2. PWriter => proc[q].runs \in {"source", "missing"}
      BY <2>1, <2>2 DEF PWriter, PChild, PLast, PShell, PShellCmds
    <3>3. PReader
      BY <2>1, <2>2, <3>1, <3>2 DEF PAtWait, PAtAgain
    <3> QED BY <2>2, <3>3 DEF PReader, PLast
  <2>4. proc[r].at # "ended" /\ proc[r].stdout = 0
    <3>1. proc[r].at # "ended"
      BY DEF P!Holds, P!Ended
    <3>2. r = 1 \/ r = Len(proc)
      BY <3>1, PShellWho
    <3> QED BY <2>2, <2>3, <3>1, <3>2 DEF PShell
  <2>5. P!W(Len(pPipe)) \notin proc[r].fds /\ Len(pPipe) > 0
    BY <2>3, <2>4 DEF PReader, PNobody
  <2>6. P!W(Len(pPipe)) \in proc[r].fds \cup {P!R(proc[r].stdin), P!W(0)} /\ Len(pPipe) # 0
    BY <2>3, <2>4, <2>5, PPipesNumbers DEF P!Holds
  <2>7. P!W(Len(pPipe)) # P!W(0) /\ P!R(proc[r].stdin) # P!W(Len(pPipe))
    BY <2>6, PEndsDiffer
  <2> QED BY <2>5, <2>6, <2>7
<1>4. P!PassesOn
  <2> SUFFICES ASSUME P!AllEnded
               PROVE  P!WholeResult \/ (failed > 0 /\ shown = <<>>)
    BY DEF P!PassesOn
  <2>1. 1 \in 1 .. Len(proc)
    BY PPipesNumbers
  <2>2. PAtPrompt
    BY <2>1 DEF P!AllEnded, P!Procs, PShell, PAtFork, PAtWait, PAtAgain
  <2> QED BY <2>2, PShellPieces, PEmptySeq DEF PAtPrompt
<1> QED BY <1>1, <1>2, <1>3, <1>4

(* main is always there.                                                    *)
LEMMA PMainThere ==
  ASSUME PTyped
  PROVE  1 \in 1 .. Len(proc) /\ proc[1] \in PProcess(Len(pPipe)) /\ Len(pPipe) \in Nat /\ failed \in Nat
BY PPipesNumbers DEF PTyped

(* The types, in a step of the shell that opens no pipe.                    *)
LEMMA PTypedStays ==
  ASSUME PTyped, pPipe' = pPipe, UNCHANGED <<program, output>>, failed' \in Nat, shown' \in Seq(Nat),
         cmds' \in Seq(P!Kinds), lines' \in 0 .. MaxLines,
         proc' \in Seq(PProcess(Len(pPipe))), Len(proc') >= 1
  PROVE  PTyped'
BY DEF PTyped

(* When main goes on, the children have ended as before.                    *)
LEMMA PQuietStays ==
  ASSUME PQuiet, PSet(1, proc'[1])
  PROVE  PQuiet'
BY DEF PQuiet, PSet

(* The shell's main process after a fork, and the new child.                *)
LEMMA PShellGrows ==
  ASSUME PTyped, PQuiet, NEW parent, NEW child, PGrow(1, parent, child)
  PROVE  /\ Len(proc') \in Nat /\ Len(proc') >= 2 /\ proc'[1] = parent /\ PLast' = child
         /\ \A r \in 2 .. Len(proc') - 1 : proc'[r].at = "ended"
<1>1. Len(proc) \in Nat /\ Len(proc) >= 1
  BY PPipesNumbers
<1>2. Len(proc') = Len(proc) + 1 /\ proc'[1] = parent /\ PLast' = child
  BY DEF PGrow, PLast
<1>3. ASSUME NEW r \in 2 .. Len(proc') - 1 PROVE proc'[r].at = "ended"
  <2>1. r \in 2 .. Len(proc) /\ r \in 1 .. Len(proc) /\ r # 1
    BY <1>1, <1>2
  <2> QED BY <2>1 DEF PGrow, PQuiet
<1> QED BY <1>1, <1>2, <1>3

(* A line is read: a builtin, exit, or commands to fork.                    *)
LEMMA PShellEnters ==
  ASSUME PTyped, PShell, program = "shell", NEW q \in 1 .. Len(proc), P!Enter(q)
  PROVE  PTyped' /\ PShell' /\ program' = program
<1>1. proc[q].at = "prompt" /\ UNCHANGED <<program, output, pPipe>> /\ shown' = <<>> /\ failed' = failed
  BY DEF P!Enter, P!Becomes
<1>2. q = 1 /\ PAtPrompt /\ PIdle(1) /\ proc[1].stdout = 0 /\ proc[1].i = 1
  BY <1>1, PShellWho DEF PShell, PAtFork, PAtWait, PAtAgain
<1>3. proc[1] \in PProcess(Len(pPipe)) /\ Len(pPipe) \in Nat /\ failed \in Nat /\ 1 \in 1 .. Len(proc)
  BY PMainThere
<1>4. lines' \in 0 .. MaxLines /\ shown' \in Seq(Nat) /\ Len(shown') = 0
  <2>1. lines' = lines + 1 /\ lines < MaxLines /\ lines \in 0 .. MaxLines
    BY DEF P!Enter, PTyped
  <2> QED BY <1>1, <2>1, TalkAssumption
<1>5. ASSUME NEW me \in PProcess(Len(pPipe)), P!Becomes(1, me), cmds' \in Seq(P!Kinds),
             me.fds = proc[1].fds, me.buf = proc[1].buf, me.eof = proc[1].eof,
             me.stdout = proc[1].stdout, me.i = proc[1].i
      PROVE  /\ PTyped' /\ proc'[1] = me /\ PQuiet' /\ PLeak(proc[1].fds)'
             /\ PIdle(1)' /\ proc'[1].stdout = 0 /\ proc'[1].i = 1
  <2>1. proc' \in Seq(PProcess(Len(pPipe))) /\ PSet(1, me)
    BY <1>3, <1>5, PSetting DEF P!Becomes, PTyped
  <2>2. PTyped'
    BY <1>1, <1>3, <1>4, <1>5, <2>1, PPipesNumbers, PTypedStays DEF PSet
  <2>3. proc'[1] = me /\ PSet(1, proc'[1])
    BY <2>1 DEF PSet
  <2>4. PQuiet'
    BY <1>2, <2>3, PQuietStays DEF PAtPrompt
  <2>5. PLeak(proc[1].fds)'
    BY <1>1, <1>2, <1>5, <2>3 DEF PAtPrompt, PLeak
  <2> QED BY <1>2, <1>5, <2>2, <2>3, <2>4, <2>5 DEF PIdle
<1>6. CASE cmds' = <<"builtin">> /\ (P!Becomes(q, proc[q]) \/ P!Becomes(q, P!Exits(proc[q])))
  <2>1. PICK me \in {proc[1], P!Exits(proc[1])} : P!Becomes(1, me)
    BY <1>2, <1>6
  <2>2. /\ me \in PProcess(Len(pPipe)) /\ me.fds = proc[1].fds /\ me.buf = proc[1].buf
        /\ me.eof = proc[1].eof /\ me.stdout = proc[1].stdout /\ me.i = proc[1].i
        /\ me.at \in {"prompt", "ended"}
    BY <1>1, <1>2, <1>3, PExiting
  <2>3. cmds' \in Seq(P!Kinds) /\ Len(cmds') = 1 /\ cmds'[1] = "builtin" /\ cmds' # <<>>
        /\ \A k \in DOMAIN cmds' : k = 1
    BY <1>6 DEF P!Kinds
  <2>4. /\ PTyped' /\ proc'[1] = me /\ PQuiet' /\ PLeak(proc[1].fds)'
        /\ PIdle(1)' /\ proc'[1].stdout = 0 /\ proc'[1].i = 1
    BY <1>5, <2>1, <2>2, <2>3
  <2>5. P!WholeResult'
    BY <1>1, <2>3 DEF P!WholeResult, P!LastMaker, P!Makes
  <2>6. PAtPrompt'
    BY <2>2, <2>4, <2>5 DEF PAtPrompt
  <2>7. PShellCmds'
    BY <1>6, <2>3 DEF PShellCmds
  <2> QED BY <1>1, <2>4, <2>6, <2>7 DEF PShell
<1>7. CASE /\ \E c \in {"source", "missing"}, d \in {"source", "copy", "sort", "missing"} :
                cmds' \in {<<c>>, <<c, d>>}
           /\ P!Becomes(q, [proc[q] EXCEPT !.at = "fork"])
  <2> DEFINE me == [proc[1] EXCEPT !.at = "fork"]
  <2>1. P!Becomes(1, me)
    BY <1>2, <1>7
  <2>2. /\ me \in PProcess(Len(pPipe)) /\ me.fds = proc[1].fds /\ me.buf = proc[1].buf
        /\ me.eof = proc[1].eof /\ me.stdout = proc[1].stdout /\ me.i = proc[1].i /\ me.at = "fork"
    BY <1>3 DEF PProcess, PPlaces
  <2> HIDE DEF me
  <2>3. PICK c \in {"source", "missing"}, d \in {"source", "copy", "sort", "missing"} :
          cmds' \in {<<c>>, <<c, d>>}
    BY <1>7
  <2>4. c \in P!Kinds /\ d \in P!Kinds
    BY DEF P!Kinds
  <2>5. cmds' \in Seq(P!Kinds) /\ Len(cmds') <= 2 /\ Len(cmds') > 0 /\ cmds'[1] = c /\ (Len(cmds') = 2 => cmds'[2] = d)
    <3>1. CASE cmds' = <<c>>
      BY <2>4, <3>1
    <3>2. CASE cmds' = <<c, d>>
      BY <2>4, <3>2
    <3> QED BY <2>3, <3>1, <3>2
  <2>6. /\ PTyped' /\ proc'[1] = me /\ PQuiet' /\ PLeak(proc[1].fds)'
        /\ PIdle(1)' /\ proc'[1].stdout = 0 /\ proc'[1].i = 1
    BY <1>5, <2>1, <2>2, <2>5
  <2>7. PAtFork'
    BY <1>4, <2>2, <2>5, <2>6 DEF PAtFork
  <2>8. PShellCmds'
    <3>1. Len(cmds') <= 2
      BY <2>5
    <3>2. cmds'[1] \in {"source", "missing"} /\ cmds'[1] # "builtin"
      BY <2>5
    <3>3. Len(cmds') = 2 => cmds'[2] \in {"source", "copy", "sort", "missing"}
      BY <2>5
    <3> QED BY <3>1, <3>2, <3>3 DEF PShellCmds
  <2> QED BY <1>1, <2>6, <2>7, <2>8 DEF PShell
<1> QED BY <1>6, <1>7 DEF P!Enter

(* execArgs: the child of a line of one command, or the prompt again.       *)
LEMMA PShellForksOne ==
  ASSUME PTyped, PShell, program = "shell", NEW q \in 1 .. Len(proc), P!ForkFirst(q), Len(cmds) = 1
  PROVE  PTyped' /\ PShell' /\ program' = program
<1> DEFINE parent == [proc[1] EXCEPT !.at = "wait"]
           child == [proc[1] EXCEPT !.at = "exec"]
           back == [proc[1] EXCEPT !.at = "prompt"]
<1>1. proc[q].at = "fork" /\ UNCHANGED <<program, cmds, output, pPipe, shown, lines>>
  BY DEF P!ForkFirst
<1>2. q = 1 /\ PAtFork /\ PIdle(1) /\ proc[1].stdout = 0 /\ proc[1].i = 1 /\ PShellCmds
  BY <1>1, PShellWho DEF PShell, PAtPrompt, PAtWait, PAtAgain
<1>3. proc[1] \in PProcess(Len(pPipe)) /\ Len(pPipe) \in Nat /\ failed \in Nat /\ 1 \in 1 .. Len(proc)
      /\ proc \in Seq(PProcess(Len(pPipe))) /\ shown \in Seq(Nat) /\ cmds \in Seq(P!Kinds) /\ lines \in 0 .. MaxLines
  BY PMainThere DEF PTyped
<1>4. \A x \in {parent, child, back} :
        /\ x \in PProcess(Len(pPipe)) /\ x.i = proc[1].i /\ x.fds = proc[1].fds
        /\ x.stdout = proc[1].stdout /\ x.buf = proc[1].buf /\ x.eof = proc[1].eof
  BY <1>3 DEF PProcess, PPlaces
<1>5. parent.at = "wait" /\ child.at = "exec" /\ back.at = "prompt"
  BY <1>3 DEF PProcess
<1>6. P!Forks(1, parent, child) \/ P!ForkFails(1, back)
  BY <1>2 DEF P!ForkFirst
<1> HIDE DEF parent, child, back
<1>7. PShellCmds'
  BY <1>1, <1>2 DEF PShellCmds
<1>8. CASE P!Forks(1, parent, child)
  <2>1. proc' \in Seq(PProcess(Len(pPipe))) /\ PGrow(1, parent, child) /\ failed' = failed
    BY <1>3, <1>4, <1>8, PGrowing DEF P!Forks
  <2>2. /\ Len(proc') \in Nat /\ Len(proc') >= 2 /\ proc'[1] = parent /\ PLast' = child
        /\ \A r \in 2 .. Len(proc') - 1 : proc'[r].at = "ended"
    BY <1>2, <2>1, PShellGrows DEF PAtFork
  <2>3. PTyped'
    <3>1. UNCHANGED <<program, output>> /\ pPipe' = pPipe /\ failed' \in Nat /\ shown' \in Seq(Nat)
          /\ cmds' \in Seq(P!Kinds) /\ lines' \in 0 .. MaxLines /\ Len(proc') >= 1
      BY <1>1, <1>3, <2>1, <2>2
    <3> QED BY <2>1, <3>1, PTypedStays
  <2>4. PLeak(proc[1].fds)'
    BY <1>2, <1>4, <2>1, <2>2 DEF PAtFork, PLeak
  <2>5. PChild(1)'
    BY <1>2, <1>4, <1>5, <2>2 DEF PChild, PIdle
  <2>6. POwn(1)' = POwn(1) /\ POwn(1) \in Seq(Nat)
    BY <1>1, PShellPieces DEF POwn, P!Numbers
  <2>7. shown' = <<>>
    BY <1>1, <1>2, <1>3, PEmptySeq DEF PAtFork
  <2>8. PSingle'
    <3>1. Len(cmds') = 1 /\ cmds'[1] # "builtin" /\ PLast'.stdout = 0 /\ PLast'.at = "exec"
      BY <1>1, <1>2, <1>4, <1>5, <2>2 DEF PAtFork
    <3>2. <<>> \o POwn(1) = POwn(1)
      BY <2>6, PEmptyAdds
    <3> QED BY <2>5, <2>6, <2>7, <3>1, <3>2 DEF PSingle
  <2>9. PAtWait'
    BY <1>5, <2>2, <2>4, <2>8 DEF PAtWait
  <2>10. PIdle(1)' /\ proc'[1].stdout = 0 /\ proc'[1].i = 1
    BY <1>2, <1>4, <2>2 DEF PIdle
  <2> QED BY <1>1, <1>7, <2>3, <2>9, <2>10 DEF PShell
<1>9. CASE P!ForkFails(1, back)
  <2>1. proc' \in Seq(PProcess(Len(pPipe))) /\ PSet(1, back) /\ failed' = failed + 1
    BY <1>3, <1>4, <1>9, PSetting DEF P!ForkFails
  <2>2. proc'[1] = back /\ PSet(1, proc'[1]) /\ Len(proc') >= 1
    BY <2>1, PPipesNumbers DEF PSet
  <2>3. PTyped'
    <3>1. UNCHANGED <<program, output>> /\ pPipe' = pPipe /\ failed' \in Nat /\ shown' \in Seq(Nat)
          /\ cmds' \in Seq(P!Kinds) /\ lines' \in 0 .. MaxLines
      BY <1>1, <1>3, <2>1
    <3> QED BY <2>1, <2>2, <3>1, PTypedStays
  <2>4. PQuiet'
    BY <1>2, <2>2, PQuietStays DEF PAtFork
  <2>5. PLeak(proc[1].fds)'
    <3>1. PFew(proc[1].fds, failed + 1)
      BY <1>2, <1>3, PFewLonger DEF PAtFork, PLeak
    <3> QED BY <1>4, <2>1, <2>2, <3>1 DEF PLeak
  <2>6. PAtPrompt'
    <3>1. failed' > 0 /\ Len(shown') = 0
      BY <1>1, <1>2, <1>3, <2>1 DEF PAtFork
    <3> QED BY <1>5, <2>2, <2>4, <2>5, <3>1 DEF PAtPrompt
  <2>7. PIdle(1)' /\ proc'[1].stdout = 0 /\ proc'[1].i = 1
    BY <1>2, <1>4, <2>2 DEF PIdle
  <2> QED BY <1>1, <1>7, <2>3, <2>6, <2>7 DEF PShell
<1> QED BY <1>6, <1>8, <1>9

(* execArgsPiped, the first fork: the writer has the new pipe, or both ends *)
(* leak.                                                                    *)
LEMMA PShellForksWriter ==
  ASSUME PTyped, PShell, program = "shell", NEW q \in 1 .. Len(proc), P!ForkFirst(q), Len(cmds) # 1
  PROVE  PTyped' /\ PShell' /\ program' = program
<1>1. proc[q].at = "fork" /\ PStill /\ pPipe' = Append(pPipe, <<>>)
  BY DEF P!ForkFirst, PStill
<1>2. /\ q = 1 /\ PAtFork /\ PIdle(1) /\ proc[1].stdout = 0 /\ proc[1].i = 1 /\ PShellCmds
      /\ PQuiet /\ PLeak(proc[1].fds) /\ Len(shown) = 0
  BY <1>1, PShellWho DEF PShell, PAtPrompt, PAtWait, PAtAgain, PAtFork
<1>3. Len(pPipe) \in Nat /\ failed \in Nat /\ 1 \in 1 .. Len(proc) /\ shown \in Seq(Nat) /\ Len(cmds) = 2
  BY <1>2, PMainThere, PShellPieces DEF PTyped, PAtFork
<1>4. PICK new \in Nat : new = Len(pPipe) + 1
  BY <1>3
<1> DEFINE open == [proc[1] EXCEPT !.fds = @ \cup {P!R(new), P!W(new)}]
           parent == [open EXCEPT !.at = "again", !.in = new]
           child == [open EXCEPT !.at = "exec", !.stdout = new, !.fds = @ \ {P!R(new)}]
           back == [open EXCEPT !.at = "prompt"]
<1>5. proc[1] \in PProcess(new) /\ proc \in Seq(PProcess(new)) /\ new \in 0 .. new
  BY <1>3, <1>4, PMainThere, PRecordGrows, PProcsGrow DEF PTyped
<1>6. proc[1].fds \cup {P!R(new), P!W(new)} \in SUBSET PEnds(new)
  BY <1>3, <1>4, <1>5, PNewEnd DEF PProcess
<1>7. open \in PProcess(new)
  BY <1>5, <1>6 DEF PProcess
<1>8. open.fds \ {P!R(new)} \in SUBSET PEnds(new)
  BY <1>7 DEF PProcess
<1>9. /\ open.i = proc[1].i /\ open.fds = proc[1].fds \cup {P!R(new), P!W(new)}
      /\ open.stdout = proc[1].stdout /\ open.buf = proc[1].buf /\ open.eof = proc[1].eof
  BY <1>5 DEF PProcess
<1> HIDE DEF open
<1>10. {"again", "exec", "prompt"} \subseteq PPlaces
  BY DEF PPlaces
<1>11. /\ parent \in PProcess(new) /\ parent.i = open.i /\ parent.fds = open.fds /\ parent.stdout = open.stdout
       /\ parent.buf = open.buf /\ parent.eof = open.eof /\ parent.in = new /\ parent.at = "again"
  BY <1>5, <1>7, <1>10 DEF PProcess
<1>12. /\ child \in PProcess(new) /\ child.i = open.i /\ child.stdout = new
       /\ child.buf = open.buf /\ child.eof = open.eof /\ child.at = "exec"
  BY <1>5, <1>7, <1>8, <1>10 DEF PProcess
<1>13. /\ back \in PProcess(new) /\ back.i = open.i /\ back.fds = open.fds /\ back.stdout = open.stdout
       /\ back.buf = open.buf /\ back.eof = open.eof /\ back.at = "prompt"
  BY <1>7, <1>10 DEF PProcess
<1>14. P!Forks(1, parent, child) \/ P!ForkFails(1, back)
  BY <1>2, <1>3, <1>4 DEF P!ForkFirst, open
<1> HIDE DEF parent, child, back
<1>15. PShellCmds'
  BY <1>1, <1>2 DEF PShellCmds, PStill
<1>16. /\ Len(pPipe') = new /\ pPipe'[new] = <<>> /\ Len(pPipe') > 0
  BY <1>1, <1>3, <1>4, PPipeOpens
<1>17. PFew(proc[1].fds, failed) /\ PFew(open.fds \ {P!R(new), P!W(new)}, failed)
  <2>1. open.fds \ {P!R(new), P!W(new)} \subseteq proc[1].fds
    BY <1>9
  <2>2. PFew(proc[1].fds, failed)
    BY <1>2 DEF PLeak
  <2> QED BY <1>3, <2>1, <2>2, PFewLess
<1>18. CASE P!Forks(1, parent, child)
  <2>1. proc' \in Seq(PProcess(new)) /\ PGrow(1, parent, child) /\ failed' = failed
    BY <1>3, <1>5, <1>11, <1>12, <1>18, PGrowing DEF P!Forks
  <2>2. /\ Len(proc') \in Nat /\ Len(proc') >= 2 /\ proc'[1] = parent /\ PLast' = child
        /\ \A r \in 2 .. Len(proc') - 1 : proc'[r].at = "ended"
    BY <1>2, <2>1, PShellGrows
  <2>3. PTyped'
    BY <1>1, <1>3, <1>4, <2>1, <2>2, PTypedGrows
  <2>4. PChild(1)'
    BY <1>2, <1>9, <1>12, <2>2 DEF PChild, PIdle
  <2>5. POwn(1)' = POwn(1) /\ POwn(1) \in Seq(Nat)
    BY <1>1, PShellPieces DEF POwn, P!Numbers, PStill
  <2>6. PWriter'
    <3>1. Len(cmds') = 2 /\ PLast'.stdout = Len(pPipe') /\ Len(shown') = 0 /\ PLast'.at = "exec"
      BY <1>1, <1>2, <1>3, <1>12, <1>16, <2>2 DEF PStill
    <3>2. <<>> \o POwn(1) = POwn(1)
      BY <2>5, PEmptyAdds
    <3> QED BY <1>16, <2>4, <2>5, <3>1, <3>2 DEF PWriter
  <2>7. PAtAgain'
    <3>1. proc'[1].at = "again" /\ proc'[1].in = Len(pPipe') /\ P!R(Len(pPipe')) \in proc'[1].fds
      BY <1>9, <1>11, <1>16, <2>2
    <3>2. PFew(proc'[1].fds \ {P!R(Len(pPipe')), P!W(Len(pPipe'))}, failed')
      BY <1>11, <1>16, <1>17, <2>1, <2>2
    <3> QED BY <1>16, <2>6, <3>1, <3>2 DEF PAtAgain, PLeak
  <2>8. PIdle(1)' /\ proc'[1].stdout = 0 /\ proc'[1].i = 1
    BY <1>2, <1>9, <1>11, <2>2 DEF PIdle
  <2> QED BY <1>1, <1>15, <2>3, <2>7, <2>8 DEF PShell, PStill
<1>19. CASE P!ForkFails(1, back)
  <2>1. proc' \in Seq(PProcess(new)) /\ PSet(1, back) /\ failed' = failed + 1
    BY <1>3, <1>5, <1>13, <1>19, PSetting DEF P!ForkFails
  <2>2. proc'[1] = back /\ PSet(1, proc'[1]) /\ Len(proc') >= 1
    BY <2>1, PPipesNumbers DEF PSet
  <2>3. PTyped'
    BY <1>1, <1>3, <1>4, <2>1, <2>2, PTypedGrows
  <2>4. PQuiet'
    BY <1>2, <2>2, PQuietStays
  <2>5. PLeak(proc[1].fds)'
    <3>1. PFew(open.fds, failed + 1)
      BY <1>3, <1>17, PFewMore
    <3> QED BY <1>13, <2>1, <2>2, <3>1 DEF PLeak
  <2>6. PAtPrompt'
    <3>1. failed' > 0 /\ Len(shown') = 0
      BY <1>1, <1>2, <1>3, <2>1 DEF PStill
    <3> QED BY <1>13, <2>2, <2>4, <2>5, <3>1 DEF PAtPrompt
  <2>7. PIdle(1)' /\ proc'[1].stdout = 0 /\ proc'[1].i = 1
    BY <1>2, <1>9, <1>13, <2>2 DEF PIdle
  <2> QED BY <1>1, <1>15, <2>3, <2>6, <2>7 DEF PShell, PStill
<1> QED BY <1>14, <1>18, <1>19

(* The guard of the shell's waits.                                          *)
LEMMA PShellQuiet ==
  ASSUME PTyped, \A r \in P!Others(1) : P!Ended(r)
  PROVE  PQuiet /\ (Len(proc) >= 2 => PLast.at = "ended")
<1>1. Len(proc) \in Nat
  BY PPipesNumbers
<1>2. ASSUME NEW r \in 2 .. Len(proc) PROVE proc[r].at = "ended"
  <2>1. r \in 1 .. Len(proc) /\ r > 1
    BY <1>1
  <2> QED BY <2>1 DEF P!Others, P!Procs, P!Ended
<1> QED BY <1>1, <1>2 DEF PQuiet, PLast

(* The second fork: the reader has the pipe with what the writer left.      *)
LEMMA PShellForksReader ==
  ASSUME PTyped, PShell, program = "shell", NEW q \in 1 .. Len(proc), P!ForkSecond(q)
  PROVE  PTyped' /\ PShell' /\ program' = program
<1>1. proc[q].at = "again" /\ UNCHANGED <<program, cmds, output, pPipe, shown, lines>>
      /\ \A r \in P!Others(q) : P!Ended(r)
  BY DEF P!ForkSecond
<1>2. /\ q = 1 /\ PAtAgain /\ PIdle(1) /\ proc[1].stdout = 0 /\ proc[1].i = 1 /\ PShellCmds
      /\ PWriter /\ Len(shown) = 0 /\ Len(cmds) = 2
  BY <1>1, PShellWho DEF PShell, PAtPrompt, PAtWait, PAtFork, PAtAgain, PWriter
<1>3. Len(pPipe) \in Nat /\ failed \in Nat /\ 1 \in 1 .. Len(proc) /\ shown \in Seq(Nat)
      /\ proc \in Seq(PProcess(Len(pPipe))) /\ cmds \in Seq(P!Kinds) /\ lines \in 0 .. MaxLines
      /\ proc[1] \in PProcess(Len(pPipe))
  BY PMainThere DEF PTyped
<1>4. PQuiet /\ PLast.at = "ended" /\ Len(PLast.buf) = 0
  <2>1. PQuiet /\ (Len(proc) >= 2 => PLast.at = "ended")
    BY <1>1, <1>2, PShellQuiet
  <2> QED BY <1>2, <2>1 DEF PWriter, PChild
<1>5. PICK p \in Nat : p = Len(pPipe)
  BY <1>3
<1>6. proc[1].in = p /\ p > 0 /\ p \in 0 .. Len(pPipe) /\ PFew(proc[1].fds \ {P!R(p), P!W(p)}, failed)
  BY <1>2, <1>5 DEF PAtAgain, PLeak
<1> DEFINE parent == [proc[1] EXCEPT !.at = "wait", !.fds = @ \ {P!R(p), P!W(p)}]
           child == [proc[1] EXCEPT !.at = "exec", !.i = 2, !.stdin = p, !.fds = @ \ {P!W(p)}]
           back == [proc[1] EXCEPT !.at = "prompt"]
<1>7. /\ proc[1].fds \ {P!R(p), P!W(p)} \in SUBSET PEnds(Len(pPipe))
      /\ proc[1].fds \ {P!W(p)} \in SUBSET PEnds(Len(pPipe))
  BY <1>3 DEF PProcess
<1>8. {"wait", "exec", "prompt"} \subseteq PPlaces /\ 2 \in 1 .. 4
  BY DEF PPlaces
<1>9. /\ parent \in PProcess(Len(pPipe)) /\ parent.i = proc[1].i /\ parent.stdout = proc[1].stdout
      /\ parent.fds = proc[1].fds \ {P!R(p), P!W(p)}
      /\ parent.buf = proc[1].buf /\ parent.eof = proc[1].eof /\ parent.at = "wait"
  BY <1>3, <1>7, <1>8 DEF PProcess
<1>10. /\ child \in PProcess(Len(pPipe)) /\ child.i = 2 /\ child.stdout = proc[1].stdout /\ child.stdin = p
       /\ child.fds = proc[1].fds \ {P!W(p)}
       /\ child.buf = proc[1].buf /\ child.eof = proc[1].eof /\ child.at = "exec"
  BY <1>3, <1>6, <1>7, <1>8 DEF PProcess
<1>11. /\ back \in PProcess(Len(pPipe)) /\ back.i = proc[1].i /\ back.stdout = proc[1].stdout
       /\ back.fds = proc[1].fds /\ back.buf = proc[1].buf /\ back.eof = proc[1].eof /\ back.at = "prompt"
  BY <1>3, <1>8 DEF PProcess
<1>12. P!Forks(1, parent, child) \/ P!ForkFails(1, back)
  BY <1>2, <1>6 DEF P!ForkSecond
<1> HIDE DEF parent, child, back
<1>13. PShellCmds'
  BY <1>1, <1>2 DEF PShellCmds
<1>14. CASE P!Forks(1, parent, child)
  <2>1. proc' \in Seq(PProcess(Len(pPipe))) /\ PGrow(1, parent, child) /\ failed' = failed
    BY <1>3, <1>9, <1>10, <1>14, PGrowing DEF P!Forks
  <2>2. /\ Len(proc') \in Nat /\ Len(proc') >= 2 /\ proc'[1] = parent /\ PLast' = child
        /\ \A r \in 2 .. Len(proc') - 1 : proc'[r].at = "ended"
    BY <1>4, <2>1, PShellGrows
  <2>3. PTyped'
    <3>1. UNCHANGED <<program, output>> /\ pPipe' = pPipe /\ failed' \in Nat /\ shown' \in Seq(Nat)
          /\ cmds' \in Seq(P!Kinds) /\ lines' \in 0 .. MaxLines /\ Len(proc') >= 1
      BY <1>1, <1>3, <2>1, <2>2
    <3> QED BY <2>1, <3>1, PTypedStays
  <2>4. PChild(2)'
    BY <1>2, <1>10, <2>2 DEF PChild, PIdle
  <2>5. PNobody(Len(pPipe))'
    <3> SUFFICES ASSUME NEW r \in 1 .. Len(proc'), proc'[r].at # "ended" PROVE P!W(p) \notin proc'[r].fds
      BY <1>1, <1>5 DEF PNobody
    <3>1. r = 1 \/ r = Len(proc')
      BY <2>2
    <3>2. proc'[Len(proc')] = child
      BY <2>2 DEF PLast
    <3> QED BY <1>9, <1>10, <2>2, <3>1, <3>2
  <2>6. /\ POwn(1)' = POwn(1) /\ POwn(2)' = POwn(2) /\ POwn(1) \in Seq(Nat) /\ POwn(2) \in Seq(Nat)
        /\ shown' = <<>> /\ child.buf = <<>> /\ pPipe[p] \in Seq(Nat) /\ PLast.buf = <<>>
    <3>1. POwn(1)' = POwn(1) /\ POwn(2)' = POwn(2)
      BY <1>1 DEF POwn, P!Numbers
    <3>2. shown' = <<>>
      BY <1>1, <1>2, <1>3, PEmptySeq
    <3>3. child.buf \in Seq(Nat) /\ Len(child.buf) = 0
      BY <1>2, <1>3, <1>10, PFields DEF PIdle
    <3> QED BY <1>4, <1>5, <1>6, <3>1, <3>2, <3>3, PEmptySeq, PShellPieces
  <2>7. pPipe[p] = POwn(1)
    <3>1. pPipe[p] \o <<>> = POwn(1)
      BY <1>2, <1>4, <1>5, <2>6 DEF PWriter
    <3> QED BY <2>6, <3>1, PEmptyAdds
  <2>8. PReader'
    <3>1. /\ Len(cmds') = 2 /\ PLast'.stdout = 0 /\ PLast'.stdin = Len(pPipe') /\ Len(pPipe') > 0
          /\ ~PLast'.eof /\ PLast'.at = "exec" /\ PLast'.buf = <<>>
      BY <1>1, <1>2, <1>5, <1>6, <1>10, <2>2, <2>6 DEF PIdle
    <3>2. <<>> \o POwn(2) = POwn(2) /\ <<>> \o (<<>> \o POwn(1)) = POwn(1)
      BY <2>6, PEmptyAdds
    <3>3. pPipe'[Len(pPipe')] = POwn(1)
      BY <1>1, <1>5, <2>7
    <3> QED BY <2>4, <2>5, <2>6, <3>1, <3>2, <3>3 DEF PReader
  <2>9. PAtWait'
    <3>1. PFew(proc'[1].fds, failed')
      BY <1>6, <1>9, <2>1, <2>2
    <3> QED BY <1>9, <2>2, <2>8, <3>1 DEF PAtWait, PLeak
  <2>10. PIdle(1)' /\ proc'[1].stdout = 0 /\ proc'[1].i = 1
    BY <1>2, <1>9, <2>2 DEF PIdle
  <2> QED BY <1>1, <1>13, <2>3, <2>9, <2>10 DEF PShell
<1>15. CASE P!ForkFails(1, back)
  <2>1. proc' \in Seq(PProcess(Len(pPipe))) /\ PSet(1, back) /\ failed' = failed + 1
    BY <1>3, <1>11, <1>15, PSetting DEF P!ForkFails
  <2>2. proc'[1] = back /\ PSet(1, proc'[1]) /\ Len(proc') >= 1
    BY <2>1, PPipesNumbers DEF PSet
  <2>3. PTyped'
    <3>1. UNCHANGED <<program, output>> /\ pPipe' = pPipe /\ failed' \in Nat /\ shown' \in Seq(Nat)
          /\ cmds' \in Seq(P!Kinds) /\ lines' \in 0 .. MaxLines
      BY <1>1, <1>3, <2>1
    <3> QED BY <2>1, <2>2, <3>1, PTypedStays
  <2>4. PQuiet'
    BY <1>4, <2>2, PQuietStays
  <2>5. PLeak(proc[1].fds)'
    <3>1. PFew(proc[1].fds, failed + 1)
      BY <1>3, <1>6, PFewMore
    <3> QED BY <1>11, <2>1, <2>2, <3>1 DEF PLeak
  <2>6. PAtPrompt'
    <3>1. failed' > 0 /\ Len(shown') = 0
      BY <1>1, <1>2, <1>3, <2>1
    <3> QED BY <1>11, <2>2, <2>4, <2>5, <3>1 DEF PAtPrompt
  <2>7. PIdle(1)' /\ proc'[1].stdout = 0 /\ proc'[1].i = 1
    BY <1>2, <1>11, <2>2 DEF PIdle
  <2> QED BY <1>1, <1>13, <2>3, <2>6, <2>7 DEF PShell
<1> QED BY <1>12, <1>14, <1>15

(* The shell prompts again: the last child has ended with all shown.        *)
LEMMA PShellWaitsOver ==
  ASSUME PTyped, PShell, program = "shell", NEW q \in 1 .. Len(proc), P!ShellWaits(q)
  PROVE  PTyped' /\ PShell' /\ program' = program
<1> DEFINE me == [proc[1] EXCEPT !.at = "prompt"]
<1>1. proc[q].at = "wait" /\ UNCHANGED <<program, cmds, output, pPipe, shown, lines>>
      /\ \A r \in P!Others(q) : P!Ended(r)
  BY DEF P!ShellWaits
<1>2. /\ q = 1 /\ PAtWait /\ PIdle(1) /\ proc[1].stdout = 0 /\ proc[1].i = 1 /\ PShellCmds
  BY <1>1, PShellWho DEF PShell, PAtPrompt, PAtFork, PAtAgain
<1>3. Len(pPipe) \in Nat /\ 1 \in 1 .. Len(proc) /\ proc[1] \in PProcess(Len(pPipe))
  BY PMainThere
<1>4. PQuiet /\ P!WholeResult
  <2>1. PQuiet /\ (Len(proc) >= 2 => PLast.at = "ended")
    BY <1>1, <1>2, PShellQuiet
  <2>2. PLast.at = "ended"
    BY <1>2, <2>1 DEF PAtWait, PSingle, PReader, PChild
  <2> QED BY <1>2, <2>1, <2>2, PShellResult DEF PAtWait
<1>5. /\ me \in PProcess(Len(pPipe)) /\ me.i = proc[1].i /\ me.stdout = proc[1].stdout
      /\ me.fds = proc[1].fds /\ me.buf = proc[1].buf /\ me.eof = proc[1].eof /\ me.at = "prompt"
  BY <1>3 DEF PProcess, PPlaces
<1>6. P!Becomes(1, me)
  BY <1>2 DEF P!ShellWaits
<1> HIDE DEF me
<1>7. PTyped' /\ PSet(1, me) /\ PFrame
  BY <1>1, <1>3, <1>5, <1>6, PBecoming
<1>8. proc'[1] = me /\ PSet(1, proc'[1])
  BY <1>7 DEF PSet
<1>9. PQuiet'
  BY <1>4, <1>8, PQuietStays
<1>10. P!WholeResult'
  BY <1>1, <1>4 DEF P!WholeResult, P!LastMaker, P!Makes, P!Numbers
<1>11. PLeak(proc[1].fds)'
  BY <1>2, <1>5, <1>7, <1>8 DEF PAtWait, PLeak, PFrame
<1>12. PAtPrompt'
  BY <1>5, <1>8, <1>9, <1>10, <1>11 DEF PAtPrompt
<1>13. PIdle(1)' /\ proc'[1].stdout = 0 /\ proc'[1].i = 1 /\ PShellCmds'
  BY <1>1, <1>2, <1>5, <1>8 DEF PIdle, PShellCmds
<1> QED BY <1>1, <1>7, <1>12, <1>13 DEF PShell

(* The last child goes on while main waits.                                 *)
PChildGoesOn(q) ==
  /\ q = Len(proc) /\ Len(proc) >= 2 /\ Len(proc') = Len(proc) /\ PAlone(q) /\ PFrame
  /\ Len(pPipe') = Len(pPipe) /\ proc[q].at # "ended" /\ proc'[q].fds = proc[q].fds
  /\ proc'[q].i = proc[q].i /\ proc'[q].stdin = proc[q].stdin /\ proc'[q].stdout = proc[q].stdout

(* The invariant, when the last child alone goes on.                        *)
LEMMA PShellChild ==
  ASSUME PTyped, PShell, PAtWait \/ PAtAgain, NEW q \in 1 .. Len(proc), PChildGoesOn(q),
         PSingle => PSingle', PReader => PReader', PWriter => PWriter'
  PROVE  PShell'
<1>1. proc'[1] = proc[1] /\ Len(pPipe') = Len(pPipe) /\ failed' = failed /\ cmds' = cmds
  <2>1. 1 \in 1 .. Len(proc) /\ 1 # q
    BY PMainThere DEF PChildGoesOn
  <2> QED BY <2>1 DEF PChildGoesOn, PAlone, PFrame
<1>2. PAtWait => PAtWait'
  BY <1>1 DEF PAtWait, PLeak
<1>3. PAtAgain => PAtAgain'
  BY <1>1 DEF PAtAgain, PLeak
<1>4. PIdle(1)' /\ proc'[1].stdout = 0 /\ proc'[1].i = 1 /\ PShellCmds'
  BY <1>1 DEF PShell, PIdle, PShellCmds
<1> QED BY <1>2, <1>3, <1>4 DEF PShell

(* What stays when the last child alone goes on.                            *)
LEMMA PChildFacts ==
  ASSUME PTyped, NEW q \in 1 .. Len(proc), PChildGoesOn(q)
  PROVE  /\ PLast = proc[q] /\ PLast' = proc'[q] /\ Len(proc') >= 2 /\ cmds' = cmds
         /\ PLast'.i = PLast.i /\ PLast'.stdin = PLast.stdin /\ PLast'.stdout = PLast.stdout
         /\ (\A r \in 2 .. Len(proc) - 1 : proc[r].at = "ended") => \A r \in 2 .. Len(proc') - 1 : proc'[r].at = "ended"
         /\ PNobody(Len(pPipe)) => PNobody(Len(pPipe))'
         /\ POwn(1)' = POwn(1) /\ POwn(2)' = POwn(2)
<1>1. Len(proc) \in Nat /\ q = Len(proc) /\ Len(proc') = Len(proc)
  BY PPipesNumbers DEF PChildGoesOn
<1>2. PLast = proc[q] /\ PLast' = proc'[q]
  BY <1>1 DEF PLast
<1>3. ASSUME \A r \in 2 .. Len(proc) - 1 : proc[r].at = "ended", NEW r \in 2 .. Len(proc') - 1
      PROVE  proc'[r].at = "ended"
  <2>1. r \in 2 .. Len(proc) - 1 /\ r \in 1 .. Len(proc) /\ r # q
    BY <1>1
  <2> QED BY <1>3, <2>1 DEF PChildGoesOn, PAlone
<1>4. ASSUME PNobody(Len(pPipe)), NEW r \in 1 .. Len(proc'), proc'[r].at # "ended"
      PROVE  P!W(Len(pPipe)) \notin proc'[r].fds
  <2>1. proc[r].at # "ended" /\ proc'[r].fds = proc[r].fds
    BY <1>1, <1>4 DEF PChildGoesOn, PAlone
  <2> QED BY <1>1, <1>4, <2>1 DEF PNobody
<1>5. PNobody(Len(pPipe)) => PNobody(Len(pPipe))'
  BY <1>4 DEF PNobody, PChildGoesOn
<1>6. POwn(1)' = POwn(1) /\ POwn(2)' = POwn(2)
  BY DEF POwn, P!Numbers, PChildGoesOn, PFrame
<1> QED BY <1>1, <1>2, <1>3, <1>5, <1>6 DEF PChildGoesOn, PFrame

(* Its place and what it runs decide the rest of its claim.                 *)
LEMMA PChildStays ==
  ASSUME PTyped, NEW q \in 1 .. Len(proc), PChildGoesOn(q), NEW k, PChild(k),
         proc'[q].at \in {"run", "ended"}, proc'[q].at = "run" => proc'[q].runs = cmds[k],
         proc'[q].at = "ended" => Len(proc'[q].buf) = 0
  PROVE  PChild(k)'
<1>1. PLast' = proc'[q] /\ PLast'.i = PLast.i /\ cmds' = cmds /\ Len(proc') >= 2
      /\ \A r \in 2 .. Len(proc') - 1 : proc'[r].at = "ended"
  BY PChildFacts DEF PChild
<1> QED BY <1>1 DEF PChild

(* exec in the child: the command runs, or the message is on its way.       *)
LEMMA PShellExecs ==
  ASSUME PTyped, PShell, program = "shell", NEW q \in 1 .. Len(proc), P!ExecCommand(q)
  PROVE  PTyped' /\ PShell' /\ program' = program
<1> DEFINE c == cmds[proc[q].i]
           runner == P!Executes(proc[q], c)
           me == [runner EXCEPT !.buf = IF c = "missing" THEN P!Message ELSE @]
<1>1. proc[q].at = "exec" /\ UNCHANGED <<program, cmds, output, pPipe, shown, lines>> /\ P!Becomes(q, me)
  BY DEF P!ExecCommand
<1>2. q = Len(proc) /\ Len(proc) >= 2 /\ (PAtWait \/ PAtAgain) /\ proc[q] = PLast
  BY <1>1, PShellWho DEF PLast
<1>3. Len(pPipe) \in Nat /\ proc[q] \in PProcess(Len(pPipe)) /\ shown \in Seq(Nat) /\ cmds \in Seq(P!Kinds)
  BY PPipesNumbers DEF PTyped
<1>4. /\ PSingle \/ PWriter => proc[q].i = 1 /\ (Len(cmds) = 1 \/ Len(cmds) = 2)
      /\ PReader => proc[q].i = 2 /\ Len(cmds) = 2
      /\ PSingle \/ PWriter \/ PReader
  BY <1>2 DEF PAtWait, PAtAgain, PSingle, PWriter, PReader, PChild
<1>5. proc[q].i \in 1 .. Len(cmds)
  <2>1. CASE PReader
    BY <1>4, <2>1
  <2>2. CASE PSingle \/ PWriter
    <3>1. (Len(cmds) = 1 \/ Len(cmds) = 2) /\ proc[q].i = 1
      BY <1>4, <2>2
    <3>2. Len(cmds) \in Nat
      BY <1>3
    <3>3. Len(cmds) >= 1
      BY <3>1
    <3> QED BY <3>1, <3>2, <3>3
  <2> QED BY <1>4, <2>1, <2>2
<1>6. c \in P!Kinds
  BY <1>3, <1>5
<1>7. runner \in PProcess(Len(pPipe)) /\ PRunning(proc[q], runner, c, proc[q].stdin)
  BY <1>3, <1>6, PSimpleRunners
<1>8. P!Message \in Seq(Nat)
  BY DEF P!Message
<1> HIDE DEF c, runner
<1>9. /\ me \in PProcess(Len(pPipe)) /\ me.at = "run" /\ me.i = proc[q].i /\ me.stdin = proc[q].stdin
      /\ me.stdout = proc[q].stdout /\ me.fds = proc[q].fds /\ me.runs = c /\ me.eof = proc[q].eof
      /\ me.buf = IF c = "missing" THEN P!Message ELSE IF c = "source" THEN P!Numbers ELSE <<>>
  BY <1>7, <1>8 DEF PRunning, PProcess
<1> HIDE DEF me
<1>10. PTyped' /\ PSet(q, me) /\ PFrame
  BY <1>1, <1>3, <1>9, PBecoming
<1>11. PChildGoesOn(q) /\ proc'[q] = me
  BY <1>1, <1>2, <1>9, <1>10 DEF PChildGoesOn, PSet, PAlone
<1>12. /\ PLast' = me /\ POwn(1)' = POwn(1) /\ POwn(2)' = POwn(2) /\ PLast'.stdout = PLast.stdout
       /\ PLast'.stdin = PLast.stdin /\ (PNobody(Len(pPipe)) => PNobody(Len(pPipe))')
  BY <1>11, PChildFacts
<1>13. \A k : PChild(k) => PChild(k)' /\ me.buf = POwn(k) /\ ~me.eof /\ Len(PLast.buf) = 0 /\ me.at = "run"
  <2> SUFFICES ASSUME NEW k, PChild(k) PROVE PChild(k)' /\ me.buf = POwn(k) /\ ~me.eof /\ Len(PLast.buf) = 0 /\ me.at = "run"
    OBVIOUS
  <2>1. proc[q].i = k /\ c = cmds[k]
    BY <1>2 DEF PChild, c
  <2>2. PChild(k)'
    BY <1>9, <1>11, <2>1, PChildStays
  <2> QED BY <1>1, <1>2, <1>9, <2>1, <2>2 DEF PChild, POwn
<1>14. PSingle => PSingle'
  BY <1>1, <1>2, <1>12, <1>13 DEF PSingle
<1>15. PWriter => PWriter'
  BY <1>1, <1>2, <1>12, <1>13 DEF PWriter
<1>16. PReader => PReader'
  <2> SUFFICES ASSUME PReader PROVE PReader'
    OBVIOUS
  <2>1. /\ Len(cmds') = 2 /\ PChild(2)' /\ PLast'.stdout = 0 /\ PLast'.stdin = Len(pPipe') /\ Len(pPipe') > 0
        /\ PNobody(Len(pPipe))' /\ ~PLast'.eof /\ PLast'.at = "run" /\ PLast'.buf = POwn(2)
    BY <1>1, <1>12, <1>13 DEF PReader
  <2>2. CASE cmds[2] \in {"copy", "sort"}
    <3>1. POwn(2) = <<>> /\ PLast.buf = <<>>
      <4>1. Len(PLast.buf) = 0
        BY <1>13 DEF PReader
      <4> QED BY <2>2, <4>1, PShellPieces, PEmptySeq DEF POwn
    <3> QED BY <1>1, <1>12, <2>1, <2>2, <3>1 DEF PReader
  <2>3. CASE cmds[2] \notin {"copy", "sort"}
    BY <1>1, <1>2, <1>12, <2>1, <2>3 DEF PReader
  <2> QED BY <2>2, <2>3
<1>17. PShell'
  BY <1>2, <1>11, <1>14, <1>15, <1>16, PShellChild
<1> QED BY <1>1, <1>10, <1>17

(* The three situations exclude each other.                                 *)
LEMMA PShellEither ==
  /\ PReader => ~PSingle /\ ~PWriter
  /\ PSingle => ~PWriter
<1>1. PReader => PLast.i = 2
  BY DEF PReader, PChild
<1>2. PSingle => PLast.i = 1 /\ Len(cmds) = 1
  BY DEF PSingle, PChild
<1>3. PWriter => PLast.i = 1 /\ Len(cmds) = 2
  BY DEF PWriter, PChild
<1> QED BY <1>1, <1>2, <1>3

(* The last child reads or writes an item.                                  *)
LEMMA PTouchedChild ==
  ASSUME PTyped, PShell, NEW q \in 1 .. Len(proc), proc[q].at = "run", NEW b, NEW e, PTouches(q, b, e),
         PFrame, Len(pPipe') = Len(pPipe)
  PROVE  /\ PChildGoesOn(q) /\ (PAtWait \/ PAtAgain) /\ PLast = proc[q] /\ PLast.at = "run" /\ PLast'.at = "run"
         /\ PLast'.buf = b /\ PLast'.eof = e /\ \A k : PChild(k) => PChild(k)'
<1>1. q = Len(proc) /\ Len(proc) >= 2 /\ (PAtWait \/ PAtAgain)
  BY PShellWho
<1>2. PSame(proc[q], proc'[q]) /\ proc'[q].buf = b /\ proc'[q].eof = e
  BY DEF PTouches
<1>3. PChildGoesOn(q)
  BY <1>1, <1>2 DEF PTouches, PSame, PChildGoesOn, PAlone
<1>4. PLast = proc[q] /\ PLast' = proc'[q]
  BY <1>3, PChildFacts
<1>5. ASSUME NEW k, PChild(k) PROVE PChild(k)'
  <2>1. proc'[q].at = "run" /\ proc'[q].runs = cmds[k]
    BY <1>2, <1>4, <1>5 DEF PChild, PSame
  <2> QED BY <1>3, <1>5, <2>1, PChildStays
<1> QED BY <1>1, <1>2, <1>3, <1>4, <1>5 DEF PSame

(* The reader takes an item of the writer, or sees the end.                 *)
LEMMA PShellReads ==
  ASSUME PTyped, PShell, program = "shell", NEW q \in 1 .. Len(proc), PTakes(q) \/ PSeesEnd(q)
  PROVE  PShell'
<1>1. /\ proc[q].at = "run" /\ proc[q].runs \in {"copy", "sort"} /\ PFrame /\ shown' = shown
      /\ cmds' = cmds
  BY DEF PTakes, PSeesEnd, P!Reads, PFrame
<1>2. pPipe \in Seq(Seq(Nat)) /\ proc[q].stdin \in 1 .. Len(pPipe) /\ Len(pPipe') = Len(pPipe)
  <2>1. pPipe \in Seq(Seq(Nat))
    BY DEF PTyped
  <2>2. CASE PTakes(q)
    <3>1. proc[q].stdin \in 1 .. Len(pPipe) /\ pPipe' = [pPipe EXCEPT ![proc[q].stdin] = Tail(@)]
      BY <2>2 DEF PTakes
    <3> QED BY <2>1, <3>1
  <2>3. CASE PSeesEnd(q)
    BY <2>1, <2>3 DEF PSeesEnd
  <2> QED BY <2>2, <2>3
<1>3. PICK b, e : PTouches(q, b, e)
  BY DEF PTakes, PSeesEnd
<1>4. /\ PChildGoesOn(q) /\ (PAtWait \/ PAtAgain) /\ PLast = proc[q] /\ PLast.at = "run" /\ PLast'.at = "run"
      /\ PLast'.buf = b /\ PLast'.eof = e /\ \A k : PChild(k) => PChild(k)'
  BY <1>1, <1>2, <1>3, PTouchedChild
<1>5. PReader /\ cmds[2] \in {"copy", "sort"}
  <2>1. PChild(1) => Len(cmds) = 0 \/ PLast.runs \in {"source", "missing", "builtin"}
    BY <1>4, PShellPieces DEF PChild, PShell, PShellCmds
  <2>2. ~PSingle /\ ~PWriter
    <3>1. PLast.runs \in {"copy", "sort"}
      BY <1>1, <1>4
    <3>2. PSingle \/ PWriter => PChild(1) /\ (Len(cmds) = 1 \/ Len(cmds) = 2)
      BY DEF PSingle, PWriter
    <3> QED BY <2>1, <3>1, <3>2
  <2>3. PReader
    BY <1>4, <2>2 DEF PAtWait, PAtAgain
  <2> QED BY <1>1, <1>4, <2>3 DEF PReader, PChild
<1>6. /\ POwn(1)' = POwn(1) /\ PLast'.stdin = PLast.stdin /\ PLast'.stdout = PLast.stdout
      /\ (PNobody(Len(pPipe)) => PNobody(Len(pPipe))')
  BY <1>4, PChildFacts
<1>7. PICK p \in Nat : p = Len(pPipe)
  BY PMainThere
<1>8. p > 0 /\ proc[q].stdin = p /\ pPipe[p] \in Seq(Nat) /\ PLast.buf \in Seq(Nat) /\ p \in 1 .. Len(pPipe)
  BY <1>2, <1>4, <1>5, <1>7, PShellPieces DEF PReader
<1>9. /\ PLast'.buf \o pPipe'[p] = PLast.buf \o pPipe[p]
      /\ PLast'.eof => Len(pPipe'[p]) = 0
  <2>1. CASE PTakes(q)
    <3>1. /\ Len(pPipe[p]) > 0 /\ pPipe' = [pPipe EXCEPT ![p] = Tail(@)] /\ ~proc[q].eof
          /\ PTouches(q, Append(proc[q].buf, Head(pPipe[p])), proc[q].eof)
      BY <1>8, <2>1 DEF PTakes, P!Reads
    <3>2. pPipe'[p] = Tail(pPipe[p])
      BY <1>2, <1>8, <3>1
    <3>3. PLast'.buf = Append(PLast.buf, Head(pPipe[p])) /\ ~PLast'.eof
      BY <1>3, <1>4, <3>1 DEF PTouches
    <3>4. Append(PLast.buf, Head(pPipe[p])) \o Tail(pPipe[p]) = PLast.buf \o pPipe[p]
      <4>1. Len(pPipe[p]) > 0
        BY <3>1
      <4> QED BY <1>8, <4>1, PShiftEnd
    <3> QED BY <3>2, <3>3, <3>4
  <2>2. CASE PSeesEnd(q)
    <3>1. Len(pPipe[p]) = 0 /\ pPipe' = pPipe /\ PTouches(q, proc[q].buf, TRUE)
      BY <1>8, <2>2 DEF PSeesEnd
    <3>2. PLast'.buf = PLast.buf
      BY <1>3, <1>4, <3>1 DEF PTouches
    <3> QED BY <3>1, <3>2
  <2> QED BY <2>1, <2>2
<1>10. PReader'
  <2>1. /\ Len(cmds') = 2 /\ PChild(2)' /\ PLast'.stdout = 0 /\ PLast'.stdin = Len(pPipe') /\ Len(pPipe') > 0
        /\ PNobody(Len(pPipe))'
    BY <1>1, <1>2, <1>4, <1>5, <1>6 DEF PReader
  <2>2. shown' \o (PLast'.buf \o pPipe'[Len(pPipe')]) = POwn(1)' /\ (PLast'.eof => Len(pPipe'[Len(pPipe')]) = 0)
    BY <1>1, <1>2, <1>5, <1>6, <1>7, <1>9 DEF PReader
  <2> QED BY <1>1, <1>4, <1>5, <2>1, <2>2 DEF PReader
<1> QED BY <1>4, <1>5, <1>10, PShellChild, PShellEither

(* The last command of the line prints.                                     *)
LEMMA PShellPrints ==
  ASSUME PTyped, PShell, program = "shell", NEW q \in 1 .. Len(proc), PPrints(q)
  PROVE  PShell'
<1>1. /\ proc[q].at = "run" /\ Len(proc[q].buf) > 0 /\ proc[q].stdout = 0 /\ PFrame /\ pPipe' = pPipe
      /\ shown' = Append(shown, Head(proc[q].buf)) /\ PTouches(q, Tail(proc[q].buf), proc[q].eof)
  BY DEF PPrints
<1>2. /\ PChildGoesOn(q) /\ (PAtWait \/ PAtAgain) /\ PLast = proc[q] /\ PLast.at = "run" /\ PLast'.at = "run"
      /\ PLast'.buf = Tail(proc[q].buf) /\ PLast'.eof = proc[q].eof /\ \A k : PChild(k) => PChild(k)'
  BY <1>1, PTouchedChild
<1>3. /\ POwn(1)' = POwn(1) /\ POwn(2)' = POwn(2) /\ PLast'.stdin = PLast.stdin /\ PLast'.stdout = PLast.stdout
      /\ (PNobody(Len(pPipe)) => PNobody(Len(pPipe))') /\ cmds' = cmds
  BY <1>2, PChildFacts
<1>4. ~PAtAgain
  <2>1. PAtAgain => PLast.stdout = Len(pPipe) /\ Len(pPipe) > 0
    BY DEF PAtAgain, PWriter
  <2>2. PLast.stdout = 0 /\ Len(pPipe) \in Nat
    BY <1>1, <1>2, PMainThere
  <2> QED BY <2>1, <2>2
<1>5. shown \in Seq(Nat) /\ PLast.buf \in Seq(Nat) /\ Len(PLast.buf) > 0
      /\ shown' = Append(shown, Head(PLast.buf)) /\ PLast'.buf = Tail(PLast.buf)
  BY <1>1, <1>2, PShellPieces
<1>6. Append(shown, Head(PLast.buf)) \o Tail(PLast.buf) = shown \o PLast.buf
  <2>1. shown \in Seq(Nat) /\ PLast.buf \in Seq(Nat) /\ Len(PLast.buf) > 0
    BY <1>5
  <2> QED BY <2>1, PShiftEnd
<1>7. PSingle => PSingle'
  BY <1>2, <1>3, <1>5, <1>6 DEF PSingle
<1>8. PReader => PReader'
  <2> SUFFICES ASSUME PReader PROVE PReader'
    OBVIOUS
  <2>1. /\ Len(cmds') = 2 /\ PChild(2)' /\ PLast'.stdout = 0 /\ PLast'.stdin = Len(pPipe') /\ Len(pPipe') > 0
        /\ PNobody(Len(pPipe))' /\ (PLast'.eof => Len(pPipe'[Len(pPipe')]) = 0)
    BY <1>1, <1>2, <1>3 DEF PReader
  <2>2. CASE cmds[2] \in {"copy", "sort"}
    <3>1. pPipe[Len(pPipe)] \in Seq(Nat) /\ shown \in Seq(Nat) /\ PLast.buf \in Seq(Nat) /\ Len(PLast.buf) > 0
      BY <1>5, PShellPieces DEF PReader
    <3>2. Append(shown, Head(PLast.buf)) \o (Tail(PLast.buf) \o pPipe[Len(pPipe)])
            = shown \o (PLast.buf \o pPipe[Len(pPipe)])
      BY <3>1, PShift
    <3> QED BY <1>1, <1>2, <1>3, <1>5, <2>1, <2>2, <3>2 DEF PReader
  <2>3. CASE cmds[2] \notin {"copy", "sort"}
    BY <1>2, <1>3, <1>5, <1>6, <2>1, <2>3 DEF PReader
  <2> QED BY <2>2, <2>3
<1>9. ~PWriter
  BY <1>2, <1>4, PShellEither DEF PAtWait
<1> QED BY <1>2, <1>7, <1>8, <1>9, PShellChild

(* The writer puts an item into the pipe.                                   *)
LEMMA PShellPuts ==
  ASSUME PTyped, PShell, program = "shell", NEW q \in 1 .. Len(proc), PPuts(q)
  PROVE  PShell'
<1>1. /\ proc[q].at = "run" /\ Len(proc[q].buf) > 0 /\ proc[q].stdout \in 1 .. Len(pPipe) /\ PFrame /\ shown' = shown
      /\ pPipe' = [pPipe EXCEPT ![proc[q].stdout] = Append(@, Head(proc[q].buf))]
      /\ PTouches(q, Tail(proc[q].buf), proc[q].eof)
  BY DEF PPuts
<1>2. Len(pPipe') = Len(pPipe) /\ pPipe \in Seq(Seq(Nat))
  BY <1>1 DEF PTyped
<1>3. /\ PChildGoesOn(q) /\ (PAtWait \/ PAtAgain) /\ PLast = proc[q] /\ PLast.at = "run" /\ PLast'.at = "run"
      /\ PLast'.buf = Tail(proc[q].buf) /\ PLast'.eof = proc[q].eof /\ \A k : PChild(k) => PChild(k)'
  BY <1>1, <1>2, PTouchedChild
<1>4. POwn(1)' = POwn(1) /\ PLast'.stdout = PLast.stdout /\ cmds' = cmds
  BY <1>3, PChildFacts
<1>5. ~PSingle /\ ~PReader
  <2>1. PSingle \/ PReader => PLast.stdout = 0
    BY DEF PSingle, PReader
  <2>2. PLast.stdout # 0
    BY <1>1, <1>3
  <2> QED BY <2>1, <2>2
<1>6. PWriter
  BY <1>3, <1>5 DEF PAtWait, PAtAgain
<1>7. PICK p \in Nat : p = Len(pPipe)
  BY PMainThere
<1>8. proc[q].stdout = p /\ p \in 1 .. Len(pPipe) /\ pPipe[p] \in Seq(Nat) /\ PLast.buf \in Seq(Nat) /\ Len(PLast.buf) > 0
  BY <1>1, <1>3, <1>6, <1>7, PShellPieces, PPipesNumbers DEF PWriter
<1>9. pPipe'[p] = Append(pPipe[p], Head(PLast.buf))
  BY <1>1, <1>2, <1>3, <1>8
<1>10. Append(pPipe[p], Head(PLast.buf)) \o Tail(PLast.buf) = pPipe[p] \o PLast.buf
  <2>1. pPipe[p] \in Seq(Nat) /\ PLast.buf \in Seq(Nat) /\ Len(PLast.buf) > 0
    BY <1>8
  <2> QED BY <2>1, PShiftEnd
<1>11. PWriter'
  <2>1. Len(cmds') = 2 /\ PChild(1)' /\ PLast'.stdout = Len(pPipe') /\ Len(shown') = 0 /\ PLast'.at = "run"
    BY <1>1, <1>2, <1>3, <1>4, <1>6 DEF PWriter
  <2>2. pPipe'[Len(pPipe')] \o PLast'.buf = POwn(1)'
    BY <1>2, <1>3, <1>4, <1>6, <1>7, <1>9, <1>10 DEF PWriter
  <2> QED BY <2>1, <2>2 DEF PWriter
<1> QED BY <1>3, <1>5, <1>11, PShellChild

(* A command of the line ends.                                              *)
LEMMA PShellFinishes ==
  ASSUME PTyped, PShell, program = "shell", NEW q \in 1 .. Len(proc), PFinishes(q)
  PROVE  PShell'
<1>1. /\ proc[q].at = "run" /\ ~P!Reads(q) /\ Len(proc[q].buf) = 0
      /\ PSet(q, P!Exits(proc[q])) /\ PFrame /\ UNCHANGED <<pPipe, shown>>
  BY DEF PFinishes, PEnding
<1>2. q = Len(proc) /\ Len(proc) >= 2 /\ (PAtWait \/ PAtAgain) /\ PLast = proc[q]
  BY <1>1, PShellWho DEF PLast
<1>3. proc[q] \in PProcess(Len(pPipe)) /\ Len(pPipe) \in Nat
  BY PPipesNumbers
<1>4. /\ proc'[q].at = "ended" /\ proc'[q].i = proc[q].i /\ proc'[q].stdout = proc[q].stdout
      /\ proc'[q].stdin = proc[q].stdin /\ proc'[q].eof = proc[q].eof
      /\ proc'[q].fds = proc[q].fds /\ proc'[q].buf = proc[q].buf
  BY <1>1, <1>3, PExiting DEF PSet
<1>5. PChildGoesOn(q)
  BY <1>1, <1>2, <1>4 DEF PChildGoesOn, PSet, PAlone
<1>6. /\ PLast' = proc'[q] /\ POwn(1)' = POwn(1) /\ POwn(2)' = POwn(2) /\ PLast'.stdout = PLast.stdout
      /\ PLast'.stdin = PLast.stdin /\ (PNobody(Len(pPipe)) => PNobody(Len(pPipe))') /\ cmds' = cmds
  BY <1>5, PChildFacts
<1>7. \A k : PChild(k) => PChild(k)'
  <2> SUFFICES ASSUME NEW k, PChild(k) PROVE PChild(k)'
    OBVIOUS
  <2>1. proc'[q].at = "ended" /\ Len(proc'[q].buf) = 0
    BY <1>1, <1>4
  <2> QED BY <1>5, <2>1, PChildStays
<1>8. PLast.at = "run" /\ PLast'.at = "ended" /\ PLast'.buf = PLast.buf /\ PLast'.eof = PLast.eof
  BY <1>1, <1>2, <1>4, <1>6
<1>9. PSingle => PSingle'
  BY <1>1, <1>6, <1>7, <1>8 DEF PSingle
<1>10. PWriter => PWriter'
  BY <1>1, <1>6, <1>7, <1>8 DEF PWriter
<1>11. PReader => PReader'
  <2> SUFFICES ASSUME PReader PROVE PReader'
    OBVIOUS
  <2>1. cmds[2] \in {"copy", "sort"} => PLast.eof
    BY <1>1, <1>2, <1>8 DEF PReader, PChild, P!Reads
  <2> QED BY <1>1, <1>6, <1>7, <1>8, <2>1 DEF PReader
<1> QED BY <1>2, <1>5, <1>9, <1>10, <1>11, PShellChild

(* Every step of the shell.                                                 *)
LEMMA PShellNext ==
  ASSUME PTyped, PShell, program = "shell", NEW q \in 1 .. Len(proc), P!Enter(q) \/ P!Step(q)
  PROVE  PTyped' /\ PShell' /\ program' = program
<1>0. proc[q].at \notin {"spawn", "last"}
  BY PShellWho
<1>1. CASE P!Enter(q)
  BY <1>1, PShellEnters
<1>2. CASE P!ForkFirst(q)
  BY <1>2, PShellForksOne, PShellForksWriter
<1>3. CASE P!ForkSecond(q)
  BY <1>3, PShellForksReader
<1>4. CASE P!ExecCommand(q)
  BY <1>4, PShellExecs
<1>5. CASE P!ShellWaits(q)
  BY <1>5, PShellWaitsOver
<1>6. CASE P!ReadPipe(q)
  <2>1. PTyped' /\ (PTakes(q) \/ PSeesEnd(q))
    BY <1>6, PReadEffect
  <2> QED BY <1>6, <2>1, PShellReads DEF P!ReadPipe
<1>7. CASE P!WriteOut(q)
  <2>1. PTyped' /\ (PPrints(q) \/ PPuts(q))
    BY <1>7, PWriteEffect, PShellUnbroken
  <2> QED BY <1>7, <2>1, PShellPrints, PShellPuts DEF P!WriteOut
<1>8. CASE P!Finish(q)
  <2>1. PTyped' /\ PFinishes(q)
    BY <1>8, PFinishEffect
  <2> QED BY <1>8, <2>1, PShellFinishes DEF P!Finish
<1>9. \/ P!Enter(q) \/ P!ForkFirst(q) \/ P!ForkSecond(q) \/ P!ExecCommand(q) \/ P!ShellWaits(q)
      \/ P!ReadPipe(q) \/ P!WriteOut(q) \/ P!Finish(q)
  BY <1>0 DEF P!Step, P!Spawn, P!ExecStage, P!ExecLast, P!ForkLs, P!ExecLs, P!WaitAndExecWc
<1> QED BY <1>1, <1>2, <1>3, <1>4, <1>5, <1>6, <1>7, <1>8, <1>9

(* The type invariant of the module.                                        *)
LEMMA PAllTyped ==
  ASSUME PTyped
  PROVE  P!TypeOK
<1>1. \A q \in 1 .. Len(proc) : proc[q] \in PProcess(Len(pPipe))
  BY PPipesNumbers
<1>2. ASSUME NEW q \in 1 .. Len(proc)
      PROVE  /\ proc[q].at \in {"spawn", "last", "fork", "exec", "wait", "again", "prompt", "run", "ended"}
             /\ {proc[q].in, proc[q].stdin, proc[q].stdout} \subseteq {0} \cup 1 .. Len(pPipe)
             /\ proc[q].fds \subseteq {P!R(p) : p \in 1 .. Len(pPipe)} \cup {P!W(p) : p \in 1 .. Len(pPipe)}
             /\ proc[q].runs \in P!Kinds /\ proc[q].buf \in Seq(Nat) /\ proc[q].eof \in BOOLEAN
  <2>1. 0 .. Len(pPipe) \subseteq {0} \cup 1 .. Len(pPipe)
    BY PPipesNumbers
  <2> QED BY <1>1, <2>1 DEF PProcess, PPlaces, PEnds
<1>3. \A p \in 1 .. Len(pPipe) : pPipe[p] \in Seq(Nat) /\ Len(pPipe[p]) <= Capacity
  BY PPipesNumbers DEF PTyped
<1>4. /\ program \in {"multi_pipes", "pipeline", "shell"}
      /\ cmds \in Seq(P!Kinds) /\ output \in 0 .. MaxOutput
      /\ shown \in Seq(Nat) /\ lines \in 0 .. MaxLines /\ failed \in Nat
  BY DEF PTyped
<1> QED BY <1>2, <1>3, <1>4 DEF P!TypeOK, P!Pipes, P!Procs

(* The inductive invariant implies what the runs check.                     *)
LEMMA PipeIInvSound ==
  ASSUME PipeIInv
  PROVE  PipeInv
<1>1. PTyped /\ program \in {"multi_pipes", "pipeline", "shell"}
  BY DEF PipeIInv, PTyped
<1>2. P!OneWriter /\ P!NothingLeaks /\ P!NeverBroken /\ P!PassesOn
  BY <1>1, PMultiSound, PLineSound, PShellSound DEF PipeIInv, PMultiInv
<1> QED BY <1>1, <1>2, PAllTyped DEF PipeInv, P!PipeInv

(* It holds at first, in every lab.                                         *)
LEMMA PipeIInvAtFirst ==
  ASSUME MCInit
  PROVE  PipeIInv
<1>1. P!Init
  BY DEF MCInit
<1>2. PTyped
  BY <1>1, PTypedAtFirst
<1> QED BY <1>1, <1>2, PMultiAtFirst, PLineAtFirst, PShellAtFirst DEF PipeIInv, PMultiInv

(* Every step of the pipelines keeps it.                                    *)
LEMMA PipeIInvKept ==
  ASSUME PipeIInv, P!Next
  PROVE  PipeIInv'
<1>1. PICK q \in 1 .. Len(proc) : P!Enter(q) \/ P!Step(q)
  BY DEF P!Next, P!Procs
<1>2. PTyped /\ program \in {"multi_pipes", "pipeline", "shell"}
  BY DEF PipeIInv, PTyped
<1>3. CASE program = "multi_pipes"
  BY <1>1, <1>2, <1>3, PMultiNext DEF PipeIInv, PMultiInv
<1>4. CASE program = "pipeline"
  BY <1>1, <1>2, <1>4, PLineNext DEF PipeIInv
<1>5. CASE program = "shell"
  BY <1>1, <1>2, <1>5, PShellNext DEF PipeIInv
<1> QED BY <1>2, <1>3, <1>4, <1>5

-----------------------------------------------------------------------------
(* While another lab goes on, nothing of this one changes: the types,       *)
LEMMA PStaysTyped ==
  ASSUME UNCHANGED pVars, PTyped
  PROVE  PTyped'
BY DEF pVars, PTyped

(* the stages of multi_pipes,                                               *)
LEMMA PStaysMulti ==
  ASSUME UNCHANGED pVars, PMulti, PTidy
  PROVE  PMulti' /\ PTidy'
BY DEF pVars, PMulti, PFour, PStage, PEmpties, PHasReader, PNoWriters, PTidy, PAllThere, PTidyStage

(* what is on the way,                                                      *)
LEMMA PStaysWater ==
  ASSUME UNCHANGED pVars, PWater
  PROVE  PWater'
<1>1. ASSUME NEW f, PDry(f) PROVE PDry(f)'
  BY <1>1 DEF pVars, PDry, PDryStage, PBelow
<1>2. PFlow => PFlow'
  <2>1. PWay' = PWay
    <3>1. (\A k \in 1 .. 4 : PBuf(k)' = PBuf(k)) /\ \A p \in 1 .. 3 : PIn(p)' = PIn(p)
      BY DEF pVars, PBuf, PIn, P!Numbers
    <3> QED BY <3>1, PWayStays DEF pVars
  <2>2. PCount /\ PUnshown => PCount' /\ PUnshown'
    BY DEF pVars, PCount, PUnshown
  <2>3. (\A q \in 1 .. Len(proc) : PSeen(q)) => (\A q \in 1 .. Len(proc) : PSeen(q))'
    BY DEF pVars, PSeen
  <2>4. P!Numbers' = P!Numbers
    BY DEF pVars, P!Numbers
  <2> QED BY <2>1, <2>2, <2>3, <2>4 DEF PFlow
<1> QED BY <1>1, <1>2 DEF pVars, PWater, PAllThere

(* the ring of a stage that is missing,                                     *)
LEMMA PStaysRings ==
  ASSUME UNCHANGED pVars, PRings
  PROVE  PRings'
BY ZenonT(40) DEF pVars, PRings, PRing, PRound, PMember, PFeed

(* pipeline.c,                                                              *)
LEMMA PStaysLine ==
  ASSUME UNCHANGED pVars, PLine
  PROVE  PLine'
BY DEF pVars, PLine, PTwo, PLineBegins, PLineFails, PLineGoes, PLs, PWc, PLineWay, PLsBuf, PFirst, P!Numbers

(* the shell,                                                               *)
LEMMA PStaysShell ==
  ASSUME UNCHANGED pVars, PShell
  PROVE  PShell'
BY ZenonT(40) DEF pVars, PShell, PShellCmds, PIdle, PAtPrompt, PAtFork, PAtWait, PAtAgain, PQuiet, PLeak, PSingle, PWriter,
   PReader, PChild, PLast, POwn, PNobody, P!Numbers, P!WholeResult, P!LastMaker, P!Makes

(* and so the invariant.                                                    *)
LEMMA PipeIInvStays ==
  ASSUME UNCHANGED pVars, PipeIInv
  PROVE  PipeIInv'
<1>1. program' = program
  BY DEF pVars
<1> QED BY <1>1, PStaysTyped, PStaysMulti, PStaysWater, PStaysRings, PStaysLine, PStaysShell DEF PipeIInv

(* The three programs keep to the invariant, whatever the other labs do     *)
(* meanwhile.                                                               *)
THEOREM PipelinesInvariant == MCSpec => []PipeIInv
<1>1. MCInit => PipeIInv
  BY PipeIInvAtFirst
<1>2. PipeIInv /\ [MCNext]_mcVars => PipeIInv'
  <2> SUFFICES ASSUME PipeIInv, [MCNext]_mcVars PROVE PipeIInv'
    OBVIOUS
  <2>1. P!Next \/ UNCHANGED pVars
    BY DEF MCNext, PingPongs, Pipeline, Talk, mcVars
  <2> QED BY <2>1, PipeIInvKept, PipeIInvStays
<1> QED BY <1>1, <1>2, PTL DEF MCSpec

(* For any output, any lines and any size of a pipe: the end of the data    *)
(* can be seen, the shell leaks nothing but what a failed fork leaves,      *)
(* SIGPIPE hits nobody, and the terminal shows the whole result of a        *)
(* pipeline that comes to its end.                                          *)
THEOREM PipelinesAreSound == MCSpec => []PipeInv
<1>1. PipeIInv => PipeInv
  BY PipeIInvSound
<1> QED BY <1>1, PipelinesInvariant, PTL
=============================================================================
