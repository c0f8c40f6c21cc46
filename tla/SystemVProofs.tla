--------------------------- MODULE SystemVProofs ---------------------------
(***************************************************************************)
(* Proofs about the labs on objects that the kernel keeps for their         *)
(* processes:                                                              *)
(*  - server_ibm.c and client_ibm.c, for any number of servers, clients and  *)
(*    messages, whoever is killed: a running server's segment is written    *)
(*    only under its own semaphores; semaphore 0 says who is inside; and    *)
(*    what is printed is one message, as far as the code keeps that;         *)
(*  - the programs of Handoff and MappedMemory, for any number of turns,    *)
(*    tokens and cells;                                                     *)
(*  - the programs of MessageQueues, for any capacity and number of lines.   *)
(* The first are theorems of Spec, the specification of SysvShm; the others  *)
(* of MCSpec, where each lab is run beside the others.                      *)
(***************************************************************************)
EXTENDS MCSystemV, Sequences, FiniteSetTheorems, TLAPS

(* Places of a server: the set is its own; the segment is its own; nothing *)
(* has been created under its name; SETALL is done and IPC_RMID is not.     *)
OwnsSet == {"setall", "shmget", "wait", "print1", "print2", "free", "rmsem"}
OwnsSegment == {"wait", "print1", "print2", "free", "rmsem", "rmshm"}
NoSegmentYet == {"semget", "setall", "shmget"}
Live == {"shmget", "wait", "print1", "print2", "free"}

(* What the keys lead to, and who can know a segment.                       *)
ObjectsInv ==
  /\ \A s \in Servers : srv[s] \in OwnsSet => semset = s
  /\ \A s \in Servers : srv[s] \in OwnsSegment => segment = s
  /\ \A s \in Servers : srv[s] \in NoSegmentYet =>
       segment # s /\ \A c \in Clients : shmid[c] # s

(* What a client has looked up at each of its places.                       *)
Inside == {"write1", "write2", "release"}
LookupInv ==
  \A c \in Clients :
    /\ cli[c] = "semget" => semid[c] = None
    /\ cli[c] \in {"semget", "shmget"} => shmid[c] = None
    /\ cli[c] = "shmget" => semid[c] \in Servers
    /\ cli[c] \in {"attach", "lock"} \cup Inside => semid[c] \in Servers /\ shmid[c] \in Servers

(* A segment that a client has found is there, or its server has removed it, *)
(* as it has when the client could not attach it.                           *)
KnownInv ==
  \A c \in Clients :
    /\ shmid[c] # None => segment = shmid[c] \/ srv[shmid[c]] = "done"
    /\ cli[c] \in {"lock"} \cup Inside /\ c \notin attached => srv[shmid[c]] = "done"

(* A server that has not left its loop has messages to go.                  *)
CountInv ==
  \A s \in Servers : srv[s] \in NoSegmentYet \cup Live => i[s] < NUMMSG

(* Semaphore 0 and who is inside.                                           *)
OneWriter(s) == \A c, d \in Writing(s) : c = d
UsedCounts(s) ==
  used[s] = (IF Writing(s) = {} THEN 0 ELSE 1) + (IF Printing(s) THEN 1 ELSE 0)

(* A message to be taken, or being printed, is whole and alone; the writer  *)
(* leaves its name half by half; the server has copied what it has printed. *)
Whole(s) == text[s][1] = text[s][2] /\ text[s][1] # None
TextIsKept(s) ==
  /\ changed[s] > 0 \/ Printing(s) => Writing(s) = {} /\ Whole(s)
  /\ \A c \in Writing(s) : /\ cli[c] \in {"write2", "release"} => text[s][1] = c
                           /\ cli[c] = "release" => text[s][2] = c
  /\ srv[s] \in {"print2", "free"} => seen[s][1] = text[s][1]
  /\ srv[s] = "free" => seen[s][2] = text[s][2]

Guarded(s) ==
  Sound(s) /\ srv[s] \in Live =>
    OneWriter(s) /\ UsedCounts(s) /\ (s \notin overtaken => TextIsKept(s))

RunInv == TypeOK /\ CountInv /\ ObjectsInv /\ LookupInv /\ KnownInv /\ SameRun
IInv == RunInv /\ \A s \in Servers : Guarded(s)
-----------------------------------------------------------------------------
(* Nothing is there and everybody is to start.                              *)
LEMMA InitRun == Init => IInv
<1> SUFFICES ASSUME Init PROVE IInv
  OBVIOUS
<1> USE DEF Init
<1>1. TypeOK
  BY SysvAssumption DEF TypeOK, Half, ServerPC, ClientPC
<1>2. CountInv /\ ObjectsInv /\ LookupInv /\ KnownInv
  BY SysvAssumption
  DEF CountInv, ObjectsInv, LookupInv, KnownInv, NoSegmentYet, OwnsSet, OwnsSegment, Live, Inside
<1>3. SameRun
  BY DEF SameRun
<1>4. \A s \in Servers : Guarded(s)
  BY DEF Guarded, Live
<1>5. QED
  BY <1>1, <1>2, <1>3, <1>4 DEF IInv, RunInv

(* The types, one process at a time.                                        *)
LEMMA ServerTypes ==
  ASSUME TypeOK, CountInv, NEW s \in Servers, CreateSet(s) \/ ServerStep(s)
  PROVE  TypeOK'
<1> USE DEF TypeOK, objects, clientVars, serverVars, ServerGoto, ServerPC, Ended
<1>1. CASE CreateSet(s)
  BY <1>1 DEF CreateSet
<1>2. CASE SetAll(s)
  BY <1>2 DEF SetAll
<1>3. CASE CreateSegment(s)
  BY <1>3 DEF CreateSegment
<1>4. CASE Take(s)
  <2>1. used[s] + 1 \in Nat /\ changed[s] - 1 \in Nat
    BY <1>4 DEF Take
  <2>2. QED
    BY <1>4, <2>1 DEF Take
<1>5. CASE PrintHalf(s)
  <2>1. PICK h \in Half : seen' = [seen EXCEPT ![s][h] = text[s][h]]
    BY <1>5 DEF PrintHalf
  <2>2. text[s][h] \in Clients \cup {None}
    OBVIOUS
  <2>3. seen' \in [Servers -> [Half -> Clients \cup {None}]]
    BY <2>1, <2>2
  <2>4. QED
    BY <1>5, <2>3 DEF PrintHalf
<1>6. CASE Free(s)
  <2>1. i[s] < NUMMSG /\ i[s] \in 0 .. NUMMSG /\ NUMMSG \in Nat
    BY <1>6, SysvAssumption DEF Free, CountInv, Live
  <2>2. used[s] \in Nat /\ i[s] + 1 \in 0 .. NUMMSG
    BY <2>1
  <2>3. /\ used' \in [Servers -> Nat] /\ i' \in [Servers -> 0 .. NUMMSG]
        /\ srv' \in [Servers -> ServerPC]
    <3>1. CASE used[s] > 0
      <4>1. used[s] - 1 \in Nat
        BY <2>2, <3>1
      <4>2. QED
        BY <1>6, <2>2, <3>1, <4>1, ZenonT(40) DEF Free
    <3>2. CASE used[s] = 0
      BY <1>6, <3>2, SMTT(30) DEF Free
    <3>3. QED
      BY <1>6, <3>1, <3>2 DEF Free
  <2>4. QED
    BY <1>6, <2>3 DEF Free
<1>7. CASE RemoveSet(s)
  BY <1>7 DEF RemoveSet
<1>8. CASE RemoveSegment(s)
  BY <1>8 DEF RemoveSegment
<1>9. QED
  BY <1>1, <1>2, <1>3, <1>4, <1>5, <1>6, <1>7, <1>8 DEF ServerStep

(* A step of a client keeps the types.                                      *)
LEMMA ClientTypes ==
  ASSUME TypeOK, LookupInv, NEW c \in Clients, FindSet(c) \/ ClientStep(c)
  PROVE  TypeOK'
<1> USE DEF TypeOK, objects, clientVars, serverVars, ClientGoto, ClientPC, Ended
<1>1. CASE FindSet(c)
  BY <1>1 DEF FindSet
<1>2. CASE FindSegment(c) \/ Attach(c)
  BY <1>2 DEF FindSegment, Attach
<1>3. CASE SetIsGone(c, "lock") \/ SetIsGone(c, "release") \/ Crash(c)
  BY <1>3 DEF SetIsGone, Crash
<1>4. CASE Lock(c)
  <2>1. semid[c] \in Servers
    BY <1>4 DEF Lock, LookupInv
  <2>2. used[semid[c]] + 1 \in Nat /\ overtaken' \subseteq Servers
    BY <1>4, <2>1 DEF Lock, Entered
  <2>3. QED
    BY <1>4, <2>1, <2>2 DEF Lock
<1>5. CASE WriteHalf(c)
  <2>1. shmid[c] \in Servers
    BY <1>5 DEF WriteHalf, LookupInv, Inside
  <2>2. PICK h \in Half : text' = [text EXCEPT ![shmid[c]][h] = c]
    BY <1>5 DEF WriteHalf
  <2>3. text' \in [Servers -> [Half -> Clients \cup {None}]]
    BY <2>1, <2>2
  <2>4. QED
    BY <1>5, <2>3 DEF WriteHalf
<1>6. CASE Release(c)
  <2>1. semid[c] \in Servers
    BY <1>6 DEF Release, LookupInv, Inside
  <2>2. used[semid[c]] - 1 \in Nat /\ changed[semid[c]] + 1 \in Nat
    BY <1>6, <2>1 DEF Release
  <2>3. QED
    BY <1>6, <2>1, <2>2 DEF Release
<1>7. QED
  BY <1>1, <1>2, <1>3, <1>4, <1>5, <1>6 DEF ClientStep

(* So does a kill.                                                          *)
LEMMA KillTypes == TypeOK /\ Kill => TypeOK'
  BY DEF TypeOK, Kill, objects, ServerPC, ClientPC, Ended
-----------------------------------------------------------------------------
(* What a step of a server or a client does to the places of the others.    *)
LEMMA ServerRun ==
  ASSUME RunInv, NEW s \in Servers, CreateSet(s) \/ ServerStep(s)
  PROVE  RunInv'
<1>0. TypeOK /\ TypeOK' /\ None \notin Servers
  BY ServerTypes, SysvAssumption DEF RunInv
<1>1. srv \in [Servers -> ServerPC] /\ i \in [Servers -> 0 .. NUMMSG]
  BY <1>0 DEF TypeOK
<1>2. CountInv'
  <2>1. CASE Free(s)
    <3>1. \A x \in Servers \ {s} : srv'[x] = srv[x] /\ i'[x] = i[x]
      BY <1>1, <2>1 DEF Free, ServerGoto
    <3>2. i[s] \in Int /\ i[s] < NUMMSG /\ NUMMSG \in Int
      BY <1>1, <2>1, SysvAssumption DEF Free, ServerGoto, RunInv, CountInv, Live
    <3>3. srv'[s] = "wait" => i'[s] = i[s] + 1 /\ i[s] + 1 # NUMMSG
      BY <1>1, <2>1 DEF Free, ServerGoto
    <3>4. srv'[s] \in {"wait", "rmsem", "failed"}
      BY <1>1, <2>1 DEF Free, ServerGoto
    <3>5. QED
      BY <3>1, <3>2, <3>3, <3>4 DEF RunInv, CountInv, NoSegmentYet, Live
  <2>2. CASE ~Free(s)
    BY <1>1, <2>2
    DEF RunInv, CountInv, ServerStep, CreateSet, SetAll, CreateSegment, Take, PrintHalf,
        RemoveSet, RemoveSegment, ServerGoto, NoSegmentYet, Live
  <2>3. QED
    BY <2>1, <2>2
<1>3. ObjectsInv'
  BY <1>0, <1>1
  DEF RunInv, ObjectsInv, ServerStep, CreateSet, SetAll, CreateSegment, Take, PrintHalf, Free,
      RemoveSet, RemoveSegment, ServerGoto, objects, clientVars, NoSegmentYet, OwnsSet,
      OwnsSegment
<1>4. UNCHANGED clientVars
  BY DEF ServerStep, CreateSet, SetAll, CreateSegment, Take, PrintHalf, Free, RemoveSet,
     RemoveSegment
<1>5. LookupInv'
  BY <1>4 DEF RunInv, LookupInv, clientVars
<1>8. KnownInv'
  <2> SUFFICES ASSUME NEW c \in Clients
               PROVE  /\ shmid[c] # None => segment' = shmid[c] \/ srv'[shmid[c]] = "done"
                      /\ cli[c] \in {"lock"} \cup Inside /\ c \notin attached => srv'[shmid[c]] = "done"
    BY <1>4 DEF KnownInv, clientVars
  <2>1. shmid[c] \in Servers \cup {None} /\ (cli[c] \in {"lock"} \cup Inside => shmid[c] # None)
    BY <1>0 DEF TypeOK, RunInv, LookupInv
  <2>2. \A x \in Servers : srv[x] = "done" => srv'[x] = "done"
    BY <1>1
    DEF ServerStep, CreateSet, SetAll, CreateSegment, Take, PrintHalf, Free, RemoveSet,
        RemoveSegment, ServerGoto
  <2>3. CASE RemoveSegment(s)
    <3>1. segment = s /\ srv'[s] = "done"
      BY <1>1, <2>3 DEF RemoveSegment, ServerGoto, RunInv, ObjectsInv, OwnsSegment
    <3>2. QED
      BY <2>1, <2>2, <3>1 DEF RunInv, KnownInv
  <2>4. CASE ~RemoveSegment(s)
    <3>1. segment # None => segment' = segment
      BY <2>4
      DEF ServerStep, CreateSet, SetAll, CreateSegment, Take, PrintHalf, Free, RemoveSet, objects
    <3>2. QED
      BY <2>1, <2>2, <3>1 DEF RunInv, KnownInv
  <2>5. QED
    BY <2>3, <2>4
<1>6. SameRun'
  <2> SUFFICES ASSUME NEW c \in Clients, cli[c] \in Inside, Running(shmid[c])'
               PROVE  semid[c] = shmid[c]
    BY <1>4 DEF SameRun, clientVars, Inside
  <2>1. shmid[c] \in Servers /\ srv[shmid[c]] \notin NoSegmentYet
    BY DEF RunInv, LookupInv, ObjectsInv
  <2>2. Running(shmid[c])
    BY <1>1, <1>4, <2>1
    DEF Running, Printing, ServerStep, CreateSet, SetAll, CreateSegment, Take, PrintHalf, Free,
        RemoveSet, RemoveSegment, ServerGoto, NoSegmentYet, clientVars
  <2>3. QED
    BY <2>2 DEF RunInv, SameRun, Inside
<1>7. QED
  BY <1>0, <1>2, <1>3, <1>5, <1>6, <1>8 DEF RunInv

(* A client's step keeps what is known of keys and counts.                  *)
LEMMA ClientRun ==
  ASSUME RunInv, NEW c \in Clients, FindSet(c) \/ ClientStep(c)
  PROVE  RunInv'
<1>0. TypeOK /\ TypeOK' /\ None \notin Servers
  BY ClientTypes, SysvAssumption DEF RunInv
<1>1. /\ cli \in [Clients -> ClientPC] /\ semid \in [Clients -> Servers \cup {None}]
      /\ shmid \in [Clients -> Servers \cup {None}]
      /\ semset \in Servers \cup {None} /\ segment \in Servers \cup {None}
  BY <1>0 DEF TypeOK
<1>2. UNCHANGED <<objects, serverVars>>
  BY DEF ClientStep, FindSet, FindSegment, Attach, SetIsGone, Lock, WriteHalf, Crash, Release
<1>3. CountInv'
  BY <1>2 DEF RunInv, CountInv, serverVars
<1>4. ObjectsInv'
  <2>1. \A d \in Clients : shmid'[d] = shmid[d] \/ shmid'[d] = segment
    BY <1>1 DEF ClientStep, FindSet, FindSegment, Attach, SetIsGone, Lock, WriteHalf, Crash, Release
  <2>2. QED
    BY <1>2, <2>1 DEF RunInv, ObjectsInv, objects, serverVars
<1>5. LookupInv'
  <2>1. \A d \in Clients \ {c} : cli'[d] = cli[d] /\ semid'[d] = semid[d] /\ shmid'[d] = shmid[d]
    BY <1>1
    DEF ClientStep, FindSet, FindSegment, Attach, SetIsGone, Lock, WriteHalf, Crash, Release, ClientGoto
  <2>2. CASE FindSet(c)
    <3>1. /\ cli'[c] \in {"failed", "shmget"} /\ shmid'[c] = None
          /\ cli'[c] = "shmget" => semid'[c] \in Servers
      BY <1>1, <2>2 DEF FindSet, ClientGoto, RunInv, LookupInv
    <3>2. QED
      BY <2>1, <3>1 DEF RunInv, LookupInv, Inside
  <2>3. CASE FindSegment(c)
    <3>1. cli[c] = "shmget" /\ cli'[c] \in {"failed", "attach"}
      BY <1>1, <2>3 DEF FindSegment, ClientGoto
    <3>2. cli'[c] = "attach" => semid'[c] \in Servers /\ shmid'[c] \in Servers
      BY <1>1, <2>3, <3>1 DEF FindSegment, ClientGoto, RunInv, LookupInv
    <3>3. QED
      BY <2>1, <3>1, <3>2 DEF RunInv, LookupInv, Inside
  <2>4. CASE \/ Attach(c) \/ SetIsGone(c, "lock") \/ SetIsGone(c, "release")
             \/ Lock(c) \/ WriteHalf(c) \/ Crash(c) \/ Release(c)
    <3>1. /\ cli[c] \in {"attach", "lock"} \cup Inside /\ cli'[c] \notin {"semget", "shmget"}
          /\ semid' = semid /\ shmid' = shmid
      BY <1>1, <2>4 DEF Attach, SetIsGone, Lock, WriteHalf, Crash, Release, ClientGoto, Inside
    <3>2. QED
      BY <2>1, <2>4, <3>1 DEF RunInv, LookupInv
  <2>5. QED
    BY <2>2, <2>3, <2>4 DEF ClientStep
<1>8. KnownInv'
  <2> SUFFICES ASSUME NEW d \in Clients
               PROVE  /\ shmid'[d] # None => segment = shmid'[d] \/ srv[shmid'[d]] = "done"
                      /\ cli'[d] \in {"lock"} \cup Inside /\ d \notin attached' => srv[shmid'[d]] = "done"
    BY <1>2 DEF KnownInv, objects, serverVars
  <2>1. \/ shmid'[d] = shmid[d]
        \/ shmid'[d] = segment /\ cli'[d] \in {"failed", "attach"}
    BY <1>1
    DEF ClientStep, FindSet, FindSegment, Attach, SetIsGone, Lock, WriteHalf, Crash, Release,
        ClientGoto
  <2>2. CASE Attach(c) /\ d = c
    <3>1. shmid' = shmid /\ shmid[c] \in Servers /\ (c \notin attached' => segment # shmid[c])
      BY <1>1, <2>2 DEF Attach, Exists, ClientGoto, RunInv, LookupInv
    <3>2. QED
      BY <1>0, <2>2, <3>1 DEF RunInv, KnownInv
  <2>3. CASE ~Attach(c) \/ d # c
    <3>1. cli'[d] \in {"lock"} \cup Inside /\ d \notin attached' =>
            cli[d] \in {"lock"} \cup Inside /\ d \notin attached /\ shmid'[d] = shmid[d]
      BY <1>1, <2>3
      DEF ClientStep, FindSet, FindSegment, Attach, SetIsGone, Lock, WriteHalf, Crash, Release,
          ClientGoto, Inside
    <3>2. QED
      BY <2>1, <3>1 DEF RunInv, KnownInv
  <2>4. QED
    BY <2>2, <2>3
<1>6. SameRun'
  <2> SUFFICES ASSUME NEW d \in Clients, cli'[d] \in Inside, Running(shmid'[d])
               PROVE  semid'[d] = shmid'[d]
    BY <1>2 DEF SameRun, serverVars, Inside, Running, Printing
  <2>1. CASE cli[d] \in Inside
    <3>1. semid'[d] = semid[d] /\ shmid'[d] = shmid[d]
      BY <1>1, <2>1
      DEF ClientStep, FindSet, FindSegment, Attach, SetIsGone, Lock, WriteHalf, Crash, Release, ClientGoto,
          Inside
    <3>2. QED
      BY <2>1, <3>1 DEF RunInv, SameRun, Inside
  <2>2. CASE cli[d] \notin Inside
    <3>1. d = c /\ Lock(c)
      BY <1>1, <2>2
      DEF ClientStep, FindSet, FindSegment, Attach, SetIsGone, Lock, WriteHalf, Crash, Release, ClientGoto,
          Inside
    <3>2. semset = semid[c] /\ shmid[c] \in Servers /\ semid' = semid /\ shmid' = shmid
      BY <3>1 DEF Lock, ClientGoto, RunInv, LookupInv
    <3>3. semset = shmid[c]
      BY <3>1, <3>2 DEF RunInv, ObjectsInv, OwnsSet, Running, Printing
    <3>4. QED
      BY <3>1, <3>2, <3>3
  <2>3. QED
    BY <2>1, <2>2
<1>7. QED
  BY <1>0, <1>3, <1>4, <1>5, <1>6, <1>8 DEF RunInv

(* So does a kill.                                                          *)
LEMMA KillRun == RunInv /\ Kill => RunInv'
<1> SUFFICES ASSUME RunInv, Kill PROVE RunInv'
  OBVIOUS
<1>1. TypeOK' /\ srv \in [Servers -> ServerPC] /\ cli \in [Clients -> ClientPC]
  BY KillTypes DEF RunInv, TypeOK
<1>2. /\ \A s \in Servers : srv'[s] \in {srv[s], "killed"}
      /\ \A c \in Clients : cli'[c] \in {cli[c], "killed"}
      /\ UNCHANGED <<objects, i, semid, shmid>>
  BY <1>1 DEF Kill, Ended
<1>3. CountInv' /\ ObjectsInv' /\ LookupInv'
  BY <1>2
  DEF RunInv, CountInv, ObjectsInv, LookupInv, objects, NoSegmentYet, Live, OwnsSet,
      OwnsSegment, Inside
<1>4. SameRun'
  <2> SUFFICES ASSUME NEW c \in Clients, cli'[c] \in Inside, Running(shmid[c])'
               PROVE  semid[c] = shmid[c]
    BY <1>2 DEF SameRun, Inside
  <2>1. cli[c] \in Inside
    BY <1>2 DEF Inside
  <2>2. shmid[c] \in Servers
    BY <2>1 DEF RunInv, LookupInv
  <2>3. Running(shmid[c])
    BY <1>2, <2>2 DEF Running, Printing
  <2>4. QED
    BY <2>1, <2>3 DEF RunInv, SameRun, Inside
<1>5. KnownInv'
  <2>1. (\A x \in Servers : srv[x] = "done" => srv'[x] = "done") /\ attached' = attached
    BY <1>1 DEF Kill, Ended
  <2>2. \A c \in Clients : shmid[c] \in Servers \cup {None}
                         /\ (cli[c] \in {"lock"} \cup Inside => shmid[c] \in Servers)
    BY DEF RunInv, TypeOK, LookupInv
  <2>3. QED
    BY <1>2, <2>1, <2>2 DEF RunInv, KnownInv, objects, Inside
<1>6. QED
  BY <1>1, <1>3, <1>4, <1>5 DEF RunInv
-----------------------------------------------------------------------------
(* The exceptions of the promise only come about, they never go away.       *)
LEMMA SoundBefore ==
  ASSUME RunInv, Next, NEW s \in Servers, Sound(s)'
  PROVE  Sound(s) /\ ~Kill
<1>1. /\ srv \in [Servers -> ServerPC] /\ cli \in [Clients -> ClientPC]
      /\ semid \in [Clients -> Servers \cup {None}]
      /\ shmid \in [Clients -> Servers \cup {None}]
      /\ None \notin Servers
  BY SysvAssumption DEF RunInv, TypeOK
<1>2. /\ \A x \in Servers : srv'[x] # "killed"
      /\ \A c \in Clients : cli'[c] # "killed"
      /\ \A c \in Clients : ~Astray(c, s)'
  BY DEF Sound, NobodyKilled
<1>3. ~Kill
  BY <1>1, <1>2, SysvAssumption DEF Kill
<1>4. \A x \in Servers : srv[x] # "killed"
  BY <1>1, <1>2, <1>3
  DEF Next, ServerStep, CreateSet, SetAll, CreateSegment, Take, PrintHalf, Free, RemoveSet,
      RemoveSegment, ServerGoto, ClientStep, FindSet, FindSegment, Attach, SetIsGone, Lock,
      WriteHalf, Crash, Release, clientVars, serverVars
<1>5. \A c \in Clients : cli[c] # "killed"
  BY <1>1, <1>2, <1>3
  DEF Next, ServerStep, CreateSet, SetAll, CreateSegment, Take, PrintHalf, Free, RemoveSet,
      RemoveSegment, ClientGoto, ClientStep, FindSet, FindSegment, Attach, SetIsGone, Lock,
      WriteHalf, Crash, Release, clientVars, serverVars
<1>6. ASSUME NEW c \in Clients, Astray(c, s) PROVE FALSE
  <2>1. semid[c] = s /\ shmid[c] \in Servers \ {s}
    BY <1>1, <1>6 DEF Astray
  <2>2. cli[c] \notin {"semget", "shmget"}
    BY <1>1, <2>1 DEF RunInv, LookupInv
  <2>3. semid'[c] = semid[c] /\ shmid'[c] = shmid[c]
    BY <1>1, <1>3, <2>2
    DEF Next, ServerStep, CreateSet, SetAll, CreateSegment, Take, PrintHalf, Free, RemoveSet,
        RemoveSegment, ClientGoto, ClientStep, FindSet, FindSegment, Attach, SetIsGone, Lock,
        WriteHalf, Crash, Release, clientVars
  <2>4. QED
    BY <1>1, <1>2, <2>1, <2>3 DEF Astray
<1>7. QED
  BY <1>3, <1>4, <1>5, <1>6 DEF Sound, NobodyKilled

(* A step that does not concern the objects of s.                           *)
LEMMA Elsewhere ==
  ASSUME NEW s \in Servers, Guarded(s), Sound(s)' => Sound(s),
         used'[s] = used[s], changed'[s] = changed[s], text'[s] = text[s],
         seen'[s] = seen[s], srv'[s] = srv[s], s \in overtaken => s \in overtaken',
         Writing(s)' = Writing(s), \A c \in Writing(s) : cli'[c] = cli[c]
  PROVE  Guarded(s)'
<1> SUFFICES ASSUME Sound(s)', srv'[s] \in Live
             PROVE  /\ OneWriter(s)' /\ UsedCounts(s)'
                    /\ s \notin overtaken' => TextIsKept(s)'
  BY DEF Guarded
<1>1. OneWriter(s) /\ UsedCounts(s) /\ (s \notin overtaken => TextIsKept(s))
  BY DEF Guarded
<1>2. OneWriter(s)' /\ UsedCounts(s)'
  BY <1>1 DEF OneWriter, UsedCounts, Printing
<1>3. TextIsKept(s) => TextIsKept(s)'
  BY DEF TextIsKept, Whole, Printing
<1>4. QED
  BY <1>1, <1>2, <1>3

(* Nobody writes under a set whose segment has not been created, but those  *)
(* who found the segment of the server before.                              *)
LEMMA NobodyEarly ==
  ASSUME RunInv, NEW s \in Servers, Sound(s), srv[s] \in NoSegmentYet
  PROVE  Writing(s) = {}
<1> SUFFICES ASSUME NEW c \in Writing(s) PROVE FALSE
  OBVIOUS
<1>1. c \in Clients /\ semid[c] = s /\ shmid[c] \in Servers /\ shmid[c] # s
  BY DEF Writing, RunInv, LookupInv, ObjectsInv, Inside
<1>2. QED
  BY <1>1, SysvAssumption DEF Sound, Astray
-----------------------------------------------------------------------------
(* The steps of a server keep what is said of its own objects.              *)
LEMMA ServerGuard ==
  ASSUME IInv, NEW t \in Servers, CreateSet(t) \/ ServerStep(t), NEW s \in Servers,
         Sound(s)' => Sound(s)
  PROVE  Guarded(s)'
<1>0. /\ used \in [Servers -> Nat] /\ changed \in [Servers -> Nat]
      /\ text \in [Servers -> [Half -> Clients \cup {None}]]
      /\ seen \in [Servers -> [Half -> Clients \cup {None}]]
      /\ srv \in [Servers -> ServerPC] /\ RunInv /\ Guarded(s)
  BY DEF IInv, RunInv, TypeOK
<1> USE DEF ServerGoto
<1>1. UNCHANGED <<clientVars, overtaken>> /\ Writing(s)' = Writing(s)
  BY DEF ServerStep, CreateSet, SetAll, CreateSegment, Take, PrintHalf, Free, RemoveSet,
     RemoveSegment, clientVars, Writing
<1>2. CASE t # s
  <2>1. /\ used'[s] = used[s] /\ changed'[s] = changed[s] /\ text'[s] = text[s]
        /\ seen'[s] = seen[s] /\ srv'[s] = srv[s]
    BY <1>0, <1>2
    DEF ServerStep, CreateSet, SetAll, CreateSegment, Take, PrintHalf, Free, RemoveSet,
        RemoveSegment
  <2>2. QED
    BY <1>0, <1>1, <2>1, Elsewhere DEF clientVars
<1>3. CASE t = s
  <2> SUFFICES ASSUME Sound(s)', srv'[s] \in Live
               PROVE  /\ OneWriter(s)' /\ UsedCounts(s)'
                      /\ s \notin overtaken' => TextIsKept(s)'
    BY DEF Guarded
  <2>1. CASE CreateSet(s) \/ RemoveSet(s) \/ RemoveSegment(s)
    BY <1>0, <2>1 DEF CreateSet, RemoveSet, RemoveSegment, Live
  <2>2. CASE SetAll(s)
    <3>1. Writing(s) = {}
      BY <1>0, <2>2, NobodyEarly DEF SetAll, NoSegmentYet
    <3>2. used'[s] = 0 /\ changed'[s] = 0 /\ srv'[s] = "shmget"
      BY <1>0, <2>2 DEF SetAll
    <3>3. QED
      BY <1>1, <3>1, <3>2 DEF OneWriter, UsedCounts, TextIsKept, Printing
  <2>3. CASE CreateSegment(s) \/ Take(s) \/ PrintHalf(s) \/ Free(s)
    <3>0. OneWriter(s) /\ UsedCounts(s) /\ (s \notin overtaken => TextIsKept(s))
      BY <1>0, <2>3 DEF CreateSegment, Take, PrintHalf, Free, Live, Guarded
    <3>1. OneWriter(s)'
      BY <1>1, <3>0 DEF OneWriter
    <3>2. CASE CreateSegment(s)
      <4>1. /\ srv[s] = "shmget" /\ srv'[s] = "wait"
            /\ UNCHANGED <<used, changed, text, seen>>
        BY <1>0, <3>2 DEF CreateSegment, Live
      <4>2. QED
        BY <1>1, <3>0, <3>1, <4>1 DEF UsedCounts, TextIsKept, Whole, Printing, clientVars
    <3>3. CASE Take(s)
      <4>1. /\ srv[s] = "wait" /\ srv'[s] = "print1" /\ used'[s] = used[s] + 1
            /\ changed[s] > 0 /\ UNCHANGED <<text, seen>>
        BY <1>0, <3>3 DEF Take
      <4>2. UsedCounts(s)'
        BY <1>1, <3>0, <4>1 DEF UsedCounts, Printing
      <4>3. TextIsKept(s) => TextIsKept(s)'
        BY <1>1, <4>1 DEF TextIsKept, Whole, clientVars
      <4>4. QED
        BY <1>1, <3>0, <3>1, <4>2, <4>3
    <3>4. CASE PrintHalf(s)
      <4>1. PICK h \in Half :
              /\ \/ h = 1 /\ srv[s] = "print1" /\ srv'[s] = "print2"
                 \/ h = 2 /\ srv[s] = "print2" /\ srv'[s] = "free"
              /\ seen' = [seen EXCEPT ![s][h] = text[s][h]]
              /\ UNCHANGED <<used, changed, text>>
        BY <1>0, <3>4 DEF PrintHalf
      <4>2. seen'[s][h] = text[s][h] /\ \A g \in Half \ {h} : seen'[s][g] = seen[s][g]
        BY <1>0, <4>1
      <4>3. UsedCounts(s)'
        BY <1>1, <3>0, <4>1 DEF UsedCounts, Printing
      <4>4. TextIsKept(s) => TextIsKept(s)'
        BY <1>1, <4>1, <4>2 DEF TextIsKept, Whole, Printing, Half, clientVars
      <4>5. QED
        BY <1>1, <3>0, <3>1, <4>3, <4>4
    <3>5. CASE Free(s)
      <4>1. /\ srv[s] = "free" /\ srv'[s] = "wait" /\ used'[s] = used[s] - 1
            /\ UNCHANGED <<changed, text, seen>>
        BY <1>0, <3>5 DEF Free, Live
      <4>2. UsedCounts(s)'
        BY <1>1, <3>0, <4>1 DEF UsedCounts, Printing
      <4>3. TextIsKept(s) => TextIsKept(s)'
        BY <1>1, <4>1 DEF TextIsKept, Whole, Printing, clientVars
      <4>4. QED
        BY <1>1, <3>0, <3>1, <4>2, <4>3
    <3>6. QED
      BY <2>3, <3>2, <3>3, <3>4, <3>5
  <2>4. QED
    BY <1>3, <2>1, <2>2, <2>3 DEF ServerStep
<1>4. QED
  BY <1>2, <1>3

(* The steps of a client keep what is said of the objects of s: it enters   *)
(* when nobody is inside, writes only there, and hands over what is whole.   *)
LEMMA ClientGuard ==
  ASSUME IInv, NEW c \in Clients, FindSet(c) \/ ClientStep(c), NEW s \in Servers,
         Sound(s)' => Sound(s)
  PROVE  Guarded(s)'
<1>0. /\ used \in [Servers -> Nat] /\ changed \in [Servers -> Nat]
      /\ text \in [Servers -> [Half -> Clients \cup {None}]]
      /\ cli \in [Clients -> ClientPC] /\ RunInv /\ Guarded(s) /\ None \notin Clients
      /\ semid \in [Clients -> Servers \cup {None}]
      /\ shmid \in [Clients -> Servers \cup {None}]
  BY SysvAssumption DEF IInv, RunInv, TypeOK
<1>1. UNCHANGED serverVars /\ srv' = srv /\ seen' = seen /\ overtaken \subseteq overtaken'
  BY DEF ClientStep, FindSet, FindSegment, Attach, SetIsGone, Lock, WriteHalf, Crash, Release, Entered,
     serverVars
<1>2. \A d \in Clients \ {c} : cli'[d] = cli[d] /\ semid'[d] = semid[d] /\ shmid'[d] = shmid[d]
  BY <1>0
  DEF ClientStep, FindSet, FindSegment, Attach, SetIsGone, Lock, WriteHalf, Crash, Release, ClientGoto
<1> USE DEF ClientGoto
<1>3. ASSUME c \notin Writing(s), c \notin Writing(s)', 
             used'[s] = used[s], changed'[s] = changed[s], text'[s] = text[s]
      PROVE  Guarded(s)'
  <2>1. Writing(s)' = Writing(s) /\ \A d \in Writing(s) : cli'[d] = cli[d]
    BY <1>2, <1>3 DEF Writing
  <2>2. QED
    BY <1>0, <1>1, <1>3, <2>1, Elsewhere
<1> SUFFICES ASSUME Sound(s)', Sound(s), srv[s] \in Live
             PROVE  Guarded(s)'
  BY <1>1 DEF Guarded
<1>4. OneWriter(s) /\ UsedCounts(s) /\ (s \notin overtaken => TextIsKept(s))
  BY <1>0 DEF Guarded
<1>5. SUFFICES OneWriter(s)' /\ UsedCounts(s)' /\ (s \notin overtaken' => TextIsKept(s)')
  BY DEF Guarded
<1>6. CASE FindSet(c) \/ FindSegment(c) \/ Attach(c) \/ SetIsGone(c, "lock")
  BY <1>0, <1>3, <1>6, <1>1 DEF FindSet, FindSegment, Attach, SetIsGone, Writing, Guarded
<1>7. CASE SetIsGone(c, "release")
  <2>1. semid[c] # s
    BY <1>0, <1>7 DEF SetIsGone, RunInv, ObjectsInv, OwnsSet, Live
  <2>2. QED
    BY <1>0, <1>1, <1>3, <1>7, <2>1 DEF SetIsGone, Writing, Guarded
<1>8. CASE Lock(c)
  <2>1. CASE semid[c] # s
    <3>1. semid[c] \in Servers /\ used'[s] = used[s]
      BY <1>0, <1>8, <2>1 DEF Lock, RunInv, LookupInv
    <3>2. QED
      BY <1>0, <1>1, <1>3, <1>8, <2>1, <3>1 DEF Lock, Writing, Guarded
  <2>2. CASE semid[c] = s
    <3>1. used[s] = 0 /\ used'[s] = 1 /\ UNCHANGED <<changed, text, semid>>
      BY <1>0, <1>8, <2>2 DEF Lock
    <3>2. Writing(s) = {} /\ ~Printing(s)
      BY <1>4, <3>1 DEF UsedCounts
    <3>3. Writing(s)' = {c} /\ cli'[c] = "write1"
      BY <1>0, <1>2, <1>8, <2>2, <3>2 DEF Lock, Writing
    <3>4. OneWriter(s)' /\ UsedCounts(s)'
      BY <1>1, <3>1, <3>2, <3>3 DEF OneWriter, UsedCounts, Printing
    <3>5. s \notin overtaken' => changed[s] = 0
      BY <1>0, <1>8, <2>2 DEF Lock, Entered
    <3>6. s \notin overtaken' => TextIsKept(s)'
      BY <1>1, <3>1, <3>2, <3>3, <3>5 DEF TextIsKept, Printing
    <3>7. QED
      BY <3>4, <3>6
  <2>3. QED
    BY <2>1, <2>2
<1>9. CASE WriteHalf(c)
  <2>0. semid[c] \in Servers /\ shmid[c] \in Servers /\ cli[c] \in {"write1", "write2"}
    BY <1>9 DEF WriteHalf, RunInv, LookupInv, IInv, Inside
  <2>1. semid[c] = s <=> shmid[c] = s
    <3>1. shmid[c] = s => Running(s)
      BY <1>0, <2>0 DEF RunInv, ObjectsInv, NoSegmentYet, Live, Running, Printing
    <3>2. shmid[c] = s => semid[c] = s
      BY <1>0, <2>0, <3>1 DEF RunInv, SameRun
    <3>3. semid[c] = s => shmid[c] = s
      BY <2>0, SysvAssumption DEF Sound, Astray
    <3>4. QED
      BY <3>2, <3>3
  <2>2. CASE semid[c] # s
    BY <1>0, <1>1, <1>3, <1>9, <2>1, <2>2 DEF WriteHalf, Writing, Guarded
  <2>3. CASE semid[c] = s
    <3>1. c \in Writing(s) /\ Writing(s)' = Writing(s)
      BY <1>0, <1>2, <1>9, <2>3 DEF WriteHalf, Writing
    <3>2. OneWriter(s)' /\ UsedCounts(s)'
      BY <1>1, <1>4, <1>9, <3>1 DEF WriteHalf, OneWriter, UsedCounts, Printing
    <3>3. TextIsKept(s) => changed[s] = 0 /\ ~Printing(s)
      BY <1>0, <3>1 DEF TextIsKept
    <3>4. ASSUME TextIsKept(s) PROVE TextIsKept(s)'
      <4>1. changed'[s] = 0 /\ ~Printing(s)' /\ srv'[s] \notin {"print1", "print2", "free"}
        BY <1>1, <1>9, <3>3, <3>4 DEF WriteHalf, Printing
      <4>2. PICK h \in Half :
              /\ \/ h = 1 /\ cli[c] = "write1" /\ cli'[c] = "write2"
                 \/ h = 2 /\ cli[c] = "write2" /\ cli'[c] = "release"
              /\ text' = [text EXCEPT ![s][h] = c]
        BY <1>0, <1>9, <2>1, <2>3 DEF WriteHalf
      <4>3. text'[s][h] = c /\ \A g \in Half \ {h} : text'[s][g] = text[s][g]
        BY <1>0, <4>2
      <4>4. \A d \in Writing(s) : d = c
        BY <1>4, <3>1 DEF OneWriter
      <4>5. /\ cli'[c] \in {"write2", "release"} => text'[s][1] = c
            /\ cli'[c] = "release" => text'[s][2] = c
        BY <3>1, <3>4, <4>2, <4>3 DEF TextIsKept, Half
      <4>6. QED
        BY <3>1, <4>1, <4>4, <4>5 DEF TextIsKept
    <3>5. QED
      BY <1>1, <1>4, <3>2, <3>4
  <2>4. QED
    BY <2>2, <2>3
<1>10. CASE Release(c)
  <2>0. semid[c] \in Servers
    BY <1>10 DEF Release, RunInv, LookupInv, IInv, Inside
  <2>1. CASE semid[c] # s
    BY <1>0, <1>1, <1>3, <1>10, <2>0, <2>1 DEF Release, Writing, Guarded
  <2>2. CASE semid[c] = s
    <3>1. c \in Writing(s) /\ cli[c] = "release" /\ \A d \in Writing(s) : d = c
      BY <1>4, <1>10, <2>2 DEF Release, Writing, OneWriter
    <3>2. Writing(s)' = {}
      BY <1>0, <1>2, <1>10, <3>1 DEF Release, Writing
    <3>3. used'[s] = used[s] - 1 /\ UNCHANGED text
      BY <1>0, <1>10, <2>2 DEF Release
    <3>4. OneWriter(s)' /\ UsedCounts(s)'
      BY <1>1, <1>4, <3>1, <3>2, <3>3 DEF OneWriter, UsedCounts, Printing
    <3>5. ASSUME TextIsKept(s) PROVE TextIsKept(s)'
      <4>1. text[s][1] = c /\ text[s][2] = c
        BY <3>1, <3>5 DEF TextIsKept
      <4>2. Whole(s)'
        BY <1>0, <3>3, <4>1 DEF Whole
      <4>3. QED
        BY <1>1, <3>2, <3>3, <3>5, <4>2 DEF TextIsKept, Printing
    <3>6. QED
      BY <1>1, <1>4, <3>4, <3>5
  <2>3. QED
    BY <2>1, <2>2
<1>11. CASE Crash(c)
  <2>1. c \notin attached /\ cli[c] = "write1" /\ cli'[c] = "crashed"
        /\ UNCHANGED <<used, changed, text, semid>>
    BY <1>0, <1>11 DEF Crash
  <2>2. semid[c] # s
    <3>1. shmid[c] \in Servers /\ srv[shmid[c]] = "done"
      BY <1>0, <2>1 DEF RunInv, LookupInv, KnownInv, Inside
    <3>2. shmid[c] # s
      BY <3>1 DEF Live
    <3>3. QED
      BY <3>1, <3>2, SysvAssumption DEF Sound, Astray
  <2>3. QED
    BY <1>0, <1>1, <1>3, <2>1, <2>2 DEF Writing, Guarded
<1>12. QED
  BY <1>6, <1>7, <1>8, <1>9, <1>10, <1>11 DEF ClientStep
-----------------------------------------------------------------------------
(* What the keys lead to, who is inside and what the segment holds, as one  *)
(* invariant of the whole system.                                          *)
THEOREM SysvInvariant == Spec => []IInv
<1>1. IInv /\ [Next]_vars => IInv'
  <2> SUFFICES ASSUME IInv, [Next]_vars PROVE IInv'
    OBVIOUS
  <2>1. CASE Next
    <3>1. RunInv'
      BY <2>1, ServerRun, ClientRun, KillRun DEF Next, IInv
    <3>2. ASSUME NEW s \in Servers PROVE Guarded(s)'
      <4>1. CASE Sound(s)'
        <5>1. Sound(s) /\ ~Kill
          BY <2>1, <4>1, SoundBefore DEF IInv
        <5>2. QED
          BY <2>1, <5>1, ServerGuard, ClientGuard DEF Next
      <4>2. CASE ~Sound(s)'
        BY <4>2 DEF Guarded
      <4>3. QED
        BY <4>1, <4>2
    <3>3. QED
      BY <3>1, <3>2 DEF IInv
  <2>2. CASE UNCHANGED vars
    <3> USE DEF vars, objects, serverVars, clientVars
    <3>1. TypeOK' /\ CountInv' /\ ObjectsInv' /\ LookupInv' /\ KnownInv'
      <4>1. TypeOK'
        BY <2>2 DEF IInv, RunInv, TypeOK
      <4>2. CountInv' /\ ObjectsInv' /\ LookupInv'
        BY <2>2 DEF IInv, RunInv, CountInv, ObjectsInv, LookupInv
      <4>3. KnownInv'
        BY <2>2 DEF IInv, RunInv, KnownInv
      <4>4. QED
        BY <4>1, <4>2, <4>3
    <3>2. SameRun'
      BY <2>2 DEF IInv, RunInv, SameRun, Running, Printing
    <3>3. ASSUME NEW s \in Servers PROVE Guarded(s)'
      <4>1. Sound(s)' => Sound(s)
        BY <2>2 DEF Sound, NobodyKilled, Astray
      <4>2. Writing(s)' = Writing(s) /\ \A c \in Writing(s) : cli'[c] = cli[c]
        BY <2>2 DEF Writing
      <4>3. QED
        BY <2>2, <4>1, <4>2, Elsewhere DEF IInv
    <3>4. QED
      BY <3>1, <3>2, <3>3 DEF IInv, RunInv
  <2>3. QED
    BY <2>1, <2>2
<1>2. QED
  BY InitRun, <1>1, PTL DEF Spec

(* Whatever servers come, go and are killed: the segment of a running one   *)
(* is written only by clients that hold its own semaphores.                 *)
THEOREM SegmentOfSameRun == Spec => []SameRun
<1>1. IInv => SameRun
  BY DEF IInv, RunInv
<1>2. QED
  BY <1>1, SysvInvariant, PTL

(* Semaphore 0 says "in use", the segment is its own server's, and a        *)
(* message that is printed is whole, with the exceptions the code leaves.    *)
THEOREM SegmentIsKept == Spec => []SegmentInv
<1>1. IInv => UsedIsInside
  <2> SUFFICES ASSUME IInv, NEW s \in Servers, Sound(s), Running(s)
               PROVE  /\ used[s] = Cardinality(Writing(s)) + IF Printing(s) THEN 1 ELSE 0
                      /\ Cardinality(Writing(s)) <= 1
    BY DEF UsedIsInside
  <2>1. OneWriter(s) /\ UsedCounts(s)
    BY DEF IInv, Guarded, Running, Printing, Live
  <2>2. Cardinality(Writing(s)) = IF Writing(s) = {} THEN 0 ELSE 1
    <3>1. CASE Writing(s) = {}
      BY <3>1, FS_EmptySet
    <3>2. CASE Writing(s) # {}
      <4>1. PICK c \in Writing(s) : Writing(s) = {c}
        BY <2>1, <3>2 DEF OneWriter
      <4>2. QED
        BY <4>1, FS_Singleton
    <3>3. QED
      BY <3>1, <3>2
  <2>3. QED
    BY <2>1, <2>2 DEF UsedCounts
<1>2. IInv => ReceivedIntact
  BY DEF IInv, Guarded, Live, TextIsKept, Whole, Printing, ReceivedIntact
<1>3. IInv => SegmentInv
  BY <1>1, <1>2 DEF IInv, RunInv, SegmentInv
<1>4. QED
  BY <1>3, SysvInvariant, PTL
-----------------------------------------------------------------------------
(* Handoff: the programs that hand over a turn, a token or a shelf.          *)

(* Who has printed last; that two prints in a row are of different ones.    *)
Last1(p) == hShown # <<>> /\ hShown[Len(hShown)] = p
Alternates == \A k \in 1 .. Len(hShown) - 1 : hShown[k] # hShown[k + 1]

(* The processes of the programs that are not run stay off.                *)
OthersAreOff ==
  /\ hProgram \notin {"alternate", "semop", "sync", "critical"} => \A p \in H!Pair : hAt[p] = "off"
  /\ hProgram = "critical" => hAt["child"] = "off"
  /\ hProgram # "sync" => \A p \in H!Pair : hAt[p] # "kill"
  /\ hProgram # "shelf" => hAt["consumer"] = "off" /\ \A p \in H!Producers : hAt[p] = "off"
  /\ hProgram # "oneshot" => hAt["server"] = "off" /\ \A c \in H!ShmClients : hAt[c] = "off"

(* alternate: a token is in one of the semaphores or held by who printed    *)
(* last, or was lost with a run that was killed.                           *)
HeldBy(p) == IF hAt[p] = "hold" THEN 1 ELSE 0
FirstIsParent == hShown # <<>> /\ kills = 0 => hShown[1] = "parent"
AltStarting ==
  /\ hAt["child"] = "off" /\ ("sem" \in there => sem[1] + sem[2] <= 1)
  /\ kills = 0 => there = {} /\ hShown = <<>>
AltRunning ==
  /\ hAt["child"] \in {"wait", "hold", "leave", "ended"}
  /\ sem[1] + sem[2] + HeldBy("parent") + HeldBy("child") <= 1
  /\ \A p \in H!Pair : hAt[p] \in {"wait", "hold"} => n[p] < Rounds
  /\ \A p \in H!Pair : hAt[p] = "hold" => Last1(p)
  /\ \A p \in H!Pair : Last1(p) => sem[H!Mine(p)] = 0 /\ hAt[H!Other[p]] # "hold"
  /\ hShown = <<>> /\ kills = 0 => sem[2] = 0
AltInv ==
  /\ hAt["parent"] \in {"start", "wait", "hold", "leave", "ended"}
  /\ Alternates /\ FirstIsParent
  /\ hAt["parent"] = "start" => AltStarting
  /\ hAt["parent"] # "start" => AltRunning

(* semop: a process in its loop has turns to go.                           *)
SemopInv ==
  /\ hAt["parent"] = "start" => hAt["child"] = "off" /\ \A p \in H!Pair : n[p] = 0
  /\ \A p \in H!Pair : hAt[p] = "turn" => n[p] < Rounds

(* oneshot: while the server waits and reads, semaphore 0 counts it and the *)
(* clients that are inside and have got hold of both.                       *)
InShm(c) == IF hAt[c] \in {"write", "leave"} /\ sees[c] = H!Things THEN 1 ELSE 0
OneshotInv ==
  /\ hAt["server"] \in {"setall", "shmget", "wait", "read"} => "sem" \in there
  /\ hAt["server"] \in {"start", "setall", "shmget"} =>
       "shm" \notin there /\ \A c \in H!ShmClients : "shm" \notin sees[c]
  /\ \A c \in H!ShmClients : hAt[c] = "leave" => "shm" \in sees[c]
  /\ hAt["server"] = "wait" => sem[1] >= InShm("client1") + InShm("client2")
  /\ hAt["server"] = "read" => sem[1] >= 1 + InShm("client1") + InShm("client2")

(* sync: as long as no signal was missed, one of the two has its turn, or   *)
(* has killed the other, who waits; or the child has ended, and the parent  *)
(* has no turn to go.                                                      *)
Waits(p) == hAt[p] \in {"pause", "sleep"}
Counts(p) == n["child"] = n["parent"] + (IF p = "child" THEN 1 ELSE 0)
HasTurn(p, q) ==
  /\ hAt[p] = "turn" /\ signalled = {} /\ Counts(q)
  /\ Last1(q) \/ (p = "child" /\ hShown = <<>>)
Kills(p) == hAt[p] = "kill" /\ signalled = {} /\ Last1(p) /\ Counts(p)
HasKilled(p, q) == hAt[p] = "pause" /\ signalled = {q} /\ Last1(p) /\ Counts(p)
InTheirTurns(p, q) == Waits(q) /\ (HasTurn(p, q) \/ Kills(p) \/ HasKilled(p, q))
ChildHasEnded ==
  /\ hAt["child"] = "ended" /\ n["parent"] = Rounds
  /\ (Waits("parent") /\ signalled = {"parent"}) \/ (hAt["parent"] \in {"turn", "ended"} /\ signalled = {})
SyncStarting ==
  /\ hAt["child"] = "off" /\ hShown = <<>> /\ n["parent"] = 0 /\ n["child"] = 0 /\ signalled = {}
SyncInv ==
  /\ hAt["parent"] = "start" => SyncStarting
  /\ ~missed /\ hAt["parent"] # "start" =>
       /\ Alternates
       /\ InTheirTurns("parent", "child") \/ InTheirTurns("child", "parent") \/ ChildHasEnded

(* critical: what the handler has counted and what is pending.              *)
CritInv ==
  /\ hAt["parent"] \in {"start", "turn", "hold", "sleep", "ended", "crashed"}
  /\ hAt["parent"] # "crashed" => ~missed /\ n["parent"] \in {0, 1}
  /\ hAt["parent"] # "hold" => signalled = {}
  /\ hAt["parent"] = "start" => kills = 0 /\ n["parent"] = 0
  /\ hAt["parent"] \in {"turn", "sleep", "ended"} => (n["parent"] = 0 <=> kills = 0)
  /\ hAt["parent"] = "hold" =>
       /\ signalled \in {{}, {"parent"}}
       /\ kills >= n["parent"] + (IF signalled = {} THEN 0 ELSE 1)
       /\ n["parent"] = 0 /\ signalled = {} => kills = 0
  /\ hAt["parent"] = "crashed" => missed \/ (n["parent"] = 1 /\ kills = 2)

HandoffIInv ==
  /\ H!TypeOK /\ OthersAreOff /\ H!OneBatch
  /\ hProgram = "alternate" => AltInv
  /\ hProgram = "semop" => SemopInv
  /\ hProgram = "oneshot" => OneshotInv
  /\ hProgram = "sync" => SyncInv
  /\ hProgram = "critical" => CritInv
-----------------------------------------------------------------------------
(* What is proved of the steps of one program carries over to them all.     *)
LEMMA OneProgram ==
  ASSUME H!TypeOK, UNCHANGED hProgram,
         H!TypeOK', OthersAreOff', H!OneBatch',
         hProgram = "alternate" => AltInv',
         hProgram = "semop" => SemopInv',
         hProgram = "oneshot" => OneshotInv',
         hProgram = "sync" => SyncInv',
         hProgram = "critical" => CritInv'
  PROVE  HandoffIInv'
BY DEF HandoffIInv

(* A print of the one who did not print last.                              *)
LEMMA Prints ==
  ASSUME NEW p \in H!Pair, hShown \in Seq(H!Pair), hShown' = Append(hShown, p), Alternates,
         ~Last1(p)
  PROVE  /\ Alternates' /\ hShown' \in Seq(H!Pair) /\ hShown' # <<>> /\ hShown'[Len(hShown')] = p
         /\ \A q : Last1(q)' <=> q = p
         /\ hShown # <<>> => hShown'[1] = hShown[1]
         /\ hShown = <<>> => hShown'[1] = p
<1>1. /\ Len(hShown) \in Nat /\ Len(hShown') = Len(hShown) + 1 /\ hShown'[Len(hShown) + 1] = p
      /\ \A k \in 1 .. Len(hShown) : hShown'[k] = hShown[k]
      /\ hShown' \in Seq(H!Pair) /\ hShown' # <<>>
      /\ hShown = <<>> <=> Len(hShown) = 0
  OBVIOUS
<1>2. ASSUME NEW k \in 1 .. Len(hShown') - 1 PROVE hShown'[k] # hShown'[k + 1]
  <2>1. CASE k < Len(hShown)
    <3>1. k \in 1 .. Len(hShown) - 1 /\ k + 1 \in 1 .. Len(hShown) /\ k \in 1 .. Len(hShown)
      BY <1>1, <2>1
    <3>2. QED
      BY <1>1, <3>1 DEF Alternates
  <2>2. CASE k = Len(hShown)
    BY <1>1, <2>2 DEF Last1
  <2>3. QED
    BY <1>1, <1>2, <2>1, <2>2
<1>3. QED
  BY <1>1, <1>2 DEF Alternates, Last1

(* A step of one process, which is not off, changes no other's place.       *)
HPlace == {"off", "start", "turn", "wait", "hold", "setall", "shmget", "enter", "write",
           "leave", "read", "free", "remove", "sleep", "kill", "pause", "ended", "crashed"}

(* A step of one process, which is not off, changes no other place.         *)
LEMMA OneMoves ==
  ASSUME HandoffIInv, UNCHANGED hProgram, NEW p \in H!Procs, hAt[p] # "off",
         NEW to \in HPlace, to # "kill" \/ hProgram = "sync", hAt' = [hAt EXCEPT ![p] = to]
  PROVE  /\ hAt' \in [H!Procs -> HPlace] /\ OthersAreOff'
         /\ hAt'[p] = to /\ \A q \in H!Procs \ {p} : hAt'[q] = hAt[q]
<1>1. /\ hAt' \in [H!Procs -> HPlace]
      /\ hAt'[p] = to /\ \A q \in H!Procs \ {p} : hAt'[q] = hAt[q]
  BY DEF HandoffIInv, H!TypeOK, HPlace
<1>2. OthersAreOff'
  BY <1>1 DEF HandoffIInv, OthersAreOff, H!Procs, H!Pair, H!Producers, H!ShmClients
<1>3. QED
  BY <1>1, <1>2

(* How many turns each has had stays a number.                              *)
LEMMA Turning ==
  ASSUME H!TypeOK, NEW p \in H!Procs, n[p] < Rounds, n' = [n EXCEPT ![p] = @ + 1]
  PROVE  /\ n' \in [H!Procs -> 0 .. Rounds] /\ n'[p] = n[p] + 1
         /\ \A q \in H!Procs \ {p} : n'[q] = n[q]
BY LabsAssumption DEF H!TypeOK
-----------------------------------------------------------------------------
(* sem_wait_post.c                                                         *)
LEMMA AltNext ==
  ASSUME HandoffIInv, hProgram = "alternate", H!Next
  PROVE  H!AltStart \/ H!Interrupted \/ \E p \in H!Pair : H!SemWait(p) \/ H!SemPost(p) \/ H!AltLeave(p)
<1>1. /\ hAt["consumer"] = "off" /\ hAt["server"] = "off"
      /\ \A p \in H!Producers \cup H!ShmClients : hAt[p] = "off"
      /\ \A p \in H!Pair : hAt[p] # "kill"
  BY DEF HandoffIInv, OthersAreOff
<1>2. ~H!SigQuit /\ ~H!Seminit /\ ~H!TimeIsUp
  <2>1. ~H!Seminit
    BY DEF H!Seminit
  <2>2. QED
    BY <2>1 DEF H!SigQuit, H!TimeIsUp
<1>3. ASSUME NEW p \in H!Procs, H!Step(p)
      PROVE  H!AltStart \/ \E q \in H!Pair : H!SemWait(q) \/ H!SemPost(q) \/ H!AltLeave(q)
  BY <1>1, <1>3 DEF H!Step, H!SetVal, H!Release, H!SyncFork, H!CritSignal, H!CritBlock, H!CritUnblock,
    H!CritEnd, H!SyncTurn, H!SyncKill, H!Deliver, H!SyncEnd, H!Acquire, H!Produce, H!Consume,
    H!ServerCreates, H!ServerWaits, H!ServerFinishes, H!ClientGets, H!ClientEnters, H!ClientWrites, H!ClientLeaves
<1>4. QED
  BY <1>2, <1>3 DEF H!Next

(* alternate: the parent creates the semaphores, and forks.                 *)
LEMMA AltStartStep ==
  ASSUME HandoffIInv, hProgram = "alternate", H!AltStart
  PROVE  H!TypeOK' /\ OthersAreOff' /\ AltInv'
<1>1. H!TypeOK /\ OthersAreOff /\ AltStarting /\ hAt["parent"] = "start" /\ Rounds \in Nat \ {0}
  BY LabsAssumption DEF HandoffIInv, AltInv, H!AltStart
<1>2. /\ hAt' = [hAt EXCEPT !["parent"] = "wait", !["child"] = "wait"]
      /\ sem' = IF "sem" \in there THEN sem ELSE <<1, 0>>
      /\ there' = {"sem"} /\ n' = [p \in H!Procs |-> 0] /\ hShown' = <<>>
      /\ UNCHANGED <<hProgram, sees, signalled, missed, kills>>
  BY DEF H!AltStart, H!noSignals
<1>3. /\ hAt'["parent"] = "wait" /\ hAt'["child"] = "wait"
      /\ \A p \in H!Procs \ H!Pair : hAt'[p] = hAt[p]
      /\ \A p \in H!Pair : n'[p] = 0
  BY <1>1, <1>2 DEF H!TypeOK, H!Procs, H!Pair, H!Producers, H!ShmClients
<1>4. sem' \in [1 .. 2 -> Nat] /\ sem'[1] + sem'[2] <= 1 /\ (kills = 0 => sem'[2] = 0)
  <2>1. CASE "sem" \in there
    BY <1>1, <1>2, <2>1 DEF H!TypeOK, AltStarting
  <2>2. CASE "sem" \notin there
    <3>1. sem' = <<1, 0>>
      BY <1>2, <2>2
    <3>2. QED
      BY <3>1
  <2>3. QED
    BY <2>1, <2>2
<1>5. H!TypeOK'
  <2>1. hAt' \in [H!Procs -> {"off", "start", "turn", "wait", "hold", "setall", "shmget", "enter", "write",
                       "leave", "read", "free", "remove", "sleep", "kill", "pause", "ended", "crashed"}]
    BY <1>1, <1>2 DEF H!TypeOK
  <2>2. n' \in [H!Procs -> 0 .. Rounds] /\ hShown' \in Seq(H!Pair) /\ there' \subseteq H!Things
    BY <1>1, <1>2 DEF H!Things
  <2>3. QED
    BY <1>1, <1>2, <1>4, <2>1, <2>2 DEF H!TypeOK
<1>6. OthersAreOff'
  BY <1>1, <1>2, <1>3, ZenonT(40) DEF OthersAreOff, H!Procs, H!Pair, H!Producers, H!ShmClients
<1>7. AltRunning'
  BY <1>1, <1>2, <1>3, <1>4 DEF AltRunning, HeldBy, Last1, H!Pair
<1>8. AltInv'
  BY <1>2, <1>3, <1>7 DEF AltInv, Alternates, FirstIsParent
<1>9. QED
  BY <1>5, <1>6, <1>8

(* A process takes the token of its semaphore, and prints.                  *)
LEMMA SemWaitStep ==
  ASSUME HandoffIInv, hProgram = "alternate", NEW p \in H!Pair, H!SemWait(p)
  PROVE  H!TypeOK' /\ OthersAreOff' /\ AltInv'
<1>1. /\ hAt[p] = "wait" /\ sem[H!Mine(p)] > 0 /\ hShown' = Append(hShown, p)
      /\ sem' = [sem EXCEPT ![H!Mine(p)] = @ - 1] /\ hAt' = [hAt EXCEPT ![p] = "hold"]
      /\ UNCHANGED <<hProgram, n, there, sees, signalled, missed, kills>>
  BY DEF H!SemWait, H!Goes, H!noSignals
<1>2. H!TypeOK /\ AltInv /\ p \in H!Procs
  BY DEF HandoffIInv, H!Procs
<1>3. AltRunning /\ hAt["parent"] # "start"
  BY <1>1, <1>2 DEF AltInv, AltStarting, H!Pair
<1>4. /\ hAt' \in [H!Procs -> HPlace] /\ OthersAreOff'
      /\ hAt'[p] = "hold" /\ \A q \in H!Procs \ {p} : hAt'[q] = hAt[q]
  BY <1>1, <1>2, OneMoves DEF HPlace
<1>5. ~Last1(p) /\ hShown \in Seq(H!Pair) /\ Alternates
  BY <1>1, <1>2, <1>3 DEF AltRunning, H!TypeOK, AltInv
<1>6. /\ Alternates' /\ hShown' \in Seq(H!Pair) /\ hShown' # <<>>
      /\ \A q : Last1(q)' <=> q = p
      /\ hShown # <<>> => hShown'[1] = hShown[1]
      /\ hShown = <<>> => hShown'[1] = p
  BY <1>1, <1>5, Prints
<1>7. H!Mine(p) \in {1, 2} /\ sem' \in [1 .. 2 -> Nat] /\ sem'[H!Mine(p)] = sem[H!Mine(p)] - 1
      /\ \A k \in {1, 2} \ {H!Mine(p)} : sem'[k] = sem[k]
  BY <1>1, <1>2 DEF H!TypeOK, H!Mine
<1>8. H!TypeOK'
  BY <1>1, <1>2, <1>4, <1>6, <1>7 DEF H!TypeOK, HPlace
<1>9. AltRunning'
  <2>1. \A q \in H!Pair : hAt'[q] \in {"wait", "hold"} => n'[q] < Rounds
    BY <1>1, <1>3, <1>4 DEF AltRunning, H!Pair, H!Procs
  <2>2. sem[1] + sem[2] = 1 /\ hAt["parent"] # "hold" /\ hAt["child"] # "hold"
    BY <1>1, <1>2, <1>3, <1>7 DEF AltRunning, HeldBy, H!TypeOK, H!Mine
  <2>3. sem'[1] = 0 /\ sem'[2] = 0
    BY <1>1, <1>2, <1>7, <2>2 DEF H!TypeOK, H!Mine
  <2>4. hAt'[H!Other[p]] # "hold" /\ HeldBy("parent")' + HeldBy("child")' = 1
    BY <1>4, <2>2 DEF HeldBy, H!Other, H!Pair, H!Procs
  <2>5. hAt'["child"] \in {"wait", "hold", "leave", "ended"}
    BY <1>3, <1>4 DEF AltRunning, H!Procs, H!Pair
  <2>6. \A q \in H!Pair : hAt'[q] = "hold" => q = p
    BY <1>4, <2>2 DEF H!Pair, H!Procs
  <2>7. \A q \in H!Pair : H!Mine(q) \in {1, 2}
    BY DEF H!Mine
  <2>8. \A q \in H!Pair : Last1(q)' => sem'[H!Mine(q)] = 0 /\ hAt'[H!Other[q]] # "hold"
    BY <1>6, <2>3, <2>4, <2>7
  <2>9. HeldBy("parent")' \in Nat /\ HeldBy("child")' \in Nat
    BY DEF HeldBy
  <2>10. sem'[1] + sem'[2] + HeldBy("parent")' + HeldBy("child")' <= 1
    BY <2>3, <2>4, <2>9
  <2>11. QED
    BY <1>6, <2>1, <2>5, <2>6, <2>8, <2>10 DEF AltRunning, Last1, H!Mine
<1>10. FirstIsParent'
  <2>1. hShown = <<>> /\ kills = 0 => p = "parent"
    BY <1>1, <1>3 DEF AltRunning, H!Mine, H!Pair
  <2>2. QED
    BY <1>1, <1>2, <1>6, <2>1 DEF FirstIsParent, AltInv
<1>11. QED
  BY <1>2, <1>3, <1>4, <1>6, <1>8, <1>9, <1>10 DEF AltInv, H!Procs, H!Pair

(* It posts the semaphore of the other.                                     *)
LEMMA SemPostStep ==
  ASSUME HandoffIInv, hProgram = "alternate", NEW p \in H!Pair, H!SemPost(p)
  PROVE  H!TypeOK' /\ OthersAreOff' /\ AltInv'
<1>1. PICK to \in {"wait", "leave"} :
      /\ to = "wait" => n[p] + 1 < Rounds
      /\ hAt[p] = "hold" /\ hAt' = [hAt EXCEPT ![p] = to]
      /\ sem' = [sem EXCEPT ![H!Mine(H!Other[p])] = @ + 1] /\ n' = [n EXCEPT ![p] = @ + 1]
      /\ UNCHANGED <<hProgram, there, sees, hShown, signalled, missed, kills>>
  BY DEF H!SemPost, H!Goes, H!noSignals, H!Turns
<1>2. H!TypeOK /\ AltInv /\ p \in H!Procs
  BY DEF HandoffIInv, H!Procs
<1>3. AltRunning /\ hAt["parent"] # "start"
  BY <1>1, <1>2 DEF AltInv, AltStarting, H!Pair
<1>4. /\ hAt' \in [H!Procs -> HPlace] /\ OthersAreOff'
      /\ hAt'[p] = to /\ \A q \in H!Procs \ {p} : hAt'[q] = hAt[q]
  BY <1>1, <1>2, OneMoves DEF HPlace
<1>5. /\ n' \in [H!Procs -> 0 .. Rounds] /\ n'[p] = n[p] + 1
      /\ \A q \in H!Procs \ {p} : n'[q] = n[q]
  BY <1>1, <1>2, <1>3, Turning DEF AltRunning
<1>6. PICK k \in {1, 2} : k = H!Mine(H!Other[p])
  BY DEF H!Mine
<1>7. sem' \in [1 .. 2 -> Nat] /\ sem'[k] = sem[k] + 1 /\ \A j \in {1, 2} \ {k} : sem'[j] = sem[j]
  BY <1>1, <1>2, <1>6 DEF H!TypeOK
<1>8. H!TypeOK'
  BY <1>1, <1>2, <1>4, <1>5, <1>7 DEF H!TypeOK, HPlace
<1>9. AltRunning'
  <2>1. sem[1] = 0 /\ sem[2] = 0 /\ Last1(p) /\ hAt[H!Other[p]] # "hold"
    BY <1>1, <1>2, <1>3 DEF AltRunning, HeldBy, H!TypeOK, H!Pair
  <2>2. H!Other[p] \in H!Pair \ {p} /\ H!Pair = {p, H!Other[p]} /\ H!Pair \subseteq H!Procs
    BY DEF H!Other, H!Pair, H!Procs
  <2>3. \A q \in H!Pair : hAt'[q] # "hold"
    BY <1>4, <2>1, <2>2
  <2>4. HeldBy("parent")' = 0 /\ HeldBy("child")' = 0
    BY <2>3 DEF HeldBy, H!Pair
  <2>5. sem'[1] + sem'[2] = 1
    BY <1>7, <2>1
  <2>6. \A q \in H!Pair : hAt'[q] \in {"wait", "hold"} => n'[q] < Rounds
    BY <1>1, <1>2, <1>3, <1>4, <1>5, <2>2, LabsAssumption DEF AltRunning, H!TypeOK
  <2>7. \A q \in H!Pair : Last1(q) => q = p
    BY <2>1 DEF Last1
  <2>8. sem'[H!Mine(p)] = 0 /\ H!Mine(p) \in {1, 2}
    BY <1>6, <1>7, <2>1 DEF H!Mine, H!Other, H!Pair
  <2>9. hShown' = hShown /\ hShown # <<>> /\ \A q : Last1(q)' <=> Last1(q)
    BY <1>1, <2>1 DEF Last1
  <2>10. hAt'["child"] \in {"wait", "hold", "leave", "ended"}
    BY <1>1, <1>3, <1>4 DEF AltRunning, H!Procs, H!Pair
  <2>11. \A q \in H!Pair : Last1(q)' => sem'[H!Mine(q)] = 0 /\ hAt'[H!Other[q]] # "hold"
    BY <2>2, <2>3, <2>7, <2>8, <2>9
  <2>12. QED
    BY <2>3, <2>4, <2>5, <2>6, <2>9, <2>10, <2>11 DEF AltRunning, H!Mine
<1>10. QED
  BY <1>1, <1>2, <1>3, <1>4, <1>8, <1>9 DEF AltInv, H!Procs, H!Pair, Alternates, FirstIsParent

(* alternate: a process has had its turns, and ends.                        *)
LEMMA AltLeaveStep ==
  ASSUME HandoffIInv, hProgram = "alternate", NEW p \in H!Pair, H!AltLeave(p)
  PROVE  H!TypeOK' /\ OthersAreOff' /\ AltInv'
<1>1. /\ hAt[p] = "leave" /\ hAt' = [hAt EXCEPT ![p] = "ended"] /\ there' = {}
      /\ UNCHANGED <<hProgram, n, sem, sees, hShown, signalled, missed, kills>>
  BY DEF H!AltLeave, H!Goes, H!noSignals
<1>2. H!TypeOK /\ AltInv /\ p \in H!Procs
  BY DEF HandoffIInv, H!Procs
<1>3. AltRunning /\ hAt["parent"] # "start"
  BY <1>1, <1>2 DEF AltInv, AltStarting, H!Pair
<1>4. /\ hAt' \in [H!Procs -> HPlace] /\ OthersAreOff'
      /\ hAt'[p] = "ended" /\ \A q \in H!Procs \ {p} : hAt'[q] = hAt[q]
  BY <1>1, <1>2, OneMoves DEF HPlace
<1>5. H!TypeOK'
  BY <1>1, <1>2, <1>4 DEF H!TypeOK, HPlace
<1>6. \A q \in H!Pair : q \in H!Procs /\ H!Other[q] \in H!Procs
  BY DEF H!Pair, H!Procs, H!Other
<1>7. \A q \in H!Procs : hAt'[q] \in {"wait", "hold"} <=> hAt[q] \in {"wait", "hold"} /\ hAt'[q] = hAt[q]
  BY <1>1, <1>4
<1>8. HeldBy("parent")' = HeldBy("parent") /\ HeldBy("child")' = HeldBy("child")
  BY <1>1, <1>4 DEF HeldBy, H!Procs, H!Pair
<1>9. AltRunning'
  BY <1>1, <1>3, <1>4, <1>6, <1>7, <1>8 DEF AltRunning, Last1, H!Mine, H!Pair
<1>10. QED
  BY <1>1, <1>2, <1>3, <1>4, <1>5, <1>9 DEF AltInv, H!Procs, H!Pair, Alternates, FirstIsParent

(* The run is killed and another started; the semaphores stay with what is  *)
(* in them.                                                                 *)
LEMMA InterruptedStep ==
  ASSUME HandoffIInv, hProgram = "alternate", H!Interrupted
  PROVE  H!TypeOK' /\ OthersAreOff' /\ AltInv'
<1>1. /\ kills = 0 /\ kills' = 1 /\ (\E p \in H!Pair : hAt[p] \in {"wait", "hold", "leave"})
      /\ hAt' = [p \in H!Procs |-> IF p = "parent" THEN "start" ELSE "off"]
      /\ UNCHANGED <<hProgram, n, sem, there, sees, hShown, signalled, missed>>
  BY DEF H!Interrupted, H!Starts, H!noSignals
<1>2. H!TypeOK /\ AltInv
  BY DEF HandoffIInv
<1>3. AltRunning
  BY <1>1, <1>2 DEF AltInv, AltStarting, H!Pair
<1>4. H!TypeOK'
  <2>1. hAt' \in [H!Procs -> HPlace]
    BY <1>1 DEF HPlace
  <2>2. QED
    BY <1>1, <1>2, <2>1 DEF H!TypeOK, HPlace
<1>5. OthersAreOff'
  BY <1>1 DEF OthersAreOff, H!Procs, H!Pair, H!Producers, H!ShmClients
<1>6. sem[1] + sem[2] <= 1
  BY <1>2, <1>3 DEF AltRunning, HeldBy, H!TypeOK
<1>7. AltStarting' /\ hAt'["parent"] = "start"
  BY <1>1, <1>6 DEF AltStarting, H!Procs, H!Pair
<1>8. QED
  BY <1>1, <1>2, <1>4, <1>5, <1>7 DEF AltInv, Alternates, FirstIsParent

(* Every step of alternate keeps its invariant.                             *)
LEMMA AltStep ==
  ASSUME HandoffIInv, hProgram = "alternate", H!Next
  PROVE  HandoffIInv'
<1>1. H!TypeOK' /\ OthersAreOff' /\ AltInv'
  BY AltNext, AltStartStep, SemWaitStep, SemPostStep, AltLeaveStep, InterruptedStep
<1>2. hProgram' = hProgram
  BY AltNext DEF H!AltStart, H!Interrupted, H!SemWait, H!SemPost, H!AltLeave
<1>3. QED
  BY <1>1, <1>2 DEF HandoffIInv, H!OneBatch
-----------------------------------------------------------------------------
(* semopPC.c with seminit.c                                                *)
LEMMA SemopNext ==
  ASSUME HandoffIInv, hProgram = "semop", H!Next
  PROVE  H!SetVal \/ H!Acquire \/ H!Release \/ H!Seminit
<1>1. /\ hAt["consumer"] = "off" /\ hAt["server"] = "off"
      /\ \A p \in H!Producers \cup H!ShmClients : hAt[p] = "off"
      /\ \A p \in H!Pair : hAt[p] # "kill"
  BY DEF HandoffIInv, OthersAreOff
<1>2. ~H!SigQuit /\ ~H!Interrupted /\ ~H!TimeIsUp
  BY DEF H!SigQuit, H!Interrupted, H!TimeIsUp
<1>3. ASSUME NEW p \in H!Procs, H!Step(p)
      PROVE  H!SetVal \/ H!Acquire \/ H!Release
  BY <1>1, <1>3 DEF H!Step, H!AltStart, H!SyncFork, H!CritSignal, H!CritBlock, H!CritUnblock, H!SemWait, H!SemPost,
    H!AltLeave, H!CritEnd, H!SyncTurn, H!SyncKill, H!Deliver, H!SyncEnd, H!Produce, H!Consume,
    H!ServerCreates, H!ServerWaits, H!ServerFinishes, H!ClientGets, H!ClientEnters, H!ClientWrites, H!ClientLeaves
<1>4. QED
  BY <1>2, <1>3 DEF H!Next

(* Every step of semop keeps its invariant.                                 *)
LEMMA SemopStep ==
  ASSUME HandoffIInv, hProgram = "semop", H!Next
  PROVE  HandoffIInv'
<1>1. H!TypeOK /\ OthersAreOff /\ SemopInv
  BY DEF HandoffIInv
<1>2. Rounds \in Nat \ {0} /\ Tokens \in Nat /\ Preset \in Nat
  BY LabsAssumption
<1>3. "parent" \in H!Procs /\ "child" \in H!Procs
  BY DEF H!Procs, H!Pair
<1>4. H!SetVal => H!TypeOK' /\ OthersAreOff' /\ SemopInv' /\ hProgram' = hProgram
  <2>1. SUFFICES ASSUME H!SetVal PROVE H!TypeOK' /\ OthersAreOff' /\ SemopInv' /\ hProgram' = hProgram
    OBVIOUS
  <2>2. /\ hAt["parent"] = "start" /\ hAt' = [hAt EXCEPT !["parent"] = "turn", !["child"] = "turn"]
        /\ sem' = [sem EXCEPT ![1] = Tokens]
        /\ UNCHANGED <<hProgram, n, there, sees, hShown, signalled, missed, kills>>
    BY <2>1 DEF H!SetVal, H!noSignals
  <2>3. hAt' \in [H!Procs -> HPlace] /\ sem' \in [1 .. 2 -> Nat]
    BY <1>1, <1>2, <2>2 DEF H!TypeOK, HPlace
  <2>4. /\ hAt'["parent"] = "turn" /\ hAt'["child"] = "turn"
        /\ \A p \in H!Procs \ H!Pair : hAt'[p] = hAt[p]
    BY <1>1, <2>2 DEF H!TypeOK, H!Procs, H!Pair, H!Producers, H!ShmClients
  <2>5. OthersAreOff'
    BY <1>1, <2>2, <2>4, ZenonT(40) DEF OthersAreOff, H!Procs, H!Pair, H!Producers, H!ShmClients
  <2>6. SemopInv'
    BY <1>1, <1>2, <2>2, <2>4 DEF SemopInv
  <2>7. QED
    BY <1>1, <2>2, <2>3, <2>5, <2>6 DEF H!TypeOK, HPlace
<1>5. ASSUME NEW p \in {"parent", "child"}, NEW x \in {1, -1}, x = -1 => sem[1] > 0,
             sem' = [sem EXCEPT ![1] = @ + x], n' = [n EXCEPT ![p] = @ + 1], hAt[p] = "turn",
             hAt' = [hAt EXCEPT ![p] = IF n[p] + 1 < Rounds THEN "turn" ELSE "ended"],
             UNCHANGED <<hProgram, there, sees, hShown, signalled, missed, kills>>
      PROVE  H!TypeOK' /\ OthersAreOff' /\ SemopInv'
  <2>1. p \in H!Pair /\ p \in H!Procs /\ n[p] < Rounds /\ n[p] \in Nat
    BY <1>1, <1>3, <1>5 DEF H!Pair, SemopInv, H!TypeOK
  <2>2. PICK to \in {"turn", "ended"} :
          hAt' = [hAt EXCEPT ![p] = to] /\ (to = "turn" => n[p] + 1 < Rounds)
    BY <1>5
  <2>3. /\ hAt' \in [H!Procs -> HPlace] /\ OthersAreOff'
        /\ hAt'[p] = to /\ \A q \in H!Procs \ {p} : hAt'[q] = hAt[q]
    BY <1>5, <2>1, <2>2, OneMoves DEF HPlace
  <2>4. /\ n' \in [H!Procs -> 0 .. Rounds] /\ n'[p] = n[p] + 1
        /\ \A q \in H!Procs \ {p} : n'[q] = n[q]
    BY <1>1, <1>5, <2>1, Turning
  <2>5. sem' \in [1 .. 2 -> Nat]
    BY <1>1, <1>5 DEF H!TypeOK
  <2>6. hAt["parent"] # "start" /\ hAt'["parent"] # "start"
    BY <1>1, <1>3, <1>5, <2>3 DEF SemopInv
  <2>7. \A q \in H!Pair : hAt'[q] = "turn" => n'[q] < Rounds
    BY <1>1, <1>3, <2>1, <2>2, <2>3, <2>4 DEF SemopInv, H!Pair
  <2>8. QED
    BY <1>1, <1>5, <2>3, <2>4, <2>5, <2>6, <2>7 DEF H!TypeOK, HPlace, SemopInv
<1>6. H!Acquire => H!TypeOK' /\ OthersAreOff' /\ SemopInv' /\ hProgram' = hProgram
  <2>1. ASSUME H!Acquire
        PROVE  /\ sem[1] > 0 /\ sem' = [sem EXCEPT ![1] = @ + (-1)] /\ n' = [n EXCEPT !["child"] = @ + 1]
               /\ hAt["child"] = "turn"
               /\ hAt' = [hAt EXCEPT !["child"] = IF n["child"] + 1 < Rounds THEN "turn" ELSE "ended"]
               /\ UNCHANGED <<hProgram, there, sees, hShown, signalled, missed, kills>>
    BY <1>1, <2>1 DEF H!Acquire, H!Turns, H!Goes, H!noSignals, H!TypeOK
  <2>2. QED
    BY <1>5, <2>1
<1>7. H!Release => H!TypeOK' /\ OthersAreOff' /\ SemopInv' /\ hProgram' = hProgram
  <2>1. ASSUME H!Release
        PROVE  /\ sem' = [sem EXCEPT ![1] = @ + 1] /\ n' = [n EXCEPT !["parent"] = @ + 1]
               /\ hAt["parent"] = "turn"
               /\ hAt' = [hAt EXCEPT !["parent"] = IF n["parent"] + 1 < Rounds THEN "turn" ELSE "ended"]
               /\ UNCHANGED <<hProgram, there, sees, hShown, signalled, missed, kills>>
    BY <2>1 DEF H!Release, H!Turns, H!Goes, H!noSignals
  <2>2. QED
    BY <1>5, <2>1
<1>8. H!Seminit => H!TypeOK' /\ OthersAreOff' /\ SemopInv' /\ hProgram' = hProgram
  BY <1>1, <1>2 DEF H!Seminit, H!noSignals, H!TypeOK, OthersAreOff, SemopInv
<1>9. QED
  BY <1>4, <1>6, <1>7, <1>8, SemopNext DEF HandoffIInv, H!OneBatch
-----------------------------------------------------------------------------
(* producer.c and consumer.c                                               *)
LEMMA ShelfStep ==
  ASSUME HandoffIInv, hProgram = "shelf", H!Next
  PROVE  HandoffIInv'
<1>1. /\ hAt["server"] = "off"
      /\ \A p \in H!ShmClients : hAt[p] = "off"
      /\ \A p \in H!Pair : hAt[p] = "off"
  BY DEF HandoffIInv, OthersAreOff
<1>2. ~H!SigQuit /\ ~H!Interrupted /\ ~H!TimeIsUp /\ ~H!Seminit
  BY DEF H!SigQuit, H!Interrupted, H!TimeIsUp, H!Seminit
<1>3. ASSUME NEW p \in H!Procs, H!Step(p)
      PROVE  H!Consume \/ \E q \in H!Producers : H!Produce(q)
  BY <1>1, <1>3 DEF H!Step, H!AltStart, H!SyncFork, H!CritSignal, H!CritBlock, H!CritUnblock, H!SemWait, H!SemPost,
    H!SetVal, H!Release, H!Acquire, H!Produce,
    H!AltLeave, H!CritEnd, H!SyncTurn, H!SyncKill, H!Deliver, H!SyncEnd,
    H!ServerCreates, H!ServerWaits, H!ServerFinishes, H!ClientGets, H!ClientEnters, H!ClientWrites, H!ClientLeaves
<1>4. H!TypeOK /\ OthersAreOff /\ sem[1] <= Tokens /\ Tokens \in Nat
  BY LabsAssumption DEF HandoffIInv, H!OneBatch
<1>5. H!Consume => H!TypeOK' /\ OthersAreOff' /\ sem'[1] <= Tokens /\ hProgram' = hProgram
  <2>1. ASSUME H!Consume PROVE sem' \in [1 .. 2 -> Nat] /\ sem'[1] = sem[1] - 1
    BY <1>4, <2>1 DEF H!Consume, H!TypeOK
  <2>2. QED
    BY <1>4, <2>1 DEF H!Consume, H!noSignals, H!TypeOK, OthersAreOff
<1>6. ASSUME NEW q \in H!Producers, H!Produce(q)
      PROVE  H!TypeOK' /\ OthersAreOff' /\ sem'[1] <= Tokens /\ hProgram' = hProgram
  <2>1. sem' \in [1 .. 2 -> Nat] /\ sem'[1] = Tokens
    BY <1>4, <1>6 DEF H!Produce, H!TypeOK
  <2>2. n' \in [H!Procs -> 0 .. Rounds]
    BY <1>4, <1>6, Turning DEF H!Produce, H!Turns, H!Procs
  <2>3. QED
    BY <1>4, <1>6, <2>1, <2>2 DEF H!Produce, H!noSignals, H!TypeOK, OthersAreOff
<1>7. QED
  BY <1>2, <1>3, <1>5, <1>6 DEF H!Next, HandoffIInv, H!OneBatch
-----------------------------------------------------------------------------
(* shmserver.c and shmclient.c                                             *)
LEMMA OneshotNext ==
  ASSUME HandoffIInv, hProgram = "oneshot", H!Next
  PROVE  \/ H!ServerCreates \/ H!ServerWaits \/ H!ServerFinishes
         \/ \E c \in H!ShmClients :
              H!ClientGets(c) \/ H!ClientEnters(c) \/ H!ClientWrites(c) \/ H!ClientLeaves(c)
<1>1. /\ hAt["consumer"] = "off" /\ \A p \in H!Producers : hAt[p] = "off"
      /\ \A p \in H!Pair : hAt[p] = "off"
  BY DEF HandoffIInv, OthersAreOff
<1>2. ~H!SigQuit /\ ~H!Interrupted /\ ~H!TimeIsUp /\ ~H!Seminit
  BY DEF H!SigQuit, H!Interrupted, H!TimeIsUp, H!Seminit
<1>3. ASSUME NEW p \in H!Procs, H!Step(p)
      PROVE  \/ H!ServerCreates \/ H!ServerWaits \/ H!ServerFinishes
             \/ H!ClientGets(p) \/ H!ClientEnters(p) \/ H!ClientWrites(p) \/ H!ClientLeaves(p)
  BY <1>1, <1>3 DEF H!Step, H!AltStart, H!SyncFork, H!CritSignal, H!CritBlock, H!CritUnblock, H!SemWait, H!SemPost,
    H!SetVal, H!Release, H!Acquire, H!Produce, H!Consume,
    H!AltLeave, H!CritEnd, H!SyncTurn, H!SyncKill, H!Deliver, H!SyncEnd
<1>4. QED
  BY <1>2, <1>3 DEF H!Next, H!ClientGets, H!ClientEnters, H!ClientWrites, H!ClientLeaves

(* oneshot: a step of the server.                                           *)
LEMMA OneshotServer ==
  ASSUME HandoffIInv, hProgram = "oneshot", H!ServerCreates \/ H!ServerWaits \/ H!ServerFinishes
  PROVE  H!TypeOK' /\ OthersAreOff' /\ OneshotInv' /\ hProgram' = hProgram
<1>1. H!TypeOK /\ OneshotInv /\ "server" \in H!Procs
  BY DEF HandoffIInv, H!Procs
<1>2. UNCHANGED <<hProgram, n, sees, hShown, signalled, missed, kills>>
  BY DEF H!ServerCreates, H!ServerWaits, H!ServerFinishes, H!noSignals
<1>3. PICK to \in {"setall", "shmget", "wait", "read", "free", "remove", "ended"} :
        hAt' = [hAt EXCEPT !["server"] = to] /\ hAt["server"] # "off"
  BY DEF H!ServerCreates, H!ServerWaits, H!ServerFinishes, H!Goes
<1>4. /\ hAt' \in [H!Procs -> HPlace] /\ OthersAreOff'
      /\ hAt'["server"] = to /\ \A q \in H!Procs \ {"server"} : hAt'[q] = hAt[q]
  BY <1>1, <1>2, <1>3, OneMoves DEF HPlace
<1>5. \A c \in H!ShmClients : hAt'[c] = hAt[c] /\ InShm(c)' = InShm(c) /\ InShm(c) \in {0, 1}
  BY <1>2, <1>4 DEF InShm, H!Procs, H!ShmClients
<1>6. /\ InShm("client1")' = InShm("client1") /\ InShm("client2")' = InShm("client2")
      /\ InShm("client1") \in {0, 1} /\ InShm("client2") \in {0, 1}
  BY <1>5 DEF H!ShmClients
<1>7. CASE H!ServerCreates
  <2>1. sem' \in [1 .. 2 -> Nat] /\ there' \subseteq H!Things
    <3>1. sem' = <<0, 0>> \/ sem' = sem
      BY <1>7 DEF H!ServerCreates
    <3>2. <<0, 0>> \in [1 .. 2 -> Nat]
      OBVIOUS
    <3>3. sem' \in [1 .. 2 -> Nat]
      BY <1>1, <3>1, <3>2 DEF H!TypeOK
    <3>4. there' \subseteq H!Things
      BY <1>1, <1>7 DEF H!ServerCreates, H!TypeOK, H!Things
    <3>5. QED
      BY <3>3, <3>4
  <2>2. H!TypeOK'
    BY <1>1, <1>2, <1>4, <2>1 DEF H!TypeOK, HPlace
  <2>3. \A c \in H!ShmClients : "shm" \notin sees[c]
    BY <1>1, <1>7 DEF H!ServerCreates, OneshotInv
  <2>4. to = "wait" => InShm("client1") = 0 /\ InShm("client2") = 0
    BY <2>3 DEF InShm, H!ShmClients, H!Things
  <2>5. hAt'["server"] \in {"setall", "shmget"} => "shm" \notin there'
    BY <1>1, <1>4, <1>7 DEF H!ServerCreates, OneshotInv, H!Goes, H!TypeOK
  <2>6. to \in {"setall", "shmget", "wait"}
    BY <1>1, <1>4, <1>7 DEF H!ServerCreates, H!Goes, H!TypeOK
  <2>7. sem'[1] \in Nat
    BY <2>1
  <2>8. "sem" \in there'
    BY <1>1, <1>7 DEF H!ServerCreates, OneshotInv
  <2>9. OneshotInv'
    BY <1>1, <1>2, <1>4, <1>5, <1>6, <2>3, <2>4, <2>5, <2>6, <2>7, <2>8 DEF OneshotInv
  <2>10. QED
    BY <1>2, <1>4, <2>2, <2>9
<1>8. CASE H!ServerWaits
  <2>1. sem[1] \in Nat /\ sem[2] \in Nat /\ sem' = <<sem[1] + 1, sem[2] - 1>> /\ sem[2] - 1 \in Nat
    BY <1>1, <1>8 DEF H!ServerWaits, H!TypeOK
  <2>2. sem' \in [1 .. 2 -> Nat] /\ sem'[1] = sem[1] + 1
    BY <2>1
  <2>3. H!TypeOK' /\ UNCHANGED there
    BY <1>1, <1>2, <1>4, <1>8, <2>2 DEF H!TypeOK, HPlace, H!ServerWaits
  <2>4. to = "read" /\ hAt["server"] = "wait"
    BY <1>1, <1>4, <1>8 DEF H!ServerWaits, H!Goes, H!TypeOK
  <2>5. OneshotInv'
    BY <1>1, <1>2, <1>4, <1>5, <1>6, <2>1, <2>2, <2>3, <2>4 DEF OneshotInv
  <2>6. QED
    BY <1>2, <1>4, <2>3, <2>5
<1>9. CASE H!ServerFinishes
  <2>1. sem[1] \in Nat /\ (hAt["server"] = "read" => sem[1] > 0)
    BY <1>1, <1>6 DEF OneshotInv, H!TypeOK
  <2>2. sem' \in [1 .. 2 -> Nat] /\ there' \subseteq H!Things
    <3>1. CASE hAt["server"] = "read"
      BY <1>1, <1>9, <2>1, <3>1 DEF H!ServerFinishes, H!TypeOK
    <3>2. CASE hAt["server"] # "read"
      BY <1>1, <1>9, <3>2 DEF H!ServerFinishes, H!TypeOK, H!Things
    <3>3. QED
      BY <3>1, <3>2
  <2>3. H!TypeOK'
    BY <1>1, <1>2, <1>4, <2>2 DEF H!TypeOK, HPlace
  <2>4. to \in {"free", "remove", "ended"}
    BY <1>1, <1>4, <1>9 DEF H!ServerFinishes, H!Goes, H!TypeOK
  <2>5. OneshotInv'
    BY <1>1, <1>2, <1>4, <1>5, <2>4 DEF OneshotInv
  <2>6. QED
    BY <1>2, <1>4, <2>3, <2>5
<1>10. QED
  BY <1>7, <1>8, <1>9

(* oneshot: a step of a client.                                             *)
LEMMA OneshotClient ==
  ASSUME HandoffIInv, hProgram = "oneshot", NEW c \in H!ShmClients,
         H!ClientGets(c) \/ H!ClientEnters(c) \/ H!ClientWrites(c) \/ H!ClientLeaves(c)
  PROVE  H!TypeOK' /\ OthersAreOff' /\ OneshotInv' /\ hProgram' = hProgram
<1>1. H!TypeOK /\ OneshotInv /\ c \in H!Procs
  BY DEF HandoffIInv, H!Procs
<1>2. UNCHANGED <<hProgram, n, there, hShown, signalled, missed, kills>>
  BY DEF H!ClientGets, H!ClientEnters, H!ClientWrites, H!ClientLeaves, H!noSignals
<1>3. PICK to \in {"shmget", "enter", "write", "leave", "crashed", "ended"} :
        hAt' = [hAt EXCEPT ![c] = to] /\ hAt[c] # "off"
  BY DEF H!ClientGets, H!ClientEnters, H!ClientWrites, H!ClientLeaves, H!Goes
<1>4. /\ hAt' \in [H!Procs -> HPlace] /\ OthersAreOff'
      /\ hAt'[c] = to /\ \A q \in H!Procs \ {c} : hAt'[q] = hAt[q]
  BY <1>1, <1>2, <1>3, OneMoves DEF HPlace
<1>5. sees' \in [H!Procs -> SUBSET H!Things] /\ \A q \in H!Procs \ {c} : sees'[q] = sees[q]
  BY <1>1 DEF H!TypeOK, H!ClientGets, H!ClientEnters, H!ClientWrites, H!ClientLeaves
<1>6. PICK d \in H!ShmClients \ {c} : H!ShmClients = {c, d}
  BY DEF H!ShmClients
<1>7. d \in H!Procs \ {c} /\ "server" \in H!Procs \ {c} /\ hAt'["server"] = hAt["server"]
  BY <1>4, <1>6 DEF H!Procs, H!ShmClients
<1>8. InShm(d)' = InShm(d) /\ InShm(d) \in {0, 1} /\ InShm(c) \in {0, 1} /\ InShm(c)' \in {0, 1}
  BY <1>4, <1>5, <1>7 DEF InShm
<1>9. /\ InShm("client1") + InShm("client2") = InShm(c) + InShm(d)
      /\ (InShm("client1") + InShm("client2"))' = InShm(c)' + InShm(d)
  BY <1>6, <1>8 DEF H!ShmClients
<1>10. /\ hAt["server"] \in {"setall", "shmget", "wait", "read"} => "sem" \in there
       /\ hAt["server"] \in {"start", "setall", "shmget"} => "shm" \notin there /\ "shm" \notin sees[c] /\ "shm" \notin sees[d]
       /\ (hAt[c] = "leave" => "shm" \in sees[c]) /\ (hAt[d] = "leave" => "shm" \in sees[d])
       /\ hAt["server"] = "wait" => sem[1] >= InShm(c) + InShm(d)
       /\ hAt["server"] = "read" => sem[1] >= 1 + InShm(c) + InShm(d)
  <2>1. hAt["server"] = "wait" => sem[1] >= InShm(c) + InShm(d)
    BY <1>1, <1>9 DEF OneshotInv
  <2>2. InShm("client1") \in {0, 1} /\ InShm("client2") \in {0, 1}
    BY DEF InShm
  <2>3. hAt["server"] = "read" => sem[1] >= 1 + (InShm("client1") + InShm("client2"))
    BY <1>1, <2>2 DEF OneshotInv
  <2>4. hAt["server"] = "read" => sem[1] >= 1 + InShm(c) + InShm(d)
    BY <1>8, <1>9, <2>3
  <2>5. QED
    BY <1>1, <2>1, <2>4 DEF OneshotInv
<1>11. SUFFICES
         /\ sem' \in [1 .. 2 -> Nat]
         /\ hAt["server"] \in {"start", "setall", "shmget"} => "shm" \notin sees'[c]
         /\ to = "leave" => "shm" \in sees'[c]
         /\ hAt["server"] = "wait" => sem'[1] >= InShm(c)' + InShm(d)
         /\ hAt["server"] = "read" => sem'[1] >= 1 + InShm(c)' + InShm(d)
  <2>1. ASSUME sem' \in [1 .. 2 -> Nat] PROVE H!TypeOK'
    BY <1>1, <1>2, <1>4, <1>5, <2>1 DEF H!TypeOK, HPlace
  <2>2. ASSUME /\ hAt["server"] \in {"start", "setall", "shmget"} => "shm" \notin sees'[c]
               /\ to = "leave" => "shm" \in sees'[c]
               /\ hAt["server"] = "wait" => sem'[1] >= InShm(c)' + InShm(d)
               /\ hAt["server"] = "read" => sem'[1] >= 1 + InShm(c)' + InShm(d),
               sem' \in [1 .. 2 -> Nat]
        PROVE  OneshotInv'
    <3>1. (InShm("client1") + InShm("client2"))' \in Nat /\ InShm("client1")' \in Nat /\ InShm("client2")' \in Nat
      BY <1>6, <1>8, <1>9 DEF InShm
    <3>2. /\ hAt'["server"] = "wait" => sem'[1] >= InShm("client1")' + InShm("client2")'
          /\ hAt'["server"] = "read" => sem'[1] >= 1 + InShm("client1")' + InShm("client2")'
      BY <1>7, <1>8, <1>9, <2>2, <3>1
    <3>3. \A q \in H!ShmClients : q = c \/ q = d
      BY <1>6
    <3>4. QED
      BY <1>2, <1>4, <1>5, <1>7, <1>10, <2>2, <3>2, <3>3 DEF OneshotInv
  <2>3. QED
    BY <1>2, <1>4, <2>1, <2>2
<1>12. sem[1] \in Nat /\ sem[2] \in Nat
  BY <1>1 DEF H!TypeOK
<1>13. CASE H!ClientGets(c)
  <2>1. sem' = sem /\ to \in {"shmget", "enter"} /\ sees'[c] \subseteq sees[c] \cup there
    BY <1>1, <1>4, <1>13 DEF H!ClientGets, H!Goes, H!TypeOK
  <2>2. InShm(c)' = 0
    BY <1>4, <2>1 DEF InShm
  <2>3. QED
    BY <1>1, <1>8, <1>10, <1>12, <2>1, <2>2 DEF H!TypeOK
<1>14. CASE H!ClientEnters(c)
  <2>1. to = "write" /\ sees' = sees /\ hAt[c] = "enter"
    BY <1>1, <1>4, <1>14 DEF H!ClientEnters, H!Goes, H!TypeOK
  <2>2. CASE H!NoSet(c)
    <3>1. sem' = sem
      BY <1>14, <2>2 DEF H!ClientEnters
    <3>2. InShm(c)' = 0 \/ hAt["server"] \notin {"setall", "shmget", "wait", "read"}
      BY <1>10, <2>1, <2>2 DEF InShm, H!NoSet, H!Things
    <3>3. QED
      BY <1>1, <1>4, <1>8, <1>10, <1>12, <2>1, <3>1, <3>2 DEF H!TypeOK
  <2>3. CASE ~H!NoSet(c)
    <3>1. sem[1] = 0 /\ sem' = [sem EXCEPT ![1] = 1]
      BY <1>14, <2>3 DEF H!ClientEnters
    <3>2. sem' \in [1 .. 2 -> Nat] /\ sem'[1] = 1
      BY <1>1, <3>1 DEF H!TypeOK
    <3>3. /\ hAt["server"] # "read"
          /\ hAt["server"] = "wait" => InShm(d) = 0
      BY <1>8, <1>10, <3>1
    <3>4. QED
      BY <1>8, <1>10, <2>1, <3>2, <3>3
  <2>4. QED
    BY <2>2, <2>3
<1>15. CASE H!ClientWrites(c)
  <2>1. /\ sem' = sem /\ sees' = sees /\ hAt[c] = "write" /\ to \in {"leave", "crashed"}
        /\ to = "leave" => "shm" \in sees[c]
    BY <1>1, <1>4, <1>15 DEF H!ClientWrites, H!Goes, H!TypeOK
  <2>2. InShm(c)' <= InShm(c)
    BY <1>4, <2>1 DEF InShm
  <2>3. QED
    BY <1>1, <1>8, <1>10, <1>12, <2>1, <2>2 DEF H!TypeOK
<1>16. CASE H!ClientLeaves(c)
  <2>1. to = "ended" /\ sees' = sees /\ hAt[c] = "leave"
    BY <1>1, <1>4, <1>16 DEF H!ClientLeaves, H!Goes, H!TypeOK
  <2>2. InShm(c)' = 0
    BY <1>4, <2>1 DEF InShm
  <2>3. CASE H!NoSet(c)
    <3>1. sem' = sem
      BY <1>16, <2>3 DEF H!ClientLeaves
    <3>2. QED
      BY <1>1, <1>8, <1>10, <1>12, <2>1, <2>2, <3>1 DEF H!TypeOK
  <2>4. CASE ~H!NoSet(c)
    <3>1. sem[1] > 0 /\ sem' = <<sem[1] - 1, sem[2] + 1>>
      BY <1>16, <2>4 DEF H!ClientLeaves
    <3>2. sem' \in [1 .. 2 -> Nat] /\ sem'[1] = sem[1] - 1
      BY <1>12, <3>1
    <3>3. InShm(c) = 1
      BY <1>1, <1>10, <2>1, <2>4 DEF InShm, H!NoSet, H!Things, H!TypeOK
    <3>4. QED
      BY <1>8, <1>10, <1>12, <2>1, <2>2, <3>2, <3>3
  <2>5. QED
    BY <2>3, <2>4
<1>17. QED
  BY <1>13, <1>14, <1>15, <1>16

(* Every step of oneshot keeps its invariant.                               *)
LEMMA OneshotStep ==
  ASSUME HandoffIInv, hProgram = "oneshot", H!Next
  PROVE  HandoffIInv'
BY OneshotNext, OneshotServer, OneshotClient DEF HandoffIInv, H!OneBatch
-----------------------------------------------------------------------------
(* sync.c                                                                  *)
LEMMA SyncNext ==
  ASSUME HandoffIInv, hProgram = "sync", H!Next
  PROVE  \/ H!SyncFork \/ H!TimeIsUp
         \/ \E p \in H!Pair : H!SyncTurn(p) \/ H!SyncKill(p) \/ H!Deliver(p) \/ H!SyncEnd(p)
<1>1. /\ hAt["consumer"] = "off" /\ \A p \in H!Producers : hAt[p] = "off"
      /\ hAt["server"] = "off" /\ \A p \in H!ShmClients : hAt[p] = "off"
  BY DEF HandoffIInv, OthersAreOff
<1>2. ~H!SigQuit /\ ~H!Interrupted /\ ~H!Seminit
  BY DEF H!SigQuit, H!Interrupted, H!Seminit
<1>3. ASSUME NEW p \in H!Procs, H!Step(p)
      PROVE  H!SyncFork \/ \E q \in H!Pair : H!SyncTurn(q) \/ H!SyncKill(q) \/ H!Deliver(q) \/ H!SyncEnd(q)
  BY <1>1, <1>3 DEF H!Step, H!AltStart, H!CritSignal, H!CritBlock, H!CritUnblock, H!SemWait, H!SemPost,
    H!SetVal, H!Release, H!Acquire, H!Produce, H!Consume, H!AltLeave, H!CritEnd,
    H!ServerCreates, H!ServerWaits, H!ServerFinishes, H!ClientGets, H!ClientEnters, H!ClientWrites, H!ClientLeaves
<1>4. QED
  BY <1>2, <1>3 DEF H!Next

(* sync: the parent forks, and takes the first turn.                        *)
LEMMA SyncForkStep ==
  ASSUME HandoffIInv, hProgram = "sync", H!SyncFork
  PROVE  H!TypeOK' /\ OthersAreOff' /\ SyncInv' /\ hProgram' = hProgram
<1>1. H!TypeOK /\ SyncInv
  BY DEF HandoffIInv
<1>2. /\ hAt["parent"] = "start" /\ hAt' = [hAt EXCEPT !["parent"] = "sleep", !["child"] = "turn"]
      /\ UNCHANGED <<hProgram, n, sem, there, sees, hShown, signalled, missed, kills>>
  BY DEF H!SyncFork, H!noSignals
<1>3. /\ hAt' \in [H!Procs -> HPlace] /\ hAt'["parent"] = "sleep" /\ hAt'["child"] = "turn"
      /\ \A p \in H!Procs \ H!Pair : hAt'[p] = hAt[p]
  BY <1>1, <1>2 DEF H!TypeOK, HPlace, H!Procs, H!Pair, H!Producers, H!ShmClients
<1>4. H!TypeOK'
  BY <1>1, <1>2, <1>3 DEF H!TypeOK, HPlace
<1>5. OthersAreOff'
  BY <1>2, <1>3 DEF HandoffIInv, OthersAreOff, H!Procs, H!Pair, H!Producers, H!ShmClients
<1>6. SyncInv'
  BY <1>1, <1>2, <1>3 DEF SyncInv, SyncStarting, InTheirTurns, HasTurn, Waits, Counts, Alternates, Last1
<1>7. QED
  BY <1>2, <1>4, <1>5, <1>6

(* The parent's sleep is over before it was signalled.                      *)
LEMMA TimeIsUpStep ==
  ASSUME HandoffIInv, hProgram = "sync", H!TimeIsUp
  PROVE  H!TypeOK' /\ OthersAreOff' /\ SyncInv' /\ hProgram' = hProgram
<1>1. H!TypeOK /\ SyncInv /\ "parent" \in H!Procs
  BY DEF HandoffIInv, H!Procs, H!Pair
<1>2. /\ hAt["parent"] = "sleep" /\ hAt' = [hAt EXCEPT !["parent"] = "turn"] /\ missed' = TRUE
      /\ UNCHANGED <<hProgram, n, sem, there, sees, hShown, signalled, kills>>
  BY DEF H!TimeIsUp, H!Goes
<1>3. /\ hAt' \in [H!Procs -> HPlace] /\ OthersAreOff' /\ hAt'["parent"] = "turn"
  BY <1>1, <1>2, OneMoves DEF HPlace
<1>4. H!TypeOK'
  BY <1>1, <1>2, <1>3 DEF H!TypeOK, HPlace
<1>5. SyncInv'
  BY <1>2, <1>3 DEF SyncInv
<1>6. QED
  BY <1>2, <1>3, <1>4, <1>5

(* Whose turn it is, seen from a process that takes a step.                 *)
LEMMA SyncCases ==
  ASSUME HandoffIInv, hProgram = "sync", NEW p \in H!Pair, NEW q \in H!Pair, p # q, hAt[p] # "off", hAt[p] # "start"
  PROVE  /\ hAt["parent"] # "start"
         /\ ~missed => Alternates /\ (InTheirTurns(p, q) \/ InTheirTurns(q, p) \/ ChildHasEnded)
<1>1. SyncInv /\ {p, q} = {"parent", "child"}
  BY DEF HandoffIInv, H!Pair
<1>2. hAt["parent"] # "start"
  BY <1>1 DEF SyncInv, SyncStarting
<1>3. QED
  BY <1>1, <1>2 DEF SyncInv

(* The one whose turn it is prints, and is to kill the other.               *)
LEMMA SyncTurnStep ==
  ASSUME HandoffIInv, hProgram = "sync", NEW p \in H!Pair, H!SyncTurn(p)
  PROVE  H!TypeOK' /\ OthersAreOff' /\ SyncInv' /\ hProgram' = hProgram
<1>1. H!TypeOK /\ SyncInv /\ p \in H!Procs
  BY DEF HandoffIInv, H!Procs
<1>2. PICK q \in H!Pair : p # q /\ {p, q} = {"parent", "child"} /\ q \in H!Procs
  BY DEF H!Pair, H!Procs
<1>3. /\ hAt[p] = "turn" /\ n[p] < Rounds /\ hShown' = Append(hShown, p) /\ n' = [n EXCEPT ![p] = @ + 1]
      /\ hAt' = [hAt EXCEPT ![p] = "kill"]
      /\ UNCHANGED <<hProgram, sem, there, sees, signalled, missed, kills>>
  BY DEF H!SyncTurn, H!Goes, H!Turns, H!noSignals
<1>4. /\ hAt' \in [H!Procs -> HPlace] /\ OthersAreOff'
      /\ hAt'[p] = "kill" /\ \A r \in H!Procs \ {p} : hAt'[r] = hAt[r]
  BY <1>1, <1>3, OneMoves DEF HPlace
<1>5. /\ n' \in [H!Procs -> 0 .. Rounds] /\ n'[p] = n[p] + 1
      /\ \A r \in H!Procs \ {p} : n'[r] = n[r]
  BY <1>1, <1>3, Turning
<1>6. H!TypeOK'
  BY <1>1, <1>3, <1>4, <1>5 DEF H!TypeOK, HPlace
<1>7. /\ hAt["parent"] # "start"
      /\ ~missed => Alternates /\ (InTheirTurns(p, q) \/ InTheirTurns(q, p) \/ ChildHasEnded)
  BY <1>2, <1>3, SyncCases
<1>8. ASSUME ~missed PROVE Alternates' /\ InTheirTurns(p, q)'
  <2>1. Waits(q) /\ HasTurn(p, q)
    <3>1. ~InTheirTurns(q, p)
      BY <1>3 DEF InTheirTurns, Waits
    <3>2. ~ChildHasEnded
      BY <1>2, <1>3, LabsAssumption DEF ChildHasEnded
    <3>3. QED
      BY <1>3, <1>7, <1>8, <3>1, <3>2 DEF InTheirTurns, Kills, HasKilled
  <2>2. ~Last1(p)
    BY <1>2, <2>1 DEF HasTurn, Last1
  <2>3. Alternates' /\ Last1(p)'
    BY <1>1, <1>3, <1>7, <1>8, <2>2, Prints DEF H!TypeOK
  <2>4. Counts(p)'
    <3>1. n["child"] \in Nat /\ n["parent"] \in Nat /\ Counts(q)
      BY <1>1, <2>1 DEF H!TypeOK, H!Procs, H!Pair, HasTurn
    <3>2. QED
      BY <1>2, <1>5, <3>1 DEF Counts
  <2>5. Waits(q)' /\ signalled' = {}
    BY <1>2, <1>3, <1>4, <2>1 DEF Waits, HasTurn
  <2>6. QED
    BY <1>4, <2>3, <2>4, <2>5 DEF InTheirTurns, Kills
<1>9. hAt'["parent"] # "start"
  BY <1>2, <1>4, <1>7
<1>10. SyncInv'
  BY <1>2, <1>3, <1>8, <1>9 DEF SyncInv
<1>11. QED
  BY <1>3, <1>4, <1>6, <1>10

(* It signals the other, and waits.                                         *)
LEMMA SyncKillStep ==
  ASSUME HandoffIInv, hProgram = "sync", NEW p \in H!Pair, H!SyncKill(p)
  PROVE  H!TypeOK' /\ OthersAreOff' /\ SyncInv' /\ hProgram' = hProgram
<1>1. H!TypeOK /\ SyncInv /\ p \in H!Procs
  BY DEF HandoffIInv, H!Procs
<1>2. PICK q \in H!Pair : p # q /\ {p, q} = {"parent", "child"} /\ q \in H!Procs /\ H!Other[p] = q
  BY DEF H!Pair, H!Procs, H!Other
<1>3. /\ hAt[p] = "kill" /\ hAt' = [hAt EXCEPT ![p] = "pause"]
      /\ signalled' = signalled \cup {r \in {q} : hAt[r] # "ended"}
      /\ UNCHANGED <<hProgram, n, sem, there, sees, hShown, missed, kills>>
  BY <1>2 DEF H!SyncKill, H!Goes
<1>4. /\ hAt' \in [H!Procs -> HPlace] /\ OthersAreOff'
      /\ hAt'[p] = "pause" /\ \A r \in H!Procs \ {p} : hAt'[r] = hAt[r]
  BY <1>1, <1>3, OneMoves DEF HPlace
<1>5. H!TypeOK'
  BY <1>1, <1>2, <1>3, <1>4 DEF H!TypeOK, HPlace
<1>6. /\ hAt["parent"] # "start"
      /\ ~missed => Alternates /\ (InTheirTurns(p, q) \/ InTheirTurns(q, p) \/ ChildHasEnded)
  BY <1>2, <1>3, SyncCases
<1>7. ASSUME ~missed PROVE Alternates' /\ InTheirTurns(p, q)'
  <2>1. Waits(q) /\ Kills(p)
    BY <1>2, <1>3, <1>6, <1>7 DEF InTheirTurns, Waits, HasTurn, Kills, HasKilled, ChildHasEnded
  <2>2. signalled' = {q}
    BY <1>3, <2>1 DEF Waits, Kills
  <2>3. Last1(p)' /\ Counts(p)' /\ Waits(q)' /\ Alternates'
    BY <1>2, <1>3, <1>4, <1>6, <1>7, <2>1 DEF Kills, Last1, Counts, Waits, Alternates
  <2>4. QED
    BY <1>4, <2>2, <2>3 DEF InTheirTurns, HasKilled
<1>8. hAt'["parent"] # "start"
  BY <1>2, <1>4, <1>6
<1>9. SyncInv'
  BY <1>2, <1>3, <1>7, <1>8 DEF SyncInv
<1>10. QED
  BY <1>3, <1>4, <1>5, <1>9

(* A signal reaches one that waits, whose turn it is then; or it is missed. *)
LEMMA DeliverStep ==
  ASSUME HandoffIInv, hProgram = "sync", NEW p \in H!Pair, H!Deliver(p)
  PROVE  H!TypeOK' /\ OthersAreOff' /\ SyncInv' /\ hProgram' = hProgram
<1>1. H!TypeOK /\ OthersAreOff /\ SyncInv /\ p \in H!Procs
  BY DEF HandoffIInv, H!Procs
<1>2. PICK q \in H!Pair : p # q /\ {p, q} = {"parent", "child"} /\ q \in H!Procs
  BY DEF H!Pair, H!Procs
<1>3. /\ p \in signalled /\ hAt[p] # "ended" /\ signalled' = signalled \ {p}
      /\ UNCHANGED <<hProgram, n, sem, there, sees, hShown, kills>>
  BY DEF H!Deliver
<1>4. hAt["parent"] # "start"
  BY <1>1, <1>3 DEF SyncInv, SyncStarting
<1>5. CASE ~Waits(p)
  <2>1. missed' = TRUE /\ hAt' = hAt
    BY <1>5 DEF H!Deliver, Waits
  <2>2. H!TypeOK' /\ OthersAreOff'
    BY <1>1, <1>3, <2>1 DEF H!TypeOK, OthersAreOff
  <2>3. QED
    BY <1>3, <1>4, <2>1, <2>2 DEF SyncInv
<1>6. CASE Waits(p)
  <2>1. hAt' = [hAt EXCEPT ![p] = "turn"] /\ missed' = missed
    BY <1>6 DEF H!Deliver, Waits, H!Goes
  <2>2. /\ hAt' \in [H!Procs -> HPlace] /\ OthersAreOff'
        /\ hAt'[p] = "turn" /\ \A r \in H!Procs \ {p} : hAt'[r] = hAt[r]
    BY <1>1, <1>3, <1>6, <2>1, OneMoves DEF HPlace, Waits
  <2>3. H!TypeOK'
    BY <1>1, <1>3, <2>1, <2>2 DEF H!TypeOK, HPlace
  <2>4. ~missed => Alternates /\ (InTheirTurns(p, q) \/ InTheirTurns(q, p) \/ ChildHasEnded)
    BY <1>2, <1>6, SyncCases DEF Waits
  <2>5. ASSUME ~missed PROVE Alternates' /\ (InTheirTurns(p, q)' \/ ChildHasEnded')
    <3>1. Alternates' /\ Last1(q)' = Last1(q) /\ Counts(q)' = Counts(q)
      BY <1>3, <2>4, <2>5 DEF Alternates, Last1, Counts
    <3>2. CASE InTheirTurns(p, q)
      BY <1>2, <1>3, <1>6, <3>2 DEF InTheirTurns, HasTurn, Kills, HasKilled, Waits
    <3>3. CASE InTheirTurns(q, p)
      <4>1. HasKilled(q, p)
        BY <1>3, <3>3 DEF InTheirTurns, HasTurn, Kills
      <4>2. signalled' = {} /\ hAt'[q] = "pause"
        BY <1>2, <1>3, <2>2, <4>1 DEF HasKilled
      <4>3. QED
        BY <2>2, <3>1, <4>1, <4>2 DEF InTheirTurns, HasTurn, HasKilled, Waits
    <3>4. CASE ChildHasEnded
      <4>1. p = "parent" /\ q = "child" /\ signalled = {"parent"}
        BY <1>2, <1>3, <3>4 DEF ChildHasEnded
      <4>2. signalled' = {} /\ hAt'["child"] = "ended" /\ hAt'["parent"] = "turn"
        BY <1>2, <1>3, <2>2, <3>4, <4>1 DEF ChildHasEnded
      <4>3. QED
        BY <1>3, <3>1, <3>4, <4>2 DEF ChildHasEnded
    <3>5. QED
      BY <2>4, <2>5, <3>2, <3>3, <3>4
  <2>6. hAt'["parent"] # "start"
    BY <1>2, <1>4, <2>2
  <2>7. SyncInv'
    BY <1>2, <2>1, <2>5, <2>6 DEF SyncInv
  <2>8. QED
    BY <1>3, <2>2, <2>3, <2>7
<1>7. QED
  BY <1>5, <1>6

(* One that has had its turns ends; that of the child is a signal too.      *)
LEMMA SyncEndStep ==
  ASSUME HandoffIInv, hProgram = "sync", NEW p \in H!Pair, H!SyncEnd(p)
  PROVE  H!TypeOK' /\ OthersAreOff' /\ SyncInv' /\ hProgram' = hProgram
<1>1. H!TypeOK /\ SyncInv /\ p \in H!Procs
  BY DEF HandoffIInv, H!Procs
<1>2. PICK q \in H!Pair : p # q /\ {p, q} = {"parent", "child"} /\ q \in H!Procs
  BY DEF H!Pair, H!Procs
<1>3. /\ hAt[p] = "turn" /\ n[p] = Rounds /\ hAt' = [hAt EXCEPT ![p] = "ended"]
      /\ signalled' = IF p = "child" /\ hAt["parent"] # "ended" THEN signalled \cup {"parent"} ELSE signalled
      /\ UNCHANGED <<hProgram, n, sem, there, sees, hShown, missed, kills>>
  BY DEF H!SyncEnd, H!Goes
<1>4. /\ hAt' \in [H!Procs -> HPlace] /\ OthersAreOff'
      /\ hAt'[p] = "ended" /\ \A r \in H!Procs \ {p} : hAt'[r] = hAt[r]
  BY <1>1, <1>3, OneMoves DEF HPlace
<1>5. H!TypeOK'
  <2>1. signalled' \subseteq H!Pair
    BY <1>1, <1>3 DEF H!TypeOK, H!Pair
  <2>2. QED
    BY <1>1, <1>3, <1>4, <2>1 DEF H!TypeOK, HPlace
<1>6. /\ hAt["parent"] # "start"
      /\ ~missed => Alternates /\ (InTheirTurns(p, q) \/ InTheirTurns(q, p) \/ ChildHasEnded)
  BY <1>2, <1>3, SyncCases
<1>7. ASSUME ~missed PROVE Alternates' /\ ChildHasEnded'
  <2>1. Alternates'
    BY <1>3, <1>6, <1>7 DEF Alternates
  <2>2. CASE InTheirTurns(p, q)
    <3>1. Waits(q) /\ HasTurn(p, q)
      BY <1>3, <2>2 DEF InTheirTurns, Kills, HasKilled
    <3>2. n["child"] \in 0 .. Rounds /\ n["parent"] \in 0 .. Rounds /\ Counts(q) /\ signalled = {}
      BY <1>1, <3>1 DEF H!TypeOK, H!Procs, H!Pair, HasTurn
    <3>3. p = "child" /\ q = "parent" /\ n["parent"] = Rounds
      BY <1>2, <1>3, <3>2, LabsAssumption DEF Counts
    <3>4. signalled' = {"parent"} /\ Waits("parent")' /\ hAt'["child"] = "ended"
      BY <1>2, <1>3, <1>4, <3>1, <3>2, <3>3 DEF Waits
    <3>5. QED
      BY <1>3, <2>1, <3>3, <3>4 DEF ChildHasEnded
  <2>3. CASE InTheirTurns(q, p)
    BY <1>3, <2>3 DEF InTheirTurns, Waits
  <2>4. CASE ChildHasEnded
    BY <1>2, <1>3, <1>4, <2>1, <2>4 DEF ChildHasEnded, Waits
  <2>5. QED
    BY <1>6, <1>7, <2>2, <2>3, <2>4
<1>8. hAt'["parent"] # "start"
  BY <1>2, <1>4, <1>6
<1>9. SyncInv'
  BY <1>3, <1>7, <1>8 DEF SyncInv
<1>10. QED
  BY <1>3, <1>4, <1>5, <1>9

(* Every step of sync keeps its invariant.                                  *)
LEMMA SyncStep ==
  ASSUME HandoffIInv, hProgram = "sync", H!Next
  PROVE  HandoffIInv'
BY SyncNext, SyncForkStep, TimeIsUpStep, SyncTurnStep, SyncKillStep, DeliverStep, SyncEndStep
  DEF HandoffIInv, H!OneBatch
-----------------------------------------------------------------------------
(* critical.c                                                              *)
LEMMA CritNext ==
  ASSUME HandoffIInv, hProgram = "critical", H!Next
  PROVE  H!SigQuit \/ H!CritSignal \/ H!CritBlock \/ H!CritUnblock \/ H!CritEnd
<1>1. /\ hAt["consumer"] = "off" /\ \A p \in H!Producers : hAt[p] = "off"
      /\ hAt["server"] = "off" /\ \A p \in H!ShmClients : hAt[p] = "off"
      /\ \A p \in H!Pair : hAt[p] # "kill"
  BY DEF HandoffIInv, OthersAreOff
<1>2. ~H!TimeIsUp /\ ~H!Interrupted /\ ~H!Seminit
  BY DEF H!TimeIsUp, H!Interrupted, H!Seminit
<1>3. ASSUME NEW p \in H!Procs, H!Step(p)
      PROVE  H!CritSignal \/ H!CritBlock \/ H!CritUnblock \/ H!CritEnd
  BY <1>1, <1>3 DEF H!Step, H!AltStart, H!SyncFork, H!SemWait, H!SemPost,
    H!SetVal, H!Release, H!Acquire, H!Produce, H!Consume, H!AltLeave,
    H!SyncTurn, H!SyncKill, H!Deliver, H!SyncEnd,
    H!ServerCreates, H!ServerWaits, H!ServerFinishes, H!ClientGets, H!ClientEnters, H!ClientWrites, H!ClientLeaves
<1>4. QED
  BY <1>2, <1>3 DEF H!Next

(* Every step of critical keeps its invariant.                              *)
LEMMA CritStep ==
  ASSUME HandoffIInv, hProgram = "critical", H!Next
  PROVE  HandoffIInv'
<1>1. H!TypeOK /\ OthersAreOff /\ CritInv /\ "parent" \in H!Procs
  BY DEF HandoffIInv, H!Procs, H!Pair
<1>2. Rounds \in Nat \ {0} /\ n["parent"] \in 0 .. Rounds /\ kills \in 0 .. 2 /\ signalled \subseteq H!Pair
  BY <1>1, LabsAssumption DEF H!TypeOK
<1>3. ASSUME NEW to \in {"turn", "hold", "sleep", "ended", "crashed"},
             hAt' = [hAt EXCEPT !["parent"] = to], hAt["parent"] # "off", hProgram' = hProgram
      PROVE  hAt' \in [H!Procs -> HPlace] /\ OthersAreOff' /\ hAt'["parent"] = to
  BY <1>1, <1>3, OneMoves DEF HPlace
<1>4. ASSUME n' = [n EXCEPT !["parent"] = 1]
      PROVE  n' \in [H!Procs -> 0 .. Rounds] /\ n'["parent"] = 1
  BY <1>1, <1>2, <1>4 DEF H!TypeOK
<1>5. CASE H!CritSignal
  BY <1>1, <1>3, <1>5 DEF H!CritSignal, H!Goes, H!noSignals, H!TypeOK, HPlace, CritInv, HandoffIInv, H!OneBatch
<1>6. CASE H!CritBlock
  BY <1>1, <1>2, <1>3, <1>6 DEF H!CritBlock, H!Goes, H!noSignals, H!TypeOK, HPlace, CritInv, HandoffIInv, H!OneBatch
<1>7. CASE H!CritEnd
  BY <1>1, <1>2, <1>3, <1>7 DEF H!CritEnd, H!Goes, H!noSignals, H!TypeOK, HPlace, CritInv, HandoffIInv, H!OneBatch
<1>8. CASE H!CritUnblock
  <2>1. hAt["parent"] = "hold" /\ signalled' = {} /\ UNCHANGED <<hProgram, sem, there, sees, hShown, missed, kills>>
    BY <1>8 DEF H!CritUnblock
  <2>2. CASE signalled = {}
    <3>1. hAt' = [hAt EXCEPT !["parent"] = "sleep"] /\ n' = n
      BY <1>1, <1>8, <2>2 DEF H!CritUnblock, H!Goes, H!TypeOK
    <3>2. QED
      BY <1>1, <1>2, <1>3, <2>1, <2>2, <3>1 DEF H!TypeOK, HPlace, CritInv, HandoffIInv, H!OneBatch
  <2>3. CASE signalled # {} /\ n["parent"] = 0
    <3>1. hAt' = [hAt EXCEPT !["parent"] = "sleep"] /\ n' = [n EXCEPT !["parent"] = 1]
      BY <1>8, <2>3 DEF H!CritUnblock, H!Goes
    <3>2. kills # 0
      BY <1>1, <1>2, <2>1, <2>3 DEF CritInv
    <3>3. QED
      BY <1>1, <1>2, <1>3, <1>4, <2>1, <2>3, <3>1, <3>2 DEF H!TypeOK, HPlace, CritInv, HandoffIInv, H!OneBatch
  <2>4. CASE signalled # {} /\ n["parent"] # 0
    <3>1. hAt' = [hAt EXCEPT !["parent"] = "crashed"] /\ n' = n
      BY <1>8, <2>4 DEF H!CritUnblock, H!Goes
    <3>2. n["parent"] = 1 /\ kills = 2
      BY <1>1, <1>2, <2>1, <2>4 DEF CritInv
    <3>3. QED
      BY <1>1, <1>2, <1>3, <2>1, <2>4, <3>1, <3>2 DEF H!TypeOK, HPlace, CritInv, HandoffIInv, H!OneBatch
  <2>5. QED
    BY <2>2, <2>3, <2>4
<1>9. CASE H!SigQuit
  <2>1. /\ hAt["parent"] \in {"start", "turn", "hold", "sleep"} /\ kills < 2 /\ kills' = kills + 1
        /\ UNCHANGED <<hProgram, sem, there, sees, hShown>>
    BY <1>9 DEF H!SigQuit
  <2>2. kills' \in 0 .. 2 /\ kills' # 0
    BY <1>2, <2>1
  <2>3. CASE hAt["parent"] = "hold"
    <3>1. signalled' = {"parent"} /\ UNCHANGED <<hAt, n, missed>>
      BY <1>9, <2>3 DEF H!SigQuit
    <3>2. kills' >= n["parent"] + 1
      BY <1>1, <1>2, <2>1, <2>3 DEF CritInv
    <3>3. QED
      BY <1>1, <1>2, <2>1, <2>2, <2>3, <3>1, <3>2
        DEF H!TypeOK, H!Pair, CritInv, HandoffIInv, H!OneBatch, OthersAreOff
  <2>4. CASE hAt["parent"] = "start"
    <3>1. missed' = TRUE /\ hAt' = [hAt EXCEPT !["parent"] = "crashed"] /\ UNCHANGED <<n, signalled>>
      BY <1>9, <2>4 DEF H!SigQuit, H!Goes
    <3>2. QED
      BY <1>1, <1>2, <1>3, <2>1, <2>2, <2>4, <3>1 DEF H!TypeOK, HPlace, CritInv, HandoffIInv, H!OneBatch
  <2>5. CASE hAt["parent"] \in {"turn", "sleep"}
    <3>1. H!Caught /\ UNCHANGED <<missed, signalled>>
      BY <1>9, <2>5 DEF H!SigQuit
    <3>2. CASE n["parent"] = 0
      <4>1. n' = [n EXCEPT !["parent"] = 1] /\ hAt' = hAt
        BY <3>1, <3>2 DEF H!Caught, H!Turns
      <4>2. QED
        BY <1>1, <1>2, <1>4, <2>1, <2>2, <2>5, <3>1, <4>1
          DEF H!TypeOK, CritInv, HandoffIInv, H!OneBatch, OthersAreOff
    <3>3. CASE n["parent"] # 0
      <4>1. hAt' = [hAt EXCEPT !["parent"] = "crashed"] /\ n' = n
        BY <3>1, <3>3 DEF H!Caught, H!Goes
      <4>2. n["parent"] = 1 /\ kills' = 2
        BY <1>1, <1>2, <2>1, <2>5, <3>3 DEF CritInv
      <4>3. QED
        BY <1>1, <1>2, <1>3, <2>1, <2>2, <2>5, <3>1, <4>1, <4>2 DEF H!TypeOK, HPlace, CritInv, HandoffIInv, H!OneBatch
    <3>4. QED
      BY <3>2, <3>3
  <2>6. QED
    BY <2>1, <2>3, <2>4, <2>5
<1>10. QED
  BY <1>5, <1>6, <1>7, <1>8, <1>9, CritNext
-----------------------------------------------------------------------------
(* Every program of Handoff begins as its invariant says.                   *)
LEMMA HandoffInit ==
  ASSUME H!Init
  PROVE  HandoffIInv
<1>1. /\ n = [p \in H!Procs |-> 0] /\ there = {} /\ sees = [p \in H!Procs |-> {}]
      /\ hShown = <<>> /\ signalled = {} /\ missed = FALSE /\ kills = 0
  BY DEF H!Init
<1>2. PICK first, second : sem = <<first, second>> /\ first \in {0, 1} /\ second = 0
  BY DEF H!Init
<1>3. sem \in [1 .. 2 -> Nat] /\ sem[1] = first /\ sem[2] = 0
  BY <1>2
<1>4. hProgram \in {"alternate", "semop", "shelf", "oneshot", "sync", "critical"} /\ hAt \in [H!Procs -> HPlace]
  <2>1. \A X : H!Starts(X) \in [H!Procs -> HPlace]
    BY DEF H!Starts, HPlace
  <2>2. \A X : [p \in H!Procs |-> IF p \in X THEN "turn" ELSE "off"] \in [H!Procs -> HPlace]
    BY DEF HPlace
  <2>3. QED
    BY <2>1, <2>2 DEF H!Init
<1>5. H!TypeOK
  <2>1. n \in [H!Procs -> 0 .. Rounds] /\ sees \in [H!Procs -> SUBSET H!Things]
    BY <1>1, LabsAssumption
  <2>2. hShown \in Seq(H!Pair)
    BY <1>1
  <2>3. signalled \subseteq H!Pair /\ there \subseteq H!Things
    BY <1>1
  <2>4. missed \in BOOLEAN
    BY <1>1
  <2>5. kills \in 0 .. 2
    BY <1>1
  <2>6. QED
    BY <1>3, <1>4, <2>1, <2>2, <2>3, <2>4, <2>5 DEF H!TypeOK, HPlace
<1>6. H!OneBatch
  BY <1>2, <1>3, LabsAssumption DEF H!OneBatch
<1>7. OthersAreOff
  BY DEF H!Init, H!Starts, OthersAreOff, H!Procs, H!Pair, H!Producers, H!ShmClients
<1>8. ASSUME hProgram \in {"alternate", "semop", "sync", "critical"}
      PROVE  sem = <<0, 0>> /\ hAt["parent"] = "start" /\ hAt["child"] = "off" /\ n["parent"] = 0 /\ n["child"] = 0
  BY <1>1, <1>8 DEF H!Init, H!Starts, H!Procs, H!Pair
<1>9. hProgram = "alternate" => AltInv
  BY <1>1, <1>3, <1>8 DEF AltInv, Alternates, FirstIsParent, AltStarting
<1>10. hProgram = "oneshot" => OneshotInv
  BY <1>1 DEF H!Init, H!Starts, OneshotInv, H!Procs, H!ShmClients
<1>11. hProgram = "semop" => SemopInv
  BY <1>8 DEF SemopInv, H!Pair
<1>12. hProgram = "sync" => SyncInv
  BY <1>1, <1>8 DEF SyncInv, SyncStarting
<1>13. hProgram = "critical" => CritInv
  BY <1>1, <1>8 DEF CritInv
<1>14. QED
  BY <1>5, <1>6, <1>7, <1>9, <1>10, <1>11, <1>12, <1>13 DEF HandoffIInv

(* Every step of Handoff keeps the invariant.                               *)
LEMMA HandoffNext ==
  ASSUME HandoffIInv, H!Next
  PROVE  HandoffIInv'
BY AltStep, SemopStep, ShelfStep, OneshotStep, SyncStep, CritStep DEF HandoffIInv, H!TypeOK

(* It implies what is stated of the programs.                               *)
LEMMA HandoffSafe ==
  ASSUME HandoffIInv
  PROVE  H!HandoffInv
<1>1. H!TypeOK /\ H!OneBatch
  BY DEF HandoffIInv
<1>2. H!InTurn
  <2>1. hProgram = "alternate" => Alternates /\ FirstIsParent
    BY DEF HandoffIInv, AltInv
  <2>2. hProgram = "sync" /\ ~missed => Alternates
    BY DEF HandoffIInv, SyncInv, SyncStarting, Alternates
  <2>3. QED
    BY <2>1, <2>2 DEF H!InTurn, Alternates, FirstIsParent
<1>3. H!OneToken
  <2>1. ASSUME hProgram = "alternate", "sem" \in there
        PROVE  sem[1] + sem[2] <= (IF H!Holding = {} THEN 1 ELSE 0)
    <3>1. AltInv /\ sem[1] \in Nat /\ sem[2] \in Nat
      BY <1>1, <2>1 DEF HandoffIInv, H!TypeOK
    <3>2. CASE hAt["parent"] = "start"
      BY <2>1, <3>1, <3>2 DEF AltInv, AltStarting, H!Holding, H!Pair
    <3>3. CASE hAt["parent"] # "start"
      <4>1. sem[1] + sem[2] + HeldBy("parent") + HeldBy("child") <= 1
        BY <3>1, <3>3 DEF AltInv, AltRunning
      <4>2. H!Holding # {} => HeldBy("parent") = 1 \/ HeldBy("child") = 1
        BY DEF H!Holding, H!Pair, HeldBy
      <4>3. HeldBy("parent") \in {0, 1} /\ HeldBy("child") \in {0, 1}
        BY DEF HeldBy
      <4>4. QED
        BY <3>1, <4>1, <4>2, <4>3
    <3>4. QED
      BY <3>2, <3>3
  <2>2. QED
    BY <2>1 DEF H!OneToken
<1>4. H!QuitOnce
  BY LabsAssumption DEF HandoffIInv, CritInv, H!QuitOnce, H!TypeOK
<1>5. QED
  BY <1>1, <1>2, <1>3, <1>4 DEF H!HandoffInv
-----------------------------------------------------------------------------
(* mmap/write.c, mmap/read.c, pshm_write.c, pshm_read.c.  Writer w was the  *)
(* last to open, or of an object any: what it is done with is there.        *)
Opener(w) ==
  /\ fAt[w] \in {"stretch", "copy", "ended"}
  /\ fAt[w] \in {"copy", "ended"} => full /\ F!InFile \cap done[w] \subseteq written

DoneInv ==
  /\ \A p \in F!Procs : fAt[p] \in {"copy", "show"} => done[p] # F!All
  /\ \A w \in F!Writers : fAt[w] \in {"start", "stretch"} => done[w] = {}
  /\ fAt["reader"] = "start" => done["reader"] = {}
  /\ \A w \in F!Writers : fAt[w] = "ended" => done[w] = F!All
OpenerInv ==
  /\ (\E w \in F!Writers : fAt[w] # "start") => exists /\ \E w \in F!Writers : Opener(w)
  /\ \A w \in F!Writers : fAt[w] = "SIGBUS" => fKind = "file" /\ \A v \in F!Writers : fAt[v] # "start"
  /\ fKind = "object" => \A w \in F!Writers : fAt[w] # "start" => Opener(w)
QuietInv ==
  quiet =>
    /\ (\E w \in F!Writers : fAt[w] = "ended") /\ \A w \in F!Writers : fAt[w] \in {"start", "ended"}
    /\ fAt["reader"] \in {"show", "ended"}
    /\ F!InFile \cap (IF fAt["reader"] = "show" THEN done["reader"] ELSE F!All) \subseteq fShown
ReaderInv ==
  /\ fKind = "object" /\ fAt["reader"] = "show" => full
  /\ fAt["reader"] = "SIGBUS" => fKind = "file" /\ ~quiet

MappedIInv == F!TypeOK /\ DoneInv /\ OpenerInv /\ QuietInv /\ ReaderInv

(* A nonempty set of natural numbers has a least element.                   *)
LEMMA LeastExists ==
  ASSUME NEW T, T \subseteq Nat, T # {}
  PROVE  \E x \in T : \A y \in T : x <= y
<1> DEFINE R == StrictSubsetOrdering(Nat)
           Initial(m) == 0 .. m - 1
           U == {Initial(m) : m \in T}
<1>1. U \subseteq FiniteSubsetsOf(Nat) /\ U # {}
  <2>1. \A m \in Nat : Initial(m) \subseteq Nat /\ IsFiniteSet(Initial(m))
    BY FS_Interval
  <2>2. QED
    BY <2>1 DEF FiniteSubsetsOf
<1>2. \E x \in U : \A y \in U : <<y, x>> \notin R
  <2>1. IsWellFoundedOn(R, FiniteSubsetsOf(Nat))
    BY FS_StrictSubsetOrderingWellFounded
  <2> HIDE DEF R, U
  <2>2. QED
    BY <1>1, <2>1, WFMin
<1>3. PICK x \in T : \A y \in T : <<Initial(y), Initial(x)>> \notin R
  BY <1>2
<1>4. ASSUME NEW y \in T, y < x PROVE <<Initial(y), Initial(x)>> \in R
  <2>1. Initial(y) \in SUBSET Nat /\ Initial(x) \in SUBSET Nat /\ Initial(y) \subseteq Initial(x)
    BY <1>4
  <2>2. y \in Initial(x) /\ y \notin Initial(y)
    BY <1>4
  <2> HIDE DEF Initial
  <2>3. QED
    BY <2>1, <2>2 DEF StrictSubsetOrdering
<1> HIDE DEF R, U, Initial
<1>5. x \in Nat /\ \A y \in T : y \in Nat /\ ~(y < x)
  BY <1>3, <1>4
<1>6. QED
  BY <1>5

(* Lowest is a cell that is not among those given.                          *)
LEMMA LowestIs ==
  ASSUME NEW S, S \subseteq F!All, S # F!All
  PROVE  F!Lowest(S) \in F!All \ S
<1>1. F!All \ S \subseteq Nat /\ F!All \ S # {}
  <2>1. F!All \ S \subseteq Nat
    BY LabsAssumption DEF F!All
  <2>2. F!All \ S # {}
    OBVIOUS
  <2>3. QED
    BY <2>1, <2>2
<1>2. \E x \in F!All \ S : \A y \in F!All \ S : x <= y
  BY <1>1, LeastExists
<1>3. QED
  BY <1>2 DEF F!Lowest

(* MappedMemory begins as its invariant says.                               *)
LEMMA MappedInit == F!Init => MappedIInv
<1>1. SUFFICES ASSUME F!Init PROVE MappedIInv
  OBVIOUS
<1>2. F!All # {}
  BY LabsAssumption DEF F!All
<1>3. /\ fKind \in {"file", "object"} /\ exists = FALSE /\ full = FALSE /\ written = {}
      /\ \A p \in F!Procs : fAt[p] = "start" /\ done[p] = {}
      /\ fShown = {} /\ quiet = FALSE
      /\ fAt \in [F!Procs -> {"start"}] /\ done \in [F!Procs -> {{}}]
  BY <1>1 DEF F!Init
<1>4. F!TypeOK
  <2>1. fAt \in [F!Procs -> {"start", "stretch", "copy", "show", "ended", "failed", "SIGBUS"}]
    BY <1>3
  <2>2. done \in [F!Procs -> SUBSET F!All]
    BY <1>3
  <2>3. exists \in BOOLEAN /\ full \in BOOLEAN
    BY <1>3
  <2>4. quiet \in BOOLEAN
    BY <1>3
  <2>5. QED
    BY <1>3, <2>1, <2>2, <2>3, <2>4 DEF F!TypeOK
<1>5. QED
  BY <1>2, <1>3, <1>4 DEF MappedIInv, DoneInv, OpenerInv, QuietInv, ReaderInv, F!Procs, F!Writers

(* Its invariant implies what is stated of it.                              *)
LEMMA MappedSafe == MappedIInv => F!MappedInv
BY DEF MappedIInv, QuietInv, ReaderInv, OpenerInv, F!MappedInv, F!InFile

(* A writer opens: a file is created, or emptied under the others; an       *)
(* object stays as it is.                                                   *)
LEMMA OpenToWriteStep ==
  ASSUME MappedIInv, NEW w \in F!Writers, F!OpenToWrite(w)
  PROVE  MappedIInv'
<1>1. F!TypeOK /\ w \in F!Procs /\ "reader" \in F!Procs \ F!Writers /\ F!Writers \subseteq F!Procs
  BY DEF MappedIInv, F!Procs, F!Writers
<1>2. /\ fAt[w] = "start" /\ fAt' = [fAt EXCEPT ![w] = "stretch"] /\ exists' = TRUE /\ quiet' = FALSE
      /\ UNCHANGED <<fKind, done, fShown>>
      /\ fKind = "object" => UNCHANGED <<full, written>>
  BY DEF F!OpenToWrite, F!Goes
<1>3. full' \in BOOLEAN /\ written' \subseteq F!All
  BY <1>1 DEF F!OpenToWrite, F!TypeOK
<1>4. /\ fAt' \in [F!Procs -> {"start", "stretch", "copy", "show", "ended", "failed", "SIGBUS"}]
      /\ fAt'[w] = "stretch" /\ \A p \in F!Procs \ {w} : fAt'[p] = fAt[p]
  BY <1>1, <1>2 DEF F!TypeOK
<1>5. exists' \in BOOLEAN /\ quiet' \in BOOLEAN
  BY <1>2
<1>6. F!TypeOK' /\ F!All' = F!All /\ F!InFile' = F!InFile
  BY <1>1, <1>2, <1>3, <1>4, <1>5 DEF F!TypeOK, F!All, F!InFile
<1>7. DoneInv'
  BY <1>1, <1>2, <1>4, <1>6 DEF DoneInv, MappedIInv
<1>8. Opener(w)'
  BY <1>4 DEF Opener
<1>9. ASSUME NEW v \in F!Writers, fKind = "object", fAt'[v] # "start" PROVE Opener(v)'
  <2>1. CASE v = w
    BY <1>8, <2>1
  <2>2. CASE v # w
    <3>1. Opener(v) /\ fAt'[v] = fAt[v]
      BY <1>1, <1>4, <1>9, <2>2 DEF MappedIInv, OpenerInv
    <3>2. QED
      BY <1>2, <1>6, <1>9, <3>1 DEF Opener
  <2>3. QED
    BY <2>1, <2>2
<1>10. OpenerInv'
  BY <1>1, <1>2, <1>4, <1>8, <1>9 DEF OpenerInv, MappedIInv
<1>11. ReaderInv' /\ QuietInv'
  BY <1>1, <1>2, <1>4 DEF ReaderInv, QuietInv, MappedIInv
<1>12. QED
  BY <1>6, <1>7, <1>10, <1>11 DEF MappedIInv

(* It makes the file long enough.                                           *)
LEMMA StretchStep ==
  ASSUME MappedIInv, NEW w \in F!Writers, F!Stretch(w)
  PROVE  MappedIInv'
<1>1. F!TypeOK /\ w \in F!Procs /\ "reader" \in F!Procs \ F!Writers /\ F!Writers \subseteq F!Procs
  BY DEF MappedIInv, F!Procs, F!Writers
<1>2. /\ fAt[w] = "stretch" /\ fAt' = [fAt EXCEPT ![w] = "copy"] /\ full' = TRUE
      /\ UNCHANGED <<fKind, exists, written, done, fShown, quiet>>
  BY DEF F!Stretch, F!Goes
<1>3. /\ fAt' \in [F!Procs -> {"start", "stretch", "copy", "show", "ended", "failed", "SIGBUS"}]
      /\ fAt'[w] = "copy" /\ \A p \in F!Procs \ {w} : fAt'[p] = fAt[p]
  BY <1>1, <1>2 DEF F!TypeOK
<1>4. full' \in BOOLEAN
  BY <1>2
<1>5. F!TypeOK' /\ F!All' = F!All /\ F!InFile' = F!InFile /\ F!All # {}
  BY <1>1, <1>2, <1>3, <1>4, LabsAssumption DEF F!TypeOK, F!All, F!InFile
<1>6. done[w] = {}
  BY <1>2 DEF MappedIInv, DoneInv
<1>7. DoneInv'
  BY <1>1, <1>2, <1>3, <1>5, <1>6 DEF DoneInv, MappedIInv
<1>8. Opener(w)'
  BY <1>2, <1>3, <1>6 DEF Opener
<1>9. ASSUME NEW v \in F!Writers, Opener(v) PROVE Opener(v)'
  <2>1. v # w => fAt'[v] = fAt[v]
    BY <1>1, <1>3
  <2>2. QED
    BY <1>2, <1>5, <1>8, <1>9, <2>1 DEF Opener
<1>10. OpenerInv'
  <2>1. \A v \in F!Writers : fAt'[v] = "start" <=> fAt[v] = "start"
    BY <1>1, <1>2, <1>3
  <2>2. \A v \in F!Writers : fAt'[v] = "SIGBUS" <=> fAt[v] = "SIGBUS"
    BY <1>1, <1>2, <1>3
  <2>3. QED
    BY <1>2, <1>8, <1>9, <2>1, <2>2 DEF OpenerInv, MappedIInv
<1>11. ReaderInv' /\ QuietInv'
  <2>1. ~quiet
    BY <1>2 DEF MappedIInv, QuietInv
  <2>2. QED
    BY <1>1, <1>2, <1>3, <2>1 DEF ReaderInv, QuietInv, MappedIInv
<1>12. QED
  BY <1>5, <1>7, <1>10, <1>11 DEF MappedIInv

(* It writes its next cell, or gets SIGBUS where the file is too short.     *)
LEMMA CopyStep ==
  ASSUME MappedIInv, NEW w \in F!Writers, F!Copy(w)
  PROVE  MappedIInv'
<1>1. F!TypeOK /\ w \in F!Procs /\ "reader" \in F!Procs \ F!Writers /\ F!Writers \subseteq F!Procs
  BY DEF MappedIInv, F!Procs, F!Writers
<1>2. /\ fAt[w] = "copy" /\ UNCHANGED <<fKind, exists, full, fShown, quiet>> /\ F!All' = F!All /\ F!InFile' = F!InFile
  BY DEF F!Copy, F!All, F!InFile
<1>3. ~quiet
  BY <1>2 DEF MappedIInv, QuietInv
<1>4. CASE ~full
  <2>1. fAt' = [fAt EXCEPT ![w] = "SIGBUS"] /\ UNCHANGED <<written, done>>
    BY <1>4 DEF F!Copy, F!Goes
  <2>2. /\ fAt' \in [F!Procs -> {"start", "stretch", "copy", "show", "ended", "failed", "SIGBUS"}]
        /\ fAt'[w] = "SIGBUS" /\ \A p \in F!Procs \ {w} : fAt'[p] = fAt[p]
    BY <1>1, <2>1 DEF F!TypeOK
  <2>3. F!TypeOK'
    BY <1>1, <1>2, <2>1, <2>2 DEF F!TypeOK
  <2>4. DoneInv'
    BY <1>1, <1>2, <2>1, <2>2 DEF DoneInv, MappedIInv
  <2>5. PICK v \in F!Writers : Opener(v) /\ v # w /\ exists
    BY <1>2, <1>4 DEF MappedIInv, OpenerInv, Opener
  <2>6. fKind = "file"
    BY <1>2, <1>4 DEF MappedIInv, OpenerInv, Opener, F!TypeOK
  <2>7. Opener(v)' /\ fAt[v] # "start"
    BY <1>1, <1>2, <2>1, <2>2, <2>5 DEF Opener
  <2>8. \A u \in F!Writers : fAt'[u] # "start"
    BY <1>1, <1>2, <2>2, <2>5, <2>7 DEF F!Writers
  <2>9. OpenerInv'
    BY <1>2, <2>5, <2>6, <2>7, <2>8 DEF OpenerInv
  <2>10. ReaderInv' /\ QuietInv'
    BY <1>1, <1>2, <1>3, <2>2 DEF ReaderInv, QuietInv, MappedIInv
  <2>11. QED
    BY <2>3, <2>4, <2>9, <2>10 DEF MappedIInv
<1>5. CASE full
  <2>1. PICK j \in F!All \ done[w] :
          /\ written' = written \cup {j} /\ done' = [done EXCEPT ![w] = @ \cup {j}]
          /\ fAt' = [fAt EXCEPT ![w] = IF done'[w] = F!All THEN "ended" ELSE "copy"]
    BY <1>5 DEF F!Copy, F!Goes
  <2>2. PICK to \in {"ended", "copy"} : to = (IF done'[w] = F!All THEN "ended" ELSE "copy")
    OBVIOUS
  <2>3. /\ fAt' \in [F!Procs -> {"start", "stretch", "copy", "show", "ended", "failed", "SIGBUS"}]
        /\ fAt'[w] = to /\ \A p \in F!Procs \ {w} : fAt'[p] = fAt[p]
    BY <1>1, <2>1, <2>2 DEF F!TypeOK
  <2>4. /\ done' \in [F!Procs -> SUBSET F!All] /\ done'[w] = done[w] \cup {j}
        /\ \A p \in F!Procs \ {w} : done'[p] = done[p]
    BY <1>1, <2>1 DEF F!TypeOK
  <2>5. F!TypeOK'
    BY <1>1, <1>2, <2>1, <2>3, <2>4 DEF F!TypeOK
  <2>6. DoneInv'
    BY <1>1, <1>2, <2>2, <2>3, <2>4 DEF DoneInv, MappedIInv
  <2>7. ASSUME NEW v \in F!Writers, Opener(v) PROVE Opener(v)'
    <3>1. CASE v = w
      BY <1>2, <1>5, <2>1, <2>2, <2>3, <2>4, <2>7, <3>1 DEF Opener
    <3>2. CASE v # w
      BY <1>1, <1>2, <2>1, <2>3, <2>4, <2>7, <3>2 DEF Opener
    <3>3. QED
      BY <3>1, <3>2
  <2>8. OpenerInv'
    <3>1. \A v \in F!Writers : fAt'[v] = "start" <=> fAt[v] = "start"
      BY <1>1, <1>2, <2>2, <2>3
    <3>2. \A v \in F!Writers : fAt'[v] = "SIGBUS" <=> fAt[v] = "SIGBUS"
      BY <1>1, <1>2, <2>2, <2>3
    <3>3. QED
      BY <1>2, <2>7, <3>1, <3>2 DEF OpenerInv, MappedIInv
  <2>9. ReaderInv' /\ QuietInv'
    BY <1>1, <1>2, <1>3, <2>3 DEF ReaderInv, QuietInv, MappedIInv
  <2>10. QED
    BY <2>5, <2>6, <2>8, <2>9 DEF MappedIInv
<1>6. QED
  BY <1>1, <1>4, <1>5 DEF F!TypeOK

(* The last page is written back, and what lay beyond the end of the file   *)
(* is lost.                                                                 *)
LEMMA WriteBackStep ==
  ASSUME MappedIInv, F!WriteBack
  PROVE  MappedIInv'
<1>1. /\ fKind = "file" /\ written' = written \ {Cells} /\ F!All' = F!All /\ F!InFile' = F!InFile
      /\ UNCHANGED <<fKind, exists, full, fAt, done, fShown, quiet>>
  BY DEF F!WriteBack, F!All, F!InFile
<1>2. F!TypeOK'
  BY <1>1 DEF MappedIInv, F!TypeOK
<1>3. \A w : Opener(w) => Opener(w)'
  BY <1>1 DEF Opener, F!InFile
<1>4. QED
  BY <1>1, <1>2, <1>3 DEF MappedIInv, DoneInv, OpenerInv, QuietInv, ReaderInv

(* When all writers that began have ended, what they wrote is there.        *)
LEMMA AllWritten ==
  ASSUME MappedIInv, \E w \in F!Writers : fAt[w] = "ended", \A w \in F!Writers : fAt[w] \in {"start", "ended"}
  PROVE  exists /\ full /\ F!InFile \subseteq written
<1>1. exists /\ \E w \in F!Writers : Opener(w)
  BY DEF MappedIInv, OpenerInv
<1>2. PICK w \in F!Writers : Opener(w) /\ fAt[w] = "ended"
  BY <1>1 DEF Opener
<1>3. QED
  BY <1>1, <1>2 DEF MappedIInv, DoneInv, Opener, F!InFile

(* The reader opens the file.                                               *)
LEMMA OpenToReadStep ==
  ASSUME MappedIInv, F!OpenToRead
  PROVE  MappedIInv'
<1>1. F!TypeOK /\ "reader" \in F!Procs \ F!Writers /\ F!Writers \subseteq F!Procs
  BY DEF MappedIInv, F!Procs, F!Writers
<1>2. PICK to \in {"failed", "ended", "show"} :
      /\ to = (IF fKind = "file" /\ ~exists THEN "failed" ELSE IF fKind = "object" /\ ~full THEN "ended" ELSE "show")
      /\ fAt["reader"] = "start" /\ fAt' = [fAt EXCEPT !["reader"] = to]
      /\ exists' = (exists \/ fKind = "object")
      /\ quiet' = ((\E w \in F!Writers : fAt[w] = "ended") /\ \A w \in F!Writers : fAt[w] \in {"start", "ended"})
      /\ UNCHANGED <<fKind, full, written, done, fShown>> /\ F!All' = F!All /\ F!InFile' = F!InFile
  BY DEF F!OpenToRead, F!Goes, F!All, F!InFile
<1>3. /\ fAt' \in [F!Procs -> {"start", "stretch", "copy", "show", "ended", "failed", "SIGBUS"}]
      /\ fAt'["reader"] = to /\ \A p \in F!Procs \ {"reader"} : fAt'[p] = fAt[p]
  BY <1>1, <1>2 DEF F!TypeOK
<1>4. exists' \in BOOLEAN
  BY <1>1, <1>2 DEF F!TypeOK
<1>5. quiet' \in BOOLEAN
  BY <1>2
<1>6. F!TypeOK'
  BY <1>1, <1>2, <1>3, <1>4, <1>5 DEF F!TypeOK
<1>7. \A w \in F!Writers : fAt'[w] = fAt[w] /\ (Opener(w) => Opener(w)')
  BY <1>1, <1>2, <1>3 DEF Opener
<1>8. done["reader"] = {} /\ F!All # {}
  BY <1>2, LabsAssumption DEF MappedIInv, DoneInv, F!All
<1>9. DoneInv'
  <2>1. \A p \in F!Procs : p \in F!Writers \/ p = "reader"
    BY DEF F!Procs
  <2>2. QED
    BY <1>1, <1>2, <1>3, <1>7, <1>8, <2>1 DEF MappedIInv, DoneInv
<1>10. OpenerInv'
  BY <1>2, <1>7 DEF MappedIInv, OpenerInv
<1>11. ReaderInv'
  BY <1>2, <1>3 DEF ReaderInv
<1>12. QuietInv'
  <2>1. ASSUME quiet' PROVE to = "show"
    BY <1>2, <2>1, AllWritten
  <2>2. QED
    BY <1>2, <1>3, <1>7, <1>8, <2>1 DEF QuietInv
<1>13. QED
  BY <1>6, <1>9, <1>10, <1>11, <1>12 DEF MappedIInv

(* The reader shows its next cell, or gets SIGBUS.                          *)
LEMMA ShowStep ==
  ASSUME MappedIInv, F!Show
  PROVE  MappedIInv'
<1>1. F!TypeOK /\ "reader" \in F!Procs \ F!Writers /\ F!Writers \subseteq F!Procs
  BY DEF MappedIInv, F!Procs, F!Writers
<1>2. /\ fAt["reader"] = "show" /\ UNCHANGED <<fKind, exists, full, written, quiet>>
      /\ F!All' = F!All /\ F!InFile' = F!InFile
  BY DEF F!Show, F!All, F!InFile
<1>3. PICK to \in {"SIGBUS", "ended", "show"} : fAt' = [fAt EXCEPT !["reader"] = to]
  BY DEF F!Show, F!Goes
<1>4. /\ fAt' \in [F!Procs -> {"start", "stretch", "copy", "show", "ended", "failed", "SIGBUS"}]
      /\ fAt'["reader"] = to /\ \A p \in F!Procs \ {"reader"} : fAt'[p] = fAt[p]
  BY <1>1, <1>3 DEF F!TypeOK
<1>5. quiet => full /\ F!InFile \subseteq written
  BY AllWritten DEF MappedIInv, QuietInv
<1>6. CASE ~full
  <2>1. to = "SIGBUS" /\ UNCHANGED <<fShown, done>>
    BY <1>1, <1>4, <1>6 DEF F!Show, F!Goes, F!TypeOK
  <2>2. F!TypeOK'
    BY <1>1, <1>2, <1>4, <2>1 DEF F!TypeOK
  <2>3. \A w \in F!Writers : fAt'[w] = fAt[w] /\ (Opener(w) => Opener(w)')
    BY <1>1, <1>2, <1>4, <2>1 DEF Opener
  <2>4. ReaderInv' /\ ~quiet
    BY <1>1, <1>2, <1>4, <1>5, <1>6, <2>1 DEF MappedIInv, ReaderInv, F!TypeOK
  <2>5. DoneInv'
    BY <1>1, <1>2, <1>4, <2>1 DEF MappedIInv, DoneInv
  <2>6. OpenerInv' /\ QuietInv'
    BY <1>2, <2>3, <2>4 DEF MappedIInv, OpenerInv, QuietInv
  <2>7. QED
    BY <2>2, <2>4, <2>5, <2>6 DEF MappedIInv
<1>7. CASE full
  <2>1. PICK j : j = F!Lowest(done["reader"])
    OBVIOUS
  <2>2. /\ fShown' = IF j \in written THEN fShown \cup {j} ELSE fShown
        /\ done' = [done EXCEPT !["reader"] = @ \cup {j}]
        /\ fAt' = [fAt EXCEPT !["reader"] = IF done'["reader"] = F!All THEN "ended" ELSE "show"]
    BY <1>7, <2>1 DEF F!Show, F!Goes
  <2>3. j \in F!All \ done["reader"]
    BY <1>1, <1>2, <2>1, LowestIs DEF MappedIInv, DoneInv, F!TypeOK
  <2>4. /\ done' \in [F!Procs -> SUBSET F!All] /\ done'["reader"] = done["reader"] \cup {j}
        /\ \A p \in F!Procs \ {"reader"} : done'[p] = done[p]
    BY <1>1, <2>2, <2>3 DEF F!TypeOK
  <2>5. to = (IF done'["reader"] = F!All THEN "ended" ELSE "show")
    BY <1>1, <1>4, <2>2 DEF F!TypeOK
  <2>6. F!TypeOK'
    BY <1>1, <1>2, <1>4, <2>2, <2>3, <2>4 DEF F!TypeOK
  <2>7. \A w \in F!Writers : fAt'[w] = fAt[w] /\ done'[w] = done[w] /\ (Opener(w) => Opener(w)')
    BY <1>1, <1>2, <1>4, <2>4 DEF Opener
  <2>8. DoneInv'
    <3>1. \A p \in F!Procs : p \in F!Writers \/ p = "reader"
      BY DEF F!Procs
    <3>2. QED
      BY <1>1, <1>2, <1>4, <2>4, <2>5, <2>7, <3>1 DEF MappedIInv, DoneInv
  <2>9. OpenerInv' /\ ReaderInv'
    BY <1>2, <1>4, <1>7, <2>5, <2>7 DEF MappedIInv, OpenerInv, ReaderInv
  <2>10. QuietInv'
    <3>1. ASSUME quiet PROVE F!InFile \cap done'["reader"] \subseteq fShown'
      BY <1>2, <1>5, <2>2, <2>4, <3>1 DEF MappedIInv, QuietInv
    <3>2. QED
      BY <1>2, <1>4, <2>5, <2>7, <3>1 DEF MappedIInv, QuietInv, F!InFile
  <2>11. QED
    BY <2>6, <2>8, <2>9, <2>10 DEF MappedIInv
<1>8. QED
  BY <1>1, <1>6, <1>7 DEF F!TypeOK

(* Every step of MappedMemory keeps the invariant.                          *)
LEMMA MappedNext ==
  ASSUME MappedIInv, F!Next
  PROVE  MappedIInv'
BY OpenToWriteStep, StretchStep, CopyStep, WriteBackStep, OpenToReadStep, ShowStep DEF F!Next, F!Step
-----------------------------------------------------------------------------
(* The programs of Handoff hand over as they should, for any number of      *)
(* turns and tokens: parent and child print in turn, there is one token at  *)
(* most, the shelf holds one batch, and one SIGQUIT ends nothing and is not *)
(* lost.  And what those of MappedMemory have written is read.               *)
THEOREM HandoffIsSafe == MCSpec => []HandoffInv
<1>1. MCInit => HandoffIInv /\ MappedIInv
  BY HandoffInit, MappedInit DEF MCInit
<1>2. HandoffIInv /\ MappedIInv /\ [MCNext]_mcVars => HandoffIInv' /\ MappedIInv'
  <2>1. SUFFICES ASSUME HandoffIInv, MappedIInv, [MCNext]_mcVars PROVE HandoffIInv' /\ MappedIInv'
    OBVIOUS
  <2>2. UNCHANGED hVars => HandoffIInv'
    BY <2>1 DEF hVars, HandoffIInv, H!TypeOK, OthersAreOff, H!OneBatch, AltInv, Alternates, FirstIsParent, AltStarting,
      AltRunning, HeldBy, Last1, SemopInv, OneshotInv, InShm, SyncInv, SyncStarting, InTheirTurns, HasTurn, Kills,
      HasKilled, Waits, Counts, ChildHasEnded, CritInv
  <2>3. UNCHANGED fVars => MappedIInv'
    BY <2>1 DEF fVars, MappedIInv, F!TypeOK, DoneInv, OpenerInv, Opener, QuietInv, ReaderInv, F!InFile
  <2>4. CASE Handoffs(H!Next)
    BY <2>1, <2>3, <2>4, HandoffNext DEF Handoffs
  <2>5. CASE Mapped(F!Next)
    BY <2>1, <2>2, <2>5, MappedNext DEF Mapped
  <2>6. CASE Segment(Next) \/ Queues(Q!Next) \/ UNCHANGED mcVars
    BY <2>2, <2>3, <2>6 DEF Segment, Queues, mcVars
  <2>7. QED
    BY <2>1, <2>4, <2>5, <2>6 DEF MCNext
<1>3. HandoffIInv /\ MappedIInv => HandoffInv
  BY HandoffSafe, MappedSafe DEF HandoffInv
<1>4. QED
  BY <1>1, <1>2, <1>3, PTL DEF MCSpec
-----------------------------------------------------------------------------
(* MessageQueues.                                                          *)

(* Who sends and who receives.                                             *)
Senders == Q!Cos \cup Q!QueueClients \cup {"sender"}
Readers == Q!Mains \cup {"server", "notifier", "receiver"}
Notified == {"notifier", "sender", "receiver"}

QPlace == {"off", "start", "open", "fork", "wait", "receive", "blocked", "type", "send",
           "register", "suspend", "rearm", "drain", "ended", "killed"}
QueueType == [alive : BOOLEAN, msgs : Seq(Q!Msgs)]

QueuesType ==
  /\ program \in {"lab3", "msgq", "notify"}
  /\ at \in [Q!Procs -> QPlace] /\ line \in [Q!Procs -> Q!Msgs] /\ typed \in [Q!Procs -> 0 .. MaxLines]
  /\ queue \in Seq(QueueType) /\ \A q \in 1 .. Len(queue) : Len(queue[q].msgs) <= Capacity
  /\ id \in [Q!Procs -> 0 .. Len(queue)]
  /\ current \in 0 .. Len(queue) /\ (current # 0 => queue[current].alive)
  /\ shown \in [Q!Procs -> Seq(Q!Msgs)] /\ old \subseteq Q!Msgs
  /\ armed \in BOOLEAN /\ pending \in BOOLEAN /\ zero \in BOOLEAN /\ behind \in BOOLEAN

(* The processes of the programs that are not run stay off; one that is past *)
(* its opening has a queue, and before that it has shown nothing.           *)
PlacesInv ==
  /\ program # "lab3" => \A p \in Q!Mains \cup Q!Cos : at[p] = "off"
  /\ program # "msgq" => \A p \in Q!QueueClients \cup {"server"} : at[p] = "off"
  /\ program # "notify" => \A p \in Notified : at[p] = "off"
  /\ \A p \in Q!Procs : at[p] \notin {"off", "start", "open"} => id[p] # 0
  /\ \A r \in Readers : at[r] \in {"off", "start", "open"} => shown[r] = <<>>

(* y does not come too late after x.                                        *)
Before(x, y) == x.by = y.by => x.n < y.n \/ y.n = 0
InOrder(s) == \A j, k \in 1 .. Len(s) : j < k => Before(s[j], s[k])
Follows(s, t) == \A j \in 1 .. Len(s) : \A k \in 1 .. Len(t) : Before(s[j], t[k])
OrderInv ==
  /\ \A q \in 1 .. Len(queue) : InOrder(queue[q].msgs)
  /\ \A r \in Readers : InOrder(shown[r])
  /\ \A r \in Readers : id[r] # 0 => Follows(shown[r], queue[id[r]].msgs)

(* A message is of a line typed before the one that its sender is about to  *)
(* send.                                                                   *)
Past(m) ==
  m.by \in Senders => m.n <= typed[m.by] /\ (at[m.by] = "send" => m.n < typed[m.by] \/ m.n = 0)
AllPast(s) == \A k \in 1 .. Len(s) : Past(s[k])
SendingInv == \A s \in Senders : at[s] = "send" => line[s].by = s /\ line[s].n \in {0, typed[s]}
PastInv ==
  /\ SendingInv
  /\ \A q \in 1 .. Len(queue) : AllPast(queue[q].msgs)
  /\ \A r \in Readers : AllPast(shown[r])
  /\ \A m \in old : Past(m)

(* mq.c: the queue of a main that was started second holds nothing old; and *)
(* as long as there is one main, all is from its co_process.                *)
FreshOf(s, o) == \A k \in 1 .. Len(s) : s[k] \notin o \/ s[k].n = 0
Fresh(q) == FreshOf(queue[q].msgs, old)
AllBy(s, c) == \A k \in 1 .. Len(s) : s[k].by = c
OneMainInv ==
  /\ old = {} /\ at["co2"] = "off" /\ AllBy(shown["main1"], "co1")
  /\ at["main1"] \in {"off", "start", "open"} => at["co1"] = "off"
  /\ at["main1"] = "open" => current = 0
  /\ at["main1"] \notin {"off", "start", "open"} => id["main1"] # 0 /\ AllBy(queue[id["main1"]].msgs, "co1")
Lab3Inv ==
  /\ at["main2"] = "start" => OneMainInv
  /\ at["main2"] = "open" /\ current # 0 => Fresh(current)
  /\ at["main2"] \notin {"off", "start", "open"} => id["main2"] # 0 /\ Fresh(id["main2"])
  /\ \A m \in Q!Mains : \A k \in 1 .. Len(shown[m]) : shown[m][k].n # 0
  /\ \A k \in 1 .. Len(shown["main2"]) : shown["main2"][k] \notin old

(* mq_notify.c: all have one queue.                                        *)
NotifyInv ==
  /\ \A p \in Notified : id[p] \in {0, current}
  /\ at["receiver"] = "blocked" => queue[current].msgs = <<>>
  /\ behind => armed /\ id["notifier"] # 0 /\ queue[current].msgs # <<>>
  /\ at["notifier"] = "drain" => armed \/ pending
  /\ at["notifier"] = "suspend" =>
       (IF queue[current].msgs = <<>> THEN armed \/ pending ELSE pending \/ behind)

QueuesIInv ==
  /\ QueuesType /\ PlacesInv /\ OrderInv /\ PastInv
  /\ program = "lab3" => Lab3Inv
  /\ program = "notify" => NotifyInv
-----------------------------------------------------------------------------
(* The processes by their names.                                            *)
LEMMA QueueNames ==
  /\ Q!Procs = {"main1", "main2", "co1", "co2", "client1", "client2", "server", "notifier", "sender", "receiver"}
  /\ Q!Cos = {"co1", "co2"} /\ Q!Mains = {"main1", "main2"} /\ Q!QueueClients = {"client1", "client2"}
  /\ Senders = {"co1", "co2", "client1", "client2", "sender"} /\ Senders \subseteq Q!Procs
  /\ Readers = {"main1", "main2", "server", "notifier", "receiver"} /\ Readers \subseteq Q!Procs
  /\ Q!CoOf["main1"] = "co1" /\ Q!CoOf["main2"] = "co2"
<1>1. Q!Cos = {"co1", "co2"}
  BY DEF Q!Cos, Q!MainOf
<1>2. QED
  BY <1>1 DEF Q!Procs, Q!Mains, Q!QueueClients, Q!CoOf, Senders, Readers

(* A message added to the end of a queue, and one taken from its front.     *)
LEMMA Appended ==
  ASSUME NEW s \in Seq(Q!Msgs), NEW m \in Q!Msgs
  PROVE  /\ Append(s, m) \in Seq(Q!Msgs) /\ Len(Append(s, m)) = Len(s) + 1 /\ Len(s) \in Nat
         /\ Append(s, m)[Len(s) + 1] = m
         /\ \A k \in 1 .. Len(s) : Append(s, m)[k] = s[k]
         /\ \A k \in 1 .. Len(Append(s, m)) : k \in 1 .. Len(s) \/ k = Len(s) + 1
         /\ Append(s, m) # <<>>
<1>1. Append(s, m) \in Seq(Q!Msgs) /\ Len(Append(s, m)) = Len(s) + 1 /\ Len(s) \in Nat
  OBVIOUS
<1>2. Append(s, m)[Len(s) + 1] = m
  OBVIOUS
<1>3. \A k \in 1 .. Len(s) : Append(s, m)[k] = s[k]
  OBVIOUS
<1>4. QED
  BY <1>1, <1>2, <1>3

(* The first message of a sequence, and what is left without it.            *)
LEMMA HeadAndTail ==
  ASSUME NEW s \in Seq(Q!Msgs), s # <<>>
  PROVE  /\ Tail(s) \in Seq(Q!Msgs) /\ Len(Tail(s)) = Len(s) - 1 /\ Len(s) \in Nat \ {0}
         /\ Head(s) = s[1] /\ Head(s) \in Q!Msgs /\ 1 \in 1 .. Len(s)
         /\ \A k \in 1 .. Len(Tail(s)) : Tail(s)[k] = s[k + 1] /\ k + 1 \in 2 .. Len(s) /\ k + 1 \in 1 .. Len(s)
         /\ Tail(s) = <<>> <=> ~(Len(s) > 1)
<1>1. Tail(s) \in Seq(Q!Msgs) /\ Len(Tail(s)) = Len(s) - 1 /\ Len(s) \in Nat \ {0}
  OBVIOUS
<1>2. Head(s) = s[1] /\ Head(s) \in Q!Msgs /\ 1 \in 1 .. Len(s)
  BY <1>1
<1>3. \A k \in 1 .. Len(Tail(s)) : Tail(s)[k] = s[k + 1] /\ k + 1 \in 2 .. Len(s) /\ k + 1 \in 1 .. Len(s)
  BY <1>1
<1>4. Tail(s) = <<>> <=> Len(Tail(s)) = 0
  BY <1>1
<1>5. QED
  BY <1>1, <1>2, <1>3, <1>4

(* A message that is before none of them goes to the end of the order.      *)
LEMMA OrderAppended ==
  ASSUME NEW s \in Seq(Q!Msgs), NEW m \in Q!Msgs, InOrder(s),
         \A k \in 1 .. Len(s) : Before(s[k], m)
  PROVE  InOrder(Append(s, m))
BY Appended DEF InOrder

(* What is left without the first is in order, and after it.                *)
LEMMA OrderTail ==
  ASSUME NEW s \in Seq(Q!Msgs), s # <<>>, InOrder(s)
  PROVE  /\ InOrder(Tail(s))
         /\ \A k \in 1 .. Len(Tail(s)) : Before(Head(s), Tail(s)[k])
<1>1. ASSUME NEW j \in 1 .. Len(Tail(s)), NEW k \in 1 .. Len(Tail(s)), j < k PROVE Before(Tail(s)[j], Tail(s)[k])
  <2>1. j + 1 \in 1 .. Len(s) /\ k + 1 \in 1 .. Len(s) /\ j + 1 < k + 1
    BY <1>1, HeadAndTail
  <2>2. QED
    BY <1>1, <2>1, HeadAndTail DEF InOrder
<1>2. ASSUME NEW k \in 1 .. Len(Tail(s)) PROVE Before(Head(s), Tail(s)[k])
  <2>1. 1 \in 1 .. Len(s) /\ k + 1 \in 1 .. Len(s) /\ 1 < k + 1
    BY <1>2, HeadAndTail
  <2>2. QED
    BY <1>2, <2>1, HeadAndTail DEF InOrder
<1>3. QED
  BY <1>1, <1>2 DEF InOrder
-----------------------------------------------------------------------------
(* The queues after each of the four things that change them.               *)
QueuesTyped == queue \in Seq(QueueType) /\ \A q \in 1 .. Len(queue) : Len(queue[q].msgs) <= Capacity

(* Each queue is a record of its type.                                      *)
LEMMA QueueIs ==
  ASSUME QueuesType, NEW q \in 1 .. Len(queue)
  PROVE  /\ queue[q] \in QueueType /\ queue[q].msgs \in Seq(Q!Msgs) /\ queue[q].alive \in BOOLEAN
         /\ Len(queue) \in Nat /\ QueuesTyped
<1>1. queue[q] \in QueueType
  BY DEF QueuesType
<1>2. QED
  BY <1>1 DEF QueuesType, QueueType, QueuesTyped

(* One queue is replaced by another record.                                 *)
LEMMA QueueBecomes ==
  ASSUME QueuesType, NEW q \in 1 .. Len(queue), NEW t \in Seq(Q!Msgs), Len(t) <= Capacity, NEW b \in BOOLEAN,
         queue' = [queue EXCEPT ![q] = [alive |-> b, msgs |-> t]]
  PROVE  /\ QueuesTyped' /\ Len(queue') = Len(queue)
         /\ queue'[q].msgs = t /\ queue'[q].alive = b
         /\ \A r \in 1 .. Len(queue) : r # q => queue'[r] = queue[r]
<1>1. [alive |-> b, msgs |-> t] \in QueueType
  BY DEF QueueType
<1>2. queue' \in Seq(QueueType) /\ Len(queue') = Len(queue)
  BY <1>1 DEF QueuesType
<1>3. queue'[q] = [alive |-> b, msgs |-> t] /\ \A r \in 1 .. Len(queue) : r # q => queue'[r] = queue[r]
  BY DEF QueuesType
<1>4. QED
  BY <1>2, <1>3 DEF QueuesType, QueuesTyped

(* Removed: it is empty, and the others are as they were.                   *)
LEMMA QueueRemoved ==
  ASSUME QueuesType, NEW q \in 1 .. Len(queue), Q!Removed(q)
  PROVE  /\ QueuesTyped' /\ Len(queue') = Len(queue)
         /\ queue'[q].msgs = <<>> /\ queue'[q].alive = FALSE
         /\ \A r \in 1 .. Len(queue) : r # q => queue'[r] = queue[r]
<1>1. <<>> \in Seq(Q!Msgs) /\ Len(<<>>) <= Capacity
  BY LabsAssumption
<1>2. queue' = [queue EXCEPT ![q] = [alive |-> FALSE, msgs |-> <<>>]]
  BY DEF Q!Removed
<1>3. QED
  BY <1>1, <1>2, QueueBecomes

(* Only its messages are replaced.                                          *)
LEMMA QueueMsgs ==
  ASSUME QueuesType, NEW q \in 1 .. Len(queue), NEW t,
         queue' = [queue EXCEPT ![q].msgs = t]
  PROVE  queue' = [queue EXCEPT ![q] = [alive |-> queue[q].alive, msgs |-> t]]
<1>1. queue[q] \in QueueType
  BY QueueIs
<1>2. [queue[q] EXCEPT !.msgs = t] = [alive |-> queue[q].alive, msgs |-> t]
  BY <1>1 DEF QueueType
<1>3. queue' = [queue EXCEPT ![q] = [queue[q] EXCEPT !.msgs = t]]
  OBVIOUS
<1>4. QED
  BY <1>2, <1>3

(* Take: it has lost its first message.                                     *)
LEMMA QueueTaken ==
  ASSUME QueuesType, NEW p \in Q!Procs, id[p] # 0, Q!Held(p) # <<>>, Q!Take(p)
  PROVE  /\ QueuesTyped' /\ Len(queue') = Len(queue) /\ id[p] \in 1 .. Len(queue)
         /\ Q!Held(p) = queue[id[p]].msgs
         /\ queue[id[p]].msgs \in Seq(Q!Msgs) /\ queue[id[p]].msgs # <<>>
         /\ queue'[id[p]].msgs = Tail(queue[id[p]].msgs) /\ queue'[id[p]].alive = queue[id[p]].alive
         /\ \A r \in 1 .. Len(queue) : r # id[p] => queue'[r] = queue[r]
<1>1. id[p] \in 1 .. Len(queue) /\ Q!Held(p) = queue[id[p]].msgs
  BY DEF QueuesType, Q!Held
<1>2. queue[id[p]].msgs \in Seq(Q!Msgs) /\ Len(queue[id[p]].msgs) <= Capacity /\ queue[id[p]].alive \in BOOLEAN
  BY <1>1, QueueIs DEF QueuesType
<1>3. PICK t : t = Tail(queue[id[p]].msgs)
  OBVIOUS
<1>4. t \in Seq(Q!Msgs) /\ Len(t) <= Capacity
  BY <1>1, <1>2, <1>3, HeadAndTail, LabsAssumption
<1>5. queue' = [queue EXCEPT ![id[p]].msgs = t]
  BY <1>3 DEF Q!Take
<1>6. PICK q \in 1 .. Len(queue) : q = id[p]
  BY <1>1
<1>7. queue' = [queue EXCEPT ![q] = [alive |-> queue[q].alive, msgs |-> t]]
  BY <1>5, <1>6, QueueMsgs
<1>8. QED
  BY <1>1, <1>2, <1>3, <1>4, <1>6, <1>7, QueueBecomes

(* Put: it has the sender's message at its end.                             *)
LEMMA QueuePut ==
  ASSUME QueuesType, NEW p \in Q!Procs, id[p] # 0, Q!Put(p)
  PROVE  /\ QueuesTyped' /\ Len(queue') = Len(queue) /\ id[p] \in 1 .. Len(queue)
         /\ Q!Held(p) = queue[id[p]].msgs
         /\ queue[id[p]].msgs \in Seq(Q!Msgs) /\ line[p] \in Q!Msgs
         /\ queue'[id[p]].msgs = Append(queue[id[p]].msgs, line[p]) /\ queue'[id[p]].alive = queue[id[p]].alive
         /\ \A r \in 1 .. Len(queue) : r # id[p] => queue'[r] = queue[r]
<1>1. id[p] \in 1 .. Len(queue) /\ Q!Held(p) = queue[id[p]].msgs /\ line[p] \in Q!Msgs
  BY DEF QueuesType, Q!Held
<1>2. queue[id[p]].msgs \in Seq(Q!Msgs) /\ Len(queue[id[p]].msgs) < Capacity /\ queue[id[p]].alive \in BOOLEAN
  BY <1>1, QueueIs DEF QueuesType, Q!Put
<1>3. PICK t : t = Append(queue[id[p]].msgs, line[p])
  OBVIOUS
<1>4. t \in Seq(Q!Msgs) /\ Len(t) <= Capacity
  BY <1>1, <1>2, <1>3, Appended, LabsAssumption
<1>5. queue' = [queue EXCEPT ![id[p]].msgs = t]
  BY <1>3 DEF Q!Put
<1>6. PICK q \in 1 .. Len(queue) : q = id[p]
  BY <1>1
<1>7. queue' = [queue EXCEPT ![q] = [alive |-> queue[q].alive, msgs |-> t]]
  BY <1>5, <1>6, QueueMsgs
<1>8. QED
  BY <1>1, <1>2, <1>3, <1>4, <1>6, <1>7, QueueBecomes

(* Open: the process has the queue of the key, which is a new and empty one *)
(* if there was none.                                                       *)
LEMMA QueueOpened ==
  ASSUME QueuesType, NEW p \in Q!Procs, Q!Open(p)
  PROVE  /\ QueuesTyped' /\ Len(queue') >= Len(queue) /\ Len(queue') \in Nat
         /\ current' \in 1 .. Len(queue') /\ queue'[current'].alive
         /\ current # 0 => current' = current /\ queue' = queue
         /\ current = 0 => current' = Len(queue) + 1 /\ queue'[current'].msgs = <<>>
         /\ \A r \in 1 .. Len(queue) : r \in 1 .. Len(queue') /\ queue'[r] = queue[r]
         /\ \A r \in 1 .. Len(queue') : r \in 1 .. Len(queue) \/ (current = 0 /\ r = current')
         /\ id' \in [Q!Procs -> 0 .. Len(queue')]
         /\ id'[p] = current' /\ \A o \in Q!Procs : o # p => id'[o] = id[o]
<1>1. id' = [id EXCEPT ![p] = current'] /\ Len(queue) \in Nat /\ queue \in Seq(QueueType)
  BY DEF Q!Open, QueuesType
<1>2. CASE current # 0
  <2>1. UNCHANGED <<queue, current>>
    BY <1>2 DEF Q!Open
  <2>2. current \in 1 .. Len(queue) /\ queue[current].alive
    BY <1>2 DEF QueuesType
  <2>3. id' \in [Q!Procs -> 0 .. Len(queue')]
    BY <1>1, <2>1, <2>2 DEF QueuesType
  <2>4. id'[p] = current' /\ \A o \in Q!Procs : o # p => id'[o] = id[o]
    BY <1>1 DEF QueuesType
  <2>5. QueuesTyped'
    BY <2>1 DEF QueuesType, QueuesTyped
  <2>6. QED
    BY <1>1, <1>2, <2>1, <2>2, <2>3, <2>4, <2>5
<1>3. CASE current = 0
  <2>1. queue' = Append(queue, Q!Empty) /\ current' = Len(queue) + 1
    BY <1>3 DEF Q!Open
  <2>2. Q!Empty \in QueueType /\ Q!Empty.alive /\ Q!Empty.msgs = <<>>
    BY DEF Q!Empty, QueueType
  <2>3. /\ queue' \in Seq(QueueType) /\ Len(queue') = Len(queue) + 1 /\ queue'[Len(queue) + 1] = Q!Empty
        /\ \A r \in 1 .. Len(queue) : queue'[r] = queue[r]
    BY <1>1, <2>1, <2>2
  <2>4. \A r \in 1 .. Len(queue') : r \in 1 .. Len(queue) \/ r = Len(queue) + 1
    BY <1>1, <2>3
  <2>5. QueuesTyped'
    <3>1. Len(Q!Empty.msgs) <= Capacity
      BY <2>2, LabsAssumption
    <3>2. \A r \in 1 .. Len(queue') : Len(queue'[r].msgs) <= Capacity
      BY <2>3, <2>4, <3>1 DEF QueuesType
    <3>3. QED
      BY <2>3, <3>2 DEF QueuesTyped
  <2>6. id' \in [Q!Procs -> 0 .. Len(queue')]
    BY <1>1, <2>1, <2>3 DEF QueuesType
  <2>7. id'[p] = current' /\ \A o \in Q!Procs : o # p => id'[o] = id[o]
    BY <1>1 DEF QueuesType
  <2>8. QED
    BY <1>1, <1>3, <2>1, <2>2, <2>3, <2>4, <2>5, <2>6, <2>7
<1>4. QED
  BY <1>2, <1>3

(* Shows: the message is the last one that the process has shown.           *)
LEMMA Shown ==
  ASSUME QueuesType, NEW p \in Q!Procs, NEW m \in Q!Msgs, Q!Shows(p, m)
  PROVE  /\ shown' \in [Q!Procs -> Seq(Q!Msgs)] /\ shown[p] \in Seq(Q!Msgs)
         /\ shown'[p] = Append(shown[p], m) /\ \A r \in Q!Procs : r # p => shown'[r] = shown[r]
<1>1. shown[p] \in Seq(Q!Msgs) /\ shown' = [shown EXCEPT ![p] = Append(shown[p], m)]
  BY DEF QueuesType, Q!Shows
<1>2. Append(shown[p], m) \in Seq(Q!Msgs)
  BY <1>1
<1>3. QED
  BY <1>1, <1>2 DEF QueuesType
-----------------------------------------------------------------------------
(* The order of what is in the queues and shown, after each of them.        *)
LEMMA FollowsAppended ==
  ASSUME NEW s \in Seq(Q!Msgs), NEW t \in Seq(Q!Msgs), NEW m \in Q!Msgs, Follows(s, t)
  PROVE  /\ (\A j \in 1 .. Len(s) : Before(s[j], m)) => Follows(s, Append(t, m))
         /\ (\A k \in 1 .. Len(t) : Before(m, t[k])) => Follows(Append(s, m), t)
<1>1. ASSUME \A j \in 1 .. Len(s) : Before(s[j], m) PROVE Follows(s, Append(t, m))
  BY <1>1, Appended DEF Follows
<1>2. ASSUME \A k \in 1 .. Len(t) : Before(m, t[k]) PROVE Follows(Append(s, m), t)
  BY <1>2, Appended DEF Follows
<1>3. QED
  BY <1>1, <1>2

(* What follows a sequence does so without its first message, which comes   *)
(* before all of it.                                                        *)
LEMMA FollowsTail ==
  ASSUME NEW s \in Seq(Q!Msgs), NEW t \in Seq(Q!Msgs), Follows(s, t), t # <<>>
  PROVE  Follows(s, Tail(t)) /\ \A j \in 1 .. Len(s) : Before(s[j], Head(t))
BY HeadAndTail DEF Follows

(* The order after a queue was removed,                                     *)
LEMMA OrderRemoved ==
  ASSUME QueuesType, OrderInv, NEW q \in 1 .. Len(queue), Q!Removed(q), UNCHANGED <<shown, id>>
  PROVE  OrderInv'
<1>1. /\ Len(queue') = Len(queue) /\ queue'[q].msgs = <<>>
      /\ \A r \in 1 .. Len(queue) : r # q => queue'[r] = queue[r]
  BY QueueRemoved
<1>2. \A s : InOrder(<<>>) /\ Follows(s, <<>>)
  BY DEF InOrder, Follows
<1>3. QED
  <2>1. \A k \in 1 .. Len(queue) : InOrder(queue'[k].msgs)
    BY <1>1, <1>2 DEF OrderInv
  <2>2. ASSUME NEW r \in Readers, id[r] # 0 PROVE Follows(shown[r], queue'[id[r]].msgs)
    <3>1. id[r] \in 1 .. Len(queue) /\ Follows(shown[r], queue[id[r]].msgs)
      <4>1. r \in Q!Procs
        BY QueueNames
      <4>2. QED
        BY <2>2, <4>1 DEF OrderInv, QueuesType
    <3>2. QED
      BY <1>1, <1>2, <3>1
  <2>3. QED
    BY <1>1, <2>1, <2>2 DEF OrderInv

(* after one was opened by a process that has shown nothing,                *)
LEMMA OrderOpened ==
  ASSUME QueuesType, OrderInv, NEW p \in Q!Procs, Q!Open(p), p \in Readers => shown[p] = <<>>, UNCHANGED shown
  PROVE  OrderInv'
<1>1. \A s : InOrder(<<>>) /\ Follows(s, <<>>) /\ Follows(<<>>, s)
  BY DEF InOrder, Follows
<1>2. ASSUME NEW q \in 1 .. Len(queue') PROVE InOrder(queue'[q].msgs)
  BY <1>1, QueueOpened DEF OrderInv
<1>3. ASSUME NEW r \in Readers, id'[r] # 0 PROVE Follows(shown'[r], queue'[id'[r]].msgs)
  <2>1. r \in Q!Procs
    BY QueueNames
  <2>2. CASE r = p
    BY <1>1, <2>2
  <2>3. CASE r # p
    <3>1. id'[r] = id[r] /\ id[r] \in 1 .. Len(queue)
      BY <1>3, <2>1, <2>3, QueueOpened DEF QueuesType
    <3>2. queue'[id[r]] = queue[id[r]]
      BY <3>1, QueueOpened
    <3>3. QED
      BY <1>3, <3>1, <3>2 DEF OrderInv
  <2>4. QED
    BY <2>2, <2>3
<1>4. QED
  BY <1>2, <1>3 DEF OrderInv

(* and after a sender's next message was put in.                            *)
LEMMA OrderPut ==
  ASSUME QueuesType, OrderInv, PastInv, NEW p \in Senders, at[p] = "send", id[p] # 0, Q!Put(p), UNCHANGED <<shown, id>>
  PROVE  OrderInv'
<1>1. p \in Q!Procs /\ Readers \subseteq Q!Procs
  BY QueueNames
<1>2. line[p].by = p /\ line[p].n \in {0, typed[p]} /\ typed[p] \in Nat /\ line[p] \in Q!Msgs
  BY <1>1, LabsAssumption DEF PastInv, SendingInv, QueuesType
<1>3. ASSUME NEW m \in Q!Msgs, Past(m) PROVE Before(m, line[p])
  <2>1. m.by = p => m.n < typed[p] \/ m.n = 0
    BY <1>3 DEF Past
  <2>2. m.n \in Nat
    BY LabsAssumption DEF Q!Msgs
  <2>3. QED
    BY <1>2, <2>1, <2>2 DEF Before
<1>4. \A q \in 1 .. Len(queue) : \A k \in 1 .. Len(queue[q].msgs) :
        queue[q].msgs[k] \in Q!Msgs /\ Before(queue[q].msgs[k], line[p])
  BY <1>3, QueueIs DEF PastInv, AllPast
<1>5. \A r \in Readers : shown[r] \in Seq(Q!Msgs) /\ \A k \in 1 .. Len(shown[r]) : Before(shown[r][k], line[p])
  <2>1. ASSUME NEW r \in Readers PROVE shown[r] \in Seq(Q!Msgs)
    BY <1>1 DEF QueuesType
  <2>2. QED
    BY <1>3, <2>1 DEF PastInv, AllPast
<1>6. /\ Len(queue') = Len(queue) /\ id[p] \in 1 .. Len(queue) /\ queue[id[p]].msgs \in Seq(Q!Msgs)
      /\ queue'[id[p]].msgs = Append(queue[id[p]].msgs, line[p])
      /\ \A r \in 1 .. Len(queue) : r # id[p] => queue'[r] = queue[r]
  BY <1>1, QueuePut
<1>7. InOrder(queue'[id[p]].msgs)
  <2>1. InOrder(queue[id[p]].msgs) /\ \A k \in 1 .. Len(queue[id[p]].msgs) : Before(queue[id[p]].msgs[k], line[p])
    BY <1>4, <1>6 DEF OrderInv
  <2>2. QED
    BY <1>2, <1>6, <2>1, OrderAppended
<1>8. ASSUME NEW r \in Readers, id[r] = id[p] PROVE Follows(shown[r], queue'[id[p]].msgs)
  <2>1. Follows(shown[r], queue[id[p]].msgs)
    BY <1>6, <1>8 DEF OrderInv
  <2>2. QED
    BY <1>2, <1>5, <1>6, <2>1, FollowsAppended
<1>9. ASSUME NEW r \in Readers, id[r] # 0 PROVE Follows(shown[r], queue'[id[r]].msgs)
  <2>1. id[r] \in 1 .. Len(queue)
    BY <1>1, <1>9 DEF QueuesType
  <2>2. QED
    BY <1>6, <1>8, <1>9, <2>1 DEF OrderInv
<1>10. QED
  BY <1>6, <1>7, <1>9 DEF OrderInv

(* r takes a message and shows it or not.                                  *)
LEMMA OrderTaken ==
  ASSUME QueuesType, OrderInv, NEW p \in Readers, id[p] # 0, Q!Held(p) # <<>>, Q!Take(p), UNCHANGED id,
         UNCHANGED shown \/ Q!Shows(p, Head(Q!Held(p)))
  PROVE  OrderInv'
<1>1. p \in Q!Procs /\ Readers \subseteq Q!Procs
  BY QueueNames
<1>2. PICK t : t = queue[id[p]].msgs
  OBVIOUS
<1>3. /\ Len(queue') = Len(queue) /\ id[p] \in 1 .. Len(queue) /\ t \in Seq(Q!Msgs) /\ t # <<>>
      /\ queue'[id[p]].msgs = Tail(t) /\ Q!Held(p) = t
      /\ \A r \in 1 .. Len(queue) : r # id[p] => queue'[r] = queue[r]
  BY <1>1, <1>2, QueueTaken
<1>4. InOrder(t) /\ InOrder(Tail(t)) /\ \A k \in 1 .. Len(Tail(t)) : Before(Head(t), Tail(t)[k])
  BY <1>2, <1>3, OrderTail DEF OrderInv
<1>5. \A q \in 1 .. Len(queue') : InOrder(queue'[q].msgs)
  BY <1>3, <1>4 DEF OrderInv
<1>6. Tail(t) \in Seq(Q!Msgs) /\ Head(t) \in Q!Msgs
  BY <1>3, HeadAndTail
<1>7. ASSUME NEW r \in Readers, id[r] # 0
      PROVE  /\ shown[r] \in Seq(Q!Msgs) /\ Follows(shown[r], queue'[id[r]].msgs)
             /\ id[r] = id[p] => \A j \in 1 .. Len(shown[r]) : Before(shown[r][j], Head(t))
  <2>1. id[r] \in 1 .. Len(queue) /\ shown[r] \in Seq(Q!Msgs) /\ Follows(shown[r], queue[id[r]].msgs)
    BY <1>1, <1>7 DEF QueuesType, OrderInv
  <2>2. CASE id[r] = id[p]
    BY <1>2, <1>3, <2>1, <2>2, FollowsTail
  <2>3. CASE id[r] # id[p]
    BY <1>3, <2>1, <2>3
  <2>4. QED
    BY <2>1, <2>2, <2>3
<1>8. CASE UNCHANGED shown
  BY <1>5, <1>7, <1>8 DEF OrderInv
<1>9. CASE Q!Shows(p, Head(t))
  <2>1. shown[p] \in Seq(Q!Msgs) /\ shown'[p] = Append(shown[p], Head(t)) /\ \A r \in Q!Procs : r # p => shown'[r] = shown[r]
    BY <1>1, <1>6, <1>9, Shown
  <2>2. InOrder(shown'[p])
    BY <1>6, <1>7, <2>1, OrderAppended DEF OrderInv
  <2>3. Follows(shown'[p], queue'[id[p]].msgs)
    <3>1. PICK u : u = Tail(t)
      OBVIOUS
    <3>2. PICK m : m = Head(t)
      OBVIOUS
    <3>3. PICK s : s = shown[p]
      OBVIOUS
    <3>4. s \in Seq(Q!Msgs) /\ u \in Seq(Q!Msgs) /\ m \in Q!Msgs
      BY <1>6, <2>1, <3>1, <3>2, <3>3
    <3>5. Follows(s, u)
      BY <1>3, <1>7, <3>1, <3>3
    <3>6. \A k \in 1 .. Len(u) : Before(m, u[k])
      BY <1>4, <3>1, <3>2
    <3>7. Follows(Append(s, m), u)
      BY ONLY <3>4, <3>5, <3>6, FollowsAppended
    <3>8. QED
      BY <1>3, <2>1, <3>1, <3>2, <3>3, <3>7
  <2>4. \A r \in Readers : InOrder(shown'[r]) /\ (id[r] # 0 => Follows(shown'[r], queue'[id[r]].msgs))
    <3>1. \A r \in Readers : r # p => InOrder(shown'[r]) /\ (id[r] # 0 => Follows(shown'[r], queue'[id[r]].msgs))
      BY <1>1, <1>7, <2>1 DEF OrderInv
    <3>2. QED
      BY <2>2, <2>3, <3>1
  <2>5. QED
    BY <1>5, <2>4 DEF OrderInv
<1>10. QED
  BY <1>3, <1>8, <1>9

(* A message given to the receiver that waits at the empty queue.           *)
LEMMA OrderGiven ==
  ASSUME QueuesType, OrderInv, PastInv, NEW s \in Senders, at[s] = "send", NEW p \in Readers,
         id[p] # 0, queue[id[p]].msgs = <<>>, Q!Shows(p, line[s]), UNCHANGED <<queue, id>>
  PROVE  OrderInv'
<1>1. s \in Q!Procs /\ p \in Q!Procs /\ Readers \subseteq Q!Procs
  BY QueueNames
<1>2. line[s].by = s /\ line[s].n \in {0, typed[s]} /\ typed[s] \in Nat /\ line[s] \in Q!Msgs
  BY <1>1, LabsAssumption DEF PastInv, SendingInv, QueuesType
<1>3. ASSUME NEW m \in Q!Msgs, Past(m) PROVE Before(m, line[s])
  <2>1. m.by = s => m.n < typed[s] \/ m.n = 0
    BY <1>3 DEF Past
  <2>2. m.n \in Nat
    BY LabsAssumption DEF Q!Msgs
  <2>3. QED
    BY <1>2, <2>1, <2>2 DEF Before
<1>4. shown[p] \in Seq(Q!Msgs) /\ \A k \in 1 .. Len(shown[p]) : Before(shown[p][k], line[s])
  BY <1>1, <1>3 DEF PastInv, AllPast, QueuesType
<1>5. shown'[p] = Append(shown[p], line[s]) /\ \A r \in Q!Procs : r # p => shown'[r] = shown[r]
  BY <1>1, <1>2, Shown
<1>6. InOrder(shown'[p])
  BY <1>2, <1>4, <1>5, OrderAppended DEF OrderInv
<1>7. \A t : Follows(t, <<>>)
  BY DEF Follows
<1>8. \A r \in Readers : InOrder(shown'[r]) /\ (id[r] # 0 => Follows(shown'[r], queue[id[r]].msgs))
  <2>1. \A r \in Readers : r # p => InOrder(shown'[r]) /\ (id[r] # 0 => Follows(shown'[r], queue[id[r]].msgs))
    BY <1>1, <1>5 DEF OrderInv
  <2>2. QED
    BY <1>6, <1>7, <2>1
<1>9. QED
  BY <1>8 DEF OrderInv

(* Neither queues nor what is shown have changed.                           *)
LEMMA OrderKept ==
  ASSUME OrderInv, UNCHANGED <<queue, shown, id>>
  PROVE  OrderInv'
BY DEF OrderInv
-----------------------------------------------------------------------------
(* A step in which a process types a line, or comes no nearer to sending:    *)
(* what was past stays it.                                                 *)
PastStep ==
  \A s \in Senders :
    typed'[s] = typed[s] + 1 \/ (typed'[s] = typed[s] /\ (at'[s] = "send" => at[s] = "send"))
NowPast(m) ==
  m.by \in Senders => m.n <= typed'[m.by] /\ (at'[m.by] = "send" => m.n < typed'[m.by] \/ m.n = 0)

(* What is past stays past.                                                 *)
LEMMA StaysPast ==
  ASSUME QueuesType, PastStep, NEW m \in Q!Msgs, Past(m)
  PROVE  NowPast(m)
<1>1. SUFFICES ASSUME m.by \in Senders
               PROVE  m.n <= typed'[m.by] /\ (at'[m.by] = "send" => m.n < typed'[m.by] \/ m.n = 0)
  BY DEF NowPast
<1>2. m.by \in Q!Procs /\ m.n \in Nat
  BY <1>1, QueueNames, LabsAssumption DEF Q!Msgs
<1>3. typed[m.by] \in Nat
  BY <1>2, LabsAssumption DEF QueuesType
<1>4. m.n <= typed[m.by] /\ (at[m.by] = "send" => m.n < typed[m.by] \/ m.n = 0)
  BY <1>1 DEF Past
<1>5. typed'[m.by] = typed[m.by] + 1 \/ (typed'[m.by] = typed[m.by] /\ (at'[m.by] = "send" => at[m.by] = "send"))
  BY <1>1 DEF PastStep
<1>6. QED
  BY <1>2, <1>3, <1>4, <1>5

(* And so do all messages that are anywhere.                                *)
LEMMA AllStayPast ==
  ASSUME QueuesType, PastInv, PastStep
  PROVE  /\ \A q \in 1 .. Len(queue) : \A k \in 1 .. Len(queue[q].msgs) : NowPast(queue[q].msgs[k])
         /\ \A r \in Readers : \A k \in 1 .. Len(shown[r]) : NowPast(shown[r][k])
         /\ \A m \in old : NowPast(m)
<1>1. ASSUME NEW q \in 1 .. Len(queue), NEW k \in 1 .. Len(queue[q].msgs) PROVE NowPast(queue[q].msgs[k])
  BY QueueIs, StaysPast DEF PastInv, AllPast
<1>2. ASSUME NEW r \in Readers, NEW k \in 1 .. Len(shown[r]) PROVE NowPast(shown[r][k])
  <2>1. shown[r] \in Seq(Q!Msgs)
    BY QueueNames DEF QueuesType
  <2>2. QED
    BY <2>1, StaysPast DEF PastInv, AllPast
<1>3. ASSUME NEW m \in old PROVE NowPast(m)
  BY StaysPast DEF PastInv, QueuesType
<1>4. QED
  BY <1>1, <1>2, <1>3

(* The parts of PastInv, put together.                                      *)
LEMMA PastFrom ==
  ASSUME SendingInv',
         \A q \in 1 .. Len(queue') : \A k \in 1 .. Len(queue'[q].msgs) : NowPast(queue'[q].msgs[k]),
         \A r \in Readers : \A k \in 1 .. Len(shown'[r]) : NowPast(shown'[r][k]),
         \A m \in old' : NowPast(m)
  PROVE  PastInv'
BY DEF PastInv, AllPast, NowPast, Past

(* PastInv after a step that leaves all messages where they are,            *)
LEMMA PastKept ==
  ASSUME QueuesType, PastInv, PastStep, SendingInv', UNCHANGED <<queue, shown, old>>
  PROVE  PastInv'
BY AllStayPast, PastFrom

(* after an opening,                                                        *)
LEMMA PastOpened ==
  ASSUME QueuesType, PastInv, PastStep, SendingInv', NEW p \in Q!Procs, Q!Open(p), UNCHANGED <<shown, old>>
  PROVE  PastInv'
<1>1. ASSUME NEW q \in 1 .. Len(queue'), NEW k \in 1 .. Len(queue'[q].msgs) PROVE NowPast(queue'[q].msgs[k])
  <2>1. CASE q \in 1 .. Len(queue)
    BY <2>1, AllStayPast, QueueOpened
  <2>2. CASE q \notin 1 .. Len(queue)
    <3>1. queue'[q].msgs = <<>>
      BY <2>2, QueueOpened
    <3>2. QED
      BY <3>1
  <2>3. QED
    BY <2>1, <2>2
<1>2. QED
  BY <1>1, AllStayPast, PastFrom

(* after a removal, where the removed messages may become old ones,         *)
LEMMA PastRemoved ==
  ASSUME QueuesType, PastInv, PastStep, SendingInv', NEW q \in 1 .. Len(queue), Q!Removed(q), UNCHANGED shown,
         old' \subseteq old \cup {queue[q].msgs[k] : k \in 1 .. Len(queue[q].msgs)}
  PROVE  PastInv'
<1>1. ASSUME NEW r \in 1 .. Len(queue'), NEW k \in 1 .. Len(queue'[r].msgs) PROVE NowPast(queue'[r].msgs[k])
  <2>1. r \in 1 .. Len(queue) /\ (r = q => queue'[r].msgs = <<>>) /\ (r # q => queue'[r] = queue[r])
    BY QueueRemoved
  <2>2. CASE r = q
    BY <2>1, <2>2
  <2>3. CASE r # q
    BY <2>1, <2>3, AllStayPast
  <2>4. QED
    BY <2>2, <2>3
<1>2. \A m \in old' : NowPast(m)
  BY AllStayPast
<1>3. QED
  BY <1>1, <1>2, AllStayPast, PastFrom

(* after a message was taken and perhaps shown,                             *)
LEMMA PastTaken ==
  ASSUME QueuesType, PastInv, PastStep, SendingInv', NEW p \in Readers, id[p] # 0, Q!Held(p) # <<>>, Q!Take(p),
         UNCHANGED shown \/ Q!Shows(p, Head(Q!Held(p))), UNCHANGED old
  PROVE  PastInv'
<1>1. p \in Q!Procs /\ Readers \subseteq Q!Procs
  BY QueueNames
<1>2. PICK t : t = queue[id[p]].msgs
  OBVIOUS
<1>3. /\ Len(queue') = Len(queue) /\ id[p] \in 1 .. Len(queue) /\ t \in Seq(Q!Msgs) /\ t # <<>>
      /\ queue'[id[p]].msgs = Tail(t) /\ Q!Held(p) = t
      /\ \A r \in 1 .. Len(queue) : r # id[p] => queue'[r] = queue[r]
  BY <1>1, <1>2, QueueTaken
<1>4. \A k \in 1 .. Len(t) : NowPast(t[k])
  BY <1>2, <1>3, AllStayPast
<1>5. NowPast(Head(t)) /\ Head(t) \in Q!Msgs /\ \A k \in 1 .. Len(Tail(t)) : NowPast(Tail(t)[k])
  BY <1>3, <1>4, HeadAndTail
<1>6. \A q \in 1 .. Len(queue') : \A k \in 1 .. Len(queue'[q].msgs) : NowPast(queue'[q].msgs[k])
  BY <1>3, <1>5, AllStayPast
<1>7. CASE UNCHANGED shown
  BY <1>6, <1>7, AllStayPast, PastFrom
<1>8. CASE Q!Shows(p, Head(t))
  <2>1. shown[p] \in Seq(Q!Msgs) /\ shown'[p] = Append(shown[p], Head(t)) /\ \A r \in Q!Procs : r # p => shown'[r] = shown[r]
    BY <1>1, <1>5, <1>8, Shown
  <2>2. \A k \in 1 .. Len(shown'[p]) : NowPast(shown'[p][k])
    BY <1>5, <2>1, Appended, AllStayPast
  <2>3. \A r \in Readers : \A k \in 1 .. Len(shown'[r]) : NowPast(shown'[r][k])
    BY <1>1, <2>1, <2>2, AllStayPast
  <2>4. QED
    BY <1>6, <2>3, AllStayPast, PastFrom
<1>9. QED
  BY <1>3, <1>7, <1>8

(* Sent: the sender is no longer about to send.                             *)
LEMMA SentIsPast ==
  ASSUME QueuesType, PastInv, NEW s \in Senders, at[s] = "send", at'[s] # "send", UNCHANGED typed
  PROVE  NowPast(line[s]) /\ line[s] \in Q!Msgs
<1>1. s \in Q!Procs /\ line[s].by = s /\ line[s].n \in {0, typed[s]} /\ typed[s] \in Nat /\ line[s] \in Q!Msgs
  <2>1. s \in Q!Procs
    BY QueueNames
  <2>2. QED
    BY <2>1, LabsAssumption DEF PastInv, SendingInv, QueuesType
<1>2. QED
  BY <1>1 DEF NowPast

(* after one was put in,                                                    *)
LEMMA PastPut ==
  ASSUME QueuesType, PastInv, PastStep, SendingInv', NEW s \in Senders, at[s] = "send", at'[s] # "send",
         id[s] # 0, Q!Put(s), UNCHANGED <<typed, shown, old>>
  PROVE  PastInv'
<1>1. s \in Q!Procs
  BY QueueNames
<1>2. PICK t : t = queue[id[s]].msgs
  OBVIOUS
<1>3. PICK m : m = line[s]
  OBVIOUS
<1>4. /\ Len(queue') = Len(queue) /\ id[s] \in 1 .. Len(queue) /\ t \in Seq(Q!Msgs)
      /\ queue'[id[s]].msgs = Append(t, m)
      /\ \A r \in 1 .. Len(queue) : r # id[s] => queue'[r] = queue[r]
  BY <1>1, <1>2, <1>3, QueuePut
<1>5. NowPast(m) /\ m \in Q!Msgs
  BY <1>3, SentIsPast
<1>6. \A k \in 1 .. Len(t) : NowPast(t[k])
  BY <1>2, <1>4, AllStayPast
<1>7. \A k \in 1 .. Len(Append(t, m)) : NowPast(Append(t, m)[k])
  BY <1>4, <1>5, <1>6, Appended
<1>8. \A q \in 1 .. Len(queue') : \A k \in 1 .. Len(queue'[q].msgs) : NowPast(queue'[q].msgs[k])
  BY <1>4, <1>7, AllStayPast
<1>9. QED
  BY <1>8, AllStayPast, PastFrom

(* and after one was handed to a waiting receiver.                          *)
LEMMA PastGiven ==
  ASSUME QueuesType, PastInv, PastStep, SendingInv', NEW s \in Senders, at[s] = "send", at'[s] # "send",
         NEW p \in Readers, Q!Shows(p, line[s]), UNCHANGED <<typed, queue, old>>
  PROVE  PastInv'
<1>1. p \in Q!Procs /\ Readers \subseteq Q!Procs
  BY QueueNames
<1>2. PICK m : m = line[s]
  OBVIOUS
<1>3. NowPast(m) /\ m \in Q!Msgs
  BY <1>2, SentIsPast
<1>4. shown[p] \in Seq(Q!Msgs) /\ shown'[p] = Append(shown[p], m) /\ \A r \in Q!Procs : r # p => shown'[r] = shown[r]
  BY <1>1, <1>2, <1>3, Shown
<1>5. \A k \in 1 .. Len(shown'[p]) : NowPast(shown'[p][k])
  BY <1>3, <1>4, Appended, AllStayPast
<1>6. \A r \in Readers : \A k \in 1 .. Len(shown'[r]) : NowPast(shown'[r][k])
  BY <1>1, <1>4, <1>5, AllStayPast
<1>7. QED
  BY <1>6, AllStayPast, PastFrom
-----------------------------------------------------------------------------
(* One process moves.                                                       *)
LEMMA GoesTo ==
  ASSUME QueuesType, NEW p \in Q!Procs, NEW to \in QPlace, Q!Goes(p, to)
  PROVE  /\ at' \in [Q!Procs -> QPlace] /\ at'[p] = to /\ at[p] \in QPlace
         /\ \A o \in Q!Procs : o # p => at'[o] = at[o]
BY DEF QueuesType, Q!Goes

(* Only processes of the program move, and no further than they may.        *)
LEMMA PlacesStep ==
  ASSUME QueuesIInv, UNCHANGED program, at' \in [Q!Procs -> QPlace],
         \A p \in Q!Procs : at[p] = "off" => at'[p] = "off" \/ (program = "lab3" /\ p \in Q!Cos),
         \A p \in Q!Procs : at'[p] \notin {"off", "start", "open"} => id'[p] # 0,
         \A p \in Readers : at'[p] \in {"off", "start", "open"} => at[p] \in {"off", "start", "open"},
         \A p \in Readers : at'[p] \in {"off", "start", "open"} => shown'[p] = shown[p]
  PROVE  PlacesInv'
<1>1. /\ program # "lab3" => \A p \in Q!Mains \cup Q!Cos : at'[p] = "off"
      /\ program # "msgq" => \A p \in Q!QueueClients \cup {"server"} : at'[p] = "off"
      /\ program # "notify" => \A p \in Notified : at'[p] = "off"
  BY QueueNames DEF QueuesIInv, PlacesInv, Notified
<1>2. \A r \in Readers : at'[r] \in {"off", "start", "open"} => shown'[r] = <<>>
  BY DEF QueuesIInv, PlacesInv
<1>3. QED
  BY <1>1, <1>2 DEF PlacesInv

(* mq.c: what a step does to the queues as far as it matters to the mains.  *)
Sent(m) == \E c \in Q!Cos : at[c] = "send" /\ line[c] = m
Grows(q) ==
  \A k \in 1 .. Len(queue'[q].msgs) :
    (\E j \in 1 .. Len(queue[q].msgs) : queue'[q].msgs[k] = queue[q].msgs[j]) \/ Sent(queue'[q].msgs[k])

(* A queue that holds nothing old stays so, for what is sent is newer than  *)
(* what is old.                                                             *)
LEMMA FreshStays ==
  ASSUME QueuesIInv, NEW q \in 1 .. Len(queue), Grows(q), Fresh(q), UNCHANGED old
  PROVE  Fresh(q)'
<1>1. ASSUME NEW m, Sent(m) PROVE m \notin old \/ m.n = 0
  <2>1. PICK c \in Q!Cos : at[c] = "send" /\ line[c] = m
    BY <1>1 DEF Sent
  <2>2. c \in Senders /\ c \in Q!Procs
    BY QueueNames DEF Senders
  <2>3. m.by = c /\ m.n \in {0, typed[c]} /\ typed[c] \in Nat
    BY <2>1, <2>2, LabsAssumption DEF QueuesIInv, PastInv, SendingInv, QueuesType
  <2>4. m \in old => m.n < typed[c] \/ m.n = 0
    BY <2>1, <2>2, <2>3 DEF QueuesIInv, PastInv, Past
  <2>5. QED
    BY <2>3, <2>4
<1>2. PICK t : t = queue'[q].msgs
  OBVIOUS
<1>3. \A k \in 1 .. Len(t) : (\E j \in 1 .. Len(queue[q].msgs) : t[k] = queue[q].msgs[j]) \/ Sent(t[k])
  BY <1>2 DEF Grows
<1>4. FreshOf(t, old)
  BY <1>1, <1>3 DEF Fresh, FreshOf
<1>5. QED
  BY <1>2, <1>4 DEF Fresh

(* While there is one co_process all messages of a queue stay its own.      *)
LEMMA ByOneStays ==
  ASSUME QueuesIInv, NEW q \in 1 .. Len(queue), Grows(q), AllBy(queue[q].msgs, "co1"), at["co2"] = "off"
  PROVE  AllBy(queue'[q].msgs, "co1")
<1>1. ASSUME NEW m, Sent(m) PROVE m.by = "co1"
  <2>1. PICK c \in Q!Cos : at[c] = "send" /\ line[c] = m
    BY <1>1 DEF Sent
  <2>2. c \in Senders /\ c = "co1"
    BY <2>1, QueueNames DEF Senders
  <2>3. QED
    BY <2>1, <2>2 DEF QueuesIInv, PastInv, SendingInv
<1>2. PICK t : t = queue'[q].msgs
  OBVIOUS
<1>3. \A k \in 1 .. Len(t) : (\E j \in 1 .. Len(queue[q].msgs) : t[k] = queue[q].msgs[j]) \/ Sent(t[k])
  BY <1>2 DEF Grows
<1>4. AllBy(t, "co1")
  BY <1>1, <1>3 DEF AllBy
<1>5. QED
  BY <1>2, <1>4

(* A message from its queue is shown by m, if one is.                      *)
ShowsFrom(m, h) ==
  /\ h \in Q!Msgs /\ h.n # 0 /\ at[m] \notin {"off", "start", "open"}
  /\ \E j \in 1 .. Len(queue[id[m]].msgs) : h = queue[id[m]].msgs[j]
  /\ shown'[m] = Append(shown[m], h)

(* What is stated of the mains stays true in every step but their starting  *)
(* and opening.                                                             *)
LEMMA Lab3Kept ==
  ASSUME QueuesIInv, program = "lab3", UNCHANGED old,
         \A q \in 1 .. Len(queue) : Grows(q),
         \A m \in Q!Mains : id'[m] = id[m],
         \A m \in Q!Mains : at'[m] = at[m] \/ {at[m], at'[m]} \cap {"off", "start", "open"} = {},
         at["main2"] = "start" => at'["co2"] = "off",
         at["main2"] = "start" /\ at["main1"] \in {"off", "start", "open"} => at'["co1"] = at["co1"],
         current' = current \/ (queue'[current'].msgs = <<>> /\ \E c \in Q!Cos : at[c] # "off"),
         \A m \in Q!Mains : shown'[m] = shown[m] \/ \E h \in Q!Msgs : ShowsFrom(m, h)
  PROVE  Lab3Inv'
<1>1. Lab3Inv /\ PlacesInv /\ QueuesType
  BY DEF QueuesIInv
<1>2. /\ "main1" \in Q!Procs /\ "main2" \in Q!Procs /\ "main1" \in Q!Mains /\ "main2" \in Q!Mains
      /\ Q!Mains = {"main1", "main2"} /\ Q!Cos = {"co1", "co2"}
  BY QueueNames
<1>3. \A m \in Q!Mains : shown[m] \in Seq(Q!Msgs)
  BY <1>1, <1>2 DEF QueuesType
<1>4. \A m \in Q!Mains : at[m] \notin {"off", "start", "open"} => id[m] \in 1 .. Len(queue)
  BY <1>1, <1>2 DEF PlacesInv, QueuesType
<1>5. ASSUME at'["main2"] = "start" PROVE OneMainInv'
  <2>1. at["main2"] = "start" /\ OneMainInv
    BY <1>1, <1>2, <1>5 DEF Lab3Inv
  <2>2. AllBy(shown'["main1"], "co1")
    <3>1. CASE shown'["main1"] = shown["main1"]
      BY <2>1, <3>1 DEF OneMainInv
    <3>2. ASSUME NEW h \in Q!Msgs, ShowsFrom("main1", h) PROVE AllBy(shown'["main1"], "co1")
      <4>1. h.by = "co1"
        BY <2>1, <3>2 DEF ShowsFrom, OneMainInv, AllBy
      <4>2. PICK s : s = shown["main1"]
        OBVIOUS
      <4>3. s \in Seq(Q!Msgs) /\ AllBy(s, "co1")
        BY <1>2, <1>3, <2>1, <4>2 DEF OneMainInv
      <4>4. AllBy(Append(s, h), "co1")
        BY <4>1, <4>3, Appended DEF AllBy
      <4>5. QED
        BY <3>2, <4>2, <4>4 DEF ShowsFrom
    <3>3. QED
      BY <1>2, <3>1, <3>2
  <2>3. ASSUME at'["main1"] \notin {"off", "start", "open"}
        PROVE  id'["main1"] # 0 /\ AllBy(queue'[id'["main1"]].msgs, "co1")
    <3>1. at["main1"] \notin {"off", "start", "open"} /\ id["main1"] \in 1 .. Len(queue)
      BY <1>2, <1>4, <2>3
    <3>2. AllBy(queue[id["main1"]].msgs, "co1") /\ at["co2"] = "off"
      BY <2>1, <3>1 DEF OneMainInv
    <3>3. PICK q \in 1 .. Len(queue) : q = id["main1"]
      BY <3>1
    <3>4. AllBy(queue'[q].msgs, "co1")
      BY <3>2, <3>3, ByOneStays
    <3>5. QED
      BY <1>2, <3>3, <3>4
  <2>4. QED
    BY <1>2, <2>1, <2>2, <2>3 DEF OneMainInv
<1>6. ASSUME at'["main2"] = "open", current' # 0 PROVE Fresh(current)'
  <2>1. at["main2"] = "open"
    BY <1>2, <1>6
  <2>2. CASE current' = current
    <3>1. current \in 1 .. Len(queue) /\ Fresh(current)
      BY <1>1, <1>6, <2>1, <2>2 DEF QueuesType, Lab3Inv
    <3>2. PICK q \in 1 .. Len(queue) : q = current
      BY <3>1
    <3>3. Fresh(q)'
      BY <3>1, <3>2, FreshStays
    <3>4. QED
      BY <2>2, <3>2, <3>3 DEF Fresh
  <2>3. CASE queue'[current'].msgs = <<>>
    BY <2>3 DEF Fresh, FreshOf
  <2>4. QED
    BY <2>2, <2>3
<1>7. ASSUME at'["main2"] \notin {"off", "start", "open"} PROVE id'["main2"] # 0 /\ Fresh(id["main2"])'
  <2>1. at["main2"] \notin {"off", "start", "open"} /\ id["main2"] \in 1 .. Len(queue)
    BY <1>2, <1>4, <1>7
  <2>2. PICK q \in 1 .. Len(queue) : q = id["main2"]
    BY <2>1
  <2>3. Fresh(q)'
    BY <1>1, <2>1, <2>2, FreshStays DEF Lab3Inv
  <2>4. QED
    BY <1>2, <2>2, <2>3 DEF Fresh
<1>8. ASSUME NEW m \in Q!Mains
      PROVE  \A k \in 1 .. Len(shown'[m]) : shown'[m][k].n # 0 /\ (m = "main2" => shown'[m][k] \notin old)
  <2>1. \A k \in 1 .. Len(shown[m]) : shown[m][k].n # 0 /\ (m = "main2" => shown[m][k] \notin old)
    BY <1>1, <1>8 DEF Lab3Inv
  <2>2. CASE shown'[m] = shown[m]
    BY <2>1, <2>2
  <2>3. ASSUME NEW h \in Q!Msgs, ShowsFrom(m, h)
        PROVE  \A k \in 1 .. Len(shown'[m]) : shown'[m][k].n # 0 /\ (m = "main2" => shown'[m][k] \notin old)
    <3>1. h.n # 0 /\ (m = "main2" => h \notin old)
      BY <1>1, <2>3 DEF ShowsFrom, Lab3Inv, Fresh, FreshOf
    <3>2. PICK s : s = shown[m]
      OBVIOUS
    <3>3. PICK t : t = Append(s, h)
      OBVIOUS
    <3>4. s \in Seq(Q!Msgs)
      BY <1>3, <3>2
    <3>5. \A k \in 1 .. Len(t) : t[k].n # 0 /\ (m = "main2" => t[k] \notin old)
      BY <2>1, <3>1, <3>2, <3>3, <3>4, Appended
    <3>6. QED
      BY <2>3, <3>2, <3>3, <3>5 DEF ShowsFrom
  <2>4. QED
    BY <2>2, <2>3
<1>9. QED
  <2>1. at'["main2"] \notin {"off", "start", "open"} => id'["main2"] # 0 /\ Fresh(id["main2"])'
    BY <1>7
  <2>2. \A m \in Q!Mains : \A k \in 1 .. Len(shown'[m]) : shown'[m][k].n # 0
    BY <1>8
  <2>3. \A k \in 1 .. Len(shown'["main2"]) : shown'["main2"][k] \notin old'
    BY <1>2, <1>8
  <2>4. QED
    BY <1>5, <1>6, <2>1, <2>2, <2>3 DEF Lab3Inv
-----------------------------------------------------------------------------
(* No process comes to its sending, and those that send keep their message. *)
LEMMA SendingKept ==
  ASSUME SendingInv,
         \A s \in Senders : at'[s] = "send" => at[s] = "send" /\ line'[s] = line[s] /\ typed'[s] = typed[s]
  PROVE  SendingInv'
BY DEF SendingInv

(* A step that only moves processes, none of them to its sending.           *)
LEMMA OnlyPlaces ==
  ASSUME QueuesIInv, UNCHANGED <<program, id, line, typed, queue, current, shown, old>>,
         at' \in [Q!Procs -> QPlace], \A s \in Senders : at'[s] = "send" => at[s] = "send",
         armed' \in BOOLEAN, pending' \in BOOLEAN, zero' \in BOOLEAN, behind' \in BOOLEAN
  PROVE  QueuesType' /\ OrderInv' /\ PastInv'
<1>1. QueuesType'
  BY DEF QueuesIInv, QueuesType
<1>2. SendingInv' /\ PastStep
  BY SendingKept DEF QueuesIInv, PastInv, PastStep
<1>3. QED
  BY <1>1, <1>2, OrderKept, PastKept DEF QueuesIInv

(* A queue that does not change has gained nothing.                         *)
LEMMA UnchangedGrows ==
  ASSUME NEW q, queue'[q] = queue[q]
  PROVE  Grows(q)
<1>1. PICK t : t = queue'[q].msgs
  OBVIOUS
<1>2. t = queue[q].msgs
  BY <1>1
<1>3. QED
  BY <1>1, <1>2 DEF Grows

(* mq.c: a main forks, waits for its co_process, or is killed.              *)
LEMMA MainMoves ==
  ASSUME QueuesIInv, NEW m \in Q!Mains, Q!Fork(m) \/ Q!WaitForCo(m) \/ Q!Kill(m)
  PROVE  QueuesIInv'
<1>1. /\ QueuesType /\ PlacesInv /\ m \in Q!Procs /\ m \in Readers
      /\ Q!CoOf[m] \in Q!Procs /\ Q!CoOf[m] \in Q!Cos /\ Q!CoOf[m] # m
  BY QueueNames DEF QueuesIInv
<1>2. UNCHANGED <<program, id, line, typed, queue, current, shown, armed, pending, behind, zero, old>>
  BY DEF Q!Fork, Q!WaitForCo, Q!Kill, Q!noNotify
<1>3. at[m] \in {"fork", "wait", "receive"}
  BY DEF Q!Fork, Q!WaitForCo, Q!Kill
<1>4. PICK to \in {"wait", "receive", "killed"} :
        at' = [at EXCEPT ![m] = to] \/ at' = [at EXCEPT ![m] = to, ![Q!CoOf[m]] = "open"]
  BY DEF Q!Fork, Q!WaitForCo, Q!Kill, Q!Goes
<1>5. /\ at' \in [Q!Procs -> QPlace] /\ at'[m] = to
      /\ \A p \in Q!Procs : p # m /\ p # Q!CoOf[m] => at'[p] = at[p]
      /\ at'[Q!CoOf[m]] \in {at[Q!CoOf[m]], "open"}
  BY <1>1, <1>4 DEF QueuesType, QPlace
<1>6. program = "lab3"
  BY <1>1, <1>3 DEF PlacesInv, QueuesType
<1>7. \A p \in Q!Procs : p \in Q!Cos \/ p \notin Q!Cos
  OBVIOUS
<1>8. Senders \subseteq Q!Procs /\ Readers \subseteq Q!Procs /\ Senders \cap Readers = {} /\ Q!Cos \subseteq Senders
  BY QueueNames
<1>9. QueuesType' /\ OrderInv' /\ PastInv'
  BY <1>1, <1>2, <1>5, <1>8, OnlyPlaces DEF QueuesType
<1>10. PlacesInv'
  <2>1. ASSUME NEW p \in Q!Procs, at[p] = "off" PROVE at'[p] = "off" \/ (program = "lab3" /\ p \in Q!Cos)
    BY <1>1, <1>3, <1>5, <1>6, <2>1
  <2>2. ASSUME NEW p \in Q!Procs, at'[p] \notin {"off", "start", "open"} PROVE id'[p] # 0
    <3>1. at[p] \notin {"off", "start", "open"}
      BY <1>1, <1>3, <1>5, <2>2
    <3>2. QED
      BY <1>1, <1>2, <3>1 DEF PlacesInv
  <2>3. ASSUME NEW p \in Readers PROVE at'[p] \in {"off", "start", "open"} => at[p] \in {"off", "start", "open"}
    BY <1>1, <1>5, <1>8, <2>3
  <2>4. QED
    BY <1>2, <1>5, <2>1, <2>2, <2>3, PlacesStep
<1>11. Lab3Inv'
  <2>1. \A q \in 1 .. Len(queue) : Grows(q)
    BY <1>2, UnchangedGrows
  <2>2. \A o \in Q!Mains : at'[o] = at[o] \/ {at[o], at'[o]} \cap {"off", "start", "open"} = {}
    BY <1>1, <1>3, <1>5, QueueNames
  <2>3. at["main2"] = "start" => at'["co2"] = "off"
    BY <1>3, <1>5, <1>6, QueueNames DEF QueuesIInv, Lab3Inv, OneMainInv
  <2>4. at["main1"] \in {"off", "start", "open"} => at'["co1"] = at["co1"]
    BY <1>3, <1>5, QueueNames
  <2>5. QED
    BY <1>2, <1>6, <2>1, <2>2, <2>3, <2>4, Lab3Kept
<1>12. QED
  BY <1>2, <1>6, <1>9, <1>10, <1>11 DEF QueuesIInv

(* A process gets its queue.                                               *)
LEMMA OpensStep ==
  ASSUME QueuesIInv, NEW p \in Q!Procs, at[p] \in {"start", "open"}, Q!Open(p),
         NEW to \in QPlace \ {"off", "start", "open", "send"}, Q!Goes(p, to),
         UNCHANGED <<program, line, typed, shown, armed, pending, behind, zero, old>>
  PROVE  /\ QueuesType' /\ OrderInv' /\ PastInv' /\ PlacesInv'
         /\ at' \in [Q!Procs -> QPlace] /\ at'[p] = to /\ \A o \in Q!Procs : o # p => at'[o] = at[o]
<1>1. QueuesType /\ PlacesInv /\ to \in QPlace /\ Readers \subseteq Q!Procs /\ Senders \subseteq Q!Procs
  BY QueueNames DEF QueuesIInv
<1>2. at' \in [Q!Procs -> QPlace] /\ at'[p] = to /\ \A o \in Q!Procs : o # p => at'[o] = at[o]
  BY <1>1, GoesTo
<1>3. QueuesType'
  <2>1. QueuesTyped' /\ current' \in 0 .. Len(queue') /\ queue'[current'].alive /\ id' \in [Q!Procs -> 0 .. Len(queue')]
    BY <1>1, QueueOpened
  <2>2. QED
    BY <1>1, <1>2, <2>1 DEF QueuesType, QueuesTyped
<1>4. OrderInv'
  <2>1. p \in Readers => shown[p] = <<>>
    BY <1>1 DEF PlacesInv
  <2>2. QED
    BY <1>1, <2>1, OrderOpened DEF QueuesIInv
<1>5. PastInv'
  <2>1. \A s \in Senders : at'[s] = "send" => at[s] = "send"
    BY <1>1, <1>2
  <2>2. SendingInv' /\ PastStep
    BY <2>1, SendingKept DEF QueuesIInv, PastInv, PastStep
  <2>3. QED
    BY <2>2, PastOpened DEF QueuesIInv
<1>6. PlacesInv'
  <2>1. ASSUME NEW o \in Q!Procs, at'[o] \notin {"off", "start", "open"} PROVE id'[o] # 0
    <3>1. current' # 0 /\ id'[p] = current' /\ (o # p => id'[o] = id[o])
      BY <1>1, QueueOpened
    <3>2. QED
      BY <1>1, <1>2, <2>1, <3>1 DEF PlacesInv
  <2>2. \A o \in Q!Procs : at[o] = "off" => at'[o] = "off"
    BY <1>2
  <2>3. \A o \in Readers : at'[o] \in {"off", "start", "open"} => at[o] \in {"off", "start", "open"}
    BY <1>1, <1>2
  <2>4. QED
    BY <1>2, <2>1, <2>2, <2>3, PlacesStep
<1>7. QED
  BY <1>2, <1>3, <1>4, <1>5, <1>6

(* mq.c: a main gets its queue.                                             *)
LEMMA CreateStep ==
  ASSUME QueuesIInv, NEW m \in Q!Mains, Q!Create(m)
  PROVE  QueuesIInv'
<1>1. /\ QueuesType /\ PlacesInv /\ m \in Q!Procs /\ m \in Readers
      /\ Q!Mains = {"main1", "main2"} /\ "main1" \in Q!Procs /\ "main2" \in Q!Procs /\ "co2" \in Q!Procs
      /\ "main1" # "main2" /\ m # "co2" /\ m # "co1" /\ "co1" \in Q!Procs
  BY QueueNames DEF QueuesIInv
<1>2. /\ at[m] = "open" /\ Q!Open(m) /\ Q!Goes(m, "fork")
      /\ UNCHANGED <<program, line, typed, shown, armed, pending, behind, zero, old>>
  BY DEF Q!Create, Q!noNotify
<1>3. program = "lab3"
  BY <1>1, <1>2 DEF PlacesInv, QueuesType
<1>4. /\ QueuesType' /\ OrderInv' /\ PastInv' /\ PlacesInv'
      /\ at'[m] = "fork" /\ \A o \in Q!Procs : o # m => at'[o] = at[o]
  <2>1. "fork" \in QPlace \ {"off", "start", "open", "send"}
    BY DEF QPlace
  <2>2. QED
    BY <1>1, <1>2, <2>1, OpensStep
<1>5. /\ current' # 0 /\ id'[m] = current' /\ \A o \in Q!Procs : o # m => id'[o] = id[o]
      /\ current # 0 => current' = current /\ queue' = queue
      /\ current = 0 => queue'[current'].msgs = <<>>
      /\ \A r \in 1 .. Len(queue) : queue'[r] = queue[r]
  BY <1>1, <1>2, QueueOpened
<1>6. Lab3Inv
  BY <1>3 DEF QueuesIInv
<1>7. Lab3Inv'
  <2>1. ASSUME at'["main2"] = "start" PROVE OneMainInv'
    <3>1. m = "main1" /\ OneMainInv
      BY <1>1, <1>4, <1>6, <2>1 DEF Lab3Inv
    <3>2. AllBy(queue'[current'].msgs, "co1")
      BY <1>2, <1>5, <3>1 DEF OneMainInv, AllBy
    <3>3. QED
      BY <1>1, <1>2, <1>4, <1>5, <3>1, <3>2 DEF OneMainInv
  <2>2. ASSUME at'["main2"] = "open" PROVE Fresh(current)'
    <3>1. at["main2"] = "open"
      BY <1>1, <1>4, <2>2
    <3>2. CASE current # 0
      BY <1>2, <1>5, <1>6, <3>1, <3>2 DEF Lab3Inv, Fresh
    <3>3. CASE current = 0
      BY <1>5, <3>3 DEF Fresh, FreshOf
    <3>4. QED
      BY <3>2, <3>3
  <2>3. ASSUME at'["main2"] \notin {"off", "start", "open"} PROVE id'["main2"] # 0 /\ Fresh(id["main2"])'
    <3>1. CASE m = "main2"
      <4>1. CASE current # 0
        BY <1>2, <1>5, <1>6, <3>1, <4>1 DEF Lab3Inv, Fresh
      <4>2. CASE current = 0
        BY <1>5, <3>1, <4>2 DEF Fresh, FreshOf
      <4>3. QED
        BY <4>1, <4>2
    <3>2. CASE m # "main2"
      <4>1. at["main2"] \notin {"off", "start", "open"} /\ id'["main2"] = id["main2"]
        BY <1>1, <1>4, <1>5, <2>3, <3>2
      <4>2. id["main2"] \in 1 .. Len(queue) /\ Fresh(id["main2"])
        BY <1>1, <1>6, <4>1 DEF Lab3Inv, QueuesType
      <4>3. QED
        BY <1>2, <1>5, <4>1, <4>2 DEF Fresh
    <3>3. QED
      BY <3>1, <3>2
  <2>4. QED
    BY <1>2, <1>6, <2>1, <2>2, <2>3 DEF Lab3Inv
<1>8. QED
  BY <1>2, <1>3, <1>4, <1>7 DEF QueuesIInv

(* co_process.c: it finds the queue, or makes one if it was removed         *)
(* meanwhile.                                                               *)
LEMMA CoOpensStep ==
  ASSUME QueuesIInv, NEW c \in Q!Cos, Q!CoOpens(c)
  PROVE  QueuesIInv'
<1>1. /\ QueuesType /\ PlacesInv /\ c \in Q!Procs /\ c \notin Q!Mains /\ Q!Mains \subseteq Q!Procs
      /\ Q!Cos = {"co1", "co2"} /\ "co1" \in Q!Procs /\ "co2" \in Q!Procs
  BY QueueNames DEF QueuesIInv
<1>2. /\ at[c] = "open" /\ Q!Open(c) /\ Q!Goes(c, "type")
      /\ UNCHANGED <<program, line, typed, shown, armed, pending, behind, zero, old>>
  BY DEF Q!CoOpens, Q!noNotify
<1>3. program = "lab3"
  BY <1>1, <1>2 DEF PlacesInv, QueuesType
<1>4. /\ QueuesType' /\ OrderInv' /\ PastInv' /\ PlacesInv'
      /\ at'[c] = "type" /\ \A o \in Q!Procs : o # c => at'[o] = at[o]
  <2>1. "type" \in QPlace \ {"off", "start", "open", "send"}
    BY DEF QPlace
  <2>2. QED
    BY <1>1, <1>2, <2>1, OpensStep
<1>5. /\ \A o \in Q!Procs : o # c => id'[o] = id[o]
      /\ current # 0 => current' = current
      /\ current = 0 => queue'[current'].msgs = <<>>
      /\ \A r \in 1 .. Len(queue) : queue'[r] = queue[r]
  BY <1>1, <1>2, QueueOpened
<1>6. Lab3Inv'
  <2>1. \A q \in 1 .. Len(queue) : Grows(q)
    BY <1>5, UnchangedGrows
  <2>2. \A m \in Q!Mains : at'[m] = at[m] /\ id'[m] = id[m] /\ shown'[m] = shown[m]
    BY <1>1, <1>2, <1>4, <1>5
  <2>3. at["main2"] = "start" => at'["co2"] = "off"
    BY <1>1, <1>2, <1>3, <1>4 DEF QueuesIInv, Lab3Inv, OneMainInv
  <2>4. at["main2"] = "start" /\ at["main1"] \in {"off", "start", "open"} => at'["co1"] = at["co1"]
    BY <1>1, <1>2, <1>3 DEF QueuesIInv, Lab3Inv, OneMainInv
  <2>5. current' = current \/ (queue'[current'].msgs = <<>> /\ \E d \in Q!Cos : at[d] # "off")
    BY <1>2, <1>5
  <2>6. QED
    BY <1>2, <1>3, <2>1, <2>2, <2>3, <2>4, <2>5, Lab3Kept
<1>7. QED
  BY <1>2, <1>3, <1>4, <1>6 DEF QueuesIInv

(* A process takes a message from its queue, and shows it or not.           *)
LEMMA TakesStep ==
  ASSUME QueuesIInv, NEW p \in Readers, id[p] # 0, Q!Held(p) # <<>>, Q!Take(p),
         UNCHANGED shown \/ Q!Shows(p, Head(Q!Held(p))), UNCHANGED <<program, id, typed, current, old>>,
         at' \in [Q!Procs -> QPlace], line' \in [Q!Procs -> Q!Msgs],
         \A s \in Senders : line'[s] = line[s] /\ (at'[s] = "send" => at[s] = "send"),
         armed' \in BOOLEAN, pending' \in BOOLEAN, zero' \in BOOLEAN, behind' \in BOOLEAN
  PROVE  QueuesType' /\ OrderInv' /\ PastInv'
<1>1. QueuesType /\ p \in Q!Procs
  BY QueueNames DEF QueuesIInv
<1>2. PICK h : h = Head(Q!Held(p))
  OBVIOUS
<1>3. shown' \in [Q!Procs -> Seq(Q!Msgs)]
  <2>1. h \in Q!Msgs
    BY <1>1, <1>2, QueueTaken, HeadAndTail
  <2>2. CASE UNCHANGED shown
    BY <1>1, <2>2 DEF QueuesType
  <2>3. CASE Q!Shows(p, h)
    BY <1>1, <2>1, <2>3, Shown
  <2>4. QED
    BY <1>2, <2>2, <2>3
<1>4. QueuesTyped' /\ Len(queue') = Len(queue) /\ \A q \in 1 .. Len(queue) : queue'[q].alive = queue[q].alive
  BY <1>1, QueueTaken
<1>5. QueuesType'
  BY <1>1, <1>3, <1>4 DEF QueuesType, QueuesTyped
<1>6. PastStep /\ SendingInv'
  BY SendingKept DEF QueuesIInv, PastInv, PastStep
<1>7. QED
  BY <1>1, <1>5, <1>6, OrderTaken, PastTaken DEF QueuesIInv

(* A sender puts its message into its queue.                               *)
LEMMA PutsStep ==
  ASSUME QueuesIInv, NEW p \in Senders, at[p] = "send", id[p] # 0, Q!Put(p),
         UNCHANGED <<program, id, line, typed, current, shown, old>>,
         at' \in [Q!Procs -> QPlace], at'[p] # "send", \A s \in Senders : at'[s] = "send" => at[s] = "send",
         armed' \in BOOLEAN, pending' \in BOOLEAN, zero' \in BOOLEAN, behind' \in BOOLEAN
  PROVE  QueuesType' /\ OrderInv' /\ PastInv'
<1>1. QueuesType /\ p \in Q!Procs
  BY QueueNames DEF QueuesIInv
<1>2. QueuesTyped' /\ Len(queue') = Len(queue) /\ \A q \in 1 .. Len(queue) : queue'[q].alive = queue[q].alive
  BY <1>1, QueuePut
<1>3. QueuesType'
  BY <1>1, <1>2 DEF QueuesType, QueuesTyped
<1>4. PastStep /\ SendingInv'
  BY SendingKept DEF QueuesIInv, PastInv, PastStep
<1>5. QED
  BY <1>1, <1>3, <1>4, OrderPut, PastPut DEF QueuesIInv

(* A sender's user types a line.                                           *)
LEMMA TypesStep ==
  ASSUME QueuesIInv, NEW p \in Senders, at[p] = "type", typed[p] < MaxLines, Q!Goes(p, "send"),
         typed' = [typed EXCEPT ![p] = @ + 1],
         NEW k \in {0, typed[p] + 1}, line' = [line EXCEPT ![p] = [by |-> p, n |-> k]],
         UNCHANGED <<program, id, queue, current, shown, armed, pending, behind, zero, old>>
  PROVE  /\ QueuesType' /\ PlacesInv' /\ OrderInv' /\ PastInv'
         /\ at' \in [Q!Procs -> QPlace] /\ at'[p] = "send" /\ \A o \in Q!Procs : o # p => at'[o] = at[o]
<1>1. QueuesType /\ PlacesInv /\ p \in Q!Procs /\ Senders \subseteq Q!Procs /\ Readers \subseteq Q!Procs /\ p \notin Readers
  BY QueueNames DEF QueuesIInv
<1>2. at' \in [Q!Procs -> QPlace] /\ at'[p] = "send" /\ \A o \in Q!Procs : o # p => at'[o] = at[o]
  <2>1. "send" \in QPlace
    BY DEF QPlace
  <2>2. QED
    BY <1>1, <2>1, GoesTo
<1>3. typed[p] \in 0 .. MaxLines /\ typed[p] + 1 \in 0 .. MaxLines /\ k \in 0 .. MaxLines
  BY <1>1, LabsAssumption DEF QueuesType
<1>4. PICK m : m = [by |-> p, n |-> k]
  OBVIOUS
<1>5. m \in Q!Msgs /\ m.by = p /\ m.n = k
  BY <1>1, <1>3, <1>4 DEF Q!Msgs
<1>6. /\ line' \in [Q!Procs -> Q!Msgs] /\ line'[p] = m /\ \A o \in Q!Procs : o # p => line'[o] = line[o]
      /\ typed' \in [Q!Procs -> 0 .. MaxLines] /\ typed'[p] = typed[p] + 1 /\ \A o \in Q!Procs : o # p => typed'[o] = typed[o]
  BY <1>1, <1>3, <1>4, <1>5 DEF QueuesType
<1>7. QueuesType'
  BY <1>1, <1>2, <1>6 DEF QueuesType
<1>8. SendingInv'
  <2>1. line'[p].by = p /\ line'[p].n \in {0, typed'[p]}
    BY <1>5, <1>6
  <2>2. QED
    BY <1>1, <1>2, <1>6, <2>1 DEF QueuesIInv, PastInv, SendingInv
<1>9. PastStep
  BY <1>1, <1>2, <1>6 DEF PastStep
<1>10. PlacesInv'
  <2>1. \A o \in Q!Procs : (at[o] = "off" => at'[o] = "off") /\ (at'[o] \notin {"off", "start", "open"} => id'[o] # 0)
    BY <1>1, <1>2 DEF PlacesInv
  <2>2. \A o \in Readers : at'[o] = at[o]
    BY <1>1, <1>2
  <2>3. QED
    BY <1>2, <2>1, <2>2, PlacesStep
<1>11. QED
  BY <1>1, <1>2, <1>7, <1>8, <1>9, <1>10, OrderKept, PastKept DEF QueuesIInv

(* A line is typed at a co_process.                                         *)
LEMMA CoTypesStep ==
  ASSUME QueuesIInv, NEW c \in Q!Cos, Q!CoTypes(c)
  PROVE  QueuesIInv'
<1>1. /\ QueuesType /\ PlacesInv /\ c \in Q!Procs /\ c \in Senders /\ c \notin Q!Mains /\ Q!Mains \subseteq Q!Procs
      /\ Q!Cos = {"co1", "co2"} /\ "co1" \in Q!Procs /\ "co2" \in Q!Procs
  BY QueueNames DEF QueuesIInv
<1>2. /\ at[c] = "type" /\ typed["co1"] + typed["co2"] < MaxLines /\ Q!Goes(c, "send")
      /\ typed' = [typed EXCEPT ![c] = @ + 1]
      /\ UNCHANGED <<program, id, queue, current, shown, armed, pending, behind, zero, old>>
  BY DEF Q!CoTypes, Q!noNotify
<1>3. PICK k \in {0, typed[c] + 1} : line' = [line EXCEPT ![c] = [by |-> c, n |-> k]]
  BY DEF Q!CoTypes
<1>4. typed[c] < MaxLines
  <2>1. typed["co1"] \in Nat /\ typed["co2"] \in Nat
    BY <1>1, LabsAssumption DEF QueuesType
  <2>2. QED
    BY <1>1, <1>2, <2>1, LabsAssumption
<1>5. program = "lab3"
  BY <1>1, <1>2 DEF PlacesInv, QueuesType
<1>6. /\ QueuesType' /\ PlacesInv' /\ OrderInv' /\ PastInv'
      /\ at'[c] = "send" /\ \A o \in Q!Procs : o # c => at'[o] = at[o]
  BY <1>1, <1>2, <1>3, <1>4, TypesStep
<1>7. Lab3Inv'
  <2>1. \A q \in 1 .. Len(queue) : Grows(q)
    BY <1>2, UnchangedGrows
  <2>2. \A m \in Q!Mains : at'[m] = at[m]
    BY <1>1, <1>6
  <2>3. at["main2"] = "start" => at'["co2"] = "off"
    BY <1>1, <1>2, <1>5, <1>6 DEF QueuesIInv, Lab3Inv, OneMainInv
  <2>4. at["main2"] = "start" /\ at["main1"] \in {"off", "start", "open"} => at'["co1"] = at["co1"]
    BY <1>1, <1>2, <1>5 DEF QueuesIInv, Lab3Inv, OneMainInv
  <2>5. QED
    BY <1>2, <1>5, <2>1, <2>2, <2>3, <2>4, Lab3Kept
<1>8. QED
  BY <1>2, <1>5, <1>6, <1>7 DEF QueuesIInv

(* It sends the line, or fails to, and ends.                                *)
LEMMA CoSendsStep ==
  ASSUME QueuesIInv, NEW c \in Q!Cos, Q!CoSends(c)
  PROVE  QueuesIInv'
<1>1. /\ QueuesType /\ PlacesInv /\ c \in Q!Procs /\ c \in Senders /\ c \notin Q!Mains /\ Q!Mains \subseteq Q!Procs
      /\ Q!Cos = {"co1", "co2"} /\ "co1" \in Q!Procs /\ "co2" \in Q!Procs
      /\ Senders \subseteq Q!Procs /\ Readers \subseteq Q!Procs /\ c \notin Readers
  BY QueueNames DEF QueuesIInv
<1>2. /\ at[c] = "send" /\ Q!Goes(c, "ended")
      /\ UNCHANGED <<program, id, line, typed, current, shown, armed, pending, behind, old>>
      /\ UNCHANGED queue \/ Q!Put(c)
      /\ zero' = TRUE \/ UNCHANGED zero
  BY DEF Q!CoSends, Q!noNotify
<1>3. at' \in [Q!Procs -> QPlace] /\ at'[c] = "ended" /\ \A o \in Q!Procs : o # c => at'[o] = at[o]
  <2>1. "ended" \in QPlace
    BY DEF QPlace
  <2>2. QED
    BY <1>1, <1>2, <2>1, GoesTo
<1>4. program = "lab3" /\ id[c] # 0
  BY <1>1, <1>2 DEF PlacesInv, QueuesType
<1>5. zero' \in BOOLEAN /\ armed' \in BOOLEAN /\ pending' \in BOOLEAN /\ behind' \in BOOLEAN
  <2>1. zero' \in BOOLEAN
    BY <1>1, <1>2 DEF QueuesType
  <2>2. armed' \in BOOLEAN /\ pending' \in BOOLEAN /\ behind' \in BOOLEAN
    BY <1>1, <1>2 DEF QueuesType
  <2>3. QED
    BY <2>1, <2>2
<1>6. \A s \in Senders : at'[s] = "send" => at[s] = "send"
  BY <1>1, <1>3
<1>7. QueuesType' /\ OrderInv' /\ PastInv'
  <2>1. CASE UNCHANGED queue
    BY <1>2, <1>3, <1>5, <1>6, <2>1, OnlyPlaces
  <2>2. CASE Q!Put(c)
    BY <1>1, <1>2, <1>3, <1>4, <1>5, <1>6, <2>2, PutsStep
  <2>3. QED
    BY <1>2, <2>1, <2>2
<1>8. PlacesInv'
  <2>1. \A o \in Q!Procs : (at[o] = "off" => at'[o] = "off") /\ (at'[o] \notin {"off", "start", "open"} => id'[o] # 0)
    BY <1>1, <1>2, <1>3 DEF PlacesInv
  <2>2. \A o \in Readers : at'[o] = at[o]
    BY <1>1, <1>3
  <2>3. QED
    BY <1>2, <1>3, <2>1, <2>2, PlacesStep
<1>9. Lab3Inv'
  <2>1. ASSUME NEW q \in 1 .. Len(queue) PROVE Grows(q)
    <3>1. CASE queue'[q] = queue[q]
      BY <3>1, UnchangedGrows
    <3>2. CASE q = id[c] /\ Q!Put(c)
      <4>1. PICK t : t = queue[q].msgs
        OBVIOUS
      <4>2. PICK u : u = queue'[q].msgs
        OBVIOUS
      <4>3. PICK m : m = line[c]
        OBVIOUS
      <4>4. t \in Seq(Q!Msgs) /\ m \in Q!Msgs /\ u = Append(t, m)
        BY <1>1, <1>4, <3>2, <4>1, <4>2, <4>3, QueuePut
      <4>5. Sent(m)
        BY <1>2, <4>3 DEF Sent
      <4>6. \A k \in 1 .. Len(u) : (\E j \in 1 .. Len(t) : u[k] = t[j]) \/ Sent(u[k])
        BY <4>4, <4>5, Appended
      <4>7. QED
        BY <4>1, <4>2, <4>6 DEF Grows
    <3>3. QED
      BY <1>1, <1>2, <1>4, <3>1, <3>2, QueuePut
  <2>2. \A m \in Q!Mains : at'[m] = at[m]
    BY <1>1, <1>3
  <2>3. at["main2"] = "start" => at'["co2"] = "off"
    BY <1>1, <1>2, <1>3, <1>4 DEF QueuesIInv, Lab3Inv, OneMainInv
  <2>4. at["main2"] = "start" /\ at["main1"] \in {"off", "start", "open"} => at'["co1"] = at["co1"]
    BY <1>1, <1>2, <1>4 DEF QueuesIInv, Lab3Inv, OneMainInv
  <2>5. QED
    BY <1>2, <1>4, <2>1, <2>2, <2>3, <2>4, Lab3Kept
<1>10. QED
  BY <1>2, <1>4, <1>7, <1>8, <1>9 DEF QueuesIInv

(* A main receives a message and shows it, or ends.                         *)
LEMMA MainReceivesStep ==
  ASSUME QueuesIInv, NEW m \in Q!Mains, Q!MainReceives(m)
  PROVE  QueuesIInv'
<1>1. /\ QueuesType /\ PlacesInv /\ m \in Q!Procs /\ m \in Readers /\ Q!Mains \subseteq Q!Procs /\ m \notin Q!Cos
      /\ Senders \subseteq Q!Procs /\ Readers \subseteq Q!Procs /\ m \notin Senders
      /\ "co1" \in Q!Procs /\ "co2" \in Q!Procs /\ Q!Cos = {"co1", "co2"} /\ m # "co1" /\ m # "co2"
  BY QueueNames DEF QueuesIInv
<1>2. at[m] = "receive" /\ UNCHANGED <<program, id, typed, current, armed, pending, behind, zero, old>>
  BY DEF Q!MainReceives, Q!noNotify
<1>3. PICK to \in {"ended", "fork"} : Q!Goes(m, to)
  BY DEF Q!MainReceives
<1>4. at' \in [Q!Procs -> QPlace] /\ at'[m] = to /\ \A o \in Q!Procs : o # m => at'[o] = at[o]
  <2>1. to \in QPlace
    BY DEF QPlace
  <2>2. QED
    BY <1>1, <1>3, <2>1, GoesTo
<1>5. program = "lab3" /\ id[m] # 0
  BY <1>1, <1>2 DEF PlacesInv, QueuesType
<1>6. \A s \in Senders : at'[s] = at[s]
  BY <1>1, <1>4
<1>7. PlacesInv'
  <2>1. \A o \in Q!Procs : (at[o] = "off" => at'[o] = "off") /\ (at'[o] \notin {"off", "start", "open"} => id'[o] # 0)
    BY <1>1, <1>2, <1>4 DEF PlacesInv
  <2>2. \A o \in Q!Procs : o # m => shown'[o] = shown[o]
    BY <1>1 DEF Q!MainReceives, Q!Shows, QueuesType
  <2>3. \A o \in Readers :
          at'[o] \in {"off", "start", "open"} => at[o] \in {"off", "start", "open"} /\ shown'[o] = shown[o]
    BY <1>1, <1>4, <2>2
  <2>4. QED
    BY <1>2, <1>4, <2>1, <2>3, PlacesStep
<1>8. /\ \A o \in Q!Mains : at'[o] = at[o] \/ {at[o], at'[o]} \cap {"off", "start", "open"} = {}
      /\ at["main2"] = "start" => at'["co2"] = "off"
      /\ at'["co1"] = at["co1"]
  <2>1. at'["co1"] = at["co1"] /\ at'["co2"] = at["co2"]
    BY <1>1, <1>4
  <2>2. at["main2"] = "start" => at["co2"] = "off"
    BY <1>5 DEF QueuesIInv, Lab3Inv, OneMainInv
  <2>3. \A o \in Q!Mains : at'[o] = at[o] \/ {at[o], at'[o]} \cap {"off", "start", "open"} = {}
    BY <1>1, <1>2, <1>4
  <2>4. QED
    BY <2>1, <2>2, <2>3
<1>9. CASE UNCHANGED <<queue, line, shown>>
  <2>1. QueuesType' /\ OrderInv' /\ PastInv'
    BY <1>1, <1>2, <1>4, <1>6, <1>9, OnlyPlaces DEF QueuesType
  <2>2. \A q \in 1 .. Len(queue) : Grows(q)
    BY <1>9, UnchangedGrows
  <2>3. Lab3Inv'
    BY <1>2, <1>5, <1>8, <1>9, <2>2, Lab3Kept
  <2>4. QED
    BY <1>2, <1>5, <1>7, <2>1, <2>3 DEF QueuesIInv
<1>10. CASE Q!Held(m) # <<>> /\ Q!Take(m)
  <2>1. PICK t : t = queue[id[m]].msgs
    OBVIOUS
  <2>2. PICK h : h = Head(t)
    OBVIOUS
  <2>3. /\ Len(queue') = Len(queue) /\ id[m] \in 1 .. Len(queue) /\ t \in Seq(Q!Msgs) /\ t # <<>>
        /\ queue'[id[m]].msgs = Tail(t) /\ Q!Held(m) = t
        /\ \A r \in 1 .. Len(queue) : r # id[m] => queue'[r] = queue[r]
    BY <1>1, <1>5, <1>10, <2>1, QueueTaken
  <2>4. h \in Q!Msgs /\ h = t[1] /\ 1 \in 1 .. Len(t)
    BY <2>2, <2>3, HeadAndTail
  <2>5. CASE UNCHANGED shown \/ (h.n # 0 /\ Q!Shows(m, h))
    <3>1. CASE line' = [line EXCEPT ![m] = h]
      <4>1. line' \in [Q!Procs -> Q!Msgs] /\ \A s \in Senders : line'[s] = line[s]
        BY <1>1, <2>4, <3>1 DEF QueuesType
      <4>2. armed' \in BOOLEAN /\ pending' \in BOOLEAN /\ zero' \in BOOLEAN /\ behind' \in BOOLEAN
        BY <1>1, <1>2 DEF QueuesType
      <4>3. QueuesType' /\ OrderInv' /\ PastInv'
        BY <1>1, <1>2, <1>4, <1>5, <1>6, <1>10, <2>2, <2>3, <2>5, <4>1, <4>2, TakesStep
      <4>4. ASSUME NEW q \in 1 .. Len(queue) PROVE Grows(q)
        <5>1. CASE q = id[m]
          <6>1. PICK u : u = Tail(t)
            OBVIOUS
          <6>2. \A k \in 1 .. Len(u) : \E j \in 1 .. Len(t) : u[k] = t[j]
            BY <2>3, <6>1, HeadAndTail
          <6>3. queue'[q].msgs = u /\ queue[q].msgs = t
            BY <2>1, <2>3, <5>1, <6>1
          <6>4. QED
            BY <6>2, <6>3 DEF Grows
        <5>2. CASE q # id[m]
          BY <2>3, <5>2, UnchangedGrows
        <5>3. QED
          BY <5>1, <5>2
      <4>5. \A o \in Q!Mains : shown'[o] = shown[o] \/ \E g \in Q!Msgs : ShowsFrom(o, g)
        <5>1. CASE UNCHANGED shown
          BY <5>1
        <5>2. CASE h.n # 0 /\ Q!Shows(m, h)
          <6>1. ShowsFrom(m, h)
            BY <1>1, <1>2, <2>1, <2>4, <5>2, Shown DEF ShowsFrom
          <6>2. \A o \in Q!Mains : o # m => shown'[o] = shown[o]
            BY <1>1, <2>4, <5>2, Shown
          <6>3. QED
            BY <2>4, <6>1, <6>2
        <5>3. QED
          BY <2>5, <5>1, <5>2
      <4>6. Lab3Inv'
        BY <1>2, <1>5, <1>8, <4>4, <4>5, Lab3Kept
      <4>7. QED
        BY <1>2, <1>5, <1>7, <4>3, <4>6 DEF QueuesIInv
    <3>2. CASE UNCHANGED line
      BY <1>9, <1>10, <2>2, <2>3, <2>5, <3>1, <3>2 DEF Q!MainReceives
    <3>3. QED
      BY <2>2, <2>3, <3>1, <3>2 DEF Q!MainReceives
  <2>6. QED
    BY <2>2, <2>3, <2>5 DEF Q!MainReceives
<1>11. QED
  BY <1>9, <1>10 DEF Q!MainReceives

(* A main is started, and removes the queue it finds.                       *)
LEMMA StartStep ==
  ASSUME QueuesIInv, NEW m \in Q!Mains, Q!Start(m)
  PROVE  QueuesIInv'
<1>1. /\ QueuesType /\ PlacesInv /\ m \in Q!Procs /\ m \in Readers /\ Q!Mains = {"main1", "main2"}
      /\ Senders \subseteq Q!Procs /\ Readers \subseteq Q!Procs /\ m \notin Senders
      /\ "main1" \in Q!Procs /\ "main2" \in Q!Procs /\ "co1" \in Q!Procs /\ "co2" \in Q!Procs
      /\ "main2" \in Readers /\ m # "co1" /\ m # "co2" /\ "main1" # "main2"
  BY QueueNames DEF QueuesIInv
<1>2. /\ program = "lab3" /\ at[m] = "start" /\ Q!Goes(m, "open")
      /\ UNCHANGED <<program, id, line, typed, shown, armed, pending, behind, zero>>
      /\ current' = 0 /\ (current = 0 => UNCHANGED queue) /\ (current # 0 => Q!Removed(current))
  BY DEF Q!Start, Q!noNotify
<1>3. at' \in [Q!Procs -> QPlace] /\ at'[m] = "open" /\ \A o \in Q!Procs : o # m => at'[o] = at[o]
  <2>1. "open" \in QPlace
    BY DEF QPlace
  <2>2. QED
    BY <1>1, <1>2, <2>1, GoesTo
<1>4. /\ m = "main1" \/ current = 0 => old' = old
      /\ current # 0 => old' \subseteq old \cup {queue[current].msgs[k] : k \in 1 .. Len(queue[current].msgs)}
      /\ old' \subseteq Q!Msgs
  <2>1. current # 0 => current \in 1 .. Len(queue)
    BY <1>1 DEF QueuesType
  <2>2. current # 0 => DOMAIN queue[current].msgs = 1 .. Len(queue[current].msgs)
    BY <1>1, <2>1, QueueIs
  <2>3. current # 0 => \A k \in 1 .. Len(queue[current].msgs) : queue[current].msgs[k] \in Q!Msgs
    BY <1>1, <2>1, QueueIs
  <2>4. old \subseteq Q!Msgs
    BY <1>1 DEF QueuesType
  <2>5. old' = IF m = "main2" /\ current # 0 THEN {queue[current].msgs[k] : k \in DOMAIN queue[current].msgs} ELSE old
    BY DEF Q!Start
  <2>6. QED
    BY <2>2, <2>3, <2>4, <2>5
<1>5. SendingInv' /\ PastStep
  <2>1. \A s \in Senders : at'[s] = at[s]
    BY <1>1, <1>3
  <2>2. QED
    BY <1>2, <2>1, SendingKept DEF QueuesIInv, PastInv, PastStep
<1>6. PlacesInv'
  <2>1. \A o \in Q!Procs : (at[o] = "off" => at'[o] = "off") /\ (at'[o] \notin {"off", "start", "open"} => id'[o] # 0)
    BY <1>1, <1>2, <1>3 DEF PlacesInv
  <2>2. \A o \in Readers : at'[o] \in {"off", "start", "open"} => at[o] \in {"off", "start", "open"}
    BY <1>1, <1>2, <1>3
  <2>3. QED
    BY <1>2, <1>3, <2>1, <2>2, PlacesStep
<1>7. /\ QueuesTyped' /\ Len(queue') = Len(queue) /\ OrderInv' /\ PastInv'
      /\ \A q \in 1 .. Len(queue) : queue'[q].msgs = <<>> \/ queue'[q] = queue[q]
  <2>1. CASE current = 0
    BY <1>1, <1>2, <1>4, <1>5, <2>1, OrderKept, PastKept DEF QueuesIInv, QueuesType, QueuesTyped
  <2>2. CASE current # 0
    <3>1. PICK q \in 1 .. Len(queue) : q = current
      BY <1>1, <2>2 DEF QueuesType
    <3>2. Q!Removed(q) /\ old' \subseteq old \cup {queue[q].msgs[k] : k \in 1 .. Len(queue[q].msgs)}
      BY <1>2, <1>4, <2>2, <3>1
    <3>3. OrderInv'
      BY <1>1, <1>2, <3>2, OrderRemoved DEF QueuesIInv
    <3>4. PastInv'
      BY <1>1, <1>2, <1>5, <3>2, PastRemoved DEF QueuesIInv
    <3>5. QueuesTyped' /\ Len(queue') = Len(queue) /\ \A r \in 1 .. Len(queue) : queue'[r].msgs = <<>> \/ queue'[r] = queue[r]
      BY <1>1, <3>2, QueueRemoved
    <3>6. QED
      BY <3>3, <3>4, <3>5
  <2>3. QED
    BY <2>1, <2>2
<1>8. QueuesType'
  <2>1. 0 \in 0 .. Len(queue')
    BY <1>1, <1>7 DEF QueuesType
  <2>2. QED
    BY <1>1, <1>2, <1>3, <1>4, <1>7, <2>1 DEF QueuesType, QueuesTyped
<1>9. Lab3Inv
  BY <1>2 DEF QueuesIInv
<1>10. Lab3Inv'
  <2>1. ASSUME at'["main2"] = "start" PROVE OneMainInv'
    <3>1. m = "main1" /\ OneMainInv
      BY <1>1, <1>3, <1>9, <2>1 DEF Lab3Inv
    <3>2. old' = old /\ at'["co1"] = at["co1"] /\ at'["co2"] = at["co2"]
      BY <1>1, <1>3, <1>4, <3>1
    <3>3. QED
      BY <1>2, <1>3, <3>1, <3>2 DEF OneMainInv
  <2>2. ASSUME at'["main2"] \notin {"off", "start", "open"} PROVE id'["main2"] # 0 /\ Fresh(id["main2"])'
    <3>1. m = "main1" /\ at["main2"] \notin {"off", "start", "open"} /\ old' = old
      BY <1>1, <1>3, <1>4, <2>2
    <3>2. id["main2"] \in 1 .. Len(queue) /\ Fresh(id["main2"])
      BY <1>1, <1>9, <3>1 DEF Lab3Inv, QueuesType
    <3>3. QED
      BY <1>2, <1>7, <3>1, <3>2 DEF Fresh, FreshOf
  <2>3. \A k \in 1 .. Len(shown'["main2"]) : shown'["main2"][k] \notin old'
    <3>1. CASE m = "main2"
      <4>1. shown'["main2"] = <<>>
        BY <1>1, <1>2, <3>1 DEF PlacesInv
      <4>2. QED
        BY <4>1
    <3>2. CASE m = "main1"
      BY <1>2, <1>4, <1>9, <3>2 DEF Lab3Inv
    <3>3. QED
      BY <1>1, <3>1, <3>2
  <2>4. QED
    BY <1>2, <1>9, <2>1, <2>2, <2>3 DEF Lab3Inv
<1>11. QED
  BY <1>2, <1>6, <1>7, <1>8, <1>10 DEF QueuesIInv
-----------------------------------------------------------------------------
(* msgq_client.c and msgq_server.c.                                         *)
LEMMA MsgqOpensStep ==
  ASSUME QueuesIInv, NEW p \in Q!Procs, Q!MsgqOpens(p)
  PROVE  QueuesIInv'
<1>1. /\ program = "msgq" /\ at[p] = "start" /\ Q!Open(p) /\ Q!Goes(p, IF p = "server" THEN "receive" ELSE "type")
      /\ UNCHANGED <<program, line, typed, shown, armed, pending, behind, zero, old>>
  BY DEF Q!MsgqOpens, Q!noNotify
<1>2. (IF p = "server" THEN "receive" ELSE "type") \in QPlace \ {"off", "start", "open", "send"}
  BY DEF QPlace
<1>3. QueuesType' /\ OrderInv' /\ PastInv' /\ PlacesInv'
  BY <1>1, <1>2, OpensStep
<1>4. QED
  BY <1>1, <1>3 DEF QueuesIInv

(* A line is typed at a client.                                             *)
LEMMA ClientTypesStep ==
  ASSUME QueuesIInv, NEW c \in Q!Procs, Q!ClientTypes(c)
  PROVE  QueuesIInv'
<1>1. /\ at[c] = "type" /\ typed[c] < MaxLines /\ Q!Goes(c, "send") /\ typed' = [typed EXCEPT ![c] = @ + 1]
      /\ line' = [line EXCEPT ![c] = [by |-> c, n |-> typed[c] + 1]]
      /\ UNCHANGED <<program, id, queue, current, shown, armed, pending, behind, zero, old>>
  BY DEF Q!ClientTypes, Q!noNotify
<1>2. c \in Senders /\ program = "msgq"
  BY <1>1, QueueNames DEF Q!ClientTypes, QueuesIInv, PlacesInv
<1>3. QueuesType' /\ OrderInv' /\ PastInv' /\ PlacesInv'
  <2>1. PICK k : k = typed[c] + 1
    OBVIOUS
  <2>2. k \in {0, typed[c] + 1} /\ line' = [line EXCEPT ![c] = [by |-> c, n |-> k]]
    BY <1>1, <2>1
  <2>3. QED
    BY <1>1, <1>2, <2>2, TypesStep
<1>4. QED
  BY <1>1, <1>2, <1>3 DEF QueuesIInv

(* It sends the line, unless the queue is gone.                             *)
LEMMA ClientSendsStep ==
  ASSUME QueuesIInv, NEW c \in Q!Procs, Q!ClientSends(c)
  PROVE  QueuesIInv'
<1>1. /\ at[c] = "send" /\ Q!Goes(c, "type") /\ (Q!Put(c) \/ UNCHANGED queue)
      /\ UNCHANGED <<program, id, line, typed, current, shown, armed, pending, behind, zero, old>>
  BY DEF Q!ClientSends, Q!noNotify
<1>2. /\ c \in Senders /\ c \notin Readers /\ program = "msgq" /\ QueuesType /\ PlacesInv
      /\ Senders \subseteq Q!Procs /\ Readers \subseteq Q!Procs
  BY <1>1, QueueNames DEF Q!ClientSends, QueuesIInv, PlacesInv
<1>3. at' \in [Q!Procs -> QPlace] /\ at'[c] = "type" /\ \A o \in Q!Procs : o # c => at'[o] = at[o]
  <2>1. "type" \in QPlace
    BY DEF QPlace
  <2>2. QED
    BY <1>1, <1>2, <2>1, GoesTo
<1>4. id[c] # 0 /\ \A s \in Senders : at'[s] = "send" => at[s] = "send"
  BY <1>1, <1>2, <1>3 DEF PlacesInv
<1>5. QueuesType' /\ OrderInv' /\ PastInv'
  <2>1. armed' \in BOOLEAN /\ pending' \in BOOLEAN /\ zero' \in BOOLEAN /\ behind' \in BOOLEAN
    BY <1>1, <1>2 DEF QueuesType
  <2>2. CASE UNCHANGED queue
    BY <1>1, <1>3, <1>4, <2>1, <2>2, OnlyPlaces
  <2>3. CASE Q!Put(c)
    BY <1>1, <1>2, <1>3, <1>4, <2>1, <2>3, PutsStep
  <2>4. QED
    BY <1>1, <2>2, <2>3
<1>6. PlacesInv'
  <2>1. \A o \in Q!Procs : (at[o] = "off" => at'[o] = "off") /\ (at'[o] \notin {"off", "start", "open"} => id'[o] # 0)
    BY <1>1, <1>2, <1>3 DEF PlacesInv
  <2>2. \A o \in Readers : at'[o] = at[o]
    BY <1>2, <1>3
  <2>3. QED
    BY <1>1, <1>3, <2>1, <2>2, PlacesStep
<1>7. QED
  BY <1>1, <1>2, <1>5, <1>6 DEF QueuesIInv

(* It removes the queue at its end.                                         *)
LEMMA ClientQuitsStep ==
  ASSUME QueuesIInv, NEW c \in Q!Procs, Q!ClientQuits(c)
  PROVE  QueuesIInv'
<1>1. /\ at[c] = "type" /\ Q!Goes(c, "ended")
      /\ (Q!Removed(id[c]) /\ current' = 0) \/ UNCHANGED <<queue, current>>
      /\ UNCHANGED <<program, id, line, typed, shown, armed, pending, behind, zero, old>>
  BY DEF Q!ClientQuits, Q!noNotify
<1>2. /\ c \in Senders /\ c \notin Readers /\ program = "msgq" /\ QueuesType /\ PlacesInv
      /\ Senders \subseteq Q!Procs /\ Readers \subseteq Q!Procs
  BY <1>1, QueueNames DEF Q!ClientQuits, QueuesIInv, PlacesInv
<1>3. at' \in [Q!Procs -> QPlace] /\ at'[c] = "ended" /\ \A o \in Q!Procs : o # c => at'[o] = at[o]
  <2>1. "ended" \in QPlace
    BY DEF QPlace
  <2>2. QED
    BY <1>1, <1>2, <2>1, GoesTo
<1>4. id[c] \in 1 .. Len(queue) /\ \A s \in Senders : at'[s] = "send" => at[s] = "send"
  <2>1. id[c] # 0
    BY <1>1, <1>2 DEF PlacesInv
  <2>2. id[c] \in 0 .. Len(queue) /\ Len(queue) \in Nat
    BY <1>2 DEF QueuesType
  <2>3. QED
    BY <1>2, <1>3, <2>1, <2>2
<1>5. QueuesType' /\ OrderInv' /\ PastInv'
  <2>1. armed' \in BOOLEAN /\ pending' \in BOOLEAN /\ zero' \in BOOLEAN /\ behind' \in BOOLEAN
    BY <1>1, <1>2 DEF QueuesType
  <2>2. CASE UNCHANGED <<queue, current>>
    BY <1>1, <1>3, <1>4, <2>1, <2>2, OnlyPlaces
  <2>3. CASE Q!Removed(id[c]) /\ current' = 0
    <3>1. PICK q \in 1 .. Len(queue) : q = id[c]
      BY <1>4
    <3>2. Q!Removed(q)
      BY <2>3, <3>1
    <3>3. QueuesTyped' /\ Len(queue') = Len(queue) /\ Len(queue) \in Nat
      BY <1>2, <3>2, QueueRemoved, QueueIs
    <3>4. QueuesType'
      BY <1>1, <1>2, <1>3, <2>3, <3>3 DEF QueuesType, QueuesTyped
    <3>5. SendingInv' /\ PastStep
      BY <1>1, <1>4, SendingKept DEF QueuesIInv, PastInv, PastStep
    <3>6. QED
      BY <1>1, <1>2, <3>2, <3>4, <3>5, OrderRemoved, PastRemoved DEF QueuesIInv
  <2>4. QED
    BY <1>1, <2>2, <2>3
<1>6. PlacesInv'
  <2>1. \A o \in Q!Procs : (at[o] = "off" => at'[o] = "off") /\ (at'[o] \notin {"off", "start", "open"} => id'[o] # 0)
    BY <1>1, <1>2, <1>3 DEF PlacesInv
  <2>2. \A o \in Readers : at'[o] = at[o]
    BY <1>2, <1>3
  <2>3. QED
    BY <1>1, <1>3, <2>1, <2>2, PlacesStep
<1>7. QED
  BY <1>1, <1>2, <1>5, <1>6 DEF QueuesIInv

(* The server shows a message, or ends when the queue is gone.              *)
LEMMA ServerReceivesStep ==
  ASSUME QueuesIInv, Q!ServerReceives
  PROVE  QueuesIInv'
<1>1. at["server"] = "receive" /\ UNCHANGED <<program, id, line, typed, current, armed, pending, behind, zero, old>>
  BY DEF Q!ServerReceives, Q!noNotify
<1>2. /\ "server" \in Readers /\ "server" \notin Senders /\ "server" \in Q!Procs /\ "server" \notin Q!Mains
      /\ QueuesType /\ PlacesInv /\ Senders \subseteq Q!Procs /\ Readers \subseteq Q!Procs
  BY QueueNames DEF QueuesIInv
<1>3. program = "msgq" /\ id["server"] # 0
  BY <1>1, <1>2 DEF PlacesInv
<1>4. /\ at' \in [Q!Procs -> QPlace] /\ at'["server"] \in {"receive", "ended"}
      /\ \A o \in Q!Procs : o # "server" => at'[o] = at[o]
  <2>1. CASE Q!Goes("server", "ended")
    <3>1. "ended" \in QPlace
      BY DEF QPlace
    <3>2. QED
      BY <1>2, <2>1, <3>1, GoesTo
  <2>2. CASE UNCHANGED at
    BY <1>1, <1>2, <2>2 DEF QueuesType
  <2>3. QED
    BY <2>1, <2>2 DEF Q!ServerReceives
<1>5. \A s \in Senders : line'[s] = line[s] /\ (at'[s] = "send" => at[s] = "send")
  BY <1>1, <1>2, <1>4
<1>6. QueuesType' /\ OrderInv' /\ PastInv'
  <2>1. armed' \in BOOLEAN /\ pending' \in BOOLEAN /\ zero' \in BOOLEAN /\ behind' \in BOOLEAN
    BY <1>1, <1>2 DEF QueuesType
  <2>2. line' \in [Q!Procs -> Q!Msgs]
    BY <1>1, <1>2 DEF QueuesType
  <2>3. CASE UNCHANGED <<queue, shown>>
    BY <1>1, <1>4, <1>5, <2>1, <2>3, OnlyPlaces
  <2>4. CASE Q!Held("server") # <<>> /\ Q!Take("server") /\ Q!Shows("server", Head(Q!Held("server")))
    BY <1>1, <1>2, <1>3, <1>4, <1>5, <2>1, <2>2, <2>4, TakesStep
  <2>5. QED
    BY <2>3, <2>4 DEF Q!ServerReceives
<1>7. PlacesInv'
  <2>1. \A o \in Q!Procs : (at[o] = "off" => at'[o] = "off") /\ (at'[o] \notin {"off", "start", "open"} => id'[o] # 0)
    BY <1>1, <1>2, <1>3, <1>4 DEF PlacesInv
  <2>2. \A o \in Readers : at'[o] \in {"off", "start", "open"} => at[o] \in {"off", "start", "open"} /\ o # "server"
    BY <1>2, <1>4
  <2>3. \A o \in Q!Procs : o # "server" => shown'[o] = shown[o]
    BY <1>2 DEF Q!ServerReceives, Q!Shows, QueuesType
  <2>4. \A o \in Readers : at'[o] \in {"off", "start", "open"} => shown'[o] = shown[o]
    BY <1>2, <2>2, <2>3
  <2>5. QED
    BY <1>1, <1>4, <2>1, <2>2, <2>4, PlacesStep
<1>8. QED
  BY <1>1, <1>3, <1>6, <1>7 DEF QueuesIInv
-----------------------------------------------------------------------------
(* mq_notify.c, pmsg_send.c and pmsg_receive.c.                             *)
LEMMA NotifyFacts ==
  ASSUME QueuesIInv, NEW p \in Notified, at[p] \notin {"off", "start", "open"}
  PROVE  /\ program = "notify" /\ NotifyInv /\ p \in Q!Procs /\ id[p] = current /\ id[p] # 0
         /\ current \in 1 .. Len(queue) /\ queue[current].msgs \in Seq(Q!Msgs)
         /\ \A o \in Notified : id[o] # 0 => Q!Held(o) = queue[current].msgs
<1>1. QueuesType /\ PlacesInv /\ p \in Q!Procs /\ Notified \subseteq Q!Procs
  BY QueueNames DEF QueuesIInv, Notified
<1>2. program = "notify" /\ id[p] # 0
  BY <1>1 DEF PlacesInv
<1>3. NotifyInv
  BY <1>2 DEF QueuesIInv
<1>4. id[p] = current /\ \A o \in Notified : id[o] # 0 => id[o] = current
  BY <1>2, <1>3 DEF NotifyInv
<1>5. current \in 1 .. Len(queue)
  BY <1>1, <1>2, <1>4 DEF QueuesType
<1>6. \A o \in Notified : id[o] # 0 => Q!Held(o) = queue[current].msgs
  BY <1>4 DEF Q!Held
<1>7. QED
  BY <1>1, <1>2, <1>3, <1>4, <1>5, <1>6, QueueIs

(* One of the three opens the queue of the name.                            *)
LEMMA NotifyOpensStep ==
  ASSUME QueuesIInv, NEW p \in Notified, NEW next \in {"register", "type", "receive"}, Q!NotifyOpens(p, next)
  PROVE  QueuesIInv'
<1>1. /\ QueuesType /\ PlacesInv /\ p \in Q!Procs /\ Notified \subseteq Q!Procs
      /\ Notified = {"notifier", "sender", "receiver"}
  BY QueueNames DEF QueuesIInv, Notified
<1>2. /\ program = "notify" /\ at[p] = "start" /\ Q!Open(p) /\ Q!Goes(p, next)
      /\ UNCHANGED <<program, line, typed, shown, armed, pending, behind, zero, old>>
  BY DEF Q!NotifyOpens, Q!noNotify
<1>3. NotifyInv
  BY <1>2 DEF QueuesIInv
<1>4. /\ QueuesType' /\ OrderInv' /\ PastInv' /\ PlacesInv'
      /\ at'[p] = next /\ \A o \in Q!Procs : o # p => at'[o] = at[o]
  <2>1. next \in QPlace \ {"off", "start", "open", "send"}
    BY DEF QPlace
  <2>2. QED
    BY <1>1, <1>2, <2>1, OpensStep
<1>5. /\ id'[p] = current' /\ current' # 0 /\ \A o \in Q!Procs : o # p => id'[o] = id[o]
      /\ current # 0 => current' = current /\ queue' = queue
  BY <1>1, <1>2, QueueOpened
<1>6. NotifyInv'
  <2>1. CASE current # 0
    <3>1. \A o \in Notified : id'[o] \in {0, current'}
      BY <1>1, <1>3, <1>5, <2>1 DEF NotifyInv
    <3>2. at'["receiver"] = "blocked" => queue'[current'].msgs = <<>>
      BY <1>1, <1>3, <1>4, <1>5, <2>1 DEF NotifyInv
    <3>3. behind' => armed' /\ id'["notifier"] # 0 /\ queue'[current'].msgs # <<>>
      BY <1>1, <1>2, <1>3, <1>5, <2>1 DEF NotifyInv
    <3>4. at'["notifier"] \in {"suspend", "drain"} => at'["notifier"] = at["notifier"]
      BY <1>1, <1>4
    <3>5. QED
      BY <1>2, <1>3, <1>5, <2>1, <3>1, <3>2, <3>3, <3>4 DEF NotifyInv
  <2>2. CASE current = 0
    <3>1. \A o \in Notified : id[o] = 0
      BY <1>3, <2>2 DEF NotifyInv
    <3>2. \A o \in Notified : at[o] \in {"off", "start", "open"}
      BY <1>1, <3>1 DEF PlacesInv
    <3>3. ~behind
      BY <1>1, <1>3, <3>1 DEF NotifyInv
    <3>4. at'["receiver"] # "blocked" /\ at'["notifier"] \notin {"suspend", "drain"}
      BY <1>1, <1>4, <3>2
    <3>5. \A o \in Notified : id'[o] \in {0, current'}
      BY <1>1, <1>5, <3>1
    <3>6. QED
      BY <1>2, <3>3, <3>4, <3>5 DEF NotifyInv
  <2>3. QED
    BY <2>1, <2>2
<1>7. QED
  BY <1>2, <1>4, <1>6 DEF QueuesIInv

(* The notifier registers, is told, and registers again.                   *)
LEMMA NotifierMoves ==
  ASSUME QueuesIInv, Q!Register \/ Q!Suspend \/ Q!Rearm
  PROVE  QueuesIInv'
<1>1. /\ UNCHANGED <<program, id, line, typed, queue, current, shown, zero, old>>
      /\ at["notifier"] \in {"register", "suspend", "rearm"}
  BY DEF Q!Register, Q!Suspend, Q!Rearm
<1>2. PICK to \in {"suspend", "rearm", "drain"} : Q!Goes("notifier", to)
  BY DEF Q!Register, Q!Suspend, Q!Rearm
<1>3. /\ QueuesType /\ PlacesInv /\ "notifier" \in Notified /\ "notifier" \in Readers /\ "notifier" \notin Senders
      /\ "receiver" \in Q!Procs /\ "notifier" # "receiver" /\ "notifier" \in Q!Procs
      /\ Senders \subseteq Q!Procs /\ Readers \subseteq Q!Procs
  BY QueueNames DEF QueuesIInv, Notified
<1>4. at' \in [Q!Procs -> QPlace] /\ at'["notifier"] = to /\ \A o \in Q!Procs : o # "notifier" => at'[o] = at[o]
  <2>1. to \in QPlace
    BY DEF QPlace
  <2>2. QED
    BY <1>2, <1>3, <2>1, GoesTo
<1>5. /\ program = "notify" /\ NotifyInv /\ id["notifier"] # 0
      /\ Q!Held("notifier") = queue[current].msgs
  BY <1>1, <1>3, NotifyFacts
<1>6. armed' \in BOOLEAN /\ pending' \in BOOLEAN /\ zero' \in BOOLEAN /\ behind' \in BOOLEAN
  <2>1. armed' \in BOOLEAN
    BY <1>3 DEF QueuesType, Q!Register, Q!Suspend, Q!Rearm
  <2>2. pending' \in BOOLEAN
    BY <1>3 DEF QueuesType, Q!Register, Q!Suspend, Q!Rearm
  <2>3. behind' \in BOOLEAN
    BY <1>3 DEF QueuesType, Q!Register, Q!Suspend, Q!Rearm
  <2>4. zero' \in BOOLEAN
    BY <1>1, <1>3 DEF QueuesType
  <2>5. QED
    BY <2>1, <2>2, <2>3, <2>4
<1>7. QueuesType' /\ OrderInv' /\ PastInv'
  <2>1. \A s \in Senders : at'[s] = "send" => at[s] = "send"
    BY <1>3, <1>4
  <2>2. QED
    BY <1>1, <1>4, <1>6, <2>1, OnlyPlaces
<1>8. PlacesInv'
  <2>1. \A o \in Q!Procs : (at[o] = "off" => at'[o] = "off") /\ (at'[o] \notin {"off", "start", "open"} => id'[o] # 0)
    BY <1>1, <1>3, <1>4 DEF PlacesInv
  <2>2. \A o \in Readers : at'[o] \in {"off", "start", "open"} => at[o] \in {"off", "start", "open"}
    BY <1>3, <1>4
  <2>3. QED
    BY <1>1, <1>4, <2>1, <2>2, PlacesStep
<1>9. NotifyInv'
  <2>1. (\A o \in Notified : id'[o] \in {0, current'}) /\ (at'["receiver"] = "blocked" => queue'[current'].msgs = <<>>)
    BY <1>1, <1>3, <1>4, <1>5 DEF NotifyInv
  <2>2. CASE Q!Register
    <3>1. at'["notifier"] = "suspend" /\ armed' /\ (behind' <=> queue[current].msgs # <<>>)
      BY <1>2, <1>3, <1>4, <1>5, <2>2 DEF Q!Register, Q!Goes, QueuesType
    <3>2. QED
      BY <1>1, <1>5, <2>1, <3>1 DEF NotifyInv
  <2>3. CASE Q!Suspend
    <3>1. at'["notifier"] = "rearm" /\ UNCHANGED <<armed, behind>>
      BY <1>3, <2>3 DEF Q!Suspend, Q!Goes, QueuesType
    <3>2. QED
      BY <1>1, <1>5, <2>1, <3>1 DEF NotifyInv
  <2>4. CASE Q!Rearm
    <3>1. at'["notifier"] = "drain" /\ armed' /\ UNCHANGED <<pending, behind>>
      BY <1>3, <2>4 DEF Q!Rearm, Q!Goes, QueuesType
    <3>2. QED
      BY <1>1, <1>5, <2>1, <3>1 DEF NotifyInv
  <2>5. QED
    BY <2>2, <2>3, <2>4
<1>10. QED
  BY <1>1, <1>5, <1>7, <1>8, <1>9 DEF QueuesIInv

(* What a process that takes from the queue does to who is to be told.      *)
LEMMA NotifyTaken ==
  ASSUME QueuesIInv, NEW p \in {"notifier", "receiver"}, at[p] \notin {"off", "start", "open", "blocked"},
         Q!Held(p) # <<>>, Q!Take(p), behind' = (behind /\ Len(Q!Held(p)) > 1),
         UNCHANGED <<id, current, armed, pending>>,
         at'["notifier"] = at["notifier"], at'["receiver"] \in {at["receiver"], "ended", "receive"}
  PROVE  NotifyInv' /\ behind' \in BOOLEAN
<1>1. p \in Notified /\ "notifier" \in Notified /\ "receiver" \in Notified /\ p \in Q!Procs /\ QueuesType
  BY QueueNames DEF Notified, QueuesIInv
<1>2. /\ NotifyInv /\ id[p] = current /\ current \in 1 .. Len(queue) /\ id[p] # 0
      /\ \A o \in Notified : id[o] # 0 => Q!Held(o) = queue[current].msgs
  BY <1>1, NotifyFacts
<1>3. PICK t : t = queue[current].msgs
  OBVIOUS
<1>4. t \in Seq(Q!Msgs) /\ t # <<>> /\ Q!Held(p) = t /\ queue'[current].msgs = Tail(t)
  BY <1>1, <1>2, <1>3, QueueTaken
<1>5. Tail(t) = <<>> <=> ~(Len(t) > 1)
  BY <1>4, HeadAndTail
<1>6. behind' = (behind /\ Tail(t) # <<>>)
  BY <1>4, <1>5
<1>7. behind' => behind /\ queue'[current].msgs # <<>>
  BY <1>4, <1>6
<1>8. \A o \in Notified : id'[o] \in {0, current'}
  BY <1>2 DEF NotifyInv
<1>9. at["receiver"] # "blocked"
  BY <1>2, <1>3, <1>4 DEF NotifyInv
<1>10. at["notifier"] = "suspend" => (IF Tail(t) = <<>> THEN armed \/ pending ELSE pending \/ behind')
  <2>1. at["notifier"] = "suspend" => pending \/ behind
    BY <1>2, <1>3, <1>4 DEF NotifyInv
  <2>2. behind => armed
    BY <1>2 DEF NotifyInv
  <2>3. QED
    BY <1>6, <2>1, <2>2
<1>11. /\ at'["receiver"] # "blocked" /\ (behind' => armed /\ id["notifier"] # 0 /\ queue'[current].msgs # <<>>)
       /\ (at'["notifier"] = "drain" => armed \/ pending)
  BY <1>2, <1>7, <1>9 DEF NotifyInv
<1>12. QED
  BY <1>4, <1>6, <1>8, <1>10, <1>11 DEF NotifyInv

(* The notifier takes a message, or waits again when there is none.         *)
LEMMA DrainStep ==
  ASSUME QueuesIInv, Q!Drain
  PROVE  QueuesIInv'
<1>1. /\ at["notifier"] = "drain"
      /\ UNCHANGED <<program, id, line, typed, current, armed, pending, zero, old>>
  BY DEF Q!Drain
<1>2. /\ QueuesType /\ PlacesInv /\ "notifier" \in Notified /\ "notifier" \in Readers /\ "notifier" \notin Senders
      /\ "receiver" \in Q!Procs /\ "notifier" # "receiver" /\ "notifier" \in Q!Procs
      /\ Senders \subseteq Q!Procs /\ Readers \subseteq Q!Procs
  BY QueueNames DEF QueuesIInv, Notified
<1>3. /\ program = "notify" /\ NotifyInv /\ id["notifier"] # 0
      /\ Q!Held("notifier") = queue[current].msgs
  BY <1>1, <1>2, NotifyFacts
<1>4. armed' \in BOOLEAN /\ pending' \in BOOLEAN /\ zero' \in BOOLEAN
  BY <1>1, <1>2 DEF QueuesType
<1>5. PlacesInv' /\ QueuesType' /\ OrderInv' /\ PastInv' /\ NotifyInv'
  <2>1. CASE /\ Q!Held("notifier") # <<>> /\ Q!Take("notifier") /\ Q!Shows("notifier", Head(Q!Held("notifier")))
             /\ behind' = (behind /\ Len(Q!Held("notifier")) > 1) /\ UNCHANGED at
    <3>1. NotifyInv' /\ behind' \in BOOLEAN
      BY <1>1, <2>1, NotifyTaken
    <3>2. at' \in [Q!Procs -> QPlace] /\ line' \in [Q!Procs -> Q!Msgs]
      BY <1>1, <1>2, <2>1 DEF QueuesType
    <3>3. QueuesType' /\ OrderInv' /\ PastInv'
      BY <1>1, <1>2, <1>3, <1>4, <2>1, <3>1, <3>2, TakesStep
    <3>4. \A o \in Q!Procs : o # "notifier" => shown'[o] = shown[o]
      BY <1>2, <2>1 DEF Q!Shows, QueuesType
    <3>5. \A o \in Readers : at'[o] \in {"off", "start", "open"} => at[o] \in {"off", "start", "open"} /\ shown'[o] = shown[o]
      BY <1>1, <1>2, <2>1, <3>4
    <3>6. \A o \in Q!Procs : (at[o] = "off" => at'[o] = "off") /\ (at'[o] \notin {"off", "start", "open"} => id'[o] # 0)
      BY <1>1, <1>2, <2>1 DEF PlacesInv
    <3>7. PlacesInv'
      BY <1>1, <3>2, <3>5, <3>6, PlacesStep
    <3>8. QED
      BY <3>1, <3>3, <3>7
  <2>2. CASE Q!Held("notifier") = <<>> /\ Q!Goes("notifier", "suspend") /\ UNCHANGED <<queue, shown, behind>>
    <3>1. at' \in [Q!Procs -> QPlace] /\ at'["notifier"] = "suspend" /\ \A o \in Q!Procs : o # "notifier" => at'[o] = at[o]
      <4>1. "suspend" \in QPlace
        BY DEF QPlace
      <4>2. QED
        BY <1>2, <2>2, <4>1, GoesTo
    <3>2. behind' \in BOOLEAN
      BY <1>2, <2>2 DEF QueuesType
    <3>3. \A s \in Senders : at'[s] = "send" => at[s] = "send"
      BY <1>2, <3>1
    <3>4. QueuesType' /\ OrderInv' /\ PastInv'
      BY <1>1, <1>4, <2>2, <3>1, <3>2, <3>3, OnlyPlaces
    <3>5. \A o \in Q!Procs : (at[o] = "off" => at'[o] = "off") /\ (at'[o] \notin {"off", "start", "open"} => id'[o] # 0)
      BY <1>1, <1>2, <3>1 DEF PlacesInv
    <3>6. \A o \in Readers : at'[o] \in {"off", "start", "open"} => at[o] \in {"off", "start", "open"}
      BY <1>2, <3>1
    <3>7. PlacesInv'
      BY <1>1, <2>2, <3>1, <3>5, <3>6, PlacesStep
    <3>8. NotifyInv'
      BY <1>1, <1>2, <1>3, <2>2, <3>1 DEF NotifyInv
    <3>9. QED
      BY <3>4, <3>7, <3>8
  <2>3. QED
    BY <2>1, <2>2 DEF Q!Drain
<1>6. QED
  BY <1>1, <1>3, <1>5 DEF QueuesIInv

(* A line is typed at the sender.                                           *)
LEMMA SenderTypesStep ==
  ASSUME QueuesIInv, Q!SenderTypes
  PROVE  QueuesIInv'
<1>1. /\ at["sender"] = "type" /\ typed["sender"] < MaxLines /\ Q!Goes("sender", "send")
      /\ typed' = [typed EXCEPT !["sender"] = @ + 1]
      /\ UNCHANGED <<program, id, queue, current, shown, armed, pending, behind, zero, old>>
  BY DEF Q!SenderTypes, Q!noNotify
<1>2. PICK k \in {0, typed["sender"] + 1} : line' = [line EXCEPT !["sender"] = [by |-> "sender", n |-> k]]
  BY DEF Q!SenderTypes
<1>3. /\ "sender" \in Notified /\ "sender" \in Senders /\ "notifier" \in Q!Procs /\ "receiver" \in Q!Procs
      /\ "sender" # "notifier" /\ "sender" # "receiver"
  BY QueueNames DEF Notified
<1>4. program = "notify" /\ NotifyInv
  BY <1>1, <1>3, NotifyFacts
<1>5. /\ QueuesType' /\ PlacesInv' /\ OrderInv' /\ PastInv'
      /\ \A o \in Q!Procs : o # "sender" => at'[o] = at[o]
  BY <1>1, <1>2, <1>3, TypesStep
<1>6. NotifyInv'
  BY <1>1, <1>3, <1>4, <1>5 DEF NotifyInv
<1>7. QED
  BY <1>1, <1>4, <1>5, <1>6 DEF QueuesIInv

(* The receiver takes a message, or waits when there is none.               *)
LEMMA ReceiverReceivesStep ==
  ASSUME QueuesIInv, Q!ReceiverReceives
  PROVE  QueuesIInv'
<1>1. /\ at["receiver"] = "receive"
      /\ UNCHANGED <<program, id, line, typed, current, armed, pending, zero, old>>
  BY DEF Q!ReceiverReceives
<1>2. /\ QueuesType /\ PlacesInv /\ "receiver" \in Notified /\ "receiver" \in Readers /\ "receiver" \notin Senders
      /\ "notifier" \in Q!Procs /\ "notifier" # "receiver" /\ "receiver" \in Q!Procs
      /\ Senders \subseteq Q!Procs /\ Readers \subseteq Q!Procs
  BY QueueNames DEF QueuesIInv, Notified
<1>3. /\ program = "notify" /\ NotifyInv /\ id["receiver"] # 0
      /\ Q!Held("receiver") = queue[current].msgs
  BY <1>1, <1>2, NotifyFacts
<1>4. PICK to \in {"receive", "ended", "blocked"} : Q!Goes("receiver", to)
  BY DEF Q!ReceiverReceives, Q!AfterReceive
<1>5. at' \in [Q!Procs -> QPlace] /\ at'["receiver"] = to /\ \A o \in Q!Procs : o # "receiver" => at'[o] = at[o]
  <2>1. to \in QPlace
    BY DEF QPlace
  <2>2. QED
    BY <1>2, <1>4, <2>1, GoesTo
<1>6. armed' \in BOOLEAN /\ pending' \in BOOLEAN /\ zero' \in BOOLEAN
  BY <1>1, <1>2 DEF QueuesType
<1>7. \A s \in Senders : line'[s] = line[s] /\ (at'[s] = "send" => at[s] = "send")
  BY <1>1, <1>2, <1>5
<1>8. PlacesInv'
  <2>1. \A o \in Q!Procs : (at[o] = "off" => at'[o] = "off") /\ (at'[o] \notin {"off", "start", "open"} => id'[o] # 0)
    BY <1>1, <1>2, <1>3, <1>5 DEF PlacesInv
  <2>2. \A o \in Readers : at'[o] \in {"off", "start", "open"} => at[o] \in {"off", "start", "open"} /\ o # "receiver"
    BY <1>2, <1>5
  <2>3. \A o \in Q!Procs : o # "receiver" => shown'[o] = shown[o]
    BY <1>2 DEF Q!ReceiverReceives, Q!Receives, Q!Shows, QueuesType
  <2>4. \A o \in Readers : at'[o] \in {"off", "start", "open"} => shown'[o] = shown[o]
    BY <1>2, <2>2, <2>3
  <2>5. QED
    BY <1>1, <1>5, <2>1, <2>2, <2>4, PlacesStep
<1>9. QueuesType' /\ OrderInv' /\ PastInv' /\ NotifyInv'
  <2>1. CASE /\ Q!Held("receiver") # <<>> /\ Q!Take("receiver") /\ Q!Receives(Head(Q!Held("receiver")))
             /\ Q!Goes("receiver", Q!AfterReceive(Head(Q!Held("receiver"))))
             /\ behind' = (behind /\ Len(Q!Held("receiver")) > 1)
    <3>1. at'["receiver"] \in {"ended", "receive"}
      BY <1>2, <2>1 DEF Q!Goes, Q!AfterReceive, QueuesType
    <3>2. NotifyInv' /\ behind' \in BOOLEAN
      BY <1>1, <1>2, <1>5, <2>1, <3>1, NotifyTaken
    <3>3. line' \in [Q!Procs -> Q!Msgs]
      BY <1>1, <1>2 DEF QueuesType
    <3>4. UNCHANGED shown \/ Q!Shows("receiver", Head(Q!Held("receiver")))
      BY <2>1 DEF Q!Receives
    <3>5. QueuesType' /\ OrderInv' /\ PastInv'
      BY <1>1, <1>2, <1>3, <1>5, <1>6, <1>7, <2>1, <3>2, <3>3, <3>4, TakesStep
    <3>6. QED
      BY <3>2, <3>5
  <2>2. CASE /\ Q!Held("receiver") = <<>> /\ Q!Goes("receiver", "blocked") /\ UNCHANGED <<queue, shown, behind>>
    <3>1. behind' \in BOOLEAN
      BY <1>2, <2>2 DEF QueuesType
    <3>2. QueuesType' /\ OrderInv' /\ PastInv'
      BY <1>1, <1>5, <1>6, <1>7, <2>2, <3>1, OnlyPlaces
    <3>3. NotifyInv'
      BY <1>1, <1>2, <1>3, <1>5, <2>2 DEF NotifyInv
    <3>4. QED
      BY <3>2, <3>3
  <2>3. QED
    BY <2>1, <2>2 DEF Q!ReceiverReceives
<1>10. QED
  BY <1>1, <1>3, <1>8, <1>9 DEF QueuesIInv

(* The sender puts its message in, or hands it to the receiver that waits.  *)
LEMMA SenderSendsStep ==
  ASSUME QueuesIInv, Q!SenderSends
  PROVE  QueuesIInv'
<1>1. /\ at["sender"] = "send"
      /\ UNCHANGED <<program, id, line, typed, current, behind, zero, old>>
  BY DEF Q!SenderSends
<1>2. /\ QueuesType /\ PlacesInv /\ "sender" \in Notified /\ "sender" \notin Readers /\ "sender" \in Senders
      /\ "notifier" \in Notified /\ "receiver" \in Notified /\ "notifier" \in Q!Procs /\ "sender" \in Q!Procs
      /\ "receiver" \in Q!Procs /\ "receiver" \in Readers /\ "receiver" \notin Senders
      /\ "sender" # "receiver" /\ "sender" # "notifier" /\ "notifier" # "receiver"
      /\ Senders \subseteq Q!Procs /\ Readers \subseteq Q!Procs
  BY QueueNames DEF QueuesIInv, Notified
<1>3. /\ program = "notify" /\ NotifyInv /\ id["sender"] # 0 /\ id["sender"] = current
      /\ Q!Held("sender") = queue[current].msgs /\ current \in 1 .. Len(queue)
      /\ queue[current].msgs \in Seq(Q!Msgs) /\ (id["receiver"] # 0 => id["receiver"] = current)
  BY <1>1, <1>2, NotifyFacts DEF NotifyInv
<1>4. line["sender"] \in Q!Msgs /\ Q!AfterSend \in {"ended", "type"}
      /\ Q!AfterReceive(line["sender"]) \in {"ended", "receive"}
  BY <1>2 DEF QueuesType, Q!AfterSend, Q!AfterReceive
<1>5. {"ended", "type", "receive"} \subseteq QPlace
  BY DEF QPlace
<1>6. behind' \in BOOLEAN /\ zero' \in BOOLEAN
  BY <1>1, <1>2 DEF QueuesType
<1>7. CASE /\ at["receiver"] = "blocked"
           /\ at' = [at EXCEPT !["sender"] = Q!AfterSend, !["receiver"] = Q!AfterReceive(line["sender"])]
           /\ Q!Receives(line["sender"]) /\ UNCHANGED <<queue, armed, pending>>
  <2>1. /\ at' \in [Q!Procs -> QPlace] /\ at'["sender"] \in {"ended", "type"} /\ at'["receiver"] \in {"ended", "receive"}
        /\ \A o \in Q!Procs : o \notin {"sender", "receiver"} => at'[o] = at[o]
    BY <1>2, <1>4, <1>5, <1>7 DEF QueuesType
  <2>2. id["receiver"] = current /\ queue[current].msgs = <<>> /\ id["receiver"] # 0
    BY <1>2, <1>3, <1>7 DEF PlacesInv, NotifyInv
  <2>3. armed' \in BOOLEAN /\ pending' \in BOOLEAN
    BY <1>2, <1>7 DEF QueuesType
  <2>4. \A s \in Senders : at'[s] = "send" => at[s] = "send"
    BY <1>2, <2>1
  <2>5. QueuesType' /\ OrderInv' /\ PastInv'
    <3>1. CASE UNCHANGED shown
      BY <1>1, <1>6, <1>7, <2>1, <2>3, <2>4, <3>1, OnlyPlaces
    <3>2. CASE Q!Shows("receiver", line["sender"])
      <4>1. shown' \in [Q!Procs -> Seq(Q!Msgs)]
        BY <1>2, <1>4, <3>2, Shown
      <4>2. QueuesType'
        BY <1>1, <1>2, <1>6, <1>7, <2>1, <2>3, <4>1 DEF QueuesType
      <4>3. SendingInv' /\ PastStep
        BY <1>1, <2>4, SendingKept DEF QueuesIInv, PastInv, PastStep
      <4>4. at'["sender"] # "send"
        BY <2>1
      <4>5. OrderInv'
        BY <1>1, <1>2, <1>7, <2>2, <3>2, OrderGiven DEF QueuesIInv
      <4>6. PastInv'
        BY <1>1, <1>2, <1>7, <3>2, <4>3, <4>4, PastGiven DEF QueuesIInv
      <4>7. QED
        BY <4>2, <4>5, <4>6
    <3>3. QED
      BY <1>7, <3>1, <3>2 DEF Q!Receives
  <2>6. PlacesInv'
    <3>1. \A o \in Q!Procs : (at[o] = "off" => at'[o] = "off") /\ (at'[o] \notin {"off", "start", "open"} => id'[o] # 0)
      BY <1>1, <1>2, <1>3, <1>7, <2>1, <2>2 DEF PlacesInv
    <3>2. \A o \in Q!Procs : o # "receiver" => shown'[o] = shown[o]
      BY <1>2, <1>7 DEF Q!Receives, Q!Shows, QueuesType
    <3>3. \A o \in Readers : at'[o] \in {"off", "start", "open"} => at[o] \in {"off", "start", "open"} /\ shown'[o] = shown[o]
      BY <1>2, <2>1, <3>2
    <3>4. QED
      BY <1>1, <2>1, <3>1, <3>3, PlacesStep
  <2>7. NotifyInv'
    BY <1>1, <1>2, <1>3, <1>7, <2>1 DEF NotifyInv
  <2>8. QED
    BY <1>1, <1>3, <2>5, <2>6, <2>7 DEF QueuesIInv
<1>8. CASE /\ at["receiver"] # "blocked" /\ Q!Put("sender") /\ Q!Goes("sender", Q!AfterSend)
           /\ IF armed /\ Q!Held("sender") = <<>> THEN armed' = FALSE /\ pending' = TRUE
              ELSE UNCHANGED <<armed, pending>>
           /\ UNCHANGED shown
  <2>1. /\ at' \in [Q!Procs -> QPlace] /\ at'["sender"] \in {"ended", "type"}
        /\ \A o \in Q!Procs : o # "sender" => at'[o] = at[o]
    BY <1>2, <1>4, <1>5, <1>8, GoesTo
  <2>2. armed' \in BOOLEAN /\ pending' \in BOOLEAN
    BY <1>2, <1>8 DEF QueuesType
  <2>3. \A s \in Senders : at'[s] = "send" => at[s] = "send"
    BY <1>2, <2>1
  <2>4. QueuesType' /\ OrderInv' /\ PastInv'
    <3>1. at'["sender"] # "send"
      BY <2>1
    <3>2. QED
      BY <1>1, <1>2, <1>3, <1>6, <1>8, <2>1, <2>2, <2>3, <3>1, PutsStep
  <2>5. PlacesInv'
    <3>1. \A o \in Q!Procs : (at[o] = "off" => at'[o] = "off") /\ (at'[o] \notin {"off", "start", "open"} => id'[o] # 0)
      BY <1>1, <1>2, <1>3, <2>1 DEF PlacesInv
    <3>2. \A o \in Readers : at'[o] = at[o]
      BY <1>2, <2>1
    <3>3. QED
      BY <1>1, <1>8, <2>1, <3>1, <3>2, PlacesStep
  <2>6. queue'[current].msgs # <<>>
    <3>1. PICK t : t = queue[current].msgs
      OBVIOUS
    <3>2. queue'[current].msgs = Append(t, line["sender"])
      BY <1>2, <1>3, <1>8, <3>1, QueuePut
    <3>3. QED
      BY <1>3, <1>4, <3>1, <3>2, Appended
  <2>7. NotifyInv'
    <3>1. at'["notifier"] = at["notifier"] /\ at'["receiver"] # "blocked"
      BY <1>2, <1>8, <2>1
    <3>2. behind => armed' /\ id'["notifier"] # 0
      BY <1>1, <1>3, <1>8 DEF NotifyInv
    <3>3. at["notifier"] = "drain" => armed' \/ pending'
      BY <1>3, <1>8 DEF NotifyInv
    <3>4. at["notifier"] = "suspend" => pending' \/ behind
      BY <1>3, <1>8 DEF NotifyInv
    <3>5. QED
      BY <1>1, <1>3, <2>6, <3>1, <3>2, <3>3, <3>4 DEF NotifyInv
  <2>8. QED
    BY <1>1, <1>3, <2>4, <2>5, <2>7 DEF QueuesIInv
<1>9. QED
  BY <1>7, <1>8 DEF Q!SenderSends
-----------------------------------------------------------------------------
(* The programs of MessageQueues begin as the invariant says.               *)
LEMMA QueuesInit == Q!Init => QueuesIInv
<1> SUFFICES ASSUME Q!Init PROVE QueuesIInv
  OBVIOUS
<1>1. /\ program \in {"lab3", "msgq", "notify"}
      /\ at = [p \in Q!Procs |-> IF p \in Q!ProcsOf(program) THEN "start" ELSE "off"]
      /\ id = [p \in Q!Procs |-> 0] /\ line = [p \in Q!Procs |-> Q!NoMsg] /\ typed = [p \in Q!Procs |-> 0]
      /\ shown = [p \in Q!Procs |-> <<>>] /\ old = {}
      /\ armed = FALSE /\ pending = FALSE /\ zero = FALSE /\ behind = FALSE
  BY DEF Q!Init
<1>2. Senders \subseteq Q!Procs /\ Readers \subseteq Q!Procs /\ Notified \subseteq Q!Procs
  BY QueueNames DEF Notified
<1>3. \A p \in Q!Procs : at[p] \in {"off", "start"} /\ id[p] = 0 /\ shown[p] = <<>> /\ typed[p] = 0
  BY <1>1
<1>4. /\ queue \in Seq(QueueType) /\ Len(queue) \in {0, 1}
      /\ (current = 0 /\ queue = <<>>) \/ (current = 1 /\ Len(queue) = 1 /\ queue[1].alive)
      /\ \A q \in 1 .. Len(queue) : queue[q].msgs \in Seq(Q!Msgs) /\ Len(queue[q].msgs) <= 1
                                    /\ \A k \in 1 .. Len(queue[q].msgs) : queue[q].msgs[k].by = "server"
  <2>1. CASE queue = <<>> /\ current = 0
    BY <2>1
  <2>2. CASE current = 1 /\ queue \in {<<Q!Empty>>, <<[Q!Empty EXCEPT !.msgs = <<[by |-> "server", n |-> 1]>>]>>}
    <3>1. PICK e : queue = <<e>> /\ e \in {Q!Empty, [Q!Empty EXCEPT !.msgs = <<[by |-> "server", n |-> 1]>>]}
      BY <2>2
    <3>2. PICK m : m = [by |-> "server", n |-> 1]
      OBVIOUS
    <3>3. m \in Q!Msgs /\ m.by = "server"
      BY <3>2, QueueNames, LabsAssumption DEF Q!Msgs
    <3>4. e.alive = TRUE /\ e.msgs \in {<<>>, <<m>>} /\ e = [alive |-> e.alive, msgs |-> e.msgs]
      BY <3>1, <3>2 DEF Q!Empty
    <3>5. e.msgs \in Seq(Q!Msgs) /\ Len(e.msgs) <= 1 /\ \A k \in 1 .. Len(e.msgs) : e.msgs[k].by = "server"
      <4>1. CASE e.msgs = <<>>
        BY <4>1
      <4>2. CASE e.msgs = <<m>>
        <5>1. PICK s : s = <<m>>
          OBVIOUS
        <5>2. s \in Seq(Q!Msgs) /\ Len(s) = 1 /\ s[1] = m
          BY <3>3, <5>1
        <5>3. QED
          BY <3>3, <4>2, <5>1, <5>2
      <4>3. QED
        BY <3>4, <4>1, <4>2
    <3>6. e \in QueueType
      BY <3>4, <3>5 DEF QueueType
    <3>7. Len(queue) = 1 /\ queue[1] = e /\ queue \in Seq(QueueType)
      BY <3>1, <3>6
    <3>8. QED
      BY <2>2, <3>4, <3>5, <3>7
  <2>3. QED
    BY <2>1, <2>2 DEF Q!Init
<1>5. QueuesType
  <2>1. Q!NoMsg \in Q!Msgs /\ <<>> \in Seq(Q!Msgs) /\ 0 \in 0 .. MaxLines /\ 0 \in 0 .. Len(queue)
    BY <1>4, QueueNames, LabsAssumption DEF Q!NoMsg, Q!Msgs
  <2>2. at \in [Q!Procs -> QPlace]
    BY <1>1 DEF QPlace
  <2>3. \A q \in 1 .. Len(queue) : Len(queue[q].msgs) <= Capacity
    BY <1>4, LabsAssumption
  <2>4. current \in 0 .. Len(queue) /\ (current # 0 => queue[current].alive)
    BY <1>4
  <2>5. armed \in BOOLEAN /\ pending \in BOOLEAN /\ zero \in BOOLEAN /\ behind \in BOOLEAN
    BY <1>1
  <2>6. id \in [Q!Procs -> 0 .. Len(queue)] /\ line \in [Q!Procs -> Q!Msgs] /\ typed \in [Q!Procs -> 0 .. MaxLines]
    BY <1>1, <2>1
  <2>7. shown \in [Q!Procs -> Seq(Q!Msgs)]
    BY <1>1, <2>1
  <2>8. QED
    BY <1>1, <1>4, <2>2, <2>3, <2>4, <2>5, <2>6, <2>7 DEF QueuesType
<1>6. PlacesInv
  <2>1. /\ program # "lab3" => \A p \in Q!Mains \cup Q!Cos : at[p] = "off"
        /\ program # "msgq" => \A p \in Q!QueueClients \cup {"server"} : at[p] = "off"
        /\ program # "notify" => \A p \in Notified : at[p] = "off"
    BY <1>1, QueueNames DEF Q!ProcsOf, Notified
  <2>2. QED
    BY <1>2, <1>3, <2>1 DEF PlacesInv
<1>7. OrderInv
  BY <1>2, <1>3, <1>4 DEF OrderInv, InOrder
<1>8. PastInv
  <2>1. "server" \notin Senders
    BY QueueNames
  <2>2. SendingInv
    BY <1>2, <1>3 DEF SendingInv
  <2>3. \A q \in 1 .. Len(queue) : AllPast(queue[q].msgs)
    BY <1>4, <2>1 DEF AllPast, Past
  <2>4. \A r \in Readers : AllPast(shown[r])
    BY <1>2, <1>3 DEF AllPast
  <2>5. QED
    BY <1>1, <2>2, <2>3, <2>4 DEF PastInv
<1>9. program = "lab3" => Lab3Inv
  <2>1. "main1" \in Q!Procs /\ "main2" \in Q!Procs /\ "co1" \in Q!Procs /\ "co2" \in Q!Procs
    BY QueueNames
  <2>2. program = "lab3" => at["co1"] = "off" /\ at["co2"] = "off" /\ at["main1"] = "start" /\ at["main2"] = "start"
    BY <1>1, <2>1, QueueNames DEF Q!ProcsOf
  <2>3. \A m \in Q!Mains : shown[m] = <<>>
    BY <1>3, <2>1, QueueNames
  <2>4. OneMainInv \/ program # "lab3"
    BY <1>1, <1>3, <2>1, <2>2 DEF OneMainInv, AllBy
  <2>5. QED
    BY <1>3, <2>1, <2>2, <2>3, <2>4 DEF Lab3Inv
<1>10. NotifyInv
  <2>1. "notifier" \in Q!Procs /\ "receiver" \in Q!Procs
    BY QueueNames
  <2>2. QED
    BY <1>1, <1>2, <1>3, <2>1 DEF NotifyInv
<1>11. QED
  BY <1>5, <1>6, <1>7, <1>8, <1>9, <1>10 DEF QueuesIInv

(* Every step of theirs keeps it.                                           *)
LEMMA QueuesNext ==
  ASSUME QueuesIInv, Q!Next
  PROVE  QueuesIInv'
<1>1. ASSUME NEW m \in Q!Mains, Q!Start(m) \/ Q!Kill(m) PROVE QueuesIInv'
  BY <1>1, StartStep, MainMoves
<1>2. ASSUME NEW p \in Q!Procs, Q!CoTypes(p) \/ Q!MsgqOpens(p) \/ Q!ClientTypes(p) \/ Q!ClientQuits(p)
      PROVE  QueuesIInv'
  <2>1. Q!CoTypes(p) => p \in Q!Cos
    BY DEF Q!CoTypes
  <2>2. QED
    BY <1>2, <2>1, CoTypesStep, MsgqOpensStep, ClientTypesStep, ClientQuitsStep
<1>3. ASSUME Q!NotifierOpens \/ Q!SenderOpens \/ Q!ReceiverOpens PROVE QueuesIInv'
  <2>1. {"notifier", "sender", "receiver"} \subseteq Notified
    BY DEF Notified
  <2>2. QED
    BY <1>3, <2>1, NotifyOpensStep DEF Q!NotifierOpens, Q!SenderOpens, Q!ReceiverOpens
<1>4. ASSUME NEW p \in Q!Procs, Q!System(p) PROVE QueuesIInv'
  <2>1. ASSUME p \in Q!Mains, Q!Create(p) \/ Q!Fork(p) \/ Q!WaitForCo(p) \/ Q!MainReceives(p) PROVE QueuesIInv'
    BY <2>1, CreateStep, MainMoves, MainReceivesStep
  <2>2. ASSUME Q!CoOpens(p) \/ Q!CoSends(p) PROVE QueuesIInv'
    <3>1. p \in Q!Cos
      BY <2>2 DEF Q!CoOpens, Q!CoSends
    <3>2. QED
      BY <2>2, <3>1, CoOpensStep, CoSendsStep
  <2>3. QED
    BY <1>4, <2>1, <2>2, ClientSendsStep, ServerReceivesStep, NotifierMoves, DrainStep, SenderSendsStep,
       ReceiverReceivesStep DEF Q!System
<1>5. QED
  BY <1>1, <1>2, <1>3, <1>4, SenderTypesStep DEF Q!Next, Q!User

(* It implies what is stated of them.                                       *)
LEMMA QueuesSafe == QueuesIInv => QueuesInv
<1> SUFFICES ASSUME QueuesIInv PROVE QueuesInv
  OBVIOUS
<1>1. QueuesType /\ PlacesInv /\ OrderInv
  BY DEF QueuesIInv
<1>2. Q!TypeOK
  <2>1. DOMAIN queue = 1 .. Len(queue)
    BY <1>1 DEF QueuesType
  <2>2. \A q \in DOMAIN queue : queue[q].msgs \in Seq(Q!Msgs) /\ Len(queue[q].msgs) <= Capacity
    BY <1>1, <2>1, QueueIs DEF QueuesTyped
  <2>3. {armed, pending, zero, behind} \subseteq BOOLEAN
    BY <1>1 DEF QueuesType
  <2>4. current \in 0 .. Len(queue) /\ (current # 0 => queue[current].alive)
    BY <1>1 DEF QueuesType
  <2>5. QED
    BY <1>1, <2>2, <2>3, <2>4 DEF QueuesType, QPlace, Q!TypeOK
<1>3. \A r \in Readers : shown[r] \in Seq(Q!Msgs) /\ DOMAIN shown[r] = 1 .. Len(shown[r])
  <2>1. \A r \in Readers : shown[r] \in Seq(Q!Msgs)
    BY <1>1, QueueNames DEF QueuesType
  <2>2. QED
    BY <2>1
<1>4. "main1" \in Readers /\ "main2" \in Readers /\ {"server", "notifier", "receiver"} \subseteq Readers
  BY QueueNames
<1>5. Q!NothingOld
  BY <1>3, <1>4 DEF QueuesIInv, Lab3Inv, Q!NothingOld
<1>6. Q!LinesInOrder
  <2>1. ASSUME program = "lab3", at["main2"] = "start",
               NEW j \in DOMAIN shown["main1"], NEW k \in DOMAIN shown["main1"], j < k
        PROVE  shown["main1"][j].n < shown["main1"][k].n
    <3>1. j \in 1 .. Len(shown["main1"]) /\ k \in 1 .. Len(shown["main1"])
      BY <1>3, <1>4
    <3>2. Before(shown["main1"][j], shown["main1"][k])
      BY <1>1, <1>4, <2>1, <3>1 DEF OrderInv, InOrder
    <3>3. shown["main1"][j].by = "co1" /\ shown["main1"][k].by = "co1" /\ shown["main1"][k].n # 0
      BY <2>1, <3>1, QueueNames DEF QueuesIInv, Lab3Inv, OneMainInv, AllBy
    <3>4. QED
      BY <3>2, <3>3 DEF Before
  <2>2. QED
    BY <2>1 DEF Q!LinesInOrder
<1>7. Q!SendersInOrder
  BY <1>1, <1>3, <1>4 DEF OrderInv, InOrder, Before, Q!SendersInOrder
<1>8. Q!NoLostWakeUp
  <2>1. "notifier" \in Notified
    BY DEF Notified
  <2>2. CASE at["notifier"] = "suspend"
    <3>1. NotifyInv /\ Q!Held("notifier") = queue[current].msgs
      BY <2>1, <2>2, NotifyFacts
    <3>2. QED
      BY <2>2, <3>1 DEF NotifyInv, Q!NoLostWakeUp
  <2>3. QED
    BY <2>2 DEF Q!NoLostWakeUp
<1>9. QED
  BY <1>2, <1>5, <1>6, <1>7, <1>8 DEF QueuesInv, Q!QueuesInv

(* The queues hand over what is sent: a reader gets a sender's messages in   *)
(* the order they were typed, a main started anew nothing that is old, and  *)
(* a notifier that waits has been or will be told, for any number of lines   *)
(* and any capacity.                                                       *)
THEOREM QueuesAreSafe == MCSpec => []QueuesInv
<1>1. MCInit => QueuesIInv
  BY QueuesInit DEF MCInit
<1>2. QueuesIInv /\ [MCNext]_mcVars => QueuesIInv'
  <2>1. SUFFICES ASSUME QueuesIInv, [MCNext]_mcVars PROVE QueuesIInv'
    OBVIOUS
  <2>2. ASSUME UNCHANGED qVars PROVE QueuesIInv'
    <3>1. UNCHANGED <<program, at, id, line, typed, queue, current, shown, armed, pending, zero, behind, old>>
      BY <2>2 DEF qVars
    <3>2. QueuesType' /\ OrderInv' /\ PastInv'
      BY <2>1, <3>1, OnlyPlaces DEF QueuesIInv, QueuesType
    <3>3. PlacesInv' /\ (program' = "lab3" => Lab3Inv') /\ (program' = "notify" => NotifyInv')
      BY <2>1, <3>1 DEF QueuesIInv, PlacesInv, Lab3Inv, OneMainInv, AllBy, Fresh, NotifyInv
    <3>4. QED
      BY <3>2, <3>3 DEF QueuesIInv
  <2>3. CASE Queues(Q!Next)
    BY <2>1, <2>3, QueuesNext DEF Queues
  <2>4. CASE Segment(Next) \/ Handoffs(H!Next) \/ Mapped(F!Next) \/ UNCHANGED mcVars
    BY <2>2, <2>4 DEF Segment, Handoffs, Mapped, mcVars
  <2>5. QED
    BY <2>1, <2>3, <2>4 DEF MCNext
<1>3. QED
  BY <1>1, <1>2, QueuesSafe, PTL DEF MCSpec
=============================================================================
