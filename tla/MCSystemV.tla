----------------------------- MODULE MCSystemV -----------------------------
(***************************************************************************)
(* The labs on objects the kernel keeps for their processes, one lab in     *)
(* each behaviour while the others stay as they begin:                     *)
(*  - segment: two servers, so that one may start while the other cleans up  *)
(*    or after it was killed, and three clients for two messages;           *)
(*  - queues: each program of MessageQueues;                                *)
(*  - handoff: each program of Handoff;                                   *)
(*  - mapped: two writers and a reader of MappedMemory.                     *)
(***************************************************************************)
EXTENDS SysvShm

CONSTANTS s1, s2, c1, c2, c3
MCServers == {s1, s2}
MCClients == {c1, c2, c3}

CONSTANTS Capacity, MaxLines, Rounds, Tokens, Preset, Cells

VARIABLES lab,
          program, at, id, line, typed, queue, current, shown, armed, pending, zero, behind, old,
          hProgram, hAt, n, sem, there, sees, hShown, signalled, missed, kills,
          fKind, exists, full, written, fAt, done, fShown, quiet

Q == INSTANCE MessageQueues
H == INSTANCE Handoff WITH program <- hProgram, at <- hAt, shown <- hShown
F == INSTANCE MappedMemory WITH kind <- fKind, at <- fAt, shown <- fShown

(* What the programs are compiled with and typed.                         *)
ASSUME LabsAssumption ==
  /\ Capacity \in Nat \ {0} /\ MaxLines \in Nat \ {0}
  /\ Rounds \in Nat \ {0} /\ Tokens \in Nat \ {0} /\ Preset \in Nat /\ Cells \in Nat \ {0}

qVars == <<program, at, id, line, typed, queue, current, shown, armed, pending, zero, behind, old>>
hVars == <<hProgram, hAt, n, sem, there, sees, hShown, signalled, missed, kills>>
fVars == <<fKind, exists, full, written, fAt, done, fShown, quiet>>
mcVars == <<lab, vars, qVars, hVars, fVars>>

MCInit ==
  /\ lab \in {"segment", "queues", "handoff", "mapped"}
  /\ Init /\ Q!Init /\ H!Init /\ F!Init
  /\ lab # "queues" => program = "lab3" /\ current = 0
  /\ lab # "handoff" => hProgram = "oneshot"
  /\ lab # "mapped" => fKind = "file"

(* A step of the module whose turn it is.                                  *)
Segment(step) == lab = "segment" /\ step /\ UNCHANGED <<lab, qVars, hVars, fVars>>
Queues(step) == lab = "queues" /\ step /\ UNCHANGED <<lab, vars, hVars, fVars>>
Handoffs(step) == lab = "handoff" /\ step /\ UNCHANGED <<lab, vars, qVars, fVars>>
Mapped(step) == lab = "mapped" /\ step /\ UNCHANGED <<lab, vars, qVars, hVars>>

MCNext == Segment(Next) \/ Queues(Q!Next) \/ Handoffs(H!Next) \/ Mapped(F!Next)

(* The fairness of each module's own specification.                        *)
MCSpec ==
  /\ MCInit /\ [][MCNext]_mcVars
  /\ \A s \in Servers : WF_mcVars(Segment(ServerStep(s)))
  /\ \A c \in Clients : WF_mcVars(Segment(ClientStep(c)))
  /\ \A p \in Q!Procs : WF_mcVars(Queues(Q!System(p)))
  /\ WF_mcVars(Handoffs(H!TimeIsUp)) /\ \A p \in H!Procs : WF_mcVars(Handoffs(H!Step(p)))

(* What the three other modules state of their programs; MappedInv goes     *)
(* with HandoffInv.                                                        *)
QueuesInv == Q!QueuesInv
QueuesEnd == Q!QueuesEnd
HandoffInv == H!HandoffInv /\ F!MappedInv
HandoffEnds == lab = "handoff" => H!HandoffEnds

(* critical.c:42: a SIGQUIT in its last sleep ends it, with a core file.    *)
QuitTerminates == H!QuitTerminates
=============================================================================
