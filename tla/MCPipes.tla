------------------------------ MODULE MCPipes ------------------------------
(***************************************************************************)
(* The labs on pipes and FIFOs, one lab in each behaviour while the others   *)
(* stay as they begin:                                                     *)
(*  - pingpong: numbers of one to four digits, so that either child may be   *)
(*    the one that gets to zero, and every content of sa_mask;              *)
(*  - pipelines: each program of Pipelines; a pipe holds two items, commands *)
(*    write up to three;                                                   *)
(*  - talk: each program of CoProcesses.                                    *)
(***************************************************************************)
EXTENDS PingPong

MCMs == {1, 3, 16, 99, 100, 999, 1000, 9999}
MCNs == {2, 3, 7}

CONSTANTS Capacity, MaxOutput, MaxLines, Rounds, MaxFds
ASSUME PipelinesAssumption == Capacity \in Nat \ {0} /\ MaxOutput \in Nat
ASSUME TalkAssumption == Rounds \in Nat \ {0} /\ MaxLines \in Nat /\ MaxFds \in Nat

VARIABLES lab,
          program, cmds, output, proc, pPipe, shown, lines, failed,
          cProgram, variant, at, cN, cPipe, cShown, buf, exists, deaf, fds, sent, lost, killed

P == INSTANCE Pipelines WITH pipe <- pPipe
C == INSTANCE CoProcesses WITH program <- cProgram, n <- cN, pipe <- cPipe, shown <- cShown

pVars == <<program, cmds, output, proc, pPipe, shown, lines, failed>>
cVars == <<cProgram, variant, at, cN, cPipe, cShown, buf, exists, deaf, fds, sent, lost, killed>>
mcVars == <<lab, vars, pVars, cVars>>

MCInit ==
  /\ lab \in {"pingpong", "pipelines", "talk"}
  /\ Init /\ P!Init /\ C!Init
  /\ lab # "pingpong" => n = 2 /\ mask = {} /\ val[0] = 1
  /\ lab # "pipelines" => program = "shell" /\ output = 0
  /\ lab # "talk" => cProgram = "chat" /\ exists = {}

(* A step of the module whose turn it is.                                  *)
PingPongs(step) == lab = "pingpong" /\ step /\ UNCHANGED <<lab, pVars, cVars>>
Pipeline(step) == lab = "pipelines" /\ step /\ UNCHANGED <<lab, vars, cVars>>
Talk(step) == lab = "talk" /\ step /\ UNCHANGED <<lab, vars, pVars>>

MCNext == PingPongs(Next) \/ Pipeline(P!Next) \/ Talk(C!Next)

(* The fairness of each module's own specification.                        *)
MCSpec ==
  /\ MCInit /\ [][MCNext]_mcVars
  /\ WF_mcVars(PingPongs(ParentStep)) /\ \A k \in Child : WF_mcVars(PingPongs(ChildStep(k)))
  /\ \A q \in 1 .. P!MaxProcs : WF_mcVars(Pipeline(q \in P!Procs /\ P!Step(q)))
  /\ \A p \in C!Procs : WF_mcVars(Talk(C!System(p)))

(* What the modules state of their programs.                               *)
ParentPrints == lab = "pingpong" => ParentExits
PipeInv == P!PipeInv
Ends == P!Ends
TalkInv == C!TalkInv
TalkGoesOn == C!TalkGoesOn
=============================================================================
