----------------------------- MODULE MCSignals -----------------------------
(***************************************************************************)
(* The two phases of signal_tree.c, in each behaviour one of them:          *)
(*  - tree: the forking, SignalTree.  N = 4 has room for seven processes in  *)
(*    its tree.                                                            *)
(*  - game: the signals in turn, SignalGame, in the tree that the first      *)
(*    phase builds for N = 3: 2 is the root, and the right leaf 4 has its    *)
(*    sibling 3 in child[0].                                               *)
(***************************************************************************)
EXTENDS SignalTree

CONSTANTS Procs, ParentOf, KidOf, Points, A, S

VARIABLES phase, points, pend, loc, toSignal, hloc, hsrc, failed, semH, semB, exited, intr

G == INSTANCE SignalGame

(* Process identifiers are positive; there is a tree to play in.            *)
ASSUME GameAssumption ==
  /\ Procs \subseteq Nat \ {0} /\ IsFiniteSet(Procs)
  /\ ParentOf \in [Procs -> Int]
  /\ KidOf \in [Procs -> [{0, 1} -> Int]]
  /\ Points \in Nat /\ A \in Nat /\ S \in Nat

MCProcs == {2, 3, 4}
MCParent == [p \in MCProcs |-> IF p = 2 THEN 1 ELSE 2]
MCKid == [p \in MCProcs |-> [s \in {0, 1} |->
            CASE p = 2 -> IF s = 0 THEN 3 ELSE 4
              [] p = 4 /\ s = 0 -> 3
              [] OTHER -> 0]]

gVars == <<points, pend, loc, toSignal, hloc, hsrc, failed, semH, semB, exited, intr>>
mcVars == <<phase, vars, gVars>>

MCInit == phase \in {"tree", "game"} /\ Init /\ G!Init

(* A step of the phase that this behaviour is about.                       *)
Tree(step) == phase = "tree" /\ step /\ UNCHANGED <<phase, gVars>>
Game(step) == phase = "game" /\ step /\ UNCHANGED <<phase, vars>>

MCNext == Tree(Next) \/ Game(G!Next)

(* The fairness of each module's own specification.                        *)
MCSpec ==
  /\ MCInit /\ [][MCNext]_mcVars
  /\ \A p \in Pids : WF_mcVars(Tree(p \in procs /\ Step(p)))
  /\ \A p \in Procs : WF_mcVars(Game(G!Step(p)))

(* What SignalTree states of its phase, and SignalGame of the other.        *)
BuildingEnds == phase = "tree" => TreeIsBuilt
TurnInv == G!TurnInv
FrozenAfterExit == G!FrozenAfterExit
RoundEnds == phase = "game" => G!RoundEnds
=============================================================================
