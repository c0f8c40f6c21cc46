------------------------------- MODULE MCTcp -------------------------------
(***************************************************************************)
(* The programs on TCP connections that are not chat or poll servers, in    *)
(* each behaviour one of                                                   *)
(*  - ranges: concurrent_web_client.c with up to three children and three    *)
(*    bytes: a division without a rest, with one, a range and a file of      *)
(*    nothing;                                                             *)
(*  - streams: the programs of Streams.                                     *)
(***************************************************************************)
EXTENDS WebClient

MCLevels == 1 .. 3
MCLengths == {0, 2, 3}
MCMarks == {1, 2}
MCNamed == {2}

CONSTANTS Room, Buffer, MaxWord, MaxLines, FileLen

VARIABLES lab, program, kind, at, inbox, closed, rst, err, backlog, serving, hold, length,
          out, sent, shown, typed

S == INSTANCE Streams

(* The buffers hold something, and there is something to send.              *)
ASSUME StreamsAssumption ==
  /\ Room \in Nat \ {0} /\ Buffer \in Nat \ {0} /\ MaxWord \in Nat \ {0, 1}
  /\ MaxLines \in Nat \ {0} /\ FileLen \in Nat \ {0}

sVars == <<program, kind, at, inbox, closed, rst, err, backlog, serving, hold, length, out, sent, shown, typed>>
mcVars == <<lab, vars, sVars>>

(* Bound: line ends in the file, or an old message, and then a small file.  *)
OneAtATime ==
  \/ lineEnds = {} /\ queue = <<>>
  \/ n * len <= 6 /\ (lineEnds = {} \/ queue = <<>>)

MCInit ==
  /\ Init /\ S!Init
  /\ \/ lab = "ranges" /\ program = "hi" /\ OneAtATime
     \/ lab = "streams" /\ n = 1 /\ len = 0 /\ queue = <<>>

(* A step of the module whose turn it is.                                  *)
Ranges(step) == lab = "ranges" /\ step /\ UNCHANGED <<lab, sVars>>
Streams(step) == lab = "streams" /\ step /\ UNCHANGED <<lab, vars>>

MCNext == Ranges(Next) \/ Streams(S!Next)

(* The fairness of each module's own specification.                        *)
MCSpec ==
  /\ MCInit /\ [][MCNext]_mcVars
  /\ WF_mcVars(Ranges(Main)) /\ WF_mcVars(Ranges(Server))
  /\ \A k \in UNION {1 .. m : m \in Levels} : WF_mcVars(Ranges(k \in Kids /\ KidStep(k)))
  /\ WF_mcVars(Streams(S!Server)) /\ \A c \in S!Clients : WF_mcVars(Streams(S!Client(c)))

(* What Streams states of its programs, and what WebClient does of its own. *)
StreamsInv == S!StreamsInv
StreamsSettle == S!StreamsSettle
RangesAreFetched == lab = "ranges" => AllAreFetched
=============================================================================
