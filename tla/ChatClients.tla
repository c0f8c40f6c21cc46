---------------------------- MODULE ChatClients ----------------------------
(***************************************************************************)
(* The clients of the chat servers and the TCP stacks between: the         *)
(* environment of PollServer and ChatServers.  The sockets are those of    *)
(* Linux: a client that has closed makes its socket readable (end of       *)
(* file); data sent to it comes back as a reset.  The first read or send    *)
(* after a reset reports it, unless the client had closed before; a later   *)
(* read is an end of file and a later send raises SIGPIPE.                 *)
(***************************************************************************)
EXTENDS Integers, Sequences, FiniteSets

CONSTANTS
  Clients,      \* the processes that connect
  MaxSends,     \* bound: messages a client types
  MayType,      \* bound: the clients that type
  InTurn,       \* bound: clients that connect in this order
  MayClose,     \* the clients that may close their connection
  MayReset      \* the clients whose connection may be reset

ASSUME ClientsAssumption ==
  /\ IsFiniteSet(Clients) /\ MaxSends \in Nat /\ InTurn \in Seq(Clients)
  /\ MayClose \subseteq Clients /\ MayReset \subseteq Clients

VARIABLES
  conn, inq, sends,   \* per client: connection, unread data, bound counter
  backlog             \* connections the server has not accepted yet

netVars == <<conn, inq, sends, backlog>>

Line == <<"operator", 0>>                \* what is typed at the server
Garbage == <<"garbage", 0>>              \* buffer before the first read
Msgs == (Clients \X (1 .. MaxSends)) \cup {Line, Garbage}

(* open: established; fin: the client has closed; finSent: it has closed and *)
(* the server has sent more; rst: reset, error not reported yet; broken:     *)
(* reset and reported.                                                       *)
ConnState == {"none", "open", "fin", "finSent", "rst", "broken"}

NetTypeOK ==
  /\ conn \in [Clients -> ConnState]
  /\ inq \in [Clients -> Seq(Msgs)] /\ sends \in [Clients -> 0 .. MaxSends]
  /\ backlog \in Seq(Clients)

NetInit ==
  /\ conn = [c \in Clients |-> "none"]
  /\ inq = [c \in Clients |-> <<>>] /\ sends = [c \in Clients |-> 0]
  /\ backlog = <<>>

Connect(c) ==
  /\ conn[c] = "none"
  /\ \A k \in 2 .. Len(InTurn) : InTurn[k] = c => conn[InTurn[k - 1]] # "none"
  /\ conn' = [conn EXCEPT ![c] = "open"]
  /\ backlog' = Append(backlog, c)
  /\ UNCHANGED <<inq, sends>>

Type(c) ==
  /\ c \in MayType /\ conn[c] = "open" /\ sends[c] < MaxSends
  /\ sends' = [sends EXCEPT ![c] = @ + 1]
  /\ inq' = [inq EXCEPT ![c] = Append(@, <<c, sends[c] + 1>>)]
  /\ UNCHANGED <<conn, backlog>>

ClientClose(c) ==
  /\ c \in MayClose /\ conn[c] = "open"
  /\ conn' = [conn EXCEPT ![c] = "fin"]
  /\ UNCHANGED <<inq, sends, backlog>>

ClientReset(c) ==
  /\ c \in MayReset /\ conn[c] = "open"
  /\ conn' = [conn EXCEPT ![c] = "rst"]
  /\ UNCHANGED <<inq, sends, backlog>>

(* The stack of a client that has closed answers data with a reset.        *)
ResetArrives(c) ==
  /\ conn[c] = "finSent"
  /\ conn' = [conn EXCEPT ![c] = "broken"]
  /\ UNCHANGED <<inq, sends, backlog>>

ClientStep(c) ==
  Connect(c) \/ Type(c) \/ ClientClose(c) \/ ClientReset(c) \/ ResetArrives(c)
-----------------------------------------------------------------------------
ClientReadable(c) == inq[c] # <<>> \/ conn[c] \in {"fin", "finSent"}

(* What the server meets when it reads from a connection.                  *)
HasData(c) == inq[c] # <<>>
AtEndOfFile(c) == inq[c] = <<>> /\ conn[c] \in {"fin", "finSent", "broken"}
HasError(c) == inq[c] = <<>> /\ conn[c] = "rst"

(* What a send does to the connection of client c.                         *)
Sent(c) == IF conn[c] = "fin" THEN "finSent" ELSE IF conn[c] = "rst" THEN "broken" ELSE conn[c]
=============================================================================
