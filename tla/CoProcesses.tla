---------------------------- MODULE CoProcesses ----------------------------
(***************************************************************************)
(* Programs of lab 3 that talk over pipes and FIFOs:                        *)
(*  - email: coprocess_parent.c with validateEmail, which is compiled from   *)
(*    validateEmailCoprocess.c (raw) or from the one that uses standard      *)
(*    input and output (stdio), or is missing;                              *)
(*  - rounds: pipe/pipe.c, ten messages to and fro;                          *)
(*  - filter: parent.c, which reads what filter.c makes of lines typed;       *)
(*  - chat: chatfifo_server.c and chatfifo_client.c.  To open one end of a   *)
(*    FIFO waits for somebody to open the other.  Standard input of a client *)
(*    is not at end of file.                                                *)
(***************************************************************************)
EXTENDS Integers, Sequences, SequencesExt

CONSTANTS Rounds,   \* messages, addresses (10, the lines of emails.txt)
          MaxLines, \* bound: lines typed at a process
          MaxFds    \* descriptors that the chat server may open

VARIABLES program, variant,  \* which of the four; what validateEmail or filter is
          at, n,             \* per process: where it is; turns it has done, lines typed
          pipe,              \* contents of the pipes and FIFOs
          shown,             \* per process: what it has printed
          buf,               \* the buffer of standard output; the message in the server's hands
          exists,            \* names of FIFOs there are
          deaf,              \* clients whose open of the server's FIFO failed
          fds,               \* descriptors that the server has opened for clients
          sent, lost,        \* history: chat messages sent, and dropped by the server
          killed             \* bound: clients killed

chatVars == <<exists, deaf, fds, sent, lost, killed>>
vars == <<program, variant, at, n, pipe, shown, buf, chatVars>>

Clients == {"a", "b"}
Pair == {"parent", "child"}
Procs == Pair \cup Clients \cup {"server"}
Pipes == {"p1", "p2"} \cup Clients \cup {"server"}
Message(x, y, k) == [from |-> x, to |-> y, n |-> k]

TypeOK ==
  /\ program \in {"email", "rounds", "filter", "chat"} /\ variant \in {"raw", "stdio", "missing"}
  /\ at \in [Procs -> {"off", "start", "exec", "write", "read", "reply", "alone", "spin", "open", "first",
                       "own", "type", "dest", "relay", "ended", "killed"}]
  /\ n \in [Procs -> Nat] /\ \A p \in Pipes : Len(pipe[p]) <= Rounds + 2 * MaxLines
  /\ exists \subseteq Clients \cup {"server"} /\ deaf \subseteq Clients /\ fds \in 0 .. MaxFds
  /\ lost \subseteq Range(sent) /\ killed \subseteq Clients

Init ==
  /\ \/ program = "email" /\ variant \in {"raw", "stdio", "missing"}
     \/ program = "filter" /\ variant \in {"raw", "missing"}
     \/ program \in {"rounds", "chat"} /\ variant = "raw"
  /\ at = [p \in Procs |-> IF p \in (IF program = "chat" THEN Clients \cup {"server"} ELSE {"parent"})
                             THEN "start" ELSE "off"]
  /\ n = [p \in Procs |-> 0] /\ pipe = [p \in Pipes |-> <<>>] /\ shown = [p \in Procs |-> <<>>]
  /\ buf = <<>> /\ exists \in {{}, {"server"}} /\ deaf = {} /\ fds = 0
  /\ sent = <<>> /\ lost = {} /\ killed = {}

Goes(p, to) == at' = [at EXCEPT ![p] = to]
Both(x, y) == at' = [at EXCEPT !["parent"] = x, !["child"] = y]
Turns(p) == n' = [n EXCEPT ![p] = @ + 1]
Shows(p, x) == shown' = [shown EXCEPT ![p] = Append(@, x)]
Puts(q, x) == pipe' = [pipe EXCEPT ![q] = Append(@, x)]
Takes(q) == pipe[q] # <<>> /\ pipe' = [pipe EXCEPT ![q] = Tail(@)]
Moves(q, r, x) == pipe[q] # <<>> /\ pipe' = [pipe EXCEPT ![q] = Tail(@), ![r] = Append(@, x)]
Gone(p) == at[p] \in {"off", "ended", "killed"}
same == <<program, variant, chatVars>>
-----------------------------------------------------------------------------
(* coprocess_parent.c                                                      *)

EmailFork ==
  /\ program = "email" /\ at["parent"] = "start" /\ (Both("write", "exec") \/ Goes("parent", "write"))
  /\ UNCHANGED <<same, n, pipe, shown, buf>>

EmailExec ==
  /\ at["child"] = "exec" /\ Goes("child", IF variant = "missing" THEN "ended" ELSE "read")
  /\ UNCHANGED <<same, n, pipe, shown, buf>>

(* Without a reader the write ends the parent.                             *)
EmailWrite ==
  /\ program = "email" /\ at["parent"] = "write" /\ UNCHANGED <<same, n, shown, buf>>
  /\ \/ n["parent"] = Rounds /\ Goes("parent", "ended") /\ UNCHANGED pipe
     \/ n["parent"] < Rounds /\ Gone("child") /\ Goes("parent", "killed") /\ UNCHANGED pipe
     \/ n["parent"] < Rounds /\ ~Gone("child") /\ Goes("parent", "read") /\ Puts("p1", n["parent"] + 1)

(* At the end of file result stays what it was, at first anything.          *)
EmailRead ==
  /\ program = "email" /\ at["parent"] = "read" /\ Goes("parent", "write") /\ Turns("parent")
  /\ \/ Takes("p2") /\ Shows("parent", Head(pipe["p2"]))
     \/ pipe["p2"] = <<>> /\ Gone("child") /\ Shows("parent", 0) /\ UNCHANGED pipe
  /\ UNCHANGED <<same, buf>>

(* validateEmailCoprocess.c: what one read has got is answered once.        *)
Validate ==
  /\ program = "email" /\ variant = "raw" /\ at["child"] = "read"
  /\ \/ Moves("p1", "p2", Head(pipe["p1"])) /\ UNCHANGED at
     \/ pipe["p1"] = <<>> /\ Gone("parent") /\ Goes("child", "ended") /\ UNCHANGED pipe
  /\ UNCHANGED <<same, n, shown, buf>>

(* With standard output the answers wait in a buffer that is never full.    *)
ValidateBuffered ==
  /\ program = "email" /\ variant = "stdio" /\ at["child"] = "read"
  /\ Takes("p1") /\ buf' = Append(buf, Head(pipe["p1"]))
  /\ UNCHANGED <<same, at, n, shown>>
-----------------------------------------------------------------------------
(* pipe.c                                                                  *)

RoundsFork ==
  /\ program = "rounds" /\ at["parent"] = "start" /\ (Both("write", "read") \/ Goes("parent", "alone"))
  /\ UNCHANGED <<same, n, pipe, shown, buf>>

(* When fork fails the parent takes the branch of the child: it reads the    *)
(* end of file, and writes to a pipe that nobody reads.                     *)
RoundsAlone ==
  /\ at["parent"] = "alone" /\ Goes("parent", "killed") /\ UNCHANGED <<same, n, pipe, shown, buf>>

RoundsWrite ==
  /\ program = "rounds" /\ at["parent"] = "write" /\ Goes("parent", "read")
  /\ Puts("p1", n["parent"] + 1) /\ UNCHANGED <<same, n, shown, buf>>

RoundsRead ==
  /\ program = "rounds" /\ at["parent"] = "read" /\ Takes("p2") /\ Shows("parent", Head(pipe["p2"]))
  /\ Turns("parent") /\ Goes("parent", IF n["parent"] + 1 < Rounds THEN "write" ELSE "spin")
  /\ UNCHANGED <<same, buf>>

RoundsChildReads ==
  /\ program = "rounds" /\ at["child"] = "read" /\ Takes("p1") /\ Shows("child", Head(pipe["p1"]))
  /\ Goes("child", "reply") /\ UNCHANGED <<same, n, buf>>

RoundsReply ==
  /\ at["child"] = "reply" /\ Puts("p2", n["child"] + 1) /\ Turns("child")
  /\ Goes("child", IF n["child"] + 1 < Rounds THEN "read" ELSE "spin")
  /\ UNCHANGED <<same, shown, buf>>
-----------------------------------------------------------------------------
(* parent.c, filter.c                                                      *)

Popen ==
  /\ program = "filter" /\ at["parent"] = "start" /\ Both("read", IF variant = "raw" THEN "read" ELSE "ended")
  /\ UNCHANGED <<same, n, pipe, shown, buf>>

(* mutated form: without fflush                                            *)
FilterLineUnflushed ==
  /\ program = "filter" /\ at["child"] = "read" /\ n["child"] < MaxLines /\ Turns("child")
  /\ buf' = Append(buf, n["child"] + 1) /\ UNCHANGED <<same, at, shown, pipe>>

(* A line is typed; at its end the buffer is flushed.                       *)
FilterLine ==
  /\ program = "filter" /\ at["child"] = "read" /\ n["child"] < MaxLines /\ Turns("child")
  /\ pipe' = [pipe EXCEPT !["p1"] = @ \o Append(buf, n["child"] + 1)] /\ buf' = <<>>
  /\ UNCHANGED <<same, at, shown>>

FilterEof ==
  /\ program = "filter" /\ at["child"] = "read" /\ Goes("child", "ended")
  /\ pipe' = [pipe EXCEPT !["p1"] = @ \o buf] /\ buf' = <<>> /\ UNCHANGED <<same, n, shown>>

ParentReadsLine ==
  /\ program = "filter" /\ at["parent"] = "read"
  /\ \/ Takes("p1") /\ Shows("parent", Head(pipe["p1"])) /\ UNCHANGED at
     \/ pipe["p1"] = <<>> /\ Gone("child") /\ Goes("parent", "ended") /\ UNCHANGED <<pipe, shown>>
  /\ UNCHANGED <<same, n, buf>>
-----------------------------------------------------------------------------
(* chatfifo_server.c                                                       *)

Chat == program = "chat"
HasServerFifo(c) == at[c] \in {"open", "first", "own", "read", "type"} /\ c \notin deaf
ReadsOwn(c) == c \in Clients /\ at[c] \in {"own", "read", "type"}
choices == <<program, variant>>

MkServerFifo ==
  /\ Chat /\ at["server"] = "start" /\ Goes("server", "open") /\ exists' = exists \cup {"server"}
  /\ UNCHANGED <<choices, n, pipe, shown, buf, deaf, fds, sent, lost, killed>>

ServerOpens ==
  /\ at["server"] = "open" /\ Goes("server", "read")
  /\ \E c \in Clients : HasServerFifo(c)
  /\ UNCHANGED <<choices, n, pipe, shown, buf, chatVars>>

(* When every client has gone the server ends, and leaves its FIFO: the     *)
(* name that it unlinks has never been set.                                 *)
ServerReads ==
  /\ Chat /\ at["server"] = "read"
  /\ \/ Takes("server") /\ buf' = <<Head(pipe["server"])>> /\ Goes("server", "dest")
     \/ pipe["server"] = <<>> /\ (\A c \in Clients : ~HasServerFifo(c)) /\ Goes("server", "ended") /\ UNCHANGED <<pipe, buf>>
  /\ UNCHANGED <<choices, n, shown, chatVars>>

(* Each message opens another descriptor.  The server waits until the owner  *)
(* of a FIFO that exists opens it as well, and drops the message otherwise.   *)
To == buf[1].to
ServerOpensDest ==
  /\ at["server"] = "dest"
  /\ \/ /\ To \in exists /\ fds < MaxFds /\ ReadsOwn(To) /\ fds' = fds + 1 /\ UNCHANGED <<buf, lost>>
        /\ at' = [at EXCEPT !["server"] = "relay", ![To] = IF @ = "own" THEN "read" ELSE @]
     \/ /\ To \notin exists \/ fds = MaxFds
        /\ lost' = lost \cup {buf[1]} /\ buf' = <<>> /\ Goes("server", "read") /\ UNCHANGED fds
  /\ UNCHANGED <<choices, n, pipe, shown, exists, deaf, sent, killed>>

(* mutated form: the answer goes to the sender                             *)
ServerRelaysBack ==
  /\ at["server"] = "relay"
  /\ IF Gone(buf[1].from) THEN Goes("server", "killed") /\ UNCHANGED <<pipe, buf>>
     ELSE Puts(buf[1].from, buf[1]) /\ buf' = <<>> /\ Goes("server", "read")
  /\ UNCHANGED <<choices, n, shown, chatVars>>

ServerRelays ==
  /\ at["server"] = "relay"
  /\ IF Gone(To) THEN Goes("server", "killed") /\ UNCHANGED <<pipe, buf>>
     ELSE Puts(To, buf[1]) /\ buf' = <<>> /\ Goes("server", "read")
  /\ UNCHANGED <<choices, n, shown, chatVars>>

(* chatfifo_client.c                                                       *)

ClientStarts(c) ==
  /\ Chat /\ at[c] = "start" /\ exists' = exists \cup {c}
  /\ IF "server" \in exists THEN Goes(c, "open") /\ UNCHANGED deaf ELSE Goes(c, "first") /\ deaf' = deaf \cup {c}
  /\ UNCHANGED <<choices, n, pipe, shown, buf, fds, sent, lost, killed>>

(* Both opens return once both ends are being opened.                       *)
ClientOpens(c) ==
  /\ Chat /\ at[c] = "open" /\ at["server"] \in {"open", "read", "dest", "relay"}
  /\ at' = [at EXCEPT ![c] = "first", !["server"] = IF @ = "open" THEN "read" ELSE @]
  /\ UNCHANGED <<choices, n, pipe, shown, buf, chatVars>>

(* Writing when the server has gone ends the client.                       *)
Writes(c, y, next) ==
  LET m == Message(c, y, n[c] + 1)
  IN  /\ n[c] < MaxLines /\ Turns(c)
      /\ IF c \in deaf THEN Goes(c, next) /\ UNCHANGED <<pipe, sent>>
         ELSE IF Gone("server") THEN Goes(c, "killed") /\ UNCHANGED <<pipe, sent>>
         ELSE Goes(c, next) /\ Puts("server", m) /\ sent' = Append(sent, m)

(* The first message may be to anybody, here or not.                        *)
FirstMessage(c) ==
  /\ Chat /\ at[c] = "first" /\ \E y \in Clients \cup {"nobody"} : Writes(c, y, "own")
  /\ UNCHANGED <<choices, shown, buf, exists, deaf, fds, lost, killed>>

ClientReads(c) ==
  /\ Chat /\ at[c] = "read" /\ Takes(c) /\ Shows(c, Head(pipe[c])) /\ Goes(c, "type")
  /\ UNCHANGED <<choices, n, buf, chatVars>>

ClientEnds(c) ==
  /\ Chat /\ at[c] = "read" /\ pipe[c] = <<>> /\ Gone("server") /\ Goes(c, "ended") /\ exists' = exists \ {c}
  /\ UNCHANGED <<choices, n, pipe, shown, buf, deaf, fds, sent, lost, killed>>

Reply(c) ==
  /\ Chat /\ at[c] = "type" /\ Writes(c, Last(shown[c]).from, "read")
  /\ UNCHANGED <<choices, shown, buf, exists, deaf, fds, lost, killed>>

Kill(c) ==
  /\ Chat /\ killed = {} /\ at[c] \in {"first", "own", "read", "type"} /\ Goes(c, "killed") /\ killed' = {c}
  /\ pipe' = [pipe EXCEPT ![c] = <<>>] /\ UNCHANGED <<choices, n, shown, buf, exists, deaf, fds, sent, lost>>
-----------------------------------------------------------------------------
(* Starting, typing and killing are the user's.                            *)
User ==
  \/ FilterLine \/ FilterEof \/ MkServerFifo
  \/ \E c \in Clients : ClientStarts(c) \/ FirstMessage(c) \/ Reply(c) \/ Kill(c)
System(p) ==
  \/ p = "parent" /\ (EmailFork \/ EmailWrite \/ EmailRead \/ RoundsFork \/ RoundsAlone \/ RoundsWrite
                       \/ RoundsRead \/ Popen \/ ParentReadsLine)
  \/ p = "child" /\ (EmailExec \/ Validate \/ ValidateBuffered \/ RoundsChildReads \/ RoundsReply)
  \/ p = "server" /\ (ServerOpens \/ ServerReads \/ ServerOpensDest \/ ServerRelays)
  \/ p \in Clients /\ (ClientOpens(p) \/ ClientReads(p) \/ ClientEnds(p))

Next == User \/ \E p \in Procs : System(p)
Spec == Init /\ [][Next]_vars /\ \A p \in Procs : WF_vars(System(p))
-----------------------------------------------------------------------------
(* Each address gets its own result; the one that a missing validateEmail    *)
(* leaves open is the first and last.  With standard output there is none.    *)
OwnResult ==
  program = "email" =>
    /\ \A k \in DOMAIN shown["parent"] : shown["parent"][k] \in {0, k}
    /\ 0 \in Range(shown["parent"]) => variant = "missing" /\ Len(shown["parent"]) = 1
    /\ variant = "stdio" => shown["parent"] = <<>>

(* The rounds of pipe.c are in step, so that each read gets one message.     *)
InStep ==
  program = "rounds" =>
    Len(pipe["p1"]) + Len(pipe["p2"]) <= 1 /\ n["child"] - n["parent"] \in {0, 1}

(* What a chat client sends to another is on its way, shown or dropped, once *)
(* and in its order, as long as the server lives and nobody was killed; and  *)
(* a server that has used up its descriptors relays nothing any more.        *)
Way(y) == shown[y] \o pipe[y] \o buf \o pipe["server"]
Between(s, x, y) == {k \in DOMAIN s : s[k].from = x /\ s[k].to = y}
RelayedOnce ==
  program = "chat" =>
    /\ ~Gone("server") /\ killed = {} => \A x, y \in Clients :
         /\ {Way(y)[k] : k \in Between(Way(y), x, y)} = {sent[k] : k \in Between(sent, x, y)} \ lost
         /\ \A k, l \in Between(Way(y), x, y) : k < l => Way(y)[k].n < Way(y)[l].n
    /\ Len(shown["a"]) + Len(pipe["a"]) + Len(shown["b"]) + Len(pipe["b"]) <= fds

TalkInv == TypeOK /\ OwnResult /\ InStep /\ RelayedOnce

(* coprocess_parent ends, unless validateEmail buffers its output: then both *)
(* wait for each other; pipe.c comes to its endless loop.                    *)
PairEnds ==
  /\ program = "email" => <>[](Gone("parent") \/ (variant = "stdio" /\ at["parent"] = "read"))
  /\ program = "rounds" => <>(at["parent"] \in {"spin", "killed"})

(* A line is shown when it has been typed, though none follows.              *)
LinesAreShown ==
  /\ \A k \in 1 .. MaxLines : program = "filter" /\ n["child"] >= k ~> Len(shown["parent"]) >= k
  /\ program = "filter" /\ Gone("child") /\ at["parent"] = "read" ~> Gone("parent")

(* The chat server comes to take every message, unless one is for a client   *)
(* that does not read yet, or was killed: it waits for that one alone.        *)
ChatGoesOn ==
  program = "chat" =>
    <>[](\/ pipe["server"] = <<>> \/ Gone("server") \/ at["server"] = "start"
         \/ at["server"] = "dest" /\ ~ReadsOwn(To))

TalkGoesOn == PairEnds /\ LinesAreShown /\ ChatGoesOn
=============================================================================
