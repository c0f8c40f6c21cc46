----------------------------- MODULE WebClient -----------------------------
(***************************************************************************)
(* Assignment/P2/concurrent_web_client.c: asks for the length of a file,   *)
(* forks n children that fetch a range of it each over one connection that *)
(* all of them inherit, waits for each before it forks the next, and then  *)
(* collects the segments from a message queue.                             *)
(*                                                                         *)
(* A message begins with two ints, msg_type and clen, where msgsnd expects *)
(* a long: its type is clen * 2^32 + msg_type.                             *)
(*                                                                         *)
(* The connection carries status lines, header lines up to the empty one,   *)
(* and the pieces of the file, or of an error page, named by their position.*)
(* A piece may end with CRLF, or with an empty line after that: a child     *)
(* that reads on where another left off takes the first CRLF for the end of *)
(* the status line, and the first empty line for the end of the header.     *)
(* The server may ignore the range, fail, leave the length or the body out, *)
(* deliver an answer bit by bit, and close or reset the connection.         *)
(***************************************************************************)
EXTENDS Integers, Sequences, FiniteSets

CONSTANTS Levels,    \* what argv[3] may be
          Lengths,   \* lengths of the file
          Marks,     \* bound: the pieces that may end with CRLF
          Named,     \* the lengths that the text of a piece may name
          MaxOld,    \* bound: messages in the queue at the beginning
          Capacity,  \* messages the queue holds
          None       \* no end of a range; not yet

ASSUME WebAssumption ==
  /\ Levels \subseteq Nat \ {0} /\ Lengths \subseteq Nat
  /\ Marks \subseteq Int /\ Named \subseteq Int /\ MaxOld \in Nat /\ Capacity \in Nat
  /\ None \notin Int /\ None \notin Int \X (Int \cup {None})

VARIABLES
  n, len,            \* N, and the length of the file
  lineEnds, blanks,  \* the pieces that end with CRLF; those with an empty line
  old,               \* how many messages of type 1 earlier runs have left
  main, i, range, count, segment,  \* the parent: place and variables; sizes collected
  kid, status, clen, data,         \* of child k; m.status, m.clen, m.msg_text
  queue,             \* the message queue
  requests, sending, stream, up,   \* the connection
  asked              \* history: the range each child asked for last

world == <<n, len, lineEnds, blanks, old>>
parentVars == <<main, i, range, count, segment>>
kidVars == <<kid, status, clen, data>>
netVars == <<requests, sending, stream, up>>
vars == <<world, parentVars, kidVars, queue, netVars, asked>>

Kids == 1 .. n
NoLength == -1  \* no Content-Length
File == 0 .. len - 1
ErrorPage == -1

Status(st) == <<"status", st>>
Header(c) == <<"header", c>>
Body(x) == <<"data", x>>
Piece == {"status", "header", "data"} \X Int
IsHead(x) == x[1] = "header"
EndsLine(x) == x[1] \in {"status", "header"} \/ x[2] \in lineEnds
EndsHeader(x) == IsHead(x) \/ (x[1] = "data" /\ x[2] \in blanks)

(* What may be left of an item: the lines after the first, or after a cut.  *)
AfterLine(x) == {<<>>} \cup IF IsHead(x) THEN {<<x>>, <<Header(NoLength)>>} ELSE {}
AfterCut(x) == AfterLine(x) \cup IF x[1] = "status" THEN {<<x>>, <<Status(0)>>} ELSE {}

Place == {"head", "fork", "wait", "collect", "rewait", "saved", "gone"}
KidPlace == {"none", "send", "status", "header", "body", "push", "ended"}
Message == [msg_type : Kids, clen : Nat, status : Int]
ByteRange == Int \X (Int \cup {None})
OldMessage == [msg_type : {1}, clen : {0, 1}, status : {0, 206}]

(* A message of type 1, where the type is clen * 2^32 + msg_type.          *)
OfTypeOne(m) == m.clen = 0 /\ m.msg_type = 1
Ones == {p \in 1 .. Len(queue) : OfTypeOne(queue[p])}

TypeOK ==
  /\ n \in Levels /\ len \in Lengths
  /\ lineEnds \subseteq Int /\ blanks \subseteq lineEnds /\ old \in Nat
  /\ main \in Place /\ i \in 1 .. n + 1 /\ range \in Int /\ count \in 0 .. n
  /\ segment \in [Kids -> {None} \cup Nat]
  /\ kid \in [Kids -> KidPlace]
  /\ status \in [Kids -> Int] /\ clen \in [Kids -> Int] /\ data \in [Kids -> Seq(Piece)]
  /\ queue \in Seq(Message)
  /\ stream \in Seq(Piece) /\ sending \in Seq(Piece) /\ up \in BOOLEAN
  /\ requests \in Seq(ByteRange) /\ \A k \in Kids : asked[k] # None => asked[k] \in ByteRange

(* The queue is opened, or created: runs that were killed have left theirs. *)
Init ==
  /\ n \in Levels /\ len \in Lengths
  /\ lineEnds \in SUBSET (Marks \cap (File \cup {ErrorPage})) /\ blanks \in SUBSET lineEnds
  /\ queue \in UNION {[1 .. l -> OldMessage] : l \in 0 .. MaxOld}
  /\ old = Cardinality(Ones)
  /\ main = "head" /\ i = 1 /\ range = 0 /\ count = n
  /\ segment = [k \in Kids |-> None]
  /\ kid = [k \in Kids |-> "none"]
  /\ status = [k \in Kids |-> 0] /\ clen = status /\ data = [k \in Kids |-> <<>>]
  /\ requests = <<>> /\ sending = <<>> /\ stream = <<>> /\ up = TRUE
  /\ asked = [k \in Kids |-> None]

KidGoto(k, from, to) == kid[k] = from /\ kid' = [kid EXCEPT ![k] = to]

(* A child that ends leaves nothing of its memory.                         *)
Exit(k, from) ==
  /\ KidGoto(k, from, "ended")
  /\ status' = [status EXCEPT ![k] = 0]
  /\ clen' = [clen EXCEPT ![k] = 0]
  /\ data' = [data EXCEPT ![k] = <<>>]
-----------------------------------------------------------------------------
(* fetch_and_push(range, k), in a child.                                   *)

RangeOf(k) == <<(k - 1) * range, IF k = n THEN None ELSE k * range - 1>>

(* On a connection that the server has closed the first send still works;  *)
(* a later one kills the child with SIGPIPE.                               *)
Send(k) ==
  /\ \/ /\ KidGoto(k, "send", "status")
        /\ requests' = IF up THEN Append(requests, RangeOf(k)) ELSE requests
        /\ asked' = [asked EXCEPT ![k] = RangeOf(k)]
        /\ UNCHANGED <<status, clen, data>>
     \/ ~up /\ Exit(k, "send") /\ UNCHANGED <<requests, asked>>
  /\ UNCHANGED <<world, parentVars, queue, sending, stream, up>>

LineEndsAt(p) == EndsLine(stream[p]) /\ \A q \in 1 .. p - 1 : ~EndsLine(stream[q])
HeaderEndsAt(p) == EndsHeader(stream[p]) /\ \A q \in 1 .. p - 1 : ~EndsHeader(stream[q])
Rest(p) == SubSeq(stream, p + 1, Len(stream))

(* Up to the first CRLF; sscanf finds the status in a status line only.  If *)
(* the connection ends before, it is 0; if it is reset, the child exits.    *)
ReadHttpStatus(k) ==
  /\ \/ \E p \in 1 .. Len(stream) :
          /\ LineEndsAt(p) /\ KidGoto(k, "status", "header")
          /\ \E r \in AfterLine(stream[p]) : stream' = r \o Rest(p)
          /\ \E s \in IF p = 1 /\ stream[1][1] = "status" THEN {stream[1][2]} ELSE {0, 206} :
               status' = [status EXCEPT ![k] = s]
          /\ UNCHANGED <<clen, data>>
     \/ /\ ~up /\ (\A p \in 1 .. Len(stream) : ~EndsLine(stream[p])) /\ stream' = <<>>
        /\ \/ KidGoto(k, "status", "header") /\ UNCHANGED <<status, clen, data>>
           \/ Exit(k, "status")
  /\ UNCHANGED <<world, parentVars, queue, requests, sending, up, asked>>

(* Content-Length, or -1: of the header, or of any text before its end.     *)
Found(p) ==
  {IF IsHead(stream[p]) THEN stream[p][2] ELSE NoLength}
    \cup IF \E q \in 1 .. p : stream[q][1] = "data" THEN Named ELSE {}

FindLength(k) ==
  \E p \in 1 .. Len(stream) :
    /\ HeaderEndsAt(p) /\ KidGoto(k, "header", "body")
    /\ \E c \in Found(p) : clen' = [clen EXCEPT ![k] = c]
    /\ stream' = Rest(p)
    /\ UNCHANGED <<status, data>>

(* mutated form: the end of the connection is not looked for               *)
ParseHeaderWaits(k) ==
  /\ FindLength(k)
  /\ UNCHANGED <<world, parentVars, queue, requests, sending, up, asked>>

(* Up to the first empty line; 0 when the connection has ended before.      *)
ParseHeader(k) ==
  /\ \/ FindLength(k)
     \/ /\ ~up /\ (\A p \in 1 .. Len(stream) : ~EndsHeader(stream[p])) /\ stream' = <<>>
        /\ \/ KidGoto(k, "header", "body") /\ UNCHANGED <<status, clen, data>>
           \/ Exit(k, "header")
  /\ UNCHANGED <<world, parentVars, queue, requests, sending, up, asked>>

(* One recv: it waits for data or the end, for a clen of 0 as well, and     *)
(* takes what is there, at most clen.  For a negative clen there is no      *)
(* buffer and the child exits; if the connection has ended recv returns 0,  *)
(* but msgsnd fails for the negative type.                                 *)
Recv(k) ==
  /\ kid[k] = "body" /\ (stream # <<>> \/ ~up)
  /\ \/ /\ clen[k] >= 0 /\ KidGoto(k, "body", "push")
        /\ LET taken == IF Len(stream) < clen[k] THEN Len(stream) ELSE clen[k]
           IN  /\ data' = [data EXCEPT ![k] = SubSeq(stream, 1, taken)]
               /\ \E r \in IF taken = 0 THEN {<<>>} ELSE AfterCut(stream[taken]) :
                    stream' = r \o Rest(taken)
        /\ UNCHANGED <<status, clen>>
     \/ /\ clen[k] < 0 \/ stream = <<>>
        /\ Exit(k, "body") /\ UNCHANGED stream
  /\ UNCHANGED <<world, parentVars, queue, requests, sending, up, asked>>

(* msgsnd, which waits while the queue is full, and exit.                  *)
Push(k) ==
  /\ Len(queue) < Capacity
  /\ Exit(k, "push")
  /\ queue' = Append(queue, [msg_type |-> k, clen |-> clen[k], status |-> status[k]])
  /\ UNCHANGED <<world, parentVars, netVars, asked>>

KidStep(k) == Send(k) \/ ReadHttpStatus(k) \/ ParseHeader(k) \/ Recv(k) \/ Push(k)
-----------------------------------------------------------------------------
(* main                                                                    *)

(* Division in C is towards zero.                                          *)
Quotient(c) == IF c < 0 THEN -((-c) \div n) ELSE c \div n

(* The length of the file, of an error page, none; a reset ends the parent. *)
AskLength ==
  /\ main = "head"
  /\ \/ main' = "fork" /\ \E c \in {len, NoLength, 0, 1} : range' = Quotient(c)
     \/ ~up /\ main' = "gone" /\ UNCHANGED range
  /\ UNCHANGED <<world, i, count, segment, kidVars, queue, netVars, asked>>

NextChild == main' = (IF i = n THEN "collect" ELSE "fork") /\ i' = i + 1

(* mutated form: the parent does not wait for the child                    *)
ForkUnwaited ==
  /\ main = "fork" /\ NextChild
  /\ kid' = [kid EXCEPT ![i] = "send"]
  /\ UNCHANGED <<world, range, count, segment, status, clen, data, queue, netVars, asked>>

(* After a fork that failed there is no child to wait for.                  *)
Fork ==
  /\ main = "fork"
  /\ \/ main' = "wait" /\ kid' = [kid EXCEPT ![i] = "send"] /\ UNCHANGED i
     \/ NextChild /\ UNCHANGED kid
  /\ UNCHANGED <<world, range, count, segment, status, clen, data, queue, netVars, asked>>

Wait ==
  /\ main = "wait" /\ kid[i] = "ended" /\ NextChild
  /\ UNCHANGED <<world, range, count, segment, kidVars, queue, netVars, asked>>

(* mutated form: the first message of any type                             *)
AnyType == {p \in 1 .. Len(queue) : p = 1}
FirstOfTypeOne == {p \in Ones : \A q \in Ones : p <= q}
Without(p) == [q \in 1 .. Len(queue) - 1 |-> IF q < p THEN queue[q] ELSE queue[q + 1]]

(* For a status that is not good the child is forked anew, if fork works.   *)
Collect ==
  /\ main = "collect" /\ count > 0
  /\ \E p \in FirstOfTypeOne :
       LET m == queue[p] IN
       /\ queue' = Without(p)
       /\ \/ /\ m.status \in {200, 206}
             /\ segment' = [segment EXCEPT ![m.msg_type] = m.clen]
             /\ count' = count - 1
             /\ UNCHANGED <<main, kid>>
          \/ /\ m.status \notin {200, 206}
             /\ \/ main' = "rewait" /\ kid' = [kid EXCEPT ![m.msg_type] = "send"]
                \/ UNCHANGED <<main, kid>>
             /\ UNCHANGED <<segment, count>>
  /\ UNCHANGED <<world, i, range, status, clen, data, netVars, asked>>

Rewait ==
  /\ main = "rewait" /\ \A k \in Kids : kid[k] \in {"none", "ended"}
  /\ main' = "collect"
  /\ UNCHANGED <<world, i, range, count, segment, kidVars, queue, netVars, asked>>

Save ==
  /\ main = "collect" /\ count = 0 /\ main' = "saved"
  /\ UNCHANGED <<world, i, range, count, segment, kidVars, queue, netVars, asked>>

Main == AskLength \/ Fork \/ Wait \/ Collect \/ Rewait \/ Save
-----------------------------------------------------------------------------
(* The server and the network.                                             *)

Positions(r) == IF r[2] = None THEN [p \in 1 .. len - r[1] |-> r[1] + p - 1]
                ELSE [p \in 1 .. r[2] - r[1] + 1 |-> r[1] + p - 1]
Valid(r) == r[1] < len /\ (r[2] # None => r[1] <= r[2])
Whole == [p \in 1 .. len |-> p - 1]
Bytes(s) == [p \in 1 .. Len(s) |-> Body(s[p])]
Response(st, c, s) == <<Status(st), Header(c)>> \o Bytes(s)

(* In order; the range, or the whole file, or an error with or without a   *)
(* body or a length.                                                       *)
Answer ==
  /\ up /\ requests # <<>>
  /\ LET r == requests[1] IN
     \/ /\ Valid(r)
        /\ \E c \in {Len(Positions(r)), NoLength} :
             sending' = sending \o Response(206, c, Positions(r))
     \/ \E c \in {len, NoLength} : sending' = sending \o Response(200, c, Whole)
     \/ \E c \in {NoLength, 0} : sending' = sending \o Response(503, c, <<>>)
     \/ \E c \in {NoLength, 1} : sending' = sending \o Response(503, c, <<ErrorPage>>)
  /\ requests' = Tail(requests)
  /\ UNCHANGED <<world, parentVars, kidVars, queue, stream, up, asked>>

Arrive ==
  /\ up /\ sending # <<>>
  /\ stream' = Append(stream, sending[1]) /\ sending' = Tail(sending)
  /\ UNCHANGED <<world, parentVars, kidVars, queue, requests, up, asked>>

Close ==
  /\ up
  /\ up' = FALSE /\ requests' = <<>> /\ sending' = <<>>
  /\ UNCHANGED <<world, parentVars, kidVars, queue, stream, asked>>

Server == Answer \/ Arrive
Next == Main \/ (\E k \in Kids : KidStep(k)) \/ Server \/ Close
Spec == Init /\ [][Next]_vars

(* The processes run, and the server answers or closes the connection.     *)
FairSpec == /\ Spec /\ WF_vars(Main) /\ WF_vars(Server)
            /\ \A k \in UNION {1 .. m : m \in Levels} : WF_vars(k \in Kids /\ KidStep(k))
-----------------------------------------------------------------------------
InRange(b, r) == r[1] <= b /\ (r[2] # None => b <= r[2])

(* Once every child has asked, and if the length was told, each byte of the *)
(* file was asked for by exactly one of them, though the division leaves a  *)
(* rest and a range may be empty.                                           *)
RangesCover ==
  range = len \div n /\ (\A k \in Kids : asked[k] # None) =>
    \A b \in File : \E k \in Kids :
      InRange(b, asked[k]) /\ \A l \in Kids : InRange(b, asked[l]) => l = k

(* What a child takes for its segment is a beginning of the answer to its   *)
(* own request: what others left in the shared connection is never in it,   *)
(* though a CRLF in that ends the status line.  An empty line in it ends    *)
(* the header, and this is so only if there is none.                        *)
Begins(s, t) == Len(s) <= Len(t) /\ s = SubSeq(t, 1, Len(s))
OwnResponse ==
  blanks = {} =>
    \A k \in Kids : kid[k] = "push" =>
      \/ Begins(data[k], Bytes(Whole)) \/ Begins(data[k], Bytes(<<ErrorPage>>))
      \/ Valid(asked[k]) /\ Begins(data[k], Bytes(Positions(asked[k])))

(* The type of a message is part of its data: the parent takes nothing but  *)
(* empty first segments, and so saves a file only if it asked for one, or   *)
(* if earlier runs have left it as many such messages as it asked for more. *)
OnlyEmptyIsTaken ==
  /\ \A k \in Kids : segment[k] # None => k = 1 /\ segment[k] = 0
  /\ main = "saved" => n <= 1 + old

(* Everything that the server has to say is read, it keeps the connection,  *)
(* and a child waits for the body that an answer of length 0 or of no       *)
(* length does not have, or one whose length a text has named; or the queue *)
(* is full.                                                                *)
Stalled ==
  \E k \in Kids :
    \/ /\ kid[k] = "body" /\ up /\ requests = <<>> /\ sending = <<>> /\ stream = <<>>
       /\ clen[k] <= 0 \/ lineEnds # {}
    \/ kid[k] = "push" /\ Len(queue) >= Capacity

(* Every child ends and the parent comes to collecting, whatever the server *)
(* answers, and if it closes the connection, unless a child stalls.         *)
AllAreFetched == <>(main \notin {"head", "fork", "wait"}) \/ <>[]Stalled

WebInv == TypeOK /\ RangesCover /\ OwnResponse
=============================================================================
