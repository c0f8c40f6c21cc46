------------------------------ MODULE TcpProofs ------------------------------
(***************************************************************************)
(* Proofs about the programs on TCP connections.                           *)
(*                                                                         *)
(* About concurrent_web_client.c, for every number of children and every   *)
(* length of the file: the ranges the children ask for; what a child finds *)
(* in the connection it shares with the children before it; and what the   *)
(* parent takes from the message queue.                                    *)
(*                                                                         *)
(* About the programs of Streams, for every size of the buffers and of     *)
(* what is sent: what a server echoes or takes is what was sent to it, who *)
(* can end EchoServer, and what a download keeps.                          *)
(***************************************************************************)
EXTENDS MCTcp, FiniteSetTheorems, SequenceTheorems, TLAPS

(* Division rounds down.                                                    *)
LEMMA Rounds ==
  ASSUME NEW a \in Nat, NEW b \in Nat \ {0}
  PROVE  /\ a \div b \in Nat
         /\ b * (a \div b) <= a /\ a < b * (a \div b) + b
  BY Z3

(* The first of two numbered blocks of equal size ends before the second    *)
(* begins.                                                                  *)
LEMMA Blocks ==
  ASSUME NEW r \in Nat, NEW k \in Nat, NEW l \in Nat, k < l
  PROVE  k * r <= (l - 1) * r
<1>1. l - 1 - k \in Nat
  OBVIOUS
<1>2. (l - 1 - k) * r \in Nat
  BY <1>1
<1>3. (l - 1) * r = k * r + (l - 1 - k) * r
  BY <1>1
<1>4. k * r \in Nat
  OBVIOUS
<1>5. QED BY <1>2, <1>3, <1>4
-----------------------------------------------------------------------------
(* The n ranges cover the bytes of the file, each once.                     *)
LEMMA RangesPartition ==
  ASSUME n \in Nat \ {0}, len \in Nat, range = len \div n, NEW b \in File
  PROVE  \E k \in Kids :
           InRange(b, RangeOf(k)) /\ \A l \in Kids : InRange(b, RangeOf(l)) => l = k
<1> USE DEF File, Kids
<1>1. range \in Nat /\ n * range <= len
  BY Rounds
<1>2. None \notin Int
  BY WebAssumption
<1>3. \A k \in Kids : (k - 1) * range \in Int /\ k * range - 1 \in Int
  BY <1>1
<1>4. \A k \in Kids : InRange(b, RangeOf(k)) <=>
        (k - 1) * range <= b /\ (k # n => b <= k * range - 1)
  BY <1>2, <1>3 DEF InRange, RangeOf
<1>5. ASSUME NEW k \in Kids, NEW l \in Kids, k < l,
             InRange(b, RangeOf(k)), InRange(b, RangeOf(l))
      PROVE  FALSE
  <2>1. k * range <= (l - 1) * range
    BY <1>1, <1>5, Blocks
  <2>2. (l - 1) * range <= b /\ b <= k * range - 1
    BY <1>4, <1>5
  <2>3. QED BY <1>1, <1>3, <2>1, <2>2
<1>6. \E k \in Kids : InRange(b, RangeOf(k))
  <2>1. CASE (n - 1) * range <= b
    BY <1>4, <2>1
  <2>2. CASE ~((n - 1) * range <= b)
    <3>1. range # 0
      BY <1>1, <2>2
    <3>2. PICK q \in Nat : range * q <= b /\ b < range * q + range
      <4>1. b \in Nat /\ range \in Nat \ {0}
        BY <1>1, <3>1
      <4>2. /\ b \div range \in Nat
            /\ range * (b \div range) <= b /\ b < range * (b \div range) + range
        BY <4>1, Rounds
      <4>3. QED BY <4>2
    <3>3. q + 1 \in Kids /\ q + 1 # n
      <4>1. ~(n - 1 <= q)
        <5>1. SUFFICES ASSUME n - 1 <= q PROVE FALSE
          OBVIOUS
        <5>2. CASE n - 1 = q
          BY <1>1, <2>2, <3>2, <5>2
        <5>3. CASE n - 1 < q
          <6>1. (n - 1) * range <= (q - 1) * range
            BY <1>1, <5>3, Blocks
          <6>2. (q - 1) * range = range * q - range
            BY <1>1
          <6>3. QED BY <1>1, <2>2, <3>2, <6>1, <6>2
        <5>4. QED BY <5>1, <5>2, <5>3
      <4>2. QED BY <4>1
    <3>4. (q + 1 - 1) * range <= b /\ b <= (q + 1) * range - 1
      BY <1>1, <3>2
    <3>5. QED BY <1>4, <3>3, <3>4
  <2>3. QED BY <2>1, <2>2
<1>7. PICK k \in Kids : InRange(b, RangeOf(k))
  BY <1>6
<1>8. \A l \in Kids : InRange(b, RangeOf(l)) => l = k
  <2>1. SUFFICES ASSUME NEW l \in Kids, InRange(b, RangeOf(l)), l # k PROVE FALSE
    OBVIOUS
  <2>2. l < k \/ k < l
    BY <2>1
  <2>3. QED BY <1>5, <1>7, <2>1, <2>2
<1>9. QED BY <1>7, <1>8
-----------------------------------------------------------------------------
(* What a child has asked for is what it should; nobody asks before the     *)
(* parent has divided the length.                                           *)
AskedInv ==
  /\ n \in Nat \ {0} /\ len \in Nat
  /\ main = "head" => \A k \in Kids : kid[k] = "none" /\ asked[k] = None
  /\ \A k \in Kids : asked[k] \in {None, RangeOf(k)}
  /\ DOMAIN kid = Kids /\ DOMAIN asked = Kids
  /\ kid = [k \in Kids |-> kid[k]] /\ asked = [k \in Kids |-> asked[k]]

(* A child has asked for its own range or for nothing yet, after any step.  *)
LEMMA AskedStep == AskedInv /\ [Next]_vars => AskedInv'
<1> SUFFICES ASSUME AskedInv, [Next]_vars PROVE AskedInv'
  OBVIOUS
<1> USE DEF AskedInv, Kids, RangeOf, world, parentVars, kidVars, netVars
<1>1. CASE UNCHANGED vars
  BY <1>1 DEF vars
<1>2. CASE AskLength
  BY <1>2 DEF AskLength
<1>3. CASE Fork
  BY <1>3 DEF Fork, NextChild
<1>4. CASE Wait \/ Rewait \/ Save
  BY <1>4 DEF Wait, NextChild, Rewait, Save
<1>5. CASE Collect
  BY <1>5 DEF Collect
<1>6. CASE Server \/ Close
  BY <1>6 DEF Server, Answer, Arrive, Close
<1>7. ASSUME NEW k \in Kids, Send(k) PROVE AskedInv'
  BY <1>7 DEF Send, Exit, KidGoto
<1>8. ASSUME NEW k \in Kids, ReadHttpStatus(k) \/ ParseHeader(k) \/ Recv(k) \/ Push(k)
      PROVE  AskedInv'
  BY <1>8 DEF ReadHttpStatus, ParseHeader, FindLength, Recv, Push, Exit, KidGoto
<1>9. QED
  BY <1>1, <1>2, <1>3, <1>4, <1>5, <1>6, <1>7, <1>8 DEF Next, Main, KidStep

(* The bytes of the file are asked for once each, however it is divided.    *)
THEOREM RangesCoverFile == Spec => []RangesCover
<1>1. Init => AskedInv
  BY WebAssumption DEF Init, AskedInv, Kids
<1>2. AskedInv => RangesCover
  <2>1. SUFFICES ASSUME AskedInv, range = len \div n, \A k \in Kids : asked[k] # None,
                        NEW b \in File
                 PROVE  \E k \in Kids : InRange(b, asked[k])
                          /\ \A l \in Kids : InRange(b, asked[l]) => l = k
    BY DEF RangesCover
  <2>2. \A k \in Kids : asked[k] = RangeOf(k)
    BY <2>1 DEF AskedInv
  <2>3. QED BY <2>1, <2>2, RangesPartition DEF AskedInv
<1>3. QED BY <1>1, <1>2, AskedStep, PTL DEF Spec
-----------------------------------------------------------------------------
(* What is left of the connection's contents, from what has arrived to what *)
(* is still to come.                                                        *)
Total == Len(stream) + Len(sending)
Item(p) == IF p <= Len(stream) THEN stream[p] ELSE sending[p - Len(stream)]
NoHeads == \A p \in 1 .. Total : ~IsHead(Item(p))
Quiet == requests = <<>> /\ NoHeads

(* What may follow the header of an answer to child k.                      *)
Bodies(k) ==
  {Whole, <<ErrorPage>>, <<>>} \cup (IF Valid(asked[k]) THEN {Positions(asked[k])} ELSE {})

(* The body b, or what has been sent of it, comes after position h, where    *)
(* the only header is; the status line is before it.                        *)
BodyAfter(h, b) == Total <= h + Len(b) /\ \A p \in h + 1 .. Total : Item(p) = Body(b[p - h])
Answered(h, b) ==
  /\ h \in 1 .. Total /\ IsHead(Item(h)) /\ (\A p \in 1 .. h - 1 : ~IsHead(Item(p)))
  /\ BodyAfter(h, b)
StatusBefore(h) == h > 1 /\ Item(h - 1)[1] = "status"

(* A child waits for an answer, perhaps beyond what others have left, or the *)
(* connection has ended before it.                                          *)
Waits(k) == \/ up /\ requests = <<asked[k]>> /\ NoHeads
            \/ ~up /\ Quiet

(* The connection as child k finds it, at each of its places: a line end in  *)
(* what others have left may have taken it past the status line already.    *)
Busy == {"send", "status", "header", "body", "push"}
NetOf(k) ==
  /\ kid[k] # "send" => asked[k] # None
  /\ kid[k] = "status" =>
       \/ Waits(k)
       \/ /\ requests = <<>>
          /\ \E h \in 1 .. Total, b \in Bodies(k) : Answered(h, b) /\ StatusBefore(h)
  /\ kid[k] = "header" =>
       \/ Waits(k)
       \/ requests = <<>> /\ \E h \in 1 .. Total, b \in Bodies(k) : Answered(h, b)
  /\ kid[k] = "body" => requests = <<>> /\ \E b \in Bodies(k) : BodyAfter(0, b)
  /\ kid[k] \in {"send", "push"} => Quiet
  /\ kid[k] = "push" => \E b \in Bodies(k) : Begins(data[k], Bytes(b))
NetInv ==
  /\ up \/ (requests = <<>> /\ sending = <<>>)
  /\ \A k \in Kids : kid[k] \in Busy => NetOf(k)
  /\ (\A k \in Kids : kid[k] \notin Busy) => Quiet

(* The children take turns on the connection.                               *)
TurnOf(k) == \/ main = "wait" /\ k = i
             \/ main = "rewait" /\ k = 1
SoleKid == /\ \A k \in Kids : kid[k] \in Busy => TurnOf(k)
           /\ \A k \in Kids : kid[k] = "push" => clen[k] >= 0

(* Child 1 sends one message for each time it is started, and the parent    *)
(* starts it again only when it has thrown a message away.  The messages     *)
(* taken, there and still to come are never more than one and the old ones. *)
Pending == IF kid[1] = "ended" THEN 0 ELSE 1
FirstInv ==
  /\ main \in {"head", "fork", "wait"} => i <= n
  /\ i = 1 /\ main \in {"head", "fork"} => kid[1] = "none"
  /\ \A k \in Kids : segment[k] # None => k = 1 /\ segment[k] = 0
  /\ (n - count) + Cardinality(Ones) + Pending <= 1 + old
  /\ main = "saved" => count = 0

IInv == TypeOK /\ AskedInv /\ SoleKid /\ (blanks = {} => NetInv) /\ FirstInv
-----------------------------------------------------------------------------
(* A child asks for a range.                                                *)
LEMMA RangeType ==
  ASSUME n \in Nat, range \in Int, NEW k \in Kids
  PROVE  RangeOf(k) \in ByteRange
<1>1. (k - 1) * range \in Int /\ k * range - 1 \in Int
  BY DEF Kids
<1>2. QED
  BY <1>1 DEF RangeOf, ByteRange

(* A range that is not empty names positions.                               *)
LEMMA PositionsType ==
  ASSUME len \in Nat, NEW r \in ByteRange, Valid(r)
  PROVE  Positions(r) \in Seq(Int)
<1>1. r[1] \in Int /\ r[2] \in Int \cup {None} /\ None \notin Int
  BY WebAssumption DEF ByteRange
<1>2. CASE r[2] = None
  <2>1. len - r[1] \in Nat
    BY <1>1, <1>2 DEF Valid
  <2>2. QED
    BY <1>1, <1>2, <2>1 DEF Positions
<1>3. CASE r[2] # None
  <2>1. r[2] - r[1] + 1 \in Nat
    BY <1>1, <1>3 DEF Valid
  <2>2. \A p \in 1 .. r[2] - r[1] + 1 : r[1] + p - 1 \in Int
    BY <1>1
  <2>3. [p \in 1 .. r[2] - r[1] + 1 |-> r[1] + p - 1] \in Seq(Int)
    BY <2>1, <2>2
  <2>4. QED
    BY <1>3, <2>3 DEF Positions
<1>4. QED
  BY <1>2, <1>3

(* Every body that a server can send is a sequence of positions or -1.      *)
LEMMA BodiesType ==
  ASSUME TypeOK, NEW k \in Kids, asked[k] # None, NEW b \in Bodies(k)
  PROVE  b \in Seq(Int) /\ Len(b) \in Nat /\ \A p \in 1 .. Len(b) : b[p] \in Int
<1>0. len \in Nat /\ asked[k] \in ByteRange
  BY WebAssumption DEF TypeOK
<1>1. Whole \in Seq(Int)
  BY <1>0 DEF Whole
<1>2. ASSUME Valid(asked[k]) PROVE Positions(asked[k]) \in Seq(Int)
  BY <1>0, <1>2, PositionsType
<1>3. b \in Seq(Int)
  <2>1. <<ErrorPage>> \in Seq(Int) /\ <<>> \in Seq(Int)
    BY DEF ErrorPage
  <2>2. b \in {Whole, <<ErrorPage>>, <<>>} \/ (Valid(asked[k]) /\ b = Positions(asked[k]))
    BY DEF Bodies
  <2>3. QED
    BY <1>1, <1>2, <2>1, <2>2
<1>4. QED
  BY <1>3

(* Bytes are items of the connection, and neither a header nor a status.    *)
LEMMA BytesItems ==
  ASSUME NEW b \in Seq(Int)
  PROVE  /\ Bytes(b) \in Seq(Piece) /\ Len(Bytes(b)) = Len(b)
         /\ \A p \in 1 .. Len(b) : Bytes(b)[p] = Body(b[p])
BY DEF Bytes, Body, Piece

(* A byte is not a header.                                                  *)
LEMMA BodyIsNoHead == \A x : ~IsHead(Body(x)) /\ Body(x)[1] = "data"
BY DEF Body, IsHead

(* Two sequences, one after the other.                                      *)
LEMMA Joined ==
  ASSUME NEW T, NEW s \in Seq(T), NEW u \in Seq(T)
  PROVE  /\ s \o u \in Seq(T) /\ Len(s \o u) = Len(s) + Len(u)
         /\ \A p \in 1 .. Len(s) : (s \o u)[p] = s[p]
         /\ \A p \in 1 .. Len(u) : (s \o u)[Len(s) + p] = u[p]
<1>1. ASSUME NEW p \in 1 .. Len(u) PROVE (s \o u)[Len(s) + p] = u[p]
  <2>1. /\ Len(s) + p \in 1 .. Len(s) + Len(u) /\ ~(Len(s) + p <= Len(s))
        /\ Len(s) + p - Len(s) = p
    OBVIOUS
  <2>2. QED
    BY <2>1
<1>2. QED
  BY <1>1

(* An answer as it is put on the connection: a status line, a header and the *)
(* body's bytes.                                                            *)
LEMMA ResponseItems ==
  ASSUME NEW st \in Int, NEW c \in Int, NEW b \in Seq(Int)
  PROVE  /\ Response(st, c, b) \in Seq(Piece) /\ Len(Response(st, c, b)) = 2 + Len(b)
         /\ Response(st, c, b)[1] = Status(st) /\ Response(st, c, b)[2] = Header(c)
         /\ \A p \in 1 .. Len(b) : Response(st, c, b)[2 + p] = Body(b[p])
<1> DEFINE h == <<Status(st), Header(c)>>
<1>1. h \in Seq(Piece) /\ Len(h) = 2 /\ h[1] = Status(st) /\ h[2] = Header(c)
  BY DEF Status, Header, Piece
<1>2. /\ Bytes(b) \in Seq(Piece) /\ Len(Bytes(b)) = Len(b)
      /\ \A p \in 1 .. Len(b) : Bytes(b)[p] = Body(b[p])
  BY BytesItems
<1> HIDE DEF h
<1>3. /\ h \o Bytes(b) \in Seq(Piece) /\ Len(h \o Bytes(b)) = 2 + Len(b)
      /\ \A p \in 1 .. 2 : (h \o Bytes(b))[p] = h[p]
      /\ \A p \in 1 .. Len(b) : (h \o Bytes(b))[2 + p] = Bytes(b)[p]
  <2>1. /\ h \o Bytes(b) \in Seq(Piece) /\ Len(h \o Bytes(b)) = Len(h) + Len(Bytes(b))
        /\ \A p \in 1 .. Len(h) : (h \o Bytes(b))[p] = h[p]
        /\ \A p \in 1 .. Len(Bytes(b)) : (h \o Bytes(b))[Len(h) + p] = Bytes(b)[p]
    <3>1. h \in Seq(Piece) /\ Bytes(b) \in Seq(Piece)
      BY <1>1, <1>2
    <3>2. QED
      BY ONLY <3>1, Joined
  <2>2. QED
    BY ONLY <1>1, <1>2, <2>1
<1>4. Response(st, c, b) = h \o Bytes(b)
  BY DEF Response, h
<1>5. QED
  BY <1>1, <1>2, <1>3, <1>4
-----------------------------------------------------------------------------
(* What is left of an item is made of items; of a byte nothing is left, and  *)
(* of a status line nothing after its end.                                  *)
LEMMA PieceLeft ==
  ASSUME NEW x \in Piece
  PROVE  /\ x[2] \in Int
         /\ \A r \in AfterLine(x) \cup AfterCut(x) : r \in Seq(Piece)
         /\ ~IsHead(x) => AfterLine(x) = {<<>>}
         /\ x[1] = "data" => AfterCut(x) = {<<>>}
<1>1. x[1] \in {"status", "header", "data"} /\ x[2] \in Int
  BY DEF Piece
<1>2. <<>> \in Seq(Piece) /\ <<x>> \in Seq(Piece) /\ <<Header(NoLength)>> \in Seq(Piece)
      /\ <<Status(0)>> \in Seq(Piece)
  BY DEF Header, Status, NoLength, Piece
<1>3. QED
  BY <1>1, <1>2 DEF AfterLine, AfterCut, IsHead

(* What is left of the connection once an item was read, if nothing of that  *)
(* item is left.                                                            *)
LEMMA Shift ==
  ASSUME stream \in Seq(Piece), sending \in Seq(Piece), NEW d \in 0 .. Len(stream),
         stream' = Rest(d), sending' = sending
  PROVE  /\ stream' \in Seq(Piece) /\ Len(stream') = Len(stream) - d
         /\ Total' = Total - d /\ Total \in Nat
         /\ \A p \in 1 .. Total' : Item(p)' = Item(p + d)
<1>1. stream' \in Seq(Piece) /\ Len(stream') = Len(stream) - d
  BY DEF Rest
<1>2. \A p \in 1 .. Len(stream) - d : stream'[p] = stream[p + d]
  BY DEF Rest
<1>3. Total' = Total - d /\ Total \in Nat
  BY <1>1 DEF Total
<1>4. ASSUME NEW p \in 1 .. Total' PROVE Item(p)' = Item(p + d)
  <2>1. CASE p <= Len(stream')
    <3>1. p + d <= Len(stream) /\ p \in 1 .. Len(stream) - d
      BY <1>1, <1>3, <2>1
    <3>2. QED
      BY <1>2, <2>1, <3>1 DEF Item
  <2>2. CASE ~(p <= Len(stream'))
    <3>1. p \in Int /\ Len(stream) \in Int /\ d \in Int
      BY <1>3
    <3>2. ~(p <= Len(stream) - d)
      BY <1>1, <2>2
    <3>3. ~(p + d <= Len(stream))
      BY <3>1, <3>2
    <3>4. p - Len(stream') = p + d - Len(stream)
      <4>1. \A a, b, c \in Int : a - (b - c) = a + c - b
        OBVIOUS
      <4>2. p - (Len(stream) - d) = p + d - Len(stream)
        BY <3>1, <4>1
      <4>3. QED
        BY <1>1, <4>2, Zenon
    <3>5. QED
      BY <2>2, <3>3, <3>4 DEF Item
  <2>3. QED
    BY <2>1, <2>2
<1>5. QED
  BY <1>1, <1>3, <1>4

(* A connection that has ended and was read to its end is quiet.             *)
LEMMA Dry ==
  ASSUME stream' = <<>>, sending' = <<>>, requests' = <<>>
  PROVE  Total' = 0 /\ Quiet'
<1>1. Total' = 0
  BY DEF Total
<1>2. QED
  BY <1>1 DEF Quiet, NoHeads

(* The items are those that have arrived, and then those to come.           *)
LEMMA Arrived ==
  ASSUME stream \in Seq(Piece), sending \in Seq(Piece)
  PROVE  /\ Total \in Nat /\ Len(stream) \in Nat /\ Len(stream) <= Total
         /\ \A p \in 1 .. Len(stream) : Item(p) = stream[p] /\ stream[p] \in Piece
BY DEF Total, Item
-----------------------------------------------------------------------------
(* A place is as its name says.                                             *)
LEMMA Places ==
  /\ Busy \cup {"none", "ended"} = KidPlace /\ "none" \notin Busy /\ "ended" \notin Busy
  /\ {"send", "status", "header", "body", "push"} \subseteq Busy
  BY DEF Busy, KidPlace

(* A child that does something is the only one that does.                   *)
LEMMA KidIsSole ==
  ASSUME IInv, NEW k \in Kids, KidStep(k)
  PROVE  /\ kid[k] \in Busy /\ TurnOf(k)
         /\ \A j \in Kids : kid[j] \in Busy => j = k
         /\ \E to \in Busy \cup {"ended"} : kid' = [kid EXCEPT ![k] = to]
         /\ UNCHANGED <<world, main, i, range, count, segment>>
<1>1. /\ kid[k] \in Busy
      /\ \E to \in Busy \cup {"ended"} : kid' = [kid EXCEPT ![k] = to]
      /\ UNCHANGED <<world, main, i, range, count, segment>>
  BY Places DEF KidStep, Send, ReadHttpStatus, ParseHeader, FindLength, Recv, Push, Exit, KidGoto,
     parentVars
<1>2. TurnOf(k)
  BY <1>1 DEF IInv, SoleKid
<1>3. \A j \in Kids : kid[j] \in Busy => j = k
  BY <1>2 DEF IInv, SoleKid, TurnOf
<1>4. QED
  BY <1>1, <1>2, <1>3

(* What a step of child k leaves of the connection, for itself or the next.  *)
LeftFor(k) ==
  /\ up \/ (requests = <<>> /\ sending = <<>>)
  /\ kid[k] \in Busy => NetOf(k)
  /\ kid[k] = "ended" => Quiet

(* What the step of a child may rely on, if there are no empty lines.       *)
LEMMA RelyOn ==
  ASSUME IInv, blanks = {}, NEW k \in Kids, kid[k] \in Busy
  PROVE  /\ stream \in Seq(Piece) /\ sending \in Seq(Piece) /\ NetOf(k)
         /\ up \/ (requests = <<>> /\ sending = <<>>)
         /\ kid \in [Kids -> KidPlace] /\ data \in [Kids -> Seq(Piece)]
         /\ asked = [j \in Kids |-> asked[j]]
BY DEF IInv, TypeOK, NetInv, AskedInv

(* What child k may be answered does not depend on the connection.          *)
LEMMA BodiesKept ==
  ASSUME NEW k, len' = len, asked'[k] = asked[k]
  PROVE  Bodies(k)' = Bodies(k)
  BY DEF Bodies, Whole, Valid, Positions, ErrorPage

(* A child that ends on a quiet connection, or on one that has ended and was *)
(* read, leaves it so.                                                      *)
LEMMA Ends ==
  ASSUME NEW k, kid'[k] = "ended", Quiet',
         up' \/ (requests' = <<>> /\ sending' = <<>>)
  PROVE  LeftFor(k)'
BY Places DEF LeftFor, Busy

(* After a request a child has left the network as the next one expects it. *)
LEMMA SendLeaves ==
  ASSUME IInv, blanks = {}, NEW k \in Kids, Send(k)
  PROVE  LeftFor(k)'
<1>0. kid[k] = "send" /\ kid[k] \in Busy
  BY DEF Send, Exit, KidGoto, Busy
<1>1. /\ stream \in Seq(Piece) /\ sending \in Seq(Piece) /\ Quiet
      /\ up \/ (requests = <<>> /\ sending = <<>>)
      /\ asked = [j \in Kids |-> asked[j]] /\ kid \in [Kids -> KidPlace]
  BY <1>0, RelyOn DEF NetOf
<1>2. UNCHANGED <<stream, sending, up>>
  BY DEF Send
<1>3. NoHeads' /\ requests = <<>>
  BY <1>1, <1>2 DEF Quiet, NoHeads, Total, Item, IsHead
<1>4. CASE /\ kid' = [kid EXCEPT ![k] = "status"] /\ asked' = [asked EXCEPT ![k] = RangeOf(k)]
           /\ requests' = IF up THEN Append(requests, RangeOf(k)) ELSE requests
  <2>1. kid'[k] = "status" /\ asked'[k] = RangeOf(k)
    BY <1>1, <1>4
  <2>2. asked'[k] # None
    <3>1. RangeOf(k) \in ByteRange
      <4>1. n \in Nat /\ range \in Int
        BY DEF IInv, TypeOK, AskedInv
      <4>2. QED
        BY <4>1, RangeType
    <3>2. QED
      BY <2>1, <3>1, WebAssumption DEF ByteRange
  <2>3. \/ up' /\ requests' = <<asked'[k]>> /\ NoHeads'
        \/ ~up' /\ requests' = <<>> /\ NoHeads'
    BY <1>2, <1>3, <1>4, <2>1
  <2>4. NetOf(k)'
    BY <2>1, <2>2, <2>3 DEF NetOf, Quiet, Waits
  <2>5. QED
    BY <1>1, <1>2, <2>1, <2>3, <2>4 DEF LeftFor
<1>5. CASE kid' = [kid EXCEPT ![k] = "ended"] /\ UNCHANGED requests
  <2>1. kid'[k] = "ended"
    BY <1>1, <1>5
  <2>2. Quiet'
    BY <1>3, <1>5 DEF Quiet
  <2>3. QED
    BY <1>1, <1>2, <1>5, <2>1, <2>2, Ends
<1>6. QED
  BY <1>4, <1>5 DEF Send, Exit, KidGoto

(* A child whose connection has ended leaves it read and quiet, whether it   *)
(* goes on or exits.                                                        *)
LEMMA DryLeaves ==
  ASSUME IInv, blanks = {}, NEW k \in Kids, kid[k] \in {"status", "header"}, ~up,
         stream' = <<>>, UNCHANGED <<world, requests, sending, up, asked>>,
         \/ kid' = [kid EXCEPT ![k] = "ended"]
         \/ kid[k] = "status" /\ kid' = [kid EXCEPT ![k] = "header"]
         \/ kid[k] = "header" /\ kid' = [kid EXCEPT ![k] = "body"]
  PROVE  LeftFor(k)'
<1>1. /\ requests' = <<>> /\ sending' = <<>> /\ ~up' /\ asked'[k] # None
      /\ kid \in [Kids -> KidPlace] /\ len' = len
  BY RelyOn DEF NetOf, Busy, world
<1>2. Quiet' /\ Total' = 0
  BY <1>1, Dry
<1>3. CASE kid'[k] = "ended"
  BY <1>1, <1>2, <1>3, Ends
<1>4. CASE kid'[k] = "header"
  BY <1>1, <1>2, <1>4 DEF LeftFor, NetOf, Waits
<1>5. CASE kid'[k] = "body"
  <2>1. <<>> \in Bodies(k)' /\ Len(<<>>) = 0
    BY DEF Bodies
  <2>2. BodyAfter(0, <<>>)'
    BY <1>2, <2>1 DEF BodyAfter
  <2>3. NetOf(k)'
    BY <1>1, <1>5, <2>1, <2>2 DEF NetOf
  <2>4. QED
    BY <1>1, <1>5, <2>3 DEF LeftFor
<1>6. QED
  BY <1>1, <1>3, <1>4, <1>5

(* So it has after reading the status line, its own or what was left of      *)
(* another's body,                                                          *)
LEMMA StatusLeaves ==
  ASSUME IInv, blanks = {}, NEW k \in Kids, ReadHttpStatus(k)
  PROVE  LeftFor(k)'
<1>0. kid[k] = "status" /\ kid[k] \in Busy
  BY DEF ReadHttpStatus, Exit, KidGoto, Busy
<1>1. /\ stream \in Seq(Piece) /\ sending \in Seq(Piece) /\ NetOf(k)
      /\ up \/ (requests = <<>> /\ sending = <<>>)
      /\ kid \in [Kids -> KidPlace]
  BY <1>0, RelyOn
<1>2. UNCHANGED <<world, asked, requests, sending, up>> /\ len' = len
  BY DEF ReadHttpStatus, world
<1>3. CASE ~up /\ stream' = <<>>
  <2>1. \/ kid' = [kid EXCEPT ![k] = "ended"]
        \/ kid' = [kid EXCEPT ![k] = "header"]
    BY <1>3 DEF ReadHttpStatus, Exit, KidGoto
  <2>2. QED
    BY <1>0, <1>2, <1>3, <2>1, DryLeaves
<1>4. ASSUME NEW p \in 1 .. Len(stream), LineEndsAt(p), kid' = [kid EXCEPT ![k] = "header"],
             NEW r \in AfterLine(stream[p]), stream' = r \o Rest(p)
      PROVE  LeftFor(k)'
  <2>1. kid'[k] = "header" /\ Bodies(k)' = Bodies(k) /\ asked'[k] # None
    BY <1>0, <1>1, <1>2, <1>4, BodiesKept DEF NetOf
  <2>2. /\ Total \in Nat /\ Len(stream) \in Nat /\ Len(stream) <= Total
        /\ \A q \in 1 .. Len(stream) : Item(q) = stream[q] /\ stream[q] \in Piece
    BY <1>1, Arrived
  <2>3. ASSUME ~IsHead(stream[p])
        PROVE  /\ stream' \in Seq(Piece) /\ Total' = Total - p
               /\ \A q \in 1 .. Total' : Item(q)' = Item(q + p)
    <3>1. r = <<>>
      BY <1>4, <2>2, <2>3, PieceLeft
    <3>2. Rest(p) \in Seq(Piece)
      BY <1>1, <1>4 DEF Rest
    <3>3. stream' = Rest(p) /\ p \in 0 .. Len(stream)
      BY <1>4, <3>1, <3>2, ConcatEmptySeq
    <3>4. QED
      BY <1>1, <1>2, <3>3, Shift
  <2>4. CASE Waits(k)
    <3>1. NoHeads
      BY <2>4 DEF Waits, Quiet
    <3>2. ~IsHead(stream[p])
      BY <2>2, <3>1 DEF NoHeads
    <3>3. NoHeads'
      <4>1. ASSUME NEW q \in 1 .. Total' PROVE ~IsHead(Item(q)')
        <5>1. q + p \in 1 .. Total /\ Item(q)' = Item(q + p)
          BY <1>4, <2>2, <2>3, <3>2
        <5>2. QED
          BY <3>1, <5>1 DEF NoHeads
      <4>2. QED
        BY <4>1 DEF NoHeads, IsHead
    <3>4. Waits(k)'
      BY <1>2, <2>4, <3>3 DEF Waits, Quiet
    <3>5. QED
      BY <1>1, <1>2, <2>1, <3>4 DEF LeftFor, NetOf
  <2>5. CASE /\ requests = <<>>
             /\ \E h \in 1 .. Total, b \in Bodies(k) : Answered(h, b) /\ StatusBefore(h)
    <3>1. PICK h \in 1 .. Total, b \in Bodies(k) : Answered(h, b) /\ StatusBefore(h)
      BY <2>5
    <3>2. /\ IsHead(Item(h)) /\ h - 1 \in 1 .. Total /\ Item(h - 1)[1] = "status"
          /\ \A q \in 1 .. h - 1 : ~IsHead(Item(q))
      BY <2>2, <3>1 DEF Answered, StatusBefore
    <3>3. p <= h - 1
      <4>1. SUFFICES ASSUME h - 1 < p PROVE FALSE
        BY <1>4, <2>2
      <4>2. h - 1 \in 1 .. p - 1 /\ h - 1 \in 1 .. Len(stream)
        BY <1>4, <2>2, <3>2, <4>1
      <4>3. stream[h - 1][1] = "status"
        BY <2>2, <3>2, <4>2
      <4>4. QED
        BY <1>4, <4>2, <4>3 DEF LineEndsAt, EndsLine
    <3>4. ~IsHead(stream[p])
      BY <1>4, <2>2, <3>2, <3>3
    <3>5. h - p \in 1 .. Total' /\ Answered(h - p, b)'
      <4>1. /\ h - p \in 1 .. Total' /\ h - p \in Nat /\ h - p + p = h
            /\ Item(h - p)' = Item(h)
        <5>1. h - p \in 1 .. Total' /\ h - p \in Nat /\ h - p + p = h
          BY <1>4, <2>2, <2>3, <3>3, <3>4
        <5>2. QED
          BY <2>3, <3>4, <5>1
      <4>2. ASSUME NEW q \in 1 .. h - p - 1 PROVE ~IsHead(Item(q)')
        <5>1. q \in 1 .. Total' /\ q + p \in 1 .. h - 1
          BY <1>4, <2>2, <2>3, <3>4, <4>1
        <5>2. QED
          BY <2>3, <3>2, <3>4, <5>1
      <4>3. BodyAfter(h - p, b)'
        <5>1. Len(b) \in Nat
          BY <1>2, <2>1, BodiesType DEF IInv
        <5>2. Total <= h + Len(b) /\ \A q \in h + 1 .. Total : Item(q) = Body(b[q - h])
          BY <3>1 DEF Answered, BodyAfter
        <5>3. Total' <= h - p + Len(b)
          BY <1>4, <2>2, <2>3, <3>4, <5>1, <5>2
        <5>4. ASSUME NEW q \in h - p + 1 .. Total' PROVE Item(q)' = Body(b[q - (h - p)])
          <6>1. /\ q + p \in h + 1 .. Total /\ q + p - h = q - (h - p) /\ q \in 1 .. Total'
            BY <1>4, <2>2, <2>3, <3>4, <4>1
          <6>2. QED
            BY <2>3, <3>4, <5>2, <6>1
        <5>5. QED
          BY <5>3, <5>4 DEF BodyAfter, Body
      <4>4. QED
        BY <3>2, <4>1, <4>2, <4>3 DEF Answered, IsHead
    <3>6. NetOf(k)'
      BY <1>2, <2>1, <2>5, <3>1, <3>5 DEF NetOf
    <3>7. QED
      BY <1>1, <1>2, <2>1, <3>6 DEF LeftFor
  <2>6. QED
    BY <1>0, <1>1, <2>4, <2>5 DEF NetOf
<1>5. QED
  BY <1>3, <1>4 DEF ReadHttpStatus, KidGoto

(* after parsing the header, which is that of its own answer,               *)
LEMMA HeaderLeaves ==
  ASSUME IInv, blanks = {}, NEW k \in Kids, ParseHeader(k)
  PROVE  LeftFor(k)'
<1>0. kid[k] = "header" /\ kid[k] \in Busy
  BY DEF ParseHeader, FindLength, Exit, KidGoto, Busy
<1>1. /\ stream \in Seq(Piece) /\ sending \in Seq(Piece) /\ NetOf(k)
      /\ up \/ (requests = <<>> /\ sending = <<>>)
      /\ kid \in [Kids -> KidPlace]
  BY <1>0, RelyOn
<1>2. UNCHANGED <<world, asked, requests, sending, up>> /\ len' = len
  BY DEF ParseHeader, world
<1>3. CASE ~up /\ stream' = <<>> /\ ~FindLength(k)
  <2>1. \/ kid' = [kid EXCEPT ![k] = "ended"]
        \/ kid' = [kid EXCEPT ![k] = "body"]
    BY <1>3 DEF ParseHeader, Exit, KidGoto
  <2>2. QED
    BY <1>0, <1>2, <1>3, <2>1, DryLeaves
<1>4. CASE FindLength(k)
  <2>1. PICK p \in 1 .. Len(stream) :
          HeaderEndsAt(p) /\ kid' = [kid EXCEPT ![k] = "body"] /\ stream' = Rest(p)
    BY <1>4 DEF FindLength, KidGoto
  <2>2. kid'[k] = "body" /\ Bodies(k)' = Bodies(k) /\ asked'[k] # None
    BY <1>0, <1>1, <1>2, <2>1, BodiesKept DEF NetOf
  <2>3. /\ Total \in Nat /\ Len(stream) \in Nat /\ Len(stream) <= Total
        /\ \A q \in 1 .. Len(stream) : Item(q) = stream[q]
    BY <1>1, Arrived
  <2>4. IsHead(stream[p]) /\ \A q \in 1 .. p - 1 : ~IsHead(stream[q])
    BY <2>1 DEF HeaderEndsAt, EndsHeader
  <2>5. PICK h \in 1 .. Total, b \in Bodies(k) : requests = <<>> /\ Answered(h, b)
    <3>1. ~NoHeads
      BY <2>3, <2>4 DEF NoHeads
    <3>2. QED
      BY <1>0, <1>1, <3>1 DEF NetOf, Waits, Quiet
  <2>6. h = p
    <3>1. IsHead(Item(h)) /\ \A q \in 1 .. h - 1 : ~IsHead(Item(q))
      BY <2>5 DEF Answered
    <3>2. ~(p < h)
      BY <2>3, <2>4, <3>1
    <3>3. ~(h < p)
      <4>1. SUFFICES ASSUME h < p PROVE FALSE
        OBVIOUS
      <4>2. h \in 1 .. p - 1 /\ h \in 1 .. Len(stream)
        BY <2>3, <4>1
      <4>3. QED
        BY <2>3, <2>4, <3>1, <4>2
    <3>4. QED
      BY <2>3, <3>2, <3>3
  <2>7. /\ Total' = Total - p /\ \A q \in 1 .. Total' : Item(q)' = Item(q + p)
    <3>1. p \in 0 .. Len(stream)
      BY <2>3
    <3>2. QED
      BY <1>1, <1>2, <2>1, <3>1, Shift
  <2>8. BodyAfter(0, b)'
    <3>1. Len(b) \in Nat
      BY <1>2, <2>2, BodiesType DEF IInv
    <3>2. Total <= p + Len(b) /\ \A q \in p + 1 .. Total : Item(q) = Body(b[q - p])
      BY <2>5, <2>6 DEF Answered, BodyAfter
    <3>3. Total' <= 0 + Len(b)
      BY <2>3, <2>7, <3>1, <3>2
    <3>4. ASSUME NEW q \in 0 + 1 .. Total' PROVE Item(q)' = Body(b[q - 0])
      <4>1. q + p \in p + 1 .. Total /\ q + p - p = q - 0 /\ q \in 1 .. Total'
        BY <2>3, <2>7
      <4>2. QED
        BY <2>7, <3>2, <4>1
    <3>5. QED
      BY <3>3, <3>4 DEF BodyAfter, Body
  <2>9. NetOf(k)'
    BY <1>2, <2>2, <2>5, <2>8 DEF NetOf
  <2>10. QED
    BY <1>1, <1>2, <2>2, <2>9 DEF LeftFor
<1>5. QED
  BY <1>3, <1>4 DEF ParseHeader

(* after receiving a piece of the body,                                     *)
LEMMA RecvLeaves ==
  ASSUME IInv, blanks = {}, NEW k \in Kids, Recv(k)
  PROVE  LeftFor(k)'
<1>0. kid[k] = "body" /\ kid[k] \in Busy
  BY DEF Recv, Busy
<1>1. /\ stream \in Seq(Piece) /\ sending \in Seq(Piece) /\ NetOf(k)
      /\ up \/ (requests = <<>> /\ sending = <<>>)
      /\ kid \in [Kids -> KidPlace]
      /\ data \in [Kids -> Seq(Piece)]
  BY <1>0, RelyOn
<1>2. UNCHANGED <<asked, requests, sending, up>> /\ len' = len
  BY DEF Recv, world
<1>3. /\ requests' = <<>> /\ Bodies(k)' = Bodies(k) /\ asked'[k] # None
  BY <1>0, <1>1, <1>2, BodiesKept DEF NetOf
<1>4. PICK b \in Bodies(k) : BodyAfter(0, b)
  BY <1>0, <1>1 DEF NetOf
<1>5. b \in Seq(Int) /\ Len(b) \in Nat
  BY <1>2, <1>3, BodiesType DEF IInv
<1>6. /\ Total \in Nat /\ Len(stream) \in Nat /\ Len(stream) <= Total /\ Total <= Len(b)
      /\ \A q \in 1 .. Len(stream) : Item(q) = stream[q] /\ stream[q] \in Piece
      /\ \A q \in 1 .. Total : Item(q) = Body(b[q]) /\ ~IsHead(Item(q)) /\ Item(q)[1] = "data"
  <2>1. /\ Total \in Nat /\ Len(stream) \in Nat /\ Len(stream) <= Total
        /\ \A q \in 1 .. Len(stream) : Item(q) = stream[q] /\ stream[q] \in Piece
    BY <1>1, Arrived
  <2>2. Total <= Len(b) /\ \A q \in 1 .. Total : Item(q) = Body(b[q])
    BY <1>4, <1>5 DEF BodyAfter
  <2>3. QED
    BY <2>1, <2>2, BodyIsNoHead
<1>7. CASE kid' = [kid EXCEPT ![k] = "ended"] /\ UNCHANGED stream
  <2>1. Quiet'
    BY <1>2, <1>3, <1>6, <1>7 DEF Quiet, NoHeads, Total, Item, IsHead
  <2>2. QED
    BY <1>1, <1>2, <1>7, <2>1, Ends
<1>8. ASSUME clen[k] >= 0, KidGoto(k, "body", "push"),
             NEW taken, taken = IF Len(stream) < clen[k] THEN Len(stream) ELSE clen[k],
             data' = [data EXCEPT ![k] = SubSeq(stream, 1, taken)],
             NEW r \in IF taken = 0 THEN {<<>>} ELSE AfterCut(stream[taken]),
             stream' = r \o Rest(taken)
      PROVE  LeftFor(k)'
  <2>1. taken \in 0 .. Len(stream)
    BY <1>6, <1>8 DEF IInv, TypeOK
  <2>2. kid'[k] = "push" /\ data'[k] = SubSeq(stream, 1, taken)
    BY <1>1, <1>8 DEF KidGoto
  <2>3. r = <<>>
    <3>1. CASE taken = 0
      BY <1>8, <3>1
    <3>2. CASE taken # 0
      <4>1. taken \in 1 .. Len(stream)
        BY <2>1, <3>2
      <4>2. taken \in 1 .. Total
        BY <1>6, <4>1
      <4>3. stream[taken] \in Piece /\ stream[taken][1] = "data"
        BY <1>6, <4>1, <4>2
      <4>4. QED
        BY <1>8, <3>2, <4>3, PieceLeft
    <3>3. QED
      BY <3>1, <3>2
  <2>4. Total' = Total - taken /\ \A q \in 1 .. Total' : Item(q)' = Item(q + taken)
    <3>1. Rest(taken) \in Seq(Piece)
      BY <1>1, <2>1 DEF Rest
    <3>2. stream' = Rest(taken)
      BY <1>8, <2>3, <3>1, ConcatEmptySeq
    <3>3. QED
      BY <1>1, <1>2, <2>1, <3>2, Shift
  <2>5. NoHeads'
    <3>1. ASSUME NEW q \in 1 .. Total' PROVE ~IsHead(Item(q)')
      <4>1. q + taken \in 1 .. Total
        BY <1>6, <2>1, <2>4
      <4>2. QED
        BY <1>6, <2>4, <4>1
    <3>2. QED
      BY <3>1 DEF NoHeads, IsHead
  <2>6. Begins(data'[k], Bytes(b))
    <3>1. /\ Bytes(b) \in Seq(Piece) /\ Len(Bytes(b)) = Len(b)
          /\ \A q \in 1 .. Len(b) : Bytes(b)[q] = Body(b[q])
      BY <1>5, BytesItems
    <3>2. taken \in Nat /\ taken <= Len(b) /\ taken <= Len(stream)
      BY <1>5, <1>6, <2>1
    <3>3. /\ SubSeq(stream, 1, taken) \in Seq(Piece) /\ Len(SubSeq(stream, 1, taken)) = taken
          /\ \A q \in 1 .. taken : SubSeq(stream, 1, taken)[q] = stream[q]
      BY <1>1, <3>2
    <3>4. /\ SubSeq(Bytes(b), 1, taken) \in Seq(Piece) /\ Len(SubSeq(Bytes(b), 1, taken)) = taken
          /\ \A q \in 1 .. taken : SubSeq(Bytes(b), 1, taken)[q] = Bytes(b)[q]
      BY <3>1, <3>2
    <3>5. ASSUME NEW q \in 1 .. taken PROVE stream[q] = Bytes(b)[q]
      <4>1. q \in 1 .. Len(stream) /\ q \in 1 .. Total /\ q \in 1 .. Len(b)
        BY <1>5, <1>6, <3>2
      <4>2. QED
        BY <1>6, <3>1, <4>1
    <3>6. SubSeq(stream, 1, taken) = SubSeq(Bytes(b), 1, taken)
      BY <3>3, <3>4, <3>5, SeqEqual
    <3>7. QED
      BY <2>2, <3>1, <3>2, <3>3, <3>6 DEF Begins
  <2>7. NetOf(k)'
    <3>1. \E c \in Bodies(k)' : Begins(data'[k], Bytes(c))
      BY <1>3, <2>6
    <3>2. Quiet'
      BY <1>3, <2>5 DEF Quiet
    <3>3. QED
      BY <1>3, <2>2, <3>1, <3>2 DEF NetOf, Begins, Bytes, Body
  <2>8. QED
    BY <1>1, <1>2, <2>2, <2>7 DEF LeftFor
<1>9. QED
  BY <1>7, <1>8 DEF Recv, Exit, KidGoto

(* and after pushing what it received.                                      *)
LEMMA PushLeaves ==
  ASSUME IInv, blanks = {}, NEW k \in Kids, Push(k)
  PROVE  LeftFor(k)'
<1>1. kid[k] = "push" /\ kid[k] \in Busy /\ kid' = [kid EXCEPT ![k] = "ended"] /\ UNCHANGED netVars
  BY DEF Push, Exit, KidGoto, Busy
<1>2. /\ Quiet /\ kid \in [Kids -> KidPlace]
      /\ up \/ (requests = <<>> /\ sending = <<>>)
  BY <1>1, RelyOn DEF NetOf
<1>3. Quiet'
  BY <1>1, <1>2 DEF Quiet, NoHeads, Total, Item, IsHead, netVars
<1>4. QED
  BY <1>1, <1>2, <1>3, Ends DEF netVars
-----------------------------------------------------------------------------
(* What is left of the queue when one message is taken.                     *)
LEMMA QueueWithout ==
  ASSUME NEW M, queue \in Seq(M), NEW p \in 1 .. Len(queue)
  PROVE  /\ Without(p) \in Seq(M) /\ Len(Without(p)) = Len(queue) - 1
         /\ \A q \in 1 .. Len(queue) - 1 :
              Without(p)[q] = queue[IF q < p THEN q ELSE q + 1]
<1>1. Len(queue) - 1 \in Nat
  OBVIOUS
<1>2. \A q \in 1 .. Len(queue) - 1 : (IF q < p THEN queue[q] ELSE queue[q + 1]) \in M
  OBVIOUS
<1>3. QED
  BY <1>1, <1>2 DEF Without

(* The messages of type 1 can be counted.                                   *)
LEMMA OnesFinite ==
  ASSUME NEW M, queue \in Seq(M)
  PROVE  IsFiniteSet(Ones) /\ Cardinality(Ones) \in Nat
<1>1. IsFiniteSet(1 .. Len(queue)) /\ Ones \in SUBSET (1 .. Len(queue))
  BY FS_Interval DEF Ones
<1>2. QED
  BY <1>1, FS_Subset, FS_CardinalityType

(* A message more is one more of them, if it is of type 1,                  *)
LEMMA OnesAppend ==
  ASSUME NEW M, queue \in Seq(M), NEW m \in M, queue' = Append(queue, m)
  PROVE  /\ Cardinality(Ones') <= Cardinality(Ones) + 1
         /\ ~OfTypeOne(m) => Cardinality(Ones') = Cardinality(Ones)
<1>1. /\ Len(queue) \in Nat /\ Len(queue') = Len(queue) + 1 /\ queue'[Len(queue) + 1] = m
      /\ \A p \in 1 .. Len(queue) : queue'[p] = queue[p]
  OBVIOUS
<1>2. Ones' \subseteq Ones \cup {Len(queue) + 1}
  BY <1>1 DEF Ones, OfTypeOne
<1>3. ASSUME ~OfTypeOne(m) PROVE Ones' = Ones
  BY <1>1, <1>3 DEF Ones, OfTypeOne
<1>4. /\ IsFiniteSet(Ones) /\ Cardinality(Ones) \in Nat
  BY OnesFinite
<1>5. /\ IsFiniteSet(Ones \cup {Len(queue) + 1})
      /\ Cardinality(Ones \cup {Len(queue) + 1}) <= Cardinality(Ones) + 1
  <2>1. /\ IsFiniteSet(Ones \cup {Len(queue) + 1})
        /\ Cardinality(Ones \cup {Len(queue) + 1}) =
             IF Len(queue) + 1 \in Ones THEN Cardinality(Ones) ELSE Cardinality(Ones) + 1
    BY <1>4, FS_AddElement, Zenon
  <2>2. QED
    BY <1>4, <2>1
<1>6. /\ Cardinality(Ones') <= Cardinality(Ones \cup {Len(queue) + 1})
      /\ Cardinality(Ones') \in Nat /\ Cardinality(Ones \cup {Len(queue) + 1}) \in Nat
  BY <1>2, <1>5, FS_Subset, FS_CardinalityType
<1>7. Cardinality(Ones') <= Cardinality(Ones) + 1
  BY <1>4, <1>5, <1>6
<1>8. QED
  BY <1>3, <1>7

(* and one of type 1 that was taken is one less.                            *)
LEMMA OnesWithout ==
  ASSUME NEW M, queue \in Seq(M), NEW p \in Ones, queue' = Without(p)
  PROVE  Cardinality(Ones') <= Cardinality(Ones) - 1
<1>1. p \in 1 .. Len(queue) /\ Len(queue) \in Nat
  BY DEF Ones
<1>2. /\ queue' \in Seq(M) /\ Len(queue') = Len(queue) - 1
      /\ \A q \in 1 .. Len(queue) - 1 : queue'[q] = queue[IF q < p THEN q ELSE q + 1]
  BY <1>1, QueueWithout
<1> DEFINE f == [q \in Ones' |-> IF q < p THEN q ELSE q + 1]
<1>3. \A q \in Ones' : q \in 1 .. Len(queue) - 1 /\ f[q] \in Ones \ {p}
  <2>1. SUFFICES ASSUME NEW q \in Ones' PROVE q \in 1 .. Len(queue) - 1 /\ f[q] \in Ones \ {p}
    OBVIOUS
  <2>2. q \in 1 .. Len(queue) - 1 /\ OfTypeOne(queue'[q])
    BY <1>2 DEF Ones, OfTypeOne
  <2>3. f[q] \in 1 .. Len(queue) /\ f[q] # p /\ f[q] = IF q < p THEN q ELSE q + 1
    BY <1>1, <2>2
  <2>4. queue'[q] = queue[f[q]]
    BY <1>2, <2>2, <2>3
  <2>5. QED
    BY <2>2, <2>3, <2>4 DEF Ones
<1>4. \A a, b \in Ones' : f[a] = f[b] => a = b
  <2>1. SUFFICES ASSUME NEW a \in Ones', NEW b \in Ones', f[a] = f[b] PROVE a = b
    OBVIOUS
  <2>2. a \in Int /\ b \in Int /\ p \in Int
    BY <1>1, <1>3
  <2>3. QED
    BY <2>1, <2>2
<1>5. f \in Injection(Ones', Ones \ {p})
  <2>1. f \in [Ones' -> Ones \ {p}]
    BY <1>3
  <2> HIDE DEF f
  <2>2. QED
    BY <1>4, <2>1 DEF Injection, IsInjective
<1>6. IsFiniteSet(Ones) /\ Cardinality(Ones) \in Nat
  BY OnesFinite
<1>7. IsFiniteSet(Ones \ {p}) /\ Cardinality(Ones \ {p}) = Cardinality(Ones) - 1
  BY <1>6, FS_RemoveElement
<1>8. QED
  BY <1>5, <1>7, FS_Injection
-----------------------------------------------------------------------------
(* The types after the step of a child.                                     *)
LEMMA KidTypes ==
  ASSUME IInv, NEW k \in Kids, KidStep(k)
  PROVE  TypeOK'
<1>1. /\ TypeOK /\ UNCHANGED <<n, len, lineEnds, blanks, old, main, i, range, count, segment>>
      /\ Kids' = Kids /\ Message' = Message /\ Named \subseteq Int
  BY KidIsSole, WebAssumption DEF IInv, Kids, Message, world
<1>2. kid' \in [Kids -> KidPlace]
  BY <1>1, KidIsSole, Places, ZenonT(40) DEF TypeOK
<1>3. ASSUME NEW p \in 1 .. Len(stream)
      PROVE  /\ stream[p] \in Piece /\ stream[p][2] \in Int /\ Rest(p) \in Seq(Piece)
             /\ \A r \in AfterLine(stream[p]) \cup AfterCut(stream[p]) : r \o Rest(p) \in Seq(Piece)
  <2>1. stream[p] \in Piece /\ Rest(p) \in Seq(Piece)
    BY <1>1, <1>3 DEF TypeOK, Rest
  <2>2. ASSUME NEW r \in AfterLine(stream[p]) \cup AfterCut(stream[p])
        PROVE  r \o Rest(p) \in Seq(Piece)
    <3>1. r \in Seq(Piece)
      BY <2>1, PieceLeft
    <3>2. QED
      BY <2>1, <3>1, ConcatProperties
  <2>3. QED
    BY <2>1, <2>2, PieceLeft
<1>4. stream' \in Seq(Piece)
  <2>1. CASE ReadHttpStatus(k)
    <3>1. \/ stream' = <<>>
          \/ \E p \in 1 .. Len(stream) : \E r \in AfterLine(stream[p]) : stream' = r \o Rest(p)
      BY <2>1, SMTT(30) DEF ReadHttpStatus
    <3>2. CASE stream' = <<>>
      BY <3>2
    <3>3. ASSUME NEW p \in 1 .. Len(stream), NEW r \in AfterLine(stream[p]), stream' = r \o Rest(p)
          PROVE  stream' \in Seq(Piece)
      BY <1>3, <3>3
    <3>4. QED
      BY <3>1, <3>2, <3>3
  <2>2. CASE ParseHeader(k)
    <3>1. stream' = <<>> \/ \E p \in 1 .. Len(stream) : stream' = Rest(p)
      BY <2>2 DEF ParseHeader, FindLength
    <3>2. CASE stream' = <<>>
      BY <3>2
    <3>3. ASSUME NEW p \in 1 .. Len(stream), stream' = Rest(p) PROVE stream' \in Seq(Piece)
      BY <1>3, <3>3
    <3>4. QED
      BY <3>1, <3>2, <3>3
  <2>3. CASE Recv(k)
    <3>1. CASE stream' = stream
      BY <1>1, <3>1 DEF TypeOK
    <3>2. ASSUME NEW taken \in 0 .. Len(stream),
                 NEW r \in IF taken = 0 THEN {<<>>} ELSE AfterCut(stream[taken]),
                 stream' = r \o Rest(taken)
          PROVE  stream' \in Seq(Piece)
      <4>1. CASE taken = 0
        BY <1>1, <3>2, <4>1 DEF TypeOK, Rest
      <4>2. CASE taken # 0
        <5>1. taken \in 1 .. Len(stream) /\ r \in AfterCut(stream[taken])
          BY <3>2, <4>2
        <5>2. QED
          BY <1>3, <3>2, <5>1
      <4>3. QED
        BY <4>1, <4>2
    <3>3. (IF Len(stream) < clen[k] THEN Len(stream) ELSE clen[k]) \in 0 .. Len(stream) \/ clen[k] < 0
      BY <1>1 DEF TypeOK
    <3>4. clen[k] < 0 => ~(clen[k] >= 0)
      BY <1>1 DEF TypeOK
    <3>5. QED
      BY <2>3, <3>1, <3>2, <3>3, <3>4 DEF Recv
  <2>4. CASE Send(k) \/ Push(k)
    BY <1>1, <2>4 DEF Send, Push, netVars, TypeOK
  <2>5. QED
    BY <2>1, <2>2, <2>3, <2>4 DEF KidStep
<1>5. sending' \in Seq(Piece) /\ up' \in BOOLEAN
  BY <1>1 DEF TypeOK, KidStep, Send, ReadHttpStatus, ParseHeader, Recv, Push, netVars
<1>6. status' \in [Kids -> Int] /\ clen' \in [Kids -> Int] /\ data' \in [Kids -> Seq(Piece)]
  <2>1. ASSUME NEW f, Exit(k, f)
        PROVE status' \in [Kids -> Int] /\ clen' \in [Kids -> Int] /\ data' \in [Kids -> Seq(Piece)]
    BY <1>1, <2>1 DEF Exit, TypeOK
  <2>2. CASE Send(k)
    BY <1>1, <2>1, <2>2 DEF Send, TypeOK
  <2>3. CASE ReadHttpStatus(k)
    <3>2. CASE UNCHANGED <<status, clen, data>>
      BY <1>1, <3>2 DEF TypeOK
    <3>3. \A p \in 1 .. Len(stream) :
            \A s \in IF p = 1 /\ stream[1][1] = "status" THEN {stream[1][2]} ELSE {0, 206} : s \in Int
      BY <1>3
    <3>4. \/ Exit(k, "status") \/ UNCHANGED <<status, clen, data>>
          \/ \E p \in 1 .. Len(stream) :
                \E s \in IF p = 1 /\ stream[1][1] = "status" THEN {stream[1][2]} ELSE {0, 206} :
                  status' = [status EXCEPT ![k] = s] /\ UNCHANGED <<clen, data>>
      BY <2>3 DEF ReadHttpStatus
    <3>5. ASSUME NEW p \in 1 .. Len(stream),
                 NEW s \in IF p = 1 /\ stream[1][1] = "status" THEN {stream[1][2]} ELSE {0, 206},
                 status' = [status EXCEPT ![k] = s] /\ UNCHANGED <<clen, data>>
          PROVE  status' \in [Kids -> Int] /\ clen' \in [Kids -> Int] /\ data' \in [Kids -> Seq(Piece)]
      <4>1. s \in Int
        BY <3>3
      <4>2. QED
        BY <1>1, <3>5, <4>1 DEF TypeOK
    <3>6. QED
      BY <2>1, <3>2, <3>4, <3>5
  <2>4. CASE ParseHeader(k)
    <3>1. ASSUME NEW c \in Int, clen' = [clen EXCEPT ![k] = c], UNCHANGED <<status, data>>
          PROVE  status' \in [Kids -> Int] /\ clen' \in [Kids -> Int] /\ data' \in [Kids -> Seq(Piece)]
      BY <1>1, <3>1 DEF TypeOK
    <3>2. CASE UNCHANGED <<status, clen, data>>
      BY <1>1, <3>2 DEF TypeOK
    <3>3. \A p \in 1 .. Len(stream) : Found(p) \subseteq Int
      <4>1. SUFFICES ASSUME NEW p \in 1 .. Len(stream) PROVE Found(p) \subseteq Int
        OBVIOUS
      <4>2. stream[p][2] \in Int /\ NoLength \in Int /\ Named \subseteq Int
        BY <1>1, <1>3 DEF NoLength
      <4>3. QED
        BY <4>2 DEF Found
    <3>4. \/ Exit(k, "header") \/ UNCHANGED <<status, clen, data>>
          \/ \E p \in 1 .. Len(stream) : \E c \in Found(p) :
                clen' = [clen EXCEPT ![k] = c] /\ UNCHANGED <<status, data>>
      BY <2>4 DEF ParseHeader, FindLength
    <3>5. QED
      BY <2>1, <3>1, <3>2, <3>3, <3>4
  <2>5. CASE Recv(k)
    <3>1. ASSUME NEW t \in Int, data' = [data EXCEPT ![k] = SubSeq(stream, 1, t)], t <= Len(stream),
                 UNCHANGED <<status, clen>>
          PROVE  status' \in [Kids -> Int] /\ clen' \in [Kids -> Int] /\ data' \in [Kids -> Seq(Piece)]
      <4>1. SubSeq(stream, 1, t) \in Seq(Piece)
        BY <1>1, <3>1 DEF TypeOK
      <4>2. QED
        BY <1>1, <3>1, <4>1 DEF TypeOK
    <3>2. /\ (IF Len(stream) < clen[k] THEN Len(stream) ELSE clen[k]) \in Int
          /\ (IF Len(stream) < clen[k] THEN Len(stream) ELSE clen[k]) <= Len(stream)
      BY <1>1 DEF TypeOK
    <3>3. QED
      BY <2>1, <2>5, <3>1, <3>2 DEF Recv
  <2>6. CASE Push(k)
    BY <2>1, <2>6 DEF Push
  <2>7. QED
    BY <2>2, <2>3, <2>4, <2>5, <2>6 DEF KidStep
<1>7. queue' \in Seq(Message)
  <2>1. CASE Push(k)
    <3>1. clen[k] \in Nat /\ status[k] \in Int
      BY <1>1, <2>1 DEF Push, Exit, KidGoto, IInv, SoleKid, TypeOK
    <3>2. [msg_type |-> k, clen |-> clen[k], status |-> status[k]] \in Message
      BY <3>1 DEF Message
    <3>3. QED
      BY <1>1, <2>1, <3>2 DEF Push, TypeOK
  <2>2. CASE ~Push(k)
    BY <1>1, <2>2 DEF KidStep, Send, ReadHttpStatus, ParseHeader, Recv, TypeOK
  <2>3. QED
    BY <2>1, <2>2
<1>8. requests' \in Seq(ByteRange) /\ \A j \in Kids : asked'[j] # None => asked'[j] \in ByteRange
  <2>1. RangeOf(k) \in ByteRange
    <3>1. n \in Nat /\ range \in Int
      BY DEF IInv, TypeOK, AskedInv
    <3>2. QED
      BY <3>1, RangeType
  <2>2. UNCHANGED asked \/ asked' = [asked EXCEPT ![k] = RangeOf(k)]
    BY DEF KidStep, Send, ReadHttpStatus, ParseHeader, Recv, Push
  <2>3. asked = [j \in Kids |-> asked[j]]
    BY DEF IInv, AskedInv
  <2>4. UNCHANGED requests \/ requests' = Append(requests, RangeOf(k))
    BY DEF KidStep, Send, ReadHttpStatus, ParseHeader, Recv, Push, netVars
  <2>5. requests' \in Seq(ByteRange)
    <3>1. requests \in Seq(ByteRange)
      BY <1>1 DEF TypeOK
    <3>2. QED
      BY <2>1, <2>4, <3>1, AppendProperties
  <2>6. QED
    BY <1>1, <2>1, <2>2, <2>3, <2>5 DEF TypeOK
<1>9. QED
  BY <1>1, <1>2, <1>4, <1>5, <1>6, <1>7, <1>8 DEF TypeOK

(* A child's step leaves one child at most on the network, and that in      *)
(* order.                                                                   *)
LEMMA KidNet ==
  ASSUME IInv, NEW k \in Kids, KidStep(k)
  PROVE  SoleKid' /\ (blanks' = {} => NetInv')
<1>1. PICK to \in Busy \cup {"ended"} : kid' = [kid EXCEPT ![k] = to]
  BY KidIsSole
<1>2. /\ Kids' = Kids /\ kid \in [Kids -> KidPlace] /\ TurnOf(k)' /\ blanks' = blanks
      /\ clen \in [Kids -> Int] /\ \A j \in Kids : kid[j] \in Busy => j = k
  BY KidIsSole DEF IInv, TypeOK, Kids, TurnOf, world
<1>3. kid'[k] = to /\ \A j \in Kids : j # k => kid'[j] \notin Busy
  BY <1>1, <1>2
<1>4. \A j \in Kids : kid'[j] \in Busy => TurnOf(j)'
  BY <1>2, <1>3
<1>5. \A j \in Kids : kid'[j] = "push" => clen'[j] >= 0
  <2>1. kid'[k] = "push" => clen'[k] >= 0
    <3>1. SUFFICES ASSUME kid'[k] = "push" PROVE clen'[k] >= 0
      OBVIOUS
    <3>2. Recv(k) /\ clen[k] >= 0 /\ clen' = clen
      BY <1>2, <3>1 DEF KidStep, Send, ReadHttpStatus, ParseHeader, FindLength, Recv, Push, Exit, KidGoto
    <3>3. QED
      BY <3>2
  <2>2. QED
    BY <1>3, <2>1 DEF Busy
<1>6. ASSUME blanks' = {} PROVE NetInv'
  <2>1. LeftFor(k)'
    BY <1>2, <1>6, SendLeaves, StatusLeaves, HeaderLeaves, RecvLeaves, PushLeaves DEF KidStep
  <2>2. \A j \in Kids : kid'[j] \in Busy => NetOf(j)'
    BY <1>3, <2>1 DEF LeftFor, Busy
  <2>3. (\A j \in Kids : kid'[j] \notin Busy) => Quiet'
    BY <1>1, <1>3, <2>1 DEF LeftFor
  <2>4. QED
    BY <1>2, <2>1, <2>2, <2>3 DEF NetInv, LeftFor, Busy
<1>7. QED
  BY <1>2, <1>4, <1>5, <1>6 DEF SoleKid, Busy

(* A child's step keeps what is said of the first range.                    *)
LEMMA KidFirst ==
  ASSUME IInv, NEW k \in Kids, KidStep(k)
  PROVE  FirstInv'
<1>1. PICK to \in Busy \cup {"ended"} : kid' = [kid EXCEPT ![k] = to]
  BY KidIsSole
<1>2. /\ kid[k] \in Busy /\ kid[k] # "ended" /\ kid \in [Kids -> KidPlace] /\ 1 \in Kids
      /\ UNCHANGED <<n, old, main, i, range, count, segment>> /\ Kids' = Kids
      /\ FirstInv /\ TurnOf(k) /\ queue \in Seq(Message) /\ n \in Nat /\ count \in Nat /\ old \in Nat
  <2>1. /\ kid[k] \in Busy /\ kid[k] # "ended" /\ TurnOf(k)
        /\ UNCHANGED <<n, old, main, i, range, count, segment>>
    BY KidIsSole, Places DEF world
  <2>2. /\ kid \in [Kids -> KidPlace] /\ FirstInv /\ queue \in Seq(Message) /\ n \in Nat \ {0}
        /\ count \in 0 .. n /\ old \in Nat
    BY DEF IInv, TypeOK, AskedInv
  <2>3. 1 \in Kids /\ Kids' = Kids /\ count \in Nat
    BY <2>1, <2>2 DEF Kids
  <2>4. QED
    BY <2>1, <2>2, <2>3
<1>3. /\ main' \in {"head", "fork", "wait"} => i' <= n'
      /\ i' = 1 /\ main' \in {"head", "fork"} => kid'[1] = "none"
      /\ main' = "saved" => count' = 0
      /\ \A j \in Kids' : segment'[j] # None => j = 1 /\ segment'[j] = 0
  BY <1>1, <1>2 DEF FirstInv, TurnOf
<1>4. Cardinality(Ones) \in Nat /\ Pending' \in {0, 1}
  BY <1>2, OnesFinite DEF Pending
<1>5. (n' - count') + Cardinality(Ones') + Pending' <= 1 + old'
  <2>1. CASE ~Push(k)
    <3>1. queue' = queue
      BY <2>1 DEF KidStep, Send, ReadHttpStatus, ParseHeader, Recv
    <3>2. Ones' = Ones
      BY <3>1 DEF Ones, OfTypeOne
    <3>3. Pending' <= Pending /\ Pending \in {0, 1}
      BY <1>1, <1>2 DEF Pending
    <3>4. QED
      BY <1>2, <1>4, <3>2, <3>3 DEF FirstInv
  <2>2. CASE Push(k)
    <3> DEFINE m == [msg_type |-> k, clen |-> clen[k], status |-> status[k]]
    <3>1. queue' = Append(queue, m) /\ m.msg_type = k /\ kid'[k] = "ended" /\ m \in Message
      <4>1. clen[k] \in Nat /\ status[k] \in Int
        BY <2>2 DEF Push, Exit, KidGoto, IInv, SoleKid, TypeOK
      <4>2. QED
        BY <1>2, <2>2, <4>1 DEF Push, Exit, KidGoto, Message
    <3> HIDE DEF m
    <3>2. /\ Cardinality(Ones') <= Cardinality(Ones) + 1 /\ Cardinality(Ones') \in Nat
          /\ ~OfTypeOne(m) => Cardinality(Ones') = Cardinality(Ones)
      <4>1. queue' \in Seq(Message)
        BY <1>2, <3>1
      <4>2. IsFiniteSet(Ones')
        <5>1. IsFiniteSet(1 .. Len(queue')) /\ Ones' \in SUBSET (1 .. Len(queue'))
          BY <4>1, FS_Interval DEF Ones
        <5>2. QED
          BY <5>1, FS_Subset
      <4>3. QED
        BY <1>2, <3>1, <4>2, OnesAppend, FS_CardinalityType
    <3>3. CASE k = 1
      <4>1. Pending' = 0 /\ Pending = 1
        BY <1>2, <3>1, <3>3 DEF Pending
      <4>2. QED
        BY <1>2, <1>4, <3>2, <4>1 DEF FirstInv
    <3>4. CASE k # 1
      <4>1. kid'[1] = kid[1] /\ ~OfTypeOne(m)
        BY <1>1, <1>2, <3>1, <3>4 DEF OfTypeOne
      <4>2. Pending' = Pending /\ Pending \in {0, 1}
        BY <4>1 DEF Pending
      <4>3. QED
        BY <1>2, <1>4, <3>2, <4>1, <4>2 DEF FirstInv
    <3>5. QED
      BY <3>3, <3>4
  <2>3. QED
    BY <2>1, <2>2
<1>6. QED
  BY <1>3, <1>5 DEF FirstInv
-----------------------------------------------------------------------------
(* What is on the connection, or has left it, stays as it is when pieces     *)
(* arrive and when the connection is closed.                                *)
LEMMA ItemsKept ==
  ASSUME stream \in Seq(Piece), sending \in Seq(Piece),
         \/ /\ sending # <<>>
            /\ stream' = Append(stream, sending[1]) /\ sending' = Tail(sending)
         \/ stream' = stream /\ sending' = <<>>
  PROVE  /\ stream' \in Seq(Piece) /\ sending' \in Seq(Piece)
         /\ Total' \in Nat /\ Total \in Nat /\ Total' <= Total
         /\ sending # <<>> /\ sending' = Tail(sending) /\ stream' # stream => Total' = Total
         /\ \A p \in 1 .. Total' : Item(p)' = Item(p)
<1>1. CASE /\ sending # <<>>
           /\ stream' = Append(stream, sending[1]) /\ sending' = Tail(sending)
  <2>1. /\ stream' \in Seq(Piece) /\ Len(stream') = Len(stream) + 1
        /\ sending' \in Seq(Piece) /\ Len(sending') = Len(sending) - 1
    BY <1>1
  <2>2. Total' = Total /\ Total \in Nat
    BY <2>1 DEF Total
  <2>3. ASSUME NEW p \in 1 .. Total' PROVE Item(p)' = Item(p)
    <3>1. CASE p <= Len(stream)
      BY <1>1, <2>1, <2>3, <3>1 DEF Item
    <3>2. CASE p = Len(stream) + 1
      BY <1>1, <2>1, <3>2 DEF Item
    <3>3. CASE p > Len(stream) + 1
      <4>1. p - Len(stream') \in 1 .. Len(sending) - 1
        BY <2>1, <3>3 DEF Total
      <4>2. Tail(sending)[p - Len(stream')] = sending[p - Len(stream') + 1]
        BY <1>1, <4>1
      <4>3. p - Len(stream') + 1 = p - Len(stream)
        BY <2>1
      <4>4. ~(p <= Len(stream)) /\ ~(p <= Len(stream'))
        BY <2>1, <2>2, <2>3, <3>3
      <4>5. QED
        BY <1>1, <4>2, <4>3, <4>4 DEF Item
    <3>4. QED
      BY <2>1, <3>1, <3>2, <3>3 DEF Total
  <2>4. QED
    BY <2>1, <2>2, <2>3
<1>2. CASE stream' = stream /\ sending' = <<>>
  BY <1>2 DEF Total, Item
<1>3. QED
  BY <1>1, <1>2

(* Pieces that arrive change nothing of what a child will find; when the     *)
(* connection is closed it finds less of it, or nothing.                    *)
LEMMA ArriveNet ==
  ASSUME IInv, blanks = {}, Arrive \/ Close
  PROVE  NetInv'
<1>1. /\ stream \in Seq(Piece) /\ sending \in Seq(Piece)
      /\ UNCHANGED <<n, len, kid, data, asked>> /\ Kids' = Kids
      /\ up
      /\ \/ up' /\ requests' = requests
         \/ ~up' /\ requests' = <<>> /\ sending' = <<>>
      /\ up' => sending # <<>> /\ stream' = Append(stream, sending[1]) /\ sending' = Tail(sending)
      /\ \/ sending # <<>> /\ stream' = Append(stream, sending[1]) /\ sending' = Tail(sending)
         \/ stream' = stream /\ sending' = <<>>
  BY DEF Arrive, Close, IInv, TypeOK, Kids, kidVars, world
<1>2. /\ stream' \in Seq(Piece) /\ sending' \in Seq(Piece)
      /\ Total' \in Nat /\ Total \in Nat /\ Total' <= Total
      /\ \A p \in 1 .. Total' : Item(p)' = Item(p)
  BY <1>1, ItemsKept
<1>3. NoHeads => NoHeads'
  BY <1>2 DEF NoHeads, IsHead
<1>4. Quiet => Quiet'
  BY <1>1, <1>3 DEF Quiet
<1>5. \A h \in Nat : \A b : BodyAfter(h, b) /\ Len(b) \in Nat => BodyAfter(h, b)'
  <2>1. SUFFICES ASSUME NEW h \in Nat, NEW b, BodyAfter(h, b), Len(b) \in Nat
                 PROVE  BodyAfter(h, b)'
    OBVIOUS
  <2>2. Total' <= h + Len(b)
    BY <1>2, <2>1 DEF BodyAfter
  <2>3. ASSUME NEW p \in h + 1 .. Total' PROVE Item(p)' = Body(b[p - h])
    <3>1. p \in 1 .. Total' /\ p \in h + 1 .. Total
      BY <1>2, <2>1
    <3>2. QED
      BY <1>2, <2>1, <3>1 DEF BodyAfter
  <2>4. QED
    BY <2>2, <2>3 DEF BodyAfter, Body
<1>6. ASSUME NEW h, NEW b, Answered(h, b), Len(b) \in Nat
      PROVE  IF h <= Total' THEN Answered(h, b)' /\ (StatusBefore(h) => StatusBefore(h)')
             ELSE NoHeads' /\ ~up'
  <2>1. /\ h \in 1 .. Total /\ IsHead(Item(h)) /\ (\A p \in 1 .. h - 1 : ~IsHead(Item(p)))
        /\ BodyAfter(h, b)
    BY <1>6 DEF Answered
  <2>2. CASE h <= Total'
    <3>1. h \in 1 .. Total' /\ h \in Nat /\ \A p \in 1 .. h - 1 : p \in 1 .. Total'
      BY <1>2, <2>1, <2>2
    <3>2. BodyAfter(h, b)'
      BY <1>5, <1>6, <2>1, <3>1
    <3>3. /\ IsHead(Item(h)') /\ \A p \in 1 .. h - 1 : ~IsHead(Item(p)')
      BY <1>2, <2>1, <3>1
    <3>4. StatusBefore(h) => StatusBefore(h)'
      <4>1. SUFFICES ASSUME h > 1, Item(h - 1)[1] = "status" PROVE Item(h - 1)'[1] = "status"
        BY DEF StatusBefore
      <4>2. h - 1 \in 1 .. Total'
        BY <1>2, <3>1, <4>1
      <4>3. QED
        BY <1>2, <4>1, <4>2
    <3>5. QED
      BY <2>2, <3>1, <3>2, <3>3, <3>4 DEF Answered, IsHead
  <2>3. CASE ~(h <= Total')
    <3>1. \A p \in 1 .. Total' : p \in 1 .. h - 1
      BY <1>2, <2>1, <2>3
    <3>2. NoHeads'
      BY <1>2, <2>1, <3>1 DEF NoHeads, IsHead
    <3>3. ~up'
      <4>1. SUFFICES ASSUME up' PROVE FALSE
        OBVIOUS
      <4>2. Total' = Total
        <5>1. /\ Len(stream') = Len(stream) + 1 /\ Len(stream) \in Nat
              /\ Len(sending') = Len(sending) - 1 /\ Len(sending) \in Nat
          BY <1>1, <4>1
        <5>2. QED
          BY <5>1 DEF Total
      <4>3. QED
        BY <2>1, <2>3, <4>2
    <3>4. QED
      BY <2>3, <3>2, <3>3
  <2>4. QED
    BY <2>2, <2>3
<1>7. ASSUME NEW k \in Kids, kid[k] \in Busy PROVE NetOf(k)'
  <2>1. NetOf(k) /\ Bodies(k)' = Bodies(k)
    BY <1>1, <1>7, BodiesKept DEF IInv, NetInv
  <2>2. kid[k] # "send" => \A b \in Bodies(k) : Len(b) \in Nat
    BY <2>1, BodiesType DEF IInv, NetOf
  <2>3. kid[k] # "send" => asked'[k] # None
    BY <1>1, <2>1 DEF NetOf
  <2>4. Waits(k) => Waits(k)'
    BY <1>1, <1>3, <1>4 DEF Waits, Quiet
  <2>5. ASSUME NEW h \in 1 .. Total, NEW b \in Bodies(k), Answered(h, b), requests = <<>>,
               kid[k] # "send"
        PROVE  \/ Waits(k)'
               \/ requests' = <<>> /\ h \in 1 .. Total' /\ Answered(h, b)'
                  /\ (StatusBefore(h) => StatusBefore(h)')
    <3>1. CASE h <= Total'
      <4>1. h \in 1 .. Total'
        BY <1>2, <3>1
      <4>2. QED
        BY <1>1, <1>6, <2>2, <2>5, <3>1, <4>1
    <3>2. CASE ~(h <= Total')
      BY <1>1, <1>6, <2>2, <2>5, <3>2 DEF Waits, Quiet
    <3>3. QED
      BY <3>1, <3>2
  <2>6. kid[k] = "status" =>
          \/ Waits(k)'
          \/ /\ requests' = <<>>
             /\ \E h \in 1 .. Total', b \in Bodies(k)' : Answered(h, b)' /\ StatusBefore(h)'
    <3>1. SUFFICES ASSUME kid[k] = "status", ~Waits(k)',
                          NEW h \in 1 .. Total, NEW b \in Bodies(k), Answered(h, b),
                          StatusBefore(h), requests = <<>>
                   PROVE  /\ requests' = <<>>
                          /\ \E g \in 1 .. Total', c \in Bodies(k)' : Answered(g, c)' /\ StatusBefore(g)'
      BY <2>1, <2>4 DEF NetOf
    <3>2. /\ requests' = <<>> /\ h \in 1 .. Total' /\ Answered(h, b)' /\ StatusBefore(h)'
      BY <2>5, <3>1
    <3>3. b \in Bodies(k)'
      BY <2>1
    <3>4. QED
      BY <3>2, <3>3
  <2>7. kid[k] = "header" =>
          \/ Waits(k)'
          \/ requests' = <<>> /\ \E h \in 1 .. Total', b \in Bodies(k)' : Answered(h, b)'
    <3>1. SUFFICES ASSUME kid[k] = "header", ~Waits(k)',
                          NEW h \in 1 .. Total, NEW b \in Bodies(k), Answered(h, b), requests = <<>>
                   PROVE  /\ requests' = <<>>
                          /\ \E g \in 1 .. Total', c \in Bodies(k)' : Answered(g, c)'
      BY <2>1, <2>4 DEF NetOf
    <3>2. /\ requests' = <<>> /\ h \in 1 .. Total' /\ Answered(h, b)'
      BY <2>5, <3>1
    <3>3. b \in Bodies(k)'
      BY <2>1
    <3>4. QED
      BY <3>2, <3>3
  <2>8. kid[k] = "body" => requests' = <<>> /\ \E b \in Bodies(k)' : BodyAfter(0, b)'
    <3>1. SUFFICES ASSUME kid[k] = "body"
                   PROVE  requests' = <<>> /\ \E b \in Bodies(k)' : BodyAfter(0, b)'
      OBVIOUS
    <3>2. PICK b \in Bodies(k) : BodyAfter(0, b)
      BY <2>1, <3>1 DEF NetOf
    <3>3. BodyAfter(0, b)'
      BY <1>5, <2>2, <3>1, <3>2
    <3>4. QED
      BY <1>1, <2>1, <3>1, <3>2, <3>3 DEF NetOf
  <2>9. kid[k] \in {"send", "push"} => Quiet'
    BY <1>4, <2>1 DEF NetOf
  <2>10. kid[k] = "push" => \E b \in Bodies(k)' : Begins(data'[k], Bytes(b))
    BY <1>1, <2>1 DEF NetOf
  <2>11. QED
    BY <1>1, <2>3, <2>6, <2>7, <2>8, <2>9, <2>10 DEF NetOf, Begins, Bytes, Body
<1>8. (\A k \in Kids : kid[k] \notin Busy) => Quiet'
  BY <1>4 DEF IInv, NetInv
<1>9. up' \/ (requests' = <<>> /\ sending' = <<>>)
  BY <1>1
<1>10. QED
  BY <1>1, <1>7, <1>8, <1>9 DEF NetInv, Busy

(* The server's answer to a range that child k has asked for.               *)
LEMMA AnswerSends ==
  ASSUME TypeOK, NEW k \in Kids, asked[k] # None, requests = <<asked[k]>>, Answer
  PROVE  /\ requests' = <<>>
         /\ \E st \in Int, c \in Int, b \in Bodies(k) : sending' = sending \o Response(st, c, b)
<1>1. requests[1] = asked[k] /\ Tail(requests) = <<>> /\ len \in Int /\ NoLength \in Int
  BY WebAssumption DEF NoLength, TypeOK
<1> DEFINE Sends == \E st \in Int, c \in Int, b \in Bodies(k) : sending' = sending \o Response(st, c, b)
<1>2. ASSUME NEW st \in Int, NEW c \in Int, NEW b \in Bodies(k),
             sending' = sending \o Response(st, c, b)
      PROVE  Sends
  BY <1>2, ZenonT(40)
<1> HIDE DEF Sends
<1>3. ASSUME Valid(asked[k]), NEW c \in {Len(Positions(asked[k])), NoLength}, sending' = sending \o Response(206, c, Positions(asked[k]))
      PROVE  Sends
  <2>1. Positions(asked[k]) \in Bodies(k)
    BY <1>3 DEF Bodies
  <2>2. c \in Int /\ 206 \in Int
    BY <1>1, <2>1, BodiesType
  <2>3. QED
    BY <1>2, <1>3, <2>1, <2>2, ZenonT(40)
<1>4. ASSUME NEW c \in {len, NoLength}, sending' = sending \o Response(200, c, Whole)
      PROVE  Sends
  <2>1. Whole \in Bodies(k)
    BY DEF Bodies
  <2>2. c \in Int /\ 200 \in Int
    BY <1>1
  <2>3. QED
    BY <1>2, <1>4, <2>1, <2>2, ZenonT(40)
<1>5. ASSUME NEW c \in {NoLength, 0}, sending' = sending \o Response(503, c, <<>>)
      PROVE  Sends
  <2>1. <<>> \in Bodies(k)
    BY DEF Bodies
  <2>2. c \in Int /\ 503 \in Int
    BY <1>1
  <2>3. QED
    BY <1>2, <1>5, <2>1, <2>2, ZenonT(40)
<1>6. ASSUME NEW c \in {NoLength, 1}, sending' = sending \o Response(503, c, <<ErrorPage>>)
      PROVE  Sends
  <2>1. <<ErrorPage>> \in Bodies(k)
    BY DEF Bodies
  <2>2. c \in Int /\ 503 \in Int
    BY <1>1
  <2>3. QED
    BY <1>2, <1>6, <2>1, <2>2, ZenonT(40)
<1>7. Sends
  <2>1. \/ /\ Valid(asked[k])
           /\ \E c \in {Len(Positions(asked[k])), NoLength} :
                sending' = sending \o Response(206, c, Positions(asked[k]))
        \/ \E c \in {len, NoLength} : sending' = sending \o Response(200, c, Whole)
        \/ \E c \in {NoLength, 0} : sending' = sending \o Response(503, c, <<>>)
        \/ \E c \in {NoLength, 1} : sending' = sending \o Response(503, c, <<ErrorPage>>)
    <3>1. \/ /\ Valid(requests[1])
             /\ \E c \in {Len(Positions(requests[1])), NoLength} :
                  sending' = sending \o Response(206, c, Positions(requests[1]))
          \/ \E c \in {len, NoLength} : sending' = sending \o Response(200, c, Whole)
          \/ \E c \in {NoLength, 0} : sending' = sending \o Response(503, c, <<>>)
          \/ \E c \in {NoLength, 1} : sending' = sending \o Response(503, c, <<ErrorPage>>)
      BY ZenonT(40) DEF Answer
    <3>2. QED
      BY <1>1, <3>1, ZenonT(40)
  <2>2. CASE /\ Valid(asked[k])
             /\ \E c \in {Len(Positions(asked[k])), NoLength} :
                  sending' = sending \o Response(206, c, Positions(asked[k]))
    BY <1>3, <2>2, ZenonT(40)
  <2>3. CASE \E c \in {len, NoLength} : sending' = sending \o Response(200, c, Whole)
    BY <1>4, <2>3, ZenonT(40)
  <2>4. CASE \E c \in {NoLength, 0} : sending' = sending \o Response(503, c, <<>>)
    BY <1>5, <2>4, ZenonT(40)
  <2>5. CASE \E c \in {NoLength, 1} : sending' = sending \o Response(503, c, <<ErrorPage>>)
    BY <1>6, <2>5, ZenonT(40)
  <2>6. QED
    BY <2>1, <2>2, <2>3, <2>4, <2>5
<1>8. requests' = <<>>
  BY <1>1 DEF Answer
<1>9. QED
  BY <1>7, <1>8 DEF Sends

(* The server answers the request of the one child that waits for an answer. *)
LEMMA AnswerNet ==
  ASSUME IInv, blanks = {}, Answer
  PROVE  NetInv'
<1>1. /\ stream \in Seq(Piece) /\ sending \in Seq(Piece) /\ up /\ requests # <<>>
      /\ UNCHANGED <<n, len, kid, data, asked, stream, up>> /\ Kids' = Kids
  BY DEF Answer, IInv, TypeOK, Kids, kidVars, world
<1>2. PICK k \in Kids : kid[k] \in Busy
  BY <1>1 DEF IInv, NetInv, Quiet
<1>3. NetOf(k) /\ \A j \in Kids : kid[j] \in Busy => j = k
  BY <1>2 DEF IInv, NetInv, SoleKid, TurnOf
<1>4. kid[k] \in {"status", "header"} /\ requests = <<asked[k]>> /\ NoHeads
  BY <1>1, <1>2, <1>3 DEF NetOf, Busy, Quiet, Waits
<1>5. asked[k] # None /\ Bodies(k)' = Bodies(k) /\ TypeOK
  BY <1>1, <1>3, <1>4, BodiesKept DEF NetOf, IInv
<1>6. requests' = <<>>
  BY <1>4, <1>5, AnswerSends
<1>7. PICK st \in Int, c \in Int, b \in Bodies(k) : sending' = sending \o Response(st, c, b)
  BY <1>4, <1>5, AnswerSends
<1>8. b \in Seq(Int) /\ Len(b) \in Nat
  BY <1>5, BodiesType DEF IInv
<1> DEFINE r == Response(st, c, b)
<1>9. /\ r \in Seq(Piece) /\ Len(r) = 2 + Len(b) /\ r[1] = Status(st) /\ r[2] = Header(c)
      /\ \A p \in 1 .. Len(b) : r[2 + p] = Body(b[p])
  BY <1>8, ResponseItems
<1> HIDE DEF r
<1>10. /\ sending' \in Seq(Piece) /\ Len(sending') = Len(sending) + Len(r)
       /\ \A p \in 1 .. Len(sending) : sending'[p] = sending[p]
       /\ \A p \in 1 .. Len(r) : sending'[Len(sending) + p] = r[p]
  <2>1. sending \in Seq(Piece) /\ r \in Seq(Piece)
    BY <1>1, <1>9
  <2>2. /\ sending \o r \in Seq(Piece) /\ Len(sending \o r) = Len(sending) + Len(r)
        /\ \A p \in 1 .. Len(sending) : (sending \o r)[p] = sending[p]
        /\ \A p \in 1 .. Len(r) : (sending \o r)[Len(sending) + p] = r[p]
    BY ONLY <2>1, Joined
  <2>3. sending' = sending \o r
    BY <1>7 DEF r
  <2>4. QED
    BY <2>2, <2>3
<1>11. PICK T \in Nat : T = Total
  BY <1>1 DEF Total
<1>12. Total' = T + 2 + Len(b)
  BY <1>1, <1>8, <1>9, <1>10, <1>11 DEF Total
<1>13. \A p \in 1 .. T : Item(p)' = Item(p)
  BY <1>1, <1>10, <1>11 DEF Item, Total
<1>14. ASSUME NEW p \in 1 .. Len(r) PROVE Item(T + p)' = r[p]
  <2>1. p \in Nat /\ p > 0 /\ Len(stream) \in Nat /\ Len(sending) \in Nat
    BY <1>1, <1>8, <1>9
  <2>2. ~(T + p <= Len(stream)) /\ T + p - Len(stream) = Len(sending) + p
    BY <1>11, <2>1 DEF Total
  <2>3. Item(T + p)' = sending'[T + p - Len(stream)]
    BY <1>1, <2>2 DEF Item
  <2>4. QED
    BY <1>10, <2>2, <2>3
<1>15. Answered(T + 2, b)' /\ StatusBefore(T + 2)'
  <2>1. Item(T + 1)' = Status(st) /\ Item(T + 2)' = Header(c)
    BY <1>8, <1>9, <1>14
  <2>2. /\ T + 2 \in 1 .. Total' /\ T + 2 \in Nat /\ T + 2 > 1 /\ T + 2 - 1 = T + 1
        /\ 1 .. T + 2 - 1 = 1 .. T + 1
    BY <1>8, <1>11, <1>12
  <2>3. ASSUME NEW p \in 1 .. T + 2 - 1 PROVE ~IsHead(Item(p)')
    <3>1. p \in 1 .. T \/ p = T + 1
      BY <1>11
    <3>2. QED
      BY <1>4, <1>11, <1>13, <2>1, <3>1 DEF NoHeads, IsHead, Status
  <2>4. ASSUME NEW p \in T + 2 + 1 .. Total' PROVE Item(p)' = Body(b[p - (T + 2)])
    <3>1. PICK q \in 1 .. Len(b) : q = p - (T + 2) /\ p = T + (2 + q) /\ 2 + q \in 1 .. Len(r)
      BY <1>8, <1>9, <1>11, <1>12
    <3>2. Item(T + (2 + q))' = r[2 + q]
      BY <1>14, <3>1
    <3>3. QED
      BY <1>9, <3>1, <3>2
  <2>5. BodyAfter(T + 2, b)'
    BY <1>8, <1>11, <1>12, <2>4 DEF BodyAfter, Body
  <2>6. Answered(T + 2, b)'
    BY <2>1, <2>2, <2>3, <2>5 DEF Answered, IsHead, Header
  <2>7. StatusBefore(T + 2)'
    BY <2>1, <2>2 DEF StatusBefore, Status
  <2>8. QED
    BY <2>6, <2>7
<1>16. NetOf(k)'
  <2>1. kid'[k] = kid[k] /\ asked'[k] # None /\ b \in Bodies(k)'
    BY <1>1, <1>4, <1>5
  <2>2. T + 2 \in 1 .. Total'
    BY <1>8, <1>11, <1>12
  <2>3. QED
    BY <1>4, <1>6, <1>15, <2>1, <2>2 DEF NetOf
<1>17. QED
  BY <1>1, <1>2, <1>3, <1>16 DEF NetInv, Busy

(* What it sends are items, whatever range it is asked for.                 *)
LEMMA AnswerTypes ==
  ASSUME TypeOK, Answer
  PROVE  sending' \in Seq(Piece) /\ requests' \in Seq(ByteRange)
<1>1. /\ requests[1] \in ByteRange /\ requests' \in Seq(ByteRange) /\ len \in Nat
      /\ sending \in Seq(Piece)
  BY WebAssumption DEF TypeOK, Answer
<1>2. ASSUME NEW st \in Int, NEW c \in Int, NEW b \in Seq(Int),
             sending' = sending \o Response(st, c, b)
      PROVE  sending' \in Seq(Piece)
  <2>1. Response(st, c, b) \in Seq(Piece)
    BY ResponseItems
  <2>2. QED
    BY <1>1, <1>2, <2>1, ConcatProperties
<1>3. NoLength \in Int /\ Whole \in Seq(Int) /\ <<>> \in Seq(Int) /\ <<ErrorPage>> \in Seq(Int)
  BY <1>1 DEF NoLength, Whole, ErrorPage
<1>4. \/ /\ Valid(requests[1])
         /\ \E c \in {Len(Positions(requests[1])), NoLength} :
              sending' = sending \o Response(206, c, Positions(requests[1]))
      \/ \E c \in {len, NoLength} : sending' = sending \o Response(200, c, Whole)
      \/ \E c \in {NoLength, 0} : sending' = sending \o Response(503, c, <<>>)
      \/ \E c \in {NoLength, 1} : sending' = sending \o Response(503, c, <<ErrorPage>>)
  BY ZenonT(40) DEF Answer
<1>5. ASSUME Valid(requests[1]), NEW c \in {Len(Positions(requests[1])), NoLength},
             sending' = sending \o Response(206, c, Positions(requests[1]))
      PROVE  sending' \in Seq(Piece)
  <2>1. Positions(requests[1]) \in Seq(Int)
    BY <1>1, <1>5, PositionsType
  <2>2. c \in Int /\ 206 \in Int
    BY <1>3, <2>1
  <2>3. QED
    BY <1>2, <1>5, <2>1, <2>2
<1>6. ASSUME NEW c \in {len, NoLength}, sending' = sending \o Response(200, c, Whole)
      PROVE  sending' \in Seq(Piece)
  <2>1. c \in Int /\ 200 \in Int
    BY <1>1, <1>3
  <2>2. QED
    BY <1>2, <1>3, <1>6, <2>1, ZenonT(40)
<1>7. ASSUME NEW c \in {NoLength, 0}, sending' = sending \o Response(503, c, <<>>)
      PROVE  sending' \in Seq(Piece)
  <2>1. c \in Int /\ 503 \in Int
    BY <1>1, <1>3
  <2>2. QED
    BY <1>2, <1>3, <1>7, <2>1, ZenonT(40)
<1>8. ASSUME NEW c \in {NoLength, 1}, sending' = sending \o Response(503, c, <<ErrorPage>>)
      PROVE  sending' \in Seq(Piece)
  <2> DEFINE e == <<ErrorPage>>
  <2>1. c \in Int /\ 503 \in Int /\ e \in Seq(Int) /\ sending' = sending \o Response(503, c, e)
    BY <1>1, <1>3, <1>8
  <2> HIDE DEF e
  <2>2. QED
    BY <1>2, <2>1, ZenonT(40)
<1>9. sending' \in Seq(Piece)
  <2>1. CASE /\ Valid(requests[1])
             /\ \E c \in {Len(Positions(requests[1])), NoLength} :
                  sending' = sending \o Response(206, c, Positions(requests[1]))
    BY <1>5, <2>1, ZenonT(40)
  <2>2. CASE \E c \in {len, NoLength} : sending' = sending \o Response(200, c, Whole)
    BY <1>6, <2>2, ZenonT(40)
  <2>3. CASE \E c \in {NoLength, 0} : sending' = sending \o Response(503, c, <<>>)
    BY <1>7, <2>3, ZenonT(40)
  <2>4. CASE \E c \in {NoLength, 1} : sending' = sending \o Response(503, c, <<ErrorPage>>)
    BY <1>8, <2>4, ZenonT(40)
  <2>5. QED
    BY <1>4, <2>1, <2>2, <2>3, <2>4
<1>10. QED
  BY <1>1, <1>9
-----------------------------------------------------------------------------
(* A step of the parent: it starts a child only when none is at work.        *)
LEMMA MainTypes ==
  ASSUME IInv, Main
  PROVE  TypeOK'
<1>0. /\ TypeOK /\ n \in Nat \ {0} /\ len \in Nat
      /\ UNCHANGED <<n, len, lineEnds, blanks, old, status, clen, data, stream, sending, requests, up, asked>>
      /\ Kids' = Kids /\ Message' = Message
  BY DEF IInv, AskedInv, Kids, Message, Main, AskLength, Fork, Wait, Collect, Rewait, Save,
     kidVars, netVars, world
<1>1. main' \in Place
  BY <1>0 DEF TypeOK, Place, Main, AskLength, Fork, Wait, NextChild, Collect, Rewait, Save
<1>2. i' \in 1 .. n + 1
  <2>1. main \in {"fork", "wait"} => i + 1 \in 1 .. n + 1
    BY <1>0 DEF TypeOK, IInv, FirstInv
  <2>2. QED
    BY <1>0, <2>1 DEF TypeOK, Main, AskLength, Fork, Wait, NextChild, Collect, Rewait, Save
<1>3. range' \in Int
  <2>1. CASE AskLength
    <3>1. \A c \in Nat : c \div n \in Nat
      BY <1>0, Rounds
    <3>2. \A c \in Int : (IF c < 0 THEN -((-c) \div n) ELSE c \div n) \in Int
      <4>1. SUFFICES ASSUME NEW c \in Int
                     PROVE  (IF c < 0 THEN -((-c) \div n) ELSE c \div n) \in Int
        OBVIOUS
      <4>2. CASE c < 0
        <5>1. -c \in Nat
          BY <4>2
        <5>2. (-c) \div n \in Nat
          BY <3>1, <5>1
        <5>3. QED
          BY <4>2, <5>2
      <4>3. CASE ~(c < 0)
        <5>1. c \in Nat
          BY <4>3
        <5>2. QED
          BY <3>1, <4>3, <5>1
      <4>4. QED
        BY <4>2, <4>3
    <3>3. \A c \in {len, NoLength, 0, 1} : Quotient(c) \in Int
      BY <1>0, <3>2 DEF Quotient, NoLength
    <3>4. range' = range \/ \E c \in {len, NoLength, 0, 1} : range' = Quotient(c)
      BY <2>1 DEF AskLength
    <3>5. QED
      BY <1>0, <3>3, <3>4 DEF TypeOK
  <2>2. CASE ~AskLength
    BY <1>0, <2>2 DEF TypeOK, Main, Fork, Wait, Collect, Rewait, Save
  <2>3. QED
    BY <2>1, <2>2
<1>4. count' \in 0 .. n /\ segment' \in [Kids -> {None} \cup Nat] /\ kid' \in [Kids -> KidPlace]
      /\ queue' \in Seq(Message)
  <2>1. CASE Collect
    <3>1. PICK p \in 1 .. Len(queue) :
            /\ queue' = Without(p)
            /\ \/ /\ segment' = [segment EXCEPT ![queue[p].msg_type] = queue[p].clen]
                  /\ count' = count - 1 /\ kid' = kid
               \/ /\ kid' = [kid EXCEPT ![queue[p].msg_type] = "send"] \/ kid' = kid
                  /\ UNCHANGED <<segment, count>>
      BY <2>1 DEF Collect, FirstOfTypeOne, Ones
    <3>2. queue' \in Seq(Message) /\ queue[p].msg_type \in Kids /\ queue[p].clen \in Nat
      <4>1. queue \in Seq(Message)
        BY <1>0 DEF TypeOK
      <4>2. queue[p] \in Message /\ queue' \in Seq(Message)
        BY <3>1, <4>1, QueueWithout
      <4>3. QED
        BY <4>2 DEF Message
    <3>3. count - 1 \in 0 .. n
      BY <1>0, <2>1 DEF TypeOK, Collect
    <3>4. "send" \in KidPlace
      BY Places
    <3>5. kid' \in [Kids -> KidPlace]
      BY <1>0, <3>1, <3>2, <3>4 DEF TypeOK
    <3>6. count' \in 0 .. n /\ segment' \in [Kids -> {None} \cup Nat]
      BY <1>0, <3>1, <3>2, <3>3 DEF TypeOK
    <3>7. QED
      BY <3>2, <3>5, <3>6
  <2>2. CASE Fork
    BY <1>0, <2>2, Places DEF TypeOK, Fork
  <2>3. CASE AskLength \/ Wait \/ Rewait \/ Save
    BY <1>0, <2>3 DEF TypeOK, AskLength, Wait, Rewait, Save, kidVars
  <2>4. QED
    BY <2>1, <2>2, <2>3 DEF Main
<1>5. QED
  BY <1>0, <1>1, <1>2, <1>3, <1>4 DEF TypeOK

(* What the parent takes is a message of type 1, and it is empty.           *)
LEMMA CollectTakes ==
  ASSUME IInv, Collect
  PROVE  \E p \in Ones :
           /\ queue' = Without(p)
           /\ \/ /\ segment' = [segment EXCEPT ![1] = 0] /\ count' = count - 1
                 /\ UNCHANGED <<main, kid>>
              \/ /\ \/ main' = "rewait" /\ kid' = [kid EXCEPT ![1] = "send"]
                    \/ UNCHANGED <<main, kid>>
                 /\ UNCHANGED <<segment, count>>
<1>1. PICK p \in Ones :
        /\ queue' = Without(p)
        /\ \/ /\ segment' = [segment EXCEPT ![queue[p].msg_type] = queue[p].clen]
              /\ count' = count - 1 /\ UNCHANGED <<main, kid>>
           \/ /\ \/ main' = "rewait" /\ kid' = [kid EXCEPT ![queue[p].msg_type] = "send"]
                 \/ UNCHANGED <<main, kid>>
              /\ UNCHANGED <<segment, count>>
  BY DEF Collect, FirstOfTypeOne
<1>2. queue[p].msg_type = 1 /\ queue[p].clen = 0
  BY DEF Ones, OfTypeOne
<1>3. QED
  BY <1>1, <1>2

(* The parent's step leaves the network in order.                           *)
LEMMA MainNet ==
  ASSUME IInv, Main
  PROVE  SoleKid' /\ (blanks' = {} => NetInv')
<1>1. /\ SoleKid /\ kid \in [Kids -> KidPlace] /\ Kids' = Kids /\ blanks' = blanks
      /\ UNCHANGED <<n, len, status, clen, data, stream, sending, requests, up, asked>>
  BY DEF IInv, TypeOK, Kids, Main, AskLength, Fork, Wait, Collect, Rewait, Save, kidVars, netVars,
     world
<1>2. \A j \in Kids : kid[j] \notin Busy
  BY <1>1, Places DEF Main, AskLength, Fork, Wait, Collect, Rewait, Save, SoleKid, TurnOf
<1>3. PICK k \in Kids : UNCHANGED kid \/ (kid' = [kid EXCEPT ![k] = "send"] /\ TurnOf(k)')
  <2>0. 1 \in Kids
    BY DEF IInv, AskedInv, Kids
  <2>1. CASE Fork
    <3>1. i \in Kids
      BY <2>1 DEF IInv, FirstInv, Fork, TypeOK, AskedInv, Kids
    <3>2. QED
      BY <2>1, <3>1 DEF Fork, TurnOf
  <2>2. CASE Collect
    BY <2>0, <2>2, CollectTakes DEF TurnOf
  <2>3. CASE AskLength \/ Wait \/ Rewait \/ Save
    BY <2>0, <2>3 DEF AskLength, Wait, Rewait, Save, kidVars
  <2>4. QED
    BY <2>1, <2>2, <2>3 DEF Main
<1>4. /\ \A j \in Kids : kid'[j] \in Busy => j = k /\ kid'[j] = "send" /\ TurnOf(j)'
  BY <1>1, <1>2, <1>3
<1>5. SoleKid'
  BY <1>1, <1>4, Places DEF SoleKid, Busy
<1>6. ASSUME blanks = {} PROVE NetInv'
  <2>1. Quiet /\ (up \/ (requests = <<>> /\ sending = <<>>))
    BY <1>2, <1>6 DEF IInv, NetInv
  <2>2. Quiet'
    BY <1>1, <2>1 DEF Quiet, NoHeads, Total, Item, IsHead
  <2>3. \A j \in Kids : kid'[j] \in Busy => NetOf(j)'
    BY <1>4, <2>2 DEF NetOf
  <2>4. QED
    BY <1>1, <2>1, <2>2, <2>3 DEF NetInv, Busy
<1>7. QED
  BY <1>1, <1>5, <1>6

(* The parent's step keeps what is said of the first range.                 *)
LEMMA MainFirst ==
  ASSUME IInv, Main
  PROVE  FirstInv'
<1>1. /\ TypeOK /\ FirstInv /\ n \in Nat \ {0} /\ 1 \in Kids /\ Kids' = Kids /\ n' = n /\ old' = old
      /\ kid \in [Kids -> KidPlace] /\ None # 0 /\ queue \in Seq(Message)
      /\ count \in Nat /\ old \in Nat /\ i \in Nat \ {0}
  BY WebAssumption DEF IInv, AskedInv, Kids, TypeOK, Main, AskLength, Fork, Wait, Collect, Rewait,
     Save, world
<1>2. Cardinality(Ones) \in Nat /\ Pending \in {0, 1} /\ Pending' \in {0, 1}
  BY <1>1, OnesFinite DEF Pending
<1>3. CASE ~Collect
  <2>1. UNCHANGED <<queue, count, segment>>
    BY <1>3 DEF Main, AskLength, Fork, Wait, Rewait, Save
  <2>2. Ones' = Ones
    BY <2>1 DEF Ones, OfTypeOne
  <2>3. Pending' <= Pending
    <3>1. UNCHANGED kid \/ (main = "fork" /\ kid' = [kid EXCEPT ![i] = "send"])
      BY <1>3 DEF Main, AskLength, Fork, Wait, Rewait, Save, kidVars
    <3>2. main = "fork" /\ i = 1 => kid[1] = "none"
      BY <1>1 DEF FirstInv
    <3>3. QED
      BY <1>1, <3>1, <3>2 DEF Pending
  <2>4. (n' - count') + Cardinality(Ones') + Pending' <= 1 + old'
    BY <1>1, <1>2, <2>1, <2>2, <2>3 DEF FirstInv
  <2>5. /\ main' \in {"head", "fork", "wait"} => i' <= n'
        /\ i' = 1 /\ main' \in {"head", "fork"} => kid'[1] = "none"
        /\ main' = "saved" => count' = 0
    <3>1. CASE AskLength \/ Rewait \/ Save
      BY <1>1, <3>1 DEF FirstInv, AskLength, Rewait, Save, kidVars
    <3>2. CASE Fork \/ Wait
      <4>1. i <= n /\ main \in {"fork", "wait"}
        BY <1>1, <3>2 DEF FirstInv, Fork, Wait
      <4>2. CASE NextChild
        BY <1>1, <4>1, <4>2 DEF NextChild
      <4>3. CASE ~NextChild
        BY <1>1, <3>2, <4>1, <4>3 DEF Fork, Wait
      <4>4. QED
        BY <4>2, <4>3
    <3>3. QED
      BY <1>3, <3>1, <3>2 DEF Main
  <2>6. QED
    BY <1>1, <2>1, <2>4, <2>5 DEF FirstInv
<1>4. CASE Collect
  <2>1. PICK p \in Ones :
          /\ queue' = Without(p)
          /\ \/ /\ segment' = [segment EXCEPT ![1] = 0] /\ count' = count - 1
                /\ UNCHANGED <<main, kid>>
             \/ /\ \/ main' = "rewait" /\ kid' = [kid EXCEPT ![1] = "send"]
                   \/ UNCHANGED <<main, kid>>
                /\ UNCHANGED <<segment, count>>
    BY <1>4, CollectTakes
  <2>2. Cardinality(Ones') <= Cardinality(Ones) - 1 /\ Cardinality(Ones') \in Nat
    <3>1. p \in 1 .. Len(queue)
      BY DEF Ones
    <3>2. queue' \in Seq(Message)
      BY <1>1, <2>1, <3>1, QueueWithout
    <3>3. IsFiniteSet(1 .. Len(queue')) /\ Ones' \in SUBSET (1 .. Len(queue'))
      BY <3>2, FS_Interval DEF Ones
    <3>4. QED
      BY <1>1, <2>1, <3>3, OnesWithout, FS_Subset, FS_CardinalityType
  <2>3. main = "collect" /\ main' \in {"collect", "rewait"} /\ count > 0
    BY <1>4, <2>1 DEF Collect
  <2>4. (n' - count') + Cardinality(Ones') + Pending' <= 1 + old'
    <3>1. CASE count' = count - 1 /\ UNCHANGED kid
      <4>1. Pending' = Pending
        BY <3>1 DEF Pending
      <4>2. QED
        BY <1>1, <1>2, <2>2, <3>1, <4>1 DEF FirstInv
    <3>2. CASE count' = count
      BY <1>1, <1>2, <2>2, <3>2 DEF FirstInv
    <3>3. QED
      BY <2>1, <3>1, <3>2
  <2>5. \A k \in Kids' : segment'[k] # None => k = 1 /\ segment'[k] = 0
    BY <1>1, <2>1 DEF FirstInv, TypeOK
  <2>6. QED
    BY <2>3, <2>4, <2>5 DEF FirstInv
<1>5. QED
  BY <1>3, <1>4
-----------------------------------------------------------------------------
(* At the beginning nothing has been asked for.                             *)
LEMMA Start == Init => IInv
<1> SUFFICES ASSUME Init PROVE IInv
  OBVIOUS
<1>1. n \in Nat \ {0} /\ len \in Nat /\ None \notin Int /\ MaxOld \in Nat /\ Marks \subseteq Int
  BY WebAssumption DEF Init
<1>2. queue \in Seq(Message)
  <2>1. PICK l \in 0 .. MaxOld : queue \in [1 .. l -> OldMessage]
    BY DEF Init
  <2>2. OldMessage \subseteq Message
    BY <1>1 DEF OldMessage, Message, Kids
  <2>3. l \in Nat /\ queue \in [1 .. l -> Message]
    BY <1>1, <2>1, <2>2
  <2>4. QED
    BY <2>3
<1>3. Cardinality(Ones) \in Nat /\ old = Cardinality(Ones)
  BY <1>2, OnesFinite DEF Init
<1>4. TypeOK
  <2>1. lineEnds \subseteq Int /\ blanks \subseteq lineEnds
    BY <1>1 DEF Init
  <2>2. data \in [Kids -> Seq(Piece)]
    BY DEF Init
  <2>3. QED
    BY <1>1, <1>2, <1>3, <2>1, <2>2 DEF Init, TypeOK, Place, KidPlace, Kids
<1>5. AskedInv
  BY <1>1 DEF Init, AskedInv, Kids
<1>6. \A k \in Kids : kid[k] = "none"
  BY DEF Init
<1>7. SoleKid
  BY <1>6, Places DEF SoleKid
<1>8. NetInv
  BY <1>6, Places DEF Init, NetInv, Quiet, NoHeads, Total, Item
<1>9. FirstInv
  <2>1. 1 \in Kids /\ Pending = 1
    BY <1>1, <1>6 DEF Pending, Kids
  <2>2. (n - count) + Cardinality(Ones) + Pending <= 1 + old
    BY <1>1, <1>3, <2>1 DEF Init
  <2>3. QED
    BY <1>1, <1>6, <2>1, <2>2 DEF Init, FirstInv
<1>10. QED
  BY <1>4, <1>5, <1>7, <1>8, <1>9 DEF IInv

(* A step that changes nothing keeps what is said of the connection.        *)
LEMMA StutterNet ==
  ASSUME IInv, blanks = {}, UNCHANGED vars
  PROVE  NetInv'
<1>1. UNCHANGED <<n, len, kid, data, asked, stream, sending, requests, up>>
  BY DEF vars, world, kidVars, netVars
<1>2. Total' = Total /\ \A p : Item(p)' = Item(p)
  BY <1>1 DEF Total, Item
<1>3. (Quiet' <=> Quiet) /\ (NoHeads' <=> NoHeads)
  BY <1>1, <1>2 DEF Quiet, NoHeads, IsHead
<1>4. \A h, b : BodyAfter(h, b)' <=> BodyAfter(h, b)
  BY <1>2 DEF BodyAfter, Body
<1>5. \A h, b : (Answered(h, b)' <=> Answered(h, b)) /\ (StatusBefore(h)' <=> StatusBefore(h))
  BY <1>2, <1>4 DEF Answered, IsHead, StatusBefore
<1>6. \A k \in Kids : NetOf(k) => NetOf(k)'
  <2>1. SUFFICES ASSUME NEW k \in Kids, NetOf(k) PROVE NetOf(k)'
    OBVIOUS
  <2>2. Bodies(k)' = Bodies(k) /\ (Waits(k)' <=> Waits(k))
    BY <1>1, <1>3, BodiesKept DEF Waits
  <2>3. kid'[k] # "send" => asked'[k] # None
    BY <1>1, <2>1 DEF NetOf
  <2>4. kid'[k] = "status" =>
          \/ Waits(k)'
          \/ /\ requests' = <<>>
             /\ \E h \in 1 .. Total', b \in Bodies(k)' : Answered(h, b)' /\ StatusBefore(h)'
    BY <1>1, <1>2, <1>5, <2>1, <2>2 DEF NetOf
  <2>5. kid'[k] = "header" =>
          \/ Waits(k)'
          \/ requests' = <<>> /\ \E h \in 1 .. Total', b \in Bodies(k)' : Answered(h, b)'
    BY <1>1, <1>2, <1>5, <2>1, <2>2 DEF NetOf
  <2>6. kid'[k] = "body" => requests' = <<>> /\ \E b \in Bodies(k)' : BodyAfter(0, b)'
    BY <1>1, <1>4, <2>1, <2>2 DEF NetOf
  <2>7. /\ kid'[k] \in {"send", "push"} => Quiet'
        /\ kid'[k] = "push" => \E b \in Bodies(k)' : Begins(data'[k], Bytes(b))
    BY <1>1, <1>3, <2>1, <2>2 DEF NetOf
  <2>8. QED
    BY <2>3, <2>4, <2>5, <2>6, <2>7 DEF NetOf, Begins, Bytes, Body
<1>7. QED
  BY <1>1, <1>3, <1>6 DEF IInv, NetInv, Kids, Busy

(* Every step keeps the invariant.                                          *)
LEMMA Preserved == IInv /\ [Next]_vars => IInv'
<1> SUFFICES ASSUME IInv, [Next]_vars PROVE IInv'
  OBVIOUS
<1>0. AskedInv'
  BY AskedStep DEF IInv
<1>1. CASE UNCHANGED vars
  <2>1. TypeOK'
    BY <1>1 DEF vars, IInv, TypeOK, Kids, Message, world, parentVars, kidVars, netVars
  <2>2. SoleKid'
    BY <1>1 DEF vars, IInv, SoleKid, TurnOf, Kids, Busy, world, parentVars, kidVars
  <2>3. FirstInv'
    BY <1>1 DEF vars, IInv, FirstInv, Pending, Ones, OfTypeOne, Kids, world, parentVars, kidVars
  <2>4. blanks' = {} => NetInv'
    BY <1>1, StutterNet DEF vars, world
  <2>5. QED
    BY <1>0, <2>1, <2>2, <2>3, <2>4 DEF IInv
<1>2. CASE Main
  BY <1>0, <1>2, MainTypes, MainNet, MainFirst DEF IInv
<1>3. CASE \E k \in Kids : KidStep(k)
  BY <1>0, <1>3, KidTypes, KidNet, KidFirst DEF IInv
<1>4. CASE Server \/ Close
  <2>1. UNCHANGED <<world, parentVars, kidVars, queue, asked>>
    BY <1>4 DEF Server, Answer, Arrive, Close
  <2>2. /\ stream' \in Seq(Piece) /\ sending' \in Seq(Piece) /\ up' \in BOOLEAN
        /\ requests' \in Seq(ByteRange)
    <3>1. stream \in Seq(Piece) /\ sending \in Seq(Piece) /\ up \in BOOLEAN
          /\ requests \in Seq(ByteRange) /\ TypeOK
      BY DEF IInv, TypeOK
    <3>2. CASE Arrive \/ Close
      <4>1. CASE Close
        <5>1. stream' = stream /\ up' = FALSE /\ requests' = <<>> /\ sending' = <<>>
          BY <4>1 DEF Close
        <5>2. requests' \in Seq(ByteRange)
          BY <5>1, EmptySeq
        <5>3. sending' \in Seq(Piece)
          BY <5>1, EmptySeq
        <5>4. QED
          BY <3>1, <5>1, <5>2, <5>3
      <4>2. CASE Arrive
        <5>1. /\ sending # <<>> /\ stream' = Append(stream, sending[1]) /\ sending' = Tail(sending)
              /\ UNCHANGED <<requests, up>>
          BY <4>2 DEF Arrive
        <5>2. sending[1] \in Piece /\ sending' \in Seq(Piece)
          BY <3>1, <5>1
        <5>3. QED
          BY <3>1, <5>1, <5>2
      <4>3. QED
        BY <3>2, <4>1, <4>2
    <3>3. CASE Answer
      <4>1. UNCHANGED <<stream, up>>
        BY <3>3 DEF Answer
      <4>2. QED
        BY <3>1, <3>3, <4>1, AnswerTypes
    <3>4. QED
      BY <1>4, <3>2, <3>3 DEF Server
  <2>3. TypeOK'
    BY <2>1, <2>2 DEF IInv, TypeOK, Kids, Message, world, parentVars, kidVars
  <2>4. SoleKid'
    BY <2>1 DEF IInv, SoleKid, TurnOf, Kids, Busy, world, parentVars, kidVars
  <2>5. FirstInv'
    BY <2>1 DEF IInv, FirstInv, Pending, Ones, OfTypeOne, Kids, world, parentVars, kidVars
  <2>6. blanks' = {} => NetInv'
    BY <1>4, <2>1, ArriveNet, AnswerNet DEF Server, world
  <2>7. QED
    BY <1>0, <2>3, <2>4, <2>5, <2>6 DEF IInv
<1>5. QED
  BY <1>1, <1>2, <1>3, <1>4 DEF Next

(* The inductive invariant of the client.                                   *)
THEOREM WebInvariant == Spec => []IInv
BY Start, Preserved, PTL DEF Spec

(* The types are kept, the ranges cover the file, and what a child takes for *)
(* its segment begins the answer to its own request, if no empty line is in  *)
(* what others have left.                                                   *)
THEOREM OwnAnswers == Spec => []WebInv
<1>1. IInv => OwnResponse
  <2>1. SUFFICES ASSUME IInv, blanks = {}, NEW k \in Kids, kid[k] = "push"
                 PROVE  \/ Begins(data[k], Bytes(Whole)) \/ Begins(data[k], Bytes(<<ErrorPage>>))
                        \/ Valid(asked[k]) /\ Begins(data[k], Bytes(Positions(asked[k])))
    BY DEF OwnResponse
  <2>2. PICK b \in Bodies(k) : Begins(data[k], Bytes(b))
    BY <2>1, Places DEF IInv, NetInv, NetOf
  <2>3. CASE b = <<>>
    <3>1. data[k] = <<>>
      <4>1. Bytes(<<>>) = <<>> /\ data[k] \in Seq(Piece)
        BY <2>1 DEF Bytes, IInv, TypeOK
      <4>2. Len(data[k]) <= 0
        BY <2>2, <2>3, <4>1 DEF Begins
      <4>3. QED
        BY <4>1, <4>2
    <3>2. Bytes(<<ErrorPage>>) \in Seq(Piece) /\ Len(Bytes(<<ErrorPage>>)) = 1
      <4>1. <<ErrorPage>> \in Seq(Int) /\ Len(<<ErrorPage>>) = 1
        BY DEF ErrorPage
      <4>2. QED
        BY <4>1, BytesItems
    <3>3. SubSeq(Bytes(<<ErrorPage>>), 1, 0) = <<>>
      BY <3>2
    <3>4. QED
      BY <3>1, <3>2, <3>3 DEF Begins
  <2>4. QED
    BY <2>2, <2>3 DEF Bodies
<1>2. QED
  BY <1>1, WebInvariant, RangesCoverFile, PTL DEF WebInv, IInv

(* The parent never takes anything but an empty first segment, and a file is *)
(* saved only for one child or with messages that earlier runs have left.   *)
THEOREM OnlyEmptyTaken == Spec => []OnlyEmptyIsTaken
<1>1. IInv => OnlyEmptyIsTaken
  <2>1. SUFFICES ASSUME IInv, main = "saved" PROVE n <= 1 + old
    BY DEF IInv, FirstInv, OnlyEmptyIsTaken
  <2>2. /\ (n - count) + Cardinality(Ones) + Pending <= 1 + old /\ count = 0
        /\ n \in Nat /\ old \in Nat /\ queue \in Seq(Message)
    BY <2>1 DEF IInv, FirstInv, AskedInv, TypeOK
  <2>3. Cardinality(Ones) \in Nat /\ Pending \in {0, 1}
    BY <2>2, OnesFinite DEF Pending
  <2>4. QED
    BY <2>2, <2>3
<1>2. QED
  BY <1>1, WebInvariant, PTL
-----------------------------------------------------------------------------
(* The programs of Streams.                                                *)

-----------------------------------------------------------------------------
(* Sequences of items                                                      *)
Items == Seq(Int)
Leads(s, t) == Len(s) <= Len(t) /\ \A k \in 1 .. Len(s) : s[k] = t[k]

(* What a concatenation holds.                                             *)
LEMMA Cat ==
  ASSUME NEW s \in Items, NEW t \in Items
  PROVE  /\ s \o t \in Items /\ Len(s \o t) = Len(s) + Len(t) /\ Len(s) \in Nat /\ Len(t) \in Nat
         /\ \A k \in 1 .. Len(s) : (s \o t)[k] = s[k]
         /\ \A k \in 1 .. Len(t) : (s \o t)[Len(s) + k] = t[k]
BY ConcatProperties DEF Items

(* A concatenation is a sequence of items.                                  *)
LEMMA CatType ==
  ASSUME NEW s \in Items, NEW t \in Items
  PROVE  s \o t \in Items
BY ConcatProperties DEF Items

(* Appending is concatenating.                                             *)
LEMMA AppendCat ==
  ASSUME NEW s \in Items, NEW x \in Int
  PROVE  /\ Append(s, x) = s \o <<x>> /\ <<x>> \in Items /\ Append(s, x) \in Items
         /\ Len(Append(s, x)) = Len(s) + 1
<1>1. Append(s, x) = s \o <<x>>
  BY AppendIsConcat DEF Items
<1>2. <<x>> \in Items
  BY DEF Items
<1>3. Append(s, x) \in Items /\ Len(Append(s, x)) = Len(s) + 1
  BY AppendProperties DEF Items
<1>4. QED
  BY <1>1, <1>2, <1>3

(* What the client has sent twice.                                          *)
LEMMA TwoItems ==
  ASSUME NEW x \in Int, NEW y \in Int
  PROVE  Append(<<x>>, y) = <<x, y>>
<1>1. Append(<<x>>, y) \in Items /\ <<x, y>> \in Items /\ Len(Append(<<x>>, y)) = 2 /\ Len(<<x, y>>) = 2
  BY DEF Items
<1>2. \A j \in 1 .. 2 : Append(<<x>>, y)[j] = <<x, y>>[j]
  OBVIOUS
<1>3. QED
  BY <1>1, <1>2, SeqEqual DEF Items

(* A sequence is its first item and the rest.                               *)
LEMMA HeadCat ==
  ASSUME NEW s \in Items, s # <<>>
  PROVE  /\ Head(s) \in Int /\ Tail(s) \in Items /\ <<Head(s)>> \in Items
         /\ <<Head(s)>> \o Tail(s) = s /\ Len(Tail(s)) = Len(s) - 1 /\ Len(s) > 0
<1>1. Head(s) \in Int /\ Tail(s) \in Items /\ <<Head(s)>> \in Items /\ Len(Tail(s)) = Len(s) - 1 /\ Len(s) > 0
  BY HeadTailProperties DEF Items
<1>2. Len(<<Head(s)>>) = 1 /\ <<Head(s)>>[1] = Head(s)
  OBVIOUS
<1>3. <<Head(s)>> \o Tail(s) \in Items /\ Len(<<Head(s)>> \o Tail(s)) = Len(s)
  BY <1>1, <1>2, Cat DEF Items
<1>4. ASSUME NEW k \in 1 .. Len(s) PROVE (<<Head(s)>> \o Tail(s))[k] = s[k]
  BY <1>1, <1>2, HeadTailProperties, ConcatProperties DEF Items
<1>5. QED
  BY <1>1, <1>3, <1>4, SeqEqual DEF Items

(* A sequence is what a recv takes of it and the rest.                      *)
LEMMA TakeCat ==
  ASSUME NEW s \in Items, NEW k \in 1 .. Len(s)
  PROVE  /\ SubSeq(s, 1, k) \in Items /\ SubSeq(s, k + 1, Len(s)) \in Items
         /\ Len(SubSeq(s, 1, k)) = k /\ Len(SubSeq(s, k + 1, Len(s))) = Len(s) - k
         /\ SubSeq(s, 1, k) \o SubSeq(s, k + 1, Len(s)) = s
<1>1. Len(s) \in Nat /\ \A j \in 1 .. Len(s) : s[j] \in Int
  BY DEF Items
<1>2. SubSeq(s, 1, k) \in Items /\ Len(SubSeq(s, 1, k)) = k
  BY <1>1, SubSeqProperties DEF Items
<1>3. SubSeq(s, k + 1, Len(s)) \in Items /\ Len(SubSeq(s, k + 1, Len(s))) = Len(s) - k
  BY <1>1, SubSeqProperties DEF Items
<1>4. SubSeq(s, 1, k) \o SubSeq(s, k + 1, Len(s)) = SubSeq(s, 1, Len(s))
  BY <1>1, ConcatAdjacentSubSeq DEF Items
<1>5. SubSeq(s, 1, Len(s)) = s
  BY SubSeqFull DEF Items
<1>6. QED
  BY <1>2, <1>3, <1>4, <1>5

(* Concatenation does not depend on brackets, or on what is empty.          *)
LEMMA CatAgain ==
  ASSUME NEW s \in Items, NEW t \in Items, NEW u \in Items
  PROVE  (s \o t) \o u = s \o (t \o u)
BY ConcatAssociative DEF Items

(* What is empty adds nothing.                                              *)
LEMMA CatEmpty ==
  ASSUME NEW s \in Items
  PROVE  s \o <<>> = s /\ <<>> \o s = s /\ <<>> \in Items /\ (Len(s) = 0 <=> s = <<>>)
BY ConcatEmptySeq, EmptySeq DEF Items

(* What is received is only moved.                                         *)
LEMMA ReceivedCat ==
  ASSUME NEW a \in Items, NEW s \in Items, NEW k \in 1 .. Len(s)
  PROVE  (a \o SubSeq(s, 1, k)) \o SubSeq(s, k + 1, Len(s)) = a \o s
<1>1. SubSeq(s, 1, k) \in Items /\ SubSeq(s, k + 1, Len(s)) \in Items
  BY TakeCat
<1>2. (a \o SubSeq(s, 1, k)) \o SubSeq(s, k + 1, Len(s)) = a \o (SubSeq(s, 1, k) \o SubSeq(s, k + 1, Len(s)))
  BY <1>1, CatAgain
<1>3. QED
  BY <1>2, TakeCat

(* What is sent is only moved.                                             *)
LEMMA SentCat ==
  ASSUME NEW a \in Items, NEW s \in Items, s # <<>>
  PROVE  Append(a, Head(s)) \o Tail(s) = a \o s
<1>1. Append(a, Head(s)) = a \o <<Head(s)>>
  BY HeadCat, AppendCat
<1>2. QED
  BY <1>1, HeadCat, CatAgain, SMTT(30)

(* What comes last of all comes last of the last part.                      *)
LEMMA LastCat ==
  ASSUME NEW a \in Items, NEW s \in Items, NEW x \in Int
  PROVE  a \o Append(s, x) = Append(a \o s, x)
<1>1. <<x>> \in Items /\ a \o s \in Items
  BY AppendCat, Cat
<1>2. (a \o s) \o <<x>> = a \o (s \o <<x>>)
  BY <1>1, CatAgain
<1>3. Append(s, x) = s \o <<x>> /\ Append(a \o s, x) = (a \o s) \o <<x>>
  BY <1>1, AppendCat
<1>4. QED
  BY <1>2, <1>3

(* Lengths.                                                                *)
LEMMA LenIs ==
  ASSUME NEW s \in Items
  PROVE  Len(s) \in Nat /\ (s # <<>> => Len(s) > 0 /\ Len(s) \in Nat \ {0})
BY EmptySeq DEF Items

(* Leads is the prefix order: a part leads the whole, and what is added to  *)
(* the longer sequence changes nothing.                                     *)
LEMMA LeadsCat ==
  ASSUME NEW s \in Items, NEW t \in Items
  PROVE  /\ Leads(s, s) /\ Leads(s, s \o t)
         /\ \A x \in Int : Leads(s, t) => Leads(s, Append(t, x))
         /\ \A u \in Items : Leads(s \o t, u) => Leads(s, u) /\ Len(s) + Len(t) <= Len(u)
         /\ Leads(s, t) /\ Len(s) >= Len(t) => s = t
<1>1. Leads(s, s) /\ Leads(s, s \o t)
  BY Cat DEF Leads
<1>2. ASSUME NEW x \in Int, Leads(s, t) PROVE Leads(s, Append(t, x))
  <2>1. Len(s) \in Nat /\ Len(t) \in Nat /\ Len(Append(t, x)) = Len(t) + 1
    BY Cat, AppendCat
  <2>2. \A k \in 1 .. Len(t) : Append(t, x)[k] = t[k]
    BY AppendProperties DEF Items
  <2>3. QED
    BY <1>2, <2>1, <2>2 DEF Leads
<1>3. ASSUME NEW u \in Items, Leads(s \o t, u) PROVE Leads(s, u) /\ Len(s) + Len(t) <= Len(u)
  <2>1. Len(s) \in Nat /\ Len(t) \in Nat /\ Len(s \o t) = Len(s) + Len(t)
    BY Cat
  <2>2. \A k \in 1 .. Len(s) : (s \o t)[k] = s[k]
    BY Cat
  <2>3. Len(u) \in Nat
    BY DEF Items
  <2>4. QED
    BY <1>3, <2>1, <2>2, <2>3 DEF Leads
<1>4. ASSUME Leads(s, t), Len(s) >= Len(t) PROVE s = t
  BY <1>4, SeqEqual, Cat DEF Leads, Items
<1>5. QED
  BY <1>1, <1>2, <1>3, <1>4

(* It is that of the community modules.                                     *)
LEMMA LeadsIsPrefix ==
  ASSUME NEW s \in Items, NEW t \in Items, Leads(s, t)
  PROVE  S!IsPrefix(s, t)
<1>1. Len(s) \in Nat /\ Len(t) \in Nat /\ Len(s) <= Len(t)
  BY Cat DEF Leads
<1>2. SubSeq(t, 1, Len(s)) = s
  <2>1. \A j \in 1 .. Len(s) : t[j] \in Int
    BY <1>1 DEF Items
  <2>2. SubSeq(t, 1, Len(s)) \in Items /\ Len(SubSeq(t, 1, Len(s))) = Len(s)
    BY <1>1, <2>1, SubSeqProperties DEF Items
  <2>3. \A j \in 1 .. Len(s) : SubSeq(t, 1, Len(s))[j] = t[j]
    BY <1>1, <2>1, SubSeqProperties
  <2>4. QED
    BY <2>2, <2>3, SeqEqual DEF Leads, Items
<1>3. SubSeq(s, 1, Len(s)) = s
  BY SubSeqFull DEF Items
<1>4. QED
  BY <1>1, <1>2, <1>3 DEF S!IsPrefix
-----------------------------------------------------------------------------
(* Connections                                                             *)
ConnTypes ==
  /\ inbox \in [S!Clients -> [S!Ends -> Items]]
  /\ \A c \in S!Clients, e \in S!Ends : Len(inbox[c][e]) <= Room
  /\ closed \in [S!Clients -> SUBSET S!Ends]
  /\ rst \in [S!Clients -> SUBSET S!Ends] /\ err \in [S!Clients -> SUBSET S!Ends]
ResetInv ==
  \A c \in S!Clients : err[c] \subseteq rst[c] /\ \A e \in S!Ends : e \in rst[c] => S!Other[e] \in closed[c]
ConnInv == ConnTypes /\ ResetInv

(* The two ends.                                                           *)
LEMMA TwoEnds ==
  /\ S!Other["client"] = "server" /\ S!Other["server"] = "client" /\ S!Ends = {"client", "server"}
  /\ \A e \in S!Ends : S!Other[e] \in S!Ends /\ S!Other[e] # e /\ S!Other[S!Other[e]] = e
BY DEF S!Other, S!Ends

(* What a send does: the item is in the other inbox, or the end is reset.   *)
LEMMA SendEffect ==
  ASSUME ConnInv, NEW e \in S!Ends, NEW c \in S!Clients, NEW x \in Int, S!SendItem(e, c, x)
  PROVE  /\ ConnInv' /\ closed' = closed /\ e \notin rst[c]
         /\ \A d \in S!Clients : d # c => inbox'[d] = inbox[d] /\ rst'[d] = rst[d]
         /\ inbox'[c][e] = inbox[c][e]
         /\ S!Other[e] \notin closed[c] =>
              inbox'[c][S!Other[e]] = Append(inbox[c][S!Other[e]], x) /\ rst' = rst
         /\ S!Other[e] \in closed[c] => inbox' = inbox /\ rst'[c] = rst[c] \cup {e}
<1> DEFINE o == S!Other[e]
<1>1. o \in S!Ends /\ o # e
  BY TwoEnds
<1>2. closed' = closed /\ e \notin rst[c]
  BY DEF S!SendItem
<1>3. CASE o \notin closed[c]
  <2>1. inbox' = [inbox EXCEPT ![c][o] = Append(@, x)] /\ rst' = rst /\ err' = err /\ Len(inbox[c][o]) < Room
    BY <1>3 DEF S!SendItem, S!Live
  <2>2. inbox[c] \in [S!Ends -> Items] /\ inbox[c][o] \in Items
    BY <1>1 DEF ConnInv, ConnTypes
  <2>3. Append(inbox[c][o], x) \in Items /\ Len(Append(inbox[c][o], x)) <= Room
    <3>1. Append(inbox[c][o], x) \in Items /\ Len(Append(inbox[c][o], x)) = Len(inbox[c][o]) + 1
      BY <2>2, AppendCat
    <3>2. Len(inbox[c][o]) \in Nat
      BY <2>2 DEF Items
    <3>3. QED
      BY <2>1, <3>1, <3>2, StreamsAssumption
  <2>4. /\ inbox'[c] = [inbox[c] EXCEPT ![o] = Append(inbox[c][o], x)]
        /\ \A d \in S!Clients : d # c => inbox'[d] = inbox[d]
    BY <2>1, <1>1 DEF ConnInv, ConnTypes
  <2>5. inbox'[c][o] = Append(inbox[c][o], x) /\ inbox'[c][e] = inbox[c][e] /\ inbox'[c] \in [S!Ends -> Items]
    BY <2>2, <2>3, <2>4, <1>1
  <2>6. inbox' \in [S!Clients -> [S!Ends -> Items]]
    BY <2>1, <2>3, <1>1 DEF ConnInv, ConnTypes
  <2>7. ASSUME NEW d \in S!Clients, NEW f \in S!Ends PROVE Len(inbox'[d][f]) <= Room
    BY <2>2, <2>3, <2>4, ZenonT(40) DEF ConnInv, ConnTypes
  <2>8. ConnTypes'
    BY <2>1, <2>6, <2>7, <1>2 DEF ConnInv, ConnTypes
  <2>9. ResetInv'
    BY <2>1, <1>2 DEF ConnInv, ResetInv
  <2>10. QED
    BY <2>1, <2>4, <2>5, <2>8, <2>9, <1>2, <1>3 DEF ConnInv
<1>4. CASE o \in closed[c]
  <2>1. /\ inbox' = inbox /\ rst' = [rst EXCEPT ![c] = @ \cup {e}] /\ err' = [err EXCEPT ![c] = @ \cup {e}]
    BY <1>4 DEF S!SendItem, S!Live, S!Adds
  <2>2. rst'[c] = rst[c] \cup {e} /\ \A d \in S!Clients : d # c => rst'[d] = rst[d] /\ err'[d] = err[d]
    BY <2>1 DEF ConnInv, ConnTypes
  <2>3. err'[c] = err[c] \cup {e}
    BY <2>1 DEF ConnInv, ConnTypes
  <2>4. ConnTypes'
    BY <2>1, <1>2 DEF ConnInv, ConnTypes
  <2>5. ResetInv'
    BY <2>2, <2>3, <1>2, <1>4 DEF ConnInv, ResetInv
  <2>6. QED
    BY <2>1, <2>2, <2>4, <2>5, <1>2, <1>4 DEF ConnInv
<1>5. QED
  BY <1>3, <1>4

(* What a recv does.                                                       *)
LEMMA TakeEffect ==
  ASSUME ConnInv, NEW e \in S!Ends, NEW c \in S!Clients, NEW k, S!Takes(e, c, k)
  PROVE  /\ ConnInv' /\ closed' = closed /\ rst' = rst
         /\ k \in 1 .. Len(inbox[c][e]) /\ k <= Buffer
         /\ \A d \in S!Clients : d # c => inbox'[d] = inbox[d]
         /\ inbox'[c][S!Other[e]] = inbox[c][S!Other[e]]
         /\ inbox'[c][e] = SubSeq(inbox[c][e], k + 1, Len(inbox[c][e]))
<1> DEFINE s == SubSeq(inbox[c][e], k + 1, Len(inbox[c][e]))
<1>1. S!Other[e] \in S!Ends /\ S!Other[e] # e
  BY TwoEnds
<1>2. /\ inbox' = [inbox EXCEPT ![c][e] = s] /\ closed' = closed /\ rst' = rst /\ err' = err
      /\ k \in 1 .. Len(inbox[c][e]) /\ k <= Buffer
  BY DEF S!Takes
<1>3. inbox[c] \in [S!Ends -> Items] /\ inbox[c][e] \in Items
  BY DEF ConnInv, ConnTypes
<1>4. s \in Items /\ Len(s) <= Room
  BY <1>2, <1>3, TakeCat, Cat, StreamsAssumption DEF ConnInv, ConnTypes
<1>5. /\ inbox'[c] = [inbox[c] EXCEPT ![e] = s]
      /\ \A d \in S!Clients : d # c => inbox'[d] = inbox[d]
  BY <1>2 DEF ConnInv, ConnTypes
<1>6. inbox'[c][e] = s /\ inbox'[c][S!Other[e]] = inbox[c][S!Other[e]]
  BY <1>1, <1>3, <1>5
<1>7. inbox' \in [S!Clients -> [S!Ends -> Items]]
  BY <1>2, <1>4 DEF ConnInv, ConnTypes
<1>8. ASSUME NEW d \in S!Clients, NEW f \in S!Ends PROVE Len(inbox'[d][f]) <= Room
  BY <1>3, <1>4, <1>5 DEF ConnInv, ConnTypes
<1>9. ConnTypes' /\ ResetInv'
  BY <1>2, <1>7, <1>8 DEF ConnInv, ConnTypes, ResetInv
<1>10. QED
  BY <1>2, <1>5, <1>6, <1>9 DEF ConnInv

(* An error that is told changes nothing else.                              *)
LEMMA FailEffect ==
  ASSUME ConnInv, NEW e \in S!Ends, NEW c \in S!Clients, S!RecvFails(e, c) \/ S!SendFails(e, c)
  PROVE  ConnInv' /\ inbox' = inbox /\ closed' = closed /\ rst' = rst
<1>1. inbox' = inbox /\ closed' = closed /\ rst' = rst /\ err' = [err EXCEPT ![c] = @ \ {e}]
  BY DEF S!RecvFails, S!SendFails
<1>2. ConnTypes'
  BY <1>1 DEF ConnInv, ConnTypes
<1>3. \A d \in S!Clients : err'[d] \subseteq err[d]
  BY <1>1 DEF ConnInv, ConnTypes
<1>4. ResetInv'
  BY <1>1, <1>3 DEF ConnInv, ResetInv
<1>5. QED
  BY <1>1, <1>2, <1>4 DEF ConnInv

(* What closing does.                                                      *)
LEMMA CloseEffect ==
  ASSUME ConnInv, NEW e \in S!Ends, NEW cs, NEW hard, S!CloseAll(e, cs, hard)
  PROVE  /\ ConnInv'
         /\ \A d \in S!Clients : d \notin cs => inbox'[d] = inbox[d] /\ closed'[d] = closed[d] /\ rst'[d] = rst[d]
         /\ \A d \in S!Clients : d \in cs =>
              /\ inbox'[d][e] = <<>> /\ inbox'[d][S!Other[e]] = inbox[d][S!Other[e]]
              /\ closed'[d] = closed[d] \cup {e}
         /\ \A d \in S!Clients : e \in rst'[d] => e \in rst[d]
         /\ \A d \in S!Clients : rst[d] \subseteq rst'[d]
         /\ \A d \in S!Clients : S!Other[e] \in rst'[d] =>
              \/ S!Other[e] \in rst[d]
              \/ d \in cs /\ S!Other[e] \notin closed[d] /\ (inbox[d][e] # <<>> \/ d \in hard)
<1> DEFINE o == S!Other[e]
           resets == {c \in cs : S!Live(o, c) /\ (inbox[c][e] # <<>> \/ c \in hard)}
<1>1. o \in S!Ends /\ o # e /\ S!Other[o] = e
  BY TwoEnds
<1>2. /\ closed' = [c \in S!Clients |-> closed[c] \cup {x \in {e} : c \in cs}]
      /\ inbox' = [c \in S!Clients |-> IF c \in cs THEN [inbox[c] EXCEPT ![e] = <<>>] ELSE inbox[c]]
      /\ rst' = [c \in S!Clients |-> rst[c] \cup {x \in {o} : c \in resets}]
      /\ err' = [c \in S!Clients |-> err[c] \cup {x \in {o} : c \in resets}]
  BY DEF S!CloseAll
<1> HIDE DEF resets
<1>3. ASSUME NEW d \in S!Clients
      PROVE  /\ closed'[d] = IF d \in cs THEN closed[d] \cup {e} ELSE closed[d]
             /\ inbox'[d] = IF d \in cs THEN [inbox[d] EXCEPT ![e] = <<>>] ELSE inbox[d]
             /\ rst'[d] = IF d \in resets THEN rst[d] \cup {o} ELSE rst[d]
             /\ err'[d] = IF d \in resets THEN err[d] \cup {o} ELSE err[d]
  BY <1>2
<1>4. <<>> \in Items /\ Len(<<>>) = 0
  BY EmptySeq DEF Items
<1>5. ASSUME NEW d \in S!Clients
      PROVE  /\ inbox'[d] \in [S!Ends -> Items]
             /\ \A f \in S!Ends : Len(inbox'[d][f]) <= Room
             /\ d \in cs => inbox'[d][e] = <<>> /\ inbox'[d][o] = inbox[d][o]
  <2>1. inbox[d] \in [S!Ends -> Items] /\ \A f \in S!Ends : Len(inbox[d][f]) <= Room
    BY DEF ConnInv, ConnTypes
  <2>2. CASE d \notin cs
    BY <2>1, <2>2, <1>3
  <2>3. CASE d \in cs
    <3>1. inbox'[d] = [inbox[d] EXCEPT ![e] = <<>>]
      BY <2>3, <1>3
    <3>2. inbox'[d] \in [S!Ends -> Items]
      BY <2>1, <3>1, <1>4
    <3>3. inbox'[d][e] = <<>> /\ \A f \in S!Ends : f # e => inbox'[d][f] = inbox[d][f]
      BY <2>1, <3>1
    <3>4. Len(<<>>) <= Room
      BY <1>4, StreamsAssumption
    <3>5. \A f \in S!Ends : Len(inbox'[d][f]) <= Room
      BY <2>1, <3>3, <3>4
    <3>6. QED
      BY <3>2, <3>3, <3>5, <1>1
  <2>4. QED
    BY <2>2, <2>3
<1>6. /\ inbox' \in [S!Clients -> [S!Ends -> Items]]
      /\ \A d \in S!Clients, f \in S!Ends : Len(inbox'[d][f]) <= Room
  <2>1. inbox' = [d \in S!Clients |-> inbox'[d]]
    BY <1>2
  <2>2. QED
    BY <2>1, <1>5
<1>7. closed' \in [S!Clients -> SUBSET S!Ends]
  BY <1>2 DEF ConnInv, ConnTypes
<1>8. rst' \in [S!Clients -> SUBSET S!Ends] /\ err' \in [S!Clients -> SUBSET S!Ends]
  BY <1>1, <1>2 DEF ConnInv, ConnTypes
<1>9. \A d \in S!Clients : d \in resets => d \in cs /\ o \notin closed[d] /\ (inbox[d][e] # <<>> \/ d \in hard)
  BY DEF resets, S!Live
<1>10. ResetInv'
  <2>1. ASSUME NEW d \in S!Clients PROVE err'[d] \subseteq rst'[d]
    BY <1>3 DEF ConnInv, ResetInv
  <2>2. ASSUME NEW d \in S!Clients, NEW f \in S!Ends, f \in rst'[d] PROVE S!Other[f] \in closed'[d]
    <3>1. CASE f \in rst[d]
      BY <3>1, <1>3 DEF ConnInv, ResetInv
    <3>2. CASE f \notin rst[d]
      <4>1. d \in resets /\ f = o
        BY <2>2, <3>2, <1>3
      <4>2. closed'[d] = closed[d] \cup {e}
        BY <4>1, <1>3, <1>9
      <4>3. QED
        BY <4>1, <4>2, <1>1
    <3>3. QED
      BY <3>1, <3>2
  <2>3. QED
    BY <2>1, <2>2 DEF ResetInv
<1>11. ConnInv'
  BY <1>6, <1>7, <1>8, <1>10 DEF ConnInv, ConnTypes
<1>12. \A d \in S!Clients : d \notin cs => inbox'[d] = inbox[d] /\ closed'[d] = closed[d] /\ rst'[d] = rst[d]
  BY <1>3, <1>9
<1>13. ASSUME NEW d \in S!Clients, d \in cs
       PROVE  inbox'[d][e] = <<>> /\ inbox'[d][o] = inbox[d][o] /\ closed'[d] = closed[d] \cup {e}
  BY <1>3, <1>5, <1>13
<1>14. \A d \in S!Clients : rst[d] \subseteq rst'[d] /\ (e \in rst'[d] => e \in rst[d])
  BY <1>1, <1>3
<1>15. ASSUME NEW d \in S!Clients, o \in rst'[d], o \notin rst[d]
       PROVE  d \in cs /\ o \notin closed[d] /\ (inbox[d][e] # <<>> \/ d \in hard)
  BY <1>3, <1>9, <1>15
<1>16. QED
  BY <1>11, <1>12, <1>13, <1>14, <1>15
-----------------------------------------------------------------------------
(* The invariant                                                           *)
Visitors == {"client", "sigPipeClient", "tcpclient"}
PlacesOf(k) ==
  {"start", "ended", "failed"} \cup
  (IF k = "client" THEN {"send", "recv"} ELSE IF k = "sigPipeClient" THEN {"type", "send", "recv"}
   ELSE IF k = "tcpclient" THEN {"type", "send"} ELSE IF k = "download3" THEN {"status", "header", "body"}
   ELSE {"recv"})
StreamPlace == {"start", "send", "type", "recv", "status", "header", "body", "accept", "ended", "failed"}

HereTypes ==
  /\ program \in {"echo", "hi", "web"} /\ length \in {-1, 0, FileLen}
  /\ at \in [S!Clients \cup {"server"} -> StreamPlace]
  /\ kind \in [S!Clients -> Visitors \cup S!Readers \cup {S!Nobody}]
  /\ backlog \in Seq(S!Clients) /\ serving \in S!Clients \cup {S!Nobody}
  /\ hold \in Items /\ Len(hold) <= (IF program = "web" THEN FileLen + 2 ELSE Buffer)
  /\ typed \in [S!Clients -> 0 .. MaxLines]
  /\ out \in [S!Clients -> Items] /\ sent \in [S!Clients -> Items] /\ shown \in [S!Clients -> Items]

(* Which program has which clients, and where they and the server can be.    *)
KindsInv ==
  /\ program = "echo" => \A c \in S!Clients : kind[c] \in {"client", "sigPipeClient"}
  /\ program = "hi" => \A c \in S!Clients : kind[c] = "tcpclient"
  /\ program = "web" => kind["c1"] \in S!Readers /\ kind["c2"] = S!Nobody
ServerInv ==
  /\ at["server"] \in {"accept", "recv", "send", "ended"}
  /\ at["server"] \in {"recv", "send"} <=> serving # S!Nobody
  /\ program # "web" => (hold # <<>> <=> at["server"] = "send")
  /\ program = "hi" => at["server"] # "send"
  /\ program = "web" => at["server"] = "accept" /\ backlog = <<>> /\ at["c2"] = "start"
ClientsInv ==
  \A c \in S!Clients :
    /\ at[c] \in PlacesOf(kind[c])
    /\ at[c] = "send" \/ (at[c] = "start" /\ kind[c] = "client") => out[c] # <<>>
    /\ at[c] = "start" => closed[c] = {}
    /\ "client" \in closed[c] => at[c] \in {"ended", "failed"}

(* Who waits to be accepted is connected, waits once and is not served.      *)
QueueInv ==
  /\ \A j, k \in 1 .. Len(backlog) : backlog[j] = backlog[k] => j = k
  /\ \A j \in 1 .. Len(backlog) :
       backlog[j] # serving /\ at[backlog[j]] # "start" /\ "server" \notin closed[backlog[j]]
  /\ serving # S!Nobody => at[serving] # "start" /\ "server" \notin closed[serving]

(* Echo: what was sent is shown, or in one of the inboxes, or with the       *)
(* server.  Only a client that has not read its echo leaves the server       *)
(* something to send to a closed end.                                      *)
HeldFor(c) == IF serving = c THEN hold ELSE <<>>
OnItsWay(c) == HeldFor(c) \o inbox[c]["server"]
Back(c) == shown[c] \o inbox[c]["client"]
Unread(c) == kind[c] = "sigPipeClient" /\ at[c] = "ended" /\ shown[c] # sent[c]
EchoInv(c) ==
  /\ closed[c] = {} => Back(c) \o OnItsWay(c) = sent[c]
  /\ Leads(Back(c), sent[c])
  /\ ("client" \in closed[c] /\ "server" \notin closed[c] /\ OnItsWay(c) # <<>>) => Unread(c)
  /\ "server" \in rst[c] => Unread(c)
  /\ kind[c] = "client" /\ at[c] = "ended" => shown[c] = sent[c]
HiInv(c) ==
  /\ inbox[c]["client"] = <<>> /\ Leads(shown[c], sent[c])
  /\ "server" \notin closed[c] => shown[c] \o inbox[c]["server"] = sent[c]

(* Web: what download3 has read and not kept; the response is that, the      *)
(* file, the inbox and what the server still has.                          *)
Stripped ==
  IF kind["c1"] # "download3" \/ at["c1"] \in {"start", "status"} THEN <<>>
  ELSE IF at["c1"] = "header" THEN <<S!Status>> ELSE <<S!Status, S!Header>>
Wanted == IF kind["c1"] = "download3" THEN S!Body ELSE S!Response
WholeKinds == {"download2", "socket", "daytimetcpcli"}
WebsInv ==
  /\ "client" \notin closed["c1"] => (Stripped \o Back("c1")) \o hold = S!Response
  /\ at["c1"] \in {"start", "status", "header"} => shown["c1"] = <<>>
  /\ Leads(shown["c1"], Wanted)
  /\ (kind["c1"] = "download3" /\ at["c1"] = "ended" /\ "server" \notin closed["c1"]) => Len(shown["c1"]) = length
  /\ (kind["c1"] = "download" /\ at["c1"] = "ended") => Len(shown["c1"]) >= FileLen
  /\ (kind["c1"] \in WholeKinds /\ at["c1"] = "ended" /\ "client" \notin rst["c1"]) =>
       "server" \in closed["c1"] /\ shown["c1"] \o hold = S!Response

Sound(c) ==
  /\ program = "echo" => EchoInv(c)
  /\ program = "hi" => HiInv(c)
  /\ program = "web" /\ c = "c1" => WebsInv

StreamsIInv ==
  /\ HereTypes /\ ConnInv /\ KindsInv /\ ServerInv /\ ClientsInv /\ QueueInv
  /\ \A c \in S!Clients : Sound(c)
  /\ S!EndedByUnread
-----------------------------------------------------------------------------
(* A step of one client, who is connected: what is left to show of it.      *)
Others(c) ==
  /\ \A d \in S!Clients : d # c =>
       /\ inbox'[d] = inbox[d] /\ closed'[d] = closed[d] /\ rst'[d] = rst[d]
       /\ out'[d] = out[d] /\ sent'[d] = sent[d] /\ shown'[d] = shown[d]
Active(c) == at[c] \notin {"start", "ended", "failed"}

(* Clients, kinds and Nobody are told apart.                                *)
LEMMA Names ==
  /\ S!Clients = {"c1", "c2"} /\ S!Nobody \notin S!Clients /\ "server" \notin S!Clients
  /\ S!Nobody \notin S!Readers /\ S!Nobody \notin Visitors
  /\ S!Readers \cap Visitors = {} /\ "download3" \in S!Readers /\ "download" \in S!Readers
  /\ \A k \in S!Readers : k \in WholeKinds \cup {"download", "download3"}
BY DEF S!Clients, S!Nobody, S!Readers, Visitors, WholeKinds

(* A step of one client leaves what holds of the other.                     *)
LEMMA OtherIsSound ==
  ASSUME StreamsIInv, NEW c \in S!Clients, Others(c),
         program' = program, kind' = kind, length' = length, serving' = serving, hold' = hold,
         \A d \in S!Clients : d # c => at'[d] = at[d],
         NEW d \in S!Clients, d # c
  PROVE  Sound(d)' /\ (Unread(d) => Unread(d)')
<1>1. /\ inbox'[d] = inbox[d] /\ closed'[d] = closed[d] /\ rst'[d] = rst[d] /\ at'[d] = at[d]
      /\ out'[d] = out[d] /\ sent'[d] = sent[d] /\ shown'[d] = shown[d]
  BY DEF Others
<1>2. Back(d)' = Back(d) /\ HeldFor(d)' = HeldFor(d)
  BY <1>1 DEF Back, HeldFor
<1>3. OnItsWay(d)' = OnItsWay(d) /\ Unread(d)' = Unread(d)
  BY <1>1, <1>2 DEF OnItsWay, Unread
<1>4. Sound(d)
  BY DEF StreamsIInv
<1>5. program = "echo" => EchoInv(d)'
  BY <1>1, <1>2, <1>3, <1>4 DEF Sound, EchoInv
<1>6. program = "hi" => HiInv(d)'
  BY <1>1, <1>4 DEF Sound, HiInv
<1>7. S!Response' = S!Response /\ S!Body' = S!Body /\ Wanted' = Wanted
  BY DEF S!Response, S!Body, Wanted
<1>8. program = "web" /\ d = "c1" => WebsInv'
  <2>1. SUFFICES ASSUME program = "web", d = "c1" PROVE WebsInv'
    OBVIOUS
  <2>2. Stripped' = Stripped
    BY <2>1, <1>1 DEF Stripped
  <2>3. WebsInv
    BY <2>1, <1>4 DEF Sound
  <2>4. /\ inbox'["c1"] = inbox["c1"] /\ closed'["c1"] = closed["c1"] /\ rst'["c1"] = rst["c1"]
        /\ at'["c1"] = at["c1"] /\ shown'["c1"] = shown["c1"] /\ Back("c1")' = Back("c1")
    BY <2>1, <1>1, <1>2
  <2>5. QED
    BY <2>2, <2>3, <2>4, <1>7 DEF WebsInv
<1>9. QED
  BY <1>3, <1>5, <1>6, <1>8 DEF Sound

(* A step of a connected client: what is left to show is that its own       *)
(* connection stays sound.                                                  *)
LEMMA ClientFrame ==
  ASSUME StreamsIInv, NEW c \in S!Clients, Active(c), ConnInv', Others(c),
         UNCHANGED <<program, kind, length, serving, hold, backlog>>,
         NEW to \in PlacesOf(kind[c]), at' = [at EXCEPT ![c] = to], to # "start",
         out' \in [S!Clients -> Items], sent' \in [S!Clients -> Items], shown' \in [S!Clients -> Items],
         typed' \in [S!Clients -> 0 .. MaxLines],
         to = "send" => out'[c] # <<>>,
         "server" \in closed'[c] => "server" \in closed[c],
         "client" \in closed'[c] => to \in {"ended", "failed"},
         Sound(c)'
  PROVE  StreamsIInv'
<1>1. at \in [S!Clients \cup {"server"} -> StreamPlace] /\ HereTypes
  BY DEF StreamsIInv, HereTypes
<1>2. /\ at'[c] = to /\ \A d \in S!Clients : d # c => at'[d] = at[d]
      /\ at'["server"] = at["server"] /\ to \in StreamPlace
  BY <1>1, Names DEF PlacesOf, StreamPlace
<1>3. at' \in [S!Clients \cup {"server"} -> StreamPlace]
  BY <1>1, <1>2
<1>4. HereTypes'
  BY <1>1, <1>3 DEF HereTypes
<1>5. KindsInv'
  BY DEF StreamsIInv, KindsInv
<1>6. ServerInv'
  <2>1. program = "web" => c # "c2"
    BY DEF StreamsIInv, ServerInv, Active
  <2>2. program = "web" => at'["c2"] = at["c2"]
    BY <2>1, <1>2, Names
  <2>3. QED
    BY <1>2, <2>2 DEF StreamsIInv, ServerInv
<1>7. ClientsInv'
  <2>1. ASSUME NEW d \in S!Clients, d # c
        PROVE  /\ at'[d] = at[d] /\ kind'[d] = kind[d] /\ out'[d] = out[d] /\ closed'[d] = closed[d]
    BY <2>1, <1>2 DEF Others
  <2>2. QED
    BY <2>1, <1>2 DEF StreamsIInv, ClientsInv
<1>8. QueueInv'
  <2>1. ASSUME NEW d \in S!Clients, at[d] # "start", "server" \notin closed[d]
        PROVE  at'[d] # "start" /\ "server" \notin closed'[d]
    BY <2>1, <1>2 DEF Others
  <2>2. \A j \in 1 .. Len(backlog) : backlog[j] \in S!Clients
    BY <1>1 DEF HereTypes
  <2>3. serving # S!Nobody => serving \in S!Clients
    BY <1>1 DEF HereTypes
  <2>4. QED
    BY <2>1, <2>2, <2>3 DEF StreamsIInv, QueueInv
<1>9. \A d \in S!Clients : Sound(d)'
  BY <1>2, OtherIsSound
<1>10. S!EndedByUnread'
  <2>1. SUFFICES ASSUME program = "echo", at["server"] = "ended" PROVE \E d \in S!Clients : Unread(d)'
    BY <1>2 DEF S!EndedByUnread, Unread
  <2>2. PICK d \in S!Clients : Unread(d)
    BY <2>1 DEF StreamsIInv, S!EndedByUnread, Unread
  <2>3. d # c
    BY <2>2 DEF Unread, Active
  <2>4. Unread(d)'
    BY <2>2, <2>3, <1>2, OtherIsSound
  <2>5. QED
    BY <2>4
<1>11. QED
  BY <1>4, <1>5, <1>6, <1>7, <1>8, <1>9, <1>10 DEF StreamsIInv

(* A client that is active is connected, and what it has is typed.          *)
LEMMA ActiveClient ==
  ASSUME StreamsIInv, NEW c \in S!Clients
  PROVE  /\ Active(c) => "client" \notin closed[c]
         /\ inbox[c]["client"] \in Items /\ inbox[c]["server"] \in Items /\ HeldFor(c) \in Items
         /\ shown[c] \in Items /\ sent[c] \in Items /\ out[c] \in Items /\ hold \in Items
         /\ Back(c) \in Items /\ OnItsWay(c) \in Items
<1>1. Active(c) => "client" \notin closed[c]
  BY DEF StreamsIInv, ClientsInv, Active
<1>2. inbox[c]["client"] \in Items /\ inbox[c]["server"] \in Items
  BY TwoEnds DEF StreamsIInv, ConnInv, ConnTypes
<1>3. shown[c] \in Items /\ sent[c] \in Items /\ out[c] \in Items /\ hold \in Items
  BY DEF StreamsIInv, HereTypes
<1>4. HeldFor(c) \in Items
  BY <1>3, CatEmpty DEF HeldFor
<1>5. Back(c) \in Items /\ OnItsWay(c) \in Items
  BY <1>2, <1>3, <1>4, Cat DEF Back, OnItsWay
<1>6. QED
  BY <1>1, <1>2, <1>3, <1>4, <1>5

(* The file: what was kept is the beginning of what was wanted.             *)
LEMMA ResponseTypes ==
  ASSUME StreamsIInv
  PROVE  /\ S!Response \in Items /\ S!Body \in Items /\ Stripped \in Items /\ Wanted \in Items
         /\ <<S!Status, S!Header>> \in Items /\ <<S!Status>> \in Items
         /\ kind["c1"] = "download3" => S!Response = <<S!Status, S!Header>> \o S!Body
<1>1. <<S!Status, S!Header>> \in Items /\ <<S!Status>> \in Items
  BY DEF Items, S!Status, S!Header
<1>2. S!Body \in Items
  <2>1. (IF length = 0 THEN 0 ELSE FileLen) \in Nat
    BY StreamsAssumption
  <2>2. \A m \in Nat : [j \in 1 .. m |-> j] \in Items
    BY DEF Items
  <2>3. QED
    BY <2>1, <2>2 DEF S!Body, S!First
<1>3. S!Response \in Items
  BY <1>1, <1>2, Cat, CatEmpty DEF S!Response
<1>4. Stripped \in Items /\ Wanted \in Items
  BY <1>1, <1>2, <1>3, CatEmpty DEF Stripped, Wanted
<1>5. QED
  BY <1>1, <1>2, <1>3, <1>4 DEF S!Response

(* What was kept is the beginning of what was wanted.                       *)
LEMMA FileLeads ==
  ASSUME StreamsIInv, NEW f \in Items, NEW rest \in Items, (Stripped \o f) \o rest = S!Response,
         kind["c1"] = "download3" => at["c1"] = "body" \/ f = <<>>
  PROVE  Leads(f, Wanted)
<1>1. Stripped \o (f \o rest) = S!Response /\ f \o rest \in Items
  <2>1. Stripped \in Items
    BY ResponseTypes
  <2>2. (Stripped \o f) \o rest = Stripped \o (f \o rest) /\ f \o rest \in Items
    BY <2>1, CatAgain, Cat
  <2>3. QED
    BY <2>2
<1>2. CASE kind["c1"] # "download3"
  <2>1. Stripped = <<>> /\ Wanted = S!Response
    BY <1>2 DEF Stripped, Wanted
  <2>2. f \o rest = Wanted
    BY <2>1, <1>1, CatEmpty
  <2>3. Leads(f, f \o rest)
    BY LeadsCat
  <2>4. QED
    BY <2>2, <2>3
<1>3. CASE kind["c1"] = "download3" /\ at["c1"] = "body"
  <2>1. Stripped = <<S!Status, S!Header>> /\ Wanted = S!Body
    BY <1>3 DEF Stripped, Wanted
  <2>2. f \o rest = S!Body
    <3>1. <<S!Status, S!Header>> \o (f \o rest) = <<S!Status, S!Header>> \o S!Body
      BY <2>1, <1>1, <1>3, ResponseTypes
    <3>2. QED
      BY <3>1, <1>1, ResponseTypes, ConcatSimplifications DEF Items
  <2>3. Leads(f, f \o rest)
    BY LeadsCat
  <2>4. QED
    BY <2>1, <2>2, <2>3
<1>4. CASE f = <<>>
  BY <1>4, CatEmpty, ResponseTypes DEF Leads, Items
<1>5. QED
  BY <1>2, <1>3, <1>4

(* What a client has received is shown.                                    *)
LEMMA ReceivesStep ==
  ASSUME StreamsIInv, NEW c \in S!Clients, Active(c), NEW k, S!Shows(c, k), kind[c] # "tcpclient",
         UNCHANGED <<program, kind, length, backlog, serving, hold, out, sent, typed>>,
         NEW to \in PlacesOf(kind[c]), at' = [at EXCEPT ![c] = to], to \in {"recv", "body", "type"},
         program = "web" => c = "c1" /\ to = at[c] /\ at[c] \in {"recv", "body"}
  PROVE  StreamsIInv'
<1> DEFINE s == inbox[c]["client"]
           got == SubSeq(s, 1, k)
           left == SubSeq(s, k + 1, Len(s))
<1>1. S!Takes("client", c, k) /\ shown' = [shown EXCEPT ![c] = @ \o got]
  BY DEF S!Shows, S!Got
<1>2. /\ ConnInv' /\ closed' = closed /\ rst' = rst /\ k \in 1 .. Len(s)
      /\ \A d \in S!Clients : d # c => inbox'[d] = inbox[d]
      /\ inbox'[c]["server"] = inbox[c]["server"] /\ inbox'[c]["client"] = left
  BY <1>1, TakeEffect, TwoEnds DEF StreamsIInv
<1>3. /\ s \in Items /\ shown[c] \in Items /\ sent[c] \in Items
      /\ shown \in [S!Clients -> Items] /\ at \in [S!Clients \cup {"server"} -> StreamPlace]
  BY ActiveClient DEF StreamsIInv, HereTypes
<1>4. got \in Items /\ left \in Items /\ shown[c] \o got \in Items
  BY <1>2, <1>3, TakeCat, Cat
<1> HIDE DEF got, left
<1>5. /\ shown'[c] = shown[c] \o got /\ \A d \in S!Clients : d # c => shown'[d] = shown[d]
      /\ shown' \in [S!Clients -> Items] /\ at'[c] = to
  BY <1>1, <1>3, <1>4
<1>6. Back(c)' = Back(c)
  <2>1. (shown[c] \o got) \o left = shown[c] \o s
    BY <1>2, <1>3, ReceivedCat DEF got, left
  <2>2. QED
    BY <2>1, <1>2, <1>5 DEF Back
<1>7. Others(c)
  BY <1>2, <1>5 DEF Others
<1>8. Sound(c)
  BY DEF StreamsIInv
<1>9. "client" \notin closed[c]
  BY ActiveClient
<1>10. program = "echo" => EchoInv(c)'
  <2>1. OnItsWay(c)' = OnItsWay(c)
    BY <1>2 DEF OnItsWay, HeldFor
  <2>2. "server" \notin rst[c]
    BY <1>9, TwoEnds DEF StreamsIInv, ConnInv, ResetInv
  <2>3. QED
    BY <2>1, <2>2, <1>2, <1>5, <1>6, <1>8, <1>9 DEF Sound, EchoInv
<1>11. program # "hi"
  BY DEF StreamsIInv, KindsInv
<1>12. program = "web" => WebsInv'
  <2>1. SUFFICES ASSUME program = "web" PROVE WebsInv'
    OBVIOUS
  <2>2. c = "c1" /\ at'["c1"] = at["c1"] /\ at["c1"] \in {"recv", "body"} /\ WebsInv
    BY <2>1, <1>5, <1>8 DEF Sound
  <2>3. Stripped' = Stripped /\ S!Response' = S!Response /\ Wanted' = Wanted
    BY <2>2 DEF Stripped, S!Response, S!Body, Wanted
  <2>4. (Stripped \o Back("c1")) \o hold = S!Response
    BY <2>2, <1>9 DEF WebsInv
  <2>5. Leads(shown'["c1"], Wanted)
    <3>1. PICK f \in Items : f = shown'["c1"]
      BY <1>4, <1>5, <2>2
    <3>2. Back("c1") = f \o left
      BY <3>1, <1>2, <1>5, <1>6, <2>2 DEF Back
    <3>3. hold \in Items /\ Stripped \in Items
      BY ActiveClient, ResponseTypes
    <3>4. (Stripped \o (f \o left)) \o hold = (Stripped \o f) \o (left \o hold)
      <4>1. left \in Items
        BY <1>4
      <4>2. Stripped \o f \in Items /\ (Stripped \o f) \o left = Stripped \o (f \o left)
        <5>1. Stripped \o f \in Items
          BY <3>3, CatType
        <5>2. (Stripped \o f) \o left = Stripped \o (f \o left)
          BY <4>1, <3>3, CatAgain
        <5>3. QED
          BY <5>1, <5>2
      <4>3. ((Stripped \o f) \o left) \o hold = (Stripped \o f) \o (left \o hold)
        BY <4>1, <4>2, <3>3, CatAgain
      <4>4. QED
        BY <4>2, <4>3
    <3>5. kind["c1"] = "download3" => at["c1"] = "body"
      BY <2>2, <1>3 DEF StreamsIInv, ClientsInv, PlacesOf
    <3>6. left \o hold \in Items /\ (Stripped \o f) \o (left \o hold) = S!Response
      BY <1>4, <2>4, <3>2, <3>3, <3>4, Cat
    <3>7. QED
      BY <3>1, <3>5, <3>6, FileLeads
  <2>6. QED
    BY <2>2, <2>3, <2>4, <2>5, <1>2, <1>6 DEF WebsInv
<1>13. Sound(c)'
  BY <1>10, <1>11, <1>12 DEF Sound
<1>14. QED
  <2>1. /\ out' \in [S!Clients -> Items] /\ sent' \in [S!Clients -> Items]
        /\ typed' \in [S!Clients -> 0 .. MaxLines]
    BY DEF StreamsIInv, HereTypes
  <2>2. UNCHANGED <<program, kind, length, serving, hold, backlog>>
    OBVIOUS
  <2>3. /\ to # "start" /\ to # "send" /\ ("server" \in closed'[c] => "server" \in closed[c])
        /\ "client" \notin closed'[c]
    BY <1>2, <1>9
  <2>4. QED
    BY <1>2, <1>5, <1>7, <1>13, <2>1, <2>2, <2>3, ClientFrame

(* A client that closes its end leaves unread what is in its inbox.          *)
LEMMA LeavesStep ==
  ASSUME StreamsIInv, NEW c \in S!Clients, Active(c), NEW how \in {"ended", "failed"}, S!Leaves(c, how),
         UNCHANGED <<program, kind, length>>,
         program = "echo" =>
           \/ kind[c] = "sigPipeClient" /\ how = "ended"
           \/ "server" \in closed[c]
           \/ Len(shown[c]) >= Len(sent[c]),
         kind[c] = "client" /\ how = "ended" => Len(shown[c]) >= Len(sent[c]),
         program = "web" => c = "c1",
         program = "web" /\ how = "ended" =>
           /\ kind["c1"] = "download3" /\ "server" \notin closed["c1"] => Len(shown["c1"]) = length
           /\ kind["c1"] = "download" => Len(shown["c1"]) >= FileLen
           /\ kind["c1"] \in WholeKinds /\ "client" \notin rst["c1"] =>
                "server" \in closed["c1"] /\ inbox["c1"]["client"] = <<>>
  PROVE  StreamsIInv'
<1>1. /\ at' = [at EXCEPT ![c] = how] /\ S!CloseAll("client", {c}, {})
      /\ UNCHANGED <<backlog, serving, hold, out, sent, shown, typed>>
  BY DEF S!Leaves, S!Goes, S!srv, S!cli
<1>2. ConnInv /\ "client" \in S!Ends /\ S!Other["client"] = "server" /\ Sound(c)
  BY TwoEnds DEF StreamsIInv
<1>3. /\ ConnInv'
      /\ \A d \in S!Clients : d \notin {c} => inbox'[d] = inbox[d] /\ closed'[d] = closed[d] /\ rst'[d] = rst[d]
      /\ \A d \in S!Clients : d \in {c} =>
              /\ inbox'[d]["client"] = <<>> /\ inbox'[d][S!Other["client"]] = inbox[d][S!Other["client"]]
              /\ closed'[d] = closed[d] \cup {"client"}
      /\ \A d \in S!Clients : "client" \in rst'[d] => "client" \in rst[d]
      /\ \A d \in S!Clients : rst[d] \subseteq rst'[d]
      /\ \A d \in S!Clients : S!Other["client"] \in rst'[d] =>
              \/ S!Other["client"] \in rst[d]
              \/ d \in {c} /\ S!Other["client"] \notin closed[d] /\ (inbox[d]["client"] # <<>> \/ d \in {})
  BY <1>1, <1>2, CloseEffect
<1>4. /\ inbox'[c]["client"] = <<>> /\ inbox'[c]["server"] = inbox[c]["server"]
      /\ closed'[c] = closed[c] \cup {"client"} /\ rst[c] \subseteq rst'[c]
      /\ "client" \in rst'[c] => "client" \in rst[c]
      /\ "server" \in rst'[c] => "server" \in rst[c] \/ ("server" \notin closed[c] /\ inbox[c]["client"] # <<>>)
  BY <1>2, <1>3
<1>5. /\ Others(c) /\ at'[c] = how
  BY <1>1, <1>3 DEF Others, StreamsIInv, HereTypes
<1>6. "client" \notin closed[c] /\ shown[c] \in Items /\ sent[c] \in Items /\ inbox[c]["client"] \in Items
  BY ActiveClient
<1>7. "server" \notin rst[c]
  BY <1>6, TwoEnds DEF StreamsIInv, ConnInv, ResetInv
<1>8. closed[c] \subseteq {"client", "server"}
  BY TwoEnds DEF StreamsIInv, ConnInv, ConnTypes
<1>9. program = "echo" => EchoInv(c)'
  <2>1. SUFFICES ASSUME program = "echo" PROVE EchoInv(c)'
    OBVIOUS
  <2>2. EchoInv(c)
    BY <2>1, <1>2 DEF Sound
  <2>3. Back(c)' = shown[c] /\ OnItsWay(c)' = OnItsWay(c)
    BY <1>1, <1>4, <1>6, CatEmpty DEF Back, OnItsWay, HeldFor
  <2>4. Leads(shown[c], sent[c]) /\ Len(shown[c]) + Len(inbox[c]["client"]) <= Len(sent[c])
    BY <2>2, <1>6, LeadsCat DEF EchoInv, Back
  <2>5. Len(shown[c]) < Len(sent[c]) /\ "server" \notin closed[c] => Unread(c)'
    <3>1. Len(shown[c]) \in Nat /\ Len(sent[c]) \in Nat
      BY <1>6 DEF Items
    <3>2. Len(shown[c]) < Len(sent[c]) => shown[c] # sent[c]
      BY <3>1
    <3>3. QED
      BY <3>1, <3>2, <2>1, <1>1, <1>5 DEF Unread
  <2>6. "server" \in rst'[c] => Unread(c)'
    <3>1. inbox[c]["client"] # <<>> => Len(shown[c]) < Len(sent[c])
      <4>1. Len(shown[c]) \in Nat /\ Len(sent[c]) \in Nat /\ Len(inbox[c]["client"]) \in Nat
        BY <1>6, LenIs
      <4>2. inbox[c]["client"] # <<>> => Len(inbox[c]["client"]) > 0
        BY <1>6, LenIs
      <4>3. QED
        <5>1. \A x, y, z \in Nat : x + z <= y /\ z > 0 => x < y
          OBVIOUS
        <5>2. Len(shown[c]) + Len(inbox[c]["client"]) <= Len(sent[c])
          BY <2>4
        <5>3. QED
          BY ONLY <5>1, <5>2, <4>1, <4>2
    <3>2. QED
      BY <3>1, <2>5, <1>4, <1>7
  <2>7. "server" \notin closed'[c] /\ OnItsWay(c)' # <<>> => Unread(c)'
    <3>1. SUFFICES ASSUME "server" \notin closed'[c], OnItsWay(c) # <<>> PROVE Unread(c)'
      BY <2>3
    <3>2. closed[c] = {} /\ "server" \notin closed[c]
      BY <3>1, <1>4, <1>6, <1>8
    <3>3. Back(c) \o OnItsWay(c) = sent[c]
      BY <3>2, <2>2 DEF EchoInv
    <3>4. Len(sent[c]) = Len(shown[c]) + Len(inbox[c]["client"]) + Len(OnItsWay(c))
      <4>1. Back(c) \in Items /\ OnItsWay(c) \in Items
        BY ActiveClient
      <4>2. Len(sent[c]) = Len(Back(c)) + Len(OnItsWay(c))
        BY <4>1, <3>3, Cat
      <4>3. Len(Back(c)) = Len(shown[c]) + Len(inbox[c]["client"])
        BY <1>6, Cat DEF Back
      <4>4. QED
        BY <4>2, <4>3
    <3>5. Len(OnItsWay(c)) \in Nat \ {0} /\ Len(inbox[c]["client"]) \in Nat /\ Len(shown[c]) \in Nat
      <4>1. OnItsWay(c) \in Items /\ inbox[c]["client"] \in Items /\ shown[c] \in Items
        BY ActiveClient
      <4>2. QED
        BY <4>1, <3>1, LenIs
    <3>6. QED
      <4>1. \A x, y \in Nat : \A z \in Nat \ {0} : x < x + y + z
        OBVIOUS
      <4>2. Len(shown[c]) < Len(sent[c])
        BY ONLY <4>1, <3>4, <3>5
      <4>3. QED
        BY <3>2, <4>2, <2>5
  <2>8. kind[c] = "client" /\ how = "ended" => shown[c] = sent[c]
    BY <2>4, <1>6, LeadsCat
  <2>9. QED
    BY <2>3, <2>4, <2>6, <2>7, <2>8, <1>1, <1>4, <1>5 DEF EchoInv
<1>10. program = "hi" => HiInv(c)'
  BY <1>1, <1>2, <1>4 DEF Sound, HiInv
<1>11. program = "web" => WebsInv'
  <2>1. SUFFICES ASSUME program = "web" PROVE WebsInv'
    OBVIOUS
  <2>2. c = "c1" /\ WebsInv /\ at'["c1"] = how
    BY <2>1, <1>2, <1>5 DEF Sound
  <2>3. S!Response' = S!Response /\ Wanted' = Wanted
    BY DEF S!Response, S!Body, Wanted
  <2>4. kind["c1"] \in WholeKinds /\ inbox["c1"]["client"] = <<>> => shown["c1"] \o hold = S!Response
    <3>1. SUFFICES ASSUME kind["c1"] \in WholeKinds, inbox["c1"]["client"] = <<>> PROVE shown["c1"] \o hold = S!Response
      OBVIOUS
    <3>2. Stripped = <<>>
      BY <3>1 DEF Stripped, WholeKinds
    <3>3. Back("c1") = shown["c1"] /\ <<>> \o shown["c1"] = shown["c1"]
      BY <3>1, <2>2, <1>6, CatEmpty DEF Back
    <3>4. QED
      BY <3>2, <3>3, <2>2, <1>6 DEF WebsInv
  <2>5. shown'["c1"] = shown["c1"] /\ "client" \in closed'["c1"] /\ kind' = kind /\ length' = length /\ hold' = hold
    BY <2>2, <1>1, <1>4
  <2>6. Leads(shown'["c1"], Wanted')
    BY <2>2, <2>3, <2>5 DEF WebsInv
  <2>7. (kind'["c1"] = "download3" /\ at'["c1"] = "ended" /\ "server" \notin closed'["c1"]) => Len(shown'["c1"]) = length'
    BY <2>1, <2>2, <2>5, <1>4
  <2>8. (kind'["c1"] = "download" /\ at'["c1"] = "ended") => Len(shown'["c1"]) >= FileLen
    BY <2>1, <2>2, <2>5
  <2>9. (kind'["c1"] \in WholeKinds /\ at'["c1"] = "ended" /\ "client" \notin rst'["c1"]) =>
          "server" \in closed'["c1"] /\ shown'["c1"] \o hold' = S!Response'
    BY <2>1, <2>2, <2>3, <2>4, <2>5, <1>4
  <2>10. QED
    BY <2>2, <2>5, <2>6, <2>7, <2>8, <2>9 DEF WebsInv
<1>12. Sound(c)'
  BY <1>9, <1>10, <1>11 DEF Sound
<1>13. how \in PlacesOf(kind[c]) /\ how # "start" /\ how # "send"
  BY DEF PlacesOf
<1>14. QED
  <2>1. /\ out' \in [S!Clients -> Items] /\ sent' \in [S!Clients -> Items] /\ shown' \in [S!Clients -> Items]
        /\ typed' \in [S!Clients -> 0 .. MaxLines]
    BY <1>1 DEF StreamsIInv, HereTypes
  <2>2. UNCHANGED <<program, kind, length, serving, hold, backlog>>
    BY <1>1
  <2>3. "server" \in closed'[c] => "server" \in closed[c]
    BY <1>4
  <2>4. QED
    BY <1>1, <1>3, <1>5, <1>12, <1>13, <2>1, <2>2, <2>3, ClientFrame

(* The client tells the program.                                           *)
LEMMA ProgramOf ==
  ASSUME StreamsIInv, NEW c \in S!Clients
  PROVE  /\ program \in {"echo", "hi", "web"}
         /\ program = "web" => c = "c1" \/ at[c] = "start"
         /\ kind[c] \in {"client", "sigPipeClient"} => program = "echo"
         /\ kind[c] = "tcpclient" => program = "hi"
         /\ kind[c] \in S!Readers => program = "web"
         /\ program = "echo" => kind[c] \in {"client", "sigPipeClient"}
         /\ program = "hi" => kind[c] = "tcpclient"
         /\ program = "web" /\ c = "c1" => kind[c] \in S!Readers
         /\ at[c] \in PlacesOf(kind[c])
<1>1. program = "web" => kind["c1"] \in S!Readers /\ kind["c2"] = S!Nobody /\ at["c2"] = "start"
  BY DEF StreamsIInv, KindsInv, ServerInv
<1>2. c \in {"c1", "c2"}
  BY Names
<1>3. program = "echo" => kind[c] \in {"client", "sigPipeClient"}
  BY DEF StreamsIInv, KindsInv
<1>4. program = "hi" => kind[c] = "tcpclient"
  BY DEF StreamsIInv, KindsInv
<1>5. program \in {"echo", "hi", "web"} /\ at[c] \in PlacesOf(kind[c])
  BY DEF StreamsIInv, HereTypes, ClientsInv
<1>6. /\ "client" \notin S!Readers /\ "sigPipeClient" \notin S!Readers /\ "tcpclient" \notin S!Readers
      /\ S!Nobody \notin S!Readers /\ S!Nobody \notin {"client", "sigPipeClient", "tcpclient"}
  BY DEF S!Readers, S!Nobody
<1>7. QED
  BY <1>1, <1>2, <1>3, <1>4, <1>5, <1>6

(* client.c receives some of its echo, or gives up, or has it all.          *)
LEMMA WordRecvStep ==
  ASSUME StreamsIInv, NEW c \in S!Clients, S!WordRecv(c), UNCHANGED <<program, kind, length>>
  PROVE  StreamsIInv'
<1>1. kind[c] = "client" /\ at[c] = "recv" /\ program = "echo" /\ Active(c)
  BY ProgramOf DEF S!WordRecv, Active
<1>2. ASSUME NEW k, S!Shows(c, k), UNCHANGED <<at, S!srv, out, sent, typed>> PROVE StreamsIInv'
  <2>1. at' = [at EXCEPT ![c] = "recv"] /\ UNCHANGED <<program, kind, length, backlog, serving, hold, out, sent, typed>>
    BY <1>1, <1>2 DEF StreamsIInv, HereTypes, S!srv
  <2>2. "recv" \in PlacesOf(kind[c]) /\ program # "web" /\ kind[c] # "tcpclient"
    BY <1>1 DEF PlacesOf
  <2>3. QED
    BY <1>1, <1>2, <2>1, <2>2, ReceivesStep
<1>3. ASSUME S!NoData("client", c), S!Leaves(c, "failed") PROVE StreamsIInv'
  <2>1. "server" \in closed[c]
    BY <1>1, <1>3, TwoEnds, ActiveClient DEF S!NoData, S!AtEnd, S!Live, StreamsIInv, ConnInv, ResetInv
  <2>2. QED
    BY <1>1, <1>3, <2>1, LeavesStep
<1>4. ASSUME Len(shown[c]) >= Len(sent[c]), S!Leaves(c, "ended") PROVE StreamsIInv'
  BY <1>1, <1>4, LeavesStep
<1>5. QED
  BY <1>2, <1>3, <1>4 DEF S!WordRecv

(* download.c receives, has its bytes, or fails.                            *)
LEMMA DownloadStep ==
  ASSUME StreamsIInv, NEW c \in S!Clients, S!DownloadRecv(c), UNCHANGED <<program, kind, length>>
  PROVE  StreamsIInv'
<1>1. kind[c] = "download" /\ at[c] = "recv" /\ program = "web" /\ c = "c1" /\ Active(c)
  BY ProgramOf, Names DEF S!DownloadRecv, Active
<1>2. ASSUME NEW k, S!Shows(c, k), UNCHANGED <<at, S!srv, out, sent, typed>> PROVE StreamsIInv'
  <2>1. at' = [at EXCEPT ![c] = "recv"] /\ UNCHANGED <<program, kind, length, backlog, serving, hold, out, sent, typed>>
    BY <1>1, <1>2 DEF StreamsIInv, HereTypes, S!srv
  <2>2. "recv" \in PlacesOf(kind[c]) /\ kind[c] # "tcpclient"
    BY <1>1 DEF PlacesOf
  <2>3. QED
    BY <1>1, <1>2, <2>1, <2>2, ReceivesStep
<1>3. ASSUME S!Leaves(c, "failed") PROVE StreamsIInv'
  BY <1>1, <1>3, LeavesStep
<1>4. ASSUME Len(shown[c]) >= FileLen, S!Leaves(c, "ended") PROVE StreamsIInv'
  BY <1>1, <1>4, LeavesStep DEF WholeKinds
<1>5. QED
  BY <1>2, <1>3, <1>4 DEF S!DownloadRecv

(* download3.c receives the body, or ends.                                  *)
LEMMA ReadBodyStep ==
  ASSUME StreamsIInv, NEW c \in S!Clients, S!ReadBody(c), UNCHANGED <<program, kind, length>>
  PROVE  StreamsIInv'
<1>1. kind[c] = "download3" /\ at[c] = "body" /\ program = "web" /\ c = "c1" /\ Active(c)
  <2>1. at[c] = "body" /\ Active(c)
    BY DEF S!ReadBody, Active
  <2>2. kind[c] = "download3"
    BY <2>1, ProgramOf DEF PlacesOf
  <2>3. QED
    BY <2>1, <2>2, ProgramOf, Names
<1>2. ASSUME NEW k, S!Shows(c, k), UNCHANGED <<at, S!srv, out, sent, typed>> PROVE StreamsIInv'
  <2>1. at' = [at EXCEPT ![c] = "body"] /\ UNCHANGED <<program, kind, length, backlog, serving, hold, out, sent, typed>>
    BY <1>1, <1>2 DEF StreamsIInv, HereTypes, S!srv
  <2>2. "body" \in PlacesOf(kind[c]) /\ kind[c] # "tcpclient"
    BY <1>1 DEF PlacesOf
  <2>3. QED
    BY <1>1, <1>2, <2>1, <2>2, ReceivesStep
<1>3. ASSUME S!Leaves(c, "failed") PROVE StreamsIInv'
  BY <1>1, <1>3, LeavesStep
<1>4. ASSUME Len(shown[c]) = length \/ S!AtEnd("client", c), S!Leaves(c, "ended") PROVE StreamsIInv'
  <2>1. Len(shown[c]) = length \/ "server" \in closed[c]
    BY <1>4, TwoEnds DEF S!AtEnd, S!Live, StreamsIInv, ConnInv, ResetInv
  <2>2. QED
    BY <1>1, <1>4, <2>1, LeavesStep DEF WholeKinds
<1>5. QED
  BY <1>2, <1>3, <1>4 DEF S!ReadBody

(* The readers to the end receive, or end.                                  *)
LEMMA ReadAllStep ==
  ASSUME StreamsIInv, NEW c \in S!Clients, S!ReadAll(c), UNCHANGED <<program, kind, length>>
  PROVE  StreamsIInv'
<1>1. kind[c] \in WholeKinds /\ at[c] = "recv" /\ program = "web" /\ c = "c1" /\ Active(c)
  <2>1. kind[c] \in WholeKinds /\ at[c] = "recv" /\ kind[c] \in S!Readers
    BY DEF S!ReadAll, S!Readers, WholeKinds
  <2>2. QED
    BY <2>1, ProgramOf DEF Active
<1>2. ASSUME NEW k, S!Shows(c, k), UNCHANGED <<at, S!srv, out, sent, typed>> PROVE StreamsIInv'
  <2>1. at' = [at EXCEPT ![c] = "recv"] /\ UNCHANGED <<program, kind, length, backlog, serving, hold, out, sent, typed>>
    BY <1>1, <1>2 DEF StreamsIInv, HereTypes, S!srv
  <2>2. "recv" \in PlacesOf(kind[c]) /\ kind[c] # "tcpclient"
    BY <1>1 DEF PlacesOf, WholeKinds
  <2>3. QED
    BY <1>1, <1>2, <2>1, <2>2, ReceivesStep
<1>3. ASSUME S!AtEnd("client", c) \/ "client" \in err[c], S!Leaves(c, "ended") PROVE StreamsIInv'
  <2>1. "client" \notin rst[c] => "server" \in closed[c] /\ inbox[c]["client"] = <<>>
    BY <1>3, TwoEnds DEF S!AtEnd, S!Live, StreamsIInv, ConnInv, ResetInv
  <2>2. kind[c] \notin {"download", "download3", "client"}
    BY <1>1 DEF WholeKinds
  <2>3. QED
    BY <1>1, <1>3, <2>1, <2>2, LeavesStep
<1>4. ASSUME S!RecvFails("client", c), UNCHANGED <<at, S!srv, S!cli>> PROVE StreamsIInv'
  <2>1. ConnInv' /\ inbox' = inbox /\ closed' = closed /\ rst' = rst
    BY <1>4, FailEffect, TwoEnds DEF StreamsIInv
  <2>2. UNCHANGED <<at, backlog, serving, hold, out, sent, shown, typed>>
    BY <1>4 DEF S!srv, S!cli
  <2>3. \A d \in S!Clients : Sound(d)'
    BY <2>1, <2>2 DEF StreamsIInv, Sound, EchoInv, HiInv, WebsInv, Back, OnItsWay, HeldFor, Unread,
                      Stripped, Wanted, S!Response, S!Body
  <2>4. HereTypes' /\ KindsInv' /\ ServerInv' /\ ClientsInv' /\ QueueInv' /\ S!EndedByUnread'
    BY <2>1, <2>2 DEF StreamsIInv, HereTypes, KindsInv, ServerInv, ClientsInv, QueueInv, S!EndedByUnread
  <2>5. QED
    BY <2>1, <2>3, <2>4 DEF StreamsIInv
<1>5. QED
  BY <1>2, <1>3, <1>4 DEF S!ReadAll

(* download3 reads a header it does not keep.                               *)
LEMMA StripStep ==
  ASSUME StreamsIInv, NEW c \in S!Clients, UNCHANGED <<program, kind, length, S!srv, S!cli>>,
         at[c] \in {"status", "header"}, S!Takes("client", c, 1),
         at' = [at EXCEPT ![c] = IF at[c] = "status" THEN "header" ELSE "body"]
  PROVE  StreamsIInv'
<1> DEFINE s == inbox[c]["client"]
           to == IF at[c] = "status" THEN "header" ELSE "body"
<1>1. kind[c] = "download3" /\ program = "web" /\ c = "c1" /\ Active(c)
  <2>1. kind[c] = "download3"
    BY ProgramOf DEF PlacesOf
  <2>2. QED
    BY <2>1, ProgramOf, Names DEF Active
<1>2. /\ ConnInv' /\ closed' = closed /\ rst' = rst /\ 1 \in 1 .. Len(s)
      /\ \A d \in S!Clients : d # c => inbox'[d] = inbox[d]
      /\ inbox'[c]["client"] = SubSeq(s, 1 + 1, Len(s))
  BY TakeEffect, TwoEnds DEF StreamsIInv
<1>3. UNCHANGED <<backlog, serving, hold, out, sent, shown, typed>>
  BY DEF S!srv, S!cli
<1>4. s \in Items /\ hold \in Items /\ shown["c1"] \in Items
  BY <1>1, ActiveClient
<1>5. s # <<>> /\ SubSeq(s, 1 + 1, Len(s)) = Tail(s)
  <2>1. Len(s) \in Nat \ {0}
    BY <1>2, <1>4, LenIs
  <2>2. s # <<>>
    BY <2>1, EmptySeq
  <2>3. QED
    BY <2>2, <1>4, TailIsSubSeq DEF Items
<1> HIDE DEF s
<1>6. Others(c) /\ at'[c] = to /\ "client" \notin closed[c]
  BY <1>2, <1>3, <1>1, ActiveClient DEF Others, StreamsIInv, HereTypes
<1>7. WebsInv /\ shown["c1"] = <<>>
  BY <1>1 DEF StreamsIInv, Sound, WebsInv
<1>8. (Stripped \o s) \o hold = S!Response /\ Stripped' = Append(Stripped, Head(s))
  <2>1. Back("c1") = s
    BY <1>1, <1>4, <1>7, CatEmpty DEF Back, s
  <2>2. (Stripped \o s) \o hold = S!Response
    BY <2>1, <1>1, <1>6, <1>7 DEF WebsInv
  <2>3. S!Response = <<S!Status, S!Header>> \o S!Body
    BY <1>1, ResponseTypes
  <2>4. S!Response[1] = S!Status /\ S!Response[2] = S!Header
    <3>1. /\ Len(<<S!Status, S!Header>>) = 2 /\ <<S!Status, S!Header>>[1] = S!Status
          /\ <<S!Status, S!Header>>[2] = S!Header /\ 1 \in 1 .. 2 /\ 2 \in 1 .. 2
      OBVIOUS
    <3>2. <<S!Status, S!Header>> \in Items /\ S!Body \in Items
      BY ResponseTypes
    <3>3. \A k \in 1 .. 2 : (<<S!Status, S!Header>> \o S!Body)[k] = <<S!Status, S!Header>>[k]
      BY <3>1, <3>2, Cat
    <3>4. QED
      BY <3>1, <3>3, <2>3
  <2>5. Len(s) \in Nat \ {0} /\ Head(s) = s[1]
    BY <1>4, <1>5, LenIs
  <2>6. Stripped' = IF to = "header" THEN <<S!Status>> ELSE <<S!Status, S!Header>>
    BY <1>1, <1>6 DEF Stripped
  <2>7. CASE at[c] = "status"
    <3>1. Stripped = <<>> /\ s \o hold = S!Response
      BY <2>2, <2>7, <1>1, <1>4, CatEmpty DEF Stripped
    <3>2. (s \o hold)[1] = s[1]
      <4>1. 1 \in 1 .. Len(s)
        BY <2>5
      <4>2. QED
        BY <4>1, <1>4, Cat
    <3>3. Head(s) = S!Status
      BY <3>1, <3>2, <2>4, <2>5
    <3>4. Append(<<>>, Head(s)) = <<S!Status>>
      BY <3>3
    <3>5. QED
      BY <3>1, <3>4, <2>2, <2>6, <2>7
  <2>8. CASE at[c] = "header"
    <3>1. Stripped = <<S!Status>> /\ <<S!Status>> \in Items /\ Len(<<S!Status>>) = 1
      BY <2>8, <1>1, ResponseTypes DEF Stripped
    <3>2. <<S!Status>> \o s \in Items /\ Len(<<S!Status>> \o s) = 1 + Len(s) /\ (<<S!Status>> \o s)[1 + 1] = s[1]
      BY <3>1, <2>5, <1>4, Cat
    <3>3. ((<<S!Status>> \o s) \o hold)[2] = (<<S!Status>> \o s)[2]
      <4>1. 2 \in 1 .. Len(<<S!Status>> \o s)
        BY <3>2, <2>5
      <4>2. QED
        BY <4>1, <3>2, <1>4, Cat
    <3>4. Head(s) = S!Header
      BY <3>1, <3>2, <3>3, <2>2, <2>4, <2>5
    <3>5. Append(<<S!Status>>, Head(s)) = <<S!Status, S!Header>>
      <4>1. S!Status \in Int /\ S!Header \in Int
        BY DEF S!Status, S!Header
      <4>2. QED
        BY <4>1, <3>4, TwoItems
    <3>6. QED
      BY <3>1, <3>5, <2>2, <2>6, <2>8
  <2>9. QED
    BY <2>7, <2>8
<1>9. WebsInv'
  <2>1. Append(Stripped, Head(s)) \o Tail(s) = Stripped \o s
    BY <1>4, <1>5, ResponseTypes, SentCat
  <2>2. Back("c1")' = Tail(s)
    <3>1. Back("c1")' = <<>> \o Tail(s)
      BY <1>1, <1>2, <1>3, <1>5, <1>7 DEF Back
    <3>2. QED
      BY <3>1, <1>4, <1>5, HeadCat, CatEmpty
  <2>3. (Stripped' \o Back("c1")') \o hold' = S!Response
    BY <2>1, <2>2, <1>3, <1>8
  <2>4. S!Response' = S!Response /\ Wanted' = Wanted
    BY DEF S!Response, S!Body, Wanted
  <2>5. at'["c1"] \in {"header", "body"}
    BY <1>1, <1>6
  <2>6. QED
    BY <2>3, <2>4, <2>5, <1>2, <1>3, <1>7 DEF WebsInv
<1>10. Sound(c)'
  BY <1>1, <1>9 DEF Sound
<1>11. to \in PlacesOf(kind[c]) /\ to # "start" /\ to # "send"
  BY <1>1 DEF PlacesOf
<1>12. QED
  <2>1. /\ out' \in [S!Clients -> Items] /\ sent' \in [S!Clients -> Items] /\ shown' \in [S!Clients -> Items]
        /\ typed' \in [S!Clients -> 0 .. MaxLines]
    BY <1>3 DEF StreamsIInv, HereTypes
  <2>2. UNCHANGED <<program, kind, length, serving, hold, backlog>>
    BY <1>3
  <2>3. ("server" \in closed'[c] => "server" \in closed[c]) /\ "client" \notin closed'[c]
    BY <1>2, <1>6
  <2>4. QED
    BY <1>1, <1>2, <1>6, <1>10, <1>11, <2>1, <2>2, <2>3, ClientFrame

(* download3.c reads the status and the header, or ends.                    *)
LEMMA HeaderStep ==
  ASSUME StreamsIInv, NEW c \in S!Clients, S!ReadHttpStatus(c) \/ S!ParseHeader(c), UNCHANGED <<program, kind, length>>
  PROVE  StreamsIInv'
<1>1. at[c] \in {"status", "header"}
  BY DEF S!ReadHttpStatus, S!ParseHeader
<1>2. kind[c] = "download3" /\ program = "web" /\ c = "c1" /\ Active(c)
  <2>1. kind[c] = "download3"
    BY <1>1, ProgramOf DEF PlacesOf
  <2>2. QED
    BY <1>1, <2>1, ProgramOf, Names DEF Active
<1>3. CASE S!Leaves(c, "failed")
  BY <1>2, <1>3, LeavesStep
<1>4. CASE S!AtEnd("client", c) /\ S!Leaves(c, "ended")
  <2>1. "server" \in closed[c]
    BY <1>4, TwoEnds DEF S!AtEnd, S!Live, StreamsIInv, ConnInv, ResetInv
  <2>2. QED
    BY <1>2, <1>4, <2>1, LeavesStep DEF WholeKinds
<1>5. CASE /\ S!Takes("client", c, 1) /\ UNCHANGED <<S!srv, S!cli>>
           /\ at' = [at EXCEPT ![c] = IF at[c] = "status" THEN "header" ELSE "body"]
  BY <1>1, <1>5, StripStep
<1>6. QED
  BY <1>1, <1>3, <1>4, <1>5 DEF S!ReadHttpStatus, S!ParseHeader, S!Goes

(* A step that moves nothing between the ends.                              *)
LEMMA StillStep ==
  ASSUME StreamsIInv, NEW c \in S!Clients, Active(c), program # "web", ConnInv', UNCHANGED <<inbox, closed, rst>>,
         UNCHANGED <<program, kind, length, backlog, serving, hold, sent, shown>>,
         NEW to \in PlacesOf(kind[c]), at' = [at EXCEPT ![c] = to], to \in {"recv", "type", "send"},
         out' \in [S!Clients -> Items], \A d \in S!Clients : d # c => out'[d] = out[d],
         typed' \in [S!Clients -> 0 .. MaxLines], to = "send" => out'[c] # <<>>
  PROVE  StreamsIInv'
<1>1. Others(c) /\ at'[c] = to /\ "client" \notin closed[c] /\ Sound(c)
  BY ActiveClient DEF Others, StreamsIInv, HereTypes
<1>2. Back(c)' = Back(c) /\ OnItsWay(c)' = OnItsWay(c)
  BY DEF Back, OnItsWay, HeldFor
<1>3. "server" \notin rst[c]
  BY <1>1, TwoEnds DEF StreamsIInv, ConnInv, ResetInv
<1>4. program = "echo" => EchoInv(c)'
  BY <1>1, <1>2, <1>3 DEF Sound, EchoInv
<1>5. program = "hi" => HiInv(c)'
  BY <1>1 DEF Sound, HiInv
<1>6. Sound(c)'
  BY <1>4, <1>5 DEF Sound
<1>7. sent' \in [S!Clients -> Items] /\ shown' \in [S!Clients -> Items]
  BY DEF StreamsIInv, HereTypes
<1>8. UNCHANGED <<program, kind, length, serving, hold, backlog>> /\ to # "start"
  OBVIOUS
<1>9. ("server" \in closed'[c] => "server" \in closed[c]) /\ "client" \notin closed'[c]
  BY <1>1
<1>10. QED
  BY <1>1, <1>6, <1>7, <1>8, <1>9, ClientFrame

(* sigPipeClient makes its one recv.                                        *)
LEMMA LineRecvStep ==
  ASSUME StreamsIInv, NEW c \in S!Clients, S!LineRecv(c), UNCHANGED <<program, kind, length>>
  PROVE  StreamsIInv'
<1>1. kind[c] = "sigPipeClient" /\ at[c] = "recv" /\ program = "echo" /\ Active(c)
  BY ProgramOf DEF S!LineRecv, Active
<1>2. at' = [at EXCEPT ![c] = "type"] /\ UNCHANGED <<backlog, serving, hold, out, sent, typed>>
  BY DEF S!LineRecv, S!Goes, S!srv
<1>3. "type" \in PlacesOf(kind[c]) /\ kind[c] # "tcpclient" /\ program # "web"
  BY <1>1 DEF PlacesOf
<1>4. out' \in [S!Clients -> Items] /\ typed' \in [S!Clients -> 0 .. MaxLines] /\ ConnInv
  BY <1>2 DEF StreamsIInv, HereTypes
<1>5. ASSUME NEW k, S!Shows(c, k) PROVE StreamsIInv'
  BY <1>1, <1>2, <1>3, <1>5, ReceivesStep
<1>6. ASSUME ConnInv', UNCHANGED <<inbox, closed, rst>>, shown' = shown PROVE StreamsIInv'
  BY <1>1, <1>2, <1>3, <1>4, <1>6, StillStep
<1>7. CASE S!RecvFails("client", c) /\ UNCHANGED shown
  <2>1. ConnInv' /\ UNCHANGED <<inbox, closed, rst>>
    BY <1>4, <1>7, FailEffect, TwoEnds
  <2>2. QED
    BY <2>1, <1>6, <1>7
<1>8. CASE S!AtEnd("client", c) /\ UNCHANGED <<S!conn, shown>>
  <2>1. UNCHANGED <<inbox, closed, rst, err, shown>>
    BY <1>8 DEF S!conn
  <2>2. ConnInv'
    BY <2>1, <1>4 DEF ConnInv, ConnTypes, ResetInv
  <2>3. QED
    BY <2>1, <2>2, <1>6
<1>9. QED
  BY <1>5, <1>7, <1>8 DEF S!LineRecv

(* A user types a line.                                                     *)
LEMMA TypeStep ==
  ASSUME StreamsIInv, NEW c \in S!Clients, S!Type(c), UNCHANGED <<program, kind, length>>
  PROVE  StreamsIInv'
<1>1. at[c] = "type" /\ kind[c] \in {"sigPipeClient", "tcpclient"} /\ program # "web" /\ Active(c)
  <2>1. at[c] = "type" /\ Active(c)
    BY DEF S!Type, Active
  <2>2. kind[c] \in {"sigPipeClient", "tcpclient"}
    BY <2>1, ProgramOf DEF PlacesOf
  <2>3. QED
    BY <2>1, <2>2, ProgramOf
<1>2. /\ typed[c] < MaxLines /\ typed' = [typed EXCEPT ![c] = @ + 1] /\ at' = [at EXCEPT ![c] = "send"]
      /\ out' = [out EXCEPT ![c] = IF kind[c] = "tcpclient" THEN <<typed[c] + 1>> ELSE <<typed[c] + 1, typed[c] + 1>>]
      /\ UNCHANGED <<inbox, closed, rst, err, backlog, serving, hold, sent, shown>>
  BY DEF S!Type, S!Goes, S!conn, S!srv
<1>3. ConnInv'
  BY <1>2 DEF StreamsIInv, ConnInv, ConnTypes, ResetInv
<1>4. typed[c] \in 0 .. MaxLines /\ typed \in [S!Clients -> 0 .. MaxLines] /\ out \in [S!Clients -> Items]
  BY DEF StreamsIInv, HereTypes
<1>5. typed' \in [S!Clients -> 0 .. MaxLines]
  BY <1>2, <1>4, StreamsAssumption
<1>6. out' \in [S!Clients -> Items] /\ out'[c] # <<>> /\ \A d \in S!Clients : d # c => out'[d] = out[d]
  <2>1. \A x \in Int : <<x>> \in Items /\ <<x>> # <<>> /\ <<x, x>> \in Items /\ <<x, x>> # <<>>
    BY DEF Items
  <2>2. typed[c] + 1 \in Int
    BY <1>4
  <2>3. QED
    BY <1>2, <1>4, <2>1, <2>2
<1>7. "send" \in PlacesOf(kind[c])
  BY <1>1 DEF PlacesOf
<1>8. UNCHANGED <<inbox, closed, rst>> /\ UNCHANGED <<program, kind, length, backlog, serving, hold, sent, shown>>
  BY <1>2
<1>9. QED
  BY <1>1, <1>2, <1>3, <1>5, <1>6, <1>7, <1>8, StillStep

(* A user types no more.                                                    *)
LEMMA QuitStep ==
  ASSUME StreamsIInv, NEW c \in S!Clients, S!Quit(c), UNCHANGED <<program, kind, length>>
  PROVE  StreamsIInv'
<1>1. at[c] = "type" /\ Active(c) /\ S!Leaves(c, "ended")
  BY DEF S!Quit, Active
<1>2. kind[c] \in {"sigPipeClient", "tcpclient"} /\ program # "web"
  BY <1>1, ProgramOf DEF PlacesOf
<1>3. program = "echo" => kind[c] = "sigPipeClient"
  BY <1>2, ProgramOf
<1>4. QED
  BY <1>1, <1>2, <1>3, LeavesStep

(* What is sent comes last of all.                                         *)
LEMMA SendsStep ==
  ASSUME StreamsIInv, NEW c \in S!Clients, at[c] = "send", UNCHANGED <<program, kind, length, S!srv, shown, typed>>,
         S!SendItem("client", c, Head(out[c])), S!Sent(c), sent' = [sent EXCEPT ![c] = Append(@, Head(out[c]))]
  PROVE  StreamsIInv'
<1> DEFINE x == Head(out[c])
           to == IF Len(out[c]) > 1 THEN "send" ELSE IF kind[c] = "tcpclient" THEN "type" ELSE "recv"
<1>1. out[c] # <<>> /\ Active(c) /\ at[c] \in PlacesOf(kind[c])
  BY DEF StreamsIInv, ClientsInv, Active
<1>2. kind[c] \in Visitors /\ program # "web"
  <2>1. kind[c] \in Visitors
    BY <1>1 DEF PlacesOf, Visitors
  <2>2. QED
    BY <2>1, ProgramOf DEF Visitors
<1>3. /\ shown[c] \in Items /\ sent[c] \in Items /\ out[c] \in Items /\ inbox[c]["server"] \in Items
      /\ Back(c) \in Items /\ OnItsWay(c) \in Items /\ HeldFor(c) \in Items /\ "client" \notin closed[c]
  BY <1>1, ActiveClient
<1>4. x \in Int /\ Tail(out[c]) \in Items /\ Len(Tail(out[c])) = Len(out[c]) - 1
  BY <1>1, <1>3, HeadCat
<1>5. to = "send" => Tail(out[c]) # <<>>
  <2>1. Len(out[c]) \in Nat
    BY <1>3, LenIs
  <2>2. Len(out[c]) > 1 => Len(Tail(out[c])) # 0
    <3>1. \A m \in Nat : m > 1 => m - 1 # 0
      OBVIOUS
    <3>2. QED
      BY ONLY <3>1, <2>1, <1>4
  <2>3. QED
    BY <2>2, EmptySeq
<1> HIDE DEF x
<1>6. /\ ConnInv' /\ closed' = closed
      /\ \A d \in S!Clients : d # c => inbox'[d] = inbox[d] /\ rst'[d] = rst[d]
      /\ inbox'[c]["client"] = inbox[c]["client"]
      /\ "server" \notin closed[c] => inbox'[c]["server"] = Append(inbox[c]["server"], x) /\ rst' = rst
      /\ "server" \in closed[c] => inbox' = inbox /\ rst'[c] = rst[c] \cup {"client"}
  <2>1. S!SendItem("client", c, x) /\ ConnInv /\ "client" \in S!Ends /\ S!Other["client"] = "server"
    BY TwoEnds DEF StreamsIInv, x
  <2>2. /\ ConnInv' /\ closed' = closed
        /\ \A d \in S!Clients : d # c => inbox'[d] = inbox[d] /\ rst'[d] = rst[d]
        /\ inbox'[c]["client"] = inbox[c]["client"]
        /\ S!Other["client"] \notin closed[c] =>
             inbox'[c][S!Other["client"]] = Append(inbox[c][S!Other["client"]], x) /\ rst' = rst
        /\ S!Other["client"] \in closed[c] => inbox' = inbox /\ rst'[c] = rst[c] \cup {"client"}
    BY <2>1, <1>4, SendEffect
  <2>3. QED
    BY <2>1, <2>2
<1>7. /\ out' = [out EXCEPT ![c] = Tail(@)] /\ at' = [at EXCEPT ![c] = to]
      /\ sent' = [sent EXCEPT ![c] = Append(@, x)]
      /\ UNCHANGED <<backlog, serving, hold>>
  BY DEF S!Sent, S!Goes, S!srv, x
<1>8. sent[c] \in Items /\ Append(sent[c], x) \in Items
  BY <1>3, <1>4, AppendCat
<1>9. /\ sent' \in [S!Clients -> Items] /\ sent'[c] = Append(sent[c], x)
      /\ out' \in [S!Clients -> Items] /\ out'[c] = Tail(out[c]) /\ at'[c] = to
      /\ \A d \in S!Clients : d # c => sent'[d] = sent[d] /\ out'[d] = out[d]
  BY <1>4, <1>7, <1>8 DEF StreamsIInv, HereTypes
<1>10. Others(c)
  BY <1>6, <1>9 DEF Others
<1>11. Sound(c) /\ "server" \notin rst[c] /\ Back(c)' = Back(c)
  <2>1. "server" \notin rst[c]
    BY <1>3, TwoEnds DEF StreamsIInv, ConnInv, ResetInv
  <2>2. Back(c)' = Back(c)
    BY <1>6 DEF Back
  <2>3. QED
    BY <2>1, <2>2 DEF StreamsIInv
<1>12. "server" \notin closed[c] => OnItsWay(c)' = Append(OnItsWay(c), x)
  <2>1. HeldFor(c)' = HeldFor(c)
    BY <1>7 DEF HeldFor
  <2>2. HeldFor(c) \o Append(inbox[c]["server"], x) = Append(HeldFor(c) \o inbox[c]["server"], x)
    BY <1>3, <1>4, LastCat
  <2>3. QED
    BY <2>1, <2>2, <1>6 DEF OnItsWay
<1>13. "server" \notin rst'[c]
  BY <1>6, <1>11
<1>14. program = "echo" => EchoInv(c)'
  <2>1. SUFFICES ASSUME program = "echo" PROVE EchoInv(c)'
    OBVIOUS
  <2>2. EchoInv(c)
    BY <2>1, <1>11 DEF Sound
  <2>3. closed[c] = {} => Back(c) \o Append(OnItsWay(c), x) = Append(sent[c], x)
    <3>1. Back(c) \o Append(OnItsWay(c), x) = Append(Back(c) \o OnItsWay(c), x)
      BY <1>3, <1>4, LastCat
    <3>2. QED
      BY <3>1, <2>2 DEF EchoInv
  <2>4. Leads(Back(c), Append(sent[c], x))
    BY <2>2, <1>3, <1>4, LeadsCat DEF EchoInv
  <2>5. at'[c] # "ended" /\ closed'[c] = closed[c]
    BY <1>6, <1>9
  <2>6. closed'[c] = {} => Back(c)' \o OnItsWay(c)' = sent'[c]
    BY <2>3, <2>5, <1>9, <1>11, <1>12
  <2>7. QED
    BY <2>4, <2>5, <2>6, <1>3, <1>9, <1>11, <1>13 DEF EchoInv
<1>15. program = "hi" => HiInv(c)'
  <2>1. SUFFICES ASSUME program = "hi" PROVE HiInv(c)'
    OBVIOUS
  <2>2. HiInv(c)
    BY <2>1, <1>11 DEF Sound
  <2>3. Leads(shown[c], Append(sent[c], x))
    BY <2>2, <1>3, <1>4, LeadsCat DEF HiInv
  <2>4. "server" \notin closed[c] => shown[c] \o Append(inbox[c]["server"], x) = Append(sent[c], x)
    <3>1. shown[c] \o Append(inbox[c]["server"], x) = Append(shown[c] \o inbox[c]["server"], x)
      BY <1>3, <1>4, LastCat
    <3>2. QED
      BY <3>1, <2>2 DEF HiInv
  <2>5. QED
    BY <2>2, <2>3, <2>4, <1>6, <1>9 DEF HiInv
<1>16. Sound(c)'
  BY <1>2, <1>14, <1>15 DEF Sound
<1>17. to \in PlacesOf(kind[c]) /\ to # "start" /\ to \notin {"ended", "failed"}
  BY <1>2 DEF PlacesOf, Visitors
<1>18. QED
  <2>1. shown' \in [S!Clients -> Items] /\ typed' \in [S!Clients -> 0 .. MaxLines]
    BY DEF StreamsIInv, HereTypes
  <2>2. UNCHANGED <<program, kind, length, serving, hold, backlog>>
    BY <1>7
  <2>3. ("server" \in closed'[c] => "server" \in closed[c]) /\ "client" \notin closed'[c]
    BY <1>3, <1>6
  <2>4. to = "send" => out'[c] # <<>>
    BY <1>5, <1>9
  <2>5. QED
    BY <1>1, <1>6, <1>7, <1>9, <1>10, <1>16, <1>17, <2>1, <2>2, <2>3, <2>4, ClientFrame

(* A client sends, is told it cannot, or ends.                              *)
LEMMA ClientSendsStep ==
  ASSUME StreamsIInv, NEW c \in S!Clients, S!ClientSends(c), UNCHANGED <<program, kind, length>>
  PROVE  StreamsIInv'
<1>1. at[c] = "send" /\ Active(c) /\ out[c] # <<>> /\ at[c] \in PlacesOf(kind[c])
  BY DEF S!ClientSends, Active, StreamsIInv, ClientsInv
<1>2. kind[c] \in Visitors /\ program # "web"
  <2>1. kind[c] \in Visitors
    BY <1>1 DEF PlacesOf, Visitors
  <2>2. QED
    BY <2>1, ProgramOf DEF Visitors
<1>3. CASE /\ S!SendItem("client", c, Head(out[c])) /\ S!Sent(c)
           /\ sent' = [sent EXCEPT ![c] = Append(@, Head(out[c]))] /\ UNCHANGED <<S!srv, shown, typed>>
  BY <1>1, <1>3, SendsStep
<1>4. CASE /\ kind[c] = "sigPipeClient" /\ S!SendFails("client", c) /\ S!Sent(c)
           /\ UNCHANGED <<S!srv, sent, shown, typed>>
  <2> DEFINE to == IF Len(out[c]) > 1 THEN "send" ELSE "recv"
  <2>1. ConnInv' /\ UNCHANGED <<inbox, closed, rst>>
    BY <1>4, FailEffect, TwoEnds DEF StreamsIInv
  <2>2. /\ out' = [out EXCEPT ![c] = Tail(@)] /\ at' = [at EXCEPT ![c] = to]
        /\ UNCHANGED <<backlog, serving, hold, sent, shown, typed>>
    BY <1>4 DEF S!Sent, S!Goes, S!srv
  <2>3. out[c] \in Items /\ Tail(out[c]) \in Items /\ Len(Tail(out[c])) = Len(out[c]) - 1
    BY <1>1, ActiveClient, HeadCat
  <2>4. to = "send" => Tail(out[c]) # <<>>
    <3>1. Len(out[c]) \in Nat
      BY <2>3, LenIs
    <3>2. Len(out[c]) > 1 => Len(Tail(out[c])) # 0
      <4>1. \A m \in Nat : m > 1 => m - 1 # 0
        OBVIOUS
      <4>2. QED
        BY ONLY <4>1, <3>1, <2>3
    <3>3. QED
      BY <3>2, EmptySeq
  <2>5. /\ out' \in [S!Clients -> Items] /\ out'[c] = Tail(out[c]) /\ \A d \in S!Clients : d # c => out'[d] = out[d]
        /\ typed' \in [S!Clients -> 0 .. MaxLines]
    BY <2>2, <2>3 DEF StreamsIInv, HereTypes
  <2>6. to \in PlacesOf(kind[c]) /\ to \in {"recv", "type", "send"}
    BY <1>4 DEF PlacesOf
  <2>7. UNCHANGED <<program, kind, length, backlog, serving, hold, sent, shown>>
    BY <2>2
  <2>8. QED
    BY <1>1, <1>2, <2>1, <2>2, <2>4, <2>5, <2>6, <2>7, StillStep
<1>5. CASE kind[c] # "sigPipeClient" /\ "client" \in rst[c] /\ S!Leaves(c, "failed")
  <2>1. "server" \in closed[c]
    BY <1>5, TwoEnds DEF StreamsIInv, ConnInv, ResetInv
  <2>2. QED
    BY <1>1, <1>2, <1>5, <2>1, LeavesStep
<1>6. QED
  BY <1>3, <1>4, <1>5 DEF S!ClientSends

(* A client connects, or fails to.                                          *)
LEMMA ConnectEffect ==
  ASSUME StreamsIInv, NEW c \in S!Clients, at[c] = "start", kind[c] # S!Nobody,
         UNCHANGED <<program, kind, length, S!conn, serving, hold, S!cli>>,
         NEW to \in PlacesOf(kind[c]), at' = [at EXCEPT ![c] = to], to \notin {"start", "ended"},
         \/ backlog' = backlog
         \/ backlog' = Append(backlog, c) /\ program # "web",
         program = "web" => to \in {"recv", "status"}, to = "send" => kind[c] = "client"
  PROVE  StreamsIInv'
<1>1. UNCHANGED <<inbox, closed, rst, err, out, sent, shown, typed>>
  BY DEF S!conn, S!cli
<1>2. /\ at \in [S!Clients \cup {"server"} -> StreamPlace] /\ HereTypes /\ closed[c] = {}
      /\ (kind[c] = "client" => out[c] # <<>>)
  BY DEF StreamsIInv, HereTypes, ClientsInv
<1>3. /\ at'[c] = to /\ \A d \in S!Clients : d # c => at'[d] = at[d]
      /\ at'["server"] = at["server"] /\ at' \in [S!Clients \cup {"server"} -> StreamPlace]
  BY <1>2, Names DEF PlacesOf, StreamPlace
<1>4. HereTypes'
  <2>1. backlog' \in Seq(S!Clients)
    <3>1. backlog \in Seq(S!Clients)
      BY <1>2 DEF HereTypes
    <3>2. Append(backlog, c) \in Seq(S!Clients)
      BY <3>1, AppendProperties
    <3>3. QED
      BY <3>1, <3>2
  <2>2. QED
    BY <2>1, <1>1, <1>2, <1>3 DEF HereTypes
<1>5. ConnInv' /\ KindsInv'
  BY <1>1 DEF StreamsIInv, ConnInv, ConnTypes, ResetInv, KindsInv
<1>6. ServerInv'
  <2>1. program = "web" => c # "c2" /\ backlog' = backlog
    BY DEF StreamsIInv, KindsInv
  <2>2. QED
    BY <2>1, <1>3, Names DEF StreamsIInv, ServerInv
<1>7. ClientsInv'
  BY <1>1, <1>2, <1>3 DEF StreamsIInv, ClientsInv
<1>8. QueueInv'
  <2>1. QueueInv /\ backlog \in Seq(S!Clients) /\ \A j \in 1 .. Len(backlog) : backlog[j] \in S!Clients
    BY <1>2 DEF StreamsIInv, HereTypes
  <2>2. /\ serving # S!Nobody => at'[serving] # "start" /\ "server" \notin closed'[serving]
        /\ c # serving
    <3>1. serving # S!Nobody => serving \in S!Clients /\ at[serving] # "start"
      BY <2>1, <1>2 DEF HereTypes, QueueInv
    <3>2. QED
      BY <2>1, <3>1, <1>1, <1>2, <1>3, Names DEF QueueInv
  <2>3. \A j \in 1 .. Len(backlog) : /\ backlog[j] # c /\ at'[backlog[j]] # "start"
                                     /\ "server" \notin closed'[backlog[j]]
    BY <2>1, <1>1, <1>3 DEF QueueInv
  <2>4. CASE backlog' = backlog
    BY <2>1, <2>2, <2>3, <2>4 DEF QueueInv
  <2>5. CASE backlog' = Append(backlog, c)
    <3>1. Len(backlog) \in Nat /\ Len(backlog') = Len(backlog) + 1 /\ backlog'[Len(backlog) + 1] = c
      BY <2>1, <2>5
    <3>2. \A j \in 1 .. Len(backlog) : backlog'[j] = backlog[j]
      BY <2>1, <2>5
    <3>3. \A j \in 1 .. Len(backlog') : j \in 1 .. Len(backlog) \/ j = Len(backlog) + 1
      BY <3>1
    <3>4. ASSUME NEW j \in 1 .. Len(backlog'), NEW k \in 1 .. Len(backlog'), backlog'[j] = backlog'[k] PROVE j = k
      BY <2>1, <2>3, <3>1, <3>2, <3>3, <3>4 DEF QueueInv
    <3>5. ASSUME NEW j \in 1 .. Len(backlog')
          PROVE  /\ backlog'[j] # serving' /\ at'[backlog'[j]] # "start" /\ "server" \notin closed'[backlog'[j]]
      BY <2>1, <2>2, <2>3, <3>1, <3>2, <3>3, <1>1, <1>2, <1>3 DEF QueueInv
    <3>6. QED
      BY <2>2, <3>4, <3>5 DEF QueueInv
  <2>6. QED
    BY <2>4, <2>5
<1>9. \A d \in S!Clients : Unread(d) => Unread(d)'
  BY <1>1, <1>3 DEF Unread
<1>10. Others(c)
  BY <1>1 DEF Others
<1>11. "server" \notin rst[c] /\ Sound(c)
  BY <1>2, TwoEnds DEF StreamsIInv, ConnInv, ResetInv
<1>12. Sound(c)'
  <2>1. Back(c)' = Back(c) /\ OnItsWay(c)' = OnItsWay(c)
    BY <1>1 DEF Back, OnItsWay, HeldFor
  <2>2. program = "echo" => EchoInv(c)'
    BY <2>1, <1>1, <1>2, <1>3, <1>11 DEF Sound, EchoInv
  <2>3. program = "hi" => HiInv(c)'
    BY <1>1, <1>11 DEF Sound, HiInv
  <2>4. ASSUME program = "web", c = "c1" PROVE WebsInv'
    <3>1. WebsInv /\ at["c1"] = "start" /\ at'["c1"] \in {"recv", "status"} /\ closed["c1"] = {}
      BY <2>4, <1>2, <1>3, <1>11 DEF Sound
    <3>2. S!Response' = S!Response /\ Wanted' = Wanted /\ shown["c1"] = <<>>
      BY <3>1 DEF S!Response, S!Body, Wanted, WebsInv
    <3>3. Stripped' = Stripped
      BY <3>1, <2>4, <1>3 DEF Stripped, PlacesOf
    <3>4. QED
      BY <3>1, <3>2, <3>3, <2>1, <2>4, <1>1 DEF WebsInv
  <2>5. QED
    BY <2>2, <2>3, <2>4 DEF Sound
<1>13. \A d \in S!Clients : Sound(d)'
  BY <1>3, <1>10, <1>12, OtherIsSound
<1>14. S!EndedByUnread'
  BY <1>3, <1>9 DEF StreamsIInv, S!EndedByUnread, Unread
<1>15. QED
  BY <1>4, <1>5, <1>6, <1>7, <1>8, <1>13, <1>14 DEF StreamsIInv

(* A client connects where its program does, or fails.                      *)
LEMMA ConnectStep ==
  ASSUME StreamsIInv, NEW c \in S!Clients, S!Connect(c) \/ S!ConnectAnywhere(c), UNCHANGED <<program, kind, length>>
  PROVE  StreamsIInv'
<1>1. at[c] = "start" /\ kind[c] # S!Nobody /\ UNCHANGED <<program, kind, length, S!conn, serving, hold, S!cli>>
  BY Names DEF S!Connect, S!ConnectAnywhere, S!Nobody
<1>2. CASE at' = [at EXCEPT ![c] = "failed"] /\ backlog' = backlog /\ program # "web"
  <2>1. "failed" \in PlacesOf(kind[c])
    BY DEF PlacesOf
  <2>2. QED
    BY <2>1, <1>1, <1>2, ConnectEffect
<1>3. CASE S!ConnectAnywhere(c)
  <2>1. kind[c] = "tcpclient" /\ program # "web"
    BY <1>3, ProgramOf DEF S!ConnectAnywhere
  <2>2. CASE at' = [at EXCEPT ![c] = "type"] /\ backlog' = Append(backlog, c)
    <3>1. "type" \in PlacesOf(kind[c])
      BY <2>1 DEF PlacesOf
    <3>2. QED
      BY <3>1, <2>1, <2>2, <1>1, ConnectEffect
  <2>3. QED
    BY <2>1, <2>2, <1>2, <1>3 DEF S!ConnectAnywhere, S!Goes
<1>4. CASE S!Connect(c) /\ at["server"] # "ended"
  <2> DEFINE to == S!AfterConnect(kind[c])
  <2>1. /\ kind[c] \notin {S!Nobody, "tcpclient"} /\ at' = [at EXCEPT ![c] = to]
        /\ backlog' = IF program = "web" THEN backlog ELSE Append(backlog, c)
    BY <1>4 DEF S!Connect, S!Goes
  <2>2. to \in PlacesOf(kind[c]) /\ to \notin {"start", "ended"} /\ (to = "send" => kind[c] = "client")
    BY <2>1 DEF PlacesOf, S!AfterConnect
  <2>3. program = "web" => to \in {"recv", "status"}
    BY <2>1, ProgramOf DEF S!AfterConnect
  <2>4. QED
    BY <2>1, <2>2, <2>3, <1>1, ConnectEffect
<1>5. CASE S!Connect(c) /\ at["server"] = "ended"
  <2>1. program # "web"
    BY <1>5 DEF StreamsIInv, ServerInv
  <2>2. QED
    BY <2>1, <1>2, <1>5 DEF S!Connect, S!Goes
<1>6. QED
  BY <1>3, <1>4, <1>5
-----------------------------------------------------------------------------
(* The servers.                                                            *)
LEMMA ServerFrame ==
  ASSUME StreamsIInv, ConnInv', UNCHANGED <<program, kind, length, out, sent, typed>>,
         NEW to \in StreamPlace, at' = [at EXCEPT !["server"] = to],
         shown' \in [S!Clients -> Items],
         backlog' \in Seq(S!Clients), serving' \in S!Clients \cup {S!Nobody},
         hold' \in Items, Len(hold') <= (IF program = "web" THEN FileLen + 2 ELSE Buffer),
         to \in {"accept", "recv", "send", "ended"},
         to \in {"recv", "send"} <=> serving' # S!Nobody,
         program # "web" => (hold' # <<>> <=> to = "send"),
         program = "hi" => to # "send",
         program = "web" => to = "accept" /\ backlog' = backlog,
         QueueInv',
         \A c \in S!Clients : "client" \in closed'[c] => "client" \in closed[c],
         \A c \in S!Clients : at[c] = "start" => closed'[c] = {},
         \A c \in S!Clients : Sound(c)',
         program = "echo" /\ to = "ended" => \E c \in S!Clients : Unread(c) /\ shown'[c] = shown[c]
  PROVE  StreamsIInv'
<1>1. HereTypes /\ at \in [S!Clients \cup {"server"} -> StreamPlace]
  BY DEF StreamsIInv, HereTypes
<1>2. /\ at'["server"] = to /\ \A c \in S!Clients : at'[c] = at[c]
      /\ at' \in [S!Clients \cup {"server"} -> StreamPlace]
  BY <1>1, Names
<1>3. HereTypes'
  BY <1>1, <1>2 DEF HereTypes
<1>4. KindsInv' /\ ServerInv'
  BY <1>2, Names DEF StreamsIInv, KindsInv, ServerInv
<1>5. ClientsInv'
  BY <1>2 DEF StreamsIInv, ClientsInv
<1>6. S!EndedByUnread'
  BY <1>2 DEF S!EndedByUnread, Unread
<1>7. QED
  BY <1>3, <1>4, <1>5, <1>6 DEF StreamsIInv

(* Who is served, and who waits.                                           *)
LEMMA Serving ==
  ASSUME StreamsIInv
  PROVE  /\ at["server"] \in {"recv", "send"} => /\ serving \in S!Clients /\ "server" \notin closed[serving]
                                                /\ at[serving] # "start" /\ program # "web"
         /\ at["server"] \in {"accept", "recv", "ended"} /\ program # "web" => hold = <<>>
         /\ at["server"] \in {"accept", "ended"} => serving = S!Nobody
         /\ serving \in S!Clients => at[serving] # "start"
         /\ \A j \in 1 .. Len(backlog) : backlog[j] \in S!Clients
         /\ \A c \in S!Queued : c \in S!Clients /\ at[c] # "start" /\ c # serving /\ "server" \notin closed[c]
         /\ backlog \in Seq(S!Clients) /\ hold \in Items /\ DOMAIN backlog = 1 .. Len(backlog)
<1>1. backlog \in Seq(S!Clients) /\ hold \in Items /\ serving \in S!Clients \cup {S!Nobody}
  BY DEF StreamsIInv, HereTypes
<1>2. DOMAIN backlog = 1 .. Len(backlog) /\ \A j \in 1 .. Len(backlog) : backlog[j] \in S!Clients
  BY <1>1
<1>3. at["server"] \in {"recv", "send"} => serving \in S!Clients /\ program # "web"
  BY <1>1 DEF StreamsIInv, ServerInv
<1>4. at["server"] \in {"recv", "send"} => /\ "server" \notin closed[serving] /\ at[serving] # "start"
  BY <1>3, Names DEF StreamsIInv, QueueInv
<1>5. at["server"] \in {"accept", "recv", "ended"} /\ program # "web" => hold = <<>>
  BY DEF StreamsIInv, ServerInv
<1>6. at["server"] \in {"accept", "ended"} => serving = S!Nobody
  BY DEF StreamsIInv, ServerInv
<1>7. \A c \in S!Queued : c \in S!Clients /\ at[c] # "start" /\ c # serving /\ "server" \notin closed[c]
  BY <1>2 DEF S!Queued, StreamsIInv, QueueInv
<1>8. serving \in S!Clients => at[serving] # "start"
  BY Names DEF StreamsIInv, QueueInv
<1>9. QED
  BY <1>1, <1>2, <1>3, <1>4, <1>5, <1>6, <1>7, <1>8

(* What closing by the server leaves, for one client.                       *)
LEMMA ServerCloses ==
  ASSUME StreamsIInv, program # "web", NEW cs, NEW hard, S!CloseAll("server", cs, hard),
         UNCHANGED <<program, kind, length, out, sent, typed, shown>>,
         NEW c \in S!Clients, at'[c] = at[c],
         c \notin cs => HeldFor(c)' = HeldFor(c)
  PROVE  /\ Sound(c)'
         /\ c \in cs => closed'[c] = closed[c] \cup {"server"}
         /\ c \notin cs => closed'[c] = closed[c]
         /\ "client" \in closed'[c] => "client" \in closed[c]
<1>1. ConnInv /\ "server" \in S!Ends /\ S!Other["server"] = "client" /\ Sound(c)
  BY TwoEnds DEF StreamsIInv
<1>2. /\ ConnInv'
      /\ \A d \in S!Clients : d \notin cs => inbox'[d] = inbox[d] /\ closed'[d] = closed[d] /\ rst'[d] = rst[d]
      /\ \A d \in S!Clients : d \in cs =>
              /\ inbox'[d]["server"] = <<>> /\ inbox'[d][S!Other["server"]] = inbox[d][S!Other["server"]]
              /\ closed'[d] = closed[d] \cup {"server"}
      /\ \A d \in S!Clients : "server" \in rst'[d] => "server" \in rst[d]
  BY <1>1, CloseEffect
<1>3. /\ inbox'[c]["client"] = inbox[c]["client"] /\ ("server" \in rst'[c] => "server" \in rst[c])
      /\ c \notin cs => inbox'[c] = inbox[c] /\ closed'[c] = closed[c]
      /\ c \in cs => closed'[c] = closed[c] \cup {"server"}
  BY <1>1, <1>2
<1>4. Back(c)' = Back(c) /\ (c \notin cs => OnItsWay(c)' = OnItsWay(c)) /\ Unread(c)' = Unread(c)
  BY <1>3 DEF Back, OnItsWay, Unread
<1>5. program = "echo" => EchoInv(c)'
  BY <1>1, <1>3, <1>4 DEF Sound, EchoInv
<1>6. program = "hi" => HiInv(c)'
  BY <1>1, <1>3 DEF Sound, HiInv
<1>7. "client" \in closed'[c] => "client" \in closed[c]
  <2>1. CASE c \in cs
    BY <2>1, <1>3
  <2>2. CASE c \notin cs
    BY <2>2, <1>3
  <2>3. QED
    BY <2>1, <2>2
<1>8. QED
  BY <1>3, <1>5, <1>6, <1>7 DEF Sound

(* The server ends, and closes every connection it has or has not           *)
(* accepted: for EchoServer, a client has left its echo unread.             *)
LEMMA ServerExitsStep ==
  ASSUME StreamsIInv, program # "web", S!ServerExits, UNCHANGED <<program, kind, length>>,
         program = "echo" => \E c \in S!Clients : Unread(c)
  PROVE  StreamsIInv'
<1> DEFINE cs == S!Queued \cup (S!Clients \cap {serving})
<1>1. /\ S!CloseAll("server", cs, S!Queued) /\ at' = [at EXCEPT !["server"] = "ended"]
      /\ backlog' = <<>> /\ serving' = S!Nobody /\ hold' = <<>>
      /\ UNCHANGED <<out, sent, shown, typed>>
  BY DEF S!ServerExits, S!Goes, S!cli
<1>2. ConnInv' /\ ConnInv /\ "server" \in S!Ends
  BY <1>1, CloseEffect, TwoEnds DEF StreamsIInv
<1>3. \A c \in S!Clients : at'[c] = at[c]
  BY <1>1, Names DEF StreamsIInv, HereTypes
<1>4. ASSUME NEW c \in S!Clients, c \notin cs PROVE HeldFor(c)' = HeldFor(c)
  BY <1>1, <1>4 DEF HeldFor
<1> HIDE DEF cs
<1>5. ASSUME NEW c \in S!Clients
      PROVE  /\ Sound(c)' /\ (c \notin cs => closed'[c] = closed[c])
             /\ "client" \in closed'[c] => "client" \in closed[c]
  BY <1>1, <1>3, <1>4, ServerCloses
<1>6. \A c \in S!Clients : at[c] = "start" => closed'[c] = {}
  <2>1. \A c \in S!Clients : at[c] = "start" => c \notin cs /\ closed[c] = {}
    BY Serving DEF cs, StreamsIInv, ClientsInv
  <2>2. QED
    BY <2>1, <1>5
<1>7. QueueInv'
  BY <1>1 DEF QueueInv
<1>8. /\ <<>> \in Seq(S!Clients) /\ <<>> \in Items /\ Len(<<>>) = 0
  BY EmptySeq DEF Items
<1>9. 0 <= (IF program = "web" THEN FileLen + 2 ELSE Buffer)
  BY StreamsAssumption
<1>10. shown' \in [S!Clients -> Items]
  BY <1>1 DEF StreamsIInv, HereTypes
<1>11. "ended" \in StreamPlace
  BY DEF StreamPlace
<1>12. \A c \in S!Clients : "client" \in closed'[c] => "client" \in closed[c]
  BY <1>5
<1>13. QED
  BY <1>1, <1>2, <1>5, <1>6, <1>7, <1>8, <1>9, <1>10, <1>11, <1>12, ServerFrame

(* Only what belongs to the one that is served moves.                       *)
LEMMA ServedFrame ==
  ASSUME StreamsIInv, program # "web", NEW w \in S!Clients, w = serving,
         at["server"] \in {"recv", "send"}, ConnInv', closed' = closed,
         UNCHANGED <<program, kind, length, backlog, serving, out, sent, typed>>,
         \A d \in S!Clients : d # serving => inbox'[d] = inbox[d] /\ rst'[d] = rst[d] /\ shown'[d] = shown[d],
         NEW to \in {"recv", "send"}, at' = [at EXCEPT !["server"] = to],
         shown' \in [S!Clients -> Items], hold' \in Items, Len(hold') <= Buffer,
         hold' # <<>> <=> to = "send", program = "hi" => to # "send",
         Sound(w)'
  PROVE  StreamsIInv'
<1>1. serving \in S!Clients /\ at[serving] # "start" /\ backlog \in Seq(S!Clients)
  BY Serving
<1>2. \A c \in S!Clients : at'[c] = at[c]
  BY Names DEF StreamsIInv, HereTypes
<1>3. ASSUME NEW c \in S!Clients, c # serving PROVE Sound(c)'
  <2>1. Back(c)' = Back(c) /\ OnItsWay(c)' = OnItsWay(c) /\ Unread(c)' = Unread(c)
    BY <1>2, <1>3 DEF Back, OnItsWay, HeldFor, Unread
  <2>2. Sound(c)
    BY DEF StreamsIInv
  <2>3. program = "echo" => EchoInv(c)'
    BY <2>1, <2>2, <1>2, <1>3 DEF Sound, EchoInv
  <2>4. program = "hi" => HiInv(c)'
    BY <2>2, <1>3 DEF Sound, HiInv
  <2>5. QED
    BY <2>3, <2>4 DEF Sound
<1>4. QueueInv'
  BY <1>1, <1>2, Serving DEF StreamsIInv, QueueInv
<1>5. \A c \in S!Clients : Sound(c)'
  BY <1>3
<1>6. /\ \A c \in S!Clients : at[c] = "start" => closed'[c] = {}
      /\ \A c \in S!Clients : "client" \in closed'[c] => "client" \in closed[c]
  BY DEF StreamsIInv, ClientsInv
<1>7. to \in StreamPlace /\ to \in {"accept", "recv", "send", "ended"} /\ to # "ended"
  BY DEF StreamPlace
<1>8. /\ backlog' \in Seq(S!Clients) /\ serving' \in S!Clients \cup {S!Nobody}
      /\ to \in {"recv", "send"} <=> serving' # S!Nobody
  BY <1>1, Names
<1>9. Len(hold') <= (IF program = "web" THEN FileLen + 2 ELSE Buffer)
  OBVIOUS
<1>10. UNCHANGED <<program, kind, length, out, sent, typed>>
  OBVIOUS
<1>11. QED
  BY <1>4, <1>5, <1>6, <1>7, <1>8, <1>9, <1>10, ServerFrame

(* EchoServer takes what it will send back, closes at the end, or ends.     *)
LEMMA HandleRecvStep ==
  ASSUME StreamsIInv, S!HandleRecv, UNCHANGED <<program, kind, length>>
  PROVE  StreamsIInv'
<1>1. program = "echo" /\ at["server"] = "recv" /\ program # "web"
  BY DEF S!HandleRecv
<1>0. PICK w \in S!Clients : w = serving
  BY <1>1, Serving
<1>2. /\ w \in S!Clients /\ w = serving /\ "server" \notin closed[w] /\ at[w] # "start" /\ hold = <<>>
      /\ ConnInv /\ Sound(w) /\ EchoInv(w) /\ Buffer \in Nat \ {0}
      /\ "server" \in S!Ends /\ S!Other["server"] = "client"
  BY <1>0, <1>1, Serving, TwoEnds, StreamsAssumption DEF StreamsIInv, Sound
<1>3. ASSUME NEW k \in 1 .. Buffer, S!Takes("server", serving, k), hold' = S!Got("server", serving, k),
             S!Goes("server", "send"), UNCHANGED <<backlog, serving, S!cli>>
      PROVE  StreamsIInv'
  <2> DEFINE s == inbox[w]["server"]
             got == SubSeq(s, 1, k)
             left == SubSeq(s, k + 1, Len(s))
  <2>1. /\ ConnInv' /\ closed' = closed /\ rst' = rst /\ k \in 1 .. Len(s)
        /\ \A d \in S!Clients : d # w => inbox'[d] = inbox[d]
        /\ inbox'[w][S!Other["server"]] = inbox[w][S!Other["server"]]
        /\ inbox'[w]["server"] = left
    BY <1>2, <1>3, TakeEffect
  <2>2. s \in Items
    BY <1>2, ActiveClient
  <2>3. got \in Items /\ left \in Items /\ Len(got) = k /\ got \o left = s
    BY <2>1, <2>2, TakeCat
  <2>4. hold' = got /\ at' = [at EXCEPT !["server"] = "send"] /\ UNCHANGED <<out, sent, shown, typed>>
    BY <1>0, <1>3 DEF S!Got, S!Goes, S!cli
  <2> HIDE DEF got, left
  <2>5. OnItsWay(w)' = OnItsWay(w)
    <3>1. OnItsWay(w) = <<>> \o s
      BY <1>2 DEF OnItsWay, HeldFor, s
    <3>2. <<>> \o s = s
      BY <2>2, CatEmpty
    <3>3. OnItsWay(w)' = got \o left
      BY <1>0, <1>3, <2>1, <2>4 DEF OnItsWay, HeldFor
    <3>4. QED
      BY <3>1, <3>2, <3>3, <2>3
  <2>6. Back(w)' = Back(w) /\ Unread(w)' = Unread(w) /\ at'[w] = at[w]
    BY <1>2, <1>3, <2>1, <2>4, Names DEF Back, Unread, StreamsIInv, HereTypes
  <2>7. Sound(w)'
    BY <1>1, <1>2, <1>3, <2>1, <2>4, <2>5, <2>6 DEF Sound, EchoInv
  <2>8. hold' \in Items /\ Len(hold') <= Buffer /\ hold' # <<>>
    <3>1. Len(got) # 0 /\ Len(got) <= Buffer
      BY <1>2, <2>3
    <3>2. QED
      BY <3>1, <2>3, <2>4, EmptySeq
  <2>9. shown' \in [S!Clients -> Items]
    BY <2>4 DEF StreamsIInv, HereTypes
  <2>10. UNCHANGED <<program, kind, length, backlog, serving, out, sent, typed>>
    BY <1>3, <2>4
  <2>11. \A d \in S!Clients : d # w => inbox'[d] = inbox[d] /\ rst'[d] = rst[d] /\ shown'[d] = shown[d]
    BY <2>1, <2>4
  <2>12. QED
    BY <1>0, <1>1, <2>1, <2>4, <2>7, <2>8, <2>9, <2>10, <2>11, ServedFrame
<1>4. ASSUME S!AtEnd("server", serving), S!CloseAll("server", {serving}, {}), S!Goes("server", "accept"),
             serving' = S!Nobody, UNCHANGED <<backlog, hold, S!cli>>
      PROVE  StreamsIInv'
  <2>1. at' = [at EXCEPT !["server"] = "accept"] /\ UNCHANGED <<out, sent, shown, typed>>
    BY <1>4 DEF S!Goes, S!cli
  <2>2. \A c \in S!Clients : at'[c] = at[c]
    BY <2>1, Names DEF StreamsIInv, HereTypes
  <2>3. \A c \in S!Clients : HeldFor(c) = <<>> /\ HeldFor(c)' = <<>>
    BY <1>2, <1>4 DEF HeldFor
  <2>4. \A c \in S!Clients :
          /\ Sound(c)'
          /\ c # w => closed'[c] = closed[c]
          /\ "client" \in closed'[c] => "client" \in closed[c]
    BY <1>0, <1>1, <1>4, <2>1, <2>2, <2>3, ServerCloses
  <2>5. ConnInv'
    BY <1>2, <1>4, CloseEffect
  <2>6. QueueInv'
    <3>1. \A j \in 1 .. Len(backlog) : backlog[j] \in S!Clients /\ backlog[j] # w
      BY <1>0, Serving DEF StreamsIInv, QueueInv
    <3>2. \A j \in 1 .. Len(backlog) : closed'[backlog[j]] = closed[backlog[j]] /\ at'[backlog[j]] = at[backlog[j]]
      BY <3>1, <2>2, <2>4
    <3>3. QED
      BY <3>1, <3>2, <1>4, Names DEF StreamsIInv, QueueInv
  <2>7. \A c \in S!Clients : at[c] = "start" => closed'[c] = {}
    BY <1>2, <2>4 DEF StreamsIInv, ClientsInv
  <2>8. \A c \in S!Clients : "client" \in closed'[c] => "client" \in closed[c]
    BY <2>4
  <2>9. /\ shown' \in [S!Clients -> Items] /\ backlog' \in Seq(S!Clients) /\ hold' \in Items
        /\ Len(hold') <= (IF program = "web" THEN FileLen + 2 ELSE Buffer)
    BY <1>4, <2>1 DEF StreamsIInv, HereTypes
  <2>10. "accept" \in StreamPlace /\ hold' = <<>> /\ serving' \in S!Clients \cup {S!Nobody}
    BY <1>2, <1>4 DEF StreamPlace
  <2>11. QED
    BY <1>1, <1>4, <2>1, <2>4, <2>5, <2>6, <2>7, <2>8, <2>9, <2>10, ServerFrame
<1>5. ASSUME "server" \in err[serving], S!ServerExits PROVE StreamsIInv'
  <2>1. "server" \in rst[w]
    BY <1>2, <1>5 DEF ConnInv, ResetInv
  <2>2. Unread(w)
    BY <1>2, <2>1 DEF EchoInv
  <2>3. QED
    BY <1>1, <1>2, <1>5, <2>2, ServerExitsStep
<1>6. QED
  BY <1>3, <1>4, <1>5 DEF S!HandleRecv

(* What is held goes first of all that is on its way.                       *)
LEMMA HeldCat ==
  ASSUME NEW b \in Items, NEW h \in Items, NEW s \in Items, h # <<>>
  PROVE  Append(b, Head(h)) \o (Tail(h) \o s) = b \o (h \o s)
<1>1. Head(h) \in Int /\ Tail(h) \in Items /\ <<Head(h)>> \in Items /\ <<Head(h)>> \o Tail(h) = h
  BY HeadCat
<1>2. Append(b, Head(h)) = b \o <<Head(h)>>
  BY <1>1, AppendCat
<1>3. Tail(h) \o s \in Items
  BY <1>1, CatType
<1>4. (b \o <<Head(h)>>) \o (Tail(h) \o s) = b \o (<<Head(h)>> \o (Tail(h) \o s))
  BY <1>1, <1>3, CatAgain
<1>5. (<<Head(h)>> \o Tail(h)) \o s = <<Head(h)>> \o (Tail(h) \o s)
  BY <1>1, CatAgain
<1>6. QED
  BY <1>1, <1>2, <1>4, <1>5

(* EchoServer sends back what it has taken; to a client that has left, it   *)
(* loses it, then ends.                                                     *)
LEMMA HandleSendStep ==
  ASSUME StreamsIInv, S!HandleSend, UNCHANGED <<program, kind, length>>
  PROVE  StreamsIInv'
<1>1. program = "echo" /\ at["server"] = "send" /\ program # "web"
  BY DEF S!HandleSend
<1>0. PICK w \in S!Clients : w = serving
  BY <1>1, Serving
<1>2. /\ w \in S!Clients /\ w = serving /\ "server" \notin closed[w] /\ at[w] # "start" /\ hold # <<>>
      /\ ConnInv /\ Sound(w) /\ EchoInv(w) /\ hold \in Items
      /\ "server" \in S!Ends /\ S!Other["server"] = "client"
  BY <1>0, <1>1, Serving, TwoEnds DEF StreamsIInv, ServerInv, Sound
<1>3. CASE "server" \in rst[serving] /\ S!ServerExits
  <2>1. Unread(w)
    BY <1>2, <1>3 DEF EchoInv
  <2>2. QED
    BY <1>1, <1>2, <1>3, <2>1, ServerExitsStep
<1>4. ASSUME S!SendItem("server", serving, Head(hold)), hold' = Tail(hold),
             S!Goes("server", IF Len(hold) = 1 THEN "recv" ELSE "send"), UNCHANGED <<backlog, serving, S!cli>>
      PROVE  StreamsIInv'
  <2> DEFINE to == IF Len(hold) = 1 THEN "recv" ELSE "send"
             x == Head(hold)
  <2>1. /\ at' = [at EXCEPT !["server"] = to] /\ UNCHANGED <<out, sent, shown, typed>>
    BY <1>4 DEF S!Goes, S!cli
  <2>2. x \in Int /\ Tail(hold) \in Items /\ Len(Tail(hold)) = Len(hold) - 1 /\ Len(hold) > 0 /\ Len(hold) \in Nat
    BY <1>2, HeadCat, LenIs
  <2>3. /\ ConnInv' /\ closed' = closed
        /\ \A d \in S!Clients : d # w => inbox'[d] = inbox[d] /\ rst'[d] = rst[d]
        /\ inbox'[w]["server"] = inbox[w]["server"]
        /\ S!Other["server"] \notin closed[w] =>
             inbox'[w][S!Other["server"]] = Append(inbox[w][S!Other["server"]], x) /\ rst' = rst
        /\ S!Other["server"] \in closed[w] => inbox' = inbox
    <3>1. S!SendItem("server", w, x)
      BY <1>0, <1>4
    <3>2. ConnInv /\ w \in S!Clients /\ "server" \in S!Ends /\ x \in Int
      BY <1>2, <2>2
    <3> HIDE DEF x
    <3>3. QED
      BY ONLY <3>1, <3>2, SendEffect
  <2>4. /\ "client" \notin closed[w] =>
             inbox'[w]["client"] = Append(inbox[w]["client"], x) /\ rst' = rst
        /\ "client" \in closed[w] => inbox' = inbox
    BY <1>2, <2>3
  <2>5. /\ inbox[w]["client"] \in Items /\ inbox[w]["server"] \in Items
        /\ shown[w] \in Items /\ sent[w] \in Items
    BY <1>2, ActiveClient
  <2>6. at'[w] = at[w] /\ kind'[w] = kind[w] /\ Unread(w)' = Unread(w)
    BY <1>2, <1>4, <2>1, Names DEF Unread, StreamsIInv, HereTypes
  <2>7. /\ OnItsWay(w) = hold \o inbox[w]["server"]
        /\ OnItsWay(w)' = Tail(hold) \o inbox[w]["server"]
    BY <1>0, <1>4, <2>3 DEF OnItsWay, HeldFor
  <2>8. Back(w) \in Items
    BY <2>5, CatType DEF Back
  <2>9. ASSUME "client" \notin closed[w] PROVE EchoInv(w)'
    <3>1. closed[w] = {}
      BY <1>2, <2>9, TwoEnds, SMTT(30) DEF ConnInv, ConnTypes
    <3>2. Back(w)' = Append(Back(w), x)
      <4>1. Back(w)' = shown[w] \o Append(inbox[w]["client"], x)
        BY <1>4, <2>1, <2>4, <2>9 DEF Back
      <4>2. QED
        BY <4>1, <2>2, <2>5, LastCat DEF Back
    <3>3. Back(w)' \o OnItsWay(w)' = sent[w]
      <4>1. Append(Back(w), x) \o (Tail(hold) \o inbox[w]["server"]) = Back(w) \o (hold \o inbox[w]["server"])
        <5>1. hold \in Items /\ hold # <<>> /\ inbox[w]["server"] \in Items
          BY <1>2, <2>5
        <5>2. QED
          BY ONLY <5>1, <2>8, HeldCat
      <4>2. Back(w) \o OnItsWay(w) = sent[w]
        BY <1>2, <3>1 DEF EchoInv
      <4>3. QED
        BY <4>1, <4>2, <3>2, <2>7
    <3>4. Back(w)' \in Items /\ OnItsWay(w)' \in Items
      BY <3>2, <2>2, <2>5, <2>7, <2>8, AppendCat, CatType
    <3>5. Leads(Back(w)', Back(w)' \o OnItsWay(w)')
      <4>1. PICK b \in Items : b = Back(w)'
        BY <3>4
      <4>2. PICK r \in Items : r = OnItsWay(w)'
        BY <3>4
      <4>3. Leads(b, b \o r)
        BY LeadsCat
      <4>4. QED
        BY <4>1, <4>2, <4>3
    <3>6. Leads(Back(w)', sent[w])
      BY <3>3, <3>5
    <3>7. QED
      <4>1. closed'[w] = closed[w] /\ rst'[w] = rst[w] /\ sent'[w] = sent[w] /\ shown'[w] = shown[w]
        BY <2>1, <2>3, <2>4, <2>9
      <4>2. "server" \in rst[w] => Unread(w)
        BY <1>2 DEF EchoInv
      <4>3. kind[w] = "client" /\ at[w] = "ended" => shown[w] = sent[w]
        BY <1>2 DEF EchoInv
      <4>4. QED
        BY <2>6, <2>9, <3>3, <3>6, <4>1, <4>2, <4>3 DEF EchoInv
  <2>10. ASSUME "client" \in closed[w] PROVE EchoInv(w)'
    <3>1. OnItsWay(w) # <<>>
      <4>1. hold \o inbox[w]["server"] \in Items
            /\ Len(hold \o inbox[w]["server"]) = Len(hold) + Len(inbox[w]["server"])
            /\ Len(inbox[w]["server"]) \in Nat
        BY <1>2, <2>5, Cat
      <4>2. Len(hold \o inbox[w]["server"]) # 0
        BY <2>2, <4>1
      <4>3. QED
        BY <2>7, <4>1, <4>2, CatEmpty
    <3>2. Unread(w)
      BY <1>2, <2>10, <3>1 DEF EchoInv
    <3>3. Back(w)' = Back(w)
      BY <1>4, <2>1, <2>4, <2>10 DEF Back
    <3>4. QED
      <4>1. closed'[w] = closed[w] /\ closed[w] # {} /\ sent'[w] = sent[w] /\ shown'[w] = shown[w]
        BY <2>1, <2>3, <2>10
      <4>2. Leads(Back(w), sent[w])
        BY <1>2 DEF EchoInv
      <4>3. kind[w] = "client" /\ at[w] = "ended" => shown[w] = sent[w]
        BY <1>2 DEF EchoInv
      <4>4. QED
        BY <2>6, <3>2, <3>3, <4>1, <4>2, <4>3 DEF EchoInv
  <2>11. Sound(w)'
    BY <1>0, <1>1, <2>9, <2>10 DEF Sound
  <2>12. hold' \in Items /\ Len(hold') <= Buffer /\ (hold' # <<>> <=> to = "send")
    <3>1. Len(hold) <= Buffer /\ Buffer \in Nat
      BY <1>1, StreamsAssumption DEF StreamsIInv, HereTypes
    <3>2. Len(hold') = 0 <=> hold' = <<>>
      BY <1>4, <2>2, CatEmpty
    <3>3. Len(hold') = 0 <=> Len(hold) = 1
      BY <1>4, <2>2
    <3>4. Len(hold') <= Buffer
      BY <1>4, <2>2, <3>1
    <3>5. QED
      BY <1>4, <2>2, <3>2, <3>3, <3>4
  <2>13. shown' \in [S!Clients -> Items] /\ to \in {"recv", "send"}
    BY <2>1 DEF StreamsIInv, HereTypes
  <2>14. UNCHANGED <<program, kind, length, backlog, serving, out, sent, typed>>
    BY <1>4, <2>1
  <2>15. \A d \in S!Clients : d # w => inbox'[d] = inbox[d] /\ rst'[d] = rst[d] /\ shown'[d] = shown[d]
    BY <2>1, <2>3
  <2> HIDE DEF to
  <2>16. QED
    BY <1>0, <1>1, <2>1, <2>3, <2>11, <2>12, <2>13, <2>14, <2>15, ServedFrame
<1>5. QED
  BY <1>3, <1>4 DEF S!HandleSend

(* tcpserver takes what was sent; it ends when its client has.              *)
LEMMA HiRecvStep ==
  ASSUME StreamsIInv, S!HiRecv, UNCHANGED <<program, kind, length>>
  PROVE  StreamsIInv'
<1>1. program = "hi" /\ at["server"] = "recv" /\ program # "web" /\ program # "echo"
  BY DEF S!HiRecv
<1>0. PICK w \in S!Clients : w = serving
  BY <1>1, Serving
<1>2. /\ w \in S!Clients /\ w = serving /\ "server" \notin closed[w] /\ at[w] # "start" /\ hold = <<>>
      /\ ConnInv /\ Sound(w) /\ HiInv(w) /\ Buffer \in Nat \ {0}
      /\ "server" \in S!Ends /\ S!Other["server"] = "client"
  BY <1>0, <1>1, Serving, TwoEnds, StreamsAssumption DEF StreamsIInv, Sound
<1>3. CASE S!AtEnd("server", serving) /\ S!ServerExits
  BY <1>1, <1>3, ServerExitsStep
<1>4. ASSUME NEW k \in 1 .. Buffer, S!Takes("server", serving, k),
             shown' = [shown EXCEPT ![serving] = @ \o S!Got("server", serving, k)],
             UNCHANGED <<at, S!srv, out, sent, typed>>
      PROVE  StreamsIInv'
  <2> DEFINE s == inbox[w]["server"]
             got == SubSeq(s, 1, k)
             left == SubSeq(s, k + 1, Len(s))
  <2>1. /\ ConnInv' /\ closed' = closed /\ rst' = rst /\ k \in 1 .. Len(s)
        /\ \A d \in S!Clients : d # w => inbox'[d] = inbox[d]
        /\ inbox'[w][S!Other["server"]] = inbox[w][S!Other["server"]]
        /\ inbox'[w]["server"] = left
    BY <1>2, <1>4, TakeEffect
  <2>2. s \in Items /\ shown[w] \in Items /\ sent[w] \in Items
    BY <1>2, ActiveClient
  <2>3. got \in Items /\ left \in Items /\ (shown[w] \o got) \o left = shown[w] \o s
    BY <2>1, <2>2, TakeCat, ReceivedCat
  <2>4. shown' = [shown EXCEPT ![w] = @ \o got]
    BY <1>0, <1>4 DEF S!Got
  <2> HIDE DEF got, left
  <2>5. shown[w] \o got \in Items
    BY <2>2, <2>3, CatType
  <2>6. /\ shown'[w] = shown[w] \o got /\ \A d \in S!Clients : d # w => shown'[d] = shown[d]
        /\ shown' \in [S!Clients -> Items]
    BY <1>2, <2>4, <2>5 DEF StreamsIInv, HereTypes
  <2>7. UNCHANGED <<backlog, serving, hold, out, sent, typed, at>>
    BY <1>4 DEF S!srv
  <2>8. inbox'[w]["client"] = <<>> /\ shown'[w] \o inbox'[w]["server"] = sent[w]
    BY <1>2, <2>1, <2>3, <2>6 DEF HiInv
  <2>9. Leads(shown[w] \o got, sent[w])
    <3>1. Leads(shown[w] \o got, (shown[w] \o got) \o left)
      BY <2>3, <2>5, LeadsCat
    <3>2. (shown[w] \o got) \o left = sent[w]
      BY <1>2, <2>3 DEF HiInv
    <3>3. QED
      BY <3>1, <3>2
  <2>10. Sound(w)'
    BY <1>1, <1>4, <2>6, <2>7, <2>8, <2>9 DEF Sound, HiInv
  <2>11. at' = [at EXCEPT !["server"] = "recv"]
    BY <1>1, <2>7 DEF StreamsIInv, HereTypes
  <2>12. hold' = <<>> /\ hold' \in Items /\ Len(hold') <= Buffer
    <3>1. <<>> \in Items /\ Len(<<>>) = 0
      BY EmptySeq DEF Items
    <3>2. QED
      BY <3>1, <1>2, <2>7
  <2>13. \A d \in S!Clients : d # w => inbox'[d] = inbox[d] /\ rst'[d] = rst[d] /\ shown'[d] = shown[d]
    BY <2>1, <2>6
  <2>14. UNCHANGED <<program, kind, length, backlog, serving, out, sent, typed>>
    BY <2>7
  <2>15. QED
    BY <1>0, <1>1, <2>1, <2>6, <2>10, <2>11, <2>12, <2>13, <2>14, ServedFrame
<1>5. QED
  BY <1>3, <1>4 DEF S!HiRecv

(* The first that waits is served; tcpserver turns the others away.         *)
LEMMA AcceptStep ==
  ASSUME StreamsIInv, S!Accept, UNCHANGED <<program, kind, length>>
  PROVE  StreamsIInv'
<1>1. /\ at["server"] = "accept" /\ backlog # <<>> /\ serving' = Head(backlog)
      /\ at' = [at EXCEPT !["server"] = "recv"] /\ UNCHANGED <<hold, out, sent, shown, typed>>
  BY DEF S!Accept, S!Goes, S!cli
<1>2. /\ program # "web" /\ program \in {"echo", "hi"}
  BY <1>1 DEF StreamsIInv, ServerInv, HereTypes
<1>3. /\ hold = <<>> /\ serving = S!Nobody /\ backlog \in Seq(S!Clients) /\ QueueInv /\ ConnInv
      /\ \A j \in 1 .. Len(backlog) : backlog[j] \in S!Clients
  BY <1>1, <1>2, Serving DEF StreamsIInv
<1>4. /\ Len(backlog) \in Nat \ {0} /\ Head(backlog) = backlog[1] /\ 1 \in 1 .. Len(backlog)
      /\ Tail(backlog) \in Seq(S!Clients) /\ Len(Tail(backlog)) = Len(backlog) - 1
      /\ \A j \in 1 .. Len(Tail(backlog)) : Tail(backlog)[j] = backlog[j + 1] /\ j + 1 \in 1 .. Len(backlog)
  BY <1>1, <1>3, EmptySeq
<1>5. PICK w \in S!Clients : w = Head(backlog)
  BY <1>3, <1>4
<1>6. at[w] # "start" /\ "server" \notin closed[w] /\ w # S!Nobody
  BY <1>3, <1>4, <1>5, Names DEF QueueInv
<1>7. \A c \in S!Clients : at'[c] = at[c] /\ HeldFor(c) = <<>> /\ HeldFor(c)' = <<>>
  BY <1>1, <1>3, Names DEF HeldFor, StreamsIInv, HereTypes
<1>8. \A c \in S!Clients : at[c] = "start" => closed[c] = {}
  BY DEF StreamsIInv, ClientsInv
<1>9. /\ shown' \in [S!Clients -> Items] /\ hold' \in Items /\ hold' = <<>> /\ serving' \in S!Clients \cup {S!Nobody}
      /\ Len(hold') <= (IF program = "web" THEN FileLen + 2 ELSE Buffer) /\ serving' # S!Nobody
  BY <1>1, <1>3, <1>5, <1>6 DEF StreamsIInv, HereTypes
<1>10. "recv" \in StreamPlace
  BY DEF StreamPlace
<1>11. CASE program = "echo"
  <2>1. backlog' = Tail(backlog) /\ UNCHANGED <<inbox, closed, rst, err>>
    BY <1>11 DEF S!Accept, S!conn
  <2>2. ConnInv'
    BY <1>3, <2>1 DEF ConnInv, ConnTypes, ResetInv
  <2>3. ASSUME NEW c \in S!Clients PROVE Sound(c)'
    <3>1. Back(c)' = Back(c) /\ OnItsWay(c)' = OnItsWay(c) /\ Unread(c)' = Unread(c)
      BY <1>1, <1>7, <2>1 DEF Back, OnItsWay, Unread
    <3>2. Sound(c)
      BY DEF StreamsIInv
    <3>3. EchoInv(c)'
      BY <3>1, <3>2, <1>1, <1>7, <1>11, <2>1 DEF Sound, EchoInv
    <3>4. QED
      BY <3>3, <1>11 DEF Sound
  <2>4. QueueInv'
    <3>1. ASSUME NEW j \in 1 .. Len(backlog'), NEW k \in 1 .. Len(backlog'), backlog'[j] = backlog'[k] PROVE j = k
      <4>1. j + 1 \in 1 .. Len(backlog) /\ k + 1 \in 1 .. Len(backlog) /\ backlog[j + 1] = backlog[k + 1]
        BY <1>4, <2>1, <3>1
      <4>2. j + 1 = k + 1
        BY <1>3, <4>1 DEF QueueInv
      <4>3. QED
        BY <4>2
    <3>2. ASSUME NEW j \in 1 .. Len(backlog')
          PROVE  backlog'[j] # serving' /\ at'[backlog'[j]] # "start" /\ "server" \notin closed'[backlog'[j]]
      <4>1. j + 1 \in 1 .. Len(backlog) /\ backlog'[j] = backlog[j + 1] /\ j + 1 # 1
        BY <1>4, <2>1
      <4>2. backlog[j + 1] # backlog[1]
        BY <1>3, <1>4, <4>1 DEF QueueInv
      <4>3. at[backlog[j + 1]] # "start" /\ "server" \notin closed[backlog[j + 1]] /\ backlog[j + 1] \in S!Clients
        BY <1>3, <4>1 DEF QueueInv
      <4>4. QED
        BY <4>1, <4>2, <4>3, <1>1, <1>4, <1>7, <2>1
    <3>3. serving' # S!Nobody => at'[serving'] # "start" /\ "server" \notin closed'[serving']
      BY <1>1, <1>5, <1>6, <1>7, <2>1
    <3>4. QED
      BY <3>1, <3>2, <3>3 DEF QueueInv
  <2>5. /\ \A c \in S!Clients : "client" \in closed'[c] => "client" \in closed[c]
        /\ \A c \in S!Clients : at[c] = "start" => closed'[c] = {}
    BY <1>8, <2>1
  <2>6. backlog' \in Seq(S!Clients)
    BY <1>4, <2>1
  <2>7. QED
    BY <1>1, <1>2, <1>9, <1>10, <2>2, <2>3, <2>4, <2>5, <2>6, ServerFrame
<1>12. CASE program = "hi"
  <2> DEFINE cs == S!Queued \ {w}
  <2>1. backlog' = <<>> /\ S!CloseAll("server", cs, S!Queued)
    BY <1>5, <1>12 DEF S!Accept
  <2>2. \A c \in S!Clients : at[c] = "start" => c \notin cs
    BY Serving
  <2>3. w \notin cs
    OBVIOUS
  <2> HIDE DEF cs
  <2>4. ASSUME NEW c \in S!Clients
        PROVE  /\ Sound(c)' /\ (c \notin cs => closed'[c] = closed[c])
               /\ "client" \in closed'[c] => "client" \in closed[c]
    BY <1>1, <1>2, <1>7, <2>1, ServerCloses
  <2>5. ConnInv'
    BY <1>3, <2>1, CloseEffect, TwoEnds
  <2>6. QueueInv'
    <3>1. at'[w] # "start" /\ "server" \notin closed'[w] /\ serving' = w
      BY <1>1, <1>5, <1>6, <1>7, <2>3, <2>4
    <3>2. Len(backlog') = 0
      BY <2>1
    <3>3. QED
      BY <3>1, <3>2 DEF QueueInv
  <2>7. \A c \in S!Clients : at[c] = "start" => closed'[c] = {}
    BY <1>8, <2>2, <2>4
  <2>8. \A c \in S!Clients : "client" \in closed'[c] => "client" \in closed[c]
    BY <2>4
  <2>9. backlog' \in Seq(S!Clients)
    BY <2>1
  <2>10. QED
    BY <1>1, <1>2, <1>9, <1>10, <2>4, <2>5, <2>6, <2>7, <2>8, <2>9, ServerFrame
<1>13. QED
  BY <1>2, <1>11, <1>12

(* The web server sends, closes or resets.                                  *)
LEMMA WebFrame ==
  ASSUME StreamsIInv, program = "web", ConnInv', UNCHANGED <<program, kind, length, at, backlog, serving, S!cli>>,
         hold' \in Items, Len(hold') <= FileLen + 2,
         \A c \in S!Clients : "client" \in closed'[c] => "client" \in closed[c],
         closed'["c2"] = closed["c2"], at["c1"] # "start", WebsInv'
  PROVE  StreamsIInv'
<1>1. at["server"] = "accept" /\ backlog = <<>> /\ serving = S!Nobody
  BY DEF StreamsIInv, ServerInv
<1>2. UNCHANGED <<out, sent, typed, shown>>
  BY DEF S!cli
<1>3. at' = [at EXCEPT !["server"] = "accept"] /\ "accept" \in StreamPlace
  BY <1>1 DEF StreamsIInv, HereTypes, StreamPlace
<1>4. shown' \in [S!Clients -> Items] /\ backlog' \in Seq(S!Clients) /\ serving' \in S!Clients \cup {S!Nobody}
  BY <1>2 DEF StreamsIInv, HereTypes
<1>5. QueueInv'
  BY <1>1 DEF QueueInv
<1>6. \A c \in S!Clients : Sound(c)'
  BY DEF Sound
<1>7. \A c \in S!Clients : at[c] = "start" => closed'[c] = {}
  BY Names DEF StreamsIInv, ClientsInv
<1>8. serving' = S!Nobody /\ Len(hold') <= (IF program = "web" THEN FileLen + 2 ELSE Buffer)
  BY <1>1
<1>9. QED
  BY <1>2, <1>3, <1>4, <1>5, <1>6, <1>7, <1>8, ServerFrame

(* The web server sends an item of its response, closes, or resets.         *)
LEMMA WebStep ==
  ASSUME StreamsIInv, S!WebSends \/ S!WebCloses \/ S!WebResets, UNCHANGED <<program, kind, length>>
  PROVE  StreamsIInv'
<1>1. program = "web" /\ at["c1"] # "start" /\ "server" \notin closed["c1"]
  BY DEF S!WebSends, S!WebCloses, S!WebResets, S!Connected, S!Live
<1>2. /\ ConnInv /\ WebsInv /\ "c1" \in S!Clients /\ "c2" \in S!Clients /\ "server" \in S!Ends
      /\ S!Other["server"] = "client" /\ hold \in Items /\ Len(hold) <= FileLen + 2
  BY <1>1, TwoEnds, Names DEF StreamsIInv, Sound, HereTypes
<1>3. /\ S!Response \in Items /\ Stripped \in Items /\ Back("c1") \in Items
      /\ inbox["c1"]["client"] \in Items /\ shown["c1"] \in Items
  BY <1>2, ResponseTypes, ActiveClient
<1>4. S!Response' = S!Response /\ Wanted' = Wanted
  BY DEF S!Response, S!Body, Wanted
<1>5. ASSUME S!WebSends PROVE StreamsIInv'
  <2> DEFINE x == Head(hold)
  <2>1. /\ hold # <<>> /\ hold' = Tail(hold) /\ S!SendItem("server", "c1", x)
        /\ UNCHANGED <<at, backlog, serving, S!cli>>
    BY <1>5 DEF S!WebSends
  <2>2. UNCHANGED <<out, sent, shown, typed>>
    BY <2>1 DEF S!cli
  <2>3. x \in Int /\ Tail(hold) \in Items /\ Len(Tail(hold)) = Len(hold) - 1 /\ Len(hold) \in Nat
    BY <1>2, <2>1, HeadCat, LenIs
  <2>4. /\ ConnInv' /\ closed' = closed
        /\ "client" \notin closed["c1"] =>
             inbox'["c1"]["client"] = Append(inbox["c1"]["client"], x) /\ rst' = rst
    <3> HIDE DEF x
    <3>1. /\ ConnInv' /\ closed' = closed
          /\ S!Other["server"] \notin closed["c1"] =>
              inbox'["c1"][S!Other["server"]] = Append(inbox["c1"][S!Other["server"]], x) /\ rst' = rst
      BY <1>2, <2>1, <2>3, SendEffect
    <3>2. QED
      BY <1>2, <3>1
  <2>5. "client" \notin closed["c1"] => (Stripped \o Back("c1")') \o hold' = S!Response
    <3>1. SUFFICES ASSUME "client" \notin closed["c1"] PROVE (Stripped \o Back("c1")') \o hold' = S!Response
      OBVIOUS
    <3>2. Back("c1")' = shown["c1"] \o Append(inbox["c1"]["client"], x)
      BY <2>2, <2>4, <3>1 DEF Back
    <3>3. Back("c1")' = Append(Back("c1"), x)
      BY <3>2, <1>3, <2>3, LastCat DEF Back
    <3>4. Stripped \o Append(Back("c1"), x) = Append(Stripped \o Back("c1"), x)
      BY <1>3, <2>3, LastCat
    <3>5. Stripped \o Back("c1") \in Items
      BY <1>3, CatType
    <3>6. Append(Stripped \o Back("c1"), x) \o Tail(hold) = (Stripped \o Back("c1")) \o hold
      BY <3>5, <1>2, <2>1, SentCat
    <3>7. QED
      BY <3>1, <3>3, <3>4, <3>6, <1>2, <2>1 DEF WebsInv
  <2>6. Stripped' = Stripped
    BY <2>1 DEF Stripped
  <2>7. kind["c1"] \in WholeKinds /\ at["c1"] = "ended" => "client" \in rst["c1"] /\ "client" \in rst'["c1"]
    <3>1. kind["c1"] \in WholeKinds /\ at["c1"] = "ended" => "client" \in rst["c1"]
      BY <1>1, <1>2 DEF WebsInv
    <3>2. "client" \in rst["c1"] => "client" \in rst'["c1"]
      BY <1>2, <2>1 DEF S!SendItem, S!Adds, ConnInv, ConnTypes
    <3>3. QED
      BY <3>1, <3>2
  <2>8. WebsInv'
    BY <1>2, <1>4, <2>1, <2>2, <2>4, <2>5, <2>6, <2>7 DEF WebsInv
  <2>9. hold' \in Items /\ Len(hold') <= FileLen + 2
    BY <1>2, <2>1, <2>3, StreamsAssumption
  <2>10. QED
    BY <1>1, <2>1, <2>4, <2>8, <2>9, WebFrame
<1>6. ASSUME S!WebCloses \/ S!WebResets PROVE StreamsIInv'
  <2>1. PICK hard \in {{}, {"c1"}} : S!CloseAll("server", {"c1"}, hard)
    BY <1>6 DEF S!WebCloses, S!WebResets
  <2>2. UNCHANGED <<at, backlog, serving, hold, S!cli>> /\ UNCHANGED <<out, sent, shown, typed>>
    BY <1>6 DEF S!WebCloses, S!WebResets, S!cli, S!srv
  <2>3. /\ ConnInv'
        /\ \A d \in S!Clients : d \notin {"c1"} => inbox'[d] = inbox[d] /\ closed'[d] = closed[d] /\ rst'[d] = rst[d]
        /\ \A d \in S!Clients : d \in {"c1"} =>
              /\ inbox'[d]["server"] = <<>> /\ inbox'[d][S!Other["server"]] = inbox[d][S!Other["server"]]
              /\ closed'[d] = closed[d] \cup {"server"}
        /\ \A d \in S!Clients : rst[d] \subseteq rst'[d]
    BY <1>2, <2>1, CloseEffect
  <2>4. /\ inbox'["c1"]["client"] = inbox["c1"]["client"] /\ closed'["c1"] = closed["c1"] \cup {"server"}
        /\ rst["c1"] \subseteq rst'["c1"] /\ closed'["c2"] = closed["c2"]
    BY <1>2, <2>3
  <2>5. Back("c1")' = Back("c1") /\ Stripped' = Stripped
    BY <2>2, <2>4 DEF Back, Stripped
  <2>6. WebsInv'
    BY <1>2, <1>4, <2>2, <2>4, <2>5 DEF WebsInv
  <2>7. \A c \in S!Clients : "client" \in closed'[c] => "client" \in closed[c]
    BY <2>4, Names
  <2>8. hold' \in Items /\ Len(hold') <= FileLen + 2
    BY <1>2, <2>2
  <2>9. QED
    BY <1>1, <2>2, <2>3, <2>4, <2>6, <2>7, <2>8, WebFrame
<1>7. QED
  BY <1>5, <1>6
-----------------------------------------------------------------------------
(* The initial states.                                                     *)
LEMMA FirstIs ==
  ASSUME NEW m \in Nat
  PROVE  S!First(m) \in Items /\ Len(S!First(m)) = m
BY DEF S!First, Items

(* The response fits what the server holds.                                 *)
LEMMA ResponseIs ==
  ASSUME length \in {-1, 0, FileLen}
  PROVE  S!Response \in Items /\ Len(S!Response) <= FileLen + 2 /\ S!Body \in Items
<1> DEFINE m == IF length = 0 THEN 0 ELSE FileLen
           two == <<S!Status, S!Header>>
<1>1. FileLen \in Nat /\ m \in Nat /\ m <= FileLen
  BY StreamsAssumption
<1>2. S!Body \in Items /\ Len(S!Body) = m
  BY <1>1, FirstIs DEF S!Body
<1>3. two \in Items /\ Len(two) = 2
  BY DEF Items, S!Status, S!Header
<1> HIDE DEF two, m
<1>4. two \o S!Body \in Items /\ Len(two \o S!Body) = 2 + m
  <2>1. PICK b \in Items : b = S!Body /\ Len(b) = m
    BY <1>2
  <2>2. PICK t \in Items : t = two /\ Len(t) = 2
    BY <1>3
  <2>3. t \o b \in Items /\ Len(t \o b) = Len(t) + Len(b)
    BY Cat
  <2>4. QED
    BY <2>1, <2>2, <2>3
<1>5. <<>> \in Items /\ Len(<<>>) = 0
  BY EmptySeq DEF Items
<1>6. S!Response = <<>> \/ S!Response = two \o S!Body
  BY DEF S!Response, two
<1>7. 2 + m <= FileLen + 2 /\ 0 <= FileLen + 2
  BY <1>1
<1>8. CASE S!Response = <<>>
  BY <1>2, <1>5, <1>7, <1>8
<1>9. CASE S!Response = two \o S!Body
  BY <1>2, <1>4, <1>7, <1>9
<1>10. QED
  BY <1>6, <1>8, <1>9

(* The initial states of all three programs.                                *)
LEMMA StreamsInit ==
  ASSUME S!Init
  PROVE  StreamsIInv
<1>1. /\ at = [c \in S!Clients \cup {"server"} |-> IF c = "server" THEN "accept" ELSE "start"]
      /\ inbox = [c \in S!Clients |-> [e \in S!Ends |-> <<>>]] /\ closed = [c \in S!Clients |-> {}]
      /\ rst = closed /\ err = closed /\ backlog = <<>> /\ serving = S!Nobody
      /\ sent = [c \in S!Clients |-> <<>>] /\ shown = sent /\ typed = [c \in S!Clients |-> 0]
  BY DEF S!Init
<1>2. <<>> \in Items /\ Len(<<>>) = 0 /\ <<>> \in Seq(S!Clients) /\ Len(backlog) = 0
  BY <1>1, EmptySeq DEF Items
<1>3. /\ at["server"] = "accept" /\ \A c \in S!Clients : at[c] = "start"
      /\ at \in [S!Clients \cup {"server"} -> StreamPlace]
  BY <1>1, Names DEF StreamPlace
<1>4. \A c \in S!Clients : /\ inbox[c]["client"] = <<>> /\ inbox[c]["server"] = <<>>
                          /\ closed[c] = {} /\ rst[c] = {} /\ shown[c] = <<>> /\ sent[c] = <<>>
  BY <1>1, TwoEnds
<1>5. ConnInv
  <2>1. 0 <= Room
    BY StreamsAssumption
  <2>2. ConnTypes
    BY <2>1, <1>1, <1>2 DEF ConnTypes
  <2>3. ResetInv
    BY <1>1 DEF ResetInv
  <2>4. QED
    BY <2>2, <2>3 DEF ConnInv
<1>6. QueueInv /\ S!EndedByUnread
  BY <1>1, <1>2, <1>3 DEF QueueInv, S!EndedByUnread
<1>7. \A c \in S!Clients : Leads(<<>>, <<>>) /\ Back(c) = <<>> /\ (hold = <<>> => OnItsWay(c) = <<>>)
  <2>1. <<>> \o <<>> = <<>> /\ Leads(<<>>, <<>>)
    BY <1>2, CatEmpty, LeadsCat
  <2>2. QED
    BY <2>1, <1>4 DEF Back, OnItsWay, HeldFor
<1>8. 0 \in 0 .. MaxLines /\ 0 <= Buffer /\ MaxWord \in Nat /\ MaxWord > 1
  BY StreamsAssumption
<1>9. /\ typed \in [S!Clients -> 0 .. MaxLines]
      /\ sent \in [S!Clients -> Items] /\ shown \in [S!Clients -> Items]
      /\ backlog \in Seq(S!Clients) /\ serving \in S!Clients \cup {S!Nobody}
  BY <1>1, <1>2, <1>8
<1>10. CASE /\ program = "echo" /\ kind \in [S!Clients -> {"client", "sigPipeClient"}] /\ length = 0 /\ hold = <<>>
            /\ out \in [S!Clients -> {S!First(k) : k \in {1, MaxWord - 1, MaxWord}}]
  <2>1. \A k \in {1, MaxWord - 1, MaxWord} : k \in Nat /\ k # 0
    BY <1>8
  <2>2. \A k \in {1, MaxWord - 1, MaxWord} : S!First(k) \in Items /\ S!First(k) # <<>>
    BY <2>1, <1>2, FirstIs
  <2>3. out \in [S!Clients -> Items] /\ \A c \in S!Clients : out[c] # <<>>
    BY <2>2, <1>10
  <2>4. HereTypes
    BY <2>3, <1>2, <1>3, <1>8, <1>9, <1>10 DEF HereTypes, Visitors
  <2>5. KindsInv /\ ServerInv /\ ClientsInv
    <3>1. KindsInv
      BY <1>10 DEF KindsInv
    <3>2. ServerInv
      BY <1>1, <1>3, <1>10 DEF ServerInv
    <3>3. ClientsInv
      BY <2>3, <1>3, <1>4 DEF ClientsInv, PlacesOf
    <3>4. QED
      BY <3>1, <3>2, <3>3
  <2>6. \A c \in S!Clients : Sound(c)
    <3>1. <<>> \o <<>> = <<>>
      BY <1>2, CatEmpty
    <3>2. \A c \in S!Clients : EchoInv(c)
      BY <3>1, <1>3, <1>4, <1>7, <1>10 DEF EchoInv
    <3>3. QED
      BY <3>2, <1>10 DEF Sound
  <2>7. QED
    BY <2>4, <2>5, <2>6, <1>5, <1>6 DEF StreamsIInv
<1>11. CASE /\ program = "hi" /\ kind = [c \in S!Clients |-> "tcpclient"] /\ length = 0 /\ hold = <<>>
            /\ out = [c \in S!Clients |-> <<>>]
  <2>1. HereTypes
    BY <1>2, <1>3, <1>8, <1>9, <1>11 DEF HereTypes, Visitors
  <2>2. KindsInv /\ ServerInv /\ ClientsInv
    BY <1>1, <1>3, <1>4, <1>11 DEF KindsInv, ServerInv, ClientsInv, PlacesOf
  <2>3. <<>> \o <<>> = <<>>
    BY <1>2, CatEmpty
  <2>4. \A c \in S!Clients : Sound(c)
    BY <2>3, <1>3, <1>4, <1>7, <1>11 DEF Sound, HiInv
  <2>5. QED
    BY <2>1, <2>2, <2>4, <1>5, <1>6 DEF StreamsIInv
<1>12. CASE /\ program = "web" /\ \E r \in S!Readers : kind = [c1 |-> r, c2 |-> S!Nobody]
            /\ length \in {-1, 0, FileLen} /\ out = [c \in S!Clients |-> <<>>] /\ hold = S!Response
  <2>1. /\ kind["c1"] \in S!Readers /\ kind["c2"] = S!Nobody
        /\ kind \in [S!Clients -> Visitors \cup S!Readers \cup {S!Nobody}]
    BY <1>12, Names DEF S!Clients
  <2>2. S!Response \in Items /\ Len(S!Response) <= FileLen + 2 /\ S!Body \in Items
    BY <1>12, ResponseIs
  <2>3. HereTypes
    BY <2>1, <2>2, <1>2, <1>3, <1>9, <1>12 DEF HereTypes
  <2>4. KindsInv /\ ServerInv /\ ClientsInv
    BY <2>1, <1>1, <1>3, <1>4, <1>12, Names DEF KindsInv, ServerInv, ClientsInv, PlacesOf, Visitors
  <2>5. Stripped = <<>> /\ Wanted \in Items
    BY <2>2, <1>3, Names DEF Stripped, Wanted
  <2>6. Leads(<<>>, Wanted) /\ (<<>> \o <<>>) \o S!Response = S!Response
    <3>1. Leads(<<>>, Wanted)
      BY <2>5, <1>2 DEF Leads, Items
    <3>2. QED
      BY <3>1, <2>2, <1>2, CatEmpty
  <2>7. WebsInv
    BY <2>5, <2>6, <1>3, <1>4, <1>7, <1>12, Names DEF WebsInv
  <2>8. QED
    BY <2>3, <2>4, <2>7, <1>5, <1>6, <1>12 DEF StreamsIInv, Sound
<1>13. QED
  BY <1>10, <1>11, <1>12 DEF S!Init
-----------------------------------------------------------------------------
(* What the invariant is for.                                              *)
LEMMA StreamsSafe ==
  ASSUME StreamsIInv
  PROVE  S!StreamsInv
<1>1. S!TypeOK
  <2>1. \A c \in S!Clients, e \in S!Ends : Len(inbox[c][e]) <= Room
    BY DEF StreamsIInv, ConnInv, ConnTypes
  <2>2. /\ closed \in [S!Clients -> SUBSET S!Ends] /\ err \in [S!Clients -> SUBSET S!Ends]
        /\ rst \in [S!Clients -> SUBSET S!Ends]
    BY DEF StreamsIInv, ConnInv, ConnTypes
  <2>3. HereTypes
    BY DEF StreamsIInv
  <2>4. QED
    BY <2>1, <2>2, <2>3 DEF S!TypeOK, HereTypes, StreamPlace
<1>2. ASSUME NEW c \in S!Clients, kind[c] \in {"client", "sigPipeClient", "tcpclient"}
      PROVE  /\ S!IsPrefix(shown[c], sent[c])
             /\ closed[c] = {} => LET held == IF serving = c THEN hold ELSE <<>>
                                 IN  shown[c] \o inbox[c]["client"] \o held \o inbox[c]["server"] = sent[c]
             /\ kind[c] = "client" /\ at[c] = "ended" => shown[c] = sent[c]
  <2>1. /\ inbox[c]["client"] \in Items /\ inbox[c]["server"] \in Items /\ HeldFor(c) \in Items
        /\ shown[c] \in Items /\ sent[c] \in Items /\ Back(c) \in Items
    BY ActiveClient
  <2>2. Sound(c) /\ (program = "echo" \/ program = "hi") /\ (kind[c] = "client" => program = "echo")
    BY <1>2, ProgramOf, Names DEF StreamsIInv, Visitors
  <2>3. (Back(c) \o HeldFor(c)) \o inbox[c]["server"] = Back(c) \o (HeldFor(c) \o inbox[c]["server"])
    BY <2>1, CatAgain
  <2>4. CASE program = "echo"
    <3>1. EchoInv(c)
      BY <2>2, <2>4 DEF Sound
    <3>2. Leads(shown[c] \o inbox[c]["client"], sent[c])
      BY <3>1 DEF EchoInv, Back
    <3>3. Leads(shown[c], sent[c])
      BY <3>2, <2>1, LeadsCat
    <3>4. S!IsPrefix(shown[c], sent[c])
      BY <3>3, <2>1, LeadsIsPrefix
    <3>5. closed[c] = {} => (Back(c) \o HeldFor(c)) \o inbox[c]["server"] = sent[c]
      BY <3>1, <2>3 DEF EchoInv, OnItsWay
    <3>6. kind[c] = "client" /\ at[c] = "ended" => shown[c] = sent[c]
      BY <3>1 DEF EchoInv
    <3>7. QED
      BY <3>4, <3>5, <3>6 DEF Back, HeldFor
  <2>5. CASE program = "hi"
    <3>1. HiInv(c) /\ hold = <<>>
      BY <2>2, <2>5 DEF Sound, StreamsIInv, ServerInv
    <3>2. S!IsPrefix(shown[c], sent[c])
      BY <3>1, <2>1, LeadsIsPrefix DEF HiInv
    <3>3. HeldFor(c) = <<>> /\ Back(c) = shown[c] /\ Back(c) \o HeldFor(c) = shown[c]
      BY <3>1, <2>1, CatEmpty DEF HeldFor, Back, HiInv
    <3>4. closed[c] = {} => (Back(c) \o HeldFor(c)) \o inbox[c]["server"] = sent[c]
      BY <3>1, <3>3 DEF HiInv
    <3>5. QED
      BY <3>2, <3>4, <2>2, <2>5 DEF Back, HeldFor
  <2>6. QED
    BY <2>2, <2>4, <2>5
<1>3. S!EchoedOnce
  BY <1>2 DEF S!EchoedOnce
<1>4. S!EndedByUnread
  BY DEF StreamsIInv
<1>5. S!FilesAreBeginnings
  <2>1. SUFFICES ASSUME program = "web" PROVE S!FilesAreBeginnings
    BY DEF S!FilesAreBeginnings
  <2>2. WebsInv /\ shown["c1"] \in Items /\ Wanted \in Items
    BY <2>1, Names, ActiveClient, ResponseTypes DEF StreamsIInv, Sound
  <2>3. S!IsPrefix(shown["c1"], Wanted)
    BY <2>2, LeadsIsPrefix DEF WebsInv
  <2>4. QED
    BY <2>2, <2>3 DEF S!FilesAreBeginnings, WebsInv, Wanted, WholeKinds, S!Live
<1>6. QED
  BY <1>1, <1>3, <1>4, <1>5 DEF S!StreamsInv

(* Each step of these programs keeps it, and a step of another module.       *)
LEMMA StreamsNext ==
  ASSUME StreamsIInv, S!Next
  PROVE  StreamsIInv'
<1>1. CASE S!Server
  BY <1>1, AcceptStep, HandleRecvStep, HandleSendStep, HiRecvStep DEF S!Server, S!choices
<1>2. CASE S!Web
  BY <1>2, WebStep DEF S!Web, S!choices
<1>3. ASSUME NEW c \in S!Clients, S!User(c) PROVE StreamsIInv'
  BY <1>3, ConnectStep, TypeStep, QuitStep DEF S!User, S!choices
<1>4. ASSUME NEW c \in S!Clients, S!Client(c) PROVE StreamsIInv'
  <2>1. UNCHANGED <<program, kind, length>>
    BY <1>4 DEF S!Client, S!choices
  <2>2. CASE S!ClientSends(c)
    BY <2>1, <2>2, ClientSendsStep
  <2>3. CASE S!WordRecv(c)
    BY <2>1, <2>3, WordRecvStep
  <2>4. CASE S!LineRecv(c)
    BY <2>1, <2>4, LineRecvStep
  <2>5. CASE S!DownloadRecv(c)
    BY <2>1, <2>5, DownloadStep
  <2>6. CASE S!ReadAll(c)
    BY <2>1, <2>6, ReadAllStep
  <2>7. CASE S!ReadHttpStatus(c) \/ S!ParseHeader(c)
    BY <2>1, <2>7, HeaderStep
  <2>8. CASE S!ReadBody(c)
    BY <2>1, <2>8, ReadBodyStep
  <2>9. QED
    BY <1>4, <2>2, <2>3, <2>4, <2>5, <2>6, <2>7, <2>8 DEF S!Client
<1>5. QED
  BY <1>1, <1>2, <1>3, <1>4 DEF S!Next

(* A step of the other module.                                              *)
LEMMA StreamsStutter ==
  ASSUME StreamsIInv, UNCHANGED sVars
  PROVE  StreamsIInv'
<1>1. UNCHANGED <<program, kind, at, inbox, closed, rst, err, backlog, serving, hold, length, out, sent, shown, typed>>
  BY DEF sVars
<1>2. HereTypes' /\ ConnInv' /\ KindsInv'
  BY <1>1 DEF StreamsIInv, HereTypes, ConnInv, ConnTypes, ResetInv, KindsInv
<1>3. ServerInv' /\ ClientsInv' /\ QueueInv'
  BY <1>1 DEF StreamsIInv, ServerInv, ClientsInv, QueueInv
<1>4. S!EndedByUnread'
  BY <1>1 DEF StreamsIInv, S!EndedByUnread
<1>5. ASSUME NEW c \in S!Clients PROVE Sound(c)'
  <2>1. Sound(c)
    BY DEF StreamsIInv
  <2>2. Back(c)' = Back(c) /\ OnItsWay(c)' = OnItsWay(c) /\ Unread(c)' = Unread(c)
    BY <1>1 DEF Back, OnItsWay, HeldFor, Unread
  <2>3. program = "echo" => EchoInv(c)'
    BY <1>1, <2>1, <2>2 DEF Sound, EchoInv
  <2>4. program = "hi" => HiInv(c)'
    BY <1>1, <2>1 DEF Sound, HiInv
  <2>5. program = "web" /\ c = "c1" => WebsInv'
    <3>1. S!Response' = S!Response /\ Wanted' = Wanted /\ Stripped' = Stripped
      BY <1>1 DEF S!Response, S!Body, Wanted, Stripped
    <3>2. QED
      BY <1>1, <2>1, <2>2, <3>1 DEF Sound, WebsInv
  <2>6. QED
    BY <1>1, <2>3, <2>4, <2>5 DEF Sound
<1>6. QED
  BY <1>2, <1>3, <1>4, <1>5 DEF StreamsIInv

(* What a server echoes or takes is what was sent, in its order, each item    *)
(* once; EchoServer ends only for a client that left its echo unread; and a   *)
(* download keeps the beginning of what was sent, whole where it should be.   *)
THEOREM StreamsAreExact == MCSpec => []StreamsInv
<1>1. MCInit => StreamsIInv
  BY StreamsInit DEF MCInit
<1>2. StreamsIInv /\ [MCNext]_mcVars => StreamsIInv'
  <2>1. SUFFICES ASSUME StreamsIInv, [MCNext]_mcVars PROVE StreamsIInv'
    OBVIOUS
  <2>2. CASE Ranges(Next) \/ UNCHANGED mcVars
    BY <2>1, <2>2, StreamsStutter DEF Ranges, mcVars
  <2>3. CASE Streams(S!Next)
    BY <2>1, <2>3, StreamsNext DEF Streams
  <2>4. QED
    BY <2>1, <2>2, <2>3 DEF MCNext
<1>3. StreamsIInv => StreamsInv
  BY StreamsSafe DEF StreamsInv
<1>4. QED
  BY <1>1, <1>2, <1>3, PTL DEF MCSpec
=============================================================================
