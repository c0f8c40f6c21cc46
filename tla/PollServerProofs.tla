-------------------------- MODULE PollServerProofs --------------------------
(***************************************************************************)
(* Proofs about the poll() chat server of lab 5, for any finite set of     *)
(* clients, any number of slots and any number of messages: what the table *)
(* of slots says of the open descriptors, and what each client is sent.    *)
(***************************************************************************)
EXTENDS PollServer, FiniteSetTheorems, SequenceTheorems, WellFoundedInduction, TLAPS

(* Used slots hold different descriptors, each a client's; a client has one  *)
(* descriptor at most; standard input and the listener stay where they are,  *)
(* the first until its end.                                                 *)
Used == {i \in Slots : fd[i] > 0}
SlotInv ==
  /\ \A i \in Used : owner[fd[i]] \in Clients
  /\ \A i, j \in Used : fd[i] = fd[j] => i = j
  /\ \A d, e \in FDs : owner[d] \in Clients /\ owner[d] = owner[e] => d = e
  /\ \A d \in FDs : owner[d] = "listener" <=> d = Master
  /\ \A d \in FDs : owner[d] = "stdin" => d = 0

(* Until standard input ends, the table is complete and counted.            *)
CountInv ==
  ~stdinAtEof =>
    /\ owner[0] = "stdin"
    /\ \A d \in FDs : owner[d] \in Clients => \E i \in Used : fd[i] = d
    /\ count = Cardinality(Used)

(* Who waits to be accepted waits once, has no descriptor and has heard      *)
(* nothing; the server does not accept from an empty queue.                 *)
Owned == {owner[d] : d \in FDs}
QueueInv ==
  /\ \A k \in 1 .. Len(backlog) :
       /\ backlog[k] \notin Owned /\ conn[backlog[k]] # "none" /\ received[backlog[k]] = <<>>
  /\ \A k, l \in 1 .. Len(backlog) : backlog[k] = backlog[l] => k = l
  /\ \A c \in Clients : conn[c] = "none" => c \notin Owned /\ received[c] = <<>>
  /\ pc = "accept" /\ revents[0] = "in" => backlog # <<>>

(* A client came in no later than now.                                      *)
LogInv == (\A c \in Clients : joined[c] <= Len(log)) /\ DeliveryExact

IInv == TypeOK /\ SlotInv /\ CountInv /\ QueueInv /\ LogInv
-----------------------------------------------------------------------------
(* A nonempty set of natural numbers has a least element.                   *)
LEMMA LeastExists ==
  ASSUME NEW T, T \subseteq Nat, T # {}
  PROVE  \E x \in T : \A y \in T : x <= y
<1> DEFINE R == StrictSubsetOrdering(Nat)
           Below(n) == 0 .. n - 1
           U == {Below(n) : n \in T}
<1>1. U \subseteq FiniteSubsetsOf(Nat) /\ U # {}
  <2>1. \A n \in Nat : Below(n) \subseteq Nat /\ IsFiniteSet(Below(n))
    BY FS_Interval
  <2>2. QED
    BY <2>1 DEF FiniteSubsetsOf
<1>2. \E x \in U : \A y \in U : <<y, x>> \notin R
  <2>1. IsWellFoundedOn(R, FiniteSubsetsOf(Nat))
    BY FS_StrictSubsetOrderingWellFounded
  <2> HIDE DEF R, U
  <2>2. QED
    BY <1>1, <2>1, WFMin
<1>3. PICK x \in T : \A y \in T : <<Below(y), Below(x)>> \notin R
  BY <1>2
<1>4. ASSUME NEW y \in T, y < x PROVE <<Below(y), Below(x)>> \in R
  <2>1. Below(y) \in SUBSET Nat /\ Below(x) \in SUBSET Nat /\ Below(y) \subseteq Below(x)
    BY <1>4
  <2>2. y \in Below(x) /\ y \notin Below(y)
    BY <1>4
  <2> HIDE DEF Below
  <2>3. QED
    BY <2>1, <2>2 DEF StrictSubsetOrdering
<1> HIDE DEF R, U, Below
<1>5. x \in Nat /\ \A y \in T : y \in Nat /\ ~(y < x)
  BY <1>3, <1>4
<1>6. QED
  BY <1>5

(* The entries of a log s after j that c did not write, up to entry k; and   *)
(* r holds exactly those, in order.  DeliveryExact says this of the clients. *)
Others(s, j, c, k) == {l \in j + 1 .. k : s[l].from # c}
Exact(r, s, j, c) ==
  /\ Len(r) = Cardinality(Others(s, j, c, Len(s)))
  /\ \A l \in Others(s, j, c, Len(s)) : r[Cardinality(Others(s, j, c, l))] = s[l]

(* Nothing has been missed by who comes in now.                             *)
LEMMA ExactStarts ==
  ASSUME NEW E, NEW s \in Seq(E), NEW c
  PROVE  Exact(<<>>, s, Len(s), c)
<1>1. Others(s, Len(s), c, Len(s)) = {}
  BY DEF Others
<1>2. QED
  BY <1>1, FS_EmptySet DEF Exact

(* How many entries there are up to k.                                      *)
LEMMA OthersCounted ==
  ASSUME NEW E, NEW s \in Seq(E), NEW c, NEW j \in Nat, NEW k \in Nat
  PROVE  /\ IsFiniteSet(Others(s, j, c, k)) /\ Cardinality(Others(s, j, c, k)) \in Nat
         /\ \A l \in Others(s, j, c, k) : Cardinality(Others(s, j, c, l)) \in 1 .. Cardinality(Others(s, j, c, k))
<1>1. ASSUME NEW m \in Nat
      PROVE  IsFiniteSet(Others(s, j, c, m)) /\ Cardinality(Others(s, j, c, m)) \in Nat
  <2>1. IsFiniteSet(j + 1 .. m)
    BY FS_Interval
  <2>2. Others(s, j, c, m) \in SUBSET (j + 1 .. m)
    BY DEF Others
  <2>3. QED
    BY <2>1, <2>2, FS_Subset, FS_CardinalityType
<1>2. ASSUME NEW l \in Others(s, j, c, k)
      PROVE  Cardinality(Others(s, j, c, l)) \in 1 .. Cardinality(Others(s, j, c, k))
  <2>1. l \in Nat /\ l \in Others(s, j, c, l)
    BY DEF Others
  <2>2. Others(s, j, c, l) \in SUBSET Others(s, j, c, k)
    BY DEF Others
  <2>3. Cardinality(Others(s, j, c, l)) <= Cardinality(Others(s, j, c, k))
    BY <1>1, <2>2, FS_Subset
  <2>4. Cardinality(Others(s, j, c, l)) # 0
    BY <1>1, <2>1, FS_EmptySet
  <2>5. QED
    BY <1>1, <2>1, <2>3, <2>4
<1>3. QED
  BY <1>1, <1>2

(* What is appended to the log by c itself need not reach c ...             *)
LEMMA ExactOwn ==
  ASSUME NEW E, NEW s \in Seq(E), NEW e \in Seq(E), NEW r \in Seq(E), NEW c, NEW j \in Nat,
         Exact(r, s, j, c), \A k \in 1 .. Len(e) : e[k].from = c
  PROVE  Exact(r, s \o e, j, c)
<1>1. Len(s \o e) = Len(s) + Len(e) /\ Len(s) \in Nat /\ Len(e) \in Nat
  OBVIOUS
<1>2. \A l \in 1 .. Len(s) + Len(e) : (s \o e)[l] = IF l <= Len(s) THEN s[l] ELSE e[l - Len(s)]
  BY ConcatProperties
<1>3. ASSUME NEW k \in 0 .. Len(s) PROVE Others(s \o e, j, c, k) = Others(s, j, c, k)
  BY <1>1, <1>2 DEF Others
<1>4. Others(s \o e, j, c, Len(s \o e)) = Others(s, j, c, Len(s))
  <2>1. ASSUME NEW l \in Len(s) + 1 .. Len(s) + Len(e) PROVE (s \o e)[l].from = c
    <3>1. l - Len(s) \in 1 .. Len(e) /\ (s \o e)[l] = e[l - Len(s)]
      BY <1>1, <1>2
    <3>2. QED
      BY <3>1
  <2>2. Others(s \o e, j, c, Len(s \o e)) = Others(s \o e, j, c, Len(s))
    BY <1>1, <2>1 DEF Others
  <2>3. QED
    BY <1>1, <1>3, <2>2
<1>5. ASSUME NEW l \in Others(s, j, c, Len(s))
      PROVE  Others(s \o e, j, c, l) = Others(s, j, c, l) /\ (s \o e)[l] = s[l]
  BY <1>1, <1>2, <1>3 DEF Others
<1>6. QED
  BY <1>4, <1>5 DEF Exact

(* ... and what another appends has to.                                     *)
LEMMA ExactOther ==
  ASSUME NEW E, NEW s \in Seq(E), NEW e \in Seq(E), NEW r \in Seq(E), NEW c, NEW j \in Nat,
         j <= Len(s), Exact(r, s, j, c), \A k \in 1 .. Len(e) : e[k].from # c
  PROVE  Exact(r \o e, s \o e, j, c)
<1> DEFINE t == s \o e
           q == r \o e
<1>1. /\ Len(t) = Len(s) + Len(e) /\ Len(s) \in Nat /\ Len(e) \in Nat
      /\ Len(q) = Len(r) + Len(e) /\ Len(r) \in Nat
  OBVIOUS
<1>2. \A l \in 1 .. Len(s) + Len(e) : t[l] = IF l <= Len(s) THEN s[l] ELSE e[l - Len(s)]
  BY ConcatProperties
<1>3. \A l \in 1 .. Len(r) + Len(e) : q[l] = IF l <= Len(r) THEN r[l] ELSE e[l - Len(r)]
  BY ConcatProperties
<1> HIDE DEF t, q
<1>4. ASSUME NEW k \in 0 .. Len(s) PROVE Others(t, j, c, k) = Others(s, j, c, k)
  BY <1>1, <1>2 DEF Others
<1>5. ASSUME NEW k \in 0 .. Len(e)
      PROVE  Cardinality(Others(t, j, c, Len(s) + k)) = Len(r) + k
  <2>1. Others(t, j, c, Len(s) + k) = Others(s, j, c, Len(s)) \cup (Len(s) + 1 .. Len(s) + k)
    <3>1. ASSUME NEW l \in Len(s) + 1 .. Len(s) + k PROVE t[l].from # c /\ l \in j + 1 .. Len(s) + k
      <4>1. l - Len(s) \in 1 .. Len(e) /\ t[l] = e[l - Len(s)]
        BY <1>1, <1>2
      <4>2. QED
        BY <1>1, <4>1
    <3>2. Others(t, j, c, Len(s) + k) = Others(t, j, c, Len(s)) \cup (Len(s) + 1 .. Len(s) + k)
      BY <1>1, <3>1 DEF Others
    <3>3. QED
      BY <1>1, <1>4, <3>2
  <2>2. Others(s, j, c, Len(s)) \cap (Len(s) + 1 .. Len(s) + k) = {}
    BY <1>1 DEF Others
  <2>3. /\ IsFiniteSet(Len(s) + 1 .. Len(s) + k)
        /\ Cardinality(Len(s) + 1 .. Len(s) + k) = k
    <3>1. PICK a \in Int, b \in Int : a = Len(s) + 1 /\ b = Len(s) + k
      BY <1>1
    <3>2. IsFiniteSet(a .. b) /\ Cardinality(a .. b) = IF a > b THEN 0 ELSE b - a + 1
      BY FS_Interval
    <3>3. QED
      BY <1>1, <3>1, <3>2
  <2>4. IsFiniteSet(Others(s, j, c, Len(s))) /\ Cardinality(Others(s, j, c, Len(s))) = Len(r)
    BY <1>1, OthersCounted DEF Exact
  <2>5. Cardinality({}) = 0
    BY FS_EmptySet
  <2>6. PICK A, B : A = Others(s, j, c, Len(s)) /\ B = Len(s) + 1 .. Len(s) + k
    OBVIOUS
  <2>7. /\ IsFiniteSet(A) /\ IsFiniteSet(B) /\ A \cap B = {}
        /\ Cardinality(A) = Len(r) /\ Cardinality(B) = k
    BY <2>2, <2>3, <2>4, <2>6
  <2>8. Cardinality(A \cup B) = Cardinality(A) + Cardinality(B) - Cardinality(A \cap B)
    BY ONLY <2>7, FS_Union
  <2>9. Cardinality(A \cup B) = Len(r) + k
    <3>1. Cardinality(A \cap B) = 0
      BY ONLY <2>5, <2>7, Zenon
    <3>2. QED
      BY <1>1, <2>7, <2>8, <3>1
  <2>10. QED
    BY <2>1, <2>6, <2>9
<1>6. Len(q) = Cardinality(Others(t, j, c, Len(t)))
  BY <1>1, <1>5
<1>7. ASSUME NEW l \in Others(t, j, c, Len(t)) PROVE q[Cardinality(Others(t, j, c, l))] = t[l]
  <2>1. l \in j + 1 .. Len(s) + Len(e)
    BY <1>1 DEF Others
  <2>2. CASE l <= Len(s)
    <3>1. l \in Others(s, j, c, Len(s)) /\ Others(t, j, c, l) = Others(s, j, c, l) /\ t[l] = s[l]
      <4>1. l \in 0 .. Len(s) /\ l \in j + 1 .. Len(s) /\ t[l] = s[l]
        BY <1>1, <1>2, <2>1, <2>2
      <4>2. t[l].from # c
        BY DEF Others
      <4>3. QED
        BY <1>4, <4>1, <4>2 DEF Others
    <3>2. Cardinality(Others(s, j, c, l)) \in 1 .. Len(r)
      BY <1>1, <3>1, OthersCounted DEF Exact
    <3>3. q[Cardinality(Others(s, j, c, l))] = r[Cardinality(Others(s, j, c, l))]
      BY <1>1, <1>3, <3>2
    <3>4. QED
      BY <3>1, <3>3 DEF Exact
  <2>3. CASE l > Len(s)
    <3>1. PICK k \in 1 .. Len(e) : l = Len(s) + k
      <4>1. l - Len(s) \in 1 .. Len(e) /\ l = Len(s) + (l - Len(s))
        BY <1>1, <2>1, <2>3
      <4>2. QED
        BY <4>1
    <3>2. Cardinality(Others(t, j, c, l)) = Len(r) + k
      BY <1>5, <3>1
    <3>3. q[Len(r) + k] = e[k] /\ t[l] = e[k]
      <4>1. Len(r) + k \in 1 .. Len(r) + Len(e) /\ ~(Len(r) + k <= Len(r)) /\ Len(r) + k - Len(r) = k
        BY <1>1
      <4>2. Len(s) + k \in 1 .. Len(s) + Len(e) /\ ~(Len(s) + k <= Len(s)) /\ Len(s) + k - Len(s) = k
        BY <1>1
      <4>3. QED
        BY <1>2, <1>3, <3>1, <4>1, <4>2
    <3>4. QED
      BY <3>2, <3>3
  <2>4. QED
    BY <1>1, <2>1, <2>2, <2>3
<1>8. QED
  BY <1>6, <1>7 DEF Exact, t, q
-----------------------------------------------------------------------------
(* There are two descriptors more than clients: standard input and the      *)
(* listener.                                                                *)
LEMMA Sizes ==
  /\ IsFiniteSet(Clients) /\ Cardinality(Clients) \in Nat
  /\ IsFiniteSet(FDs) /\ Cardinality(FDs) = Cardinality(Clients) + 2
  /\ FDs \subseteq Nat /\ 0 \in FDs /\ Master \in FDs
  /\ Slots \subseteq Nat \ {0} /\ 1 \in Slots /\ IsFiniteSet(Slots)
  /\ MaxClients \in Slots /\ \A i \in Slots : i # MaxClients => i + 1 \in Slots
<1>1. IsFiniteSet(Clients) /\ Cardinality(Clients) \in Nat
  BY ClientsAssumption, FS_CardinalityType
<1>2. IsFiniteSet(FDs) /\ Cardinality(FDs) = Cardinality(Clients) + 2
  <2>1. PICK m \in Nat : m = Cardinality(Clients) + 1
    BY <1>1
  <2>2. IsFiniteSet(0 .. m) /\ Cardinality(0 .. m) = IF 0 > m THEN 0 ELSE m - 0 + 1
    BY FS_Interval
  <2>3. QED
    BY <1>1, <2>1, <2>2 DEF FDs
<1>3. IsFiniteSet(Slots)
  BY PollAssumption, FS_Interval DEF Slots
<1>4. QED
  BY <1>1, <1>2, <1>3, PollAssumption DEF FDs, Slots, Master

(* A set with one element more has one more, at most.                       *)
LEMMA OneMore ==
  ASSUME NEW S, IsFiniteSet(S), NEW x
  PROVE  /\ IsFiniteSet(S \cup {x}) /\ Cardinality(S \cup {x}) \in Nat
         /\ Cardinality(S) \in Nat /\ Cardinality(S \cup {x}) <= Cardinality(S) + 1
<1>1. /\ IsFiniteSet(S \cup {x})
      /\ Cardinality(S \cup {x}) = IF x \in S THEN Cardinality(S) ELSE Cardinality(S) + 1
  BY FS_AddElement
<1>2. Cardinality(S) \in Nat /\ Cardinality(S \cup {x}) \in Nat
  BY <1>1, FS_CardinalityType
<1>3. QED
  BY <1>1, <1>2

(* Where the server finds an empty slot, and accept a descriptor.           *)
LEMMA LeastIs ==
  ASSUME NEW T, T \subseteq Nat, T # {}
  PROVE  Least(T) \in T /\ \A j \in T : Least(T) <= j
BY LeastExists DEF Least

LEMMA FirstFreeIs ==
  ASSUME FreeSlots # {}
  PROVE  FirstFree \in Slots /\ fd[FirstFree] = 0
<1>1. FreeSlots \subseteq Nat
  BY Sizes DEF FreeSlots
<1>2. FirstFree \in FreeSlots
  BY <1>1, LeastIs DEF FirstFree
<1>3. QED
  BY <1>2 DEF FreeSlots

(* The scan stays in the table.                                             *)
LEMMA ScanIs ==
  ASSUME NEW i, ScanFrom(i)
  PROVE  pc' \in {"poll", "scan"} /\ at' \in Slots
<1>1. Reported(i) \subseteq Slots /\ Reported(i) \subseteq Nat
  BY Sizes DEF Reported
<1>2. CASE Reported(i) = {}
  BY <1>2, Sizes DEF ScanFrom
<1>3. CASE Reported(i) # {}
  BY <1>1, <1>3, LeastIs DEF ScanFrom
<1>4. QED
  BY <1>2, <1>3

(* While a client is not connected a descriptor is free for it.             *)
LEMMA LowestFreeIs ==
  ASSUME TypeOK, SlotInv, NEW c \in Clients, c \notin Owned
  PROVE  LowestFree \in FDs /\ owner[LowestFree] = "closed" /\ LowestFree # Master
<1> DEFINE Mine == {d \in FDs : owner[d] \in Clients}
           Closed == {d \in FDs : owner[d] = "closed"}
           f == [d \in Mine |-> owner[d]]
<1>1. Cardinality(Mine) <= Cardinality(Clients) - 1 /\ IsFiniteSet(Mine) /\ Cardinality(Mine) \in Nat
  <2>1. IsFiniteSet(Clients \ {c}) /\ Cardinality(Clients \ {c}) = Cardinality(Clients) - 1
    BY Sizes, FS_RemoveElement
  <2>2. f \in Injection(Mine, Clients \ {c})
    BY DEF SlotInv, Owned, Injection, IsInjective
  <2>3. QED
    BY <2>1, <2>2, FS_Injection, FS_CardinalityType
<1>2. Closed # {}
  <2> SUFFICES ASSUME Closed = {} PROVE FALSE
    OBVIOUS
  <2>1. FDs \subseteq (Mine \cup {0}) \cup {Master}
    BY DEF TypeOK, SlotInv, Files, OtherFiles
  <2> HIDE DEF Mine, Closed
  <2>2. /\ IsFiniteSet(Mine \cup {0}) /\ Cardinality(Mine \cup {0}) <= Cardinality(Mine) + 1
        /\ Cardinality(Mine \cup {0}) \in Nat
    BY <1>1, OneMore
  <2>3. PICK M : M = Mine \cup {0}
    OBVIOUS
  <2>4. /\ IsFiniteSet(M \cup {Master}) /\ Cardinality(M \cup {Master}) <= Cardinality(M) + 1
        /\ Cardinality(M \cup {Master}) \in Nat /\ Cardinality(M) \in Nat
    BY <2>2, <2>3, OneMore
  <2>5. Cardinality(FDs) <= Cardinality(M \cup {Master})
    BY <2>1, <2>3, <2>4, FS_Subset
  <2>6. QED
    BY <1>1, <2>2, <2>3, <2>4, <2>5, Sizes
<1>3. Least(Closed) \in Closed
  BY <1>2, Sizes, LeastIs
<1>4. LowestFree \in FDs /\ owner[LowestFree] = "closed"
  BY <1>3 DEF LowestFree
<1>5. QED
  BY <1>4 DEF SlotInv

(* What a send makes of a connection.                                       *)
LEMMA SentIs ==
  ASSUME NetTypeOK, NEW c \in Clients
  PROVE  /\ Sent(c) \in ConnState /\ (Sent(c) = "open" <=> conn[c] = "open")
         /\ (Sent(c) = "none" <=> conn[c] = "none")
  BY DEF NetTypeOK, ConnState, Sent

(* DeliveryExact in the words of the lemmas above.                          *)
LEMMA DeliveryIs ==
  DeliveryExact <=>
    \A c \in Clients : pc # "dead" /\ Tracked(c) /\ conn[c] = "open" => Exact(received[c], Heard(c), joined[c], c)
  BY DEF DeliveryExact, Exact, Others, FromOthers
LEMMA DeliveryIsNext ==
  DeliveryExact' <=>
    \A c \in Clients : pc' # "dead" /\ Tracked(c)' /\ conn'[c] = "open" =>
      Exact(received'[c], Heard(c)', joined'[c], c)
  BY DEF DeliveryExact, Exact, Others, FromOthers
(* Between broadcasts everybody has the whole log; and what leaves the       *)
(* server alone leaves that as it is.                                       *)
LEMMA HeardOutside ==
  \A c : /\ pc # "send" => Heard(c) = log
         /\ pc' # "send" => Heard(c)' = log'
BY DEF Heard, Reached
LEMMA HeardSame ==
  ASSUME UNCHANGED <<pc, at, to, fd, owner, buffer, log>>
  PROVE  \A c : Heard(c)' = Heard(c)
BY DEF Heard, Reached, Message, Targets

(* Nobody is sent anything, and nobody comes into the table.                *)
LEMMA LogKept ==
  ASSUME LogInv, UNCHANGED <<received, log, joined>>, pc' # "dead" => pc # "dead",
         \A c \in Clients : Tracked(c)' /\ conn'[c] = "open" =>
           Tracked(c) /\ conn[c] = "open" /\ Heard(c)' = Heard(c)
  PROVE  LogInv'
<1>1. DeliveryExact'
  BY DeliveryIs, DeliveryIsNext DEF LogInv
<1>2. QED
  BY <1>1 DEF LogInv
-----------------------------------------------------------------------------
(* What is read is going to be broadcast: so far to nobody.                 *)
LEMMA ReadSteps ==
  ASSUME IInv, ReadClient \/ ReadStdin \/ ReadError
  PROVE  IInv'
<1>1. /\ pc = "scan" /\ pc' = "send" /\ to' = 0 /\ at' = at
      /\ UNCHANGED <<fd, armed, revents, count, owner, received, sends, backlog, stdinAtEof, log, joined>>
  BY DEF ReadClient, ReadStdin, ReadError, StartBroadcast, slotVars, netVars, stdinVars, histVars
<1>2. /\ buffer' \in Seq(Msgs) /\ inq' \in [Clients -> Seq(Msgs)] /\ typed' \in Nat
      /\ conn' \in [Clients -> ConnState]
      /\ \A c \in Clients : (conn'[c] = "none" <=> conn[c] = "none") /\ (conn'[c] = "open" <=> conn[c] = "open")
  <2>1. CASE ReadClient
    <3> DEFINE c == owner[fd[at]]
    <3>1. PICK n \in 1 .. Len(inq[c]) :
            /\ inq' = [inq EXCEPT ![c] = SubSeq(@, n + 1, Len(@))]
            /\ buffer' = SubSeq(inq[c], 1, n)
      BY <2>1 DEF ReadClient
    <3>2. c \in Clients /\ conn' = conn /\ typed' = typed
      BY <2>1 DEF ReadClient, stdinVars
    <3>3. inq[c] \in Seq(Msgs)
      BY <3>2 DEF IInv, TypeOK, NetTypeOK
    <3>4. SubSeq(inq[c], 1, n) \in Seq(Msgs) /\ SubSeq(inq[c], n + 1, Len(inq[c])) \in Seq(Msgs)
      <4>1. \A k \in 1 .. n : inq[c][k] \in Msgs
        BY <3>3
      <4>2. \A k \in n + 1 .. Len(inq[c]) : inq[c][k] \in Msgs
        BY <3>3
      <4>3. QED
        BY <3>3, <4>1, <4>2, SubSeqProperties
    <3> HIDE DEF c
    <3>5. inq' \in [Clients -> Seq(Msgs)]
      BY <3>1, <3>2, <3>4 DEF IInv, TypeOK, NetTypeOK
    <3>6. QED
      BY <3>1, <3>2, <3>4, <3>5 DEF IInv, TypeOK, NetTypeOK
  <2>2. CASE ReadStdin
    <3>1. <<Line>> \in Seq(Msgs)
      BY DEF Msgs
    <3>2. typed \in Nat /\ typed > 0 /\ typed' = typed - 1 /\ buffer' = <<Line>> /\ inq' = inq /\ conn' = conn
      BY <2>2 DEF ReadStdin, netVars, IInv, TypeOK
    <3>3. typed' \in Nat
      BY <3>2
    <3>4. QED
      BY <3>1, <3>2, <3>3 DEF IInv, TypeOK, NetTypeOK
  <2>3. CASE ReadError
    <3>1. buffer' = buffer /\ inq' = inq /\ typed' = typed
      BY <2>3 DEF ReadError, stdinVars
    <3>2. conn' = conn \/ \E f \in Clients : conn' = [conn EXCEPT ![f] = Sent(f)]
      BY <2>3 DEF ReadError
    <3>3. NetTypeOK /\ conn \in [Clients -> ConnState]
      BY DEF IInv, TypeOK, NetTypeOK
    <3>4. /\ conn' \in [Clients -> ConnState]
          /\ \A c \in Clients : (conn'[c] = "none" <=> conn[c] = "none") /\ (conn'[c] = "open" <=> conn[c] = "open")
      BY <3>2, <3>3, SentIs
    <3>5. QED
      BY <3>1, <3>4 DEF IInv, TypeOK, NetTypeOK
  <2>4. QED
    BY <2>1, <2>2, <2>3
<1>3. TypeOK'
  <2>1. MaxClients \in Nat
    BY PollAssumption
  <2>2. to' \in 0 .. MaxClients
    BY <1>1, <2>1
  <2>3. QED
    BY <1>1, <1>2, <2>2 DEF IInv, TypeOK, NetTypeOK
<1>4. SlotInv' /\ CountInv'
  BY <1>1 DEF IInv, SlotInv, CountInv, Used
<1>5. QueueInv'
  <2>1. \A k \in 1 .. Len(backlog) : backlog[k] \in Clients
    BY DEF IInv, TypeOK, NetTypeOK
  <2>2. QED
    BY <1>1, <1>2, <2>1 DEF IInv, QueueInv, Owned
<1>6. LogInv'
  <2>1. ASSUME NEW c PROVE Heard(c)' = Heard(c)
    <3>1. ~ Reached(c)'
      <4>1. \A i \in Targets' : i \in Nat \ {0}
        BY <1>1, Sizes DEF Targets
      <4>2. QED
        BY <1>1, <4>1 DEF Reached
    <3>2. Heard(c)' = log'
      BY <3>1 DEF Heard
    <3>3. QED
      BY <1>1, <3>2, HeardOutside
  <2>2. QED
    BY <1>1, <1>2, <2>1, LogKept DEF IInv, Tracked
<1>7. QED
  BY <1>3, <1>4, <1>5, <1>6 DEF IInv

(* What is broadcast, and to whom next.                                     *)
LEMMA MessageIs ==
  ASSUME TypeOK
  PROVE  /\ at \in Slots /\ fd[at] \in FDs /\ owner[fd[at]] \in Files
         /\ Message \in Seq(Entries) /\ \A k \in 1 .. Len(Message) : Message[k].from = owner[fd[at]]
<1>1. at \in Slots /\ fd[at] \in FDs /\ owner[fd[at]] \in Files /\ buffer \in Seq(Msgs)
  BY DEF TypeOK
<1>2. \A k \in 1 .. Len(buffer) : [from |-> owner[fd[at]], msg |-> buffer[k]] \in Entries
  BY <1>1 DEF Entries
<1>3. QED
  BY <1>1, <1>2 DEF Message

LEMMA NextTargetIs ==
  ASSUME TypeOK, SlotInv, Left # {}
  PROVE  LET i == Least(Left)
         IN /\ i \in Targets /\ i \in Used /\ i # at /\ i > to /\ owner[fd[i]] \in Clients
            /\ i \in 0 .. MaxClients
            /\ \A j \in Targets : j > to => i <= j
<1>1. Left \subseteq Nat
  BY Sizes DEF Left, Targets
<1>2. Least(Left) \in Left /\ \A j \in Left : Least(Left) <= j
  BY <1>1, LeastIs
<1>3. Least(Left) \in Targets /\ Least(Left) > to /\ \A j \in Targets : j > to => Least(Left) <= j
  BY <1>2 DEF Left
<1>4. Least(Left) \in Used /\ Least(Left) # at
  BY <1>3 DEF Targets, Used
<1>5. QED
  BY <1>3, <1>4, PollAssumption DEF SlotInv, Used, Slots

(* Two used slots have different clients.                                   *)
LEMMA OneSlot ==
  ASSUME TypeOK, SlotInv, NEW i \in Used, NEW j \in Slots, owner[fd[i]] = owner[fd[j]]
  PROVE  i = j
<1>1. fd[i] \in FDs /\ fd[j] \in FDs /\ i \in Slots /\ fd[i] > 0 /\ owner[fd[i]] \in Clients
  BY DEF TypeOK, SlotInv, Used
<1>2. fd[i] = fd[j]
  BY <1>1 DEF SlotInv
<1>3. j \in Used
  BY <1>1, <1>2 DEF Used
<1>4. QED
  BY <1>2, <1>3 DEF SlotInv

(* One send: the client in the next slot has the message, the others what    *)
(* they had.                                                                *)
LEMMA SendStep ==
  ASSUME IInv, Send
  PROVE  IInv'
<1> USE DEF IInv
<1>1. PICK i : i = Least(Left)
  OBVIOUS
<1>2. PICK c : c = owner[fd[i]]
  OBVIOUS
<1>3. /\ pc = "send" /\ Left # {} /\ conn' = [conn EXCEPT ![c] = Sent(c)] /\ to' = i
      /\ received' = IF conn[c] = "open" THEN [received EXCEPT ![c] = @ \o Message] ELSE received
      /\ UNCHANGED <<fd, armed, revents, count, pc, at, buffer, owner, inq, sends, backlog, typed,
                     stdinAtEof, log, joined>>
  BY <1>1, <1>2 DEF Send, slotVars, stdinVars, histVars
<1>4. /\ i \in Targets /\ i \in Used /\ i # at /\ i > to /\ c \in Clients /\ i \in 0 .. MaxClients
      /\ \A j \in Targets : j > to => i <= j
  BY <1>1, <1>2, <1>3, NextTargetIs
<1>5. at \in Slots /\ owner[fd[at]] # c
  <2>1. at \in Slots
    BY DEF TypeOK
  <2>2. QED
    BY <1>2, <1>4, <2>1, OneSlot
<1>6. Message \in Seq(Entries) /\ Message' = Message /\ \A k \in 1 .. Len(Message) : Message[k].from # c
  <2>1. Message' = Message
    BY <1>3 DEF Message
  <2>2. QED
    BY <1>5, <2>1, MessageIs
<1>7. /\ conn' \in [Clients -> ConnState] /\ (conn'[c] = "open" <=> conn[c] = "open")
      /\ (conn'[c] = "none" <=> conn[c] = "none") /\ \A x \in Clients : x # c => conn'[x] = conn[x]
  BY <1>3, <1>4, SentIs DEF TypeOK, NetTypeOK
<1>8. /\ received' \in [Clients -> Seq(Entries)] /\ \A x \in Clients : x # c => received'[x] = received[x]
      /\ conn[c] = "open" => received'[c] = received[c] \o Message
  <2>1. received \in [Clients -> Seq(Entries)] /\ received[c] \o Message \in Seq(Entries)
    BY <1>4, <1>6 DEF TypeOK
  <2>2. QED
    BY <1>3, <1>4, <2>1
<1>9. TypeOK'
  BY <1>3, <1>4, <1>7, <1>8 DEF TypeOK, NetTypeOK
<1>10. SlotInv' /\ CountInv'
  BY <1>3 DEF SlotInv, CountInv, Used
<1>11. QueueInv'
  <2>1. c \in Owned
    BY <1>2, <1>4 DEF Owned, Used, TypeOK
  <2>2. \A k \in 1 .. Len(backlog) : backlog[k] \in Clients
    BY DEF TypeOK, NetTypeOK
  <2>3. Owned' = Owned
    BY <1>3 DEF Owned
  <2>4. QED
    BY <1>3, <1>7, <1>8, <2>1, <2>2, <2>3 DEF QueueInv
<1>12. Reached(c)' /\ ~Reached(c) /\ \A x \in Clients : x # c => (Reached(x)' <=> Reached(x))
  <2>1. Targets' = Targets
    BY <1>3 DEF Targets
  <2>2. to \in Nat /\ i \in Nat /\ \A j \in Targets : j \in Nat /\ j \in Slots
    BY <1>4, Sizes, PollAssumption DEF Targets, TypeOK
  <2>3. Reached(c)'
    BY <1>2, <1>3, <1>4, <2>1, <2>2 DEF Reached
  <2>4. ~Reached(c)
    <3> SUFFICES ASSUME NEW j \in Targets, j <= to, owner[fd[j]] = c PROVE FALSE
      BY DEF Reached
    <3>1. i = j
      BY <1>2, <1>4, <2>2, OneSlot
    <3>2. QED
      BY <1>4, <2>2, <3>1
  <2>5. ASSUME NEW x \in Clients, x # c PROVE Reached(x)' <=> Reached(x)
    <3>1. \A j \in Targets : owner[fd[j]] = x => (j <= i <=> j <= to)
      BY <1>2, <1>4, <2>2, <2>5
    <3>2. QED
      BY <1>3, <2>1, <3>1 DEF Reached
  <2>6. QED
    BY <2>3, <2>4, <2>5
<1>13. LogInv'
  <2>1. ASSUME NEW x \in Clients, pc' # "dead", Tracked(x)', conn'[x] = "open"
        PROVE  Exact(received'[x], Heard(x)', joined'[x], x)
    <3>1. Tracked(x) /\ conn[x] = "open" /\ pc # "dead"
      BY <1>3, <1>7, <2>1 DEF Tracked
    <3>2. Exact(received[x], Heard(x), joined[x], x)
      BY <3>1, DeliveryIs DEF LogInv
    <3>3. CASE x = c
      <4>1. received'[c] = received[c] \o Message /\ Heard(c)' = log \o Message /\ Heard(c) = log
        BY <1>3, <1>6, <1>8, <1>12, <3>1, <3>3 DEF Heard
      <4>2. /\ log \in Seq(Entries) /\ received[c] \in Seq(Entries) /\ joined[c] \in Nat
            /\ joined[c] <= Len(log)
        BY <1>4 DEF TypeOK, LogInv
      <4>3. Exact(received[c], log, joined[c], c)
        BY <3>2, <3>3, <4>1
      <4>4. Exact(received[c] \o Message, log \o Message, joined[c], c)
        BY <1>6, <4>2, <4>3, ExactOther
      <4>5. QED
        BY <1>3, <3>3, <4>1, <4>4
    <3>4. CASE x # c
      <4>1. received'[x] = received[x] /\ Heard(x)' = Heard(x)
        BY <1>3, <1>6, <1>8, <1>12, <3>4 DEF Heard
      <4>2. QED
        BY <1>3, <3>2, <4>1
    <3>5. QED
      BY <3>3, <3>4
  <2>2. DeliveryExact'
    BY <2>1, DeliveryIsNext
  <2>3. QED
    BY <1>3, <2>2 DEF LogInv
<1>14. QED
  BY <1>9, <1>10, <1>11, <1>13

(* After the last slot everybody but the author has the message.            *)
LEMMA EndBroadcastStep ==
  ASSUME IInv, EndBroadcast
  PROVE  IInv'
<1> USE DEF IInv
<1>1. /\ pc = "send" /\ Left = {} /\ log' = log \o Message /\ to' = 0 /\ at' \in Slots
      /\ pc' \in {"poll", "scan"}
      /\ UNCHANGED <<fd, armed, revents, count, buffer, owner, received, conn, inq, sends, backlog,
                     typed, stdinAtEof, joined>>
  BY ScanIs DEF EndBroadcast, slotVars, netVars, stdinVars
<1>2. /\ Message \in Seq(Entries) /\ log \in Seq(Entries) /\ log' \in Seq(Entries)
      /\ Len(log) \in Nat /\ Len(log) <= Len(log')
  <2>1. Message \in Seq(Entries) /\ log \in Seq(Entries)
    BY MessageIs DEF TypeOK
  <2>2. QED
    BY <1>1, <2>1, ConcatProperties, LenProperties
<1>3. TypeOK'
  <2>1. to' \in 0 .. MaxClients
    BY <1>1, PollAssumption
  <2>2. QED
    BY <1>1, <1>2, <2>1 DEF TypeOK, NetTypeOK
<1>4. SlotInv' /\ CountInv'
  BY <1>1 DEF SlotInv, CountInv, Used
<1>5. QueueInv'
  BY <1>1 DEF QueueInv, Owned
<1>6. LogInv'
  <2>1. ASSUME NEW c \in Clients, pc' # "dead", Tracked(c)', conn'[c] = "open"
        PROVE  Exact(received'[c], Heard(c)', joined'[c], c)
    <3>1. Tracked(c) /\ conn[c] = "open" /\ pc # "dead" /\ Heard(c)' = log'
      BY <1>1, <2>1, HeardOutside DEF Tracked
    <3>2. Exact(received[c], Heard(c), joined[c], c)
      BY <3>1, DeliveryIs DEF LogInv
    <3>3. CASE Reached(c)
      <4>1. Heard(c)' = Heard(c)
        BY <1>1, <3>1, <3>3 DEF Heard
      <4>2. QED
        BY <1>1, <3>2, <4>1
    <3>4. CASE ~Reached(c)
      <4>1. PICK i \in Used : owner[fd[i]] = c
        BY <3>1 DEF Tracked, Used
      <4>2. i = at
        <5> SUFFICES ASSUME i # at PROVE FALSE
          OBVIOUS
        <5>1. i \in Targets /\ i \in Nat /\ to \in Nat
          BY <4>1, Sizes, PollAssumption DEF Targets, Used, TypeOK
        <5>2. i <= to
          BY <1>1, <5>1 DEF Left
        <5>3. QED
          BY <1>1, <3>4, <4>1, <5>1, <5>2 DEF Reached
      <4>3. \A k \in 1 .. Len(Message) : Message[k].from = c
        BY <4>1, <4>2, MessageIs
      <4>4. Exact(received[c], log, joined[c], c) /\ received[c] \in Seq(Entries) /\ joined[c] \in Nat
        BY <3>2, <3>4 DEF Heard, TypeOK
      <4>5. Exact(received[c], log \o Message, joined[c], c)
        BY <1>2, <4>3, <4>4, ExactOwn
      <4>6. QED
        BY <1>1, <3>1, <4>5
    <3>5. QED
      BY <3>3, <3>4
  <2>2. DeliveryExact'
    BY <2>1, DeliveryIsNext
  <2>3. \A c \in Clients : joined'[c] <= Len(log')
    <3>1. \A c \in Clients : joined[c] \in Nat /\ joined[c] <= Len(log)
      BY DEF LogInv, TypeOK
    <3>2. Len(log') \in Nat
      BY <1>2
    <3>3. QED
      BY <1>1, <1>2, <3>1, <3>2
  <2>4. QED
    BY <2>2, <2>3 DEF LogInv
<1>7. QED
  BY <1>3, <1>4, <1>5, <1>6

(* The server is gone.                                                      *)
LEMMA SigPipeStep ==
  ASSUME IInv, SigPipe
  PROVE  IInv'
<1>1. /\ UNCHANGED <<fd, armed, revents, count, at, to, buffer, owner, received, conn, inq, sends,
                     backlog, typed, stdinAtEof, log, joined>>
      /\ pc' = "dead"
  BY DEF SigPipe, slotVars, netVars, stdinVars, histVars
<1>2. TypeOK'
  BY <1>1 DEF IInv, TypeOK, NetTypeOK
<1>3. SlotInv' /\ CountInv'
  BY <1>1 DEF IInv, SlotInv, CountInv, Used
<1>4. QueueInv'
  BY <1>1 DEF IInv, QueueInv, Owned
<1>5. LogInv'
  BY <1>1 DEF IInv, LogInv, DeliveryExact
<1>6. QED
  BY <1>2, <1>3, <1>4, <1>5 DEF IInv
-----------------------------------------------------------------------------
(* Steps that leave the table and the connections alone.                    *)
LEMMA PollStep ==
  ASSUME IInv, Poll
  PROVE  IInv'
<1> USE DEF IInv, Poll, netVars, stdinVars, histVars
<1>1. revents' \in [{0} \cup Slots -> {"none", "in", "other"}]
  <2>1. \A i \in {0} \cup Slots : Readiness[i] \in {"none", "in", "other"}
    BY DEF Readiness, PollSlot
  <2>2. QED
    BY <2>1 DEF Readiness
<1>2. TypeOK'
  BY <1>1 DEF TypeOK, NetTypeOK
<1>3. SlotInv' /\ CountInv'
  BY DEF SlotInv, CountInv, Used
<1>4. QueueInv'
  <2>1. revents'[0] = "in" => backlog # <<>>
    BY DEF Readiness
  <2>2. QED
    BY <2>1 DEF QueueInv, Owned
<1>5. LogInv'
  BY LogKept, HeardOutside DEF Tracked
<1>6. QED
  BY <1>2, <1>3, <1>4, <1>5

(* An accept that finds nobody changes only the place.                      *)
LEMMA NothingStep ==
  ASSUME IInv, NothingToAccept
  PROVE  IInv'
<1>1. /\ UNCHANGED <<fd, armed, revents, count, to, buffer, owner, received, conn, inq, sends, backlog,
                     typed, stdinAtEof, log, joined>>
      /\ pc' \in {"scan", "poll"} /\ at' \in Slots /\ pc = "accept"
  BY ScanIs DEF NothingToAccept, slotVars, netVars, stdinVars, histVars
<1>2. TypeOK'
  BY <1>1 DEF IInv, TypeOK, NetTypeOK
<1>3. SlotInv' /\ CountInv'
  BY <1>1 DEF IInv, SlotInv, CountInv, Used
<1>4. QueueInv'
  BY <1>1 DEF IInv, QueueInv, Owned
<1>5. LogInv'
  BY <1>1, LogKept, HeardOutside DEF IInv, Tracked
<1>6. QED
  BY <1>2, <1>3, <1>4, <1>5 DEF IInv

(* The end of standard input changes nothing else.                          *)
LEMMA StdinEndsStep ==
  ASSUME IInv, StdinEnds
  PROVE  IInv'
<1>1. /\ UNCHANGED <<fd, armed, revents, count, pc, at, to, buffer, owner, received, conn, inq, sends,
                     backlog, typed, log, joined>>
      /\ stdinAtEof' = TRUE
  BY DEF StdinEnds, serverVars, netVars
<1>2. TypeOK'
  BY <1>1 DEF IInv, TypeOK, NetTypeOK
<1>3. SlotInv' /\ CountInv'
  BY <1>1 DEF IInv, SlotInv, CountInv, Used
<1>4. QueueInv'
  BY <1>1 DEF IInv, QueueInv, Owned
<1>5. LogInv'
  BY <1>1, LogKept, HeardSame DEF IInv, Tracked
<1>6. QED
  BY <1>2, <1>3, <1>4, <1>5 DEF IInv

(* A slot is freed.                                                         *)
LEMMA DisconnectStep ==
  ASSUME IInv, Disconnect
  PROVE  IInv'
<1> DEFINE d == fd[at]
<1>1. /\ pc = "scan" /\ AtEof(owner[d])
      /\ owner' = [owner EXCEPT ![d] = "closed"] /\ fd' = [fd EXCEPT ![at] = 0]
      /\ count' = count - 1 /\ at' \in Slots /\ pc' \in {"poll", "scan"}
      /\ UNCHANGED <<armed, revents, to, buffer, received, conn, inq, sends, backlog, typed, stdinAtEof,
                     log, joined>>
  BY ScanIs DEF Disconnect, netVars, stdinVars, histVars
<1>2. at \in Slots /\ d \in FDs /\ owner[d] \in Clients \cup {"stdin"} /\ (owner[d] = "stdin" => stdinAtEof)
  <2>1. "stdin" \notin Clients
    BY PollAssumption DEF OtherFiles
  <2>2. at \in Slots /\ d \in FDs
    BY DEF IInv, TypeOK
  <2>3. QED
    BY <1>1, <2>1, <2>2 DEF AtEof
<1>3. /\ fd \in [Slots -> FDs] /\ fd'[at] = 0 /\ \A i \in Slots : i # at => fd'[i] = fd[i]
      /\ owner \in [FDs -> Files] /\ owner'[d] = "closed" /\ \A e \in FDs : e # d => owner'[e] = owner[e]
  BY <1>1, <1>2 DEF IInv, TypeOK
<1> HIDE DEF d
<1>4. TypeOK'
  <2>1. fd' \in [Slots -> FDs] /\ owner' \in [FDs -> Files] /\ count' \in Int
    BY <1>1, <1>2, Sizes DEF IInv, TypeOK, Files, OtherFiles
  <2>2. QED
    BY <1>1, <2>1 DEF IInv, TypeOK, NetTypeOK
<1>5. Used' = Used \ {at}
  BY <1>3 DEF Used
<1>6. "closed" \notin Clients /\ "stdin" \notin Clients /\ "listener" \notin Clients
  BY PollAssumption DEF OtherFiles
<1>7. SlotInv'
  <2>1. ASSUME NEW i \in Used' PROVE fd'[i] = fd[i] /\ i \in Used /\ owner'[fd[i]] = owner[fd[i]]
    <3>1. i \in Used /\ i # at /\ fd'[i] = fd[i] /\ i \in Slots /\ fd[i] \in FDs
      BY <1>3, <1>5 DEF Used
    <3>2. fd[i] # d
      <4>1. fd[i] = fd[at] => at \in Used
        BY <1>2, <3>1 DEF Used
      <4>2. QED
        BY <3>1, <4>1 DEF IInv, SlotInv, d
    <3>3. QED
      BY <1>3, <3>1, <3>2
  <2>2. \A e \in FDs : owner'[e] = "listener" <=> owner[e] = "listener"
    BY <1>2, <1>3, <1>6
  <2>3. \A e \in FDs : owner'[e] \in Clients \cup {"stdin"} => owner'[e] = owner[e]
    BY <1>3, <1>6
  <2>4. QED
    BY <1>6, <2>1, <2>2, <2>3 DEF IInv, SlotInv
<1>8. CountInv'
  <2> SUFFICES ASSUME ~stdinAtEof PROVE CountInv'
    BY <1>1 DEF CountInv
  <2>1. owner[d] \in Clients /\ owner[0] = "stdin" /\ d # 0
    BY <1>2, <1>6 DEF IInv, CountInv
  <2>2. at \in Used
    <3>1. fd[at] \in Nat /\ fd[at] # 0
      BY <1>2, <2>1, Sizes DEF d
    <3>2. QED
      BY <1>2, <3>1 DEF Used
  <2>3. owner'[0] = "stdin"
    BY <1>3, <2>1, Sizes
  <2>4. ASSUME NEW e \in FDs, owner'[e] \in Clients PROVE \E i \in Used' : fd'[i] = e
    <3>1. e # d /\ owner[e] \in Clients
      BY <1>3, <1>6, <2>4
    <3>2. PICK i \in Used : fd[i] = e
      BY <3>1 DEF IInv, CountInv
    <3>3. i # at
      BY <3>1, <3>2 DEF d
    <3>4. QED
      BY <1>3, <1>5, <3>2, <3>3 DEF Used
  <2>5. IsFiniteSet(Used)
    BY Sizes, FS_Subset DEF Used
  <2>6. Cardinality(Used') = Cardinality(Used) - 1
    BY <1>5, <2>2, <2>5, FS_RemoveElement
  <2>7. count = Cardinality(Used)
    BY DEF IInv, CountInv
  <2>8. QED
    BY <1>1, <2>3, <2>4, <2>6, <2>7 DEF CountInv
<1>9. QueueInv'
  <2>1. \A c \in Clients : c \in Owned' => c \in Owned
    BY <1>1, <1>3, <1>6 DEF Owned
  <2>2. \A k \in 1 .. Len(backlog) : backlog[k] \in Clients
    BY DEF IInv, TypeOK, NetTypeOK
  <2>3. QED
    BY <1>1, <2>1, <2>2 DEF IInv, QueueInv
<1>10. LogInv'
  <2>1. ASSUME NEW c \in Clients, Tracked(c)' PROVE Tracked(c)
    <3>1. PICK i \in Used' : owner'[fd'[i]] = c
      BY <2>1 DEF Tracked, Used
    <3>2. i \in Used /\ fd'[i] = fd[i] /\ fd[i] \in FDs
      BY <1>3, <1>5, <3>1 DEF Used
    <3>3. owner[fd[i]] = c
      BY <1>3, <1>6, <3>1, <3>2
    <3>4. QED
      BY <3>2, <3>3 DEF Tracked, Used
  <2>2. QED
    BY <1>1, <2>1, LogKept, HeardOutside DEF IInv
<1>11. QED
  BY <1>4, <1>7, <1>8, <1>9, <1>10 DEF IInv
-----------------------------------------------------------------------------
(* The client at the head of the queue, and the queue behind it.            *)
LEMMA HeadIs ==
  ASSUME TypeOK, QueueInv, backlog # <<>>
  PROVE  /\ Head(backlog) \in Clients /\ Head(backlog) \notin Owned
         /\ conn[Head(backlog)] # "none" /\ received[Head(backlog)] = <<>>
         /\ Tail(backlog) \in Seq(Clients)
         /\ \A k \in 1 .. Len(Tail(backlog)) :
              /\ k + 1 \in 1 .. Len(backlog) /\ Tail(backlog)[k] = backlog[k + 1]
              /\ Tail(backlog)[k] \in Clients /\ Tail(backlog)[k] # Head(backlog)
<1>1. backlog \in Seq(Clients) /\ Len(backlog) \in Nat /\ Len(backlog) >= 1
  BY DEF TypeOK, NetTypeOK
<1>2. /\ Tail(backlog) \in Seq(Clients) /\ Len(Tail(backlog)) = Len(backlog) - 1
      /\ \A k \in 1 .. Len(Tail(backlog)) : Tail(backlog)[k] = backlog[k + 1]
  BY <1>1, HeadTailProperties
<1>3. Head(backlog) = backlog[1] /\ 1 \in 1 .. Len(backlog) /\ backlog[1] \in Clients
  BY <1>1
<1>4. \A k \in 1 .. Len(Tail(backlog)) : k + 1 \in 1 .. Len(backlog) /\ k + 1 # 1
  BY <1>1, <1>2
<1>5. \A k \in 1 .. Len(Tail(backlog)) : Tail(backlog)[k] \in Clients
  BY <1>1, <1>2, <1>4
<1>6. \A k \in 1 .. Len(Tail(backlog)) : Tail(backlog)[k] # Head(backlog)
  BY <1>2, <1>3, <1>4 DEF QueueInv
<1>7. QED
  BY <1>2, <1>3, <1>4, <1>5, <1>6 DEF QueueInv

(* What stays in the queue has waited, as before.                           *)
LEMMA TailWaits ==
  ASSUME TypeOK, QueueInv, backlog # <<>>, backlog' = Tail(backlog), received' = received, pc' # "accept",
         \A c \in Clients : /\ c \in Owned' => c \in Owned \cup {Head(backlog)}
                            /\ conn'[c] = "none" <=> conn[c] = "none"
  PROVE  QueueInv'
<1>1. \A k \in 1 .. Len(backlog') :
        backlog'[k] \notin Owned' /\ conn'[backlog'[k]] # "none" /\ received'[backlog'[k]] = <<>>
  BY HeadIs DEF QueueInv
<1>2. \A k, l \in 1 .. Len(backlog') : backlog'[k] = backlog'[l] => k = l
  <2> TAKE k, l \in 1 .. Len(backlog')
  <2>1. backlog'[k] = backlog[k + 1] /\ backlog'[l] = backlog[l + 1]
    BY HeadIs
  <2>2. k + 1 \in 1 .. Len(backlog) /\ l + 1 \in 1 .. Len(backlog)
    BY HeadIs
  <2>3. backlog'[k] = backlog'[l] => k + 1 = l + 1
    BY <2>1, <2>2 DEF QueueInv
  <2>4. QED
    BY <2>3
<1>3. \A c \in Clients : conn'[c] = "none" => c \notin Owned' /\ received'[c] = <<>>
  BY HeadIs DEF QueueInv
<1>4. QED
  BY <1>1, <1>2, <1>3 DEF QueueInv

(* A client gets the lowest descriptor and the first empty slot.            *)
LEMMA AcceptStep ==
  ASSUME IInv, Accept
  PROVE  IInv'
<1> DEFINE c == Head(backlog)
           new == LowestFree
           first == FirstFree
<1>1. /\ pc = "accept" /\ revents[0] = "in" /\ count < MaxClients
      /\ owner' = [owner EXCEPT ![new] = c] /\ conn' = [conn EXCEPT ![c] = Sent(c)]
      /\ joined' = [joined EXCEPT ![c] = Len(log)]
      /\ backlog' = Tail(backlog) /\ count' = count + 1 /\ pc' \in {"poll", "scan"} /\ at' \in Slots
      /\ UNCHANGED <<revents, to, buffer, received, inq, sends, typed, stdinAtEof, log>>
      /\ FreeSlots = {} => fd' = fd /\ armed' = armed
      /\ FreeSlots # {} => fd' = [fd EXCEPT ![first] = new] /\ armed' = [armed EXCEPT ![first] = TRUE]
  BY ScanIs DEF Accept, stdinVars
<1>2. /\ backlog # <<>> /\ c \in Clients /\ c \notin Owned /\ conn[c] # "none" /\ received[c] = <<>>
      /\ Tail(backlog) \in Seq(Clients)
  BY <1>1, HeadIs DEF IInv, QueueInv
<1>3. new \in FDs /\ owner[new] = "closed" /\ new # Master
  BY <1>2, LowestFreeIs DEF IInv
<1>4. FreeSlots # {} => first \in Slots /\ fd[first] = 0
  BY FirstFreeIs
<1> HIDE DEF new, first
<1>5. "closed" \notin Clients /\ "stdin" \notin Clients /\ "listener" \notin Clients
  BY PollAssumption DEF OtherFiles
<1>6. owner \in [FDs -> Files] /\ owner'[new] = c /\ \A e \in FDs : e # new => owner'[e] = owner[e]
  BY <1>1, <1>3 DEF IInv, TypeOK
<1>7. TypeOK'
  <2>1. owner' \in [FDs -> Files]
    BY <1>1, <1>2, <1>6 DEF Files
  <2>2. fd' \in [Slots -> FDs] /\ armed' \in [Slots -> BOOLEAN]
    BY <1>1, <1>3 DEF IInv, TypeOK
  <2>3. conn' \in [Clients -> ConnState]
    BY <1>1, <1>2, SentIs DEF IInv, TypeOK, NetTypeOK
  <2>4. joined' \in [Clients -> Nat] /\ count' \in Int /\ at' \in Slots
    <3>1. log \in Seq(Entries) /\ Len(log) \in Nat
      BY DEF IInv, TypeOK
    <3>2. joined' \in [Clients -> Nat]
      BY <1>1, <3>1 DEF IInv, TypeOK
    <3>3. QED
      BY <1>1, <3>2, Sizes DEF IInv, TypeOK
  <2>5. QED
    BY <1>1, <1>2, <2>1, <2>2, <2>3, <2>4 DEF IInv, TypeOK, NetTypeOK
<1>8. ASSUME NEW i \in Used
      PROVE  /\ fd'[i] = fd[i] /\ fd[i] \in FDs /\ fd[i] # new /\ owner'[fd[i]] = owner[fd[i]] /\ i \in Used'
  <2>1. i \in Slots /\ fd[i] \in FDs /\ fd[i] > 0 /\ owner[fd[i]] \in Clients
    BY DEF Used, IInv, TypeOK, SlotInv
  <2>2. fd'[i] = fd[i]
    BY <1>1, <1>4, <2>1, Sizes DEF IInv, TypeOK
  <2>3. fd[i] # new
    BY <1>3, <1>5, <2>1
  <2>4. QED
    BY <1>6, <2>1, <2>2, <2>3 DEF Used
<1>9. ASSUME NEW i \in Used', i \notin Used
      PROVE  FreeSlots # {} /\ i = first /\ fd'[i] = new
  BY <1>1, <1>4, <1>9 DEF Used, IInv, TypeOK
<1>10. SlotInv'
  <2>1. ASSUME NEW i \in Used' PROVE owner'[fd'[i]] \in Clients
    <3>1. CASE i \in Used
      BY <1>8, <3>1 DEF IInv, SlotInv
    <3>2. CASE i \notin Used
      BY <1>2, <1>6, <1>9, <3>2
    <3>3. QED
      BY <3>1, <3>2
  <2>2. ASSUME NEW i \in Used', NEW j \in Used', fd'[i] = fd'[j] PROVE i = j
    <3>1. CASE i \in Used /\ j \in Used
      BY <1>8, <2>2, <3>1 DEF IInv, SlotInv
    <3>2. CASE ~(i \in Used /\ j \in Used)
      BY <1>8, <1>9, <2>2, <3>2
    <3>3. QED
      BY <3>1, <3>2
  <2>3. ASSUME NEW e \in FDs, NEW g \in FDs, owner'[e] \in Clients, owner'[e] = owner'[g] PROVE e = g
    <3>1. \A h \in FDs : h # new => owner'[h] # c
      BY <1>2, <1>6 DEF Owned
    <3>2. QED
      BY <1>6, <2>3, <3>1 DEF IInv, SlotInv
  <2>4. \A e \in FDs : (owner'[e] = "listener" <=> e = Master) /\ (owner'[e] = "stdin" => e = 0)
    BY <1>2, <1>3, <1>5, <1>6 DEF IInv, SlotInv
  <2>5. QED
    BY <2>1, <2>2, <2>3, <2>4 DEF SlotInv
<1>11. CountInv'
  <2> SUFFICES ASSUME ~stdinAtEof PROVE CountInv'
    BY <1>1 DEF CountInv
  <2>1. owner[0] = "stdin" /\ count = Cardinality(Used) /\ new # 0
    BY <1>3 DEF IInv, CountInv
  <2>2. IsFiniteSet(Used) /\ Cardinality(Used) \in Nat
    BY Sizes, FS_Subset, FS_CardinalityType DEF Used
  <2>3. FreeSlots # {}
    <3>1. PICK m \in Nat : m = MaxClients
      BY PollAssumption
    <3>2. Cardinality(1 .. m) = IF 1 > m THEN 0 ELSE m - 1 + 1
      BY FS_Interval
    <3>3. Cardinality(Slots) = MaxClients /\ MaxClients \in Nat
      BY <3>1, <3>2, PollAssumption DEF Slots
    <3>4. Used # Slots
      BY <1>1, <2>1, <2>2, <3>3
    <3>5. PICK i \in Slots : ~(fd[i] > 0)
      BY <3>4 DEF Used
    <3>6. fd[i] \in Nat
      BY Sizes DEF IInv, TypeOK
    <3>7. QED
      BY <3>5, <3>6 DEF FreeSlots
  <2>4. fd'[first] = new /\ first \in Slots /\ first \notin Used
    BY <1>1, <1>4, <2>3 DEF IInv, TypeOK, Used
  <2>5. first \in Used'
    <3>1. new \in Nat /\ new # 0
      BY <1>3, <2>1, Sizes
    <3>2. QED
      BY <2>4, <3>1 DEF Used
  <2>6. Used' = Used \cup {first}
    BY <1>8, <1>9, <2>5
  <2>7. Cardinality(Used') = Cardinality(Used) + 1
    BY <2>2, <2>4, <2>6, FS_AddElement
  <2>8. ASSUME NEW e \in FDs, owner'[e] \in Clients PROVE \E i \in Used' : fd'[i] = e
    <3>1. CASE e = new
      BY <2>4, <2>5, <3>1
    <3>2. CASE e # new
      <4>1. PICK i \in Used : fd[i] = e
        BY <1>6, <2>8, <3>2 DEF IInv, CountInv
      <4>2. QED
        BY <1>8, <4>1
    <3>3. QED
      BY <3>1, <3>2
  <2>9. owner'[0] = "stdin"
    BY <1>6, <2>1, Sizes
  <2>10. QED
    BY <1>1, <2>1, <2>7, <2>8, <2>9 DEF CountInv
<1>12. QueueInv'
  <2>1. \A x \in Clients : x \in Owned' => x \in Owned \cup {c}
    BY <1>6 DEF Owned
  <2>2. \A x \in Clients : conn'[x] = "none" <=> conn[x] = "none"
    BY <1>1, <1>2, SentIs DEF IInv, TypeOK, NetTypeOK
  <2>3. QED
    BY <1>1, <1>2, <2>1, <2>2, TailWaits DEF IInv
<1>13. LogInv'
  <2>1. \A x \in Clients : joined'[x] = IF x = c THEN Len(log) ELSE joined[x]
    BY <1>1 DEF IInv, TypeOK
  <2>2. log \in Seq(Entries) /\ Len(log) \in Nat
    BY DEF IInv, TypeOK
  <2>3. Exact(received'[c], log', joined'[c], c)
    BY <1>1, <1>2, <2>1, <2>2, ExactStarts
  <2>4. ASSUME NEW x \in Clients, x # c, Tracked(x)', conn'[x] = "open"
        PROVE  Exact(received'[x], Heard(x)', joined'[x], x)
    <3>1. PICK i \in Used' : owner'[fd'[i]] = x
      BY <2>4 DEF Tracked, Used
    <3>2. i \in Used
      BY <1>6, <1>9, <2>4, <3>1
    <3>3. Tracked(x)
      BY <1>8, <3>1, <3>2 DEF Tracked, Used
    <3>4. conn[x] = "open"
      BY <1>1, <2>4 DEF IInv, TypeOK, NetTypeOK
    <3>5. QED
      BY <1>1, <2>1, <2>4, <3>3, <3>4, DeliveryIs, HeardOutside DEF IInv, LogInv
  <2>5. DeliveryExact'
    <3>1. \A x \in Clients : Heard(x)' = log'
      BY <1>1, HeardOutside
    <3>2. QED
      BY <2>3, <2>4, <3>1, DeliveryIsNext
  <2>6. \A x \in Clients : joined'[x] <= Len(log')
    BY <1>1, <2>1, <2>2 DEF IInv, LogInv
  <2>7. QED
    BY <2>5, <2>6 DEF LogInv
<1>14. QED
  BY <1>7, <1>10, <1>11, <1>12, <1>13 DEF IInv

(* A connection that finds no room is closed, and was never in the table.   *)
LEMMA RefuseStep ==
  ASSUME IInv, Refuse
  PROVE  IInv'
<1>1. /\ pc = "accept" /\ revents[0] = "in" /\ conn' = [conn EXCEPT ![Head(backlog)] = "broken"]
      /\ backlog' = Tail(backlog) /\ pc' \in {"poll", "scan"} /\ at' \in Slots
      /\ UNCHANGED <<fd, armed, revents, count, to, buffer, owner, received, inq, sends, typed,
                     stdinAtEof, log, joined>>
  BY ScanIs DEF Refuse, slotVars, stdinVars, histVars
<1>2. /\ backlog # <<>> /\ Head(backlog) \in Clients /\ conn[Head(backlog)] # "none"
      /\ Tail(backlog) \in Seq(Clients)
  BY <1>1, HeadIs DEF IInv, QueueInv
<1>3. conn \in [Clients -> ConnState] /\ "broken" \in ConnState
  BY DEF IInv, TypeOK, NetTypeOK, ConnState
<1>4. TypeOK'
  <2>1. conn' \in [Clients -> ConnState] /\ at' \in Slots
    BY <1>1, <1>3, Sizes
  <2>2. QED
    BY <1>1, <1>2, <2>1 DEF IInv, TypeOK, NetTypeOK
<1>5. SlotInv' /\ CountInv'
  BY <1>1 DEF IInv, SlotInv, CountInv, Used
<1>6. QueueInv'
  <2>1. \A c \in Clients : conn'[c] = "none" <=> conn[c] = "none"
    BY <1>1, <1>2, <1>3
  <2>2. Owned' = Owned
    BY <1>1 DEF Owned
  <2>3. QED
    BY <1>1, <1>2, <2>1, <2>2, TailWaits DEF IInv
<1>7. LogInv'
  <2>1. ASSUME NEW c \in Clients, Tracked(c)', conn'[c] = "open" PROVE Tracked(c) /\ conn[c] = "open"
    BY <1>1, <1>3, <2>1 DEF Tracked
  <2>2. QED
    BY <1>1, <2>1, LogKept, HeardOutside DEF IInv
<1>8. QED
  BY <1>4, <1>5, <1>6, <1>7 DEF IInv
-----------------------------------------------------------------------------
(* The clients.                                                             *)
LEMMA ConnectStep ==
  ASSUME IInv, NEW c \in Clients, Connect(c), UNCHANGED <<serverVars, stdinVars>>
  PROVE  IInv'
<1>1. /\ conn[c] = "none" /\ conn' = [conn EXCEPT ![c] = "open"] /\ backlog' = Append(backlog, c)
      /\ UNCHANGED <<fd, armed, revents, count, pc, at, to, buffer, owner, received, inq, sends, typed,
                     stdinAtEof, log, joined>>
  BY DEF Connect, serverVars, stdinVars
<1>2. conn \in [Clients -> ConnState] /\ "open" \in ConnState /\ backlog \in Seq(Clients) /\ Len(backlog) \in Nat
  BY DEF IInv, TypeOK, NetTypeOK, ConnState
<1>3. /\ backlog' \in Seq(Clients) /\ Len(backlog') = Len(backlog) + 1 /\ backlog' # <<>>
      /\ backlog'[Len(backlog) + 1] = c /\ \A k \in 1 .. Len(backlog) : backlog'[k] = backlog[k]
  BY <1>1, <1>2, AppendProperties
<1>4. TypeOK'
  <2>1. conn' \in [Clients -> ConnState]
    BY <1>1, <1>2
  <2>2. QED
    BY <1>1, <1>3, <2>1 DEF IInv, TypeOK, NetTypeOK
<1>5. SlotInv' /\ CountInv'
  BY <1>1 DEF IInv, SlotInv, CountInv, Used
<1>6. c \notin Owned /\ received[c] = <<>> /\ \A k \in 1 .. Len(backlog) : backlog[k] # c
  BY <1>1 DEF IInv, QueueInv
<1>7. QueueInv'
  <2>1. Owned' = Owned
    BY <1>1 DEF Owned
  <2>2. \A k \in 1 .. Len(backlog') : k \in 1 .. Len(backlog) \/ k = Len(backlog) + 1
    BY <1>2, <1>3
  <2>3. conn'[c] = "open" /\ \A x \in Clients : x # c => conn'[x] = conn[x]
    BY <1>1, <1>2
  <2>4. \A k \in 1 .. Len(backlog) : backlog[k] \in Clients
    BY <1>2
  <2>5. \A k \in 1 .. Len(backlog') :
          backlog'[k] \notin Owned /\ conn'[backlog'[k]] # "none" /\ received[backlog'[k]] = <<>>
    BY <1>3, <1>6, <2>2, <2>3, <2>4 DEF IInv, QueueInv
  <2>6. \A k, l \in 1 .. Len(backlog') : backlog'[k] = backlog'[l] => k = l
    BY <1>3, <1>6, <2>2 DEF IInv, QueueInv
  <2>7. \A x \in Clients : conn'[x] = "none" => x \notin Owned /\ received[x] = <<>>
    BY <2>3 DEF IInv, QueueInv
  <2>8. QED
    BY <1>1, <1>3, <2>1, <2>5, <2>6, <2>7 DEF QueueInv
<1>8. LogInv'
  <2>1. ASSUME NEW x \in Clients, Tracked(x)', conn'[x] = "open" PROVE Tracked(x) /\ conn[x] = "open"
    <3>1. Tracked(x)
      BY <1>1, <2>1 DEF Tracked
    <3>2. x \in Owned
      BY <3>1 DEF Tracked, Owned, IInv, TypeOK
    <3>3. QED
      BY <1>1, <1>2, <1>6, <2>1, <3>1, <3>2
  <2>2. QED
    BY <1>1, <2>1, LogKept, HeardSame DEF IInv
<1>9. QED
  BY <1>4, <1>5, <1>7, <1>8 DEF IInv

(* A client sends a message.                                                *)
LEMMA TypeStep ==
  ASSUME IInv, NEW c \in Clients, Type(c), UNCHANGED <<serverVars, stdinVars>>
  PROVE  IInv'
<1>1. /\ sends[c] < MaxSends /\ sends' = [sends EXCEPT ![c] = @ + 1]
      /\ inq' = [inq EXCEPT ![c] = Append(@, <<c, sends[c] + 1>>)]
      /\ UNCHANGED <<fd, armed, revents, count, pc, at, to, buffer, owner, received, conn, backlog, typed,
                     stdinAtEof, log, joined>>
  BY DEF Type, serverVars, stdinVars
<1>2. TypeOK'
  <2>1. inq \in [Clients -> Seq(Msgs)] /\ sends \in [Clients -> 0 .. MaxSends] /\ MaxSends \in Nat
    BY ClientsAssumption DEF IInv, TypeOK, NetTypeOK
  <2>2. sends[c] + 1 \in 1 .. MaxSends
    BY <1>1, <2>1
  <2>3. <<c, sends[c] + 1>> \in Msgs
    BY <2>2 DEF Msgs
  <2>4. Append(inq[c], <<c, sends[c] + 1>>) \in Seq(Msgs)
    BY <2>1, <2>3
  <2>5. inq' \in [Clients -> Seq(Msgs)] /\ sends' \in [Clients -> 0 .. MaxSends]
    BY <1>1, <2>1, <2>2, <2>4
  <2>6. QED
    BY <1>1, <2>5 DEF IInv, TypeOK, NetTypeOK
<1>3. SlotInv' /\ CountInv'
  BY <1>1 DEF IInv, SlotInv, CountInv, Used
<1>4. QueueInv'
  BY <1>1 DEF IInv, QueueInv, Owned
<1>5. LogInv'
  BY <1>1, LogKept, HeardSame DEF IInv, Tracked
<1>6. QED
  BY <1>2, <1>3, <1>4, <1>5 DEF IInv

(* A client closes its socket, or its kernel resets the connection.         *)
LEMMA LeaveStep ==
  ASSUME IInv, NEW c \in Clients, ClientClose(c) \/ ClientReset(c) \/ ResetArrives(c),
         UNCHANGED <<serverVars, stdinVars>>
  PROVE  IInv'
<1>1. /\ conn[c] # "none" /\ \E how \in {"fin", "rst", "broken"} : conn' = [conn EXCEPT ![c] = how]
      /\ UNCHANGED <<fd, armed, revents, count, pc, at, to, buffer, owner, received, inq, sends, backlog,
                     typed, stdinAtEof, log, joined>>
  BY DEF ClientClose, ClientReset, ResetArrives, serverVars, stdinVars
<1>2. /\ conn' \in [Clients -> ConnState]
      /\ \A x \in Clients : (conn'[x] = "none" <=> conn[x] = "none") /\ (conn'[x] = "open" => conn[x] = "open")
  <2>1. conn \in [Clients -> ConnState] /\ {"fin", "rst", "broken"} \subseteq ConnState
    BY DEF IInv, TypeOK, NetTypeOK, ConnState
  <2>2. QED
    BY <1>1, <2>1
<1>3. TypeOK'
  BY <1>1, <1>2 DEF IInv, TypeOK, NetTypeOK
<1>4. SlotInv' /\ CountInv'
  BY <1>1 DEF IInv, SlotInv, CountInv, Used
<1>5. QueueInv'
  <2>1. \A k \in 1 .. Len(backlog) : backlog[k] \in Clients
    BY DEF IInv, TypeOK, NetTypeOK
  <2>2. QED
    BY <1>1, <1>2, <2>1 DEF IInv, QueueInv, Owned
<1>6. LogInv'
  BY <1>1, <1>2, LogKept, HeardSame DEF IInv, Tracked
<1>7. QED
  BY <1>3, <1>4, <1>5, <1>6 DEF IInv
-----------------------------------------------------------------------------
(* At the beginning there are standard input and the listener.              *)
LEMMA Start == Init => IInv
<1> SUFFICES ASSUME Init PROVE IInv
  OBVIOUS
<1> USE DEF Init, NetInit
<1>1. /\ Used = {} /\ \A d \in FDs : owner[d] = IF d = 0 THEN "stdin" ELSE IF d = Master THEN "listener" ELSE "closed"
  BY DEF Used
<1>2. TypeOK
  <2>1. owner \in [FDs -> Files] /\ fd \in [Slots -> FDs] /\ at \in Slots
    BY Sizes DEF Files, OtherFiles
  <2>2. <<Garbage>> \in Seq(Msgs)
    BY DEF Msgs
  <2>3. NetTypeOK
    BY ClientsAssumption DEF NetTypeOK, ConnState
  <2>4. received \in [Clients -> Seq(Entries)] /\ log \in Seq(Entries) /\ typed \in Nat
    BY PollAssumption
  <2>5. QED
    BY <2>1, <2>2, <2>3, <2>4 DEF TypeOK
<1>3. \A d \in FDs : owner[d] \notin Clients
  BY <1>1, PollAssumption DEF OtherFiles
<1>4. SlotInv
  BY <1>1, <1>3, Sizes DEF SlotInv, Master
<1>5. CountInv
  BY <1>1, <1>3, Sizes, FS_EmptySet DEF CountInv
<1>6. QueueInv
  BY <1>3 DEF QueueInv, Owned
<1>7. LogInv
  BY <1>1 DEF LogInv, DeliveryExact, Tracked
<1>8. QED
  BY <1>2, <1>4, <1>5, <1>6, <1>7 DEF IInv

(* Every step keeps the invariant.                                          *)
LEMMA Preserved == IInv /\ [Next]_vars => IInv'
<1> SUFFICES ASSUME IInv, [Next]_vars PROVE IInv'
  OBVIOUS
<1>1. CASE Server
  BY <1>1, PollStep, NothingStep, AcceptStep, RefuseStep, ReadSteps, DisconnectStep, SendStep,
     SigPipeStep, EndBroadcastStep DEF Server
<1>2. CASE Environment
  BY <1>2, ConnectStep, TypeStep, LeaveStep, StdinEndsStep DEF Environment, ClientStep
<1>3. CASE UNCHANGED vars
  <2>1. UNCHANGED <<fd, armed, revents, count, pc, at, to, buffer, owner, received, conn, inq, sends,
                    backlog, typed, stdinAtEof, log, joined>>
    BY <1>3 DEF vars
  <2>2. TypeOK'
    BY <2>1 DEF IInv, TypeOK, NetTypeOK
  <2>3. SlotInv' /\ CountInv'
    BY <2>1 DEF IInv, SlotInv, CountInv, Used
  <2>4. QueueInv'
    BY <2>1 DEF IInv, QueueInv, Owned
  <2>5. LogInv'
    BY <2>1, LogKept, HeardSame DEF IInv, Tracked
  <2>6. QED
    BY <2>2, <2>3, <2>4, <2>5 DEF IInv
<1>4. QED
  BY <1>1, <1>2, <1>3 DEF Next

(* The inductive invariant of the chat server.                              *)
THEOREM PollInvariant == Spec => []IInv
BY Start, Preserved, PTL DEF Spec

(* Until standard input ends, the server counts the clients in its table and *)
(* has every connection it holds open in exactly one slot.                  *)
THEOREM TableIsExact == Spec => []TableInv
<1>1. IInv => CountIsTracked
  BY DEF IInv, CountInv, CountIsTracked, Used
<1>2. ASSUME IInv, ~stdinAtEof, NEW d \in FDs, owner[d] \in Clients
      PROVE  d > 0 /\ Cardinality({i \in Slots : fd[i] = d}) = 1
  <2>1. PICK i \in Used : fd[i] = d
    BY <1>2 DEF IInv, CountInv
  <2>2. d > 0 /\ \A j \in Slots : fd[j] = d => j = i
    <3>1. d > 0
      BY <2>1 DEF Used
    <3>2. \A j \in Slots : fd[j] = d => j \in Used
      BY <3>1 DEF Used
    <3>3. QED
      BY <1>2, <2>1, <3>1, <3>2 DEF IInv, SlotInv
  <2>3. {j \in Slots : fd[j] = d} = {i}
    BY <2>1, <2>2 DEF Used
  <2>4. QED
    BY <2>2, <2>3, FS_Singleton
<1>3. IInv => AcceptedIsTracked
  BY <1>2 DEF AcceptedIsTracked, AddedToArray
<1>4. IInv => TableInv
  BY <1>1, <1>3 DEF IInv, TableInv
<1>5. QED
  BY <1>4, PollInvariant, PTL

(* Whoever is in the table has been sent, in order and once, what the others *)
(* have broadcast since it was accepted, and nothing else.                  *)
THEOREM DeliveryIsExact == Spec => []DeliveryExact
<1>1. IInv => DeliveryExact
  BY DEF IInv, LogInv
<1>2. QED
  BY <1>1, PollInvariant, PTL
=============================================================================
