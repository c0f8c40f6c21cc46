------------------------- MODULE ChatServersProofs -------------------------
(***************************************************************************)
(* Proofs about select.c and poll_try.c, for any finite set of clients, any *)
(* number of slots and any number of messages: that a client has one slot   *)
(* or none for ever, what each client is sent, and in whose name.           *)
(***************************************************************************)
EXTENDS ChatServers, FiniteSetTheorems, SequenceTheorems, WellFoundedInduction, TLAPS

(* Who waits to be accepted waits once, has no slot and has heard nothing;   *)
(* the server does not accept from an empty queue.                          *)
QueueInv ==
  /\ \A k \in 1 .. Len(backlog) :
       /\ ~Tracked(backlog[k]) /\ backlog[k] \notin forgotten
       /\ conn[backlog[k]] # "none" /\ received[backlog[k]] = <<>>
  /\ \A k, l \in 1 .. Len(backlog) : backlog[k] = backlog[l] => k = l
  /\ \A c \in Clients : conn[c] = "none" => ~Tracked(c) /\ c \notin forgotten /\ received[c] = <<>>
  /\ pc = "accept" /\ 0 \in ready => backlog # <<>>

(* What waits to be read from a client was typed by it.                     *)
TypedByItself == \A c \in Clients : \A k \in 1 .. Len(inq[c]) : inq[c][k][1] = c
AuthorInv == TypedByItself /\ TypedByTheSender

(* A client came in no later than now.                                      *)
LogInv == (\A c \in Clients : joined[c] <= Len(log)) /\ DeliveryExact

IInv == TypeOK /\ OneSlotEach /\ QueueInv /\ AuthorInv /\ LogInv
-----------------------------------------------------------------------------
(* A nonempty set of natural numbers has a least element.                   *)
LEMMA LeastExists ==
  ASSUME NEW T, T \subseteq Nat, T # {}
  PROVE  \E x \in T : \A y \in T : x <= y
<1> DEFINE R == StrictSubsetOrdering(Nat)
           Below(n) == 0 .. n - 1
           U == {Below(n) : n \in T}
<1>1. U \subseteq FiniteSubsetsOf(Nat) /\ U # {}
  <2>1. \A n \in Nat : Below(n) \subseteq Nat /\ IsFiniteSet(Below(n))
    BY FS_Interval
  <2>2. QED
    BY <2>1 DEF FiniteSubsetsOf
<1>2. \E x \in U : \A y \in U : <<y, x>> \notin R
  <2>1. IsWellFoundedOn(R, FiniteSubsetsOf(Nat))
    BY FS_StrictSubsetOrderingWellFounded
  <2> HIDE DEF R, U
  <2>2. QED
    BY <1>1, <2>1, WFMin
<1>3. PICK x \in T : \A y \in T : <<Below(y), Below(x)>> \notin R
  BY <1>2
<1>4. ASSUME NEW y \in T, y < x PROVE <<Below(y), Below(x)>> \in R
  <2>1. Below(y) \in SUBSET Nat /\ Below(x) \in SUBSET Nat /\ Below(y) \subseteq Below(x)
    BY <1>4
  <2>2. y \in Below(x) /\ y \notin Below(y)
    BY <1>4
  <2> HIDE DEF Below
  <2>3. QED
    BY <2>1, <2>2 DEF StrictSubsetOrdering
<1> HIDE DEF R, U, Below
<1>5. x \in Nat /\ \A y \in T : y \in Nat /\ ~(y < x)
  BY <1>3, <1>4
<1>6. QED
  BY <1>5

(* The entries of a log s after j that nobody in X wrote, up to entry k; and *)
(* r holds exactly those, in order.  DeliveryExact says this of the clients. *)
Others(s, j, X, k) == {l \in j + 1 .. k : s[l].from \notin X}
Exact(r, s, j, X) ==
  /\ Len(r) = Cardinality(Others(s, j, X, Len(s)))
  /\ \A l \in Others(s, j, X, Len(s)) : r[Cardinality(Others(s, j, X, l))] = s[l]

(* Nothing has been missed by who comes in now.                             *)
LEMMA ExactStarts ==
  ASSUME NEW E, NEW s \in Seq(E), NEW X
  PROVE  Exact(<<>>, s, Len(s), X)
<1>1. Others(s, Len(s), X, Len(s)) = {}
  BY DEF Others
<1>2. QED
  BY <1>1, FS_EmptySet DEF Exact

(* How many entries there are up to k.                                      *)
LEMMA OthersCounted ==
  ASSUME NEW E, NEW s \in Seq(E), NEW X, NEW j \in Nat, NEW k \in Nat
  PROVE  /\ IsFiniteSet(Others(s, j, X, k)) /\ Cardinality(Others(s, j, X, k)) \in Nat
         /\ \A l \in Others(s, j, X, k) : Cardinality(Others(s, j, X, l)) \in 1 .. Cardinality(Others(s, j, X, k))
<1>1. ASSUME NEW m \in Nat
      PROVE  IsFiniteSet(Others(s, j, X, m)) /\ Cardinality(Others(s, j, X, m)) \in Nat
  <2>1. IsFiniteSet(j + 1 .. m)
    BY FS_Interval
  <2>2. Others(s, j, X, m) \in SUBSET (j + 1 .. m)
    BY DEF Others
  <2>3. QED
    BY <2>1, <2>2, FS_Subset, FS_CardinalityType
<1>2. ASSUME NEW l \in Others(s, j, X, k)
      PROVE  Cardinality(Others(s, j, X, l)) \in 1 .. Cardinality(Others(s, j, X, k))
  <2>1. l \in Nat /\ l \in Others(s, j, X, l)
    BY DEF Others
  <2>2. Others(s, j, X, l) \in SUBSET Others(s, j, X, k)
    BY DEF Others
  <2>3. Cardinality(Others(s, j, X, l)) <= Cardinality(Others(s, j, X, k))
    BY <1>1, <2>2, FS_Subset
  <2>4. Cardinality(Others(s, j, X, l)) # 0
    BY <1>1, <2>1, FS_EmptySet
  <2>5. QED
    BY <1>1, <2>1, <2>3, <2>4
<1>3. QED
  BY <1>1, <1>2

(* What one sequence appended to another is, entry by entry.                *)
LEMMA Appended ==
  ASSUME NEW E, NEW s \in Seq(E), NEW e \in Seq(E)
  PROVE  /\ s \o e \in Seq(E) /\ Len(s \o e) = Len(s) + Len(e)
         /\ DOMAIN (s \o e) = 1 .. Len(s) + Len(e)
         /\ \A k \in 1 .. Len(s) + Len(e) : (s \o e)[k] = IF k <= Len(s) THEN s[k] ELSE e[k - Len(s)]
<1>1. s \o e \in Seq(E) /\ Len(s \o e) = Len(s) + Len(e)
  OBVIOUS
<1>2. QED
  BY <1>1, ConcatProperties

(* What is appended to the log by somebody in X need not be sent ...        *)
LEMMA ExactOwn ==
  ASSUME NEW E, NEW s \in Seq(E), NEW e \in Seq(E), NEW r \in Seq(E), NEW X, NEW j \in Nat,
         Exact(r, s, j, X), \A k \in 1 .. Len(e) : e[k].from \in X
  PROVE  Exact(r, s \o e, j, X)
<1>1. Len(s \o e) = Len(s) + Len(e) /\ Len(s) \in Nat /\ Len(e) \in Nat
  OBVIOUS
<1>2. \A l \in 1 .. Len(s) + Len(e) : (s \o e)[l] = IF l <= Len(s) THEN s[l] ELSE e[l - Len(s)]
  BY ConcatProperties
<1>3. ASSUME NEW k \in 0 .. Len(s) PROVE Others(s \o e, j, X, k) = Others(s, j, X, k)
  BY <1>1, <1>2 DEF Others
<1>4. Others(s \o e, j, X, Len(s \o e)) = Others(s, j, X, Len(s))
  <2>1. ASSUME NEW l \in Len(s) + 1 .. Len(s) + Len(e) PROVE (s \o e)[l].from \in X
    <3>1. l - Len(s) \in 1 .. Len(e) /\ (s \o e)[l] = e[l - Len(s)]
      BY <1>1, <1>2
    <3>2. QED
      BY <3>1
  <2>2. Others(s \o e, j, X, Len(s \o e)) = Others(s \o e, j, X, Len(s))
    BY <1>1, <2>1 DEF Others
  <2>3. QED
    BY <1>1, <1>3, <2>2
<1>5. ASSUME NEW l \in Others(s, j, X, Len(s))
      PROVE  Others(s \o e, j, X, l) = Others(s, j, X, l) /\ (s \o e)[l] = s[l]
  BY <1>1, <1>2, <1>3 DEF Others
<1>6. QED
  BY <1>4, <1>5 DEF Exact

(* ... and what another appends has to.                                     *)
LEMMA ExactOther ==
  ASSUME NEW E, NEW s \in Seq(E), NEW e \in Seq(E), NEW r \in Seq(E), NEW X, NEW j \in Nat,
         j <= Len(s), Exact(r, s, j, X), \A k \in 1 .. Len(e) : e[k].from \notin X
  PROVE  Exact(r \o e, s \o e, j, X)
<1> DEFINE t == s \o e
           q == r \o e
<1>1. /\ Len(t) = Len(s) + Len(e) /\ Len(s) \in Nat /\ Len(e) \in Nat
      /\ Len(q) = Len(r) + Len(e) /\ Len(r) \in Nat
  OBVIOUS
<1>2. \A l \in 1 .. Len(s) + Len(e) : t[l] = IF l <= Len(s) THEN s[l] ELSE e[l - Len(s)]
  BY ConcatProperties
<1>3. \A l \in 1 .. Len(r) + Len(e) : q[l] = IF l <= Len(r) THEN r[l] ELSE e[l - Len(r)]
  BY ConcatProperties
<1> HIDE DEF t, q
<1>4. ASSUME NEW k \in 0 .. Len(s) PROVE Others(t, j, X, k) = Others(s, j, X, k)
  BY <1>1, <1>2 DEF Others
<1>5. ASSUME NEW k \in 0 .. Len(e)
      PROVE  Cardinality(Others(t, j, X, Len(s) + k)) = Len(r) + k
  <2>1. Others(t, j, X, Len(s) + k) = Others(s, j, X, Len(s)) \cup (Len(s) + 1 .. Len(s) + k)
    <3>1. ASSUME NEW l \in Len(s) + 1 .. Len(s) + k PROVE t[l].from \notin X /\ l \in j + 1 .. Len(s) + k
      <4>1. l - Len(s) \in 1 .. Len(e) /\ t[l] = e[l - Len(s)]
        BY <1>1, <1>2
      <4>2. QED
        BY <1>1, <4>1
    <3>2. Others(t, j, X, Len(s) + k) = Others(t, j, X, Len(s)) \cup (Len(s) + 1 .. Len(s) + k)
      BY <1>1, <3>1 DEF Others
    <3>3. QED
      BY <1>1, <1>4, <3>2
  <2>2. Others(s, j, X, Len(s)) \cap (Len(s) + 1 .. Len(s) + k) = {}
    BY <1>1 DEF Others
  <2>3. /\ IsFiniteSet(Len(s) + 1 .. Len(s) + k)
        /\ Cardinality(Len(s) + 1 .. Len(s) + k) = k
    <3>1. PICK a \in Int, b \in Int : a = Len(s) + 1 /\ b = Len(s) + k
      BY <1>1
    <3>2. IsFiniteSet(a .. b) /\ Cardinality(a .. b) = IF a > b THEN 0 ELSE b - a + 1
      BY FS_Interval
    <3>3. QED
      BY <1>1, <3>1, <3>2
  <2>4. IsFiniteSet(Others(s, j, X, Len(s))) /\ Cardinality(Others(s, j, X, Len(s))) = Len(r)
    BY <1>1, OthersCounted DEF Exact
  <2>5. Cardinality({}) = 0
    BY FS_EmptySet
  <2>6. PICK A, B : A = Others(s, j, X, Len(s)) /\ B = Len(s) + 1 .. Len(s) + k
    OBVIOUS
  <2>7. /\ IsFiniteSet(A) /\ IsFiniteSet(B) /\ A \cap B = {}
        /\ Cardinality(A) = Len(r) /\ Cardinality(B) = k
    BY <2>2, <2>3, <2>4, <2>6
  <2>8. Cardinality(A \cup B) = Cardinality(A) + Cardinality(B) - Cardinality(A \cap B)
    BY ONLY <2>7, FS_Union
  <2>9. Cardinality(A \cup B) = Len(r) + k
    <3>1. Cardinality(A \cap B) = 0
      BY ONLY <2>5, <2>7, Zenon
    <3>2. QED
      BY <1>1, <2>7, <2>8, <3>1
  <2>10. QED
    BY <2>1, <2>6, <2>9
<1>6. Len(q) = Cardinality(Others(t, j, X, Len(t)))
  BY <1>1, <1>5
<1>7. ASSUME NEW l \in Others(t, j, X, Len(t)) PROVE q[Cardinality(Others(t, j, X, l))] = t[l]
  <2>1. l \in j + 1 .. Len(s) + Len(e)
    BY <1>1 DEF Others
  <2>2. CASE l <= Len(s)
    <3>1. l \in Others(s, j, X, Len(s)) /\ Others(t, j, X, l) = Others(s, j, X, l) /\ t[l] = s[l]
      <4>1. l \in 0 .. Len(s) /\ l \in j + 1 .. Len(s) /\ t[l] = s[l]
        BY <1>1, <1>2, <2>1, <2>2
      <4>2. t[l].from \notin X
        BY DEF Others
      <4>3. QED
        BY <1>4, <4>1, <4>2 DEF Others
    <3>2. Cardinality(Others(s, j, X, l)) \in 1 .. Len(r)
      BY <1>1, <3>1, OthersCounted DEF Exact
    <3>3. q[Cardinality(Others(s, j, X, l))] = r[Cardinality(Others(s, j, X, l))]
      BY <1>1, <1>3, <3>2
    <3>4. QED
      BY <3>1, <3>3 DEF Exact
  <2>3. CASE l > Len(s)
    <3>1. PICK k \in 1 .. Len(e) : l = Len(s) + k
      <4>1. l - Len(s) \in 1 .. Len(e) /\ l = Len(s) + (l - Len(s))
        BY <1>1, <2>1, <2>3
      <4>2. QED
        BY <4>1
    <3>2. Cardinality(Others(t, j, X, l)) = Len(r) + k
      BY <1>5, <3>1
    <3>3. q[Len(r) + k] = e[k] /\ t[l] = e[k]
      <4>1. Len(r) + k \in 1 .. Len(r) + Len(e) /\ ~(Len(r) + k <= Len(r)) /\ Len(r) + k - Len(r) = k
        BY <1>1
      <4>2. Len(s) + k \in 1 .. Len(s) + Len(e) /\ ~(Len(s) + k <= Len(s)) /\ Len(s) + k - Len(s) = k
        BY <1>1
      <4>3. QED
        BY <1>2, <1>3, <3>1, <4>1, <4>2
    <3>4. QED
      BY <3>2, <3>3
  <2>4. QED
    BY <1>1, <2>1, <2>2, <2>3
<1>8. QED
  BY <1>6, <1>7 DEF Exact, t, q
-----------------------------------------------------------------------------
(* The slots are numbered from 1, and the scan stays among them.            *)
LEMMA Sizes ==
  /\ Slots \subseteq Nat \ {0} /\ 1 \in Slots
  /\ \A i \in Slots : (IF i = MaxSlots THEN 1 ELSE i + 1) \in Slots
BY ServersAssumption DEF Slots

(* Where the server finds an empty slot.                                    *)
LEMMA FirstEmptyIs ==
  ASSUME Empty # {}
  PROVE  FirstEmpty \in Slots /\ slot[FirstEmpty] = Stdin
<1>1. Empty \subseteq Nat
  BY Sizes DEF Empty
<1>2. \E i \in Empty : \A j \in Empty : i <= j
  BY <1>1, LeastExists
<1>3. FirstEmpty \in Empty
  BY <1>2 DEF FirstEmpty
<1>4. QED
  BY <1>3 DEF Empty

(* What a send makes of a connection.                                       *)
LEMMA SentIs ==
  ASSUME NetTypeOK, NEW c \in Clients
  PROVE  /\ Sent(c) \in ConnState /\ (Sent(c) = "open" <=> conn[c] = "open")
         /\ (Sent(c) = "none" <=> conn[c] = "none") /\ (WasReset(c) => Sent(c) \in {"rst", "broken"})
  BY DEF NetTypeOK, ConnState, Sent, WasReset

(* Whose messages a client is not sent: of select.c its own.  In these words *)
(* DeliveryExact is what the lemmas above are about.                        *)
Unheard(c) == {x \in {c} : program = "select"}

LEMMA DueIs ==
  ASSUME TypeOK, NEW c, NEW k
  PROVE  Due(c, k) = Others(log, joined[c], Unheard(c), k)
<1>1. program = "poll_try" <=> ~(program = "select")
  BY DEF TypeOK
<1>2. QED
  BY <1>1 DEF Due, Others, Unheard

LEMMA DeliveryIs ==
  ASSUME TypeOK
  PROVE  DeliveryExact <=>
           \A c \in Clients : pc # "dead" /\ Tracked(c) /\ conn[c] = "open" =>
             Exact(received[c], log, joined[c], Unheard(c))
BY DueIs DEF DeliveryExact, Exact

LEMMA DueIsNext ==
  ASSUME TypeOK', NEW c, NEW k
  PROVE  Due(c, k)' = Others(log', joined'[c], Unheard(c)', k)
<1>1. program' = "poll_try" <=> ~(program' = "select")
  BY DEF TypeOK
<1>2. QED
  BY <1>1 DEF Due, Others, Unheard

LEMMA DeliveryIsNext ==
  ASSUME TypeOK'
  PROVE  DeliveryExact' <=>
           \A c \in Clients : pc' # "dead" /\ Tracked(c)' /\ conn'[c] = "open" =>
             Exact(received'[c], log', joined'[c], Unheard(c)')
<1>1. \A c \in Clients : \A k : Due(c, k)' = Others(log', joined'[c], Unheard(c)', k)
  BY DueIsNext
<1>2. ASSUME NEW c \in Clients
      PROVE  Exact(received'[c], log', joined'[c], Unheard(c)') <=>
               /\ Len(received'[c]) = Cardinality(Due(c, Len(log))')
               /\ \A l \in Due(c, Len(log))' : received'[c][Cardinality(Due(c, l)')] = log'[l]
  BY <1>1 DEF Exact
<1>3. QED
  BY <1>2 DEF DeliveryExact
-----------------------------------------------------------------------------
(* A broadcast keeps the types.                                             *)
LEMMA BroadcastTypes ==
  ASSUME TypeOK, NEW data \in Seq(Msgs), NEW net \in [Clients -> ConnState], Broadcast(data, net)
  PROVE  /\ received' \in [Clients -> Seq(Entries)] /\ conn' \in [Clients -> ConnState]
         /\ log' \in Seq(Entries) /\ at' \in Slots /\ pc' \in {"wait", "scan", "dead"}
<1> DEFINE entries == [k \in 1 .. Len(data) |-> [from |-> slot[at], msg |-> data[k]]]
<1>1. entries \in Seq(Entries)
  <2>1. \A k \in 1 .. Len(data) : [from |-> slot[at], msg |-> data[k]] \in Entries
    BY DEF TypeOK, Entries
  <2>2. QED
    BY <2>1
<1>2. log' = log \o entries /\ at' \in Slots /\ pc' \in {"wait", "scan", "dead"}
  BY Sizes DEF Broadcast, TypeOK
<1>3. /\ \A c \in Clients : received'[c] \in {received[c], received[c] \o entries}
      /\ received' = [c \in Clients |-> received'[c]]
  <2> HIDE DEF entries
  <2>1. PICK members : received' = [c \in Clients |-> IF c \in members /\ net[c] = "open"
                                                      THEN received[c] \o entries ELSE received[c]]
    BY DEF Broadcast, entries
  <2>2. QED
    BY <2>1
<1>4. conn' \in [Clients -> ConnState]
  <2>1. PICK members : conn' = [c \in Clients |->
           IF c \in members /\ net[c] = "fin" THEN "finSent"
           ELSE IF c \in members /\ net[c] = "rst" THEN "broken" ELSE net[c]]
    BY DEF Broadcast
  <2>2. QED
    BY <2>1 DEF ConnState
<1> HIDE DEF entries
<1>5. \A c \in Clients : received[c] \in Seq(Entries) /\ received[c] \o entries \in Seq(Entries)
  BY <1>1 DEF TypeOK
<1>6. log' \in Seq(Entries)
  BY <1>1, <1>2 DEF TypeOK
<1>7. QED
  BY <1>2, <1>3, <1>4, <1>5, <1>6

(* Everybody that a broadcast is for is sent the same entries, and who is    *)
(* not in the table nothing.  What is sent in the name of a client it has    *)
(* typed, or else its connection was reset.  (net: the connections after     *)
(* the read, as in Broadcast.)                                              *)
LEMMA Broadcasts ==
  ASSUME IInv, NEW data \in Seq(Msgs), NEW net \in [Clients -> ConnState], Broadcast(data, net),
         pc = "scan", TypeOK', UNCHANGED <<program, slot, backlog, joined, forgotten>>,
         \A c \in Clients : /\ (net[c] = "open" => conn[c] = "open") /\ (net[c] = "none" => conn[c] = "none")
                            /\ (conn[c] = "none" => net[c] = "none")
                            /\ (WasReset(c) => net[c] \in {"rst", "broken"}),
         \/ slot[at] \notin Clients \/ WasReset(slot[at])
         \/ \A k \in 1 .. Len(data) : data[k][1] = slot[at]
  PROVE  OneSlotEach' /\ QueueInv' /\ TypedByTheSender' /\ LogInv'
<1> DEFINE entries == [k \in 1 .. Len(data) |-> [from |-> slot[at], msg |-> data[k]]]
           broken == {i \in Targets : net[slot[i]] = "broken"}
           members == {slot[i] : i \in {j \in Targets : \A b \in broken : j < b}}
<1>1. /\ received' = [c \in Clients |-> IF c \in members /\ net[c] = "open"
                                        THEN received[c] \o entries ELSE received[c]]
      /\ conn' = [c \in Clients |->
           IF c \in members /\ net[c] = "fin" THEN "finSent"
           ELSE IF c \in members /\ net[c] = "rst" THEN "broken" ELSE net[c]]
      /\ log' = log \o entries
      /\ at' = IF at = MaxSlots THEN 1 ELSE at + 1
      /\ pc' = IF broken # {} THEN "dead" ELSE IF at = MaxSlots THEN "wait" ELSE "scan"
  BY DEF Broadcast
<1>2. at \in Slots /\ slot[at] \in Clients \cup {Stdin} /\ Stdin \notin Clients
  BY ServersAssumption DEF IInv, TypeOK, Stdin
<1>3. entries \in Seq(Entries) /\ Len(entries) = Len(data) /\ Len(data) \in Nat
      /\ \A k \in 1 .. Len(entries) : entries[k].from = slot[at] /\ entries[k].msg = data[k]
  <2>1. \A k \in 1 .. Len(data) : [from |-> slot[at], msg |-> data[k]] \in Entries
    BY <1>2 DEF Entries
  <2>2. QED
    BY <2>1
<1>4. Targets \subseteq Slots /\ \A i \in Targets : slot[i] # Stdin
  BY DEF Targets, SelectTargets, PollTargets
<1>5. \A c \in members : Tracked(c)
  BY <1>4 DEF Tracked
<1>6. broken = {} => \A i \in Targets : slot[i] \in members
  OBVIOUS
<1>7. program = "select" => slot[at] \notin members
  BY DEF Targets, SelectTargets
<1>8. \A c \in Clients, i \in Slots :
         slot[i] = c /\ (program = "select" => c # slot[at]) => i \in Targets
  BY <1>2 DEF Targets, SelectTargets, PollTargets
<1>9. pc' # "dead" => broken = {}
  BY <1>1
<1> HIDE DEF entries, broken, members
<1>10. ASSUME NEW c \in Clients
       PROVE  /\ (conn'[c] = "open" => conn[c] = "open" /\ net[c] = "open") /\ (conn'[c] = "none" <=> conn[c] = "none")
              /\ (WasReset(c) => conn'[c] \in {"rst", "broken"})
              /\ (~Tracked(c) => received'[c] = received[c])
  <2>1. ~Tracked(c) => received'[c] = received[c]
    BY <1>1, <1>5
  <2>2. conn'[c] \in {net[c], "finSent", "broken"} /\ (conn'[c] = net[c] \/ net[c] \in {"fin", "rst"})
        /\ (net[c] = "rst" => conn'[c] \in {"rst", "broken"})
    BY <1>1
  <2>3. QED
    BY <2>1, <2>2
<1>11. \A c : Tracked(c)' <=> Tracked(c)
  BY DEF Tracked
<1>12. OneSlotEach'
  <2>1. \A c \in forgotten : ~Tracked(c)' /\ received'[c] = <<>>
    <3>1. forgotten \subseteq Clients
      BY DEF IInv, TypeOK
    <3>2. QED
      BY <1>10, <1>11, <3>1 DEF IInv, OneSlotEach
  <2>2. QED
    BY <2>1 DEF IInv, OneSlotEach
<1>13. QueueInv'
  <2>1. \A k \in 1 .. Len(backlog) : backlog[k] \in Clients
    BY DEF IInv, TypeOK, NetTypeOK
  <2>2. \A k \in 1 .. Len(backlog) :
          /\ ~Tracked(backlog[k])' /\ backlog[k] \notin forgotten
          /\ conn'[backlog[k]] # "none" /\ received'[backlog[k]] = <<>>
    BY <1>10, <1>11, <2>1 DEF IInv, QueueInv
  <2>3. \A c \in Clients : conn'[c] = "none" => ~Tracked(c)' /\ c \notin forgotten /\ received'[c] = <<>>
    BY <1>10, <1>11 DEF IInv, QueueInv
  <2>4. \A k, l \in 1 .. Len(backlog) : backlog[k] = backlog[l] => k = l
    BY DEF IInv, QueueInv
  <2>5. pc' # "accept"
    BY <1>1
  <2>6. QED
    BY <2>2, <2>3, <2>4, <2>5 DEF QueueInv
<1>14. /\ log \in Seq(Entries) /\ Len(log) \in Nat /\ Len(log') = Len(log) + Len(entries)
       /\ \A k \in DOMAIN log' : \/ k \in DOMAIN log /\ log'[k] = log[k]
                                 \/ \E m \in 1 .. Len(entries) : log'[k] = entries[m]
  <2>1. log \in Seq(Entries) /\ Len(log) \in Nat /\ DOMAIN log = 1 .. Len(log)
    BY DEF IInv, TypeOK
  <2>2. /\ log' \in Seq(Entries) /\ Len(log') = Len(log) + Len(entries) /\ DOMAIN log' = 1 .. Len(log) + Len(entries)
        /\ \A k \in 1 .. Len(log) + Len(entries) :
             log'[k] = IF k <= Len(log) THEN log[k] ELSE entries[k - Len(log)]
    <3>1. PICK s \in Seq(Entries) : s = log
      BY <2>1
    <3>2. log' = s \o entries
      BY <1>1, <3>1
    <3>3. entries \in Seq(Entries)
      BY <1>3
    <3>4. QED
      BY <3>1, <3>2, <3>3, Appended
  <2>3. \A k \in 1 .. Len(log) + Len(entries) : k <= Len(log) \/ k - Len(log) \in 1 .. Len(entries)
    BY <1>3, <2>1
  <2>4. \A k \in DOMAIN log' : k \in 1 .. Len(log) + Len(entries)
    BY <2>2
  <2>5. QED
    BY <2>1, <2>2, <2>3, <2>4
<1>15. TypedByTheSender'
  <2> SUFFICES ASSUME NEW k \in DOMAIN log', log'[k].from \in Clients, log'[k].msg[1] # log'[k].from
               PROVE  conn'[log'[k].from] \in {"rst", "broken"}
    BY <1>2 DEF TypedByTheSender, WasReset
  <2>1. CASE k \in DOMAIN log /\ log'[k] = log[k]
    <3>1. WasReset(log[k].from)
      BY <2>1 DEF IInv, AuthorInv, TypedByTheSender
    <3>2. QED
      BY <1>10, <2>1, <3>1
  <2>2. CASE \E m \in 1 .. Len(entries) : log'[k] = entries[m]
    <3>1. PICK m \in 1 .. Len(data) : log'[k].from = slot[at] /\ log'[k].msg = data[m]
      BY <1>3, <2>2
    <3>2. WasReset(slot[at])
      BY <3>1
    <3>3. QED
      BY <1>10, <3>1, <3>2
  <2>3. QED
    BY <1>14, <2>1, <2>2
<1>16. LogInv'
  <2>1. \A c \in Clients : joined[c] \in Nat /\ joined[c] <= Len(log) /\ joined'[c] = joined[c]
                           /\ received[c] \in Seq(Entries)
    BY DEF IInv, LogInv, TypeOK
  <2>2. \A c \in Clients : joined'[c] <= Len(log')
    BY <1>3, <1>14, <2>1
  <2>3. ASSUME NEW c \in Clients, pc' # "dead", Tracked(c)', conn'[c] = "open"
        PROVE  Exact(received'[c], log', joined'[c], Unheard(c)')
    <3>1. Tracked(c) /\ conn[c] = "open" /\ net[c] = "open" /\ broken = {} /\ pc # "dead"
      BY <1>9, <1>10, <1>11, <2>3
    <3>2. Exact(received[c], log, joined[c], Unheard(c)) /\ Unheard(c)' = Unheard(c)
      BY <3>1, DeliveryIs DEF IInv, LogInv, Unheard
    <3>3. CASE program = "select" /\ c = slot[at]
      <4>1. received'[c] = received[c] /\ log' = log \o entries
        BY <1>1, <1>7, <3>3
      <4>2. \A k \in 1 .. Len(entries) : entries[k].from \in Unheard(c)
        BY <1>3, <3>3 DEF Unheard
      <4>3. Exact(received[c], log \o entries, joined[c], Unheard(c))
        BY <1>3, <1>14, <2>1, <3>2, <4>2, ExactOwn
      <4>4. QED
        BY <2>1, <3>2, <4>1, <4>3
    <3>4. CASE ~(program = "select" /\ c = slot[at])
      <4>1. PICK i \in Slots : slot[i] = c
        BY <3>1 DEF Tracked
      <4>2. c \in members
        BY <1>6, <1>8, <3>1, <3>4, <4>1
      <4>3. received'[c] = received[c] \o entries /\ log' = log \o entries
        BY <1>1, <3>1, <4>2
      <4>4. \A k \in 1 .. Len(entries) : entries[k].from \notin Unheard(c)
        BY <1>3, <3>4 DEF Unheard
      <4>5. Exact(received[c] \o entries, log \o entries, joined[c], Unheard(c))
        BY <1>3, <1>14, <2>1, <3>2, <4>4, ExactOther
      <4>6. QED
        BY <2>1, <3>2, <4>3, <4>5
    <3>5. QED
      BY <3>3, <3>4
  <2>4. DeliveryExact'
    BY <2>3, DeliveryIsNext
  <2>5. QED
    BY <2>2, <2>4 DEF LogInv
<1>17. QED
  BY <1>12, <1>13, <1>15, <1>16
-----------------------------------------------------------------------------
(* A read that returns data.                                                *)
LEMMA ReadClientStep ==
  ASSUME IInv, ReadClient
  PROVE  IInv'
<1>1. /\ pc = "scan" /\ at \in Slots /\ slot[at] \in Clients
      /\ UNCHANGED <<program, slot, armed, ready, typed, joined, forgotten, sends, backlog>>
  BY DEF ReadClient, IInv, TypeOK
<1>2. PICK c \in Clients : c = slot[at]
  BY <1>1
<1>3. PICK n \in 1 .. Len(inq[c]) :
        /\ inq' = [inq EXCEPT ![c] = SubSeq(@, n + 1, Len(@))]
        /\ buffer' = SubSeq(inq[c], 1, n)
        /\ Broadcast(SubSeq(inq[c], 1, n), conn)
  BY <1>2 DEF ReadClient
<1>4. inq[c] \in Seq(Msgs) /\ Len(inq[c]) \in Nat /\ \A k \in 1 .. Len(inq[c]) : inq[c][k][1] = c
  BY DEF IInv, TypeOK, NetTypeOK, AuthorInv, TypedByItself
<1>5. /\ SubSeq(inq[c], 1, n) \in Seq(Msgs)
      /\ \A k \in 1 .. Len(SubSeq(inq[c], 1, n)) : SubSeq(inq[c], 1, n)[k][1] = c
  <2>1. \A k \in 1 .. n : inq[c][k] \in Msgs
    BY <1>4
  <2>2. /\ Len(SubSeq(inq[c], 1, n)) = n
        /\ \A k \in 1 .. n : SubSeq(inq[c], 1, n)[k] = inq[c][k]
    BY <1>4
  <2>3. SubSeq(inq[c], 1, n) \in Seq(Msgs)
    BY <1>4, <2>1, SubSeqProperties
  <2>4. QED
    BY <1>4, <2>2, <2>3
<1>6. /\ SubSeq(inq[c], n + 1, Len(inq[c])) \in Seq(Msgs)
      /\ \A k \in 1 .. Len(SubSeq(inq[c], n + 1, Len(inq[c]))) :
           SubSeq(inq[c], n + 1, Len(inq[c]))[k][1] = c
  <2>1. \A k \in n + 1 .. Len(inq[c]) : inq[c][k] \in Msgs
    BY <1>4
  <2>2. /\ Len(SubSeq(inq[c], n + 1, Len(inq[c]))) = Len(inq[c]) - n
        /\ \A k \in 1 .. Len(inq[c]) - n : SubSeq(inq[c], n + 1, Len(inq[c]))[k] = inq[c][k + n]
    BY <1>4
  <2>3. \A k \in 1 .. Len(inq[c]) - n : k + n \in 1 .. Len(inq[c])
    BY <1>4
  <2>4. SubSeq(inq[c], n + 1, Len(inq[c])) \in Seq(Msgs)
    BY <1>4, <2>1, SubSeqProperties
  <2>5. QED
    BY <1>4, <2>2, <2>3, <2>4
<1>7. conn \in [Clients -> ConnState] /\ \A x \in Clients : WasReset(x) => conn[x] \in {"rst", "broken"}
  BY DEF IInv, TypeOK, NetTypeOK, WasReset
<1>8. /\ received' \in [Clients -> Seq(Entries)] /\ conn' \in [Clients -> ConnState]
      /\ log' \in Seq(Entries) /\ at' \in Slots /\ pc' \in {"wait", "scan", "dead"}
  BY <1>3, <1>5, <1>7, BroadcastTypes DEF IInv
<1>9. inq' \in [Clients -> Seq(Msgs)] /\ TypedByItself'
  BY <1>3, <1>6 DEF IInv, TypeOK, NetTypeOK, AuthorInv, TypedByItself
<1>10. TypeOK'
  BY <1>1, <1>3, <1>5, <1>8, <1>9 DEF IInv, TypeOK, NetTypeOK
<1>11. OneSlotEach' /\ QueueInv' /\ TypedByTheSender' /\ LogInv'
  BY <1>1, <1>2, <1>3, <1>5, <1>7, <1>10, Broadcasts
<1>12. QED
  BY <1>9, <1>10, <1>11 DEF IInv, AuthorInv

(* A line of the operator, of poll_try.c.                                   *)
LEMMA ReadStdinStep ==
  ASSUME IInv, ReadStdin
  PROVE  IInv'
<1>1. /\ pc = "scan" /\ slot[at] \notin Clients /\ typed > 0 /\ typed' = typed - 1 /\ buffer' = <<Line>>
      /\ Broadcast(<<Line>>, conn)
      /\ UNCHANGED <<program, slot, armed, ready, joined, forgotten, inq, sends, backlog>>
  BY ServersAssumption DEF ReadStdin, Stdin
<1>2. <<Line>> \in Seq(Msgs)
  BY DEF Msgs
<1>3. conn \in [Clients -> ConnState] /\ \A x \in Clients : WasReset(x) => conn[x] \in {"rst", "broken"}
  BY DEF IInv, TypeOK, NetTypeOK, WasReset
<1>4. /\ received' \in [Clients -> Seq(Entries)] /\ conn' \in [Clients -> ConnState]
      /\ log' \in Seq(Entries) /\ at' \in Slots /\ pc' \in {"wait", "scan", "dead"}
  BY <1>1, <1>2, <1>3, BroadcastTypes DEF IInv
<1>5. typed' \in 0 .. StdinLines
  BY <1>1, ServersAssumption DEF IInv, TypeOK
<1>6. TypeOK'
  BY <1>1, <1>2, <1>4, <1>5 DEF IInv, TypeOK, NetTypeOK
<1>7. OneSlotEach' /\ QueueInv' /\ TypedByTheSender' /\ LogInv'
  BY <1>1, <1>2, <1>3, <1>6, Broadcasts
<1>8. TypedByItself'
  BY <1>1 DEF IInv, AuthorInv, TypedByItself
<1>9. QED
  BY <1>6, <1>7, <1>8 DEF IInv, AuthorInv

(* A read that fails sends what the buffer held in the name of a client that *)
(* was reset.                                                               *)
LEMMA ReadErrorStep ==
  ASSUME IInv, ReadError
  PROVE  IInv'
<1> DEFINE net == [conn EXCEPT ![slot[at]] = "broken"]
<1>1. /\ pc = "scan" /\ slot[at] \in Clients /\ conn[slot[at]] = "rst" /\ Broadcast(buffer, net)
      /\ UNCHANGED <<program, slot, armed, ready, buffer, typed, joined, forgotten, inq, sends, backlog>>
  BY DEF ReadError, HasError, IInv, TypeOK
<1>2. conn \in [Clients -> ConnState] /\ "broken" \in ConnState /\ buffer \in Seq(Msgs)
  BY DEF IInv, TypeOK, NetTypeOK, ConnState
<1>3. WasReset(slot[at])
  BY <1>1, ServersAssumption DEF WasReset, Stdin
<1>4. /\ net \in [Clients -> ConnState]
      /\ \A c \in Clients : /\ (net[c] = "open" => conn[c] = "open") /\ (net[c] = "none" => conn[c] = "none")
                            /\ (conn[c] = "none" => net[c] = "none")
                            /\ (WasReset(c) => net[c] \in {"rst", "broken"})
  BY <1>1, <1>2 DEF WasReset
<1> HIDE DEF net
<1>5. /\ received' \in [Clients -> Seq(Entries)] /\ conn' \in [Clients -> ConnState]
      /\ log' \in Seq(Entries) /\ at' \in Slots /\ pc' \in {"wait", "scan", "dead"}
  BY <1>1, <1>2, <1>4, BroadcastTypes DEF IInv
<1>6. TypeOK'
  BY <1>1, <1>5 DEF IInv, TypeOK, NetTypeOK
<1>7. OneSlotEach' /\ QueueInv' /\ TypedByTheSender' /\ LogInv'
  BY <1>1, <1>2, <1>3, <1>4, <1>6, Broadcasts
<1>8. TypedByItself'
  BY <1>1 DEF IInv, AuthorInv, TypedByItself
<1>9. QED
  BY <1>6, <1>7, <1>8 DEF IInv, AuthorInv
-----------------------------------------------------------------------------
(* Nobody is sent anything, and nobody comes into the table.                *)
LEMMA LogKept ==
  ASSUME TypeOK, TypeOK', LogInv, UNCHANGED <<program, received, log, joined>>, pc' # "dead" => pc # "dead",
         \A c \in Clients : Tracked(c)' /\ conn'[c] = "open" => Tracked(c) /\ conn[c] = "open"
  PROVE  LogInv'
<1>1. \A c \in Clients : Unheard(c)' = Unheard(c)
  BY DEF Unheard
<1>2. ASSUME NEW c \in Clients, pc' # "dead", Tracked(c)', conn'[c] = "open"
      PROVE  Exact(received'[c], log', joined'[c], Unheard(c)')
  <2>1. Exact(received[c], log, joined[c], Unheard(c))
    BY <1>2, DeliveryIs DEF LogInv
  <2>2. QED
    BY <1>1, <2>1
<1>3. DeliveryExact'
  BY <1>2, DeliveryIsNext
<1>4. QED
  BY <1>3 DEF LogInv

(* What was sent in a client's name stays explained while no reset is       *)
(* undone.                                                                  *)
LEMMA AuthorsKept ==
  ASSUME TypeOK, AuthorInv, UNCHANGED <<inq, log>>,
         \A c \in Clients : conn[c] \in {"rst", "broken"} => conn'[c] \in {"rst", "broken"}
  PROVE  AuthorInv'
<1>1. TypedByItself'
  BY DEF AuthorInv, TypedByItself
<1>2. TypedByTheSender'
  BY DEF AuthorInv, TypedByTheSender, WasReset
<1>3. QED
  BY <1>1, <1>2 DEF AuthorInv

(* A step that touches neither the slots nor the connections.               *)
LEMMA QuietStep ==
  ASSUME IInv, TypeOK', pc' # "dead" => pc # "dead", pc' = "accept" /\ 0 \in ready' => backlog # <<>>,
         UNCHANGED <<program, slot, received, log, joined, forgotten, conn, inq, backlog>>
  PROVE  IInv'
<1>1. \A c : Tracked(c)' <=> Tracked(c)
  BY DEF Tracked
<1>2. OneSlotEach'
  BY <1>1 DEF IInv, OneSlotEach
<1>3. QueueInv'
  BY <1>1 DEF IInv, QueueInv
<1>4. AuthorInv'
  BY AuthorsKept DEF IInv
<1>5. LogInv'
  BY <1>1, LogKept DEF IInv
<1>6. QED
  BY <1>2, <1>3, <1>4, <1>5 DEF IInv

(* select and poll return.                                                  *)
LEMMA WaitSteps ==
  ASSUME IInv, Select \/ Poll
  PROVE  IInv'
<1>1. /\ pc = "wait" /\ pc' = "accept"
      /\ UNCHANGED <<program, slot, armed, at, buffer, received, typed, log, joined, forgotten,
                     conn, inq, sends, backlog>>
      /\ ready' = SelectReports \cup Listener \/ ready' = PollReports \cup Listener
  BY DEF Select, Poll, netVars
<1>2. SelectReports \subseteq Slots /\ PollReports \subseteq Slots /\ Listener \subseteq {0} /\ 0 \notin Slots
  BY Sizes DEF SelectReports, PollReports, Listener, IInv, TypeOK
<1>3. ready' \subseteq {0} \cup Slots /\ (0 \in ready' => backlog # <<>>)
  BY <1>1, <1>2 DEF Listener
<1>4. TypeOK'
  BY <1>1, <1>3 DEF IInv, TypeOK, NetTypeOK
<1>5. QED
  BY <1>1, <1>3, <1>4, QuietStep

(* Nobody to accept, or nothing to read.                                    *)
LEMMA SkipSteps ==
  ASSUME IInv, NothingToAccept \/ SkipSlot
  PROVE  IInv'
<1>1. /\ pc # "dead" /\ pc' \in {"wait", "scan"} /\ at' \in Slots
      /\ UNCHANGED <<program, slot, armed, ready, buffer, received, typed, log, joined, forgotten,
                     conn, inq, sends, backlog>>
  BY Sizes DEF NothingToAccept, SkipSlot, NextSlot, netVars, IInv, TypeOK
<1>2. TypeOK'
  BY <1>1 DEF IInv, TypeOK, NetTypeOK
<1>3. QED
  BY <1>1, <1>2, QuietStep

(* A slot is emptied.                                                       *)
LEMMA DisconnectStep ==
  ASSUME IInv, Disconnect
  PROVE  IInv'
<1>1. /\ pc = "scan" /\ pc' \in {"wait", "scan"} /\ at \in Slots /\ at' \in Slots
      /\ slot' = [slot EXCEPT ![at] = Stdin]
      /\ UNCHANGED <<program, armed, ready, buffer, received, typed, log, joined, forgotten,
                     conn, inq, sends, backlog>>
  BY Sizes DEF Disconnect, NextSlot, netVars, IInv, TypeOK
<1>2. slot \in [Slots -> Clients \cup {Stdin}] /\ Stdin \notin Clients
  BY ServersAssumption DEF IInv, TypeOK, Stdin
<1>3. TypeOK'
  <2>1. slot' \in [Slots -> Clients \cup {Stdin}]
    BY <1>1, <1>2
  <2>2. QED
    BY <1>1, <2>1 DEF IInv, TypeOK, NetTypeOK
<1>4. \A c \in Clients : Tracked(c)' => Tracked(c)
  BY <1>1, <1>2 DEF Tracked
<1>5. OneSlotEach'
  <2>1. \A i, j \in Slots : slot'[i] = slot'[j] /\ slot'[i] # Stdin => i = j
    BY <1>1, <1>2 DEF IInv, OneSlotEach
  <2>2. forgotten \subseteq Clients
    BY DEF IInv, TypeOK
  <2>3. QED
    BY <1>1, <1>4, <2>1, <2>2 DEF IInv, OneSlotEach
<1>6. QueueInv'
  <2>1. \A k \in 1 .. Len(backlog) : backlog[k] \in Clients
    BY DEF IInv, TypeOK, NetTypeOK
  <2>2. QED
    BY <1>1, <1>4, <2>1 DEF IInv, QueueInv
<1>7. AuthorInv'
  BY <1>1, AuthorsKept DEF IInv
<1>8. LogInv'
  BY <1>1, <1>3, <1>4, LogKept DEF IInv
<1>9. QED
  BY <1>3, <1>5, <1>6, <1>7, <1>8 DEF IInv
-----------------------------------------------------------------------------
(* The client at the head of the queue, and the queue behind it.            *)
LEMMA HeadIs ==
  ASSUME TypeOK, QueueInv, backlog # <<>>
  PROVE  /\ Head(backlog) \in Clients /\ ~Tracked(Head(backlog)) /\ Head(backlog) \notin forgotten
         /\ conn[Head(backlog)] # "none" /\ received[Head(backlog)] = <<>>
         /\ Tail(backlog) \in Seq(Clients)
         /\ \A k \in 1 .. Len(Tail(backlog)) :
              /\ k + 1 \in 1 .. Len(backlog) /\ Tail(backlog)[k] = backlog[k + 1]
              /\ Tail(backlog)[k] \in Clients /\ Tail(backlog)[k] # Head(backlog)
<1>1. backlog \in Seq(Clients) /\ Len(backlog) \in Nat /\ Len(backlog) >= 1
  BY DEF TypeOK, NetTypeOK
<1>2. /\ Tail(backlog) \in Seq(Clients) /\ Len(Tail(backlog)) = Len(backlog) - 1
      /\ \A k \in 1 .. Len(Tail(backlog)) : Tail(backlog)[k] = backlog[k + 1]
  BY <1>1, HeadTailProperties
<1>3. Head(backlog) = backlog[1] /\ 1 \in 1 .. Len(backlog) /\ backlog[1] \in Clients
  BY <1>1
<1>4. \A k \in 1 .. Len(Tail(backlog)) : k + 1 \in 1 .. Len(backlog) /\ k + 1 # 1
  BY <1>1, <1>2
<1>5. \A k \in 1 .. Len(Tail(backlog)) : Tail(backlog)[k] \in Clients
  BY <1>1, <1>2, <1>4
<1>6. \A k \in 1 .. Len(Tail(backlog)) : Tail(backlog)[k] # Head(backlog)
  BY <1>2, <1>3, <1>4 DEF QueueInv
<1>7. QED
  BY <1>2, <1>3, <1>4, <1>5, <1>6 DEF QueueInv

(* What accepting a client does, whether there is an empty slot or not.     *)
LEMMA AdmitStep ==
  ASSUME IInv, NEW c \in Clients, NEW arms \in SUBSET {FirstEmpty}, Admit(c, arms)
  PROVE  IInv'
<1> DEFINE first == FirstEmpty
<1>1. /\ pc = "accept" /\ 0 \in ready /\ c = Head(backlog) /\ backlog' = Tail(backlog)
      /\ conn' = [conn EXCEPT ![c] = Sent(c)] /\ joined' = [joined EXCEPT ![c] = Len(log)]
      /\ pc' = "scan" /\ at' = 1
      /\ UNCHANGED <<program, ready, buffer, received, typed, log, inq, sends>>
      /\ \/ /\ Empty # {} /\ slot' = [slot EXCEPT ![first] = c] /\ armed' = armed \cup arms
            /\ forgotten' = forgotten
         \/ Empty = {} /\ forgotten' = forgotten \cup {c} /\ slot' = slot /\ armed' = armed
  BY DEF Admit
<1>2. /\ backlog # <<>> /\ ~Tracked(c) /\ c \notin forgotten /\ conn[c] # "none" /\ received[c] = <<>>
      /\ Tail(backlog) \in Seq(Clients)
      /\ \A k \in 1 .. Len(Tail(backlog)) :
           /\ k + 1 \in 1 .. Len(backlog) /\ Tail(backlog)[k] = backlog[k + 1]
           /\ Tail(backlog)[k] \in Clients /\ Tail(backlog)[k] # c
  <2>1. backlog # <<>>
    BY <1>1 DEF IInv, QueueInv
  <2>2. QED
    BY <1>1, <2>1, HeadIs DEF IInv
<1>3. Empty # {} => first \in Slots /\ slot[first] = Stdin
  BY FirstEmptyIs
<1>4. slot \in [Slots -> Clients \cup {Stdin}] /\ Stdin \notin Clients /\ c # Stdin
  BY ServersAssumption DEF IInv, TypeOK, Stdin
<1>5. conn \in [Clients -> ConnState] /\ joined \in [Clients -> Nat] /\ Len(log) \in Nat
      /\ Sent(c) \in ConnState /\ (Sent(c) = "open" => conn[c] = "open") /\ Sent(c) # "none"
      /\ (conn[c] \in {"rst", "broken"} => Sent(c) \in {"rst", "broken"})
  <2>1. /\ conn \in [Clients -> ConnState] /\ joined \in [Clients -> Nat] /\ log \in Seq(Entries)
        /\ NetTypeOK
    BY DEF IInv, TypeOK, NetTypeOK
  <2>2. WasReset(c) <=> conn[c] \in {"rst", "broken"}
    BY <1>4 DEF WasReset
  <2>3. Len(log) \in Nat
    BY <2>1
  <2>4. /\ Sent(c) \in ConnState /\ (Sent(c) = "open" <=> conn[c] = "open")
        /\ (Sent(c) = "none" <=> conn[c] = "none") /\ (WasReset(c) => Sent(c) \in {"rst", "broken"})
    BY <2>1, SentIs
  <2>5. QED
    BY <1>2, <2>1, <2>2, <2>3, <2>4
<1>6. arms \subseteq {first}
  OBVIOUS
<1> HIDE DEF first
<1>7. \A x \in Clients : /\ (conn'[x] = "open" => conn[x] = "open") /\ (conn'[x] = "none" <=> conn[x] = "none")
                         /\ (conn[x] \in {"rst", "broken"} => conn'[x] \in {"rst", "broken"})
  BY <1>1, <1>2, <1>5
<1>8. TypeOK'
  <2>1. slot' \in [Slots -> Clients \cup {Stdin}] /\ armed' \subseteq Slots /\ forgotten' \subseteq Clients
    BY <1>1, <1>3, <1>4, <1>6, ZenonT(40) DEF IInv, TypeOK
  <2>2. conn' \in [Clients -> ConnState] /\ joined' \in [Clients -> Nat] /\ at' \in Slots
    BY <1>1, <1>5, Sizes
  <2>3. QED
    BY <1>1, <1>2, <2>1, <2>2 DEF IInv, TypeOK, NetTypeOK
<1>9. \A x \in Clients : x # c => (Tracked(x)' => Tracked(x))
  BY <1>1, <1>3, <1>4 DEF Tracked
<1>10. Tracked(c)' => Empty # {}
  BY <1>1, <1>2 DEF Tracked
<1>11. OneSlotEach'
  <2>1. \A i \in Slots : slot[i] # c
    BY <1>2 DEF Tracked
  <2>2. \A i, j \in Slots : slot'[i] = slot'[j] /\ slot'[i] # Stdin => i = j
    BY <1>1, <1>3, <1>4, <2>1 DEF IInv, OneSlotEach
  <2>3. ASSUME NEW x \in forgotten' PROVE ~Tracked(x)' /\ received'[x] = <<>>
    <3>1. CASE x = c
      BY <1>1, <1>2, <1>10, <3>1
    <3>2. CASE x # c
      <4>1. x \in forgotten /\ x \in Clients
        BY <1>1, <3>2 DEF IInv, TypeOK
      <4>2. QED
        BY <1>1, <1>9, <3>2, <4>1 DEF IInv, OneSlotEach
    <3>3. QED
      BY <3>1, <3>2
  <2>4. QED
    BY <2>2, <2>3 DEF OneSlotEach
<1>12. QueueInv'
  <2>1. \A x \in Clients : x # c => (x \in forgotten' <=> x \in forgotten)
    BY <1>1
  <2>2. ASSUME NEW k \in 1 .. Len(backlog')
        PROVE  /\ \A i \in Slots : slot'[i] # backlog'[k]
               /\ backlog'[k] \notin forgotten'
               /\ conn'[backlog'[k]] # "none" /\ received'[backlog'[k]] = <<>>
    <3>1. PICK x \in Clients : x = backlog'[k] /\ x = backlog[k + 1] /\ x # c /\ k + 1 \in 1 .. Len(backlog)
      BY <1>1, <1>2
    <3>2. ~Tracked(x) /\ x \notin forgotten /\ conn[x] # "none" /\ received[x] = <<>>
      BY <3>1 DEF IInv, QueueInv
    <3>3. ~Tracked(x)' /\ x \notin forgotten' /\ conn'[x] # "none" /\ received'[x] = <<>>
      BY <1>1, <1>7, <1>9, <2>1, <3>1, <3>2
    <3>4. QED
      BY <3>1, <3>3 DEF Tracked
  <2>3. ASSUME NEW k \in 1 .. Len(backlog'), NEW l \in 1 .. Len(backlog'), backlog'[k] = backlog'[l]
        PROVE  k = l
    <3>1. k + 1 = l + 1
      BY <1>1, <1>2, <2>3 DEF IInv, QueueInv
    <3>2. QED
      BY <3>1
  <2>4. ASSUME NEW x \in Clients, conn'[x] = "none"
        PROVE  ~Tracked(x)' /\ x \notin forgotten' /\ received'[x] = <<>>
    <3>1. conn[x] = "none" /\ x # c
      BY <1>2, <1>7, <2>4
    <3>2. QED
      BY <1>1, <1>9, <2>1, <3>1 DEF IInv, QueueInv
  <2>5. QED
    BY <1>1, <2>2, <2>3, <2>4 DEF QueueInv, Tracked
<1>13. AuthorInv'
  BY <1>1, <1>7, AuthorsKept DEF IInv
<1>14. LogInv'
  <2>1. \A x \in Clients : joined'[x] = IF x = c THEN Len(log) ELSE joined[x]
    BY <1>1, <1>5
  <2>2. log \in Seq(Entries)
    BY DEF IInv, TypeOK
  <2>3. Exact(received'[c], log', joined'[c], Unheard(c)')
    <3>1. Exact(<<>>, log, Len(log), Unheard(c)')
      BY <2>2, ExactStarts
    <3>2. QED
      BY <1>1, <1>2, <2>1, <3>1
  <2>4. ASSUME NEW x \in Clients, x # c, pc' # "dead", Tracked(x)', conn'[x] = "open"
        PROVE  Exact(received'[x], log', joined'[x], Unheard(x)')
    <3>1. Tracked(x) /\ conn[x] = "open" /\ pc # "dead"
      BY <1>1, <1>7, <1>9, <2>4
    <3>2. Exact(received[x], log, joined[x], Unheard(x)) /\ Unheard(x)' = Unheard(x)
      BY <1>1, <3>1, DeliveryIs DEF IInv, LogInv, Unheard
    <3>3. QED
      BY <1>1, <2>1, <2>4, <3>2
  <2>5. DeliveryExact'
    BY <1>8, <2>3, <2>4, DeliveryIsNext
  <2>6. \A x \in Clients : joined'[x] <= Len(log')
    BY <1>1, <1>5, <2>1 DEF IInv, LogInv
  <2>7. QED
    BY <2>5, <2>6 DEF LogInv
<1>15. QED
  BY <1>8, <1>11, <1>12, <1>13, <1>14 DEF IInv
-----------------------------------------------------------------------------
(* The clients.                                                             *)
LEMMA ConnectStep ==
  ASSUME IInv, NEW c \in Clients, Connect(c), UNCHANGED serverVars
  PROVE  IInv'
<1>1. /\ conn[c] = "none" /\ conn' = [conn EXCEPT ![c] = "open"] /\ backlog' = Append(backlog, c)
      /\ UNCHANGED <<program, slot, armed, ready, pc, at, buffer, received, typed, log, joined, forgotten,
                     inq, sends>>
  BY DEF Connect, serverVars
<1>2. conn \in [Clients -> ConnState] /\ "open" \in ConnState /\ backlog \in Seq(Clients) /\ Len(backlog) \in Nat
  BY DEF IInv, TypeOK, NetTypeOK, ConnState
<1>3. /\ backlog' \in Seq(Clients) /\ Len(backlog') = Len(backlog) + 1 /\ backlog' # <<>>
      /\ backlog'[Len(backlog) + 1] = c /\ \A k \in 1 .. Len(backlog) : backlog'[k] = backlog[k]
  BY <1>1, <1>2, AppendProperties
<1>4. TypeOK'
  <2>1. conn' \in [Clients -> ConnState]
    BY <1>1, <1>2
  <2>2. QED
    BY <1>1, <1>3, <2>1 DEF IInv, TypeOK, NetTypeOK
<1>5. /\ ~Tracked(c) /\ c \notin forgotten /\ received[c] = <<>>
      /\ \A k \in 1 .. Len(backlog) : backlog[k] # c
  BY <1>1 DEF IInv, QueueInv
<1>6. \A x : Tracked(x)' <=> Tracked(x)
  BY <1>1 DEF Tracked
<1>7. conn'[c] = "open" /\ \A x \in Clients : x # c => conn'[x] = conn[x]
  BY <1>1, <1>2
<1>8. OneSlotEach'
  BY <1>1, <1>6 DEF IInv, OneSlotEach
<1>9. QueueInv'
  <2>1. \A k \in 1 .. Len(backlog') : k \in 1 .. Len(backlog) \/ k = Len(backlog) + 1
    BY <1>2, <1>3
  <2>2. \A k \in 1 .. Len(backlog) : backlog[k] \in Clients
    BY <1>2
  <2>3. \A k \in 1 .. Len(backlog') :
          /\ ~Tracked(backlog'[k]) /\ backlog'[k] \notin forgotten
          /\ conn'[backlog'[k]] # "none" /\ received[backlog'[k]] = <<>>
    <3>1. TAKE k \in 1 .. Len(backlog')
    <3>2. CASE k \in 1 .. Len(backlog)
      <4>1. PICK x \in Clients : x = backlog[k] /\ x = backlog'[k] /\ x # c
        BY <1>3, <1>5, <2>2, <3>2
      <4>2. QED
        BY <1>7, <3>2, <4>1 DEF IInv, QueueInv
    <3>3. CASE k = Len(backlog) + 1
      BY <1>3, <1>5, <1>7, <3>3
    <3>4. QED
      BY <2>1, <3>2, <3>3
  <2>4. \A k, l \in 1 .. Len(backlog') : backlog'[k] = backlog'[l] => k = l
    BY <1>3, <1>5, <2>1 DEF IInv, QueueInv
  <2>5. \A x \in Clients : conn'[x] = "none" => ~Tracked(x) /\ x \notin forgotten /\ received[x] = <<>>
    BY <1>7 DEF IInv, QueueInv
  <2>6. QED
    BY <1>1, <1>3, <1>6, <2>3, <2>4, <2>5 DEF QueueInv
<1>10. AuthorInv'
  BY <1>1, <1>7, AuthorsKept DEF IInv
<1>11. LogInv'
  <2>1. \A x \in Clients : Tracked(x)' /\ conn'[x] = "open" => Tracked(x) /\ conn[x] = "open"
    BY <1>5, <1>6, <1>7
  <2>2. QED
    BY <1>1, <1>4, <2>1, LogKept DEF IInv
<1>12. QED
  BY <1>4, <1>8, <1>9, <1>10, <1>11 DEF IInv

(* A client sends a message.                                                *)
LEMMA TypeStep ==
  ASSUME IInv, NEW c \in Clients, Type(c), UNCHANGED serverVars
  PROVE  IInv'
<1> DEFINE line == <<c, sends[c] + 1>>
<1>1. /\ sends[c] < MaxSends /\ sends' = [sends EXCEPT ![c] = @ + 1]
      /\ inq' = [inq EXCEPT ![c] = Append(@, line)]
      /\ UNCHANGED <<program, slot, armed, ready, pc, at, buffer, received, typed, log, joined, forgotten,
                     conn, backlog>>
  BY DEF Type, serverVars
<1>2. inq \in [Clients -> Seq(Msgs)] /\ sends \in [Clients -> 0 .. MaxSends] /\ MaxSends \in Nat
  BY ClientsAssumption DEF IInv, TypeOK, NetTypeOK
<1>3. sends[c] + 1 \in 1 .. MaxSends
  BY <1>1, <1>2
<1>4. line \in Msgs /\ line[1] = c
  BY <1>3 DEF Msgs
<1> HIDE DEF line
<1>5. inq[c] \in Seq(Msgs) /\ Len(inq[c]) \in Nat
  BY <1>2
<1>6. /\ Append(inq[c], line) \in Seq(Msgs) /\ Len(Append(inq[c], line)) = Len(inq[c]) + 1
      /\ Append(inq[c], line)[Len(inq[c]) + 1] = line
      /\ \A k \in 1 .. Len(inq[c]) : Append(inq[c], line)[k] = inq[c][k]
  BY <1>4, <1>5, AppendProperties
<1>7. inq' \in [Clients -> Seq(Msgs)] /\ sends' \in [Clients -> 0 .. MaxSends]
  BY <1>1, <1>2, <1>3, <1>6
<1>8. TypeOK'
  BY <1>1, <1>7 DEF IInv, TypeOK, NetTypeOK
<1>9. \A x : Tracked(x)' <=> Tracked(x)
  BY <1>1 DEF Tracked
<1>10. OneSlotEach' /\ QueueInv'
  BY <1>1, <1>9 DEF IInv, OneSlotEach, QueueInv
<1>11. AuthorInv'
  <2>1. ASSUME NEW x \in Clients, NEW k \in 1 .. Len(inq'[x]) PROVE inq'[x][k][1] = x
    <3>1. CASE x # c
      BY <1>1, <1>2, <2>1, <3>1 DEF IInv, AuthorInv, TypedByItself
    <3>2. CASE x = c
      <4>1. inq'[x] = Append(inq[c], line)
        BY <1>1, <1>2, <3>2
      <4>2. k \in 1 .. Len(inq[c]) \/ k = Len(inq[c]) + 1
        BY <1>5, <1>6, <4>1
      <4>3. \A m \in 1 .. Len(inq[c]) : inq[c][m][1] = c
        BY DEF IInv, AuthorInv, TypedByItself
      <4>4. QED
        BY <1>4, <1>6, <3>2, <4>1, <4>2, <4>3
    <3>3. QED
      BY <3>1, <3>2
  <2>2. TypedByTheSender'
    BY <1>1 DEF IInv, AuthorInv, TypedByTheSender, WasReset
  <2>3. QED
    BY <2>1, <2>2 DEF AuthorInv, TypedByItself
<1>12. LogInv'
  BY <1>1, <1>8, <1>9, LogKept DEF IInv
<1>13. QED
  BY <1>8, <1>10, <1>11, <1>12 DEF IInv

(* A client closes its socket, or its connection is reset.                  *)
LEMMA LeaveStep ==
  ASSUME IInv, NEW c \in Clients, ClientClose(c) \/ ClientReset(c) \/ ResetArrives(c), UNCHANGED serverVars
  PROVE  IInv'
<1>1. /\ conn[c] \in {"open", "finSent"} /\ \E to \in {"fin", "rst", "broken"} : conn' = [conn EXCEPT ![c] = to]
      /\ UNCHANGED <<program, slot, armed, ready, pc, at, buffer, received, typed, log, joined, forgotten,
                     inq, sends, backlog>>
  BY DEF ClientClose, ClientReset, ResetArrives, serverVars
<1>2. /\ conn' \in [Clients -> ConnState]
      /\ \A x \in Clients : /\ (conn'[x] = "none" <=> conn[x] = "none") /\ (conn'[x] = "open" => conn[x] = "open")
                            /\ (conn[x] \in {"rst", "broken"} => conn'[x] \in {"rst", "broken"})
  <2>1. conn \in [Clients -> ConnState] /\ {"fin", "rst", "broken"} \subseteq ConnState
    BY DEF IInv, TypeOK, NetTypeOK, ConnState
  <2>2. QED
    BY <1>1, <2>1
<1>3. TypeOK'
  BY <1>1, <1>2 DEF IInv, TypeOK, NetTypeOK
<1>4. \A x : Tracked(x)' <=> Tracked(x)
  BY <1>1 DEF Tracked
<1>5. OneSlotEach'
  BY <1>1, <1>4 DEF IInv, OneSlotEach
<1>6. QueueInv'
  <2>1. \A k \in 1 .. Len(backlog) : backlog[k] \in Clients
    BY DEF IInv, TypeOK, NetTypeOK
  <2>2. QED
    BY <1>1, <1>2, <1>4, <2>1 DEF IInv, QueueInv
<1>7. AuthorInv'
  BY <1>1, <1>2, AuthorsKept DEF IInv
<1>8. LogInv'
  BY <1>1, <1>2, <1>3, <1>4, LogKept DEF IInv
<1>9. QED
  BY <1>3, <1>5, <1>6, <1>7, <1>8 DEF IInv
-----------------------------------------------------------------------------
(* At the beginning all slots are empty and nobody is connected.            *)
LEMMA Start == Init => IInv
<1> SUFFICES ASSUME Init PROVE IInv
  OBVIOUS
<1> USE DEF Init, NetInit
<1>1. Stdin \notin Clients
  BY ServersAssumption DEF Stdin
<1>2. TypeOK
  <2>1. <<Garbage>> \in Seq(Msgs)
    BY DEF Msgs
  <2>2. NetTypeOK
    BY ClientsAssumption DEF NetTypeOK, ConnState
  <2>3. /\ received \in [Clients -> Seq(Entries)] /\ log \in Seq(Entries) /\ at \in Slots
        /\ typed \in 0 .. StdinLines
    BY ServersAssumption, Sizes
  <2>4. QED
    BY <2>1, <2>2, <2>3 DEF TypeOK
<1>3. \A c \in Clients : ~Tracked(c)
  BY <1>1 DEF Tracked
<1>4. OneSlotEach /\ QueueInv
  BY <1>3 DEF OneSlotEach, QueueInv
<1>5. AuthorInv
  BY DEF AuthorInv, TypedByItself, TypedByTheSender
<1>6. LogInv
  BY <1>3 DEF LogInv, DeliveryExact
<1>7. QED
  BY <1>2, <1>4, <1>5, <1>6 DEF IInv

(* Every step keeps the invariant.                                          *)
LEMMA Preserved == IInv /\ [Next]_vars => IInv'
<1> SUFFICES ASSUME IInv, [Next]_vars PROVE IInv'
  OBVIOUS
<1>1. ASSUME NEW c \in Clients, SelectAccept(c) \/ PollAccept(c) PROVE IInv'
  <2>1. Admit(c, {}) \/ Admit(c, {FirstEmpty})
    BY <1>1 DEF SelectAccept, PollAccept
  <2>2. QED
    BY <2>1, AdmitStep
<1>2. CASE Server
  BY <1>1, <1>2, WaitSteps, SkipSteps, ReadClientStep, ReadStdinStep, ReadErrorStep, DisconnectStep DEF Server
<1>3. ASSUME NEW c \in Clients, ClientStep(c), UNCHANGED serverVars PROVE IInv'
  BY <1>3, ConnectStep, TypeStep, LeaveStep DEF ClientStep
<1>4. CASE UNCHANGED vars
  <2>1. UNCHANGED <<program, slot, armed, ready, pc, at, buffer, received, typed, log, joined, forgotten,
                    conn, inq, sends, backlog>>
    BY <1>4 DEF vars, serverVars, netVars
  <2>2. TypeOK'
    BY <2>1 DEF IInv, TypeOK, NetTypeOK
  <2>3. pc' = "accept" /\ 0 \in ready' => backlog # <<>>
    BY <2>1 DEF IInv, QueueInv
  <2>4. QED
    BY <2>1, <2>2, <2>3, QuietStep
<1>5. QED
  BY <1>2, <1>3, <1>4 DEF Next

(* The inductive invariant of both servers.                                 *)
THEOREM ChatInvariant == Spec => []IInv
BY Start, Preserved, PTL DEF Spec

(* A client has one slot, or none for ever and hears nothing; who is in the  *)
(* table has been sent what it was due; only a reset puts words into a       *)
(* client's mouth.                                                          *)
THEOREM ChatIsSound == Spec => []ChatInv
<1>1. IInv => ChatInv
  BY DEF IInv, AuthorInv, LogInv, ChatInv
<1>2. QED
  BY <1>1, ChatInvariant, PTL
=============================================================================
