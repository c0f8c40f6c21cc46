---------------------------- MODULE SignalProofs ----------------------------
(***************************************************************************)
(* Proofs about the two phases of signal_tree.c.                           *)
(*  - The forking, for every N, with or without forks that fail and signals  *)
(*    that come too early: how many processes there are in the end, and      *)
(*    what they know of each other.                                         *)
(*  - The signal game, for every tree, every number of points and every A    *)
(*    and S: the tokens of the two semaphores are never lost or doubled      *)
(*    except where the code loses them, one process at most ends at 0        *)
(*    points, and from then on nobody's points change.                      *)
(***************************************************************************)
EXTENDS MCSignals, FiniteSetTheorems, WellFoundedInduction, TLAPS

(* A process that its parent's fork has just returned 0 to: its loop        *)
(* variable is still the parent's.  After that it is its depth in the tree. *)
Newborn(p) == pc[p] = "post" /\ result[p] = 0
Depth(p) == IF Newborn(p) THEN i[p] + 1 ELSE i[p]

Working == {"wait", "eintr", "load", "store", "fork", "post", "failed"}

(* p has come back from its own fork_well for child[s], or needs none.      *)
Past(p, s) == pc[p] = "done" \/ (pc[p] \in Working /\ ~Newborn(p) /\ s < slot[p])

(* Identifiers are given in order, and who calls fork_well is not a leaf.   *)
PlaceInv ==
  /\ Root \in procs
  /\ \A p \in procs : p < NewPid
  /\ \A p \in Pids : pc[p] = "none" <=> p \notin procs
  /\ \A p \in procs : pc[p] \in Working => i[p] < Level
  /\ parent[Root] = 1
  /\ \A p \in procs \ {Root} : parent[p] \in procs /\ parent[p] < p

(* A fork that is done, about to be done or failed was granted by a          *)
(* decrement of its own.  Decrements are lost, not doubled: until enough     *)
(* forks are granted nobody has seen the counter at its end, nor will with   *)
(* a value it has read.                                                     *)
Forkers == {p \in Pids : pc[p] = "fork"}
Granted == Cardinality(procs) + Cardinality(Forkers) + Cardinality(Failed)
CountInv ==
  \/ Granted >= N
  \/ /\ count >= N + 1 - Granted
     /\ \A p \in procs : pc[p] = "store" => reg[p] >= N + 1 - Granted
     /\ \A p \in procs : pc[p] = "post" => result[p] # 1

(* What child[] holds: 0, 1, a child; or in child[0], until the process has *)
(* its own, what it inherited: the left child of its parent.                *)
NoneOrChild(p, x) == x \in {0, 1} \/ (x \in procs /\ parent[x] = p)
KidInv ==
  \A p \in procs :
    /\ pc[p] = "post" => NoneOrChild(p, result[p])
    /\ kid[p][1] = 0 \/ (Past(p, 1) /\ NoneOrChild(p, kid[p][1]))
    /\ (Newborn(p) /\ slot[p] = 0) \/ NoneOrChild(p, kid[p][0]) \/ NoneOrChild(parent[p], kid[p][0])
    /\ Past(p, 0) /\ i[p] < Level => NoneOrChild(p, kid[p][0])

(* The tree as a heap: node numbers the positions of a full binary tree, the *)
(* root 1 and the children of v 2v and 2v + 1.                              *)
Power(n) == 2^n
Ranked(node) ==
  \A p \in procs : Power(Depth(p)) <= node[p] /\ node[p] < Power(Depth(p) + 1)
Distinct(node) == \A p, q \in procs : node[p] = node[q] => p = q

(* A process sits below its parent, who has it in child[], or will when     *)
(* fork_well returns.                                                       *)
Known(p, s, q) ==
  \/ Past(p, s) /\ kid[p][s] = q
  \/ pc[p] = "post" /\ slot[p] = s /\ result[p] = q
Below(node) ==
  \A q \in procs \ {Root} :
    \E s \in {0, 1} : node[q] = 2 * node[parent[q]] + s /\ Known(parent[q], s, q)

(* A position that was passed is taken, unless the counter had come to its  *)
(* end or a signal stopped the fork.                                        *)
Passed(p, s) ==
  (Past(p, s) /\ i[p] < Level) \/ (pc[p] = "post" /\ ~Newborn(p) /\ slot[p] = s)
Taken(node, v) == \E q \in procs : node[q] = v
Full(node) ==
  \/ Granted >= N \/ interrupted
  \/ \A p \in procs, s \in {0, 1} : Passed(p, s) => Taken(node, 2 * node[p] + s)

HeapInv ==
  \E node \in [Pids -> Nat] :
    node[Root] = 1 /\ Ranked(node) /\ Distinct(node) /\ Below(node) /\ Full(node)

BuildInv == BuildOK /\ PlaceInv /\ EveryForkAddsAToken /\ CountInv /\ KidInv /\ HeapInv

(* The handlers only hold up or end their processes.                        *)
IInv == BuildInv /\ HandlerOK /\ OneHandler
-----------------------------------------------------------------------------
(* A nonempty set of natural numbers has a least element.                   *)
LEMMA LeastExists ==
  ASSUME NEW T, T \subseteq Nat, T # {}
  PROVE  \E x \in T : \A y \in T : x <= y
<1> DEFINE R == StrictSubsetOrdering(Nat)
           Initial(n) == 0 .. n - 1
           U == {Initial(n) : n \in T}
<1>1. U \subseteq FiniteSubsetsOf(Nat) /\ U # {}
  <2>1. \A n \in Nat : Initial(n) \subseteq Nat /\ IsFiniteSet(Initial(n))
    BY FS_Interval
  <2>2. QED
    BY <2>1 DEF FiniteSubsetsOf
<1>2. \E x \in U : \A y \in U : <<y, x>> \notin R
  <2>1. IsWellFoundedOn(R, FiniteSubsetsOf(Nat))
    BY FS_StrictSubsetOrderingWellFounded
  <2> HIDE DEF R, U
  <2>2. QED
    BY <1>1, <2>1, WFMin
<1>3. PICK x \in T : \A y \in T : <<Initial(y), Initial(x)>> \notin R
  BY <1>2
<1>4. ASSUME NEW y \in T, y < x PROVE <<Initial(y), Initial(x)>> \in R
  <2>1. Initial(y) \in SUBSET Nat /\ Initial(x) \in SUBSET Nat /\ Initial(y) \subseteq Initial(x)
    BY <1>4
  <2>2. y \in Initial(x) /\ y \notin Initial(y)
    BY <1>4
  <2> HIDE DEF Initial
  <2>3. QED
    BY <2>1, <2>2 DEF StrictSubsetOrdering
<1> HIDE DEF R, U, Initial
<1>5. x \in Nat /\ \A y \in T : y \in Nat /\ ~(y < x)
  BY <1>3, <1>4
<1>6. QED
  BY <1>5

(* Powers of two: of the library's facts this one speaks of them.           *)
LEMMA PowerIs ==
  ASSUME NEW n \in Nat
  PROVE  IsFiniteSet(SUBSET (1 .. n)) /\ Cardinality(SUBSET (1 .. n)) = Power(n) /\ Power(n) \in Nat
<1>1. IsFiniteSet(1 .. n) /\ Cardinality(1 .. n) = n
  BY FS_Interval
<1>2. IsFiniteSet(SUBSET (1 .. n)) /\ Cardinality(SUBSET (1 .. n)) = 2^Cardinality(1 .. n)
  BY <1>1, FS_SUBSET
<1>3. QED
  BY <1>1, <1>2, FS_CardinalityType DEF Power

(* A power of two is a natural number.                                      *)
LEMMA PowerNat == ASSUME NEW n \in Nat PROVE Power(n) \in Nat
BY PowerIs

(* The power of 0 is 1.                                                     *)
LEMMA PowerZero == Power(0) = 1
<1>1. SUBSET (1 .. 0) = {{}}
  OBVIOUS
<1>2. Cardinality({{}}) = 1
  BY FS_Singleton
<1>3. QED
  BY <1>1, <1>2, PowerIs

(* A subset of 1 .. n + 1 is one of 1 .. n, with or without n + 1.          *)
LEMMA PowerDoubles ==
  ASSUME NEW n \in Nat
  PROVE  Power(n + 1) = 2 * Power(n)
<1> DEFINE K == SUBSET (1 .. n)
           B == SUBSET (1 .. n + 1)
           f == [x \in K \X {0, 1} |-> IF x[2] = 1 THEN x[1] \cup {n + 1} ELSE x[1]]
<1>1. f \in [K \X {0, 1} -> B]
  OBVIOUS
<1>2. ASSUME NEW x \in K \X {0, 1}, NEW y \in K \X {0, 1}, f[x] = f[y] PROVE x = y
  <2>1. n + 1 \notin x[1] /\ n + 1 \notin y[1]
    OBVIOUS
  <2>2. x[2] = y[2]
    BY <1>2, <2>1
  <2>3. x[1] = y[1]
    BY <1>2, <2>1, <2>2
  <2>4. QED
    BY <2>2, <2>3
<1>3. ASSUME NEW b \in B PROVE \E x \in K \X {0, 1} : f[x] = b
  <2>1. CASE n + 1 \in b
    <3>1. <<b \ {n + 1}, 1>> \in K \X {0, 1}
      <4>1. \A x \in b : x # n + 1 => x \in 1 .. n
        OBVIOUS
      <4>2. b \ {n + 1} \in K
        BY <4>1
      <4>3. QED
        BY <4>2
    <3>2. f[<<b \ {n + 1}, 1>>] = b
      BY <2>1, <3>1
    <3>3. QED
      BY <3>1, <3>2
  <2>2. CASE n + 1 \notin b
    <3>1. <<b, 0>> \in K \X {0, 1}
      <4>1. \A x \in b : x \in 1 .. n
        BY <2>2
      <4>2. b \in K
        BY <4>1
      <4>3. QED
        BY <4>2
    <3>2. f[<<b, 0>>] = b
      BY <3>1
    <3>3. QED
      BY <3>1, <3>2
  <2>3. QED
    BY <2>1, <2>2
<1> HIDE DEF f
<1>4. f \in Bijection(K \X {0, 1}, B)
  BY <1>1, <1>2, <1>3 DEF Bijection, Injection, IsInjective, Surjection
<1>5. IsFiniteSet({0, 1}) /\ Cardinality({0, 1}) = 2
  <2>1. PICK z \in Int, o \in Int : z = 0 /\ o = 1
    OBVIOUS
  <2>2. IsFiniteSet(z .. o) /\ Cardinality(z .. o) = IF z > o THEN 0 ELSE o - z + 1
    BY FS_Interval
  <2>3. z .. o = {0, 1}
    BY <2>1
  <2>4. QED
    BY <2>1, <2>2, <2>3
<1>6. /\ IsFiniteSet(K) /\ Cardinality(K) = Power(n) /\ Power(n) \in Nat
      /\ IsFiniteSet(B) /\ Cardinality(B) = Power(n + 1)
  BY PowerIs
<1> HIDE DEF K, B
<1>7. IsFiniteSet(K \X {0, 1}) /\ Cardinality(K \X {0, 1}) = Power(n) * 2
  BY <1>5, <1>6, FS_Product
<1>8. Cardinality(B) = Cardinality(K \X {0, 1})
  BY <1>4, <1>7, FS_Bijection DEF ExistsBijection
<1>9. QED
  BY <1>6, <1>7, <1>8

(* Every number is twice another, or that and one more.                     *)
LEMMA Halves ==
  ASSUME NEW v \in Nat
  PROVE  \E u \in Nat, s \in {0, 1} : v = 2 * u + s
<1>1. ASSUME NEW b \in Nat \ {0}
      PROVE  v \div b \in Nat /\ b * (v \div b) <= v /\ v < b * (v \div b) + b
  BY Z3
<1>2. PICK u \in Nat : 2 * u <= v /\ v < 2 * u + 2
  BY <1>1
<1>3. v - 2 * u \in {0, 1} /\ v = 2 * u + (v - 2 * u)
  BY <1>2
<1>4. QED
  BY <1>3

(* A power of two exceeds its exponent.                                     *)
LEMMA PowerBounds ==
  ASSUME NEW n \in Nat
  PROVE  n < Power(n)
<1> DEFINE T == {k \in Nat : ~(k < Power(k))}
<1> SUFFICES ASSUME T # {} PROVE FALSE
  OBVIOUS
<1>1. PICK m \in T : \A k \in T : m <= k
  BY LeastExists
<1>2. m \in Nat /\ ~(m < Power(m))
  OBVIOUS
<1>3. m # 0
  BY <1>2, PowerZero
<1>4. m - 1 \in Nat /\ m - 1 < Power(m - 1)
  <2>1. m - 1 \in Nat /\ m - 1 \notin T
    BY <1>1, <1>2, <1>3
  <2>2. QED
    BY <2>1
<1>5. Power(m - 1) \in Nat /\ Power(m) = 2 * Power(m - 1)
  <2>1. PICK k \in Nat : m - 1 = k /\ m = k + 1
    BY <1>2, <1>4
  <2>2. Power(k) \in Nat /\ Power(k + 1) = 2 * Power(k)
    BY PowerNat, PowerDoubles
  <2>3. QED
    BY <2>1, <2>2
<1>6. QED
  BY <1>2, <1>3, <1>4, <1>5

(* Powers grow with the exponent.                                           *)
LEMMA PowerGrows ==
  ASSUME NEW a \in Nat, NEW b \in Nat, a <= b
  PROVE  Power(a) <= Power(b)
<1> DEFINE T == {k \in Nat : a <= k /\ ~(Power(a) <= Power(k))}
<1> SUFFICES ASSUME T # {} PROVE FALSE
  OBVIOUS
<1>1. PICK m \in T : \A k \in T : m <= k
  BY LeastExists
<1>2. m \in Nat /\ a <= m /\ ~(Power(a) <= Power(m))
  OBVIOUS
<1>3. m # a /\ Power(a) \in Nat /\ Power(m) \in Nat
  BY <1>2, PowerNat
<1>4. m - 1 \in Nat /\ Power(a) <= Power(m - 1)
  <2>1. m - 1 \in Nat /\ a <= m - 1 /\ m - 1 \notin T
    BY <1>1, <1>2, <1>3
  <2>2. QED
    BY <2>1
<1>5. Power(m - 1) \in Nat /\ Power(m) = 2 * Power(m - 1)
  <2>1. PICK k \in Nat : m - 1 = k /\ m = k + 1
    BY <1>2, <1>4
  <2>2. Power(k) \in Nat /\ Power(k + 1) = 2 * Power(k)
    BY PowerNat, PowerDoubles
  <2>3. QED
    BY <2>1, <2>2
<1>6. QED
  BY <1>2, <1>3, <1>4, <1>5

(* The depth of the tree is what floor(log N / log 2) means.                *)
LEMMA LevelIs ==
  /\ Level \in Nat /\ Power(Level) <= N /\ N < Power(Level + 1)
  /\ Capacity \in Nat /\ N <= Capacity /\ Power(Level + 1) = Capacity + 1
<1> DEFINE T == {k \in Nat : N < Power(k + 1)}
<1>1. N \in Nat /\ N > 0
  BY TreeAssumption
<1>2. N \in T
  <2>1. N < Power(N) /\ Power(N) \in Nat /\ Power(N + 1) = 2 * Power(N)
    BY <1>1, PowerBounds, PowerNat, PowerDoubles
  <2>2. QED
    BY <1>1, <2>1
<1>3. PICK l \in T : \A k \in T : l <= k
  BY <1>2, LeastExists
<1>4. l \in 0 .. N /\ N < Power(l + 1)
  BY <1>1, <1>2, <1>3
<1>5. Power(l) <= N
  <2>1. CASE l = 0
    BY <1>1, <2>1, PowerZero
  <2>2. CASE l # 0
    <3>1. l - 1 \in Nat /\ l - 1 \notin T
      BY <1>3, <1>4, <2>2
    <3>2. ~(N < Power(l - 1 + 1)) /\ l - 1 + 1 = l
      BY <1>4, <3>1
    <3>3. Power(l) \in Nat
      BY <1>4, PowerNat
    <3>4. QED
      BY <1>1, <3>2, <3>3
  <2>3. QED
    BY <2>1, <2>2
<1>6. Level \in 0 .. N /\ Power(Level) <= N /\ N < Power(Level + 1)
  BY <1>4, <1>5 DEF Level, Power
<1>7. Power(Level + 1) \in Nat
  BY <1>1, <1>6, PowerNat
<1>8. QED
  BY <1>1, <1>6, <1>7 DEF Capacity, Power
-----------------------------------------------------------------------------
(* A set of processes is counted, and one more process makes one more.      *)
LEMMA SetSizes ==
  ASSUME NEW Q \in SUBSET Pids
  PROVE  /\ IsFiniteSet(Q) /\ Cardinality(Q) \in Nat /\ Cardinality(Q) <= Capacity
         /\ \A x \in Pids \ Q : Cardinality(Q \cup {x}) = Cardinality(Q) + 1
         /\ \A x \in Q : Cardinality(Q \ {x}) = Cardinality(Q) - 1
<1>1. IsFiniteSet(Pids) /\ Cardinality(Pids) = Capacity
  <2>1. PICK a \in Int, b \in Int : a = Root /\ b = Root + Capacity - 1
    BY LevelIs DEF Root
  <2>2. IsFiniteSet(a .. b) /\ Cardinality(a .. b) = IF a > b THEN 0 ELSE b - a + 1
    BY FS_Interval
  <2>3. Pids = a .. b /\ ~(a > b) /\ b - a + 1 = Capacity
    BY <2>1, LevelIs, TreeAssumption DEF Pids, Root
  <2>4. QED
    BY <2>2, <2>3
<1>2. IsFiniteSet(Q) /\ Cardinality(Q) <= Capacity
  BY <1>1, FS_Subset
<1>3. Cardinality(Q) \in Nat
  BY <1>2, FS_CardinalityType
<1>4. QED
  BY <1>2, <1>3, FS_AddElement, FS_RemoveElement

(* The root is a process, and every process has a positive number not below *)
(* its.                                                                     *)
LEMMA Members ==
  /\ Root \in Pids /\ \A p \in Pids : p \in Nat /\ p # 0 /\ p # 1 /\ p >= Root
  /\ Root + Capacity - 1 \in Pids
BY LevelIs, TreeAssumption DEF Pids, Root

(* Every process has a position of the full tree.                           *)
LEMMA Positions ==
  ASSUME BuildOK, PlaceInv, NEW node \in [Pids -> Nat], Ranked(node), NEW p \in procs
  PROVE  /\ Depth(p) \in 0 .. Level /\ node[p] \in 1 .. Capacity
         /\ Power(Depth(p)) \in Nat /\ Power(Depth(p) + 1) \in Nat
         /\ Power(Depth(p)) <= node[p] /\ node[p] < Power(Depth(p) + 1)
<1>1. Depth(p) \in 0 .. Level /\ Level \in Nat
  BY LevelIs DEF BuildOK, PlaceInv, Depth, Newborn, Working
<1>2. PICK d \in Nat : d = Depth(p) /\ d <= Level
  BY <1>1
<1>3. d + 1 \in Nat /\ Level + 1 \in Nat /\ d + 1 <= Level + 1
  BY <1>1, <1>2
<1>4. Power(d) \in Nat /\ Power(d + 1) \in Nat /\ 0 < Power(d)
  BY <1>2, <1>3, PowerNat, PowerBounds
<1>5. Power(d + 1) <= Capacity + 1
  BY <1>3, PowerGrows, LevelIs
<1>6. Power(d) <= node[p] /\ node[p] < Power(d + 1) /\ node[p] \in Nat
  BY <1>2 DEF Ranked, BuildOK
<1>7. node[p] \in 1 .. Capacity
  BY <1>4, <1>5, <1>6, LevelIs
<1>8. QED
  BY <1>1, <1>2, <1>4, <1>6, <1>7

(* When all are done and no signal came early there are enough of them: the *)
(* counter has granted N - 1 forks, or every position of the tree is taken. *)
LEMMA Enough ==
  ASSUME BuildInv, AllDone, ~interrupted
  PROVE  Cardinality(procs) \in N .. Capacity
<1>1. Cardinality(procs) \in Nat /\ Cardinality(procs) <= Capacity
  BY SetSizes DEF BuildInv, BuildOK
<1>2. Granted = Cardinality(procs)
  <2>1. Forkers = {} /\ Failed = {}
    BY DEF BuildInv, BuildOK, PlaceInv, AllDone, Forkers, Failed
  <2>2. Cardinality({}) = 0
    BY FS_EmptySet
  <2>3. QED
    BY <1>1, <2>1, <2>2 DEF Granted
<1>3. CASE Granted >= N
  BY <1>1, <1>2, <1>3, TreeAssumption
<1>4. CASE ~(Granted >= N)
  <2>1. PICK node \in [Pids -> Nat] :
          node[Root] = 1 /\ Ranked(node) /\ Distinct(node) /\ Below(node) /\ Full(node)
    BY DEF BuildInv, HeapInv
  <2>2. \A p \in procs, s \in {0, 1} : i[p] < Level => Taken(node, 2 * node[p] + s)
    BY <1>4, <2>1 DEF Full, Passed, Past, AllDone
  <2>3. ASSUME NEW p \in procs
        PROVE  /\ i[p] \in Nat /\ node[p] \in 1 .. Capacity
               /\ Power(i[p]) \in Nat /\ Power(i[p]) <= node[p]
    BY <2>1, Positions DEF BuildInv, AllDone, Depth, Newborn
  <2>4. \A v \in 1 .. Capacity : Taken(node, v)
    <3> DEFINE T == {v \in 1 .. Capacity : ~Taken(node, v)}
    <3> SUFFICES ASSUME T # {} PROVE FALSE
      OBVIOUS
    <3>1. T \subseteq Nat
      BY LevelIs
    <3>2. PICK v \in T : \A w \in T : v <= w
      BY <3>1, LeastExists
    <3>3. v \in 1 .. Capacity /\ ~Taken(node, v)
      OBVIOUS
    <3>4. v # 1
      BY <2>1, <3>3 DEF Taken, BuildInv, PlaceInv
    <3>5. PICK u \in 1 .. Capacity, s \in {0, 1} : v = 2 * u + s /\ u < v
      <4>1. v \in Nat /\ v > 1
        BY <3>3, <3>4, LevelIs
      <4>2. PICK u \in Nat, s \in {0, 1} : v = 2 * u + s
        BY <4>1, Halves
      <4>3. u \in 1 .. Capacity /\ u < v
        BY <3>3, <4>1, <4>2, LevelIs
      <4>4. QED
        BY <4>2, <4>3
    <3>6. Taken(node, u)
      BY <3>2, <3>5, LevelIs
    <3>7. PICK p \in procs : node[p] = u
      BY <3>6 DEF Taken
    <3>8. i[p] < Level
      <4>1. Power(Level + 1) = 2 * Power(Level) /\ Power(Level) \in Nat
        BY LevelIs, PowerDoubles, PowerNat
      <4>2. u < Power(Level)
        BY <3>3, <3>5, <4>1, LevelIs
      <4>3. ~(Level <= i[p])
        <5> SUFFICES ASSUME Level <= i[p] PROVE FALSE
          OBVIOUS
        <5>1. Power(Level) <= Power(i[p])
          BY <2>3, LevelIs, PowerGrows
        <5>2. QED
          BY <2>3, <3>7, <4>1, <4>2, <5>1
      <4>4. QED
        BY <2>3, <4>3, LevelIs
    <3>9. QED
      BY <2>2, <3>3, <3>5, <3>7, <3>8
  <2>5. Capacity <= Cardinality(procs)
    <3> DEFINE f == [p \in procs |-> node[p]]
    <3>1. f \in Surjection(procs, 1 .. Capacity)
      BY <2>3, <2>4 DEF Taken, Surjection
    <3>2. IsFiniteSet(procs)
      BY SetSizes DEF BuildInv, BuildOK
    <3>3. Cardinality(1 .. Capacity) = Capacity
      BY LevelIs, FS_Interval
    <3>4. QED
      BY <3>1, <3>2, <3>3, FS_Surjection
  <2>6. QED
    BY <1>1, <2>5, LevelIs, TreeAssumption
<1>5. QED
  BY <1>3, <1>4

(* ... and they know their children.                                        *)
LEMMA Acquainted ==
  ASSUME BuildInv
  PROVE  ChildrenAreKnown
<1> SUFFICES ASSUME AllDone, NEW p \in procs, NEW q \in procs
             PROVE  /\ parent[q] = p => Classify(p, q) = "child"
                    /\ Classify(p, q) = "child" /\ p # q =>
                         parent[q] = p \/ parent[q] = parent[p]
  BY DEF ChildrenAreKnown
<1> USE DEF BuildInv
<1>1. pc[p] = "done" /\ ~Newborn(p) /\ p \in Pids /\ q \in Pids
  BY DEF AllDone, Newborn, BuildOK
<1>2. ASSUME parent[q] = p PROVE Classify(p, q) = "child"
  <2>1. q # Root /\ p < q
    BY <1>1, <1>2, Members DEF PlaceInv
  <2>2. PICK s \in {0, 1} : Known(p, s, q)
    BY <1>2, <2>1 DEF HeapInv, Below
  <2>3. kid[p][s] = q
    BY <1>1, <2>2 DEF Known
  <2>4. q # parent[p]
    <3>1. parent[p] < p
      <4>1. CASE p = Root
        BY <4>1 DEF PlaceInv, Root
      <4>2. CASE p # Root
        BY <4>2 DEF PlaceInv
      <4>3. QED
        BY <4>1, <4>2
    <3>2. parent[p] \in Int /\ p \in Int /\ q \in Int
      <4>1. parent[p] \in Pids \cup {1}
        BY <1>1 DEF BuildOK
      <4>2. QED
        BY <1>1, <4>1, Members
    <3>3. QED
      BY <2>1, <3>1, <3>2
  <2>5. QED
    BY <2>3, <2>4 DEF Classify
<1>3. ASSUME Classify(p, q) = "child" PROVE parent[q] = p \/ parent[q] = parent[p]
  <2>1. q = kid[p][0] \/ q = kid[p][1]
    BY <1>3 DEF Classify
  <2>2. q \notin {0, 1}
    BY <1>1, Members
  <2>3. QED
    BY <1>1, <2>1, <2>2 DEF KidInv, NoneOrChild
<1>4. QED
  BY <1>2, <1>3
-----------------------------------------------------------------------------
(* Steps that fork nobody keep the heap, if they keep depths and what is    *)
(* known of children, and pass a position only when it is not needed.       *)
LEMMA HeapKept ==
  ASSUME BuildOK, PlaceInv, HeapInv,
         procs' = procs, parent' = parent,
         interrupted => interrupted', Granted >= N => Granted' >= N,
         \A q \in procs : Depth(q)' = Depth(q),
         \A q, x \in procs, s \in {0, 1} : Known(q, s, x) => Known(q, s, x)',
         \A q \in procs, s \in {0, 1} :
           Passed(q, s)' => Passed(q, s) \/ Granted' >= N \/ interrupted'
  PROVE  HeapInv'
<1>1. PICK node \in [Pids -> Nat] :
        node[Root] = 1 /\ Ranked(node) /\ Distinct(node) /\ Below(node) /\ Full(node)
  BY DEF HeapInv
<1>2. Ranked(node)'
  BY <1>1 DEF Ranked
<1>3. Distinct(node)'
  BY <1>1 DEF Distinct
<1>4. Below(node)'
  <2>1. ASSUME NEW q \in procs \ {Root}
        PROVE  \E s \in {0, 1} : node[q] = 2 * node[parent[q]] + s /\ Known(parent[q], s, q)'
    BY <1>1 DEF Below, PlaceInv
  <2>2. QED
    BY <2>1 DEF Below
<1>5. Full(node)'
  BY <1>1 DEF Full, Taken
<1>6. QED
  BY <1>1, <1>2, <1>3, <1>4, <1>5 DEF HeapInv

(* At the beginning there is the root alone, about to split.                *)
LEMMA BuildStart == Init => BuildInv
<1> SUFFICES ASSUME Init PROVE BuildInv
  OBVIOUS
<1>1. BuildOK
  <2>1. count \in Int /\ sem \in Nat /\ procs \in SUBSET Pids /\ interrupted \in BOOLEAN
    <3>1. Root \in Pids /\ N \in Int
      BY Members, TreeAssumption
    <3>2. QED
      BY <3>1 DEF Init
  <2>2. /\ pc \in [Pids -> PC] /\ i \in [Pids -> 0 .. Level] /\ slot \in [Pids -> {0, 1}]
        /\ reg \in [Pids -> Int] /\ parent \in [Pids -> Pids \cup {1}]
        /\ result \in [Pids -> Pids \cup {0, 1}]
    BY LevelIs DEF Init, PC
  <2>3. kid \in [Pids -> [{0, 1} -> Pids \cup {0, 1}]]
    BY DEF Init
  <2>4. QED
    BY <2>1, <2>2, <2>3 DEF BuildOK
<1>2. Cardinality(procs) = 1 /\ NewPid = Root + 1
  BY FS_Singleton DEF Init, NewPid
<1>3. PlaceInv
  BY <1>2, Members DEF Init, PlaceInv, Working, Root
<1>4. Inside = {} /\ Failed = {} /\ Forkers = {} /\ Cardinality({}) = 0
  <2>1. Inside = {} /\ Failed = {} /\ Forkers = {}
    BY DEF Init, Inside, Failed, Forkers
  <2>2. QED
    BY <2>1, FS_EmptySet
<1>5. EveryForkAddsAToken
  BY <1>2, <1>4 DEF Init, EveryForkAddsAToken
<1>6. CountInv
  <2>1. Granted = 1 /\ N \in Nat /\ count = N
    BY <1>2, <1>4, TreeAssumption DEF Init, Granted
  <2>2. \A p \in procs : pc[p] = "loop"
    BY Members DEF Init
  <2>3. QED
    BY <2>1, <2>2 DEF CountInv
<1>7. KidInv
  BY Members DEF Init, KidInv, NoneOrChild, Newborn, Past, Working
<1>8. HeapInv
  <2> DEFINE node == [p \in Pids |-> 1]
  <2>1. node \in [Pids -> Nat] /\ node[Root] = 1
    BY Members
  <2>2. Ranked(node)
    <3>1. Depth(Root) = 0
      BY Members DEF Init, Depth, Newborn
    <3>2. Power(1) = 2 * Power(0)
      <4>1. PICK z \in Nat : z = 0 /\ z + 1 = 1
        OBVIOUS
      <4>2. Power(z + 1) = 2 * Power(z)
        BY PowerDoubles
      <4>3. QED
        BY <4>1, <4>2
    <3>3. QED
      BY <2>1, <3>1, <3>2, PowerZero DEF Init, Ranked
  <2>3. Distinct(node) /\ Below(node)
    BY DEF Init, Distinct, Below
  <2>4. Full(node)
    BY Members DEF Init, Full, Passed, Past, Working
  <2>5. QED
    BY <2>1, <2>2, <2>3, <2>4 DEF HeapInv
<1>9. QED
  BY <1>1, <1>3, <1>5, <1>6, <1>7, <1>8 DEF BuildInv
-----------------------------------------------------------------------------
(* The test of the loop starts another round or leaves it.                  *)
LEMMA LoopTestStep ==
  ASSUME BuildInv, NEW p \in procs, LoopTest(p)
  PROVE  BuildInv'
<1> USE DEF BuildInv
<1>1. /\ p \in Pids /\ pc[p] = "loop" /\ slot' = [slot EXCEPT ![p] = 0]
      /\ pc' = [pc EXCEPT ![p] = IF i[p] < Level THEN "wait" ELSE "done"]
      /\ UNCHANGED <<count, sem, procs, i, kid, result, reg, parent, interrupted>>
  BY DEF LoopTest, Goto, BuildOK
<1>2. BuildOK'
  BY <1>1 DEF BuildOK, PC
<1>3. PlaceInv'
  BY <1>1 DEF PlaceInv, BuildOK, NewPid, Working
<1>4. Inside' = Inside /\ Failed' = Failed /\ Forkers' = Forkers
  BY <1>1 DEF Inside, Failed, Forkers, BuildOK
<1>5. EveryForkAddsAToken' /\ Granted' = Granted
  BY <1>1, <1>4 DEF EveryForkAddsAToken, Granted
<1>6. CountInv'
  BY <1>1, <1>5 DEF CountInv, BuildOK
<1>7. \A q \in procs : Newborn(q)' = Newborn(q)
  BY <1>1 DEF Newborn, BuildOK
<1>8. \A q \in procs, s \in {0, 1} :
        (q # p => Past(q, s)' = Past(q, s)) /\ ~Past(p, s) /\ (Past(p, s)' => ~(i[p] < Level))
  BY <1>1, <1>7 DEF Past, Working, BuildOK
<1>9. KidInv'
  BY <1>1, <1>7, <1>8 DEF KidInv, NoneOrChild, BuildOK
<1>10. HeapInv'
  <2>1. \A q, x \in procs, s \in {0, 1} : Known(q, s, x) => Known(q, s, x)'
    BY <1>1, <1>8 DEF Known, BuildOK
  <2>2. \A q \in procs, s \in {0, 1} : Passed(q, s)' => Passed(q, s)
    BY <1>1, <1>7, <1>8 DEF Passed, BuildOK
  <2>3. \A q \in procs : Depth(q)' = Depth(q)
    BY <1>1, <1>7 DEF Depth
  <2>4. QED
    BY <1>1, <1>5, <2>1, <2>2, <2>3, HeapKept
<1>11. QED
  BY <1>2, <1>3, <1>5, <1>6, <1>9, <1>10

(* The semaphore is taken, and the process is inside.                       *)
LEMMA WaitStep ==
  ASSUME BuildInv, NEW p \in procs, Wait(p)
  PROVE  BuildInv'
<1> USE DEF BuildInv
<1>1. /\ p \in Pids /\ pc[p] = "wait" /\ pc' = [pc EXCEPT ![p] = "load"]
      /\ sem > 0 /\ sem' = sem - 1
      /\ UNCHANGED <<count, procs, i, slot, kid, result, reg, parent, interrupted>>
  BY DEF Wait, Goto, BuildOK
<1>2. BuildOK'
  BY <1>1 DEF BuildOK, PC
<1>3. PlaceInv'
  BY <1>1 DEF PlaceInv, BuildOK, NewPid, Working
<1>4. Inside' = Inside \cup {p} /\ p \notin Inside /\ Failed' = Failed /\ Forkers' = Forkers
  BY <1>1 DEF Inside, Failed, Forkers, BuildOK
<1>5. EveryForkAddsAToken' /\ Granted' = Granted
  <2>1. Inside \in SUBSET Pids /\ Failed \in SUBSET Pids
    BY DEF Inside, Failed
  <2>2. Cardinality(Inside') = Cardinality(Inside) + 1
    BY <1>1, <1>4, <2>1, SetSizes
  <2>3. Cardinality(Inside) \in Nat /\ Cardinality(Failed) \in Nat /\ sem \in Nat
    BY <2>1, SetSizes DEF BuildOK
  <2>4. QED
    BY <1>1, <1>4, <2>2, <2>3 DEF EveryForkAddsAToken, Granted
<1>6. CountInv'
  BY <1>1, <1>5 DEF CountInv, BuildOK
<1>7. \A q \in procs, s \in {0, 1} :
        Newborn(q)' = Newborn(q) /\ Past(q, s)' = Past(q, s) /\ Depth(q)' = Depth(q)
  BY <1>1 DEF Newborn, Past, Depth, Working, BuildOK
<1>8. KidInv'
  BY <1>1, <1>7 DEF KidInv, NoneOrChild, BuildOK
<1>9. HeapInv'
  <2>1. \A q, x \in procs, s \in {0, 1} :
          (Known(q, s, x) => Known(q, s, x)') /\ (Passed(q, s)' => Passed(q, s))
    BY <1>1, <1>7 DEF Known, Passed, BuildOK
  <2>2. QED
    BY <1>1, <1>5, <1>7, <2>1, HeapKept
<1>10. QED
  BY <1>2, <1>3, <1>5, <1>6, <1>8, <1>9

(* The counter is read by the one that is inside.                           *)
LEMMA LoadStep ==
  ASSUME BuildInv, NEW p \in procs, Load(p)
  PROVE  BuildInv'
<1> USE DEF BuildInv
<1>1. /\ p \in Pids /\ pc[p] = "load" /\ pc' = [pc EXCEPT ![p] = "store"]
      /\ reg' = [reg EXCEPT ![p] = count]
      /\ UNCHANGED <<count, sem, procs, i, slot, kid, result, parent, interrupted>>
  BY DEF Load, Goto, BuildOK
<1>2. BuildOK'
  BY <1>1 DEF BuildOK, PC
<1>3. PlaceInv'
  BY <1>1 DEF PlaceInv, BuildOK, NewPid, Working
<1>4. Inside' = Inside /\ Failed' = Failed /\ Forkers' = Forkers
  BY <1>1 DEF Inside, Failed, Forkers, BuildOK
<1>5. EveryForkAddsAToken' /\ Granted' = Granted
  BY <1>1, <1>4 DEF EveryForkAddsAToken, Granted
<1>6. CountInv'
  BY <1>1, <1>5 DEF CountInv, BuildOK
<1>7. \A q \in procs, s \in {0, 1} :
        Newborn(q)' = Newborn(q) /\ Past(q, s)' = Past(q, s) /\ Depth(q)' = Depth(q)
  BY <1>1 DEF Newborn, Past, Depth, Working, BuildOK
<1>8. KidInv'
  BY <1>1, <1>7 DEF KidInv, NoneOrChild, BuildOK
<1>9. HeapInv'
  <2>1. \A q, x \in procs, s \in {0, 1} :
          (Known(q, s, x) => Known(q, s, x)') /\ (Passed(q, s)' => Passed(q, s))
    BY <1>1, <1>7 DEF Known, Passed, BuildOK
  <2>2. QED
    BY <1>1, <1>5, <1>7, <2>1, HeapKept
<1>10. QED
  BY <1>2, <1>3, <1>5, <1>6, <1>8, <1>9

(* A fork that fails ends its process with the semaphore taken.             *)
LEMMA ForkFailsStep ==
  ASSUME BuildInv, NEW p \in procs, ForkFails(p)
  PROVE  BuildInv'
<1> USE DEF BuildInv
<1>1. /\ p \in Pids /\ pc[p] = "fork" /\ pc' = [pc EXCEPT ![p] = "failed"]
      /\ UNCHANGED <<count, sem, procs, i, slot, kid, result, reg, parent, interrupted>>
  BY DEF ForkFails, Goto, BuildOK
<1>2. BuildOK'
  BY <1>1 DEF BuildOK, PC
<1>3. PlaceInv'
  BY <1>1 DEF PlaceInv, BuildOK, NewPid, Working
<1>4. /\ Inside' = Inside \ {p} /\ p \in Inside
      /\ Failed' = Failed \cup {p} /\ p \notin Failed
      /\ Forkers' = Forkers \ {p} /\ p \in Forkers
  BY <1>1 DEF Inside, Failed, Forkers, BuildOK
<1>5. EveryForkAddsAToken' /\ Granted' = Granted
  <2>1. Inside \in SUBSET Pids /\ Failed \in SUBSET Pids /\ Forkers \in SUBSET Pids /\ procs \in SUBSET Pids
    BY DEF Inside, Failed, Forkers, BuildOK
  <2>2. /\ Cardinality(Inside') = Cardinality(Inside) - 1
        /\ Cardinality(Failed') = Cardinality(Failed) + 1
        /\ Cardinality(Forkers') = Cardinality(Forkers) - 1
    BY <1>1, <1>4, <2>1, SetSizes
  <2>3. /\ Cardinality(Inside) \in Nat /\ Cardinality(Failed) \in Nat
        /\ Cardinality(Forkers) \in Nat /\ Cardinality(procs) \in Nat /\ sem \in Nat
    BY <2>1, SetSizes DEF BuildOK
  <2>4. QED
    BY <1>1, <2>2, <2>3 DEF EveryForkAddsAToken, Granted
<1>6. CountInv'
  BY <1>1, <1>5 DEF CountInv, BuildOK
<1>7. \A q \in procs, s \in {0, 1} :
        Newborn(q)' = Newborn(q) /\ Past(q, s)' = Past(q, s) /\ Depth(q)' = Depth(q)
  BY <1>1 DEF Newborn, Past, Depth, Working, BuildOK
<1>8. KidInv'
  BY <1>1, <1>7 DEF KidInv, NoneOrChild, BuildOK
<1>9. HeapInv'
  <2>1. \A q, x \in procs, s \in {0, 1} :
          (Known(q, s, x) => Known(q, s, x)') /\ (Passed(q, s)' => Passed(q, s))
    BY <1>1, <1>7 DEF Known, Passed, BuildOK
  <2>2. QED
    BY <1>1, <1>5, <1>7, <2>1, HeapKept
<1>10. QED
  BY <1>2, <1>3, <1>5, <1>6, <1>8, <1>9

(* A decrement either grants one more fork, or has seen the counter's end.   *)
LEMMA StoreStep ==
  ASSUME BuildInv, NEW p \in procs, Store(p)
  PROVE  BuildInv'
<1> USE DEF BuildInv
<1>1. /\ p \in Pids /\ pc[p] = "store" /\ count' = reg[p] - 1 /\ reg[p] \in Int
      /\ pc' = [pc EXCEPT ![p] = IF reg[p] - 1 <= 0 THEN "post" ELSE "fork"]
      /\ result' = [result EXCEPT ![p] = 1]
      /\ UNCHANGED <<sem, procs, i, slot, kid, reg, parent, interrupted>>
  BY DEF Store, Goto, BuildOK
<1>2. BuildOK'
  BY <1>1 DEF BuildOK, PC
<1>3. PlaceInv'
  BY <1>1 DEF PlaceInv, BuildOK, NewPid, Working
<1>4. EveryForkAddsAToken'
  <2>1. Inside' = Inside /\ Failed' = Failed
    BY <1>1 DEF Inside, Failed, BuildOK
  <2>2. QED
    BY <1>1, <2>1 DEF EveryForkAddsAToken
<1>5. /\ Granted \in Nat /\ Granted' = IF reg[p] - 1 <= 0 THEN Granted ELSE Granted + 1
  <2>1. /\ Failed' = Failed /\ p \notin Forkers
        /\ Forkers' = IF reg[p] - 1 <= 0 THEN Forkers ELSE Forkers \cup {p}
    BY <1>1 DEF Failed, Forkers, BuildOK
  <2>2. Failed \in SUBSET Pids /\ Forkers \in SUBSET Pids /\ procs \in SUBSET Pids
    BY DEF Failed, Forkers, BuildOK
  <2>3. /\ Cardinality(Failed) \in Nat /\ Cardinality(Forkers) \in Nat /\ Cardinality(procs) \in Nat
        /\ Cardinality(Forkers \cup {p}) = Cardinality(Forkers) + 1
    BY <1>1, <2>1, <2>2, SetSizes
  <2>4. QED
    BY <1>1, <2>1, <2>3 DEF Granted
<1>6. CountInv' /\ (reg[p] - 1 <= 0 => Granted' >= N)
  <2>1. N \in Nat /\ count \in Int /\ count' \in Int /\ \A q \in procs : reg[q] \in Int
    BY <1>1, TreeAssumption DEF BuildOK
  <2>2. CASE Granted >= N
    BY <1>5, <2>1, <2>2 DEF CountInv
  <2>3. CASE ~(Granted >= N)
    <3>1. /\ reg[p] >= N + 1 - Granted
          /\ \A q \in procs : pc[q] = "store" => reg[q] >= N + 1 - Granted
          /\ \A q \in procs : pc[q] = "post" => result[q] # 1
      BY <1>1, <2>3 DEF CountInv
    <3>2. ~(reg[p] - 1 <= 0) /\ Granted' = Granted + 1
      BY <1>1, <1>5, <2>1, <2>3, <3>1
    <3>3. count' >= N + 1 - Granted' /\ \A q \in procs : pc'[q] = "store" => reg'[q] >= N + 1 - Granted'
      BY <1>1, <1>5, <2>1, <3>1, <3>2 DEF BuildOK
    <3>4. \A q \in procs : pc'[q] = "post" => result'[q] # 1
      BY <1>1, <3>1, <3>2 DEF BuildOK
    <3>5. QED
      BY <1>1, <3>2, <3>3, <3>4 DEF CountInv
  <2>4. QED
    BY <2>2, <2>3
<1>7. \A q \in procs, s \in {0, 1} :
        Newborn(q)' = Newborn(q) /\ Past(q, s)' = Past(q, s) /\ Depth(q)' = Depth(q)
  BY <1>1 DEF Newborn, Past, Depth, Working, BuildOK
<1>8. KidInv'
  BY <1>1, <1>7 DEF KidInv, NoneOrChild, BuildOK
<1>9. HeapInv'
  <2>1. \A q, x \in procs, s \in {0, 1} :
          (Known(q, s, x) => Known(q, s, x)') /\ (Passed(q, s)' => Passed(q, s) \/ Granted' >= N)
    BY <1>1, <1>6, <1>7 DEF Known, Passed, BuildOK
  <2>2. Granted >= N => Granted' >= N
    BY <1>5, TreeAssumption
  <2>3. QED
    BY <1>1, <1>7, <2>1, <2>2, HeapKept
<1>10. QED
  BY <1>2, <1>3, <1>4, <1>6, <1>8, <1>9

(* The three ways back from fork_well, for the child, the parent after its   *)
(* first and after its second call.                                         *)
LEMMA ReturnIs ==
  ASSUME BuildInv, NEW p \in procs, NEW from \in {"eintr", "post"}, NEW res, Return(p, from, res),
         \/ from = "post" /\ res = result[p] /\ UNCHANGED interrupted
         \/ from = "eintr" /\ res = 1 /\ interrupted' = TRUE,
         sem' \in Nat
  PROVE  /\ p \in Pids /\ pc[p] = from
         /\ \E to \in {"loop", "wait", "done"} : pc' = [pc EXCEPT ![p] = to]
         /\ BuildOK' /\ PlaceInv' /\ CountInv' /\ KidInv' /\ HeapInv'
<1> USE DEF BuildInv
<1>1. /\ p \in Pids /\ pc[p] = from /\ kid' = [kid EXCEPT ![p][slot[p]] = res]
      /\ UNCHANGED <<count, procs, result, reg, parent>>
      /\ interrupted' \in BOOLEAN /\ (interrupted => interrupted')
      /\ i[p] < Level /\ i[p] \in 0 .. Level /\ slot[p] \in {0, 1}
      /\ res \in Pids \cup {0, 1} /\ NoneOrChild(p, res)
  <2>1. /\ p \in Pids /\ pc[p] = from /\ kid' = [kid EXCEPT ![p][slot[p]] = res]
        /\ UNCHANGED <<count, procs, result, reg, parent>>
    BY DEF Return, Goto, BuildOK
  <2>2. interrupted' \in BOOLEAN /\ (interrupted => interrupted')
    BY DEF BuildOK
  <2>3. i[p] < Level /\ i[p] \in 0 .. Level /\ slot[p] \in {0, 1}
    BY <2>1 DEF BuildOK, PlaceInv, Working
  <2>4. res \in Pids \cup {0, 1}
    BY <2>1 DEF BuildOK
  <2>5. NoneOrChild(p, res)
    <3>1. CASE from = "post" /\ res = result[p]
      BY <2>1, <3>1 DEF KidInv
    <3>2. CASE res = 1
      BY <3>2 DEF NoneOrChild
    <3>3. QED
      BY <3>1, <3>2
  <2>6. QED
    BY <2>1, <2>2, <2>3, <2>4, <2>5
<1>2. \/ /\ res = 0 /\ Newborn(p) /\ pc' = [pc EXCEPT ![p] = "loop"]
         /\ i' = [i EXCEPT ![p] = @ + 1] /\ slot' = slot
      \/ /\ res # 0 /\ ~Newborn(p) /\ slot[p] = 0 /\ pc' = [pc EXCEPT ![p] = "wait"]
         /\ i' = i /\ slot' = [slot EXCEPT ![p] = 1]
      \/ /\ res # 0 /\ ~Newborn(p) /\ slot[p] = 1 /\ pc' = [pc EXCEPT ![p] = "done"]
         /\ i' = i /\ slot' = slot
  BY <1>1 DEF Return, Goto, Newborn
<1>3. BuildOK'
  <2>1. kid' \in [Pids -> [{0, 1} -> Pids \cup {0, 1}]]
    BY <1>1 DEF BuildOK
  <2>2. pc' \in [Pids -> PC] /\ i' \in [Pids -> 0 .. Level] /\ slot' \in [Pids -> {0, 1}]
    BY <1>1, <1>2, LevelIs DEF BuildOK, PC
  <2>3. QED
    BY <1>1, <2>1, <2>2 DEF BuildOK
<1>4. PlaceInv'
  BY <1>1, <1>2 DEF PlaceInv, BuildOK, NewPid, Working
<1>5. Granted' = Granted
  <2>1. Failed' = Failed /\ Forkers' = Forkers
    BY <1>1, <1>2 DEF Failed, Forkers, BuildOK
  <2>2. QED
    BY <1>1, <2>1 DEF Granted
<1>6. CountInv'
  BY <1>1, <1>2, <1>5 DEF CountInv, BuildOK
<1>7. \A q \in procs \ {p}, s \in {0, 1} :
        /\ Newborn(q)' = Newborn(q) /\ Past(q, s)' = Past(q, s) /\ Depth(q)' = Depth(q)
        /\ kid'[q] = kid[q] /\ Passed(q, s)' = Passed(q, s)
        /\ pc'[q] = pc[q] /\ slot'[q] = slot[q] /\ i'[q] = i[q]
  BY <1>1, <1>2 DEF Newborn, Past, Depth, Passed, Working, BuildOK
<1>8. /\ kid'[p][slot[p]] = res /\ \A s \in {0, 1} : s # slot[p] => kid'[p][s] = kid[p][s]
      /\ ~Newborn(p)' /\ Depth(p)' = Depth(p)
  BY <1>1, <1>2 DEF BuildOK, Newborn, Depth
<1>9. KidInv'
  <2>1. ASSUME NEW q \in procs \ {p}
        PROVE  /\ pc'[q] = "post" => NoneOrChild(q, result[q])'
               /\ kid'[q][1] = 0 \/ (Past(q, 1)' /\ NoneOrChild(q, kid[q][1])')
               /\ (Newborn(q)' /\ slot'[q] = 0) \/ NoneOrChild(q, kid[q][0])' \/ NoneOrChild(parent[q], kid[q][0])'
               /\ Past(q, 0)' /\ i'[q] < Level => NoneOrChild(q, kid[q][0])'
    <3>1. /\ Newborn(q)' = Newborn(q) /\ Past(q, 0)' = Past(q, 0) /\ Past(q, 1)' = Past(q, 1)
          /\ kid'[q] = kid[q] /\ pc'[q] = pc[q] /\ slot'[q] = slot[q] /\ i'[q] = i[q]
          /\ parent'[q] = parent[q] /\ result'[q] = result[q]
      BY <1>1, <1>7
    <3>2. procs' = procs /\ parent' = parent
      BY <1>1
    <3>3. /\ pc[q] = "post" => NoneOrChild(q, result[q])
          /\ kid[q][1] = 0 \/ (Past(q, 1) /\ NoneOrChild(q, kid[q][1]))
          /\ (Newborn(q) /\ slot[q] = 0) \/ NoneOrChild(q, kid[q][0]) \/ NoneOrChild(parent[q], kid[q][0])
          /\ Past(q, 0) /\ i[q] < Level => NoneOrChild(q, kid[q][0])
      BY DEF KidInv
    <3>4. QED
      BY <3>1, <3>2, <3>3 DEF NoneOrChild
  <2>2. /\ pc'[p] # "post"
        /\ kid'[p][1] = 0 \/ (Past(p, 1)' /\ NoneOrChild(p, kid[p][1])')
        /\ NoneOrChild(p, kid[p][0])' \/ NoneOrChild(parent[p], kid[p][0])'
        /\ Past(p, 0)' /\ i'[p] < Level => NoneOrChild(p, kid[p][0])'
    <3>1. procs' = procs /\ parent' = parent /\ NoneOrChild(p, res)
      BY <1>1
    <3>2. /\ kid[p][1] = 0 \/ (Past(p, 1) /\ NoneOrChild(p, kid[p][1]))
          /\ (Newborn(p) /\ slot[p] = 0) \/ NoneOrChild(p, kid[p][0]) \/ NoneOrChild(parent[p], kid[p][0])
          /\ Past(p, 0) /\ i[p] < Level => NoneOrChild(p, kid[p][0])
      BY DEF KidInv
    <3>3. CASE /\ res = 0 /\ Newborn(p) /\ pc' = [pc EXCEPT ![p] = "loop"]
               /\ i' = [i EXCEPT ![p] = @ + 1] /\ slot' = slot
      <4>1. pc'[p] = "loop" /\ ~Past(p, 0)' /\ ~Past(p, 1)
        BY <1>1, <3>3 DEF Past, Working, Newborn, BuildOK
      <4>2. kid'[p][1] = 0 /\ (kid'[p][0] = 0 \/ (slot[p] # 0 /\ kid'[p][0] = kid[p][0]))
        BY <1>1, <1>8, <3>2, <3>3, <4>1
      <4>3. QED
        BY <3>1, <3>2, <4>1, <4>2 DEF NoneOrChild
    <3>4. CASE /\ res # 0 /\ ~Newborn(p) /\ slot[p] = 0 /\ pc' = [pc EXCEPT ![p] = "wait"]
      <4>1. pc'[p] = "wait" /\ ~Past(p, 1)
        BY <1>1, <3>4 DEF Past, Working, BuildOK
      <4>2. kid'[p][1] = 0 /\ kid'[p][0] = res
        BY <1>8, <3>2, <3>4, <4>1
      <4>3. QED
        BY <3>1, <4>1, <4>2 DEF NoneOrChild
    <3>5. CASE /\ res # 0 /\ ~Newborn(p) /\ slot[p] = 1 /\ pc' = [pc EXCEPT ![p] = "done"]
      <4>1. pc'[p] = "done" /\ Past(p, 0) /\ Past(p, 1)'
        BY <1>1, <3>5 DEF Past, Working, BuildOK
      <4>2. kid'[p][1] = res /\ kid'[p][0] = kid[p][0] /\ NoneOrChild(p, kid[p][0])
        BY <1>1, <1>8, <3>2, <3>5, <4>1
      <4>3. QED
        BY <3>1, <4>1, <4>2 DEF NoneOrChild
    <3>6. QED
      BY <1>2, <3>3, <3>4, <3>5
  <2>3. QED
    BY <1>1, <2>1, <2>2 DEF KidInv
<1>10. HeapInv'
  <2>1. ASSUME NEW x \in procs, NEW s \in {0, 1}, Known(p, s, x) PROVE Known(p, s, x)'
    <3>1. x # 0
      BY Members DEF BuildOK
    <3>2. QED
      BY <1>1, <1>2, <1>8, <2>1, <3>1 DEF Known, Past, Working, Newborn, BuildOK
  <2>2. ASSUME NEW s \in {0, 1}, Passed(p, s)' PROVE Passed(p, s) \/ interrupted'
    BY <1>1, <1>2, <1>8, <2>2 DEF Passed, Past, Working, BuildOK
  <2>3. \A q, x \in procs, s \in {0, 1} : Known(q, s, x) => Known(q, s, x)'
    BY <1>1, <1>7, <2>1 DEF Known
  <2>4. \A q \in procs, s \in {0, 1} : Passed(q, s)' => Passed(q, s) \/ interrupted'
    BY <1>7, <2>2
  <2>5. QED
    BY <1>1, <1>5, <1>7, <1>8, <2>3, <2>4, HeapKept
<1>11. QED
  BY <1>1, <1>2, <1>3, <1>4, <1>6, <1>9, <1>10

(* The semaphore is given back, and fork_well returns.                      *)
LEMMA PostAndReturnStep ==
  ASSUME BuildInv, NEW p \in procs, PostAndReturn(p)
  PROVE  BuildInv'
<1>1. /\ Return(p, "post", result[p]) /\ sem' = sem + 1 /\ interrupted' = interrupted
      /\ sem \in Nat /\ sem' \in Nat
  BY DEF PostAndReturn, BuildInv, BuildOK
<1>2. /\ p \in Pids /\ pc[p] = "post"
      /\ \E to \in {"loop", "wait", "done"} : pc' = [pc EXCEPT ![p] = to]
      /\ BuildOK' /\ PlaceInv' /\ CountInv' /\ KidInv' /\ HeapInv'
  BY <1>1, ReturnIs
<1>3. EveryForkAddsAToken'
  <2>1. Inside' = Inside \ {p} /\ p \in Inside /\ Failed' = Failed
    BY <1>2 DEF Inside, Failed, BuildInv, BuildOK
  <2>2. Inside \in SUBSET Pids /\ Failed \in SUBSET Pids
    BY DEF Inside, Failed
  <2>3. /\ Cardinality(Inside') = Cardinality(Inside) - 1
        /\ Cardinality(Inside) \in Nat /\ Cardinality(Failed) \in Nat
    BY <2>1, <2>2, SetSizes
  <2>4. procs' = procs
    BY <1>1 DEF Return
  <2>5. QED
    BY <1>1, <2>1, <2>3, <2>4 DEF BuildInv, EveryForkAddsAToken
<1>4. QED
  BY <1>2, <1>3 DEF BuildInv

(* A signal interrupts the wait, and fork_well returns without a fork.      *)
LEMMA WaitInterruptedStep ==
  ASSUME BuildInv, NEW p \in procs, WaitInterrupted(p)
  PROVE  BuildInv'
<1>1. Return(p, "eintr", 1) /\ sem' = sem /\ interrupted' = TRUE /\ sem' \in Nat
  BY DEF WaitInterrupted, BuildInv, BuildOK
<1>2. /\ p \in Pids /\ pc[p] = "eintr"
      /\ \E to \in {"loop", "wait", "done"} : pc' = [pc EXCEPT ![p] = to]
      /\ BuildOK' /\ PlaceInv' /\ CountInv' /\ KidInv' /\ HeapInv'
  BY <1>1, ReturnIs
<1>3. EveryForkAddsAToken'
  <2>1. Inside' = Inside /\ Failed' = Failed
    BY <1>2 DEF Inside, Failed, BuildInv, BuildOK
  <2>2. procs' = procs
    BY <1>1 DEF Return
  <2>3. QED
    BY <1>1, <2>1, <2>2 DEF BuildInv, EveryForkAddsAToken
<1>4. QED
  BY <1>2, <1>3 DEF BuildInv

(* A signal before the tree stands: its handler runs next, and a sem_wait   *)
(* that it finds waiting will fail.                                         *)
LEMMA DeliverStep ==
  ASSUME BuildInv, NEW p \in procs, Deliver(p)
  PROVE  BuildInv'
<1> USE DEF BuildInv
<1>1. /\ p \in Pids
      /\ pc' = pc \/ (pc[p] = "wait" /\ pc' = [pc EXCEPT ![p] = "eintr"])
      /\ UNCHANGED <<count, sem, procs, i, slot, kid, result, reg, parent, interrupted>>
  BY DEF Deliver, Goto, BuildOK, otherVars
<1>2. BuildOK'
  BY <1>1 DEF BuildOK, PC
<1>3. PlaceInv'
  BY <1>1 DEF PlaceInv, BuildOK, NewPid, Working
<1>4. Inside' = Inside /\ Failed' = Failed /\ Forkers' = Forkers
  BY <1>1 DEF Inside, Failed, Forkers, BuildOK
<1>5. EveryForkAddsAToken' /\ Granted' = Granted
  BY <1>1, <1>4 DEF EveryForkAddsAToken, Granted
<1>6. CountInv'
  BY <1>1, <1>5 DEF CountInv, BuildOK
<1>7. \A q \in procs, s \in {0, 1} :
        Newborn(q)' = Newborn(q) /\ Past(q, s)' = Past(q, s) /\ Depth(q)' = Depth(q)
  BY <1>1 DEF Newborn, Past, Depth, Working, BuildOK
<1>8. KidInv'
  BY <1>1, <1>7 DEF KidInv, NoneOrChild, BuildOK
<1>9. HeapInv'
  <2>1. \A q, x \in procs, s \in {0, 1} :
          (Known(q, s, x) => Known(q, s, x)') /\ (Passed(q, s)' => Passed(q, s))
    BY <1>1, <1>7 DEF Known, Passed, BuildOK
  <2>2. QED
    BY <1>1, <1>5, <1>7, <2>1, HeapKept
<1>10. QED
  BY <1>2, <1>3, <1>5, <1>6, <1>8, <1>9
-----------------------------------------------------------------------------
(* The position of a new child is free, and there is an identifier for it.   *)
LEMMA ForkHasRoom ==
  ASSUME BuildInv, NEW p \in procs, pc[p] = "fork", NEW node \in [Pids -> Nat],
         node[Root] = 1, Ranked(node), Distinct(node), Below(node)
  PROVE  /\ NewPid \in Pids \ procs
         /\ \A q \in procs : node[q] # 2 * node[p] + slot[p]
         /\ Power(Depth(p) + 1) <= 2 * node[p] + slot[p]
         /\ 2 * node[p] + slot[p] < Power(Depth(p) + 2)
<1> USE DEF BuildInv
<1> DEFINE v == 2 * node[p] + slot[p]
<1>1. p \in Pids /\ slot[p] \in {0, 1} /\ i[p] \in Nat /\ i[p] < Level /\ Depth(p) = i[p]
  BY LevelIs DEF BuildOK, PlaceInv, Working, Depth, Newborn
<1>2. /\ node[p] \in 1 .. Capacity /\ Power(i[p]) \in Nat
      /\ Power(i[p]) <= node[p] /\ node[p] < Power(i[p] + 1)
  BY <1>1, Positions
<1>3. PICK d \in Nat : d = i[p] /\ d + 2 <= Level + 1
  BY <1>1, LevelIs
<1>4. /\ Power(d + 1) = 2 * Power(d) /\ Power(d + 2) = 2 * Power(d + 1)
      /\ Power(d) \in Nat /\ Power(d + 1) \in Nat /\ Power(d + 2) \in Nat
  <2>1. PICK e \in Nat : e = d + 1 /\ e + 1 = d + 2 /\ d + 2 \in Nat
    OBVIOUS
  <2>2. Power(e + 1) = 2 * Power(e) /\ Power(d + 1) = 2 * Power(d)
    BY PowerDoubles
  <2>3. Power(d) \in Nat /\ Power(e) \in Nat /\ Power(d + 2) \in Nat
    BY <2>1, PowerNat
  <2>4. QED
    BY <2>1, <2>2, <2>3
<1>5. v \in Nat /\ Power(d + 1) <= v /\ v < Power(d + 2)
  BY <1>1, <1>2, <1>3, <1>4
<1>6. v \in 1 .. Capacity
  <2>1. d + 2 \in Nat /\ Level + 1 \in Nat
    BY LevelIs
  <2>2. Power(d + 2) <= Power(Level + 1)
    BY <1>3, <2>1, PowerGrows
  <2>3. QED
    BY <1>2, <1>4, <1>5, <2>2, LevelIs
<1>7. ASSUME NEW q \in procs, node[q] = v PROVE FALSE
  <2>1. q # Root
    BY <1>1, <1>2, <1>7
  <2>2. PICK s \in {0, 1} : node[q] = 2 * node[parent[q]] + s /\ Known(parent[q], s, q)
    BY <2>1 DEF Below
  <2>3. parent[q] \in procs /\ node[parent[q]] \in Nat
    BY <2>1 DEF PlaceInv, BuildOK
  <2>4. node[parent[q]] = node[p] /\ s = slot[p]
    BY <1>1, <1>2, <1>7, <2>2, <2>3
  <2>5. parent[q] = p
    BY <2>3, <2>4 DEF Distinct
  <2>6. Known(p, slot[p], q)
    BY <2>2, <2>4, <2>5
  <2>7. QED
    BY <1>1, <2>6 DEF Known, Past
<1>8. Cardinality(procs) < Capacity
  <2> DEFINE f == [q \in procs |-> node[q]]
             Q == 1 .. Capacity
  <2>1. IsFiniteSet(Q) /\ Cardinality(Q) = Capacity
    BY LevelIs, FS_Interval
  <2>2. v \in Q
    BY <1>6
  <2> HIDE DEF Q
  <2>3. IsFiniteSet(Q \ {v}) /\ Cardinality(Q \ {v}) = Capacity - 1
    BY <2>1, <2>2, FS_RemoveElement
  <2>4. \A q \in procs : node[q] \in Q /\ node[q] # v
    BY <1>7, Positions DEF Q
  <2>5. f \in Injection(procs, Q \ {v})
    BY <2>4 DEF Injection, IsInjective, Distinct
  <2>6. Cardinality(procs) <= Cardinality(Q \ {v})
    BY <2>3, <2>5, FS_Injection
  <2>7. Cardinality(procs) \in Nat
    BY SetSizes DEF BuildOK
  <2>8. QED
    BY <2>3, <2>6, <2>7, LevelIs
<1>9. NewPid \in Pids
  <2>1. Cardinality(procs) \in Nat
    BY SetSizes DEF BuildOK
  <2>2. QED
    BY <1>8, <2>1, LevelIs DEF NewPid, Pids, Root
<1>10. NewPid \notin procs
  BY <1>9, Members DEF PlaceInv
<1>11. QED
  BY <1>1, <1>3, <1>5, <1>7, <1>9, <1>10

(* The child takes the position below its parent's.                         *)
LEMMA ForkStep ==
  ASSUME BuildInv, NEW p \in procs, Fork(p)
  PROVE  BuildInv'
<1> USE DEF BuildInv
<1>1. PICK node \in [Pids -> Nat] :
        node[Root] = 1 /\ Ranked(node) /\ Distinct(node) /\ Below(node) /\ Full(node)
  BY DEF HeapInv
<1>2. PICK c : c = NewPid
  OBVIOUS
<1>3. /\ p \in Pids /\ pc[p] = "fork" /\ procs' = procs \cup {c}
      /\ pc' = [pc EXCEPT ![p] = "post", ![c] = "post"]
      /\ result' = [result EXCEPT ![p] = c, ![c] = 0]
      /\ i' = [i EXCEPT ![c] = i[p]] /\ slot' = [slot EXCEPT ![c] = slot[p]]
      /\ kid' = [kid EXCEPT ![c] = kid[p]] /\ reg' = [reg EXCEPT ![c] = reg[p]]
      /\ parent' = [parent EXCEPT ![c] = p]
      /\ UNCHANGED <<count, sem, interrupted>>
  BY <1>2 DEF Fork, BuildOK
<1>4. /\ c \in Pids \ procs /\ \A q \in procs : node[q] # 2 * node[p] + slot[p]
      /\ Power(Depth(p) + 1) <= 2 * node[p] + slot[p]
      /\ 2 * node[p] + slot[p] < Power(Depth(p) + 2)
  BY <1>1, <1>2, <1>3, ForkHasRoom
<1>5. c # p /\ c # 0 /\ c # 1 /\ c # Root /\ pc[c] = "none" /\ p < c
  BY <1>2, <1>4, Members DEF PlaceInv
<1>6. BuildOK'
  <2>1. procs' \in SUBSET Pids /\ pc' \in [Pids -> PC] /\ result' \in [Pids -> Pids \cup {0, 1}]
    BY <1>3, <1>4 DEF BuildOK, PC
  <2>2. i' \in [Pids -> 0 .. Level] /\ slot' \in [Pids -> {0, 1}] /\ reg' \in [Pids -> Int]
    BY <1>3, <1>4 DEF BuildOK
  <2>3. kid' \in [Pids -> [{0, 1} -> Pids \cup {0, 1}]] /\ parent' \in [Pids -> Pids \cup {1}]
    BY <1>3, <1>4 DEF BuildOK
  <2>4. QED
    BY <1>3, <2>1, <2>2, <2>3 DEF BuildOK
<1>7. /\ \A q \in procs \ {p} : pc'[q] = pc[q] /\ result'[q] = result[q]
      /\ \A q \in procs : /\ i'[q] = i[q] /\ slot'[q] = slot[q] /\ kid'[q] = kid[q]
                          /\ reg'[q] = reg[q] /\ parent'[q] = parent[q]
      /\ pc'[p] = "post" /\ result'[p] = c
      /\ pc'[c] = "post" /\ result'[c] = 0 /\ i'[c] = i[p] /\ slot'[c] = slot[p]
      /\ kid'[c] = kid[p] /\ reg'[c] = reg[p] /\ parent'[c] = p
  BY <1>3, <1>4, <1>5 DEF BuildOK
<1>8. Cardinality(procs') = Cardinality(procs) + 1 /\ Cardinality(procs) \in Nat
  BY <1>3, <1>4, SetSizes DEF BuildOK
<1>9. PlaceInv'
  <2>1. NewPid' = NewPid + 1 /\ NewPid \in Int
    BY <1>8 DEF NewPid, Root
  <2>2. \A q \in procs' : q < NewPid'
    BY <1>2, <1>3, <1>4, <2>1, Members DEF PlaceInv, BuildOK
  <2>3. \A q \in Pids : pc'[q] = "none" <=> q \notin procs'
    BY <1>3, <1>4, <1>5 DEF PlaceInv, BuildOK
  <2>4. \A q \in procs' : pc'[q] \in Working => i'[q] < Level
    BY <1>3, <1>7 DEF PlaceInv, Working
  <2>5. \A q \in procs' \ {Root} : parent'[q] \in procs' /\ parent'[q] < q
    BY <1>3, <1>5, <1>7 DEF PlaceInv
  <2>6. QED
    BY <1>3, <1>7, <2>2, <2>3, <2>4, <2>5 DEF PlaceInv
<1>10. /\ Inside' = Inside \cup {c} /\ c \notin Inside /\ Failed' = Failed
       /\ Forkers' = Forkers \ {p} /\ p \in Forkers
  BY <1>3, <1>4, <1>5 DEF Inside, Failed, Forkers, BuildOK
<1>11. EveryForkAddsAToken' /\ Granted' = Granted
  <2>1. Inside \in SUBSET Pids /\ Failed \in SUBSET Pids /\ Forkers \in SUBSET Pids
    BY DEF Inside, Failed, Forkers
  <2>2. /\ Cardinality(Inside') = Cardinality(Inside) + 1
        /\ Cardinality(Forkers') = Cardinality(Forkers) - 1
    BY <1>4, <1>10, <2>1, SetSizes
  <2>3. /\ Cardinality(Inside) \in Nat /\ Cardinality(Failed) \in Nat
        /\ Cardinality(Forkers) \in Nat /\ sem \in Nat
    BY <2>1, SetSizes DEF BuildOK
  <2>4. QED
    BY <1>3, <1>8, <1>10, <2>2, <2>3 DEF EveryForkAddsAToken, Granted
<1>12. CountInv'
  <2>1. CASE Granted >= N
    BY <1>11, <2>1 DEF CountInv
  <2>2. CASE ~(Granted >= N)
    <3>1. /\ count >= N + 1 - Granted
          /\ \A q \in procs : pc[q] = "store" => reg[q] >= N + 1 - Granted
          /\ \A q \in procs : pc[q] = "post" => result[q] # 1
      BY <2>2 DEF CountInv
    <3>2. \A q \in procs' : pc'[q] = "store" => reg'[q] >= N + 1 - Granted
      BY <1>3, <1>7, <3>1
    <3>3. \A q \in procs' : pc'[q] = "post" => result'[q] # 1
      <4>1. ASSUME NEW q \in procs \ {p} PROVE pc'[q] = "post" => result'[q] # 1
        BY <1>7, <3>1
      <4>2. result'[p] # 1 /\ result'[c] # 1
        BY <1>5, <1>7
      <4>3. QED
        BY <1>3, <4>1, <4>2
    <3>4. QED
      BY <1>3, <1>11, <3>1, <3>2, <3>3 DEF CountInv
  <2>3. QED
    BY <2>1, <2>2
<1>13. /\ \A q \in procs : Newborn(q)' = Newborn(q) /\ Depth(q)' = Depth(q)
       /\ \A q \in procs, s \in {0, 1} : Past(q, s)' = Past(q, s)
       /\ Newborn(c)' /\ ~Past(c, 0)' /\ ~Past(c, 1)' /\ Depth(c)' = i[p] + 1
       /\ Depth(p) = i[p] /\ ~Newborn(p)
  <2>1. \A q \in procs : Newborn(q)' = Newborn(q)
    BY <1>3, <1>5, <1>7, ZenonT(40) DEF Newborn
  <2>2. Newborn(c)' /\ ~Newborn(p)
    BY <1>3, <1>7 DEF Newborn
  <2>3. \A q \in procs : Depth(q)' = Depth(q)
    BY <1>7, <2>1 DEF Depth
  <2>4. \A q \in procs, s \in {0, 1} : Past(q, s)' = Past(q, s)
    BY <1>3, <1>7, <2>1 DEF Past, Working
  <2>5. QED
    BY <1>7, <2>1, <2>2, <2>3, <2>4 DEF Depth, Past
<1>14. KidInv'
  <2>1. ASSUME NEW q, NEW x, NoneOrChild(q, x) PROVE x \in {0, 1} \/ (x \in procs' /\ parent'[x] = q)
    BY <1>3, <1>7, <2>1 DEF NoneOrChild
  <2>2. ASSUME NEW q \in procs
        PROVE  /\ pc'[q] = "post" => NoneOrChild(q, result[q])'
               /\ kid'[q][1] = 0 \/ (Past(q, 1)' /\ NoneOrChild(q, kid[q][1])')
               /\ (Newborn(q)' /\ slot'[q] = 0) \/ NoneOrChild(q, kid[q][0])' \/ NoneOrChild(parent[q], kid[q][0])'
               /\ Past(q, 0)' /\ i'[q] < Level => NoneOrChild(q, kid[q][0])'
    <3>1. /\ pc[q] = "post" => NoneOrChild(q, result[q])
          /\ kid[q][1] = 0 \/ (Past(q, 1) /\ NoneOrChild(q, kid[q][1]))
          /\ (Newborn(q) /\ slot[q] = 0) \/ NoneOrChild(q, kid[q][0]) \/ NoneOrChild(parent[q], kid[q][0])
          /\ Past(q, 0) /\ i[q] < Level => NoneOrChild(q, kid[q][0])
      BY DEF KidInv
    <3>2. q = p => NoneOrChild(q, result[q])'
      BY <1>3, <1>7 DEF NoneOrChild
    <3>3. /\ q # p => pc'[q] = pc[q] /\ result'[q] = result[q]
          /\ kid'[q] = kid[q] /\ slot'[q] = slot[q] /\ i'[q] = i[q] /\ parent'[q] = parent[q]
          /\ Newborn(q)' = Newborn(q) /\ Past(q, 0)' = Past(q, 0) /\ Past(q, 1)' = Past(q, 1)
      BY <1>7, <1>13
    <3>4. QED
      BY <2>1, <3>1, <3>2, <3>3 DEF NoneOrChild
  <2>3. /\ NoneOrChild(c, result[c])' /\ kid'[c][1] = 0
        /\ (Newborn(c)' /\ slot'[c] = 0) \/ NoneOrChild(parent[c], kid[c][0])'
    <3>1. kid[p][1] = 0 /\ (slot[p] = 0 \/ NoneOrChild(p, kid[p][0]))
      <4>1. ~Past(p, 1) /\ (slot[p] = 0 \/ Past(p, 0)) /\ i[p] < Level
        BY <1>3, <1>13 DEF Past, Working, PlaceInv, BuildOK
      <4>2. QED
        BY <4>1 DEF KidInv
    <3>2. QED
      BY <1>7, <1>13, <2>1, <3>1 DEF NoneOrChild
  <2>4. QED
    BY <1>3, <1>13, <2>2, <2>3 DEF KidInv
<1>15. HeapInv'
  <2>1. PICK v \in Nat : v = 2 * node[p] + slot[p]
    BY <1>3 DEF BuildOK
  <2>2. PICK grown \in [Pids -> Nat] :
          grown[c] = v /\ (\A q \in procs : grown[q] = node[q]) /\ grown[Root] = 1
    <3>1. PICK g : g = [node EXCEPT ![c] = v]
      OBVIOUS
    <3>2. g \in [Pids -> Nat] /\ g[c] = v /\ (\A q \in procs : g[q] = node[q]) /\ g[Root] = 1
      BY <1>1, <1>4, <1>5, <3>1, Members DEF BuildOK
    <3>3. QED
      BY <3>2
  <2>3. Ranked(grown)'
    <3>1. ASSUME NEW q \in procs PROVE Power(Depth(q)') <= grown[q] /\ grown[q] < Power(Depth(q)' + 1)
      BY <1>1, <1>13, <2>2 DEF Ranked
    <3>2. Power(Depth(c)') <= grown[c] /\ grown[c] < Power(Depth(c)' + 1)
      <4>1. i[p] \in Nat
        BY <1>3, LevelIs DEF BuildOK
      <4>2. PICK d \in Nat : d = i[p] /\ Depth(c)' = d + 1 /\ Depth(c)' + 1 = d + 2 /\ Depth(p) = d
        BY <1>13, <4>1
      <4>3. QED
        BY <1>4, <2>1, <2>2, <4>2
    <3>3. QED
      BY <1>3, <3>1, <3>2 DEF Ranked
  <2>4. Distinct(grown)'
    BY <1>1, <1>3, <1>4, <2>1, <2>2 DEF Distinct
  <2>5. Below(grown)'
    <3>1. ASSUME NEW q \in procs \ {Root}
          PROVE  \E s \in {0, 1} : grown[q] = 2 * grown[parent'[q]] + s /\ Known(parent[q], s, q)'
      <4>1. PICK s \in {0, 1} : node[q] = 2 * node[parent[q]] + s /\ Known(parent[q], s, q)
        BY <1>1 DEF Below
      <4>2. PICK r \in procs : r = parent[q] /\ r = parent'[q]
        BY <1>7 DEF PlaceInv
      <4>3. Known(r, s, q)'
        <5>1. /\ Past(r, s)' = Past(r, s) /\ kid'[r] = kid[r] /\ slot'[r] = slot[r]
              /\ r # p => pc'[r] = pc[r] /\ result'[r] = result[r]
          BY <1>7, <1>13
        <5>2. Known(r, s, q) /\ pc[p] = "fork"
          BY <1>3, <4>1, <4>2
        <5>3. QED
          BY <5>1, <5>2 DEF Known
      <4>4. Known(parent[q], s, q)'
        BY <4>2, <4>3 DEF Known, Past, Newborn
      <4>5. QED
        BY <2>2, <4>1, <4>2, <4>4
    <3>2. grown[c] = 2 * grown[parent'[c]] + slot[p] /\ Known(parent[c], slot[p], c)'
      BY <1>7, <2>1, <2>2 DEF Known
    <3>3. slot[p] \in {0, 1}
      BY <1>3 DEF BuildOK
    <3>4. QED
      BY <1>3, <3>1, <3>2, <3>3 DEF Below
  <2>6. Full(grown)'
    <3>1. CASE Granted >= N \/ interrupted
      BY <1>3, <1>11, <3>1 DEF Full
    <3>2. CASE ~(Granted >= N \/ interrupted)
      <4>1. ASSUME NEW q \in procs', NEW s \in {0, 1}, Passed(q, s)'
            PROVE  \E x \in procs' : grown[x] = 2 * grown[q] + s
        <5>1. q # c
          BY <1>13, <4>1 DEF Passed
        <5>2. q \in procs
          BY <1>3, <5>1
        <5>3. CASE Passed(q, s)
          <6>1. PICK x \in procs : node[x] = 2 * node[q] + s
            BY <1>1, <3>2, <5>2, <5>3 DEF Full, Taken
          <6>2. QED
            BY <1>3, <2>2, <5>2, <6>1
        <5>4. CASE q = p /\ s = slot[p]
          BY <1>3, <2>1, <2>2, <5>4
        <5>5. Passed(q, s) \/ (q = p /\ s = slot[p])
          BY <1>3, <1>7, <1>13, <4>1, <5>2 DEF Passed
        <5>6. QED
          BY <5>3, <5>4, <5>5
      <4>2. QED
        BY <4>1 DEF Full, Taken
    <3>3. QED
      BY <3>1, <3>2
  <2>7. QED
    BY <2>2, <2>3, <2>4, <2>5, <2>6 DEF HeapInv
<1>16. QED
  BY <1>6, <1>9, <1>11, <1>12, <1>14, <1>15
-----------------------------------------------------------------------------
(* Nothing of the building depends on the handlers.                         *)
LEMMA BuildUntouched ==
  ASSUME BuildInv, UNCHANGED <<otherVars, pc>>
  PROVE  BuildInv'
<1>1. UNCHANGED <<count, sem, procs, pc, i, slot, kid, result, reg, parent, interrupted>>
  BY DEF otherVars
<1>2. BuildOK' /\ PlaceInv' /\ EveryForkAddsAToken' /\ CountInv'
  BY <1>1 DEF BuildInv, BuildOK, PlaceInv, NewPid, EveryForkAddsAToken, Inside, Failed,
              CountInv, Granted, Forkers
<1>3. KidInv'
  BY <1>1 DEF BuildInv, KidInv, NoneOrChild, Newborn, Past
<1>4. HeapInv'
  <2>1. /\ \A q \in procs : Depth(q)' = Depth(q)
        /\ Granted' = Granted
        /\ \A q \in procs, s \in {0, 1} : Past(q, s)' = Past(q, s)
    BY <1>1 DEF Depth, Newborn, Past, Granted, Forkers, Failed
  <2>2. \A q, x \in procs, s \in {0, 1} :
          (Known(q, s, x) => Known(q, s, x)') /\ (Passed(q, s)' => Passed(q, s))
    BY <1>1, <2>1 DEF Known, Passed, Newborn
  <2>3. QED
    BY <1>1, <2>1, <2>2, HeapKept DEF BuildInv
<1>5. QED
  BY <1>2, <1>3, <1>4 DEF BuildInv

(* semaphore_handler goes from hand to hand, and stays with who exits.      *)
LEMMA HandlersStep ==
  ASSUME BuildOK, HandlerOK, OneHandler, NEW p \in procs,
         \/ UNCHANGED handlerVars
         \/ Deliver(p) \/ HandlerWait(p) \/ HandlerPost(p) \/ HandlerExits(p)
  PROVE  HandlerOK' /\ OneHandler'
<1> DEFINE In == {q \in Pids : handler[q] = "in"}
<1>1. /\ p \in Pids /\ In \in SUBSET Pids /\ Cardinality(In) \in Nat /\ hsem \in Nat
      /\ hsem + Cardinality(In) = 1 /\ \A q \in left : handler[q] = "in"
  BY SetSizes DEF BuildOK, HandlerOK, OneHandler
<1>2. CASE UNCHANGED handlerVars
  BY <1>2 DEF handlerVars, HandlerOK, OneHandler
<1>3. CASE Deliver(p)
  <2>1. HandlerOK' /\ hsem' = hsem /\ left' = left /\ p \notin left
    BY <1>1, <1>3, TreeAssumption DEF Deliver, MainRuns, HandlerOK
  <2>2. In' = In /\ \A q \in left : handler'[q] = "in"
    BY <1>1, <1>3 DEF Deliver, MainRuns, HandlerOK
  <2>3. QED
    BY <1>1, <2>1, <2>2 DEF OneHandler
<1>4. CASE HandlerWait(p)
  <2>1. HandlerOK' /\ hsem' = hsem - 1 /\ left' = left
    BY <1>1, <1>4 DEF HandlerWait, HandlerOK
  <2>2. In' = In \cup {p} /\ p \notin In /\ \A q \in left : handler'[q] = "in"
    BY <1>1, <1>4 DEF HandlerWait, HandlerOK
  <2>3. Cardinality(In') = Cardinality(In) + 1
    BY <1>1, <2>2, SetSizes
  <2>4. QED
    BY <1>1, <2>1, <2>2, <2>3 DEF OneHandler
<1>5. CASE HandlerPost(p)
  <2>1. HandlerOK' /\ hsem' = hsem + 1 /\ left' = left /\ p \notin left
    BY <1>1, <1>5 DEF HandlerPost, HandlerOK
  <2>2. In' = In \ {p} /\ p \in In /\ \A q \in left : handler'[q] = "in"
    BY <1>1, <1>5 DEF HandlerPost, HandlerOK
  <2>3. Cardinality(In') = Cardinality(In) - 1
    BY <1>1, <2>2, SetSizes
  <2>4. QED
    BY <1>1, <2>1, <2>2, <2>3 DEF OneHandler
<1>6. CASE HandlerExits(p)
  <2>1. HandlerOK' /\ hsem' = hsem /\ handler' = handler /\ \A q \in left' : handler[q] = "in"
    BY <1>1, <1>6 DEF HandlerExits, HandlerOK
  <2>2. QED
    BY <1>1, <2>1 DEF OneHandler
<1>7. QED
  BY <1>2, <1>3, <1>4, <1>5, <1>6

(* At the beginning no signal has come.                                     *)
LEMMA Start == Init => IInv
<1> SUFFICES ASSUME Init PROVE IInv
  OBVIOUS
<1>1. {q \in Pids : handler[q] = "in"} = {} /\ hsem = 1 /\ left = {}
  BY DEF Init
<1>2. HandlerOK /\ OneHandler
  BY <1>1, TreeAssumption, FS_EmptySet DEF Init, HandlerOK, OneHandler
<1>3. QED
  BY <1>2, BuildStart DEF IInv

(* Every step keeps the invariant.                                          *)
LEMMA Preserved == IInv /\ [Next]_vars => IInv'
<1> SUFFICES ASSUME IInv, [Next]_vars PROVE IInv'
  OBVIOUS
<1>1. BuildInv /\ BuildOK /\ HandlerOK /\ OneHandler /\ Root \in procs
  BY DEF IInv, BuildInv, PlaceInv
<1>2. CASE UNCHANGED vars
  <2>1. UNCHANGED <<otherVars, pc>> /\ UNCHANGED handlerVars
    BY <1>2 DEF vars, otherVars
  <2>2. QED
    BY <1>1, <2>1, BuildUntouched, HandlersStep DEF IInv
<1>3. CASE Next
  <2>1. PICK p \in procs : Step(p) \/ Deliver(p)
    BY <1>3 DEF Next
  <2>2. CASE Build(p) /\ UNCHANGED handlerVars
    <3>1. BuildInv'
      BY <1>1, <2>2, LoopTestStep, WaitStep, LoadStep, StoreStep, ForkStep, ForkFailsStep,
         PostAndReturnStep, WaitInterruptedStep DEF Build
    <3>2. QED
      BY <1>1, <2>2, <3>1, HandlersStep DEF IInv
  <2>3. CASE HandlerWait(p) \/ HandlerPost(p) \/ HandlerExits(p)
    <3>1. UNCHANGED <<otherVars, pc>>
      BY <2>3 DEF HandlerWait, HandlerPost, HandlerExits, otherVars
    <3>2. QED
      BY <1>1, <2>3, <3>1, BuildUntouched, HandlersStep DEF IInv
  <2>4. CASE Deliver(p)
    BY <1>1, <2>4, DeliverStep, HandlersStep DEF IInv
  <2>5. QED
    BY <2>1, <2>2, <2>3, <2>4 DEF Step
<1>4. QED
  BY <1>2, <1>3

(* The inductive invariant of the forking of the tree.                      *)
THEOREM TreeInvariant == Spec => []IInv
BY Start, Preserved, PTL DEF Spec

(* However the forks of N processes interleave under the semaphore that all *)
(* of them hold: there are enough processes in the end, never more than the *)
(* full tree has, each fork adds a token, and a process knows its children.  *)
THEOREM TreeIsSound == Spec => []TreeInv
<1>1. IInv => TreeInv
  BY Enough, Acquainted DEF IInv, BuildInv, TypeOK, TreeInv, EnoughProcesses
<1>2. QED
  BY <1>1, TreeInvariant, PTL
-----------------------------------------------------------------------------
(* The second phase.  Who is in its handler's critical section, and who     *)
(* sends its signals.                                                      *)
Handling == {p \in Procs : G!InHandler(p)}
Broadcasting == {p \in Procs : loc[p] = "broadcast"}

(* The process that reaches 0 points leaves inside its handler, and stays   *)
(* there: it is the holder of semaphore_handler for ever.                   *)
LeftInHandler == \A p \in exited : hloc[p] = "apply"

GameInv == G!TypeOK /\ G!HandlerToken /\ G!BroadcastToken /\ LeftInHandler
-----------------------------------------------------------------------------
(* The module SignalGame counts as this one does.                           *)
LEMMA SameCount ==
  ASSUME NEW T
  PROVE  G!Cardinality(T) = Cardinality(T)
BY DEF G!Cardinality, Cardinality

(* What SignalGame states of its tokens, before a step and after it.        *)
LEMMA TokensAre ==
  /\ G!HandlerToken <=> semH + Cardinality(Handling) = 1
  /\ G!BroadcastToken <=> semB + Cardinality(Broadcasting) = 1 + intr
  /\ G!OneWinner <=> Cardinality(exited) <= 1
<1>1. /\ G!Cardinality(Handling) = Cardinality(Handling)
      /\ G!Cardinality(Broadcasting) = Cardinality(Broadcasting)
      /\ G!Cardinality(exited) = Cardinality(exited)
  BY SameCount
<1>2. QED
  BY <1>1 DEF Handling, Broadcasting, G!HandlerToken, G!BroadcastToken, G!OneWinner
LEMMA TokensAreNext ==
  /\ G!HandlerToken' <=> semH' + Cardinality(Handling') = 1
  /\ G!BroadcastToken' <=> semB' + Cardinality(Broadcasting') = 1 + intr'
<1>1. /\ G!Cardinality(Handling') = Cardinality(Handling')
      /\ G!Cardinality(Broadcasting') = Cardinality(Broadcasting')
  BY SameCount
<1>2. QED
  BY <1>1 DEF Handling, Broadcasting, G!HandlerToken, G!BroadcastToken

(* What a process gains or loses by a signal is a number.                   *)
LEMMA ChangeType ==
  ASSUME NEW p \in Procs, NEW q
  PROVE  G!Change(p, q) \in Int
<1>1. A \in Int /\ -S \in Int /\ -(S \div 2) \in Int
  BY GameAssumption
<1>2. QED
  BY <1>1 DEF G!Change

(* A set of processes and what is left of it, or added to it, when one of  *)
(* them leaves or joins.                                                   *)
LEMMA OneMore ==
  ASSUME NEW T \in SUBSET Procs, NEW U, NEW p \in Procs,
         p \notin T, U = T \cup {p}
  PROVE  Cardinality(U) = Cardinality(T) + 1
<1>1. IsFiniteSet(T)
  BY FS_Subset, GameAssumption
<1>2. QED
  BY <1>1, FS_AddElement

(* A set of processes without one of them has one less.                     *)
LEMMA OneLess ==
  ASSUME NEW T \in SUBSET Procs, NEW U, NEW p \in T, U = T \ {p}
  PROVE  Cardinality(U) = Cardinality(T) - 1
<1>1. IsFiniteSet(T)
  BY FS_Subset, GameAssumption
<1>2. QED
  BY <1>1, FS_RemoveElement

(* How many processes a set holds is a natural number.                      *)
LEMMA CountType ==
  ASSUME NEW T \in SUBSET Procs
  PROVE  IsFiniteSet(T) /\ Cardinality(T) \in Nat
<1>1. IsFiniteSet(T)
  BY FS_Subset, GameAssumption
<1>2. QED
  BY <1>1, FS_CardinalityType
-----------------------------------------------------------------------------
(* Both semaphores are created with the value 1, nobody is in its handler  *)
(* and nobody broadcasts.                                                  *)
LEMMA InitGame == G!Init => GameInv
<1> SUFFICES ASSUME G!Init PROVE GameInv
  OBVIOUS
<1>1. G!TypeOK
  BY GameAssumption DEF G!Init, G!TypeOK, G!Addressed
<1>2. Handling = {} /\ Broadcasting = {}
  BY DEF G!Init, Handling, Broadcasting, G!InHandler
<1>3. Cardinality(Handling) = 0 /\ Cardinality(Broadcasting) = 0
  BY <1>2, FS_EmptySet
<1>4. G!HandlerToken /\ G!BroadcastToken
  BY <1>3, TokensAre DEF G!Init
<1>5. LeftInHandler
  BY DEF G!Init, LeftInHandler
<1>6. QED
  BY <1>1, <1>4, <1>5 DEF GameInv

(* Every step of a process keeps the types.                                *)
LEMMA TypeStep ==
  ASSUME G!TypeOK, NEW p \in Procs, G!Step(p)
  PROVE  G!TypeOK'
<1>1. CASE G!BeginBroadcast(p)
  BY <1>1 DEF G!BeginBroadcast, G!TypeOK, G!handlerVars
<1>2. CASE G!Signal(p)
  BY <1>2 DEF G!Signal, G!TypeOK, G!handlerVars
<1>3. CASE G!EndBroadcast(p)
  BY <1>3 DEF G!EndBroadcast, G!TypeOK, G!handlerVars
<1>4. CASE G!Deliver(p)
  <2>1. pend[p] \in Procs /\ G!NoOne \notin Procs
    BY <1>4, GameAssumption DEF G!Deliver, G!TypeOK, G!NoOne
  <2>2. failed' \in [Procs -> BOOLEAN]
    <3>1. PICK b \in BOOLEAN : failed' = [failed EXCEPT ![p] = @ \/ b]
      BY <1>4 DEF G!Deliver
    <3>2. QED
      BY <3>1, Zenon DEF G!TypeOK
  <2>3. QED
    BY <1>4, <2>1, <2>2 DEF G!Deliver, G!TypeOK, G!mainVars
<1>5. CASE G!HandlerWait(p)
  BY <1>5 DEF G!HandlerWait, G!TypeOK, G!mainVars
<1>6. CASE G!Apply(p)
  <2>1. points[p] + G!Change(p, hsrc[p]) \in Int
    BY ChangeType DEF G!TypeOK
  <2>2. points' \in [Procs -> Int]
    BY <1>6, <2>1 DEF G!Apply, G!TypeOK
  <2>3. QED
    BY <1>6, <2>2 DEF G!Apply, G!TypeOK, G!mainVars
<1>7. CASE G!HandlerPost(p)
  BY <1>7 DEF G!HandlerPost, G!TypeOK, G!mainVars
<1>8. QED
  BY <1>1, <1>2, <1>3, <1>4, <1>5, <1>6, <1>7 DEF G!Step

(* A process enters its handler's critical section by taking               *)
(* semaphore_handler and leaves it by posting it; one that exits stays in.  *)
LEMMA HandlerStep ==
  ASSUME G!TypeOK, G!HandlerToken, NEW p \in Procs, G!Step(p)
  PROVE  G!HandlerToken'
<1> USE DEF Handling, G!InHandler
<1>0. /\ semH \in Nat /\ Handling \in SUBSET Procs
      /\ semH + Cardinality(Handling) = 1
  BY TokensAre DEF G!TypeOK
<1> SUFFICES semH' + Cardinality(Handling') = 1
  BY TokensAreNext
<1>1. CASE UNCHANGED <<hloc, semH>>
  BY <1>0, <1>1
<1>2. CASE G!Deliver(p)
  <2>1. Handling' = Handling
    BY <1>2 DEF G!Deliver, G!MainRuns, G!TypeOK
  <2>2. QED
    BY <1>0, <1>2, <2>1 DEF G!Deliver
<1>3. CASE G!HandlerWait(p)
  <2>1. p \notin Handling /\ Handling' = Handling \cup {p}
    BY <1>3 DEF G!HandlerWait, G!TypeOK
  <2>2. Cardinality(Handling') = Cardinality(Handling) + 1
    BY <1>0, <2>1, OneMore
  <2>3. QED
    BY <1>0, <1>3, <2>2, CountType DEF G!HandlerWait
<1>4. CASE G!Apply(p)
  <2>1. Handling' = Handling
    BY <1>4 DEF G!Apply, G!TypeOK
  <2>2. QED
    BY <1>0, <1>4, <2>1 DEF G!Apply
<1>5. CASE G!HandlerPost(p)
  <2>1. p \in Handling /\ Handling' = Handling \ {p}
    BY <1>5 DEF G!HandlerPost, G!TypeOK
  <2>2. Cardinality(Handling') = Cardinality(Handling) - 1
    BY <1>0, <2>1, OneLess
  <2>3. QED
    BY <1>0, <1>5, <2>2, CountType DEF G!HandlerPost
<1>6. QED
  BY <1>1, <1>2, <1>3, <1>4, <1>5
  DEF G!Step, G!BeginBroadcast, G!Signal, G!EndBroadcast, G!handlerVars

(* A broadcast begins with semaphore_broadcast, or without it after an     *)
(* interrupted sem_wait; it posts the semaphore either way.                 *)
LEMMA BroadcastStep ==
  ASSUME G!TypeOK, G!BroadcastToken, NEW p \in Procs, G!Step(p)
  PROVE  G!BroadcastToken'
<1> USE DEF Broadcasting
<1>0. /\ semB \in Nat /\ intr \in Nat /\ Broadcasting \in SUBSET Procs
      /\ semB + Cardinality(Broadcasting) = 1 + intr
  BY TokensAre DEF G!TypeOK
<1> SUFFICES semB' + Cardinality(Broadcasting') = 1 + intr'
  BY TokensAreNext
<1>1. CASE UNCHANGED <<loc, semB, intr>>
  BY <1>0, <1>1
<1>2. CASE G!BeginBroadcast(p)
  <2>1. p \notin Broadcasting /\ Broadcasting' = Broadcasting \cup {p}
    BY <1>2 DEF G!BeginBroadcast, G!TypeOK
  <2>2. Cardinality(Broadcasting') = Cardinality(Broadcasting) + 1
    BY <1>0, <2>1, OneMore
  <2>3. QED
    BY <1>0, <1>2, <2>2, CountType DEF G!BeginBroadcast
<1>3. CASE G!EndBroadcast(p)
  <2>1. p \in Broadcasting /\ Broadcasting' = Broadcasting \ {p}
    BY <1>3 DEF G!EndBroadcast, G!TypeOK
  <2>2. Cardinality(Broadcasting') = Cardinality(Broadcasting) - 1
    BY <1>0, <2>1, OneLess
  <2>3. QED
    BY <1>0, <1>3, <2>2, CountType DEF G!EndBroadcast
<1>4. QED
  BY <1>1, <1>2, <1>3
  DEF G!Step, G!Signal, G!Deliver, G!HandlerWait, G!Apply, G!HandlerPost, G!mainVars

(* Nothing moves a process that has left, and one that leaves is in "apply". *)
LEMMA LeftStep ==
  ASSUME G!TypeOK, LeftInHandler, NEW p \in Procs, G!Step(p)
  PROVE  LeftInHandler'
<1>1. CASE UNCHANGED <<hloc, exited>>
  BY <1>1 DEF LeftInHandler
<1>2. CASE G!Deliver(p) \/ G!HandlerWait(p) \/ G!HandlerPost(p)
  BY <1>2 DEF G!Deliver, G!HandlerWait, G!HandlerPost, G!MainRuns, LeftInHandler, G!TypeOK
<1>3. CASE G!Apply(p)
  BY <1>3 DEF G!Apply, LeftInHandler, G!TypeOK
<1>4. QED
  BY <1>1, <1>2, <1>3
  DEF G!Step, G!BeginBroadcast, G!Signal, G!EndBroadcast, G!handlerVars
-----------------------------------------------------------------------------
(* The tokens, the types and where the leavers are, together.               *)
THEOREM GameInvariant == G!Spec => []GameInv
<1>1. GameInv /\ [G!Next]_G!vars => GameInv'
  <2> SUFFICES ASSUME GameInv, [G!Next]_G!vars PROVE GameInv'
    OBVIOUS
  <2>1. CASE G!Next
    BY <2>1, TypeStep, HandlerStep, BroadcastStep, LeftStep DEF G!Next, GameInv
  <2>2. CASE UNCHANGED G!vars
    <3>1. G!TypeOK' /\ LeftInHandler'
      BY <2>2 DEF G!vars, GameInv, G!TypeOK, LeftInHandler
    <3>2. G!HandlerToken' /\ G!BroadcastToken'
      BY <2>2 DEF G!vars, GameInv, G!HandlerToken, G!BroadcastToken, G!InHandler
    <3>3. QED
      BY <3>1, <3>2 DEF GameInv
  <2>3. QED
    BY <2>1, <2>2
<1>2. QED
  BY InitGame, <1>1, PTL DEF G!Spec

(* While somebody is between the wait and the post of semaphore_handler,   *)
(* nobody else is.                                                         *)
LEMMA OneHandles ==
  ASSUME G!TypeOK, G!HandlerToken, NEW p \in Handling, NEW q \in Handling
  PROVE  p = q
<1>1. Handling \in SUBSET Procs /\ IsFiniteSet(Handling)
  BY CountType DEF Handling
<1>2. Cardinality(Handling) \in Nat /\ Cardinality(Handling) <= 1
  BY <1>1, CountType, TokensAre DEF G!TypeOK
<1>3. Cardinality(Handling) = 1
  BY <1>1, <1>2, FS_EmptySet
<1>4. QED
  BY <1>1, <1>3, FS_Singleton

(* At most one process reaches the end of the game: the one that does keeps *)
(* semaphore_handler.                                                      *)
LEMMA WinnerIsAlone == GameInv => G!OneWinner
<1> SUFFICES ASSUME GameInv PROVE G!OneWinner
  OBVIOUS
<1>1. exited \in SUBSET Handling
  BY DEF GameInv, G!TypeOK, LeftInHandler, Handling, G!InHandler
<1>2. Cardinality(exited) <= 1 
  <2>1. CASE exited = {}
    BY <2>1, FS_EmptySet
  <2>2. CASE exited # {}
    <3>1. PICK p \in exited : exited = {p}
      BY <1>1, <2>2, OneHandles DEF GameInv
    <3>2. QED
      BY <3>1, FS_Singleton
  <2>3. QED
    BY <2>1, <2>2
<1>3. QED
  BY <1>2, TokensAre

(* Turns are kept in the whole game: semaphore_handler strictly, and        *)
(* semaphore_broadcast up to the sem_waits that a signal interrupted.       *)
THEOREM TurnsAreKept == G!Spec => []TurnInv
<1>1. GameInv => TurnInv
  BY WinnerIsAlone DEF GameInv, TurnInv, G!TurnInv
<1>2. QED
  BY <1>1, GameInvariant, PTL

(* Once a process has left at 0 points, nobody's points change any more:    *)
(* the handler's semaphore went with it.                                    *)
THEOREM PointsFreeze == G!Spec => FrozenAfterExit
<1>1. GameInv /\ [G!Next]_G!vars => [exited # {} => points' = points]_G!vars
  <2> SUFFICES ASSUME GameInv, [G!Next]_G!vars, NEW q \in exited
               PROVE  points' = points
    OBVIOUS
  <2>1. q \in Procs /\ q \in Handling
    BY DEF GameInv, G!TypeOK, LeftInHandler, Handling, G!InHandler
  <2>2. ASSUME NEW p \in Procs, G!Apply(p) PROVE FALSE
    <3>1. p \in Handling /\ p # q
      BY <2>2 DEF G!Apply, Handling, G!InHandler
    <3>2. QED
      BY <2>1, <3>1, OneHandles DEF GameInv
  <2>3. QED
    BY <2>2 DEF G!Next, G!Step, G!vars, G!BeginBroadcast, G!Signal, G!EndBroadcast, G!Deliver,
                G!HandlerWait, G!HandlerPost
<1>2. QED
  BY <1>1, GameInvariant, PTL DEF G!Spec, FrozenAfterExit, G!FrozenAfterExit
-----------------------------------------------------------------------------
(* What the run checks, a behaviour in one phase or the other, is one of    *)
(* each module's specification: the theorems above hold of it.              *)
THEOREM EachPhaseIsSound == MCSpec => [](TreeInv /\ TurnInv) /\ FrozenAfterExit
<1>1. MCInit => Init /\ G!Init
  BY DEF MCInit
<1>2. [MCNext]_mcVars => [Next]_vars /\ [G!Next]_G!vars
  BY DEF MCNext, mcVars, gVars, G!vars, Tree, Game
<1>3. MCSpec => Spec /\ G!Spec
  BY <1>1, <1>2, PTL DEF MCSpec, Spec, G!Spec
<1>4. QED
  BY <1>3, TreeIsSound, TurnsAreKept, PointsFreeze, PTL
=============================================================================
