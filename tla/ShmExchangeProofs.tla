------------------------- MODULE ShmExchangeProofs -------------------------
(***************************************************************************)
(* Proofs about the exchange through the shared segment, for any number of *)
(* sub-clients, any fields, and any choice of who may be killed.           *)
(***************************************************************************)
EXTENDS ShmExchange, FiniteSetTheorems, TLAPS

(* Type correctness: Spec => []TypeOK.                                     *)
LEMMA TypeStep == TypeOK /\ [Next]_vars => TypeOK'
<1> SUFFICES ASSUME TypeOK, [Next]_vars PROVE TypeOK'
  OBVIOUS
<1> USE DEF TypeOK, ClientPC, ServerPC, Item, Goto, ServerGoto,
            clientVars, serverVars
<1>1. CASE UNCHANGED vars
  BY <1>1 DEF vars
<1>2. ASSUME NEW c \in SubClients, Fork(c) \/ ForkFails(c) \/ Kill(c) \/ Input(c)
      PROVE  TypeOK'
  BY <1>2 DEF Fork, ForkFails, Kill, Input
<1>3. ASSUME NEW c \in SubClients, ClientWait(c) \/ ClientPost(c)
      PROVE  TypeOK'
  <2>1. /\ semClient' \in Nat /\ semServer' \in Nat
        /\ pc' \in [SubClients -> ClientPC]
    BY <1>3 DEF ClientWait, ClientPost
  <2> QED BY <1>3, <2>1 DEF ClientWait, ClientPost
<1>4. ASSUME NEW c \in SubClients, NEW f \in Fields, WriteField(c, f)
      PROVE  TypeOK'
  BY <1>4 DEF WriteField
<1>5. ASSUME NEW f \in Fields, ReadField(f)
      PROVE  TypeOK'
  BY <1>5 DEF ReadField
<1>6. CASE MainReturn \/ ServerWait \/ CountItem \/ ServerPost \/ Sigint
  <2>1. CASE MainReturn
    BY <2>1 DEF MainReturn
  <2>2. CASE ServerWait
    BY <2>2 DEF ServerWait
  <2>3. CASE CountItem
    BY <2>3 DEF CountItem
  <2>4. CASE ServerPost
    BY <2>4 DEF ServerPost
  <2>5. CASE Sigint
    BY <2>5 DEF Sigint
  <2> QED BY <1>6, <2>1, <2>2, <2>3, <2>4, <2>5
<1>7. CASE Shown
  <2>1. {got[f] : f \in Fields} \subseteq SubClients \cup {NoItem}
    BY <1>7 DEF Shown
  <2> QED BY <1>7, <2>1 DEF Shown
<1>8. QED
  BY <1>1, <1>2, <1>3, <1>4, <1>5, <1>6, <1>7
     DEF Next, SubClientStep, ServerStep

(* Every variable of the exchange keeps its type, for any users and items.  *)
THEOREM TypeCorrect == Spec => []TypeOK
<1>1. Init => TypeOK
  <2> SUFFICES ASSUME Init PROVE TypeOK
    OBVIOUS
  <2>1. pc \in [SubClients -> ClientPC] /\ written \in [SubClients -> SUBSET Fields]
    BY DEF Init, ClientPC
  <2>2. shm \in [Fields -> SubClients \cup {NoItem}]
    BY DEF Init, Item
  <2>3. got \in [Fields -> SubClients \cup {NoItem, Unread}]
    BY DEF Init, Item
  <2> QED BY <2>1, <2>2, <2>3 DEF Init, TypeOK, ServerPC
<1>2. QED BY <1>1, TypeStep, PTL DEF Spec
-----------------------------------------------------------------------------
(* The semaphores and the program counters hold one token between them.    *)
(* OneOwner is inductive given the types.                                  *)
LEMMA OneOwnerStep == TypeOK /\ OneOwner /\ [Next]_vars => OneOwner'
<1> SUFFICES ASSUME TypeOK, OneOwner, [Next]_vars PROVE OneOwner'
  OBVIOUS
<1> USE DEF TypeOK, ClientPC, ServerPC, Goto, ServerGoto, OneOwner, Holding, Reading,
            clientVars, serverVars
<1>1. CASE UNCHANGED vars
  BY <1>1 DEF vars
<1>2. ASSUME NEW c \in SubClients, Fork(c) \/ ForkFails(c) \/ Kill(c) \/ Input(c)
      PROVE  OneOwner'
  BY <1>2 DEF Fork, ForkFails, Kill, Input
<1>3. ASSUME NEW c \in SubClients, ClientWait(c) PROVE  OneOwner'
  BY <1>3 DEF ClientWait
<1>4. ASSUME NEW c \in SubClients, ClientPost(c) PROVE  OneOwner'
  BY <1>4 DEF ClientPost
<1>5. ASSUME NEW c \in SubClients, NEW f \in Fields, WriteField(c, f) PROVE  OneOwner'
  BY <1>5 DEF WriteField
<1>6. ASSUME NEW f \in Fields, ReadField(f) PROVE  OneOwner'
  BY <1>6 DEF ReadField
<1>7. CASE MainReturn \/ CountItem \/ Shown \/ Sigint
  BY <1>7 DEF MainReturn, CountItem, Shown, Sigint
<1>8. CASE ServerWait
  BY <1>8 DEF ServerWait
<1>9. CASE ServerPost
  BY <1>9 DEF ServerPost
<1>10. QED
  BY <1>1, <1>2, <1>3, <1>4, <1>5, <1>6, <1>7, <1>8, <1>9
     DEF Next, SubClientStep, ServerStep

(* The segment has one owner at a time, in every behaviour of the programs. *)
THEOREM MutualExclusion == Spec => []OneOwner
<1>1. Init => OneOwner
  BY DEF Init, OneOwner, Holding, Reading
<1>2. QED BY <1>1, TypeCorrect, OneOwnerStep, PTL DEF Spec
-----------------------------------------------------------------------------
(* The contents of the segment follow its owner: DataInv is inductive given *)
(* the types and OneOwner.                                                  *)
LEMMA DataStep == TypeOK /\ OneOwner /\ DataInv /\ [Next]_vars => DataInv'
<1> SUFFICES ASSUME TypeOK, OneOwner, DataInv, [Next]_vars PROVE DataInv'
  OBVIOUS
<1> USE DEF TypeOK, ClientPC, ServerPC, Goto, ServerGoto, OneOwner, Holding, Reading,
            Sent, Item, DataInv, Waiting, clientVars, serverVars
<1>1. CASE UNCHANGED vars
  BY <1>1 DEF vars
<1>2. ASSUME NEW c \in SubClients, Fork(c) \/ ForkFails(c) \/ Kill(c) \/ Input(c)
      PROVE  DataInv'
  BY <1>2 DEF Fork, ForkFails, Kill, Input
<1>3. ASSUME NEW c \in SubClients, ClientWait(c) PROVE DataInv'
  BY <1>3 DEF ClientWait
<1>4. ASSUME NEW c \in SubClients, ClientPost(c) PROVE DataInv'
  BY <1>4 DEF ClientPost
<1>5. ASSUME NEW c \in SubClients, NEW f \in Fields, WriteField(c, f) PROVE DataInv'
  BY <1>5 DEF WriteField
<1>6. ASSUME NEW f \in Fields, ReadField(f) PROVE DataInv'
  BY <1>6 DEF ReadField
<1>7. CASE MainReturn \/ CountItem \/ Sigint
  BY <1>7 DEF MainReturn, CountItem, Sigint
<1>8. CASE ServerWait
  BY <1>8 DEF ServerWait
<1>9. CASE ServerPost
  BY <1>9 DEF ServerPost
<1>10. CASE Shown
  BY <1>10, ShmAssumption DEF Shown
<1>11. QED
  BY <1>1, <1>2, <1>3, <1>4, <1>5, <1>6, <1>7, <1>8, <1>9, <1>10
     DEF Next, SubClientStep, ServerStep
THEOREM DataCorrect == Spec => []DataInv
<1>1. Init => DataInv
  BY DEF Init, DataInv, Waiting, Sent, Holding
<1>2. QED BY <1>1, TypeCorrect, MutualExclusion, DataStep, PTL DEF Spec

(* The inductive invariant as a whole: types, one owner of the segment, and *)
(* contents that follow the owner.                                          *)
THEOREM ExchangeCorrect == Spec => []ExchangeInv
<1>1. ExchangeInv <=> TypeOK /\ OneOwner /\ DataInv
  BY DEF ExchangeInv
<1>2. QED BY <1>1, TypeCorrect, MutualExclusion, DataCorrect, PTL

(* The server never prints a mixture of items, nor a segment nobody filled. *)
THEOREM NeverTorn == Spec => []NoTornItem
<1>1. TypeOK /\ DataInv => NoTornItem
  BY DEF TypeOK, DataInv, Waiting, NoTornItem
<1>2. QED BY <1>1, TypeCorrect, DataCorrect, PTL
-----------------------------------------------------------------------------
(* When the server has printed every field, they are those of one item that *)
(* was posted and not printed before.                                       *)
LEMMA ShownOne ==
  ASSUME TypeOK, DataInv, Shown
  PROVE  \E c \in Sent \ shown : /\ shown' = shown \cup {c}
                                 /\ Sent' = Sent
<1>1. PICK c \in Sent \ shown : \A f \in Fields : shm[f] = c
  BY DEF DataInv, Waiting, Shown, ServerGoto
<1>2. \A f \in Fields : got[f] = c
  BY <1>1 DEF DataInv, Shown, ServerGoto
<1>3. {got[f] : f \in Fields} = {c}
  BY <1>2, ShmAssumption
<1>4. Sent' = Sent
  BY DEF Shown, clientVars, Sent
<1>5. QED BY <1>1, <1>3, <1>4 DEF Shown

(* Only Shown changes the set of printed items.                             *)
LEMMA ShownUnchanged ==
  ASSUME [Next]_vars, ~Shown
  PROVE  shown' = shown
<1>1. CASE UNCHANGED vars
  BY <1>1 DEF vars
<1>2. CASE Next
  BY <1>2 DEF Next, Fork, ForkFails, SubClientStep, ClientWait, Input, WriteField,
       ClientPost, Kill, MainReturn, ServerStep, ServerWait, ReadField, CountItem,
       ServerPost, Sigint, serverVars
<1>3. QED BY <1>1, <1>2

(* The count is the number of items printed.  FS_AddElement carries the     *)
(* cardinality over the step that prints one more.                          *)
LEMMA CountStep ==
  TypeOK /\ DataInv /\ CountIsItemsShown /\ [Next]_vars => CountIsItemsShown'
<1> SUFFICES ASSUME TypeOK, DataInv, CountIsItemsShown, [Next]_vars
             PROVE  CountIsItemsShown'
  OBVIOUS
<1>0. IsFiniteSet(shown) /\ Cardinality(shown) \in Nat
  <2>1. shown \subseteq SubClients
    BY DEF DataInv, Sent
  <2> QED BY <2>1, ShmAssumption, FS_Subset, FS_CardinalityType
<1>1. CASE Shown
  <2>1. PICK c \in Sent \ shown : shown' = shown \cup {c}
    BY <1>1, ShownOne
  <2>2. Cardinality(shown') = Cardinality(shown) + 1
    BY <1>0, <2>1, FS_AddElement
  <2> QED BY <1>1, <2>2 DEF Shown, ServerGoto, CountIsItemsShown, TypeOK
<1>2. CASE ~Shown
  <2>1. shown' = shown
    BY <1>2, ShownUnchanged
  <2>2. Cardinality(shown') = Cardinality(shown)
    BY <2>1
  <2> USE <1>0, <2>2 DEF CountIsItemsShown, TypeOK, ServerPC
  <2>3. CASE CountItem
    BY <2>3 DEF CountItem, ServerGoto
  <2>4. CASE Sigint
    BY <2>4 DEF Sigint
  <2>5. CASE ServerWait \/ ServerPost
    BY <2>5 DEF ServerWait, ServerPost, ServerGoto
  <2>6. CASE \E f \in Fields : ReadField(f)
    BY <2>6 DEF ReadField
  <2>7. CASE UNCHANGED serverVars
    BY <2>7 DEF serverVars
  <2> QED
    BY <1>2, <2>3, <2>4, <2>5, <2>6, <2>7
       DEF Next, vars, serverVars, Fork, ForkFails, SubClientStep, ClientWait, Input,
           WriteField, ClientPost, Kill, MainReturn, ServerStep
<1>3. QED BY <1>1, <1>2

(* What has been counted is what has been shown, in every reachable state.  *)
THEOREM CountCorrect == Spec => []CountIsItemsShown
<1>1. Init => CountIsItemsShown
  BY FS_EmptySet DEF Init, CountIsItemsShown
<1>2. QED BY <1>1, TypeCorrect, DataCorrect, CountStep, PTL DEF Spec
-----------------------------------------------------------------------------
(* The two programs implement the one-place mailbox: a post is a Put, the   *)
(* last printf is a Take, and every other step leaves the mailbox alone.    *)
LEMMA MailboxStep ==
  TypeOK /\ OneOwner /\ DataInv /\ [Next]_vars => [Box!Next]_(Box!mailboxVars)
<1> SUFFICES ASSUME TypeOK, OneOwner, DataInv, [Next]_vars
             PROVE  [Box!Next]_(Box!mailboxVars)
  OBVIOUS
<1> USE DEF Box!Next, Box!mailboxVars, Box!Put, Box!Take
<1>1. CASE Shown
  <2>1. PICK c \in Sent \ shown : shown' = shown \cup {c} /\ Sent' = Sent
    BY <1>1, ShownOne
  <2> QED BY <2>1 DEF Sent
<1>2. ASSUME NEW c \in SubClients, ClientPost(c) PROVE Box!Put(c)
  <2>1. Sent = shown /\ c \notin Sent
    BY <1>2 DEF ClientPost, Goto, DataInv, Holding, Sent
  <2>2. Sent' = Sent \cup {c}
    BY <1>2 DEF ClientPost, Goto, Sent, TypeOK
  <2> QED BY <1>2, <2>1, <2>2 DEF ClientPost, serverVars
<1>3. CASE ~Shown /\ ~\E c \in SubClients : ClientPost(c)
  <2>1. shown' = shown
    BY <1>3, ShownUnchanged
  <2>2. Sent' = Sent
    <3>1. CASE UNCHANGED clientVars
      BY <3>1 DEF clientVars, Sent
    <3>2. ASSUME NEW c \in SubClients,
                 Fork(c) \/ ForkFails(c) \/ ClientWait(c) \/ Input(c) \/ Kill(c)
          PROVE  Sent' = Sent
      BY <3>2 DEF Fork, ForkFails, ClientWait, Input, Kill, Goto, Sent, TypeOK
    <3>3. CASE UNCHANGED pc
      BY <3>3 DEF Sent
    <3> QED
      BY <1>3, <3>1, <3>2, <3>3
         DEF Next, vars, clientVars, SubClientStep, WriteField, MainReturn,
             ServerStep, ServerWait, ReadField, CountItem, ServerPost, Sigint
  <2> QED BY <2>1, <2>2
<1>4. QED BY <1>1, <1>2, <1>3

(* Every step of the exchange is a step of the abstract mailbox or leaves   *)
(* it as it is.                                                             *)
THEOREM MailboxImplemented == Spec => ImplementsMailbox
<1>1. Init => Box!Init
  BY DEF Init, Box!Init, Sent
<1>2. QED
  BY <1>1, TypeCorrect, MutualExclusion, DataCorrect, MailboxStep, PTL
     DEF Spec, ImplementsMailbox, Box!Spec
=============================================================================
