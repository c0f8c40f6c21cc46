--------------------------- MODULE IbmPollProofs ---------------------------
(***************************************************************************)
(* Proofs about the poll() echo server of ibmpoll.c, for any set of        *)
(* clients that the table can hold, any sizes of the buffers, and sockets  *)
(* that inherit FIONBIO or not: what the table lists, what the echo keeps, *)
(* and how the server ends.                                                *)
(***************************************************************************)
EXTENDS IbmPoll, FiniteSetTheorems, TLAPS

(* The table: from 1 on it lists the open connections, each once, and what   *)
(* a closed one has left until the table is squeezed.                       *)
Entries == 1 .. nfds - 1
TabInv ==
  /\ \A k \in Entries : fds[k] \in Clients \cup {Gone}
  /\ \A k, l \in Entries : fds[k] = fds[l] /\ fds[k] # Gone => k = l
  /\ pc # "stopped" =>
       /\ \A k \in Entries : fds[k] # Gone => fds[k] \in open
       /\ \A c \in open : \E k \in Entries : fds[k] = c
  /\ pc = "stopped" => open = {}
  /\ compress \/ \A k \in Entries : fds[k] # Gone
  /\ pc = "poll" => ~compress

(* The queue of connects holds each of its clients once, which then has no   *)
(* entry yet; there are never more entries than clients.                    *)
Known == {c \in Clients : st[c] # "new"}
QueueInv ==
  /\ backlog \in Seq(Clients)
  /\ \A p \in 1 .. Len(backlog) : backlog[p] \in Known \ open
  /\ \A p, q \in 1 .. Len(backlog) : backlog[p] = backlog[q] => p = q
  /\ open \subseteq Known
  /\ nfds - 1 + Len(backlog) <= Cardinality(Known)
  /\ size <= 1 + Cardinality(Clients)

(* What poll() has reported of the entries that are still to be scanned      *)
(* holds, though connections are closed and accepted in between.            *)
WasReset == {c \in Clients : st[c] \in {"rst", "finrst"}}
Scanning == {"scan", "accept", "recv", "send"}
ScanInv ==
  /\ pc \in Scanning =>
       /\ i <= size /\ size <= nfds
       /\ \A k \in i .. size - 1 :
            fds[k] # Gone /\ (revents[k] = "other" => fds[k] \in WasReset)
  /\ pc \in {"accept", "recv", "send"} => i < size
  /\ pc \in {"recv", "send"} => fds[i] \in Clients
  /\ pc = "send" => len > 0
  /\ pc = "compress" => i <= nfds /\ \A k \in 0 .. i - 1 : fds[k] # Gone

(* What has been sent is somewhere, once, or dropped.                       *)
EchoInv ==
  /\ \A c \in Clients : inbox[c] + Echoing(c) + outbox[c] + got[c] <= typed[c]
  /\ EchoExact

(* Why the server ends.                                                     *)
EndInv ==
  ending = "error" \/ stop = "error" => WasReset # {}

ServerInv == TypeOK /\ TabInv /\ QueueInv /\ ScanInv /\ EchoInv /\ EndInv

(* A client that has not connected has sent nothing.                        *)
NewInv == \A c \in Clients : st[c] = "new" => typed[c] = 0

IInv == ServerInv /\ NewInv
-----------------------------------------------------------------------------
(* The two marks are no clients, and there are at most as many entries as    *)
(* the table has room for.                                                  *)
LEMMA Marks == Listen # Gone /\ Listen \notin Clients /\ Gone \notin Clients
  BY IbmAssumption DEF Listen, Gone

(* A set of clients is counted, and the table has room for all of them and  *)
(* the listener.                                                            *)
LEMMA Counted ==
  ASSUME NEW S \in SUBSET Clients
  PROVE  /\ IsFiniteSet(S) /\ Cardinality(S) \in Nat /\ Cardinality(Clients) \in Nat
         /\ Cardinality(S) <= Cardinality(Clients) /\ Cardinality(Clients) + 1 < MaxFds
<1>1. IsFiniteSet(Clients) /\ Cardinality(Clients) + 1 < MaxFds
  BY IbmAssumption
<1>2. IsFiniteSet(S) /\ Cardinality(S) <= Cardinality(Clients)
  BY <1>1, FS_Subset
<1>3. QED
  BY <1>1, <1>2, FS_CardinalityType

(* What poll() reports.                                                     *)
LEMMA ReadinessIs ==
  ASSUME NEW fd
  PROVE  /\ Readiness(fd) \in {"none", "in", "other"}
         /\ Readiness(fd) = "other" => Failed(fd)
         /\ Readiness(fd) = "in" => fd = Listen \/ fd \in open
  BY DEF Readiness, Readable

(* The room in the table.                                                   *)
LEMMA Room ==
  ASSUME ServerInv
  PROVE  /\ Known \subseteq Clients /\ Cardinality(Known) \in Nat
         /\ Len(backlog) \in Nat /\ nfds \in Nat /\ nfds >= 1
         /\ nfds - 1 + Len(backlog) <= Cardinality(Clients)
         /\ Cardinality(Clients) \in Nat /\ MaxFds \in Nat /\ Cardinality(Clients) + 1 < MaxFds
<1>1. Known \subseteq Clients
  BY DEF Known
<1>2. QED
  BY <1>1, Counted, IbmAssumption DEF ServerInv, TypeOK, QueueInv
-----------------------------------------------------------------------------
(* Steps of the scan that touch neither table nor connections.              *)
LEMMA PollStep ==
  ASSUME ServerInv, PollReturns
  PROVE  ServerInv'
<1> USE DEF ServerInv, PollReturns, table, data
<1>1. nfds <= 1 + Cardinality(Clients) /\ nfds \in Nat /\ nfds < MaxFds
  BY Room
<1>2. \A k \in Slots : Readiness(fds[k]) \in {"none", "in", "other"}
  BY ReadinessIs
<1>3. TypeOK'
  <2>1. revents' \in [Slots -> {"none", "in", "other"}]
    BY <1>2 DEF TypeOK
  <2>2. size' \in 0 .. nfds + Cardinality(Clients) /\ i' \in Slots /\ pc' \in Places
    BY <1>1, Room DEF Slots, Places
  <2>3. QED
    BY <2>1, <2>2 DEF TypeOK, Slots
<1>4. TabInv'
  BY DEF TabInv, Entries
<1>5. QueueInv'
  BY <1>1 DEF QueueInv, Known
<1>6. ScanInv'
  <2>1. ASSUME NEW k \in 0 .. nfds - 1, Failed(fds[k]) PROVE fds[k] \in WasReset
    <3>1. fds[k] \in Clients /\ fds[k] \in open
      BY <2>1, Marks DEF Failed, TabInv, Entries, TypeOK
    <3>2. QED
      BY <2>1, <3>1 DEF Failed, WasReset
  <2>2. ASSUME NEW k \in 0 .. nfds - 1 PROVE fds[k] # Gone
    <3>1. k = 0 \/ k \in Entries
      BY <1>1 DEF Entries
    <3>2. QED
      BY <3>1, Marks DEF TabInv, TypeOK
  <2>3. \A k \in 0 .. nfds - 1 : revents'[k] = Readiness(fds[k])
    BY <1>1, Room DEF Slots
  <2>4. \A k \in 0 .. nfds - 1 : fds'[k] # Gone /\ (revents'[k] = "other" => fds'[k] \in WasReset')
    BY <2>1, <2>2, <2>3, ReadinessIs DEF WasReset
  <2>5. pc' = "scan" /\ i' = 0 /\ size' = nfds /\ nfds' = nfds
    OBVIOUS
  <2>6. QED
    BY <1>1, <2>4, <2>5 DEF ScanInv
<1>7. EchoInv'
  BY DEF EchoInv, EchoExact, Echoing
<1>8. EndInv'
  BY DEF EndInv, WasReset
<1>9. QED
  BY <1>3, <1>4, <1>5, <1>6, <1>7, <1>8

(* A poll that times out takes the server to its end.                       *)
LEMMA TimeOutStep ==
  ASSUME ServerInv, PollTimesOut
  PROVE  ServerInv'
<1> USE DEF ServerInv, PollTimesOut, table, data
<1>1. TypeOK'
  BY DEF TypeOK, Places
<1>2. TabInv'
  BY DEF TabInv, Entries
<1>3. QueueInv' /\ ScanInv'
  BY DEF QueueInv, Known, ScanInv, Scanning
<1>4. EchoInv' /\ EndInv'
  BY DEF EchoInv, EchoExact, Echoing, EndInv, WasReset
<1>5. QED
  BY <1>1, <1>2, <1>3, <1>4

(* The entry that the scan goes on to is in the table.                      *)
LEMMA SlotTypes ==
  ASSUME ServerInv, pc \in Scanning
  PROVE  /\ i \in Nat /\ size \in Nat /\ i <= size /\ size <= nfds /\ nfds < MaxFds
         /\ i + 1 \in Slots /\ 0 \in Slots
         /\ i < size => i \in 0 .. nfds - 1
<1>1. i \in Nat /\ size \in Nat /\ nfds \in Nat
  BY Room DEF ServerInv, TypeOK, Slots
<1>2. QED
  BY <1>1, Room DEF ServerInv, ScanInv, Slots

(* Looking at a slot, or at the end of the table, disturbs nothing.         *)
LEMMA ScanSteps ==
  ASSUME ServerInv, ScanSkip \/ ScanReadable \/ ScanEnds
  PROVE  ServerInv'
<1> USE DEF ServerInv, ScanSkip, ScanReadable, ScanEnds, NextSlot, table, data
<1>1. pc = "scan" /\ i \in Nat /\ size \in Nat /\ i <= size /\ size <= nfds /\ nfds < MaxFds
      /\ i + 1 \in Slots /\ 0 \in Slots /\ (i < size => i \in 0 .. nfds - 1)
  BY SlotTypes DEF Scanning
<1>2. TypeOK'
  <2>1. i' \in Slots /\ pc' \in Places
    BY <1>1 DEF Places, TypeOK
  <2>2. QED
    BY <2>1 DEF TypeOK
<1>3. TabInv'
  BY DEF TabInv, Entries
<1>4. QueueInv'
  BY DEF QueueInv, Known
<1>5. ScanInv'
  <2>1. \A k \in i .. size - 1 :
          fds'[k] # Gone /\ (revents'[k] = "other" => fds'[k] \in WasReset')
    BY <1>1 DEF ScanInv, WasReset, Scanning
  <2>2. CASE ScanSkip
    BY <1>1, <2>1, <2>2 DEF ScanInv
  <2>3. CASE ScanReadable
    <3>1. fds[i] # Listen => fds[i] \in Clients
      <4>1. i = 0 \/ i \in Entries
        BY <1>1, <2>3, Room DEF Entries
      <4>2. fds[i] # Gone
        BY <1>1, <2>3 DEF ScanInv, Scanning
      <4>3. QED
        BY <4>1, <4>2 DEF TypeOK, TabInv
    <3>2. i < size /\ i' = i /\ size' = size /\ nfds' = nfds /\ fds' = fds
          /\ \/ pc' = "accept" \/ (pc' = "recv" /\ fds[i] # Listen)
      BY <2>3
    <3>3. QED
      BY <1>1, <2>1, <3>1, <3>2 DEF ScanInv
  <2>4. CASE ScanEnds
    <3>1. pc' = "compress" /\ i' = 0 /\ 0 <= nfds' /\ 0 .. 0 - 1 = {}
      BY <1>1, <2>4, Room
    <3>2. pc' \notin Scanning
      BY <3>1 DEF Scanning
    <3>3. QED
      BY <3>1, <3>2 DEF ScanInv
  <2>5. QED
    BY <2>2, <2>3, <2>4
<1>6. EchoInv'
  BY DEF EchoInv, EchoExact, Echoing
<1>7. EndInv'
  BY DEF EndInv, WasReset
<1>8. QED
  BY <1>2, <1>3, <1>4, <1>5, <1>6, <1>7

(* A slot with another event than POLLIN ends the loop.                     *)
LEMMA ErrorStep ==
  ASSUME ServerInv, ScanError
  PROVE  ServerInv'
<1> USE DEF ServerInv, ScanError, table, data
<1>1. pc = "scan" /\ i \in Nat /\ size \in Nat /\ nfds \in Nat /\ i \in i .. size - 1 /\ 0 \in Slots
  BY SlotTypes, Room DEF Scanning
<1>2. TypeOK'
  BY <1>1 DEF TypeOK, Places
<1>3. TabInv'
  BY DEF TabInv, Entries
<1>4. QueueInv'
  BY DEF QueueInv, Known
<1>5. ScanInv'
  BY <1>1 DEF ScanInv, Scanning
<1>6. EchoInv'
  BY DEF EchoInv, EchoExact, Echoing
<1>7. EndInv'
  <2>1. fds[i] \in WasReset
    BY <1>1 DEF ScanInv, Scanning
  <2>2. QED
    BY <2>1 DEF EndInv, WasReset
<1>8. QED
  BY <1>2, <1>3, <1>4, <1>5, <1>6, <1>7
-----------------------------------------------------------------------------
(* Accepting: a client enters the table behind the entries of the scan.     *)
LEMMA AcceptStep ==
  ASSUME ServerInv, Accept
  PROVE  ServerInv'
<1> USE DEF ServerInv, Accept, loop
<1> DEFINE h == Head(backlog)
<1>1. /\ backlog \in Seq(Clients) /\ backlog # <<>> /\ h = backlog[1] /\ 1 \in 1 .. Len(backlog)
      /\ h \in Clients /\ h \in Known /\ h \notin open /\ h # Gone
  BY Marks DEF QueueInv
<1>2. /\ backlog' \in Seq(Clients) /\ Len(backlog') = Len(backlog) - 1
      /\ \A p \in 1 .. Len(backlog') : p + 1 \in 1 .. Len(backlog) /\ backlog'[p] = backlog[p + 1]
  BY <1>1
<1>3. /\ nfds \in Nat /\ nfds >= 1 /\ nfds + 1 < MaxFds /\ nfds' = nfds + 1 /\ nfds \in Slots
      /\ Cardinality(Clients) \in Nat /\ MaxFds \in Nat
  BY <1>1, Room DEF Slots
<1>4. fds' = [fds EXCEPT ![nfds] = h] /\ fds \in [Slots -> Clients \cup {Listen, Gone}]
      /\ open' = open \cup {h}
  BY DEF TypeOK
<1>5. pc = "accept" /\ i \in Nat /\ size \in Nat /\ i < size /\ size <= nfds
  BY SlotTypes DEF Scanning, ScanInv
<1> HIDE DEF h
<1>6. /\ fds'[nfds] = h /\ \A k \in Slots : k # nfds => fds'[k] = fds[k]
      /\ \A k \in Entries : k \in Slots /\ k # nfds
      /\ Entries' = Entries \cup {nfds}
  BY <1>3, <1>4 DEF Entries, Slots
<1>7. TypeOK'
  <2>1. fds' \in [Slots -> Clients \cup {Listen, Gone}] /\ fds'[0] = Listen
    BY <1>1, <1>3, <1>4, <1>6 DEF TypeOK, Slots
  <2>2. nfds' \in 1 .. MaxFds - 1 /\ size \in 0 .. nfds' + Cardinality(Clients)
    BY <1>3, <1>5
  <2>3. open' \subseteq Clients
    BY <1>1, <1>4 DEF TypeOK
  <2>4. QED
    BY <2>1, <2>2, <2>3 DEF TypeOK, data
<1>8. TabInv'
  <2>1. \A k \in Entries : fds[k] # h
    BY <1>1, <1>5 DEF TabInv
  <2>2. \A k, l \in Entries' : fds'[k] = fds'[l] /\ fds'[k] # Gone => k = l
    BY <1>6, <2>1 DEF TabInv
  <2>3. \A k \in Entries' : fds'[k] \in Clients \cup {Gone}
    BY <1>1, <1>6 DEF TabInv
  <2>4. \A k \in Entries' : fds'[k] # Gone => fds'[k] \in open'
    BY <1>4, <1>5, <1>6 DEF TabInv
  <2>5. \A c \in open' : \E k \in Entries' : fds'[k] = c
    BY <1>4, <1>5, <1>6 DEF TabInv
  <2>6. compress' \/ \A k \in Entries' : fds'[k] # Gone
    BY <1>1, <1>6 DEF TabInv
  <2>7. QED
    BY <1>5, <2>2, <2>3, <2>4, <2>5, <2>6 DEF TabInv
<1>9. QueueInv'
  <2>1. Known' = Known
    BY DEF Known
  <2>2. \A p \in 1 .. Len(backlog') : backlog'[p] \in Known \ open'
    BY <1>1, <1>2, <1>4 DEF QueueInv
  <2>3. \A p, q \in 1 .. Len(backlog') : backlog'[p] = backlog'[q] => p = q
    BY <1>1, <1>2 DEF QueueInv
  <2>4. nfds' - 1 + Len(backlog') <= Cardinality(Known)
    BY <1>1, <1>2, <1>3, Room DEF QueueInv
  <2>5. QED
    BY <1>1, <1>2, <1>4, <2>1, <2>2, <2>3, <2>4 DEF QueueInv
<1>10. ScanInv'
  <2>1. \A k \in i .. size - 1 : fds'[k] = fds[k]
    BY <1>3, <1>5, <1>6 DEF Slots
  <2>2. QED
    BY <1>3, <1>5, <2>1 DEF ScanInv, WasReset, Scanning
<1>11. EchoInv'
  BY <1>5 DEF EchoInv, EchoExact, Echoing, data
<1>12. EndInv'
  BY DEF EndInv, WasReset
<1>13. QED
  BY <1>7, <1>8, <1>9, <1>10, <1>11, <1>12

(* accept finds nobody more, or fails; the scan goes on.                    *)
LEMMA AcceptEndsStep ==
  ASSUME ServerInv, AcceptEnds
  PROVE  ServerInv'
<1> USE DEF ServerInv, AcceptEnds, NextSlot, table, data
<1>1. /\ pc = "accept" /\ i \in Nat /\ size \in Nat /\ i < size /\ size <= nfds
      /\ i + 1 \in Slots
  BY SlotTypes DEF Scanning, ScanInv
<1>2. TypeOK'
  BY <1>1 DEF TypeOK, Places
<1>3. TabInv'
  BY <1>1 DEF TabInv, Entries
<1>4. QueueInv'
  BY DEF QueueInv, Known
<1>5. ScanInv'
  BY <1>1 DEF ScanInv, WasReset, Scanning
<1>6. EchoInv'
  BY <1>1 DEF EchoInv, EchoExact, Echoing
<1>7. EndInv'
  BY DEF EndInv, WasReset
<1>8. QED
  BY <1>2, <1>3, <1>4, <1>5, <1>6, <1>7
-----------------------------------------------------------------------------
(* The connection that is served has an entry of its own.                   *)
LEMMA Served ==
  ASSUME ServerInv, pc \in {"recv", "send"}
  PROVE  /\ i \in Entries /\ i \in Slots /\ i < size /\ size <= nfds /\ i + 1 \in Slots
         /\ i \in Nat /\ i > 0 /\ size \in Nat /\ nfds \in Nat
         /\ fds[i] \in Clients /\ fds[i] # Gone /\ fds[i] \in open
         /\ \A k \in Entries : fds[k] = fds[i] => k = i
<1>1. /\ i \in Nat /\ size \in Nat /\ nfds \in Nat /\ i < size /\ size <= nfds /\ nfds < MaxFds
      /\ i + 1 \in Slots /\ i \in 0 .. nfds - 1
  BY SlotTypes, Room DEF ServerInv, ScanInv, Scanning
<1>2. fds[i] \in Clients /\ fds[i] # Gone
  BY Marks DEF ServerInv, ScanInv
<1>3. i # 0
  BY <1>2, Marks DEF ServerInv, TypeOK
<1>4. i \in Entries /\ i \in Slots
  BY <1>1, <1>3 DEF Entries, ServerInv, TypeOK
<1>5. QED
  BY <1>1, <1>2, <1>3, <1>4 DEF ServerInv, TabInv

(* The entry of a closed connection stays behind, marked.                   *)
LEMMA CloseStep ==
  ASSUME ServerInv, pc \in {"recv", "send"}, CloseConn, UNCHANGED data,
         pc = "send" /\ stop = "no" => st[fds[i]] # "up" \/ typed[fds[i]] > SndBuf
  PROVE  ServerInv'
<1> USE DEF ServerInv, CloseConn, NextSlot
<1>1. /\ i \in Entries /\ i \in Slots /\ i < size /\ size <= nfds /\ i + 1 \in Slots
      /\ i \in Nat /\ i > 0 /\ size \in Nat /\ nfds \in Nat
      /\ fds[i] \in Clients /\ fds[i] # Gone /\ fds[i] \in open
      /\ \A k \in Entries : fds[k] = fds[i] => k = i
  BY Served
<1>2. /\ fds' = [fds EXCEPT ![i] = Gone] /\ fds \in [Slots -> Clients \cup {Listen, Gone}]
      /\ Entries' = Entries /\ Entries \subseteq Slots
  BY Room DEF TypeOK, Entries, Slots
<1>3. fds'[i] = Gone /\ \A k \in Slots : k # i => fds'[k] = fds[k]
  BY <1>1, <1>2
<1>4. TypeOK'
  <2>1. fds' \in [Slots -> Clients \cup {Listen, Gone}]
    BY <1>2
  <2>2. fds'[0] = Listen
    BY <1>1, <1>3, SlotTypes DEF TypeOK, Scanning
  <2>3. QED
    BY <1>1, <2>1, <2>2 DEF TypeOK, Places, data
<1>5. TabInv'
  <2>1. \A k, l \in Entries : fds'[k] = fds'[l] /\ fds'[k] # Gone => k = l
    BY <1>2, <1>3 DEF TabInv
  <2>2. \A k \in Entries : fds'[k] \in Clients \cup {Gone}
    BY <1>2, <1>3 DEF TabInv
  <2>3. \A k \in Entries : fds'[k] # Gone => fds'[k] \in open'
    BY <1>1, <1>2, <1>3 DEF TabInv
  <2>4. \A c \in open' : \E k \in Entries : fds'[k] = c
    BY <1>1, <1>2, <1>3 DEF TabInv
  <2>5. QED
    BY <1>2, <2>1, <2>2, <2>3, <2>4 DEF TabInv
<1>6. QueueInv'
  BY DEF QueueInv, Known
<1>7. ScanInv'
  <2>1. \A k \in i + 1 .. size - 1 : k \in Slots /\ k # i
    BY <1>1, Room, SMTT(30) DEF Slots
  <2>2. WasReset' = WasReset /\ \A k \in i + 1 .. size - 1 : fds'[k] = fds[k] /\ revents'[k] = revents[k]
    BY <1>3, <2>1 DEF WasReset
  <2>3. \A k \in i + 1 .. size - 1 : fds[k] # Gone /\ (revents[k] = "other" => fds[k] \in WasReset)
    BY <1>1 DEF ScanInv, Scanning
  <2>4. pc' = "scan" /\ i' = i + 1 /\ size' = size /\ nfds' = nfds /\ i + 1 <= size
    BY <1>1
  <2>5. QED
    BY <1>1, <2>2, <2>3, <2>4 DEF ScanInv
<1>8. EchoInv'
  <2>1. ASSUME NEW c \in Clients PROVE Echoing(c)' = 0 /\ Echoing(c) \in Nat
    BY DEF Echoing, TypeOK
  <2>2. UNCHANGED <<typed, inbox, outbox, got, st, stop>>
    BY DEF data
  <2>3. ASSUME NEW c \in Clients
        PROVE  inbox[c] + Echoing(c)' + outbox[c] + got[c] <= typed[c]
    BY <2>1 DEF EchoInv, TypeOK
  <2>4. ASSUME NEW c \in Clients, st[c] = "up", stop = "no", typed[c] <= SndBuf
        PROVE  typed[c] = inbox[c] + Echoing(c)' + outbox[c] + got[c]
    <3>1. Echoing(c) = 0
      BY <1>1, <2>4, IbmAssumption DEF Echoing, TypeOK
    <3>2. QED
      BY <2>1, <2>4, <3>1 DEF EchoInv, EchoExact
  <2>5. QED
    BY <2>2, <2>3, <2>4 DEF EchoInv, EchoExact
<1>9. EndInv'
  BY DEF EndInv, WasReset
<1>10. QED
  BY <1>4, <1>5, <1>6, <1>7, <1>8, <1>9

(* A recv that would block leaves the connection; one that gets the end     *)
(* closes it.                                                               *)
LEMMA RecvSteps ==
  ASSUME ServerInv, RecvWouldBlock \/ RecvEnd
  PROVE  ServerInv'
<1>1. CASE RecvWouldBlock
  <2> USE DEF ServerInv, RecvWouldBlock, NextSlot, table, data
  <2>1. pc = "recv" /\ i \in Nat /\ size \in Nat /\ i < size /\ size <= nfds /\ i + 1 \in Slots
    BY <1>1, Served
  <2>2. TypeOK'
    BY <1>1, <2>1 DEF TypeOK, Places
  <2>3. TabInv'
    BY <1>1, <2>1 DEF TabInv, Entries
  <2>4. QueueInv'
    BY <1>1 DEF QueueInv, Known
  <2>5. ScanInv'
    BY <1>1, <2>1 DEF ScanInv, WasReset, Scanning
  <2>6. EchoInv'
    BY <1>1, <2>1 DEF EchoInv, EchoExact, Echoing
  <2>7. EndInv'
    BY <1>1 DEF EndInv, WasReset
  <2>8. QED
    BY <2>2, <2>3, <2>4, <2>5, <2>6, <2>7
<1>2. CASE RecvEnd
  BY <1>2, CloseStep DEF RecvEnd
<1>3. QED
  BY <1>1, <1>2

(* The counters of what is under way are numbers.                           *)
LEMMA EchoTypes ==
  ASSUME ServerInv
  PROVE  /\ typed \in [Clients -> Nat] /\ inbox \in [Clients -> Nat] /\ outbox \in [Clients -> Nat]
         /\ got \in [Clients -> Nat] /\ len \in Nat /\ MaxTyped \in [Clients -> Nat]
<1>1. len \in Nat
  BY IbmAssumption DEF ServerInv, TypeOK
<1>2. QED
  BY <1>1, IbmAssumption DEF ServerInv, TypeOK

(* What is read is on its way back at once.                                 *)
LEMMA RecvDataStep ==
  ASSUME ServerInv, RecvData
  PROVE  ServerInv'
<1> USE DEF ServerInv, RecvData, table
<1> DEFINE c == fds[i]
<1>1. /\ pc = "recv" /\ c \in Clients /\ i \in Nat /\ size \in Nat /\ i < size /\ size <= nfds
  BY Served
<1>2. /\ typed \in [Clients -> Nat] /\ inbox \in [Clients -> Nat] /\ outbox \in [Clients -> Nat]
      /\ got \in [Clients -> Nat] /\ Buf \in Nat \ {0} /\ inbox[c] > 0
  BY IbmAssumption DEF TypeOK
<1>3. /\ len' \in Nat /\ len' > 0 /\ len' <= Buf /\ len' <= inbox[c]
      /\ inbox' = [inbox EXCEPT ![c] = inbox[c] - len']
  BY <1>1, <1>2 DEF Least
<1>4. /\ inbox' \in [Clients -> Nat] /\ inbox'[c] = inbox[c] - len'
      /\ \A d \in Clients : d # c => inbox'[d] = inbox[d]
      /\ pc' = "send" /\ fds' = fds /\ i' = i
  BY <1>1, <1>2, <1>3
<1> HIDE DEF c
<1>5. /\ \A d \in Clients : Echoing(d) = 0 /\ Echoing(d)' = (IF d = c THEN len' ELSE 0)
  BY <1>1, <1>4 DEF Echoing, c
<1>6. \A d \in Clients : inbox'[d] + Echoing(d)' = inbox[d] + Echoing(d)
  BY <1>1, <1>2, <1>3, <1>4, <1>5
<1>7. EchoInv'
  <2>1. UNCHANGED <<typed, outbox, got, st, stop>>
    OBVIOUS
  <2>2. QED
    BY <1>6, <2>1 DEF EchoInv, EchoExact
<1>8. TypeOK'
  <2>1. \A d \in Clients : inbox'[d] <= inbox[d]
    BY <1>2, <1>3, <1>4
  <2>2. \A d \in Clients : {typed'[d], inbox'[d], outbox'[d], got'[d]} \subseteq 0 .. MaxTyped[d]
    BY <1>2, <1>4, <2>1, IbmAssumption DEF TypeOK
  <2>3. QED
    BY <1>2, <1>3, <1>4, <2>2 DEF TypeOK, Places
<1>9. TabInv'
  BY <1>1, <1>4 DEF TabInv, Entries
<1>10. QueueInv'
  BY DEF QueueInv, Known
<1>11. ScanInv'
  BY <1>1, <1>3, <1>4 DEF ScanInv, WasReset, Scanning, c
<1>12. EndInv'
  BY DEF EndInv, WasReset
<1>13. QED
  BY <1>7, <1>8, <1>9, <1>10, <1>11, <1>12

(* A send that is taken, in part perhaps, by a client that is there.        *)
LEMMA SentStep ==
  ASSUME ServerInv, pc = "send", NEW m \in Nat, m <= len,
         stop = "no" /\ st[fds[i]] = "up" /\ typed[fds[i]] <= SndBuf => m = len,
         outbox' = [outbox EXCEPT ![fds[i]] = @ + m], pc' = "recv",
         UNCHANGED <<table, revents, i, size, len, ending, stop, open, backlog, st, typed, inbox, got>>
  PROVE  ServerInv'
<1> USE DEF ServerInv, table
<1> DEFINE c == fds[i]
<1>1. c \in Clients /\ i \in Nat /\ size \in Nat /\ i < size /\ size <= nfds
  BY Served
<1>2. /\ typed \in [Clients -> Nat] /\ inbox \in [Clients -> Nat] /\ outbox \in [Clients -> Nat]
      /\ got \in [Clients -> Nat] /\ len \in Nat /\ MaxTyped \in [Clients -> Nat]
  BY EchoTypes
<1>3. /\ outbox' \in [Clients -> Nat] /\ outbox'[c] = outbox[c] + m
      /\ \A d \in Clients : d # c => outbox'[d] = outbox[d]
  BY <1>1, <1>2
<1>4. /\ pc' = "recv" /\ fds' = fds /\ i' = i
      /\ UNCHANGED <<typed, inbox, got, st, stop, len>>
  OBVIOUS
<1>5. /\ st[c] = "up" /\ stop = "no" /\ typed[c] <= SndBuf => m = len
  OBVIOUS
<1> HIDE DEF c
<1>6. /\ \A d \in Clients : Echoing(d)' = 0 /\ Echoing(d) = (IF d = c THEN len ELSE 0)
  BY <1>1, <1>4 DEF Echoing, c
<1>7. EchoInv'
  <2>1. ASSUME NEW d \in Clients
        PROVE  inbox[d] + Echoing(d)' + outbox'[d] + got[d] <= typed[d]
    BY <1>2, <1>3, <1>6 DEF EchoInv
  <2>2. ASSUME NEW d \in Clients, st[d] = "up", stop = "no", typed[d] <= SndBuf
        PROVE  typed[d] = inbox[d] + Echoing(d)' + outbox'[d] + got[d]
    <3>1. typed[d] = inbox[d] + Echoing(d) + outbox[d] + got[d]
      BY <2>2 DEF EchoInv, EchoExact
    <3>2. CASE d = c
      BY <1>2, <1>3, <1>5, <1>6, <2>2, <3>1, <3>2
    <3>3. CASE d # c
      BY <1>2, <1>3, <1>6, <3>1, <3>3
    <3>4. QED
      BY <3>2, <3>3
  <2>3. QED
    BY <1>4, <2>1, <2>2 DEF EchoInv, EchoExact
<1>8. TypeOK'
  <2>1. ASSUME NEW d \in Clients PROVE outbox'[d] \in 0 .. MaxTyped[d]
    <3>1. outbox'[d] <= typed[d] /\ typed[d] <= MaxTyped[d]
      BY <1>2, <1>3, <1>6 DEF EchoInv, TypeOK
    <3>2. QED
      BY <1>2, <1>3, <3>1
  <2>2. QED
    BY <1>3, <1>4, <2>1 DEF TypeOK, Places
<1>9. TabInv'
  BY <1>4 DEF TabInv, Entries
<1>10. QueueInv'
  BY DEF QueueInv, Known
<1>11. ScanInv'
  BY <1>1, <1>4 DEF ScanInv, WasReset, Scanning, c
<1>12. EndInv'
  BY DEF EndInv, WasReset
<1>13. QED
  BY <1>7, <1>8, <1>9, <1>10, <1>11, <1>12

(* What was received is echoed; a send that fails closes the connection.    *)
LEMMA SendSteps ==
  ASSUME ServerInv, Send \/ SendFails
  PROVE  ServerInv'
<1>1. CASE SendFails
  BY <1>1, CloseStep DEF SendFails
<1>2. CASE Send
  <2> DEFINE c == fds[i]
             room == SndBuf - outbox[c]
  <2>1. pc = "send" /\ st[c] = "up" /\ c \in Clients
    BY <1>2, Served DEF Send
  <2>2. /\ typed[c] \in Nat /\ inbox[c] \in Nat /\ outbox[c] \in Nat /\ got[c] \in Nat
        /\ len \in Nat /\ len > 0 /\ SndBuf \in Nat
    BY <2>1, IbmAssumption DEF ServerInv, TypeOK, ScanInv
  <2>3. stop = "no" /\ typed[c] <= SndBuf => room >= len
    <3>1. Echoing(c) = len
      BY <2>1 DEF Echoing
    <3>2. QED
      BY <2>1, <2>2, <3>1 DEF ServerInv, EchoInv, EchoExact
  <2>4. CASE /\ IF Inherits THEN room > 0 ELSE room >= len
             /\ outbox' = [outbox EXCEPT ![c] = @ + Least(room, len)] /\ pc' = "recv"
             /\ UNCHANGED <<table, revents, i, size, len, ending, stop, open, backlog, st, typed, inbox, got>>
    <3>1. Least(room, len) \in Nat /\ Least(room, len) <= len
          /\ (room >= len => Least(room, len) = len)
      BY <2>2, <2>4 DEF Least
    <3>2. QED
      BY <2>1, <2>3, <2>4, <3>1, SentStep
  <2>5. CASE room = 0 /\ CloseConn /\ UNCHANGED data
    <3>1. stop = "no" => typed[c] > SndBuf
      BY <2>2, <2>3, <2>5
    <3>2. QED
      BY <2>1, <2>5, <3>1, CloseStep
  <2>6. QED
    BY <1>2, <2>4, <2>5 DEF Send
<1>3. QED
  BY <1>1, <1>2

(* To a client that has closed; the second time its reset is there.         *)
LEMMA ClosedSteps ==
  ASSUME ServerInv, SendToClosed \/ Sigpipe
  PROVE  ServerInv'
<1>1. CASE SendToClosed
  <2> USE DEF ServerInv, SendToClosed, table, data
  <2> DEFINE c == fds[i]
  <2>1. pc = "send" /\ pc' = "recv" /\ c \in Clients /\ i \in Nat /\ size \in Nat /\ i < size
    BY <1>1, Served
  <2>2. st \in [Clients -> States] /\ st[c] \in {"fin", "finsent"} /\ st' = [st EXCEPT ![c] = "finsent"]
    BY <1>1 DEF TypeOK
  <2>3. /\ st' \in [Clients -> States] /\ st'[c] = "finsent"
        /\ \A d \in Clients : d # c => st'[d] = st[d]
    BY <2>1, <2>2 DEF States
  <2> HIDE DEF c
  <2>4. Known' = Known /\ WasReset' = WasReset
    BY <2>1, <2>2, <2>3 DEF Known, WasReset
  <2>5. TypeOK'
    BY <1>1, <2>3 DEF TypeOK, Places
  <2>6. TabInv'
    BY <1>1, <2>1 DEF TabInv, Entries
  <2>7. QueueInv'
    BY <1>1, <2>4 DEF QueueInv
  <2>8. ScanInv'
    BY <1>1, <2>1, <2>4 DEF ScanInv, Scanning, c
  <2>9. EchoInv'
    <3>1. \A d \in Clients : Echoing(d)' = 0 /\ Echoing(d) \in Nat /\ (d # c => Echoing(d) = 0)
      BY <2>1, EchoTypes DEF Echoing, c
    <3>2. UNCHANGED <<typed, inbox, outbox, got, stop>> /\ st'[c] # "up"
      BY <1>1, <2>3
    <3>3. ASSUME NEW d \in Clients
          PROVE  inbox[d] + Echoing(d)' + outbox[d] + got[d] <= typed[d]
      BY <3>1, EchoTypes DEF EchoInv
    <3>4. ASSUME NEW d \in Clients, st'[d] = "up", stop = "no", typed[d] <= SndBuf
          PROVE  typed[d] = inbox[d] + Echoing(d)' + outbox[d] + got[d]
      BY <2>3, <3>1, <3>4 DEF EchoInv, EchoExact
    <3>5. QED
      BY <3>2, <3>3, <3>4 DEF EchoInv, EchoExact
  <2>10. EndInv'
    BY <1>1, <2>4 DEF EndInv
  <2>11. QED
    BY <2>5, <2>6, <2>7, <2>8, <2>9, <2>10
<1>2. CASE Sigpipe
  <2> USE DEF ServerInv, Sigpipe, table, data
  <2>1. TypeOK'
    BY <1>2 DEF TypeOK, Places
  <2>2. TabInv'
    BY <1>2 DEF TabInv, Entries
  <2>3. QueueInv'
    BY <1>2 DEF QueueInv, Known
  <2>4. ScanInv'
    BY <1>2 DEF ScanInv, Scanning
  <2>5. EchoInv'
    <3>1. \A d \in Clients : Echoing(d)' = 0 /\ Echoing(d) \in Nat
      BY <1>2, EchoTypes DEF Echoing
    <3>2. ASSUME NEW d \in Clients
          PROVE  inbox[d] + Echoing(d)' + outbox[d] + got[d] <= typed[d]
      BY <3>1, EchoTypes DEF EchoInv
    <3>3. QED
      BY <1>2, <3>2 DEF EchoInv, EchoExact
  <2>6. EndInv'
    BY <1>2 DEF EndInv, WasReset
  <2>7. QED
    BY <2>1, <2>2, <2>3, <2>4, <2>5, <2>6
<1>3. QED
  BY <1>1, <1>2
-----------------------------------------------------------------------------
(* Squeezing the table: what is before i is listed for good.                *)
LEMMA ShiftStep ==
  ASSUME ServerInv, CompressShift
  PROVE  ServerInv'
<1> USE DEF ServerInv, CompressShift, loop
<1>1. /\ i \in Nat /\ nfds \in Nat /\ i < nfds /\ fds[i] = Gone /\ nfds < MaxFds /\ MaxFds \in Nat
      /\ nfds' = nfds - 1 /\ i' = i /\ pc' = "compress" /\ pc = "compress"
      /\ \A k \in 0 .. i - 1 : fds[k] # Gone
  BY Room DEF TypeOK, Slots, ScanInv
<1>2. i > 0 /\ i \in Entries
  BY <1>1, Marks DEF TypeOK, Entries
<1>3. \A k \in Slots : fds'[k] = IF k \in i .. nfds - 1 THEN fds[k + 1] ELSE fds[k]
  OBVIOUS
<1> DEFINE from(k) == IF k < i THEN k ELSE k + 1
<1>4. \A k \in Entries' : fds'[k] = fds[from(k)] /\ from(k) \in Entries /\ from(k) # i
  BY <1>1, <1>2, <1>3 DEF Entries, Slots
<1>5. \A k, l \in Entries' : from(k) = from(l) => k = l
  BY <1>1 DEF Entries
<1>6. \A k \in Entries : k # i => \E l \in Entries' : from(l) = k
  <2>1. SUFFICES ASSUME NEW k \in Entries, k # i PROVE \E l \in Entries' : from(l) = k
    OBVIOUS
  <2>2. CASE k < i
    BY <1>1, <2>1, <2>2 DEF Entries
  <2>3. CASE k > i
    <3>1. k - 1 \in Entries' /\ from(k - 1) = k
      BY <1>1, <1>2, <2>1, <2>3 DEF Entries
    <3>2. QED
      BY <3>1
  <2>4. QED
    BY <1>1, <2>1, <2>2, <2>3 DEF Entries
<1> HIDE DEF from
<1>7. TypeOK'
  <2>1. \A k \in Slots : (IF k \in i .. nfds - 1 THEN fds[k + 1] ELSE fds[k]) \in Clients \cup {Listen, Gone}
    BY <1>1 DEF TypeOK, Slots
  <2>2. fds' \in [Slots -> Clients \cup {Listen, Gone}]
    BY <2>1
  <2>3. fds'[0] = Listen
    BY <1>1, <1>2, <1>3 DEF TypeOK, Slots
  <2>4. nfds' \in 1 .. MaxFds - 1
    BY <1>1, <1>2
  <2>5. size' \in 0 .. nfds' + Cardinality(Clients)
    BY <1>1, <1>2, Room, SMTT(30) DEF TypeOK, QueueInv
  <2>6. QED
    BY <2>2, <2>3, <2>4, <2>5 DEF TypeOK, data
<1>8. TabInv'
  <2>1. \A k, l \in Entries' : fds'[k] = fds'[l] /\ fds'[k] # Gone => k = l
    BY <1>4, <1>5 DEF TabInv
  <2>2. \A k \in Entries' : fds'[k] \in Clients \cup {Gone}
    BY <1>4 DEF TabInv
  <2>3. \A k \in Entries' : fds'[k] # Gone => fds'[k] \in open'
    BY <1>1, <1>4 DEF TabInv
  <2>4. ASSUME NEW c \in open' PROVE \E k \in Entries' : fds'[k] = c
    <3>1. PICK k \in Entries : fds[k] = c
      BY <1>1 DEF TabInv
    <3>2. k # i
      BY <1>1, <2>4, <3>1, Marks DEF TypeOK
    <3>3. QED
      BY <1>4, <1>6, <3>1, <3>2
  <2>5. QED
    BY <1>1, <2>1, <2>2, <2>3, <2>4 DEF TabInv
<1>9. QueueInv'
  <2>1. Known' = Known /\ nfds' - 1 + Len(backlog) <= Cardinality(Known)
    BY <1>1, Room DEF Known, QueueInv
  <2>2. QED
    BY <2>1 DEF QueueInv
<1>10. ScanInv'
  <2>1. \A k \in 0 .. i - 1 : fds'[k] = fds[k]
    BY <1>1, <1>3 DEF Slots
  <2>2. QED
    BY <1>1, <2>1 DEF ScanInv, Scanning
<1>11. EchoInv'
  BY <1>1 DEF EchoInv, EchoExact, Echoing, data
<1>12. EndInv'
  BY DEF EndInv, WasReset
<1>13. QED
  BY <1>7, <1>8, <1>9, <1>10, <1>11, <1>12

(* Squeezing passes over a slot that is in use, or ends.                    *)
LEMMA SqueezeSteps ==
  ASSUME ServerInv, CompressSkip \/ CompressEnds
  PROVE  ServerInv'
<1> USE DEF ServerInv, CompressSkip, CompressEnds, table, data
<1>1. /\ i \in Nat /\ nfds \in Nat /\ nfds < MaxFds /\ MaxFds \in Nat /\ pc = "compress"
      /\ i <= nfds /\ \A k \in 0 .. i - 1 : fds[k] # Gone
      /\ fds' = fds /\ nfds' = nfds
  BY Room DEF TypeOK, Slots, ScanInv
<1>2. TypeOK'
  <2>1. CASE CompressSkip
    <3>1. i' \in Slots
      BY <1>1, <2>1 DEF Slots
    <3>2. QED
      BY <2>1, <3>1 DEF TypeOK
  <2>2. CASE CompressEnds
    <3>1. pc' \in Places /\ stop' \in {"no", "timeout", "accept", "error", "sigpipe"} /\ compress' \in BOOLEAN
      BY <2>2 DEF Places, TypeOK
    <3>2. QED
      BY <2>2, <3>1 DEF TypeOK
  <2>3. QED
    BY <2>1, <2>2
<1>3. TabInv'
  <2>1. CASE CompressSkip
    BY <1>1, <2>1 DEF TabInv, Entries
  <2>2. CASE CompressEnds
    <3>1. \A k \in Entries : fds[k] # Gone
      BY <1>1, <2>2 DEF TabInv, Entries
    <3>2. pc' # "stopped" /\ open' = open /\ pc # "stopped" /\ ~compress'
      BY <1>1, <2>2
    <3>3. QED
      BY <1>1, <3>1, <3>2 DEF TabInv, Entries
  <2>3. QED
    BY <2>1, <2>2
<1>4. QueueInv'
  BY DEF QueueInv, Known
<1>5. ScanInv'
  BY <1>1 DEF ScanInv, Scanning
<1>6. EchoInv'
  BY <1>1 DEF EchoInv, EchoExact, Echoing
<1>7. EndInv'
  BY DEF EndInv, WasReset
<1>8. QED
  BY <1>2, <1>3, <1>4, <1>5, <1>6, <1>7

(* At the end everything that is open is in the table and is closed.        *)
LEMMA CleanupStep ==
  ASSUME ServerInv, Cleanup
  PROVE  ServerInv'
<1> USE DEF ServerInv, Cleanup, table, data
<1>1. open' = {}
  BY Room DEF TabInv, Entries
<1>2. TypeOK'
  BY <1>1 DEF TypeOK, Places
<1>3. TabInv'
  BY <1>1 DEF TabInv, Entries
<1>4. QueueInv'
  BY <1>1 DEF QueueInv, Known
<1>5. ScanInv'
  BY DEF ScanInv, Scanning
<1>6. EchoInv'
  BY DEF EchoInv, EchoExact, Echoing
<1>7. EndInv'
  BY DEF EndInv, WasReset
<1>8. QED
  BY <1>2, <1>3, <1>4, <1>5, <1>6, <1>7
-----------------------------------------------------------------------------
(* The clients.                                                             *)
LEMMA ConnectStep ==
  ASSUME ServerInv, NewInv, NEW c \in Clients, Connect(c)
  PROVE  ServerInv'
<1> USE DEF ServerInv, Connect, table, loop, data
<1>1. /\ st \in [Clients -> States] /\ st[c] = "new" /\ backlog \in Seq(Clients)
      /\ st' = [st EXCEPT ![c] = "up"] /\ backlog' = Append(backlog, c)
  BY DEF TypeOK, QueueInv
<1>2. st'[c] = "up" /\ \A d \in Clients : d # c => st'[d] = st[d]
  BY <1>1
<1>3. /\ backlog' \in Seq(Clients) /\ Len(backlog') = Len(backlog) + 1
      /\ backlog'[Len(backlog) + 1] = c /\ \A p \in 1 .. Len(backlog) : backlog'[p] = backlog[p]
  BY <1>1
<1>4. Known' = Known \cup {c} /\ c \notin Known /\ WasReset' = WasReset
  BY <1>1, <1>2 DEF Known, WasReset
<1>5. Cardinality(Known') = Cardinality(Known) + 1
  BY <1>4, Counted, FS_AddElement DEF Known
<1>6. TypeOK'
  BY <1>1 DEF TypeOK, States
<1>7. TabInv'
  BY DEF TabInv, Entries
<1>8. QueueInv'
  <2>1. \A p \in 1 .. Len(backlog') : backlog'[p] \in Known' \ open'
    BY <1>3, <1>4 DEF QueueInv
  <2>2. \A p, q \in 1 .. Len(backlog') : backlog'[p] = backlog'[q] => p = q
    BY <1>3, <1>4 DEF QueueInv
  <2>3. nfds' - 1 + Len(backlog') <= Cardinality(Known')
    BY <1>3, <1>5, Room DEF QueueInv
  <2>4. QED
    BY <1>3, <1>4, <2>1, <2>2, <2>3 DEF QueueInv
<1>9. ScanInv'
  BY <1>4 DEF ScanInv, Scanning
<1>10. EchoInv'
  <2>1. typed[c] = inbox[c] + Echoing(c) + outbox[c] + got[c]
    <3>1. Echoing(c) \in Nat /\ typed[c] = 0
      BY <1>1, EchoTypes DEF Echoing, NewInv
    <3>2. inbox[c] + Echoing(c) + outbox[c] + got[c] <= 0
      BY <3>1 DEF EchoInv
    <3>3. QED
      BY <3>1, <3>2, EchoTypes
  <2>2. QED
    BY <1>2, <2>1 DEF EchoInv, EchoExact, Echoing
<1>11. EndInv'
  BY <1>4 DEF EndInv
<1>12. QED
  BY <1>6, <1>7, <1>8, <1>9, <1>10, <1>11

(* A client sends or reads; the server sees none of it.                     *)
LEMMA TypeStep ==
  ASSUME ServerInv, NEW c \in Clients, Type(c) \/ ReadEcho(c)
  PROVE  ServerInv'
<1> USE DEF ServerInv, Type, ReadEcho, table, loop
<1>1. st[c] = "up" /\ UNCHANGED <<fds, nfds, pc, i, len, st, stop, open>>
  OBVIOUS
<1>2. /\ typed \in [Clients -> Nat] /\ inbox \in [Clients -> Nat] /\ outbox \in [Clients -> Nat]
      /\ got \in [Clients -> Nat] /\ len \in Nat /\ MaxTyped \in [Clients -> Nat]
  BY EchoTypes
<1>3. ASSUME NEW d \in Clients PROVE Echoing(d)' = Echoing(d) /\ Echoing(d) \in Nat
  BY <1>1, <1>2 DEF Echoing
<1>4. CASE Type(c)
  <2>1. /\ typed' = [typed EXCEPT ![c] = typed[c] + 1] /\ inbox' = [inbox EXCEPT ![c] = inbox[c] + 1]
        /\ typed[c] < MaxTyped[c] /\ UNCHANGED <<outbox, got>>
    BY <1>4
  <2>2. /\ typed' \in [Clients -> Nat] /\ inbox' \in [Clients -> Nat]
        /\ typed'[c] = typed[c] + 1 /\ inbox'[c] = inbox[c] + 1
        /\ \A d \in Clients : d # c => typed'[d] = typed[d] /\ inbox'[d] = inbox[d]
    BY <1>2, <2>1
  <2>3. EchoInv'
    <3>1. ASSUME NEW d \in Clients
          PROVE  inbox'[d] + Echoing(d)' + outbox[d] + got[d] <= typed'[d]
      BY <1>2, <1>3, <2>2 DEF EchoInv
    <3>2. ASSUME NEW d \in Clients, st[d] = "up", stop = "no", typed'[d] <= SndBuf
          PROVE  typed'[d] = inbox'[d] + Echoing(d)' + outbox[d] + got[d]
      <4>1. typed[d] <= SndBuf
        BY <1>2, <2>2, <3>2, IbmAssumption
      <4>2. typed[d] = inbox[d] + Echoing(d) + outbox[d] + got[d]
        BY <3>2, <4>1 DEF EchoInv, EchoExact
      <4>3. QED
        BY <1>2, <1>3, <2>2, <4>2
    <3>3. QED
      BY <1>1, <2>1, <3>1, <3>2 DEF EchoInv, EchoExact
  <2>4. TypeOK'
    <3>1. ASSUME NEW d \in Clients
          PROVE  typed'[d] \in 0 .. MaxTyped[d] /\ inbox'[d] \in 0 .. MaxTyped[d]
      <4>1. typed'[d] <= MaxTyped[d]
        BY <1>2, <2>1, <2>2 DEF TypeOK
      <4>2. inbox'[d] <= typed'[d]
        BY <1>1, <1>2, <1>3, <2>1, <2>2, <2>3 DEF EchoInv
      <4>3. QED
        BY <1>2, <2>2, <4>1, <4>2
    <3>2. QED
      BY <1>4, <2>1, <2>2, <3>1 DEF TypeOK
  <2>5. QED
    BY <1>4, <2>3, <2>4 DEF TabInv, Entries, QueueInv, Known, ScanInv, WasReset, EndInv
<1>5. CASE ReadEcho(c)
  <2>1. /\ got' = [got EXCEPT ![c] = got[c] + outbox[c]] /\ outbox' = [outbox EXCEPT ![c] = 0]
        /\ UNCHANGED <<typed, inbox>>
    BY <1>5
  <2>2. /\ got' \in [Clients -> Nat] /\ outbox' \in [Clients -> Nat]
        /\ got'[c] = got[c] + outbox[c] /\ outbox'[c] = 0
        /\ \A d \in Clients : d # c => got'[d] = got[d] /\ outbox'[d] = outbox[d]
    BY <1>2, <2>1
  <2>3. \A d \in Clients : outbox'[d] + got'[d] = outbox[d] + got[d]
    BY <1>2, <2>2
  <2>4. EchoInv'
    <3>1. ASSUME NEW d \in Clients
          PROVE  inbox[d] + Echoing(d)' + outbox'[d] + got'[d] = inbox[d] + Echoing(d) + outbox[d] + got[d]
      BY <1>2, <1>3, <2>2, <2>3
    <3>2. QED
      BY <1>1, <2>1, <3>1 DEF EchoInv, EchoExact
  <2>5. TypeOK'
    <3>1. ASSUME NEW d \in Clients
          PROVE  got'[d] \in 0 .. MaxTyped[d] /\ outbox'[d] \in 0 .. MaxTyped[d]
      <4>1. inbox[d] + Echoing(d) + outbox'[d] + got'[d] <= typed[d] /\ typed[d] <= MaxTyped[d]
        BY <1>3, <2>1, <2>4 DEF EchoInv, TypeOK
      <4>2. QED
        BY <1>2, <1>3, <2>2, <4>1
    <3>2. QED
      BY <1>5, <2>1, <2>2, <3>1 DEF TypeOK
  <2>6. QED
    BY <1>5, <2>4, <2>5 DEF TabInv, Entries, QueueInv, Known, ScanInv, WasReset, EndInv
<1>6. QED
  BY <1>4, <1>5

(* A client closes its socket, or its kernel resets the connection.         *)
LEMMA LeaveStep ==
  ASSUME ServerInv, NEW c \in Clients, Close(c) \/ Reset(c) \/ ResetArrives(c)
  PROVE  ServerInv'
<1> USE DEF ServerInv, table, loop
<1>1. /\ st \in [Clients -> States] /\ st[c] # "new" /\ st[c] \notin {"rst", "finrst"}
      /\ UNCHANGED <<table, loop, open, backlog, typed, inbox, got>>
  BY DEF TypeOK, Close, Reset, ResetArrives, data
<1>2. PICK s \in States \ {"new", "up"} : st' = [st EXCEPT ![c] = s]
  BY DEF Close, Reset, ResetArrives, States
<1>3. st' \in [Clients -> States] /\ st'[c] = s /\ \A d \in Clients : d # c => st'[d] = st[d]
  BY <1>1, <1>2
<1>4. /\ typed \in [Clients -> Nat] /\ inbox \in [Clients -> Nat] /\ outbox \in [Clients -> Nat]
      /\ got \in [Clients -> Nat] /\ len \in Nat /\ MaxTyped \in [Clients -> Nat]
  BY EchoTypes
<1>5. outbox' = outbox \/ outbox' = [outbox EXCEPT ![c] = 0]
  BY DEF Close, Reset, ResetArrives, data
<1>6. /\ outbox' \in [Clients -> Nat] /\ \A d \in Clients : outbox'[d] <= outbox[d]
      /\ \A d \in Clients : d # c => outbox'[d] = outbox[d]
  BY <1>4, <1>5
<1>7. Known' = Known /\ WasReset \subseteq WasReset'
  BY <1>1, <1>3 DEF Known, WasReset
<1>8. TypeOK'
  <2>1. \A d \in Clients : outbox'[d] \in 0 .. MaxTyped[d]
    <3>1. \A d \in Clients : outbox[d] <= MaxTyped[d]
      BY <1>4 DEF TypeOK
    <3>2. QED
      BY <1>4, <1>6, <3>1
  <2>2. QED
    BY <1>1, <1>3, <1>6, <2>1 DEF TypeOK
<1>9. TabInv'
  BY <1>1 DEF TabInv, Entries
<1>10. QueueInv'
  BY <1>1, <1>7 DEF QueueInv
<1>11. ScanInv'
  BY <1>1, <1>7 DEF ScanInv
<1>12. EchoInv'
  <2>1. ASSUME NEW d \in Clients PROVE Echoing(d)' = Echoing(d) /\ Echoing(d) \in Nat
    BY <1>1, <1>4 DEF Echoing
  <2>2. ASSUME NEW d \in Clients
        PROVE  inbox[d] + Echoing(d)' + outbox'[d] + got[d] <= typed[d]
    BY <1>4, <1>6, <2>1 DEF EchoInv
  <2>3. ASSUME NEW d \in Clients, st'[d] = "up", stop = "no", typed[d] <= SndBuf
        PROVE  typed[d] = inbox[d] + Echoing(d)' + outbox'[d] + got[d]
    BY <1>2, <1>3, <1>6, <2>1, <2>3 DEF EchoInv, EchoExact
  <2>4. QED
    BY <1>1, <2>2, <2>3 DEF EchoInv, EchoExact
<1>13. EndInv'
  BY <1>1, <1>7 DEF EndInv
<1>14. QED
  BY <1>8, <1>9, <1>10, <1>11, <1>12, <1>13
-----------------------------------------------------------------------------
(* At the beginning there is the listener alone.                            *)
LEMMA Start == Init => IInv
<1> SUFFICES ASSUME Init PROVE IInv
  OBVIOUS
<1> USE DEF Init
<1>1. Cardinality(Clients) \in Nat /\ MaxFds \in Nat /\ Cardinality(Clients) + 1 < MaxFds
  BY Counted, IbmAssumption
<1>2. Entries = {} /\ Known = {} /\ open = {} /\ 0 \in Slots /\ nfds - 1 = 0
  BY <1>1 DEF Entries, Known, Slots
<1>3. TypeOK
  <2>1. nfds \in 1 .. MaxFds - 1 /\ size \in 0 .. nfds + Cardinality(Clients) /\ len \in 0 .. Buf
    BY <1>1, IbmAssumption
  <2>2. typed = [c \in Clients |-> 0] /\ {typed, inbox, outbox, got} \subseteq [Clients -> Nat]
    OBVIOUS
  <2>3. \A c \in Clients : {typed[c], inbox[c], outbox[c], got[c]} \subseteq 0 .. MaxTyped[c]
    BY IbmAssumption
  <2>4. QED
    BY <1>2, <2>1, <2>2, <2>3 DEF TypeOK, Places, States
<1>4. TabInv
  BY <1>2 DEF TabInv
<1>5. QueueInv
  <2>1. Cardinality(Known) \in Nat
    BY Counted DEF Known
  <2>2. QED
    BY <1>1, <1>2, <2>1 DEF QueueInv
<1>6. ScanInv
  BY DEF ScanInv, Scanning
<1>7. EchoInv
  BY DEF EchoInv, EchoExact, Echoing
<1>8. EndInv /\ NewInv
  BY DEF EndInv, NewInv
<1>9. QED
  BY <1>3, <1>4, <1>5, <1>6, <1>7, <1>8 DEF IInv, ServerInv

(* Who has not connected has sent nothing, after any step.                  *)
LEMMA NewStep ==
  ASSUME ServerInv, NewInv, [Next]_vars
  PROVE  NewInv'
<1>1. CASE UNCHANGED <<typed, st>>
  BY <1>1 DEF NewInv
<1>2. CASE SendToClosed
  BY <1>2 DEF NewInv, SendToClosed, data, ServerInv, TypeOK
<1>3. ASSUME NEW c \in Clients, Client(c) PROVE NewInv'
  BY <1>3 DEF NewInv, Client, Connect, Type, ReadEcho, Close, Reset, ResetArrives, data, ServerInv,
     TypeOK
<1>4. CASE Server /\ ~SendToClosed
  <2>1. UNCHANGED <<typed, st>>
    <3>1. CASE PollReturns \/ ScanSkip \/ ScanError \/ ScanReadable \/ ScanEnds
      BY <3>1 DEF PollReturns, ScanSkip, ScanError, ScanReadable, ScanEnds, data
    <3>2. CASE Accept \/ AcceptEnds \/ RecvData \/ RecvWouldBlock
      BY <3>2 DEF Accept, AcceptEnds, RecvData, RecvWouldBlock, data
    <3>3. CASE RecvEnd \/ SendFails
      BY <3>3 DEF RecvEnd, SendFails, CloseConn, data
    <3>4. CASE Send
      BY <3>4 DEF Send, CloseConn, data
    <3>5. CASE Sigpipe \/ CompressShift \/ CompressSkip \/ CompressEnds \/ Cleanup
      BY <3>5 DEF Sigpipe, CompressShift, CompressSkip, CompressEnds, Cleanup, data
    <3>6. QED
      BY <1>4, <3>1, <3>2, <3>3, <3>4, <3>5 DEF Server
  <2>2. QED
    BY <1>1, <2>1
<1>5. CASE PollTimesOut \/ UNCHANGED vars
  BY <1>1, <1>5 DEF PollTimesOut, vars, data
<1>6. QED
  BY <1>2, <1>3, <1>4, <1>5 DEF Next

(* Every step keeps the invariant.                                          *)
LEMMA Preserved == IInv /\ [Next]_vars => IInv'
<1> SUFFICES ASSUME ServerInv, NewInv, [Next]_vars PROVE IInv'
  BY DEF IInv
<1>1. CASE UNCHANGED vars
  <2>1. UNCHANGED <<fds, nfds, compress, revents, i, size, len, ending, pc, stop, open, backlog, st,
                    typed, inbox, outbox, got>>
    BY <1>1 DEF vars, table, loop, data
  <2>2. TypeOK'
    BY <2>1 DEF ServerInv, TypeOK
  <2>3. TabInv' /\ QueueInv'
    BY <2>1 DEF ServerInv, TabInv, Entries, QueueInv, Known
  <2>4. ScanInv' /\ EndInv'
    BY <2>1 DEF ServerInv, ScanInv, EndInv, WasReset
  <2>5. EchoInv'
    BY <2>1 DEF ServerInv, EchoInv, EchoExact, Echoing
  <2>6. QED
    BY <2>2, <2>3, <2>4, <2>5, NewStep DEF IInv, ServerInv
<1>2. CASE Server
  <2>1. ServerInv'
    BY <1>2, PollStep, ScanSteps, ErrorStep, AcceptStep, AcceptEndsStep, RecvDataStep, RecvSteps,
       SendSteps, ClosedSteps, ShiftStep, SqueezeSteps, CleanupStep DEF Server
  <2>2. QED
    BY <2>1, NewStep DEF IInv
<1>3. CASE PollTimesOut
  BY <1>3, TimeOutStep, NewStep DEF IInv
<1>4. ASSUME NEW c \in Clients, Client(c) PROVE IInv'
  BY <1>4, ConnectStep, TypeStep, LeaveStep, NewStep DEF IInv, Client
<1>5. QED
  BY <1>1, <1>2, <1>3, <1>4 DEF Next

(* The inductive invariant of the echo server.                              *)
THEOREM IbmInvariant == Spec => []IInv
BY Start, Preserved, PTL DEF Spec

(* The table lists the open connections, each once, whenever the server      *)
(* polls, and what a client has sent is neither lost nor repeated.           *)
THEOREM TableIsKept == Spec => []TableInv
<1>1. ASSUME IInv, pc = "poll" PROVE Listed = open /\ nfds = 1 + Cardinality(open)
  <2> USE DEF IInv, ServerInv
  <2>1. /\ \A k \in Entries : fds[k] \in open
        /\ \A c \in open : \E k \in Entries : fds[k] = c
        /\ \A k, l \in Entries : fds[k] = fds[l] => k = l
    BY <1>1 DEF TabInv
  <2>2. Listed = open
    BY <2>1 DEF Listed, Entries
  <2>3. nfds \in Int /\ nfds - 1 \in Nat
    BY <1>1, Room, IbmAssumption DEF TypeOK
  <2> DEFINE f == [k \in 1 .. nfds - 1 |-> fds[k]]
  <2>4. f \in Bijection(1 .. nfds - 1, open)
    BY <2>1 DEF Bijection, Injection, Surjection, IsInjective, Entries
  <2>5. Cardinality(open) = nfds - 1
    BY <2>3, <2>4, FS_CountingElements DEF ExistsBijection
  <2>6. QED
    BY <2>2, <2>3, <2>5
<1>2. IInv => TableInv
  BY <1>1 DEF IInv, ServerInv, EchoInv, TableInv, TableIsOpen
<1>3. QED
  BY <1>2, IbmInvariant, PTL

(* The server ends on an error only if a connection was reset, and leaves    *)
(* none open.                                                               *)
THEOREM EndIsInOrder == Spec => []EndsInOrder
<1>1. IInv => EndsInOrder
  BY DEF IInv, ServerInv, EndInv, WasReset, TabInv, EndsInOrder
<1>2. QED
  BY <1>1, IbmInvariant, PTL
=============================================================================
