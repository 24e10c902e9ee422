-------------------- MODULE LevelConnectionManagerProofs --------------------
(***************************************************************************)
(* What holds of a LevelConnectionManager for every set of peers and       *)
(* connections, every strategy and every limit.                            *)
(***************************************************************************)
EXTENDS LevelConnectionManager, SequenceTheorems, FiniteSetTheorems, TLAPS

\* Removing the entry at an index, as the slices of the code do.
LEMMA RemoveAtFacts ==
  ASSUME NEW S, NEW s \in Seq(S), NEW i \in 1 .. Len(s)
  PROVE  /\ RemoveAt(s, i) \in Seq(S)
         /\ Len(RemoveAt(s, i)) = Len(s) - 1
         /\ \A j \in 1 .. Len(s) - 1 :
              RemoveAt(s, i)[j] = IF j < i THEN s[j] ELSE s[j + 1]
  <1> DEFINE a == SubSeq(s, 1, i - 1)
             b == SubSeq(s, i + 1, Len(s))
  <1>1. a \in Seq(S) /\ Len(a) = i - 1 /\ \A j \in 1 .. i - 1 : a[j] = s[j]
    OBVIOUS
  <1>2. b \in Seq(S) /\ Len(b) = Len(s) - i /\ \A j \in 1 .. Len(s) - i : b[j] = s[i + j]
    OBVIOUS
  <1> HIDE DEF a, b
  <1>3. RemoveAt(s, i) = a \o b
    BY DEF RemoveAt, a, b
  <1>4. /\ a \o b \in Seq(S) /\ Len(a \o b) = Len(a) + Len(b)
        /\ \A j \in 1 .. Len(a) + Len(b) :
             (a \o b)[j] = IF j <= Len(a) THEN a[j] ELSE b[j - Len(a)]
    BY <1>1, <1>2, ConcatProperties, Zenon
  <1>5. ASSUME NEW j \in 1 .. Len(s) - 1
        PROVE  (a \o b)[j] = IF j < i THEN s[j] ELSE s[j + 1]
    <2>1. CASE j < i
      BY <1>1, <1>2, <1>4, <2>1
    <2>2. CASE j >= i
      <3>1. j - Len(a) \in 1 .. Len(s) - i /\ i + (j - Len(a)) = j + 1
        BY <1>1, <2>2
      <3>2. QED
        BY <1>1, <1>2, <1>4, <2>2, <3>1
    <2>3. Len(s) \in Nat /\ i \in Int /\ j \in Int
      OBVIOUS
    <2>4. j < i \/ j >= i
      BY <2>3
    <2>5. QED
      BY <2>1, <2>2, <2>4
  <1>6. QED
    BY <1>1, <1>2, <1>3, <1>4, <1>5

\* A list without repetitions keeps none when an entry is removed, and loses
\* exactly that entry.
NoDup(s) == \A i, j \in 1 .. Len(s) : s[i] = s[j] => i = j

LEMMA RemoveAtNoDup ==
  ASSUME NEW S, NEW s \in Seq(S), NEW i \in 1 .. Len(s), NoDup(s)
  PROVE  /\ NoDup(RemoveAt(s, i))
         /\ \A e : Contains(RemoveAt(s, i), e) <=> Contains(s, e) /\ e # s[i]
  <1> DEFINE t == RemoveAt(s, i)
  <1>1. /\ t \in Seq(S) /\ Len(t) = Len(s) - 1
        /\ \A j \in 1 .. Len(s) - 1 : t[j] = IF j < i THEN s[j] ELSE s[j + 1]
    BY RemoveAtFacts
  <1> HIDE DEF t
  <1>2. NoDup(t)
    BY <1>1 DEF NoDup
  <1>3. ASSUME NEW e, Contains(t, e) PROVE Contains(s, e) /\ e # s[i]
    <2>1. PICK j \in 1 .. Len(s) - 1 : t[j] = e
      BY <1>1, <1>3 DEF Contains
    <2>2. PICK k \in 1 .. Len(s) : s[k] = e /\ k # i
      BY <1>1, <2>1
    <2>3. QED
      BY <2>2 DEF Contains, NoDup
  <1>4. ASSUME NEW e, Contains(s, e), e # s[i] PROVE Contains(t, e)
    <2>1. PICK k \in 1 .. Len(s) : s[k] = e /\ k # i
      BY <1>4 DEF Contains
    <2>2. CASE k < i
      BY <1>1, <2>1, <2>2 DEF Contains
    <2>3. CASE k > i
      <3>1. k - 1 \in 1 .. Len(t) /\ t[k - 1] = e
        BY <1>1, <2>1, <2>3
      <3>2. QED
        BY <3>1 DEF Contains
    <2>4. QED
      BY <2>1, <2>2, <2>3
  <1>5. QED
    BY <1>2, <1>3, <1>4 DEF t

LEMMA AppendNoDup ==
  ASSUME NEW S, NEW s \in Seq(S), NEW p \in S, NoDup(s), ~Contains(s, p)
  PROVE  /\ Append(s, p) \in Seq(S) /\ Len(Append(s, p)) = Len(s) + 1
         /\ NoDup(Append(s, p))
         /\ \A e : Contains(Append(s, p), e) <=> Contains(s, e) \/ e = p
  <1> DEFINE t == Append(s, p)
  <1>1. t \in Seq(S) /\ Len(t) = Len(s) + 1 /\ t[Len(s) + 1] = p
        /\ \A j \in 1 .. Len(s) : t[j] = s[j]
    OBVIOUS
  <1> HIDE DEF t
  <1>2. NoDup(t)
    BY <1>1 DEF NoDup, Contains
  <1>3. \A e : Contains(t, e) <=> Contains(s, e) \/ e = p
    BY <1>1 DEF Contains
  <1>4. QED
    BY <1>1, <1>2, <1>3 DEF t

-----------------------------------------------------------------------------
(* One list of entries *)

Alive == {"up", "closing"}

\* A list with its sets, while the connections are in the states st.
Entries(list, set, st) ==
  /\ list \in Seq(Peer) /\ NoDup(list)
  /\ set \in [Peer -> SUBSET Conn]
  /\ \A p \in Peer : set[p] # {} <=> Contains(list, p)
  /\ \A p \in Peer : \A c \in set[p] : Owner[c] = p /\ st[c] \in Alive

\* Only the states change, and no connection of the list stops being alive.
LEMMA EntriesStatus ==
  ASSUME NEW list, NEW set, NEW st, NEW st2, Entries(list, set, st),
         \A p \in Peer : \A c \in set[p] : st[c] \in Alive => st2[c] \in Alive
  PROVE  Entries(list, set, st2)
  BY DEF Entries

\* A new entry for a peer that has none.
LEMMA EntriesAppend ==
  ASSUME NEW list, NEW set, NEW st \in [Conn -> Status], NEW c \in Conn,
         Entries(list, set, st), ~Contains(list, Owner[c])
  PROVE  Entries(Append(list, Owner[c]), [set EXCEPT ![Owner[c]] = {c}],
                 [st EXCEPT ![c] = "up"])
  <1> DEFINE p == Owner[c]
             l2 == Append(list, p)
             s2 == [set EXCEPT ![p] = {c}]
             st2 == [st EXCEPT ![c] = "up"]
  <1>1. p \in Peer /\ set \in [Peer -> SUBSET Conn]
    BY OwnerAssumption DEF Entries
  <1>2. l2 \in Seq(Peer) /\ NoDup(l2) /\ \A e : Contains(l2, e) <=> Contains(list, e) \/ e = p
    BY <1>1, AppendNoDup DEF Entries
  <1>3. s2 \in [Peer -> SUBSET Conn] /\ s2[p] = {c} /\ \A q \in Peer \ {p} : s2[q] = set[q]
    BY <1>1
  <1>4. \A d \in Conn : st2[d] = IF d = c THEN "up" ELSE st[d]
    OBVIOUS
  <1> HIDE DEF p, l2, s2, st2
  <1>5. \A q \in Peer : s2[q] # {} <=> Contains(l2, q)
    BY <1>1, <1>2, <1>3 DEF Entries
  <1>6. \A q \in Peer : \A d \in s2[q] : Owner[d] = q /\ st2[d] \in Alive
    <2>1. Owner[c] = p
      BY DEF p
    <2>2. QED
      BY <1>1, <1>3, <1>4, <2>1 DEF Entries, Alive
  <1>7. Entries(l2, s2, st2)
    BY <1>2, <1>3, <1>5, <1>6 DEF Entries
  <1>8. QED
    BY <1>7 DEF p, l2, s2, st2

\* One more connection in the entry of a peer.
LEMMA EntriesPut ==
  ASSUME NEW list, NEW set, NEW st \in [Conn -> Status], NEW c \in Conn,
         Entries(list, set, st), Contains(list, Owner[c])
  PROVE  Entries(list, [set EXCEPT ![Owner[c]] = @ \cup {c}],
                 [st EXCEPT ![c] = "up"])
  <1> DEFINE p == Owner[c]
             s2 == [set EXCEPT ![p] = @ \cup {c}]
             st2 == [st EXCEPT ![c] = "up"]
  <1>1. p \in Peer /\ set \in [Peer -> SUBSET Conn]
    BY OwnerAssumption DEF Entries
  <1>2. s2 \in [Peer -> SUBSET Conn] /\ s2[p] = set[p] \cup {c}
        /\ \A q \in Peer \ {p} : s2[q] = set[q]
    BY <1>1
  <1>3. \A d \in Conn : st2[d] = IF d = c THEN "up" ELSE st[d]
    OBVIOUS
  <1>4. Owner[c] = p /\ Contains(list, p)
    OBVIOUS
  <1> HIDE DEF p, s2, st2
  <1>5. \A q \in Peer : s2[q] # {} <=> Contains(list, q)
    BY <1>1, <1>2, <1>4 DEF Entries
  <1>6. \A q \in Peer : \A d \in s2[q] : Owner[d] = q /\ st2[d] \in Alive
    BY <1>1, <1>2, <1>3, <1>4 DEF Entries, Alive
  <1>7. Entries(list, s2, st2)
    BY <1>2, <1>5, <1>6 DEF Entries
  <1>8. QED
    BY <1>7 DEF p, s2, st2

\* An entry goes.
LEMMA EntriesRemove ==
  ASSUME NEW list, NEW set, NEW st, NEW i \in 1 .. Len(list), Entries(list, set, st)
  PROVE  /\ Entries(RemoveAt(list, i), [set EXCEPT ![list[i]] = {}], st)
         /\ Len(RemoveAt(list, i)) = Len(list) - 1
  <1> DEFINE p == list[i]
             l2 == RemoveAt(list, i)
             s2 == [set EXCEPT ![p] = {}]
  <1>1. p \in Peer /\ set \in [Peer -> SUBSET Conn] /\ list \in Seq(Peer) /\ NoDup(list)
    BY DEF Entries
  <1>2. l2 \in Seq(Peer) /\ NoDup(l2) /\ Len(l2) = Len(list) - 1
        /\ \A e : Contains(l2, e) <=> Contains(list, e) /\ e # p
    <2>1. l2 \in Seq(Peer) /\ Len(l2) = Len(list) - 1
      BY <1>1, RemoveAtFacts
    <2>2. NoDup(l2) /\ \A e : Contains(l2, e) <=> Contains(list, e) /\ e # p
      BY <1>1, RemoveAtNoDup
    <2>3. QED
      BY <2>1, <2>2
  <1>3. s2 \in [Peer -> SUBSET Conn] /\ s2[p] = {} /\ \A q \in Peer \ {p} : s2[q] = set[q]
    BY <1>1
  <1> HIDE DEF p, l2, s2
  <1>4. \A q \in Peer : s2[q] # {} <=> Contains(l2, q)
    BY <1>1, <1>2, <1>3 DEF Entries
  <1>5. \A q \in Peer : \A d \in s2[q] : Owner[d] = q /\ st[d] \in Alive
    BY <1>1, <1>3 DEF Entries
  <1>6. Entries(l2, s2, st)
    BY <1>2, <1>3, <1>4, <1>5 DEF Entries
  <1>7. QED
    BY <1>2, <1>6 DEF p, l2, s2

-----------------------------------------------------------------------------
(* The whole manager *)

\* The inductive invariant.
IInv ==
  /\ TypeOK
  /\ Entries(highLevelConn, highSet, status)
  /\ Entries(lowLevelConn, lowSet, status)
  /\ Capacity

LEMMA MaxPositive == maxCountOfPeers \in Nat \ {0}
  BY LimitAssumption DEF maxCountOfPeers

\* Whatever the strategy, it picks an index of the list.
LEMMA PicksInList ==
  ASSUME strategy \in Known, NEW list \in Seq(Peer), list # << >>,
         NEW i \in Picks(list)
  PROVE  i \in 1 .. Len(list)
  BY DEF Picks, Known

\* Closing keeps every connection of an entry alive in the sense of Entries.
LEMMA ClosingEntries ==
  ASSUME NEW list, NEW set, NEW st \in [Conn -> Status], NEW conns,
         Entries(list, set, st)
  PROVE  /\ closing(st, conns) \in [Conn -> Status]
         /\ Entries(list, set, closing(st, conns))
  <1>1. closing(st, conns) \in [Conn -> Status]
    BY DEF closing, Status
  <1>2. \A p \in Peer : \A c \in set[p] : st[c] \in Alive => closing(st, conns)[c] \in Alive
    BY DEF Entries, closing, Alive
  <1>3. QED
    BY <1>1, <1>2, EntriesStatus

LEMMA EliminateInv ==
  ASSUME strategy \in Known, eliminatePeers \in SUBSET Peer, fatal = FALSE,
         NEW eliminateHigh \in BOOLEAN, NEW hi, NEW hs, NEW lo, NEW ls,
         NEW st \in [Conn -> Status],
         Entries(hi, hs, st), Entries(lo, ls, st),
         Len(hi) + Len(lo) <= maxCountOfPeers + 1,
         eliminateHigh \/ lo # << >>,
         eliminateConnections(eliminateHigh, hi, hs, lo, ls, st)
  PROVE  /\ Entries(highLevelConn', highSet', status')
         /\ Entries(lowLevelConn', lowSet', status')
         /\ status' \in [Conn -> Status] /\ eliminatePeers' \in SUBSET Peer
         /\ fatal' = FALSE
         /\ Len(highLevelConn') + Len(lowLevelConn') <= maxCountOfPeers
  <1> USE MaxPositive
  <1>0. hi \in Seq(Peer) /\ lo \in Seq(Peer) /\ Len(hi) \in Nat /\ Len(lo) \in Nat
    BY DEF Entries
  <1>1. CASE ~Overflow(hi, lo)
    <2>1. /\ highLevelConn' = hi /\ highSet' = hs /\ lowLevelConn' = lo /\ lowSet' = ls
          /\ status' = st /\ UNCHANGED <<eliminatePeers, fatal>>
      BY <1>1 DEF eliminateConnections
    <2>2. QED
      BY <1>0, <1>1, <2>1 DEF Overflow
  <1>2. CASE Overflow(hi, lo) /\ lo # << >>
    <2>1. PICK i \in Picks(lo) :
            /\ lowLevelConn' = RemoveAt(lo, i)
            /\ lowSet' = [ls EXCEPT ![lo[i]] = {}]
            /\ status' = closing(st, ls[lo[i]])
            /\ eliminatePeers' = eliminatePeers \cup {lo[i]}
      BY <1>2 DEF eliminateConnections
    <2>2. highLevelConn' = hi /\ highSet' = hs /\ UNCHANGED fatal
      BY <1>2 DEF eliminateConnections
    <2>3. i \in 1 .. Len(lo) /\ lo[i] \in Peer
      BY <1>0, <1>2, PicksInList
    <2>4. /\ status' \in [Conn -> Status]
          /\ Entries(hi, hs, status') /\ Entries(lo, ls, status')
      BY <2>1, ClosingEntries
    <2>5. Entries(lowLevelConn', lowSet', status') /\ Len(lowLevelConn') = Len(lo) - 1
      BY <2>1, <2>3, <2>4, EntriesRemove
    <2>6. QED
      BY <1>0, <2>1, <2>2, <2>3, <2>4, <2>5
  <1>3. CASE Overflow(hi, lo) /\ lo = << >>
    <2>0. eliminateHigh /\ Len(lo) = 0 /\ Len(hi) > 0 /\ hi # << >>
      BY <1>0, <1>3 DEF Overflow
    <2>1. PICK i \in Picks(hi) :
            /\ highLevelConn' = RemoveAt(hi, i)
            /\ highSet' = [hs EXCEPT ![hi[i]] = {}]
            /\ status' = closing(st, hs[hi[i]])
            /\ eliminatePeers' = eliminatePeers \cup {hi[i]}
      BY <1>3, <2>0 DEF eliminateConnections
    <2>2. lowLevelConn' = lo /\ lowSet' = ls /\ UNCHANGED fatal
      BY <1>3, <2>0 DEF eliminateConnections
    <2>3. i \in 1 .. Len(hi) /\ hi[i] \in Peer
      BY <1>0, <2>0, PicksInList
    <2>4. /\ status' \in [Conn -> Status]
          /\ Entries(hi, hs, status') /\ Entries(lo, ls, status')
      BY <2>1, ClosingEntries
    <2>5. Entries(highLevelConn', highSet', status') /\ Len(highLevelConn') = Len(hi) - 1
      BY <2>1, <2>3, <2>4, EntriesRemove
    <2>6. QED
      BY <1>0, <2>0, <2>1, <2>2, <2>3, <2>4, <2>5
  <1>4. QED
    BY <1>1, <1>2, <1>3

LEMMA InitInv == Init => IInv
  <1> SUFFICES ASSUME Init PROVE IInv
    OBVIOUS
  <1>1. strategy \in Known
    BY DEF Init, SetStrategy, Known
  <1>2. TypeOK
    <2>1. highLevelConn \in Seq(Peer) /\ lowLevelConn \in Seq(Peer)
      BY DEF Init
    <2>2. /\ highLevelPeers \in SUBSET Peer /\ eliminatePeers \in SUBSET Peer
          /\ highSet \in [Peer -> SUBSET Conn] /\ lowSet \in [Peer -> SUBSET Conn]
          /\ status \in [Conn -> Status]
      BY DEF Init, Status
    <2>3. fatal \in BOOLEAN
      BY DEF Init
    <2>4. QED
      BY <1>1, <2>1, <2>2, <2>3 DEF TypeOK
  <1>3. \A p : ~Contains(<< >>, p)
    BY DEF Contains
  <1>4. NoDup(<< >>)
    BY DEF NoDup
  <1>5. Entries(highLevelConn, highSet, status) /\ Entries(lowLevelConn, lowSet, status)
    BY <1>2, <1>3, <1>4 DEF Init, Entries, TypeOK
  <1>6. Capacity
    BY MaxPositive DEF Init, Capacity, CountOfPeers
  <1>7. QED
    BY <1>2, <1>5, <1>6 DEF IInv

\* Taking the entry that holds c out of one list.
LEMMA TakeOut ==
  ASSUME NEW list, NEW set, NEW st, NEW c \in Conn, Entries(list, set, st),
         NEW l2, NEW s2, NEW held \in BOOLEAN,
         held <=> Contains(list, Owner[c]) /\ c \in set[Owner[c]],
         l2 = IF held THEN RemoveAt(list, Pos(list, Owner[c])) ELSE list,
         s2 = IF held THEN [set EXCEPT ![Owner[c]] = {}] ELSE set
  PROVE  /\ Entries(l2, s2, [st EXCEPT ![c] = "new"])
         /\ Len(l2) <= Len(list)
  <1> DEFINE p == Owner[c]
             st2 == [st EXCEPT ![c] = "new"]
  <1>0. p \in Peer /\ list \in Seq(Peer) /\ Len(list) \in Nat /\ set \in [Peer -> SUBSET Conn]
    BY OwnerAssumption DEF Entries
  <1>1. Entries(l2, s2, st) /\ Len(l2) <= Len(list)
    <2>1. CASE held
      <3>1. Pos(list, p) \in 1 .. Len(list) /\ list[Pos(list, p)] = p
        BY <2>1 DEF Pos, Contains
      <3>2. /\ Entries(RemoveAt(list, Pos(list, p)), [set EXCEPT ![list[Pos(list, p)]] = {}], st)
            /\ Len(RemoveAt(list, Pos(list, p))) = Len(list) - 1
        BY <3>1, EntriesRemove
      <3>3. l2 = RemoveAt(list, Pos(list, p)) /\ s2 = [set EXCEPT ![list[Pos(list, p)]] = {}]
        BY <2>1, <3>1
      <3>4. Len(list) - 1 <= Len(list)
        BY <1>0
      <3>5. QED
        BY <3>2, <3>3, <3>4
    <2>2. CASE ~held
      BY <1>0, <2>2
    <2>3. QED
      BY <2>1, <2>2
  <1>2. ASSUME NEW q \in Peer, NEW d \in s2[q] PROVE d # c
    <2>1. CASE held
      <3>1. s2[p] = {} /\ \A r \in Peer \ {p} : s2[r] = set[r]
        BY <1>0, <2>1
      <3>2. QED
        BY <1>0, <1>2, <3>1 DEF Entries
    <2>2. CASE ~held
      BY <1>0, <1>2, <2>2 DEF Entries
    <2>3. QED
      BY <2>1, <2>2
  <1>3. \A q \in Peer : \A d \in s2[q] : st[d] \in Alive => st2[d] \in Alive
    BY <1>2
  <1>4. QED
    BY <1>1, <1>3, EntriesStatus

\* Every operation preserves IInv.
LEMMA StepInv == IInv /\ [Next]_vars => IInv'
  <1> SUFFICES ASSUME IInv, [Next]_vars PROVE IInv'
    OBVIOUS
  <1> USE MaxPositive
  <1>0. /\ TypeOK /\ Capacity /\ fatal = FALSE
        /\ Entries(highLevelConn, highSet, status)
        /\ Entries(lowLevelConn, lowSet, status)
        /\ Len(highLevelConn) \in Nat /\ Len(lowLevelConn) \in Nat
        /\ Len(highLevelConn) + Len(lowLevelConn) <= maxCountOfPeers
    BY DEF IInv, TypeOK, Capacity, CountOfPeers
  \* the lists stay, and connections in them stay alive
  <1>1. ASSUME UNCHANGED <<strategy, eliminatePeers, lists, fatal>>,
               highLevelPeers' \in SUBSET Peer, status' \in [Conn -> Status],
               \A c \in Conn : status[c] \in Alive => status'[c] \in Alive
        PROVE  IInv'
    <2>1. TypeOK' /\ Capacity'
      BY <1>0, <1>1 DEF TypeOK, Capacity, CountOfPeers, lists
    <2>2. /\ highLevelConn' = highLevelConn /\ highSet' = highSet
          /\ lowLevelConn' = lowLevelConn /\ lowSet' = lowSet
      BY <1>1 DEF lists
    <2>3. Entries(highLevelConn, highSet, status') /\ Entries(lowLevelConn, lowSet, status')
      <3>1. \A p \in Peer : \A c \in highSet[p] \cup lowSet[p] : c \in Conn
        BY <1>0 DEF TypeOK
      <3>2. QED
        BY <1>0, <1>1, <3>1, EntriesStatus
    <2>4. QED
      BY <2>1, <2>2, <2>3 DEF IInv
  <1>2. ASSUME NEW p \in Peer, AddHighLevelPeer(p) PROVE IInv'
    BY <1>0, <1>1, <1>2 DEF AddHighLevelPeer, TypeOK
  <1>3. ASSUME NEW c \in Conn, Allow(c) PROVE IInv'
    BY <1>0, <1>1, <1>3 DEF Allow, TypeOK, Status, Alive
  <1>4. ASSUME NEW c \in Conn, GiveUp(c) PROVE IInv'
    BY <1>0, <1>1, <1>4 DEF GiveUp, TypeOK, Status, Alive
  <1>5. ASSUME NEW c \in Conn, ConnDown(c) PROVE IInv'
    BY <1>0, <1>1, <1>5 DEF ConnDown, TypeOK, Status, Alive
  <1>6. CASE Close
    BY <1>0, <1>1, <1>6 DEF Close, closing, TypeOK, Status, Alive
  <1>7. CASE UNCHANGED vars
    BY <1>0, <1>1, <1>7 DEF vars, lists, TypeOK
  <1>8. ASSUME NEW c \in Conn, RemovePeerConnection(c) PROVE IInv'
    <2>1. /\ heldHigh(c) \in BOOLEAN /\ heldLow(c) \in BOOLEAN
          /\ heldHigh(c) <=> Contains(highLevelConn, Owner[c]) /\ c \in highSet[Owner[c]]
          /\ heldLow(c) <=> Contains(lowLevelConn, Owner[c]) /\ c \in lowSet[Owner[c]]
      BY DEF heldHigh, heldLow, InHigh, InLow
    <2>2. status' = [status EXCEPT ![c] = "new"] /\ status' \in [Conn -> Status]
      BY <1>0, <1>8 DEF RemovePeerConnection, TypeOK, Status
    <2>3. Entries(highLevelConn', highSet', status') /\ Len(highLevelConn') <= Len(highLevelConn)
      <3>1. /\ highLevelConn' = IF heldHigh(c) THEN RemoveAt(highLevelConn, Pos(highLevelConn, Owner[c]))
                                            ELSE highLevelConn
            /\ highSet' = IF heldHigh(c) THEN [highSet EXCEPT ![Owner[c]] = {}] ELSE highSet
        BY <1>8 DEF RemovePeerConnection
      <3>2. /\ Entries(highLevelConn', highSet', [status EXCEPT ![c] = "new"])
            /\ Len(highLevelConn') <= Len(highLevelConn)
        BY <1>0, <2>1, <3>1, TakeOut
      <3>3. QED
        BY <2>2, <3>2
    <2>4. Entries(lowLevelConn', lowSet', status') /\ Len(lowLevelConn') <= Len(lowLevelConn)
      <3>1. /\ lowLevelConn' = IF heldLow(c) THEN RemoveAt(lowLevelConn, Pos(lowLevelConn, Owner[c]))
                                            ELSE lowLevelConn
            /\ lowSet' = IF heldLow(c) THEN [lowSet EXCEPT ![Owner[c]] = {}] ELSE lowSet
        BY <1>8 DEF RemovePeerConnection
      <3>2. /\ Entries(lowLevelConn', lowSet', [status EXCEPT ![c] = "new"])
            /\ Len(lowLevelConn') <= Len(lowLevelConn)
        BY <1>0, <2>1, <3>1, TakeOut
      <3>3. QED
        BY <2>2, <3>2
    <2>5. TypeOK'
      BY <1>0, <1>8, <2>2, <2>3, <2>4 DEF RemovePeerConnection, TypeOK, Entries
    <2>6. Capacity'
      <3>1. Len(highLevelConn') \in Nat /\ Len(lowLevelConn') \in Nat
        BY <2>5 DEF TypeOK
      <3>2. UNCHANGED fatal
        BY <1>8 DEF RemovePeerConnection
      <3>3. QED
        BY <1>0, <2>3, <2>4, <3>1, <3>2 DEF Capacity, CountOfPeers
    <2>7. QED
      BY <2>3, <2>4, <2>5, <2>6 DEF IInv
  <1>9. ASSUME NEW c \in Conn, AddPeerConnection(c) PROVE IInv'
    <2> DEFINE p == Owner[c]
               up == [status EXCEPT ![c] = "up"]
    <2>0. /\ p \in Peer /\ up \in [Conn -> Status] /\ status \in [Conn -> Status]
          /\ highLevelConn \in Seq(Peer) /\ lowLevelConn \in Seq(Peer)
          /\ UNCHANGED <<strategy, highLevelPeers>>
      BY <1>0, <1>9, OwnerAssumption DEF TypeOK, Status, AddPeerConnection
    <2>1. \A d \in Conn : status[d] \in Alive => up[d] \in Alive
      BY <2>0 DEF Alive
    <2>2. Entries(highLevelConn, highSet, up) /\ Entries(lowLevelConn, lowSet, up)
      <3>1. \A q \in Peer : \A d \in highSet[q] \cup lowSet[q] : d \in Conn
        BY <1>0 DEF TypeOK
      <3>2. QED
        BY <1>0, <2>1, <3>1, EntriesStatus
    \* it is enough to know what the new lists are
    <2>3. ASSUME /\ Entries(highLevelConn', highSet', status')
                 /\ Entries(lowLevelConn', lowSet', status')
                 /\ status' \in [Conn -> Status] /\ eliminatePeers' \in SUBSET Peer
                 /\ fatal' = FALSE
                 /\ Len(highLevelConn') + Len(lowLevelConn') <= maxCountOfPeers
          PROVE  IInv'
      <3>1. TypeOK'
        BY <1>0, <2>0, <2>3 DEF TypeOK, Entries
      <3>2. Capacity'
        BY <2>3 DEF Capacity, CountOfPeers
      <3>3. QED
        BY <2>3, <3>1, <3>2 DEF IInv
    <2>4. CASE /\ InHigh(p) /\ highSet' = [highSet EXCEPT ![p] = @ \cup {c}] /\ status' = up
               /\ UNCHANGED <<highLevelConn, lowLevelConn, lowSet, eliminatePeers, fatal>>
      <3>1. Entries(highLevelConn, highSet', up)
        BY <1>0, <2>0, <2>4, EntriesPut DEF InHigh
      <3>2. QED
        BY <1>0, <2>0, <2>2, <2>3, <2>4, <3>1 DEF TypeOK
    <2>5. CASE /\ InLow(p) /\ lowSet' = [lowSet EXCEPT ![p] = @ \cup {c}] /\ status' = up
               /\ UNCHANGED <<highLevelConn, highSet, lowLevelConn, eliminatePeers, fatal>>
      <3>1. Entries(lowLevelConn, lowSet', up)
        BY <1>0, <2>0, <2>5, EntriesPut DEF InLow
      <3>2. QED
        BY <1>0, <2>0, <2>2, <2>3, <2>5, <3>1 DEF TypeOK
    <2>6. CASE /\ ~InHigh(p)
               /\ eliminateConnections(TRUE, Append(highLevelConn, p),
                    [highSet EXCEPT ![p] = {c}], lowLevelConn, lowSet, up)
      <3> DEFINE hi == Append(highLevelConn, p)
                 hs == [highSet EXCEPT ![p] = {c}]
      <3>1. Entries(hi, hs, up) /\ Len(hi) = Len(highLevelConn) + 1
        <4>1. Entries(hi, hs, up)
          BY <1>0, <2>0, <2>6, EntriesAppend DEF InHigh
        <4>2. Len(hi) = Len(highLevelConn) + 1
          BY <2>0
        <4>3. QED
          BY <4>1, <4>2
      <3>2. Len(hi) + Len(lowLevelConn) <= maxCountOfPeers + 1
        BY <1>0, <3>1
      <3>3. strategy \in Known /\ eliminatePeers \in SUBSET Peer
        BY <1>0 DEF TypeOK
      <3>4. eliminateConnections(TRUE, hi, hs, lowLevelConn, lowSet, up)
        BY <2>6
      <3> HIDE DEF hi, hs, up
      <3>5. QED
        BY <1>0, <2>0, <2>2, <2>3, <3>1, <3>2, <3>3, <3>4, EliminateInv
    <2>7. CASE /\ ~InLow(p)
               /\ eliminateConnections(FALSE, highLevelConn, highSet,
                    Append(lowLevelConn, p), [lowSet EXCEPT ![p] = {c}], up)
      <3> DEFINE lo == Append(lowLevelConn, p)
                 ls == [lowSet EXCEPT ![p] = {c}]
      <3>1. Entries(lo, ls, up) /\ Len(lo) = Len(lowLevelConn) + 1
        <4>1. Entries(lo, ls, up)
          BY <1>0, <2>0, <2>7, EntriesAppend DEF InLow
        <4>2. Len(lo) = Len(lowLevelConn) + 1
          BY <2>0
        <4>3. QED
          BY <4>1, <4>2
      <3>2. Len(highLevelConn) + Len(lo) <= maxCountOfPeers + 1 /\ lo # << >>
        BY <1>0, <2>0, <3>1
      <3>3. strategy \in Known /\ eliminatePeers \in SUBSET Peer
        BY <1>0 DEF TypeOK
      <3>4. eliminateConnections(FALSE, highLevelConn, highSet, lo, ls, up)
        BY <2>7
      <3> HIDE DEF lo, ls, up
      <3>5. QED
        BY <1>0, <2>0, <2>2, <2>3, <3>1, <3>2, <3>3, <3>4, EliminateInv
    <2>8. QED
      BY <1>9, <2>4, <2>5, <2>6, <2>7 DEF AddPeerConnection
  <1>10. QED
    BY <1>2, <1>3, <1>4, <1>5, <1>6, <1>7, <1>8, <1>9 DEF Next

LEMMA InvAlways == Spec => []IInv
  BY InitInv, StepInv, PTL DEF Spec

-----------------------------------------------------------------------------
\* Every variable of the manager keeps its type.
THEOREM TypeCorrect == Spec => []TypeOK
  <1>1. IInv => TypeOK
    BY DEF IInv
  <1>2. QED
    BY InvAlways, <1>1, PTL

\* The manager never holds more entries than maxCountOfPeers, and never
\* reaches the branch of AddPeerConnection the code calls a bug.
THEOREM CapacityKept == Spec => []Capacity
  <1>1. IInv => Capacity
    BY DEF IInv
  <1>2. QED
    BY InvAlways, <1>1, PTL

\* The lookups by peer are unambiguous: one entry per peer and list, with
\* connections of that peer.
THEOREM EntriesUnique == Spec => []OneEntryPerPeer
  <1>1. IInv => OneEntryPerPeer
    BY DEF IInv, Entries, NoDup, OneEntryPerPeer, InHigh, InLow
  <1>2. QED
    BY InvAlways, <1>1, PTL

\* No entry holds a connection whose removal has been processed.
THEOREM TrackedStaysAlive == Spec => []TrackedAlive
  <1>1. IInv => TrackedAlive
    BY DEF IInv, Entries, TrackedAlive, Tracked, ToSet, Alive
  <1>2. QED
    BY InvAlways, <1>1, PTL

-----------------------------------------------------------------------------
(* The connections of the manager, without the order of the lists *)

\* Contained in a list of entries is who has connections there.
LEMMA TrackedIs ==
  ASSUME IInv
  PROVE  /\ Tracked \subseteq Conn
         /\ \A c \in Conn : c \in Tracked <=> c \in highSet[Owner[c]] \cup lowSet[Owner[c]]
  <1>1. /\ Entries(highLevelConn, highSet, status) /\ Entries(lowLevelConn, lowSet, status)
        /\ highLevelConn \in Seq(Peer) /\ lowLevelConn \in Seq(Peer)
    BY DEF IInv, TypeOK
  <1>2. \A p \in Peer : /\ p \in ToSet(highLevelConn) <=> highSet[p] # {}
                        /\ p \in ToSet(lowLevelConn) <=> lowSet[p] # {}
    BY <1>1 DEF Entries, ToSet, Contains
  <1>3. ToSet(highLevelConn) \subseteq Peer /\ ToSet(lowLevelConn) \subseteq Peer
    BY <1>1 DEF ToSet
  <1>4. \A c : c \in Tracked <=> \E p \in Peer : c \in highSet[p] \cup lowSet[p]
    BY <1>2, <1>3 DEF Tracked
  <1>5. \A p \in Peer : \A c \in highSet[p] \cup lowSet[p] : c \in Conn /\ Owner[c] = p
    BY <1>1 DEF Entries
  <1>6. QED
    BY <1>4, <1>5, OwnerAssumption

\* The sets after a connection has been put in, before any elimination.
AddedHigh(c) ==
  IF Owner[c] \in highLevelPeers THEN [highSet EXCEPT ![Owner[c]] = @ \cup {c}] ELSE highSet
AddedLow(c) ==
  IF Owner[c] \in highLevelPeers THEN lowSet ELSE [lowSet EXCEPT ![Owner[c]] = @ \cup {c}]

LEMMA AddedSets ==
  ASSUME IInv, NEW c \in Conn
  PROVE  /\ AddedHigh(c) \in [Peer -> SUBSET Conn] /\ AddedLow(c) \in [Peer -> SUBSET Conn]
         /\ \A p \in Peer : /\ highSet[p] \subseteq AddedHigh(c)[p]
                            /\ lowSet[p] \subseteq AddedLow(c)[p]
                            /\ p # Owner[c] => AddedHigh(c)[p] = highSet[p] /\ AddedLow(c)[p] = lowSet[p]
         /\ LET p == Owner[c] IN
            IF p \in highLevelPeers
            THEN AddedHigh(c)[p] = highSet[p] \cup {c} /\ AddedLow(c)[p] = lowSet[p]
            ELSE AddedHigh(c)[p] = highSet[p] /\ AddedLow(c)[p] = lowSet[p] \cup {c}
  BY OwnerAssumption DEF IInv, TypeOK, AddedHigh, AddedLow

\* What AddPeerConnection does to the sets: the connection is put in, and at
\* most one entry is eliminated, that only if there was no room.
MarkedUp(c) == [status EXCEPT ![c] = "up"]

AddOutcome(c) ==
  \/ highSet' = AddedHigh(c) /\ lowSet' = AddedLow(c) /\ status' = MarkedUp(c)
  \/ /\ CountOfPeers >= maxCountOfPeers
     /\ \E q \in Peer : /\ highSet' = AddedHigh(c)
                        /\ lowSet' = [AddedLow(c) EXCEPT ![q] = {}]
                        /\ status' = closing(MarkedUp(c), AddedLow(c)[q])
  \/ /\ CountOfPeers >= maxCountOfPeers
     /\ \E q \in Peer : /\ highSet' = [AddedHigh(c) EXCEPT ![q] = {}]
                        /\ lowSet' = AddedLow(c)
                        /\ status' = closing(MarkedUp(c), AddedHigh(c)[q])

LEMMA AddEffect ==
  ASSUME IInv, NEW c \in Conn, AddPeerConnection(c)
  PROVE  AddOutcome(c)
  <1> DEFINE p == Owner[c]
  <1>0. /\ p \in Peer /\ strategy \in Known /\ fatal = FALSE
        /\ highSet \in [Peer -> SUBSET Conn] /\ lowSet \in [Peer -> SUBSET Conn]
        /\ highLevelConn \in Seq(Peer) /\ lowLevelConn \in Seq(Peer)
        /\ maxCountOfPeers \in Nat \ {0} /\ Capacity
        /\ \A q \in Peer : highSet[q] # {} <=> InHigh(q)
        /\ \A q \in Peer : lowSet[q] # {} <=> InLow(q)
    BY OwnerAssumption, MaxPositive DEF IInv, TypeOK, Capacity, Entries, InHigh, InLow
  \* an elimination for the lists hi and lo, one of them longer by one
  <1>1. ASSUME NEW b \in BOOLEAN, NEW hi \in Seq(Peer), NEW lo \in Seq(Peer),
               Len(hi) + Len(lo) = CountOfPeers + 1, b \/ lo # << >>,
               eliminateConnections(b, hi, AddedHigh(c), lo, AddedLow(c), MarkedUp(c))
        PROVE  AddOutcome(c)
    <2>1. CASE ~Overflow(hi, lo)
      BY <1>1, <2>1 DEF eliminateConnections, AddOutcome
    <2>2. CASE Overflow(hi, lo) /\ lo # << >>
      <3>1. PICK i \in Picks(lo) : /\ lowSet' = [AddedLow(c) EXCEPT ![lo[i]] = {}]
                                   /\ status' = closing(MarkedUp(c), AddedLow(c)[lo[i]])
        BY <1>1, <2>2 DEF eliminateConnections
      <3>2. highSet' = AddedHigh(c)
        BY <1>1, <2>2 DEF eliminateConnections
      <3>3. lo[i] \in Peer
        BY <1>0, <2>2, PicksInList
      <3>4. CountOfPeers >= maxCountOfPeers
        BY <1>0, <1>1, <2>2 DEF Overflow, CountOfPeers
      <3>5. QED
        BY <3>1, <3>2, <3>3, <3>4 DEF AddOutcome
    <2>3. CASE Overflow(hi, lo) /\ lo = << >>
      <3>0. b /\ hi # << >>
        BY <1>0, <1>1, <2>3 DEF Overflow
      <3>1. PICK i \in Picks(hi) : /\ highSet' = [AddedHigh(c) EXCEPT ![hi[i]] = {}]
                                   /\ status' = closing(MarkedUp(c), AddedHigh(c)[hi[i]])
        BY <1>1, <2>3, <3>0 DEF eliminateConnections
      <3>2. lowSet' = AddedLow(c)
        BY <1>1, <2>3 DEF eliminateConnections
      <3>3. hi[i] \in Peer
        BY <1>0, <3>0, PicksInList
      <3>4. CountOfPeers >= maxCountOfPeers
        BY <1>0, <1>1, <2>3 DEF Overflow, CountOfPeers
      <3>5. QED
        BY <3>1, <3>2, <3>3, <3>4 DEF AddOutcome
    <2>4. QED
      BY <2>1, <2>2, <2>3
  <1>2. CASE p \in highLevelPeers /\ InHigh(p)
    BY <1>0, <1>2 DEF AddPeerConnection, AddedHigh, AddedLow, AddOutcome, MarkedUp
  <1>3. CASE p \notin highLevelPeers /\ InLow(p)
    BY <1>0, <1>3 DEF AddPeerConnection, AddedHigh, AddedLow, AddOutcome, MarkedUp
  <1>4. CASE p \in highLevelPeers /\ ~InHigh(p)
    <2>1. [highSet EXCEPT ![p] = {c}] = AddedHigh(c) /\ lowSet = AddedLow(c)
      BY <1>0, <1>4 DEF AddedHigh, AddedLow
    <2>2. eliminateConnections(TRUE, Append(highLevelConn, p), [highSet EXCEPT ![p] = {c}],
                               lowLevelConn, lowSet, MarkedUp(c))
      BY <1>4 DEF AddPeerConnection, MarkedUp
    <2>3. /\ Append(highLevelConn, p) \in Seq(Peer)
          /\ Len(Append(highLevelConn, p)) + Len(lowLevelConn) = CountOfPeers + 1
      BY <1>0 DEF CountOfPeers
    <2>4. PICK hi \in Seq(Peer) : hi = Append(highLevelConn, p)
      BY <2>3
    <2>5. eliminateConnections(TRUE, hi, AddedHigh(c), lowLevelConn, AddedLow(c), MarkedUp(c))
      BY <2>1, <2>2, <2>4, Zenon
    <2>6. Len(hi) + Len(lowLevelConn) = CountOfPeers + 1
      BY <2>3, <2>4
    <2>7. lowLevelConn \in Seq(Peer)
      BY <1>0
    <2>8. QED
      BY <1>1, <2>5, <2>6, <2>7
  <1>5. CASE p \notin highLevelPeers /\ ~InLow(p)
    <2>1. highSet = AddedHigh(c) /\ [lowSet EXCEPT ![p] = {c}] = AddedLow(c)
      BY <1>0, <1>5 DEF AddedHigh, AddedLow
    <2>2. eliminateConnections(FALSE, highLevelConn, highSet,
                               Append(lowLevelConn, p), [lowSet EXCEPT ![p] = {c}], MarkedUp(c))
      BY <1>5 DEF AddPeerConnection, MarkedUp
    <2>3. /\ Append(lowLevelConn, p) \in Seq(Peer) /\ Append(lowLevelConn, p) # << >>
          /\ Len(highLevelConn) + Len(Append(lowLevelConn, p)) = CountOfPeers + 1
      BY <1>0 DEF CountOfPeers
    <2>4. PICK lo \in Seq(Peer) : lo = Append(lowLevelConn, p)
      BY <2>3
    <2>5. eliminateConnections(FALSE, highLevelConn, AddedHigh(c), lo, AddedLow(c), MarkedUp(c))
      BY <2>1, <2>2, <2>4, Zenon
    <2>6. Len(highLevelConn) + Len(lo) = CountOfPeers + 1 /\ lo # << >>
      BY <2>3, <2>4
    <2>7. highLevelConn \in Seq(Peer)
      BY <1>0
    <2>8. QED
      BY <1>1, <2>5, <2>6, <2>7
  <1>6. QED
    BY <1>2, <1>3, <1>4, <1>5

-----------------------------------------------------------------------------
(* Between Allowed and AddPeerConnection *)

Size(p) == Cardinality(highSet[p]) + Cardinality(lowSet[p])

\* What Allowed found still holds of the one connection it was asked about,
\* whatever happened in between: there is a place for it in the quota of its
\* peer, and the entry it needs does not push out the entry itself.
Welcome(c) ==
  LET p == Owner[c] IN
  /\ Size(p) < maxCountOfConnectionsEachPeer
  /\ p \notin highLevelPeers => Len(highLevelConn) < maxCountOfPeers
  /\ strategy = "LIFO" => Len(highLevelConn) < maxCountOfPeers \/ highSet[p] # {}
  /\ strategy = "LIFO" /\ p \notin highLevelPeers
       => lowSet[p] # {} \/ CountOfPeers < maxCountOfPeers

Apart == \A p \in Peer : highSet[p] \cap lowSet[p] = {}
OneAllowed == \A c, d \in Conn : status[c] = "allowed" /\ status[d] = "allowed" => c = d
Sizes == \A p \in Peer : Size(p) <= maxCountOfConnectionsEachPeer
HighIsHigh == \A p \in Peer : highSet[p] # {} => p \in highLevelPeers
Pending == \A c \in Conn : status[c] = "allowed" => Welcome(c)

QInv == IInv /\ Apart /\ OneAllowed /\ Sizes /\ HighIsHigh /\ Pending

LEMMA QuotaPositive == maxCountOfConnectionsEachPeer \in Nat \ {0}
  BY LimitAssumption DEF maxCountOfConnectionsEachPeer

\* Sets of connections are finite, and a part of one is not larger.
LEMMA ConnSets ==
  ASSUME NEW T \in SUBSET Conn, NEW S \in SUBSET T
  PROVE  /\ IsFiniteSet(S) /\ Cardinality(S) \in Nat /\ Cardinality(T) \in Nat
         /\ Cardinality(S) <= Cardinality(T)
         /\ Cardinality(S) = 0 <=> S = {}
  <1>1. IsFiniteSet(T)
    BY OwnerAssumption, FS_Subset
  <1>2. IsFiniteSet(S) /\ Cardinality(S) <= Cardinality(T)
    BY <1>1, FS_Subset
  <1>3. Cardinality(S) \in Nat /\ Cardinality(T) \in Nat
    BY <1>1, <1>2, FS_CardinalityType
  <1>4. Cardinality(S) = 0 <=> S = {}
    BY <1>2, FS_EmptySet
  <1>5. QED
    BY <1>2, <1>3, <1>4

\* The count the code makes over the lists is the size of the sets.
LEMMA CountIsSize ==
  ASSUME IInv, NEW p \in Peer
  PROVE  /\ ConnCount(p) = Size(p) /\ Size(p) \in Nat
         /\ InHigh(p) <=> highSet[p] # {}
         /\ InLow(p) <=> lowSet[p] # {}
         /\ Size(p) = 0 <=> highSet[p] = {} /\ lowSet[p] = {}
  <1>1. highSet[p] \in SUBSET Conn /\ lowSet[p] \in SUBSET Conn
    BY DEF IInv, TypeOK
  <1>2. /\ Cardinality(highSet[p]) \in Nat /\ Cardinality(lowSet[p]) \in Nat
        /\ Cardinality(highSet[p]) = 0 <=> highSet[p] = {}
        /\ Cardinality(lowSet[p]) = 0 <=> lowSet[p] = {}
    BY <1>1, ConnSets
  <1>3. (InHigh(p) <=> highSet[p] # {}) /\ (InLow(p) <=> lowSet[p] # {})
    BY DEF IInv, Entries, InHigh, InLow
  <1>4. QED
    BY <1>2, <1>3 DEF ConnCount, Size

\* An empty list has no entry and a list with an entry is not empty.
LEMMA EntryCounts ==
  ASSUME IInv
  PROVE  /\ Len(highLevelConn) \in Nat /\ Len(lowLevelConn) \in Nat
         /\ Len(highLevelConn) + Len(lowLevelConn) <= maxCountOfPeers
         /\ CountOfPeers = Len(highLevelConn) + Len(lowLevelConn)
         /\ \A p \in Peer : highSet[p] # {} => Len(highLevelConn) > 0
         /\ \A p \in Peer : lowSet[p] # {} => Len(lowLevelConn) > 0
  <1>1. /\ Len(highLevelConn) \in Nat /\ Len(lowLevelConn) \in Nat
        /\ CountOfPeers = Len(highLevelConn) + Len(lowLevelConn)
        /\ CountOfPeers <= maxCountOfPeers
    BY DEF IInv, TypeOK, Capacity, CountOfPeers
  <1>2. ASSUME NEW p \in Peer, highSet[p] # {} PROVE Len(highLevelConn) > 0
    BY <1>1, <1>2 DEF IInv, Entries, Contains
  <1>3. ASSUME NEW p \in Peer, lowSet[p] # {} PROVE Len(lowLevelConn) > 0
    BY <1>1, <1>3 DEF IInv, Entries, Contains
  <1>4. QED
    BY <1>1, <1>2, <1>3

\* What Allowed grants.
LEMMA AllowedWelcome ==
  ASSUME IInv, HighIsHigh, NEW c \in Conn, Allowed(Owner[c])
  PROVE  Welcome(c)
  <1> DEFINE p == Owner[c]
  <1>0. p \in Peer
    BY OwnerAssumption
  <1>1. /\ ConnCount(p) = Size(p) /\ Size(p) \in Nat
        /\ Size(p) = 0 <=> highSet[p] = {} /\ lowSet[p] = {}
    BY <1>0, CountIsSize
  <1>2. maxCountOfConnectionsEachPeer \in Nat \ {0} /\ maxCountOfPeers \in Nat \ {0}
    BY QuotaPositive, MaxPositive
  <1>3. /\ Len(highLevelConn) \in Nat /\ Len(lowLevelConn) \in Nat
        /\ Len(highLevelConn) + Len(lowLevelConn) <= maxCountOfPeers
        /\ CountOfPeers = Len(highLevelConn) + Len(lowLevelConn)
        /\ lowSet[p] # {} => Len(lowLevelConn) > 0
    BY <1>0, EntryCounts
  <1>4. highSet[p] # {} => p \in highLevelPeers
    BY <1>0 DEF HighIsHigh
  <1>5. CASE Size(p) > 0
    <2>1. Size(p) < maxCountOfConnectionsEachPeer
      BY <1>1, <1>5 DEF Allowed, UnderQuota
    <2>2. highSet[p] # {} \/ lowSet[p] # {}
      BY <1>1, <1>5
    <2> HIDE DEF p
    <2>3. /\ p \notin highLevelPeers => Len(highLevelConn) < maxCountOfPeers
          /\ Len(highLevelConn) < maxCountOfPeers \/ highSet[p] # {}
          /\ p \notin highLevelPeers => lowSet[p] # {}
      BY <1>2, <1>3, <1>4, <2>2
    <2>4. QED
      BY <2>1, <2>3 DEF Welcome, p
  <1>6. CASE Size(p) = 0
    <2>1. Size(p) < maxCountOfConnectionsEachPeer /\ ~(ConnCount(p) > 0)
      BY <1>1, <1>2, <1>6
    <2>2. IF strategy = "LIFO"
          THEN IF p \in highLevelPeers THEN Len(highLevelConn) < maxCountOfPeers
                                       ELSE CountOfPeers < maxCountOfPeers
          ELSE p \in highLevelPeers \/ Len(highLevelConn) < maxCountOfPeers
      BY <2>1 DEF Allowed
    <2> HIDE DEF p
    <2>3. CountOfPeers < maxCountOfPeers => Len(highLevelConn) < maxCountOfPeers
      BY <1>2, <1>3
    <2>4. QED
      BY <2>1, <2>2, <2>3 DEF Welcome, p
  <1>7. QED
    BY <1>1, <1>5, <1>6

\* The sets only shrink when a connection is removed, and a list of entries
\* stays as it is or gets shorter.
LEMMA RemoveEffect ==
  ASSUME IInv, NEW c \in Conn, RemovePeerConnection(c)
  PROVE  /\ \A p \in Peer : highSet'[p] \subseteq highSet[p] /\ lowSet'[p] \subseteq lowSet[p]
         /\ \A p \in Peer : p # Owner[c] => highSet'[p] = highSet[p] /\ lowSet'[p] = lowSet[p]
         /\ \/ highLevelConn' = highLevelConn /\ highSet' = highSet
            \/ Len(highLevelConn') = Len(highLevelConn) - 1
         /\ \/ lowLevelConn' = lowLevelConn /\ lowSet' = lowSet
            \/ Len(lowLevelConn') = Len(lowLevelConn) - 1
         /\ c \notin highSet'[Owner[c]] \cup lowSet'[Owner[c]]
  <1> DEFINE p == Owner[c]
  <1>0. /\ p \in Peer /\ highLevelConn \in Seq(Peer) /\ lowLevelConn \in Seq(Peer)
        /\ highSet \in [Peer -> SUBSET Conn] /\ lowSet \in [Peer -> SUBSET Conn]
    BY OwnerAssumption DEF IInv, TypeOK
  <1>1. /\ \A q \in Peer : InHigh(q) <=> highSet[q] # {}
        /\ \A q \in Peer : InLow(q) <=> lowSet[q] # {}
    BY CountIsSize
  <1>2. (heldHigh(c) <=> c \in highSet[p]) /\ (heldLow(c) <=> c \in lowSet[p])
    BY <1>0, <1>1 DEF heldHigh, heldLow
  <1>3. /\ highSet' = IF heldHigh(c) THEN [highSet EXCEPT ![p] = {}] ELSE highSet
        /\ lowSet' = IF heldLow(c) THEN [lowSet EXCEPT ![p] = {}] ELSE lowSet
    BY DEF RemovePeerConnection
  <1>4. /\ \A q \in Peer : highSet'[q] \subseteq highSet[q]
        /\ \A q \in Peer : q # p => highSet'[q] = highSet[q]
        /\ c \notin highSet'[p]
    BY <1>0, <1>2, <1>3
  <1>5. /\ \A q \in Peer : lowSet'[q] \subseteq lowSet[q]
        /\ \A q \in Peer : q # p => lowSet'[q] = lowSet[q]
        /\ c \notin lowSet'[p]
    BY <1>0, <1>2, <1>3
  <1>6. \/ highLevelConn' = highLevelConn /\ highSet' = highSet
        \/ Len(highLevelConn') = Len(highLevelConn) - 1
    <2>1. CASE heldHigh(c)
      <3>1. Pos(highLevelConn, p) \in 1 .. Len(highLevelConn)
        BY <2>1 DEF heldHigh, InHigh, Pos, Contains
      <3>2. QED
        BY <1>0, <2>1, <3>1, RemoveAtFacts DEF RemovePeerConnection
    <2>2. CASE ~heldHigh(c)
      BY <2>2 DEF RemovePeerConnection
    <2>3. QED
      BY <2>1, <2>2
  <1>7. \/ lowLevelConn' = lowLevelConn /\ lowSet' = lowSet
        \/ Len(lowLevelConn') = Len(lowLevelConn) - 1
    <2>1. CASE heldLow(c)
      <3>1. Pos(lowLevelConn, p) \in 1 .. Len(lowLevelConn)
        BY <2>1 DEF heldLow, InLow, Pos, Contains
      <3>2. QED
        BY <1>0, <2>1, <3>1, RemoveAtFacts DEF RemovePeerConnection
    <2>2. CASE ~heldLow(c)
      BY <2>2 DEF RemovePeerConnection
    <2>3. QED
      BY <2>1, <2>2
  <1>8. QED
    BY <1>4, <1>5, <1>6, <1>7

\* A connection that is not alive is in no set.
LEMMA NotAliveNotHeld ==
  ASSUME IInv, NEW c \in Conn, status[c] \notin Alive, NEW p \in Peer
  PROVE  c \notin highSet[p] /\ c \notin lowSet[p]
  BY DEF IInv, Entries


\* The sets of two lists have nothing in common, before and after.
LEMMA AddedApart ==
  ASSUME IInv, Apart, NEW c \in Conn, status[c] = "allowed"
  PROVE  \A p \in Peer : /\ AddedHigh(c)[p] \cap AddedLow(c)[p] = {}
                         /\ \A d \in AddedHigh(c)[p] \cup AddedLow(c)[p] : Owner[d] = p
  <1>1. TAKE p \in Peer
  <1>2. \A d \in highSet[p] \cup lowSet[p] : Owner[d] = p
    BY DEF IInv, Entries
  <1>3. c \notin highSet[p] /\ c \notin lowSet[p]
    BY NotAliveNotHeld DEF Alive
  <1>4. highSet[p] \cap lowSet[p] = {}
    BY DEF Apart
  <1>5. \/ AddedHigh(c)[p] = highSet[p] /\ AddedLow(c)[p] = lowSet[p]
        \/ p = Owner[c] /\ AddedHigh(c)[p] = highSet[p] \cup {c} /\ AddedLow(c)[p] = lowSet[p]
        \/ p = Owner[c] /\ AddedHigh(c)[p] = highSet[p] /\ AddedLow(c)[p] = lowSet[p] \cup {c}
    BY AddedSets
  <1>6. QED
    BY <1>2, <1>3, <1>4, <1>5

\* AddPeerConnection, one connection at a time: the victims are connections
\* of one peer, they are closed and leave the sets.
AddPointwise(c) ==
  \E victims \in SUBSET Conn :
    /\ victims # {} => CountOfPeers >= maxCountOfPeers
    /\ \E q \in Peer : /\ \A d \in victims : Owner[d] = q
                       /\ victims \subseteq AddedHigh(c)[q] \cup AddedLow(c)[q]
    /\ \A d \in Conn : status'[d] = IF d \in victims THEN "closing"
                                    ELSE IF d = c THEN "up" ELSE status[d]
    /\ \A p \in Peer : /\ highSet'[p] = AddedHigh(c)[p] \ victims
                       /\ lowSet'[p] = AddedLow(c)[p] \ victims

LEMMA AddPoint ==
  ASSUME IInv, Apart, NEW c \in Conn, AddPeerConnection(c)
  PROVE  AddPointwise(c)
  <1> DEFINE H == AddedHigh(c)
             L == AddedLow(c)
  <1>1. H \in [Peer -> SUBSET Conn] /\ L \in [Peer -> SUBSET Conn]
    BY AddedSets
  <1>2. \A p \in Peer : H[p] \cap L[p] = {} /\ \A d \in H[p] \cup L[p] : Owner[d] = p
    BY AddedApart DEF AddPeerConnection
  <1>3. \A d \in Conn : MarkedUp(c)[d] = IF d = c THEN "up" ELSE status[d]
    BY DEF IInv, TypeOK, MarkedUp
  <1>4. Owner[c] \in Peer
    BY OwnerAssumption
  <1>5. AddOutcome(c)
    BY AddEffect
  <1>6. CASE highSet' = H /\ lowSet' = L /\ status' = MarkedUp(c)
    <2>1. /\ \A d \in Conn : status'[d] = IF d \in {} THEN "closing"
                                    ELSE IF d = c THEN "up" ELSE status[d]
          /\ \A p \in Peer : highSet'[p] = H[p] \ {} /\ lowSet'[p] = L[p] \ {}
      BY <1>3, <1>6
    <2>2. \E q \in Peer : {} \subseteq H[q] \cup L[q]
      BY <1>4
    <2> HIDE DEF H, L
    <2>3. QED
      BY <2>1, <2>2, {} \in SUBSET Conn, Zenon DEF AddPointwise, H, L
  <1>7. ASSUME CountOfPeers >= maxCountOfPeers, NEW q \in Peer,
               highSet' = H, lowSet' = [L EXCEPT ![q] = {}],
               status' = closing(MarkedUp(c), L[q])
        PROVE  AddPointwise(c)
    <2> DEFINE V == L[q]
    <2>1. V \in SUBSET Conn /\ (\A d \in V : Owner[d] = q) /\ V \subseteq H[q] \cup L[q]
      BY <1>1, <1>2
    <2>2. \A d \in Conn : status'[d] = IF d \in V THEN "closing"
                                       ELSE IF d = c THEN "up" ELSE status[d]
      BY <1>3, <1>7 DEF closing
    <2>3. \A p \in Peer : highSet'[p] = H[p] \ V /\ lowSet'[p] = L[p] \ V
      <3> HIDE DEF H, L
      <3> SUFFICES ASSUME NEW p \in Peer PROVE highSet'[p] = H[p] \ V /\ lowSet'[p] = L[p] \ V
        OBVIOUS
      <3>1. lowSet'[p] = IF p = q THEN {} ELSE L[p]
        BY <1>1, <1>7
      <3>2. p # q => H[p] \cap V = {} /\ L[p] \cap V = {}
        BY <1>2
      <3>3. H[q] \cap V = {}
        BY <1>2
      <3>4. QED
        BY <1>7, <3>1, <3>2, <3>3
    <2> HIDE DEF V, H, L
    <2>4. QED
      BY <1>7, <2>1, <2>2, <2>3 DEF AddPointwise, H, L
  <1>8. ASSUME CountOfPeers >= maxCountOfPeers, NEW q \in Peer,
               highSet' = [H EXCEPT ![q] = {}], lowSet' = L,
               status' = closing(MarkedUp(c), H[q])
        PROVE  AddPointwise(c)
    <2> DEFINE V == H[q]
    <2>1. V \in SUBSET Conn /\ (\A d \in V : Owner[d] = q) /\ V \subseteq H[q] \cup L[q]
      BY <1>1, <1>2
    <2>2. \A d \in Conn : status'[d] = IF d \in V THEN "closing"
                                       ELSE IF d = c THEN "up" ELSE status[d]
      BY <1>3, <1>8 DEF closing
    <2>3. \A p \in Peer : highSet'[p] = H[p] \ V /\ lowSet'[p] = L[p] \ V
      <3> HIDE DEF H, L
      <3> SUFFICES ASSUME NEW p \in Peer PROVE highSet'[p] = H[p] \ V /\ lowSet'[p] = L[p] \ V
        OBVIOUS
      <3>1. highSet'[p] = IF p = q THEN {} ELSE H[p]
        BY <1>1, <1>8
      <3>2. p # q => H[p] \cap V = {} /\ L[p] \cap V = {}
        BY <1>2
      <3>3. L[q] \cap V = {}
        BY <1>2
      <3>4. QED
        BY <1>8, <3>1, <3>2, <3>3
    <2> HIDE DEF V, H, L
    <2>4. QED
      BY <1>8, <2>1, <2>2, <2>3 DEF AddPointwise, H, L
  <1>9. QED
    BY <1>5, <1>6, <1>7, <1>8 DEF AddOutcome

LEMMA InitQ == Init => QInv
  <1> SUFFICES ASSUME Init PROVE QInv
    OBVIOUS
  <1>1. IInv
    BY InitInv
  <1>2. \A p \in Peer : highSet[p] = {} /\ lowSet[p] = {}
    BY DEF Init
  <1>3. \A p \in Peer : Size(p) = 0
    BY <1>1, <1>2, CountIsSize
  <1>4. \A c \in Conn : status[c] = "new"
    BY DEF Init
  <1>5. Apart /\ OneAllowed /\ HighIsHigh /\ Pending
    BY <1>2, <1>4 DEF Apart, OneAllowed, HighIsHigh, Pending
  <1>6. Sizes
    BY <1>3, QuotaPositive DEF Sizes
  <1>7. QED
    BY <1>1, <1>5, <1>6 DEF QInv

\* Every operation preserves QInv.
LEMMA StepQ == QInv /\ [Next]_vars => QInv'
  <1> SUFFICES ASSUME QInv, [Next]_vars PROVE QInv'
    OBVIOUS
  <1>0. IInv /\ IInv'
    BY StepInv DEF QInv
  <1>1. /\ maxCountOfConnectionsEachPeer \in Nat \ {0} /\ maxCountOfPeers \in Nat \ {0}
        /\ \A c \in Conn : Owner[c] \in Peer
    BY QuotaPositive, MaxPositive, OwnerAssumption
  <1>2. \A p \in Peer : /\ highSet[p] \in SUBSET Conn /\ lowSet[p] \in SUBSET Conn
                        /\ highSet'[p] \in SUBSET Conn /\ lowSet'[p] \in SUBSET Conn
    BY <1>0 DEF IInv, TypeOK
  <1>3. \A p \in Peer : Size(p) \in Nat
    BY <1>0, CountIsSize
  \* the lists stay as they are and nothing passes Allowed
  <1>4. ASSUME UNCHANGED <<strategy, highLevelPeers, lists>>,
               \A c \in Conn : status'[c] = "allowed" => status[c] = "allowed"
        PROVE  QInv'
    <2>1. UNCHANGED <<highSet, lowSet, highLevelConn, lowLevelConn>>
      BY <1>4 DEF lists
    <2>2. Apart' /\ HighIsHigh' /\ OneAllowed'
      BY <1>4, <2>1 DEF QInv, Apart, HighIsHigh, OneAllowed
    <2>3. Sizes'
      BY <2>1 DEF QInv, Sizes, Size
    <2>4. \A c \in Conn : Welcome(c) => Welcome(c)'
      BY <1>4, <2>1 DEF Welcome, Size, CountOfPeers
    <2>5. Pending'
      BY <1>4, <2>4 DEF QInv, Pending
    <2>6. QED
      BY <1>0, <2>2, <2>3, <2>5 DEF QInv
  <1>5. CASE UNCHANGED vars
    BY <1>4, <1>5 DEF vars, lists
  <1>6. ASSUME NEW p \in Peer, AddHighLevelPeer(p) PROVE QInv'
    <2>1. /\ UNCHANGED <<strategy, highSet, lowSet, highLevelConn, lowLevelConn, status>>
          /\ highLevelPeers \subseteq highLevelPeers'
      BY <1>6 DEF AddHighLevelPeer, lists
    <2>2. Apart' /\ HighIsHigh' /\ OneAllowed'
      BY <2>1 DEF QInv, Apart, HighIsHigh, OneAllowed
    <2>3. Sizes'
      BY <2>1 DEF QInv, Sizes, Size
    <2>4. \A c \in Conn : Welcome(c) => Welcome(c)'
      BY <2>1 DEF Welcome, Size, CountOfPeers
    <2>5. Pending'
      BY <2>1, <2>4 DEF QInv, Pending
    <2>6. QED
      BY <1>0, <2>2, <2>3, <2>5 DEF QInv
  <1>7. ASSUME NEW c \in Conn, Allow(c) PROVE QInv'
    <2>1. /\ UNCHANGED <<strategy, highLevelPeers, highSet, lowSet, highLevelConn, lowLevelConn>>
          /\ status' = [status EXCEPT ![c] = "allowed"]
          /\ \A d \in Conn : status[d] # "allowed"
      BY <1>7 DEF Allow, lists
    <2>2. \A d \in Conn : status'[d] = "allowed" => d = c
      BY <1>0, <2>1 DEF IInv, TypeOK
    <2>3. Apart' /\ HighIsHigh' /\ OneAllowed'
      BY <2>1, <2>2 DEF QInv, Apart, HighIsHigh, OneAllowed
    <2>4. Sizes'
      BY <2>1 DEF QInv, Sizes, Size
    <2>5. Welcome(c)
      BY <1>0, <1>7, AllowedWelcome DEF QInv, Allow
    <2>6. Welcome(c)'
      BY <2>1, <2>5 DEF Welcome, Size, CountOfPeers
    <2>7. Pending'
      BY <2>2, <2>6 DEF Pending
    <2>8. QED
      BY <1>0, <2>3, <2>4, <2>7 DEF QInv
  <1>8. ASSUME NEW c \in Conn, GiveUp(c) PROVE QInv'
    <2>1. \A d \in Conn : status'[d] = "allowed" => status[d] = "allowed"
      BY <1>0, <1>8 DEF GiveUp, IInv, TypeOK
    <2>2. QED
      BY <1>4, <1>8, <2>1 DEF GiveUp
  <1>9. ASSUME NEW c \in Conn, ConnDown(c) PROVE QInv'
    <2>1. \A d \in Conn : status'[d] = "allowed" => status[d] = "allowed"
      BY <1>0, <1>9 DEF ConnDown, IInv, TypeOK
    <2>2. QED
      BY <1>4, <1>9, <2>1 DEF ConnDown
  <1>10. CASE Close
    <2>1. \A d \in Conn : status'[d] = "allowed" => status[d] = "allowed"
      BY <1>10 DEF Close, closing
    <2>2. QED
      BY <1>4, <1>10, <2>1 DEF Close
  <1>11. ASSUME NEW c \in Conn, AddPeerConnection(c) PROVE QInv'
    <2>0. status[c] = "allowed" /\ Welcome(c) /\ UNCHANGED highLevelPeers
      BY <1>11 DEF AddPeerConnection, QInv, Pending
    <2>1. PICK victims \in SUBSET Conn :
            /\ \A d \in Conn : status'[d] = IF d \in victims THEN "closing"
                                            ELSE IF d = c THEN "up" ELSE status[d]
            /\ \A p \in Peer : /\ highSet'[p] = AddedHigh(c)[p] \ victims
                               /\ lowSet'[p] = AddedLow(c)[p] \ victims
      BY <1>0, <1>11, AddPoint DEF AddPointwise, QInv
    <2>2. \A d \in Conn : status'[d] # "allowed"
      BY <2>0, <2>1 DEF QInv, OneAllowed
    <2>3. OneAllowed' /\ Pending'
      BY <2>2 DEF OneAllowed, Pending
    <2>4. Apart'
      BY <1>0, <2>0, <2>1, AddedApart DEF QInv, Apart
    <2>5. HighIsHigh'
      <3> SUFFICES ASSUME NEW p \in Peer, highSet'[p] # {} PROVE p \in highLevelPeers
        BY <2>0 DEF HighIsHigh
      <3>1. AddedHigh(c)[p] # {}
        BY <2>1
      <3>2. highSet[p] # {} \/ p \in highLevelPeers
        BY <1>0, <1>1, <3>1, AddedSets
      <3>3. QED
        BY <3>2 DEF QInv, HighIsHigh
    <2>6. Sizes'
      <3> SUFFICES ASSUME NEW p \in Peer PROVE Size(p)' <= maxCountOfConnectionsEachPeer
        BY DEF Sizes
      <3>1. AddedHigh(c)[p] \in SUBSET Conn /\ AddedLow(c)[p] \in SUBSET Conn
        BY <1>0, AddedSets
      <3>2. /\ Cardinality(highSet'[p]) \in Nat /\ Cardinality(lowSet'[p]) \in Nat
            /\ Cardinality(AddedHigh(c)[p]) \in Nat /\ Cardinality(AddedLow(c)[p]) \in Nat
            /\ Cardinality(highSet'[p]) <= Cardinality(AddedHigh(c)[p])
            /\ Cardinality(lowSet'[p]) <= Cardinality(AddedLow(c)[p])
        BY <2>1, <3>1, ConnSets
      <3>3. Cardinality(AddedHigh(c)[p]) + Cardinality(AddedLow(c)[p])
              <= maxCountOfConnectionsEachPeer
        <4>0. /\ IsFiniteSet(highSet[p]) /\ IsFiniteSet(lowSet[p])
              /\ Cardinality(highSet[p]) \in Nat /\ Cardinality(lowSet[p]) \in Nat
          BY <1>2, ConnSets
        <4>1. CASE p # Owner[c]
          <5>1. AddedHigh(c)[p] = highSet[p] /\ AddedLow(c)[p] = lowSet[p]
            BY <1>0, <4>1, AddedSets
          <5>2. Cardinality(highSet[p]) + Cardinality(lowSet[p]) <= maxCountOfConnectionsEachPeer
            BY DEF QInv, Sizes, Size
          <5>3. QED
            BY <5>1, <5>2
        <4>2. CASE p = Owner[c]
          <5>1. Cardinality(highSet[p]) + Cardinality(lowSet[p]) < maxCountOfConnectionsEachPeer
            BY <2>0, <4>2 DEF Welcome, Size
          <5>2. /\ c \notin highSet[p] /\ c \notin lowSet[p]
            BY <1>0, <2>0, NotAliveNotHeld DEF Alive
          <5>3. /\ Cardinality(highSet[p] \cup {c}) = Cardinality(highSet[p]) + 1
                /\ Cardinality(lowSet[p] \cup {c}) = Cardinality(lowSet[p]) + 1
            BY <4>0, <5>2, FS_AddElement
          <5>4. \/ AddedHigh(c)[p] = highSet[p] \cup {c} /\ AddedLow(c)[p] = lowSet[p]
                \/ AddedHigh(c)[p] = highSet[p] /\ AddedLow(c)[p] = lowSet[p] \cup {c}
            BY <1>0, <4>2, AddedSets
          <5>5. /\ (Cardinality(highSet[p]) + 1) + Cardinality(lowSet[p])
                     <= maxCountOfConnectionsEachPeer
                /\ Cardinality(highSet[p]) + (Cardinality(lowSet[p]) + 1)
                     <= maxCountOfConnectionsEachPeer
            BY <1>1, <4>0, <5>1
          <5>6. CASE AddedHigh(c)[p] = highSet[p] \cup {c} /\ AddedLow(c)[p] = lowSet[p]
            BY <5>3, <5>5, <5>6
          <5>7. CASE AddedHigh(c)[p] = highSet[p] /\ AddedLow(c)[p] = lowSet[p] \cup {c}
            BY <5>3, <5>5, <5>7
          <5>8. QED
            BY <5>4, <5>6, <5>7
        <4>3. QED
          BY <4>1, <4>2
      <3>4. QED
        BY <1>1, <3>2, <3>3 DEF Size
    <2>7. QED
      BY <1>0, <2>3, <2>4, <2>5, <2>6 DEF QInv
  <1>12. ASSUME NEW c \in Conn, RemovePeerConnection(c) PROVE QInv'
    <2>1. /\ UNCHANGED <<strategy, highLevelPeers>>
          /\ \A d \in Conn : status'[d] = "allowed" => status[d] = "allowed"
      BY <1>0, <1>12 DEF RemovePeerConnection, IInv, TypeOK
    <2>2. /\ \A p \in Peer : highSet'[p] \subseteq highSet[p] /\ lowSet'[p] \subseteq lowSet[p]
          /\ \/ highLevelConn' = highLevelConn /\ highSet' = highSet
             \/ Len(highLevelConn') = Len(highLevelConn) - 1
          /\ \/ lowLevelConn' = lowLevelConn /\ lowSet' = lowSet
             \/ Len(lowLevelConn') = Len(lowLevelConn) - 1
      BY <1>0, <1>12, RemoveEffect
    <2>3. Apart' /\ HighIsHigh' /\ OneAllowed'
      BY <2>1, <2>2 DEF QInv, Apart, HighIsHigh, OneAllowed
    <2>4. \A p \in Peer : Size(p)' <= Size(p) /\ Size(p)' \in Nat
      <3> SUFFICES ASSUME NEW p \in Peer PROVE Size(p)' <= Size(p) /\ Size(p)' \in Nat
        OBVIOUS
      <3>1. /\ Cardinality(highSet'[p]) \in Nat /\ Cardinality(lowSet'[p]) \in Nat
            /\ Cardinality(highSet[p]) \in Nat /\ Cardinality(lowSet[p]) \in Nat
            /\ Cardinality(highSet'[p]) <= Cardinality(highSet[p])
            /\ Cardinality(lowSet'[p]) <= Cardinality(lowSet[p])
        BY <1>2, <2>2, ConnSets
      <3>2. QED
        BY <3>1 DEF Size
    <2>5. Sizes'
      BY <1>1, <1>3, <2>4 DEF QInv, Sizes
    <2>6. /\ Len(highLevelConn) \in Nat /\ Len(lowLevelConn) \in Nat
          /\ Len(highLevelConn) + Len(lowLevelConn) <= maxCountOfPeers
          /\ Len(highLevelConn') \in Nat /\ Len(lowLevelConn') \in Nat
      <3>1. Len(highLevelConn') \in Nat /\ Len(lowLevelConn') \in Nat
        BY <1>0 DEF IInv, TypeOK
      <3>2. QED
        BY <1>0, <3>1, EntryCounts
    <2>7. ASSUME NEW d \in Conn, Welcome(d) PROVE Welcome(d)'
      <3> DEFINE p == Owner[d]
      <3>1. p \in Peer
        BY <1>1
      <3>2. Size(p)' < maxCountOfConnectionsEachPeer
        BY <1>1, <1>3, <2>4, <2>7, <3>1 DEF Welcome
      <3>3. p \notin highLevelPeers => Len(highLevelConn') < maxCountOfPeers
        BY <1>1, <2>2, <2>6, <2>7 DEF Welcome
      <3>4. strategy = "LIFO" => Len(highLevelConn') < maxCountOfPeers \/ highSet'[p] # {}
        BY <1>1, <2>2, <2>6, <2>7 DEF Welcome
      <3>5. strategy = "LIFO" /\ p \notin highLevelPeers
              => lowSet'[p] # {} \/ Len(highLevelConn') + Len(lowLevelConn') < maxCountOfPeers
        BY <1>1, <2>2, <2>6, <2>7 DEF Welcome, CountOfPeers
      <3>6. QED
        BY <2>1, <3>2, <3>3, <3>4, <3>5 DEF Welcome, CountOfPeers
    <2>8. Pending'
      BY <2>1, <2>7 DEF QInv, Pending
    <2>9. QED
      BY <1>0, <2>3, <2>5, <2>8 DEF QInv
  <1>13. QED
    BY <1>5, <1>6, <1>7, <1>8, <1>9, <1>10, <1>11, <1>12 DEF Next

LEMMA QInvAlways == Spec => []QInv
  BY InitQ, StepQ, PTL DEF Spec

\* A peer never has more connections than it may, in both lists together,
\* although the answer of Allowed may be old when AddPeerConnection is called.
THEOREM QuotaKept == Spec => []PeerQuota
  <1>1. QInv => PeerQuota
    BY CountIsSize DEF QInv, Sizes, PeerQuota
  <1>2. QED
    BY QInvAlways, <1>1, PTL

-----------------------------------------------------------------------------
(* What no step does *)

\* The connections of the entries, by the sets alone, in this state and, since
\* it is an invariant, in the next.
TrackedSound ==
  /\ Tracked \subseteq Conn
  /\ \A c \in Conn : c \in Tracked <=> c \in highSet[Owner[c]] \cup lowSet[Owner[c]]

LEMMA TrackedNow == QInv => TrackedSound
  BY TrackedIs DEF QInv, TrackedSound

LEMMA TrackedStep == QInv /\ [Next]_vars => TrackedSound /\ TrackedSound'
  BY TrackedNow, StepQ, PTL

DropStep ==
  \A c \in Conn :
    (c \in Tracked /\ status[c] = "up" /\ c \notin Tracked')
    => \/ status'[c] = "closing"
       \/ \E d \in Conn : /\ Owner[d] = Owner[c] /\ d # c
                         /\ status[d] = "closing" /\ RemovePeerConnection(d)

LEMMA DropStepHolds == QInv /\ [Next]_vars => [DropStep]_vars
  <1> SUFFICES ASSUME QInv, Next, NEW c \in Conn,
                      c \in Tracked, status[c] = "up", c \notin Tracked'
               PROVE  \/ status'[c] = "closing"
                      \/ \E d \in Conn : /\ Owner[d] = Owner[c] /\ d # c
                                        /\ status[d] = "closing" /\ RemovePeerConnection(d)
    BY DEF DropStep
  <1>1. /\ c \in highSet[Owner[c]] \cup lowSet[Owner[c]]
        /\ c \notin highSet'[Owner[c]] \cup lowSet'[Owner[c]]
    BY TrackedStep DEF TrackedSound
  <1>2. IInv /\ Apart /\ Owner[c] \in Peer
    BY OwnerAssumption DEF QInv
  <1>3. ASSUME UNCHANGED lists PROVE FALSE
    BY <1>1, <1>3 DEF lists
  <1>4. ASSUME NEW d \in Conn, AddPeerConnection(d) PROVE status'[c] = "closing"
    <2>1. PICK victims \in SUBSET Conn :
            /\ \A e \in Conn : status'[e] = IF e \in victims THEN "closing"
                                            ELSE IF e = d THEN "up" ELSE status[e]
            /\ \A p \in Peer : /\ highSet'[p] = AddedHigh(d)[p] \ victims
                               /\ lowSet'[p] = AddedLow(d)[p] \ victims
      BY <1>2, <1>4, AddPoint DEF AddPointwise
    <2>2. c \in AddedHigh(d)[Owner[c]] \cup AddedLow(d)[Owner[c]]
      BY <1>1, <1>2, AddedSets
    <2>3. c \in victims
      BY <1>1, <1>2, <2>1, <2>2
    <2>4. QED
      BY <2>1, <2>3
  <1>5. ASSUME NEW d \in Conn, RemovePeerConnection(d)
        PROVE  Owner[d] = Owner[c] /\ d # c /\ status[d] = "closing"
    <2>1. status[d] = "closing"
      BY <1>5 DEF RemovePeerConnection
    <2>2. Owner[d] = Owner[c]
      BY <1>1, <1>2, <1>5, RemoveEffect
    <2>3. QED
      BY <2>1, <2>2
  <1>6. QED
    BY <1>3, <1>4, <1>5
    DEF Next, AddHighLevelPeer, Allow, GiveUp, ConnDown, Close

\* An open connection leaves the manager closed, or together with a sibling.
THEOREM DroppedIsClosedHolds == Spec => DroppedIsClosed
  <1>1. Spec => [][DropStep]_vars
    BY QInvAlways, DropStepHolds, PTL DEF Spec
  <1>2. QED
    BY <1>1 DEF DroppedIsClosed, DropStep

\* Without the random strategy, elimination takes an older entry: FIFO finds
\* one before the newcomer's, and under LIFO Allowed has seen to it that the
\* newcomer's own list has room.
LEMMA AddKeeps ==
  ASSUME QInv, NEW c \in Conn, AddPeerConnection(c), strategy # "Random"
  PROVE  status'[c] = "up"
  <1> DEFINE p == Owner[c]
             up == MarkedUp(c)
  <1>0. /\ p \in Peer /\ strategy \in {"FIFO", "LIFO"} /\ up[c] = "up"
        /\ highSet \in [Peer -> SUBSET Conn] /\ lowSet \in [Peer -> SUBSET Conn]
        /\ highLevelConn \in Seq(Peer) /\ lowLevelConn \in Seq(Peer)
        /\ maxCountOfPeers \in Nat \ {0}
    BY OwnerAssumption, MaxPositive DEF QInv, IInv, TypeOK, Known, MarkedUp
  <1>1. \A q \in Peer : c \notin highSet[q] /\ c \notin lowSet[q]
    BY NotAliveNotHeld DEF AddPeerConnection, QInv, Alive
  <1>2. Welcome(c)
    BY DEF AddPeerConnection, QInv, Pending
  <1>3. (InHigh(p) <=> highSet[p] # {}) /\ (InLow(p) <=> lowSet[p] # {})
    BY <1>0, CountIsSize DEF QInv
  \* closing others
  <1>4. ASSUME NEW conns, c \notin conns, status' = closing(up, conns)
        PROVE  status'[c] = "up"
    BY <1>0, <1>4 DEF closing
  <1>5. CASE p \in highLevelPeers /\ InHigh(p)
    BY <1>0, <1>5 DEF AddPeerConnection, MarkedUp
  <1>6. CASE p \notin highLevelPeers /\ InLow(p)
    BY <1>0, <1>6 DEF AddPeerConnection, MarkedUp
  <1>7. CASE p \in highLevelPeers /\ ~InHigh(p)
    <2> DEFINE hi == Append(highLevelConn, p)
               hs == [highSet EXCEPT ![p] = {c}]
    <2>1. eliminateConnections(TRUE, hi, hs, lowLevelConn, lowSet, up)
      BY <1>7 DEF AddPeerConnection, MarkedUp
    <2>2. Len(hi) = Len(highLevelConn) + 1 /\ \A i \in 1 .. Len(highLevelConn) : hi[i] = highLevelConn[i]
      BY <1>0
    <2>3. \A q \in Peer \ {p} : hs[q] = highSet[q]
      BY <1>0
    <2> HIDE DEF hi, hs, up
    <2>4. CASE ~Overflow(hi, lowLevelConn)
      BY <1>0, <2>1, <2>4 DEF eliminateConnections
    <2>5. CASE Overflow(hi, lowLevelConn) /\ lowLevelConn # << >>
      <3>1. PICK i \in Picks(lowLevelConn) : status' = closing(up, lowSet[lowLevelConn[i]])
        BY <2>1, <2>5 DEF eliminateConnections
      <3>2. lowLevelConn[i] \in Peer
        BY <1>0, <2>5, PicksInList DEF Known
      <3>3. QED
        BY <1>1, <1>4, <3>1, <3>2
    <2>6. CASE Overflow(hi, lowLevelConn) /\ lowLevelConn = << >>
      <3>1. Len(highLevelConn) >= maxCountOfPeers
        BY <1>0, <2>2, <2>6 DEF Overflow
      <3>2. strategy = "FIFO"
        BY <1>0, <1>2, <1>3, <1>7, <3>1 DEF Welcome
      <3>3. PICK i \in Picks(hi) : status' = closing(up, hs[hi[i]])
        BY <2>1, <2>6 DEF eliminateConnections
      <3>4. i = 1 /\ 1 \in 1 .. Len(highLevelConn)
        BY <1>0, <3>1, <3>2 DEF Picks
      <3>5. hi[i] \in Peer \ {p}
        BY <1>0, <1>7, <2>2, <3>4 DEF InHigh, Contains
      <3>6. QED
        BY <1>1, <1>4, <2>3, <3>3, <3>5
    <2>7. QED
      BY <2>4, <2>5, <2>6
  <1>8. CASE p \notin highLevelPeers /\ ~InLow(p)
    <2> DEFINE lo == Append(lowLevelConn, p)
               ls == [lowSet EXCEPT ![p] = {c}]
    <2>1. eliminateConnections(FALSE, highLevelConn, highSet, lo, ls, up)
      BY <1>8 DEF AddPeerConnection, MarkedUp
    <2>2. /\ lo # << >> /\ Len(lo) = Len(lowLevelConn) + 1
          /\ \A i \in 1 .. Len(lowLevelConn) : lo[i] = lowLevelConn[i]
      BY <1>0
    <2>3. \A q \in Peer \ {p} : ls[q] = lowSet[q]
      BY <1>0
    <2> HIDE DEF lo, ls, up
    <2>4. CASE ~Overflow(highLevelConn, lo)
      BY <1>0, <2>1, <2>4 DEF eliminateConnections
    <2>5. CASE Overflow(highLevelConn, lo)
      <3>1. PICK i \in Picks(lo) : status' = closing(up, ls[lo[i]])
        BY <2>1, <2>2, <2>5 DEF eliminateConnections
      <3>2. /\ Len(highLevelConn) < maxCountOfPeers
            /\ CountOfPeers >= maxCountOfPeers
        BY <1>0, <1>2, <1>8, <2>2, <2>5 DEF Welcome, Overflow, CountOfPeers
      <3>3. strategy = "FIFO"
        BY <1>0, <1>2, <1>3, <1>8, <3>2 DEF Welcome, CountOfPeers
      <3>4. i = 1 /\ 1 \in 1 .. Len(lowLevelConn)
        BY <1>0, <3>1, <3>2, <3>3 DEF Picks, CountOfPeers
      <3>5. lo[i] \in Peer \ {p}
        BY <1>0, <1>8, <2>2, <3>4 DEF InLow, Contains
      <3>6. QED
        BY <1>1, <1>4, <2>3, <3>1, <3>5
    <2>6. QED
      BY <2>4, <2>5
  <1>9. QED
    BY <1>5, <1>6, <1>7, <1>8

NewcomerStep ==
  strategy # "Random" =>
    \A c \in Conn : status[c] = "allowed" /\ status'[c] # "allowed"
                      => status'[c] # "closing"

LEMMA NewcomerStepHolds == QInv /\ [Next]_vars => [NewcomerStep]_vars
  <1> SUFFICES ASSUME QInv, Next, strategy # "Random", NEW c \in Conn,
                      status[c] = "allowed", status'[c] # "allowed"
               PROVE  status'[c] # "closing"
    BY DEF NewcomerStep
  <1>0. status \in [Conn -> Status] /\ IInv
    BY DEF QInv, IInv, TypeOK
  <1>1. ASSUME NEW p \in Peer, AddHighLevelPeer(p) PROVE FALSE
    BY <1>1 DEF AddHighLevelPeer
  <1>2. ASSUME NEW d \in Conn, Allow(d) PROVE FALSE
    BY <1>2 DEF Allow
  <1>3. ASSUME NEW d \in Conn, GiveUp(d) PROVE status'[c] # "closing"
    BY <1>0, <1>3 DEF GiveUp
  <1>4. ASSUME NEW d \in Conn, ConnDown(d) PROVE status'[c] # "closing"
    BY <1>0, <1>4 DEF ConnDown
  <1>5. ASSUME NEW d \in Conn, RemovePeerConnection(d) PROVE status'[c] # "closing"
    BY <1>0, <1>5 DEF RemovePeerConnection
  <1>6. CASE Close
    <2>1. c \notin Tracked
      BY <1>0, NotAliveNotHeld, TrackedNow, OwnerAssumption DEF TrackedSound, Alive
    <2>2. QED
      BY <1>0, <1>6, <2>1 DEF Close, closing
  <1>7. ASSUME NEW d \in Conn, AddPeerConnection(d) PROVE status'[c] # "closing"
    <2>1. d = c
      BY <1>7 DEF AddPeerConnection, QInv, OneAllowed
    <2>2. QED
      BY <1>7, <2>1, AddKeeps
  <1>8. QED
    BY <1>1, <1>2, <1>3, <1>4, <1>5, <1>6, <1>7 DEF Next

\* Under FIFO and LIFO the connection AddPeerConnection adds is not the one
\* it eliminates.
THEOREM NewcomerKeptHolds == Spec => NewcomerKept
  <1>1. Spec => [][NewcomerStep]_vars
    BY QInvAlways, NewcomerStepHolds, PTL DEF Spec
  <1>2. QED
    BY <1>1 DEF NewcomerKept, NewcomerStep

ProtectStep ==
  \A c \in Conn :
    (status[c] = "allowed" /\ AddPeerConnection(c)
       /\ ~(ToSet(highLevelConn) \subseteq ToSet(highLevelConn')))
    => /\ Owner[c] \in highLevelPeers
       /\ lowLevelConn = << >>
       /\ strategy # "LIFO"

LEMMA ProtectStepHolds == QInv /\ [Next]_vars => [ProtectStep]_vars
  <1> SUFFICES ASSUME QInv, NEW c \in Conn, AddPeerConnection(c),
                      ~(ToSet(highLevelConn) \subseteq ToSet(highLevelConn'))
               PROVE  /\ Owner[c] \in highLevelPeers
                      /\ lowLevelConn = << >>
                      /\ strategy # "LIFO"
    BY DEF ProtectStep
  <1> DEFINE p == Owner[c]
             up == [status EXCEPT ![c] = "up"]
             hi == Append(highLevelConn, p)
             hs == [highSet EXCEPT ![p] = {c}]
             lo == Append(lowLevelConn, p)
             ls == [lowSet EXCEPT ![p] = {c}]
  <1>0. /\ p \in Peer /\ highLevelConn \in Seq(Peer) /\ lowLevelConn \in Seq(Peer)
        /\ maxCountOfPeers \in Nat \ {0}
    BY OwnerAssumption, MaxPositive DEF QInv, IInv, TypeOK
  <1>1. /\ lo # << >> /\ Len(hi) = Len(highLevelConn) + 1
        /\ ToSet(highLevelConn) \subseteq ToSet(hi)
    BY <1>0 DEF ToSet
  <1>2. \/ UNCHANGED highLevelConn
        \/ p \notin highLevelPeers /\ eliminateConnections(FALSE, highLevelConn, highSet, lo, ls, up)
        \/ p \in highLevelPeers /\ ~InHigh(p) /\ eliminateConnections(TRUE, hi, hs, lowLevelConn, lowSet, up)
    BY DEF AddPeerConnection
  <1> HIDE DEF up, hi, hs, lo, ls
  <1>3. /\ p \in highLevelPeers /\ ~InHigh(p)
        /\ eliminateConnections(TRUE, hi, hs, lowLevelConn, lowSet, up)
    BY <1>1, <1>2 DEF eliminateConnections
  <1>4. Overflow(hi, lowLevelConn) /\ lowLevelConn = << >>
    BY <1>1, <1>3 DEF eliminateConnections
  <1>5. strategy # "LIFO"
    <2>1. Welcome(c)
      BY DEF AddPeerConnection, QInv, Pending
    <2>2. ~(Len(highLevelConn) < maxCountOfPeers)
      BY <1>0, <1>1, <1>4 DEF Overflow
    <2>3. highSet[p] = {}
      BY <1>0, <1>3, CountIsSize DEF QInv
    <2>4. QED
      BY <2>1, <2>2, <2>3 DEF Welcome
  <1>6. QED
    BY <1>3, <1>4, <1>5

\* Elimination spares direct peers while there is somebody else to go, and
\* under LIFO altogether.
THEOREM HighLevelProtectedHolds == Spec => HighLevelProtected
  <1>1. Spec => [][ProtectStep]_vars
    BY QInvAlways, ProtectStepHolds, PTL DEF Spec
  <1>2. QED
    BY <1>1 DEF HighLevelProtected, ProtectStep

-----------------------------------------------------------------------------
(* The registry *)

\* A list is not shorter than the set of its elements.
LEMMA ToSetCount ==
  ASSUME NEW S, NEW s \in Seq(S)
  PROVE  IsFiniteSet(ToSet(s)) /\ Cardinality(ToSet(s)) \in Nat /\ Cardinality(ToSet(s)) <= Len(s)
  <1>1. s \in Surjection(1 .. Len(s), ToSet(s))
    BY DEF Surjection, ToSet
  <1>2. Len(s) \in Nat
    OBVIOUS
  <1>3. IsFiniteSet(1 .. Len(s)) /\ Cardinality(1 .. Len(s)) = Len(s)
    BY <1>2, FS_Interval
  <1>4. IsFiniteSet(ToSet(s)) /\ Cardinality(ToSet(s)) <= Cardinality(1 .. Len(s))
    BY <1>1, <1>3, FS_Surjection
  <1>5. QED
    BY <1>3, <1>4, FS_CardinalityType

\* The cardinality the registry speaks of is the usual one.
LEMMA SameCardinality == \A S : Registry!Cardinality(S) = Cardinality(S)
  BY DEF Registry!Cardinality, Cardinality

\* The limits of the registry, of the connections in the lists.
Limited == Registry!WithinLimits(Tracked)

LEMMA LimitedNow == QInv => Limited
  <1> SUFFICES ASSUME QInv PROVE Limited
    OBVIOUS
  <1>0. /\ IInv /\ highLevelConn \in Seq(Peer) /\ lowLevelConn \in Seq(Peer)
        /\ TrackedSound /\ maxCountOfPeers \in Nat
    BY TrackedNow, MaxPositive DEF QInv, IInv, TypeOK
  <1> DEFINE owners == {Owner[c] : c \in Tracked}
             both == ToSet(highLevelConn) \cup ToSet(lowLevelConn)
  <1>1. owners \subseteq both
    <2> SUFFICES ASSUME NEW c \in Tracked PROVE Owner[c] \in both
      OBVIOUS
    <2>1. c \in Conn /\ Owner[c] \in Peer
      BY <1>0, OwnerAssumption DEF TrackedSound
    <2>2. highSet[Owner[c]] # {} \/ lowSet[Owner[c]] # {}
      BY <1>0, <2>1 DEF TrackedSound
    <2>3. InHigh(Owner[c]) \/ InLow(Owner[c])
      BY <1>0, <2>1, <2>2, CountIsSize
    <2>4. QED
      BY <2>3 DEF InHigh, InLow, Contains, ToSet
  <1>2. Cardinality(owners) <= maxCountOfPeers
    <2>1. /\ IsFiniteSet(ToSet(highLevelConn)) /\ Cardinality(ToSet(highLevelConn)) \in Nat
          /\ Cardinality(ToSet(highLevelConn)) <= Len(highLevelConn)
          /\ IsFiniteSet(ToSet(lowLevelConn)) /\ Cardinality(ToSet(lowLevelConn)) \in Nat
          /\ Cardinality(ToSet(lowLevelConn)) <= Len(lowLevelConn)
      BY <1>0, ToSetCount
    <2>2. /\ IsFiniteSet(both)
          /\ Cardinality(both) = Cardinality(ToSet(highLevelConn)) + Cardinality(ToSet(lowLevelConn))
                - Cardinality(ToSet(highLevelConn) \cap ToSet(lowLevelConn))
      BY <2>1, FS_Union
    <2>3. /\ Cardinality(both) \in Nat
          /\ Cardinality(ToSet(highLevelConn) \cap ToSet(lowLevelConn)) \in Nat
      <3>1. IsFiniteSet(ToSet(highLevelConn) \cap ToSet(lowLevelConn))
        BY <2>1, FS_Subset
      <3>2. QED
        BY <2>2, <3>1, FS_CardinalityType
    <2>4. Cardinality(owners) <= Cardinality(both) /\ Cardinality(owners) \in Nat
      BY <1>1, <2>2, FS_Subset, FS_CardinalityType
    <2>5. /\ Len(highLevelConn) \in Nat /\ Len(lowLevelConn) \in Nat
          /\ Len(highLevelConn) + Len(lowLevelConn) <= maxCountOfPeers
      BY <1>0, EntryCounts
    <2> HIDE DEF owners, both
    <2>6. QED
      BY <1>0, <2>1, <2>2, <2>3, <2>4, <2>5
  <1>3. ASSUME NEW p \in Peer
        PROVE  Cardinality(Registry!Of(p, Tracked)) <= maxCountOfConnectionsEachPeer
    <2>1. highSet[p] \in SUBSET Conn /\ lowSet[p] \in SUBSET Conn
          /\ \A c \in highSet[p] \cup lowSet[p] : Owner[c] = p
      BY <1>0 DEF IInv, TypeOK, Entries
    <2>2. Registry!Of(p, Tracked) = highSet[p] \cup lowSet[p]
      BY <1>0, <2>1 DEF Registry!Of, TrackedSound
    <2>3. /\ IsFiniteSet(highSet[p]) /\ IsFiniteSet(lowSet[p])
          /\ Cardinality(highSet[p]) \in Nat /\ Cardinality(lowSet[p]) \in Nat
      BY <2>1, ConnSets
    <2>4. Cardinality(highSet[p] \cup lowSet[p])
            = Cardinality(highSet[p]) + Cardinality(lowSet[p]) - Cardinality(highSet[p] \cap lowSet[p])
      BY <2>3, FS_Union
    <2>5. Cardinality(highSet[p] \cap lowSet[p]) = 0
      BY FS_EmptySet DEF QInv, Apart
    <2>6. Size(p) <= maxCountOfConnectionsEachPeer
      BY DEF QInv, Sizes
    <2>7. QED
      BY <2>2, <2>3, <2>4, <2>5, <2>6 DEF Size
  <1>4. QED
    BY <1>2, <1>3, SameCardinality DEF Limited, Registry!WithinLimits

\* An entry of a list has a connection of its own: a list is not longer than
\* the number of its connections.
ConnsOf(list, set) == {c \in Conn : \E i \in 1 .. Len(list) : c \in set[list[i]]}

LEMMA OfCount ==
  ASSUME NEW list, NEW set, NEW st, Entries(list, set, st)
  PROVE  /\ IsFiniteSet(ConnsOf(list, set)) /\ Cardinality(ConnsOf(list, set)) \in Nat
         /\ Len(list) \in Nat /\ Len(list) <= Cardinality(ConnsOf(list, set))
         /\ ConnsOf(list, set) = {c \in Conn : c \in set[Owner[c]]}
  <1> DEFINE T == ConnsOf(list, set)
             f == [i \in 1 .. Len(list) |-> CHOOSE c \in Conn : c \in set[list[i]]]
  <1>0. list \in Seq(Peer) /\ Len(list) \in Nat /\ NoDup(list) /\ set \in [Peer -> SUBSET Conn]
    BY DEF Entries
  <1>1. IsFiniteSet(T) /\ Cardinality(T) \in Nat
    BY OwnerAssumption, FS_Subset, FS_CardinalityType DEF ConnsOf
  <1>2. \A i \in 1 .. Len(list) : \E c \in Conn : c \in set[list[i]]
    <2> SUFFICES ASSUME NEW i \in 1 .. Len(list) PROVE set[list[i]] # {}
      BY <1>0
    <2>1. list[i] \in Peer /\ Contains(list, list[i])
      BY <1>0 DEF Contains
    <2>2. QED
      BY <2>1 DEF Entries
  <1>3. \A i \in 1 .. Len(list) : f[i] \in Conn /\ f[i] \in set[list[i]]
    BY <1>2
  <1>4. \A i \in 1 .. Len(list) : f[i] \in T /\ Owner[f[i]] = list[i]
    <2> HIDE DEF f
    <2>1. QED
      BY <1>0, <1>3 DEF ConnsOf, Entries
  <1>5. f \in Injection(1 .. Len(list), T)
    <2>1. f \in [1 .. Len(list) -> T]
      BY <1>4
    <2>2. \A i, j \in 1 .. Len(list) : f[i] = f[j] => i = j
      <3> HIDE DEF f
      <3>1. QED
        BY <1>0, <1>4 DEF NoDup
    <2> HIDE DEF f, T
    <2>3. QED
      BY <2>1, <2>2 DEF Injection, IsInjective
  <1>6. Cardinality(1 .. Len(list)) <= Cardinality(T)
    BY <1>1, <1>5, FS_Injection
  <1>7. Cardinality(1 .. Len(list)) = Len(list)
    BY <1>0, FS_Interval
  <1>8. ASSUME NEW c \in Conn, c \in set[Owner[c]]
        PROVE  \E i \in 1 .. Len(list) : c \in set[list[i]]
    <2>1. Contains(list, Owner[c])
      BY <1>8, OwnerAssumption DEF Entries
    <2>2. QED
      BY <1>8, <2>1 DEF Contains
  <1>9. ASSUME NEW c \in Conn, NEW i \in 1 .. Len(list), c \in set[list[i]]
        PROVE  c \in set[Owner[c]]
    BY <1>0, <1>9 DEF Entries
  <1>10. T = {c \in Conn : c \in set[Owner[c]]}
    BY <1>8, <1>9 DEF ConnsOf
  <1>11. QED
    BY <1>0, <1>1, <1>6, <1>7, <1>10

\* There are at least as many connections as entries, in both lists together.
LEMMA HeldEnough ==
  ASSUME QInv
  PROVE  CountOfPeers <= Cardinality(Tracked)
  <1> DEFINE A == ConnsOf(highLevelConn, highSet)
             B == ConnsOf(lowLevelConn, lowSet)
  <1>1. Entries(highLevelConn, highSet, status) /\ Entries(lowLevelConn, lowSet, status)
    BY DEF QInv, IInv
  <1>2. /\ IsFiniteSet(A) /\ Cardinality(A) \in Nat /\ Len(highLevelConn) \in Nat
        /\ Len(highLevelConn) <= Cardinality(A)
        /\ A = {c \in Conn : c \in highSet[Owner[c]]}
    BY <1>1, OfCount
  <1>3. /\ IsFiniteSet(B) /\ Cardinality(B) \in Nat /\ Len(lowLevelConn) \in Nat
        /\ Len(lowLevelConn) <= Cardinality(B)
        /\ B = {c \in Conn : c \in lowSet[Owner[c]]}
    BY <1>1, OfCount
  <1> HIDE DEF A, B
  <1>4. A \cap B = {}
    BY <1>2, <1>3, OwnerAssumption DEF QInv, Apart
  <1>5. Tracked = A \cup B
    BY <1>2, <1>3, TrackedNow DEF TrackedSound
  <1>6. Cardinality(A \cup B) = Cardinality(A) + Cardinality(B) - Cardinality(A \cap B)
    BY <1>2, <1>3, FS_Union
  <1>7. Cardinality(A \cap B) = 0
    BY <1>4, FS_EmptySet
  <1>8. QED
    BY <1>2, <1>3, <1>5, <1>6, <1>7 DEF CountOfPeers

LEMMA LimitedStep == QInv /\ [Next]_vars => Limited'
  BY LimitedNow, StepQ, PTL

Opened == {c \in Conn : status[c] = "up"}

\* AddPeerConnection is an Add of the registry.
LEMMA AddRefines ==
  ASSUME QInv, Next, NEW c \in Conn, AddPeerConnection(c)
  PROVE  Registry!Add(c)
  <1>0. /\ IInv /\ Apart /\ TrackedSound /\ TrackedSound' /\ status[c] = "allowed"
        /\ Owner \in [Conn -> Peer]
    BY TrackedStep, OwnerAssumption DEF QInv, AddPeerConnection
  <1>1. c \notin Tracked \cup Opened
    BY <1>0, NotAliveNotHeld DEF TrackedSound, Alive, Opened
  <1>2. PICK victims \in SUBSET Conn :
          /\ victims # {} => CountOfPeers >= maxCountOfPeers
          /\ \E q \in Peer : /\ \A d \in victims : Owner[d] = q
                             /\ victims \subseteq AddedHigh(c)[q] \cup AddedLow(c)[q]
          /\ \A d \in Conn : status'[d] = IF d \in victims THEN "closing"
                                          ELSE IF d = c THEN "up" ELSE status[d]
          /\ \A p \in Peer : /\ highSet'[p] = AddedHigh(c)[p] \ victims
                             /\ lowSet'[p] = AddedLow(c)[p] \ victims
    BY <1>0, AddPoint DEF AddPointwise
  <1>3. \A d \in Conn : d \in AddedHigh(c)[Owner[d]] \cup AddedLow(c)[Owner[d]]
                          <=> d \in Tracked \cup {c}
    <2> SUFFICES ASSUME NEW d \in Conn
                 PROVE  d \in AddedHigh(c)[Owner[d]] \cup AddedLow(c)[Owner[d]]
                          <=> d \in Tracked \cup {c}
      OBVIOUS
    <2>1. CASE Owner[d] # Owner[c]
      BY <1>0, <2>1, AddedSets DEF TrackedSound
    <2>2. CASE Owner[d] = Owner[c]
      <3>1. AddedHigh(c)[Owner[c]] \cup AddedLow(c)[Owner[c]]
              = highSet[Owner[c]] \cup lowSet[Owner[c]] \cup {c}
        BY <1>0, AddedSets
      <3>2. QED
        BY <1>0, <2>2, <3>1 DEF TrackedSound
    <2>3. QED
      BY <2>1, <2>2
  <1>4. Tracked' = (Tracked \cup {c}) \ victims
    <2>1. \A d \in Conn : d \in Tracked' <=> d \in Tracked \cup {c} /\ d \notin victims
      BY <1>0, <1>2, <1>3 DEF TrackedSound
    <2>2. QED
      BY <1>0, <2>1 DEF TrackedSound
  <1>5. Opened' = (Opened \cup {c}) \ victims
    BY <1>2 DEF Opened
  <1>6. PICK q \in Peer : /\ \A d \in victims : Owner[d] = q
                          /\ victims \subseteq AddedHigh(c)[q] \cup AddedLow(c)[q]
    BY <1>2
  <1>7. victims \in SUBSET Registry!Of(q, Tracked \cup {c})
    <2>1. \A d \in victims : d \in Tracked \cup {c} /\ Owner[d] = q
      BY <1>3, <1>6
    <2>2. QED
      BY <2>1 DEF Registry!Of
  <1>8. victims # {} => Registry!Cardinality(Tracked) >= maxCountOfPeers
    <2> SUFFICES ASSUME victims # {} PROVE Cardinality(Tracked) >= maxCountOfPeers
      BY SameCardinality
    <2>1. CountOfPeers >= maxCountOfPeers
      BY <1>2
    <2>2. CountOfPeers <= Cardinality(Tracked)
      BY HeldEnough
    <2>3. CountOfPeers \in Nat /\ maxCountOfPeers \in Nat /\ Cardinality(Tracked) \in Nat
      BY <1>0, MaxPositive, EntryCounts, ConnSets DEF TrackedSound
    <2>4. QED
      BY <2>1, <2>2, <2>3
  <1>9. Registry!WithinLimits(Tracked')
    <2>1. Limited'
      BY LimitedStep
    <2>2. QED
      BY <2>1 DEF Limited, Registry!WithinLimits, Registry!Of
  <1>10. QED
    BY <1>1, <1>4, <1>5, <1>6, <1>7, <1>8, <1>9 DEF Registry!Add, Opened

\* RemovePeerConnection is a Remove of the registry, or no step of it.
LEMMA RemoveRefines ==
  ASSUME QInv, Next, NEW c \in Conn, RemovePeerConnection(c)
  PROVE  Registry!Remove(c) \/ UNCHANGED <<Tracked, Opened>>
  <1>0. /\ IInv /\ TrackedSound /\ TrackedSound' /\ Owner \in [Conn -> Peer]
        /\ status \in [Conn -> Status]
        /\ status[c] = "closing" /\ status' = [status EXCEPT ![c] = "new"]
    BY TrackedStep, OwnerAssumption DEF QInv, IInv, TypeOK, RemovePeerConnection
  <1>1. UNCHANGED Opened
    BY <1>0 DEF Opened
  <1>2. /\ \A p \in Peer : highSet'[p] \subseteq highSet[p] /\ lowSet'[p] \subseteq lowSet[p]
        /\ \A p \in Peer : p # Owner[c] => highSet'[p] = highSet[p] /\ lowSet'[p] = lowSet[p]
        /\ c \notin highSet'[Owner[c]] \cup lowSet'[Owner[c]]
    BY <1>0, RemoveEffect
  <1>3. Tracked' \subseteq Tracked /\ c \notin Tracked'
    BY <1>0, <1>2 DEF TrackedSound
  <1>4. \A d \in Tracked \ Tracked' : Owner[d] = Owner[c]
    BY <1>0, <1>2 DEF TrackedSound
  <1>5. CASE c \in Tracked
    <2> DEFINE gone == Tracked \ Tracked'
    <2>1. gone \in SUBSET Registry!Of(Owner[c], Tracked) /\ c \in gone
      BY <1>3, <1>4, <1>5 DEF Registry!Of
    <2>2. Tracked' = Tracked \ gone
      BY <1>3
    <2>3. c \in Tracked \ Opened
      BY <1>0, <1>5 DEF Opened
    <2>4. QED
      BY <1>1, <2>1, <2>2, <2>3 DEF Registry!Remove, Opened
  <1>6. CASE c \notin Tracked
    <2>1. c \notin highSet[Owner[c]] /\ c \notin lowSet[Owner[c]]
      BY <1>0, <1>6 DEF TrackedSound
    <2>2. UNCHANGED lists
      BY <2>1 DEF RemovePeerConnection, heldHigh, heldLow, lists
    <2>3. UNCHANGED Tracked
      BY <2>2 DEF lists, Tracked
    <2>4. QED
      BY <1>1, <2>3
  <1>7. QED
    BY <1>5, <1>6

\* Every step of the manager is a step of the registry, or leaves it alone.
LEMMA RegistryStep == QInv /\ [Next]_vars => [Registry!Next]_(Registry!vars)
  <1> SUFFICES ASSUME QInv, [Next]_vars PROVE [Registry!Next]_(Registry!vars)
    OBVIOUS
  <1>0. status \in [Conn -> Status] /\ Tracked \subseteq Conn
    BY TrackedNow DEF QInv, IInv, TypeOK, TrackedSound
  <1>1. ASSUME UNCHANGED <<Tracked, Opened>> PROVE [Registry!Next]_(Registry!vars)
    BY <1>1 DEF Registry!vars, Opened
  <1>2. ASSUME UNCHANGED lists PROVE UNCHANGED Tracked
    BY <1>2 DEF lists, Tracked
  <1>3. CASE UNCHANGED vars
    <2>1. UNCHANGED lists /\ UNCHANGED Opened
      BY <1>3 DEF vars, lists, Opened
    <2>2. QED
      BY <1>1, <1>2, <2>1
  <1>4. ASSUME NEW p \in Peer, AddHighLevelPeer(p) PROVE UNCHANGED <<Tracked, Opened>>
    BY <1>2, <1>4 DEF AddHighLevelPeer, Opened
  <1>5. ASSUME NEW c \in Conn, Allow(c) PROVE UNCHANGED <<Tracked, Opened>>
    <2>1. UNCHANGED Opened
      BY <1>0, <1>5 DEF Allow, Opened
    <2>2. QED
      BY <1>2, <1>5, <2>1 DEF Allow
  <1>6. ASSUME NEW c \in Conn, GiveUp(c) PROVE UNCHANGED <<Tracked, Opened>>
    <2>1. UNCHANGED Opened
      BY <1>0, <1>6 DEF GiveUp, Opened
    <2>2. QED
      BY <1>2, <1>6, <2>1 DEF GiveUp
  <1>7. ASSUME NEW c \in Conn, ConnDown(c) PROVE Registry!Down(c)
    <2>1. c \in Opened /\ Opened' = Opened \ {c}
      BY <1>0, <1>7 DEF ConnDown, Opened
    <2>2. UNCHANGED Tracked
      BY <1>2, <1>7 DEF ConnDown
    <2>3. QED
      BY <2>1, <2>2 DEF Registry!Down, Opened
  <1>8. CASE Close
    <2>1. Opened' = Opened \ Tracked
      BY <1>0, <1>8 DEF Close, closing, Opened
    <2>2. UNCHANGED Tracked
      BY <1>2, <1>8 DEF Close
    <2>3. Registry!CloseAll
      BY <2>1, <2>2 DEF Registry!CloseAll, Opened
    <2>4. QED
      BY <2>3 DEF Registry!Next
  <1>9. ASSUME NEW c \in Conn, AddPeerConnection(c), Next PROVE Registry!Add(c)
    BY <1>9, AddRefines
  <1>10. ASSUME NEW c \in Conn, RemovePeerConnection(c), Next
         PROVE  Registry!Remove(c) \/ UNCHANGED <<Tracked, Opened>>
    BY <1>10, RemoveRefines
  <1>11. CASE Next
    BY <1>1, <1>4, <1>5, <1>6, <1>7, <1>8, <1>9, <1>10, <1>11 DEF Next, Registry!Next
  <1>12. QED
    BY <1>3, <1>11

\* The manager implements the registry: a set of connections with two limits.
THEOREM RegistryImplemented == Spec => ImplementsRegistry
  <1>1. Init => Registry!Init
    <2> SUFFICES ASSUME Init PROVE Tracked = {} /\ Opened = {}
      BY DEF Registry!Init, Opened
    <2>1. QInv
      BY InitQ
    <2>2. Tracked = {}
      BY <2>1, TrackedNow, OwnerAssumption DEF TrackedSound, Init
    <2>3. Opened = {}
      BY DEF Init, Opened
    <2>4. QED
      BY <2>2, <2>3
  <1>2. QED
    BY QInvAlways, RegistryStep, <1>1, PTL DEF Spec, ImplementsRegistry, Registry!Spec
=============================================================================
