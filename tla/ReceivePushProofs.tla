------------------------- MODULE ReceivePushProofs --------------------------
(***************************************************************************)
(* What holds of two components that share no state: of a                  *)
(* ReceiveStreamManager, for every set of peers, connections and streams;  *)
(* and of ProtocolPush, for every set of protocols and of pushers, any     *)
(* faults and any number of changes.                                       *)
(***************************************************************************)
EXTENDS ReceiveStreamManager, ProtocolPush, FiniteSetTheorems, TLAPS

-----------------------------------------------------------------------------
(* ReceiveStreamManager *)

\* The only connection of its peer is in the connection manager, or its peer
\* is marked, until its handleClosingConn asks.
OnlyIsKnown ==
  \A c \in Conn :
    (conn[c] \in {"up", "closed"} /\ \A d \in Conn \ {c} : Owner[d] # Owner[c])
    => c \in tracked \/ Owner[c] \in eliminated

\* The inductive invariant.
IInv == TypeOK /\ CountExact /\ HeldIsRead /\ GoneIsClean /\ OnlyIsKnown

\* The streams of peer p in a set of streams.
Of(p, streams) == {s \in streams : PeerOf(s) = p}

LEMMA PeerStreamsOf == \A p : PeerStreams(p) = Of(p, held)
  BY DEF PeerStreams, Of

LEMMA PeerType == \A s \in Stream : ConnOf[s] \in Conn /\ PeerOf(s) \in Peer
  BY OwnerAssumption DEF PeerOf

LEMMA OfFinite ==
  ASSUME NEW p, NEW streams \in SUBSET Stream
  PROVE  IsFiniteSet(Of(p, streams)) /\ Cardinality(Of(p, streams)) \in Nat
  <1>1. Of(p, streams) \subseteq Stream
    BY DEF Of
  <1>2. IsFiniteSet(Of(p, streams))
    BY <1>1, StreamAssumption, FS_Subset
  <1>3. QED
    BY <1>2, FS_CardinalityType

\* Adding one stream.
LEMMA OfAdd ==
  ASSUME NEW streams \in SUBSET Stream, NEW s \in Stream, s \notin streams, NEW p \in Peer
  PROVE  Cardinality(Of(p, streams \cup {s}))
           = Cardinality(Of(p, streams)) + (IF PeerOf(s) = p THEN 1 ELSE 0)
  <1>1. IsFiniteSet(Of(p, streams)) /\ Cardinality(Of(p, streams)) \in Nat
    BY OfFinite
  <1>2. CASE PeerOf(s) = p
    <2>1. Of(p, streams \cup {s}) = Of(p, streams) \cup {s} /\ s \notin Of(p, streams)
      BY <1>2 DEF Of
    <2>2. QED
      BY <1>1, <1>2, <2>1, FS_AddElement
  <1>3. CASE PeerOf(s) # p
    <2>1. Of(p, streams \cup {s}) = Of(p, streams)
      BY <1>3 DEF Of
    <2>2. QED
      BY <1>1, <1>3, <2>1
  <1>4. QED
    BY <1>2, <1>3

\* Removing one stream.
LEMMA OfRemove ==
  ASSUME NEW streams \in SUBSET Stream, NEW s \in streams, NEW p \in Peer
  PROVE  Cardinality(Of(p, streams \ {s}))
           = Cardinality(Of(p, streams)) - (IF PeerOf(s) = p THEN 1 ELSE 0)
  <1>1. IsFiniteSet(Of(p, streams)) /\ Cardinality(Of(p, streams)) \in Nat
    BY OfFinite
  <1>2. CASE PeerOf(s) = p
    <2>1. Of(p, streams \ {s}) = Of(p, streams) \ {s} /\ s \in Of(p, streams)
      BY <1>2 DEF Of
    <2>2. Cardinality(Of(p, streams) \ {s}) = Cardinality(Of(p, streams)) - 1
      BY <1>1, <2>1, FS_RemoveElement
    <2>3. QED
      BY <1>2, <2>1, <2>2
  <1>3. CASE PeerOf(s) # p
    <2>1. Of(p, streams \ {s}) = Of(p, streams)
      BY <1>3 DEF Of
    <2>2. QED
      BY <1>1, <1>3, <2>1
  <1>4. QED
    BY <1>2, <1>3

\* Removing the streams of one connection.
LEMMA OfRemoveConn ==
  ASSUME held \in SUBSET Stream, NEW c \in Conn, NEW p \in Peer
  PROVE  /\ Cardinality(ConnStreams(c)) \in Nat
         /\ ConnStreams(c) # {} => Cardinality(ConnStreams(c)) > 0
         /\ Cardinality(Of(p, held \ ConnStreams(c)))
              = Cardinality(Of(p, held)) - (IF Owner[c] = p THEN Cardinality(ConnStreams(c)) ELSE 0)
         /\ Owner[c] = p => Cardinality(ConnStreams(c)) <= Cardinality(Of(p, held))
  <1>1. IsFiniteSet(Of(p, held)) /\ Cardinality(Of(p, held)) \in Nat
    BY OfFinite
  <1>2. IsFiniteSet(ConnStreams(c)) /\ Cardinality(ConnStreams(c)) \in Nat
        /\ (ConnStreams(c) # {} => Cardinality(ConnStreams(c)) > 0)
    <2>1. ConnStreams(c) \subseteq Stream
      BY DEF ConnStreams
    <2>2. IsFiniteSet(ConnStreams(c))
      BY <2>1, StreamAssumption, FS_Subset
    <2>3. QED
      BY <2>2, FS_CardinalityType, FS_EmptySet
  <1>3. CASE Owner[c] = p
    <2>1. ConnStreams(c) \subseteq Of(p, held)
          /\ Of(p, held \ ConnStreams(c)) = Of(p, held) \ ConnStreams(c)
      BY <1>3 DEF ConnStreams, Of, PeerOf
    <2>2. Of(p, held) \cap ConnStreams(c) = ConnStreams(c)
      BY <2>1
    <2>3. Cardinality(Of(p, held) \ ConnStreams(c))
            = Cardinality(Of(p, held)) - Cardinality(Of(p, held) \cap ConnStreams(c))
      BY <1>1, FS_Difference
    <2>4. Cardinality(ConnStreams(c)) <= Cardinality(Of(p, held))
      BY <1>1, <2>1, FS_Subset
    <2>5. QED
      BY <1>2, <1>3, <2>1, <2>2, <2>3, <2>4
  <1>4. CASE Owner[c] # p
    <2>1. Of(p, held \ ConnStreams(c)) = Of(p, held)
      BY <1>4 DEF ConnStreams, Of, PeerOf
    <2>2. QED
      BY <1>1, <1>2, <1>4, <2>1
  <1>5. QED
    BY <1>3, <1>4

\* When the count of a peer reaches zero, deleting the peer deletes just the
\* streams that were to go: the others belong to other peers.
LEMMA DeleteLast ==
  ASSUME held \in SUBSET Stream, NEW p \in Peer, NEW gone \in SUBSET held,
         Cardinality(Of(p, held \ gone)) = 0, \A s \in gone : PeerOf(s) = p
  PROVE  DeletePeer(p, held) = held \ gone
  <1>1. IsFiniteSet(Of(p, held \ gone))
    BY OfFinite
  <1>2. Of(p, held \ gone) = {}
    BY <1>1, FS_EmptySet
  <1>3. QED
    BY <1>2 DEF Of, DeletePeer

-----------------------------------------------------------------------------
LEMMA InitInv == Init => IInv
  <1> SUFFICES ASSUME Init PROVE IInv
    OBVIOUS
  <1>1. TypeOK
    <2>1. nwClosed \in BOOLEAN /\ conn \in [Conn -> ConnStates]
      BY DEF Init, ConnStates
    <2>2. countMap \in [Peer -> Nat] /\ maxCount \in Int
      BY SMT DEF Init
    <2>3. QED
      BY <2>1, <2>2 DEF Init, TypeOK
  <1>2. CountExact
    <2>1. \A p : PeerStreams(p) = {}
      BY DEF Init, PeerStreams
    <2>2. QED
      BY <2>1, FS_EmptySet DEF Init, CountExact
  <1>3. HeldIsRead /\ GoneIsClean /\ OnlyIsKnown
    BY DEF Init, HeldIsRead, GoneIsClean, OnlyIsKnown, ConnStreams
  <1>4. QED
    BY <1>1, <1>2, <1>3 DEF IInv

\* Every step of the manager and of the loops that use it preserves IInv.
LEMMA StepInv == IInv /\ [Next]_vars => IInv'
  <1> SUFFICES ASSUME IInv, [Next]_vars PROVE IInv'
    OBVIOUS
  <1> USE PeerType, OwnerAssumption
  <1>0. /\ TypeOK /\ CountExact /\ HeldIsRead /\ GoneIsClean /\ OnlyIsKnown
        /\ held \in SUBSET Stream
        /\ \A p \in Peer : countMap[p] \in Nat /\ countMap[p] = Cardinality(Of(p, held))
    BY PeerStreamsOf DEF IInv, TypeOK, CountExact
  <1>1. ASSUME UNCHANGED <<countMap, held>> PROVE CountExact'
    BY <1>0, <1>1 DEF CountExact, PeerStreams
  <1>2. ASSUME NEW m \in MaxCounts, SetPeerReceiveStreamMaxCount(m) PROVE IInv'
    <2>1. CountExact'
      BY <1>1, <1>2 DEF SetPeerReceiveStreamMaxCount
    <2>2. QED
      BY <1>0, <1>2, <2>1, StreamAssumption
         DEF IInv, SetPeerReceiveStreamMaxCount, TypeOK, HeldIsRead, GoneIsClean, ConnStreams, OnlyIsKnown, mgr
  <1>3. CASE Reset
    <2>1. \A p \in Peer : countMap'[p] = 0
      BY <1>3 DEF Reset
    <2>2. \A p \in Peer : PeerStreams(p)' = {}
      BY <1>3 DEF Reset, PeerStreams
    <2>3. CountExact'
      BY <2>1, <2>2, FS_EmptySet DEF CountExact
    <2>4. QED
      BY <1>0, <1>3, <2>3 DEF IInv, Reset, TypeOK, HeldIsRead, GoneIsClean, ConnStreams, OnlyIsKnown, mgr
  <1>4. ASSUME NEW s \in Stream, HandleReceiveStream(s) PROVE IInv'
    <2>1. CASE Full(PeerOf(s)) \/ s \in held
      <3>1. UNCHANGED <<countMap, held>> /\ UNCHANGED <<maxCount, conn, mgr>> /\ reader' = reader \cup {s}
        BY <1>4, <2>1 DEF HandleReceiveStream
      <3>2. CountExact'
        BY <1>1, <3>1
      <3>3. QED
        BY <1>0, <3>1, <3>2 DEF IInv, TypeOK, HeldIsRead, GoneIsClean, ConnStreams, OnlyIsKnown, mgr
    <2>2. CASE ~Full(PeerOf(s)) /\ s \notin held
      <3>1. /\ held' = held \cup {s} /\ countMap' = [countMap EXCEPT ![PeerOf(s)] = @ + 1]
            /\ UNCHANGED <<maxCount, conn, mgr>> /\ reader' = reader \cup {s}
            /\ conn[ConnOf[s]] = "up"
        BY <1>4, <2>2 DEF HandleReceiveStream
      <3>2. \A p \in Peer : countMap'[p] = Cardinality(Of(p, held'))
        <4>1. ASSUME NEW p \in Peer PROVE countMap'[p] = Cardinality(Of(p, held'))
          <5>1. Cardinality(Of(p, held \cup {s}))
                  = Cardinality(Of(p, held)) + (IF PeerOf(s) = p THEN 1 ELSE 0)
            BY <1>0, <2>2, OfAdd
          <5>2. countMap'[p] = countMap[p] + (IF PeerOf(s) = p THEN 1 ELSE 0)
            BY <1>0, <3>1 DEF TypeOK
          <5>3. QED
            BY <1>0, <3>1, <5>1, <5>2
        <4>2. QED
          BY <4>1
      <3>3. CountExact'
        BY <3>2 DEF CountExact, PeerStreams, Of
      <3>4. TypeOK'
        BY <1>0, <3>1 DEF TypeOK, mgr
      <3>5. HeldIsRead' /\ GoneIsClean' /\ OnlyIsKnown'
        BY <1>0, <3>1 DEF HeldIsRead, GoneIsClean, ConnStreams, OnlyIsKnown, mgr
      <3>6. QED
        BY <3>3, <3>4, <3>5 DEF IInv
    <2>3. QED
      BY <2>1, <2>2
  <1>5. ASSUME NEW s \in Stream, ReaderFails(s) PROVE IInv'
    <2>1. CASE s \notin held
      <3>1. UNCHANGED <<countMap, held>> /\ UNCHANGED <<maxCount, conn, mgr>> /\ reader' = reader \ {s}
        BY <1>5, <2>1 DEF ReaderFails
      <3>2. CountExact'
        BY <1>1, <3>1
      <3>3. QED
        BY <1>0, <2>1, <3>1, <3>2 DEF IInv, TypeOK, HeldIsRead, GoneIsClean, ConnStreams, OnlyIsKnown, mgr
    <2>2. CASE s \in held
      <3> DEFINE p == PeerOf(s)
      <3>1. \A q \in Peer : Cardinality(Of(q, held \ {s}))
                 = Cardinality(Of(q, held)) - (IF p = q THEN 1 ELSE 0)
        BY <1>0, <2>2, OfRemove
      <3>2. \A q \in Peer : Cardinality(Of(q, held \ {s})) \in Nat
        <4>1. held \ {s} \in SUBSET Stream
          BY <1>0
        <4>2. QED
          BY <4>1, OfFinite
      <3>3. p \in Peer /\ countMap[p] > 0 /\ countMap[p] \in Nat
        <4>1. p \in Peer
          BY <1>0, <2>2
        <4>2. countMap[p] \in Nat /\ countMap[p] = Cardinality(Of(p, held))
          BY <1>0, <4>1
        <4>3. QED
          BY <3>1, <3>2, <4>1, <4>2
      <3>4. /\ countMap' = [countMap EXCEPT ![p] = @ - 1]
            /\ held' = IF countMap[p] = 1 THEN DeletePeer(p, held) ELSE held \ {s}
            /\ UNCHANGED <<maxCount, conn, mgr>> /\ reader' = reader \ {s}
        BY <1>5, <2>2, <3>3 DEF ReaderFails
      <3>5. held' = held \ {s}
        <4>1. CASE countMap[p] = 1
          <5>1. Cardinality(Of(p, held \ {s})) = 0
            <6>1. Cardinality(Of(p, held)) = 1
              BY <1>0, <3>3, <4>1
            <6>2. Cardinality(Of(p, held \ {s})) = Cardinality(Of(p, held)) - 1
              BY <3>1, <3>3
            <6>3. QED
              BY <6>1, <6>2
          <5>2. {s} \in SUBSET held /\ \A t \in {s} : PeerOf(t) = p
            BY <2>2
          <5>3. DeletePeer(p, held) = held \ {s}
            BY <1>0, <3>3, <5>1, <5>2, DeleteLast
          <5>4. QED
            BY <3>4, <4>1, <5>3
        <4>2. CASE countMap[p] # 1
          BY <3>4, <4>2
        <4>3. QED
          BY <4>1, <4>2
      <3>6. \A q \in Peer : countMap'[q] = countMap[q] - (IF p = q THEN 1 ELSE 0)
        BY <1>0, <3>3, <3>4 DEF TypeOK
      <3>7. \A q \in Peer : countMap'[q] = Cardinality(Of(q, held')) /\ countMap'[q] \in Nat
        BY <1>0, <3>1, <3>2, <3>5, <3>6
      <3>8. CountExact'
        BY <3>7 DEF CountExact, PeerStreams, Of
      <3>9. TypeOK'
        BY <1>0, <3>4, <3>5, <3>7 DEF TypeOK, mgr
      <3>10. HeldIsRead' /\ GoneIsClean' /\ OnlyIsKnown'
        BY <1>0, <3>4, <3>5 DEF HeldIsRead, GoneIsClean, ConnStreams, OnlyIsKnown, mgr
      <3>11. QED
        BY <3>8, <3>9, <3>10 DEF IInv
    <2>3. QED
      BY <2>1, <2>2
  <1>6. ASSUME NEW s \in Stream, ReaderSeesClosed(s) PROVE IInv'
    <2>1. CountExact'
      BY <1>1, <1>6 DEF ReaderSeesClosed
    <2>2. TypeOK'
      BY <1>0, <1>6 DEF ReaderSeesClosed, TypeOK, ConnStates, mgr
    <2>3. HeldIsRead' /\ GoneIsClean' /\ OnlyIsKnown'
      BY <1>0, <1>6 DEF ReaderSeesClosed, TypeOK, ConnStates, HeldIsRead, GoneIsClean, ConnStreams, OnlyIsKnown, mgr
    <2>4. QED
      BY <2>1, <2>2, <2>3 DEF IInv
  <1>7. ASSUME \/ CloseNetwork
               \/ \E s \in Stream : ReaderQuits(s)
               \/ \E p \in Peer : Eliminate(p)
               \/ \E c \in Conn : \/ CloseConn(c) \/ AcceptLoopBreaks(c)
                                   \/ NewConn(c) \/ RemovePeerConnection(c)
        PROVE  IInv'
    <2> USE DEF mgr
    <2>1. CountExact'
      BY <1>1, <1>7 DEF CloseNetwork, ReaderQuits, Eliminate, CloseConn, AcceptLoopBreaks,
                        NewConn, RemovePeerConnection
    <2>2. CASE CloseNetwork \/ \E s \in Stream : ReaderQuits(s)
      BY <1>0, <2>1, <2>2 DEF CloseNetwork, ReaderQuits, IInv, TypeOK, HeldIsRead,
                              GoneIsClean, OnlyIsKnown, ConnStreams
    <2>3. ASSUME NEW p \in Peer, Eliminate(p) PROVE IInv'
      <3>1. /\ UNCHANGED <<maxCount, countMap, held, conn, reader, nwClosed>>
            /\ tracked' \subseteq tracked /\ eliminated' = eliminated \cup {p}
            /\ \A c \in tracked : c \in tracked' \/ Owner[c] = p
        BY <2>3 DEF Eliminate, Entry
      <3>2. QED
        BY <1>0, <2>1, <3>1 DEF IInv, TypeOK, HeldIsRead, GoneIsClean, OnlyIsKnown, ConnStreams
    <2>4. ASSUME NEW c \in Conn, CloseConn(c) \/ AcceptLoopBreaks(c) \/ NewConn(c) PROVE IInv'
      <3>1. TypeOK'
        BY <1>0, <2>4 DEF CloseConn, AcceptLoopBreaks, NewConn, TypeOK, ConnStates
      <3>2. HeldIsRead' /\ GoneIsClean' /\ OnlyIsKnown'
        BY <1>0, <2>4 DEF CloseConn, AcceptLoopBreaks, NewConn, TypeOK, HeldIsRead,
                          GoneIsClean, OnlyIsKnown, ConnStreams
      <3>3. QED
        BY <2>1, <3>1, <3>2 DEF IInv
    <2>5. ASSUME NEW c \in Conn, RemovePeerConnection(c) PROVE IInv'
      <3>1. /\ conn[c] = "closed" /\ UNCHANGED <<maxCount, countMap, held, reader, nwClosed>>
            /\ conn' = [conn EXCEPT ![c] = IF c \in tracked \/ Owner[c] \in eliminated
                                          THEN "removed" ELSE "forgotten"]
            /\ tracked' \subseteq tracked /\ eliminated' = eliminated \ {Owner[c]}
            /\ \A d \in tracked : d \in tracked' \/ Owner[d] = Owner[c]
        BY <2>5 DEF RemovePeerConnection, Entry
      <3>2. TypeOK'
        BY <1>0, <3>1 DEF TypeOK, ConnStates
      <3>3. HeldIsRead' /\ GoneIsClean' /\ OnlyIsKnown'
        BY <1>0, <3>1 DEF TypeOK, HeldIsRead, GoneIsClean, OnlyIsKnown, ConnStreams
      <3>4. QED
        BY <2>1, <3>2, <3>3 DEF IInv
    <2>6. QED
      BY <1>7, <2>2, <2>3, <2>4, <2>5
  <1>8. ASSUME NEW c \in Conn, ClosePeerReceiveStreams(c) PROVE IInv'
    <2> DEFINE p == Owner[c]
               k == Cardinality(ConnStreams(c))
    <2>0. p \in Peer /\ countMap[p] \in Nat
      BY <1>0
    <2>1. /\ k \in Nat /\ (ConnStreams(c) # {} => k > 0) /\ k <= countMap[p]
          /\ \A q \in Peer : Cardinality(Of(q, held \ ConnStreams(c)))
               = Cardinality(Of(q, held)) - (IF p = q THEN k ELSE 0)
      BY <1>0, <2>0, OfRemoveConn
    <2> HIDE DEF k
    <2>2. CASE ConnStreams(c) = {}
      <3>1. UNCHANGED <<countMap, held>> /\ UNCHANGED <<maxCount, reader, mgr>>
            /\ conn' = [conn EXCEPT ![c] = "gone"]
        BY <1>8, <2>2 DEF ClosePeerReceiveStreams
      <3>2. CountExact'
        BY <1>1, <3>1
      <3>3. QED
        BY <1>0, <2>2, <3>1, <3>2
           DEF IInv, TypeOK, ConnStates, HeldIsRead, GoneIsClean, ConnStreams, OnlyIsKnown, mgr
    <2>3. CASE ConnStreams(c) # {}
      <3>1. k > 0 /\ countMap[p] # 0
        BY <2>0, <2>1, <2>3
      <3>2. /\ countMap' = [countMap EXCEPT ![p] = countMap[p] - k]
            /\ held' = IF countMap[p] - k = 0 THEN DeletePeer(p, held) ELSE held \ ConnStreams(c)
            /\ UNCHANGED <<maxCount, reader, mgr>> /\ conn' = [conn EXCEPT ![c] = "gone"]
        BY <1>8, <2>3, <3>1 DEF ClosePeerReceiveStreams, k
      <3>3. held' = held \ ConnStreams(c)
        <4>1. CASE countMap[p] - k = 0
          <5>1. Cardinality(Of(p, held \ ConnStreams(c))) = 0
            BY <1>0, <2>0, <2>1, <4>1
          <5>2. ConnStreams(c) \in SUBSET held /\ \A s \in ConnStreams(c) : PeerOf(s) = p
            BY DEF ConnStreams, PeerOf
          <5>3. QED
            BY <1>0, <2>0, <3>2, <4>1, <5>1, <5>2, DeleteLast
        <4>2. CASE countMap[p] - k # 0
          BY <3>2, <4>2
        <4>3. QED
          BY <4>1, <4>2
      <3>4. \A q \in Peer : countMap'[q] = countMap[q] - (IF p = q THEN k ELSE 0)
        <4>1. countMap \in [Peer -> Nat]
          BY <1>0 DEF TypeOK
        <4>2. \A q \in Peer : countMap'[q] = IF p = q THEN countMap[p] - k ELSE countMap[q]
          BY <2>0, <3>2, <4>1
        <4>3. QED
          BY <2>0, <2>1, <4>1, <4>2
      <3>5. \A q \in Peer : countMap'[q] = Cardinality(Of(q, held')) /\ countMap'[q] \in Nat
        <4>1. ASSUME NEW q \in Peer
              PROVE  countMap'[q] = Cardinality(Of(q, held')) /\ countMap'[q] \in Nat
          <5>1. countMap[q] \in Nat /\ countMap[q] = Cardinality(Of(q, held))
            BY <1>0
          <5>2. Cardinality(Of(q, held')) = Cardinality(Of(q, held)) - (IF p = q THEN k ELSE 0)
            BY <2>1, <3>3
          <5>3. countMap'[q] = countMap[q] - (IF p = q THEN k ELSE 0)
            BY <3>4
          <5>4. QED
            BY <2>1, <5>1, <5>2, <5>3
        <4>2. QED
          BY <4>1
      <3>6. CountExact'
        BY <3>5 DEF CountExact, PeerStreams, Of
      <3>7. TypeOK'
        BY <1>0, <3>2, <3>3, <3>5 DEF TypeOK, ConnStates, mgr
      <3>8. HeldIsRead' /\ GoneIsClean' /\ OnlyIsKnown'
        BY <1>0, <3>2, <3>3 DEF TypeOK, HeldIsRead, GoneIsClean, ConnStreams, OnlyIsKnown, mgr
      <3>9. QED
        BY <3>6, <3>7, <3>8 DEF IInv
    <2>4. QED
      BY <2>2, <2>3
  <1>9. CASE UNCHANGED vars
    <2>1. CountExact'
      BY <1>1, <1>9 DEF vars
    <2>2. QED
      BY <1>0, <1>9, <2>1 DEF IInv, vars, TypeOK, HeldIsRead, GoneIsClean, ConnStreams, OnlyIsKnown, mgr
  <1>10. QED
    BY <1>2, <1>3, <1>4, <1>5, <1>6, <1>7, <1>8, <1>9 DEF Next

LEMMA InvAlways == Spec => []IInv
  BY InitInv, StepInv, PTL DEF Spec

-----------------------------------------------------------------------------
\* Every variable keeps its type; the counts never go negative.
THEOREM TypeCorrect == Spec => []TypeOK
  <1>1. IInv => TypeOK
    BY DEF IInv
  <1>2. QED
    BY InvAlways, <1>1, PTL

\* countMap counts each peer's streams exactly, whatever the readers, the
\* accept loops and Reset do to the manager.
THEOREM CountAlwaysExact == Spec => []CountExact
  <1>1. IInv => CountExact
    BY DEF IInv
  <1>2. QED
    BY InvAlways, <1>1, PTL

\* No dead stream of a live connection uses up its peer's quota.
THEOREM QuotaForLiveStreams == Spec => []HeldIsRead
  <1>1. IInv => HeldIsRead
    BY DEF IInv
  <1>2. QED
    BY InvAlways, <1>1, PTL

\* A connection that handleClosingConn has dealt with has no stream left, and
\* the only connection of a peer is always dealt with.
THEOREM CleanWhenGone == Spec => []GoneIsClean
  <1>1. IInv => GoneIsClean
    BY DEF IInv
  <1>2. QED
    BY InvAlways, <1>1, PTL

-----------------------------------------------------------------------------
(* ProtocolPush *)

\* The two hosts are each other's Other.
LEMMA TwoHosts ==
  ASSUME NEW h \in Host
  PROVE Other(h) \in Host /\ Other(h) # h /\ \A g \in Host : g = h \/ g = Other(h)
  <1>1. IsFiniteSet(Host \ {h}) /\ Cardinality(Host \ {h}) = 1
    <2>1. Cardinality(Host \ {h}) = Cardinality(Host) - 1 /\ IsFiniteSet(Host \ {h})
      BY HostAssumption, FS_RemoveElement
    <2>2. QED
      BY <2>1, HostAssumption
  <1>2. PICK g : Host \ {h} = {g}
    BY <1>1, FS_Singleton
  <1>3. \A f \in Host : f # h <=> f = g
    BY <1>2
  <1>4. g \in Host /\ g # h
    BY <1>2
  <1>5. Other(h) = g
    BY <1>3, <1>4 DEF Other
  <1>6. QED
    BY <1>3, <1>4, <1>5

ABag(B) == B \in [DOMAIN B -> Nat \ {0}]
Copies(e, B) == IF e \in DOMAIN B THEN B[e] ELSE 0

LEMMA BagAdd ==
  ASSUME NEW B, ABag(B), NEW m
  PROVE LET C == With(B, m) IN
        /\ ABag(C) /\ DOMAIN C = DOMAIN B \cup {m}
        /\ \A e : Copies(e, C) = IF e = m THEN Copies(m, B) + 1 ELSE Copies(e, B)
  <1>1. SetToBag({m}) = [e \in {m} |-> 1]
    BY DEF SetToBag
  <1>2. QED
  BY <1>1 DEF ABag, Copies, With, (+), SetToBag
LEMMA BagRemove ==
  ASSUME NEW B, ABag(B), NEW m \in DOMAIN B
  PROVE LET C == Without(B, m) IN
        /\ ABag(C) /\ DOMAIN C \subseteq DOMAIN B
        /\ \A e : Copies(e, C) = IF e = m THEN Copies(m, B) - 1 ELSE Copies(e, B)
  BY DEF ABag, Copies, Without, (-), SetToBag

LEMMA CopiesDomain ==
  ASSUME NEW B, ABag(B), NEW e
  PROVE Copies(e, B) \in Nat /\ (e \in DOMAIN B <=> Copies(e, B) # 0)
  BY DEF ABag, Copies

LEMMA BagEmpty == ABag(EmptyBag) /\ DOMAIN EmptyBag = {}
  BY DEF ABag, EmptyBag, SetToBag

-----------------------------------------------------------------------------
\* The push of h under way: a PUSH of h, or an answer to h not signalled yet.
Token(h, m) ==
  \/ m.type = "PUSH" /\ m.from = h
  \/ m.type \in {"PUSH_OK", "signal"} /\ m.from = Other(h)

QuietTypes ==
  /\ handlers \in [Host -> SUBSET Proto] /\ book \in [Host -> SUBSET Proto]
  /\ signalC \in [Host -> 0 .. 2] /\ made \in [Host -> Nat]
  /\ pushSignalC \in [Host -> Channel \cup {None}]
  /\ mine \in [Host -> [Pusher -> Channel \cup {None}]]
  /\ chan \in [Host -> [Channel -> 0 .. 1]]
  /\ pc \in [Host -> [Pusher -> PushStates]]
  /\ ops \in [Host -> 0 .. MaxOps]
  /\ ABag(net) /\ BagToSet(net) \subseteq Message

\* The loops alone push; each has the channel of its host in the map while it
\* is pushing, and no other channel holds anything.
LoopAlone ==
  \A h \in Host :
    /\ \A k \in Pusher : k # Loop => pc[h][k] = "idle" /\ mine[h][k] = None
    /\ pushSignalC[h] = mine[h][Loop]
    /\ mine[h][Loop] # None <=> pc[h][Loop] \in {"send", "wait", "clean"}
    /\ \A n \in Channel : chan[h][n] > 0 => pc[h][Loop] = "wait" /\ n = mine[h][Loop]

\* A channel is made for a signal, a signal for a registration.
ChannelsPaid ==
  \A h \in Host :
    /\ made[h] + signalC[h] <= ops[h]
    /\ pc[h][Loop] \in {"call", "set"} => made[h] + signalC[h] < ops[h]

\* A push has one token, until it has been confirmed.
OneToken ==
  \A h \in Host : \A m \in BagToSet(net) : Token(h, m) =>
    /\ \A n \in BagToSet(net) : Token(h, n) => n = m
    /\ Copies(m, net) = 1
    /\ pc[h][Loop] = "wait" /\ chan[h][mine[h][Loop]] = 0
    /\ m.type = "signal" => m.ref = mine[h][Loop]

QuietInv == QuietTypes /\ LoopAlone /\ ChannelsPaid /\ OneToken
Quiet == ~disturbed => QuietInv

LEMMA QuietInit == PushInit => Quiet
  <1> SUFFICES ASSUME PushInit PROVE QuietInv
    BY DEF Quiet
  <1>1. BagToSet(net) = {} /\ ABag(net)
    BY BagEmpty DEF PushInit, BagToSet
  <1>2. QuietTypes
    BY <1>1, BoundAssumption DEF PushInit, QuietTypes, None, PushStates
  <1>3. LoopAlone /\ ChannelsPaid
    BY PushAssumption, BoundAssumption DEF PushInit, LoopAlone, ChannelsPaid, None
  <1>4. OneToken
    BY <1>1 DEF OneToken
  <1>5. QED
    BY <1>2, <1>3, <1>4 DEF QuietInv
\* What a message that goes, or becomes another one, leaves in net.
LEMMA NetRemove ==
  ASSUME NEW B, ABag(B), NEW m \in BagToSet(B), NEW C, C = Without(B, m)
  PROVE /\ ABag(C) /\ BagToSet(C) \subseteq BagToSet(B)
        /\ Copies(m, B) = 1 => m \notin BagToSet(C)
        /\ \A e : e # m => Copies(e, C) = Copies(e, B)
  <1>1. /\ ABag(C) /\ DOMAIN C \subseteq DOMAIN B
        /\ \A e : Copies(e, C) = IF e = m THEN Copies(m, B) - 1 ELSE Copies(e, B)
    BY BagRemove DEF BagToSet
  <1>2. m \in DOMAIN C <=> Copies(m, C) # 0
    BY <1>1, CopiesDomain
  <1>3. QED
    BY <1>1, <1>2 DEF BagToSet

LEMMA NetAdd ==
  ASSUME NEW B, ABag(B), NEW n, NEW C, C = With(B, n)
  PROVE /\ ABag(C) /\ BagToSet(C) = BagToSet(B) \cup {n}
        /\ n \notin BagToSet(B) => Copies(n, C) = 1
        /\ \A e : e # n => Copies(e, C) = Copies(e, B)
  <1>1. /\ ABag(C) /\ DOMAIN C = DOMAIN B \cup {n}
        /\ \A e : Copies(e, C) = IF e = n THEN Copies(n, B) + 1 ELSE Copies(e, B)
    BY BagAdd
  <1>2. n \notin DOMAIN B => Copies(n, B) = 0
    BY DEF Copies
  <1>3. QED
    BY <1>1, <1>2 DEF BagToSet

LEMMA NetReplace ==
  ASSUME NEW B, ABag(B), NEW m \in BagToSet(B), NEW n, n # m,
         NEW C, C = With(Without(B, m), n)
  PROVE /\ ABag(C) /\ BagToSet(C) \subseteq BagToSet(B) \cup {n}
        /\ Copies(m, B) = 1 => m \notin BagToSet(C)
        /\ n \notin BagToSet(B) => Copies(n, C) = 1
        /\ \A e : e # m /\ e # n => Copies(e, C) = Copies(e, B)
  <1> DEFINE D == Without(B, m)
  <1>1. /\ ABag(D) /\ BagToSet(D) \subseteq BagToSet(B)
        /\ Copies(m, B) = 1 => m \notin BagToSet(D)
        /\ \A e : e # m => Copies(e, D) = Copies(e, B)
    BY NetRemove
  <1>2. C = With(D, n)
    OBVIOUS
  <1> HIDE DEF D
  <1>3. /\ ABag(C) /\ BagToSet(C) = BagToSet(D) \cup {n}
        /\ n \notin BagToSet(D) => Copies(n, C) = 1
        /\ \A e : e # n => Copies(e, C) = Copies(e, D)
    BY <1>1, <1>2, NetAdd
  <1>4. QED
    BY <1>1, <1>3

-----------------------------------------------------------------------------
\* The token of a push becomes another one.
LEMMA TokenMoves ==
  ASSUME QuietTypes, OneToken, NEW h \in Host, NEW m \in BagToSet(net), NEW n \in Message,
         n # m, Token(h, m), Token(h, n), \A g \in Host : Token(g, n) => g = h,
         n.type = "signal" => n.ref = mine[h][Loop],
         net' = With(Without(net, m), n), book' \in [Host -> SUBSET Proto],
         UNCHANGED <<handlers, signalC, chanVars, pc, ops, pushes>>
  PROVE QuietTypes' /\ OneToken'
  <1>1. /\ Copies(m, net) = 1
        /\ \A e \in BagToSet(net) : Token(h, e) => e = m
        /\ pc[h][Loop] = "wait" /\ chan[h][mine[h][Loop]] = 0
    BY DEF OneToken
  <1>2. n \notin BagToSet(net)
    BY <1>1
  <1>3. Copies(m, net) = 1 => m \notin BagToSet(net')
    BY NetReplace DEF QuietTypes
  <1>4. n \notin BagToSet(net) => Copies(n, net') = 1
    BY NetReplace DEF QuietTypes
  <1>5. /\ ABag(net') /\ BagToSet(net') \subseteq BagToSet(net) \cup {n}
        /\ \A e : e # m /\ e # n => Copies(e, net') = Copies(e, net)
    BY NetReplace DEF QuietTypes
  <1>6. QuietTypes'
    BY <1>5 DEF QuietTypes, chanVars
  <1>7. OneToken'
    <2> SUFFICES ASSUME NEW g \in Host, NEW e \in BagToSet(net'), Token(g, e)
          PROVE /\ \A f \in BagToSet(net') : Token(g, f) => f = e
                /\ Copies(e, net') = 1
                /\ pc[g][Loop] = "wait" /\ chan[g][mine[g][Loop]] = 0
                /\ e.type = "signal" => e.ref = mine[g][Loop]
      BY DEF OneToken, Token, chanVars
    <2>1. CASE g = h
      <3>1. \A f \in BagToSet(net') : Token(h, f) => f = n
        BY <1>1, <1>3, <1>5
      <3>2. QED
        BY <1>1, <1>2, <1>4, <2>1, <3>1
    <2>2. CASE g # h
      <3>1. ~Token(g, n) /\ ~Token(g, m)
        BY <2>2, <1>1, TwoHosts DEF Token, QuietTypes, Message
      <3>2. e # n /\ e # m /\ e \in BagToSet(net) /\ \A f \in BagToSet(net') : Token(g, f) => f \in BagToSet(net)
        BY <1>5, <3>1
      <3>3. QED
        BY <1>5, <3>2 DEF OneToken
    <2>3. QED
      BY <2>1, <2>2
  <1>8. QED
    BY <1>6, <1>7

LEMMA QuietStep == Quiet /\ [PushNext]_pushVars => Quiet'
  <1> SUFFICES ASSUME Quiet, [PushNext]_pushVars, ~disturbed' PROVE QuietInv'
    BY DEF Quiet
  <1> USE DEF chanVars
  <1>0. ASSUME ~disturbed PROVE QuietTypes /\ LoopAlone /\ ChannelsPaid /\ OneToken
    BY <1>0 DEF Quiet, QuietInv
  <1>1. CASE UNCHANGED pushVars
    BY <1>0, <1>1 DEF pushVars, QuietInv, QuietTypes, LoopAlone, ChannelsPaid, OneToken
  <1>2. ASSUME NEW h \in Host, NEW x \in Proto,
               RegisterMsgPayloadHandler(h, x) \/ UnregisterMsgPayloadHandler(h, x)
        PROVE QuietInv'
    <2>1. /\ ~disturbed /\ ops[h] < MaxOps
          /\ ops' = [ops EXCEPT ![h] = @ + 1]
          /\ signalC' = [signalC EXCEPT ![h] = IF @ < 2 THEN @ + 1 ELSE @]
          /\ UNCHANGED <<book, chanVars, pc, net>>
      BY <1>2 DEF RegisterMsgPayloadHandler, UnregisterMsgPayloadHandler, triggerPushProtocol
    <2>2. QuietTypes /\ LoopAlone /\ ChannelsPaid /\ OneToken
      BY <1>0, <2>1
    <2>3. handlers' \in [Host -> SUBSET Proto]
      <3>1. CASE RegisterMsgPayloadHandler(h, x)
        BY <2>2, <3>1 DEF RegisterMsgPayloadHandler, QuietTypes
      <3>2. CASE UnregisterMsgPayloadHandler(h, x)
        BY <2>2, <3>2 DEF UnregisterMsgPayloadHandler, QuietTypes
      <3>3. QED
        BY <1>2, <3>1, <3>2
    <2>4. QuietTypes'
      BY <2>1, <2>2, <2>3, BoundAssumption DEF QuietTypes
    <2>5. LoopAlone' /\ OneToken'
      BY <2>1, <2>2 DEF LoopAlone, OneToken
    <2>6. ChannelsPaid'
      <3>1. \A g \in Host : made[g] \in Nat /\ signalC[g] \in 0 .. 2 /\ ops[g] \in 0 .. MaxOps
        BY <2>2 DEF QuietTypes
      <3>2. /\ ops'[h] = ops[h] + 1 /\ signalC'[h] \in {signalC[h], signalC[h] + 1}
            /\ \A g \in Host : g # h => ops'[g] = ops[g] /\ signalC'[g] = signalC[g]
        BY <2>1, <2>2 DEF QuietTypes
      <3>3. QED
        BY <2>1, <2>2, <3>1, <3>2, BoundAssumption DEF ChannelsPaid
    <2>7. QED
      BY <2>4, <2>5, <2>6 DEF QuietInv
  <1>3. ASSUME NEW h \in Host, TakeSignal(h) PROVE QuietInv'
    <2>1. QuietTypes /\ LoopAlone /\ ChannelsPaid /\ OneToken
      BY <1>0, <1>3 DEF TakeSignal
    <2>2. QuietTypes'
      BY <1>3, <2>1, PushAssumption DEF TakeSignal, Goto, QuietTypes, PushStates
    <2>3. LoopAlone'
      BY <1>3, <2>1, PushAssumption DEF TakeSignal, Goto, QuietTypes, LoopAlone
    <2>4. OneToken'
      BY <1>3, <2>1, PushAssumption DEF TakeSignal, Goto, QuietTypes, OneToken
    <2>5. ChannelsPaid'
      <3>1. \A g \in Host : made[g] \in Nat /\ signalC[g] \in 0 .. 2 /\ ops[g] \in 0 .. MaxOps
        BY <2>1 DEF QuietTypes
      <3>2. /\ signalC[h] > 0 /\ signalC'[h] = signalC[h] - 1
            /\ \A g \in Host : g # h => pc'[g] = pc[g] /\ signalC'[g] = signalC[g]
            /\ UNCHANGED <<made, ops>>
        BY <1>3, <2>1 DEF TakeSignal, Goto, QuietTypes
      <3>3. QED
        BY <2>1, <3>1, <3>2, BoundAssumption DEF ChannelsPaid
    <2>6. QED
      BY <2>2, <2>3, <2>4, <2>5 DEF QuietInv
  <1>4. ASSUME NEW h \in Host, NEW k \in Pusher, PushAgain(h, k) PROVE QuietInv'
    BY <1>4 DEF PushAgain
  <1>5. ASSUME NEW h \in Host, NEW k \in Pusher, PushLook(h, k) PROVE QuietInv'
    <2>1. QuietTypes /\ LoopAlone /\ ChannelsPaid /\ OneToken
      BY <1>0, <1>5 DEF PushLook
    <2>2. k = Loop
      BY <1>5, <2>1 DEF PushLook, LoopAlone
    <2>3. QuietTypes'
      BY <1>5, <2>1, PushAssumption DEF PushLook, Goto, QuietTypes, PushStates
    <2>4. LoopAlone' /\ ChannelsPaid' /\ OneToken'
      BY <1>5, <2>1, <2>2, PushAssumption
         DEF PushLook, Goto, QuietTypes, LoopAlone, ChannelsPaid, OneToken
    <2>5. QED
      BY <2>3, <2>4 DEF QuietInv
  <1>6. ASSUME NEW h \in Host, NEW k \in Pusher, PushSet(h, k) PROVE QuietInv'
    <2>1. QuietTypes /\ LoopAlone /\ ChannelsPaid /\ OneToken
      BY <1>0, <1>6 DEF PushSet
    <2>2. k = Loop
      BY <1>6, <2>1 DEF PushSet, LoopAlone
    <2>3. made[h] + 1 \in Channel /\ made[h] + 1 # None /\ made[h] \in Nat
      <3>1. made[h] \in Nat /\ signalC[h] \in 0 .. 2 /\ ops[h] \in 0 .. MaxOps
        BY <2>1 DEF QuietTypes
      <3>2. made[h] + signalC[h] < ops[h]
        BY <1>6, <2>1, <2>2 DEF PushSet, ChannelsPaid
      <3>3. QED
        BY <3>1, <3>2, BoundAssumption DEF Channel, None
    <2>4. QuietTypes'
      BY <1>6, <2>1, <2>3 DEF PushSet, Goto, QuietTypes, PushStates
    <2>5. LoopAlone' /\ OneToken'
      BY <1>6, <2>1, <2>2, <2>3, PushAssumption
         DEF PushSet, Goto, QuietTypes, LoopAlone, OneToken
    <2>6. ChannelsPaid'
      <3>1. /\ pc[h][Loop] = "set" /\ pc'[h][Loop] = "send"
            /\ made'[h] = made[h] + 1 /\ signalC' = signalC /\ ops' = ops
            /\ \A g \in Host : g # h => made'[g] = made[g] /\ pc'[g] = pc[g]
        BY <1>6, <2>1, <2>2, PushAssumption DEF PushSet, Goto, QuietTypes
      <3>2. \A g \in Host : made[g] \in Nat /\ signalC[g] \in 0 .. 2 /\ ops[g] \in 0 .. MaxOps
        BY <2>1 DEF QuietTypes
      <3>3. QED
        BY <2>1, <3>1, <3>2, BoundAssumption DEF ChannelsPaid
    <2>7. QED
      BY <2>4, <2>5, <2>6 DEF QuietInv
  <1>7. ASSUME NEW h \in Host, NEW k \in Pusher, PushSend(h, k) PROVE QuietInv'
    <2> DEFINE m == buildProtocolsPayload(h, "PUSH")
    <2>0. /\ ~disturbed /\ pc[h][k] = "send" /\ net' = With(net, m)
          /\ pc' = [pc EXCEPT ![h][k] = "wait"]
          /\ UNCHANGED <<handlers, book, signalC, chanVars, ops, pushes>>
      BY <1>7 DEF PushSend, SendFails, Send, Goto
    <2>1. QuietTypes /\ LoopAlone /\ ChannelsPaid /\ OneToken
      BY <1>0, <2>0
    <2>2. k = Loop
      BY <2>0, <2>1 DEF LoopAlone
    <2>3. m \in Message /\ m.type = "PUSH" /\ m.from = h
      BY <2>1 DEF buildProtocolsPayload, Message, QuietTypes
    <2> HIDE DEF m
    <2>4. /\ ABag(net') /\ BagToSet(net') = BagToSet(net) \cup {m}
          /\ m \notin BagToSet(net) => Copies(m, net') = 1
          /\ \A e : e # m => Copies(e, net') = Copies(e, net)
      BY <2>0, <2>1, NetAdd DEF QuietTypes
    <2>5. \A e \in BagToSet(net) : ~Token(h, e)
      BY <2>0, <2>1, <2>2 DEF OneToken
    <2>6. Token(h, m) /\ \A g \in Host : Token(g, m) => g = h
      BY <2>3 DEF Token
    <2>7. QuietTypes'
      BY <2>0, <2>1, <2>3, <2>4 DEF QuietTypes, PushStates
    <2>8. LoopAlone'
      BY <2>0, <2>1, <2>2, PushAssumption DEF QuietTypes, LoopAlone
    <2>9. ChannelsPaid'
      BY <2>0, <2>1, <2>2, PushAssumption DEF QuietTypes, ChannelsPaid
    <2>10. chan[h][mine[h][Loop]] = 0
      <3>1. pc[h][Loop] = "send" /\ mine[h][Loop] # None
        BY <2>0, <2>1, <2>2 DEF LoopAlone
      <3>2. mine[h][Loop] \in Channel
        BY <2>1, <3>1, PushAssumption DEF QuietTypes
      <3>3. chan[h][mine[h][Loop]] \in 0 .. 1
        BY <2>1, <3>2 DEF QuietTypes
      <3>4. ~(chan[h][mine[h][Loop]] > 0)
        BY <2>1, <3>1, <3>2 DEF LoopAlone
      <3>5. QED
        BY <3>3, <3>4
    <2>11. OneToken'
      <3>1. \A e \in BagToSet(net) : e # m => Copies(e, net') = Copies(e, net)
        BY <2>4
      <3> SUFFICES ASSUME NEW g \in Host, NEW e \in BagToSet(net'), Token(g, e)
            PROVE /\ \A n \in BagToSet(net') : Token(g, n) => n = e
                  /\ Copies(e, net') = 1
                  /\ pc'[g][Loop] = "wait" /\ chan[g][mine[g][Loop]] = 0
                  /\ e.type = "signal" => e.ref = mine[g][Loop]
        BY <2>0 DEF OneToken, Token
      <3>2. CASE g = h
        <4>1. e = m /\ m \notin BagToSet(net)
          BY <2>4, <2>5, <2>6, <3>2
        <4>2. QED
          BY <2>0, <2>1, <2>2, <2>3, <2>4, <2>5, <2>10, <3>2, <4>1, PushAssumption DEF QuietTypes
      <3>3. CASE g # h
        <4>1. e # m /\ e \in BagToSet(net) /\ ~Token(g, m)
          BY <2>4, <2>6, <3>3
        <4>2. QED
          BY <2>0, <2>1, <2>4, <3>1, <3>3, <4>1 DEF OneToken, QuietTypes
      <3>4. QED
        BY <3>2, <3>3
    <2>12. QED
      BY <2>7, <2>8, <2>9, <2>11 DEF QuietInv
  <1>8. ASSUME NEW h \in Host, NEW k \in Pusher, PushWait(h, k) PROVE QuietInv'
    <2>0. /\ ~disturbed /\ pc[h][k] = "wait" /\ chan[h][mine[h][k]] > 0
          /\ chan' = [chan EXCEPT ![h][mine[h][k]] = @ - 1]
          /\ pc' = [pc EXCEPT ![h][k] = "clean"]
          /\ UNCHANGED <<handlers, book, signalC, pushSignalC, made, mine, net, ops, pushes>>
      BY <1>8 DEF PushWait, Goto
    <2>1. QuietTypes /\ LoopAlone /\ ChannelsPaid /\ OneToken
      BY <1>0, <2>0
    <2>2. k = Loop
      BY <2>0, <2>1 DEF LoopAlone
    <2>3. mine[h][Loop] \in Channel
      BY <2>0, <2>1, <2>2, PushAssumption DEF QuietTypes, LoopAlone
    <2>4. QuietTypes'
      BY <2>0, <2>1, <2>2, <2>3 DEF QuietTypes, PushStates
    <2>5. LoopAlone'
      <3>1. \A g \in Host : \A j \in Pusher : j # Loop => pc'[g][j] = pc[g][j]
        BY <2>0, <2>1, <2>2 DEF QuietTypes
      <3>2. \A n \in Channel : chan'[h][n] = 0
        BY <2>0, <2>1, <2>2, <2>3 DEF QuietTypes, LoopAlone
      <3>3. \A g \in Host : g # h => pc'[g] = pc[g] /\ chan'[g] = chan[g]
        BY <2>0, <2>1 DEF QuietTypes
      <3>4. pc'[h][Loop] = "clean"
        BY <2>0, <2>1, <2>2, PushAssumption DEF QuietTypes
      <3>5. QED
        BY <2>0, <2>1, <2>2, <3>1, <3>2, <3>3, <3>4 DEF LoopAlone
    <2>6. ChannelsPaid'
      BY <2>0, <2>1, <2>2, PushAssumption DEF QuietTypes, ChannelsPaid
    <2>7. OneToken'
      BY <2>0, <2>1, <2>2, PushAssumption DEF QuietTypes, OneToken
    <2>8. QED
      BY <2>4, <2>5, <2>6, <2>7 DEF QuietInv
  <1>9. ASSUME NEW h \in Host, NEW k \in Pusher, PushClean(h, k) PROVE QuietInv'
    <2>1. QuietTypes /\ LoopAlone /\ ChannelsPaid /\ OneToken
      BY <1>0, <1>9 DEF PushClean
    <2>2. k = Loop
      BY <1>9, <2>1 DEF PushClean, LoopAlone
    <2>3. QuietTypes'
      BY <1>9, <2>1 DEF PushClean, Goto, QuietTypes, PushStates
    <2>4. LoopAlone'
      BY <1>9, <2>1, <2>2, PushAssumption DEF PushClean, Goto, QuietTypes, LoopAlone
    <2>5. ChannelsPaid' /\ OneToken'
      BY <1>9, <2>1, <2>2, PushAssumption
         DEF PushClean, Goto, QuietTypes, ChannelsPaid, OneToken
    <2>6. QED
      BY <2>3, <2>4, <2>5 DEF QuietInv
  <1>10. ASSUME NEW m \in BagToSet(net), HandlePush(m) PROVE QuietInv'
    <2> DEFINE h == Other(m.from)
               n == buildProtocolsPayload(h, "PUSH_OK")
    <2>0. /\ ~disturbed /\ m.type = "PUSH" /\ book' = [book EXCEPT ![h] = m.protocols]
          /\ net' = With(Without(net, m), n)
          /\ UNCHANGED <<handlers, signalC, chanVars, pc, ops, pushes>>
      BY <1>10 DEF HandlePush, SendFails
    <2>1. QuietTypes /\ LoopAlone /\ ChannelsPaid /\ OneToken
      BY <1>0, <2>0
    <2>2. m \in Message /\ m.from \in Host /\ h \in Host /\ Other(h) = m.from /\ h # m.from
      BY <2>1, TwoHosts DEF QuietTypes, Message
    <2>3. n \in Message /\ n.type = "PUSH_OK" /\ n.from = h
      BY <2>1, <2>2 DEF buildProtocolsPayload, Message, QuietTypes
    <2> HIDE DEF n
    <2>4. /\ Token(m.from, m) /\ Token(m.from, n) /\ n # m
          /\ \A g \in Host : Token(g, n) => g = m.from
      BY <2>0, <2>2, <2>3, TwoHosts DEF Token
    <2>5. book' \in [Host -> SUBSET Proto] /\ n.type # "signal"
      BY <2>0, <2>1, <2>2, <2>3 DEF QuietTypes, Message
    <2>6. QuietTypes' /\ OneToken'
      BY <2>0, <2>1, <2>2, <2>3, <2>4, <2>5, TokenMoves
    <2>7. QED
      BY <2>0, <2>1, <2>6 DEF QuietInv, LoopAlone, ChannelsPaid
  <1>11. ASSUME NEW m \in BagToSet(net), HandlePushOk(m) PROVE QuietInv'
    <2> DEFINE h == Other(m.from)
               c == pushSignalC[h]
               n == [m EXCEPT !.type = IF c = None THEN "store" ELSE "signal", !.ref = c]
    <2>0. /\ ~disturbed /\ m.type = "PUSH_OK" /\ net' = With(Without(net, m), n)
          /\ UNCHANGED <<handlers, book, signalC, chanVars, pc, ops, pushes>>
      BY <1>11 DEF HandlePushOk, Replace
    <2>1. QuietTypes /\ LoopAlone /\ ChannelsPaid /\ OneToken
      BY <1>0, <2>0
    <2>2. m \in Message /\ m.from \in Host /\ h \in Host /\ Other(h) = m.from /\ h # m.from
      BY <2>1, TwoHosts DEF QuietTypes, Message
    <2>3. Token(h, m)
      BY <2>0, <2>2 DEF Token
    <2>4. c = mine[h][Loop] /\ c # None /\ c \in Channel \cup {None}
      BY <2>1, <2>2, <2>3 DEF OneToken, LoopAlone, QuietTypes
    <2>5. n \in Message /\ n.type = "signal" /\ n.from = m.from /\ n.ref = mine[h][Loop]
      BY <2>2, <2>4 DEF Message
    <2> HIDE DEF n
    <2>6. /\ Token(h, n) /\ n # m
          /\ \A g \in Host : Token(g, n) => g = h
      BY <2>0, <2>2, <2>5, TwoHosts DEF Token
    <2>7. QuietTypes' /\ OneToken'
      BY <2>0, <2>1, <2>2, <2>3, <2>5, <2>6, TokenMoves DEF QuietTypes
    <2>8. QED
      BY <2>0, <2>1, <2>7 DEF QuietInv, LoopAlone, ChannelsPaid
  <1>12. ASSUME NEW m \in BagToSet(net), SignalPush(m) PROVE QuietInv'
    <2> DEFINE h == Other(m.from)
               n == [m EXCEPT !.type = "store", !.ref = None]
    <2>0. /\ ~disturbed /\ m.type = "signal" /\ net' = With(Without(net, m), n)
          /\ chan' = [chan EXCEPT ![h][m.ref] = 1]
          /\ UNCHANGED <<handlers, book, signalC, pushSignalC, made, mine, pc, ops, pushes>>
      BY <1>12 DEF SignalPush, Replace
    <2>1. QuietTypes /\ LoopAlone /\ ChannelsPaid /\ OneToken
      BY <1>0, <2>0
    <2>2. m \in Message /\ m.from \in Host /\ h \in Host /\ Other(h) = m.from /\ h # m.from
      BY <2>1, TwoHosts DEF QuietTypes, Message
    <2>3. Token(h, m)
      BY <2>0, <2>2 DEF Token
    <2>4. m.ref = mine[h][Loop] /\ pc[h][Loop] = "wait" /\ Copies(m, net) = 1
      BY <2>0, <2>1, <2>2, <2>3 DEF OneToken
    <2>5. m.ref \in Channel
      BY <2>1, <2>2, <2>4, PushAssumption DEF LoopAlone, QuietTypes
    <2>6. n \in Message /\ n.type = "store" /\ n # m
      BY <2>0, <2>2 DEF Message
    <2> HIDE DEF n
    <2>7. /\ ABag(net') /\ BagToSet(net') \subseteq BagToSet(net) \cup {n}
          /\ m \notin BagToSet(net')
          /\ \A e : e # m /\ e # n => Copies(e, net') = Copies(e, net)
      <3>1. Copies(m, net) = 1 => m \notin BagToSet(net')
        BY <2>0, <2>1, <2>6, NetReplace DEF QuietTypes
      <3>2. QED
        BY <2>0, <2>1, <2>4, <2>6, <3>1, NetReplace DEF QuietTypes
    <2>8. QuietTypes'
      BY <2>0, <2>1, <2>2, <2>5, <2>6, <2>7 DEF QuietTypes
    <2>9. LoopAlone'
      <3>1. \A k \in Channel : k # m.ref => chan'[h][k] = chan[h][k]
        BY <2>0, <2>1 DEF QuietTypes
      <3>2. \A g \in Host : g # h => chan'[g] = chan[g]
        BY <2>0, <2>1 DEF QuietTypes
      <3>3. QED
        BY <2>0, <2>1, <2>2, <2>4, <3>1, <3>2 DEF LoopAlone
    <2>10. ChannelsPaid'
      BY <2>0, <2>1 DEF ChannelsPaid
    <2>11. OneToken'
      <3>1. \A e \in BagToSet(net') : ~Token(h, e)
        <4>1. ~Token(h, n)
          BY <2>6 DEF Token
        <4>2. \A e \in BagToSet(net) : Token(h, e) => e = m
          BY <2>1, <2>2, <2>3 DEF OneToken
        <4>3. QED
          BY <2>7, <4>1, <4>2
      <3>2. \A g \in Host : g # h => chan'[g] = chan[g] /\ ~Token(g, m) /\ ~Token(g, n)
        BY <2>0, <2>1, <2>2, <2>6, TwoHosts DEF QuietTypes, Token
      <3>3. QED
        BY <2>0, <2>1, <2>7, <3>1, <3>2 DEF OneToken
    <2>12. QED
      BY <2>8, <2>9, <2>10, <2>11 DEF QuietInv
  <1>13. ASSUME NEW m \in BagToSet(net), StorePushOk(m) PROVE QuietInv'
    <2>0. /\ ~disturbed /\ m.type = "store" /\ net' = Without(net, m)
          /\ book' = [book EXCEPT ![Other(m.from)] = m.protocols]
          /\ UNCHANGED <<handlers, signalC, chanVars, pc, ops, pushes>>
      BY <1>13 DEF StorePushOk
    <2>1. QuietTypes /\ LoopAlone /\ ChannelsPaid /\ OneToken
      BY <1>0, <2>0
    <2>2. m \in Message
      BY <2>1 DEF QuietTypes
    <2>3. /\ ABag(net') /\ BagToSet(net') \subseteq BagToSet(net)
          /\ \A e : e # m => Copies(e, net') = Copies(e, net)
      BY <2>0, <2>1, NetRemove DEF QuietTypes
    <2>4. QuietTypes'
      BY <2>0, <2>1, <2>2, <2>3 DEF QuietTypes, Message
    <2>5. \A g \in Host : ~Token(g, m)
      BY <2>0 DEF Token
    <2>6. OneToken'
      BY <2>0, <2>1, <2>3, <2>5 DEF OneToken
    <2>7. QED
      BY <2>0, <2>1, <2>4, <2>6 DEF QuietInv, LoopAlone, ChannelsPaid
  <1>14. QED
    BY <1>1, <1>2, <1>3, <1>4, <1>5, <1>6, <1>7, <1>8, <1>9, <1>10, <1>11, <1>12, <1>13
       DEF PushNext, PushStep, Handle, HandleStep

LEMMA QuietAlways == PushSpec => []Quiet
  BY QuietInit, QuietStep, PTL DEF PushSpec


\* A signal on the loop's channel means that its push has been stored.
THEOREM ConfirmationsConfirm == PushSpec => []ConfirmedIsApplied
  <1>1. Quiet => ConfirmedIsApplied
    <2> SUFFICES ASSUME Quiet, NEW h \in Host, ~disturbed, chan[h][mine[h][Loop]] > 0,
                        NEW m \in BagToSet(net), m.type = "PUSH", m.from = h
                 PROVE FALSE
      BY DEF ConfirmedIsApplied
    <2>1. Token(h, m)
      BY DEF Token
    <2>2. QED
      BY <2>1 DEF Quiet, QuietInv, OneToken
  <1>2. QED
    BY QuietAlways, <1>1, PTL

-----------------------------------------------------------------------------
(* One host registers, a; the other one, b, only answers. *)

\* b has registered nothing and pushes nothing: a hears only of an empty set,
\* and has nothing to answer.
Listens(a, b) ==
  /\ handlers[b] = {} /\ signalC[b] = 0 /\ pc[b][Loop] = "idle" /\ book[a] = {}
  /\ \A m \in BagToSet(net) :
       IF m.from = a THEN m.type = "PUSH" ELSE m.type # "PUSH" /\ m.protocols = {}

\* What a has registered is going to be pushed, is on its way, or has arrived.
Informed(a, b) ==
  \/ signalC[a] > 0
  \/ pc[a][Loop] \in {"call", "set", "send"}
  \/ /\ \A m \in BagToSet(net) : m.from = a => m.protocols = handlers[a]
     /\ (\A m \in BagToSet(net) : m.from # a) => book[b] = handlers[a]

Agreed(a) == ~disturbed => QuietInv /\ Listens(a, Other(a)) /\ Informed(a, Other(a))

LEMMA AgreedInit == ASSUME NEW a \in Host PROVE PushInit => Agreed(a)
  <1> SUFFICES ASSUME PushInit PROVE Listens(a, Other(a)) /\ Informed(a, Other(a)) /\ QuietInv
    BY DEF Agreed
  <1>1. BagToSet(net) = {} 
    BY BagEmpty DEF PushInit, BagToSet
  <1>2. QuietInv
    BY QuietInit DEF Quiet, PushInit
  <1>3. QED
    BY <1>1, <1>2, TwoHosts, PushAssumption DEF PushInit, Listens, Informed

LEMMA AgreedStep ==
  ASSUME NEW a \in Host, Registrars \subseteq {a}, Agreed(a), [PushNext]_pushVars
  PROVE Agreed(a)'
  <1> DEFINE b == Other(a)
  <1>0. b \in Host /\ b # a /\ (\A g \in Host : g = a \/ g = b) /\ Other(b) = a
    BY TwoHosts
  <1> HIDE DEF b
  <1> SUFFICES ASSUME ~disturbed' PROVE QuietInv' /\ Listens(a, b)' /\ Informed(a, b)'
    BY DEF Agreed, b, Other
  <1> USE DEF chanVars
  <1>1. QuietInv'
    BY QuietStep DEF Agreed, Quiet
  <1>2. ASSUME ~disturbed PROVE QuietTypes /\ LoopAlone /\ OneToken /\ Listens(a, b) /\ Informed(a, b)
    BY <1>2 DEF Agreed, QuietInv, b
  <1>3. CASE UNCHANGED pushVars
    BY <1>1, <1>2, <1>3 DEF pushVars, Listens, Informed
  <1>4. ASSUME NEW h \in Host, NEW x \in Proto,
               RegisterMsgPayloadHandler(h, x) \/ UnregisterMsgPayloadHandler(h, x)
        PROVE Listens(a, b)' /\ Informed(a, b)'
    <2>0. /\ ~disturbed /\ h = a
          /\ signalC' = [signalC EXCEPT ![h] = IF @ < 2 THEN @ + 1 ELSE @]
          /\ UNCHANGED <<book, chanVars, pc, net>>
      BY <1>4 DEF RegisterMsgPayloadHandler, UnregisterMsgPayloadHandler, triggerPushProtocol
    <2>1. handlers'[b] = handlers[b]
      BY <1>0, <1>2, <1>4, <2>0
         DEF RegisterMsgPayloadHandler, UnregisterMsgPayloadHandler, QuietTypes
    <2>2. signalC'[a] > 0 /\ signalC'[b] = signalC[b]
      <3>1. signalC[a] \in 0 .. 2 /\ signalC'[a] = IF signalC[a] < 2 THEN signalC[a] + 1 ELSE signalC[a]
        BY <1>2, <2>0 DEF QuietTypes
      <3>2. signalC'[b] = signalC[b]
        BY <1>0, <1>2, <2>0 DEF QuietTypes
      <3>3. QED
        BY <3>1, <3>2
    <2>3. QED
      BY <1>2, <2>0, <2>1, <2>2 DEF Listens, Informed
  <1>5. ASSUME NEW h \in Host, TakeSignal(h) PROVE Listens(a, b)' /\ Informed(a, b)'
    <2>1. QuietTypes /\ Listens(a, b) /\ h = a
      BY <1>0, <1>2, <1>5 DEF TakeSignal, Listens
    <2>2. QED
      BY <1>0, <1>5, <2>1, PushAssumption DEF TakeSignal, Goto, QuietTypes, Listens, Informed
  <1>6. ASSUME NEW h \in Host, NEW k \in Pusher, PushAgain(h, k) PROVE FALSE
    BY <1>6 DEF PushAgain
  <1>7. ASSUME NEW h \in Host, NEW k \in Pusher, 
               PushLook(h, k) \/ PushSet(h, k) \/ PushSend(h, k) \/ PushWait(h, k) \/ PushClean(h, k),
               ~disturbed
        PROVE h = a /\ k = Loop
    BY <1>0, <1>2, <1>7 DEF PushLook, PushSet, PushSend, SendFails, PushWait, PushClean, LoopAlone, Listens
  <1>8. ASSUME NEW h \in Host, NEW k \in Pusher, PushLook(h, k) \/ PushSet(h, k)
        PROVE Listens(a, b)' /\ Informed(a, b)'
    <2>1. ~disturbed /\ h = a /\ k = Loop
      BY <1>7, <1>8 DEF PushLook, PushSet
    <2>2. /\ pc'[a][Loop] \in {"set", "send"} /\ pc'[b][Loop] = pc[b][Loop]
          /\ UNCHANGED <<handlers, book, signalC, net>>
      BY <1>0, <1>2, <1>8, <2>1, PushAssumption DEF PushLook, PushSet, Goto, QuietTypes
    <2>3. QED
      BY <1>2, <2>1, <2>2 DEF Listens, Informed
  <1>9. ASSUME NEW h \in Host, NEW k \in Pusher, PushSend(h, k)
        PROVE Listens(a, b)' /\ Informed(a, b)'
    <2> DEFINE m == buildProtocolsPayload(a, "PUSH")
    <2>0. ~disturbed
      BY <1>9 DEF PushSend, SendFails
    <2>1. ~disturbed /\ h = a /\ k = Loop
      BY <1>7, <1>9, <2>0
    <2>2. /\ pc[a][Loop] = "send" /\ net' = With(net, m)
          /\ pc'[b][Loop] = pc[b][Loop] /\ UNCHANGED <<handlers, book, signalC>>
      BY <1>0, <1>2, <1>9, <2>1 DEF PushSend, SendFails, Send, Goto, QuietTypes
    <2>3. m.type = "PUSH" /\ m.from = a /\ m.protocols = handlers[a]
      BY DEF buildProtocolsPayload
    <2> HIDE DEF m
    <2>4. BagToSet(net') = BagToSet(net) \cup {m}
      BY <1>2, <2>1, <2>2, NetAdd DEF QuietTypes
    <2>5. \A e \in BagToSet(net) : e.from # a
      <3>1. \A e \in BagToSet(net) : e.from = a => Token(a, e)
        BY <1>2, <2>1 DEF Token, Listens
      <3>2. QED
        BY <1>2, <2>1, <2>2, <3>1 DEF OneToken
    <2>6. QED
      BY <1>2, <2>1, <2>2, <2>3, <2>4, <2>5 DEF Listens, Informed
  <1>10. ASSUME NEW h \in Host, NEW k \in Pusher, PushWait(h, k) \/ PushClean(h, k)
        PROVE Listens(a, b)' /\ Informed(a, b)'
    <2>0. ~disturbed
      BY <1>10 DEF PushWait, PushClean
    <2>1. ~disturbed /\ h = a /\ k = Loop
      BY <1>7, <1>10, <2>0
    <2>2. /\ pc[a][Loop] \in {"wait", "clean"} /\ pc'[b][Loop] = pc[b][Loop]
          /\ UNCHANGED <<handlers, book, signalC, net>>
      BY <1>0, <1>2, <1>10, <2>1 DEF PushWait, PushClean, Goto, QuietTypes
    <2>3. QED
      BY <1>2, <2>1, <2>2 DEF Listens, Informed
  <1>11. ASSUME NEW m \in BagToSet(net), HandlePush(m)
         PROVE Listens(a, b)' /\ Informed(a, b)'
    <2> DEFINE n == buildProtocolsPayload(b, "PUSH_OK")
    <2>1. ~disturbed /\ m.type = "PUSH"
      BY <1>11 DEF HandlePush, SendFails
    <2>2. m.from = a
      BY <1>2, <2>1 DEF Listens
    <2>3. /\ book' = [book EXCEPT ![b] = m.protocols] /\ net' = With(Without(net, m), n)
          /\ UNCHANGED <<handlers, signalC, pc>>
      BY <1>11, <2>2 DEF HandlePush, SendFails, b
    <2>4. n.type = "PUSH_OK" /\ n.from = b /\ n.protocols = {}
      BY <1>2, <2>1 DEF buildProtocolsPayload, Listens
    <2> HIDE DEF n
    <2>5. Token(a, m) /\ n # m
      BY <1>0, <2>1, <2>2, <2>4 DEF Token
    <2>6. Copies(m, net) = 1 /\ \A e \in BagToSet(net) : e.from = a => e = m
      <3>1. \A e \in BagToSet(net) : e.from = a => Token(a, e)
        BY <1>2, <2>1 DEF Token, Listens
      <3>2. QED
        BY <1>2, <2>1, <2>5, <3>1 DEF OneToken
    <2>7. BagToSet(net') \subseteq BagToSet(net) \cup {n}
      BY <1>2, <2>1, <2>3, <2>5, NetReplace DEF QuietTypes
    <2>8. m \notin BagToSet(net')
      <3>1. Copies(m, net) = 1 => m \notin BagToSet(net')
        BY <1>2, <2>1, <2>3, <2>5, NetReplace DEF QuietTypes
      <3>2. QED
        BY <2>6, <3>1
    <2>9. \A e \in BagToSet(net') : e.from # a
      BY <1>0, <2>4, <2>6, <2>7, <2>8
    <2>10. book'[a] = book[a] /\ book'[b] = m.protocols
      BY <1>0, <1>2, <2>1, <2>3 DEF QuietTypes
    <2>11. Listens(a, b)'
      BY <1>0, <1>2, <2>1, <2>3, <2>4, <2>7, <2>9, <2>10 DEF Listens
    <2>12. Informed(a, b)'
      BY <1>2, <2>1, <2>2, <2>3, <2>9, <2>10 DEF Informed
    <2>13. QED
      BY <2>11, <2>12
  <1>12. ASSUME NEW m \in BagToSet(net), NEW n, HandlePushOk(m) \/ SignalPush(m),
                net' = With(Without(net, m), n), n.type # "PUSH", n # m,
                n.from = m.from, n.protocols = m.protocols
         PROVE Listens(a, b)' /\ Informed(a, b)'
    <2>1. ~disturbed /\ m.type # "PUSH" /\ UNCHANGED <<handlers, book, signalC, pc>>
      BY <1>12 DEF HandlePushOk, SignalPush
    <2>2. m.from # a /\ m.protocols = {}
      BY <1>2, <2>1 DEF Listens
    <2>3. BagToSet(net') \subseteq BagToSet(net) \cup {n} /\ \A e \in BagToSet(net) : e.from = a => e \in BagToSet(net')
      <3>1. BagToSet(net') \subseteq BagToSet(net) \cup {n} /\ ABag(net')
        BY <1>2, <1>12, <2>1, NetReplace DEF QuietTypes
      <3>2. \A e : e # m /\ e # n => Copies(e, net') = Copies(e, net)
        BY <1>2, <1>12, <2>1, NetReplace DEF QuietTypes
      <3>3. \A e : e # m /\ e # n => (e \in BagToSet(net') <=> e \in BagToSet(net))
        BY <1>2, <2>1, <3>1, <3>2, CopiesDomain DEF QuietTypes, BagToSet
      <3>4. QED
        BY <1>12, <2>2, <3>1, <3>3
    <2>4. QED
      BY <1>2, <1>12, <2>1, <2>2, <2>3 DEF Listens, Informed
  <1>13. ASSUME NEW m \in BagToSet(net), HandlePushOk(m) PROVE Listens(a, b)' /\ Informed(a, b)'
    <2> DEFINE c == pushSignalC[Other(m.from)]
               n == [m EXCEPT !.type = IF c = None THEN "store" ELSE "signal", !.ref = c]
    <2>1. ~disturbed /\ m.type = "PUSH_OK" /\ net' = With(Without(net, m), n)
      BY <1>13 DEF HandlePushOk, Replace
    <2>2. m \in Message
      BY <1>2, <2>1 DEF QuietTypes
    <2>3. n.type # "PUSH" /\ n # m /\ n.from = m.from /\ n.protocols = m.protocols
      BY <2>1, <2>2 DEF Message
    <2> HIDE DEF n
    <2>4. QED
      BY <1>12, <1>13, <2>1, <2>3
  <1>14. ASSUME NEW m \in BagToSet(net), SignalPush(m) PROVE Listens(a, b)' /\ Informed(a, b)'
    <2> DEFINE n == [m EXCEPT !.type = "store", !.ref = None]
    <2>1. ~disturbed /\ m.type = "signal" /\ net' = With(Without(net, m), n)
      BY <1>14 DEF SignalPush, Replace
    <2>2. m \in Message
      BY <1>2, <2>1 DEF QuietTypes
    <2>3. n.type # "PUSH" /\ n # m /\ n.from = m.from /\ n.protocols = m.protocols
      BY <2>1, <2>2 DEF Message
    <2> HIDE DEF n
    <2>4. QED
      BY <1>12, <1>14, <2>1, <2>3
  <1>15. ASSUME NEW m \in BagToSet(net), StorePushOk(m) PROVE Listens(a, b)' /\ Informed(a, b)'
    <2>1. /\ ~disturbed /\ m.type = "store" /\ net' = Without(net, m)
          /\ book' = [book EXCEPT ![Other(m.from)] = m.protocols]
          /\ UNCHANGED <<handlers, signalC, pc>>
      BY <1>15 DEF StorePushOk
    <2>2. m \in Message /\ m.from \in Host
      BY <1>2, <2>1 DEF QuietTypes, Message
    <2>3. m.from = b /\ m.protocols = {}
      BY <1>0, <1>2, <2>1, <2>2 DEF Listens
    <2>4. book'[a] = {} /\ book'[b] = book[b]
      BY <1>0, <1>2, <2>1, <2>3 DEF QuietTypes
    <2>5. /\ ABag(net') /\ BagToSet(net') \subseteq BagToSet(net)
          /\ \A e : e # m => Copies(e, net') = Copies(e, net)
      BY <1>2, <2>1, NetRemove DEF QuietTypes
    <2>6. \A e \in BagToSet(net) : e.from = a => e \in BagToSet(net')
      BY <1>0, <1>2, <2>1, <2>3, <2>5, CopiesDomain DEF QuietTypes, BagToSet
    <2>7. QED
      BY <1>2, <2>1, <2>4, <2>5, <2>6 DEF Listens, Informed
  <1>16. QED
    BY <1>1, <1>3, <1>4, <1>5, <1>6, <1>8, <1>9, <1>10, <1>11, <1>13, <1>14, <1>15
       DEF PushNext, PushStep, Handle, HandleStep

\* When one of the two hosts registers and unregisters handlers, in any order
\* and at any moment of its pushes, both books are right whenever all is
\* settled, unless a push failed or was made beside the loop's: a signal
\* dropped because two are waiting loses nothing.
THEOREM BooksAlwaysAgree ==
  ASSUME \E a \in Host : Registrars \subseteq {a}
  PROVE PushSpec => []BooksAgree
  <1>1. PICK a \in Host : Registrars \subseteq {a}
    OBVIOUS
  <1>2. Agreed(a) /\ [PushNext]_pushVars => Agreed(a)'
    BY <1>1, AgreedStep
  <1>3. PushInit => Agreed(a)
    BY AgreedInit
  <1>4. Agreed(a) => BooksAgree
    <2> SUFFICES ASSUME Agreed(a), Settled, ~disturbed PROVE \A h \in Host : book[h] = handlers[Other(h)]
      BY DEF BooksAgree
    <2>1. BagToSet(net) = {}
      BY BagEmpty DEF Settled, BagToSet
    <2>2. pc[a][Loop] = "idle" /\ signalC[a] = 0
      BY PushAssumption DEF Settled
    <2>3. book[Other(a)] = handlers[a] /\ book[a] = handlers[Other(a)]
      BY <2>1, <2>2 DEF Agreed, Listens, Informed
    <2>4. QED
      BY <2>3, TwoHosts
  <1>5. QED
    BY <1>2, <1>3, <1>4, PTL DEF PushSpec
-----------------------------------------------------------------------------
(* Type correctness, disturbed or not *)

\* The calls of PushProtocols that have no channel yet
Busy(h) == {k \in Pusher : pc[h][k] \in {"call", "set"}}

\* Every channel made, signal waiting and call on its way to a channel is paid
\* for by a registration or a call of the others.
CallsPaid ==
  \A h \in Host :
    IsFiniteSet(Busy(h)) /\ made[h] + signalC[h] + Cardinality(Busy(h)) <= ops[h] + pushes[h]

ChannelsFound ==
  /\ \A h \in Host, k \in Pusher : pc[h][k] \in {"send", "wait", "clean"} => mine[h][k] # None
  /\ ABag(net) /\ \A m \in BagToSet(net) : m.type = "signal" => m.ref # None

PushTypeInv == PushTypeOK /\ CallsPaid /\ ChannelsFound

LEMMA PushTypeInit == PushInit => PushTypeInv
  <1> SUFFICES ASSUME PushInit PROVE PushTypeInv
    OBVIOUS
  <1>1. BagToSet(net) = {} /\ ABag(net)
    BY BagEmpty DEF PushInit, BagToSet
  <1>2. PushTypeOK
    <2>1. disturbed \in BOOLEAN /\ drained \in [Host -> BOOLEAN]
      BY DEF PushInit
    <2>2. QED
      BY <1>1, <2>1, BoundAssumption DEF PushInit, PushTypeOK, None, PushStates
  <1>3. CallsPaid
    <2> SUFFICES ASSUME NEW h \in Host
                 PROVE IsFiniteSet(Busy(h)) /\ made[h] + signalC[h] + Cardinality(Busy(h)) <= ops[h] + pushes[h]
      BY DEF CallsPaid
    <2>1. Busy(h) = {}
      BY DEF PushInit, Busy
    <2>2. IsFiniteSet(Busy(h)) /\ Cardinality(Busy(h)) = 0
      BY <2>1, FS_EmptySet
    <2>3. QED
      BY <2>2, BoundAssumption DEF PushInit, None
  <1>4. ChannelsFound
    BY <1>1 DEF PushInit, ChannelsFound
  <1>5. QED
    BY <1>2, <1>3, <1>4 DEF PushTypeInv

\* A caller of PushProtocols begins, or gets its channel.
LEMMA BusyMore ==
  ASSUME NEW h \in Host, NEW k \in Pusher, pc \in [Host -> [Pusher -> PushStates]],
         IsFiniteSet(Busy(h)), pc[h][k] = "idle", pc' = [pc EXCEPT ![h][k] = "call"]
  PROVE /\ IsFiniteSet(Busy(h)') /\ Cardinality(Busy(h)') = Cardinality(Busy(h)) + 1
        /\ \A g \in Host : g # h => Busy(g)' = Busy(g)
  <1>1. Busy(h)' = Busy(h) \cup {k} /\ k \notin Busy(h)
    BY DEF Busy
  <1>2. \A g \in Host : g # h => Busy(g)' = Busy(g)
    BY DEF Busy
  <1>3. /\ IsFiniteSet(Busy(h) \cup {k})
        /\ Cardinality(Busy(h) \cup {k}) = Cardinality(Busy(h)) + 1
    BY <1>1, FS_AddElement
  <1>4. QED
    BY <1>1, <1>2, <1>3

LEMMA BusyLess ==
  ASSUME NEW h \in Host, NEW k \in Pusher, pc \in [Host -> [Pusher -> PushStates]],
         IsFiniteSet(Busy(h)), pc[h][k] = "set", pc' = [pc EXCEPT ![h][k] = "send"]
  PROVE /\ IsFiniteSet(Busy(h)') /\ Cardinality(Busy(h)') = Cardinality(Busy(h)) - 1
        /\ Cardinality(Busy(h)) \in Nat
        /\ \A g \in Host : g # h => Busy(g)' = Busy(g)
  <1>1. Busy(h)' = Busy(h) \ {k} /\ k \in Busy(h)
    BY DEF Busy
  <1>2. \A g \in Host : g # h => Busy(g)' = Busy(g)
    BY DEF Busy
  <1>3. IsFiniteSet(Busy(h) \ {k}) /\ Cardinality(Busy(h) \ {k}) = Cardinality(Busy(h)) - 1
    BY <1>1, FS_RemoveElement
  <1>4. QED
    BY <1>1, <1>2, <1>3, FS_CardinalityType

LEMMA PushTypeStep == PushTypeInv /\ [PushNext]_pushVars => PushTypeInv'
  <1> SUFFICES ASSUME PushTypeInv, [PushNext]_pushVars PROVE PushTypeInv'
    OBVIOUS
  <1> USE DEF chanVars
  <1>0. PushTypeOK /\ CallsPaid /\ ChannelsFound
    BY DEF PushTypeInv
  <1>00. \A h \in Host : /\ made[h] \in Nat /\ signalC[h] \in 0 .. 2 /\ ops[h] \in 0 .. MaxOps
                         /\ pushes[h] \in 0 .. MaxPushes /\ Cardinality(Busy(h)) \in Nat
    BY <1>0, FS_CardinalityType, BoundAssumption DEF PushTypeOK, CallsPaid, Channel, None
  <1>1. CASE UNCHANGED pushVars
    BY <1>0, <1>1 DEF pushVars, PushTypeInv, PushTypeOK, CallsPaid, ChannelsFound, Busy
  <1>2. ASSUME NEW h \in Host, NEW x \in Proto,
               RegisterMsgPayloadHandler(h, x) \/ UnregisterMsgPayloadHandler(h, x)
        PROVE PushTypeInv'
    <2>1. /\ ops[h] < MaxOps /\ ops' = [ops EXCEPT ![h] = @ + 1]
          /\ signalC' = [signalC EXCEPT ![h] = IF @ < 2 THEN @ + 1 ELSE @]
          /\ UNCHANGED <<book, chanVars, pc, net, pushes, drained, disturbed>>
      BY <1>2 DEF RegisterMsgPayloadHandler, UnregisterMsgPayloadHandler, triggerPushProtocol
    <2>2. handlers' \in [Host -> SUBSET Proto]
      <3>1. CASE RegisterMsgPayloadHandler(h, x)
        BY <1>0, <3>1 DEF RegisterMsgPayloadHandler, PushTypeOK
      <3>2. CASE UnregisterMsgPayloadHandler(h, x)
        BY <1>0, <3>2 DEF UnregisterMsgPayloadHandler, PushTypeOK
      <3>3. QED
        BY <1>2, <3>1, <3>2
    <2>3. PushTypeOK'
      <3>1. signalC' \in [Host -> 0 .. 2] /\ ops' \in [Host -> 0 .. MaxOps]
        BY <1>0, <2>1, BoundAssumption DEF PushTypeOK
      <3>2. QED
        BY <1>0, <2>1, <2>2, <3>1 DEF PushTypeOK
    <2>4. CallsPaid'
      <3>1. /\ ops'[h] = ops[h] + 1 /\ signalC'[h] \in {signalC[h], signalC[h] + 1}
            /\ \A g \in Host : g # h => ops'[g] = ops[g] /\ signalC'[g] = signalC[g]
        BY <1>0, <2>1 DEF PushTypeOK
      <3>2. \A g \in Host : Busy(g)' = Busy(g)
        BY <2>1 DEF Busy
      <3>3. QED
        BY <1>0, <1>00, <2>1, <3>1, <3>2, BoundAssumption DEF CallsPaid
    <2>5. ChannelsFound'
      BY <1>0, <2>1 DEF ChannelsFound
    <2>6. QED
      BY <2>3, <2>4, <2>5 DEF PushTypeInv
  <1>3. ASSUME NEW h \in Host, TakeSignal(h) PROVE PushTypeInv'
    <2>1. /\ pc[h][Loop] = "idle" /\ signalC[h] > 0
          /\ signalC' = [signalC EXCEPT ![h] = @ - 1]
          /\ pc' = [pc EXCEPT ![h][Loop] = "call"]
          /\ UNCHANGED <<handlers, book, chanVars, net, ops, pushes, drained, disturbed>>
      BY <1>3 DEF TakeSignal, Goto
    <2>2. PushTypeOK'
      <3>1. signalC' \in [Host -> 0 .. 2]
        BY <1>0, <1>00, <2>1 DEF PushTypeOK
      <3>2. pc' \in [Host -> [Pusher -> PushStates]]
        BY <1>0, <2>1 DEF PushTypeOK, PushStates
      <3>3. QED
        BY <1>0, <2>1, <3>1, <3>2 DEF PushTypeOK
    <2>3. CallsPaid'
      <3>1. /\ signalC'[h] = signalC[h] - 1
            /\ \A g \in Host : g # h => signalC'[g] = signalC[g]
        BY <1>0, <2>1 DEF PushTypeOK
      <3>2. /\ IsFiniteSet(Busy(h)') /\ Cardinality(Busy(h)') = Cardinality(Busy(h)) + 1
            /\ \A g \in Host : g # h => Busy(g)' = Busy(g)
        BY <1>0, <2>1, PushAssumption, BusyMore DEF PushTypeOK, CallsPaid
      <3>3. QED
        BY <1>0, <1>00, <2>1, <3>1, <3>2, BoundAssumption DEF CallsPaid
    <2>4. ChannelsFound'
      BY <1>0, <2>1 DEF ChannelsFound, PushTypeOK
    <2>5. QED
      BY <2>2, <2>3, <2>4 DEF PushTypeInv
  <1>4. ASSUME NEW h \in Host, NEW k \in Pusher, PushAgain(h, k) PROVE PushTypeInv'
    <2>1. /\ pc[h][k] = "idle" /\ pushes[h] < MaxPushes
          /\ pushes' = [pushes EXCEPT ![h] = @ + 1]
          /\ pc' = [pc EXCEPT ![h][k] = "call"]
          /\ disturbed' \in BOOLEAN
          /\ UNCHANGED <<handlers, book, signalC, chanVars, net, drained, ops>>
      BY <1>4 DEF PushAgain, Goto
    <2>2. PushTypeOK'
      BY <1>0, <2>1, BoundAssumption DEF PushTypeOK, PushStates
    <2>3. CallsPaid'
      <3>1. /\ pushes'[h] = pushes[h] + 1
            /\ \A g \in Host : g # h => pushes'[g] = pushes[g]
        BY <1>0, <2>1 DEF PushTypeOK
      <3>2. /\ IsFiniteSet(Busy(h)') /\ Cardinality(Busy(h)') = Cardinality(Busy(h)) + 1
            /\ \A g \in Host : g # h => Busy(g)' = Busy(g)
        BY <1>0, <2>1, BusyMore DEF PushTypeOK, CallsPaid
      <3>3. QED
        BY <1>0, <1>00, <2>1, <3>1, <3>2, BoundAssumption DEF CallsPaid
    <2>4. ChannelsFound'
      BY <1>0, <2>1 DEF ChannelsFound, PushTypeOK
    <2>5. QED
      BY <2>2, <2>3, <2>4 DEF PushTypeInv
  <1>5. ASSUME NEW h \in Host, NEW k \in Pusher, PushLook(h, k) PROVE PushTypeInv'
    <2>1. /\ pc[h][k] = "call" /\ pc' = [pc EXCEPT ![h][k] = "set"]
          /\ UNCHANGED <<handlers, book, signalC, chanVars, net, ops, pushes, drained, disturbed>>
      BY <1>5 DEF PushLook, Goto
    <2>2. PushTypeOK'
      BY <1>0, <2>1 DEF PushTypeOK, PushStates
    <2>3. \A g \in Host : Busy(g)' = Busy(g)
      BY <1>0, <2>1 DEF PushTypeOK, Busy
    <2>4. CallsPaid'
      BY <1>0, <2>1, <2>3 DEF CallsPaid
    <2>5. ChannelsFound'
      BY <1>0, <2>1 DEF ChannelsFound, PushTypeOK
    <2>6. QED
      BY <2>2, <2>4, <2>5 DEF PushTypeInv
  <1>6. ASSUME NEW h \in Host, NEW k \in Pusher, PushSet(h, k) PROVE PushTypeInv'
    <2>1. /\ pc[h][k] = "set" /\ pc' = [pc EXCEPT ![h][k] = "send"]
          /\ made' = [made EXCEPT ![h] = @ + 1]
          /\ pushSignalC' = [pushSignalC EXCEPT ![h] = made[h] + 1]
          /\ mine' = [mine EXCEPT ![h][k] = made[h] + 1]
          /\ UNCHANGED <<handlers, book, signalC, chan, net, ops, pushes, drained, disturbed>>
      BY <1>6 DEF PushSet, Goto
    <2>2. /\ IsFiniteSet(Busy(h)') /\ Cardinality(Busy(h)') = Cardinality(Busy(h)) - 1
          /\ \A g \in Host : g # h => Busy(g)' = Busy(g)
      BY <1>0, <2>1, BusyLess DEF PushTypeOK, CallsPaid
    <2>3. Cardinality(Busy(h)) > 0
      <3>1. k \in Busy(h) /\ IsFiniteSet(Busy(h))
        BY <1>0, <2>1 DEF Busy, CallsPaid
      <3>2. Cardinality(Busy(h)) # 0
        BY <3>1, FS_EmptySet
      <3>3. QED
        BY <1>00, <3>2
    <2>4. made[h] + 1 \in Channel /\ made[h] + 1 # None
      <3>1. made[h] + signalC[h] + Cardinality(Busy(h)) <= ops[h] + pushes[h]
        BY <1>0 DEF CallsPaid
      <3>2. QED
        BY <1>00, <2>3, <3>1, BoundAssumption DEF Channel, None
    <2>5. PushTypeOK'
      BY <1>0, <2>1, <2>4 DEF PushTypeOK, PushStates
    <2>6. CallsPaid'
      <3>1. /\ made'[h] = made[h] + 1
            /\ \A g \in Host : g # h => made'[g] = made[g]
        BY <1>0, <2>1 DEF PushTypeOK
      <3>2. QED
        BY <1>0, <1>00, <2>1, <2>2, <3>1, BoundAssumption DEF CallsPaid
    <2>7. ChannelsFound'
      BY <1>0, <2>1, <2>4 DEF ChannelsFound, PushTypeOK
    <2>8. QED
      BY <2>5, <2>6, <2>7 DEF PushTypeInv
  <1>7. ASSUME NEW h \in Host, NEW k \in Pusher, PushSend(h, k) PROVE PushTypeInv'
    <2>1. /\ pc[h][k] = "send"
          /\ \/ net' = With(net, buildProtocolsPayload(h, "PUSH")) /\ pc' = [pc EXCEPT ![h][k] = "wait"]
             \/ UNCHANGED net /\ pc' = [pc EXCEPT ![h][k] = "clean"]
          /\ UNCHANGED <<handlers, book, signalC, chanVars, ops, pushes>>
      BY <1>7 DEF PushSend, SendFails, Send, Goto
    <2>2. disturbed' \in BOOLEAN /\ drained' \in [Host -> BOOLEAN]
      BY <1>0, <1>7 DEF PushSend, SendFails, PushTypeOK
    <2>3. /\ ABag(net') /\ BagToSet(net') \subseteq Message
          /\ \A m \in BagToSet(net') : m.type = "signal" => m.ref # None
      <3> DEFINE n == buildProtocolsPayload(h, "PUSH")
      <3>1. n \in Message /\ n.type # "signal"
        BY <1>0 DEF buildProtocolsPayload, Message, PushTypeOK
      <3> HIDE DEF n
      <3>2. CASE UNCHANGED net
        BY <1>0, <3>2 DEF PushTypeOK, ChannelsFound
      <3>3. CASE net' = With(net, n)
        <4>1. ABag(net') /\ BagToSet(net') = BagToSet(net) \cup {n}
          BY <1>0, <3>3, NetAdd DEF ChannelsFound
        <4>2. QED
          BY <1>0, <3>1, <4>1 DEF PushTypeOK, ChannelsFound
      <3>4. QED
        BY <2>1, <3>2, <3>3 DEF n
    <2>4. /\ pc' \in [Host -> [Pusher -> PushStates]] /\ \A g \in Host : Busy(g)' = Busy(g)
          /\ \A g \in Host, j \in Pusher : pc'[g][j] \in {"send", "wait", "clean"}
               => pc[g][j] \in {"send", "wait", "clean"}
      <3>1. CASE pc' = [pc EXCEPT ![h][k] = "wait"]
        BY <1>0, <2>1, <3>1 DEF PushTypeOK, PushStates, Busy
      <3>2. CASE pc' = [pc EXCEPT ![h][k] = "clean"]
        BY <1>0, <2>1, <3>2 DEF PushTypeOK, PushStates, Busy
      <3>3. QED
        BY <2>1, <3>1, <3>2
    <2>5. PushTypeOK' /\ ChannelsFound'
      BY <1>0, <2>1, <2>2, <2>3, <2>4 DEF PushTypeOK, ChannelsFound
    <2>6. CallsPaid'
      BY <1>0, <2>1, <2>4 DEF CallsPaid
    <2>7. QED
      BY <2>5, <2>6 DEF PushTypeInv
  <1>8. ASSUME NEW h \in Host, NEW k \in Pusher, PushWait(h, k) PROVE PushTypeInv'
    <2>1. /\ pc[h][k] = "wait" /\ pc' = [pc EXCEPT ![h][k] = "clean"]
          /\ \/ /\ chan[h][mine[h][k]] > 0
                /\ chan' = [chan EXCEPT ![h][mine[h][k]] = @ - 1]
             \/ UNCHANGED chan
          /\ UNCHANGED <<handlers, book, signalC, pushSignalC, made, mine, net, drained, ops, pushes>>
      BY <1>8 DEF PushWait, Goto
    <2>2. disturbed' \in BOOLEAN
      BY <1>0, <1>8 DEF PushWait, PushTypeOK
    <2>3. mine[h][k] \in Channel
      BY <1>0, <2>1 DEF PushTypeOK, ChannelsFound
    <2>4. chan' \in [Host -> [Channel -> 0 .. 1]]
      <3>1. chan \in [Host -> [Channel -> 0 .. 1]] /\ chan[h][mine[h][k]] \in 0 .. 1
        BY <1>0, <2>3 DEF PushTypeOK
      <3>2. chan[h][mine[h][k]] > 0 => chan[h][mine[h][k]] - 1 \in 0 .. 1
        BY <3>1
      <3>3. QED
        BY <2>1, <3>1, <3>2
    <2>5. /\ pc' \in [Host -> [Pusher -> PushStates]] /\ \A g \in Host : Busy(g)' = Busy(g)
          /\ \A g \in Host, j \in Pusher : pc'[g][j] \in {"send", "wait", "clean"}
               => pc[g][j] \in {"send", "wait", "clean"}
      BY <1>0, <2>1 DEF PushTypeOK, PushStates, Busy
    <2>6. PushTypeOK' /\ ChannelsFound'
      BY <1>0, <2>1, <2>2, <2>4, <2>5 DEF PushTypeOK, ChannelsFound
    <2>7. CallsPaid'
      BY <1>0, <2>1, <2>5 DEF CallsPaid
    <2>8. QED
      BY <2>6, <2>7 DEF PushTypeInv
  <1>9. ASSUME NEW h \in Host, NEW k \in Pusher, PushClean(h, k) PROVE PushTypeInv'
    <2>1. /\ pc[h][k] = "clean" /\ pc' = [pc EXCEPT ![h][k] = "idle"]
          /\ pushSignalC' = [pushSignalC EXCEPT ![h] = None]
          /\ mine' = [mine EXCEPT ![h][k] = None]
          /\ UNCHANGED <<handlers, book, signalC, made, chan, net, ops, pushes, drained, disturbed>>
      BY <1>9 DEF PushClean, Goto
    <2>2. PushTypeOK'
      BY <1>0, <2>1 DEF PushTypeOK, PushStates
    <2>3. \A g \in Host : Busy(g)' = Busy(g)
      BY <1>0, <2>1 DEF PushTypeOK, Busy
    <2>4. CallsPaid'
      BY <1>0, <2>1, <2>3 DEF CallsPaid
    <2>5. ChannelsFound'
      BY <1>0, <2>1 DEF ChannelsFound, PushTypeOK
    <2>6. QED
      BY <2>2, <2>4, <2>5 DEF PushTypeInv
  <1>10. ASSUME NEW m \in BagToSet(net), NEW n \in Message, n # m,
                net' = With(Without(net, m), n) \/ net' = Without(net, m),
                n.type = "signal" => n.ref # None
         PROVE /\ ABag(net') /\ BagToSet(net') \subseteq Message
               /\ \A e \in BagToSet(net') : e.type = "signal" => e.ref # None
    <2>1. ABag(net') /\ BagToSet(net') \subseteq BagToSet(net) \cup {n}
      <3>1. CASE net' = Without(net, m)
        BY <1>0, <3>1, NetRemove DEF ChannelsFound
      <3>2. CASE net' = With(Without(net, m), n)
        BY <1>0, <1>10, <3>2, NetReplace DEF ChannelsFound
      <3>3. QED
        BY <1>10, <3>1, <3>2
    <2>2. QED
      BY <1>0, <1>10, <2>1 DEF PushTypeOK, ChannelsFound
  <1>11. ASSUME NEW m \in BagToSet(net), HandlePush(m) PROVE PushTypeInv'
    <2> DEFINE h == Other(m.from)
               n == buildProtocolsPayload(h, "PUSH_OK")
    <2>1. /\ m.type = "PUSH" /\ book' = [book EXCEPT ![h] = m.protocols]
          /\ net' = With(Without(net, m), n) \/ net' = Without(net, m)
          /\ UNCHANGED <<handlers, signalC, chanVars, pc, ops, pushes>>
      BY <1>11 DEF HandlePush, SendFails
    <2>2. disturbed' \in BOOLEAN /\ drained' \in [Host -> BOOLEAN]
      BY <1>0, <1>11 DEF HandlePush, SendFails, PushTypeOK
    <2>3. m \in Message /\ m.from \in Host /\ h \in Host
      BY <1>0, TwoHosts DEF PushTypeOK, Message
    <2>4. n \in Message /\ n.type = "PUSH_OK"
      BY <1>0, <2>3 DEF buildProtocolsPayload, Message, PushTypeOK
    <2> HIDE DEF n
    <2>5. /\ ABag(net') /\ BagToSet(net') \subseteq Message
          /\ \A e \in BagToSet(net') : e.type = "signal" => e.ref # None
      BY <1>10, <2>1, <2>4
    <2>6. book' \in [Host -> SUBSET Proto]
      BY <1>0, <2>1, <2>3 DEF PushTypeOK, Message
    <2>7. PushTypeOK' /\ ChannelsFound' /\ CallsPaid'
      BY <1>0, <2>1, <2>2, <2>5, <2>6 DEF PushTypeOK, ChannelsFound, CallsPaid, Busy
    <2>8. QED
      BY <2>7 DEF PushTypeInv
  <1>12. ASSUME NEW m \in BagToSet(net), HandlePushOk(m) PROVE PushTypeInv'
    <2> DEFINE c == pushSignalC[Other(m.from)]
               n == [m EXCEPT !.type = IF c = None THEN "store" ELSE "signal", !.ref = c]
    <2>1. /\ m.type = "PUSH_OK" /\ net' = With(Without(net, m), n)
          /\ UNCHANGED <<handlers, book, signalC, chanVars, pc, ops, pushes, drained, disturbed>>
      BY <1>12 DEF HandlePushOk, Replace
    <2>2. m \in Message /\ c \in Channel \cup {None}
      BY <1>0, TwoHosts DEF PushTypeOK, Message
    <2>3. n \in Message /\ n # m /\ (n.type = "signal" => n.ref # None)
      BY <2>1, <2>2 DEF Message
    <2> HIDE DEF n
    <2>4. /\ ABag(net') /\ BagToSet(net') \subseteq Message
          /\ \A e \in BagToSet(net') : e.type = "signal" => e.ref # None
      BY <1>10, <2>1, <2>3
    <2>5. PushTypeOK' /\ ChannelsFound' /\ CallsPaid'
      BY <1>0, <2>1, <2>4 DEF PushTypeOK, ChannelsFound, CallsPaid, Busy
    <2>6. QED
      BY <2>5 DEF PushTypeInv
  <1>13. ASSUME NEW m \in BagToSet(net), SignalPush(m) PROVE PushTypeInv'
    <2> DEFINE h == Other(m.from)
               n == [m EXCEPT !.type = "store", !.ref = None]
    <2>1. /\ m.type = "signal" /\ net' = With(Without(net, m), n)
          /\ chan' = [chan EXCEPT ![h][m.ref] = 1]
          /\ UNCHANGED <<handlers, book, signalC, pushSignalC, made, mine, pc, ops, pushes, drained, disturbed>>
      BY <1>13 DEF SignalPush, Replace
    <2>2. m \in Message
      BY <1>0 DEF PushTypeOK
    <2>3. n \in Message /\ n.type = "store" /\ n # m
      BY <2>1, <2>2 DEF Message
    <2> HIDE DEF n
    <2>4. /\ ABag(net') /\ BagToSet(net') \subseteq Message
          /\ \A e \in BagToSet(net') : e.type = "signal" => e.ref # None
      BY <1>10, <2>1, <2>3
    <2>5. chan' \in [Host -> [Channel -> 0 .. 1]]
      <3>1. chan \in [Host -> [Channel -> 0 .. 1]] /\ 1 \in 0 .. 1
        BY <1>0 DEF PushTypeOK
      <3>2. QED
        BY <2>1, <3>1
    <2>6. PushTypeOK' /\ ChannelsFound' /\ CallsPaid'
      BY <1>0, <2>1, <2>4, <2>5 DEF PushTypeOK, ChannelsFound, CallsPaid, Busy
    <2>7. QED
      BY <2>6 DEF PushTypeInv
  <1>14. ASSUME NEW m \in BagToSet(net), StorePushOk(m) PROVE PushTypeInv'
    <2>1. /\ m.type = "store" /\ net' = Without(net, m)
          /\ book' = [book EXCEPT ![Other(m.from)] = m.protocols]
          /\ UNCHANGED <<handlers, signalC, chanVars, pc, ops, pushes, drained, disturbed>>
      BY <1>14 DEF StorePushOk
    <2>2. m \in Message
      BY <1>0 DEF PushTypeOK
    <2>3. ABag(net') /\ BagToSet(net') \subseteq BagToSet(net)
      BY <1>0, <2>1, NetRemove DEF ChannelsFound
    <2>4. book' \in [Host -> SUBSET Proto]
      BY <1>0, <2>1, <2>2 DEF PushTypeOK, Message
    <2>5. PushTypeOK' /\ ChannelsFound' /\ CallsPaid'
      BY <1>0, <2>1, <2>3, <2>4 DEF PushTypeOK, ChannelsFound, CallsPaid, Busy
    <2>6. QED
      BY <2>5 DEF PushTypeInv
  <1>15. QED
    BY <1>1, <1>2, <1>3, <1>4, <1>5, <1>6, <1>7, <1>8, <1>9, <1>11, <1>12, <1>13, <1>14
       DEF PushNext, PushStep, Handle, HandleStep

\* The variables of the push protocol keep their types: no call makes a channel
\* that no registration and no second push accounts for, and no channel is
\* ever given a second element.
THEOREM PushTypeCorrect == PushSpec => []PushTypeOK
  <1>1. PushTypeInv => PushTypeOK
    BY DEF PushTypeInv
  <1>2. QED
    BY PushTypeInit, PushTypeStep, <1>1, PTL DEF PushSpec
=============================================================================
