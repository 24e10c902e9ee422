------------------------ MODULE SendStreamPoolProofs ------------------------
(***************************************************************************)
(* What holds of a SendStreamPool for every set of callers and every       *)
(* initSize <= maxSize.                                                    *)
(***************************************************************************)
EXTENDS SendStreamPool, FiniteSetTheorems, TLAPS

\* The inductive invariant.
IInv == TypeOK /\ CountersExact /\ Exclusive /\ LockInv

-----------------------------------------------------------------------------
(* The bookkeeping of lent. *)

LEMMA LentAdd ==
  ASSUME lent \in SUBSET Stream, NEW s \in Stream, s \notin lent
  PROVE  Cardinality(lent \cup {s}) = Cardinality(lent) + 1
  <1>1. IsFiniteSet(lent)
    BY StreamFinite, FS_Subset
  <1>2. QED
    BY <1>1, FS_AddElement

LEMMA LentRemove ==
  ASSUME lent \in SUBSET Stream, NEW s \in lent
  PROVE  Cardinality(lent \ {s}) = Cardinality(lent) - 1
  <1>1. IsFiniteSet(lent)
    BY StreamFinite, FS_Subset
  <1>2. QED
    BY <1>1, FS_RemoveElement

LEMMA LentCount ==
  ASSUME lent \in SUBSET Stream
  PROVE  /\ Cardinality(lent) \in Nat
         /\ lent # {} => Cardinality(lent) > 0
  <1>1. IsFiniteSet(lent)
    BY StreamFinite, FS_Subset
  <1>2. QED
    BY <1>1, FS_CardinalityType, FS_EmptySet

\* IInv gives the bound that the code relies on.
LEMMA InvBounded == IInv => Bounded
  <1> SUFFICES ASSUME IInv PROVE Bounded
    OBVIOUS
  <1>1. Cardinality(lent) \in Nat /\ (lent # {} => Cardinality(lent) > 0)
    BY LentCount DEF IInv, TypeOK
  <1>2. QED
    BY <1>1, SizeAssumption DEF IInv, TypeOK, CountersExact, LockInv, Bounded

LEMMA SizeNat == IInv => currentSize \in Nat /\ currentSize <= maxSize
  <1> SUFFICES ASSUME IInv PROVE currentSize \in Nat /\ currentSize <= maxSize
    OBVIOUS
  <1>1. Cardinality(lent) \in Nat /\ Len(poolC) \in Nat
    BY LentCount DEF IInv, TypeOK
  <1>2. currentSize \in Nat
    BY <1>1 DEF IInv, CountersExact
  <1>3. QED
    BY <1>2, SizeAssumption DEF IInv, TypeOK, LockInv

-----------------------------------------------------------------------------
LEMMA InitInv == Init => IInv
  <1> SUFFICES ASSUME Init PROVE IInv
    OBVIOUS
  <1>1. TypeOK
    <2>1. poolC \in Seq(Stream)
      BY DEF Init
    <2>2. closed \in BOOLEAN /\ signal \in BOOLEAN /\ connClosed \in BOOLEAN
      BY DEF Init
    <2>3. /\ pc \in [User -> UserStates] /\ hold \in [User -> Stream \cup {None}]
          /\ lent \in SUBSET Stream /\ mu \in User \cup {Free, Loop}
          /\ loop \in LoopStates /\ once \in {"new", "running", "done", "failed"}
      BY DEF Init, LoopStates, UserStates
    <2>4. idleSize \in Int /\ currentSize \in Int /\ threshold \in Nat /\ left \in Nat
      BY DEF Init
    <2>5. QED
      BY <2>1, <2>2, <2>3, <2>4 DEF TypeOK
  <1>2. CountersExact
    BY FS_EmptySet DEF Init, CountersExact
  <1>3. Exclusive
    BY DEF Init, Exclusive, Pooled
  <1>4. LockInv
    BY SizeAssumption DEF Init, LockInv
  <1>5. QED
    BY <1>1, <1>2, <1>3, <1>4 DEF IInv

\* Opening a stream, as InitOpen and ExpandOpen do.
LEMMA OpenInv ==
  ASSUME TypeOK, CountersExact, Exclusive, openSendStream,
         UNCHANGED <<lent, hold>>
  PROVE  /\ poolC' \in Seq(Stream)
         /\ idleSize' \in Int /\ currentSize' \in Int
         /\ CountersExact' /\ Exclusive'
  <1>1. PICK s \in Stream \ (Pooled \cup lent) : poolC' = Append(poolC, s)
    BY DEF openSendStream
  <1>2. poolC' \in Seq(Stream) /\ Len(poolC') = Len(poolC) + 1
    BY <1>1 DEF TypeOK
  <1>3. idleSize' \in Int /\ currentSize' \in Int
    BY DEF openSendStream, TypeOK
  <1>4. Cardinality(lent) \in Nat
    BY LentCount DEF TypeOK
  <1>5. CountersExact'
    <2>1. lent' = lent /\ idleSize \in Int /\ currentSize \in Int
          /\ idleSize' = idleSize + 1 /\ currentSize' = currentSize + 1
      BY DEF openSendStream, TypeOK
    <2>2. QED
      BY <1>2, <1>4, <2>1 DEF CountersExact
  <1>6. \A i \in 1 .. Len(poolC) : poolC[i] # s
    BY <1>1 DEF Pooled
  <1>7. \A i, j \in 1 .. Len(poolC') : i # j => poolC'[i] # poolC'[j]
    BY <1>1, <1>2, <1>6 DEF TypeOK, Exclusive
  <1>8. \A i \in 1 .. Len(poolC') : poolC'[i] \notin lent
    BY <1>1, <1>2 DEF TypeOK, Exclusive, Pooled
  <1>9. Pooled' \cap lent' = {}
    BY <1>8 DEF Pooled
  <1>10. Exclusive'
    BY <1>7, <1>9 DEF Exclusive
  <1>11. QED
    BY <1>2, <1>3, <1>5, <1>10

\* Handing out the head of poolC.
LEMMA TakeInv ==
  ASSUME TypeOK, CountersExact, Exclusive, NEW u \in User,
         NEW next \in {"trigger", "holding"}, takeStream(u, next),
         hold[u] = None
  PROVE  /\ poolC' \in Seq(Stream) /\ idleSize' \in Int /\ lent' \in SUBSET Stream
         /\ pc' \in [User -> UserStates]
         /\ hold' \in [User -> Stream \cup {None}]
         /\ hold'[u] # None
         /\ CountersExact' /\ Exclusive'
  <1> DEFINE s == Head(poolC)
  <1>1. s \in Stream /\ s = poolC[1] /\ 1 \in 1 .. Len(poolC)
    BY DEF takeStream, TypeOK
  <1>2. s \in Pooled /\ s \notin lent
    BY <1>1 DEF Pooled, Exclusive
  <1>3. /\ poolC' \in Seq(Stream) /\ Len(poolC') = Len(poolC) - 1
        /\ \A i \in 1 .. Len(poolC') : poolC'[i] = poolC[i + 1]
    BY DEF takeStream, TypeOK
  <1>4. idleSize' \in Int /\ lent' \in SUBSET Stream /\ pc' \in [User -> UserStates]
    BY <1>1 DEF takeStream, TypeOK, UserStates
  <1>5. hold' \in [User -> Stream \cup {None}] /\ hold'[u] = s
        /\ \A v \in User \ {u} : hold'[v] = hold[v]
    BY <1>1 DEF takeStream, TypeOK
  <1>6. s # None
    BY <1>1, NameAssumption
  <1>7. Cardinality(lent') = Cardinality(lent) + 1 /\ Cardinality(lent) \in Nat
    BY <1>1, <1>2, LentAdd, LentCount DEF takeStream, TypeOK
  <1>8. CountersExact'
    <2>1. idleSize \in Int /\ currentSize \in Int
          /\ idleSize' = idleSize - 1 /\ currentSize' = currentSize
          /\ Len(poolC') = Len(poolC) - 1 /\ Len(poolC) \in Nat
      BY <1>3 DEF takeStream, TypeOK
    <2>2. QED
      BY <1>7, <2>1 DEF CountersExact
  <1>9. \A i, j \in 1 .. Len(poolC') : i # j => poolC'[i] # poolC'[j]
    BY <1>3 DEF TypeOK, Exclusive
  <1>10. ASSUME NEW i \in 1 .. Len(poolC')
         PROVE  poolC'[i] \notin lent /\ poolC'[i] # s
    <2>1. i + 1 \in 1 .. Len(poolC) /\ i + 1 # 1 /\ poolC'[i] = poolC[i + 1]
      BY <1>3 DEF TypeOK
    <2>2. poolC[i + 1] # poolC[1]
      BY <1>1, <2>1 DEF Exclusive
    <2>3. poolC[i + 1] \in Pooled
      BY <2>1 DEF Pooled
    <2>4. QED
      BY <1>1, <2>1, <2>2, <2>3 DEF Exclusive
  <1>11. Pooled' \cap lent' = {}
    BY <1>10 DEF Pooled, takeStream
  <1>12. \A v \in User : hold'[v] # None => hold'[v] \in lent'
    BY <1>5 DEF Exclusive, takeStream
  <1>13. \A v, w \in User : v # w /\ hold'[v] = hold'[w] => hold'[v] = None
    BY <1>2, <1>5 DEF Exclusive
  <1>14. Exclusive'
    BY <1>9, <1>11, <1>12, <1>13 DEF Exclusive
  <1>15. QED
    BY <1>3, <1>4, <1>5, <1>6, <1>8, <1>14

\* Putting a borrowed stream back.
LEMMA ReturnInv ==
  ASSUME TypeOK, CountersExact, Exclusive, NEW u \in User,
         hold[u] # None, release(u),
         poolC' = Append(poolC, hold[u]), idleSize' = idleSize + 1,
         lent' = lent \ {hold[u]}, UNCHANGED currentSize
  PROVE  /\ poolC' \in Seq(Stream) /\ idleSize' \in Int
         /\ CountersExact' /\ Exclusive'
  <1> DEFINE s == hold[u]
  <1>1. s \in Stream /\ s \in lent /\ s \notin Pooled
    BY DEF TypeOK, Exclusive
  <1>2. poolC' \in Seq(Stream) /\ Len(poolC') = Len(poolC) + 1
        /\ Len(poolC) \in Nat /\ poolC'[Len(poolC) + 1] = s
        /\ \A i \in 1 .. Len(poolC) : poolC'[i] = poolC[i]
    BY <1>1 DEF TypeOK
  <1>3. hold' = [hold EXCEPT ![u] = None] /\ hold \in [User -> Stream \cup {None}]
    BY DEF release, TypeOK
  <1>4. Cardinality(lent') = Cardinality(lent) - 1 /\ Cardinality(lent) \in Nat
    BY <1>1, LentRemove, LentCount DEF TypeOK
  <1>5. idleSize' \in Int
    BY DEF TypeOK
  <1>6. CountersExact'
    <2>1. idleSize \in Int /\ currentSize \in Int /\ currentSize' = currentSize
      BY DEF TypeOK
    <2>2. QED
      BY <1>2, <1>4, <2>1 DEF CountersExact
  <1>7. \A i \in 1 .. Len(poolC) : poolC[i] # s /\ poolC[i] \notin lent
    BY <1>1 DEF Pooled, Exclusive
  <1>8. \A i, j \in 1 .. Len(poolC') : i # j => poolC'[i] # poolC'[j]
    BY <1>2, <1>7 DEF Exclusive
  <1>9. \A i \in 1 .. Len(poolC') : poolC'[i] \notin lent'
    BY <1>2, <1>7
  <1>10. Pooled' \cap lent' = {}
    BY <1>9 DEF Pooled
  <1>11. \A v \in User : hold'[v] # None => hold'[v] \in lent'
    BY <1>3 DEF Exclusive
  <1>12. \A v, w \in User : v # w /\ hold'[v] = hold'[w] => hold'[v] = None
    BY <1>3 DEF Exclusive
  <1>13. Exclusive'
    BY <1>8, <1>10, <1>11, <1>12 DEF Exclusive
  <1>14. QED
    BY <1>2, <1>5, <1>6, <1>13

\* Dropping a borrowed stream: the repair branch is not taken.
LEMMA DropInv ==
  ASSUME TypeOK, CountersExact, Exclusive, NEW u \in User,
         hold[u] # None, DropStream(u)
  PROVE  /\ currentSize' = currentSize - 1 /\ idleSize' = idleSize
         /\ CountersExact' /\ Exclusive'
  <1>1. hold[u] \in lent /\ lent' = lent \ {hold[u]} /\ poolC' = poolC
    BY DEF Exclusive, DropStream
  <1>2. /\ Cardinality(lent') = Cardinality(lent) - 1 /\ Cardinality(lent) \in Nat
        /\ Cardinality(lent) > 0
    BY <1>1, LentRemove, LentCount DEF TypeOK
  <1>3. Len(poolC) \in Nat /\ idleSize \in Int /\ currentSize \in Int
    BY DEF TypeOK
  <1>4. currentSize > 0
    BY <1>2, <1>3 DEF CountersExact
  <1>5. currentSize' = currentSize - 1 /\ idleSize' = idleSize
    BY <1>3, <1>4 DEF DropStream
  <1>6. CountersExact'
    BY <1>1, <1>2, <1>3, <1>5 DEF CountersExact
  <1>7. hold' = [hold EXCEPT ![u] = None] /\ hold \in [User -> Stream \cup {None}]
    BY DEF DropStream, release, TypeOK
  <1>8. Pooled' = Pooled
    BY <1>1 DEF Pooled
  <1>9. Exclusive'
    BY <1>1, <1>7, <1>8 DEF Exclusive
  <1>10. QED
    BY <1>5, <1>6, <1>9

\* A step that leaves the streams where they are.
LEMMA FrameInv ==
  ASSUME CountersExact, Exclusive, UNCHANGED <<poolVars, hold, lent>>
  PROVE  CountersExact' /\ Exclusive'
  BY DEF CountersExact, Exclusive, Pooled, poolVars

\* A caller lets go of a stream that the closed pool does not take back.
LEMMA StrandInv ==
  ASSUME TypeOK, CountersExact, Exclusive, NEW u \in User, release(u),
         UNCHANGED <<poolVars, lent>>
  PROVE  CountersExact' /\ Exclusive'
  <1>1. hold' = [hold EXCEPT ![u] = None] /\ hold \in [User -> Stream \cup {None}]
    BY DEF release, TypeOK
  <1>2. CountersExact' /\ Pooled' = Pooled
    BY DEF CountersExact, Pooled, poolVars
  <1>3. QED
    BY <1>1, <1>2 DEF Exclusive, poolVars

-----------------------------------------------------------------------------
\* Every step of the pool, its callers and its expandLoop preserves IInv.
LEMMA StepInv == IInv /\ [Next]_vars => IInv'
  <1> SUFFICES ASSUME IInv, [Next]_vars PROVE IInv'
    OBVIOUS
  <1> USE SizeAssumption, NameAssumption DEF IInv
  <1>1. CASE InitStreams
    <2>1. CountersExact' /\ Exclusive'
      BY <1>1, FrameInv DEF InitStreams, userVars
    <2>2. TypeOK'
      BY <1>1 DEF InitStreams, TypeOK, LoopStates, UserStates, poolVars, loopVars, userVars
    <2>3. LockInv'
      BY <1>1 DEF InitStreams, LockInv, TypeOK, poolVars, loopVars, userVars
    <2>4. QED
      BY <2>1, <2>2, <2>3 DEF IInv
  <1>2. CASE InitDone
    <2>1. CountersExact' /\ Exclusive'
      BY <1>2, FrameInv DEF InitDone, userVars
    <2>2. TypeOK'
      BY <1>2 DEF InitDone, TypeOK, LoopStates, UserStates, poolVars, loopVars, userVars
    <2>3. LockInv'
      BY <1>2 DEF InitDone, LockInv, TypeOK, poolVars, loopVars, userVars
    <2>4. QED
      BY <2>1, <2>2, <2>3 DEF IInv
  <1>3. CASE Close
    <2>1. CountersExact' /\ Exclusive'
      BY <1>3, FrameInv DEF Close, userVars
    <2>2. TypeOK'
      BY <1>3 DEF Close, TypeOK, LoopStates, UserStates, poolVars, loopVars, userVars
    <2>3. LockInv'
      BY <1>3 DEF Close, LockInv, TypeOK, poolVars, loopVars, userVars
    <2>4. QED
      BY <2>1, <2>2, <2>3 DEF IInv
  <1>4. CASE ConnClose
    <2>1. CountersExact' /\ Exclusive'
      BY <1>4, FrameInv DEF ConnClose, userVars
    <2>2. TypeOK'
      BY <1>4 DEF ConnClose, TypeOK, LoopStates, UserStates, poolVars, loopVars, userVars
    <2>3. LockInv'
      BY <1>4 DEF ConnClose, LockInv, TypeOK, poolVars, loopVars, userVars
    <2>4. QED
      BY <2>1, <2>2, <2>3 DEF IInv
  <1>5. CASE LoopExit
    <2>1. CountersExact' /\ Exclusive'
      BY <1>5, FrameInv DEF LoopExit, userVars
    <2>2. TypeOK'
      BY <1>5 DEF LoopExit, TypeOK, LoopStates, UserStates, poolVars, loopVars, userVars
    <2>3. LockInv'
      BY <1>5 DEF LoopExit, LockInv, TypeOK, poolVars, loopVars, userVars
    <2>4. QED
      BY <2>1, <2>2, <2>3 DEF IInv
  <1>6. CASE LoopSignal
    <2>1. CountersExact' /\ Exclusive'
      BY <1>6, FrameInv DEF LoopSignal, expandingThreshold, userVars
    <2>2. TypeOK'
      <3>1. threshold' \in Nat
        BY <1>6, SizeNat DEF LoopSignal, expandingThreshold
      <3>2. QED
        BY <1>6, <3>1 DEF LoopSignal, TypeOK, LoopStates, poolVars, userVars
    <2>3. LockInv'
      BY <1>6 DEF LoopSignal, expandingThreshold, LockInv, TypeOK, poolVars, loopVars, userVars
    <2>4. QED
      BY <2>1, <2>2, <2>3 DEF IInv
  <1>7. CASE LoopCheck
    <2>1. CountersExact' /\ Exclusive'
      BY <1>7, FrameInv DEF LoopCheck, userVars
    <2>2. TypeOK'
      BY <1>7 DEF LoopCheck, TypeOK, LoopStates, UserStates, poolVars, loopVars, userVars
    <2>3. LockInv'
      BY <1>7 DEF LoopCheck, LockInv, TypeOK, poolVars, loopVars, userVars
    <2>4. QED
      BY <2>1, <2>2, <2>3 DEF IInv
  <1>8. CASE ExpandStart
    <2>1. CountersExact' /\ Exclusive'
      BY <1>8, FrameInv DEF ExpandStart, expandSize, userVars
    <2>2. left' \in Nat /\ left' + currentSize <= maxSize
      BY <1>8, SizeNat DEF ExpandStart, expandSize
    <2>3. TypeOK'
      BY <1>8, <2>2 DEF ExpandStart, TypeOK, LoopStates, poolVars, userVars
    <2>4. LockInv'
      BY <1>8, <2>2 DEF ExpandStart, LockInv, TypeOK, poolVars, userVars
    <2>5. QED
      BY <2>1, <2>3, <2>4 DEF IInv
  <1>9. CASE ExpandEnd
    <2>1. CountersExact' /\ Exclusive'
      BY <1>9, FrameInv DEF ExpandEnd, triggerExpand, userVars
    <2>2. TypeOK'
      BY <1>9 DEF ExpandEnd, triggerExpand, TypeOK, LoopStates, UserStates, poolVars, loopVars, userVars
    <2>3. LockInv'
      BY <1>9 DEF ExpandEnd, triggerExpand, LockInv, TypeOK, poolVars, loopVars, userVars
    <2>4. QED
      BY <2>1, <2>2, <2>3 DEF IInv
  <1>10. ASSUME NEW u \in User, Call(u) PROVE IInv'
    <2>1. CountersExact' /\ Exclusive'
      BY <1>10, FrameInv DEF Call, userVars
    <2>2. TypeOK'
      BY <1>10 DEF Call, TypeOK, LoopStates, UserStates, poolVars, loopVars, userVars
    <2>3. LockInv'
      BY <1>10 DEF Call, LockInv, TypeOK, poolVars, loopVars, userVars
    <2>4. QED
      BY <2>1, <2>2, <2>3 DEF IInv
  <1>11. ASSUME NEW u \in User, BorrowTrigger(u) PROVE IInv'
    <2>1. CountersExact' /\ Exclusive'
      BY <1>11, FrameInv DEF BorrowTrigger, triggerExpand, userVars
    <2>2. TypeOK'
      BY <1>11 DEF BorrowTrigger, triggerExpand, TypeOK, LoopStates, UserStates, poolVars, loopVars, userVars
    <2>3. LockInv'
      BY <1>11 DEF BorrowTrigger, triggerExpand, LockInv, TypeOK, poolVars, loopVars, userVars
    <2>4. QED
      BY <2>1, <2>2, <2>3 DEF IInv
  <1>12. ASSUME NEW u \in User, BorrowRelock(u) PROVE IInv'
    <2>1. CountersExact' /\ Exclusive'
      BY <1>12, FrameInv DEF BorrowRelock, userVars
    <2>2. TypeOK'
      BY <1>12 DEF BorrowRelock, TypeOK, LoopStates, UserStates, poolVars, loopVars, userVars
    <2>3. LockInv'
      BY <1>12 DEF BorrowRelock, LockInv, TypeOK, poolVars, loopVars, userVars
    <2>4. QED
      BY <2>1, <2>2, <2>3 DEF IInv
  <1>13. ASSUME NEW u \in User, BorrowRetry(u) PROVE IInv'
    <2>1. CountersExact' /\ Exclusive'
      BY <1>13, FrameInv DEF BorrowRetry, userVars
    <2>2. TypeOK'
      BY <1>13 DEF BorrowRetry, TypeOK, LoopStates, UserStates, poolVars, loopVars, userVars
    <2>3. LockInv'
      BY <1>13 DEF BorrowRetry, LockInv, TypeOK, poolVars, loopVars, userVars
    <2>4. QED
      BY <2>1, <2>2, <2>3 DEF IInv

  <1>14. CASE InitOpen
    <2>1. PICK r \in OpenResult :
            IF r = "ok"
            THEN openSendStream /\ UNCHANGED <<once, mu>>
            ELSE once' = "failed" /\ mu' = Free /\ UNCHANGED poolVars
      BY <1>14 DEF InitOpen
    <2>2. CASE r = "ok"
      <3>1. openSendStream /\ UNCHANGED <<once, mu, lent, hold>>
        BY <1>14, <2>1, <2>2 DEF InitOpen, userVars
      <3>2. /\ poolC' \in Seq(Stream) /\ idleSize' \in Int /\ currentSize' \in Int
            /\ CountersExact' /\ Exclusive'
        BY <3>1, OpenInv
      <3>3. TypeOK'
        BY <1>14, <3>1, <3>2 DEF InitOpen, TypeOK, loopVars, userVars
      <3>4. LockInv'
        BY <1>14, <3>1 DEF InitOpen, openSendStream, LockInv, TypeOK, loopVars, userVars
      <3>5. QED
        BY <3>2, <3>3, <3>4
    <2>3. CASE r # "ok"
      <3>1. once' = "failed" /\ mu' = Free /\ UNCHANGED <<poolVars, hold, lent>>
        BY <1>14, <2>1, <2>3 DEF InitOpen, userVars
      <3>2. CountersExact' /\ Exclusive'
        BY <3>1, FrameInv
      <3>3. TypeOK'
        BY <1>14, <3>1 DEF InitOpen, TypeOK, LoopStates, UserStates, poolVars, loopVars, userVars
      <3>4. LockInv'
        BY <1>14, <3>1 DEF InitOpen, LockInv, TypeOK, poolVars, loopVars, userVars
      <3>5. QED
        BY <3>2, <3>3, <3>4
    <2>4. QED
      BY <2>2, <2>3
  <1>15. CASE ExpandOpen
    <2>1. CASE /\ openSendStream
               /\ loop' = "dead" /\ mu' = Free /\ left' = 0 /\ UNCHANGED closed
      <3>1. /\ poolC' \in Seq(Stream) /\ idleSize' \in Int /\ currentSize' \in Int
            /\ CountersExact' /\ Exclusive'
        BY <1>15, <2>1, OpenInv DEF ExpandOpen, userVars
      <3>2. TypeOK'
        BY <1>15, <2>1, <3>1 DEF ExpandOpen, TypeOK, LoopStates, userVars
      <3>3. LockInv'
        BY <1>15, <2>1 DEF ExpandOpen, openSendStream, LockInv, TypeOK, userVars
      <3>4. QED
        BY <3>1, <3>2, <3>3
    <2>2. CASE /\ closed' = TRUE
               /\ loop' = "select" /\ mu' = Free /\ left' = 0 /\ UNCHANGED poolVars
      <3>1. CountersExact' /\ Exclusive'
        BY <1>15, <2>2, FrameInv DEF ExpandOpen, userVars
      <3>2. TypeOK'
        BY <1>15, <2>2 DEF ExpandOpen, TypeOK, LoopStates, poolVars, userVars
      <3>3. LockInv'
        BY <1>15, <2>2 DEF ExpandOpen, LockInv, TypeOK, poolVars, userVars
      <3>4. QED
        BY <3>1, <3>2, <3>3
    <2>3. CASE left' = left - 1 /\ UNCHANGED <<poolVars, closed, loop, mu>>
      <3>1. CountersExact' /\ Exclusive'
        BY <1>15, <2>3, FrameInv DEF ExpandOpen, userVars
      <3>2. TypeOK'
        BY <1>15, <2>3 DEF ExpandOpen, TypeOK, poolVars, userVars
      <3>3. LockInv'
        BY <1>15, <2>3 DEF ExpandOpen, LockInv, TypeOK, poolVars, userVars
      <3>4. QED
        BY <3>1, <3>2, <3>3
    <2>4. QED
      BY <1>15, <2>1, <2>2, <2>3 DEF ExpandOpen
  <1>16. ASSUME NEW u \in User, BorrowStream(u) PROVE IInv'
    <2>0. hold[u] = None
      BY <1>16 DEF BorrowStream, LockInv
    <2>1. CASE borrowClosed(u) /\ UNCHANGED signal
      <3>1. CountersExact' /\ Exclusive'
        BY <2>1, FrameInv DEF borrowClosed
      <3>2. TypeOK'
        BY <1>16, <2>1 DEF BorrowStream, borrowClosed, TypeOK, UserStates, poolVars, loopVars
      <3>3. LockInv'
        BY <1>16, <2>1 DEF BorrowStream, borrowClosed, LockInv, TypeOK, poolVars, loopVars
      <3>4. QED
        BY <3>1, <3>2, <3>3
    <2>2. CASE takeStream(u, "trigger") /\ UNCHANGED signal
      <3>1. /\ poolC' \in Seq(Stream) /\ idleSize' \in Int /\ lent' \in SUBSET Stream
            /\ pc' \in [User -> UserStates] /\ hold' \in [User -> Stream \cup {None}]
            /\ hold'[u] # None /\ CountersExact' /\ Exclusive'
        BY <2>0, <2>2, TakeInv
      <3>2. TypeOK'
        BY <1>16, <2>2, <3>1 DEF BorrowStream, takeStream, TypeOK, loopVars
      <3>3. LockInv'
        BY <1>16, <2>2, <3>1 DEF BorrowStream, takeStream, LockInv, TypeOK, loopVars
      <3>4. QED
        BY <3>1, <3>2, <3>3
    <2>3. CASE /\ IF currentSize >= maxSize
                  THEN pc' = [pc EXCEPT ![u] = "idle"] /\ UNCHANGED signal
                  ELSE pc' = [pc EXCEPT ![u] = "relock"] /\ triggerExpand
               /\ UNCHANGED <<poolVars, hold, lent>>
      <3>1. CountersExact' /\ Exclusive'
        BY <2>3, FrameInv
      <3>2. PICK p \in {"idle", "relock"} : pc' = [pc EXCEPT ![u] = p]
        BY <2>3
      <3>3. signal' \in BOOLEAN
        BY <2>3 DEF triggerExpand, TypeOK
      <3>4. TypeOK'
        BY <1>16, <2>3, <3>2, <3>3 DEF BorrowStream, TypeOK, UserStates, poolVars, loopVars
      <3>5. LockInv'
        BY <1>16, <2>3, <3>2 DEF BorrowStream, LockInv, TypeOK, poolVars, loopVars
      <3>6. QED
        BY <3>1, <3>4, <3>5
    <2>4. QED
      BY <1>16, <2>1, <2>2, <2>3 DEF BorrowStream
  <1>17. ASSUME NEW u \in User, BorrowWait(u) PROVE IInv'
    <2>0. hold[u] = None /\ mu = u /\ mu' = Free /\ u # Loop
      BY <1>17 DEF BorrowWait, LockInv
    <2>1. CASE borrowClosed(u)
      <3>1. CountersExact' /\ Exclusive'
        BY <2>1, FrameInv DEF borrowClosed
      <3>2. TypeOK'
        BY <1>17, <2>1 DEF BorrowWait, borrowClosed, TypeOK, UserStates, poolVars, loopVars
      <3>3. LockInv'
        BY <1>17, <2>0, <2>1 DEF BorrowWait, borrowClosed, LockInv, TypeOK, poolVars, loopVars
      <3>4. QED
        BY <3>1, <3>2, <3>3
    <2>2. CASE takeStream(u, "holding")
      <3>1. /\ poolC' \in Seq(Stream) /\ idleSize' \in Int /\ lent' \in SUBSET Stream
            /\ pc' \in [User -> UserStates] /\ hold' \in [User -> Stream \cup {None}]
            /\ hold'[u] # None /\ CountersExact' /\ Exclusive'
        BY <2>0, <2>2, TakeInv
      <3>2. TypeOK'
        BY <1>17, <2>2, <3>1 DEF BorrowWait, takeStream, TypeOK, loopVars
      <3>3. LockInv'
        BY <1>17, <2>0, <2>2, <3>1 DEF BorrowWait, takeStream, LockInv, TypeOK, loopVars
      <3>4. QED
        BY <3>1, <3>2, <3>3
    <2>3. CASE pc' = [pc EXCEPT ![u] = "sleep"] /\ UNCHANGED <<poolVars, hold, lent>>
      <3>1. CountersExact' /\ Exclusive'
        BY <2>3, FrameInv
      <3>2. TypeOK'
        BY <1>17, <2>3 DEF BorrowWait, TypeOK, UserStates, poolVars, loopVars
      <3>3. LockInv'
        BY <1>17, <2>0, <2>3 DEF BorrowWait, LockInv, TypeOK, poolVars, loopVars
      <3>4. QED
        BY <3>1, <3>2, <3>3
    <2>4. QED
      BY <1>17, <2>1, <2>2, <2>3 DEF BorrowWait
  <1>18. ASSUME NEW u \in User, ReturnStream(u) PROVE IInv'
    <2>0. hold[u] # None /\ release(u)
      BY <1>18 DEF ReturnStream, LockInv
    <2>1. /\ pc' = [pc EXCEPT ![u] = "idle"] /\ hold' = [hold EXCEPT ![u] = None]
          /\ pc' \in [User -> UserStates] /\ hold' \in [User -> Stream \cup {None}]
      BY <2>0 DEF release, TypeOK, UserStates
    <2>2. CASE UNCHANGED <<poolVars, lent>>
      <3>1. CountersExact' /\ Exclusive'
        BY <2>0, <2>2, StrandInv
      <3>2. TypeOK'
        BY <1>18, <2>1, <2>2 DEF ReturnStream, TypeOK, poolVars, loopVars
      <3>3. LockInv'
        BY <1>18, <2>1, <2>2 DEF ReturnStream, LockInv, TypeOK, poolVars, loopVars
      <3>4. QED
        BY <3>1, <3>2, <3>3
    <2>3. CASE /\ poolC' = Append(poolC, hold[u]) /\ idleSize' = idleSize + 1
               /\ lent' = lent \ {hold[u]} /\ UNCHANGED currentSize
      <3>1. poolC' \in Seq(Stream) /\ idleSize' \in Int /\ CountersExact' /\ Exclusive'
        BY <2>0, <2>3, ReturnInv
      <3>2. TypeOK'
        BY <1>18, <2>1, <2>3, <3>1 DEF ReturnStream, TypeOK, loopVars
      <3>3. LockInv'
        BY <1>18, <2>1, <2>3 DEF ReturnStream, LockInv, TypeOK, loopVars
      <3>4. QED
        BY <3>1, <3>2, <3>3
    <2>4. QED
      BY <1>18, <2>2, <2>3 DEF ReturnStream
  <1>19. ASSUME NEW u \in User, DropStream(u) PROVE IInv'
    <2>0. hold[u] # None /\ release(u)
      BY <1>19 DEF DropStream, LockInv
    <2>1. /\ pc' = [pc EXCEPT ![u] = "idle"] /\ hold' = [hold EXCEPT ![u] = None]
          /\ pc' \in [User -> UserStates] /\ hold' \in [User -> Stream \cup {None}]
      BY <2>0 DEF release, TypeOK, UserStates
    <2>2. /\ currentSize' = currentSize - 1 /\ idleSize' = idleSize
          /\ CountersExact' /\ Exclusive'
      BY <1>19, <2>0, DropInv
    <2>3. TypeOK'
      BY <1>19, <2>1, <2>2 DEF DropStream, TypeOK, loopVars
    <2>4. LockInv'
      BY <1>19, <2>1, <2>2 DEF DropStream, LockInv, TypeOK, loopVars
    <2>5. QED
      BY <2>2, <2>3, <2>4
  <1>20. CASE UNCHANGED vars
    <2>1. CountersExact' /\ Exclusive'
      BY <1>20, FrameInv DEF vars, poolVars
    <2>2. TypeOK'
      BY <1>20 DEF vars, TypeOK
    <2>3. LockInv'
      BY <1>20 DEF vars, LockInv
    <2>4. QED
      BY <2>1, <2>2, <2>3
  <1>21. QED
    BY <1>1, <1>2, <1>3, <1>4, <1>5, <1>6, <1>7, <1>8, <1>9, <1>10, <1>11, <1>12,
       <1>13, <1>14, <1>15, <1>16, <1>17, <1>18, <1>19, <1>20
       DEF Next, InitStep, LoopStep, BorrowStep, GiveBack

LEMMA InvAlways == Spec => []IInv
  BY InitInv, StepInv, PTL DEF Spec

\* Every variable of the pool keeps its type: no counter goes wrong, the
\* lock has one holder, a caller holds a stream or nothing.
THEOREM TypeCorrect == Spec => []TypeOK
  <1>1. IInv => TypeOK
    BY DEF IInv
  <1>2. QED
    BY InvAlways, <1>1, PTL

\* idleSize and currentSize are exact after any sequence of borrows,
\* returns, drops, expansions and closes: DropStream's repair of negative
\* counters is never needed.
THEOREM CountersAlwaysExact == Spec => []CountersExact
  <1>1. IInv => CountersExact
    BY DEF IInv
  <1>2. QED
    BY InvAlways, <1>1, PTL

\* The pool stays within maxSize; a returned stream always finds room, and
\* openSendStream never blocks on poolC while it holds the lock.
THEOREM AlwaysBounded == Spec => []Bounded
  BY InvAlways, InvBounded, PTL

\* No stream is ever in two places: a stream a caller writes on is neither
\* idle nor in another caller's hands.
THEOREM OneOwner == Spec => []Exclusive
  <1>1. IInv => Exclusive
    BY DEF IInv
  <1>2. QED
    BY InvAlways, <1>1, PTL
=============================================================================
