-------------------------- MODULE TcpStreamsProofs --------------------------
(***************************************************************************)
(* What holds of the halves of the streams of a connection, for every      *)
(* number of streams.                                                      *)
(***************************************************************************)
EXTENDS TcpStreams, FiniteSetTheorems, TLAPS

\* The ends of a connection are each other's others.
LEMMA TwoEnds ==
  \A e \in End : /\ Other(e) \in End /\ Other(e) # e /\ Other(Other(e)) = e
                 /\ \A g \in End : g = e \/ g = Other(e)
  <1> SUFFICES ASSUME NEW e \in End
               PROVE  /\ Other(e) \in End /\ Other(e) # e /\ Other(Other(e)) = e
                      /\ \A g \in End : g = e \/ g = Other(e)
    OBVIOUS
  <1>1. IsFiniteSet(End \ {e}) /\ Cardinality(End \ {e}) = 1
    BY EndAssumption, FS_RemoveElement
  <1>2. PICK f : End \ {e} = {f}
    BY <1>1, FS_Singleton
  <1>3. Other(e) = f /\ f \in End /\ f # e
    BY <1>2 DEF Other
  <1>4. \A g \in End : g # f <=> g = e
    BY <1>2
  <1>5. Other(f) = e
    BY <1>3, <1>4 DEF Other
  <1>6. QED
    BY <1>2, <1>3, <1>5

-----------------------------------------------------------------------------
(* Queues without repetitions *)

NoDup(q) == \A i, j \in 1 .. Len(q) : q[i] = q[j] => i = j

LEMMA ToSetIndices ==
  ASSUME NEW S, NEW q \in Seq(S)
  PROVE  ToSet(q) = {q[i] : i \in 1 .. Len(q)}
  BY DEF ToSet

LEMMA QueueAppend ==
  ASSUME NEW S, NEW q \in Seq(S), NEW s \in S, NoDup(q), s \notin ToSet(q)
  PROVE  Append(q, s) \in Seq(S) /\ NoDup(Append(q, s)) /\ ToSet(Append(q, s)) = ToSet(q) \cup {s}
  <1> DEFINE t == Append(q, s)
  <1>1. t \in Seq(S) /\ Len(t) = Len(q) + 1 /\ Len(q) \in Nat /\ t[Len(q) + 1] = s
        /\ \A j \in 1 .. Len(q) : t[j] = q[j]
    OBVIOUS
  <1>2. ToSet(t) = {t[i] : i \in 1 .. Len(t)} /\ ToSet(q) = {q[i] : i \in 1 .. Len(q)}
    <2> HIDE DEF t
    <2>1. t \in Seq(S)
      BY <1>1
    <2>2. QED
      BY <2>1, ToSetIndices
  <1> HIDE DEF t
  <1>3. NoDup(t)
    BY <1>1, <1>2 DEF NoDup
  <1>4. ToSet(t) = ToSet(q) \cup {s}
    BY <1>1, <1>2
  <1>5. QED
    BY <1>1, <1>3, <1>4 DEF t

LEMMA QueueTail ==
  ASSUME NEW S, NEW q \in Seq(S), q # << >>, NoDup(q)
  PROVE  /\ Head(q) \in S /\ Head(q) \in ToSet(q)
         /\ Tail(q) \in Seq(S) /\ NoDup(Tail(q)) /\ ToSet(Tail(q)) = ToSet(q) \ {Head(q)}
  <1> DEFINE t == Tail(q)
  <1>1. t \in Seq(S) /\ Len(t) = Len(q) - 1 /\ Len(q) \in Nat \ {0} /\ Head(q) = q[1]
        /\ \A j \in 1 .. Len(q) - 1 : t[j] = q[j + 1]
    OBVIOUS
  <1>2. ToSet(t) = {t[i] : i \in 1 .. Len(t)} /\ ToSet(q) = {q[i] : i \in 1 .. Len(q)}
    <2> HIDE DEF t
    <2>1. t \in Seq(S)
      BY <1>1
    <2>2. QED
      BY <2>1, ToSetIndices
  <1> HIDE DEF t
  <1>3. NoDup(t)
    BY <1>1 DEF NoDup
  <1>4. ASSUME NEW x \in ToSet(t) PROVE x \in ToSet(q) \ {Head(q)}
    <2>1. PICK j \in 1 .. Len(q) - 1 : x = q[j + 1]
      BY <1>1, <1>2
    <2>2. QED
      BY <1>1, <1>2, <2>1 DEF NoDup
  <1>5. ASSUME NEW x \in ToSet(q) \ {Head(q)} PROVE x \in ToSet(t)
    <2>1. PICK j \in 1 .. Len(q) : x = q[j] /\ j # 1
      BY <1>1, <1>2
    <2>2. j - 1 \in 1 .. Len(t) /\ t[j - 1] = x
      BY <1>1, <2>1
    <2>3. QED
      BY <1>2, <2>2
  <1>6. Head(q) \in S /\ Head(q) \in ToSet(q)
    BY <1>1, <1>2
  <1>7. QED
    BY <1>1, <1>3, <1>4, <1>5, <1>6 DEF t

\* One more stream has been handed out.
LEMMA CountUp ==
  ASSUME NEW f \in [End -> [Stream -> Nat]], NEW e \in End, NEW s \in Stream,
         NEW g \in End, NEW t \in Stream
  PROVE  /\ [f EXCEPT ![e][s] = @ + 1] \in [End -> [Stream -> Nat]]
         /\ [f EXCEPT ![e][s] = @ + 1][g][t] = IF g = e /\ t = s THEN f[g][t] + 1 ELSE f[g][t]
  OBVIOUS

-----------------------------------------------------------------------------
(* The invariant *)

\* What end e has of stream s: nothing before it is opened or accepted, and
\* read halves to reuse only of its own streams, write halves only of the
\* other end's.
HalfSound(e, s) ==
  /\ s \in opened[e] => s \notin opened[Other(e)]
  /\ s \in usableRS[e] => s \in opened[e]
  /\ s \in usableSS[e] => s \in opened[Other(e)]
  /\ s \in InBacklog(e) => /\ s \in opened[Other(e)] /\ s \notin usableSS[e]
                           /\ sends[e][s] = 0 /\ recvs[e][s] = 0
  /\ s \notin opened[e] \cup opened[Other(e)] => sends[e][s] = 0 /\ recvs[e][s] = 0

\* The halves of s at e are used once, and none of them is lost.
UsedOnce(e, s) ==
  /\ sends[e][s] + (IF s \in usableSS[e] THEN 1 ELSE 0) <= 1
  /\ recvs[e][s] + (IF s \in usableRS[e] THEN 1 ELSE 0) <= 1

Accounted(e, s) ==
  /\ s \in opened[e] => /\ sends[e][s] > 0 \/ s \in sendClosed[e]
                        /\ recvs[e][s] > 0 \/ s \in usableRS[e] \cup recvClosed[e]
  /\ s \in opened[Other(e)] =>
       /\ recvs[e][s] > 0 \/ s \in InBacklog(e) \cup recvClosed[e]
       /\ sends[e][s] > 0 \/ s \in InBacklog(e) \cup usableSS[e] \cup sendClosed[e]

SoundAt(e, s) == HalfSound(e, s) /\ UsedOnce(e, s) /\ Accounted(e, s)

\* The inductive invariant.
StreamInv ==
  /\ TypeOK
  /\ \A e \in End : NoDup(backlog[e])
  /\ \A e \in End, s \in Stream : SoundAt(e, s)

LEMMA StreamInit == Init => StreamInv
  <1> SUFFICES ASSUME Init PROVE StreamInv
    OBVIOUS
  <1>1. << >> \in Seq(Stream) /\ NoDup(<< >>) /\ ToSet(<< >>) = {}
    BY DEF NoDup, ToSet
  <1>2. TypeOK
    BY <1>1 DEF Init, TypeOK
  <1>3. \A e \in End : backlog[e] = << >>
    BY DEF Init
  <1>4. ASSUME NEW e \in End, NEW s \in Stream PROVE SoundAt(e, s)
    BY <1>1, <1>3, TwoEnds DEF Init, SoundAt, HalfSound, UsedOnce, Accounted, InBacklog
  <1>5. QED
    BY <1>1, <1>2, <1>3, <1>4 DEF StreamInv

LEMMA StreamStep == StreamInv /\ [Next]_vars => StreamInv'
  <1> SUFFICES ASSUME StreamInv, [Next]_vars PROVE StreamInv'
    OBVIOUS
  <1> USE DEF halves
  <1>0. /\ TypeOK
        /\ \A e \in End : NoDup(backlog[e]) /\ backlog[e] \in Seq(Stream)
        /\ \A e \in End, s \in Stream : SoundAt(e, s)
    BY DEF StreamInv, TypeOK
  <1>1. CASE UNCHANGED vars
    BY <1>0, <1>1 DEF vars, StreamInv, TypeOK, SoundAt, HalfSound, UsedOnce, Accounted, InBacklog
  <1>2. CASE SessionEnds
    <2>1. TypeOK'
      BY <1>0, <1>2 DEF SessionEnds, TypeOK
    <2>2. QED
      BY <1>0, <1>2, <2>1 DEF SessionEnds, StreamInv, SoundAt, HalfSound, UsedOnce, Accounted, InBacklog
  \* nothing happens to the queues of the session
  <1>3. ASSUME UNCHANGED <<opened, backlog>>, TypeOK',
               \A e \in End, s \in Stream : HalfSound(e, s)' /\ UsedOnce(e, s)' /\ Accounted(e, s)'
        PROVE  StreamInv'
    BY <1>0, <1>3 DEF StreamInv, SoundAt
  <1>4. ASSUME NEW e \in End, OpenReused(e) PROVE StreamInv'
    <2>1. PICK s \in usableSS[e] \ recvClosed[e], met \in SUBSET (usableSS[e] \cap recvClosed[e]) :
            /\ usableSS' = [usableSS EXCEPT ![e] = @ \ (met \cup {s})]
            /\ sendClosed' = [sendClosed EXCEPT ![e] = @ \cup met]
            /\ sends' = [sends EXCEPT ![e][s] = @ + 1]
      BY <1>4 DEF OpenReused, getUsableSendStream
    <2>2. UNCHANGED <<opened, backlog, usableRS, recvs, recvClosed, accept, down>> /\ s \in Stream
      BY <1>0, <1>4, <2>1 DEF OpenReused, TypeOK
    <2>3. TypeOK'
      BY <1>0, <2>1, <2>2 DEF TypeOK
    <2>4. ASSUME NEW g \in End, NEW t \in Stream
          PROVE  HalfSound(g, t)' /\ UsedOnce(g, t)' /\ Accounted(g, t)'
      <3>1. SoundAt(g, t) /\ SoundAt(e, s)
        BY <1>0, <2>2
      <3>2. /\ usableSS'[g] = IF g = e THEN usableSS[g] \ (met \cup {s}) ELSE usableSS[g]
            /\ sendClosed'[g] = IF g = e THEN sendClosed[g] \cup met ELSE sendClosed[g]
            /\ sends'[g][t] = IF g = e /\ t = s THEN sends[g][t] + 1 ELSE sends[g][t]
            /\ sends[g][t] \in Nat /\ recvs[g][t] \in Nat
        <4>1. usableSS'[g] = IF g = e THEN usableSS[g] \ (met \cup {s}) ELSE usableSS[g]
          BY <1>0, <2>1 DEF TypeOK
        <4>2. sendClosed'[g] = IF g = e THEN sendClosed[g] \cup met ELSE sendClosed[g]
          BY <1>0, <2>1 DEF TypeOK
        <4>3. sends'[g][t] = IF g = e /\ t = s THEN sends[g][t] + 1 ELSE sends[g][t]
          BY <1>0, <2>1, <2>2, CountUp DEF TypeOK
        <4>4. sends[g][t] \in Nat /\ recvs[g][t] \in Nat
          BY <1>0 DEF TypeOK
        <4>5. QED
          BY <4>1, <4>2, <4>3, <4>4
      <3>3. InBacklog(g)' = InBacklog(g)
        BY <2>2 DEF InBacklog
      <3>4. QED
        BY <2>1, <2>2, <3>1, <3>2, <3>3 DEF SoundAt, HalfSound, UsedOnce, Accounted
    <2>5. QED
      BY <1>3, <2>2, <2>3, <2>4
  <1>5. ASSUME NEW e \in End, OpenNew(e) PROVE StreamInv'
    <2>1. PICK s \in Fresh :
            /\ opened' = [opened EXCEPT ![e] = @ \cup {s}]
            /\ backlog' = [backlog EXCEPT ![Other(e)] = Append(@, s)]
            /\ sends' = [sends EXCEPT ![e][s] = @ + 1]
            /\ usableRS' = [usableRS EXCEPT ![e] = @ \cup {s}]
      BY <1>5 DEF OpenNew
    <2>2. /\ usableSS[e] \subseteq recvClosed[e]
          /\ usableSS' = [usableSS EXCEPT ![e] = {}]
          /\ sendClosed' = [sendClosed EXCEPT ![e] = @ \cup usableSS[e]]
          /\ UNCHANGED <<recvs, recvClosed, accept, down>>
      BY <1>5 DEF OpenNew, noUsableSendStream
    <2>3. /\ s \in Stream /\ \A g \in End : s \notin opened[g]
          /\ \A g \in End : SoundAt(g, s)
      BY <1>0, <2>1 DEF Fresh
    <2>4. s \notin ToSet(backlog[Other(e)])
      BY <2>3, TwoEnds DEF SoundAt, HalfSound, InBacklog
    <2>5. \A g \in End : /\ backlog'[g] \in Seq(Stream) /\ NoDup(backlog'[g])
                         /\ InBacklog(g)' = IF g = e THEN InBacklog(g) ELSE InBacklog(g) \cup {s}
      <3>1. LET q == Append(backlog[Other(e)], s) IN
              q \in Seq(Stream) /\ NoDup(q) /\ ToSet(q) = ToSet(backlog[Other(e)]) \cup {s}
        BY <1>0, <2>3, <2>4, QueueAppend, TwoEnds
      <3>2. backlog'[e] = backlog[e] /\ backlog'[Other(e)] = Append(backlog[Other(e)], s)
        BY <1>0, <2>1, TwoEnds DEF TypeOK
      <3>3. QED
        BY <1>0, <3>1, <3>2, TwoEnds DEF InBacklog
    <2>6. TypeOK'
      <3>1. backlog' \in [End -> Seq(Stream)]
        BY <1>0, <2>1, <2>5 DEF TypeOK
      <3>2. QED
        <4>1. opened' \in [End -> SUBSET Stream] /\ usableRS' \in [End -> SUBSET Stream]
          BY <1>0, <2>1, <2>3 DEF TypeOK
        <4>2. usableSS' \in [End -> SUBSET Stream] /\ sendClosed' \in [End -> SUBSET Stream]
          BY <1>0, <2>2 DEF TypeOK
        <4>3. sends' \in [End -> [Stream -> Nat]]
          BY <1>0, <2>1, <2>3, CountUp DEF TypeOK
        <4>4. QED
          BY <1>0, <2>2, <3>1, <4>1, <4>2, <4>3 DEF TypeOK
    <2>7. ASSUME NEW g \in End, NEW t \in Stream PROVE SoundAt(g, t)'
      <3>1. SoundAt(g, t) /\ SoundAt(g, s)
        BY <1>0, <2>3
      <3>2. /\ \A h \in End : opened'[h] = IF h = e THEN opened[h] \cup {s} ELSE opened[h]
            /\ usableSS'[g] = IF g = e THEN {} ELSE usableSS[g]
            /\ usableRS'[g] = IF g = e THEN usableRS[g] \cup {s} ELSE usableRS[g]
            /\ sendClosed'[g] = IF g = e THEN sendClosed[g] \cup usableSS[g] ELSE sendClosed[g]
            /\ sends'[g][t] = IF g = e /\ t = s THEN sends[g][t] + 1 ELSE sends[g][t]
            /\ recvs'[g] = recvs[g] /\ recvClosed'[g] = recvClosed[g]
            /\ sends[g][t] \in Nat /\ recvs[g][t] \in Nat
        <4>1. \A h \in End : opened'[h] = IF h = e THEN opened[h] \cup {s} ELSE opened[h]
          BY <1>0, <2>1 DEF TypeOK
        <4>2. usableSS'[g] = IF g = e THEN {} ELSE usableSS[g]
          BY <1>0, <2>2 DEF TypeOK
        <4>3. usableRS'[g] = IF g = e THEN usableRS[g] \cup {s} ELSE usableRS[g]
          BY <1>0, <2>1 DEF TypeOK
        <4>4. sendClosed'[g] = IF g = e THEN sendClosed[g] \cup usableSS[g] ELSE sendClosed[g]
          BY <1>0, <2>2 DEF TypeOK
        <4>5. sends'[g][t] = IF g = e /\ t = s THEN sends[g][t] + 1 ELSE sends[g][t]
          BY <1>0, <2>1, <2>3, CountUp DEF TypeOK
        <4>6. /\ recvs'[g] = recvs[g] /\ recvClosed'[g] = recvClosed[g]
              /\ sends[g][t] \in Nat /\ recvs[g][t] \in Nat
          BY <1>0, <2>2 DEF TypeOK
        <4>7. QED
          BY <4>1, <4>2, <4>3, <4>4, <4>5, <4>6
      <3>3. Other(g) \in End /\ Other(g) # g /\ (g = e \/ Other(g) = e)
        BY TwoEnds
      <3>4. HalfSound(g, t)'
        <4>1. CASE g = e
          <5>1. /\ opened'[g] = opened[g] \cup {s} /\ opened'[Other(g)] = opened[Other(g)]
                /\ InBacklog(g)' = InBacklog(g) /\ s \notin opened[Other(g)]
            BY <2>3, <2>5, <3>2, <3>3, <4>1
          <5>2. QED
            BY <3>1, <3>2, <4>1, <5>1 DEF SoundAt, HalfSound
        <4>2. CASE g # e
          <5>1. /\ opened'[g] = opened[g] /\ opened'[Other(g)] = opened[Other(g)] \cup {s}
                /\ InBacklog(g)' = InBacklog(g) \cup {s} /\ s \notin opened[g]
                /\ s \notin opened[Other(g)]
            BY <2>3, <2>5, <3>2, <3>3, <4>2
          <5>2. QED
            BY <3>1, <3>2, <4>2, <5>1 DEF SoundAt, HalfSound
        <4>3. QED
          BY <4>1, <4>2
      <3>5. UsedOnce(g, t)'
        BY <2>3, <3>1, <3>2, <3>3 DEF SoundAt, HalfSound, UsedOnce
      <3>6. Accounted(g, t)'
        <4>1. CASE g = e
          <5>1. /\ opened'[Other(g)] = opened[Other(g)] /\ InBacklog(g)' = InBacklog(g)
                /\ t # s => (t \in opened'[g] <=> t \in opened[g])
                /\ t = s => sends'[g][t] > 0 /\ t \in usableRS'[g] /\ t \notin opened'[Other(g)]
                /\ sends'[g][t] >= sends[g][t] /\ usableRS[g] \subseteq usableRS'[g]
                /\ sendClosed'[g] = sendClosed[g] \cup usableSS[g]
            <6>1. opened'[Other(g)] = opened[Other(g)] /\ InBacklog(g)' = InBacklog(g)
              BY <2>5, <3>2, <3>3, <4>1
            <6>2. t # s => (t \in opened'[g] <=> t \in opened[g])
              BY <3>2, <4>1
            <6>3. t = s => sends'[g][t] > 0 /\ t \in usableRS'[g] /\ t \notin opened'[Other(g)]
              BY <2>3, <3>2, <3>3, <4>1, <6>1
            <6>4. /\ sends'[g][t] >= sends[g][t] /\ usableRS[g] \subseteq usableRS'[g]
                  /\ sendClosed'[g] = sendClosed[g] \cup usableSS[g]
              BY <3>2, <4>1
            <6>5. QED
              BY <6>1, <6>2, <6>3, <6>4
          <5>2. QED
            BY <3>1, <3>2, <5>1 DEF SoundAt, Accounted
        <4>2. CASE g # e
          <5>1. /\ opened'[g] = opened[g] /\ opened'[Other(g)] = opened[Other(g)] \cup {s}
                /\ InBacklog(g)' = InBacklog(g) \cup {s} /\ s \notin opened'[g]
                /\ usableSS'[g] = usableSS[g] /\ usableRS'[g] = usableRS[g]
                /\ sendClosed'[g] = sendClosed[g] /\ sends'[g][t] = sends[g][t]
            BY <2>3, <2>5, <3>2, <3>3, <4>2
          <5>2. QED
            BY <3>1, <3>2, <5>1 DEF SoundAt, Accounted
        <4>3. QED
          BY <4>1, <4>2
      <3>7. QED
        BY <3>4, <3>5, <3>6 DEF SoundAt
    <2>8. QED
      BY <2>5, <2>6, <2>7 DEF StreamInv
  <1>6. ASSUME NEW e \in End, AcceptReused(e) PROVE StreamInv'
    <2>1. PICK s \in usableRS[e] \ sendClosed[e], met \in SUBSET (usableRS[e] \cap sendClosed[e]) :
            /\ usableRS' = [usableRS EXCEPT ![e] = @ \ (met \cup {s})]
            /\ recvClosed' = [recvClosed EXCEPT ![e] = @ \cup met]
            /\ recvs' = [recvs EXCEPT ![e][s] = @ + 1]
      BY <1>6 DEF AcceptReused
    <2>2. UNCHANGED <<opened, backlog, usableSS, sends, sendClosed, accept, down>> /\ s \in Stream
      BY <1>0, <1>6, <2>1 DEF AcceptReused, TypeOK
    <2>3. TypeOK'
      BY <1>0, <2>1, <2>2 DEF TypeOK
    <2>4. ASSUME NEW g \in End, NEW t \in Stream
          PROVE  HalfSound(g, t)' /\ UsedOnce(g, t)' /\ Accounted(g, t)'
      <3>1. SoundAt(g, t) /\ SoundAt(e, s)
        BY <1>0, <2>2
      <3>2. /\ usableRS'[g] = IF g = e THEN usableRS[g] \ (met \cup {s}) ELSE usableRS[g]
            /\ recvClosed'[g] = IF g = e THEN recvClosed[g] \cup met ELSE recvClosed[g]
            /\ recvs'[g][t] = IF g = e /\ t = s THEN recvs[g][t] + 1 ELSE recvs[g][t]
            /\ sends[g][t] \in Nat /\ recvs[g][t] \in Nat
        <4>1. usableRS'[g] = IF g = e THEN usableRS[g] \ (met \cup {s}) ELSE usableRS[g]
          BY <1>0, <2>1 DEF TypeOK
        <4>2. recvClosed'[g] = IF g = e THEN recvClosed[g] \cup met ELSE recvClosed[g]
          BY <1>0, <2>1 DEF TypeOK
        <4>3. recvs'[g][t] = IF g = e /\ t = s THEN recvs[g][t] + 1 ELSE recvs[g][t]
          BY <1>0, <2>1, <2>2, CountUp DEF TypeOK
        <4>4. sends[g][t] \in Nat /\ recvs[g][t] \in Nat
          BY <1>0 DEF TypeOK
        <4>5. QED
          BY <4>1, <4>2, <4>3, <4>4
      <3>3. InBacklog(g)' = InBacklog(g) /\ Other(g) \in End
        BY <2>2, TwoEnds DEF InBacklog
      <3>4. QED
        BY <2>1, <2>2, <3>1, <3>2, <3>3 DEF SoundAt, HalfSound, UsedOnce, Accounted
    <2>5. QED
      BY <1>3, <2>2, <2>3, <2>4
  <1>7. ASSUME NEW e \in End, AcceptWait(e) PROVE StreamInv'
    <2>1. /\ usableRS' = [usableRS EXCEPT ![e] = {}]
          /\ recvClosed' = [recvClosed EXCEPT ![e] = @ \cup usableRS[e]]
          /\ accept' = [accept EXCEPT ![e] = "wait"]
          /\ UNCHANGED <<opened, backlog, usableSS, sends, recvs, sendClosed, down>>
      BY <1>7 DEF AcceptWait
    <2>2. TypeOK'
      BY <1>0, <2>1 DEF TypeOK
    <2>3. ASSUME NEW g \in End, NEW t \in Stream
          PROVE  HalfSound(g, t)' /\ UsedOnce(g, t)' /\ Accounted(g, t)'
      <3>1. SoundAt(g, t) /\ InBacklog(g)' = InBacklog(g)
        BY <1>0, <2>1 DEF InBacklog
      <3>2. /\ usableRS'[g] = IF g = e THEN {} ELSE usableRS[g]
            /\ recvClosed'[g] = IF g = e THEN recvClosed[g] \cup usableRS[g] ELSE recvClosed[g]
            /\ sends[g][t] \in Nat /\ recvs[g][t] \in Nat
        BY <1>0, <2>1 DEF TypeOK
      <3>3. QED
        BY <2>1, <3>1, <3>2 DEF SoundAt, HalfSound, UsedOnce, Accounted
    <2>4. QED
      BY <1>3, <2>1, <2>2, <2>3
  <1>8. ASSUME NEW e \in End, AcceptNew(e) PROVE StreamInv'
    <2> DEFINE s == Head(backlog[e])
    <2>1. /\ backlog[e] # << >>
          /\ recvs' = [recvs EXCEPT ![e][s] = @ + 1]
          /\ usableSS' = [usableSS EXCEPT ![e] = @ \cup {s}]
          /\ backlog' = [backlog EXCEPT ![e] = Tail(@)]
          /\ accept' = [accept EXCEPT ![e] = "call"]
          /\ UNCHANGED <<opened, usableRS, sends, sendClosed, recvClosed, down>>
      BY <1>8 DEF AcceptNew
    <2>2. /\ s \in Stream /\ s \in InBacklog(e)
          /\ Tail(backlog[e]) \in Seq(Stream) /\ NoDup(Tail(backlog[e]))
          /\ ToSet(Tail(backlog[e])) = InBacklog(e) \ {s}
      BY <1>0, <2>1, QueueTail DEF InBacklog
    <2> HIDE DEF s
    <2>3. \A g \in End : /\ backlog'[g] \in Seq(Stream) /\ NoDup(backlog'[g])
                         /\ InBacklog(g)' = IF g = e THEN InBacklog(g) \ {s} ELSE InBacklog(g)
      BY <1>0, <2>1, <2>2 DEF TypeOK, InBacklog
    <2>4. TypeOK'
      <3>1. backlog' \in [End -> Seq(Stream)]
        BY <1>0, <2>1, <2>3 DEF TypeOK
      <3>2. QED
        BY <1>0, <2>1, <2>2, <3>1 DEF TypeOK
    <2>5. ASSUME NEW g \in End, NEW t \in Stream PROVE SoundAt(g, t)'
      <3>1. SoundAt(g, t) /\ SoundAt(e, s)
        BY <1>0, <2>2
      <3>2. /\ usableSS'[g] = IF g = e THEN usableSS[g] \cup {s} ELSE usableSS[g]
            /\ recvs'[g][t] = IF g = e /\ t = s THEN recvs[g][t] + 1 ELSE recvs[g][t]
            /\ sends[g][t] \in Nat /\ recvs[g][t] \in Nat
        <4>1. usableSS'[g] = IF g = e THEN usableSS[g] \cup {s} ELSE usableSS[g]
          BY <1>0, <2>1 DEF TypeOK
        <4>2. recvs'[g][t] = IF g = e /\ t = s THEN recvs[g][t] + 1 ELSE recvs[g][t]
          <5>1. recvs \in [End -> [Stream -> Nat]] /\ recvs' = [recvs EXCEPT ![e][s] = @ + 1]
            BY <1>0, <2>1 DEF TypeOK
          <5>2. QED
            BY <2>2, <5>1, CountUp
        <4>3. sends[g][t] \in Nat /\ recvs[g][t] \in Nat
          BY <1>0 DEF TypeOK
        <4>4. QED
          BY <4>1, <4>2, <4>3
      <3>3. Other(e) \in End /\ Other(e) # e
        BY TwoEnds
      <3>4. HalfSound(g, t)'
        BY <2>1, <2>2, <2>3, <3>1, <3>2 DEF SoundAt, HalfSound
      <3>5. UsedOnce(g, t)'
        <4>1. s \notin usableRS[e] /\ sends[e][s] = 0 /\ recvs[e][s] = 0
          <5>1. s \notin opened[e]
            BY <1>0, <2>2, <3>1, <3>3, TwoEnds DEF SoundAt, HalfSound
          <5>2. QED
            BY <2>2, <3>1, <5>1 DEF SoundAt, HalfSound
        <4>2. CASE g = e /\ t = s
          BY <2>1, <3>2, <4>1, <4>2 DEF UsedOnce
        <4>3. CASE ~(g = e /\ t = s)
          <5>1. /\ recvs'[g][t] = recvs[g][t] /\ sends'[g][t] = sends[g][t]
                /\ usableRS'[g] = usableRS[g] /\ (t \in usableSS'[g] <=> t \in usableSS[g])
            BY <2>1, <3>2, <4>3
          <5>2. QED
            BY <3>1, <5>1 DEF SoundAt, UsedOnce
        <4>4. QED
          BY <4>2, <4>3
      <3>6. Accounted(g, t)'
        BY <2>1, <2>2, <2>3, <3>1, <3>2 DEF SoundAt, Accounted
      <3>7. QED
        BY <3>4, <3>5, <3>6 DEF SoundAt
    <2>6. QED
      BY <2>3, <2>4, <2>5 DEF StreamInv
  <1>9. ASSUME NEW e \in End, NEW s \in Stream, CloseSend(e, s) PROVE StreamInv'
    <2>1. /\ sends[e][s] > 0
          /\ sends' = [sends EXCEPT ![e][s] = @ - 1]
          /\ sendClosed' = [sendClosed EXCEPT ![e] = @ \cup {s}]
          /\ UNCHANGED <<opened, backlog, usableRS, usableSS, recvs, recvClosed, accept, down>>
      BY <1>9 DEF CloseSend
    <2>2. TypeOK'
      BY <1>0, <2>1 DEF TypeOK
    <2>3. ASSUME NEW g \in End, NEW t \in Stream
          PROVE  HalfSound(g, t)' /\ UsedOnce(g, t)' /\ Accounted(g, t)'
      <3>1. SoundAt(g, t) /\ InBacklog(g)' = InBacklog(g)
        BY <1>0, <2>1 DEF InBacklog
      <3>2. /\ sendClosed'[g] = IF g = e THEN sendClosed[g] \cup {s} ELSE sendClosed[g]
            /\ sends'[g][t] = IF g = e /\ t = s THEN sends[g][t] - 1 ELSE sends[g][t]
            /\ sends[g][t] \in Nat /\ recvs[g][t] \in Nat
        BY <1>0, <2>1 DEF TypeOK
      <3>3. QED
        BY <2>1, <3>1, <3>2 DEF SoundAt, HalfSound, UsedOnce, Accounted
    <2>4. QED
      BY <1>3, <2>1, <2>2, <2>3
  <1>10. ASSUME NEW e \in End, NEW s \in Stream, CloseReceive(e, s) PROVE StreamInv'
    <2>1. /\ recvs[e][s] > 0
          /\ recvs' = [recvs EXCEPT ![e][s] = @ - 1]
          /\ recvClosed' = [recvClosed EXCEPT ![e] = @ \cup {s}]
          /\ UNCHANGED <<opened, backlog, usableRS, usableSS, sends, sendClosed, accept, down>>
      BY <1>10 DEF CloseReceive
    <2>2. TypeOK'
      BY <1>0, <2>1 DEF TypeOK
    <2>3. ASSUME NEW g \in End, NEW t \in Stream
          PROVE  HalfSound(g, t)' /\ UsedOnce(g, t)' /\ Accounted(g, t)'
      <3>1. SoundAt(g, t) /\ InBacklog(g)' = InBacklog(g)
        BY <1>0, <2>1 DEF InBacklog
      <3>2. /\ recvClosed'[g] = IF g = e THEN recvClosed[g] \cup {s} ELSE recvClosed[g]
            /\ recvs'[g][t] = IF g = e /\ t = s THEN recvs[g][t] - 1 ELSE recvs[g][t]
            /\ sends[g][t] \in Nat /\ recvs[g][t] \in Nat
        BY <1>0, <2>1 DEF TypeOK
      <3>3. QED
        BY <2>1, <3>1, <3>2 DEF SoundAt, HalfSound, UsedOnce, Accounted
    <2>4. QED
      BY <1>3, <2>1, <2>2, <2>3
  <1>11. QED
    BY <1>1, <1>2, <1>4, <1>5, <1>6, <1>7, <1>8, <1>9, <1>10
       DEF Next, OpenSendStream, AcceptReceiveStream

LEMMA StreamAlways == Spec => []StreamInv
  BY StreamInit, StreamStep, PTL DEF Spec

-----------------------------------------------------------------------------
\* Every variable of the connection keeps its type; in particular no counter
\* of streams handed out falls below zero.
THEOREM TypeCorrect == Spec => []TypeOK
  <1>1. StreamInv => TypeOK
    BY DEF StreamInv
  <1>2. QED
    BY StreamAlways, <1>1, PTL

\* OpenSendStream and AcceptReceiveStream never hand out a half that somebody
\* has, whether it is new or taken from the usable ones.
THEOREM HalvesExclusive == Spec => []HalfUsedOnce
  <1>1. StreamInv => HalfUsedOnce
    BY DEF StreamInv, SoundAt, UsedOnce, HalfUsedOnce
  <1>2. QED
    BY StreamAlways, <1>1, PTL

\* Every half of every stream opened is in use, to be reused, closed, or
\* waits to be accepted.
THEOREM NoHalfLost == Spec => []HalvesAccounted
  <1>1. ASSUME StreamInv PROVE HalvesAccounted
    <2> SUFFICES ASSUME NEW e \in End, NEW s \in opened[e]
                 PROVE  LET f == Other(e) IN
                        /\ sends[e][s] > 0 \/ s \in sendClosed[e]
                        /\ recvs[e][s] > 0 \/ s \in usableRS[e] \cup recvClosed[e]
                        /\ recvs[f][s] > 0 \/ s \in InBacklog(f) \cup recvClosed[f]
                        /\ sends[f][s] > 0 \/ s \in InBacklog(f) \cup usableSS[f] \cup sendClosed[f]
      BY DEF HalvesAccounted
    <2>1. s \in Stream /\ Other(e) \in End /\ Other(Other(e)) = e
      BY <1>1, TwoEnds DEF StreamInv, TypeOK
    <2>2. Accounted(e, s) /\ Accounted(Other(e), s)
      BY <1>1, <2>1 DEF StreamInv, SoundAt
    <2>3. QED
      BY <2>1, <2>2 DEF Accounted
  <1>2. QED
    BY StreamAlways, <1>1, PTL
=============================================================================
