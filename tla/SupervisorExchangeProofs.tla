---------------------- MODULE SupervisorExchangeProofs ----------------------
(***************************************************************************)
(* What holds of two components that share no state: of the supervisor,    *)
(* for every set of peers and addresses, any number of attempts, of        *)
(* actuators and of calls of Start; and of ProtocolExchange, for every set *)
(* of connections and of protocols and any number of changes.              *)
(***************************************************************************)
EXTENDS ConnectionSupervisor, ProtocolExchange, FiniteSetTheorems, TLAPS

-----------------------------------------------------------------------------
(* ConnectionSupervisor *)

\* The states of a Run that may still dial.
Dialling == {"top", "dialing", "sleep"}

\* One actuator.  Only an actuator that is neither given up nor finished may
\* have attempts left to make; the supervisor's own actuators are finished
\* when Run is over, never while it dials.
ActSound(a) ==
  /\ giveUp[a] => run[a] \in {"none", "exiting"}
  /\ InMap(a) /\ (giveUp[a] \/ run[a] \in Dialling) => ~finished[a]
  /\ tries[a] <= tryTimes
  /\ ~giveUp[a] /\ ~finished[a] => tries[a] < tryTimes

\* An actuator is in the map for its own peer only.
Owned == \A p \in Peer : actuators[p] # Unset => pid[actuators[p]] = p

ActPart == Owned /\ \A a \in Act : ActSound(a)

\* The first run of the supervisor, with the peers of the configuration.
Live == starts = 1 /\ calls = 0 /\ running

Idle == starts = 0 => /\ calls = 0 /\ ~allConnected /\ ~running
                      /\ \A i \in LoopId : loop[i] = "off"

\* While checkConn holds the lock, the peers it has counted are still
\* connected, or the news that they are not cannot be delivered yet.
Counted(S) ==
  /\ S \subseteq Peer \ todo
  /\ Cardinality(S) = currentConnected
  /\ Live => S \subseteq Necessary \cap (connected \cup notice)

Found == ~Unlocked => (\E S \in SUBSET Peer : Counted(S)) /\ (Live => todo \subseteq Necessary)

CheckPart == Idle /\ Found /\ AllConnectedSound

SupInv == TypeOK /\ ActPart /\ CheckPart

LEMMA TryPositive == tryTimes \in Nat \ {0}
  BY TryTimesAssumption DEF tryTimes

\* The actuator checkConn makes is one nobody uses.
LEMMA GarbagePick ==
  ASSUME Garbage # {}
  PROVE  Min(Garbage) \in Garbage
  <1> DEFINE R == OpToRel(<, Nat)
  <1>1. Garbage \subseteq Nat
    BY BoundAssumption DEF Garbage, Act
  <1>2. \E x \in Garbage : \A y \in Garbage : ~(<<y, x>> \in R)
    BY <1>1, NatLessThanWellFounded, WFMin
  <1>3. \A x, y \in Nat : y < x => <<y, x>> \in R
    BY DEF OpToRel
  <1> HIDE DEF R
  <1>4. PICK x \in Garbage : \A y \in Garbage : ~(<<y, x>> \in R)
    BY <1>2
  <1>5. ASSUME NEW y \in Garbage PROVE x <= y
    <2>1. ~(y < x)
      BY <1>1, <1>3, <1>4
    <2>2. x \in Nat /\ y \in Nat
      BY <1>1
    <2>3. QED
      BY <2>1, <2>2
  <1>6. QED
    BY <1>5 DEF Min

-----------------------------------------------------------------------------
LEMMA InitInv == Init => SupInv
  <1> SUFFICES ASSUME Init PROVE SupInv
    OBVIOUS
  <1>0. Cardinality(Peer) \in Nat
    BY PeerAssumption, FS_CardinalityType
  <1>1. TypeOK
    <2>1. /\ necessaryPeer \in [Peer -> Addr \cup {Unset}] /\ actuators \in [Peer -> Act \cup {Unset}]
          /\ loop \in [LoopId -> LoopStates] /\ run \in [Act -> RunStates]
          /\ pid \in [Act -> Peer \cup {Nobody}] /\ addr \in [Act -> Addr \cup {Unset}]
          /\ tries \in [Act -> Nat]
      BY DEF Init, LoopStates, RunStates
    <2>2. /\ giveUp \in [Act -> BOOLEAN] /\ finished \in [Act -> BOOLEAN]
          /\ spawned \in [Act -> BOOLEAN]
      BY DEF Init
    <2>3. /\ allConnected \in BOOLEAN /\ signal \in BOOLEAN
          /\ closed \in BOOLEAN /\ running \in BOOLEAN /\ starting \in BOOLEAN
      BY DEF Init
    <2>4. /\ starts \in 0 .. MaxStarts /\ currentConnected \in 0 .. Cardinality(Peer)
          /\ ups \in 0 .. MaxUps /\ calls \in 0 .. Calls
          /\ todo \in SUBSET Peer /\ connected \in SUBSET Peer /\ notice \in SUBSET Peer
      BY <1>0, BoundAssumption DEF Init
    <2>5. QED
      BY <2>1, <2>2, <2>3, <2>4 DEF TypeOK
  <1>2. ActPart
    BY TryPositive DEF Init, ActPart, Owned, ActSound, InMap, Dialling
  <1>3. CheckPart
    BY DEF Init, CheckPart, Idle, Found, Unlocked, AllConnectedSound, Configured, LoopStates
  <1>4. QED
    BY <1>1, <1>2, <1>3 DEF SupInv

-----------------------------------------------------------------------------
(* The actuators *)

\* The map loses actuators or keeps them.
Shrinks == \A p \in Peer : actuators'[p] \in {actuators[p], Unset}

LEMMA InMapShrinks ==
  ASSUME Shrinks, NEW a \in Act, InMap(a)'
  PROVE  InMap(a)
  BY AddrAssumption DEF Shrinks, InMap

\* An actuator whose fields do not change.
LEMMA ActFrame ==
  ASSUME Shrinks, NEW a \in Act, ActSound(a),
         tries'[a] = tries[a], giveUp'[a] = giveUp[a], finished'[a] = finished[a],
         run'[a] = run[a]
  PROVE  ActSound(a)'
  BY InMapShrinks DEF ActSound

\* A step of the Run of one actuator.
LEMMA OneRuns ==
  ASSUME ActPart, NEW a \in Act, ActSound(a)', UNCHANGED <<actuators, pid>>,
         \A b \in Act \ {a} : /\ tries'[b] = tries[b] /\ giveUp'[b] = giveUp[b]
                              /\ finished'[b] = finished[b] /\ run'[b] = run[b]
  PROVE  ActPart'
  <1>1. Shrinks
    BY DEF Shrinks
  <1>2. ASSUME NEW b \in Act PROVE ActSound(b)'
    <2>1. CASE b = a
      BY <2>1
    <2>2. CASE b # a
      BY <1>1, <2>2, ActFrame DEF ActPart
    <2>3. QED
      BY <2>1, <2>2
  <1>3. Owned'
    BY DEF ActPart, Owned
  <1>4. QED
    BY <1>2, <1>3 DEF ActPart

LEMMA BrokenSound ==
  ASSUME TypeOK, ActPart, NEW a \in Act, run[a] \in Dialling, Broken(a),
         UNCHANGED <<actuators, pid>>
  PROVE  ActPart'
  <1>1. /\ ActSound(a) /\ tries[a] \in Nat /\ tryTimes \in Nat
        /\ run \in [Act -> RunStates] /\ finished \in [Act -> BOOLEAN]
    BY TryPositive DEF ActPart, TypeOK
  <1>2. ~giveUp[a]
    BY <1>1 DEF ActSound, Dialling
  <1>3. /\ run'[a] = "exiting" /\ tries' = tries /\ giveUp' = giveUp
        /\ finished'[a] = (finished[a] \/ ~closed)
        /\ \A b \in Act \ {a} : finished'[b] = finished[b] /\ run'[b] = run[b]
    BY <1>1 DEF Broken
  <1>4. ActSound(a)'
    BY <1>1, <1>2, <1>3 DEF ActSound, Dialling
  <1>5. QED
    BY <1>3, <1>4, OneRuns

LEMMA RunSound ==
  ASSUME TypeOK, ActPart, NEW a \in Act, RunEnter(a) \/ RunStep(a) \/ RunDialed(a)
  PROVE  ActPart'
  <1>0. /\ ActSound(a) /\ tries \in [Act -> Nat] /\ tryTimes \in Nat \ {0}
        /\ run \in [Act -> RunStates] /\ finished \in [Act -> BOOLEAN] /\ giveUp \in [Act -> BOOLEAN]
    BY TryPositive DEF ActPart, TypeOK
  <1>00. UNCHANGED <<actuators, pid>>
    BY DEF RunEnter, RunStep, RunTop, RunDialed, RunWake, RunExit, peerVars
  <1>1. CASE RunEnter(a)
    <2>1. /\ UNCHANGED <<tries, giveUp, finished>>
          /\ run'[a] = IF run[a] # "none" THEN run[a]
                       ELSE IF giveUp[a] \/ finished[a] THEN "exiting" ELSE "top"
          /\ \A b \in Act \ {a} : run'[b] = run[b]
      BY <1>0, <1>1 DEF RunEnter
    <2>2. ActSound(a)'
      BY <1>0, <1>00, <2>1 DEF ActSound, Dialling, InMap
    <2>3. QED
      BY <1>00, <2>1, <2>2, OneRuns
  <1>2. CASE RunTop(a)
    <2>1. CASE BreakCheck(a)
      BY <1>00, <1>2, <2>1, BrokenSound DEF RunTop, Dialling
    <2>2. CASE ~BreakCheck(a)
      <3>1. /\ UNCHANGED <<tries, giveUp, finished>> /\ run[a] = "top" /\ run'[a] = "dialing"
            /\ \A b \in Act \ {a} : run'[b] = run[b]
        BY <1>0, <1>2, <2>2 DEF RunTop
      <3>2. ActSound(a)'
        BY <1>0, <1>00, <3>1 DEF ActSound, Dialling, InMap
      <3>3. QED
        BY <1>00, <3>1, <3>2, OneRuns
    <2>3. QED
      BY <2>1, <2>2
  <1>3. CASE RunWake(a)
    <2>1. /\ UNCHANGED <<tries, giveUp, finished>> /\ run[a] = "sleep" /\ run'[a] = "top"
          /\ \A b \in Act \ {a} : run'[b] = run[b]
      BY <1>0, <1>3 DEF RunWake
    <2>2. ActSound(a)'
      BY <1>0, <1>00, <2>1 DEF ActSound, Dialling, InMap
    <2>3. QED
      BY <1>00, <2>1, <2>2, OneRuns
  <1>4. CASE RunExit(a)
    <2>1. /\ UNCHANGED <<tries, giveUp, finished>> /\ run[a] = "exiting" /\ run'[a] = "none"
          /\ \A b \in Act \ {a} : run'[b] = run[b]
      BY <1>0, <1>4 DEF RunExit
    <2>2. ActSound(a)'
      BY <1>0, <1>00, <2>1 DEF ActSound, Dialling, InMap
    <2>3. QED
      BY <1>00, <2>1, <2>2, OneRuns
  <1>5. CASE RunDialed(a)
    <2>0. run[a] = "dialing" /\ ~giveUp[a] /\ (InMap(a) => ~finished[a])
      BY <1>0, <1>5 DEF RunDialed, ActSound, Dialling
    <2>1. CASE BreakCheck(a)
      BY <1>00, <1>5, <2>0, <2>1, BrokenSound DEF RunDialed, Dialling
    <2>2. CASE DialFailed(a) /\ UNCHANGED finished
      <3>0. /\ tries'[a] = IF tries[a] >= tryTimes THEN tries[a] ELSE tries[a] + 1
            /\ \A b \in Act \ {a} : tries'[b] = tries[b]
            /\ tries[a] \in Nat /\ tries[a] <= tryTimes
            /\ ~finished[a] => tries[a] < tryTimes
        BY <1>0, <2>0, <2>2 DEF DialFailed, CountAttempt, ActSound
      <3>1. CASE finished[a]
        <4>1. /\ UNCHANGED <<giveUp, finished>> /\ run'[a] = "top" /\ tries'[a] <= tryTimes
              /\ \A b \in Act \ {a} : run'[b] = run[b] /\ tries'[b] = tries[b]
          BY <1>0, <2>2, <3>0, <3>1 DEF DialFailed
        <4>2. ActSound(a)'
          BY <1>0, <1>00, <2>0, <3>1, <4>1 DEF ActSound, Dialling, InMap
        <4>3. QED
          BY <1>00, <4>1, <4>2, OneRuns
      <3>2. CASE ~finished[a] /\ tries[a] + 1 >= tryTimes
        <4>1. /\ UNCHANGED finished /\ run'[a] = "exiting" /\ tries'[a] = tries[a] + 1
              /\ giveUp'[a] = TRUE
              /\ \A b \in Act \ {a} : /\ run'[b] = run[b] /\ tries'[b] = tries[b]
                                      /\ giveUp'[b] = giveUp[b]
          BY <1>0, <2>2, <3>0, <3>2 DEF DialFailed
        <4>2. tries[a] < tryTimes
          BY <1>0, <2>0, <3>2 DEF ActSound
        <4>3. ActSound(a)'
          BY <1>0, <1>00, <2>0, <3>2, <4>1, <4>2 DEF ActSound, Dialling, InMap
        <4>4. QED
          BY <1>00, <4>1, <4>3, OneRuns
      <3>3. CASE ~finished[a] /\ ~(tries[a] + 1 >= tryTimes)
        <4>1. /\ UNCHANGED <<finished, giveUp>> /\ run'[a] = "sleep" /\ tries'[a] = tries[a] + 1
              /\ \A b \in Act \ {a} : run'[b] = run[b] /\ tries'[b] = tries[b]
          BY <1>0, <2>2, <3>0, <3>3 DEF DialFailed
        <4>2. tries[a] + 1 < tryTimes
          BY <1>0, <3>3
        <4>3. ActSound(a)'
          BY <1>0, <1>00, <2>0, <3>3, <4>1, <4>2 DEF ActSound, Dialling, InMap
        <4>4. QED
          BY <1>00, <4>1, <4>3, OneRuns
      <3>4. QED
        BY <3>1, <3>2, <3>3
    <2>3. CASE /\ giveUp' = [giveUp EXCEPT ![a] = TRUE]
               /\ run' = [run EXCEPT ![a] = "exiting"]
               /\ UNCHANGED <<tries, finished>>
      <3>1. /\ giveUp'[a] = TRUE /\ run'[a] = "exiting"
            /\ \A b \in Act \ {a} : run'[b] = run[b] /\ giveUp'[b] = giveUp[b]
        BY <1>0, <2>3
      <3>2. ActSound(a)'
        BY <1>0, <1>00, <2>0, <2>3, <3>1 DEF ActSound, Dialling, InMap
      <3>3. QED
        BY <1>00, <2>3, <3>1, <3>2, OneRuns
    <2>4. CASE /\ finished' = [finished EXCEPT ![a] = TRUE]
               /\ run' = [run EXCEPT ![a] = "exiting"]
               /\ UNCHANGED <<tries, giveUp>>
      <3>1. /\ finished'[a] = TRUE /\ run'[a] = "exiting"
            /\ \A b \in Act \ {a} : run'[b] = run[b] /\ finished'[b] = finished[b]
        BY <1>0, <2>4
      <3>2. ActSound(a)'
        BY <1>0, <1>00, <2>0, <2>4, <3>1 DEF ActSound, Dialling, InMap
      <3>3. QED
        BY <1>00, <2>4, <3>1, <3>2, OneRuns
    <2>5. QED
      BY <1>5, <2>1, <2>2, <2>3, <2>4 DEF RunDialed
  <1>6. QED
    BY <1>1, <1>2, <1>3, <1>4, <1>5 DEF RunStep

\* checkConn finds a peer connected: its actuator is finished and leaves the
\* map, where it was for this peer only.
LEMMA CheckConnectedSound ==
  ASSUME TypeOK, ActPart, NEW i \in LoopId, NEW p \in Peer, CheckConnected(i, p)
  PROVE  ActPart'
  <1>0. /\ actuators \in [Peer -> Act \cup {Unset}] /\ finished \in [Act -> BOOLEAN]
        /\ UNCHANGED <<pid, tries, giveUp, run>> /\ Unset \notin Act
    BY AddrAssumption DEF TypeOK, CheckConnected
  <1>1. Shrinks
    BY <1>0 DEF CheckConnected, Shrinks
  <1>2. Owned'
    BY <1>0, <1>1 DEF ActPart, Owned, Shrinks
  <1>3. ASSUME NEW b \in Act PROVE ActSound(b)'
    <2>1. CASE b = actuators[p]
      <3>1. finished'[b] = TRUE /\ actuators' = [actuators EXCEPT ![p] = Unset]
        BY <1>0, <2>1 DEF CheckConnected
      <3>2. ~InMap(b)'
        <4> SUFFICES ASSUME NEW q \in Peer, actuators'[q] = b PROVE FALSE
          BY DEF InMap
        <4>1. q # p /\ actuators[q] = b
          BY <1>0, <3>1
        <4>2. pid[b] = q /\ pid[b] = p
          BY <1>0, <2>1, <4>1 DEF ActPart, Owned
        <4>3. QED
          BY <4>1, <4>2
      <3>3. ActSound(b)
        BY DEF ActPart
      <3>4. QED
        BY <1>0, <3>1, <3>2, <3>3 DEF ActSound
    <2>2. CASE b # actuators[p]
      <3>1. finished'[b] = finished[b]
        BY <1>0, <2>2 DEF CheckConnected
      <3>2. QED
        BY <1>0, <1>1, <3>1, ActFrame DEF ActPart
    <2>3. QED
      BY <2>1, <2>2
  <1>4. QED
    BY <1>2, <1>3 DEF ActPart

\* checkConn finds a peer missing: a new actuator, or the old one, which has
\* all its attempts again if it had finished.
LEMMA CheckMissingSound ==
  ASSUME TypeOK, ActPart, NEW i \in LoopId, NEW p \in Peer, CheckMissing(i, p)
  PROVE  ActPart'
  <1>0. /\ actuators \in [Peer -> Act \cup {Unset}] /\ finished \in [Act -> BOOLEAN]
        /\ giveUp \in [Act -> BOOLEAN] /\ tries \in [Act -> Nat]
        /\ pid \in [Act -> Peer \cup {Nobody}]
        /\ UNCHANGED run /\ Unset \notin Act /\ tryTimes \in Nat \ {0}
    BY AddrAssumption, TryPositive DEF TypeOK, CheckMissing
  <1>1. CASE actuators[p] = Unset
    <2> DEFINE a == Min(Garbage)
    <2>1. a \in Garbage
      BY <1>1, GarbagePick DEF CheckMissing
    <2>2. a \in Act /\ ~InMap(a) /\ run[a] = "none"
      BY <2>1 DEF Garbage
    <2>3. newDialActuator(p, a)
      BY <1>1 DEF CheckMissing
    <2> HIDE DEF a
    <2>4. /\ actuators' = [actuators EXCEPT ![p] = a] /\ pid' = [pid EXCEPT ![a] = p]
          /\ tries'[a] = 0 /\ giveUp'[a] = FALSE /\ finished'[a] = FALSE
          /\ \A b \in Act \ {a} : /\ tries'[b] = tries[b] /\ giveUp'[b] = giveUp[b]
                                  /\ finished'[b] = finished[b]
      BY <1>0, <2>2, <2>3 DEF newDialActuator
    <2>5. Owned'
      <3> SUFFICES ASSUME NEW q \in Peer, actuators'[q] # Unset PROVE pid'[actuators'[q]] = q
        BY DEF Owned
      <3>1. CASE q = p
        BY <1>0, <2>2, <2>4, <3>1
      <3>2. CASE q # p
        <4>1. actuators'[q] = actuators[q] /\ actuators[q] \in Act /\ actuators[q] # a
          BY <1>0, <2>2, <2>4, <3>2 DEF InMap
        <4>2. pid'[actuators[q]] = pid[actuators[q]]
          BY <1>0, <2>4, <4>1
        <4>3. QED
          BY <4>1, <4>2 DEF ActPart, Owned
      <3>3. QED
        BY <3>1, <3>2
    <2>6. ASSUME NEW b \in Act PROVE ActSound(b)'
      <3>1. CASE b = a
        BY <1>0, <2>2, <2>4, <3>1 DEF ActSound
      <3>2. CASE b # a
        <4>1. InMap(b)' => InMap(b)
          BY <1>0, <2>4, <3>2 DEF InMap
        <4>2. ActSound(b)
          BY DEF ActPart
        <4>3. QED
          BY <1>0, <2>4, <3>2, <4>1, <4>2 DEF ActSound
      <3>3. QED
        BY <3>1, <3>2
    <2>7. QED
      BY <2>5, <2>6 DEF ActPart
  <1>2. CASE actuators[p] # Unset
    <2>0. PICK a \in Act : a = actuators[p]
      BY <1>0, <1>2
    <2>1. a \in Act /\ InMap(a) /\ UNCHANGED <<actuators, pid, giveUp>> /\ ActSound(a)
      BY <1>0, <1>2, <2>0 DEF CheckMissing, InMap, ActPart
    <2>2. CASE giveUp[a]
      <3>1. UNCHANGED <<tries, finished>>
        BY <1>2, <2>0, <2>2 DEF CheckMissing
      <3>2. ActSound(a)'
        BY <1>0, <2>1, <3>1 DEF ActSound, InMap
      <3>3. QED
        BY <1>0, <2>1, <3>1, <3>2, OneRuns
    <2>3. CASE ~giveUp[a]
      <3>1. /\ tries' = [tries EXCEPT ![a] = IF finished[a] THEN 0 ELSE @]
            /\ finished' = [finished EXCEPT ![a] = FALSE]
        BY <1>2, <2>0, <2>3 DEF CheckMissing
      <3>2. /\ tries'[a] = IF finished[a] THEN 0 ELSE tries[a]
            /\ finished'[a] = FALSE
            /\ \A b \in Act \ {a} : tries'[b] = tries[b] /\ finished'[b] = finished[b]
        BY <1>0, <2>1, <3>1
      <3>3. ActSound(a)'
        BY <1>0, <2>1, <2>3, <3>2 DEF ActSound, InMap
      <3>4. QED
        BY <1>0, <2>1, <3>2, <3>3, OneRuns
    <2>4. QED
      BY <2>2, <2>3
  <1>3. QED
    BY <1>1, <1>2

\* Steps that leave the actuators alone, up to removing one from the map.
LEMMA OthersSound ==
  ASSUME TypeOK, ActPart, Shrinks, UNCHANGED <<pid, tries, giveUp, finished, run>>
  PROVE  ActPart'
  <1>1. \A b \in Act : ActSound(b)'
    BY ActFrame DEF ActPart
  <1>2. Owned'
    BY DEF ActPart, Owned, Shrinks
  <1>3. QED
    BY <1>1, <1>2 DEF ActPart

LEMMA ActStep == TypeOK /\ ActPart /\ [Next]_vars => ActPart'
  <1> SUFFICES ASSUME TypeOK, ActPart, [Next]_vars PROVE ActPart'
    OBVIOUS
  <1>1. ASSUME UNCHANGED <<actuators, actVars>> PROVE ActPart'
    <2>1. Shrinks
      BY <1>1 DEF Shrinks
    <2>2. QED
      BY <1>1, <2>1, OthersSound DEF actVars
  <1>2. CASE UNCHANGED vars
    BY <1>1, <1>2 DEF vars, peerVars
  <1>3. CASE Start \/ StartSignal \/ Stop \/ RemoveAllPeer
    BY <1>1, <1>3 DEF Start, StartSignal, Stop, RemoveAllPeer, peerVars
  <1>4. ASSUME NEW i \in LoopId, LoopTick(i) \/ LoopStep(i) \/ checkConn(i) \/ CheckEnd(i)
        PROVE  ActPart'
    BY <1>1, <1>4 DEF LoopTick, LoopStep, LoopExit, LoopSignal, checkConn, CheckEnd, peerVars
  <1>5. ASSUME NEW p \in Peer, NEW d \in Addr, SetPeerAddr(p, d) PROVE ActPart'
    BY <1>1, <1>5 DEF SetPeerAddr
  <1>6. ASSUME NEW p \in Peer, NoticePeerDisconnected(p) \/ PeerConnects(p) \/ PeerDisconnects(p)
        PROVE  ActPart'
    BY <1>1, <1>6 DEF NoticePeerDisconnected, PeerConnects, PeerDisconnects, peerVars
  <1>7. ASSUME NEW p \in Peer, RemovePeerAddr(p) PROVE ActPart'
    <2>1. Shrinks
      BY <1>7 DEF RemovePeerAddr, Shrinks, TypeOK
    <2>2. QED
      BY <1>7, <2>1, OthersSound DEF RemovePeerAddr, actVars
  <1>8. QED
    BY <1>2, <1>3, <1>4, <1>5, <1>6, <1>7, RunSound, CheckConnectedSound, CheckMissingSound
    DEF Next, CheckStep

-----------------------------------------------------------------------------
(* The types *)

\* A peer still to be looked at is not among those counted.
LEMMA CountOneMore ==
  ASSUME NEW S \in SUBSET Peer, NEW p \in Peer, p \notin S
  PROVE  /\ Cardinality(S \cup {p}) = Cardinality(S) + 1 /\ Cardinality(S) \in Nat
         /\ Cardinality(S) + 1 <= Cardinality(Peer) /\ Cardinality(Peer) \in Nat
  <1>1. IsFiniteSet(S) /\ Cardinality(S) \in Nat /\ Cardinality(Peer) \in Nat
    BY PeerAssumption, FS_Subset, FS_CardinalityType
  <1>2. Cardinality(S \cup {p}) = Cardinality(S) + 1
    BY <1>1, FS_AddElement
  <1>3. Cardinality(S \cup {p}) <= Cardinality(Peer)
    BY PeerAssumption, FS_Subset
  <1>4. QED
    BY <1>1, <1>2, <1>3

LEMMA TypeStep == SupInv /\ [Next]_vars => TypeOK'
  <1> SUFFICES ASSUME SupInv, [Next]_vars PROVE TypeOK'
    OBVIOUS
  <1>0. TypeOK /\ Cardinality(Peer) \in Nat /\ Unset \notin Act
    BY PeerAssumption, FS_CardinalityType, AddrAssumption DEF SupInv
  <1>1. CASE UNCHANGED vars
    BY <1>0, <1>1 DEF TypeOK, vars, peerVars, loopVars, actVars, envVars
  <1>2. CASE Start
    <2>1. starts + 1 \in LoopId /\ starts + 1 \in 0 .. MaxStarts
      BY <1>0, <1>2, BoundAssumption DEF Start, TypeOK, LoopId
    <2>2. loop' \in [LoopId -> LoopStates]
      BY <1>0, <1>2, <2>1 DEF Start, TypeOK, LoopStates
    <2>3. QED
      BY <1>0, <1>2, <2>1, <2>2 DEF Start, TypeOK, peerVars, actVars
  <1>3. CASE StartSignal
    BY <1>0, <1>3 DEF StartSignal, TypeOK, peerVars, actVars, envVars
  <1>4. CASE Stop
    <2>1. loop' \in [LoopId -> LoopStates]
      BY <1>0, <1>4 DEF Stop, TypeOK, LoopStates
    <2>2. QED
      BY <1>0, <1>4, <2>1 DEF Stop, TypeOK, peerVars, actVars, envVars
  <1>5. ASSUME NEW i \in LoopId, LoopTick(i) PROVE TypeOK'
    BY <1>0, <1>5 DEF LoopTick, TypeOK, peerVars, loopVars, actVars, envVars
  <1>6. ASSUME NEW i \in LoopId, LoopStep(i) PROVE TypeOK'
    <2>1. loop' \in [LoopId -> LoopStates] /\ signal' \in BOOLEAN
      BY <1>0, <1>6 DEF LoopStep, LoopExit, LoopSignal, TypeOK, LoopStates
    <2>2. QED
      BY <1>0, <1>6, <2>1 DEF LoopStep, LoopExit, LoopSignal, TypeOK, peerVars, actVars, envVars
  <1>7. ASSUME NEW i \in LoopId, checkConn(i) PROVE TypeOK'
    <2>1. loop' \in [LoopId -> LoopStates]
      BY <1>0, <1>7 DEF checkConn, TypeOK, LoopStates, Selecting
    <2>2. todo' \in SUBSET Peer /\ currentConnected' \in 0 .. Cardinality(Peer)
      BY <1>0, <1>7 DEF checkConn, TypeOK, Necessary
    <2>3. QED
      BY <1>0, <1>7, <2>1, <2>2 DEF checkConn, TypeOK, peerVars, actVars, envVars
  <1>8. ASSUME NEW i \in LoopId, CheckEnd(i) PROVE TypeOK'
    <2>1. loop' \in [LoopId -> LoopStates]
      BY <1>0, <1>8 DEF CheckEnd, TypeOK, LoopStates, Selecting
    <2>2. allConnected' \in BOOLEAN
      BY <1>8 DEF CheckEnd
    <2>3. QED
      BY <1>0, <1>8, <2>1, <2>2 DEF CheckEnd, TypeOK, actVars, envVars
  <1>9. ASSUME NEW i \in LoopId, NEW p \in Peer, CheckConnected(i, p) PROVE TypeOK'
    <2>1. PICK S \in SUBSET Peer : S \subseteq Peer \ todo /\ Cardinality(S) = currentConnected
      BY <1>9 DEF CheckConnected, SupInv, CheckPart, Found, Counted, Unlocked
    <2>2. p \notin S /\ todo' \in SUBSET Peer
      BY <1>0, <1>9, <2>1 DEF CheckConnected, TypeOK
    <2>3. currentConnected' \in 0 .. Cardinality(Peer)
      <3>1. /\ Cardinality(S) \in Nat /\ Cardinality(S) + 1 <= Cardinality(Peer)
        BY <2>2, CountOneMore
      <3>2. currentConnected' = Cardinality(S) + 1
        BY <1>9, <2>1 DEF CheckConnected
      <3>3. QED
        BY <1>0, <3>1, <3>2
    <2>4. actuators' \in [Peer -> Act \cup {Unset}] /\ finished' \in [Act -> BOOLEAN]
      BY <1>0, <1>9 DEF CheckConnected, TypeOK
    <2>5. QED
      BY <1>0, <1>9, <2>2, <2>3, <2>4 DEF CheckConnected, TypeOK, envVars
  <1>10. ASSUME NEW i \in LoopId, NEW p \in Peer, CheckMissing(i, p) PROVE TypeOK'
    <2>1. /\ allConnected' \in BOOLEAN /\ todo' \in SUBSET Peer
          /\ UNCHANGED <<necessaryPeer, signal, closed, running, starting, starts, loop,
                         currentConnected, run, connected, notice, ups, calls>>
      BY <1>0, <1>10 DEF CheckMissing, TypeOK, envVars
    <2>2. /\ actuators' \in [Peer -> Act \cup {Unset}] /\ pid' \in [Act -> Peer \cup {Nobody}]
          /\ addr' \in [Act -> Addr \cup {Unset}] /\ tries' \in [Act -> Nat]
          /\ giveUp' \in [Act -> BOOLEAN] /\ finished' \in [Act -> BOOLEAN]
          /\ spawned' \in [Act -> BOOLEAN]
      <3>1. CASE actuators[p] = Unset
        <4>1. Min(Garbage) \in Act
          BY <1>10, <3>1, GarbagePick DEF CheckMissing, Garbage
        <4>2. /\ newDialActuator(p, Min(Garbage))
              /\ spawned' = [spawned EXCEPT ![Min(Garbage)] = TRUE]
          BY <1>10, <3>1 DEF CheckMissing
        <4>3. QED
          BY <1>0, <4>1, <4>2 DEF newDialActuator, TypeOK
      <3>2. CASE actuators[p] # Unset
        <4>1. actuators[p] \in Act /\ UNCHANGED <<actuators, pid, addr, giveUp>>
          BY <1>0, <1>10, <3>2 DEF CheckMissing, TypeOK
        <4>2. tries' \in [Act -> Nat]
          <5>1. \/ UNCHANGED tries
                \/ tries' = [tries EXCEPT ![actuators[p]] = IF finished[actuators[p]] THEN 0 ELSE @]
            BY <1>10, <3>2 DEF CheckMissing
          <5>2. QED
            BY <1>0, <5>1 DEF TypeOK
        <4>3. finished' \in [Act -> BOOLEAN] /\ spawned' \in [Act -> BOOLEAN]
          <5>1. \/ UNCHANGED <<finished, spawned>>
                \/ /\ finished' = [finished EXCEPT ![actuators[p]] = FALSE]
                   /\ spawned' = [spawned EXCEPT ![actuators[p]] = TRUE]
            BY <1>10, <3>2 DEF CheckMissing
          <5>2. QED
            BY <1>0, <5>1 DEF TypeOK
        <4>4. QED
          BY <1>0, <4>1, <4>2, <4>3 DEF TypeOK
      <3>3. QED
        BY <3>1, <3>2
    <2>3. QED
      BY <1>0, <2>1, <2>2 DEF TypeOK
  <1>11. ASSUME NEW p \in Peer, NEW d \in Addr, SetPeerAddr(p, d) PROVE TypeOK'
    <2>1. calls' \in 0 .. Calls
      BY <1>0, <1>11, BoundAssumption DEF SetPeerAddr, CountCall, TypeOK
    <2>2. QED
      BY <1>0, <1>11, <2>1 DEF SetPeerAddr, TypeOK, loopVars, actVars
  <1>12. ASSUME NEW p \in Peer, RemovePeerAddr(p) PROVE TypeOK'
    <2>1. calls' \in 0 .. Calls
      BY <1>0, <1>12, BoundAssumption DEF RemovePeerAddr, CountCall, TypeOK
    <2>2. QED
      BY <1>0, <1>12, <2>1 DEF RemovePeerAddr, TypeOK, loopVars, actVars
  <1>13. CASE RemoveAllPeer
    <2>1. calls' \in 0 .. Calls
      BY <1>0, <1>13, BoundAssumption DEF RemoveAllPeer, CountCall, TypeOK
    <2>2. QED
      BY <1>0, <1>13, <2>1 DEF RemoveAllPeer, TypeOK, loopVars, actVars
  <1>14. ASSUME NEW p \in Peer, NoticePeerDisconnected(p) PROVE TypeOK'
    <2>1. allConnected' \in BOOLEAN /\ signal' \in BOOLEAN
      BY <1>0, <1>14 DEF NoticePeerDisconnected, TypeOK
    <2>2. QED
      BY <1>0, <1>14, <2>1 DEF NoticePeerDisconnected, TypeOK, loopVars, actVars
  <1>15. ASSUME NEW p \in Peer, PeerConnects(p) \/ PeerDisconnects(p) PROVE TypeOK'
    BY <1>0, <1>15, BoundAssumption
    DEF PeerConnects, PeerDisconnects, TypeOK, peerVars, loopVars, actVars
  <1>16. ASSUME NEW a \in Act, RunEnter(a) PROVE TypeOK'
    <2>1. run' \in [Act -> RunStates] /\ spawned' \in [Act -> BOOLEAN]
      BY <1>0, <1>16 DEF RunEnter, TypeOK, RunStates
    <2>2. QED
      BY <1>0, <1>16, <2>1 DEF RunEnter, TypeOK, peerVars, loopVars, envVars
  <1>17. ASSUME NEW a \in Act, RunStep(a) \/ RunDialed(a) PROVE TypeOK'
    <2>1. /\ run' \in [Act -> RunStates] /\ tries' \in [Act -> Nat]
          /\ giveUp' \in [Act -> BOOLEAN] /\ finished' \in [Act -> BOOLEAN]
      <3>1. CASE RunTop(a)
        BY <1>0, <3>1 DEF RunTop, Broken, TypeOK, RunStates
      <3>2. CASE RunDialed(a)
        <4>1. CASE Broken(a)
          BY <1>0, <4>1 DEF Broken, TypeOK, RunStates
        <4>2. CASE DialFailed(a) /\ UNCHANGED finished
          <5>1. tries' \in [Act -> Nat]
            BY <1>0, <4>2 DEF DialFailed, CountAttempt, TypeOK
          <5>2. run' \in [Act -> RunStates] /\ giveUp' \in [Act -> BOOLEAN]
            BY <1>0, <4>2 DEF DialFailed, TypeOK, RunStates
          <5>3. QED
            BY <1>0, <4>2, <5>1, <5>2 DEF TypeOK
        <4>3. CASE \/ /\ giveUp' = [giveUp EXCEPT ![a] = TRUE]
                      /\ run' = [run EXCEPT ![a] = "exiting"]
                      /\ UNCHANGED <<tries, finished>>
                   \/ /\ finished' = [finished EXCEPT ![a] = TRUE]
                      /\ run' = [run EXCEPT ![a] = "exiting"]
                      /\ UNCHANGED <<tries, giveUp>>
          BY <1>0, <4>3 DEF TypeOK, RunStates
        <4>4. QED
          BY <3>2, <4>1, <4>2, <4>3 DEF RunDialed
      <3>3. CASE RunWake(a) \/ RunExit(a)
        BY <1>0, <3>3 DEF RunWake, RunExit, TypeOK, RunStates
      <3>4. QED
        BY <1>17, <3>1, <3>2, <3>3 DEF RunStep
    <2>2. UNCHANGED <<peerVars, signal, loopVars, pid, addr, spawned, envVars>>
      BY <1>17 DEF RunStep, RunTop, RunDialed, RunWake, RunExit
    <2>3. QED
      BY <1>0, <2>1, <2>2 DEF TypeOK, peerVars, loopVars, envVars
  <1>18. QED
    BY <1>1, <1>2, <1>3, <1>4, <1>5, <1>6, <1>7, <1>8, <1>9, <1>10, <1>11, <1>12, <1>13,
       <1>14, <1>15, <1>16, <1>17
    DEF Next, CheckStep

-----------------------------------------------------------------------------
(* checkConn *)

\* A loop that is running moves, and does not enter checkConn's body.
LEMMA LoopMoves ==
  ASSUME TypeOK, CheckPart, NEW i \in LoopId, NEW x \in LoopStates, x # "check", loop[i] # "off",
         loop' = [loop EXCEPT ![i] = x],
         UNCHANGED <<necessaryPeer, allConnected, running, starts, todo, currentConnected,
                     connected, notice, calls>>
  PROVE  CheckPart'
  <1>1. \A j \in LoopId : loop'[j] = "check" => loop[j] = "check"
    BY DEF TypeOK
  <1>2. ~Unlocked' => ~Unlocked
    BY <1>1 DEF Unlocked
  <1>3. Found'
    BY <1>2 DEF CheckPart, Found, Counted, Live, Necessary
  <1>4. Idle'
    BY DEF CheckPart, Idle
  <1>5. AllConnectedSound'
    BY DEF CheckPart, AllConnectedSound, Configured, Necessary
  <1>6. QED
    BY <1>3, <1>4, <1>5 DEF CheckPart

\* The calls that change the necessary peers wait for the lock, and once the
\* supervisor runs they end what Live describes.
LEMMA PeersChange ==
  ASSUME TypeOK, CheckPart, Unlocked, CountCall,
         UNCHANGED <<allConnected, running, starts, loop>>
  PROVE  CheckPart'
  <1>1. Found'
    BY DEF Found, Unlocked
  <1>2. Idle'
    BY DEF CheckPart, Idle, CountCall
  <1>3. ~Live'
    <2>1. calls \in Nat
      BY BoundAssumption DEF TypeOK
    <2>2. QED
      BY <2>1 DEF Live, CountCall
  <1>4. AllConnectedSound'
    BY <1>3 DEF AllConnectedSound, Configured, Live
  <1>5. QED
    BY <1>1, <1>2, <1>4 DEF CheckPart

\* The loop is over: everything was counted, so everything is connected, or
\* its notice is waiting.
LEMMA CheckEndSound ==
  ASSUME TypeOK, CheckPart, NEW i \in LoopId, CheckEnd(i)
  PROVE  CheckPart'
  <1>0. /\ loop[i] = "check" /\ loop' = [loop EXCEPT ![i] = Selecting]
        /\ UNCHANGED <<necessaryPeer, running, starts, todo, currentConnected,
                       connected, notice, calls>>
        /\ allConnected' = (allConnected \/ currentConnected = Cardinality(Necessary))
    BY DEF CheckEnd, envVars
  <1>1. ~Unlocked
    BY <1>0 DEF Unlocked
  <1>2. Found'
    <2>1. Found
      BY DEF CheckPart
    <2>2. QED
      BY <1>0, <1>1, <2>1 DEF Found, Counted, Live, Necessary
  <1>3. starts # 0
    BY <1>0 DEF CheckPart, Idle
  <1>4. Idle'
    BY <1>0, <1>3 DEF Idle
  <1>5. ASSUME Live, currentConnected = Cardinality(Necessary)
        PROVE  Necessary \subseteq connected \cup notice
    <2>1. PICK S \in SUBSET Peer : Counted(S)
      BY <1>1 DEF CheckPart, Found
    <2>2. /\ S \subseteq Necessary /\ S \subseteq connected \cup notice
          /\ Cardinality(S) = Cardinality(Necessary)
      BY <1>5, <2>1 DEF Counted
    <2>3. IsFiniteSet(Necessary)
      BY PeerAssumption, FS_Subset DEF Necessary
    <2>4. S = Necessary
      BY <2>2, <2>3, FS_Subset
    <2>5. QED
      BY <2>2, <2>4
  <1>6. AllConnectedSound'
    <2> SUFFICES ASSUME Live', allConnected' PROVE (Necessary \subseteq connected \cup notice)'
      BY DEF AllConnectedSound, Configured, Live
    <2>1. Live
      BY <1>0 DEF Live
    <2>2. Necessary \subseteq connected \cup notice
      BY <1>0, <1>5, <2>1 DEF CheckPart, AllConnectedSound, Configured, Live
    <2>3. QED
      BY <1>0, <2>2 DEF Necessary
  <1>7. QED
    BY <1>2, <1>4, <1>6 DEF CheckPart

LEMMA CheckConnectedCounts ==
  ASSUME TypeOK, CheckPart, NEW i \in LoopId, NEW p \in Peer, CheckConnected(i, p)
  PROVE  CheckPart'
  <1>0. /\ p \in todo /\ p \in connected /\ todo' = todo \ {p}
        /\ currentConnected' = currentConnected + 1 /\ loop[i] = "check"
        /\ UNCHANGED <<necessaryPeer, allConnected, running, starts, loop, connected, notice, calls>>
    BY DEF CheckConnected, envVars
  <1>1. ~Unlocked
    BY <1>0 DEF Unlocked
  <1>2. PICK S \in SUBSET Peer : Counted(S)
    BY <1>1 DEF CheckPart, Found
  <1>3. Cardinality(S \cup {p}) = Cardinality(S) + 1
    BY <1>0, <1>2, CountOneMore DEF Counted
  <1>4. Live => p \in Necessary /\ todo \subseteq Necessary
    BY <1>0, <1>1 DEF CheckPart, Found
  <1>5. /\ S \cup {p} \subseteq Peer \ todo'
        /\ Cardinality(S \cup {p}) = currentConnected'
    BY <1>0, <1>2, <1>3 DEF Counted
  <1>6. Live => S \cup {p} \subseteq Necessary \cap (connected \cup notice)
    BY <1>0, <1>2, <1>4 DEF Counted
  <1>7. (Live' <=> Live) /\ Necessary' = Necessary
    BY <1>0 DEF Live, Necessary
  <1>8. Counted(S \cup {p})'
    BY <1>0, <1>5, <1>6, <1>7 DEF Counted
  <1>9. Found'
    BY <1>0, <1>4, <1>7, <1>8 DEF Found
  <1>10. Idle' /\ AllConnectedSound'
    BY <1>0 DEF CheckPart, Idle, AllConnectedSound, Configured, Necessary
  <1>11. QED
    BY <1>9, <1>10 DEF CheckPart

LEMMA CheckStepInv == SupInv /\ [Next]_vars => CheckPart'
  <1> SUFFICES ASSUME SupInv, [Next]_vars PROVE CheckPart'
    OBVIOUS
  <1>0. TypeOK /\ CheckPart
    BY DEF SupInv
  <1>1. ASSUME UNCHANGED <<necessaryPeer, allConnected, running, starts, loop, todo,
                           currentConnected, connected, notice, calls>>
        PROVE  CheckPart'
    <2>1. Idle' /\ AllConnectedSound'
      BY <1>0, <1>1 DEF CheckPart, Idle, AllConnectedSound, Configured, Necessary
    <2>2. Found'
      BY <1>0, <1>1 DEF CheckPart, Found, Counted, Live, Necessary, Unlocked
    <2>3. QED
      BY <2>1, <2>2 DEF CheckPart
  <1>2. CASE UNCHANGED vars
    BY <1>1, <1>2 DEF vars, peerVars, loopVars, envVars
  <1>3. CASE Start
    <2>0. /\ starts' = starts + 1 /\ loop' = [loop EXCEPT ![starts + 1] = "select"]
          /\ UNCHANGED <<allConnected, todo, currentConnected>> /\ starts \in Nat
      BY <1>0, <1>3, BoundAssumption DEF Start, TypeOK, peerVars
    <2>1. Live' => starts = 0
      BY <2>0 DEF Live
    <2>2. \A j \in LoopId : loop'[j] = "check" => loop[j] = "check"
      BY <1>0, <2>0 DEF TypeOK
    <2>3. Live' => Unlocked'
      BY <1>0, <2>1, <2>2 DEF CheckPart, Idle, Unlocked
    <2>4. Found'
      <3> SUFFICES ASSUME ~Unlocked' PROVE (\E S \in SUBSET Peer : Counted(S)') /\ ~Live'
        BY DEF Found
      <3>1. ~Live'
        BY <2>3
      <3>2. ~Unlocked
        BY <2>2 DEF Unlocked
      <3>3. QED
        BY <1>0, <2>0, <3>1, <3>2 DEF CheckPart, Found, Counted
    <2>5. Idle'
      BY <2>0 DEF Idle
    <2>6. AllConnectedSound'
      BY <1>0, <2>0, <2>1 DEF CheckPart, Idle, AllConnectedSound, Configured, Live
    <2>7. QED
      BY <2>4, <2>5, <2>6 DEF CheckPart
  <1>4. CASE Stop
    <2>0. /\ running' = FALSE /\ UNCHANGED <<allConnected, starts, todo, currentConnected, calls>>
          /\ loop' = [i \in LoopId |-> IF loop[i] = "select" THEN "closing" ELSE loop[i]]
      BY <1>4 DEF Stop, peerVars, envVars
    <2>1. ~Live'
      BY <2>0 DEF Live
    <2>2. ~Unlocked' => ~Unlocked
      BY <2>0 DEF Unlocked
    <2>3. Found'
      BY <1>0, <2>0, <2>1, <2>2 DEF CheckPart, Found, Counted
    <2>4. Idle'
      BY <1>0, <2>0 DEF CheckPart, Idle
    <2>5. AllConnectedSound'
      BY <2>0 DEF AllConnectedSound
    <2>6. QED
      BY <2>3, <2>4, <2>5 DEF CheckPart
  <1>5. CASE StartSignal
    BY <1>1, <1>5 DEF StartSignal, peerVars, envVars
  <1>6. ASSUME NEW i \in LoopId, LoopTick(i) PROVE CheckPart'
    BY <1>1, <1>6 DEF LoopTick, peerVars, loopVars, envVars
  <1>7. ASSUME NEW i \in LoopId, LoopStep(i) PROVE CheckPart'
    <2>1. CASE LoopExit(i)
      BY <1>0, <2>1, LoopMoves DEF LoopExit, LoopStates, peerVars, envVars
    <2>2. CASE LoopSignal(i)
      BY <1>0, <2>2, LoopMoves DEF LoopSignal, LoopStates, peerVars, envVars
    <2>3. QED
      BY <1>7, <2>1, <2>2 DEF LoopStep
  <1>8. ASSUME NEW i \in LoopId, checkConn(i) PROVE CheckPart'
    <2>0. /\ loop[i] = "lock" /\ Unlocked
          /\ UNCHANGED <<necessaryPeer, allConnected, running, starts, connected, notice, calls>>
      BY <1>8 DEF checkConn, peerVars, envVars
    <2>1. CASE loop' = [loop EXCEPT ![i] = Selecting] /\ UNCHANGED <<todo, currentConnected>>
      <3>1. Selecting \in LoopStates /\ Selecting # "check"
        BY DEF Selecting, LoopStates
      <3>2. PICK x \in LoopStates : x = Selecting
        BY <3>1
      <3>3. QED
        BY <1>0, <2>0, <2>1, <3>1, <3>2, LoopMoves
    <2>2. CASE /\ loop' = [loop EXCEPT ![i] = "check"]
               /\ todo' = Necessary \ {Self} /\ currentConnected' = 0
      <3>1. Counted({})'
        BY <2>2, FS_EmptySet DEF Counted
      <3>2. Found'
        BY <2>0, <2>2, <3>1 DEF Found, Necessary
      <3>3. starts # 0
        BY <1>0, <2>0 DEF CheckPart, Idle
      <3>4. Idle'
        BY <2>0, <3>3 DEF Idle
      <3>5. AllConnectedSound'
        BY <1>0, <2>0 DEF CheckPart, AllConnectedSound, Configured, Necessary
      <3>6. QED
        BY <3>2, <3>4, <3>5 DEF CheckPart
    <2>3. QED
      BY <1>8, <2>1, <2>2 DEF checkConn
  <1>9. ASSUME NEW i \in LoopId, NEW p \in Peer, CheckMissing(i, p) PROVE CheckPart'
    <2>0. /\ p \in todo /\ todo' = todo \ {p} /\ allConnected' = FALSE /\ loop[i] = "check"
          /\ UNCHANGED <<necessaryPeer, running, starts, loop, currentConnected,
                         connected, notice, calls>>
      BY <1>9 DEF CheckMissing, envVars
    <2>1. PICK S \in SUBSET Peer : Counted(S)
      BY <1>0, <2>0 DEF CheckPart, Found, Unlocked
    <2>2. Counted(S)'
      BY <2>0, <2>1 DEF Counted, Live, Necessary
    <2>3. Live => todo \subseteq Necessary
      BY <1>0, <2>0 DEF CheckPart, Found, Unlocked
    <2>4. Found'
      BY <2>0, <2>2, <2>3 DEF Found, Live, Necessary
    <2>5. Idle' /\ AllConnectedSound'
      BY <1>0, <2>0 DEF CheckPart, Idle, AllConnectedSound
    <2>6. QED
      BY <2>4, <2>5 DEF CheckPart
  <1>10. ASSUME NEW p \in Peer, NEW d \in Addr, SetPeerAddr(p, d) PROVE CheckPart'
    BY <1>0, <1>10, PeersChange DEF SetPeerAddr, loopVars
  <1>11. ASSUME NEW p \in Peer, RemovePeerAddr(p) PROVE CheckPart'
    BY <1>0, <1>11, PeersChange DEF RemovePeerAddr, loopVars
  <1>12. CASE RemoveAllPeer
    BY <1>0, <1>12, PeersChange DEF RemoveAllPeer, loopVars
  <1>13. ASSUME NEW p \in Peer, NoticePeerDisconnected(p) PROVE CheckPart'
    <2>0. /\ Unlocked /\ notice' = notice \ {p}
          /\ UNCHANGED <<necessaryPeer, running, starts, loop, connected, calls>>
          /\ IF p \in Necessary THEN allConnected' = FALSE ELSE UNCHANGED allConnected
      BY <1>13 DEF NoticePeerDisconnected, loopVars
    <2>1. Found'
      BY <2>0 DEF Found, Unlocked
    <2>2. Idle'
      BY <1>0, <2>0 DEF CheckPart, Idle
    <2>3. AllConnectedSound'
      BY <1>0, <2>0 DEF CheckPart, AllConnectedSound, Configured, Necessary
    <2>4. QED
      BY <2>1, <2>2, <2>3 DEF CheckPart
  <1>14. ASSUME NEW p \in Peer, PeerConnects(p) \/ PeerDisconnects(p) PROVE CheckPart'
    <2>0. /\ UNCHANGED <<necessaryPeer, allConnected, running, starts, loop, todo,
                         currentConnected, calls>>
          /\ running => connected \cup notice \subseteq connected' \cup notice'
      BY <1>14 DEF PeerConnects, PeerDisconnects, peerVars, loopVars
    <2>1. Idle'
      BY <1>0, <2>0 DEF CheckPart, Idle
    <2>2. AllConnectedSound'
      BY <1>0, <2>0 DEF CheckPart, AllConnectedSound, Configured, Necessary
    <2>3. \A S : Counted(S) => Counted(S)'
      BY <2>0 DEF Counted, Live, Necessary
    <2>4. Found'
      BY <1>0, <2>0, <2>3 DEF CheckPart, Found, Live, Necessary, Unlocked
    <2>5. QED
      BY <2>1, <2>2, <2>4 DEF CheckPart
  <1>15. ASSUME NEW a \in Act, RunEnter(a) \/ RunStep(a) \/ RunDialed(a) PROVE CheckPart'
    BY <1>1, <1>15
    DEF RunEnter, RunStep, RunTop, RunDialed, RunWake, RunExit, peerVars, loopVars, envVars
  <1>16. QED
    BY <1>0, <1>2, <1>3, <1>4, <1>5, <1>6, <1>7, <1>8, <1>9, <1>10, <1>11, <1>12, <1>13,
       <1>14, <1>15, CheckEndSound, CheckConnectedCounts
    DEF Next, CheckStep

-----------------------------------------------------------------------------
LEMMA StepInv == SupInv /\ [Next]_vars => SupInv'
  BY TypeStep, ActStep, CheckStepInv DEF SupInv

LEMMA InvAlways == Spec => []SupInv
  BY InitInv, StepInv, PTL DEF Spec

\* Every variable of the supervisor keeps its type; in particular checkConn
\* never counts more peers than there are.
THEOREM TypeCorrect == Spec => []TypeOK
  <1>1. SupInv => TypeOK
    BY DEF SupInv
  <1>2. QED
    BY InvAlways, <1>1, PTL

\* The index into the Fibonacci numbers is in range: an actuator that nobody
\* has finished makes at most tryTimes attempts between two resets.
THEOREM AttemptsAlwaysBounded == Spec => []AttemptsBounded
  <1>1. SupInv => AttemptsBounded
    <2> SUFFICES ASSUME SupInv, NEW a \in Act,
                        ~finished[a], run[a] \in Dialling
                 PROVE  tries[a] < tryTimes
      BY DEF AttemptsBounded, Dialling
    <2>1. ActSound(a)
      BY DEF SupInv, ActPart
    <2>2. QED
      BY <2>1 DEF ActSound, Dialling
  <1>2. QED
    BY InvAlways, <1>1, PTL

\* Giving up is final: the actuator does not dial, and while it is the
\* actuator of its peer nothing resets it.
THEOREM GivingUpIsFinal == Spec => []GivenUpQuiet
  <1>1. SupInv => GivenUpQuiet
    <2> SUFFICES ASSUME SupInv PROVE GivenUpQuiet
      OBVIOUS
    <2>1. \A a \in Act : ActSound(a)
      BY DEF SupInv, ActPart
    <2>2. \A a \in Act : giveUp[a] => run[a] \in {"none", "exiting"}
      BY <2>1 DEF ActSound
    <2>3. ASSUME NEW p \in Peer, actuators[p] # Unset, giveUp[actuators[p]]
          PROVE  ~finished[actuators[p]]
      <3>1. actuators[p] \in Act /\ InMap(actuators[p])
        BY <2>3 DEF SupInv, TypeOK, InMap
      <3>2. QED
        BY <2>1, <2>3, <3>1 DEF ActSound
    <2>4. QED
      BY <2>2, <2>3 DEF GivenUpQuiet
  <1>2. QED
    BY InvAlways, <1>1, PTL

\* When the supervisor rests because all are connected, they are, or the
\* notice that wakes it up is on its way.
THEOREM RestIsJustified == Spec => []AllConnectedSound
  <1>1. SupInv => AllConnectedSound
    BY DEF SupInv, CheckPart
  <1>2. QED
    BY InvAlways, <1>1, PTL

-----------------------------------------------------------------------------
(* ProtocolExchange *)

\* The two hosts are each other's Other.
LEMMA TwoHosts ==
  ASSUME NEW h \in Host
  PROVE Other(h) \in Host /\ Other(h) # h /\ \A g \in Host : g = h \/ g = Other(h)
  <1>1. IsFiniteSet(Host \ {h}) /\ Cardinality(Host \ {h}) = 1
    <2>1. Cardinality(Host \ {h}) = Cardinality(Host) - 1 /\ IsFiniteSet(Host \ {h})
      BY HostAssumption, FS_RemoveElement
    <2>2. QED
      BY <2>1, HostAssumption
  <1>2. PICK g : Host \ {h} = {g}
    BY <1>1, FS_Singleton
  <1>3. \A f \in Host : f # h <=> f = g
    BY <1>2
  <1>4. g \in Host /\ g # h
    BY <1>2
  <1>5. Other(h) = g
    BY <1>3, <1>4 DEF Other
  <1>6. QED
    BY <1>3, <1>4, <1>5

-----------------------------------------------------------------------------
\* handleNewConnection has a connection it took while it is not idle; one it has
\* done with is served, has been closed, or has been rejected.
Walked ==
  \A h \in Host :
    /\ step[h] = "idle" <=> cur[h] = None
    /\ cur[h] # None => cur[h] \in seen[h]
    /\ \A c \in seen[h] : cur[h] = c \/ c \in served[h] \/ c \in dead \cup rejected[h]

\* A push is due to a change of the handlers or to a connection served.
PushesPaid ==
  \A h \in Host :
    /\ pushes[h] <= ops[h] + Cardinality(seen[h])
    /\ cur[h] # None => pushes[h] < ops[h] + Cardinality(seen[h])

ExchangeTypeInv == ExchangeTypeOK /\ Walked /\ PushesPaid

LEMMA HandlersCounted ==
  ASSUME NEW P \in SUBSET Proto
  PROVE IsFiniteSet(P) /\ Cardinality(P) \in 0 .. Cardinality(Proto)
  <1>1. IsFiniteSet(P) /\ Cardinality(P) <= Cardinality(Proto)
    BY HostAssumption, FS_Subset
  <1>2. Cardinality(P) \in Nat /\ Cardinality(Proto) \in Nat
    BY <1>1, HostAssumption, FS_CardinalityType
  <1>3. QED
    BY <1>1, <1>2

LEMMA SeenCounted ==
  ASSUME NEW C \in SUBSET Conn
  PROVE IsFiniteSet(C) /\ Cardinality(C) \in Nat /\ Cardinality(Conn) \in Nat
          /\ Cardinality(C) <= Cardinality(Conn)
  BY HostAssumption, FS_Subset, FS_CardinalityType

\* What the exchange goroutine of h for c writes, its state and its result
LEMMA ExrUpdate ==
  ASSUME ExchangeTypeOK, NEW h \in Host, NEW c \in Conn,
         NEW e \in {"none", "send", "receive", "ok", "err"}, exr' = [exr EXCEPT ![h][c] = e]
  PROVE /\ exr' \in [Host -> [Conn -> {"none", "send", "receive", "ok", "err"}]]
        /\ exr'[h][c] = e
        /\ \A g \in Host, d \in Conn : g # h \/ d # c => exr'[g][d] = exr[g][d]
  BY DEF ExchangeTypeOK

LEMMA GotUpdate ==
  ASSUME ExchangeTypeOK, NEW h \in Host, NEW c \in Conn, NEW P \in SUBSET Proto,
         got' = [got EXCEPT ![h][c] = P]
  PROVE /\ got' \in [Host -> [Conn -> SUBSET Proto]]
        /\ got'[h][c] = P
        /\ \A g \in Host, d \in Conn : g # h \/ d # c => got'[g][d] = got[g][d]
  BY DEF ExchangeTypeOK

LEMMA ExchangeTypeInit == ExchangeInit => ExchangeTypeInv
  <1> SUFFICES ASSUME ExchangeInit PROVE ExchangeTypeInv
    OBVIOUS
  <1>1. Cardinality(Conn) \in Nat /\ Cardinality(Proto) \in Nat /\ Cardinality({}) = 0
    BY HostAssumption, FS_CardinalityType, FS_EmptySet
  <1>2. ExchangeTypeOK
    BY <1>1, OtherAssumption DEF ExchangeInit, ExchangeTypeOK
  <1>3. Walked /\ PushesPaid
    BY <1>1 DEF ExchangeInit, Walked, PushesPaid
  <1>4. QED
    BY <1>2, <1>3 DEF ExchangeTypeInv

\* The steps that leave the counters alone, or only end a connection
LEMMA PaidStays ==
  ASSUME ExchangeTypeInv, UNCHANGED <<pushes, ops, seen>>,
         \A h \in Host : cur'[h] \in {cur[h], None}
  PROVE PushesPaid'
  <1>1. \A h \in Host : pushes[h] \in Nat /\ ops[h] \in Nat /\ Cardinality(seen[h]) \in Nat
    BY SeenCounted, OtherAssumption DEF ExchangeTypeInv, ExchangeTypeOK
  <1>2. QED
    BY <1>1 DEF ExchangeTypeInv, PushesPaid

LEMMA ExchangeTypeStep == ExchangeTypeInv /\ [ExchangeNext]_exchangeVars => ExchangeTypeInv'
  <1> SUFFICES ASSUME ExchangeTypeInv, [ExchangeNext]_exchangeVars PROVE ExchangeTypeInv'
    OBVIOUS
  <1> USE DEF appVars, newVars, exrVars
  <1>0. ExchangeTypeOK /\ Walked /\ PushesPaid
    BY DEF ExchangeTypeInv
  <1>1. CASE UNCHANGED exchangeVars
    BY <1>0, <1>1 DEF exchangeVars, ExchangeTypeInv, ExchangeTypeOK, Walked, PushesPaid
  <1>2. ASSUME NEW h \in Host, NEW c \in Conn, AcceptConn(h, c) PROVE ExchangeTypeInv'
    <2>1. ExchangeTypeOK'
      BY <1>0, <1>2 DEF AcceptConn, ExchangeTypeOK
    <2>2. Walked'
      BY <1>0, <1>2, HostAssumption DEF AcceptConn, ExchangeTypeOK, Walked
    <2>3. PushesPaid'
      <3>1. /\ seen'[h] = seen[h] \cup {c} /\ c \notin seen[h]
            /\ \A g \in Host : g # h => seen'[g] = seen[g] /\ cur'[g] = cur[g]
            /\ UNCHANGED <<pushes, ops>>
        BY <1>0, <1>2 DEF AcceptConn, ExchangeTypeOK
      <3>2. Cardinality(seen[h] \cup {c}) = Cardinality(seen[h]) + 1
        BY <1>0, <3>1, SeenCounted, FS_AddElement DEF ExchangeTypeOK
      <3>3. \A g \in Host : pushes[g] \in Nat /\ ops[g] \in Nat /\ Cardinality(seen[g]) \in Nat
        BY <1>0, SeenCounted, OtherAssumption DEF ExchangeTypeOK
      <3>4. PushesPaid
        BY <1>0
      <3>5. Cardinality(seen'[h]) = Cardinality(seen[h]) + 1
        BY <3>1, <3>2
      <3> SUFFICES ASSUME NEW g \in Host
            PROVE /\ pushes[g] <= ops[g] + Cardinality(seen'[g])
                  /\ cur'[g] # None => pushes[g] < ops[g] + Cardinality(seen'[g])
        BY <3>1 DEF PushesPaid
      <3>6. pushes[g] <= ops[g] + Cardinality(seen[g])
        BY <3>4 DEF PushesPaid
      <3>7. CASE g = h
        BY <3>3, <3>5, <3>6, <3>7
      <3>8. CASE g # h
        BY <3>1, <3>4, <3>8 DEF PushesPaid
      <3>9. QED
        BY <3>7, <3>8
    <2>4. QED
      BY <2>1, <2>2, <2>3 DEF ExchangeTypeInv
  <1>3a. ASSUME NEW h \in Host, Reject(h) PROVE ExchangeTypeInv'
    <2>1. cur[h] \in Conn /\ 0 \in 0 .. Cardinality(Proto)
      BY <1>0, <1>3a, HostAssumption, FS_CardinalityType DEF Reject, ExchangeTypeOK, Walked
    <2>2. ExchangeTypeOK'
      BY <1>0, <1>3a, <2>1 DEF Reject, Return, ExchangeTypeOK
    <2>3. Walked'
      BY <1>0, <1>3a, <2>1 DEF Reject, Return, ExchangeTypeOK, Walked
    <2>4. PushesPaid'
      BY <1>0, <1>3a, PaidStays DEF Reject, Return, ExchangeTypeOK
    <2>5. QED
      BY <2>2, <2>3, <2>4 DEF ExchangeTypeInv
  <1>3. ASSUME NEW h \in Host, Decide(h) PROVE ExchangeTypeInv'
    <2>1. ExchangeTypeOK'
      <3>1. Cardinality(handlers[h]) \in 0 .. Cardinality(Proto)
        BY <1>0, HandlersCounted DEF ExchangeTypeOK
      <3>2. exr' \in [Host -> [Conn -> {"none", "send", "receive", "ok", "err"}]]
        <4>1. \/ exr' = exr
              \/ \E e \in {"send", "receive"} : exr' = [exr EXCEPT ![h][cur[h]] = e]
          BY <1>3 DEF Decide
        <4>2. cur[h] \in Conn
          BY <1>0, <1>3 DEF Decide, ExchangeTypeOK, Walked
        <4>3. QED
          BY <1>0, <4>1, <4>2, ExrUpdate DEF ExchangeTypeOK
      <3>3. step' \in [Host -> {"idle", "decide", "exchange", "add", "book", "serve"}]
        BY <1>0, <1>3 DEF Decide, Goto, ExchangeTypeOK
      <3>4. myProtocolsLength' \in [Host -> 0 .. Cardinality(Proto)]
        <4>1. \E n \in 0 .. Cardinality(Proto) :
                 myProtocolsLength' = [myProtocolsLength EXCEPT ![h] = n]
          <5>1. myProtocolsLength = [myProtocolsLength EXCEPT ![h] = myProtocolsLength[h]]
            BY <1>0 DEF ExchangeTypeOK
          <5>2. myProtocolsLength[h] \in 0 .. Cardinality(Proto)
            BY <1>0 DEF ExchangeTypeOK
          <5>3. QED
            BY <1>3, <3>1, <5>1, <5>2 DEF Decide
        <4>2. QED
          BY <1>0, <4>1 DEF ExchangeTypeOK
      <3>5. QED
        BY <1>0, <1>3, <3>2, <3>3, <3>4 DEF Decide, Goto, ExchangeTypeOK
    <2>2. Walked'
      BY <1>0, <1>3 DEF Decide, Goto, ExchangeTypeOK, Walked
    <2>3. PushesPaid'
      BY <1>3, PaidStays DEF Decide, Goto
    <2>4. QED
      BY <2>1, <2>2, <2>3 DEF ExchangeTypeInv
  <1>4. ASSUME NEW h \in Host, ExchangeDone(h) \/ ExchangeTimeout(h) PROVE ExchangeTypeInv'
    <2> DEFINE c == cur[h]
    <2>1. c \in Conn /\ c # None
      BY <1>0, <1>4, HostAssumption
         DEF ExchangeDone, ExchangeTimeout, ExchangeTypeOK, Walked
    <2>2. /\ step[h] = "exchange"
          /\ \/ Return(h) /\ dead' = dead \cup {c}
             \/ \E r \in SUBSET Proto :
                  /\ rProtocols' = [rProtocols EXCEPT ![h] = r]
                  /\ Goto(h, "add") /\ UNCHANGED <<myProtocolsLength, dead>>
          /\ UNCHANGED <<appVars, book, seen, rejected, exrVars, conns, served, wire>>
      <3>1. got[h][c] \in SUBSET Proto /\ {} \in SUBSET Proto
        BY <1>0, <2>1 DEF ExchangeTypeOK
      <3>2. QED
        BY <1>4, <3>1 DEF ExchangeDone, ExchangeTimeout
    <2>3. CASE Return(h) /\ dead' = dead \cup {c}
      <3>1. 0 \in 0 .. Cardinality(Proto)
        BY HostAssumption, FS_CardinalityType
      <3>2. ExchangeTypeOK'
        BY <1>0, <2>1, <2>2, <2>3, <3>1 DEF Return, ExchangeTypeOK
      <3>3. Walked'
        BY <1>0, <2>1, <2>2, <2>3 DEF Return, ExchangeTypeOK, Walked
      <3>4. PushesPaid'
        BY <1>0, <2>2, <2>3, PaidStays DEF Return, ExchangeTypeOK
      <3>5. QED
        BY <3>2, <3>3, <3>4 DEF ExchangeTypeInv
    <2>4. ASSUME NEW r \in SUBSET Proto, rProtocols' = [rProtocols EXCEPT ![h] = r],
                 Goto(h, "add"), UNCHANGED <<myProtocolsLength, dead>>
          PROVE ExchangeTypeInv'
      <3>1. ExchangeTypeOK'
        BY <1>0, <2>2, <2>4 DEF Goto, ExchangeTypeOK
      <3>2. Walked'
        BY <1>0, <2>2, <2>4 DEF Goto, ExchangeTypeOK, Walked
      <3>3. PushesPaid'
        BY <2>2, <2>4, PaidStays DEF Goto
      <3>4. QED
        BY <3>1, <3>2, <3>3 DEF ExchangeTypeInv
    <2>5. QED
      BY <2>2, <2>3, <2>4
  <1>5. ASSUME NEW h \in Host, Add(h) PROVE ExchangeTypeInv'
    <2> DEFINE c == cur[h]
    <2>1. c \in Conn /\ c # None
      BY <1>0, <1>5, HostAssumption DEF Add, ExchangeTypeOK, Walked
    <2>2. CASE c \in dead
      <3>1. 0 \in 0 .. Cardinality(Proto)
        BY HostAssumption, FS_CardinalityType
      <3>2. ExchangeTypeOK'
        <4>1. Return(h) /\ UNCHANGED <<appVars, book, seen, rejected, exrVars, conns, served, dead, wire>>
          BY <1>5, <2>2 DEF Add
        <4>2. QED
          BY <1>0, <3>1, <4>1 DEF Return, ExchangeTypeOK
      <3>3. Walked'
        BY <1>0, <1>5, <2>1, <2>2 DEF Add, Return, ExchangeTypeOK, Walked
      <3>4. PushesPaid'
        BY <1>0, <1>5, <2>2, PaidStays DEF Add, Return, ExchangeTypeOK
      <3>5. QED
        BY <3>2, <3>3, <3>4 DEF ExchangeTypeInv
    <2>3. CASE c \notin dead
      <3>1. ExchangeTypeOK'
        <4>1. /\ conns' = [conns EXCEPT ![h] = @ \cup {c}]
              /\ \E l \in {"book", "serve"} : Goto(h, l)
              /\ UNCHANGED <<rProtocols, myProtocolsLength>>
              /\ UNCHANGED <<appVars, book, seen, rejected, exrVars, served, dead, wire>>
          BY <1>5, <2>3 DEF Add
        <4>2. QED
          BY <1>0, <2>1, <4>1 DEF Goto, ExchangeTypeOK
      <3>2. Walked'
        BY <1>0, <1>5, <2>1, <2>3 DEF Add, Goto, ExchangeTypeOK, Walked
      <3>3. PushesPaid'
        BY <1>5, <2>3, PaidStays DEF Add, Goto
      <3>4. QED
        BY <3>1, <3>2, <3>3 DEF ExchangeTypeInv
    <2>4. QED
      BY <2>2, <2>3
  <1>6. ASSUME NEW h \in Host, SetBook(h) PROVE ExchangeTypeInv'
    <2>1. ExchangeTypeOK'
      BY <1>0, <1>6 DEF SetBook, Goto, ExchangeTypeOK
    <2>2. Walked'
      BY <1>0, <1>6 DEF SetBook, Goto, ExchangeTypeOK, Walked
    <2>3. PushesPaid'
      BY <1>6, PaidStays DEF SetBook, Goto
    <2>4. QED
      BY <2>1, <2>2, <2>3 DEF ExchangeTypeInv
  <1>7. ASSUME NEW h \in Host, Serve(h) PROVE ExchangeTypeInv'
    <2> DEFINE c == cur[h]
    <2>1. c \in Conn /\ c # None
      BY <1>0, <1>7, HostAssumption DEF Serve, ExchangeTypeOK, Walked
    <2>2. /\ pushes' = [pushes EXCEPT ![h] = @ + 1] \/ pushes' = pushes
          /\ served' = [served EXCEPT ![h] = @ \cup {c}] /\ step[h] = "serve"
          /\ Return(h)
          /\ UNCHANGED <<handlers, acks, overlapped, ops, book, seen, rejected, exrVars,
                         conns, dead, wire>>
      BY <1>7 DEF Serve
    <2>3. \A g \in Host : /\ pushes[g] \in Nat /\ ops[g] \in 0 .. MaxOps
                          /\ Cardinality(seen[g]) \in Nat /\ Cardinality(Conn) \in Nat
                          /\ Cardinality(seen[g]) <= Cardinality(Conn)
      BY <1>0, SeenCounted, OtherAssumption DEF ExchangeTypeOK
    <2>4. pushes[h] < ops[h] + Cardinality(seen[h])
      BY <1>0, <2>1 DEF PushesPaid
    <2>5. pushes[h] + 1 \in 0 .. MaxOps + Cardinality(Conn)
      BY <2>3, <2>4, OtherAssumption
    <2>6. 0 \in 0 .. Cardinality(Proto)
      BY HostAssumption, FS_CardinalityType
    <2>7. pushes' \in [Host -> 0 .. MaxOps + Cardinality(Conn)]
      BY <1>0, <2>2, <2>5 DEF ExchangeTypeOK
    <2>8. ExchangeTypeOK'
      BY <1>0, <2>1, <2>2, <2>6, <2>7 DEF Return, ExchangeTypeOK
    <2>9. Walked'
      BY <1>0, <2>1, <2>2 DEF Return, ExchangeTypeOK, Walked
    <2>10. PushesPaid'
      <3>1. /\ pushes'[h] \in {pushes[h], pushes[h] + 1} /\ cur'[h] = None
            /\ \A g \in Host : g # h => pushes'[g] = pushes[g] /\ cur'[g] = cur[g]
        BY <1>0, <2>2 DEF Return, ExchangeTypeOK
      <3>2. QED
        BY <1>0, <2>2, <2>3, <2>4, <3>1, OtherAssumption DEF PushesPaid
    <2>11. QED
      BY <2>8, <2>9, <2>10 DEF ExchangeTypeInv
  <1>8. ASSUME NEW h \in Host, NEW c \in Conn, SendPayload(h, c) PROVE ExchangeTypeInv'
    <2> DEFINE m == [c |-> c, from |-> h, protocols |-> handlers[h],
                     type |-> IF Dialer[c] = h THEN "REQUEST" ELSE "RESPONSE"]
    <2>1. m \in Payload
      BY <1>0 DEF Payload, ExchangeTypeOK
    <2>2. /\ wire' = wire \cup {m} \/ wire' = wire
          /\ \E e \in {"receive", "ok", "err"} : exr' = [exr EXCEPT ![h][c] = e]
          /\ UNCHANGED <<appVars, book, newVars, got, conns, served, dead>>
      BY <1>8 DEF SendPayload
    <2> HIDE DEF m
    <2>3. ExchangeTypeOK'
      BY <1>0, <2>1, <2>2 DEF ExchangeTypeOK
    <2>4. Walked'
      BY <1>0, <2>2 DEF Walked
    <2>5. PushesPaid'
      BY <2>2, PaidStays
    <2>6. QED
      BY <2>3, <2>4, <2>5 DEF ExchangeTypeInv
  <1>9. ASSUME NEW h \in Host, NEW m \in wire, ReceivePayload(h, m) PROVE ExchangeTypeInv'
    <2>1. m \in Payload /\ m.c \in Conn /\ m.protocols \in SUBSET Proto
      BY <1>0 DEF Payload, ExchangeTypeOK
    <2>2. /\ got' = [got EXCEPT ![h][m.c] = m.protocols] \/ got' = got
          /\ \E e \in {"send", "ok", "err"} : exr' = [exr EXCEPT ![h][m.c] = e]
          /\ wire' \subseteq wire
          /\ UNCHANGED <<appVars, book, newVars, conns, served, dead>>
      BY <1>9 DEF ReceivePayload
    <2>3. ExchangeTypeOK'
      <3>1. got' \in [Host -> [Conn -> SUBSET Proto]]
        BY <1>0, <2>1, <2>2, GotUpdate DEF ExchangeTypeOK
      <3>2. exr' \in [Host -> [Conn -> {"none", "send", "receive", "ok", "err"}]]
        BY <1>0, <2>1, <2>2, ExrUpdate
      <3>3. QED
        BY <1>0, <2>2, <3>1, <3>2 DEF ExchangeTypeOK
    <2>4. Walked'
      BY <1>0, <2>2 DEF Walked
    <2>5. PushesPaid'
      BY <2>2, PaidStays
    <2>6. QED
      BY <2>3, <2>4, <2>5 DEF ExchangeTypeInv
  <1>10. ASSUME NEW h \in Host, NEW c \in Conn, ReceiveFails(h, c) PROVE ExchangeTypeInv'
    <2>1. ExchangeTypeOK' /\ Walked'
      BY <1>0, <1>10 DEF ReceiveFails, ExchangeTypeOK, Walked
    <2>2. PushesPaid'
      BY <1>10, PaidStays DEF ReceiveFails
    <2>3. QED
      BY <2>1, <2>2 DEF ExchangeTypeInv
  <1>11. ASSUME NEW h \in Host, NEW x \in Proto, ChangeHandler(h, x) PROVE ExchangeTypeInv'
    <2>1. /\ ops[h] < MaxOps /\ ops' = [ops EXCEPT ![h] = @ + 1]
          /\ pushes' = [pushes EXCEPT ![h] = @ + 1]
          /\ UNCHANGED <<acks, overlapped, book, newVars, exrVars, conns, served, dead, wire>>
      BY <1>11 DEF ChangeHandler
    <2>2. handlers' \in [Host -> SUBSET Proto]
      BY <1>0, <1>11 DEF ChangeHandler, ExchangeTypeOK
    <2>3. \A g \in Host : /\ pushes[g] \in Nat /\ ops[g] \in 0 .. MaxOps
                          /\ Cardinality(seen[g]) \in Nat /\ Cardinality(Conn) \in Nat
                          /\ Cardinality(seen[g]) <= Cardinality(Conn)
      BY <1>0, SeenCounted, OtherAssumption DEF ExchangeTypeOK
    <2>4. pushes[h] <= ops[h] + Cardinality(seen[h])
      BY <1>0 DEF PushesPaid
    <2>5. pushes[h] + 1 \in 0 .. MaxOps + Cardinality(Conn) /\ ops[h] + 1 \in 0 .. MaxOps
      BY <2>1, <2>3, <2>4, OtherAssumption
    <2>6. /\ pushes' \in [Host -> 0 .. MaxOps + Cardinality(Conn)]
          /\ ops' \in [Host -> 0 .. MaxOps]
      BY <1>0, <2>1, <2>5 DEF ExchangeTypeOK
    <2>7. ExchangeTypeOK'
      BY <1>0, <2>1, <2>2, <2>6 DEF ExchangeTypeOK
    <2>8. Walked'
      BY <1>0, <2>1 DEF Walked
    <2>9. PushesPaid'
      <3>1. /\ pushes'[h] = pushes[h] + 1 /\ ops'[h] = ops[h] + 1
            /\ \A g \in Host : g # h => pushes'[g] = pushes[g] /\ ops'[g] = ops[g]
        BY <1>0, <2>1 DEF ExchangeTypeOK
      <3>2. QED
        BY <1>0, <2>1, <2>3, <3>1, OtherAssumption DEF PushesPaid
    <2>10. QED
      BY <2>7, <2>8, <2>9 DEF ExchangeTypeInv
  \* PUSH and PUSH_OK
  <1>12a. ASSUME NEW h \in Host, NEW c \in Conn, NEW t \in Announcements, SendProtocols(h, c, t)
          PROVE  wire' \in SUBSET Payload /\ overlapped' \in SUBSET Host
    <2> DEFINE m == [c |-> c, from |-> h, type |-> t, protocols |-> handlers[h]]
    <2>1. m \in Payload
      BY <1>0 DEF Payload, ExchangeTypeOK
    <2>2. /\ wire' = wire \cup {m} \/ wire' = wire
          /\ overlapped' = overlapped
               \/ overlapped' = overlapped \cup {g \in {h} : \E n \in wire : n.from = g /\ n.type \in Announcements}
      BY <1>12a DEF SendProtocols
    <2> HIDE DEF m
    <2>3. wire' \in SUBSET Payload
      BY <1>0, <2>1, <2>2 DEF ExchangeTypeOK
    <2>4. overlapped' \in SUBSET Host
      BY <1>0, <2>2 DEF ExchangeTypeOK
    <2>5. QED
      BY <2>3, <2>4
  <1>12. ASSUME NEW h \in Host, NEW c \in Conn, PushProtocols(h, c) PROVE ExchangeTypeInv'
    <2>1. wire' \in SUBSET Payload /\ overlapped' \in SUBSET Host
      BY <1>12, <1>12a DEF PushProtocols, Announcements
    <2>2. /\ pushes[h] > 0 /\ pushes' = [pushes EXCEPT ![h] = @ - 1]
          /\ UNCHANGED <<handlers, acks, ops, book, newVars, exrVars, conns, served, dead>>
      BY <1>12 DEF PushProtocols
    <2>3. \A g \in Host : /\ pushes[g] \in 0 .. MaxOps + Cardinality(Conn) /\ pushes[g] \in Nat
                          /\ ops[g] \in Nat /\ Cardinality(seen[g]) \in Nat
      BY <1>0, SeenCounted, OtherAssumption DEF ExchangeTypeOK
    <2>4. pushes[h] - 1 \in 0 .. MaxOps + Cardinality(Conn)
      BY <2>2, <2>3, SeenCounted, OtherAssumption
    <2>5. pushes' \in [Host -> 0 .. MaxOps + Cardinality(Conn)]
      BY <1>0, <2>2, <2>4 DEF ExchangeTypeOK
    <2>6. ExchangeTypeOK'
      BY <1>0, <2>1, <2>2, <2>5 DEF ExchangeTypeOK
    <2>7. Walked'
      BY <1>0, <2>2 DEF Walked
    <2>8. PushesPaid'
      <3>1. pushes'[h] = pushes[h] - 1 /\ \A g \in Host : g # h => pushes'[g] = pushes[g]
        BY <1>0, <2>2 DEF ExchangeTypeOK
      <3>2. QED
        BY <1>0, <2>2, <2>3, <3>1 DEF PushesPaid
    <2>9. QED
      BY <2>6, <2>7, <2>8 DEF ExchangeTypeInv
  <1>13a. ASSUME NEW h \in Host, NEW c \in Conn, AnswerPush(h, c) PROVE ExchangeTypeInv'
    <2>1. wire' \in SUBSET Payload /\ overlapped' \in SUBSET Host
      BY <1>13a, <1>12a DEF AnswerPush, Announcements
    <2>2. /\ acks[h] > 0 /\ acks' = [acks EXCEPT ![h] = @ - 1]
          /\ UNCHANGED <<handlers, pushes, ops, book, newVars, exrVars, conns, served, dead>>
      BY <1>13a DEF AnswerPush
    <2>3. acks' \in [Host -> Nat]
      BY <1>0, <2>2 DEF ExchangeTypeOK
    <2>4. ExchangeTypeOK'
      BY <1>0, <2>1, <2>2, <2>3 DEF ExchangeTypeOK
    <2>5. Walked'
      BY <1>0, <2>2 DEF Walked
    <2>6. PushesPaid'
      BY <2>2, PaidStays
    <2>7. QED
      BY <2>4, <2>5, <2>6 DEF ExchangeTypeInv
  <1>13. ASSUME NEW h \in Host, NEW m \in wire, Handle(h, m) \/ Lost(m)
         PROVE  ExchangeTypeInv'
    <2>1. m \in Payload /\ m.protocols \in SUBSET Proto
      BY <1>0 DEF Payload, ExchangeTypeOK
    <2>2. /\ book' = [book EXCEPT ![h] = m.protocols] \/ book' = book
          /\ acks' = [acks EXCEPT ![h] = @ + 1] \/ acks' = acks
          /\ wire' \subseteq wire
          /\ UNCHANGED <<handlers, pushes, overlapped, ops, newVars, exrVars, conns, served, dead>>
      BY <1>13 DEF Handle, Lost
    <2>3. acks' \in [Host -> Nat]
      BY <1>0, <2>2 DEF ExchangeTypeOK
    <2>4. book' \in [Host -> {None} \cup SUBSET Proto]
      BY <1>0, <2>1, <2>2 DEF ExchangeTypeOK
    <2>5. ExchangeTypeOK'
      BY <1>0, <2>2, <2>3, <2>4 DEF ExchangeTypeOK
    <2>6. Walked'
      BY <1>0, <2>2 DEF Walked
    <2>7. PushesPaid'
      BY <2>2, PaidStays
    <2>8. QED
      BY <2>5, <2>6, <2>7 DEF ExchangeTypeInv
  <1>14. ASSUME NEW h \in Host, NEW c \in Conn, Closing(h, c) PROVE ExchangeTypeInv'
    <2>1. ExchangeTypeOK'
      BY <1>0, <1>14 DEF Closing, ExchangeTypeOK
    <2>2. Walked'
      BY <1>0, <1>14 DEF Closing, ExchangeTypeOK, Walked
    <2>3. PushesPaid'
      BY <1>14, PaidStays DEF Closing
    <2>4. QED
      BY <2>1, <2>2, <2>3 DEF ExchangeTypeInv
  <1>15. QED
    BY <1>1, <1>2, <1>3a, <1>3, <1>4, <1>5, <1>6, <1>7, <1>8, <1>9, <1>10, <1>11, <1>12,
       <1>13a, <1>13, <1>14
       DEF ExchangeNext, NewStep, ExchangeStep

LEMMA ExchangeTypeAlways == ExchangeSpec => []ExchangeTypeInv
  BY ExchangeTypeInit, ExchangeTypeStep, PTL DEF ExchangeSpec

\* The variables of the exchange keep their types, with the race on the results
\* of ExchangeProtocol and with unregistrations: no more pushes are pending
\* than there were changes and connections served.
THEOREM ExchangeTypeCorrect == ExchangeSpec => []ExchangeTypeOK
  <1>1. ExchangeTypeInv => ExchangeTypeOK
    BY DEF ExchangeTypeInv
  <1>2. QED
    BY ExchangeTypeAlways, <1>1, PTL

\* A connection in the manager of one host, which the other host is done with
\* and does not serve, has been closed, or the other host has rejected it:
\* whatever exchange times out, a host does not keep a connection that its peer
\* has given up.
THEOREM NeverHalfOpen == ExchangeSpec => []NoHalfOpen
  <1>1. ExchangeTypeInv => NoHalfOpen
    <2> SUFFICES ASSUME ExchangeTypeInv, NEW h \in Host, NEW c \in conns[h],
                        c \in seen[Other(h)], cur[Other(h)] # c, c \notin served[Other(h)]
                 PROVE c \in dead \cup rejected[Other(h)]
      BY DEF NoHalfOpen
    <2>1. Other(h) \in Host
      BY TwoHosts
    <2>2. QED
      BY <2>1 DEF ExchangeTypeInv, Walked
  <1>2. QED
    BY ExchangeTypeAlways, <1>1, PTL

-----------------------------------------------------------------------------
\* BooksFresh.  What the steps do, host by host and connection by connection,
\* without the race on the results and without UnregisterMsgPayloadHandler.
Becomes(f, g, h, v) == g[h] = v /\ \A k \in Host : k # h => g[k] = f[k]
Becomes2(f, g, h, c, v) ==
  g[h][c] = v /\ \A k \in Host : \A d \in Conn : k # h \/ d # c => g[k][d] = f[k][d]

Took(h, c) ==
  /\ cur[h] = None /\ c \in Conn /\ c \notin seen[h]
  /\ Becomes(seen, seen', h, seen[h] \cup {c})
  /\ Becomes(cur, cur', h, c) /\ Becomes(step, step', h, "decide")
  /\ UNCHANGED <<handlers, pushes, ops, book, myProtocolsLength, rProtocols, exr, got,
                 conns, served, dead, wire>>

Skipped(h) ==
  /\ step[h] = "decide" /\ conns[h] # {} /\ Becomes(step, step', h, "add")
  /\ UNCHANGED <<handlers, pushes, ops, book, seen, cur, myProtocolsLength, rProtocols,
                 exr, got, conns, served, dead, wire>>

Began(h, c) ==
  /\ c = cur[h] /\ c \in Conn /\ step[h] = "decide" /\ conns[h] = {}
  /\ Becomes(step, step', h, "exchange")
  /\ Becomes(myProtocolsLength, myProtocolsLength', h, Cardinality(handlers[h]))
  /\ Becomes2(exr, exr', h, c, IF Dialer[c] = h THEN "send" ELSE "receive")
  /\ UNCHANGED <<handlers, pushes, ops, book, seen, cur, rProtocols, got,
                 conns, served, dead, wire>>

Went(h, c) ==
  /\ c = cur[h] /\ c \in Conn /\ step[h] = "exchange" /\ exr[h][c] = "ok"
  /\ got[h][c] # None
  /\ Becomes(step, step', h, "add") /\ Becomes(rProtocols, rProtocols', h, got[h][c])
  /\ UNCHANGED <<handlers, pushes, ops, book, seen, cur, myProtocolsLength, exr, got,
                 conns, served, dead, wire>>

Returned(h) ==
  /\ Becomes(cur, cur', h, None) /\ Becomes(step, step', h, "idle")
  /\ Becomes(rProtocols, rProtocols', h, None)
  /\ Becomes(myProtocolsLength, myProtocolsLength', h, 0)

GaveUp(h, c) ==
  /\ c = cur[h] /\ c \in Conn /\ step[h] = "exchange"
  /\ Returned(h) /\ dead' = dead \cup {c}
  /\ UNCHANGED <<handlers, pushes, ops, book, seen, exr, got, conns, served, wire>>

\* The connection is rejected, or has been closed before it could be added.
Refused(h, c) ==
  /\ c = cur[h] /\ c \in Conn /\ Returned(h)
  /\ step[h] = "decide" \/ (step[h] = "add" /\ c \in dead)
  /\ UNCHANGED <<handlers, pushes, ops, book, seen, exr, got, conns, served, dead, wire>>

Added(h, c) ==
  /\ c = cur[h] /\ c \in Conn /\ step[h] = "add" /\ c \notin dead
  /\ Becomes(conns, conns', h, conns[h] \cup {c})
  /\ Becomes(step, step', h, IF rProtocols[h] # None THEN "book" ELSE "serve")
  /\ UNCHANGED <<handlers, pushes, ops, book, seen, cur, myProtocolsLength, rProtocols,
                 exr, got, served, dead, wire>>

Booked(h) ==
  /\ step[h] = "book" /\ Becomes(book, book', h, rProtocols[h])
  /\ Becomes(step, step', h, "serve")
  /\ UNCHANGED <<handlers, pushes, ops, seen, cur, myProtocolsLength, rProtocols,
                 exr, got, conns, served, dead, wire>>

Finished(h, c) ==
  /\ c = cur[h] /\ c \in Conn /\ step[h] = "serve"
  /\ Becomes(pushes, pushes', h,
       IF rProtocols[h] # None /\ myProtocolsLength[h] # Cardinality(handlers[h])
       THEN pushes[h] + 1 ELSE pushes[h])
  /\ Becomes(served, served', h, served[h] \cup {c}) /\ Returned(h)
  /\ UNCHANGED <<handlers, ops, book, seen, exr, got, conns, dead, wire>>

Spoke(h, c) ==
  /\ c \in Conn /\ exr[h][c] = "send" /\ c \notin dead
  /\ Becomes2(exr, exr', h, c, IF Dialer[c] = h THEN "receive" ELSE "ok")
  /\ wire' = wire \cup
       {[c |-> c, from |-> h, protocols |-> handlers[h],
         type |-> IF Dialer[c] = h THEN "REQUEST" ELSE "RESPONSE"]}
  /\ UNCHANGED <<handlers, pushes, ops, book, seen, cur, step, myProtocolsLength,
                 rProtocols, got, conns, served, dead>>

\* The payload that was waited for
Heard(h, m) ==
  /\ m \in wire /\ m.c \in Conn /\ m.from \in Host /\ m.from # h
  /\ exr[h][m.c] = "receive"
  /\ m.type = IF Dialer[m.c] = h THEN "RESPONSE" ELSE "REQUEST"
  /\ Becomes2(exr, exr', h, m.c, IF Dialer[m.c] = h THEN "ok" ELSE "send")
  /\ Becomes2(got, got', h, m.c, m.protocols)
  /\ wire' = wire \ {m}
  /\ UNCHANGED <<handlers, pushes, ops, book, seen, cur, step, myProtocolsLength,
                 rProtocols, conns, served, dead>>

Misheard(h, m) ==
  /\ m \in wire /\ m.c \in Conn /\ m.from \in Host /\ m.from # h
  /\ exr[h][m.c] = "receive"
  /\ m.type # IF Dialer[m.c] = h THEN "RESPONSE" ELSE "REQUEST"
  /\ Becomes2(exr, exr', h, m.c, "err") /\ wire' = wire \ {m}
  /\ UNCHANGED <<handlers, pushes, ops, book, seen, cur, step, myProtocolsLength,
                 rProtocols, got, conns, served, dead>>

Failed(h, c) ==
  /\ c \in Conn /\ exr[h][c] \in {"send", "receive"} /\ c \in dead
  /\ Becomes2(exr, exr', h, c, "err")
  /\ UNCHANGED <<handlers, pushes, ops, book, seen, cur, step, myProtocolsLength,
                 rProtocols, got, conns, served, dead, wire>>

Registered(h) ==
  /\ \E x \in Proto : x \notin handlers[h] /\ Becomes(handlers, handlers', h, handlers[h] \cup {x})
  /\ Becomes(pushes, pushes', h, pushes[h] + 1)
  /\ UNCHANGED <<book, seen, cur, step, myProtocolsLength, rProtocols, exr, got,
                 conns, served, dead, wire>>

\* A PUSH or a PUSH_OK; the host has no other on its way, or is known to
\* have let its announcements overlap.
Pushed(h, c) ==
  /\ h \in overlapped' \/ \A m \in wire : m.type \in Announcements => m.from # h
  /\ \A g \in Host : g # h => pushes'[g] = pushes[g]
  /\ conns[h] # {} /\ book[h] # None /\ c \in Conn /\ c \in conns[h] /\ c \notin dead
  /\ \E t \in Announcements :
       wire' = wire \cup {[c |-> c, from |-> h, type |-> t, protocols |-> handlers[h]]}
  /\ UNCHANGED <<handlers, ops, book, seen, cur, step, myProtocolsLength, rProtocols,
                 exr, got, conns, served, dead>>

\* A push that reaches nobody
Dropped(h) ==
  /\ pushes[h] > 0 /\ Becomes(pushes, pushes', h, pushes[h] - 1)
  /\ conns[h] = {} \/ book[h] = None \/ \E c \in conns[h] : c \in dead
  /\ UNCHANGED <<handlers, ops, book, seen, cur, step, myProtocolsLength, rProtocols,
                 exr, got, conns, served, dead, wire>>

Stored(h, m) ==
  /\ m \in wire /\ m.from \in Host /\ m.from # h /\ m.c \in Conn /\ m.c \in served[h]
  /\ m.type \in Announcements /\ Becomes(book, book', h, m.protocols) /\ m.protocols # None
  /\ wire' = wire \ {m}
  /\ UNCHANGED <<handlers, pushes, ops, seen, cur, step, myProtocolsLength, rProtocols,
                 exr, got, conns, served, dead>>

\* A payload that nobody takes: its connection is closed, or nobody waits for
\* it any more.
Vanished(m) ==
  /\ m \in wire /\ m.c \in Conn
  /\ m.c \in dead \/ (m.type \notin Announcements /\ \E h \in Host : m.from # h /\ m.c \in served[h])
  /\ wire' = wire \ {m}
  /\ UNCHANGED <<handlers, pushes, ops, book, seen, cur, step, myProtocolsLength,
                 rProtocols, exr, got, conns, served, dead>>

Closed(h, c) ==
  /\ c \in Conn /\ c \in served[h] /\ c \in dead
  /\ Becomes(served, served', h, served[h] \ {c})
  /\ IF c \in conns[h]
     THEN Becomes(conns, conns', h, {}) /\ Becomes(book, book', h, None)
     ELSE UNCHANGED <<conns, book>>
  /\ UNCHANGED <<handlers, pushes, ops, seen, cur, step, myProtocolsLength, rProtocols,
                 exr, got, dead, wire>>

\* A PUSH_OK that reaches nobody
Idled ==
  UNCHANGED <<handlers, pushes, ops, book, seen, cur, step, myProtocolsLength, rProtocols,
              exr, got, conns, served, dead, wire>>

\* One of them; announcements that have overlapped stay so.
Change ==
  \/ \E h \in Host : Skipped(h) \/ Booked(h) \/ Registered(h) \/ Dropped(h)
  \/ \E h \in Host : \E c \in Conn :
       \/ Took(h, c) \/ Began(h, c) \/ Went(h, c) \/ GaveUp(h, c) \/ Refused(h, c)
       \/ Added(h, c) \/ Finished(h, c) \/ Spoke(h, c) \/ Failed(h, c) \/ Pushed(h, c)
       \/ Closed(h, c)
  \/ \E h \in Host : \E m \in wire : Heard(h, m) \/ Misheard(h, m) \/ Stored(h, m)
  \/ \E m \in wire : Vanished(m)
  \/ Idled
Effect == Change /\ overlapped \subseteq overlapped'

\* What the goroutine of an exchange writes, point by point
LEMMA ExrPoint ==
  ASSUME ExchangeTypeOK, NEW h \in Host, NEW c \in Conn, NEW e,
         exr' = [exr EXCEPT ![h][c] = e]
  PROVE  Becomes2(exr, exr', h, c, e)
  BY DEF ExchangeTypeOK, Becomes2

LEMMA GotPoint ==
  ASSUME ExchangeTypeOK, NEW h \in Host, NEW c \in Conn, NEW e,
         got' = [got EXCEPT ![h][c] = e]
  PROVE  Becomes2(got, got', h, c, e)
  BY DEF ExchangeTypeOK, Becomes2

\* There are no other steps.
LEMMA EveryEffect ==
  ASSUME ExchangeTypeOK, Walked, [ExchangeNext]_exchangeVars, ~Races, ~Unregisters
  PROVE  Effect
  <1> USE HostAssumption DEF appVars, newVars, exrVars
  <1>0. \A h \in Host : cur[h] # None => cur[h] \in Conn
    BY DEF ExchangeTypeOK
  <1>1. ASSUME NEW h \in Host, NEW c \in Conn, AcceptConn(h, c) PROVE Took(h, c)
    BY <1>1 DEF AcceptConn, Took, Becomes, ExchangeTypeOK
  <1>2a. ASSUME NEW h \in Host, Reject(h) PROVE Refused(h, cur[h])
    <2>1. cur[h] \in Conn
      BY <1>0, <1>2a DEF Reject, Walked
    <2>2. Returned(h)
      BY <1>2a DEF Reject, Return, Returned, Becomes, ExchangeTypeOK
    <2>3. QED
      BY <1>2a, <2>1, <2>2 DEF Reject, Refused
  <1>2. ASSUME NEW h \in Host, Decide(h) PROVE Skipped(h) \/ Began(h, cur[h])
    <2>1. cur[h] \in Conn
      BY <1>0, <1>2 DEF Decide, Walked
    <2>2. CASE conns[h] # {}
      BY <1>2, <2>2 DEF Decide, Goto, Skipped, Becomes, ExchangeTypeOK
    <2>3. CASE conns[h] = {}
      <3>1. Becomes2(exr, exr', h, cur[h], IF Dialer[cur[h]] = h THEN "send" ELSE "receive")
        BY <1>2, <2>1, <2>3, ExrPoint DEF Decide
      <3>2. QED
        BY <1>2, <2>1, <2>3, <3>1 DEF Decide, Goto, Began, Becomes, ExchangeTypeOK
    <2>4. QED
      BY <2>2, <2>3
  <1>3. ASSUME NEW h \in Host, Return(h) PROVE Returned(h)
    BY <1>3 DEF Return, Returned, Becomes, ExchangeTypeOK
  <1>4. ASSUME NEW h \in Host, ExchangeDone(h) \/ ExchangeTimeout(h)
        PROVE  Went(h, cur[h]) \/ GaveUp(h, cur[h])
    <2>1. cur[h] \in Conn
      BY <1>0, <1>4 DEF ExchangeDone, ExchangeTimeout, Walked
    <2>2. CASE ExchangeDone(h) /\ exr[h][cur[h]] = "ok"
      <3>1. got[h][cur[h]] # None
        BY <2>1 DEF ExchangeTypeOK
      <3>2. QED
        BY <2>1, <2>2 DEF ExchangeDone, Goto, Went, Becomes, ExchangeTypeOK
    <2>3. CASE ExchangeDone(h) /\ exr[h][cur[h]] # "ok"
      BY <1>3, <2>1, <2>3 DEF ExchangeDone, GaveUp
    <2>4. CASE ExchangeTimeout(h)
      BY <1>3, <2>1, <2>4, TwoHosts DEF ExchangeTimeout, GaveUp
    <2>5. QED
      BY <1>4, <2>2, <2>3, <2>4
  <1>5. ASSUME NEW h \in Host, Add(h) PROVE Refused(h, cur[h]) \/ Added(h, cur[h])
    <2>1. cur[h] \in Conn
      BY <1>0, <1>5 DEF Add, Walked
    <2>2. CASE cur[h] \in dead
      BY <1>3, <1>5, <2>1, <2>2 DEF Add, Refused
    <2>3. CASE cur[h] \notin dead
      BY <1>5, <2>1, <2>3 DEF Add, Goto, Added, Becomes, ExchangeTypeOK
    <2>4. QED
      BY <2>2, <2>3
  <1>6. ASSUME NEW h \in Host, SetBook(h) PROVE Booked(h)
    BY <1>6 DEF SetBook, Goto, Booked, Becomes, ExchangeTypeOK
  <1>7. ASSUME NEW h \in Host, Serve(h) PROVE Finished(h, cur[h])
    <2>1. cur[h] \in Conn
      BY <1>0, <1>7 DEF Serve, Walked
    <2>2. Returned(h)
      BY <1>3, <1>7 DEF Serve
    <2>3. /\ Becomes(served, served', h, served[h] \cup {cur[h]})
          /\ Becomes(pushes, pushes', h,
               IF rProtocols[h] # None /\ myProtocolsLength[h] # Cardinality(handlers[h])
               THEN pushes[h] + 1 ELSE pushes[h])
      BY <1>7 DEF Serve, Becomes, ExchangeTypeOK
    <2>4. QED
      BY <1>7, <2>1, <2>2, <2>3 DEF Serve, Finished
  <1>8. ASSUME NEW h \in Host, NEW c \in Conn, SendPayload(h, c)
        PROVE  Spoke(h, c) \/ Failed(h, c)
    <2>1. CASE c \notin dead
      <3>1. Becomes2(exr, exr', h, c, IF Dialer[c] = h THEN "receive" ELSE "ok")
        BY <1>8, <2>1, ExrPoint DEF SendPayload
      <3>2. QED
        BY <1>8, <2>1, <3>1 DEF SendPayload, Spoke
    <2>2. CASE c \in dead
      <3>1. Becomes2(exr, exr', h, c, "err")
        BY <1>8, <2>2, ExrPoint DEF SendPayload
      <3>2. QED
        BY <1>8, <2>2, <3>1 DEF SendPayload, Failed
    <2>3. QED
      BY <2>1, <2>2
  <1>9. \A m \in wire : m.c \in Conn /\ m.from \in Host /\ m.protocols # None
    BY DEF ExchangeTypeOK, Payload
  <1>10. ASSUME NEW h \in Host, NEW m \in wire, ReceivePayload(h, m)
         PROVE  Heard(h, m) \/ Misheard(h, m)
    <2>1. m.c \in Conn /\ m.from \in Host /\ m.from # h
      BY <1>9, <1>10, TwoHosts DEF ReceivePayload
    <2>2. CASE m.type = IF Dialer[m.c] = h THEN "RESPONSE" ELSE "REQUEST"
      <3>1. /\ exr' = [exr EXCEPT ![h][m.c] = IF Dialer[m.c] = h THEN "ok" ELSE "send"]
            /\ got' = [got EXCEPT ![h][m.c] = m.protocols]
        BY <1>10, <2>2 DEF ReceivePayload
      <3>2. /\ Becomes2(exr, exr', h, m.c, IF Dialer[m.c] = h THEN "ok" ELSE "send")
            /\ Becomes2(got, got', h, m.c, m.protocols)
        BY <2>1, <3>1, ExrPoint, GotPoint
      <3>3. QED
        BY <1>10, <2>1, <2>2, <3>2 DEF ReceivePayload, Heard
    <2>3. CASE m.type # IF Dialer[m.c] = h THEN "RESPONSE" ELSE "REQUEST"
      <3>1. exr' = [exr EXCEPT ![h][m.c] = "err"] /\ got' = got
        BY <1>10, <2>3 DEF ReceivePayload
      <3>2. Becomes2(exr, exr', h, m.c, "err")
        BY <2>1, <3>1, ExrPoint
      <3>3. QED
        BY <1>10, <2>1, <2>3, <3>2 DEF ReceivePayload, Misheard
    <2>4. QED
      BY <2>2, <2>3
  <1>11. ASSUME NEW h \in Host, NEW c \in Conn, ReceiveFails(h, c) PROVE Failed(h, c)
    <2>1. Becomes2(exr, exr', h, c, "err")
      BY <1>11, ExrPoint DEF ReceiveFails
    <2>2. QED
      BY <1>11, <2>1 DEF ReceiveFails, Failed
  <1>12. ASSUME NEW h \in Host, NEW x \in Proto, ChangeHandler(h, x) PROVE Registered(h)
    BY <1>12 DEF ChangeHandler, Registered, Becomes, ExchangeTypeOK
  <1>13a. ASSUME NEW h \in Host, NEW c \in Conn, NEW t \in Announcements,
                 SendProtocols(h, c, t), conns[h] # {}, book[h] # None, c \notin dead
          PROVE  /\ h \in overlapped' \/ \A m \in wire : m.type \in Announcements => m.from # h
                 /\ wire' = wire \cup {[c |-> c, from |-> h, type |-> t, protocols |-> handlers[h]]}
                 /\ c \in conns[h]
    BY <1>13a DEF SendProtocols
  <1>13. ASSUME NEW h \in Host, NEW c \in Conn, PushProtocols(h, c)
         PROVE  Pushed(h, c) \/ Dropped(h)
    <2>1. Becomes(pushes, pushes', h, pushes[h] - 1)
      BY <1>13 DEF PushProtocols, Becomes, ExchangeTypeOK
    <2>2. CASE conns[h] # {} /\ book[h] # None /\ c \notin dead
      <3>1. /\ h \in overlapped' \/ \A m \in wire : m.type \in Announcements => m.from # h
            /\ wire' = wire \cup {[c |-> c, from |-> h, type |-> "PUSH", protocols |-> handlers[h]]}
            /\ c \in conns[h]
        BY <1>13, <1>13a, <2>2 DEF PushProtocols, Announcements
      <3>2. QED
        BY <1>13, <2>1, <2>2, <3>1 DEF PushProtocols, Pushed, Becomes, Announcements
    <2>3. CASE ~(conns[h] # {} /\ book[h] # None /\ c \notin dead)
      BY <1>13, <2>1, <2>3 DEF PushProtocols, SendProtocols, Dropped
    <2>4. QED
      BY <2>2, <2>3
  <1>13b. ASSUME NEW h \in Host, NEW c \in Conn, AnswerPush(h, c)
          PROVE  Pushed(h, c) \/ Idled
    <2>1. CASE conns[h] # {} /\ book[h] # None /\ c \notin dead
      <3>1. /\ h \in overlapped' \/ \A m \in wire : m.type \in Announcements => m.from # h
            /\ wire' = wire \cup {[c |-> c, from |-> h, type |-> "PUSH_OK", protocols |-> handlers[h]]}
            /\ c \in conns[h]
        BY <1>13a, <1>13b, <2>1 DEF AnswerPush, Announcements
      <3>2. QED
        BY <1>13b, <2>1, <3>1 DEF AnswerPush, Pushed, Announcements
    <2>2. CASE ~(conns[h] # {} /\ book[h] # None /\ c \notin dead)
      BY <1>13b, <2>2 DEF AnswerPush, SendProtocols, Idled
    <2>3. QED
      BY <2>1, <2>2
  <1>14. ASSUME NEW h \in Host, NEW m \in wire, Handle(h, m)
         PROVE  Stored(h, m) \/ Vanished(m)
    <2>1. m.c \in Conn /\ m.from \in Host /\ m.from # h /\ m.c \in served[h] /\ m.protocols # None
      BY <1>9, <1>14, TwoHosts DEF Handle
    <2>2. CASE m.type \in Announcements
      <3>1. Becomes(book, book', h, m.protocols)
        BY <1>14, <2>2 DEF Handle, Becomes, ExchangeTypeOK
      <3>2. QED
        BY <1>14, <2>1, <2>2, <3>1 DEF Handle, Stored
    <2>3. CASE m.type \notin Announcements
      BY <1>14, <2>1, <2>3 DEF Handle, Vanished, Announcements
    <2>4. QED
      BY <2>2, <2>3
  <1>15. ASSUME NEW m \in wire, Lost(m) PROVE Vanished(m)
    BY <1>9, <1>15 DEF Lost, Vanished
  <1>16. ASSUME NEW h \in Host, NEW c \in Conn, Closing(h, c) PROVE Closed(h, c)
    BY <1>16 DEF Closing, Closed, Becomes, ExchangeTypeOK
  <1>17. ASSUME NEW h \in Host, NewStep(h) PROVE Change
    <2>1. step[h] # "idle"
      BY <1>17 DEF NewStep, Reject, Decide, ExchangeDone, ExchangeTimeout, Add, SetBook, Serve
    <2>2. cur[h] \in Conn
      BY <1>0, <2>1 DEF Walked
    <2>3. QED
      BY <1>2a, <1>2, <1>4, <1>5, <1>6, <1>7, <1>17, <2>2 DEF NewStep, Change
  <1>18. ASSUME NEW h \in Host, NEW c \in Conn, ExchangeStep(h, c) PROVE Change
    BY <1>8, <1>10, <1>11, <1>18 DEF ExchangeStep, Change
  <1>19. ASSUME NEW h \in Host, NEW c \in Conn,
                AcceptConn(h, c) \/ PushProtocols(h, c) \/ AnswerPush(h, c) \/ Closing(h, c)
         PROVE  Change
    BY <1>1, <1>13, <1>13b, <1>16, <1>19 DEF Change
  <1>20. ASSUME NEW h \in Host, NEW x \in Proto, ChangeHandler(h, x) PROVE Change
    BY <1>12, <1>20 DEF Change
  <1>21. ASSUME NEW h \in Host, NEW m \in wire, Handle(h, m) \/ Lost(m) PROVE Change
    BY <1>14, <1>15, <1>21 DEF Change
  <1>22. ASSUME UNCHANGED exchangeVars PROVE Change
    <2>1. Idled
      BY <1>22 DEF exchangeVars, Idled
    <2>2. QED
      BY <2>1 DEF Change
  <1>23. Change
    <2>1. CASE ExchangeNext
      <3>1. PICK h \in Host :
              \/ NewStep(h)
              \/ \E c \in Conn : \/ AcceptConn(h, c) \/ ExchangeStep(h, c) \/ Closing(h, c)
                                  \/ PushProtocols(h, c) \/ AnswerPush(h, c)
              \/ \E x \in Proto : ChangeHandler(h, x)
              \/ \E m \in wire : Handle(h, m) \/ Lost(m)
        BY <2>1 DEF ExchangeNext
      <3>2. QED
        BY <1>17, <1>18, <1>19, <1>20, <1>21, <3>1
    <2>2. QED
      BY <1>22, <2>1
  \* only SendProtocols touches the history, and adds to it
  <1>24. ASSUME NEW h \in Host, NEW c \in Conn, PushProtocols(h, c) \/ AnswerPush(h, c)
         PROVE  overlapped \subseteq overlapped'
    BY <1>24 DEF PushProtocols, AnswerPush, SendProtocols
  <1>25. ASSUME NEW h \in Host, NewStep(h) PROVE overlapped' = overlapped
    BY <1>25 DEF NewStep, Reject, Decide, ExchangeDone, ExchangeTimeout, Add, SetBook, Serve
  <1>26. ASSUME NEW h \in Host, NEW c \in Conn,
                ExchangeStep(h, c) \/ AcceptConn(h, c) \/ Closing(h, c)
         PROVE  overlapped' = overlapped
    BY <1>26 DEF ExchangeStep, SendPayload, ReceivePayload, ReceiveFails, AcceptConn, Closing
  <1>27. ASSUME NEW h \in Host, NEW x \in Proto, ChangeHandler(h, x) PROVE overlapped' = overlapped
    BY <1>27 DEF ChangeHandler
  <1>28. ASSUME NEW h \in Host, NEW m \in wire, Handle(h, m) \/ Lost(m) PROVE overlapped' = overlapped
    BY <1>28 DEF Handle, Lost
  <1>29. overlapped \subseteq overlapped'
    BY <1>24, <1>25, <1>26, <1>27, <1>28 DEF ExchangeNext, exchangeVars
  <1>30. QED
    BY <1>23, <1>29 DEF Effect

-----------------------------------------------------------------------------
\* handleNewConnection of h has let c pass: it has decided, and exchanged the
\* protocols if it had to, or has given the connection up.
Past(h, c) == c \in seen[h] /\ ~(cur[h] = c /\ step[h] \in {"decide", "exchange"})

\* The host has used c: it has entered the manager, at some time.
In(h, c) == c \in conns[h] \/ c \in served[h] \/ (cur[h] = c /\ step[h] \in {"book", "serve"})

\* Where handleNewConnection is tells what has become of its connection.
Handling ==
  \A h \in Host :
    /\ cur[h] # None => cur[h] \notin served[h]
    /\ step[h] \in {"decide", "exchange", "add"} => cur[h] \notin conns[h]
    /\ step[h] = "decide" => exr[h][cur[h]] = "none"
    /\ step[h] = "exchange" => exr[h][cur[h]] # "none" /\ conns[h] = {}
    /\ step[h] \in {"add", "book", "serve"} =>
         IF rProtocols[h] = None THEN exr[h][cur[h]] = "none"
         ELSE exr[h][cur[h]] = "ok" /\ rProtocols[h] = got[h][cur[h]]
    /\ step[h] \notin {"add", "book", "serve"} => rProtocols[h] = None
    /\ rProtocols[h] # None => conns[h] \subseteq {cur[h]}
    /\ step[h] = "book" => rProtocols[h] # None
    /\ conns[h] \subseteq served[h] \cup {cur[h]}
    /\ served[h] \subseteq seen[h]
    /\ \A c \in Conn : c \notin seen[h] => exr[h][c] = "none"

\* What was registered when the exchange began is registered still.
Growing ==
  \A h \in Host : step[h] # "decide" /\ cur[h] # None /\ exr[h][cur[h]] # "none"
                    => myProtocolsLength[h] <= Cardinality(handlers[h])

\* The acceptor answers what the dialer has asked.
Replies ==
  \A c \in Conn : \A D, R \in Host : D = Dialer[c] /\ R # D =>
       /\ exr[D][c] = "ok" => exr[R][c] = "ok"
       /\ exr[R][c] \in {"send", "ok"} => exr[D][c] \in {"receive", "ok", "err"}
\* A payload of an exchange is from a host that has told its protocols.
Payloads ==
  \A m \in wire :
       /\ m.type = "REQUEST" => m.from = Dialer[m.c] /\ exr[m.from][m.c] \in {"receive", "ok", "err"}
       /\ m.type = "RESPONSE" => m.from # Dialer[m.c] /\ exr[m.from][m.c] = "ok"

\* Over a connection that lives, a goroutine is waited for or has succeeded.
Attended ==
  \A h \in Host : \A c \in Conn : c \notin dead /\ exr[h][c] # "none" =>
       (cur[h] = c /\ step[h] = "exchange") \/ (Past(h, c) /\ exr[h][c] = "ok")

\* Of a host whose announcements have not overlapped, at most one is under
\* way; each is on a connection the host has used.
OnePush ==
  \A m, n \in wire :
    m.type \in Announcements /\ n.type \in Announcements /\ m.from = n.from /\ m.from \notin overlapped
      => m = n
PushUsed ==
  \A m \in wire : m.type \in Announcements =>
       /\ Past(m.from, m.c) /\ (In(m.from, m.c) \/ m.c \in dead)
       /\ \A g \in Host : g # m.from /\ In(g, m.c) => m.c \notin dead

\* The exchange of h over c has succeeded, and c lives.
Up(h, c) == c \notin dead /\ Past(h, c) /\ exr[h][c] = "ok"
\* SetSupportedProtocolsOfPeer has been called for it.
PastBook(h, c) == Past(h, c) /\ ~(cur[h] = c /\ step[h] \in {"add", "book"})

\* After it, the host exchanges no more and forgets no connection.
Established ==
  \A h \in Host : \A c \in Conn : Up(h, c) =>
    /\ c \in conns[h] \/ (cur[h] = c /\ step[h] = "add")
    /\ conns[h] \cap dead = {} /\ step[h] # "exchange"
    /\ rProtocols[h] # None => cur[h] = c
    /\ PastBook(h, c) => book[h] # None

\* Two hosts with connections have exchanged.
Has(h) == conns[h] # {} \/ (step[h] = "add" /\ exr[h][cur[h]] = "none")
Introduced ==
  (\A h \in Host : Has(h)) => \E c \in Conn : \A h \in Host : Up(h, c)

\* What the type gives, host by host
Basics ==
  /\ None \notin Conn
  /\ \A f, g, h \in Host : f = g \/ g = h \/ f = h
  /\ \A c \in Conn : Dialer[c] \in Host
  /\ \A h \in Host : /\ cur[h] # None => cur[h] \in Conn /\ cur[h] \in seen[h]
                     /\ step[h] = "idle" <=> cur[h] = None
                     /\ step[h] \in {"idle", "decide", "exchange", "add", "book", "serve"}
                     /\ conns[h] \subseteq Conn /\ served[h] \subseteq Conn /\ seen[h] \subseteq Conn
  /\ \A m \in wire : m.c \in Conn /\ m.from \in Host /\ m.type \in {"REQUEST", "RESPONSE"} \cup Announcements
  /\ \A h \in Host : IsFiniteSet(handlers[h]) /\ Cardinality(handlers[h]) \in Nat
                       /\ myProtocolsLength[h] \in Nat /\ pushes[h] \in Nat

LEMMA BasicsHold == ASSUME ExchangeTypeInv PROVE Basics
  <1>1. \A h \in Host : IsFiniteSet(handlers[h]) /\ Cardinality(handlers[h]) \in 0 .. Cardinality(Proto)
    BY HandlersCounted DEF ExchangeTypeInv, ExchangeTypeOK
  <1>2. Cardinality(Proto) \in Nat /\ Cardinality(Conn) \in Nat
    BY HostAssumption, FS_CardinalityType
  <1>3. \A h \in Host : Cardinality(handlers[h]) \in Nat /\ myProtocolsLength[h] \in Nat
    BY <1>1 DEF ExchangeTypeInv, ExchangeTypeOK
  <1>4. \A h \in Host : pushes[h] \in Nat
    BY DEF ExchangeTypeInv, ExchangeTypeOK
  <1>5. \A m \in wire : m.c \in Conn /\ m.from \in Host /\ m.type \in {"REQUEST", "RESPONSE"} \cup Announcements
    BY DEF ExchangeTypeInv, ExchangeTypeOK, Payload
  <1>6. \A f, g, h \in Host : f = g \/ g = h \/ f = h
    BY TwoHosts
  <1>7. QED
    BY <1>1, <1>5, <1>6, HostAssumption DEF Basics, ExchangeTypeInv, ExchangeTypeOK, Walked

\* Without UnregisterMsgPayloadHandler, the number of handlers tells of every change.
LEMMA HandlersGrow ==
  ASSUME Basics, NEW h \in Host, Registered(h)
  PROVE  Cardinality(handlers'[h]) = Cardinality(handlers[h]) + 1
  <1>1. PICK x \in Proto : x \notin handlers[h] /\ handlers'[h] = handlers[h] \cup {x}
    BY DEF Registered, Becomes
  <1>2. IsFiniteSet(handlers[h])
    BY DEF Basics
  <1>3. Cardinality(handlers[h] \cup {x}) = Cardinality(handlers[h]) + 1
    BY <1>1, <1>2, FS_AddElement
  <1>4. QED
    BY <1>1, <1>3

\* Each part of the invariant survives each effect.
LEMMA HandlingStep ==
  ASSUME Basics, Handling, Effect
  PROVE  Handling'
  <1>1. ASSUME NEW h \in Host, Skipped(h) PROVE Handling'
    BY <1>1 DEF Skipped, Becomes, Handling
  <1>2. ASSUME NEW h \in Host, Booked(h) PROVE Handling'
    BY <1>2 DEF Booked, Becomes, Handling
  <1>3. ASSUME NEW h \in Host, Registered(h) PROVE Handling'
    BY <1>3 DEF Registered, Handling
  <1>4. ASSUME NEW h \in Host, Dropped(h) PROVE Handling'
    BY <1>4 DEF Dropped, Handling
  <1>5. ASSUME NEW h \in Host, NEW c \in Conn, Took(h, c) PROVE Handling'
    BY <1>5 DEF Took, Becomes, Basics, Handling
  <1>6. ASSUME NEW h \in Host, NEW c \in Conn, Began(h, c) PROVE Handling'
    BY <1>6 DEF Began, Becomes, Becomes2, Basics, Handling
  <1>7. ASSUME NEW h \in Host, NEW c \in Conn, Went(h, c) PROVE Handling'
    BY <1>7 DEF Went, Becomes, Handling
  <1>8. ASSUME NEW h \in Host, NEW c \in Conn, GaveUp(h, c) PROVE Handling'
    BY <1>8 DEF GaveUp, Returned, Becomes, Handling
  <1>9. ASSUME NEW h \in Host, NEW c \in Conn, Refused(h, c) PROVE Handling'
    BY <1>9 DEF Refused, Returned, Becomes, Handling
  <1>10. ASSUME NEW h \in Host, NEW c \in Conn, Added(h, c) PROVE Handling'
    BY <1>10 DEF Added, Becomes, Handling
  <1>11. ASSUME NEW h \in Host, NEW c \in Conn, Finished(h, c) PROVE Handling'
    BY <1>11 DEF Finished, Returned, Becomes, Basics, Handling
  <1>12. ASSUME NEW h \in Host, NEW c \in Conn, Spoke(h, c) PROVE Handling'
    BY <1>12 DEF Spoke, Becomes2, Basics, Handling
  <1>13. ASSUME NEW h \in Host, NEW c \in Conn, Failed(h, c) PROVE Handling'
    BY <1>13 DEF Failed, Becomes2, Basics, Handling
  <1>14. ASSUME NEW h \in Host, NEW c \in Conn, Pushed(h, c) PROVE Handling'
    BY <1>14 DEF Pushed, Handling
  <1>15. ASSUME NEW h \in Host, NEW c \in Conn, Closed(h, c) PROVE Handling'
    BY <1>15 DEF Closed, Becomes, Handling
  <1>16. ASSUME NEW h \in Host, NEW m \in wire, Heard(h, m) PROVE Handling'
    BY <1>16 DEF Heard, Becomes2, Basics, Handling
  <1>17. ASSUME NEW h \in Host, NEW m \in wire, Misheard(h, m) PROVE Handling'
    BY <1>17 DEF Misheard, Becomes2, Basics, Handling
  <1>18. ASSUME NEW h \in Host, NEW m \in wire, Stored(h, m) PROVE Handling'
    BY <1>18 DEF Stored, Handling
  <1>19. ASSUME NEW m \in wire, Vanished(m) PROVE Handling'
    BY <1>19 DEF Vanished, Handling
  <1>20. CASE Idled
    BY <1>20 DEF Idled, Handling
  <1>21. QED
    BY <1>1, <1>2, <1>3, <1>4, <1>5, <1>6, <1>7, <1>8, <1>9, <1>10, <1>11, <1>12, <1>13,
       <1>14, <1>15, <1>16, <1>17, <1>18, <1>19, <1>20
       DEF Effect, Change

LEMMA GrowingStep ==
  ASSUME Basics, Basics', Growing, Handling, Effect
  PROVE  Growing'
  <1>1. ASSUME NEW h \in Host, Skipped(h) PROVE Growing'
    BY <1>1 DEF Skipped, Growing, Handling
  <1>2. ASSUME NEW h \in Host, Booked(h) PROVE Growing'
    BY <1>2 DEF Booked, Growing, Handling
  <1>3. ASSUME NEW h \in Host, Registered(h) PROVE Growing'
    <2>1. \A g \in Host : Cardinality(handlers[g]) <= Cardinality(handlers'[g])
      <3> SUFFICES ASSUME NEW g \in Host
                   PROVE  Cardinality(handlers[g]) <= Cardinality(handlers'[g])
        OBVIOUS
      <3>1. Cardinality(handlers[g]) \in Nat
        BY DEF Basics
      <3>2. g = h \/ handlers'[g] = handlers[g]
        BY <1>3 DEF Registered, Becomes
      <3>3. QED
        BY <1>3, <3>1, <3>2, HandlersGrow
    <2>2. /\ step' = step /\ cur' = cur /\ exr' = exr /\ myProtocolsLength' = myProtocolsLength
      BY <1>3 DEF Registered
    <2>3. QED
      BY <2>1, <2>2 DEF Growing, Basics
  <1>4. ASSUME NEW h \in Host, Dropped(h) PROVE Growing'
    BY <1>4 DEF Dropped, Growing
  <1>5. ASSUME NEW h \in Host, NEW c \in Conn, Took(h, c) PROVE Growing'
    BY <1>5 DEF Took, Becomes, Growing
  <1>6. ASSUME NEW h \in Host, NEW c \in Conn, Began(h, c) PROVE Growing'
    BY <1>6 DEF Began, Becomes, Becomes2, Basics, Growing
  <1>7. ASSUME NEW h \in Host, NEW c \in Conn, Went(h, c) PROVE Growing'
    BY <1>7 DEF Went, Growing, Handling
  <1>8. ASSUME NEW h \in Host, NEW c \in Conn, GaveUp(h, c) PROVE Growing'
    BY <1>8 DEF GaveUp, Returned, Becomes, Growing
  <1>9. ASSUME NEW h \in Host, NEW c \in Conn, Refused(h, c) PROVE Growing'
    BY <1>9 DEF Refused, Returned, Becomes, Growing
  <1>10. ASSUME NEW h \in Host, NEW c \in Conn, Added(h, c) PROVE Growing'
    BY <1>10 DEF Added, Growing, Handling
  <1>11. ASSUME NEW h \in Host, NEW c \in Conn, Finished(h, c) PROVE Growing'
    BY <1>11 DEF Finished, Returned, Becomes, Growing
  <1>12. ASSUME NEW h \in Host, NEW c \in Conn, Spoke(h, c) PROVE Growing'
    BY <1>12 DEF Spoke, Becomes2, Basics, Growing
  <1>13. ASSUME NEW h \in Host, NEW c \in Conn, Failed(h, c) PROVE Growing'
    BY <1>13 DEF Failed, Becomes2, Basics, Growing
  <1>14. ASSUME NEW h \in Host, NEW c \in Conn, Pushed(h, c) PROVE Growing'
    BY <1>14 DEF Pushed, Growing
  <1>15. ASSUME NEW h \in Host, NEW c \in Conn, Closed(h, c) PROVE Growing'
    BY <1>15 DEF Closed, Growing
  <1>16. ASSUME NEW h \in Host, NEW m \in wire, Heard(h, m) PROVE Growing'
    BY <1>16 DEF Heard, Becomes2, Basics, Growing
  <1>17. ASSUME NEW h \in Host, NEW m \in wire, Misheard(h, m) PROVE Growing'
    BY <1>17 DEF Misheard, Becomes2, Basics, Growing
  <1>18. ASSUME NEW h \in Host, NEW m \in wire, Stored(h, m) PROVE Growing'
    BY <1>18 DEF Stored, Growing
  <1>19. ASSUME NEW m \in wire, Vanished(m) PROVE Growing'
    BY <1>19 DEF Vanished, Growing
  <1>20. CASE Idled
    BY <1>20 DEF Idled, Growing
  <1>21. QED
    BY <1>1, <1>2, <1>3, <1>4, <1>5, <1>6, <1>7, <1>8, <1>9, <1>10, <1>11, <1>12, <1>13,
       <1>14, <1>15, <1>16, <1>17, <1>18, <1>19, <1>20
       DEF Effect, Change

LEMMA RepliesStep ==
  ASSUME Basics, Replies, Handling, Payloads, Effect
  PROVE  Replies'
  <1>1. ASSUME NEW h \in Host, Skipped(h) PROVE Replies'
    BY <1>1 DEF Skipped, Replies
  <1>2. ASSUME NEW h \in Host, Booked(h) PROVE Replies'
    BY <1>2 DEF Booked, Replies
  <1>3. ASSUME NEW h \in Host, Registered(h) PROVE Replies'
    BY <1>3 DEF Registered, Replies
  <1>4. ASSUME NEW h \in Host, Dropped(h) PROVE Replies'
    BY <1>4 DEF Dropped, Replies
  <1>5. ASSUME NEW h \in Host, NEW c \in Conn, Took(h, c) PROVE Replies'
    BY <1>5 DEF Took, Replies
  <1>6. ASSUME NEW h \in Host, NEW c \in Conn, Began(h, c) PROVE Replies'
    BY <1>6 DEF Began, Becomes2, Replies, Handling
  <1>7. ASSUME NEW h \in Host, NEW c \in Conn, Went(h, c) PROVE Replies'
    BY <1>7 DEF Went, Replies
  <1>8. ASSUME NEW h \in Host, NEW c \in Conn, GaveUp(h, c) PROVE Replies'
    BY <1>8 DEF GaveUp, Replies
  <1>9. ASSUME NEW h \in Host, NEW c \in Conn, Refused(h, c) PROVE Replies'
    BY <1>9 DEF Refused, Replies
  <1>10. ASSUME NEW h \in Host, NEW c \in Conn, Added(h, c) PROVE Replies'
    BY <1>10 DEF Added, Replies
  <1>11. ASSUME NEW h \in Host, NEW c \in Conn, Finished(h, c) PROVE Replies'
    BY <1>11 DEF Finished, Replies
  <1>12. ASSUME NEW h \in Host, NEW c \in Conn, Spoke(h, c) PROVE Replies'
    BY <1>12 DEF Spoke, Becomes2, Replies
  <1>13. ASSUME NEW h \in Host, NEW c \in Conn, Failed(h, c) PROVE Replies'
    BY <1>13 DEF Failed, Becomes2, Replies
  <1>14. ASSUME NEW h \in Host, NEW c \in Conn, Pushed(h, c) PROVE Replies'
    BY <1>14 DEF Pushed, Replies
  <1>15. ASSUME NEW h \in Host, NEW c \in Conn, Closed(h, c) PROVE Replies'
    BY <1>15 DEF Closed, Replies
  <1>16. ASSUME NEW h \in Host, NEW m \in wire, Heard(h, m) PROVE Replies'
    BY <1>16 DEF Heard, Becomes2, Basics, Replies, Payloads
  <1>17. ASSUME NEW h \in Host, NEW m \in wire, Misheard(h, m) PROVE Replies'
    BY <1>17 DEF Misheard, Becomes2, Replies
  <1>18. ASSUME NEW h \in Host, NEW m \in wire, Stored(h, m) PROVE Replies'
    BY <1>18 DEF Stored, Replies
  <1>19. ASSUME NEW m \in wire, Vanished(m) PROVE Replies'
    BY <1>19 DEF Vanished, Replies
  <1>20. CASE Idled
    BY <1>20 DEF Idled, Replies
  <1>21. QED
    BY <1>1, <1>2, <1>3, <1>4, <1>5, <1>6, <1>7, <1>8, <1>9, <1>10, <1>11, <1>12, <1>13,
       <1>14, <1>15, <1>16, <1>17, <1>18, <1>19, <1>20
       DEF Effect, Change

LEMMA PayloadsStep ==
  ASSUME Basics, Payloads, Handling, Effect
  PROVE  Payloads'
  <1>1. ASSUME NEW h \in Host, Skipped(h) PROVE Payloads'
    BY <1>1 DEF Skipped, Payloads
  <1>2. ASSUME NEW h \in Host, Booked(h) PROVE Payloads'
    BY <1>2 DEF Booked, Payloads
  <1>3. ASSUME NEW h \in Host, Registered(h) PROVE Payloads'
    BY <1>3 DEF Registered, Payloads
  <1>4. ASSUME NEW h \in Host, Dropped(h) PROVE Payloads'
    BY <1>4 DEF Dropped, Payloads
  <1>5. ASSUME NEW h \in Host, NEW c \in Conn, Took(h, c) PROVE Payloads'
    BY <1>5 DEF Took, Payloads
  <1>6. ASSUME NEW h \in Host, NEW c \in Conn, Began(h, c) PROVE Payloads'
    BY <1>6 DEF Began, Becomes2, Basics, Payloads, Handling
  <1>7. ASSUME NEW h \in Host, NEW c \in Conn, Went(h, c) PROVE Payloads'
    BY <1>7 DEF Went, Payloads
  <1>8. ASSUME NEW h \in Host, NEW c \in Conn, GaveUp(h, c) PROVE Payloads'
    BY <1>8 DEF GaveUp, Payloads
  <1>9. ASSUME NEW h \in Host, NEW c \in Conn, Refused(h, c) PROVE Payloads'
    BY <1>9 DEF Refused, Payloads
  <1>10. ASSUME NEW h \in Host, NEW c \in Conn, Added(h, c) PROVE Payloads'
    BY <1>10 DEF Added, Payloads
  <1>11. ASSUME NEW h \in Host, NEW c \in Conn, Finished(h, c) PROVE Payloads'
    BY <1>11 DEF Finished, Payloads
  <1>12. ASSUME NEW h \in Host, NEW c \in Conn, Spoke(h, c) PROVE Payloads'
    BY <1>12 DEF Spoke, Becomes2, Basics, Payloads
  <1>13. ASSUME NEW h \in Host, NEW c \in Conn, Failed(h, c) PROVE Payloads'
    BY <1>13 DEF Failed, Becomes2, Basics, Payloads
  <1>14. ASSUME NEW h \in Host, NEW c \in Conn, Pushed(h, c) PROVE Payloads'
    BY <1>14 DEF Pushed, Payloads, Announcements
  <1>15. ASSUME NEW h \in Host, NEW c \in Conn, Closed(h, c) PROVE Payloads'
    BY <1>15 DEF Closed, Payloads
  <1>16. ASSUME NEW h \in Host, NEW m \in wire, Heard(h, m) PROVE Payloads'
    BY <1>16 DEF Heard, Becomes2, Basics, Payloads
  <1>17. ASSUME NEW h \in Host, NEW m \in wire, Misheard(h, m) PROVE Payloads'
    BY <1>17 DEF Misheard, Becomes2, Basics, Payloads
  <1>18. ASSUME NEW h \in Host, NEW m \in wire, Stored(h, m) PROVE Payloads'
    BY <1>18 DEF Stored, Payloads
  <1>19. ASSUME NEW m \in wire, Vanished(m) PROVE Payloads'
    BY <1>19 DEF Vanished, Payloads
  <1>20. CASE Idled
    BY <1>20 DEF Idled, Payloads
  <1>21. QED
    BY <1>1, <1>2, <1>3, <1>4, <1>5, <1>6, <1>7, <1>8, <1>9, <1>10, <1>11, <1>12, <1>13,
       <1>14, <1>15, <1>16, <1>17, <1>18, <1>19, <1>20
       DEF Effect, Change

LEMMA AttendedStep ==
  ASSUME Basics, Attended, Handling, Effect
  PROVE  Attended'
  <1>1. ASSUME NEW h \in Host, Skipped(h) PROVE Attended'
    BY <1>1 DEF Skipped, Becomes, Attended, Past
  <1>2. ASSUME NEW h \in Host, Booked(h) PROVE Attended'
    BY <1>2 DEF Booked, Becomes, Attended, Past
  <1>3. ASSUME NEW h \in Host, Registered(h) PROVE Attended'
    BY <1>3 DEF Registered, Attended, Past
  <1>4. ASSUME NEW h \in Host, Dropped(h) PROVE Attended'
    BY <1>4 DEF Dropped, Attended, Past
  <1>5. ASSUME NEW h \in Host, NEW c \in Conn, Took(h, c) PROVE Attended'
    BY <1>5 DEF Took, Becomes, Basics, Attended, Past
  <1>6. ASSUME NEW h \in Host, NEW c \in Conn, Began(h, c) PROVE Attended'
    BY <1>6 DEF Began, Becomes, Becomes2, Attended, Past
  <1>7. ASSUME NEW h \in Host, NEW c \in Conn, Went(h, c) PROVE Attended'
    BY <1>7 DEF Went, Becomes, Attended, Past, Handling
  <1>8. ASSUME NEW h \in Host, NEW c \in Conn, GaveUp(h, c) PROVE Attended'
    BY <1>8 DEF GaveUp, Returned, Becomes, Attended, Past
  <1>9. ASSUME NEW h \in Host, NEW c \in Conn, Refused(h, c) PROVE Attended'
    BY <1>9 DEF Refused, Returned, Becomes, Attended, Past
  <1>10. ASSUME NEW h \in Host, NEW c \in Conn, Added(h, c) PROVE Attended'
    BY <1>10 DEF Added, Becomes, Attended, Past
  <1>11. ASSUME NEW h \in Host, NEW c \in Conn, Finished(h, c) PROVE Attended'
    BY <1>11 DEF Finished, Returned, Becomes, Attended, Past
  <1>12. ASSUME NEW h \in Host, NEW c \in Conn, Spoke(h, c) PROVE Attended'
    BY <1>12 DEF Spoke, Becomes2, Attended, Past
  <1>13. ASSUME NEW h \in Host, NEW c \in Conn, Failed(h, c) PROVE Attended'
    BY <1>13 DEF Failed, Becomes2, Attended, Past
  <1>14. ASSUME NEW h \in Host, NEW c \in Conn, Pushed(h, c) PROVE Attended'
    BY <1>14 DEF Pushed, Attended, Past
  <1>15. ASSUME NEW h \in Host, NEW c \in Conn, Closed(h, c) PROVE Attended'
    BY <1>15 DEF Closed, Attended, Past
  <1>16. ASSUME NEW h \in Host, NEW m \in wire, Heard(h, m) PROVE Attended'
    BY <1>16 DEF Heard, Becomes2, Attended, Past
  <1>17. ASSUME NEW h \in Host, NEW m \in wire, Misheard(h, m) PROVE Attended'
    BY <1>17 DEF Misheard, Becomes2, Attended, Past
  <1>18. ASSUME NEW h \in Host, NEW m \in wire, Stored(h, m) PROVE Attended'
    BY <1>18 DEF Stored, Attended, Past
  <1>19. ASSUME NEW m \in wire, Vanished(m) PROVE Attended'
    BY <1>19 DEF Vanished, Attended, Past
  <1>20. CASE Idled
    BY <1>20 DEF Idled, Attended, Past
  <1>21. QED
    BY <1>1, <1>2, <1>3, <1>4, <1>5, <1>6, <1>7, <1>8, <1>9, <1>10, <1>11, <1>12, <1>13,
       <1>14, <1>15, <1>16, <1>17, <1>18, <1>19, <1>20
       DEF Effect, Change

LEMMA OnePushStep ==
  ASSUME Basics, OnePush, Effect
  PROVE  OnePush'
  <1>0. overlapped \subseteq overlapped'
    BY DEF Effect
  <1> USE <1>0
  <1>1. ASSUME NEW h \in Host, Skipped(h) PROVE OnePush'
    BY <1>1 DEF Skipped, OnePush
  <1>2. ASSUME NEW h \in Host, Booked(h) PROVE OnePush'
    BY <1>2 DEF Booked, OnePush
  <1>3. ASSUME NEW h \in Host, Registered(h) PROVE OnePush'
    BY <1>3 DEF Registered, OnePush
  <1>4. ASSUME NEW h \in Host, Dropped(h) PROVE OnePush'
    BY <1>4 DEF Dropped, OnePush
  <1>5. ASSUME NEW h \in Host, NEW c \in Conn, Took(h, c) PROVE OnePush'
    BY <1>5 DEF Took, OnePush
  <1>6. ASSUME NEW h \in Host, NEW c \in Conn, Began(h, c) PROVE OnePush'
    BY <1>6 DEF Began, OnePush
  <1>7. ASSUME NEW h \in Host, NEW c \in Conn, Went(h, c) PROVE OnePush'
    BY <1>7 DEF Went, OnePush
  <1>8. ASSUME NEW h \in Host, NEW c \in Conn, GaveUp(h, c) PROVE OnePush'
    BY <1>8 DEF GaveUp, OnePush
  <1>9. ASSUME NEW h \in Host, NEW c \in Conn, Refused(h, c) PROVE OnePush'
    BY <1>9 DEF Refused, OnePush
  <1>10. ASSUME NEW h \in Host, NEW c \in Conn, Added(h, c) PROVE OnePush'
    BY <1>10 DEF Added, OnePush
  <1>11. ASSUME NEW h \in Host, NEW c \in Conn, Finished(h, c) PROVE OnePush'
    BY <1>11 DEF Finished, OnePush
  <1>12. ASSUME NEW h \in Host, NEW c \in Conn, Spoke(h, c) PROVE OnePush'
    BY <1>12 DEF Spoke, OnePush, Announcements
  <1>13. ASSUME NEW h \in Host, NEW c \in Conn, Failed(h, c) PROVE OnePush'
    BY <1>13 DEF Failed, OnePush
  <1>14. ASSUME NEW h \in Host, NEW c \in Conn, Pushed(h, c) PROVE OnePush'
    BY <1>14 DEF Pushed, OnePush
  <1>15. ASSUME NEW h \in Host, NEW c \in Conn, Closed(h, c) PROVE OnePush'
    BY <1>15 DEF Closed, OnePush
  <1>16. ASSUME NEW h \in Host, NEW m \in wire, Heard(h, m) PROVE OnePush'
    BY <1>16 DEF Heard, OnePush
  <1>17. ASSUME NEW h \in Host, NEW m \in wire, Misheard(h, m) PROVE OnePush'
    BY <1>17 DEF Misheard, OnePush
  <1>18. ASSUME NEW h \in Host, NEW m \in wire, Stored(h, m) PROVE OnePush'
    BY <1>18 DEF Stored, OnePush
  <1>19. ASSUME NEW m \in wire, Vanished(m) PROVE OnePush'
    BY <1>19 DEF Vanished, OnePush
  <1>20. CASE Idled
    BY <1>20 DEF Idled, OnePush
  <1>21. QED
    BY <1>1, <1>2, <1>3, <1>4, <1>5, <1>6, <1>7, <1>8, <1>9, <1>10, <1>11, <1>12, <1>13,
       <1>14, <1>15, <1>16, <1>17, <1>18, <1>19, <1>20
       DEF Effect, Change

LEMMA PushUsedStep ==
  ASSUME Basics, Basics', PushUsed, Handling, Effect
  PROVE  PushUsed'
  <1>1. ASSUME NEW h \in Host, Skipped(h) PROVE PushUsed'
    BY <1>1 DEF Skipped, Becomes, Basics, PushUsed, Past, In
  <1>2. ASSUME NEW h \in Host, Booked(h) PROVE PushUsed'
    BY <1>2 DEF Booked, Becomes, Basics, PushUsed, Past, In
  <1>3. ASSUME NEW h \in Host, Registered(h) PROVE PushUsed'
    BY <1>3 DEF Registered, PushUsed, Past, In
  <1>4. ASSUME NEW h \in Host, Dropped(h) PROVE PushUsed'
    BY <1>4 DEF Dropped, PushUsed, Past, In
  <1>5. ASSUME NEW h \in Host, NEW c \in Conn, Took(h, c) PROVE PushUsed'
    BY <1>5 DEF Took, Becomes, Basics, PushUsed, Past, In
  <1>6. ASSUME NEW h \in Host, NEW c \in Conn, Began(h, c) PROVE PushUsed'
    BY <1>6 DEF Began, Becomes, Basics, PushUsed, Past, In
  <1>7. ASSUME NEW h \in Host, NEW c \in Conn, Went(h, c) PROVE PushUsed'
    BY <1>7 DEF Went, Becomes, Basics, PushUsed, Past, In
  <1>8. ASSUME NEW h \in Host, NEW c \in Conn, GaveUp(h, c) PROVE PushUsed'
    <2> SUFFICES ASSUME NEW m \in wire, m.type \in Announcements,
                        ~ /\ Past(m.from, m.c)' /\ (In(m.from, m.c)' \/ m.c \in dead')
                          /\ \A g \in Host : g # m.from /\ In(g, m.c)' => m.c \notin dead'
                 PROVE FALSE
      BY <1>8 DEF GaveUp, PushUsed
    <2>1. Past(m.from, m.c)'
      BY <1>8 DEF GaveUp, Returned, Becomes, Basics, PushUsed, Past
    <2>2. In(m.from, m.c)' \/ m.c \in dead'
      BY <1>8 DEF GaveUp, Returned, Becomes, Basics, PushUsed, In
    <2>3. PICK g \in Host : g # m.from /\ In(g, m.c)' /\ m.c \in dead'
      BY <2>1, <2>2
    <2>4. In(g, m.c)
      BY <1>8, <2>3 DEF GaveUp, Returned, Becomes, In
    <2>5. m.c = c
      BY <1>8, <2>3, <2>4 DEF GaveUp, PushUsed
    <2>6. m.from # h
      BY <1>8, <2>5 DEF GaveUp, PushUsed, Past
    <2>7. g = h
      BY <2>3, <2>6 DEF Basics
    <2>8. QED
      BY <1>8, <2>4, <2>5, <2>7 DEF GaveUp, In, Handling, Basics
  <1>9. ASSUME NEW h \in Host, NEW c \in Conn, Refused(h, c) PROVE PushUsed'
    BY <1>9 DEF Refused, Returned, Becomes, Basics, PushUsed, Past, In
  <1>10. ASSUME NEW h \in Host, NEW c \in Conn, Added(h, c) PROVE PushUsed'
    BY <1>10 DEF Added, Becomes, Basics, PushUsed, Past, In
  <1>11. ASSUME NEW h \in Host, NEW c \in Conn, Finished(h, c) PROVE PushUsed'
    BY <1>11 DEF Finished, Returned, Becomes, Basics, PushUsed, Past, In
  <1>12. ASSUME NEW h \in Host, NEW c \in Conn, Spoke(h, c) PROVE PushUsed'
    BY <1>12 DEF Spoke, PushUsed, Past, In, Announcements
  <1>13. ASSUME NEW h \in Host, NEW c \in Conn, Failed(h, c) PROVE PushUsed'
    BY <1>13 DEF Failed, PushUsed, Past, In
  <1>14. ASSUME NEW h \in Host, NEW c \in Conn, Pushed(h, c) PROVE PushUsed'
    BY <1>14 DEF Pushed, Basics, PushUsed, Past, In, Handling
  <1>15. ASSUME NEW h \in Host, NEW c \in Conn, Closed(h, c) PROVE PushUsed'
    <2>1. \A g \in Host : \A d \in Conn : In(g, d)' => In(g, d)
      BY <1>15 DEF Closed, Becomes, In
    <2>2. \A g \in Host : \A d \in Conn : In(g, d) => In(g, d)' \/ d \in dead
      BY <1>15 DEF Closed, Becomes, In, Handling, Basics
    <2>3. \A g \in Host : \A d \in Conn : Past(g, d) => Past(g, d)'
      BY <1>15 DEF Closed, Past
    <2>4. QED
      BY <1>15, <2>1, <2>2, <2>3 DEF Closed, PushUsed, Basics
  <1>16. ASSUME NEW h \in Host, NEW m \in wire, Heard(h, m) PROVE PushUsed'
    BY <1>16 DEF Heard, PushUsed, Past, In
  <1>17. ASSUME NEW h \in Host, NEW m \in wire, Misheard(h, m) PROVE PushUsed'
    BY <1>17 DEF Misheard, PushUsed, Past, In
  <1>18. ASSUME NEW h \in Host, NEW m \in wire, Stored(h, m) PROVE PushUsed'
    BY <1>18 DEF Stored, PushUsed, Past, In
  <1>19. ASSUME NEW m \in wire, Vanished(m) PROVE PushUsed'
    BY <1>19 DEF Vanished, PushUsed, Past, In
  <1>20. CASE Idled
    BY <1>20 DEF Idled, PushUsed, Past, In
  <1>21. QED
    BY <1>1, <1>2, <1>3, <1>4, <1>5, <1>6, <1>7, <1>8, <1>9, <1>10, <1>11, <1>12, <1>13,
       <1>14, <1>15, <1>16, <1>17, <1>18, <1>19, <1>20
       DEF Effect, Change

LEMMA EstablishedStep ==
  ASSUME Basics, Established, Handling, Replies, Attended, Effect
  PROVE  Established'
  <1>1. ASSUME NEW h \in Host, Skipped(h) PROVE Established'
    BY <1>1 DEF Skipped, Becomes, Established, Up, Past, PastBook, Attended
  <1>2. ASSUME NEW h \in Host, Booked(h) PROVE Established'
    BY <1>2 DEF Booked, Becomes, Established, Up, Past, PastBook, Handling
  <1>3. ASSUME NEW h \in Host, Registered(h) PROVE Established'
    BY <1>3 DEF Registered, Established, Up, Past, PastBook
  <1>4. ASSUME NEW h \in Host, Dropped(h) PROVE Established'
    BY <1>4 DEF Dropped, Established, Up, Past, PastBook
  <1>5. ASSUME NEW h \in Host, NEW c \in Conn, Took(h, c) PROVE Established'
    BY <1>5 DEF Took, Becomes, Basics, Established, Up, Past, PastBook
  <1>6. ASSUME NEW h \in Host, NEW c \in Conn, Began(h, c) PROVE Established'
    BY <1>6 DEF Began, Becomes2, Basics, Established, Up, Replies, Attended
  <1>7. ASSUME NEW h \in Host, NEW c \in Conn, Went(h, c) PROVE Established'
    BY <1>7 DEF Went, Becomes, Established, Up, Past, PastBook, Handling
  <1>8. ASSUME NEW h \in Host, NEW c \in Conn, GaveUp(h, c) PROVE Established'
    <2>1. \A g \in Host : \A d \in Conn : Up(g, d)' => d # c /\ g # h /\ Up(g, d)
      BY <1>8 DEF GaveUp, Returned, Becomes, Up, Past, Established
    <2>2. \A g \in Host : \A d \in Conn : ~Up(g, d)'
      <3> SUFFICES ASSUME NEW g \in Host, NEW d \in Conn, Up(g, d)' PROVE FALSE
        OBVIOUS
      <3>1. d # c /\ g # h /\ Up(g, d)
        BY <2>1
      <3>2. exr[h][d] # "none"
        BY <3>1 DEF Replies, Up, Basics
      <3>3. Up(h, d)
        BY <1>8, <3>2 DEF Attended, GaveUp, Up
      <3>4. QED
        BY <1>8, <3>3 DEF Established, GaveUp
    <2>3. QED
      BY <2>2 DEF Established
  <1>9. ASSUME NEW h \in Host, NEW c \in Conn, Refused(h, c) PROVE Established'
    BY <1>9 DEF Refused, Returned, Becomes, Established, Up, Past, PastBook, Handling
  <1>10. ASSUME NEW h \in Host, NEW c \in Conn, Added(h, c) PROVE Established'
    BY <1>10 DEF Added, Becomes, Established, Up, Past, PastBook, Handling
  <1>11. ASSUME NEW h \in Host, NEW c \in Conn, Finished(h, c) PROVE Established'
    BY <1>11 DEF Finished, Returned, Becomes, Established, Up, Past, PastBook
  <1>12. ASSUME NEW h \in Host, NEW c \in Conn, Spoke(h, c) PROVE Established'
    BY <1>12 DEF Spoke, Becomes2, Established, Up, Past, PastBook, Attended
  <1>13. ASSUME NEW h \in Host, NEW c \in Conn, Failed(h, c) PROVE Established'
    BY <1>13 DEF Failed, Becomes2, Established, Up, Past, PastBook
  <1>14. ASSUME NEW h \in Host, NEW c \in Conn, Pushed(h, c) PROVE Established'
    BY <1>14 DEF Pushed, Established, Up, Past, PastBook
  <1>15. ASSUME NEW h \in Host, NEW c \in Conn, Closed(h, c) PROVE Established'
    BY <1>15
       DEF Closed, Basics, Established, Up, Past, PastBook, Handling, Replies, Attended
  <1>16. ASSUME NEW h \in Host, NEW m \in wire, Heard(h, m) PROVE Established'
    BY <1>16 DEF Heard, Becomes2, Established, Up, Past, PastBook, Attended
  <1>17. ASSUME NEW h \in Host, NEW m \in wire, Misheard(h, m) PROVE Established'
    BY <1>17 DEF Misheard, Becomes2, Established, Up, Past, PastBook
  <1>18. ASSUME NEW h \in Host, NEW m \in wire, Stored(h, m) PROVE Established'
    BY <1>18 DEF Stored, Becomes, Established, Up, Past, PastBook
  <1>19. ASSUME NEW m \in wire, Vanished(m) PROVE Established'
    BY <1>19 DEF Vanished, Established, Up, Past, PastBook
  <1>20. CASE Idled
    BY <1>20 DEF Idled, Established, Up, Past, PastBook
  <1>21. QED
    BY <1>1, <1>2, <1>3, <1>4, <1>5, <1>6, <1>7, <1>8, <1>9, <1>10, <1>11, <1>12, <1>13,
       <1>14, <1>15, <1>16, <1>17, <1>18, <1>19, <1>20
       DEF Effect, Change

LEMMA IntroducedStep ==
  ASSUME Basics, Introduced, Handling, Replies, Attended, Established, Effect
  PROVE  Introduced'
  <1>1. ASSUME NEW h \in Host, Skipped(h) PROVE Introduced'
    BY <1>1 DEF Skipped, Becomes, Introduced, Has, Up, Past
  <1>2. ASSUME NEW h \in Host, Booked(h) PROVE Introduced'
    BY <1>2 DEF Booked, Becomes, Introduced, Has, Up, Past
  <1>3. ASSUME NEW h \in Host, Registered(h) PROVE Introduced'
    BY <1>3 DEF Registered, Introduced, Has, Up, Past
  <1>4. ASSUME NEW h \in Host, Dropped(h) PROVE Introduced'
    BY <1>4 DEF Dropped, Introduced, Has, Up, Past
  <1>5. ASSUME NEW h \in Host, NEW c \in Conn, Took(h, c) PROVE Introduced'
    BY <1>5 DEF Took, Becomes, Introduced, Has, Up, Past
  <1>6. ASSUME NEW h \in Host, NEW c \in Conn, Began(h, c) PROVE Introduced'
    BY <1>6 DEF Began, Becomes2, Introduced, Has
  <1>7. ASSUME NEW h \in Host, NEW c \in Conn, Went(h, c) PROVE Introduced'
    BY <1>7 DEF Went, Introduced, Has, Handling
  <1>8. ASSUME NEW h \in Host, NEW c \in Conn, GaveUp(h, c) PROVE Introduced'
    BY <1>8 DEF GaveUp, Returned, Becomes, Introduced, Has, Established
  <1>9. ASSUME NEW h \in Host, NEW c \in Conn, Refused(h, c) PROVE Introduced'
    BY <1>9 DEF Refused, Returned, Becomes, Introduced, Has, Up, Past
  <1>10. ASSUME NEW h \in Host, NEW c \in Conn, Added(h, c) PROVE Introduced'
    <2>1. \A g \in Host : \A d \in Conn : Up(g, d) => Up(g, d)'
      BY <1>10 DEF Added, Becomes, Up, Past
    <2>2. \A g \in Host : g # h => (Has(g)' => Has(g))
      BY <1>10 DEF Added, Becomes, Has
    <2>3. CASE Has(h)
      BY <2>1, <2>2, <2>3 DEF Introduced
    <2>4. CASE ~Has(h)
      <3>1. exr[h][c] = "ok" /\ Up(h, c)
        BY <1>10, <2>4 DEF Added, Has, Handling, Up, Past
      <3> SUFFICES ASSUME NEW g \in Host, g # h, Has(g)' PROVE Up(g, c)
        BY <2>1, <3>1 DEF Introduced
      <3>2. exr[g][c] # "none"
        BY <3>1 DEF Replies, Basics
      <3>3. QED
        BY <2>2, <3>1, <3>2 DEF Attended, Handling, Up, Has
    <2>5. QED
      BY <2>3, <2>4
  <1>11. ASSUME NEW h \in Host, NEW c \in Conn, Finished(h, c) PROVE Introduced'
    BY <1>11 DEF Finished, Returned, Becomes, Introduced, Has, Up, Past
  <1>12. ASSUME NEW h \in Host, NEW c \in Conn, Spoke(h, c) PROVE Introduced'
    BY <1>12 DEF Spoke, Introduced, Has, Handling, Attended
  <1>13. ASSUME NEW h \in Host, NEW c \in Conn, Failed(h, c) PROVE Introduced'
    BY <1>13 DEF Failed, Becomes2, Basics, Introduced, Has, Up, Past
  <1>14. ASSUME NEW h \in Host, NEW c \in Conn, Pushed(h, c) PROVE Introduced'
    BY <1>14 DEF Pushed, Introduced, Has, Up, Past
  <1>15. ASSUME NEW h \in Host, NEW c \in Conn, Closed(h, c) PROVE Introduced'
    BY <1>15 DEF Closed, Becomes, Introduced, Has, Up, Past
  <1>16. ASSUME NEW h \in Host, NEW m \in wire, Heard(h, m) PROVE Introduced'
    <2>1. \A g \in Host : \A d \in Conn : Up(g, d) => Up(g, d)'
      BY <1>16 DEF Heard, Becomes2, Up, Past
    <2>2. \A g \in Host : Has(g)' => Has(g)
      BY <1>16 DEF Heard, Becomes2, Has, Basics
    <2>3. QED
      BY <2>1, <2>2 DEF Introduced
  <1>17. ASSUME NEW h \in Host, NEW m \in wire, Misheard(h, m) PROVE Introduced'
    BY <1>17 DEF Misheard, Becomes2, Basics, Introduced, Has, Up, Past
  <1>18. ASSUME NEW h \in Host, NEW m \in wire, Stored(h, m) PROVE Introduced'
    BY <1>18 DEF Stored, Introduced, Has, Up, Past
  <1>19. ASSUME NEW m \in wire, Vanished(m) PROVE Introduced'
    BY <1>19 DEF Vanished, Introduced, Has, Up, Past
  <1>20. CASE Idled
    BY <1>20 DEF Idled, Introduced, Has, Up, Past
  <1>21. QED
    BY <1>1, <1>2, <1>3, <1>4, <1>5, <1>6, <1>7, <1>8, <1>9, <1>10, <1>11, <1>12, <1>13,
       <1>14, <1>15, <1>16, <1>17, <1>18, <1>19, <1>20
       DEF Effect, Change

-----------------------------------------------------------------------------
\* A connection served for good that a manager has forgotten with a sibling
Forgotten(c) ==
  /\ c \notin dead /\ \A h \in Host : Past(h, c)
  /\ \E h \in Host : c \in served[h] /\ c \notin conns[h]

\* h has told its protocols over c; it has been told those of the other host.
Sent(h, c) == exr[h][c] = "ok" \/ (Dialer[c] = h /\ exr[h][c] = "receive")
Got(h, c) == exr[h][c] = "ok" \/ (Dialer[c] # h /\ exr[h][c] = "send")

\* The push h will make, or has made, tells what h has registered.
Outgrown(h, c) ==
  /\ cur[h] = c /\ step[h] \in {"exchange", "add", "book", "serve"}
  /\ myProtocolsLength[h] < Cardinality(handlers[h])
Pending(h, c) == Up(h, c) /\ PastBook(h, c) /\ pushes[h] > 0
Pushing(h) ==
  \E m \in wire : m.type \in Announcements /\ m.from = h /\ m.c \in conns[h] /\ m.protocols = handlers[h]

\* g has, or gets by the exchange over c, what h has registered, and no push
\* under way can replace it by something older.
Told(h, g, c) ==
  /\ ~Got(g, c) => \A m \in wire : m.c = c /\ m.from = h /\ m.type \notin Announcements => m.protocols = handlers[h]
  /\ Got(g, c) /\ ~PastBook(g, c) => got[g][c] = handlers[h]
  /\ Up(g, c) /\ PastBook(g, c) => book[g] = handlers[h]
NoneOlder(h) ==
  \A m \in wire : m.type \in Announcements /\ m.from = h =>
    m.protocols = handlers[h] \/ m.c \in dead \/ (m.c \in served[h] /\ m.c \notin conns[h])
Carried(h, g, c) == Told(h, g, c) /\ NoneOlder(h)

Known(h, g, c) == Outgrown(h, c) \/ Pending(h, c) \/ Pushing(h) \/ Carried(h, g, c)

Open(h, g, c) == c \notin dead /\ Sent(h, c) /\ exr[g][c] # "err"
Fresh ==
  \/ \E c \in Conn : Forgotten(c)
  \/ \A h, g \in Host : \A c \in Conn :
       h # g /\ h \notin overlapped /\ Open(h, g, c) => Known(h, g, c)

\* A forgotten connection is closed by nobody and is not added again.
LEMMA ForgottenStays ==
  ASSUME Effect, Basics, Handling,
         NEW e \in Conn, Forgotten(e)
  PROVE  Forgotten(e)'
  <1>1. ASSUME NEW h \in Host, Skipped(h) PROVE Forgotten(e)'
    BY <1>1 DEF Skipped, Becomes, Forgotten, Past
  <1>2. ASSUME NEW h \in Host, Booked(h) PROVE Forgotten(e)'
    BY <1>2 DEF Booked, Becomes, Forgotten, Past
  <1>3. ASSUME NEW h \in Host, Registered(h) PROVE Forgotten(e)'
    BY <1>3 DEF Registered, Forgotten, Past
  <1>4. ASSUME NEW h \in Host, Dropped(h) PROVE Forgotten(e)'
    BY <1>4 DEF Dropped, Forgotten, Past
  <1>5. ASSUME NEW h \in Host, NEW c \in Conn, Took(h, c) PROVE Forgotten(e)'
    BY <1>5 DEF Took, Becomes, Forgotten, Past
  <1>6. ASSUME NEW h \in Host, NEW c \in Conn, Began(h, c) PROVE Forgotten(e)'
    BY <1>6 DEF Began, Becomes, Forgotten, Past
  <1>7. ASSUME NEW h \in Host, NEW c \in Conn, Went(h, c) PROVE Forgotten(e)'
    BY <1>7 DEF Went, Becomes, Forgotten, Past
  <1>8. ASSUME NEW h \in Host, NEW c \in Conn, GaveUp(h, c) PROVE Forgotten(e)'
    BY <1>8 DEF GaveUp, Returned, Becomes, Forgotten, Past
  <1>9. ASSUME NEW h \in Host, NEW c \in Conn, Refused(h, c) PROVE Forgotten(e)'
    BY <1>9 DEF Refused, Returned, Becomes, Forgotten, Past
  <1>10. ASSUME NEW h \in Host, NEW c \in Conn, Added(h, c) PROVE Forgotten(e)'
    BY <1>10 DEF Added, Becomes, Forgotten, Past, Basics, Handling
  <1>11. ASSUME NEW h \in Host, NEW c \in Conn, Finished(h, c) PROVE Forgotten(e)'
    BY <1>11 DEF Finished, Returned, Becomes, Forgotten, Past
  <1>12. ASSUME NEW h \in Host, NEW c \in Conn, Spoke(h, c) PROVE Forgotten(e)'
    BY <1>12 DEF Spoke, Forgotten, Past
  <1>13. ASSUME NEW h \in Host, NEW c \in Conn, Failed(h, c) PROVE Forgotten(e)'
    BY <1>13 DEF Failed, Forgotten, Past
  <1>14. ASSUME NEW h \in Host, NEW c \in Conn, Pushed(h, c) PROVE Forgotten(e)'
    BY <1>14 DEF Pushed, Forgotten, Past
  <1>15. ASSUME NEW h \in Host, NEW c \in Conn, Closed(h, c) PROVE Forgotten(e)'
    BY <1>15 DEF Closed, Becomes, Forgotten, Past
  <1>16. ASSUME NEW h \in Host, NEW m \in wire, Heard(h, m) PROVE Forgotten(e)'
    BY <1>16 DEF Heard, Forgotten, Past
  <1>17. ASSUME NEW h \in Host, NEW m \in wire, Misheard(h, m) PROVE Forgotten(e)'
    BY <1>17 DEF Misheard, Forgotten, Past
  <1>18. ASSUME NEW h \in Host, NEW m \in wire, Stored(h, m) PROVE Forgotten(e)'
    BY <1>18 DEF Stored, Forgotten, Past
  <1>19. ASSUME NEW m \in wire, Vanished(m) PROVE Forgotten(e)'
    BY <1>19 DEF Vanished, Forgotten, Past
  <1>20. CASE Idled
    BY <1>20 DEF Idled, Forgotten, Past
  <1>21. QED
    BY <1>1, <1>2, <1>3, <1>4, <1>5, <1>6, <1>7, <1>8, <1>9, <1>10, <1>11, <1>12, <1>13,
       <1>14, <1>15, <1>16, <1>17, <1>18, <1>19, <1>20
       DEF Effect, Change

\* A successful exchange stays so as long as its connection lives.
LEMMA UpStays ==
  ASSUME Effect, Basics,
         NEW x \in Host, NEW e \in Conn, e \notin dead', Up(x, e)
  PROVE  Up(x, e)' /\ (PastBook(x, e) => PastBook(x, e)')
  <1>1. ASSUME NEW h \in Host, Skipped(h)
        PROVE  Up(x, e)' /\ (PastBook(x, e) => PastBook(x, e)')
    BY <1>1 DEF Skipped, Becomes, Up, PastBook, Past
  <1>2. ASSUME NEW h \in Host, Booked(h)
        PROVE  Up(x, e)' /\ (PastBook(x, e) => PastBook(x, e)')
    BY <1>2 DEF Booked, Becomes, Up, PastBook, Past
  <1>3. ASSUME NEW h \in Host, Registered(h)
        PROVE  Up(x, e)' /\ (PastBook(x, e) => PastBook(x, e)')
    BY <1>3 DEF Registered, Up, PastBook, Past
  <1>4. ASSUME NEW h \in Host, Dropped(h)
        PROVE  Up(x, e)' /\ (PastBook(x, e) => PastBook(x, e)')
    BY <1>4 DEF Dropped, Up, PastBook, Past
  <1>5. ASSUME NEW h \in Host, NEW c \in Conn, Took(h, c)
        PROVE  Up(x, e)' /\ (PastBook(x, e) => PastBook(x, e)')
    BY <1>5 DEF Took, Becomes, Up, PastBook, Past
  <1>6. ASSUME NEW h \in Host, NEW c \in Conn, Began(h, c)
        PROVE  Up(x, e)' /\ (PastBook(x, e) => PastBook(x, e)')
    BY <1>6 DEF Began, Becomes, Becomes2, Up, PastBook, Past
  <1>7. ASSUME NEW h \in Host, NEW c \in Conn, Went(h, c)
        PROVE  Up(x, e)' /\ (PastBook(x, e) => PastBook(x, e)')
    BY <1>7 DEF Went, Becomes, Up, PastBook, Past
  <1>8. ASSUME NEW h \in Host, NEW c \in Conn, GaveUp(h, c)
        PROVE  Up(x, e)' /\ (PastBook(x, e) => PastBook(x, e)')
    BY <1>8 DEF GaveUp, Returned, Becomes, Up, PastBook, Past
  <1>9. ASSUME NEW h \in Host, NEW c \in Conn, Refused(h, c)
        PROVE  Up(x, e)' /\ (PastBook(x, e) => PastBook(x, e)')
    BY <1>9 DEF Refused, Returned, Becomes, Up, PastBook, Past
  <1>10. ASSUME NEW h \in Host, NEW c \in Conn, Added(h, c)
         PROVE  Up(x, e)' /\ (PastBook(x, e) => PastBook(x, e)')
    BY <1>10 DEF Added, Becomes, Up, PastBook, Past
  <1>11. ASSUME NEW h \in Host, NEW c \in Conn, Finished(h, c)
         PROVE  Up(x, e)' /\ (PastBook(x, e) => PastBook(x, e)')
    BY <1>11 DEF Finished, Returned, Becomes, Up, PastBook, Past
  <1>12. ASSUME NEW h \in Host, NEW c \in Conn, Spoke(h, c)
         PROVE  Up(x, e)' /\ (PastBook(x, e) => PastBook(x, e)')
    BY <1>12 DEF Spoke, Becomes2, Up, PastBook, Past
  <1>13. ASSUME NEW h \in Host, NEW c \in Conn, Failed(h, c)
         PROVE  Up(x, e)' /\ (PastBook(x, e) => PastBook(x, e)')
    BY <1>13 DEF Failed, Becomes2, Up, PastBook, Past
  <1>14. ASSUME NEW h \in Host, NEW c \in Conn, Pushed(h, c)
         PROVE  Up(x, e)' /\ (PastBook(x, e) => PastBook(x, e)')
    BY <1>14 DEF Pushed, Up, PastBook, Past
  <1>15. ASSUME NEW h \in Host, NEW c \in Conn, Closed(h, c)
         PROVE  Up(x, e)' /\ (PastBook(x, e) => PastBook(x, e)')
    BY <1>15 DEF Closed, Up, PastBook, Past
  <1>16. ASSUME NEW h \in Host, NEW m \in wire, Heard(h, m)
         PROVE  Up(x, e)' /\ (PastBook(x, e) => PastBook(x, e)')
    BY <1>16 DEF Heard, Becomes2, Up, PastBook, Past
  <1>17. ASSUME NEW h \in Host, NEW m \in wire, Misheard(h, m)
         PROVE  Up(x, e)' /\ (PastBook(x, e) => PastBook(x, e)')
    BY <1>17 DEF Misheard, Becomes2, Up, PastBook, Past
  <1>18. ASSUME NEW h \in Host, NEW m \in wire, Stored(h, m)
         PROVE  Up(x, e)' /\ (PastBook(x, e) => PastBook(x, e)')
    BY <1>18 DEF Stored, Up, PastBook, Past
  <1>19. ASSUME NEW m \in wire, Vanished(m)
         PROVE  Up(x, e)' /\ (PastBook(x, e) => PastBook(x, e)')
    BY <1>19 DEF Vanished, Up, PastBook, Past
  <1>20. CASE Idled
    BY <1>20 DEF Idled, Up, PastBook, Past
  <1>21. QED
    BY <1>1, <1>2, <1>3, <1>4, <1>5, <1>6, <1>7, <1>8, <1>9, <1>10, <1>11, <1>12, <1>13,
       <1>14, <1>15, <1>16, <1>17, <1>18, <1>19, <1>20
       DEF Effect, Change

\* What is to be known of a host begins with the payload it sends.
LEMMA OpenStep ==
  ASSUME Effect, Basics, Handling,
         NEW x \in Host, NEW y \in Host, x # y, NEW e \in Conn, Open(x, y, e)'
  PROVE  Open(x, y, e) \/ Spoke(x, e)
  <1>1. ASSUME NEW h \in Host, Skipped(h) PROVE Open(x, y, e) \/ Spoke(x, e)
    BY <1>1 DEF Skipped, Open, Sent
  <1>2. ASSUME NEW h \in Host, Booked(h) PROVE Open(x, y, e) \/ Spoke(x, e)
    BY <1>2 DEF Booked, Open, Sent
  <1>3. ASSUME NEW h \in Host, Registered(h) PROVE Open(x, y, e) \/ Spoke(x, e)
    BY <1>3 DEF Registered, Open, Sent
  <1>4. ASSUME NEW h \in Host, Dropped(h) PROVE Open(x, y, e) \/ Spoke(x, e)
    BY <1>4 DEF Dropped, Open, Sent
  <1>5. ASSUME NEW h \in Host, NEW c \in Conn, Took(h, c) PROVE Open(x, y, e) \/ Spoke(x, e)
    BY <1>5 DEF Took, Open, Sent
  <1>6. ASSUME NEW h \in Host, NEW c \in Conn, Began(h, c)
        PROVE  Open(x, y, e) \/ Spoke(x, e)
    BY <1>6 DEF Began, Becomes2, Open, Sent, Handling
  <1>7. ASSUME NEW h \in Host, NEW c \in Conn, Went(h, c) PROVE Open(x, y, e) \/ Spoke(x, e)
    BY <1>7 DEF Went, Open, Sent
  <1>8. ASSUME NEW h \in Host, NEW c \in Conn, GaveUp(h, c)
        PROVE  Open(x, y, e) \/ Spoke(x, e)
    BY <1>8 DEF GaveUp, Open, Sent
  <1>9. ASSUME NEW h \in Host, NEW c \in Conn, Refused(h, c)
        PROVE  Open(x, y, e) \/ Spoke(x, e)
    BY <1>9 DEF Refused, Open, Sent
  <1>10. ASSUME NEW h \in Host, NEW c \in Conn, Added(h, c)
         PROVE  Open(x, y, e) \/ Spoke(x, e)
    BY <1>10 DEF Added, Open, Sent
  <1>11. ASSUME NEW h \in Host, NEW c \in Conn, Finished(h, c)
         PROVE  Open(x, y, e) \/ Spoke(x, e)
    BY <1>11 DEF Finished, Open, Sent
  <1>12. ASSUME NEW h \in Host, NEW c \in Conn, Spoke(h, c)
         PROVE  Open(x, y, e) \/ Spoke(x, e)
    BY <1>12 DEF Spoke, Becomes2, Open, Sent
  <1>13. ASSUME NEW h \in Host, NEW c \in Conn, Failed(h, c)
         PROVE  Open(x, y, e) \/ Spoke(x, e)
    BY <1>13 DEF Failed, Becomes2, Open, Sent
  <1>14. ASSUME NEW h \in Host, NEW c \in Conn, Pushed(h, c)
         PROVE  Open(x, y, e) \/ Spoke(x, e)
    BY <1>14 DEF Pushed, Open, Sent
  <1>15. ASSUME NEW h \in Host, NEW c \in Conn, Closed(h, c)
         PROVE  Open(x, y, e) \/ Spoke(x, e)
    BY <1>15 DEF Closed, Open, Sent
  <1>16. ASSUME NEW h \in Host, NEW m \in wire, Heard(h, m)
         PROVE  Open(x, y, e) \/ Spoke(x, e)
    BY <1>16 DEF Heard, Becomes2, Open, Sent
  <1>17. ASSUME NEW h \in Host, NEW m \in wire, Misheard(h, m)
         PROVE  Open(x, y, e) \/ Spoke(x, e)
    BY <1>17 DEF Misheard, Becomes2, Open, Sent
  <1>18. ASSUME NEW h \in Host, NEW m \in wire, Stored(h, m)
         PROVE  Open(x, y, e) \/ Spoke(x, e)
    BY <1>18 DEF Stored, Open, Sent
  <1>19. ASSUME NEW m \in wire, Vanished(m) PROVE Open(x, y, e) \/ Spoke(x, e)
    BY <1>19 DEF Vanished, Open, Sent
  <1>20. CASE Idled
    BY <1>20 DEF Idled, Open, Sent
  <1>21. QED
    BY <1>1, <1>2, <1>3, <1>4, <1>5, <1>6, <1>7, <1>8, <1>9, <1>10, <1>11, <1>12, <1>13,
       <1>14, <1>15, <1>16, <1>17, <1>18, <1>19, <1>20
       DEF Effect, Change

\* Known is kept: first, by what has been registered since the exchange began,
LEMMA OutgrownStep ==
  ASSUME Effect, Basics, Handling,
         NEW x \in Host, NEW y \in Host, x # y, NEW e \in Conn, Open(x, y, e),
         Open(x, y, e)', Outgrown(x, e)
  PROVE  Known(x, y, e)'
  <1>1. ASSUME NEW h \in Host, Skipped(h) PROVE Known(x, y, e)'
    BY <1>1 DEF Skipped, Becomes, Known, Outgrown
  <1>2. ASSUME NEW h \in Host, Booked(h) PROVE Known(x, y, e)'
    BY <1>2 DEF Booked, Becomes, Known, Outgrown
  <1>3. ASSUME NEW h \in Host, Registered(h) PROVE Known(x, y, e)'
    <2>1. cur' = cur /\ step' = step /\ myProtocolsLength' = myProtocolsLength
      BY <1>3 DEF Registered
    <2>2. x = h \/ handlers'[x] = handlers[x]
      BY <1>3 DEF Registered, Becomes
    <2>3. Cardinality(handlers[x]) <= Cardinality(handlers'[x]) /\ Cardinality(handlers'[x]) \in Nat
      BY <1>3, <2>2, HandlersGrow DEF Basics
    <2>4. QED
      BY <2>1, <2>3 DEF Known, Outgrown, Basics
  <1>4. ASSUME NEW h \in Host, Dropped(h) PROVE Known(x, y, e)'
    BY <1>4 DEF Dropped, Known, Outgrown
  <1>5. ASSUME NEW h \in Host, NEW c \in Conn, Took(h, c) PROVE Known(x, y, e)'
    BY <1>5 DEF Took, Becomes, Known, Outgrown, Basics
  <1>6. ASSUME NEW h \in Host, NEW c \in Conn, Began(h, c) PROVE Known(x, y, e)'
    BY <1>6 DEF Began, Becomes, Known, Outgrown
  <1>7. ASSUME NEW h \in Host, NEW c \in Conn, Went(h, c) PROVE Known(x, y, e)'
    BY <1>7 DEF Went, Becomes, Known, Outgrown
  <1>8. ASSUME NEW h \in Host, NEW c \in Conn, GaveUp(h, c) PROVE Known(x, y, e)'
    BY <1>8 DEF GaveUp, Returned, Becomes, Open, Known, Outgrown
  <1>9. ASSUME NEW h \in Host, NEW c \in Conn, Refused(h, c) PROVE Known(x, y, e)'
    BY <1>9 DEF Refused, Returned, Becomes, Open, Known, Outgrown
  <1>10. ASSUME NEW h \in Host, NEW c \in Conn, Added(h, c) PROVE Known(x, y, e)'
    BY <1>10 DEF Added, Becomes, Known, Outgrown
  <1>11. ASSUME NEW h \in Host, NEW c \in Conn, Finished(h, c) PROVE Known(x, y, e)'
    BY <1>11
       DEF Finished, Returned, Becomes, Open, Sent, Known, Outgrown, Pending, Up, PastBook,
           Past, Basics, Handling
  <1>12. ASSUME NEW h \in Host, NEW c \in Conn, Spoke(h, c) PROVE Known(x, y, e)'
    BY <1>12 DEF Spoke, Known, Outgrown
  <1>13. ASSUME NEW h \in Host, NEW c \in Conn, Failed(h, c) PROVE Known(x, y, e)'
    BY <1>13 DEF Failed, Known, Outgrown
  <1>14. ASSUME NEW h \in Host, NEW c \in Conn, Pushed(h, c) PROVE Known(x, y, e)'
    BY <1>14 DEF Pushed, Known, Outgrown
  <1>15. ASSUME NEW h \in Host, NEW c \in Conn, Closed(h, c) PROVE Known(x, y, e)'
    BY <1>15 DEF Closed, Known, Outgrown
  <1>16. ASSUME NEW h \in Host, NEW m \in wire, Heard(h, m) PROVE Known(x, y, e)'
    BY <1>16 DEF Heard, Known, Outgrown
  <1>17. ASSUME NEW h \in Host, NEW m \in wire, Misheard(h, m) PROVE Known(x, y, e)'
    BY <1>17 DEF Misheard, Known, Outgrown
  <1>18. ASSUME NEW h \in Host, NEW m \in wire, Stored(h, m) PROVE Known(x, y, e)'
    BY <1>18 DEF Stored, Known, Outgrown
  <1>19. ASSUME NEW m \in wire, Vanished(m) PROVE Known(x, y, e)'
    BY <1>19 DEF Vanished, Known, Outgrown
  <1>20. CASE Idled
    BY <1>20 DEF Idled, Known, Outgrown
  <1>21. QED
    BY <1>1, <1>2, <1>3, <1>4, <1>5, <1>6, <1>7, <1>8, <1>9, <1>10, <1>11, <1>12, <1>13,
       <1>14, <1>15, <1>16, <1>17, <1>18, <1>19, <1>20
       DEF Effect, Change

\* by the push that is pending,
LEMMA PendingStep ==
  ASSUME Effect, Basics, Established,
         NEW x \in Host, NEW e \in Conn, e \notin dead', Pending(x, e)
  PROVE  Pending(x, e)' \/ Pushing(x)'
  <1>1. ASSUME NEW h \in Host, Skipped(h) PROVE Pending(x, e)' \/ Pushing(x)'
    BY <1>1, UpStays DEF Skipped, Pending
  <1>2. ASSUME NEW h \in Host, Booked(h) PROVE Pending(x, e)' \/ Pushing(x)'
    BY <1>2, UpStays DEF Booked, Pending
  <1>3. ASSUME NEW h \in Host, Registered(h) PROVE Pending(x, e)' \/ Pushing(x)'
    BY <1>3, UpStays DEF Registered, Becomes, Pending, Basics
  <1>4. ASSUME NEW h \in Host, Dropped(h) PROVE Pending(x, e)' \/ Pushing(x)'
    <2>1. Up(x, e)' /\ PastBook(x, e)' /\ Up(x, e) /\ PastBook(x, e) /\ pushes[x] > 0
      BY UpStays DEF Pending
    <2>2. e \in conns[x] /\ book[x] # None /\ conns[x] \cap dead = {}
      BY <2>1 DEF Established, PastBook
    <2>3. h # x
      BY <1>4, <2>2 DEF Dropped
    <2>4. QED
      BY <1>4, <2>1, <2>3 DEF Dropped, Becomes, Pending
  <1>5. ASSUME NEW h \in Host, NEW c \in Conn, Took(h, c)
        PROVE  Pending(x, e)' \/ Pushing(x)'
    BY <1>5, UpStays DEF Took, Pending
  <1>6. ASSUME NEW h \in Host, NEW c \in Conn, Began(h, c)
        PROVE  Pending(x, e)' \/ Pushing(x)'
    BY <1>6, UpStays DEF Began, Pending
  <1>7. ASSUME NEW h \in Host, NEW c \in Conn, Went(h, c)
        PROVE  Pending(x, e)' \/ Pushing(x)'
    BY <1>7, UpStays DEF Went, Pending
  <1>8. ASSUME NEW h \in Host, NEW c \in Conn, GaveUp(h, c)
        PROVE  Pending(x, e)' \/ Pushing(x)'
    BY <1>8, UpStays DEF GaveUp, Pending
  <1>9. ASSUME NEW h \in Host, NEW c \in Conn, Refused(h, c)
        PROVE  Pending(x, e)' \/ Pushing(x)'
    BY <1>9, UpStays DEF Refused, Pending
  <1>10. ASSUME NEW h \in Host, NEW c \in Conn, Added(h, c)
         PROVE  Pending(x, e)' \/ Pushing(x)'
    BY <1>10, UpStays DEF Added, Pending
  <1>11. ASSUME NEW h \in Host, NEW c \in Conn, Finished(h, c)
         PROVE  Pending(x, e)' \/ Pushing(x)'
    BY <1>11, UpStays DEF Finished, Becomes, Pending, Basics
  <1>12. ASSUME NEW h \in Host, NEW c \in Conn, Spoke(h, c)
         PROVE  Pending(x, e)' \/ Pushing(x)'
    BY <1>12, UpStays DEF Spoke, Pending
  <1>13. ASSUME NEW h \in Host, NEW c \in Conn, Failed(h, c)
         PROVE  Pending(x, e)' \/ Pushing(x)'
    BY <1>13, UpStays DEF Failed, Pending
  <1>14. ASSUME NEW h \in Host, NEW c \in Conn, Pushed(h, c)
         PROVE  Pending(x, e)' \/ Pushing(x)'
    <2>1. Up(x, e)' /\ PastBook(x, e)' /\ pushes[x] > 0
      BY UpStays DEF Pending
    <2>2. CASE h # x
      BY <1>14, <2>1, <2>2 DEF Pushed, Pending
    <2>3. CASE h = x
      <3>0. PICK t \in Announcements :
              wire' = wire \cup {[c |-> c, from |-> h, type |-> t, protocols |-> handlers[h]]}
        BY <1>14 DEF Pushed
      <3> DEFINE n == [c |-> c, from |-> h, type |-> t, protocols |-> handlers[h]]
      <3>1. n \in wire' /\ conns' = conns /\ handlers' = handlers /\ c \in conns[h]
        BY <1>14, <3>0 DEF Pushed
      <3>2. n.type \in Announcements /\ n.from = h /\ n.c = c /\ n.protocols = handlers[h]
        OBVIOUS
      <3> HIDE DEF n
      <3>3. QED
        BY <2>3, <3>1, <3>2 DEF Pushing
    <2>4. QED
      BY <2>2, <2>3
  <1>15. ASSUME NEW h \in Host, NEW c \in Conn, Closed(h, c)
         PROVE  Pending(x, e)' \/ Pushing(x)'
    BY <1>15, UpStays DEF Closed, Pending
  <1>16. ASSUME NEW h \in Host, NEW m \in wire, Heard(h, m)
         PROVE  Pending(x, e)' \/ Pushing(x)'
    BY <1>16, UpStays DEF Heard, Pending
  <1>17. ASSUME NEW h \in Host, NEW m \in wire, Misheard(h, m)
         PROVE  Pending(x, e)' \/ Pushing(x)'
    BY <1>17, UpStays DEF Misheard, Pending
  <1>18. ASSUME NEW h \in Host, NEW m \in wire, Stored(h, m)
         PROVE  Pending(x, e)' \/ Pushing(x)'
    BY <1>18, UpStays DEF Stored, Pending
  <1>19. ASSUME NEW m \in wire, Vanished(m) PROVE Pending(x, e)' \/ Pushing(x)'
    BY <1>19, UpStays DEF Vanished, Pending
  <1>20. CASE Idled
    BY <1>20 DEF Idled, Pending, Up, PastBook, Past
  <1>21. QED
    BY <1>1, <1>2, <1>3, <1>4, <1>5, <1>6, <1>7, <1>8, <1>9, <1>10, <1>11, <1>12, <1>13,
       <1>14, <1>15, <1>16, <1>17, <1>18, <1>19, <1>20
       DEF Effect, Change

\* by the push that is on its way,
LEMMA PushingStep ==
  ASSUME Effect, Basics, Handling, Replies, Attended, OnePush, Established,
         NEW x \in Host, NEW y \in Host, x # y, NEW e \in Conn, Open(x, y, e),
         Open(x, y, e)', Pushing(x),
         Up(x, e), ~\E c \in Conn : Forgotten(c), ~Registered(x), x \notin overlapped
  PROVE  Pushing(x)' \/ Carried(x, y, e)'
  <1>1. ASSUME NEW h \in Host, Skipped(h) PROVE Pushing(x)' \/ Carried(x, y, e)'
    BY <1>1 DEF Skipped, Pushing
  <1>2. ASSUME NEW h \in Host, Booked(h) PROVE Pushing(x)' \/ Carried(x, y, e)'
    BY <1>2 DEF Booked, Pushing
  <1>3. ASSUME NEW h \in Host, Registered(h) PROVE Pushing(x)' \/ Carried(x, y, e)'
    BY <1>3 DEF Registered, Becomes, Pushing
  <1>4. ASSUME NEW h \in Host, Dropped(h) PROVE Pushing(x)' \/ Carried(x, y, e)'
    BY <1>4 DEF Dropped, Pushing
  <1>5. ASSUME NEW h \in Host, NEW c \in Conn, Took(h, c)
        PROVE  Pushing(x)' \/ Carried(x, y, e)'
    BY <1>5 DEF Took, Pushing
  <1>6. ASSUME NEW h \in Host, NEW c \in Conn, Began(h, c)
        PROVE  Pushing(x)' \/ Carried(x, y, e)'
    BY <1>6 DEF Began, Up, Basics, Replies, Attended, Established
  <1>7. ASSUME NEW h \in Host, NEW c \in Conn, Went(h, c)
        PROVE  Pushing(x)' \/ Carried(x, y, e)'
    BY <1>7 DEF Went, Pushing
  <1>8. ASSUME NEW h \in Host, NEW c \in Conn, GaveUp(h, c)
        PROVE  Pushing(x)' \/ Carried(x, y, e)'
    BY <1>8 DEF GaveUp, Pushing
  <1>9. ASSUME NEW h \in Host, NEW c \in Conn, Refused(h, c)
        PROVE  Pushing(x)' \/ Carried(x, y, e)'
    BY <1>9 DEF Refused, Pushing
  <1>10. ASSUME NEW h \in Host, NEW c \in Conn, Added(h, c)
         PROVE  Pushing(x)' \/ Carried(x, y, e)'
    BY <1>10 DEF Added, Becomes, Pushing
  <1>11. ASSUME NEW h \in Host, NEW c \in Conn, Finished(h, c)
         PROVE  Pushing(x)' \/ Carried(x, y, e)'
    BY <1>11 DEF Finished, Pushing
  <1>12. ASSUME NEW h \in Host, NEW c \in Conn, Spoke(h, c)
         PROVE  Pushing(x)' \/ Carried(x, y, e)'
    BY <1>12 DEF Spoke, Up, Basics, Replies, Attended, Established
  <1>13. ASSUME NEW h \in Host, NEW c \in Conn, Failed(h, c)
         PROVE  Pushing(x)' \/ Carried(x, y, e)'
    BY <1>13 DEF Failed, Pushing
  <1>14. ASSUME NEW h \in Host, NEW c \in Conn, Pushed(h, c)
         PROVE  Pushing(x)' \/ Carried(x, y, e)'
    BY <1>14 DEF Pushed, Pushing
  <1>15. ASSUME NEW h \in Host, NEW c \in Conn, Closed(h, c)
         PROVE  Pushing(x)' \/ Carried(x, y, e)'
    BY <1>15 DEF Closed, Pushing, Up, Basics, Handling, Replies, Attended, Established
  <1>16. ASSUME NEW h \in Host, NEW m \in wire, Heard(h, m)
         PROVE  Pushing(x)' \/ Carried(x, y, e)'
    BY <1>16 DEF Heard, Pushing, Announcements
  <1>17. ASSUME NEW h \in Host, NEW m \in wire, Misheard(h, m)
         PROVE  Pushing(x)' \/ Carried(x, y, e)'
    <2>1. PICK n \in wire : n.type \in Announcements /\ n.from = x /\ n.c \in conns[x] /\ n.protocols = handlers[x]
      BY DEF Pushing
    <2>2. handlers' = handlers /\ conns' = conns
      BY <1>17 DEF Misheard
    <2>3. CASE n # m
      <3>1. n \in wire'
        BY <1>17, <2>3 DEF Misheard
      <3>2. QED
        BY <2>1, <2>2, <3>1 DEF Pushing
    <2>4. CASE n = m
      <3>1. h = y /\ m.c # e /\ exr[y][m.c] = "receive"
        BY <1>17, <2>1, <2>4 DEF Misheard, Basics, Open, Becomes2
      <3>2. m.c \notin dead /\ m.c \in Conn
        BY <1>17, <2>1, <2>4 DEF Established, Misheard
      <3>3. cur[y] = m.c /\ step[y] = "exchange"
        BY <3>1, <3>2 DEF Attended
      <3>4. exr[y][e] # "none"
        BY DEF Replies, Up, Basics
      <3>5. Up(y, e)
        BY <3>1, <3>3, <3>4 DEF Attended, Up
      <3>6. QED
        BY <3>3, <3>5 DEF Established
    <2>5. QED
      BY <2>3, <2>4
  <1>18. ASSUME NEW h \in Host, NEW m \in wire, Stored(h, m)
         PROVE  Pushing(x)' \/ Carried(x, y, e)'
    <2>1. PICK n \in wire : n.type \in Announcements /\ n.from = x /\ n.c \in conns[x] /\ n.protocols = handlers[x]
      BY DEF Pushing
    <2>2. handlers' = handlers /\ conns' = conns
      BY <1>18 DEF Stored
    <2>3. CASE n # m
      <3>1. n \in wire'
        BY <1>18, <2>3 DEF Stored
      <3>2. QED
        BY <2>1, <2>2, <3>1 DEF Pushing
    <2>4. CASE n = m
      <3>1. h = y /\ m.c \in served[y] /\ m.c \in conns[x] /\ m.c \in Conn
        BY <1>18, <2>1, <2>4 DEF Stored, Basics
      <3>2. m.c \notin dead /\ Past(x, m.c) /\ Past(y, m.c)
        BY <3>1 DEF Established, Past, Handling, Basics
      <3>3. \A f \in Host : Past(f, m.c)
        BY <3>2 DEF Basics
      <3>4. m.c \in conns[y]
        BY <3>1, <3>2, <3>3 DEF Forgotten
      <3>5. exr[y][e] # "none"
        BY DEF Replies, Up, Basics
      <3>6. step[y] # "exchange"
        BY <3>4 DEF Handling
      <3>7. Up(y, e) /\ exr[y][e] = "ok"
        BY <3>5, <3>6 DEF Attended, Up
      <3>8. PastBook(y, e)
        BY <3>1, <3>4, <3>7 DEF Handling, Basics, PastBook, Past
      <3>9. /\ exr' = exr /\ cur' = cur /\ seen' = seen /\ step' = step /\ wire' = wire \ {m}
            /\ book'[y] = handlers[x] /\ dead' = dead
        BY <1>18, <2>1, <2>4, <3>1 DEF Stored, Becomes
      <3>10. Told(x, y, e)'
        BY <2>2, <3>7, <3>8, <3>9 DEF Told, Got, PastBook, Past
      <3>11. NoneOlder(x)'
        BY <2>1, <2>4, <3>9 DEF NoneOlder, OnePush
      <3>12. QED
        BY <3>10, <3>11 DEF Carried
    <2>5. QED
      BY <2>3, <2>4
  <1>19. ASSUME NEW m \in wire, Vanished(m) PROVE Pushing(x)' \/ Carried(x, y, e)'
    BY <1>19 DEF Vanished, Pushing, Established
  <1>20. CASE Idled
    BY <1>20 DEF Idled, Pushing
  <1>21. QED
    BY <1>1, <1>2, <1>3, <1>4, <1>5, <1>6, <1>7, <1>8, <1>9, <1>10, <1>11, <1>12, <1>13,
       <1>14, <1>15, <1>16, <1>17, <1>18, <1>19, <1>20
       DEF Effect, Change

\* by what the other host has been told,
LEMMA ToldStep ==
  ASSUME Effect, Basics, Handling, Attended, PushUsed, Established,
         NEW x \in Host, NEW y \in Host, x # y, NEW e \in Conn, Open(x, y, e),
         Open(x, y, e)', Carried(x, y, e),
         ~\E c \in Conn : Forgotten(c), ~Registered(x)
  PROVE  Told(x, y, e)'
  <1>1. ASSUME NEW h \in Host, Skipped(h) PROVE Told(x, y, e)'
    BY <1>1 DEF Skipped, Becomes, Carried, Told, Got, Up, PastBook, Past
  <1>2. ASSUME NEW h \in Host, Booked(h) PROVE Told(x, y, e)'
    BY <1>2
       DEF Booked, Becomes, Carried, Told, Got, Up, PastBook, Past, Handling, Established
  <1>3. ASSUME NEW h \in Host, Registered(h) PROVE Told(x, y, e)'
    BY <1>3 DEF Registered, Becomes, Carried, Told, Got, Up, PastBook, Past
  <1>4. ASSUME NEW h \in Host, Dropped(h) PROVE Told(x, y, e)'
    BY <1>4 DEF Dropped, Carried, Told, Got, Up, PastBook, Past
  <1>5. ASSUME NEW h \in Host, NEW c \in Conn, Took(h, c) PROVE Told(x, y, e)'
    BY <1>5 DEF Took, Becomes, Carried, Told, Got, Up, PastBook, Past, Basics
  <1>6. ASSUME NEW h \in Host, NEW c \in Conn, Began(h, c) PROVE Told(x, y, e)'
    BY <1>6
       DEF Began, Becomes2, Open, Sent, Carried, Told, Got, Up, Basics, Attended,
           Established
  <1>7. ASSUME NEW h \in Host, NEW c \in Conn, Went(h, c) PROVE Told(x, y, e)'
    BY <1>7 DEF Went, Becomes, Carried, Told, Got, Up, PastBook, Past
  <1>8. ASSUME NEW h \in Host, NEW c \in Conn, GaveUp(h, c) PROVE Told(x, y, e)'
    BY <1>8 DEF GaveUp, Open, Sent, Carried, Told, Got, Up, Basics, Attended, Established
  <1>9. ASSUME NEW h \in Host, NEW c \in Conn, Refused(h, c) PROVE Told(x, y, e)'
    BY <1>9 DEF Refused, Returned, Becomes, Carried, Told, Got, Up, PastBook, Past, Handling
  <1>10. ASSUME NEW h \in Host, NEW c \in Conn, Added(h, c) PROVE Told(x, y, e)'
    BY <1>10 DEF Added, Becomes, Carried, Told, Got, Up, PastBook, Past, Handling
  <1>11. ASSUME NEW h \in Host, NEW c \in Conn, Finished(h, c) PROVE Told(x, y, e)'
    BY <1>11 DEF Finished, Returned, Becomes, Carried, Told, Got, Up, PastBook, Past
  <1>12. ASSUME NEW h \in Host, NEW c \in Conn, Spoke(h, c) PROVE Told(x, y, e)'
    BY <1>12 DEF Spoke, Becomes2, Carried, Told, Got, Up, PastBook, Past, Attended
  <1>13. ASSUME NEW h \in Host, NEW c \in Conn, Failed(h, c) PROVE Told(x, y, e)'
    BY <1>13 DEF Failed, Becomes2, Open, Carried, Told, Got, Up, PastBook, Past
  <1>14. ASSUME NEW h \in Host, NEW c \in Conn, Pushed(h, c) PROVE Told(x, y, e)'
    BY <1>14 DEF Pushed, Carried, Told, Got, Up, PastBook, Past
  <1>15. ASSUME NEW h \in Host, NEW c \in Conn, Closed(h, c) PROVE Told(x, y, e)'
    BY <1>15
       DEF Closed, Open, Sent, Carried, Told, Got, Up, PastBook, Past, Basics, Handling,
           Attended, Established
  <1>16. ASSUME NEW h \in Host, NEW m \in wire, Heard(h, m) PROVE Told(x, y, e)'
    BY <1>16
       DEF Heard, Becomes2, Carried, Told, Got, Up, PastBook, Past, Basics, Attended,
           Announcements
  <1>17. ASSUME NEW h \in Host, NEW m \in wire, Misheard(h, m) PROVE Told(x, y, e)'
    BY <1>17 DEF Misheard, Becomes2, Carried, Told, Got, Up, PastBook, Past
  <1>18. ASSUME NEW h \in Host, NEW m \in wire, Stored(h, m) PROVE Told(x, y, e)'
    <2>1. /\ exr' = exr /\ got' = got /\ cur' = cur /\ seen' = seen /\ step' = step
          /\ wire' = wire \ {m} /\ dead' = dead /\ handlers' = handlers
      BY <1>18 DEF Stored
    <2>2. /\ ~Got(y, e)' => \A n \in wire' : n.c = e /\ n.from = x /\ n.type \notin Announcements => n.protocols = handlers'[x]
          /\ Got(y, e)' /\ ~PastBook(y, e)' => got'[y][e] = handlers'[x]
      BY <2>1 DEF Carried, Told, Got, PastBook, Past
    <2>3. ASSUME Up(y, e)', PastBook(y, e)' PROVE book'[y] = handlers'[x]
      <3>1. Up(y, e) /\ PastBook(y, e)
        BY <2>1, <2>3 DEF Up, PastBook, Past
      <3>2. book[y] = handlers[x]
        BY <3>1 DEF Carried, Told
      <3>3. CASE h # y
        BY <1>18, <3>2, <3>3 DEF Stored, Becomes
      <3>4. CASE h = y
        <4>1. m.from = x /\ m.c \in served[y] /\ m.c \in Conn /\ m.type \in Announcements /\ book'[y] = m.protocols
          BY <1>18, <3>4 DEF Stored, Becomes, Basics
        <4>2. m.c \notin dead /\ Past(x, m.c) /\ Past(y, m.c)
          BY <4>1 DEF PushUsed, In, Past, Handling, Basics
        <4>3. \A f \in Host : Past(f, m.c)
          BY <4>2 DEF Basics
        <4>4. ~(m.c \in served[x] /\ m.c \notin conns[x])
          BY <4>1, <4>2, <4>3 DEF Forgotten
        <4>5. m.protocols = handlers[x]
          BY <4>1, <4>2, <4>4 DEF Carried, NoneOlder
        <4>6. QED
          BY <2>1, <4>1, <4>5
      <3>5. QED
        BY <3>3, <3>4
    <2>4. QED
      BY <2>2, <2>3 DEF Told
  <1>19. ASSUME NEW m \in wire, Vanished(m) PROVE Told(x, y, e)'
    BY <1>19 DEF Vanished, Carried, Told, Got, Up, PastBook, Past
  <1>20. CASE Idled
    BY <1>20
       DEF Idled, Carried, Told, Got, Up, PastBook, Past
  <1>21. QED
    BY <1>1, <1>2, <1>3, <1>4, <1>5, <1>6, <1>7, <1>8, <1>9, <1>10, <1>11, <1>12, <1>13,
       <1>14, <1>15, <1>16, <1>17, <1>18, <1>19, <1>20
       DEF Effect, Change

\* which no older push replaces.
LEMMA NoneOlderStep ==
  ASSUME Effect, Basics, Handling,
         NEW x \in Host, NoneOlder(x), ~Registered(x)
  PROVE  NoneOlder(x)'
  <1>1. ASSUME NEW h \in Host, Skipped(h) PROVE NoneOlder(x)'
    BY <1>1 DEF Skipped, NoneOlder
  <1>2. ASSUME NEW h \in Host, Booked(h) PROVE NoneOlder(x)'
    BY <1>2 DEF Booked, NoneOlder
  <1>3. ASSUME NEW h \in Host, Registered(h) PROVE NoneOlder(x)'
    BY <1>3 DEF Registered, Becomes, NoneOlder
  <1>4. ASSUME NEW h \in Host, Dropped(h) PROVE NoneOlder(x)'
    BY <1>4 DEF Dropped, NoneOlder
  <1>5. ASSUME NEW h \in Host, NEW c \in Conn, Took(h, c) PROVE NoneOlder(x)'
    BY <1>5 DEF Took, NoneOlder
  <1>6. ASSUME NEW h \in Host, NEW c \in Conn, Began(h, c) PROVE NoneOlder(x)'
    BY <1>6 DEF Began, NoneOlder
  <1>7. ASSUME NEW h \in Host, NEW c \in Conn, Went(h, c) PROVE NoneOlder(x)'
    BY <1>7 DEF Went, NoneOlder
  <1>8. ASSUME NEW h \in Host, NEW c \in Conn, GaveUp(h, c) PROVE NoneOlder(x)'
    BY <1>8 DEF GaveUp, NoneOlder
  <1>9. ASSUME NEW h \in Host, NEW c \in Conn, Refused(h, c) PROVE NoneOlder(x)'
    BY <1>9 DEF Refused, NoneOlder
  <1>10. ASSUME NEW h \in Host, NEW c \in Conn, Added(h, c) PROVE NoneOlder(x)'
    BY <1>10 DEF Added, Becomes, NoneOlder, Basics, Handling
  <1>11. ASSUME NEW h \in Host, NEW c \in Conn, Finished(h, c) PROVE NoneOlder(x)'
    BY <1>11 DEF Finished, Becomes, NoneOlder
  <1>12. ASSUME NEW h \in Host, NEW c \in Conn, Spoke(h, c) PROVE NoneOlder(x)'
    BY <1>12 DEF Spoke, NoneOlder
  <1>13. ASSUME NEW h \in Host, NEW c \in Conn, Failed(h, c) PROVE NoneOlder(x)'
    BY <1>13 DEF Failed, NoneOlder
  <1>14. ASSUME NEW h \in Host, NEW c \in Conn, Pushed(h, c) PROVE NoneOlder(x)'
    BY <1>14 DEF Pushed, NoneOlder
  <1>15. ASSUME NEW h \in Host, NEW c \in Conn, Closed(h, c) PROVE NoneOlder(x)'
    BY <1>15 DEF Closed, Becomes, NoneOlder
  <1>16. ASSUME NEW h \in Host, NEW m \in wire, Heard(h, m) PROVE NoneOlder(x)'
    BY <1>16 DEF Heard, NoneOlder
  <1>17. ASSUME NEW h \in Host, NEW m \in wire, Misheard(h, m) PROVE NoneOlder(x)'
    BY <1>17 DEF Misheard, NoneOlder
  <1>18. ASSUME NEW h \in Host, NEW m \in wire, Stored(h, m) PROVE NoneOlder(x)'
    BY <1>18 DEF Stored, NoneOlder
  <1>19. ASSUME NEW m \in wire, Vanished(m) PROVE NoneOlder(x)'
    BY <1>19 DEF Vanished, NoneOlder
  <1>20. CASE Idled
    BY <1>20 DEF Idled, NoneOlder
  <1>21. QED
    BY <1>1, <1>2, <1>3, <1>4, <1>5, <1>6, <1>7, <1>8, <1>9, <1>10, <1>11, <1>12, <1>13,
       <1>14, <1>15, <1>16, <1>17, <1>18, <1>19, <1>20
       DEF Effect, Change

\* A registration is pushed, or told in the exchange that is under way.
LEMMA RegisteredKnown ==
  ASSUME Basics, Growing, Attended, NEW x \in Host, NEW y \in Host, NEW e \in Conn,
         Open(x, y, e), Registered(x)
  PROVE  Known(x, y, e)'
  <1>1. /\ cur' = cur /\ step' = step /\ myProtocolsLength' = myProtocolsLength
        /\ dead' = dead /\ exr' = exr /\ seen' = seen /\ pushes'[x] = pushes[x] + 1
    BY DEF Registered, Becomes
  <1>2. exr[x][e] # "none" /\ e \notin dead
    BY DEF Open, Sent
  <1>3. CASE cur[x] = e /\ step[x] \in {"exchange", "add", "book"}
    <2>1. myProtocolsLength[x] <= Cardinality(handlers[x])
      BY <1>2, <1>3, HostAssumption DEF Growing
    <2>2. myProtocolsLength[x] < Cardinality(handlers'[x])
      BY <2>1, HandlersGrow DEF Basics
    <2>3. QED
      BY <1>1, <1>3, <2>2 DEF Known, Outgrown
  <1>4. CASE ~(cur[x] = e /\ step[x] \in {"exchange", "add", "book"})
    <2>1. Up(x, e) /\ PastBook(x, e)
      BY <1>2, <1>4 DEF Attended, Up, PastBook
    <2>2. Up(x, e)' /\ PastBook(x, e)'
      BY <1>1, <2>1 DEF Up, PastBook, Past
    <2>3. pushes'[x] > 0
      BY <1>1 DEF Basics
    <2>4. QED
      BY <2>2, <2>3 DEF Known, Pending
  <1>5. QED
    BY <1>3, <1>4

\* What is told is what is registered; the pushes of the host are over.
LEMMA SpokeKnown ==
  ASSUME Basics, Handling, Replies, Payloads, Attended, PushUsed,
         NEW x \in Host, NEW y \in Host, x # y, NEW e \in Conn, Spoke(x, e)
  PROVE  Known(x, y, e)'
  <1> DEFINE n == [c |-> e, from |-> x, protocols |-> handlers[x],
                   type |-> IF Dialer[e] = x THEN "REQUEST" ELSE "RESPONSE"]
  <1>1. /\ exr[x][e] = "send" /\ e \notin dead /\ wire' = wire \cup {n}
        /\ exr'[y] [e] = exr[y][e] /\ handlers' = handlers /\ dead' = dead
        /\ served' = served /\ conns' = conns
    BY DEF Spoke, Becomes2
  <1>2. n.protocols = handlers[x] /\ n.type \notin Announcements
    BY DEF Announcements
  <1> HIDE DEF n
  <1>3. ~Got(y, e) /\ exr[y][e] # "ok"
    BY <1>1 DEF Replies, Got, Basics
  <1>4. \A m \in wire : m.c = e /\ m.from = x => m.type \in Announcements
    BY <1>1 DEF Payloads, Basics
  <1>5. Told(x, y, e)'
    BY <1>1, <1>2, <1>3, <1>4 DEF Told, Got, Up
  <1>6. step[x] = "exchange" /\ conns[x] = {}
    BY <1>1 DEF Attended, Handling
  <1>7. NoneOlder(x)'
    BY <1>1, <1>2, <1>6 DEF NoneOlder, PushUsed, In
  <1>8. QED
    BY <1>5, <1>7 DEF Known, Carried

\* Every told host stays Known.
LEMMA FreshStep ==
  ASSUME Basics, Basics', Handling, Growing, Replies, Payloads, Attended,
         OnePush, PushUsed, Established, Fresh, Effect
  PROVE  Fresh'
  <1>1. CASE \E c \in Conn : Forgotten(c)
    BY <1>1, ForgottenStays DEF Fresh
  <1>2. CASE ~\E c \in Conn : Forgotten(c)
    <2> SUFFICES ASSUME NEW x \in Host, NEW y \in Host, x # y, NEW e \in Conn, Open(x, y, e)',
                        x \notin overlapped'
                 PROVE  Known(x, y, e)'
      BY DEF Fresh
    <2>0. x \notin overlapped
      BY DEF Effect
    <2>1. CASE Spoke(x, e)
      BY <2>1, SpokeKnown
    <2>2. CASE Registered(x) /\ Open(x, y, e)
      BY <2>2, RegisteredKnown
    <2>3. CASE Open(x, y, e) /\ ~Registered(x)
      <3>1. Known(x, y, e)
        BY <1>2, <2>0, <2>3 DEF Fresh
      <3>2. e \notin dead'
        BY DEF Open
      <3>3. CASE Outgrown(x, e)
        BY <2>3, <3>3, OutgrownStep
      <3>4. CASE Pending(x, e)
        BY <3>2, <3>4, PendingStep DEF Known
      <3>5. CASE Pushing(x)
        <4>1. conns[x] # {}
          BY <3>5 DEF Pushing
        <4>2. Up(x, e)
          BY <2>3, <4>1 DEF Attended, Handling, Open, Sent, Up
        <4>3. QED
          BY <1>2, <2>0, <2>3, <3>5, <4>2, PushingStep DEF Known
      <3>6. CASE Carried(x, y, e)
        <4>1. Told(x, y, e)'
          BY <1>2, <2>3, <3>6, ToldStep
        <4>2. NoneOlder(x)'
          BY <2>3, <3>6, NoneOlderStep DEF Carried
        <4>3. QED
          BY <4>1, <4>2 DEF Known, Carried
      <3>7. QED
        BY <3>1, <3>3, <3>4, <3>5, <3>6 DEF Known
    <2>4. QED
      BY <2>1, <2>2, <2>3, OpenStep
  <1>3. QED
    BY <1>1, <1>2

-----------------------------------------------------------------------------
\* The inductive invariant
FreshInv ==
  /\ Handling /\ Growing /\ Replies /\ Payloads /\ Attended
  /\ OnePush /\ PushUsed /\ Established /\ Introduced /\ Fresh

LEMMA FreshInit == ASSUME ExchangeInit PROVE FreshInv
  <1>1. Handling /\ Growing /\ Replies /\ Payloads /\ Attended
    BY DEF ExchangeInit, Handling, Growing, Replies, Payloads, Attended
  <1>2. OnePush /\ PushUsed /\ Established
    BY DEF ExchangeInit, OnePush, PushUsed, Established, Up, Past
  <1>3. Introduced
    <2>1. PICK h \in Host : TRUE
      BY HostAssumption, FS_EmptySet
    <2>2. ~Has(h)
      BY DEF ExchangeInit, Has
    <2>3. QED
      BY <2>2 DEF Introduced
  <1>4. Fresh
    BY DEF ExchangeInit, Fresh, Open, Sent
  <1>5. QED
    BY <1>1, <1>2, <1>3, <1>4 DEF FreshInv

LEMMA FreshInvStep ==
  ASSUME FreshInv, ExchangeTypeInv, Basics, Basics', [ExchangeNext]_exchangeVars,
         ~Races, ~Unregisters
  PROVE  FreshInv'
  <1>1. Effect
    BY EveryEffect DEF ExchangeTypeInv
  <1>2. Handling' /\ Growing' /\ Replies' /\ Payloads' /\ Attended'
    BY <1>1, HandlingStep, GrowingStep, RepliesStep, PayloadsStep, AttendedStep DEF FreshInv
  <1>3. OnePush' /\ PushUsed' /\ Established' /\ Introduced'
    BY <1>1, OnePushStep, PushUsedStep, EstablishedStep, IntroducedStep
       DEF FreshInv
  <1>4. Fresh'
    BY <1>1, FreshStep DEF FreshInv
  <1>5. QED
    BY <1>2, <1>3, <1>4 DEF FreshInv

\* When nothing is under way, Known means that the book is right.
LEMMA FreshBooks == ASSUME FreshInv PROVE BooksFresh
  <1> SUFFICES ASSUME Settled, \A h \in Host : served[h] = conns[h],
                      NEW y \in Host, conns[y] \cap conns[Other(y)] # {}, Other(y) \notin overlapped
               PROVE  book[y] = handlers[Other(y)]
    BY DEF BooksFresh
  <1> DEFINE x == Other(y)
  <1>1. x \in Host /\ x # y /\ \A f \in Host : f = y \/ f = x
    BY TwoHosts
  <1>2. \A h \in Host : Has(h)
    BY <1>1 DEF Has
  <1>3. PICK e \in Conn : \A h \in Host : Up(h, e)
    BY <1>2 DEF FreshInv, Introduced
  <1> HIDE DEF x
  <1>4. Open(x, y, e)
    BY <1>1, <1>3 DEF Open, Up, Sent
  <1>5. ~\E c \in Conn : Forgotten(c)
    BY DEF Forgotten
  <1>6. Known(x, y, e)
    BY <1>1, <1>4, <1>5 DEF FreshInv, Fresh, x
  <1>7. cur[x] = None /\ cur[y] = None /\ pushes[x] = 0 /\ wire = {}
    BY <1>1 DEF Settled
  <1>8. Told(x, y, e)
    BY <1>6, <1>7, HostAssumption DEF Known, Outgrown, Pending, Pushing, Carried
  <1>9. Up(y, e) /\ PastBook(y, e)
    BY <1>3, <1>7, HostAssumption DEF PastBook, Up
  <1>10. QED
    BY <1>8, <1>9 DEF Told, x

\* Once all is settled, two hosts with a connection in common know what each
\* other has registered, for any number of connections, handled by each host in
\* an order of its own, and however exchanges time out; if the race on the
\* results of ExchangeProtocol does not show, no handler is unregistered, and
\* no announcement (PUSH, PUSH_OK) of the host that is known was sent while
\* another of its was on the way.
THEOREM BooksStayFresh ==
  ASSUME ~Races, ~Unregisters
  PROVE  ExchangeSpec => []BooksFresh
  <1>1. ExchangeInit => FreshInv
    BY FreshInit
  <1>2. FreshInv /\ ExchangeTypeInv /\ Basics /\ Basics' /\ [ExchangeNext]_exchangeVars => FreshInv'
    BY FreshInvStep
  <1>3. FreshInv => BooksFresh
    BY FreshBooks
  <1>4. ExchangeTypeInv => Basics
    BY BasicsHold
  <1>5. QED
    BY <1>1, <1>2, <1>3, <1>4, ExchangeTypeAlways, PTL DEF ExchangeSpec
=============================================================================
