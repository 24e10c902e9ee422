----------------------- MODULE HostConnectionsProofs ------------------------
(***************************************************************************)
(* What holds of the connections of a host for every set of peers and      *)
(* connections, every limit and every interleaving of acceptConnLoop, the  *)
(* acceptReceiveStreamLoops and handleClosingConn.                         *)
(***************************************************************************)
EXTENDS HostConnections, TLAPS

\* acceptConnLoop: where handleNewConnection is, it has a connection that it
\* took once; the connection gets its acceptReceiveStreamLoop at "serve".
Handling ==
  /\ step = "idle" <=> cur = None
  /\ cur # None => cur \in seen
  /\ \A c \in Conn : c \notin seen => loop[c] = "none"
  /\ cur # None => (loop[cur] = "none" <=> step \notin {"store", "notify"})
  /\ step = "add" => cur \in pools

\* handleClosingConn at work: the connection has left the manager.
Leaving == {"removed", "notify", "clean", "rest"}

\* A connection of the manager: it is in the entry of its peer, has a pool,
\* and nobody has begun to take its pool away; if it has no loop yet,
\* handleNewConnection is about to give it one; if its loop has ended while
\* the host runs, it was closed.
EntrySound ==
  \A p \in Peer : \A c \in conns[p] :
    /\ Owner[c] = p /\ c \in pools /\ loop[c] \notin Leaving
    /\ loop[c] = "none" => c = cur /\ step \in {"book", "serve"}
    /\ loop[c] = "done" /\ ~stopped => c \in closed

\* The inductive invariant.
HostInv == TypeOK /\ Handling /\ EntrySound

LEMMA HostInit == Init => HostInv
  <1> SUFFICES ASSUME Init PROVE HostInv
    OBVIOUS
  <1>1. TypeOK
    <2>1. notifyConnC \in Seq(Conn) /\ Len(notifyConnC) <= 1
      BY DEF Init
    <2>2. exchanged \in BOOLEAN /\ stopped \in BOOLEAN
      BY DEF Init
    <2>3. loop \in [Conn -> LoopStates] /\ conns \in [Peer -> SUBSET Conn]
      BY DEF Init, LoopStates
    <2>4. QED
      BY <2>1, <2>2, <2>3 DEF Init, TypeOK, Steps
  <1>2. Handling
    BY DEF Init, Handling
  <1>3. EntrySound
    BY DEF Init, EntrySound
  <1>4. QED
    BY <1>1, <1>2, <1>3 DEF HostInv

LEMMA HostStep == HostInv /\ [Next]_vars => HostInv'
  <1> SUFFICES ASSUME HostInv, [Next]_vars PROVE HostInv'
    OBVIOUS
  <1> USE HostAssumption DEF newVars, mgrVars, tailVars
  <1>0. TypeOK /\ Handling /\ EntrySound
    BY DEF HostInv
  <1>1. CASE UNCHANGED vars
    BY <1>0, <1>1 DEF vars, HostInv, TypeOK, Handling, EntrySound
  <1>2. ASSUME NEW c \in Conn, AcceptConn(c) PROVE HostInv'
    <2>1. TypeOK'
      BY <1>0, <1>2 DEF AcceptConn, TypeOK, Steps
    <2>2. Handling'
      BY <1>0, <1>2 DEF AcceptConn, TypeOK, Handling
    <2>3. EntrySound'
      BY <1>0, <1>2 DEF AcceptConn, TypeOK, Handling, EntrySound
    <2>4. QED
      BY <2>1, <2>2, <2>3 DEF HostInv
  <1>3. CASE NewCheck
    <2>1. TypeOK'
      BY <1>0, <1>3 DEF NewCheck, Return, TypeOK, Steps, Handling
    <2>2. Handling'
      BY <1>0, <1>3 DEF NewCheck, Return, TypeOK, Handling
    <2>3. EntrySound'
      BY <1>0, <1>3 DEF NewCheck, Return, TypeOK, Handling, EntrySound
    <2>4. QED
      BY <2>1, <2>2, <2>3 DEF HostInv
  <1>4. CASE NewDecide
    <2>1. TypeOK'
      BY <1>0, <1>4 DEF NewDecide, TypeOK, Steps, Handling, Connected
    <2>2. Handling'
      BY <1>0, <1>4 DEF NewDecide, TypeOK, Handling
    <2>3. EntrySound'
      BY <1>0, <1>4 DEF NewDecide, TypeOK, Handling, EntrySound
    <2>4. QED
      BY <2>1, <2>2, <2>3 DEF HostInv
  <1>5. CASE NewExchange
    <2>1. TypeOK'
      BY <1>0, <1>5 DEF NewExchange, Fail, Return, TypeOK, Steps, Handling
    <2>2. Handling'
      BY <1>0, <1>5 DEF NewExchange, Fail, Return, TypeOK, Handling
    <2>3. EntrySound'
      BY <1>0, <1>5 DEF NewExchange, Fail, Return, TypeOK, Handling, EntrySound
    <2>4. QED
      BY <2>1, <2>2, <2>3 DEF HostInv
  <1>6. CASE NewPool
    <2>1. TypeOK'
      BY <1>0, <1>6 DEF NewPool, Fail, Return, TypeOK, Steps, Handling
    <2>2. Handling'
      BY <1>0, <1>6 DEF NewPool, Fail, Return, TypeOK, Handling
    <2>3. EntrySound'
      BY <1>0, <1>6 DEF NewPool, Fail, Return, TypeOK, Handling, EntrySound
    <2>4. QED
      BY <2>1, <2>2, <2>3 DEF HostInv
  \* the connection, which has a pool and no loop yet, enters the manager
  <1>7. CASE NewAdd
    <2>0. /\ cur \in Conn /\ Owner[cur] \in Peer /\ loop[cur] = "none" /\ cur \in pools
          /\ step = "add" /\ step' \in {"book", "serve"} /\ cur \in seen
          /\ UNCHANGED <<cur, exchanged, seen, rejected, dead, loop, pools, book, addrs,
                         notifyConnC, told, stopped>>
      BY <1>0, <1>7 DEF NewAdd, TypeOK, Handling
    <2> DEFINE added == [conns EXCEPT ![Owner[cur]] = @ \cup {cur}]
    <2>1. added \in [Peer -> SUBSET Conn]
          /\ \A p \in Peer : added[p] = IF p = Owner[cur] THEN conns[p] \cup {cur} ELSE conns[p]
      BY <1>0, <2>0 DEF TypeOK
    <2>2. /\ conns' \in [Peer -> SUBSET Conn] /\ \A p \in Peer : conns'[p] \subseteq added[p]
          /\ eliminatePeers' \in SUBSET Peer
          /\ closed' \in SUBSET Conn /\ closed \subseteq closed'
      <3> DEFINE entries == {q \in Peer : added[q] # {}}
      <3>1. CASE conns' = added /\ UNCHANGED <<eliminatePeers, closed>>
        BY <1>0, <2>1, <3>1 DEF TypeOK
      <3>2. ASSUME NEW q \in Peer, conns' = [added EXCEPT ![q] = {}],
                   eliminatePeers' = eliminatePeers \cup {q}, closed' = closed \cup added[q]
            PROVE  /\ conns' \in [Peer -> SUBSET Conn] /\ \A p \in Peer : conns'[p] \subseteq added[p]
                   /\ eliminatePeers' \in SUBSET Peer
                   /\ closed' \in SUBSET Conn /\ closed \subseteq closed'
        BY <1>0, <2>1, <3>2 DEF TypeOK
      <3>3. AddPeerConnection(cur)
        BY <1>7 DEF NewAdd
      <3>4. QED
        BY <3>1, <3>2, <3>3 DEF AddPeerConnection
    <2> HIDE DEF added
    <2>3. TypeOK'
      BY <1>0, <2>0, <2>2 DEF TypeOK, Steps
    <2>4. Handling'
      BY <1>0, <2>0 DEF Handling, TypeOK
    <2>5. ASSUME NEW p \in Peer, NEW c \in conns'[p]
          PROVE  /\ Owner[c] = p /\ c \in pools' /\ loop'[c] \notin Leaving
                 /\ loop'[c] = "none" => c = cur' /\ step' \in {"book", "serve"}
                 /\ loop'[c] = "done" /\ ~stopped' => c \in closed'
      <3>1. c \in conns[p] \/ (c = cur /\ p = Owner[cur])
        BY <2>1, <2>2
      <3>2. CASE c \in conns[p]
        BY <1>0, <2>0, <2>2, <3>2 DEF EntrySound
      <3>3. CASE c = cur /\ p = Owner[cur]
        BY <2>0, <3>3 DEF Leaving
      <3>4. QED
        BY <3>1, <3>2, <3>3
    <2>6. QED
      BY <2>3, <2>4, <2>5 DEF HostInv, EntrySound
  <1>8. CASE NewBook
    <2>1. TypeOK'
      BY <1>0, <1>8 DEF NewBook, TypeOK, Steps, Handling
    <2>2. Handling'
      BY <1>0, <1>8 DEF NewBook, TypeOK, Handling
    <2>3. EntrySound'
      BY <1>0, <1>8 DEF NewBook, TypeOK, Handling, EntrySound
    <2>4. QED
      BY <2>1, <2>2, <2>3 DEF HostInv
  <1>9. CASE NewServe
    <2>1. TypeOK'
      BY <1>0, <1>9 DEF NewServe, TypeOK, Steps, LoopStates, Handling
    <2>2. Handling'
      BY <1>0, <1>9 DEF NewServe, TypeOK, Handling
    <2>3. EntrySound'
      BY <1>0, <1>9 DEF NewServe, TypeOK, Handling, EntrySound, Leaving
    <2>4. QED
      BY <2>1, <2>2, <2>3 DEF HostInv
  <1>10. CASE NewStore
    <2>1. TypeOK'
      BY <1>0, <1>10 DEF NewStore, Return, TypeOK, Steps, Handling
    <2>2. Handling'
      BY <1>0, <1>10 DEF NewStore, Return, TypeOK, Handling
    <2>3. EntrySound'
      BY <1>0, <1>10 DEF NewStore, Return, TypeOK, Handling, EntrySound
    <2>4. QED
      BY <2>1, <2>2, <2>3 DEF HostInv
  <1>11. CASE NewNotify
    <2>1. TypeOK'
      <3>1. cur \in Conn
        BY <1>0, <1>11 DEF NewNotify, TypeOK, Handling
      <3>2. notifyConnC' \in Seq(Conn) /\ Len(notifyConnC') <= 1
        BY <1>11, <3>1 DEF NewNotify
      <3>3. QED
        BY <1>0, <1>11, <3>2 DEF NewNotify, Return, TypeOK, Steps
    <2>2. Handling'
      BY <1>0, <1>11 DEF NewNotify, Return, TypeOK, Handling
    <2>3. EntrySound'
      BY <1>0, <1>11 DEF NewNotify, Return, TypeOK, Handling, EntrySound
    <2>4. QED
      BY <2>1, <2>2, <2>3 DEF HostInv
  \* the loop of a connection moves on; it has been spawned
  <1>12. ASSUME NEW c \in Conn, NEW l \in LoopStates \ {"none"}, Goto(c, l), loop[c] # "none"
         PROVE  /\ loop' \in [Conn -> LoopStates] /\ loop'[c] = l
                /\ \A d \in Conn \ {c} : loop'[d] = loop[d]
                /\ \A d \in Conn : loop'[d] = "none" <=> loop[d] = "none"
    BY <1>0, <1>12 DEF TypeOK, Goto
  <1>13. ASSUME NEW c \in Conn, LoopTop(c) PROVE HostInv'
    <2>1. PICK l \in {"done", "closing", "accepting"} :
            /\ Goto(c, l) /\ closed' \in {closed, closed \cup {c}}
            /\ l = "done" => stopped \/ c \in closed'
      BY <1>13 DEF LoopTop
    <2>2. loop[c] = "top" /\ UNCHANGED <<newVars, dead, mgrVars, pools, book, addrs, tailVars>>
      BY <1>13 DEF LoopTop
    <2>3. /\ loop' \in [Conn -> LoopStates] /\ loop'[c] = l
          /\ \A d \in Conn \ {c} : loop'[d] = loop[d]
          /\ \A d \in Conn : loop'[d] = "none" <=> loop[d] = "none"
      BY <1>12, <2>1, <2>2 DEF LoopStates
    <2>4. TypeOK'
      BY <1>0, <2>1, <2>2, <2>3 DEF TypeOK
    <2>5. Handling'
      BY <1>0, <2>2, <2>3 DEF TypeOK, Handling
    <2>6. EntrySound'
      BY <1>0, <2>1, <2>2, <2>3 DEF TypeOK, EntrySound, Leaving
    <2>7. QED
      BY <2>4, <2>5, <2>6 DEF HostInv
  <1>14. ASSUME NEW c \in Conn, LoopAccept(c) PROVE HostInv'
    <2>1. PICK l \in {"done", "top", "timedout"} :
            /\ Goto(c, l) /\ closed' \in {closed, closed \cup {c}}
            /\ l = "done" => c \in closed'
      BY <1>14 DEF LoopAccept
    <2>2. loop[c] = "accepting" /\ UNCHANGED <<newVars, dead, mgrVars, pools, book, addrs, tailVars>>
      BY <1>14 DEF LoopAccept
    <2>3. /\ loop' \in [Conn -> LoopStates] /\ loop'[c] = l
          /\ \A d \in Conn \ {c} : loop'[d] = loop[d]
          /\ \A d \in Conn : loop'[d] = "none" <=> loop[d] = "none"
      BY <1>12, <2>1, <2>2 DEF LoopStates
    <2>4. TypeOK'
      BY <1>0, <2>1, <2>2, <2>3 DEF TypeOK
    <2>5. Handling'
      BY <1>0, <2>2, <2>3 DEF TypeOK, Handling
    <2>6. EntrySound'
      BY <1>0, <2>1, <2>2, <2>3 DEF TypeOK, EntrySound, Leaving
    <2>7. QED
      BY <2>4, <2>5, <2>6 DEF HostInv
  \* the connection leaves the manager, its siblings with it
  <1>15. ASSUME NEW c \in Conn, ClosingRemove(c) PROVE HostInv'
    <2>1. PICK l \in {"done", "removed"} : Goto(c, l)
      BY <1>15 DEF ClosingRemove
    <2>2. /\ loop[c] = "closing" /\ Owner[c] \in Peer
          /\ conns' = [conns EXCEPT ![Owner[c]] = IF c \in @ THEN {} ELSE @]
          /\ eliminatePeers' = eliminatePeers \ {Owner[c]}
          /\ UNCHANGED <<newVars, closed, dead, pools, book, addrs, tailVars>>
      BY <1>15 DEF ClosingRemove, RemovePeerConnection
    <2>3. /\ loop' \in [Conn -> LoopStates] /\ loop'[c] = l
          /\ \A d \in Conn \ {c} : loop'[d] = loop[d]
          /\ \A d \in Conn : loop'[d] = "none" <=> loop[d] = "none"
      BY <1>12, <2>1, <2>2 DEF LoopStates
    <2>4. /\ conns' \in [Peer -> SUBSET Conn] /\ \A p \in Peer : conns'[p] \subseteq conns[p]
          /\ c \notin conns'[Owner[c]]
      BY <1>0, <2>2 DEF TypeOK
    <2>5. TypeOK'
      BY <1>0, <2>2, <2>3, <2>4 DEF TypeOK
    <2>6. Handling'
      BY <1>0, <2>2, <2>3 DEF TypeOK, Handling
    <2>7. ASSUME NEW p \in Peer, NEW d \in conns'[p] PROVE d \in conns[p] /\ d \in Conn \ {c}
      BY <1>0, <2>4, <2>7 DEF TypeOK, EntrySound
    <2>8. EntrySound'
      BY <1>0, <2>2, <2>3, <2>7 DEF EntrySound
    <2>9. QED
      BY <2>5, <2>6, <2>8 DEF HostInv
  \* a handler that has removed the connection goes on
  <1>16. ASSUME NEW c \in Conn, loop[c] \in Leaving, NEW l \in LoopStates \ {"none"}, Goto(c, l),
                book' \in SUBSET Peer, addrs' \in SUBSET Conn, pools' \in {pools, pools \ {c}},
                notifyConnC' \in Seq(Conn), Len(notifyConnC') <= 1,
                UNCHANGED <<newVars, closed, dead, mgrVars, told, stopped>>
         PROVE  HostInv'
    <2>1. /\ loop' \in [Conn -> LoopStates] /\ loop'[c] = l
          /\ \A d \in Conn \ {c} : loop'[d] = loop[d]
          /\ \A d \in Conn : loop'[d] = "none" <=> loop[d] = "none"
      BY <1>12, <1>16 DEF Leaving
    <2>2. \A p \in Peer : c \notin conns[p]
      BY <1>0, <1>16 DEF EntrySound
    <2>3. TypeOK'
      BY <1>0, <1>16, <2>1 DEF TypeOK
    <2>4. Handling'
      BY <1>0, <1>16, <2>1 DEF TypeOK, Handling, Leaving
    <2>5. EntrySound'
      BY <1>0, <1>16, <2>1, <2>2 DEF TypeOK, EntrySound
    <2>6. QED
      BY <2>3, <2>4, <2>5 DEF HostInv
  <1>17. ASSUME NEW c \in Conn, ClosingCheck(c) PROVE HostInv'
    <2>1. PICK l \in LoopStates \ {"none"} : Goto(c, l)
      BY <1>17 DEF ClosingCheck, LoopStates
    <2>2. QED
      BY <1>0, <1>16, <1>17, <2>1 DEF ClosingCheck, Leaving, TypeOK
  <1>18. ASSUME NEW c \in Conn, ClosingNotify(c) PROVE HostInv'
    <2>1. notifyConnC' \in Seq(Conn) /\ Len(notifyConnC') <= 1
      BY <1>18 DEF ClosingNotify
    <2>2. QED
      BY <1>0, <1>16, <1>18, <2>1 DEF ClosingNotify, Leaving, LoopStates, TypeOK
  <1>19. ASSUME NEW c \in Conn, ClosingClean(c) PROVE HostInv'
    BY <1>0, <1>16, <1>19 DEF ClosingClean, Leaving, LoopStates, TypeOK
  <1>20. ASSUME NEW c \in Conn, ClosingRest(c) PROVE HostInv'
    BY <1>0, <1>16, <1>20 DEF ClosingRest, Leaving, LoopStates, TypeOK
  \* nothing happens to managers and loops but that connections are closed
  <1>21. ASSUME UNCHANGED <<newVars, loop, mgrVars, pools>>, closed \subseteq closed',
                stopped => stopped', TypeOK'
         PROVE  HostInv'
    <2>1. Handling'
      BY <1>0, <1>21 DEF Handling
    <2>2. EntrySound'
      BY <1>0, <1>21 DEF EntrySound
    <2>3. QED
      BY <1>21, <2>1, <2>2 DEF HostInv
  <1>22. CASE NotifyConn
    <2>1. Head(notifyConnC) \in Conn
      BY <1>0, <1>22 DEF NotifyConn, TypeOK
    <2>2. TypeOK'
      BY <1>0, <1>22, <2>1 DEF NotifyConn, TypeOK
    <2>3. QED
      BY <1>21, <1>22, <2>2 DEF NotifyConn
  <1>23. CASE Stop
    <2>1. TypeOK'
      BY <1>0, <1>23 DEF Stop, TypeOK
    <2>2. QED
      BY <1>21, <1>23, <2>1 DEF Stop
  <1>24. ASSUME NEW c \in Conn, ConnDies(c) PROVE HostInv'
    <2>1. TypeOK'
      BY <1>0, <1>24 DEF ConnDies, TypeOK
    <2>2. QED
      BY <1>21, <1>24, <2>1 DEF ConnDies
  <1>25. ASSUME NEW c \in Conn, ReaderCloses(c) PROVE HostInv'
    <2>1. TypeOK'
      BY <1>0, <1>25 DEF ReaderCloses, TypeOK
    <2>2. QED
      BY <1>21, <1>25, <2>1 DEF ReaderCloses
  <1>26. QED
    BY <1>1, <1>2, <1>3, <1>4, <1>5, <1>6, <1>7, <1>8, <1>9, <1>10, <1>11, <1>13, <1>14,
       <1>15, <1>17, <1>18, <1>19, <1>20, <1>22, <1>23, <1>24, <1>25
       DEF Next, NewStep, ClosingStep

LEMMA HostAlways == Spec => []HostInv
  BY HostInit, HostStep, PTL DEF Spec

-----------------------------------------------------------------------------
\* Every variable of the host keeps its type.
THEOREM TypeCorrect == Spec => []TypeOK
  <1>1. HostInv => TypeOK
    BY DEF HostInv
  <1>2. QED
    BY HostAlways, <1>1, PTL

\* A connection the connection manager knows has a send stream pool, in every
\* interleaving of handleNewConnection and any number of handleClosingConns.
THEOREM PoolWhileTracked == Spec => []TrackedHasPool
  <1>1. HostInv => TrackedHasPool
    BY DEF HostInv, EntrySound, TrackedHasPool
  <1>2. QED
    BY HostAlways, <1>1, PTL

\* No connection of a running host lives on without a goroutine that waits
\* for its end, unless that goroutine was ended by a timeout of the network.
THEOREM ObservedWhileTracked == Spec => []TrackedIsObserved
  <1>1. HostInv => TrackedIsObserved
    BY DEF HostInv, EntrySound, TrackedIsObserved
  <1>2. QED
    BY HostAlways, <1>1, PTL
=============================================================================
