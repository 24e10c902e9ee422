--------------------------- MODULE HostConnections --------------------------
(***************************************************************************)
(* The life of connections inside a host (host.go): the acceptConnLoop     *)
(* runs handleNewConnection for one connection after the other; each       *)
(* connection that gets through has an acceptReceiveStreamLoop, which      *)
(* runs handleClosingConn when it finds the connection closed; the         *)
(* notifyConnLoop tells the notifiees.  These goroutines share the         *)
(* connection manager, the protocol manager, the peer store and the        *)
(* send-stream-pool manager, each behind a lock of its own: a step here is *)
(* a call of one of them.                                                  *)
(*                                                                         *)
(* The connection manager is what LevelConnectionManager does, seen from   *)
(* outside: conns[p] is the entry of p; any entry may be the victim of an  *)
(* elimination.  The protocol book is the set of peers it has an entry     *)
(* for.  connExclusive is not a variable: acceptConnLoop is its only user, *)
(* so it never holds anything but the connection being handled.            *)
(***************************************************************************)
EXTENDS Integers, FiniteSets, Sequences

CONSTANTS
  Peer, Conn,
  Owner,        \* remote peer of a connection
  Blacklisted,  \* connections BlackConn refuses
  MaxPeers,     \* maxCountOfPeers of the connection manager
  MaxConns,     \* maxCountOfConnectionsEachPeer
  Mortal,       \* connections the remote side may close
  Slow,         \* connections whose network may report a timeout
  None

ASSUME HostAssumption ==
  /\ Owner \in [Conn -> Peer] /\ Blacklisted \in SUBSET Conn /\ None \notin Conn
  /\ Mortal \in SUBSET Conn /\ Slow \in SUBSET Conn
  /\ MaxPeers \in Nat \ {0} /\ MaxConns \in Nat \ {0}

VARIABLES
  cur, step, exchanged,  \* handleNewConnection: its connection, where it is,
                         \* exchangeProtocol
  seen,        \* connections taken from AcceptedConnChan
  rejected,    \* refused by the blacklist or by Allowed
  closed,      \* conn.Close has been called here
  dead,        \* the session is gone, on the initiative of the remote side
  loop,        \* acceptReceiveStreamLoop of a connection
  conns, eliminatePeers,   \* the connection manager
  pools,       \* connections in the send-stream-pool manager
  book,        \* peers in the protocol book
  addrs,       \* connections whose remote address is in the store
  notifyConnC, \* channel of capacity 1
  told,        \* peers the notifiees have been told are connected
  stopped      \* h.closeC is closed

newVars == <<cur, step, exchanged, seen, rejected>>
mgrVars == <<conns, eliminatePeers>>
tailVars == <<notifyConnC, told, stopped>>
vars == <<newVars, closed, dead, loop, mgrVars, pools, book, addrs, tailVars>>

Steps == {"idle", "start", "allowed", "exchange", "pool", "add", "book", "serve",
          "store", "notify"}
LoopStates == {"none", "top", "accepting", "closing", "removed", "notify",
               "clean", "rest", "done", "timedout"}

TypeOK ==
  /\ cur \in Conn \cup {None} /\ step \in Steps /\ exchanged \in BOOLEAN
  /\ seen \in SUBSET Conn /\ rejected \in SUBSET Conn
  /\ closed \in SUBSET Conn /\ dead \in SUBSET Conn
  /\ loop \in [Conn -> LoopStates]
  /\ conns \in [Peer -> SUBSET Conn] /\ eliminatePeers \in SUBSET Peer
  /\ pools \in SUBSET Conn /\ book \in SUBSET Peer /\ addrs \in SUBSET Conn
  /\ notifyConnC \in Seq(Conn) /\ Len(notifyConnC) <= 1
  /\ told \in SUBSET Peer /\ stopped \in BOOLEAN

Init ==
  /\ cur = None /\ step = "idle" /\ exchanged = FALSE
  /\ seen = {} /\ rejected = {} /\ closed = {} /\ dead = {}
  /\ loop = [c \in Conn |-> "none"]
  /\ conns = [p \in Peer |-> {}] /\ eliminatePeers = {}
  /\ pools = {} /\ book = {} /\ addrs = {}
  /\ notifyConnC = << >> /\ told = {} /\ stopped = FALSE

-----------------------------------------------------------------------------
(* The connection manager *)

Connected(p) == conns[p] # {}

\* A peer without a connection is allowed or not according to the strategy
\* and the level; here, while there is room (LIFO), or always (the others).
Allowed(p) ==
  IF Connected(p) THEN {Cardinality(conns[p]) < MaxConns}
  ELSE IF Cardinality({q \in Peer : Connected(q)}) < MaxPeers THEN {TRUE}
  ELSE BOOLEAN

\* AddPeerConnection; an entry is eliminated, and its connections closed, if
\* there are now too many.
AddPeerConnection(c) ==
  LET added == [conns EXCEPT ![Owner[c]] = @ \cup {c}]
      entries == {q \in Peer : added[q] # {}}
  IN  IF Cardinality(entries) <= MaxPeers
      THEN conns' = added /\ UNCHANGED <<eliminatePeers, closed>>
      ELSE \E q \in entries :
             /\ conns' = [added EXCEPT ![q] = {}]
             /\ eliminatePeers' = eliminatePeers \cup {q}
             /\ closed' = closed \cup added[q]

\* RemovePeerConnection answers whether it found anything to remove.
Found(c) == c \in conns[Owner[c]] \/ Owner[c] \in eliminatePeers

RemovePeerConnection(c) ==
  /\ conns' = [conns EXCEPT ![Owner[c]] = IF c \in @ THEN {} ELSE @]
  /\ eliminatePeers' = eliminatePeers \ {Owner[c]}

-----------------------------------------------------------------------------
(* acceptConnLoop and handleNewConnection *)

\* A select with closeC and a connection to choose from may still choose the
\* connection.
AcceptConn(c) ==
  /\ cur = None /\ c \notin seen
  /\ cur' = c /\ step' = "start" /\ seen' = seen \cup {c}
  /\ UNCHANGED <<exchanged, rejected, closed, dead, loop, mgrVars, pools, book, addrs, tailVars>>

\* handleNewConnection returns.
Return == cur' = None /\ step' = "idle" /\ exchanged' = FALSE

\* It fails: conn.Close, and return.
Fail == Return /\ closed' = closed \cup {cur}

\* The blacklist, then Allowed; a connection that is refused is left alone.
NewCheck ==
  /\ step = "start"
  /\ \E ok \in Allowed(Owner[cur]) :
       IF cur \notin Blacklisted /\ ok
       THEN step' = "allowed" /\ UNCHANGED <<cur, exchanged, rejected>>
       ELSE Return /\ rejected' = rejected \cup {cur}
  /\ UNCHANGED <<seen, closed, dead, loop, mgrVars, pools, book, addrs, tailVars>>

\* "If it is the first time establishing connection with us"
NewDecide ==
  /\ step = "allowed"
  /\ exchanged' = ~Connected(Owner[cur])
  /\ step' = IF Connected(Owner[cur]) THEN "pool" ELSE "exchange"
  /\ UNCHANGED <<cur, seen, rejected, closed, dead, loop, mgrVars, pools, book, addrs, tailVars>>

\* ExchangeProtocol
NewExchange ==
  /\ step = "exchange"
  /\ \/ step' = "pool" /\ UNCHANGED <<cur, exchanged, closed>>
     \/ Fail
  /\ UNCHANGED <<seen, rejected, dead, loop, mgrVars, pools, book, addrs, tailVars>>

\* The pool is built, its streams opened (or not: never on a connection that
\* is gone), and it is handed to the send-stream-pool manager.
NewPool ==
  /\ step = "pool"
  /\ \/ /\ cur \notin closed \cup dead
        /\ pools' = pools \cup {cur} /\ step' = "add"
        /\ UNCHANGED <<cur, exchanged, closed>>
     \/ Fail /\ UNCHANGED pools
  /\ UNCHANGED <<seen, rejected, dead, loop, mgrVars, book, addrs, tailVars>>

NewAdd ==
  /\ step = "add"
  /\ AddPeerConnection(cur)
  /\ step' = IF exchanged THEN "book" ELSE "serve"
  /\ UNCHANGED <<cur, exchanged, seen, rejected, dead, loop, pools, book, addrs, tailVars>>

\* SetSupportedProtocolsOfPeer
NewBook ==
  /\ step = "book"
  /\ book' = book \cup {Owner[cur]}
  /\ step' = "serve"
  /\ UNCHANGED <<cur, exchanged, seen, rejected, closed, dead, loop, mgrVars, pools, addrs, tailVars>>

\* Mutant: only the first connection of a peer gets an acceptReceiveStreamLoop.
NewServeFirstOnly ==
  /\ step = "serve"
  /\ loop' = IF exchanged THEN [loop EXCEPT ![cur] = "top"] ELSE loop
  /\ step' = "store"
  /\ UNCHANGED <<cur, exchanged, seen, rejected, closed, dead, mgrVars, pools, book, addrs, tailVars>>

\* The acceptReceiveStreamLoop is spawned: from here on it runs beside this.
NewServe ==
  /\ step = "serve"
  /\ loop' = [loop EXCEPT ![cur] = "top"]
  /\ step' = "store"
  /\ UNCHANGED <<cur, exchanged, seen, rejected, closed, dead, mgrVars, pools, book, addrs, tailVars>>

\* AddAddress; the first connection of a peer is then announced.
NewStore ==
  /\ step = "store"
  /\ addrs' = addrs \cup {cur}
  /\ IF exchanged THEN step' = "notify" /\ UNCHANGED <<cur, exchanged>> ELSE Return
  /\ UNCHANGED <<seen, rejected, closed, dead, loop, mgrVars, pools, book, tailVars>>

NewNotify ==
  /\ step = "notify" /\ notifyConnC = << >>
  /\ notifyConnC' = <<cur>>
  /\ Return
  /\ UNCHANGED <<seen, rejected, closed, dead, loop, mgrVars, pools, book, addrs, told, stopped>>

-----------------------------------------------------------------------------
(* acceptReceiveStreamLoop *)

Goto(c, l) == loop' = [loop EXCEPT ![c] = l]

\* The select at the top; a connection not known to be closed goes into
\* AcceptReceiveStream, which looks at the session before it waits.
LoopTop(c) ==
  /\ loop[c] = "top"
  /\ IF stopped THEN Goto(c, "done") /\ UNCHANGED closed
     ELSE IF c \in closed THEN Goto(c, "closing") /\ UNCHANGED closed
     ELSE IF c \in dead THEN Goto(c, "done") /\ closed' = closed \cup {c}
     ELSE Goto(c, "accepting") /\ UNCHANGED closed
  /\ UNCHANGED <<newVars, dead, mgrVars, pools, book, addrs, tailVars>>

\* AcceptReceiveStream comes back: with an error that says the connection
\* was closed here, with another one, or with a stream; or with a timeout of
\* the network, which CheckClosedConnectionWithErr takes for a closed
\* connection: the loop ends, and nobody closes anything.
LoopAccept(c) ==
  /\ loop[c] = "accepting"
  /\ \/ c \in closed /\ Goto(c, "done") /\ UNCHANGED closed
     \/ c \in dead \ closed /\ Goto(c, "top") /\ closed' = closed \cup {c}
     \/ c \notin dead \cup closed /\ Goto(c, "top") /\ UNCHANGED closed
     \/ c \in Slow \ closed /\ Goto(c, "timedout") /\ UNCHANGED closed
  /\ UNCHANGED <<newVars, dead, mgrVars, pools, book, addrs, tailVars>>

-----------------------------------------------------------------------------
(* handleClosingConn *)

\* Mutant: the pool is closed before the connection leaves the manager.
ClosingPoolFirst(c) ==
  /\ loop[c] = "closing"
  /\ IF c \in pools
     THEN pools' = pools \ {c} /\ UNCHANGED <<loop, mgrVars>>
     ELSE /\ Goto(c, IF Found(c) THEN "removed" ELSE "done")
          /\ RemovePeerConnection(c)
          /\ UNCHANGED pools
  /\ UNCHANGED <<newVars, closed, dead, book, addrs, tailVars>>

ClosingRemove(c) ==
  /\ loop[c] = "closing"
  /\ Goto(c, IF Found(c) THEN "removed" ELSE "done")
  /\ RemovePeerConnection(c)
  /\ UNCHANGED <<newVars, closed, dead, pools, book, addrs, tailVars>>

\* "Check if the remote peer is disconnected."
ClosingCheck(c) ==
  /\ loop[c] = "removed"
  /\ Goto(c, IF Connected(Owner[c]) THEN "rest" ELSE "notify")
  /\ UNCHANGED <<newVars, closed, dead, mgrVars, pools, book, addrs, tailVars>>

ClosingNotify(c) ==
  /\ loop[c] = "notify" /\ notifyConnC = << >>
  /\ notifyConnC' = <<c>>
  /\ Goto(c, "clean")
  /\ UNCHANGED <<newVars, closed, dead, mgrVars, pools, book, addrs, told, stopped>>

\* CleanPeer
ClosingClean(c) ==
  /\ loop[c] = "clean"
  /\ book' = book \ {Owner[c]}
  /\ Goto(c, "rest")
  /\ UNCHANGED <<newVars, closed, dead, mgrVars, pools, addrs, tailVars>>

\* Mutant: an error of RemoveAddress ends the handler.
ClosingRestGivesUp(c) ==
  /\ loop[c] = "rest"
  /\ addrs' = addrs \ {c}
  /\ pools' = IF c \in addrs THEN pools \ {c} ELSE pools
  /\ Goto(c, "done")
  /\ UNCHANGED <<newVars, closed, dead, mgrVars, book, tailVars>>

\* RemoveAddress, RemovePeerConnAndCloseSendStreamPool (and
\* ClosePeerReceiveStreams, see ReceiveStreamManager)
ClosingRest(c) ==
  /\ loop[c] = "rest"
  /\ addrs' = addrs \ {c} /\ pools' = pools \ {c}
  /\ Goto(c, "done")
  /\ UNCHANGED <<newVars, closed, dead, mgrVars, book, tailVars>>

-----------------------------------------------------------------------------
(* notifyConnLoop, Stop, and what happens to connections *)

\* Mutant: the loop ends at the first connection that is closed.
NotifyConnBreaks ==
  /\ notifyConnC # << >> /\ Head(notifyConnC) \notin closed
  /\ notifyConnC' = << >>
  /\ told' = told \cup {Owner[Head(notifyConnC)]}
  /\ UNCHANGED <<newVars, closed, dead, loop, mgrVars, pools, book, addrs, stopped>>

\* A notice says what the connection is when it is delivered.  As above, the
\* loop may serve it although closeC is closed.
NotifyConn ==
  /\ notifyConnC # << >>
  /\ notifyConnC' = << >>
  /\ LET c == Head(notifyConnC) IN
     told' = IF c \in closed THEN told \ {Owner[c]} ELSE told \cup {Owner[c]}
  /\ UNCHANGED <<newVars, closed, dead, loop, mgrVars, pools, book, addrs, stopped>>

\* Stop closes closeC, then every connection of the connection manager.
Stop ==
  /\ ~stopped
  /\ stopped' = TRUE
  /\ closed' = closed \cup UNION {conns[p] : p \in Peer}
  /\ UNCHANGED <<newVars, dead, loop, mgrVars, pools, book, addrs, notifyConnC, told>>

\* The remote side goes away.
ConnDies(c) ==
  /\ c \in seen \cap Mortal /\ c \notin dead \cup closed
  /\ dead' = dead \cup {c}
  /\ UNCHANGED <<newVars, closed, loop, mgrVars, pools, book, addrs, tailVars>>

\* A receiveStreamHandlerLoop sees it first and closes the connection.
ReaderCloses(c) ==
  /\ c \in dead \ closed /\ loop[c] # "none"
  /\ closed' = closed \cup {c}
  /\ UNCHANGED <<newVars, dead, loop, mgrVars, pools, book, addrs, tailVars>>

-----------------------------------------------------------------------------
NewStep == NewCheck \/ NewDecide \/ NewExchange \/ NewPool \/ NewAdd
             \/ NewBook \/ NewServe \/ NewStore \/ NewNotify
ClosingStep(c) == ClosingRemove(c) \/ ClosingCheck(c) \/ ClosingNotify(c)
                    \/ ClosingClean(c) \/ ClosingRest(c)

Next ==
  \/ NewStep \/ NotifyConn \/ Stop
  \/ \E c \in Conn : \/ AcceptConn(c) \/ LoopTop(c) \/ LoopAccept(c)
                     \/ ClosingStep(c) \/ ConnDies(c) \/ ReaderCloses(c)

Spec == Init /\ [][Next]_vars

\* Goroutines run, the notifyConnLoop until the host stops; the senders on
\* notifyConnC are served in turn.  Nothing makes a connection arrive or die,
\* or the host stop.
Fairness ==
  /\ SF_vars(NewStep) /\ WF_vars(~stopped /\ NotifyConn)
  /\ \A c \in Conn : SF_vars(ClosingStep(c)) /\ WF_vars(LoopTop(c))

FairSpec == Spec /\ Fairness

-----------------------------------------------------------------------------
(* Properties *)

\* Whoever finds a peer connected finds a pool to borrow from: a connection
\* is in the connection manager only while its pool is in the pool manager,
\* whichever of its siblings or of the other peers come and go.
TrackedHasPool == \A p \in Peer : conns[p] \subseteq pools

\* While the host runs, every connection the connection manager knows has a
\* goroutine that waits for its end, is about to get one, or has been closed,
\* with one exception: the goroutine ended at a timeout of the network, which
\* host.go:951 takes for a closed connection (OpenIsObserved, below, is the
\* property without the exception).
TrackedIsObserved ==
  ~stopped => \A p \in Peer : \A c \in conns[p] :
    loop[c] \notin {"none", "done"} \/ c = cur \/ c \in closed

\* acceptConnLoop is never stuck on a connection, in particular not on the
\* notice it sends, while the host runs.
NewCompletes == cur # None ~> (cur = None \/ stopped)

\* A handleClosingConn that has begun ends, and then the connection and its
\* pool are in no manager any more, unless the connection manager did not know it.
ClosingCompletes ==
  \A c \in Conn : loop[c] = "removed"
                    ~> \/ stopped
                       \/ loop[c] = "done" /\ c \notin pools \cup conns[Owner[c]]

-----------------------------------------------------------------------------
(* What the repository says and the code does not do (README, known
   deviations): each is refuted by the .cfg named. *)

\* No handler is at work on a connection of p.
Quiet(p) ==
  /\ cur = None \/ Owner[cur] # p
  /\ \A c \in Conn : Owner[c] = p => loop[c] \in {"none", "top", "accepting", "done", "timedout"}

\* MCHostConnectionsKnown.cfg.  host.go:805: handleClosingConn cleans up "protocols associated with the
\* disconnected peer", and host.go:1009 exchanges them on the first
\* connection: while nobody is at work on a peer, a peer that is connected
\* is in the protocol book.
ConnectedHasProtocols ==
  \A p \in Peer : Quiet(p) /\ ~stopped /\ Connected(p) => p \in book

\* MCHostConnectionsKnown.cfg.  core/host/notify.go:12-16: the last thing the notifiees were told of a
\* peer is true once the handlers are done and the channel is empty.
NotifieesKnow ==
  \A p \in Peer : Quiet(p) /\ ~stopped /\ notifyConnC = << >> /\ Connected(p)
                    /\ conns[p] \cap (closed \cup dead) = {}
                  => p \in told

\* MCHostConnectionsKnown.cfg.  host.go:814: "Remove the address associated with the connection from the
\* peer store.": a connection handleClosingConn is done with (only it takes
\* the pool away) has no address there.
AddressReleased ==
  \A c \in Conn : loop[c] = "done" /\ c \notin pools /\ c # cur => c \notin addrs

\* MCHostConnectionsKnown.cfg.  host.go:996: "new connection is rejected by connection manager, close it."
RejectedIsClosed == rejected \subseteq closed

\* MCHostConnectionsKnown.cfg.  host.go:952: "If the connection is closed or
\* the network is closed, break the loop.": a connection of the manager that
\* nobody has closed has a loop that goes on.
OpenIsObserved ==
  ~stopped => \A p \in Peer : \A c \in conns[p] \ closed : loop[c] # "timedout"

\* MCHostConnectionsReleased.cfg.  host.go:942: "If the connection is closed, call the handleClosingConn
\* method": a connection closed while the host runs does not stay in the
\* managers.
ClosedIsReleased ==
  \A c \in Conn : c \in closed /\ ~stopped ~> stopped \/ c \notin pools
=============================================================================
