------------------------ MODULE ReceiveStreamManager ------------------------
(***************************************************************************)
(* The receive streams of a host (components/receive_stream_manager.go)    *)
(* and the goroutines that use the manager: one acceptReceiveStreamLoop    *)
(* per connection, one receiveStreamHandlerLoop per stream (host.go).      *)
(*                                                                         *)
(* A stream belongs to one connection for its life, so the maps            *)
(* streamMap[pid][conn] are the set held of streams.  Every method of the  *)
(* manager holds its lock for its whole body.  Of the connection manager   *)
(* the module keeps what RemovePeerConnection answers to handleClosingConn,*)
(* which goes on to the streams only if the answer is true.                *)
(***************************************************************************)
EXTENDS Integers, FiniteSets

CONSTANTS
  Peer, Conn, Stream,
  Owner,        \* remote peer of a connection
  ConnOf,       \* connection of a stream
  MaxCounts     \* the arguments of SetPeerReceiveStreamMaxCount

ASSUME OwnerAssumption == Owner \in [Conn -> Peer] /\ ConnOf \in [Stream -> Conn]
ASSUME StreamAssumption == IsFiniteSet(Stream) /\ MaxCounts \subseteq Int

VARIABLES
  maxCount, countMap, held,
  conn,        \* where the acceptReceiveStreamLoop of each connection is
  reader,      \* streams with a receiveStreamHandlerLoop
  tracked,     \* connections in the connection manager
  eliminated,  \* its eliminatePeers
  nwClosed     \* the network has been closed

mgr == <<tracked, eliminated, nwClosed>>
vars == <<maxCount, countMap, held, conn, reader, tracked, eliminated, nwClosed>>

\* up: accepting; closed: the connection has been closed; removed:
\* handleClosingConn has taken it out of the connection manager; gone: and
\* has run to its end (or there was no connection yet); forgotten: it has
\* returned early, since the manager did not know the connection; abandoned:
\* the loop ended without running it.
ConnStates == {"up", "closed", "removed", "gone", "forgotten", "abandoned"}

TypeOK ==
  /\ maxCount \in Int
  /\ countMap \in [Peer -> Nat]
  /\ held \in SUBSET Stream
  /\ conn \in [Conn -> ConnStates]
  /\ reader \in SUBSET Stream
  /\ tracked \in SUBSET Conn /\ eliminated \in SUBSET Peer
  /\ nwClosed \in BOOLEAN

Init ==
  /\ maxCount = -1
  /\ countMap = [p \in Peer |-> 0]
  /\ held = {}
  /\ conn = [c \in Conn |-> "gone"]
  /\ reader = {}
  /\ tracked = {} /\ eliminated = {}
  /\ nwClosed = FALSE

-----------------------------------------------------------------------------
PeerOf(s) == Owner[ConnOf[s]]
PeerStreams(p) == {s \in held : PeerOf(s) = p}
ConnStreams(c) == {s \in held : ConnOf[s] = c}

\* delete(r.streamMap, pid) forgets the streams of all the peer's connections.
DeletePeer(p, streams) == {s \in streams : PeerOf(s) # p}

\* ErrMaxReceiveStreamsCountReached
Full(p) == maxCount > 0 /\ countMap[p] >= maxCount

SetPeerReceiveStreamMaxCount(m) ==
  /\ m # maxCount
  /\ maxCount' = m
  /\ UNCHANGED <<countMap, held, conn, reader, mgr>>

\* Mutant: Reset keeps the counts.
ResetStreamsOnly ==
  /\ held # {}
  /\ held' = {}
  /\ UNCHANGED <<maxCount, countMap, conn, reader, mgr>>

Reset ==
  /\ held # {}
  /\ countMap' = [p \in Peer |-> 0]
  /\ held' = {}
  /\ UNCHANGED <<maxCount, conn, reader, mgr>>

\* handleReceiveStream: AddPeerReceiveStream, and a reader in any case (on a
\* refused stream, which has been closed, it fails at once).
HandleReceiveStream(s) ==
  LET p == PeerOf(s) IN
  /\ conn[ConnOf[s]] = "up" /\ s \notin reader
  /\ reader' = reader \cup {s}
  /\ IF Full(p) \/ s \in held
     THEN UNCHANGED <<countMap, held>>
     ELSE /\ held' = held \cup {s}
          /\ countMap' = [countMap EXCEPT ![p] = @ + 1]
  /\ UNCHANGED <<maxCount, conn, mgr>>

\* Mutant: the reader ends and leaves its stream in the manager.
ReaderFailsSilently(s) ==
  /\ s \in reader
  /\ reader' = reader \ {s}
  /\ UNCHANGED <<maxCount, countMap, held, conn, mgr>>

\* A read error that does not mean a closed connection: the stream is closed
\* and RemovePeerReceiveStream is called.
ReaderFails(s) ==
  LET p == PeerOf(s) IN
  /\ s \in reader
  /\ reader' = reader \ {s}
  /\ IF countMap[p] = 0 \/ s \notin held
     THEN UNCHANGED <<countMap, held>>
     ELSE /\ countMap' = [countMap EXCEPT ![p] = @ - 1]
          /\ held' = IF countMap[p] = 1 THEN DeletePeer(p, held) ELSE held \ {s}
  /\ UNCHANGED <<maxCount, conn, mgr>>

\* A read error that means a closed connection: the reader closes the
\* connection and leaves its stream to handleClosingConn.
ReaderSeesClosed(s) ==
  /\ s \in reader
  /\ reader' = reader \ {s}
  /\ conn' = [conn EXCEPT ![ConnOf[s]] = IF @ = "up" THEN "closed" ELSE @]
  /\ UNCHANGED <<maxCount, countMap, held, mgr>>

\* Once the network is closed a reader that fails just returns.
ReaderQuits(s) ==
  /\ nwClosed /\ s \in reader
  /\ reader' = reader \ {s}
  /\ UNCHANGED <<maxCount, countMap, held, conn, mgr>>

\* Host.Stop closes the network.
CloseNetwork ==
  /\ ~nwClosed
  /\ nwClosed' = TRUE
  /\ UNCHANGED <<maxCount, countMap, held, conn, reader, tracked, eliminated>>

\* The connection is closed by someone else.
CloseConn(c) ==
  /\ conn[c] = "up"
  /\ conn' = [conn EXCEPT ![c] = "closed"]
  /\ UNCHANGED <<maxCount, countMap, held, reader, mgr>>

\* The connections of p in the connection manager.  They may be in two
\* entries, one of each level, so what goes with one of them is any part.
Entry(p) == {c \in tracked : Owner[c] = p}

\* The connection manager drops an entry of p for a newcomer and marks p; its
\* goroutines close the connections (CloseConn).
Eliminate(p) ==
  /\ \E lost \in SUBSET Entry(p) : lost # {} /\ tracked' = tracked \ lost
  /\ eliminated' = eliminated \cup {p}
  /\ UNCHANGED <<maxCount, countMap, held, conn, reader, nwClosed>>

\* acceptReceiveStreamLoop ends without handleClosingConn: the host is
\* stopped, or AcceptReceiveStream fails because the connection is closed or
\* with a timeout.
AcceptLoopBreaks(c) ==
  /\ conn[c] \in {"up", "closed"}
  /\ conn' = [conn EXCEPT ![c] = "abandoned"]
  /\ UNCHANGED <<maxCount, countMap, held, reader, mgr>>

\* acceptReceiveStreamLoop finds its connection closed and handleClosingConn
\* asks the connection manager, which takes the entry of the peer out, with
\* its other connections, if c is in it, and the mark of the peer: if neither
\* is there, handleClosingConn returns.
RemovePeerConnection(c) ==
  LET known == c \in tracked \/ Owner[c] \in eliminated IN
  /\ conn[c] = "closed"
  /\ IF c \in tracked
     THEN \E others \in SUBSET Entry(Owner[c]) : tracked' = tracked \ ({c} \cup others)
     ELSE UNCHANGED tracked
  /\ eliminated' = eliminated \ {Owner[c]}
  /\ conn' = [conn EXCEPT ![c] = IF known THEN "removed" ELSE "forgotten"]
  /\ UNCHANGED <<maxCount, countMap, held, reader, nwClosed>>

\* Mutant: the streams of a closed connection are kept.
ClosePeerKeepsStreams(c) ==
  /\ conn[c] = "removed"
  /\ conn' = [conn EXCEPT ![c] = "gone"]
  /\ UNCHANGED <<maxCount, countMap, held, reader, mgr>>

\* The last thing handleClosingConn does.
ClosePeerReceiveStreams(c) ==
  LET p == Owner[c]
      left == countMap[p] - Cardinality(ConnStreams(c))
  IN
  /\ conn[c] = "removed"
  /\ conn' = [conn EXCEPT ![c] = "gone"]
  /\ IF countMap[p] = 0 \/ ConnStreams(c) = {}
     THEN UNCHANGED <<countMap, held>>
     ELSE /\ countMap' = [countMap EXCEPT ![p] = left]
          /\ held' = IF left = 0 THEN DeletePeer(p, held) ELSE held \ ConnStreams(c)
  /\ UNCHANGED <<maxCount, reader, mgr>>

\* handleNewConnection adds a connection and starts its accept loop.
NewConn(c) ==
  /\ ~nwClosed /\ conn[c] \in {"gone", "forgotten"}
  /\ ConnStreams(c) = {} /\ \A s \in reader : ConnOf[s] # c
  /\ conn' = [conn EXCEPT ![c] = "up"]
  /\ tracked' = tracked \cup {c}
  /\ UNCHANGED <<maxCount, countMap, held, reader, eliminated, nwClosed>>

Next ==
  \/ \E m \in MaxCounts : SetPeerReceiveStreamMaxCount(m)
  \/ Reset
  \/ CloseNetwork
  \/ \E p \in Peer : Eliminate(p)
  \/ \E s \in Stream : \/ HandleReceiveStream(s) \/ ReaderFails(s)
                        \/ ReaderSeesClosed(s) \/ ReaderQuits(s)
  \/ \E c \in Conn : \/ CloseConn(c) \/ AcceptLoopBreaks(c) \/ NewConn(c)
                      \/ RemovePeerConnection(c) \/ ClosePeerReceiveStreams(c)

Spec == Init /\ [][Next]_vars

-----------------------------------------------------------------------------
(* Properties *)

\* The count of a peer is the number of its streams over all connections,
\* after any interleaving of readers, accept loops, closes and resets: the
\* shortcut that deletes the whole peer at count zero loses nothing.
CountExact == \A p \in Peer : countMap[p] = Cardinality(PeerStreams(p))

\* A stream counted against its peer's limit is being read, or its
\* connection has been closed or is no longer served, or the host stops: a
\* reader that fails on a live connection gives its place back.
HeldIsRead ==
  \A s \in held : \/ s \in reader \/ nwClosed
                  \/ conn[ConnOf[s]] \in {"closed", "removed", "forgotten", "abandoned"}

\* handleClosingConn leaves no stream of its connection behind, unless it
\* returns early because the connection manager knows neither the connection
\* nor its peer (host.go:784-787); and that happens only to a peer that has
\* several connections, never to the only one of a peer, however its entry
\* was eliminated or removed.
GoneIsClean ==
  \A c \in Conn :
    /\ conn[c] = "gone" => ConnStreams(c) = {}
    /\ conn[c] = "forgotten" => \E d \in Conn \ {c} : Owner[d] = Owner[c]

\* "all receiveStreams will be closed and removed uniformly when processing
\* closed connections" (host.go:882).  The code does not keep this: see the
\* early return.
ForgottenIsClean == \A c \in Conn : conn[c] = "forgotten" => ConnStreams(c) = {}
=============================================================================
