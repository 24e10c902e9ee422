# A TLA+ development of rainbowbee

rainbowbee is a peer-to-peer network host in Go: a process that listens and
dials over TCP, multiplexes streams over its connections, keeps the number of
peers and streams within limits, exchanges the lists of protocols with its
peers and carries messages between them. Most of what can go wrong in it is
concurrent: a dozen goroutines per connection share managers that have a lock
each, so that every operation of the host is a sequence of separate critical
sections, with channel operations in between.

This directory models those managers and the goroutines that call them.
`PROJECT.json` maps every definition to the lines it models, lists the runs
with their properties, the mutants that show each property can fail, the
hazards of the code, and the theorems.

## 1. The system

| component | source | state | operations |
|---|---|---|---|
| Host | `host.go` | `closeC`, `notifyConnC` (capacity 1), `pushProtocolSignalC` (capacity 2), notifiees | Start, Stop, SendMsg, Dial, handler registration; goroutines acceptConnLoop, notifyConnLoop, pushProtocolSignalLoop, and acceptReceiveStreamLoop and receiveStreamHandlerLoop per connection and stream |
| Connection manager | `components/connection_manager.go` | two ordered lists (high and low level) of peers with their connections, `eliminatePeers`, limits, strategy | AddPeerConnection with elimination, RemovePeerConnection, Allowed, AddHighLevelPeer, Close |
| Connection supervisor | `components/connection_supervisor.go` | necessary peers, one dial actuator per peer, `allConnected`, `signalC` | Start, Stop, SetPeerAddr, RemovePeerAddr, RemoveAllPeer, NoticePeerDisconnected; checkConn and dialActuator.Run |
| Receive stream manager | `components/receive_stream_manager.go` | streams by peer and connection, count per peer, limit | AddPeerReceiveStream, RemovePeerReceiveStream, ClosePeerReceiveStreams, Reset, SetPeerReceiveStreamMaxCount |
| Send stream pool | `components/send_stream_pool.go` | `poolC`, `idleSize`, `currentSize`, threshold, lock | InitStreams, BorrowStream, ReturnStream, DropStream, Close; expandLoop |
| Send stream pool manager | `components/send_stream_pool_manager.go` | pools by peer and connection | add, remove, choose the best pool of a peer |
| Protocol exchanger | `components/protocol_exchanger.go` | `pushSignalC`, one channel per peer | ExchangeProtocol, PushProtocols, Handle |
| Protocol manager and book | `components/protocol_manager.go`, `peerstore/protocol_book.go` | handlers, protocols of each peer | register, unregister, store and clean what a peer supports, callbacks |
| TCP network | `network/tcp/network.go` | listeners, `listening`, `closeC`, `connC` (no buffer), lock | Listen, Close, Dial, ListenAddresses, AcceptedConnChan; listenerAcceptLoop |
| TCP connection | `network/tcp/connection.go`, `stream.go` | yamux session, usable halves of streams | open, accept, reuse and close streams |
| Discovery | `service/discovery/` | services announced, `searchingM` with a channel per search, lock | Announce, SearchPeers; searchTask per search, handlers of three message types |
| Group multicast | `service/groupmulticast/` | groups as lists of peers, lock | AddPeerToGroup, RemovePeerFromGroup, RemoveGroup, SendToGroupSync, SendToGroupAsync |
| Message pipeline | `host_handle_msg_pipeline.go` | three stages with a number of executors each | unmarshal, find the handler, call it |
| Peer addresses, blacklist, configuration, crypto, framing | `peerstore/`, `components/blacklist.go`, `host_option.go`, `core/crypto/`, `util/` | maps, fields, keys | setters and getters, encoding |

**How they interact.** A dialed or accepted connection goes through `connC` to
the one acceptConnLoop, whose handleNewConnection asks the blacklist and the
connection manager, exchanges protocols, builds a send-stream pool, registers
pool and connection, spawns the acceptReceiveStreamLoop, stores the address and
sends a notice on `notifyConnC`. The accept loop hands streams to readers
through the receive stream manager; when it finds the connection closed it runs
handleClosingConn, which undoes all of that, one manager at a time. The
notifyConnLoop turns notices into callbacks, one of which is the supervisor's
NoticePeerDisconnected. The connection manager closes connections on its own
initiative when a limit is exceeded. Registering a handler puts a signal into
`pushProtocolSignalC`; its loop calls PushProtocols, whose messages travel on
borrowed send streams and are handled by a pool of executors at the other end.
SendMsg borrows a stream from the best pool of the receiver and writes one
frame; a reader at the other end turns frames into jobs of the pipeline. The
discovery service and group multicast are applications of SendMsg and of
registered handlers.

**What is hard.**

- *Check, then act.* Allowed and AddPeerConnection, the look at and the write to
  `pushSignalC`, Connected and the cleaning of protocols, `listening` and the
  dial, the look at and the entry into `searchingM` are pairs of critical
  sections with other goroutines in between.
- *Counters beside collections.* `idleSize`, `currentSize`, the stream counts
  and the capacity are kept by hand, in many places, and are trusted: a bounded
  channel is written to with a lock held, a whole entry is deleted at zero.
- *Waiting with a lock or on a full channel.* BorrowStream waits a second with
  the pool's lock held, Dial sends with the network's lock held, and all
  closings meet at a channel of capacity one.
- *Two hosts.* Each host handles one new connection at a time, in an order of
  its own, and waits for the other to attend to the same one; what one end does
  after a timeout the other only learns when the connection is closed.
- *Shared streams.* A stream carries the frames of one caller after the other:
  half a frame of the one garbles all that follow.
- *Cached answers.* `allConnected` silences the supervisor; a snapshot of
  protocols may be older than the one it replaces.
- *Restarts.* Stop and Start keep some state and replace the rest while
  goroutines of the previous start are on their way out.

What makes each component correct is listed with its module in section 2.

## 2. The modules

Each module is the whole of a component, one action per critical section,
channel operation or blocking call; its header says which code is atomic and
why. Data are abstracted: addresses, streams, connections, protocols and peers
are model values, and logging, formatting and encodings are left out. A
definition with the comment *Mutant* is a plausible mistake in the definition
that follows it; it is not part of the specification.

**`SendStreamPool`** — the pool of one connection. `mu` says who holds the
lock; `poolC` is the channel, `lent` and `hold` are the streams that callers
have, `pc` is where each caller is (a caller borrows and then returns or drops,
as SendMsg does), `loop`, `left` and `signal` are the expandLoop. The streams
are opened by an environment that may fail in each of the ways `OpenResult`
lists. What must hold: the counters are exact (`CountersExact`), the pool stays
within its sizes so that sends with the lock held never block (`Bounded`), no
stream has two users (`Exclusive`), and Close ends every call
(`ClosedReleasesBorrowers`).

**`LevelConnectionManager`** — the two lists as sequences of peers with a set
of connections each, the three strategies, `eliminatePeers`, and the callers:
`Allow`, `GiveUp` and `AddPeerConnection` are separate steps of
handleNewConnection, and `ConnDown` and `RemovePeerConnection` those of
handleClosingConn. What must hold: `Capacity`, `PeerQuota`, one entry per peer
(`OneEntryPerPeer`), only connections that exist are tracked (`TrackedAlive`),
direct peers are protected while somebody else can go (`HighLevelProtected`;
the comments in the code say the opposite, section 6), an open connection does not
fall out unless a sibling takes it along (`DroppedIsClosed`), and a newcomer is
not its own victim (`NewcomerKept`).

**`ConnectionRegistry`** — the abstract specification of a connection manager,
after the interface in `core/manager/connection_manager.go`: a set of
connections within two limits. An addition may cost the connections of one
peer, which are closed, and only when there is no room; a removal takes a
closed connection out, possibly with others of the same peer. Levels, lists,
strategies and the order of elimination are gone. `LevelConnectionManager`
implements it (`ImplementsRegistry`) with the refinement mapping
`held <- Tracked`, `open <-` the connections added and not closed.

**`ReceiveStreamManager`** — `countMap` and `held`, with the readers
(`reader`) and accept loops that call it. `conn` follows a connection from
"up" over "closed" and "removed" (handleClosingConn has taken it out of the
connection manager) to "gone" (it has run to its end), or to "forgotten" (it
has returned early, because the manager did not know the connection) or
"abandoned" (the accept loop broke off without it). Whether handleClosingConn
goes on is what RemovePeerConnection answers; `tracked` and `eliminated` are
what that depends on. What must hold: the counts are exact (`CountExact`), a
stream that counts is being read, as long as its connection is served and the
network is not closed (`HeldIsRead`), nothing is left of a connection that is
gone, and only a peer with several connections can lose one to "forgotten"
(`GoneIsClean`).

**`ConnectionSupervisor`** — the loop, checkConn as one step per peer with the
lock held, and the dial actuators with their fields. The host is the
environment: peers connect and disconnect, and the notice is delivered later.
A dial may never end. What must hold: an actuator that checkConn has not
finished makes no more attempts than there are intervals and never indexes
their table out of range (`AttemptsBounded`), giving up is final
(`GivenUpQuiet`), the flag can be trusted (`AllConnectedSound`), a missing peer
is dialed (`NecessaryPeerDialed`), Stop ends all dialing if the dials end
(`StopEndsDialing`). `tries` stops counting at `tryTimes`: only an actuator
that has been finished during a dial counts further, and nobody reads it then.

**`HostConnections`** — handleNewConnection in nine steps, the accept loop and
handleClosingConn of each connection, notifyConnLoop and Stop. It composes the
components: each step is a call of one manager, and of each manager it keeps
what the others depend on (`conns` for the connection manager, any entry of
which may be eliminated, `pools`, `book`, `addrs`). What must hold: a connected
peer has a pool (`TrackedHasPool`), every tracked connection is watched, unless
its accept loop ended at a timeout of the network, which `Slow` connections may
report (`TrackedIsObserved`), nobody is stuck at `notifyConnC` (`NewCompletes`,
`ClosingCompletes`).

**`ProtocolPush`** — registration, the signal channel, PushProtocols in five
steps, and the handling of PUSH and PUSH_OK, between two hosts. Messages are a
bag. A send may fail and cost a stream; `drained` says that it was the last one
and that SendMsg will not return. `disturbed` says that a push has failed, timed
out or been made beside the loop's. What must hold until then: once all is quiet
each host knows the protocols of the other (`BooksAgree`), and a confirmation
confirms (`ConfirmedIsApplied`; after a timeout it may confirm the wrong push,
section 6). In any case a push returns, unless it finds no stream to send on
(`PushReturns`).

**`ProtocolExchange`** — the composition of two hosts: the acceptConnLoop of
each, the steps of handleNewConnection that the exchange of protocols depends
on, the rejections included, and the goroutine of ExchangeProtocol, which goes
on after its caller has timed out; a timeout is possible at any moment. A push
is one step that sends a snapshot, one that stores it, and two for the PUSH_OK
with the snapshot of the other side; any number of them may be on their way at
once and arrive in any order, since PushProtocols does not keep two callers
apart and gives up after a while. A snapshot is on its way from the moment it is
taken; `overlapped` records which hosts have sent one while another was on its
way. What must hold: once all is settled a host knows the protocols of one it is
connected to, unless announcements of that one overlapped or one of the two
still serves a connection its manager has forgotten (`BooksFresh`); a connection
that one host has given up does not live on in the other's manager, unless it
was rejected (`NoHalfOpen`); nobody waits for ever (`ExchangeReturns`).

**`MessageDelivery`** — a message from SendMsg to the handler: the checks, the
best pool, borrowing, the frame, returning or dropping the stream, the reader,
and the pipeline. Of a frame the model keeps whose it is and whether it is
whole; a reader that meets the beginning of a frame takes the beginning of the
next one for the rest. Pools are what `SendStreamPool` provides: a borrower
waits while the pool is below its size, the pool expands once, and one that has
lost its last stream does not expand. The streams in `Unread` need not be read:
the other end may be waiting for a new stream, or be over its quota. What must
hold: half a frame is the last thing on a stream (`FramesWhole`, for writes that
fail and do not time out), and what SendMsg has sent without an error is
handled, or dropped for want of a handler, unless it is on a stream left unread
(`NilIsHandled`).

**`GroupMulticast`** extends it: a group and a call of SendToGroupSync or
SendToGroupAsync whose goroutines are the tasks of `MessageDelivery`. What must
hold: the call returns (`SyncReturns`), and nil means that every frame was
written, unless the network has been closed (`SyncReports`).

**`Discovery`** — Announce, SearchPeers, searchTask and the handlers of the
three message types, around the `sync.RWMutex` that guards the channels of the
searches. The other hosts run the same code and answer from what they know.
What must hold: no send on a closed or replaced channel (`ChannelStaysOpen`),
a cancelled search ends (`CancelEnds`), and a peer that some connected peer
knows is found (`ReachableIsFound`).

**`TcpStreams`** — both ends of a connection. A yamux stream has four halves;
the maps of usable halves let an end that accepted a stream reuse it to send.
The session itself (backlog, acknowledgement) is external. What must hold: no
half is used twice (`HalfUsedOnce`) or forgotten (`HalvesAccounted`), a new
stream is accepted (`NewStreamAccepted`).

**`TcpNetwork`** — Listen, Close, Dial, ListenAddresses and the accept loops
around one `sync.RWMutex`, whose waiting writers keep new readers out, with
Host.Start and Host.Stop and the acceptConnLoops of each start. A dial and an
accept loop wait in the handshake of a new connection until the remote side
answers; the code sets no deadline. What must hold: Close returns if the remote
sides of the dialers do answer (`CloseReturns`), and the loops end that are not
kept in a handshake (`LoopsEndOnClose`).

`MC<module>` gives the constants their values for TLC; `<module>Proofs` has the
theorems. Two proof modules are about two components that share no state:
`ReceivePushProofs` about `ReceiveStreamManager` and `ProtocolPush`,
`SupervisorExchangeProofs` about `ConnectionSupervisor` and `ProtocolExchange`.
So that both can be extended, the definitions of `ProtocolPush` and
`ProtocolExchange` that other modules have as well carry the component's name
(`PushInit`, `PushNext`, `PushSpec`, `PushTypeOK`; `ExchangeInit` and so on).

## 3. The runs

| run | checks | instance | distinct states |
|---|---|---|---|
| `pool` | counters, bounds, ownership; closing ends every call | 2 callers, sizes 2 to 3, 3 streams | 18 050 |
| `connmgr` | capacity, quota, levels, who may drop out; the refinement of `ConnectionRegistry` | 3 peers, 5 connections, room for 2 peers of 2 connections, 4 strategy names | 238 776 |
| `recv` | counts, readers, cleanliness | 2 peers, 3 connections, 4 streams, no limit or 2, eliminations | 650 720 |
| `supervisor` | attempts, giving up, the flag, dialing, stopping | 1 peer with 2 addresses, one answered by somebody else, 2 attempts, 2 starts | 342 870 |
| `host` | pools and observers of tracked connections; nobody is stuck at `notifyConnC` | a peer with 2 connections, one of which may die by itself, and a peer with 1, 1 connection with timeouts, room for 1 peer | 286 972 |
| `host_released` | *violated*: see section 6 | 1 connection | |
| `push` | agreement, confirmation, pushes return | 1 host registers 1 protocol up to 3 times, 2 pushers, failures, timeouts and a drained pool | 226 769 |
| `streams` | halves used once, none lost, new ones accepted | 2 ends, 2 streams, either may open | 54 600 |
| `network` | Close, accept loops | 1 dialer, 1 caller of ListenAddresses, 2 starts, silent remote sides | 89 513 |
| `discovery` | channels, cancelling, finding | 2 searches for 1 service, 3 peers of which 2 are neighbours, 1 peer asked and 1 named at a time, 3 changes of connections | 51 506 |
| `exchange` | fresh books, no half-open connection, no endless wait | 2 hosts, 2 connections dialed from both sides, 1 host registers 2 handlers at any time, 1 host may reject | 683 998 |
| `messages` | whole frames, handled messages, a call that returns and reports | a group of up to 2, 1 peer with 2 connections, one of which may die, 3 streams, one not yet opened and one left unread | 275 683 |

**Why these bounds.** They are the smallest in which the cases of the hazards
happen: in `pool` both callers can hold streams while a third is opened, and the
streams can run out by being dropped; in `connmgr` one peer more than there is
room for, a peer with a second and a third connection at the quota, and peers
that become direct peers while they have a low-level entry; in `recv` two
connections of one peer, one of which may fall out of the manager with the
other, and a second peer, with a limit that can be lower than the count; in
`supervisor` a restart while the loop and the actuators of the first start are
on their way out, a dial that succeeds, one that fails twice and one that meets
another peer; in `host` a peer that reconnects while the closing of its first
connection is under way, with an elimination in between; in `push` the signal
channel overflows (its capacity of 2 is the code's) and a confirmation meets the
next push; in `network` the second start meets loops of the first; in
`discovery` the peer that is asked may be gone while another could answer, and a
search ends while an answer is waiting to be received; in `exchange` each host
may attend to the connection the other does not, or reject it, and a push meets
the PUSH_OK of another; in `messages` a peer twice in the group, a pool that
runs dry, a connection that dies between any two steps of SendMsg. Counters that
only bound the behaviour (`MaxStarts`, `MaxUps`, `Calls`, `MaxOps`, `MaxPushes`,
`ActBound`, `MaxChanges`, `MaxNet`, `MaxGroup`) appear in guards and are named
constants; `Mortal` names the connections that may die by themselves.
`CHECK_DEADLOCK FALSE` is set where all calls may have been made and all
goroutines have ended; `recv` never stops and is checked for deadlock.

**Larger instances.** They take longer than the runs, or ask less, and were
checked by hand: `MCConnectionSupervisorTwo.cfg` (two necessary peers, safety,
4 352 022 states) and `MCHostConnections.cfg` with `Mortal = {a1, a2, b1}` and
`Spec` (safety, 2 081 741). The invariant of `BooksStayFresh` was checked on small
instances before it was proved.

**Fairness.** Go schedules every goroutine, so each goroutine's steps are
weakly fair. Strong fairness is used where a step competes for a lock or a
channel that others use again and again: `sync.Mutex` and `sync.RWMutex` hand
over to a waiter that has been kept waiting, and a channel serves its blocked
senders in order. Sleeps and timeouts end. A
dial and the handshake of a new connection need not: nothing in the code bounds
them, so `StopEndsDialing`, `CloseReturns` and `LoopsEndOnClose` have the answer
of the remote side as their premise. In `MessageDelivery` the steps of a
SendMsg are strongly fair for the same reason: a borrower competes for the idle
streams of a pool. In `Discovery` SliceShuffle and the random order of Go's
maps justify that every peer of the book is asked and every known peer is named
again and again, and the application is assumed to read the channel until it is
closed. Otherwise nothing is assumed of the application, of the remote side or
of a listener: nobody has to call, connect, answer, disconnect, cancel or stop.

**Mutants.** Each property of each passing run has a mutant in `PROJECT.json`:
a definition that models code and a variant of it, a guard dropped, a counter
not updated, an order exchanged, with which TLC finds the property violated
under the same configuration. Where the property is a theorem, its proof fails
with the mutant, too.

## 4. The proofs

TLAPS proves, for every set of peers, connections, callers and streams and
every limit that satisfies the named assumptions:

- **`SendStreamPoolProofs`**: `TypeCorrect`, `CountersAlwaysExact`,
  `AlwaysBounded`, `OneOwner`. The inductive invariant is
  `TypeOK /\ CountersExact /\ Exclusive /\ LockInv`. The counters alone are not
  inductive: what expandStream may still open (`left`) was computed when it took
  the lock, so the bound needs `left + currentSize <= maxSize` and the fact that
  nobody else opens or drops while the loop is in "opening" because the lock is
  its own; that is `LockInv`. `Bounded` follows, since a lent stream is counted
  and not in the channel. Assumptions: `Stream` is finite,
  `initSize <= maxSize`, which is what NewSendStreamPool checks.
- **`LevelConnectionManagerProofs`**: `TypeCorrect`, `CapacityKept`,
  `EntriesUnique`, `TrackedStaysAlive`. The invariant `IInv` is the type, a
  predicate on each list (no peer twice, an entry has connections exactly if its
  peer is listed, they are its own and not yet removed) and `Capacity`. The
  lemmas say what appending, removing at a position and eliminating do to a list
  that satisfies the predicate, for each strategy. The proof that one elimination
  per addition suffices uses that the capacity held before; that the branch the
  code marks as a bug is dead uses that the newcomer itself is in the low list.
  `QuotaKept` needs more, because AddPeerConnection does not look at the quota
  again: `QInv` adds that one connection at a time is between Allowed and
  AddPeerConnection (`OneAllowed`: the host has one acceptConnLoop), that what
  Allowed found still holds for it (`Pending`), that no connection is in both
  lists (`Apart`) and that only direct peers are in the high list (`HighIsHigh`).
  `Pending` is what the other operations could spoil: a removal only makes room,
  and AddHighLevelPeer, which moves a peer from the one rule to the other, is
  the case to look at. From `QInv` follow the action
  properties (`DroppedIsClosedHolds`, `NewcomerKeptHolds`,
  `HighLevelProtectedHolds`) and the refinement (`RegistryImplemented`): the
  initial states map to that of `ConnectionRegistry`, an addition without
  elimination to `Add`, one with elimination to an `Add` that costs the
  connections of one peer, a removal to `Remove` or, if its connection had
  fallen out before, to a stutter, the end of a connection to `Down`, Close to
  `CloseAll`, everything else to a stutter.
- **`ReceivePushProofs`**, of the receive stream manager: `TypeCorrect`,
  `CountAlwaysExact`, `QuotaForLiveStreams`, `CleanWhenGone`. The invariant is
  their conjunction with `OnlyIsKnown`: as long as the only connection of a peer
  has not been removed, the connection manager has it or has its peer marked as
  eliminated, so that handleClosingConn does not return early for it. In the
  rest, that a count does not become negative needs that it is exact, and that
  the shortcut at zero loses nothing needs cardinalities of the streams of the
  peer with and without those of the connection. Of the pushes:
  `PushTypeCorrect`, `ConfirmationsConfirm`, `BooksAlwaysAgree`. `Quiet` says
  what holds until a push fails or is made beside the loop's (`disturbed`): a
  push has one token in the bag of messages, its PUSH, its PUSH_OK or the signal
  that follows it, a single copy, and while it is there the channel is empty and
  the loop waits for it (`OneToken`, with `LoopAlone` and `ChannelsPaid`).
  Without the count of copies a second PUSH could be behind the first.
  `ConfirmedIsApplied` follows. For `BooksAgree`, with the hypothesis that one
  host only changes its handlers (with two the code does not keep it, section
  6), `Informed` says that the other host's book is right, or a signal is
  waiting, or the loop is about to send, or what it has sent is what is
  registered, and `Listens` that the other host, which registers nothing, pushes
  nothing and only confirms. That a signal may be dropped when two are waiting
  is then no case of its own: one that waits is enough. For the type, each
  channel made is paid for by a registration or a push (`CallsPaid`, a sum over
  the pushers that are calling, hence a cardinality). Assumption: there are two
  hosts.
- **`HostConnectionsProofs`**: `TypeCorrect`, `PoolWhileTracked`,
  `ObservedWhileTracked` (with the exception of section 6, a loop that ended at
  a timeout). `HostInv` adds to the type where handleNewConnection
  is (`Handling`) and what an entry of the connection manager relies on
  (`EntrySound`): no handleClosingConn that has passed its first removal is at
  work on a connection that is tracked, and a tracked connection without an
  accept loop is the one handleNewConnection is about to give one. That needs
  that a connection is handled once (`seen`), since a second handling could put
  it back between the removal from the manager and that of the pool.
- **`SupervisorExchangeProofs`**, of the supervisor: `TypeCorrect`,
  `AttemptsAlwaysBounded`, `GivingUpIsFinal`, `RestIsJustified`. `SupInv` has a
  part for each actuator (`ActSound`: attempts are left exactly as long as it is
  neither given up nor finished, and an actuator in the map is not finished
  while its Run may still dial; of a finished one nothing is said of its
  attempts, which are unbounded) and one for checkConn, which holds the lock
  over many steps: the peers counted so far are a set of that size, none of them
  is still to be looked at, and each is connected or its notice waits for the
  lock (`Found`). Without the set, the comparison of two numbers at the end says
  nothing about which peers are connected. Assumption: `Peer` is finite, as a
  configuration is. Of the exchange: `ExchangeTypeCorrect` and `NeverHalfOpen`,
  for every value of the constants, and `BooksStayFresh` under `~Races` and
  `~Unregisters`, without which the code does not keep `BooksFresh` (section 6).
  For the first two, `ExchangeTypeInv` adds to the type where
  handleNewConnection is (`Walked`: a connection it has taken is the current
  one, served, closed, or rejected) and that each pending push is due to a
  registration or to a connection served (`PushesPaid`). `FreshInv` has ten
  parts, along this argument:
  - what a host has on hand of a connection agrees with where its handler is
    (`Handling`, `Growing`), and the goroutines of the two ends with each other
    and with the payloads (`Replies`, `Payloads`); over a connection that lives a
    goroutine is waited for or has succeeded (`Attended`);
  - so, once an exchange has succeeded on a connection that lives (`Up`), the
    other host is still waiting for its end or has succeeded as well, neither
    exchanges over another one, and neither forgets a connection
    (`Established`); a push travels on a connection its sender has
    used (`PushUsed`), one at a time as long as the host's announcements do not
    overlap (`OnePush`); and two hosts that both have connections
    have such an exchange behind them (`Introduced`);
  - for that exchange, a host that has told its protocols (`Open`), and whose
    announcements have not overlapped, is `Known`: it has counted more handlers
    than it told and will push when it serves the connection (`Outgrown`), or a
    push is pending (`Pending`), or on its way (`Pushing`), or the other has the
    current protocols, or gets them from the exchange, and no older PUSH or
    PUSH_OK can overwrite them (`Carried`). The second escape is a connection
    that one host serves and its manager has forgotten (`Forgotten`), over which
    an old push may arrive at any time; once there is one, there always is, and
    `BooksFresh` excludes it.

  The proof does not go action by action but effect by effect: `EveryEffect`
  says once what each outcome of each action does to each variable, host by
  host and connection by connection, and each part of the invariant is then
  shown to survive each effect. Assumption: two hosts, finitely many
  connections and protocols.
- **`TcpStreamsProofs`**: `TypeCorrect`, `HalvesExclusive`, `NoHalfLost`. The
  invariant `StreamInv` says of every half at every end in which of its places
  it is, and that the queue of streams to accept has no repetitions; the lemmas
  are about queues and about the two ends. Assumption: a connection has two ends.
- **`DiscoveryProofs`**: `NoSendOnClosed`. The invariant `ChannelInv` says that
  an executor that is about to send has held the read lock since it found the
  channel (`SendersHold`), that the map holds only channels of searches for its
  service that have begun and are not closed (`MapSound`), and that nobody closes
  the channel of a search before it has begun (`UnbegunOpen`).
- **`GroupMulticastProofs`**: `SyncReportsHolds`, `FramesWholeHolds`. For the
  first, an error is in `errorC` before its goroutine is done, members not yet
  looked at have no goroutine (`ReportPart`), and a task whose error is nil has
  written its frame as a whole, or the network is closed (`SentPart`). For the
  second, a caller has its stream to itself (`Holding`, `Alone`), and half a
  frame is the last of a stream that is gone or that a caller with
  ErrSendStreamWriteFailed will drop (`Halves`, `Doomed`). The hypothesis
  `"timeout" \notin Faults` is needed: with timeouts the code garbles streams
  (section 6). `SyncReportsHolds` has no such hypothesis.

The leaves are checked with SMT and Zenon, the temporal steps with PTL. The
models update several fields of a record as
`[f EXCEPT ![k] = [@ EXCEPT !.a = x, !.b = y]]`: from
`[f EXCEPT ![k].a = x, ![k].b = y]` the SMT backend of tlapm 1.4.5 concludes
that `f[k].b` is what it was as well as `y`, so that form is not used in a
module with proofs.

**Only model-checked.** Everything under fairness (liveness), which the prover
does not support, nor ENABLED, and with it all of `TcpNetwork`. The type
invariants of `Discovery` and of `GroupMulticast`, whose proofs use the part of
the type they need (for the latter, what SelectSeq makes of a sequence is an
induction over data). No module uses a RECURSIVE operator.

## 5. The plan

Done: the modules above. The pool, the connection manager and the receive
stream manager came first, because they carry the counters that everything else
trusts, then `HostConnections` with the interleavings that tests do not reach,
then what two hosts do to each other (`ProtocolPush`, `ProtocolExchange`) and
the services on top (`MessageDelivery`, `GroupMulticast`, `Discovery`), then
the abstract `ConnectionRegistry`.

Then the proofs, in the order of the modules: every invariant, every action
property and the refinement that a passing run checks is now a theorem. Where a
remote side or a part of the code that is modelled elsewhere may keep a
component from what it should do (a silent handshake, a drained pool, a stream
nobody reads, a rejected or forgotten connection), the module has that outcome
as well, and the property names it as its exception.

Next: a second start in `HostConnections`, with the loops of the first start on
their way out.

## 6. Known deviations

What the repository says of the code and the code does not do. The first is a
run; the others have a property in the module, at its end, and a configuration
with which TLC shows a shortest behaviour
(`tlc -config <file>.cfg MC<module>`), or they limit a property of a passing
run, which says so in its comment. A configuration named *Known* has several
properties the code does not keep: `tlc -continue` shows them all.

| what | where | shown by |
|---|---|---|
| A connection closed while its accept loop is inside AcceptReceiveStream is never handed to handleClosingConn: it stays in all managers and its peer counts as connected. | `host.go:951` | run `host_released` |
| With eliminateHigh the manager does not prioritise eliminating high-level connections, as the comments on the three strategies say: it takes one only when there is no low-level one to take. | `connection_manager.go:293`, `:347`, `:371` | `MCLevelConnectionManagerHigh.cfg` |
| The PUSH_OK of a push that has timed out ends the next push to the peer, with success, before that one has been handled. | `protocol_exchanger.go:139` | `MCProtocolPushLate.cfg` |
| SendMsg returns nil for a failed write when the network has been closed, so SendToGroupSync returns nil for messages it has not sent. | `host.go:457` | `MCGroupMulticastClosed.cfg` |
| A timeout of the network is taken for a closed connection: the accept loop ends and the connection stays, open and unobserved. | `host.go:951`, `util/stream.go:51` | `OpenIsObserved` in `MCHostConnectionsKnown.cfg`; the exception in `TrackedIsObserved` |
| A second connection of an eliminated or removed peer is unknown to the connection manager: handleClosingConn returns early, and its pool and its streams stay. | `host.go:784` | `ForgottenIsClean` in `MCReceiveStreamManager.cfg`; the second part of `GoneIsClean` |
| The expandLoop ends at the first stream it opens: CheckClosedConnectionWithErr is called with the nil error of the success, and `err.Error()` panics; LoggerGo recovers. | `send_stream_pool.go:264` | `ExpandLoopServesOpenPool` in `MCSendStreamPool.cfg` |
| A pool whose streams have all been dropped never opens another, and BorrowStream retries for ever. | `send_stream_pool.go:231` | `MCSendStreamPoolBorrow.cfg` |
| For the same reason a PUSH to a peer whose pool is drained never returns, and later pushes to the peer wait for it. | `protocol_exchanger.go:211`, `:191` | the exception in `PushReturns` |
| RemovePeerConnection deletes the whole entry of the peer, with its other, open connections. | `connection_manager.go:489` | the exception in `DroppedIsClosed` |
| With the random strategy AddPeerConnection may eliminate the connection it reports as added. | `connection_manager.go:472` | the exception in `NewcomerKept` |
| SetPeerAddr does not reset `allConnected`, and neither does a restart: a peer set when all others are connected, or lost while the host was stopped, is not dialed. | `connection_supervisor.go:161`, `:141` | `Configured`, the premise of `NecessaryPeerDialed` and `AllConnectedSound` |
| An actuator that checkConn finishes during a dial that fails dials on without a pause and without a bound if its peer is lost again. | `connection_supervisor.go:349` | `AttemptsLimited` in `MCConnectionSupervisor.cfg` with `Spec` |
| An actuator in a dial whose remote side is silent does not notice Stop. | `network/tcp/connection.go:215`, `:240` | the premise of `StopEndsDialing` |
| handleClosingConn cleans the protocols of a peer that has reconnected since it looked. | `host.go:806` | `MCHostConnectionsKnown.cfg` |
| The notice of a disconnection may overtake that of the reconnection. | `host.go:803` | `MCHostConnectionsKnown.cfg` |
| A rejected connection is not closed, although the log says so. | `host.go:999` | `MCHostConnectionsKnown.cfg` |
| So a host that is already connected adds a connection without an exchange which the other host rejects and leaves open. | `host.go:979` | the exception `rejected` in `NoHalfOpen` |
| The address of a connection may be stored after it has been cleaned up. | `host.go:1095` | `MCHostConnectionsKnown.cfg` |
| When both hosts change their protocols, an old PUSH_OK may replace the snapshot of a newer PUSH for good. | `protocol_exchanger.go:143` | `MCProtocolPushBoth.cfg` (`BooksAgree` with two registrars) |
| Two pushes to one peer may run at the same time. | `protocol_exchanger.go:198` | `MCProtocolPushTwice.cfg` |
| Nothing orders two announcements of a host, pushes or PUSH_OKs: the older may be applied last and leave a stale book. | `protocol_exchanger.go:183` | `OverlapsHarmless` in `MCProtocolExchange.cfg`; the exception `overlapped` in `BooksFresh` |
| The handler of a late PUSH_OK may block for good on a full channel nobody reads. | `protocol_exchanger.go:139` | `MCProtocolPushStuck.cfg` |
| A stream reused by the end that accepted it is not read while the other end waits for a new one. | `network/tcp/stream.go:127` | `ReusedStreamAccepted` in `MCTcpStreams.cfg` |
| What is sent on such a stream, or on one over the quota of its peer, is never handled although SendMsg returned nil. | `network/tcp/stream.go:127`, `host.go:914` | the exception `LeftUnread` in `NilIsHandled` |
| Dial, ListenAddresses and AcceptedConnChan can wait for each other until the network is closed. | `network/tcp/network.go:202` | `MCTcpNetworkKnown.cfg` |
| A dial that passed the check of `listening` goes on after Close. | `network/tcp/network.go:186` | `MCTcpNetworkKnown.cfg` |
| A handshake has no deadline: a silent remote side keeps Dial, with the lock, and so Close and Host.Stop, or an accept loop, for ever. | `network/tcp/connection.go:215`, `:240`, `:163`, `:182` | `CloseReturnsAnyway`, `LoopsEndAnyway` in `MCTcpNetworkKnown.cfg` |
| Two hosts that dial each other at once may each wait for the other in their single acceptConnLoop and end up with no connection at all. | `host.go:98` | `MCProtocolExchangeCross.cfg` |
| A connection that fell out of the manager with a closed sibling is still served: a push that was on its way on it may replace newer protocols, learned since over another connection, and is not repeated. (Three connections, two changes: h's exchange over d times out, d is closed, g's manager forgets c with it; both exchange over e; then h serves c and handles the old push.) | `connection_manager.go:489`, `host.go:1091` | the premise `served = conns` of `BooksFresh` |
| After an exchange the protocols are pushed again only if their *number* has changed: one registered and one unregistered meanwhile go unnoticed. | `host.go:1083` | `MCProtocolExchangeUnregister.cfg` |
| The goroutine of a timed-out ExchangeProtocol writes the results its caller is returning: the peer may be added without an error and without protocols. | `protocol_exchanger.go:164` | `MCProtocolExchangeRace.cfg` |
| A write that times out half-way is not ErrSendStreamWriteFailed: the stream goes back into the pool and the next frame is garbled. | `host.go:462` | `FramesWhole` in `MCGroupMulticast.cfg` with `Faults = {"timeout"}` |
| SendToGroupAsync of an empty group waits for ever: the error goes into a channel without room. (Its channel is never closed either, although `core/groupmulticast/group_multicast.go:34` says it will be.) | `group_multicast.go:166` | `AsyncReturns` in `MCGroupMulticast.cfg` |
| Two searches for one service that begin at once replace each other's channel; one of the channels is never closed. | `protocol_discovery.go:170` | `ChannelIsClosed` in `MCDiscovery.cfg` |
| A search timeout longer than the interval never fires, because it is started anew at every tick. | `protocol_discovery.go:404` | `MCDiscoveryTimeout.cfg` |
| A search does not end if the application stops reading when it cancels: the executor that sends holds the lock. | `protocol_discovery.go:283` | `CancelEnds` in `MCDiscovery.cfg` with `Impatient = {s1}` |

## 7. What is not modelled

- A second Start of a host (`closeC` replaced while loops of the first start
  are on their way out) but for the network, and direct peers that are set on a
  running host.
- The library under the message pipeline and yamux: the executors appear as the
  arbitrary order in which `ProtocolPush`, `MessageDelivery` and `Discovery`
  handle messages, the session as the backlog of `TcpStreams`. That a handler
  that blocks takes an executor away from all protocols is not modelled.
- The blacklist and the address book are maps behind a lock; `HostConnections`
  takes the answers of the first as a constant and keeps of the second which
  connections have an address in it.
- Configuration, TLS (but for the time a handshake may take), keys, peer ids,
  multiaddresses and the encoding of packages: sequential code over data the
  models abstract from.
- The callbacks of the protocol manager and the notifiees are the application's.
- Memory effects of unsynchronised reads are modelled as reads of the current
  value at the moment of the step (`listening` in `DialCheck`); the fields of an
  actuator, which checkConn and Run share without a lock, change one at a time.
