------------------------------ MODULE Discovery -----------------------------
(***************************************************************************)
(* The protocol-based discovery service                                    *)
(* (service/discovery/protocol_discovery.go): a host that has announced a  *)
(* service searches for others that offer it, by asking the peers it knows *)
(* to support the service's protocol whom else they know.                  *)
(*                                                                         *)
(* SearchPeers hands the application a channel without buffer and spawns   *)
(* searchTask, which asks at every tick and, when it ends, closes and      *)
(* deletes the channel searchingM has for the service.  The channel of a   *)
(* search is the element of Search itself.  Answers are handled by the     *)
(* executors of the message pipeline: handleSearchRes sends on the channel *)
(* with the read lock of mu held.  As in any sync.RWMutex a waiting writer *)
(* keeps new readers out: waiters are the searches whose Lock has not been *)
(* granted, holders the executors that have the read lock.  Sections that  *)
(* do not block are single actions.                                        *)
(*                                                                         *)
(* The other hosts run the same code: HandleSearchReq is one of them       *)
(* answering from its peer store (Knows).  Connections come and go as      *)
(* HostConnections describes: CleanPeer first, RemoveAddress later.        *)
(* Messages are a set: a request or an answer that is repeated while it is *)
(* on its way says nothing new.                                            *)
(***************************************************************************)
EXTENDS Integers, FiniteSets, FiniteSetsExt

CONSTANTS
  Self, Peer,
  Neighbour,       \* peers this host may have connections to
  Service,
  Search, Of,      \* calls of SearchPeers, and the service each is for
  Executor,        \* executors of the pipeline that run handleSearchRes
  Knows,           \* per peer: whom its store has, with protocol and address
  asksForPeers, maxSearchSize,
  searchTimeout, searchInterval,   \* in seconds; the first tick takes one
  MaxPeers,        \* maxCountOfPeers of the connection manager (LIFO)
  Impatient,       \* searches whose application stops reading when it cancels
  MaxChanges,      \* bound on the connections made and lost
  MaxNet,          \* bound on the messages on their way
  None

ASSUME NameAssumption ==
  /\ Self \notin Peer /\ Neighbour \subseteq Peer /\ None \notin Search
  /\ Of \in [Search -> Service] /\ Impatient \subseteq Search
  /\ Knows \in [Peer -> SUBSET (Peer \cup {Self})] /\ IsFiniteSet(Peer)
ASSUME NumberAssumption ==
  /\ asksForPeers \in Int /\ maxSearchSize \in Int
  /\ searchTimeout \in Int /\ searchInterval \in Nat \ {0}
  /\ MaxPeers \in Nat /\ MaxChanges \in Nat /\ MaxNet \in Nat

VARIABLES
  svcS,        \* services announced: their handlers are registered
  connected,   \* ConnectionManager().Connected
  book,        \* per service: peers the protocol book has for its protocol
  stored,      \* peers with an address in the peer store
  searchingM,  \* per service: the search whose channel is in the map, or None
  waiters, holders,   \* mu: Lock pending, RLock held
  closed,      \* channels that have been closed
  task,        \* where a search is
  ticked,      \* with a timeout: searches whose ticker runs at searchInterval
  cancelled,   \* searches whose context is done
  net,         \* requests and answers on their way
  exec,        \* per executor: where it is in handleSearchRes, ...
  changes

hostVars == <<svcS, connected, book, stored, changes>>
lockVars == <<waiters, holders>>
searchVars == <<task, ticked, cancelled>>
vars == <<hostVars, searchingM, lockVars, closed, searchVars, net, exec>>

Request == [type : {"req"}, to : Peer, svc : Service, known : SUBSET Peer]
Answer == [type : {"res"}, svc : Service, infos : SUBSET Peer]
TaskStates == {"idle", "set", "select", "cleanup", "done"}
\* An executor: the answer it works on, the info it is at, the channel found.
ExecStates == [at : {"idle", "item", "lock", "send"}, svc : Service \cup {None},
               todo : SUBSET Peer, cur : Peer \cup {None}, c : Search \cup {None}]
Idle == [at |-> "idle", svc |-> None, todo |-> {}, cur |-> None, c |-> None]

TypeOK ==
  /\ svcS \in SUBSET Service /\ connected \in SUBSET Peer
  /\ book \in [Service -> SUBSET Peer] /\ stored \in SUBSET Peer
  /\ searchingM \in [Service -> Search \cup {None}]
  /\ waiters \in SUBSET Search /\ holders \in SUBSET Executor
  /\ closed \in SUBSET Search /\ task \in [Search -> TaskStates]
  /\ ticked \in SUBSET Search /\ cancelled \in SUBSET Search
  /\ net \in SUBSET (Request \cup Answer) /\ Cardinality(net) <= MaxNet
  /\ exec \in [Executor -> ExecStates]
  /\ changes \in 0 .. MaxChanges

\* NewProtocolDiscovery, on a host without connections
Init ==
  /\ svcS = {} /\ connected = {} /\ book = [x \in Service |-> {}] /\ stored = {}
  /\ searchingM = [x \in Service |-> None]
  /\ waiters = {} /\ holders = {} /\ closed = {}
  /\ task = [s \in Search |-> "idle"]
  /\ ticked = {} /\ cancelled = {}
  /\ net = {} /\ exec = [e \in Executor |-> Idle] /\ changes = 0

-----------------------------------------------------------------------------
(* The host: connections and announcements *)

\* handleNewConnection: the exchange tells which services the peer offers
\* (all of them), the address is stored.
Connect(q) ==
  /\ q \notin connected /\ Cardinality(connected) < MaxPeers /\ changes < MaxChanges
  /\ connected' = connected \cup {q} /\ stored' = stored \cup {q}
  /\ book' = [x \in Service |-> book[x] \cup {q}]
  /\ changes' = changes + 1
  /\ UNCHANGED <<svcS, searchingM, lockVars, closed, searchVars, net, exec>>

\* handleClosingConn: the connection manager and CleanPeer, ...
Disconnect(q) ==
  /\ q \in connected /\ changes < MaxChanges
  /\ connected' = connected \ {q}
  /\ book' = [x \in Service |-> book[x] \ {q}]
  /\ changes' = changes + 1
  /\ UNCHANGED <<svcS, stored, searchingM, lockVars, closed, searchVars, net, exec>>

\* ... then RemoveAddress.
RemoveAddress(q) ==
  /\ q \in stored \ connected
  /\ stored' = stored \ {q}
  /\ UNCHANGED <<svcS, connected, book, changes, searchingM, lockVars, closed, searchVars, net, exec>>

\* Announce registers the handler of the service; the registration itself
\* is pushed to the peers (ProtocolPush).
Announce(x) ==
  /\ x \notin svcS
  /\ svcS' = svcS \cup {x}
  /\ UNCHANGED <<connected, book, stored, changes, searchingM, lockVars, closed, searchVars, net, exec>>

\* The announcement of a peer is handled, at any time after it was sent: the
\* peer is entered if the store has an address of it.
HandleAnnounce(q, x) ==
  /\ x \in svcS /\ q \in stored
  /\ book' = [book EXCEPT ![x] = @ \cup {q}]
  /\ UNCHANGED <<svcS, connected, stored, changes, searchingM, lockVars, closed, searchVars, net, exec>>

-----------------------------------------------------------------------------
(* SearchPeers and searchTask *)

MayRLock == waiters = {}
MayLock == holders = {}

\* The map is looked at under RLock.  A call that is refused (ErrSearching)
\* changes nothing; the application may call again.  Nothing requires the
\* service to be announced, but without its handler no answer is received.
SearchPeers(s) ==
  /\ task[s] = "idle" /\ MayRLock
  /\ searchingM[Of[s]] = None
  /\ task' = [task EXCEPT ![s] = "set"]
  /\ UNCHANGED <<hostVars, searchingM, lockVars, closed, ticked, cancelled, net, exec>>

\* Lock is called and has to wait for the readers.
WaitLock(s) ==
  /\ task[s] \in {"set", "cleanup"} /\ s \notin waiters /\ ~MayLock
  /\ waiters' = waiters \cup {s}
  /\ UNCHANGED <<hostVars, searchingM, holders, closed, searchVars, net, exec>>

\* The channel is put into the map; searchTask is spawned.
SearchSet(s) ==
  /\ task[s] = "set" /\ MayLock
  /\ searchingM' = [searchingM EXCEPT ![Of[s]] = s]
  /\ task' = [task EXCEPT ![s] = "select"]
  /\ waiters' = waiters \ {s}
  /\ UNCHANGED <<hostVars, holders, closed, ticked, cancelled, net, exec>>

\* The next tick, in seconds from the beginning of the select
NextTick(s) == IF s \in ticked THEN searchInterval ELSE 1

\* Mutant: the peers are not shuffled.
AskUnshuffled(x, asked) ==
  /\ asked = IF book[x] = {} THEN {} ELSE {CHOOSE q \in book[x] : TRUE} \cap connected
  /\ net' = net \cup [type : {"req"}, to : asked, svc : {x}, known : {book[x]}]
  /\ Cardinality(net') <= MaxNet

\* sendSearchReqToOthers: the peers of the book, shuffled, up to asksForPeers
\* of them; the first SendMsg that fails ends it.  Asked are those before.
sendSearchReqToOthers(x, asked) ==
  LET all == book[x]
      limit == IF asksForPeers > 0 THEN Min({asksForPeers, Cardinality(all)})
                                   ELSE Cardinality(all)
  IN  /\ asked \subseteq all \cap connected
      /\ Cardinality(asked) <= limit
      /\ Cardinality(asked) = limit \/ ~(all \subseteq connected)
      /\ net' = net \cup [type : {"req"}, to : asked, svc : {x}, known : {all}]
      /\ Cardinality(net') <= MaxNet

\* The ticker wins the select: no timeout, or one that is not earlier.
\* time.After is started anew for every select.
Tick(s, asked) ==
  /\ task[s] = "select" /\ (searchTimeout > 0 => NextTick(s) <= searchTimeout)
  /\ sendSearchReqToOthers(Of[s], asked)
  /\ ticked' = IF searchTimeout > 0 THEN ticked \cup {s} ELSE ticked
  /\ UNCHANGED <<hostVars, searchingM, lockVars, closed, task, cancelled, exec>>

\* The timeout or ctx.Done wins.
TaskEnds(s) ==
  /\ task[s] = "select"
  /\ s \in cancelled \/ (searchTimeout > 0 /\ searchTimeout <= NextTick(s))
  /\ task' = [task EXCEPT ![s] = "cleanup"]
  /\ UNCHANGED <<hostVars, searchingM, lockVars, closed, ticked, cancelled, net, exec>>

\* The deferred function closes the channel the map has for the service; if
\* there is none, close panics, Unlock is deferred and LoggerGo recovers.
Cleanup(s) ==
  /\ task[s] = "cleanup" /\ MayLock
  /\ closed' = closed \cup ({searchingM[Of[s]]} \ {None})
  /\ searchingM' = [searchingM EXCEPT ![Of[s]] = None]
  /\ task' = [task EXCEPT ![s] = "done"]
  /\ waiters' = waiters \ {s}
  /\ UNCHANGED <<hostVars, holders, ticked, cancelled, net, exec>>

\* The application cancels the context.  An impatient one stops reading, the
\* others read until the channel is closed.
Cancel(s) ==
  /\ task[s] = "select" /\ s \notin cancelled
  /\ cancelled' = cancelled \cup {s}
  /\ UNCHANGED <<hostVars, searchingM, lockVars, closed, task, ticked, net, exec>>

-----------------------------------------------------------------------------
(* The other hosts *)

\* searchSize: the size asked for (maxSearchSize at this host), at most the
\* answering host's; the list is cut after an element is added to it.
searchSize == Max({1, maxSearchSize})

\* handleSearchReq at m.to; the answer arrives if it is sent at all, which
\* needs the searching host to be connected and known to support the protocol.
HandleSearchReq(m, infos) ==
  LET known == Knows[m.to] \ (m.known \cup {Self}) IN
  /\ m \in net /\ m.type = "req"
  /\ infos \subseteq known /\ Cardinality(infos) = Min({searchSize, Cardinality(known)})
  /\ \/ net' = (net \ {m}) \cup {[type |-> "res", svc |-> m.svc, infos |-> infos]}
     \/ (m.to \notin connected \/ m.svc \notin svcS) /\ net' = net \ {m}
  /\ UNCHANGED <<hostVars, searchingM, lockVars, closed, searchVars, exec>>

-----------------------------------------------------------------------------
(* handleSearchRes *)

\* The handler of the service is called, if there is one.
HandleSearchRes(e, m) ==
  /\ m \in net /\ m.type = "res" /\ exec[e].at = "idle"
  /\ exec' = IF m.svc \notin svcS \/ m.infos = {} THEN exec
             ELSE [exec EXCEPT ![e] = [Idle EXCEPT !.at = "item", !.svc = m.svc, !.todo = m.infos]]
  /\ net' = net \ {m}
  /\ UNCHANGED <<hostVars, searchingM, lockVars, closed, searchVars>>

\* The executor is done with an info: on to the next, if there is one.
NextInfo(e, todo) ==
  exec' = [exec EXCEPT ![e] = IF todo = {} THEN Idle
                              ELSE [@ EXCEPT !.at = "item", !.todo = todo, !.cur = None, !.c = None]]

Allowed == Cardinality(connected) < MaxPeers

\* An info is skipped, or its addresses are to be sent.
CheckInfo(e, p) ==
  /\ exec[e].at = "item" /\ p \in exec[e].todo
  /\ IF p \in connected \/ ~Allowed
     THEN NextInfo(e, exec[e].todo \ {p})
     ELSE exec' = [exec EXCEPT ![e] = [@ EXCEPT !.at = "lock", !.cur = p]]
  /\ UNCHANGED <<hostVars, searchingM, lockVars, closed, searchVars, net>>

\* Mutant: RUnlock before the send instead of after it.
FindChannelUnlock(e) ==
  LET c == searchingM[exec[e].svc] IN
  /\ exec[e].at = "lock" /\ MayRLock
  /\ exec' = [exec EXCEPT ![e] = IF c = None THEN Idle ELSE [@ EXCEPT !.at = "send", !.c = c]]
  /\ UNCHANGED <<hostVars, searchingM, lockVars, closed, searchVars, net>>

\* Mutant: no RUnlock before the return.
FindChannelLeak(e) ==
  LET c == searchingM[exec[e].svc] IN
  /\ exec[e].at = "lock" /\ MayRLock
  /\ exec' = [exec EXCEPT ![e] = IF c = None THEN Idle ELSE [@ EXCEPT !.at = "send", !.c = c]]
  /\ holders' = holders \cup {e}
  /\ UNCHANGED <<hostVars, searchingM, waiters, closed, searchVars, net>>

\* RLock and the look into the map; without a channel the rest is dropped.
FindChannel(e) ==
  LET c == searchingM[exec[e].svc] IN
  /\ exec[e].at = "lock" /\ MayRLock
  /\ IF c = None
     THEN exec' = [exec EXCEPT ![e] = Idle] /\ UNCHANGED holders
     ELSE /\ exec' = [exec EXCEPT ![e] = [@ EXCEPT !.at = "send", !.c = c]]
          /\ holders' = holders \cup {e}
  /\ UNCHANGED <<hostVars, searchingM, waiters, closed, searchVars, net>>

\* c <- addrs: sender and receiver meet; then RUnlock.
SendAddrs(e) ==
  /\ exec[e].at = "send" /\ exec[e].c \notin Impatient \cap cancelled
  /\ NextInfo(e, exec[e].todo \ {exec[e].cur})
  /\ holders' = holders \ {e}
  /\ UNCHANGED <<hostVars, searchingM, waiters, closed, searchVars, net>>

-----------------------------------------------------------------------------
HostStep(q) == Connect(q) \/ Disconnect(q) \/ RemoveAddress(q)
                 \/ \E x \in Service : HandleAnnounce(q, x)
TaskStep(s) == WaitLock(s) \/ SearchSet(s) \/ TaskEnds(s) \/ Cleanup(s)
ExecStep(e) == (\E p \in exec[e].todo : CheckInfo(e, p)) \/ FindChannel(e) \/ SendAddrs(e)

Next ==
  \/ \E q \in Neighbour : HostStep(q)
  \/ \E x \in Service : Announce(x)
  \/ \E s \in Search : \/ SearchPeers(s) \/ TaskStep(s) \/ Cancel(s)
                       \/ \E asked \in SUBSET Peer : Tick(s, asked)
  \/ \E m \in net : \E infos \in SUBSET Peer : HandleSearchReq(m, infos)
  \/ \E e \in Executor : ExecStep(e) \/ \E m \in net : HandleSearchRes(e, m)

Spec == Init /\ [][Next]_vars

\* Goroutines run and locks are granted; the ticker ticks and messages are
\* handled.  Shuffling the peers gives every peer its turn to be asked, the
\* random order of the protocol book every peer its turn to be named.  The
\* application reads until the channel is closed, unless it is impatient;
\* nobody has to call or cancel, and connections need not change.
Fairness ==
  /\ \A s \in Search : WF_vars(TaskStep(s))
  /\ \A e \in Executor : WF_vars(ExecStep(e) \/ \E m \in net : HandleSearchRes(e, m))
  /\ \A q \in Neighbour :
       SF_vars(\E s \in Search, asked \in SUBSET Peer : q \in asked /\ Tick(s, asked))
  /\ \A p \in Peer :
       SF_vars(\E m \in net, infos \in SUBSET Peer : p \in infos /\ HandleSearchReq(m, infos))
  /\ WF_vars(\E m \in net, infos \in SUBSET Peer : HandleSearchReq(m, infos))

FairSpec == Spec /\ Fairness

-----------------------------------------------------------------------------
(* Properties *)

\* An executor never sends on a channel that has been closed or replaced,
\* which would panic or lose the addresses: whatever searches end or begin
\* while it waits for the application, its channel is the one in the map.
ChannelStaysOpen ==
  \A e \in Executor : exec[e].at = "send" =>
    exec[e].c \notin closed /\ searchingM[exec[e].svc] = exec[e].c

\* core/discovery/discovery.go:20: "If you want to stop finding, you should
\* call the cancel function provided in the context."  The search then ends,
\* although answers are being handled with the lock held.
CancelEnds ==
  \A s \in Search : task[s] = "select" /\ s \in cancelled ~> task[s] = "done"

\* p could be found through q.
Reachable(s, p) ==
  /\ Of[s] \in svcS /\ task[s] = "select" /\ searchingM[Of[s]] = s
  /\ Allowed /\ p \notin connected
  /\ \E q \in connected : q \in book[Of[s]] /\ p \in Knows[q] \ book[Of[s]]

\* The addresses of p are being handed to the application of s.
Found(s, p) == \E e \in Executor : exec[e].at = "send" /\ exec[e].c = s /\ exec[e].cur = p

\* A peer that stays reachable is found by a search that goes on, whatever
\* other peers have left stale entries in the book and however few peers are
\* asked and named at a time.
ReachableIsFound ==
  \A s \in Search, p \in Peer : <>[]Reachable(s, p) => []<>Found(s, p)

\* The application's channel is closed when its search has ended.  Two calls
\* of SearchPeers at once break this: both find no channel in the map.
ChannelIsClosed == \A s \in Search : task[s] = "done" => s \in closed

\* protocol_discovery.go:54: "WithSearchTimeout sets the timeout for a search
\* operation."  A timeout longer than the interval never fires, because it
\* is started anew at every tick.
TimeoutEnds ==
  searchTimeout > 0 => \A s \in Search : task[s] = "select" ~> task[s] = "done"
=============================================================================
