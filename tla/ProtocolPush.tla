---------------------------- MODULE ProtocolPush ----------------------------
(***************************************************************************)
(* How two connected hosts keep each other informed of the protocols they  *)
(* support (components/protocol_exchanger.go, protocol_manager.go,         *)
(* peerstore/protocol_book.go and the push loop of host.go).               *)
(*                                                                         *)
(* A host that registers or unregisters a handler puts a signal into       *)
(* pushProtocolSignalC, of capacity 2; its pushProtocolSignalLoop takes    *)
(* one and calls PushProtocols.  A second caller of PushProtocols is the   *)
(* goroutine handleNewConnection spawns to push again.  PushProtocols      *)
(* sends PUSH, the other side stores the protocols and answers PUSH_OK     *)
(* with its own.  Messages travel on several streams and are handled by    *)
(* several executors, so they arrive in any order: net is a bag.  A        *)
(* message counts as sent when its content has been read from the protocol *)
(* manager.  A PUSH_OK an executor is working on stays in net, with a type *)
(* that says how far the executor is and the channel it has found in the   *)
(* map.  Channels are numbered in the order PushProtocols makes them.      *)
(* SendMsg borrows a stream of a pool that failed writes may have left     *)
(* without any; then it does not return (SendStreamPool, BorrowAnswered).  *)
(***************************************************************************)
EXTENDS Integers, FiniteSets, Bags

CONSTANTS
  Host,        \* two hosts
  Proto,       \* protocols an application registers
  Registrars,  \* hosts whose application registers and unregisters, and that
               \* push again
  Pusher,      \* goroutines that call PushProtocols: Loop and others
  Loop,        \* the pushProtocolSignalLoop
  Faults,      \* subset of {"send", "timeout"}: SendMsg may fail, and the
               \* answer may take longer than exchangeTimeout
  MaxOps,      \* bound on the registrations of a host, all before the first
               \* disturbance
  MaxPushes    \* bound on the calls of PushProtocols by the others

ASSUME HostAssumption ==
  IsFiniteSet(Host) /\ Cardinality(Host) = 2 /\ Registrars \subseteq Host
ASSUME PushAssumption ==
  Loop \in Pusher /\ Faults \subseteq {"send", "timeout"}
ASSUME BoundAssumption == MaxOps \in Nat /\ MaxPushes \in Nat

VARIABLES
  handlers,    \* protocols registered with each host's protocol manager
  book,        \* what each host's protocol book says of the other host
  signalC,     \* pushProtocolSignalC: how many elements it holds
  pushSignalC, \* the channel the map has for the other host, or None
  made,        \* channels made so far
  mine,        \* the channel of a pusher, its local variable signalC
  chan,        \* how many elements a channel holds
  pc,          \* where each pusher is
  net,         \* messages on their way or being handled
  drained,     \* the pools of a host for the other have no stream left
  ops, pushes,
  disturbed    \* SendMsg has failed, a wait was too long, or a push was made
               \* beside the loop's

chanVars == <<pushSignalC, made, mine, chan>>
pushVars == <<handlers, book, signalC, chanVars, pc, net, drained, ops, pushes, disturbed>>

\* Every signal and every call of the others makes at most one channel.
Channel == 1 .. MaxOps + MaxPushes
None == 0

PushStates == {"idle", "call", "set", "send", "wait", "clean"}
Message == [from : Host, type : {"PUSH", "PUSH_OK", "signal", "store"},
            protocols : SUBSET Proto, ref : Channel \cup {None}]

PushTypeOK ==
  /\ handlers \in [Host -> SUBSET Proto] /\ book \in [Host -> SUBSET Proto]
  /\ signalC \in [Host -> 0 .. 2]
  /\ pushSignalC \in [Host -> Channel \cup {None}]
  /\ made \in [Host -> Channel \cup {None}]
  /\ mine \in [Host -> [Pusher -> Channel \cup {None}]]
  /\ chan \in [Host -> [Channel -> 0 .. 1]]
  /\ pc \in [Host -> [Pusher -> PushStates]]
  /\ BagToSet(net) \subseteq Message
  /\ drained \in [Host -> BOOLEAN]
  /\ ops \in [Host -> 0 .. MaxOps] /\ pushes \in [Host -> 0 .. MaxPushes]
  /\ disturbed \in BOOLEAN

\* The hosts have just exchanged their protocols.
PushInit ==
  /\ handlers = [h \in Host |-> {}] /\ book = [h \in Host |-> {}]
  /\ signalC = [h \in Host |-> 0]
  /\ pushSignalC = [h \in Host |-> None]
  /\ made = [h \in Host |-> None]
  /\ mine = [h \in Host |-> [k \in Pusher |-> None]]
  /\ chan = [h \in Host |-> [n \in Channel |-> 0]]
  /\ pc = [h \in Host |-> [k \in Pusher |-> "idle"]]
  /\ net = EmptyBag
  /\ drained = [h \in Host |-> FALSE]
  /\ ops = [h \in Host |-> 0] /\ pushes = [h \in Host |-> 0]
  /\ disturbed = FALSE

Other(h) == CHOOSE g \in Host : g # h

\* A bag with one copy of a message more, or one less
With(B, m) == B (+) SetToBag({m})
Without(B, m) == B (-) SetToBag({m})

Send(m) == net' = With(net, m)
Goto(h, k, l) == pc' = [pc EXCEPT ![h][k] = l]

\* buildProtocolsPayload: the protocols registered at this moment
buildProtocolsPayload(h, t) ==
  [from |-> h, type |-> t, protocols |-> handlers[h], ref |-> None]

-----------------------------------------------------------------------------
(* The application: Register- and UnregisterMsgPayloadHandler *)

\* Mutant: a push under way is thought to be enough.
triggerUnlessBusy(h) ==
  signalC' = [signalC EXCEPT ![h] =
    IF @ < 2 /\ pc[h][Loop] = "idle" THEN @ + 1 ELSE @]

\* triggerPushProtocol drops the signal if there are two already.
triggerPushProtocol(h) ==
  signalC' = [signalC EXCEPT ![h] = IF @ < 2 THEN @ + 1 ELSE @]

RegisterMsgPayloadHandler(h, x) ==
  /\ ~disturbed /\ h \in Registrars /\ ops[h] < MaxOps /\ x \notin handlers[h]
  /\ handlers' = [handlers EXCEPT ![h] = @ \cup {x}]
  /\ ops' = [ops EXCEPT ![h] = @ + 1]
  /\ triggerPushProtocol(h)
  /\ UNCHANGED <<book, chanVars, pc, net, drained, pushes, disturbed>>

UnregisterMsgPayloadHandler(h, x) ==
  /\ ~disturbed /\ h \in Registrars /\ ops[h] < MaxOps /\ x \in handlers[h]
  /\ handlers' = [handlers EXCEPT ![h] = @ \ {x}]
  /\ ops' = [ops EXCEPT ![h] = @ + 1]
  /\ triggerPushProtocol(h)
  /\ UNCHANGED <<book, chanVars, pc, net, drained, pushes, disturbed>>

-----------------------------------------------------------------------------
(* PushProtocols *)

\* pushProtocolSignalLoop takes a signal; it pushes and waits for the end.
TakeSignal(h) ==
  /\ pc[h][Loop] = "idle" /\ signalC[h] > 0
  /\ signalC' = [signalC EXCEPT ![h] = @ - 1]
  /\ Goto(h, Loop, "call")
  /\ UNCHANGED <<handlers, book, chanVars, net, drained, ops, pushes, disturbed>>

\* handleNewConnection's second push
PushAgain(h, k) ==
  /\ h \in Registrars /\ k # Loop /\ pc[h][k] = "idle" /\ pushes[h] < MaxPushes
  /\ pushes' = [pushes EXCEPT ![h] = @ + 1]
  /\ Goto(h, k, "call")
  /\ disturbed' = TRUE
  /\ UNCHANGED <<handlers, book, signalC, chanVars, net, drained, ops>>

\* The map is looked at under RLock; a caller that finds a push in progress
\* sleeps and looks again.
PushLook(h, k) ==
  /\ pc[h][k] = "call" /\ pushSignalC[h] = None
  /\ Goto(h, k, "set")
  /\ UNCHANGED <<handlers, book, signalC, chanVars, net, drained, ops, pushes, disturbed>>

\* A new channel is put into the map, under Lock.
PushSet(h, k) ==
  /\ pc[h][k] = "set"
  /\ made' = [made EXCEPT ![h] = @ + 1]
  /\ pushSignalC' = [pushSignalC EXCEPT ![h] = made[h] + 1]
  /\ mine' = [mine EXCEPT ![h][k] = made[h] + 1]
  /\ Goto(h, k, "send")
  /\ UNCHANGED <<handlers, book, signalC, chan, net, drained, ops, pushes, disturbed>>

\* A failed write costs a stream, perhaps the last one.
SendFails(h) ==
  /\ "send" \in Faults
  /\ disturbed' = TRUE
  /\ \E last \in BOOLEAN : drained' = [drained EXCEPT ![h] = last]

\* SendMsg sends the PUSH or fails, or goes on waiting for a stream.
PushSend(h, k) ==
  /\ pc[h][k] = "send" /\ ~drained[h]
  /\ \/ /\ Send(buildProtocolsPayload(h, "PUSH")) /\ Goto(h, k, "wait")
        /\ UNCHANGED <<drained, disturbed>>
     \/ SendFails(h) /\ Goto(h, k, "clean") /\ UNCHANGED net
  /\ UNCHANGED <<handlers, book, signalC, chanVars, ops, pushes>>

\* Mutant: the push does not wait for its confirmation.
PushNoWait(h, k) ==
  /\ pc[h][k] = "wait"
  /\ Goto(h, k, "clean")
  /\ UNCHANGED <<handlers, book, signalC, chanVars, net, drained, ops, pushes, disturbed>>

\* Mutant: the wait has no timeout.
PushWaitForever(h, k) ==
  /\ pc[h][k] = "wait" /\ chan[h][mine[h][k]] > 0
  /\ chan' = [chan EXCEPT ![h][mine[h][k]] = @ - 1]
  /\ Goto(h, k, "clean")
  /\ UNCHANGED <<handlers, book, signalC, pushSignalC, made, mine, net, drained, ops, pushes, disturbed>>

PushWait(h, k) ==
  /\ pc[h][k] = "wait"
  /\ \/ /\ chan[h][mine[h][k]] > 0
        /\ chan' = [chan EXCEPT ![h][mine[h][k]] = @ - 1] /\ UNCHANGED disturbed
     \/ "timeout" \in Faults /\ disturbed' = TRUE /\ UNCHANGED chan
  /\ Goto(h, k, "clean")
  /\ UNCHANGED <<handlers, book, signalC, pushSignalC, made, mine, net, drained, ops, pushes>>

\* The deferred delete
PushClean(h, k) ==
  /\ pc[h][k] = "clean"
  /\ pushSignalC' = [pushSignalC EXCEPT ![h] = None]
  /\ mine' = [mine EXCEPT ![h][k] = None]
  /\ Goto(h, k, "idle")
  /\ UNCHANGED <<handlers, book, signalC, made, chan, net, drained, ops, pushes, disturbed>>

-----------------------------------------------------------------------------
(* Handle *)

\* PUSH: SetSupportedProtocolsOfPeer and the answer, if SendMsg sends it.
\* With a drained pool the executor waits for ever.
HandlePush(m) ==
  LET h == Other(m.from) IN
  /\ m.type = "PUSH"
  /\ book' = [book EXCEPT ![h] = m.protocols]
  /\ \/ /\ ~drained[h]
        /\ net' = With(Without(net, m), buildProtocolsPayload(h, "PUSH_OK"))
        /\ UNCHANGED <<drained, disturbed>>
     \/ ~drained[h] /\ SendFails(h) /\ net' = Without(net, m)
     \/ drained[h] /\ net' = Without(net, m) /\ disturbed' = TRUE /\ UNCHANGED drained
  /\ UNCHANGED <<handlers, signalC, chanVars, pc, ops, pushes>>

Replace(m, n) == net' = With(Without(net, m), n)

\* PUSH_OK: the channel is looked up, under RLock;
HandlePushOk(m) ==
  LET c == pushSignalC[Other(m.from)] IN
  /\ m.type = "PUSH_OK"
  /\ Replace(m, [m EXCEPT !.type = IF c = None THEN "store" ELSE "signal", !.ref = c])
  /\ UNCHANGED <<handlers, book, signalC, chanVars, pc, drained, ops, pushes, disturbed>>

\* it is signalled, which waits while it is full;
SignalPush(m) ==
  LET h == Other(m.from) IN
  /\ m.type = "signal" /\ chan[h][m.ref] = 0
  /\ chan' = [chan EXCEPT ![h][m.ref] = 1]
  /\ Replace(m, [m EXCEPT !.type = "store", !.ref = None])
  /\ UNCHANGED <<handlers, book, signalC, pushSignalC, made, mine, pc, drained, ops, pushes, disturbed>>

\* and the protocols are stored.
StorePushOk(m) ==
  /\ m.type = "store"
  /\ book' = [book EXCEPT ![Other(m.from)] = m.protocols]
  /\ net' = Without(net, m)
  /\ UNCHANGED <<handlers, signalC, chanVars, pc, drained, ops, pushes, disturbed>>

-----------------------------------------------------------------------------
PushStep(h, k) == PushSet(h, k) \/ PushSend(h, k) \/ PushWait(h, k) \/ PushClean(h, k)
HandleStep(m) == HandlePush(m) \/ HandlePushOk(m) \/ SignalPush(m) \/ StorePushOk(m)
Handle == \E m \in BagToSet(net) : HandleStep(m)

PushNext ==
  \/ \E h \in Host, x \in Proto :
       RegisterMsgPayloadHandler(h, x) \/ UnregisterMsgPayloadHandler(h, x)
  \/ \E h \in Host : TakeSignal(h)
  \/ \E h \in Host, k \in Pusher : PushAgain(h, k) \/ PushLook(h, k) \/ PushStep(h, k)
  \/ Handle

PushSpec == PushInit /\ [][PushNext]_pushVars

\* Goroutines run, and SendMsg returns unless its pool is drained; a caller that looks again every second finds the map
\* empty if it is empty again and again; messages are handled.
PushFairness ==
  /\ \A h \in Host : WF_pushVars(TakeSignal(h))
  /\ \A h \in Host, k \in Pusher : SF_pushVars(PushLook(h, k)) /\ WF_pushVars(PushStep(h, k))
  /\ WF_pushVars(Handle)

PushFairSpec == PushSpec /\ PushFairness

-----------------------------------------------------------------------------
(* Properties *)

\* Nothing is going on between the two hosts.
Settled ==
  /\ net = EmptyBag
  /\ \A h \in Host : signalC[h] = 0 /\ \A k \in Pusher : pc[h][k] = "idle"

\* core/manager/protocol_manager.go:74-75 and host.go:375: registrations are
\* pushed "to inform other peers about the new handler".  When everything
\* has settled, each book says what the other host has registered; dropping
\* a signal when the channel is full loses nothing.  A push that fails is not
\* repeated, and one beside the loop's may be overtaken.
BooksAgree == Settled /\ ~disturbed => \A h \in Host : book[h] = handlers[Other(h)]

\* As long as no push has timed out or failed and none was made beside the
\* loop's, a confirmation confirms: when the loop's channel is signalled, none
\* of the pushes it has sent is still on its way, and what the other host's
\* book says of this one is at least as new as the push.  After a timeout this
\* is lost, see SuccessIsApplied.
ConfirmedIsApplied ==
  \A h \in Host : ~disturbed /\ mine[h][Loop] # None /\ chan[h][mine[h][Loop]] > 0
    => \A m \in BagToSet(net) : m.type = "PUSH" => m.from # h

\* Every call of PushProtocols returns, whichever messages are lost or late
\* and whichever calls overwrite or delete each other's channel in the map:
\* but for one that finds no stream to send on, or that waits for such a one.
\* (Only the hosts in Registrars ever push.)
PushReturns ==
  \A h \in Registrars, k \in Pusher : pc[h][k] # "idle" ~> pc[h][k] = "idle" \/ drained[h]

-----------------------------------------------------------------------------
(* What the repository says and the code does not do (README, known
   deviations): each is refuted by the .cfg named. *)

\* MCProtocolPushLate.cfg.  components/protocol_exchanger.go:216: "Wait for the
\* PUSH operation to complete or timeout.": what ends the wait of a push is
\* that the other host has handled it, however the pushes before it ended.
SuccessIsApplied ==
  \A h \in Host : pc[h][Loop] = "wait" /\ chan[h][mine[h][Loop]] > 0
    => \A m \in BagToSet(net) : m.type = "PUSH" => m.from # h

\* MCProtocolPushStuck.cfg.  components/protocol_exchanger.go:137: "Signal the push signal channel if
\* it exists.": an executor that is to signal a channel finds room in it, or
\* a push that is going to read it; it is not blocked for good.
SignalHasReader ==
  \A m \in BagToSet(net) : m.type = "signal" =>
    LET h == Other(m.from) IN
    \/ chan[h][m.ref] = 0
    \/ \E k \in Pusher : mine[h][k] = m.ref /\ pc[h][k] \in {"send", "wait"}

\* MCProtocolPushTwice.cfg.  components/protocol_exchanger.go:182-185: PushProtocols "manages the
\* synchronization of concurrent PushProtocols calls", of which one at a
\* time is in progress for a peer.
PushSerialized ==
  \A h \in Host : Cardinality({k \in Pusher : pc[h][k] \in {"send", "wait", "clean"}}) <= 1
=============================================================================
