-------------------------- MODULE ProtocolExchange --------------------------
(***************************************************************************)
(* Two hosts that get to know each other: the part of handleNewConnection  *)
(* (host.go) that exchanges the protocols over a new connection, at both   *)
(* of its ends, with components/protocol_exchanger.go.                     *)
(*                                                                         *)
(* Each host has one acceptConnLoop, which handles one connection at a     *)
(* time, in an order of its own.  Unless the peer is connected already, it *)
(* calls ExchangeProtocol: a goroutine sends REQUEST and waits for         *)
(* RESPONSE (the dialer) or the other way round, while the caller waits    *)
(* for the goroutine, at most exchangeTimeout.  Then the connection enters *)
(* the connection manager, the protocols enter the book, they are pushed   *)
(* again if there are more or fewer now than before the exchange, and the  *)
(* streams of the connection begin to be read.                             *)
(*                                                                         *)
(* A push is one step here that sends it, one that stores it, and the same *)
(* for the PUSH_OK that answers it, which tells the protocols of the other *)
(* host: ProtocolPush has the detail, HostConnections that of the other    *)
(* steps of a connection (of handleClosingConn in particular).  Nothing    *)
(* orders two pushes of a host, or a push and a PUSH_OK: PushProtocols     *)
(* looks and then writes in pushSignalC, and gives up after a timeout.     *)
(* Whoever closes a connection ends it for both.                           *)
(***************************************************************************)
EXTENDS Integers, FiniteSets

CONSTANTS
  Host,         \* two hosts
  Conn, Dialer, \* connections between them, and who dialed each
  Proto,
  Registrars,   \* hosts whose application changes its handlers
  Unregisters,  \* whether it removes handlers, too
  Races,        \* whether the race on the results of ExchangeProtocol shows
  Rejecting,    \* hosts whose blacklist or connection manager may reject
  MaxOps,       \* bound on the changes a host makes
  None

ASSUME HostAssumption ==
  /\ IsFiniteSet(Host) /\ Cardinality(Host) = 2 /\ Registrars \subseteq Host
  /\ Rejecting \subseteq Host
  /\ Dialer \in [Conn -> Host] /\ None \notin Conn
  /\ IsFiniteSet(Conn) /\ IsFiniteSet(Proto) /\ \A P \in SUBSET Proto : P # None
ASSUME OtherAssumption == Unregisters \in BOOLEAN /\ Races \in BOOLEAN /\ MaxOps \in Nat

VARIABLES
  handlers,    \* protocols registered with each host
  book,        \* what the protocol book says of the other host, or None
  seen,        \* connections taken from AcceptedConnChan
  rejected,    \* connections refused by the blacklist or by Allowed
  cur, step,   \* handleNewConnection: its connection, where it is,
  myProtocolsLength, rProtocols,
  exr,         \* the goroutine of ExchangeProtocol for a connection
  got,         \* its result
  conns,       \* connections in the connection manager
  served,      \* connections whose streams are accepted
  dead,        \* connections that have been closed
  wire,        \* payloads on their way
  pushes,      \* pending calls of PushProtocols
  acks,        \* PUSH_OKs a host has still to send
  overlapped,  \* hosts that have sent a PUSH or PUSH_OK while another of
               \* theirs was on its way (a history variable)
  ops

newVars == <<seen, rejected, cur, step, myProtocolsLength, rProtocols>>
exrVars == <<exr, got>>
appVars == <<handlers, pushes, acks, overlapped, ops>>
exchangeVars == <<appVars, book, newVars, exrVars, conns, served, dead, wire>>

\* What a host sends its protocols with when the exchange is over
Announcements == {"PUSH", "PUSH_OK"}
Payload == [c : Conn, from : Host, type : {"REQUEST", "RESPONSE"} \cup Announcements,
            protocols : SUBSET Proto]

ExchangeTypeOK ==
  /\ handlers \in [Host -> SUBSET Proto] /\ ops \in [Host -> 0 .. MaxOps]
  /\ pushes \in [Host -> 0 .. MaxOps + Cardinality(Conn)]
  /\ book \in [Host -> {None} \cup SUBSET Proto]
  /\ acks \in [Host -> Nat] /\ overlapped \in SUBSET Host
  /\ seen \in [Host -> SUBSET Conn] /\ rejected \in [Host -> SUBSET Conn]
  /\ cur \in [Host -> Conn \cup {None}]
  /\ step \in [Host -> {"idle", "decide", "exchange", "add", "book", "serve"}]
  /\ myProtocolsLength \in [Host -> 0 .. Cardinality(Proto)]
  /\ rProtocols \in [Host -> {None} \cup SUBSET Proto]
  /\ exr \in [Host -> [Conn -> {"none", "send", "receive", "ok", "err"}]]
  /\ got \in [Host -> [Conn -> SUBSET Proto]]
  /\ conns \in [Host -> SUBSET Conn] /\ served \in [Host -> SUBSET Conn]
  /\ dead \in SUBSET Conn /\ wire \in SUBSET Payload

ExchangeInit ==
  /\ handlers = [h \in Host |-> {}] /\ ops = [h \in Host |-> 0]
  /\ pushes = [h \in Host |-> 0] /\ book = [h \in Host |-> None]
  /\ acks = [h \in Host |-> 0] /\ overlapped = {}
  /\ seen = [h \in Host |-> {}] /\ rejected = [h \in Host |-> {}] /\ cur = [h \in Host |-> None]
  /\ step = [h \in Host |-> "idle"]
  /\ myProtocolsLength = [h \in Host |-> 0]
  /\ rProtocols = [h \in Host |-> None]
  /\ exr = [h \in Host |-> [c \in Conn |-> "none"]]
  /\ got = [h \in Host |-> [c \in Conn |-> {}]]
  /\ conns = [h \in Host |-> {}] /\ served = [h \in Host |-> {}]
  /\ dead = {} /\ wire = {}

Other(h) == CHOOSE g \in Host : g # h

-----------------------------------------------------------------------------
(* acceptConnLoop and handleNewConnection *)

AcceptConn(h, c) ==
  /\ cur[h] = None /\ c \notin seen[h]
  /\ seen' = [seen EXCEPT ![h] = @ \cup {c}]
  /\ cur' = [cur EXCEPT ![h] = c] /\ step' = [step EXCEPT ![h] = "decide"]
  /\ UNCHANGED <<appVars, book, rejected, myProtocolsLength, rProtocols, exrVars, conns, served, dead, wire>>

Goto(h, s) == step' = [step EXCEPT ![h] = s] /\ UNCHANGED cur

Return(h) ==
  /\ cur' = [cur EXCEPT ![h] = None] /\ step' = [step EXCEPT ![h] = "idle"]
  /\ rProtocols' = [rProtocols EXCEPT ![h] = None]
  /\ myProtocolsLength' = [myProtocolsLength EXCEPT ![h] = 0]

\* The blacklist, then Allowed: the connection is left as it is.
Reject(h) ==
  /\ step[h] = "decide" /\ h \in Rejecting
  /\ rejected' = [rejected EXCEPT ![h] = @ \cup {cur[h]}]
  /\ Return(h)
  /\ UNCHANGED <<appVars, book, seen, exrVars, conns, served, dead, wire>>

\* "If it is the first time establishing connection with us, exchange
\* supported protocols": the goroutine is spawned.
Decide(h) ==
  LET c == cur[h] IN
  /\ step[h] = "decide"
  /\ IF conns[h] # {}
     THEN Goto(h, "add") /\ UNCHANGED <<myProtocolsLength, exr>>
     ELSE /\ Goto(h, "exchange")
          /\ myProtocolsLength' = [myProtocolsLength EXCEPT ![h] = Cardinality(handlers[h])]
          /\ exr' = [exr EXCEPT ![h][c] = IF Dialer[c] = h THEN "send" ELSE "receive"]
  /\ UNCHANGED <<appVars, book, seen, rejected, rProtocols, got, conns, served, dead, wire>>

\* Mutant: a failed exchange leaves the connection open.
ExchangeDoneLeavesOpen(h) ==
  LET c == cur[h] IN
  /\ step[h] = "exchange" /\ exr[h][c] \in {"ok", "err"}
  /\ IF exr[h][c] = "ok"
     THEN /\ rProtocols' = [rProtocols EXCEPT ![h] = got[h][c]]
          /\ Goto(h, "add") /\ UNCHANGED myProtocolsLength
     ELSE Return(h)
  /\ UNCHANGED <<appVars, book, seen, rejected, exrVars, conns, served, dead, wire>>

\* signalC: the goroutine is done; without an error the handler goes on.
ExchangeDone(h) ==
  LET c == cur[h] IN
  /\ step[h] = "exchange" /\ exr[h][c] \in {"ok", "err"}
  /\ IF exr[h][c] = "ok"
     THEN /\ rProtocols' = [rProtocols EXCEPT ![h] = got[h][c]]
          /\ Goto(h, "add") /\ UNCHANGED <<myProtocolsLength, dead>>
     ELSE Return(h) /\ dead' = dead \cup {c}
  /\ UNCHANGED <<appVars, book, seen, rejected, exrVars, conns, served, wire>>

\* Mutant: after the timeout the goroutine is waited for.
ExchangeTimeoutJoins(h) ==
  LET c == cur[h] IN
  /\ step[h] = "exchange" /\ exr[h][c] = "err"
  /\ Return(h) /\ dead' = dead \cup {c}
  /\ UNCHANGED <<appVars, book, seen, rejected, exrVars, conns, served, wire>>

\* ctx.Done: exchangeTimeout has passed.  A goroutine that finishes just now
\* writes the results this return has set: the caller may see its protocols
\* and no error, no protocols and no error, or the timeout.
ExchangeTimeout(h) ==
  LET c == cur[h] IN
  /\ step[h] = "exchange"
  /\ \/ Return(h) /\ dead' = dead \cup {c}
     \/ /\ Races /\ exr[h][c] = "ok"
        /\ \E r \in {got[h][c], {}} : rProtocols' = [rProtocols EXCEPT ![h] = r]
        /\ Goto(h, "add") /\ UNCHANGED <<myProtocolsLength, dead>>
  /\ UNCHANGED <<appVars, book, seen, rejected, exrVars, conns, served, wire>>

\* The pool, which needs a connection that is alive, and AddPeerConnection
Add(h) ==
  LET c == cur[h] IN
  /\ step[h] = "add"
  /\ IF c \in dead
     THEN Return(h) /\ UNCHANGED conns
     ELSE /\ conns' = [conns EXCEPT ![h] = @ \cup {c}]
          /\ Goto(h, IF rProtocols[h] # None THEN "book" ELSE "serve")
          /\ UNCHANGED <<rProtocols, myProtocolsLength>>
  /\ UNCHANGED <<appVars, book, seen, rejected, exrVars, served, dead, wire>>

\* SetSupportedProtocolsOfPeer
SetBook(h) ==
  /\ step[h] = "book"
  /\ book' = [book EXCEPT ![h] = rProtocols[h]]
  /\ Goto(h, "serve")
  /\ UNCHANGED <<appVars, seen, rejected, myProtocolsLength, rProtocols, exrVars, conns, served, dead, wire>>

\* Mutant: no second push.
ServeOnly(h) ==
  /\ step[h] = "serve"
  /\ served' = [served EXCEPT ![h] = @ \cup {cur[h]}]
  /\ Return(h)
  /\ UNCHANGED <<appVars, book, seen, rejected, exrVars, conns, dead, wire>>

\* If an exchange took place and the number of protocols has changed since
\* it began, they are pushed again; the acceptReceiveStreamLoop is spawned.
Serve(h) ==
  LET again == rProtocols[h] # None /\ myProtocolsLength[h] # Cardinality(handlers[h]) IN
  /\ step[h] = "serve"
  /\ pushes' = IF again THEN [pushes EXCEPT ![h] = @ + 1] ELSE pushes
  /\ served' = [served EXCEPT ![h] = @ \cup {cur[h]}]
  /\ Return(h)
  /\ UNCHANGED <<handlers, acks, overlapped, ops, book, seen, rejected, exrVars, conns, dead, wire>>

-----------------------------------------------------------------------------
(* exchangeProtocol, in its goroutine, which goes on after a timeout *)

\* sendExchangePayload, with the protocols registered at this moment
SendPayload(h, c) ==
  /\ exr[h][c] = "send"
  /\ \/ /\ c \notin dead
        /\ exr' = [exr EXCEPT ![h][c] = IF Dialer[c] = h THEN "receive" ELSE "ok"]
        /\ wire' = wire \cup
             {[c |-> c, from |-> h, protocols |-> handlers[h],
               type |-> IF Dialer[c] = h THEN "REQUEST" ELSE "RESPONSE"]}
     \/ c \in dead /\ exr' = [exr EXCEPT ![h][c] = "err"] /\ UNCHANGED wire
  /\ UNCHANGED <<appVars, book, newVars, got, conns, served, dead>>

\* receiveExchangePayload takes what comes first on the stream it accepts:
\* if the other host did not exchange, that may be a PUSH.
ReceivePayload(h, m) ==
  LET c == m.c IN
  /\ exr[h][c] = "receive" /\ m \in wire /\ m.from = Other(h)
  /\ IF m.type = (IF Dialer[c] = h THEN "RESPONSE" ELSE "REQUEST")
     THEN /\ got' = [got EXCEPT ![h][c] = m.protocols]
          /\ exr' = [exr EXCEPT ![h][c] = IF Dialer[c] = h THEN "ok" ELSE "send"]
     ELSE exr' = [exr EXCEPT ![h][c] = "err"] /\ UNCHANGED got
  /\ wire' = wire \ {m}
  /\ UNCHANGED <<appVars, book, newVars, conns, served, dead>>

ReceiveFails(h, c) ==
  /\ exr[h][c] = "receive" /\ c \in dead
  /\ exr' = [exr EXCEPT ![h][c] = "err"]
  /\ UNCHANGED <<appVars, book, newVars, got, conns, served, dead, wire>>

-----------------------------------------------------------------------------
(* The rest of the host *)

\* Register- and UnregisterMsgPayloadHandler, which trigger a push
ChangeHandler(h, x) ==
  /\ h \in Registrars /\ ops[h] < MaxOps /\ (x \in handlers[h] => Unregisters)
  /\ handlers' = [handlers EXCEPT ![h] = IF x \in @ THEN @ \ {x} ELSE @ \cup {x}]
  /\ pushes' = [pushes EXCEPT ![h] = @ + 1]
  /\ ops' = [ops EXCEPT ![h] = @ + 1]
  /\ UNCHANGED <<acks, overlapped, book, newVars, exrVars, conns, served, dead, wire>>

\* sendProtocolsToOther takes a snapshot, which is on its way from then on.
\* SendMsg needs the peer to be connected and known to support the exchanger's
\* protocol, and takes one of its connections.
SendProtocols(h, c, type) ==
  IF conns[h] # {} /\ book[h] # None
  THEN /\ c \in conns[h]
       /\ IF c \in dead THEN UNCHANGED <<wire, overlapped>>
          ELSE /\ wire' = wire \cup {[c |-> c, from |-> h, type |-> type, protocols |-> handlers[h]]}
               /\ overlapped' = overlapped \cup
                    {g \in {h} : \E m \in wire : m.from = g /\ m.type \in Announcements}
  ELSE UNCHANGED <<wire, overlapped>>

PushProtocols(h, c) ==
  /\ pushes[h] > 0
  /\ pushes' = [pushes EXCEPT ![h] = @ - 1]
  /\ SendProtocols(h, c, "PUSH")
  /\ UNCHANGED <<handlers, acks, ops, book, newVars, exrVars, conns, served, dead>>

\* Handle: a PUSH is stored and will be answered, a PUSH_OK is stored; a
\* REQUEST or RESPONSE nobody waited for is ignored.
Handle(h, m) ==
  /\ m \in wire /\ m.from = Other(h) /\ m.c \in served[h]
  /\ book' = IF m.type \in Announcements THEN [book EXCEPT ![h] = m.protocols] ELSE book
  /\ acks' = IF m.type = "PUSH" THEN [acks EXCEPT ![h] = @ + 1] ELSE acks
  /\ wire' = wire \ {m}
  /\ UNCHANGED <<handlers, pushes, overlapped, ops, newVars, exrVars, conns, served, dead>>

\* The rest of Handle: PUSH_OK, with what is registered by now
AnswerPush(h, c) ==
  /\ acks[h] > 0
  /\ acks' = [acks EXCEPT ![h] = @ - 1]
  /\ SendProtocols(h, c, "PUSH_OK")
  /\ UNCHANGED <<handlers, pushes, ops, book, newVars, exrVars, conns, served, dead>>

\* What was on its way on a connection that has been closed
Lost(m) ==
  /\ m \in wire /\ m.c \in dead
  /\ wire' = wire \ {m}
  /\ UNCHANGED <<appVars, book, newVars, exrVars, conns, served, dead>>

\* handleClosingConn: RemovePeerConnection takes the whole entry of the peer
\* away, CleanPeer its protocols.
Closing(h, c) ==
  /\ c \in served[h] \cap dead
  /\ served' = [served EXCEPT ![h] = @ \ {c}]
  /\ IF c \in conns[h]
     THEN conns' = [conns EXCEPT ![h] = {}] /\ book' = [book EXCEPT ![h] = None]
     ELSE UNCHANGED <<conns, book>>
  /\ UNCHANGED <<appVars, newVars, exrVars, dead, wire>>

-----------------------------------------------------------------------------
NewStep(h) == Reject(h) \/ Decide(h) \/ ExchangeDone(h) \/ ExchangeTimeout(h) \/ Add(h)
                \/ SetBook(h) \/ Serve(h)
ExchangeStep(h, c) ==
  SendPayload(h, c) \/ ReceiveFails(h, c) \/ \E m \in wire : m.c = c /\ ReceivePayload(h, m)

ExchangeNext ==
  \E h \in Host :
    \/ NewStep(h)
    \/ \E c \in Conn : \/ AcceptConn(h, c) \/ ExchangeStep(h, c) \/ Closing(h, c)
                        \/ PushProtocols(h, c) \/ AnswerPush(h, c)
    \/ \E x \in Proto : ChangeHandler(h, x)
    \/ \E m \in wire : Handle(h, m) \/ Lost(m)

ExchangeSpec == ExchangeInit /\ [][ExchangeNext]_exchangeVars

\* Goroutines run and timers fire; no connection, change or push has to come.
ExchangeFairness ==
  \A h \in Host : WF_exchangeVars(NewStep(h)) /\ \A c \in Conn : WF_exchangeVars(ExchangeStep(h, c))

ExchangeFairSpec == ExchangeSpec /\ ExchangeFairness

\* As above, and every connection reaches both hosts.
DialSpec == ExchangeFairSpec /\ \A h \in Host : \A c \in Conn : WF_exchangeVars(AcceptConn(h, c))

-----------------------------------------------------------------------------
(* Properties *)

\* Nothing is under way that could change a book.
Settled ==
  /\ \A h \in Host : cur[h] = None /\ pushes[h] = 0 /\ acks[h] = 0
  /\ wire = {} /\ \A h \in Host : served[h] \cap dead = {}

\* What a host has in its book of the other is what the other supports, once
\* all is settled, if they share a connection, neither serves one that its
\* manager has forgotten with a sibling, and no announcement of the other has
\* overtaken another: handlers registered at any moment of the exchange, the
\* additions and the pushes are not missed, and no timeout leaves two hosts
\* that are connected and do not know each other.  Nothing in the code keeps
\* two announcements of a host apart (README, known deviations), and what is
\* pushed over a connection the other has rejected is never read: then the
\* wire is not empty, and nothing is said.
BooksFresh ==
  Settled /\ (\A h \in Host : served[h] = conns[h])
    => \A h \in Host : conns[h] \cap conns[Other(h)] # {} /\ Other(h) \notin overlapped
                       => book[h] = handlers[Other(h)]

\* No host waits for ever in its only acceptConnLoop, even if each of the two
\* waits for the other to attend to a different connection.
ExchangeReturns == \A h \in Host : cur[h] # None ~> cur[h] = None

\* A connection is not in one host's manager, alive, when the other host is
\* done with it and does not serve it, however the exchange failed; unless the
\* other host has rejected it, which leaves it open (host.go:979-1000, and
\* RejectedIsClosed in HostConnections).
NoHalfOpen ==
  \A h \in Host : \A c \in conns[h] :
    c \in seen[Other(h)] /\ cur[Other(h)] # c /\ c \notin served[Other(h)]
      => c \in dead \cup rejected[Other(h)]

\* MCProtocolExchange.cfg, by hand.  protocol_exchanger.go:183: PushProtocols "manages the synchronization of
\* concurrent PushProtocols calls": BooksFresh for overlapping ones, too.
OverlapsHarmless ==
  Settled /\ (\A h \in Host : served[h] = conns[h])
    => \A h \in Host : conns[h] \cap conns[Other(h)] # {} => book[h] = handlers[Other(h)]

\* Two hosts that have dialed each other get connected.  host.go:98: connExclusive "is used
\* to prevent the problem that two new connections may conflict when two
\* peers dial each other"; but each host waits in its only loop on the
\* connection it took first (MCProtocolExchangeCross.cfg).
DialersMeet == <>(\E c \in Conn : \A h \in Host : c \in conns[h])
=============================================================================
