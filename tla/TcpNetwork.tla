----------------------------- MODULE TcpNetwork -----------------------------
(***************************************************************************)
(* The TCP network of a host (network/tcp/network.go), with the calls      *)
(* Host.Start, Host.Stop and the acceptConnLoop make of it.                *)
(*                                                                         *)
(* New connections go through connC, which has no buffer: a dialer hands   *)
(* its connection over while it holds n.mu for reading, a                  *)
(* listenerAcceptLoop without the lock, and the acceptConnLoop asks for    *)
(* the channel, under the same lock, before each receive.  n.mu is a       *)
(* sync.RWMutex: once a writer has announced itself no further reader is   *)
(* let in.  A writer's section does not block, so it is one action.  A new *)
(* connection begins with a handshake (NewConn), in which both ends wait   *)
(* for each other without a deadline: nothing ends it but the remote side. *)
(* The loops of the i-th start carry the number i: those of an earlier     *)
(* start may still be at work when the host has been started again.        *)
(***************************************************************************)
EXTENDS Integers, FiniteSets

CONSTANTS
  Dialer,      \* goroutines that call Dial
  AddrCaller,  \* goroutines that call ListenAddresses
  Main,        \* the goroutine that calls Start and Stop
  MaxStarts    \* bound on the starts

ASSUME NameAssumption == Main \notin AddrCaller
ASSUME BoundAssumption == MaxStarts \in Nat \ {0}

Writer == AddrCaller \cup {Main}
Run == 1 .. MaxStarts

VARIABLES
  main,        \* where Start or Stop is
  starts,
  hostClosed,  \* h.closeC is closed
  listening,
  closed,      \* n.closeC is closed
  open,        \* listeners that are open
  readers,     \* dialers that hold n.mu for reading
  lock,        \* per writer: "none", "want" or "announced"
  dial,        \* where each dialer is
  inbound,     \* where each listenerAcceptLoop is
  accept,      \* where each acceptConnLoop is
  lost         \* connections given to nobody and not closed: who made them

lockVars == <<readers, lock>>
mainVars == <<main, starts, hostClosed, listening, closed, open>>
vars == <<mainVars, lockVars, dial, inbound, accept, lost>>

TypeOK ==
  /\ main \in {"off", "listen", "addresses", "up", "stop", "close"}
  /\ starts \in 0 .. MaxStarts
  /\ hostClosed \in BOOLEAN /\ listening \in BOOLEAN /\ closed \in BOOLEAN
  /\ open \in SUBSET Run
  /\ readers = {d \in Dialer : dial[d] \in {"dialing", "handshake", "sending"}}
  /\ lock \in [Writer -> {"none", "want", "announced"}]
  /\ dial \in [Dialer -> {"idle", "rlock", "dialing", "handshake", "sending"}]
  /\ inbound \in [Run -> {"off", "top", "accept", "handshake", "made", "sending", "dropping"}]
  /\ accept \in [Run -> {"off", "top", "receiving", "leaving", "handling"}]
  /\ lost \in SUBSET (Dialer \cup Run)

\* NewNetwork
Init ==
  /\ main = "off" /\ starts = 0 /\ hostClosed = FALSE
  /\ listening = FALSE /\ closed = FALSE /\ open = {}
  /\ readers = {} /\ lock = [w \in Writer |-> "none"]
  /\ dial = [d \in Dialer |-> "idle"]
  /\ inbound = [i \in Run |-> "off"] /\ accept = [i \in Run |-> "off"]
  /\ lost = {}

-----------------------------------------------------------------------------
(* n.mu *)

MayRLock == \A w \in Writer : lock[w] # "announced"
Exclusive(w) == lock[w] = "announced" /\ readers = {}
SetLock(w, l) == lock' = [lock EXCEPT ![w] = l]

\* Writers announce themselves one at a time.
Lock(w) ==
  /\ lock[w] = "want" /\ MayRLock
  /\ SetLock(w, "announced")
  /\ UNCHANGED <<mainVars, readers, dial, inbound, accept, lost>>

-----------------------------------------------------------------------------
(* Start and Stop *)

\* Start runs the acceptConnLoop, then calls Listen.
Start ==
  /\ main = "off" /\ starts < MaxStarts
  /\ main' = "listen" /\ SetLock(Main, "want")
  /\ starts' = starts + 1 /\ hostClosed' = FALSE
  /\ accept' = [accept EXCEPT ![starts + 1] = "top"]
  /\ UNCHANGED <<listening, closed, open, readers, dial, inbound, lost>>

\* listenTCP has opened a listener, whose loop is spawned.
listenTCP ==
  /\ listening' = TRUE /\ open' = open \cup {starts}
  /\ inbound' = [inbound EXCEPT ![starts] = "top"]

\* Listen, with resetCheck; if no listener can be opened Start fails.  Then
\* Start asks for ListenAddresses.
Listen ==
  /\ main = "listen" /\ Exclusive(Main)
  /\ closed' = FALSE
  /\ \/ /\ listenTCP
        /\ main' = "addresses" /\ SetLock(Main, "want")
     \/ /\ main' = "up" /\ SetLock(Main, "none")
        /\ UNCHANGED <<listening, open, inbound>>
  /\ UNCHANGED <<starts, hostClosed, readers, dial, accept, lost>>

StartAddresses ==
  /\ main = "addresses" /\ Exclusive(Main)
  /\ main' = "up" /\ SetLock(Main, "none")
  /\ UNCHANGED <<starts, hostClosed, listening, closed, open, readers, dial,
                 inbound, accept, lost>>

\* Stop closes h.closeC.
Stop ==
  /\ main = "up"
  /\ main' = "stop" /\ hostClosed' = TRUE
  /\ accept' = [i \in Run |-> IF accept[i] = "receiving" THEN "leaving" ELSE accept[i]]
  /\ UNCHANGED <<starts, listening, closed, open, lockVars, dial, inbound, lost>>

\* Mutant: the lock is asked for first and closeC closed under it.
CloseLockFirst ==
  /\ main = "stop"
  /\ main' = "close" /\ SetLock(Main, "want")
  /\ UNCHANGED <<starts, hostClosed, listening, closed, open, readers, dial,
                 inbound, accept, lost>>

\* Network.Close closes n.closeC, then asks for the lock.
Close ==
  /\ main = "stop"
  /\ main' = "close" /\ SetLock(Main, "want")
  /\ closed' = TRUE
  /\ inbound' = [i \in Run |-> IF inbound[i] = "sending" THEN "dropping" ELSE inbound[i]]
  /\ UNCHANGED <<starts, hostClosed, listening, open, readers, dial, accept, lost>>

\* Mutant: the listeners are not closed.
CloseKeepsListeners ==
  /\ main = "close" /\ Exclusive(Main)
  /\ main' = "off" /\ SetLock(Main, "none")
  /\ listening' = FALSE
  /\ UNCHANGED <<starts, hostClosed, closed, open, readers, dial, inbound, accept, lost>>

CloseListeners ==
  /\ main = "close" /\ Exclusive(Main)
  /\ main' = "off" /\ SetLock(Main, "none")
  /\ listening' = FALSE /\ open' = {}
  /\ UNCHANGED <<starts, hostClosed, closed, readers, dial, inbound, accept, lost>>

-----------------------------------------------------------------------------
(* acceptConnLoop *)

\* The select reads h.closeC before it calls AcceptedConnChan: a loop of an
\* earlier start may still look at the channel that start closed.
AcceptedConnChan(i) ==
  /\ accept[i] = "top" /\ MayRLock
  /\ \E r \in (IF hostClosed THEN {} ELSE {"receiving"})
             \cup (IF hostClosed \/ i < starts THEN {"leaving"} ELSE {}) :
       accept' = [accept EXCEPT ![i] = r]
  /\ UNCHANGED <<mainVars, lockVars, dial, inbound, lost>>

\* The case of h.closeC
AcceptLeave(i) ==
  /\ accept[i] = "leaving"
  /\ accept' = [accept EXCEPT ![i] = "off"]
  /\ UNCHANGED <<mainVars, lockVars, dial, inbound, lost>>

\* handleNewConnection returns.
Handled(i) ==
  /\ accept[i] = "handling"
  /\ accept' = [accept EXCEPT ![i] = "top"]
  /\ UNCHANGED <<mainVars, lockVars, dial, inbound, lost>>

\* A connection is received from connC.
Receive ==
  \E i \in Run : /\ accept[i] \in {"receiving", "leaving"}
                 /\ accept' = [accept EXCEPT ![i] = "handling"]

-----------------------------------------------------------------------------
(* Dial *)

\* n.listening is read without the lock.
DialCheck(d) ==
  /\ dial[d] = "idle" /\ listening
  /\ dial' = [dial EXCEPT ![d] = "rlock"]
  /\ lost' = lost \ {d}
  /\ UNCHANGED <<mainVars, lockVars, inbound, accept>>

DialRLock(d) ==
  /\ dial[d] = "rlock" /\ MayRLock
  /\ dial' = [dial EXCEPT ![d] = "dialing"]
  /\ readers' = readers \cup {d}
  /\ UNCHANGED <<mainVars, lock, inbound, accept, lost>>

\* n.dial reaches the remote side, from one of the local addresses, and calls
\* NewConn; or it has an error.
DialConnect(d) ==
  /\ dial[d] = "dialing"
  /\ \/ dial' = [dial EXCEPT ![d] = "handshake"] /\ UNCHANGED readers
     \/ dial' = [dial EXCEPT ![d] = "idle"] /\ readers' = readers \ {d}
  /\ UNCHANGED <<mainVars, lock, inbound, accept, lost>>

\* NewConn returns: n.dial has a connection, with which Dial enters the select,
\* or the handshake failed, or the peer is not the expected one.
DialHandshake(d) ==
  /\ dial[d] = "handshake"
  /\ \/ dial' = [dial EXCEPT ![d] = "sending"] /\ UNCHANGED readers
     \/ dial' = [dial EXCEPT ![d] = "idle"] /\ readers' = readers \ {d}
  /\ UNCHANGED <<mainVars, lock, inbound, accept, lost>>

DialSend(d) ==
  /\ dial[d] = "sending" /\ Receive
  /\ dial' = [dial EXCEPT ![d] = "idle"] /\ readers' = readers \ {d}
  /\ UNCHANGED <<mainVars, lock, inbound, lost>>

\* The network is closed: Dial returns nothing and leaves the connection open.
DialClosed(d) ==
  /\ dial[d] = "sending" /\ closed
  /\ dial' = [dial EXCEPT ![d] = "idle"] /\ readers' = readers \ {d}
  /\ lost' = lost \cup {d}
  /\ UNCHANGED <<mainVars, lock, inbound, accept>>

-----------------------------------------------------------------------------
(* listenerAcceptLoop *)

InTop(i) ==
  /\ inbound[i] = "top"
  /\ inbound' = [inbound EXCEPT ![i] = IF closed THEN "off" ELSE "accept"]
  /\ UNCHANGED <<mainVars, lockVars, dial, accept, lost>>

\* listener.Accept: a connection, for which NewConn is called, an error, or the
\* error of a closed listener, which ends the loop
InAccept(i) ==
  /\ inbound[i] = "accept"
  /\ \E r \in (IF i \in open THEN {"handshake", "top"} ELSE {"off"}) :
       inbound' = [inbound EXCEPT ![i] = r]
  /\ UNCHANGED <<mainVars, lockVars, dial, accept, lost>>

\* NewConn returns.  Closing the listener does not reach a loop inside it.
InHandshake(i) ==
  /\ inbound[i] = "handshake"
  /\ \E r \in {"made", "top"} : inbound' = [inbound EXCEPT ![i] = r]
  /\ UNCHANGED <<mainVars, lockVars, dial, accept, lost>>

InSelect(i) ==
  /\ inbound[i] = "made"
  /\ inbound' = [inbound EXCEPT ![i] = IF closed THEN "dropping" ELSE "sending"]
  /\ UNCHANGED <<mainVars, lockVars, dial, accept, lost>>

InSend(i) ==
  /\ inbound[i] \in {"sending", "dropping"} /\ Receive
  /\ inbound' = [inbound EXCEPT ![i] = "top"]
  /\ UNCHANGED <<mainVars, lockVars, dial, lost>>

\* The case of n.closeC: the connection is left open.
InDrop(i) ==
  /\ inbound[i] = "dropping"
  /\ inbound' = [inbound EXCEPT ![i] = "off"]
  /\ lost' = lost \cup {i}
  /\ UNCHANGED <<mainVars, lockVars, dial, accept>>

-----------------------------------------------------------------------------
(* ListenAddresses takes the lock for writing. *)

AskAddresses(w) ==
  /\ lock[w] = "none"
  /\ SetLock(w, "want")
  /\ UNCHANGED <<mainVars, readers, dial, inbound, accept, lost>>

ListenAddresses(w) ==
  /\ Exclusive(w)
  /\ SetLock(w, "none")
  /\ UNCHANGED <<mainVars, readers, dial, inbound, accept, lost>>

-----------------------------------------------------------------------------
MainStep == Listen \/ StartAddresses \/ Close \/ CloseListeners
AcceptStep(i) == AcceptLeave(i) \/ Handled(i)
DialStep(d) == DialConnect(d) \/ DialSend(d) \/ DialClosed(d)
InStep(i) == InTop(i) \/ InSelect(i) \/ InSend(i) \/ InDrop(i)

Next ==
  \/ Start \/ Stop \/ MainStep
  \/ \E w \in Writer : Lock(w)
  \/ \E w \in AddrCaller : AskAddresses(w) \/ ListenAddresses(w)
  \/ \E d \in Dialer : DialCheck(d) \/ DialRLock(d) \/ DialHandshake(d) \/ DialStep(d)
  \/ \E i \in Run : \/ AcceptedConnChan(i) \/ AcceptStep(i)
                   \/ InAccept(i) \/ InHandshake(i) \/ InStep(i)

Spec == Init /\ [][Next]_vars

\* Goroutines run, the system's connect and the handlers end, and the lock,
\* which serves its waiters in turn, is obtained by whoever could have it again
\* and again.  A listener need not get connections, but notices when it is
\* closed.  A handshake need not end.
Fairness ==
  /\ WF_vars(MainStep)
  /\ \A w \in Writer : SF_vars(Lock(w))
  /\ \A w \in AddrCaller : WF_vars(ListenAddresses(w))
  /\ \A d \in Dialer : SF_vars(DialRLock(d)) /\ WF_vars(DialStep(d))
  /\ \A i \in Run : /\ SF_vars(AcceptedConnChan(i)) /\ WF_vars(AcceptStep(i))
                    /\ WF_vars(i \notin open /\ InAccept(i)) /\ WF_vars(InStep(i))

FairSpec == Spec /\ Fairness

-----------------------------------------------------------------------------
(* Properties *)

\* The remote sides answer, or give up, the handshakes of the dialers.
DialersAnswered == \A d \in Dialer : []<>(dial[d] # "handshake")

\* Host.Stop gets through Network.Close, unless the remote side of a dialer,
\* which holds the lock, is silent in the handshake: closing n.closeC first
\* frees the dialers that the acceptConnLoop, gone by then, no longer serves.
CloseReturns == DialersAnswered => (main = "stop" ~> main = "off")

\* Under the same condition Close reaches every listenerAcceptLoop, at the top,
\* at its listener, in its select, or after the handshake it was in, if the
\* remote side lets it out of that.
LoopsEndOnClose ==
  DialersAnswered =>
    \A i \in Run : []<>(inbound[i] # "handshake")
                     => (closed ~> (inbound[i] = "off" \/ ~closed))

-----------------------------------------------------------------------------
(* What the repository says and the code does not do (README, known
   deviations): each is refuted by the .cfg named. *)

\* MCTcpNetworkKnown.cfg.  core/network/network.go:17: "Whenever a new connection is accepted or
\* dialed, Network should write the new connection to chan."  A dialed
\* connection gets there, unless the network is closed.
DialedIsWritten ==
  \A d \in Dialer : dial[d] = "sending" ~> dial[d] # "sending"

\* MCTcpNetworkKnown.cfg.  network.go:185, "listener required": nothing is dialed by a network that
\* is not listening.
DialNeedsListener == \A d \in Dialer : dial[d] = "dialing" => listening

\* MCTcpNetworkKnown.cfg.  Network.Close, network.go:207-217, returns: a dialer
\* whose remote side is silent keeps it, and Host.Stop, at n.mu.Lock.
CloseReturnsAnyway == main = "stop" ~> main = "off"

\* MCTcpNetworkKnown.cfg.  network.go:279-285: a loop ends once n.closeC is
\* closed, also from within a handshake.
LoopsEndAnyway ==
  \A i \in Run : closed ~> (inbound[i] = "off" \/ ~closed)
=============================================================================
