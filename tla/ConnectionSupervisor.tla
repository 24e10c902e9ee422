------------------------ MODULE ConnectionSupervisor ------------------------
(***************************************************************************)
(* The supervisor that keeps a host connected to its direct peers          *)
(* (components/connection_supervisor.go).                                  *)
(*                                                                         *)
(* Start spawns a goroutine that runs checkConn whenever signalC holds its *)
(* one element (the Boolean signal).  checkConn holds the supervisor's     *)
(* lock for its whole body, but what it asks the connection manager may    *)
(* change between one peer and the next, so it is one step per peer; the   *)
(* lock is held exactly while some loop is in "check".  checkConn spawns   *)
(* Run of a dialActuator, which runs on its own and without the lock.      *)
(* Actuators are the elements of 1 .. ActBound; one that is neither in the *)
(* map nor running is garbage, and its number is used again.               *)
(*                                                                         *)
(* The host is the environment: peers connect and disconnect, and the      *)
(* notifyConnLoop later calls NoticePeerDisconnected, unless the host is   *)
(* stopped in between.                                                     *)
(***************************************************************************)
EXTENDS Integers, FiniteSets, FiniteSetsExt

CONSTANTS
  Peer,
  Self,        \* the host's own id
  Addr,        \* addresses
  Answers,     \* who answers at an address: a peer, a Stranger, or Nobody
  Stranger, Nobody,
  Unset,       \* no address, no actuator
  TryTimesSet, \* the argument of NewConnectionSupervisor
  DefaultTryTimes, \* 10 in the code
  ActBound,    \* bound on the actuators alive at a time
  MaxStarts,   \* bound on the calls of Start
  MaxUps,      \* bound on the connections made by peers
  Calls        \* bound on the calls of SetPeerAddr and its inverses
               \* after the first Start

ASSUME TryTimesAssumption == TryTimesSet \in Int /\ DefaultTryTimes \in Nat \ {0}
ASSUME PeerAssumption == IsFiniteSet(Peer)
ASSUME BoundAssumption ==
  ActBound \in Nat /\ MaxStarts \in Nat /\ MaxUps \in Nat /\ Calls \in Nat
Act == 1 .. ActBound
LoopId == 1 .. MaxStarts

ASSUME AddrAssumption ==
  /\ Answers \in [Addr -> Peer \cup {Stranger, Nobody}]
  /\ Nobody \notin Peer \cup {Stranger} /\ Stranger \notin Peer
  /\ Unset \notin Addr \cup Act

VARIABLES
  necessaryPeer, actuators, allConnected, signal,
  closed,      \* closeC is closed
  running,     \* between Start and Stop
  starting,    \* Start is about to send on signalC
  starts,      \* number of calls of Start so far
  loop,        \* where each loop goroutine is
  todo, currentConnected,   \* checkConn's iteration
  pid, addr, tries, giveUp, finished,   \* the fields of the actuators
  spawned,     \* a goroutine has been spawned to call Run
  run,         \* where the Run that holds stateC is
  connected,   \* ConnectionManager().Connected
  notice,      \* OnPeerDisconnected not yet delivered
  ups, calls

peerVars == <<necessaryPeer, actuators, allConnected>>
loopVars == <<closed, running, starting, starts, loop, todo, currentConnected>>
actVars == <<pid, addr, tries, giveUp, finished, spawned, run>>
envVars == <<connected, notice, ups, calls>>
vars == <<peerVars, signal, loopVars, actVars, envVars>>

LoopStates == {"off", "select", "closing", "lock", "check"}
RunStates == {"none", "top", "dialing", "sleep", "exiting"}

TypeOK ==
  /\ necessaryPeer \in [Peer -> Addr \cup {Unset}]
  /\ actuators \in [Peer -> Act \cup {Unset}]
  /\ allConnected \in BOOLEAN /\ signal \in BOOLEAN
  /\ closed \in BOOLEAN /\ running \in BOOLEAN /\ starting \in BOOLEAN
  /\ starts \in 0 .. MaxStarts
  /\ loop \in [LoopId -> LoopStates]
  /\ todo \in SUBSET Peer /\ currentConnected \in 0 .. Cardinality(Peer)
  /\ pid \in [Act -> Peer \cup {Nobody}]
  /\ addr \in [Act -> Addr \cup {Unset}]
  /\ tries \in [Act -> Nat]
  /\ giveUp \in [Act -> BOOLEAN] /\ finished \in [Act -> BOOLEAN]
  /\ spawned \in [Act -> BOOLEAN] /\ run \in [Act -> RunStates]
  /\ connected \in SUBSET Peer /\ notice \in SUBSET Peer
  /\ ups \in 0 .. MaxUps /\ calls \in 0 .. Calls

\* NewConnectionSupervisor
Init ==
  /\ necessaryPeer = [p \in Peer |-> Unset]
  /\ actuators = [p \in Peer |-> Unset]
  /\ allConnected = FALSE /\ signal = FALSE
  /\ closed = FALSE /\ running = FALSE /\ starting = FALSE /\ starts = 0
  /\ loop = [i \in LoopId |-> "off"]
  /\ todo = {} /\ currentConnected = 0
  /\ pid = [a \in Act |-> Nobody] /\ addr = [a \in Act |-> Unset]
  /\ tries = [a \in Act |-> 0]
  /\ giveUp = [a \in Act |-> FALSE] /\ finished = [a \in Act |-> FALSE]
  /\ spawned = [a \in Act |-> FALSE] /\ run = [a \in Act |-> "none"]
  /\ connected = {} /\ notice = {} /\ ups = 0 /\ calls = 0

\* len(a.fibonacci): the attempts an actuator makes
tryTimes == IF TryTimesSet <= 0 THEN DefaultTryTimes ELSE TryTimesSet

-----------------------------------------------------------------------------
(* Helpers *)

Necessary == {p \in Peer : necessaryPeer[p] # Unset}
Unlocked == \A i \in LoopId : loop[i] # "check"
InMap(a) == \E p \in Peer : actuators[p] = a
Garbage == {a \in Act : ~InMap(a) /\ run[a] = "none" /\ ~spawned[a]}

\* The state a loop has when it enters its select, which evaluates c.closeC.
Selecting == IF closed THEN "closing" ELSE "select"

\* The calls that change necessaryPeer: before Start, the configuration;
\* afterwards, AddDirectPeer and ClearDirectPeers.
CountCall ==
  IF starts = 0 THEN UNCHANGED calls ELSE calls < Calls /\ calls' = calls + 1

-----------------------------------------------------------------------------
(* Start, Stop and the loop *)

\* Host.Start makes a new notifyConnC (reset), so notices not delivered are
\* lost; then the supervisor makes a new closeC.
Start ==
  /\ ~running /\ starts < MaxStarts
  /\ running' = TRUE /\ starting' = TRUE /\ closed' = FALSE
  /\ starts' = starts + 1
  /\ loop' = [loop EXCEPT ![starts + 1] = "select"]
  /\ notice' = {}
  /\ UNCHANGED <<peerVars, signal, todo, currentConnected, actVars, connected, ups, calls>>

\* c.signalC <- struct{}{} blocks while the channel is full.
StartSignal ==
  /\ starting /\ ~signal
  /\ starting' = FALSE /\ signal' = TRUE
  /\ UNCHANGED <<peerVars, closed, running, starts, loop, todo, currentConnected,
                 actVars, envVars>>

Stop ==
  /\ running /\ ~starting
  /\ running' = FALSE /\ closed' = TRUE
  /\ loop' = [i \in LoopId |-> IF loop[i] = "select" THEN "closing" ELSE loop[i]]
  /\ UNCHANGED <<peerVars, signal, starting, starts, todo, currentConnected,
                 actVars, envVars>>

LoopExit(i) ==
  /\ loop[i] = "closing"
  /\ loop' = [loop EXCEPT ![i] = "off"]
  /\ UNCHANGED <<peerVars, signal, closed, running, starting, starts, todo,
                 currentConnected, actVars, envVars>>

LoopTick(i) ==
  /\ loop[i] \in {"select", "closing"} /\ ~signal
  /\ signal' = TRUE
  /\ UNCHANGED <<peerVars, loopVars, actVars, envVars>>

LoopSignal(i) ==
  /\ loop[i] \in {"select", "closing"} /\ signal
  /\ signal' = FALSE
  /\ loop' = [loop EXCEPT ![i] = "lock"]
  /\ UNCHANGED <<peerVars, closed, running, starting, starts, todo,
                 currentConnected, actVars, envVars>>

-----------------------------------------------------------------------------
(* checkConn *)

checkConn(i) ==
  /\ loop[i] = "lock" /\ Unlocked
  /\ IF Necessary = {} \/ allConnected
     THEN loop' = [loop EXCEPT ![i] = Selecting] /\ UNCHANGED <<todo, currentConnected>>
     ELSE /\ loop' = [loop EXCEPT ![i] = "check"]
          /\ todo' = Necessary \ {Self}
          /\ currentConnected' = 0
  /\ UNCHANGED <<peerVars, signal, closed, running, starting, starts, actVars, envVars>>

\* One iteration, for a peer that is connected.
CheckConnected(i, p) ==
  LET a == actuators[p] IN
  /\ loop[i] = "check" /\ p \in todo /\ p \in connected
  /\ todo' = todo \ {p}
  /\ currentConnected' = currentConnected + 1
  /\ IF a = Unset
     THEN UNCHANGED <<finished, actuators>>
     ELSE /\ finished' = [finished EXCEPT ![a] = TRUE]
          /\ actuators' = [actuators EXCEPT ![p] = Unset]
  /\ UNCHANGED <<necessaryPeer, allConnected, signal, closed, running, starting,
                 starts, loop, pid, addr, tries, giveUp, spawned, run, envVars>>

\* a becomes the actuator of p; all its fields are set.
newDialActuator(p, a) ==
  /\ actuators' = [actuators EXCEPT ![p] = a]
  /\ pid' = [pid EXCEPT ![a] = p]
  /\ addr' = [addr EXCEPT ![a] = necessaryPeer[p]]
  /\ tries' = [tries EXCEPT ![a] = 0]
  /\ giveUp' = [giveUp EXCEPT ![a] = FALSE]
  /\ finished' = [finished EXCEPT ![a] = FALSE]

\* One iteration, for a peer that is not: newDialActuator if there is none;
\* unless it has given up, it is reset if it has finished, and Run spawned.
CheckMissing(i, p) ==
  /\ loop[i] = "check" /\ p \in todo /\ p \notin connected
  /\ todo' = todo \ {p}
  /\ allConnected' = FALSE
  /\ IF actuators[p] = Unset
     THEN /\ Garbage # {}
          /\ newDialActuator(p, Min(Garbage))
          /\ spawned' = [spawned EXCEPT ![Min(Garbage)] = TRUE]
     ELSE LET a == actuators[p] IN
          /\ IF giveUp[a] THEN UNCHANGED <<tries, finished, spawned>>
             ELSE /\ tries' = [tries EXCEPT ![a] = IF finished[a] THEN 0 ELSE @]
                  /\ finished' = [finished EXCEPT ![a] = FALSE]
                  /\ spawned' = [spawned EXCEPT ![a] = TRUE]
          /\ UNCHANGED <<actuators, pid, addr, giveUp>>
  /\ UNCHANGED <<necessaryPeer, signal, closed, running, starting, starts, loop,
                 currentConnected, run, envVars>>

CheckEnd(i) ==
  /\ loop[i] = "check" /\ todo = {}
  /\ allConnected' = (allConnected \/ currentConnected = Cardinality(Necessary))
  /\ loop' = [loop EXCEPT ![i] = Selecting]
  /\ UNCHANGED <<necessaryPeer, actuators, signal, closed, running, starting,
                 starts, todo, currentConnected, actVars, envVars>>

-----------------------------------------------------------------------------
(* The exported operations *)

SetPeerAddr(p, d) ==
  /\ Unlocked /\ necessaryPeer[p] # d
  /\ CountCall
  /\ necessaryPeer' = [necessaryPeer EXCEPT ![p] = d]
  /\ signal' = TRUE
  /\ UNCHANGED <<actuators, allConnected, loopVars, actVars, connected, notice, ups>>

RemovePeerAddr(p) ==
  /\ Unlocked /\ p \in Necessary
  /\ CountCall
  /\ necessaryPeer' = [necessaryPeer EXCEPT ![p] = Unset]
  /\ actuators' = [actuators EXCEPT ![p] = Unset]
  /\ UNCHANGED <<allConnected, signal, loopVars, actVars, connected, notice, ups>>

\* the actuators stay
RemoveAllPeer ==
  /\ Unlocked /\ Necessary # {}
  /\ CountCall
  /\ necessaryPeer' = [p \in Peer |-> Unset]
  /\ UNCHANGED <<actuators, allConnected, signal, loopVars, actVars, connected, notice, ups>>

\* Mutant: the flag is left as it was.
NoticeKeepsFlag(p) ==
  /\ p \in notice /\ Unlocked
  /\ notice' = notice \ {p}
  /\ IF p \in Necessary THEN signal' = TRUE ELSE UNCHANGED signal
  /\ UNCHANGED <<peerVars, loopVars, actVars, connected, ups, calls>>

\* The notice is lost on closeC or on the default case only if the signal
\* is there already or the supervisor is stopping.
NoticePeerDisconnected(p) ==
  /\ p \in notice /\ Unlocked
  /\ notice' = notice \ {p}
  /\ IF p \in Necessary
     THEN /\ allConnected' = FALSE
          /\ signal' \in (IF closed THEN {signal, TRUE} ELSE {TRUE})
     ELSE UNCHANGED <<allConnected, signal>>
  /\ UNCHANGED <<necessaryPeer, actuators, loopVars, actVars, connected, ups, calls>>

-----------------------------------------------------------------------------
(* dialActuator.Run *)

\* Mutant: Run does not look at giveUp and finished.
RunEnterBlindly(a) ==
  /\ spawned[a]
  /\ spawned' = [spawned EXCEPT ![a] = FALSE]
  /\ run' = [run EXCEPT ![a] = IF @ # "none" THEN @ ELSE "top"]
  /\ UNCHANGED <<peerVars, signal, loopVars, pid, addr, tries, giveUp, finished, envVars>>

\* The goroutine takes stateC, or finds it taken and returns.
RunEnter(a) ==
  /\ spawned[a]
  /\ spawned' = [spawned EXCEPT ![a] = FALSE]
  /\ run' = [run EXCEPT ![a] =
       IF @ # "none" THEN @ ELSE IF giveUp[a] \/ finished[a] THEN "exiting" ELSE "top"]
  /\ UNCHANGED <<peerVars, signal, loopVars, pid, addr, tries, giveUp, finished, envVars>>

\* Mutant: breakCheck does not look at closeC.
BreakCheckOpen(a) == pid[a] \in connected

\* breakCheck: on TRUE Run breaks out of its loop.
BreakCheck(a) == closed \/ pid[a] \in connected

\* What breakCheck sets when it is TRUE.
Broken(a) ==
  /\ run' = [run EXCEPT ![a] = "exiting"]
  /\ finished' = [finished EXCEPT ![a] = @ \/ ~closed]
  /\ UNCHANGED <<tries, giveUp>>

RunTop(a) ==
  /\ run[a] = "top"
  /\ IF BreakCheck(a)
     THEN Broken(a)
     ELSE run' = [run EXCEPT ![a] = "dialing"] /\ UNCHANGED <<tries, giveUp, finished>>
  /\ UNCHANGED <<peerVars, signal, loopVars, pid, addr, spawned, envVars>>

\* What host.Dial may come back with.
DialResult(a) ==
  {"failed"} \cup CASE Answers[addr[a]] = pid[a] -> {"success"}
                    [] Answers[addr[a]] = Nobody -> {}
                    [] OTHER -> {"mismatch"}

\* a.tryTimes++, up to the bound tryTimes: an actuator that is to count on
\* from there has been finished, and nothing reads its counter any more.
CountAttempt(a) == tries' = [tries EXCEPT ![a] = IF @ >= tryTimes THEN @ ELSE @ + 1]

\* Mutant: the bound on the attempts is off by one.
DialFailedLate(a) ==
  /\ CountAttempt(a)
  /\ IF finished[a]
     THEN run' = [run EXCEPT ![a] = "top"] /\ UNCHANGED giveUp
     ELSE IF tries'[a] > tryTimes
          THEN giveUp' = [giveUp EXCEPT ![a] = TRUE] /\ run' = [run EXCEPT ![a] = "exiting"]
          ELSE run' = [run EXCEPT ![a] = "sleep"] /\ UNCHANGED giveUp

\* A failed dial: give up, or sleep fibonacci[tryTimes] seconds.  An actuator
\* that checkConn has finished meanwhile does neither and dials again at once,
\* as often as it fails, unless its peer is connected.
DialFailed(a) ==
  /\ CountAttempt(a)
  /\ IF finished[a]
     THEN run' = [run EXCEPT ![a] = "top"] /\ UNCHANGED giveUp
     ELSE IF tries'[a] >= tryTimes
          THEN giveUp' = [giveUp EXCEPT ![a] = TRUE] /\ run' = [run EXCEPT ![a] = "exiting"]
          ELSE run' = [run EXCEPT ![a] = "sleep"] /\ UNCHANGED giveUp

\* Dial returns and breakCheck runs a second time.
RunDialed(a) ==
  /\ run[a] = "dialing"
  /\ \E r \in DialResult(a) :
       IF BreakCheck(a) THEN Broken(a)
       ELSE \/ r = "failed" /\ DialFailed(a) /\ UNCHANGED finished
            \/ /\ r = "mismatch"
               /\ giveUp' = [giveUp EXCEPT ![a] = TRUE]
               /\ run' = [run EXCEPT ![a] = "exiting"]
               /\ UNCHANGED <<tries, finished>>
            \/ /\ r = "success"
               /\ finished' = [finished EXCEPT ![a] = TRUE]
               /\ run' = [run EXCEPT ![a] = "exiting"]
               /\ UNCHANGED <<tries, giveUp>>
  /\ UNCHANGED <<peerVars, signal, loopVars, pid, addr, spawned, envVars>>

\* The end of time.Sleep
RunWake(a) ==
  /\ run[a] = "sleep"
  /\ run' = [run EXCEPT ![a] = "top"]
  /\ UNCHANGED <<peerVars, signal, loopVars, pid, addr, tries, giveUp, finished,
                 spawned, envVars>>

\* The deferred receive from stateC
RunExit(a) ==
  /\ run[a] = "exiting"
  /\ run' = [run EXCEPT ![a] = "none"]
  /\ UNCHANGED <<peerVars, signal, loopVars, pid, addr, tries, giveUp, finished,
                 spawned, envVars>>

-----------------------------------------------------------------------------
(* The host: connections that come up, by whoever's dial, and go down *)

PeerConnects(p) ==
  /\ running /\ p \notin connected /\ p # Self /\ ups < MaxUps
  /\ connected' = connected \cup {p}
  /\ ups' = ups + 1
  /\ UNCHANGED <<peerVars, signal, loopVars, actVars, notice, calls>>

\* On a stopped host nobody reads notifyConnC.  A direct peer is of high level
\* and assumed to fit into the connection manager: its entry goes when one of
\* its connections has been closed and handleClosingConn has removed it, which
\* sends the notice.  A connection whose closing goes unhandled
\* (HostConnections, ClosedIsReleased) stays in the manager, and its peer is
\* connected for all the supervisor knows.
PeerDisconnects(p) ==
  /\ p \in connected
  /\ connected' = connected \ {p}
  /\ notice' = IF running THEN notice \cup {p} ELSE notice
  /\ UNCHANGED <<peerVars, signal, loopVars, actVars, ups, calls>>

-----------------------------------------------------------------------------
CheckStep(i) ==
  \/ checkConn(i) \/ CheckEnd(i)
  \/ \E p \in Peer : CheckConnected(i, p) \/ CheckMissing(i, p)
LoopStep(i) == LoopExit(i) \/ LoopSignal(i)
RunStep(a) == RunTop(a) \/ RunWake(a) \/ RunExit(a)

Next ==
  \/ Start \/ StartSignal \/ Stop
  \/ \E i \in LoopId : LoopTick(i) \/ LoopStep(i) \/ CheckStep(i)
  \/ \E p \in Peer, d \in Addr : SetPeerAddr(p, d)
  \/ \E p \in Peer : RemovePeerAddr(p)
  \/ RemoveAllPeer
  \/ \E p \in Peer : NoticePeerDisconnected(p) \/ PeerConnects(p) \/ PeerDisconnects(p)
  \/ \E a \in Act : RunEnter(a) \/ RunStep(a) \/ RunDialed(a)

Spec == Init /\ [][Next]_vars

\* Goroutines run, sleeps end, the ticker ticks, and a lock that is released
\* again and again is obtained.  A dial need not end: its handshake has no
\* deadline (network/tcp/connection.go:215, :240).
Fairness ==
  /\ WF_vars(StartSignal)
  /\ \A i \in LoopId : WF_vars(LoopTick(i)) /\ WF_vars(LoopStep(i)) /\ SF_vars(CheckStep(i))
  /\ \A p \in Peer : SF_vars(NoticePeerDisconnected(p))
  /\ \A a \in Act : WF_vars(RunEnter(a)) /\ WF_vars(RunStep(a))

FairSpec == Spec /\ Fairness

-----------------------------------------------------------------------------
(* Properties *)

\* fibonacci[tryTimes] is never out of range, and an actuator makes at most
\* tryTimes attempts between two resets, although the loop, checkConn and
\* Run change its fields in any order: as long as checkConn has not finished
\* it.  One that was finished while it dialed is not bounded, see
\* AttemptsLimited.
AttemptsBounded ==
  \A a \in Act : ~finished[a] /\ run[a] \in {"top", "dialing", "sleep"}
                 => tries[a] < tryTimes

\* Giving up is final: an actuator that has given up does not dial, and as
\* long as it is the actuator of its peer it is not reset.
GivenUpQuiet ==
  /\ \A a \in Act : giveUp[a] => run[a] \in {"none", "exiting"}
  /\ \A p \in Peer : actuators[p] # Unset /\ giveUp[actuators[p]]
                       => ~finished[actuators[p]]

\* The direct peers are those of the configuration and the supervisor has
\* been started once: neither SetPeerAddr nor a second Start resets the flag,
\* and what the properties below say of it is only meant until then.
Configured == starts = 1 /\ calls = 0

\* The flag that silences the supervisor can be trusted: if it is set, every
\* necessary peer is connected, or the news of its disconnection is on its
\* way.  checkConn looks at the peers one after the other, while they come
\* and go.
AllConnectedSound ==
  Configured /\ allConnected /\ running => Necessary \subseteq connected \cup notice

\* core/manager/connection_manager.go:52-53: "If a necessary peer is not
\* connected to us, supervisor will try to dial to it", unless it has given
\* the peer up, is stopped, or is told that the peer is not necessary.
NecessaryPeerDialed ==
  \A p \in Peer \ {Self} :
    (Configured /\ running /\ p \in Necessary /\ p \notin connected)
      ~> \/ ~Configured \/ ~running \/ p \in connected
         \/ \E a \in Act : pid[a] = p /\ (run[a] = "dialing" \/ giveUp[a])

\* After Stop the actuators come to rest, the ones no map refers to as well,
\* if their dials end.
StopEndsDialing ==
  (\A a \in Act : []<>(run[a] # "dialing"))
    => (closed ~> (~closed \/ \A a \in Act : run[a] = "none"))

-----------------------------------------------------------------------------
\* connection_supervisor.go:350 gives a peer up after len(fibonacci) failed
\* attempts.  The code does not keep this of an actuator checkConn has
\* finished during a dial: if its peer is lost again, it dials on without a
\* pause and without a bound, beside the new actuator of the peer.
AttemptsLimited ==
  [][\A a \in Act : tries[a] >= tryTimes /\ run[a] = "top" => run'[a] # "dialing"]_vars
=============================================================================
