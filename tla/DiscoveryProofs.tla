-------------------------- MODULE DiscoveryProofs ---------------------------
(***************************************************************************)
(* What holds of the channels of the searches for every number of          *)
(* searches, services, executors and peers.                                *)
(***************************************************************************)
EXTENDS Discovery, TLAPS

\* The parts of the type the argument needs.
ChannelTypes ==
  /\ searchingM \in [Service -> Search \cup {None}]
  /\ task \in [Search -> TaskStates]
  /\ exec \in [Executor -> ExecStates]
  /\ holders \in SUBSET Executor
  /\ net \in SUBSET (Request \cup Answer)
  /\ book \in [Service -> SUBSET Peer]

\* Whoever is about to send has the read lock, and has had it since the
\* channel was found.
SendersHold ==
  \A e \in Executor : exec[e].at = "send" =>
    /\ e \in holders /\ exec[e].svc \in Service
    /\ exec[e].c # None /\ searchingM[exec[e].svc] = exec[e].c

\* An executor that has an answer knows its service.
BusyHasService ==
  \A e \in Executor : exec[e].at # "idle" => exec[e].svc \in Service

\* A channel in the map is that of a search for the service, which has begun.
MapSound ==
  \A x \in Service : searchingM[x] # None =>
    /\ Of[searchingM[x]] = x /\ searchingM[x] \notin closed
    /\ task[searchingM[x]] \notin {"idle", "set"}

\* The channel of a search that has not begun has not been closed.
UnbegunOpen == \A s \in Search : task[s] \in {"idle", "set"} => s \notin closed

ChannelInv ==
  ChannelTypes /\ SendersHold /\ BusyHasService /\ MapSound /\ UnbegunOpen

LEMMA ChannelInit == Init => ChannelInv
  <1> SUFFICES ASSUME Init PROVE ChannelInv
    OBVIOUS
  <1>1. ChannelTypes
    BY DEF Init, ChannelTypes, TaskStates, ExecStates, Idle
  <1>2. SendersHold /\ BusyHasService
    BY DEF Init, SendersHold, BusyHasService, Idle
  <1>3. MapSound /\ UnbegunOpen
    BY DEF Init, MapSound, UnbegunOpen
  <1>4. QED
    BY <1>1, <1>2, <1>3 DEF ChannelInv

\* The invariant is about these variables only.
LEMMA ChannelStutter ==
  ASSUME ChannelInv, UNCHANGED <<searchingM, holders, closed, task, exec>>,
         net' \in SUBSET (Request \cup Answer), book' \in [Service -> SUBSET Peer]
  PROVE  ChannelInv'
  BY DEF ChannelInv, ChannelTypes, SendersHold, BusyHasService, MapSound, UnbegunOpen

\* A search moves on without touching map, channels and lock.
LEMMA ChannelTask ==
  ASSUME ChannelInv, NEW s \in Search, NEW a \in TaskStates,
         task' = [task EXCEPT ![s] = a],
         a \in {"idle", "set"} => task[s] \in {"idle", "set"},
         UNCHANGED <<searchingM, holders, closed, exec, net, book>>
  PROVE  ChannelInv'
  <1>1. ChannelTypes' /\ SendersHold' /\ BusyHasService'
    BY DEF ChannelInv, ChannelTypes, SendersHold, BusyHasService
  <1>2. MapSound'
    BY DEF ChannelInv, ChannelTypes, MapSound
  <1>3. UnbegunOpen'
    BY DEF ChannelInv, ChannelTypes, UnbegunOpen
  <1>4. QED
    BY <1>1, <1>2, <1>3 DEF ChannelInv

\* An executor moves on to something other than sending.
LEMMA ChannelExec ==
  ASSUME ChannelInv, NEW e \in Executor, NEW r \in ExecStates,
         exec' = [exec EXCEPT ![e] = r], r.at # "send",
         r.at # "idle" => r.svc \in Service,
         holders' \in {holders, holders \ {e}},
         net' \in SUBSET (Request \cup Answer),
         UNCHANGED <<searchingM, closed, task, book>>
  PROVE  ChannelInv'
  <1>1. ChannelTypes'
    BY DEF ChannelInv, ChannelTypes
  <1>2. SendersHold'
    BY DEF ChannelInv, ChannelTypes, SendersHold
  <1>3. BusyHasService'
    BY DEF ChannelInv, ChannelTypes, BusyHasService
  <1>4. MapSound' /\ UnbegunOpen'
    BY DEF ChannelInv, MapSound, UnbegunOpen
  <1>5. QED
    BY <1>1, <1>2, <1>3, <1>4 DEF ChannelInv

\* NextInfo leads to an executor that is idle or at the next info.
LEMMA NextInfoState ==
  ASSUME ChannelInv, NEW e \in Executor, NEW todo \in SUBSET Peer,
         exec[e].at # "idle", NextInfo(e, todo)
  PROVE  \E r \in ExecStates : /\ exec' = [exec EXCEPT ![e] = r] /\ r.at # "send"
                               /\ r.at # "idle" => r.svc \in Service
  <1>1. exec \in [Executor -> ExecStates] /\ exec[e] \in ExecStates /\ exec[e].svc \in Service
    BY DEF ChannelInv, ChannelTypes, BusyHasService
  <1>2. CASE todo = {}
    <2>1. exec' = [exec EXCEPT ![e] = Idle] /\ Idle \in ExecStates /\ Idle.at = "idle"
      BY <1>1, <1>2 DEF NextInfo, Idle, ExecStates
    <2>2. QED
      BY <2>1
  <1>3. CASE todo # {}
    <2> DEFINE r == [exec[e] EXCEPT !.at = "item", !.todo = todo, !.cur = None, !.c = None]
    <2>1. r \in ExecStates /\ r.at = "item" /\ r.svc \in Service
      BY <1>1 DEF ExecStates
    <2>2. exec' = [exec EXCEPT ![e] = r]
      BY <1>1, <1>3 DEF NextInfo
    <2>3. QED
      BY <2>1, <2>2
  <1>4. QED
    BY <1>2, <1>3

LEMMA ChannelStep == ChannelInv /\ [Next]_vars => ChannelInv'
  <1> SUFFICES ASSUME ChannelInv, [Next]_vars PROVE ChannelInv'
    OBVIOUS
  <1> USE DEF hostVars, lockVars, searchVars
  <1>0. net \in SUBSET (Request \cup Answer) /\ task \in [Search -> TaskStates]
        /\ exec \in [Executor -> ExecStates] /\ searchingM \in [Service -> Search \cup {None}]
        /\ holders \in SUBSET Executor /\ book \in [Service -> SUBSET Peer]
    BY DEF ChannelInv, ChannelTypes
  <1>1. CASE UNCHANGED vars
    BY <1>0, <1>1, ChannelStutter DEF vars
  <1>2. ASSUME NEW q \in Neighbour, HostStep(q) PROVE ChannelInv'
    <2>0. q \in Peer
      BY NameAssumption
    <2>1. CASE Connect(q) \/ Disconnect(q) \/ RemoveAddress(q)
      BY <1>0, <2>0, <2>1, ChannelStutter DEF Connect, Disconnect, RemoveAddress
    <2>2. ASSUME NEW x \in Service, HandleAnnounce(q, x) PROVE ChannelInv'
      BY <1>0, <2>0, <2>2, ChannelStutter DEF HandleAnnounce
    <2>3. QED
      BY <1>2, <2>1, <2>2 DEF HostStep
  <1>3. ASSUME NEW x \in Service, Announce(x) PROVE ChannelInv'
    BY <1>0, <1>3, ChannelStutter DEF Announce
  <1>4. ASSUME NEW s \in Search, SearchPeers(s) PROVE ChannelInv'
    BY <1>0, <1>4, ChannelTask DEF SearchPeers, TaskStates
  <1>5. ASSUME NEW s \in Search, WaitLock(s) PROVE ChannelInv'
    BY <1>0, <1>5, ChannelStutter DEF WaitLock
  <1>6. ASSUME NEW s \in Search, TaskEnds(s) PROVE ChannelInv'
    BY <1>0, <1>6, ChannelTask DEF TaskEnds, TaskStates
  <1>7. ASSUME NEW s \in Search, Cancel(s) PROVE ChannelInv'
    BY <1>0, <1>7, ChannelStutter DEF Cancel
  \* nobody holds the lock, so nobody is about to send
  <1>8. ASSUME MayLock PROVE \A e \in Executor : exec[e].at # "send"
    BY <1>8 DEF MayLock, ChannelInv, SendersHold
  <1>9. ASSUME NEW s \in Search, SearchSet(s) PROVE ChannelInv'
    <2>1. /\ task[s] = "set" /\ task' = [task EXCEPT ![s] = "select"]
          /\ searchingM' = [searchingM EXCEPT ![Of[s]] = s]
          /\ UNCHANGED <<holders, closed, exec, net, book>>
          /\ \A e \in Executor : exec[e].at # "send"
      BY <1>8, <1>9 DEF SearchSet
    <2>2. Of[s] \in Service /\ s \notin closed
      BY <2>1, NameAssumption DEF ChannelInv, UnbegunOpen
    <2>3. ChannelTypes'
      BY <1>0, <2>1, <2>2 DEF ChannelTypes, TaskStates
    <2>4. SendersHold' /\ BusyHasService'
      BY <2>1 DEF ChannelInv, SendersHold, BusyHasService
    <2>5. MapSound'
      BY <1>0, <2>1, <2>2 DEF ChannelInv, MapSound
    <2>6. UnbegunOpen'
      BY <1>0, <2>1 DEF ChannelInv, UnbegunOpen
    <2>7. QED
      BY <2>3, <2>4, <2>5, <2>6 DEF ChannelInv
  <1>10. ASSUME NEW s \in Search, Cleanup(s) PROVE ChannelInv'
    <2>1. /\ task[s] = "cleanup" /\ task' = [task EXCEPT ![s] = "done"]
          /\ searchingM' = [searchingM EXCEPT ![Of[s]] = None]
          /\ closed' = closed \cup ({searchingM[Of[s]]} \ {None})
          /\ UNCHANGED <<holders, exec, net, book>>
          /\ \A e \in Executor : exec[e].at # "send"
      BY <1>8, <1>10 DEF Cleanup
    <2>2. Of[s] \in Service
      BY NameAssumption
    <2>3. ChannelTypes'
      BY <1>0, <2>1, <2>2 DEF ChannelTypes, TaskStates
    <2>4. SendersHold' /\ BusyHasService'
      BY <2>1 DEF ChannelInv, SendersHold, BusyHasService
    <2>5. MapSound'
      BY <1>0, <2>1, <2>2 DEF ChannelInv, MapSound
    <2>6. UnbegunOpen'
      BY <1>0, <2>1, <2>2 DEF ChannelInv, UnbegunOpen, MapSound
    <2>7. QED
      BY <2>3, <2>4, <2>5, <2>6 DEF ChannelInv
  <1>11. ASSUME NEW s \in Search, NEW asked \in SUBSET Peer, Tick(s, asked) PROVE ChannelInv'
    <2>1. /\ net' = net \cup [type : {"req"}, to : asked, svc : {Of[s]}, known : {book[Of[s]]}]
          /\ UNCHANGED <<searchingM, holders, closed, task, exec, book>>
      BY <1>11 DEF Tick, sendSearchReqToOthers
    <2>2. Of[s] \in Service /\ book[Of[s]] \in SUBSET Peer
      BY <1>0, NameAssumption
    <2>3. [type : {"req"}, to : asked, svc : {Of[s]}, known : {book[Of[s]]}] \subseteq Request
      BY <2>2 DEF Request
    <2>4. QED
      BY <1>0, <2>1, <2>3, ChannelStutter
  <1>12. ASSUME NEW m \in net, NEW infos \in SUBSET Peer, HandleSearchReq(m, infos) PROVE ChannelInv'
    <2>1. m \in Request
      BY <1>0, <1>12 DEF HandleSearchReq, Answer
    <2>2. [type |-> "res", svc |-> m.svc, infos |-> infos] \in Answer
      BY <2>1 DEF Request, Answer
    <2>3. /\ UNCHANGED <<searchingM, holders, closed, task, exec, book>>
          /\ \/ net' = (net \ {m}) \cup {[type |-> "res", svc |-> m.svc, infos |-> infos]}
             \/ net' = net \ {m}
      BY <1>12 DEF HandleSearchReq
    <2>4. net' \in SUBSET (Request \cup Answer)
      BY <1>0, <2>2, <2>3
    <2>5. QED
      BY <1>0, <2>3, <2>4, ChannelStutter
  <1>13. ASSUME NEW e \in Executor, NEW m \in net, HandleSearchRes(e, m) PROVE ChannelInv'
    <2>1. m \in Answer
      BY <1>0, <1>13 DEF HandleSearchRes, Request
    <2>2. net' \in SUBSET (Request \cup Answer)
          /\ UNCHANGED <<searchingM, holders, closed, task, book>>
      BY <1>0, <1>13 DEF HandleSearchRes
    <2>3. CASE exec' = exec
      BY <1>0, <2>2, <2>3, ChannelStutter
    <2>4. CASE exec' # exec
      <3> DEFINE r == [Idle EXCEPT !.at = "item", !.svc = m.svc, !.todo = m.infos]
      <3>1. exec' = [exec EXCEPT ![e] = r]
        BY <1>13, <2>4 DEF HandleSearchRes
      <3>2. r \in ExecStates /\ r.at = "item" /\ r.svc \in Service
        BY <2>1 DEF Answer, Idle, ExecStates
      <3> HIDE DEF r
      <3>3. QED
        BY <2>2, <3>1, <3>2, ChannelExec
    <2>5. QED
      BY <2>3, <2>4
  <1>14. ASSUME NEW e \in Executor, NEW p \in exec[e].todo, CheckInfo(e, p) PROVE ChannelInv'
    <2>1. /\ exec[e].at = "item" /\ exec[e] \in ExecStates /\ exec[e].todo \in SUBSET Peer
          /\ exec[e].svc \in Service /\ p \in Peer
          /\ UNCHANGED <<searchingM, holders, closed, task, net, book>>
      BY <1>0, <1>14 DEF CheckInfo, ExecStates, ChannelInv, BusyHasService
    <2>2. CASE NextInfo(e, exec[e].todo \ {p})
      BY <1>0, <2>1, <2>2, NextInfoState, ChannelExec
    <2>3. CASE exec' = [exec EXCEPT ![e] = [@ EXCEPT !.at = "lock", !.cur = p]]
      <3> DEFINE r == [exec[e] EXCEPT !.at = "lock", !.cur = p]
      <3>1. exec' = [exec EXCEPT ![e] = r]
        BY <1>0, <2>3
      <3>2. r \in ExecStates /\ r.at = "lock" /\ r.svc \in Service
        BY <2>1 DEF ExecStates
      <3> HIDE DEF r
      <3>3. QED
        BY <1>0, <2>1, <3>1, <3>2, ChannelExec
    <2>4. QED
      BY <1>14, <2>2, <2>3 DEF CheckInfo
  \* the channel is found with the lock taken in the same step
  <1>15. ASSUME NEW e \in Executor, FindChannel(e) PROVE ChannelInv'
    <2> DEFINE c == searchingM[exec[e].svc]
    <2>1. /\ exec[e].at = "lock" /\ exec[e] \in ExecStates /\ exec[e].svc \in Service
          /\ UNCHANGED <<searchingM, closed, task, net, book>>
      BY <1>0, <1>15 DEF FindChannel, ChannelInv, BusyHasService
    <2>2. CASE exec' = [exec EXCEPT ![e] = Idle] /\ UNCHANGED holders
      <3>1. Idle \in ExecStates /\ Idle.at = "idle"
        BY DEF Idle, ExecStates
      <3>2. QED
        BY <1>0, <2>1, <2>2, <3>1, ChannelExec
    <2>3. CASE c # None /\ exec' = [exec EXCEPT ![e] = [@ EXCEPT !.at = "send", !.c = c]]
               /\ holders' = holders \cup {e}
      <3> DEFINE r == [exec[e] EXCEPT !.at = "send", !.c = c]
      <3>1. exec' = [exec EXCEPT ![e] = r]
        BY <1>0, <2>3
      <3>2. r \in ExecStates /\ r.at = "send" /\ r.svc = exec[e].svc /\ r.c = c
        BY <1>0, <2>1 DEF ExecStates
      <3> HIDE DEF r
      <3>3. ChannelTypes'
        BY <1>0, <2>1, <2>3, <3>1, <3>2 DEF ChannelTypes
      <3>4. SendersHold'
        BY <1>0, <2>1, <2>3, <3>1, <3>2 DEF ChannelInv, SendersHold
      <3>5. BusyHasService'
        BY <1>0, <2>1, <3>1, <3>2 DEF ChannelInv, BusyHasService
      <3>6. MapSound' /\ UnbegunOpen'
        BY <2>1 DEF ChannelInv, MapSound, UnbegunOpen
      <3>7. QED
        BY <3>3, <3>4, <3>5, <3>6 DEF ChannelInv
    <2>4. QED
      BY <1>15, <2>2, <2>3 DEF FindChannel
  <1>16. ASSUME NEW e \in Executor, SendAddrs(e) PROVE ChannelInv'
    <2>1. /\ exec[e].at = "send" /\ exec[e].todo \ {exec[e].cur} \in SUBSET Peer
          /\ NextInfo(e, exec[e].todo \ {exec[e].cur}) /\ holders' = holders \ {e}
          /\ UNCHANGED <<searchingM, closed, task, net, book>>
      BY <1>0, <1>16 DEF SendAddrs, ExecStates
    <2>2. PICK r \in ExecStates : /\ exec' = [exec EXCEPT ![e] = r] /\ r.at # "send"
                                  /\ r.at # "idle" => r.svc \in Service
      BY <2>1, NextInfoState
    <2>3. QED
      BY <1>0, <2>1, <2>2, ChannelExec
  <1>17. QED
    BY <1>1, <1>2, <1>3, <1>4, <1>5, <1>6, <1>7, <1>9, <1>10, <1>11, <1>12, <1>13,
       <1>14, <1>15, <1>16 DEF Next, TaskStep, ExecStep

LEMMA ChannelAlways == Spec => []ChannelInv
  BY ChannelInit, ChannelStep, PTL DEF Spec

-----------------------------------------------------------------------------
\* handleSearchRes never sends on a channel that searchTask has closed or
\* SearchPeers has replaced, however many searches for one service begin and
\* end at once and whatever order their locks are granted in.
THEOREM NoSendOnClosed == Spec => []ChannelStaysOpen
  <1>1. ChannelInv => ChannelStaysOpen
    BY DEF ChannelInv, SendersHold, MapSound, ChannelStaysOpen
  <1>2. QED
    BY ChannelAlways, <1>1, PTL
=============================================================================
