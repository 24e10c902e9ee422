--------------------------- MODULE GroupMulticast ---------------------------
(***************************************************************************)
(* Sending to a group (service/groupmulticast/group_multicast.go), on top  *)
(* of MessageDelivery: the group is a list, in which a peer may occur more *)
(* than once; a call takes a copy of it, looks at the members one after    *)
(* the other and spawns a goroutine with a SendMsg for each one that is    *)
(* connected.  Errors go into a channel with room for one per member.      *)
(* SendToGroupSync waits for the goroutines, SendToGroupAsync returns the  *)
(* channel.  The goroutine of a position is the task of that number.       *)
(***************************************************************************)
EXTENDS MessageDelivery

CONSTANT MaxGroup    \* bound on the length of the group

ASSUME GroupAssumption == MaxGroup \in Nat /\ Task = 1 .. MaxGroup

VARIABLES
  group,       \* the group's peers
  call,        \* where the call is
  mode,        \* "sync" or "async"
  pg,          \* its copy of the group
  pos,         \* the member it is at
  errorC,      \* how many errors the channel holds
  result       \* what SendToGroupSync has returned

callVars == <<call, mode, pg, pos, errorC, result>>
vars == <<deliveryVars, group, callVars>>

TypeOK ==
  /\ DeliveryTypeOK
  /\ group \in Seq(Peer) /\ Len(group) <= MaxGroup /\ pg \in Seq(Peer)
  /\ call \in {"none", "empty", "loop", "wait", "returned"}
  /\ mode \in {"sync", "async"} /\ pos \in 1 .. MaxGroup + 1
  /\ errorC \in 0 .. MaxGroup /\ result \in {"nil", "error", "none"}

Init ==
  /\ DeliveryInit
  /\ group = << >> /\ call = "none" /\ mode = "sync" /\ pg = << >> /\ pos = 1
  /\ errorC = 0 /\ result = "none"

-----------------------------------------------------------------------------
(* The group, behind mu: a call works on a copy, so that what happens to the
   group after the call has begun is left out *)

AddPeerToGroup(q) ==
  /\ call = "none" /\ Len(group) < MaxGroup
  /\ group' = Append(group, q)
  /\ UNCHANGED <<deliveryVars, callVars>>

\* SliceExcludeAll takes every occurrence out.
RemovePeerFromGroup(q) ==
  /\ call = "none" /\ \E i \in 1 .. Len(group) : group[i] = q
  /\ group' = SelectSeq(group, LAMBDA x : x # q)
  /\ UNCHANGED <<deliveryVars, callVars>>

RemoveGroup ==
  /\ call = "none" /\ group # << >>
  /\ group' = << >>
  /\ UNCHANGED <<deliveryVars, callVars>>

-----------------------------------------------------------------------------
(* SendToGroupSync and SendToGroupAsync *)

\* Without peers the one returns ErrNoPeerInGroup; the other puts it into a
\* channel it has made with no room at all.
SendToGroup(m) ==
  /\ call = "none"
  /\ mode' = m /\ pg' = group
  /\ IF group # << >> THEN call' = "loop" /\ UNCHANGED result
     ELSE IF m = "sync" THEN call' = "returned" /\ result' = "error"
     ELSE call' = "empty" /\ UNCHANGED result
  /\ UNCHANGED <<deliveryVars, group, pos, errorC>>

\* One turn of the loop: a goroutine for a member that is connected
Spawn ==
  /\ call = "loop" /\ pos <= Len(pg)
  /\ task' = [task EXCEPT ![pos] =
       IF Connected(pg[pos]) THEN [NoTask EXCEPT !.at = "check", !.pid = pg[pos]] ELSE @]
  /\ pos' = pos + 1
  /\ UNCHANGED <<hostVars, farVars, stream, sent, wire, group, call, mode, pg, errorC, result>>

LoopEnds ==
  /\ call = "loop" /\ pos > Len(pg)
  /\ call' = IF mode = "sync" THEN "wait" ELSE "returned"
  /\ UNCHANGED <<deliveryVars, group, mode, pg, pos, errorC, result>>

\* Mutant: there is room for one error.
room1 == 1

\* The capacity of errorC
room == Len(pg)

\* The goroutine has its result: an error goes into errorC, then wg.Done.
Report(k) ==
  /\ task[k].at = "returned"
  /\ IF task[k].err = "nil" THEN UNCHANGED errorC
     ELSE errorC < room /\ errorC' = errorC + 1
  /\ task' = [task EXCEPT ![k].at = "done"]
  /\ UNCHANGED <<hostVars, farVars, stream, sent, wire, group, call, mode, pg, pos, result>>

\* Mutant: wg.Add is called by the goroutines.
waitedFor1 == {k \in Task : task[k].at \notin {"none", "check", "done"}}

\* What wg counts
waitedFor == {k \in Task : task[k].at \notin {"none", "done"}}

\* wg.Wait, and the errors are collected.
WaitReturns ==
  /\ call = "wait" /\ waitedFor = {}
  /\ call' = "returned" /\ result' = IF errorC > 0 THEN "error" ELSE "nil"
  /\ UNCHANGED <<deliveryVars, group, mode, pg, pos, errorC>>

-----------------------------------------------------------------------------
GroupStep == Spawn \/ LoopEnds \/ WaitReturns

Next ==
  \/ DeliveryNext /\ UNCHANGED <<group, callVars>>
  \/ \E q \in Peer : AddPeerToGroup(q) \/ RemovePeerFromGroup(q)
  \/ RemoveGroup \/ GroupStep
  \/ \E m \in {"sync", "async"} : SendToGroup(m)
  \/ \E k \in Task : Report(k)

Spec == Init /\ [][Next]_vars

\* Goroutines run, streams are read, unless they are left unread, and pools
\* expand; the rest may not happen.
Quietly(A) == A /\ UNCHANGED <<group, callVars>>
Fairness ==
  /\ WF_vars(GroupStep)
  /\ \A k \in Task : /\ SF_vars(Quietly(SendStep(k))) /\ WF_vars(Report(k))
                     /\ WF_vars(Quietly(Route(k)))
  /\ \A s \in Stream : WF_vars(Quietly(Expand(s)))
  /\ \A s \in Stream \ Unread : WF_vars(Quietly(ReadFrame(s)))

FairSpec == Spec /\ Fairness

-----------------------------------------------------------------------------
(* Properties *)

\* A pool that has lost its last stream makes its borrowers wait until it is
\* closed (a known deviation of SendStreamPool).
Drained(c) == c \in pools /\ Size(c) = {}

\* SendToGroupSync returns, however many of its members fail and however
\* often a peer is in the group: nobody reads errorC while it waits.
SyncReturns ==
  call = "loop" /\ mode = "sync" ~> call = "returned" \/ \E c \in Conn : Drained(c)

\* When SendToGroupSync has returned nil, the frame of every member that was
\* found connected has been written as a whole, unless the network was closed
\* before it returned.
SyncReports ==
  call = "returned" /\ mode = "sync" /\ result = "nil" =>
    \A k \in Task : \/ task[k].at = "none"
                    \/ task[k].at = "done" /\ (k \in sent \/ nwClosed)

-----------------------------------------------------------------------------
(* What the repository says and the code does not do *)

\* MCGroupMulticastClosed.cfg.  core/groupmulticast/group_multicast.go:29: it
\* "waits until all data is successfully sent".  On a closed network SendMsg
\* returns nil for a message it could not write (host.go:457-459).
SyncSends ==
  call = "returned" /\ mode = "sync" /\ result = "nil" =>
    \A k \in Task : task[k].at = "none" \/ k \in sent

\* core/groupmulticast/group_multicast.go:32: SendToGroupAsync "sends data
\* asynchronously to the group without waiting".  It waits for ever if the
\* group is empty.
AsyncReturns == call \in {"empty", "loop"} /\ mode = "async" ~> call = "returned"
=============================================================================
