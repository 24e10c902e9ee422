------------------------ MODULE GroupMulticastProofs ------------------------
(***************************************************************************)
(* What holds of message delivery and of a call of SendToGroupSync for     *)
(* every number of peers, connections, streams and members.                *)
(***************************************************************************)
EXTENDS GroupMulticast, TLAPS

\* The states of a goroutine between its start and wg.Done.
Active == {"check", "pool", "borrow", "write", "giveback", "returned"}

\* The calls of SendMsg; that the receivers are peers does not matter here.
CallsFor(P) ==
  [at : Active \cup {"none", "done"}, pid : P, c : Conn \cup {None},
   s : Stream \cup {None}, err : Results]
TasksIn(P) == task \in [Task -> CallsFor(P)]

Holds(k) == task[k].at \in {"write", "giveback"}

\* A call that works with a stream has it to itself.
Holding == \A k \in Task : Holds(k) => task[k].s \in Stream /\ stream[task[k].s] = "lent"
Alone == \A j, k \in Task : Holds(j) /\ Holds(k) /\ task[j].s = task[k].s => j = k

\* The beginning of a frame is the last of its stream, which is gone or will
\* be dropped by the call that has it.
Doomed(s) == \E k \in Task : /\ task[k].at = "giveback" /\ task[k].s = s
                             /\ task[k].err = "writeFailed"
Halves(s) == \A i \in 1 .. Len(wire[s]) :
               ~wire[s][i].whole => i = Len(wire[s]) /\ (stream[s] = "gone" \/ Doomed(s))

StreamPart ==
  /\ stream \in [Stream -> {"fresh", "idle", "lent", "gone"}]
  /\ wire \in [Stream -> Seq(Frame)]
  /\ Holding /\ Alone /\ \A s \in Stream : Halves(s)

\* The members not yet looked at have no goroutine, an error that was
\* reported is in the channel, and nobody is waited for after the return.
ReportPart ==
  /\ pos \in Nat /\ \A k \in Task : k >= pos => task[k].at = "none"
  /\ errorC \in Nat
  /\ (\E k \in Task : task[k].at = "done" /\ task[k].err # "nil") => errorC > 0
  /\ call = "returned" /\ mode = "sync" /\ result = "nil"
       => errorC = 0 /\ \A k \in Task : task[k].at \in {"none", "done"}

\* A call past its Write that has no error has sent its frame, or did not
\* because the network was closed.
NilIsSent(k) ==
  task[k].at \in {"giveback", "returned", "done"} /\ task[k].err = "nil"
    => k \in sent \/ nwClosed
SentPart == \A k \in Task : NilIsSent(k)

\* The part of the invariant that holds whatever Write does ...
CallInv == (\E P : TasksIn(P)) /\ pools \in SUBSET Conn /\ ReportPart /\ SentPart
\* ... and the one for frames.
GroupInv == CallInv /\ StreamPart

-----------------------------------------------------------------------------
LEMMA InitInv == Init => GroupInv
  <1> SUFFICES ASSUME Init PROVE GroupInv
    OBVIOUS
  <1>1. TasksIn({None}) /\ pools \in SUBSET Conn
    BY DEF Init, DeliveryInit, TasksIn, NoTask, Results, CallsFor
  <1>2. \A k \in Task : task[k].at = "none"
    BY DEF Init, DeliveryInit, NoTask
  <1>3. /\ stream \in [Stream -> {"fresh", "idle", "lent", "gone"}]
        /\ wire \in [Stream -> Seq(Frame)] /\ \A s \in Stream : wire[s] = << >>
    BY DEF Init, DeliveryInit
  <1>4. StreamPart
    BY <1>2, <1>3 DEF StreamPart, Holding, Alone, Halves, Holds
  <1>5. ReportPart
    BY <1>2 DEF Init, ReportPart
  <1>6. SentPart
    BY <1>2 DEF SentPart, NilIsSent
  <1>7. QED
    BY <1>1, <1>4, <1>5, <1>6 DEF GroupInv, CallInv

\* One call goes on.
Moves(k) ==
  /\ task[k].at \in Active /\ task'[k].at \in Active
  /\ \A j \in Task \ {k} : task'[j] = task[j]

LEMMA MovesReport ==
  ASSUME ReportPart, NEW k \in Task, Moves(k), UNCHANGED callVars
  PROVE  ReportPart'
  BY DEF ReportPart, Moves, callVars, Active

\* A step that gives one call the record r.
LEMMA RecordSet ==
  ASSUME NEW P, TasksIn(P), NEW k \in Task, NEW r \in CallsFor(P),
         task' = [task EXCEPT ![k] = r]
  PROVE  /\ TasksIn(P)' /\ task'[k] = r
         /\ \A j \in Task \ {k} : task'[j] = task[j]
  BY DEF TasksIn

\* What each step of a call makes of its record.
LEMMA CheckRecord ==
  ASSUME NEW P, TasksIn(P), NEW k \in Task, SendCheck(k)
  PROVE  /\ task[k].at = "check" /\ task'[k].at \in {"pool", "returned"}
         /\ task'[k].at = "returned" => task'[k].err = "other"
         /\ \A j \in Task \ {k} : task'[j] = task[j]
         /\ TasksIn(P)'
  <1>1. task[k] \in CallsFor(P)
    BY DEF TasksIn
  <1>2. PICK r \in CallsFor(P) : /\ task' = [task EXCEPT ![k] = r]
                                 /\ r.at = "pool" \/ (r.at = "returned" /\ r.err = "other")
    <2>1. [task[k] EXCEPT !.at = "pool"] \in CallsFor(P)
      BY <1>1 DEF CallsFor, Active
    <2>2. [task[k] EXCEPT !.at = "returned", !.err = "other"] \in CallsFor(P)
      BY <1>1 DEF CallsFor, Active, Results
    <2>3. /\ [task[k] EXCEPT !.at = "pool"].at = "pool"
          /\ [task[k] EXCEPT !.at = "returned", !.err = "other"].at = "returned"
          /\ [task[k] EXCEPT !.at = "returned", !.err = "other"].err = "other"
      BY <1>1 DEF CallsFor
    <2>4. \/ task' = [task EXCEPT ![k] = [task[k] EXCEPT !.at = "pool"]]
          \/ task' = [task EXCEPT ![k] = [task[k] EXCEPT !.at = "returned", !.err = "other"]]
      BY DEF SendCheck
    <2>5. QED
      BY <2>1, <2>2, <2>3, <2>4
  <1>3. task[k].at = "check"
    BY DEF SendCheck
  <1>4. TasksIn(P)' /\ task'[k] = r /\ \A j \in Task \ {k} : task'[j] = task[j]
    BY <1>2, RecordSet
  <1>5. QED
    BY <1>2, <1>3, <1>4

LEMMA PoolRecord ==
  ASSUME NEW P, TasksIn(P), pools \in SUBSET Conn, NEW k \in Task, SendPool(k)
  PROVE  /\ task[k].at = "pool" /\ task'[k].at \in {"borrow", "returned"}
         /\ task'[k].at = "returned" => task'[k].err = "other"
         /\ \A j \in Task \ {k} : task'[j] = task[j]
         /\ TasksIn(P)'
  <1>1. task[k] \in CallsFor(P)
    BY DEF TasksIn
  <1>2. PICK r \in CallsFor(P) : /\ task' = [task EXCEPT ![k] = r]
                                 /\ r.at = "borrow" \/ (r.at = "returned" /\ r.err = "other")
    <2>1. /\ [task[k] EXCEPT !.at = "returned", !.err = "other"] \in CallsFor(P)
          /\ [task[k] EXCEPT !.at = "returned", !.err = "other"].at = "returned"
          /\ [task[k] EXCEPT !.at = "returned", !.err = "other"].err = "other"
      BY <1>1 DEF CallsFor, Active, Results
    <2>2. ASSUME NEW c \in Conn
          PROVE  /\ [task[k] EXCEPT !.at = "borrow", !.c = c] \in CallsFor(P)
                 /\ [task[k] EXCEPT !.at = "borrow", !.c = c].at = "borrow"
      BY <1>1 DEF CallsFor, Active
    <2>3. \/ task' = [task EXCEPT ![k] = [task[k] EXCEPT !.at = "returned", !.err = "other"]]
          \/ \E c \in Conn : task' = [task EXCEPT ![k] = [task[k] EXCEPT !.at = "borrow", !.c = c]]
      BY DEF SendPool, Best
    <2>4. QED
      BY <2>1, <2>2, <2>3
  <1>3. task[k].at = "pool"
    BY DEF SendPool
  <1>4. TasksIn(P)' /\ task'[k] = r /\ \A j \in Task \ {k} : task'[j] = task[j]
    BY <1>2, RecordSet
  <1>5. QED
    BY <1>2, <1>3, <1>4

LEMMA BorrowRecord ==
  ASSUME NEW P, TasksIn(P), NEW k \in Task, Borrow(k)
  PROVE  /\ task[k].at = "borrow"
         /\ \/ task'[k].at = "returned" /\ task'[k].err = "other" /\ UNCHANGED stream
            \/ \E s \in Stream : /\ stream[s] = "idle"
                                 /\ stream' = [stream EXCEPT ![s] = "lent"]
                                 /\ task'[k].at = "write" /\ task'[k].s = s
         /\ \A j \in Task \ {k} : task'[j] = task[j]
         /\ TasksIn(P)'
  <1>1. task[k] \in CallsFor(P)
    BY DEF TasksIn
  <1>2. task[k].at = "borrow"
    BY DEF Borrow
  <1>3. CASE task' = [task EXCEPT ![k] = [task[k] EXCEPT !.at = "returned", !.err = "other"]]
             /\ UNCHANGED stream
    <2> DEFINE r == [task[k] EXCEPT !.at = "returned", !.err = "other"]
    <2>1. r \in CallsFor(P) /\ r.at = "returned" /\ r.err = "other"
      BY <1>1 DEF CallsFor, Active, Results
    <2>2. task' = [task EXCEPT ![k] = r]
      BY <1>3
    <2> HIDE DEF r
    <2>3. TasksIn(P)' /\ task'[k] = r /\ \A j \in Task \ {k} : task'[j] = task[j]
      BY <2>1, <2>2, RecordSet
    <2>4. QED
      BY <1>2, <1>3, <2>1, <2>3
  <1>4. ASSUME NEW s \in Stream, stream[s] = "idle", stream' = [stream EXCEPT ![s] = "lent"],
               task' = [task EXCEPT ![k] = [task[k] EXCEPT !.at = "write", !.s = s]]
        PROVE  /\ TasksIn(P)' /\ task'[k].at = "write" /\ task'[k].s = s
               /\ \A j \in Task \ {k} : task'[j] = task[j]
    <2> DEFINE r == [task[k] EXCEPT !.at = "write", !.s = s]
    <2>1. r \in CallsFor(P) /\ r.at = "write" /\ r.s = s
      BY <1>1 DEF CallsFor, Active
    <2>2. task' = [task EXCEPT ![k] = r]
      BY <1>4
    <2> HIDE DEF r
    <2>3. QED
      BY <2>1, <2>2, RecordSet
  <1>5. QED
    BY <1>2, <1>3, <1>4 DEF Borrow, Idle

\* The record of a call whose Write is over.
LEMMA Over ==
  ASSUME NEW P, TasksIn(P), NEW k \in Task, NEW e \in Results,
         task' = [task EXCEPT ![k] = [task[k] EXCEPT !.at = "giveback", !.err = e]]
  PROVE  /\ TasksIn(P)' /\ \A j \in Task \ {k} : task'[j] = task[j]
         /\ task'[k].at = "giveback" /\ task'[k].err = e /\ task'[k].s = task[k].s
  <1>1. task[k] \in CallsFor(P)
    BY DEF TasksIn
  <1> DEFINE r == [task[k] EXCEPT !.at = "giveback", !.err = e]
  <1>2. r \in CallsFor(P) /\ r.at = "giveback" /\ r.err = e /\ r.s = task[k].s
    BY <1>1 DEF CallsFor, Active
  <1>3. task' = [task EXCEPT ![k] = r]
    OBVIOUS
  <1> HIDE DEF r
  <1>4. TasksIn(P)' /\ task'[k] = r /\ \A j \in Task \ {k} : task'[j] = task[j]
    BY <1>2, <1>3, RecordSet
  <1>5. QED
    BY <1>2, <1>3, <1>4

LEMMA WriteRecord ==
  ASSUME NEW P, TasksIn(P), NEW k \in Task, Write(k)
  PROVE  /\ task[k].at = "write" /\ task'[k].at = "giveback" /\ task'[k].s = task[k].s
         /\ \/ UNCHANGED wire
            \/ \E whole \in BOOLEAN :
                 /\ wire' = [wire EXCEPT ![task[k].s] = Append(@, [task |-> k, whole |-> whole])]
                 /\ whole \/ "timeout" \in Faults \/ task'[k].err = "writeFailed"
         /\ task'[k].err = "nil" => k \in sent' \/ nwClosed
         /\ \A j \in Task \ {k} : task'[j] = task[j]
         /\ TasksIn(P)'
  <1>1. task[k].at = "write"
    BY DEF Write
  <1>2. ASSUME NEW whole \in BOOLEAN, NEW e \in Results, Written(k, whole, e)
        PROVE  /\ TasksIn(P)' /\ \A j \in Task \ {k} : task'[j] = task[j]
               /\ task'[k].at = "giveback" /\ task'[k].err = e /\ task'[k].s = task[k].s
               /\ wire' = [wire EXCEPT ![task[k].s] = Append(@, [task |-> k, whole |-> whole])]
               /\ whole => k \in sent'
    BY <1>2, Over DEF Written
  <1>3. CASE Written(k, TRUE, "nil")
    BY <1>1, <1>2, <1>3 DEF Results
  <1>4. CASE Written(k, FALSE, "writeFailed")
    BY <1>1, <1>2, <1>4 DEF Results
  <1>5. CASE Written(k, FALSE, "other") /\ "timeout" \in Faults
    BY <1>1, <1>2, <1>5 DEF Results
  <1>6. CASE /\ task' = [task EXCEPT ![k] =
                  [@ EXCEPT !.at = "giveback", !.err = IF nwClosed THEN "nil" ELSE "other"]]
             /\ UNCHANGED wire
    <2>1. PICK e \in Results :
            /\ task' = [task EXCEPT ![k] = [task[k] EXCEPT !.at = "giveback", !.err = e]]
            /\ e = "nil" => nwClosed
      BY <1>6 DEF Results
    <2>2. /\ TasksIn(P)' /\ \A j \in Task \ {k} : task'[j] = task[j]
          /\ task'[k].at = "giveback" /\ task'[k].err = e /\ task'[k].s = task[k].s
      BY <2>1, Over
    <2>3. QED
      BY <1>1, <1>6, <2>1, <2>2
  <1>7. QED
    BY <1>3, <1>4, <1>5, <1>6 DEF Write

LEMMA GiveBackRecord ==
  ASSUME NEW P, TasksIn(P), NEW k \in Task, GiveBack(k)
  PROVE  /\ task[k].at = "giveback" /\ task'[k].at = "returned" /\ task'[k].err = task[k].err
         /\ \A j \in Task \ {k} : task'[j] = task[j]
         /\ TasksIn(P)'
  <1>1. task[k] \in CallsFor(P)
    BY DEF TasksIn
  <1> DEFINE r == [task[k] EXCEPT !.at = "returned", !.s = None]
  <1>2. r \in CallsFor(P) /\ r.at = "returned" /\ r.err = task[k].err
    BY <1>1 DEF CallsFor, Active
  <1>3. task[k].at = "giveback" /\ task' = [task EXCEPT ![k] = r]
    BY DEF GiveBack
  <1> HIDE DEF r
  <1>4. TasksIn(P)' /\ task'[k] = r /\ \A j \in Task \ {k} : task'[j] = task[j]
    BY <1>2, <1>3, RecordSet
  <1>5. QED
    BY <1>2, <1>3, <1>4

-----------------------------------------------------------------------------
(* The calls and their results *)

LEMMA SendCall ==
  ASSUME NEW P, TasksIn(P), pools \in SUBSET Conn, NEW k \in Task, SendStep(k)
  PROVE  Moves(k) /\ TasksIn(P)'
  <1>1. CASE SendCheck(k)
    BY <1>1, CheckRecord DEF Moves, Active
  <1>2. CASE SendPool(k)
    BY <1>2, PoolRecord DEF Moves, Active
  <1>3. CASE Borrow(k)
    BY <1>3, BorrowRecord DEF Moves, Active
  <1>4. CASE Write(k)
    BY <1>4, WriteRecord DEF Moves, Active
  <1>5. CASE GiveBack(k)
    BY <1>5, GiveBackRecord DEF Moves, Active
  <1>6. QED
    BY <1>1, <1>2, <1>3, <1>4, <1>5 DEF SendStep

\* What has been sent stays sent, and a closed network stays closed.
Grows == sent \subseteq sent' /\ (nwClosed => nwClosed')

\* The steps of MessageDelivery that no call makes.
OtherStep ==
  \/ \E k \in Task : Route(k)
  \/ \E s \in Stream : Expand(s) \/ ReadFrame(s)
  \/ \E q \in Peer : Unregister(q) \/ Learn(q)
  \/ \E c \in Conn : ConnDies(c) \/ ClosingRemove(c) \/ ClosingPool(c)
  \/ NetworkClose

LEMMA OtherCall ==
  ASSUME pools \in SUBSET Conn, OtherStep
  PROVE  UNCHANGED task /\ pools' \in SUBSET Conn /\ Grows
  BY DEF Grows, OtherStep, Route, Expand, ReadFrame, Unregister, Learn, ConnDies, ClosingRemove,
         ClosingPool, NetworkClose, hostVars, farVars

LEMMA SendLeaves ==
  ASSUME NEW k \in Task, SendStep(k)
  PROVE  UNCHANGED pools
  BY DEF SendStep, SendCheck, SendPool, Borrow, Write, GiveBack, hostVars

LEMMA OneSent ==
  ASSUME SentPart, Grows, NEW k \in Task, NilIsSent(k)',
         \A j \in Task \ {k} : task'[j] = task[j]
  PROVE  SentPart'
  <1>1. ASSUME NEW j \in Task \ {k} PROVE NilIsSent(j)'
    BY DEF SentPart, NilIsSent, Grows
  <1>2. QED
    BY <1>1 DEF SentPart

LEMMA SendGrows ==
  ASSUME NEW k \in Task, SendStep(k)
  PROVE  Grows
  <1>1. CASE Write(k)
    <2>1. UNCHANGED nwClosed
      BY <1>1 DEF Write, hostVars
    <2>2. sent' = sent \cup {k} \/ sent' = sent
      BY <1>1 DEF Write, Written
    <2>3. QED
      BY <2>1, <2>2 DEF Grows
  <1>2. CASE SendCheck(k) \/ SendPool(k) \/ Borrow(k) \/ GiveBack(k)
    <2>1. UNCHANGED <<nwClosed, sent>>
      BY <1>2 DEF SendCheck, SendPool, Borrow, GiveBack, hostVars
    <2>2. QED
      BY <2>1 DEF Grows
  <1>3. QED
    BY <1>1, <1>2 DEF SendStep

LEMMA SendSent ==
  ASSUME NEW P, TasksIn(P), pools \in SUBSET Conn, SentPart, NEW k \in Task, SendStep(k)
  PROVE  SentPart'
  <1>0. Grows
    BY SendGrows
  <1>1. CASE SendCheck(k)
    BY <1>0, <1>1, CheckRecord, OneSent DEF NilIsSent
  <1>2. CASE SendPool(k)
    BY <1>0, <1>2, PoolRecord, OneSent DEF NilIsSent
  <1>3. CASE Borrow(k)
    BY <1>0, <1>3, BorrowRecord, OneSent DEF NilIsSent
  <1>4. CASE Write(k)
    BY <1>0, <1>4, WriteRecord, OneSent DEF NilIsSent, Grows
  <1>5. CASE GiveBack(k)
    <2>1. NilIsSent(k)
      BY DEF SentPart
    <2>2. NilIsSent(k)'
      BY <1>0, <1>5, <2>1, GiveBackRecord DEF NilIsSent, Grows
    <2>3. QED
      BY <1>0, <1>5, <2>2, GiveBackRecord, OneSent
  <1>6. QED
    BY <1>1, <1>2, <1>3, <1>4, <1>5 DEF SendStep

LEMMA SameSent ==
  ASSUME SentPart, UNCHANGED deliveryVars
  PROVE  SentPart'
  BY DEF SentPart, NilIsSent, deliveryVars, hostVars

LEMMA SameTasks ==
  ASSUME CallInv, UNCHANGED <<task, callVars>>, pools' \in SUBSET Conn, Grows
  PROVE  CallInv'
  <1>1. SentPart'
    BY DEF CallInv, SentPart, NilIsSent, Grows
  <1>2. QED
    BY <1>1 DEF CallInv, TasksIn, ReportPart, callVars

\* A goroutine is started for a member not yet looked at.
LEMMA SpawnCall ==
  ASSUME NEW P, TasksIn(P), ReportPart, Spawn
  PROVE  /\ (\E Q : TasksIn(Q)') /\ ReportPart'
         /\ \A k \in Task : task'[k] = task[k] \/ (task[k].at = "none" /\ task'[k].at = "check")
  <1> DEFINE Q == P \cup {None, pg[pos]}
             r == [NoTask EXCEPT !.at = "check", !.pid = pg[pos]]
  <1>1. r \in CallsFor(Q) /\ r.at = "check"
    BY DEF NoTask, CallsFor, Active, Results
  <1>2. task \in [Task -> CallsFor(Q)]
    BY DEF TasksIn, CallsFor
  <1>3. task' = [task EXCEPT ![pos] = r] \/ task' = [task EXCEPT ![pos] = task[pos]]
    BY DEF Spawn
  <1> HIDE DEF r, Q
  <1>4. task' \in [Task -> CallsFor(Q)]
    BY <1>1, <1>2, <1>3
  <1>5. \A k \in Task : task'[k] = task[k] \/ (k = pos /\ task'[k].at = "check")
    BY <1>1, <1>2, <1>3
  <1>6. \A k \in Task : task'[k] = task[k] \/ (task[k].at = "none" /\ task'[k].at = "check")
    BY <1>5, GroupAssumption DEF ReportPart
  <1>7. pos' = pos + 1 /\ call = "loop" /\ UNCHANGED <<call, mode, errorC, result>>
    BY DEF Spawn
  <1>8. pos' \in Nat /\ \A k \in Task : k >= pos' => task'[k].at = "none"
    BY <1>5, <1>7, GroupAssumption DEF ReportPart
  <1>9. ReportPart'
    BY <1>6, <1>7, <1>8 DEF ReportPart
  <1>10. \E R : task' \in [Task -> CallsFor(R)]
    BY <1>4
  <1>11. QED
    BY <1>6, <1>9, <1>10 DEF TasksIn

\* Its result is put into the channel before it is counted as done.
LEMMA ReportCall ==
  ASSUME NEW P, TasksIn(P), ReportPart, NEW k \in Task, Report(k)
  PROVE  /\ TasksIn(P)' /\ ReportPart'
         /\ task[k].at = "returned" /\ task'[k].at = "done" /\ task'[k].err = task[k].err
         /\ \A j \in Task \ {k} : task'[j] = task[j]
  <1>1. task[k] \in CallsFor(P) /\ task \in [Task -> CallsFor(P)]
    BY DEF TasksIn
  <1> DEFINE r == [task[k] EXCEPT !.at = "done"]
  <1>2. r \in CallsFor(P) /\ r.at = "done" /\ r.err = task[k].err
    BY <1>1 DEF CallsFor
  <1>3. task[k].at = "returned" /\ task' = [task EXCEPT ![k] = r]
    BY <1>1 DEF Report
  <1> HIDE DEF r
  <1>4. /\ TasksIn(P)' /\ task'[k].at = "done" /\ task'[k].err = task[k].err
        /\ \A j \in Task \ {k} : task'[j] = task[j]
    BY <1>2, <1>3, RecordSet
  <1>5. errorC' \in Nat /\ errorC' >= errorC /\ (task[k].err # "nil" => errorC' > 0)
    BY DEF Report, ReportPart
  <1>6. UNCHANGED <<call, mode, pos, result>>
    BY DEF Report
  <1>7. pos' \in Nat /\ \A j \in Task : j >= pos' => task'[j].at = "none"
    BY <1>3, <1>4, <1>6 DEF ReportPart
  <1>8. (\E j \in Task : task'[j].at = "done" /\ task'[j].err # "nil") => errorC' > 0
    BY <1>4, <1>5 DEF ReportPart
  <1>9. ~(call = "returned" /\ mode = "sync" /\ result = "nil")
    BY <1>3 DEF ReportPart
  <1>10. ReportPart'
    BY <1>5, <1>6, <1>7, <1>8, <1>9 DEF ReportPart
  <1>11. QED
    BY <1>3, <1>4, <1>10

LEMMA CallStep == CallInv /\ [Next]_vars => CallInv'
  <1> SUFFICES ASSUME CallInv, [Next]_vars PROVE CallInv'
    OBVIOUS
  <1>0. PICK P : TasksIn(P)
    BY DEF CallInv
  <1>1. ASSUME NEW k \in Task, SendStep(k), UNCHANGED callVars PROVE CallInv'
    <2>1. Moves(k) /\ TasksIn(P)' /\ UNCHANGED pools
      BY <1>0, <1>1, SendCall, SendLeaves DEF CallInv
    <2>2. SentPart'
      BY <1>0, <1>1, SendSent DEF CallInv
    <2>3. QED
      BY <1>1, <2>1, <2>2, MovesReport DEF CallInv
  <1>2. ASSUME OtherStep, UNCHANGED callVars PROVE CallInv'
    BY <1>2, OtherCall, SameTasks DEF CallInv
  <1>3. ASSUME UNCHANGED <<deliveryVars, callVars>> PROVE CallInv'
    BY <1>3, SameTasks DEF CallInv, Grows, deliveryVars, hostVars
  <1>4. ASSUME NEW m \in {"sync", "async"}, SendToGroup(m) PROVE CallInv'
    BY <1>0, <1>4, SameSent DEF SendToGroup, CallInv, TasksIn, ReportPart, deliveryVars, hostVars
  <1>5. CASE Spawn
    <2>1. UNCHANGED pools /\ Grows
      BY <1>5 DEF Spawn, hostVars, Grows
    <2>2. \A k \in Task : task'[k] = task[k] \/ task'[k].at = "check"
      BY <1>0, <1>5, SpawnCall DEF CallInv
    <2>3. SentPart'
      BY <2>1, <2>2 DEF CallInv, SentPart, NilIsSent, Grows
    <2>4. QED
      BY <1>0, <1>5, <2>1, <2>3, SpawnCall DEF CallInv
  <1>6. CASE LoopEnds
    BY <1>0, <1>6, SameSent DEF LoopEnds, CallInv, TasksIn, ReportPart, deliveryVars, hostVars
  <1>7. CASE WaitReturns
    BY <1>0, <1>7, SameSent DEF WaitReturns, waitedFor, CallInv, TasksIn, ReportPart, deliveryVars,
       hostVars
  <1>8. ASSUME NEW k \in Task, Report(k) PROVE CallInv'
    <2>1. UNCHANGED pools /\ Grows
      BY <1>8 DEF Report, hostVars, Grows
    <2>2. NilIsSent(k) /\ SentPart
      BY DEF CallInv, SentPart
    <2>3. NilIsSent(k)'
      BY <1>0, <1>8, <2>1, <2>2, ReportCall DEF CallInv, NilIsSent, Grows
    <2>4. SentPart'
      BY <1>0, <1>8, <2>1, <2>2, <2>3, ReportCall, OneSent DEF CallInv
    <2>5. QED
      BY <1>0, <1>8, <2>1, <2>4, ReportCall DEF CallInv
  <1>9. CASE DeliveryNext /\ UNCHANGED <<group, callVars>>
    BY <1>1, <1>2, <1>9 DEF DeliveryNext, OtherStep
  <1>10. ASSUME NEW q \in Peer, AddPeerToGroup(q) \/ RemovePeerFromGroup(q) PROVE CallInv'
    BY <1>3, <1>10 DEF AddPeerToGroup, RemovePeerFromGroup
  <1>11. CASE RemoveGroup
    BY <1>3, <1>11 DEF RemoveGroup
  <1>12. CASE UNCHANGED vars
    BY <1>3, <1>12 DEF vars
  <1>13. QED
    BY <1>4, <1>5, <1>6, <1>7, <1>8, <1>9, <1>10, <1>11, <1>12 DEF Next, GroupStep

\* When SendToGroupSync has returned nil, every goroutine it started has
\* written its frame as a whole, or the network is closed: an error is in the
\* channel before its goroutine is done, and only a closed network lets SendMsg
\* report an unsent message as nil.
THEOREM SyncReportsHolds == Spec => []SyncReports
  <1>1. Init => CallInv
    BY InitInv DEF GroupInv
  <1>2. CallInv => SyncReports
    <2> SUFFICES ASSUME CallInv, call = "returned", mode = "sync", result = "nil",
                        NEW k \in Task
                 PROVE  task[k].at = "none" \/ (task[k].at = "done" /\ (k \in sent \/ nwClosed))
      BY DEF SyncReports
    <2>1. errorC = 0 /\ task[k].at \in {"none", "done"}
      BY DEF CallInv, ReportPart
    <2>2. task[k].at = "done" => task[k].err = "nil"
      BY <2>1 DEF CallInv, ReportPart
    <2>3. QED
      BY <2>1, <2>2 DEF CallInv, SentPart, NilIsSent
  <1>3. QED
    BY <1>1, <1>2, CallStep, PTL DEF Spec

-----------------------------------------------------------------------------
(* The frames of a stream *)

\* Steps of calls that do not work with a stream.
LEMMA NotHolding ==
  ASSUME StreamPart, UNCHANGED <<stream, wire>>,
         \A k \in Task : task'[k] = task[k] \/ (~Holds(k) /\ ~Holds(k)')
  PROVE  StreamPart'
  <1>1. \A k \in Task : Holds(k) \/ Holds(k)' => task'[k] = task[k]
    OBVIOUS
  <1>2. Holding' /\ Alone'
    BY <1>1 DEF StreamPart, Holding, Alone, Holds
  <1>3. \A s \in Stream : Doomed(s) => Doomed(s)'
    BY <1>1 DEF Doomed, Holds
  <1>4. \A s \in Stream : Halves(s)'
    BY <1>3 DEF StreamPart, Halves
  <1>5. QED
    BY <1>2, <1>4 DEF StreamPart

\* A stream that was idle is nobody's, so the borrower has it to itself.
LEMMA BorrowFrames ==
  ASSUME StreamPart, NEW k \in Task, NEW s \in Stream, stream[s] = "idle",
         stream' = [stream EXCEPT ![s] = "lent"], UNCHANGED wire,
         task[k].at = "borrow", task'[k].at = "write", task'[k].s = s,
         \A j \in Task \ {k} : task'[j] = task[j]
  PROVE  StreamPart'
  <1>1. /\ stream' \in [Stream -> {"fresh", "idle", "lent", "gone"}] /\ stream'[s] = "lent"
        /\ \A t \in Stream \ {s} : stream'[t] = stream[t]
    BY DEF StreamPart
  <1>2. \A j \in Task \ {k} : Holds(j)' => Holds(j) /\ task'[j].s \in Stream \ {s}
    BY DEF Holds, StreamPart, Holding
  <1>3. Holds(k)' /\ ~Holds(k)
    BY DEF Holds
  <1>4. Holding'
    BY <1>1, <1>2, <1>3 DEF StreamPart, Holding
  <1>5. Alone'
    BY <1>2, <1>3 DEF StreamPart, Alone
  <1>6. \A t \in Stream : Doomed(t) => Doomed(t)'
    BY DEF Doomed
  <1>7. \A t \in Stream : stream[t] = "gone" => stream'[t] = "gone"
    BY <1>1
  <1>8. \A t \in Stream : Halves(t)'
    BY <1>6, <1>7 DEF StreamPart, Halves
  <1>9. QED
    BY <1>1, <1>4, <1>5, <1>8 DEF StreamPart

\* A call at Write finds whole frames only, as the stream is not doomed.
LEMMA WholeSoFar ==
  ASSUME StreamPart, NEW k \in Task, task[k].at = "write"
  PROVE  /\ task[k].s \in Stream /\ ~Doomed(task[k].s)
         /\ \A i \in 1 .. Len(wire[task[k].s]) : wire[task[k].s][i].whole
  <1>1. Holds(k) /\ task[k].s \in Stream /\ stream[task[k].s] = "lent"
    BY DEF StreamPart, Holding, Holds
  <1>2. ~Doomed(task[k].s)
    BY <1>1 DEF Doomed, StreamPart, Alone, Holds
  <1>3. QED
    BY <1>1, <1>2 DEF StreamPart, Halves

LEMMA WriteFrames ==
  ASSUME StreamPart, NEW k \in Task, task[k].at = "write", UNCHANGED stream,
         task'[k].at = "giveback", task'[k].s = task[k].s,
         \A j \in Task \ {k} : task'[j] = task[j],
         \/ UNCHANGED wire
         \/ \E whole \in BOOLEAN :
              /\ wire' = [wire EXCEPT ![task[k].s] = Append(@, [task |-> k, whole |-> whole])]
              /\ whole \/ task'[k].err = "writeFailed"
  PROVE  StreamPart'
  <1>1. \A j \in Task : (Holds(j)' <=> Holds(j)) /\ task'[j].s = task[j].s
    BY DEF Holds
  <1>2. Holding' /\ Alone'
    BY <1>1 DEF StreamPart, Holding, Alone
  <1>3. \A t \in Stream : Doomed(t) => Doomed(t)'
    BY DEF Doomed
  <1>4. CASE UNCHANGED wire
    <2>1. \A t \in Stream : Halves(t)'
      BY <1>3, <1>4 DEF StreamPart, Halves
    <2>2. QED
      BY <1>2, <1>4, <2>1 DEF StreamPart
  <1>5. ASSUME NEW whole \in BOOLEAN,
               wire' = [wire EXCEPT ![task[k].s] = Append(@, [task |-> k, whole |-> whole])],
               whole \/ task'[k].err = "writeFailed"
        PROVE  StreamPart'
    <2>1. PICK s \in Stream : s = task[k].s
      BY WholeSoFar
    <2>2. \A i \in 1 .. Len(wire[s]) : wire[s][i].whole
      BY <2>1, WholeSoFar
    <2>3. PICK f \in Frame : f = [task |-> k, whole |-> whole]
      BY DEF Frame
    <2>4. f.whole = whole
      BY <2>3
    <2>5. wire' = [wire EXCEPT ![s] = Append(wire[s], f)] /\ wire[s] \in Seq(Frame)
      BY <1>5, <2>1, <2>3 DEF StreamPart
    <2>6. /\ wire' \in [Stream -> Seq(Frame)] /\ wire'[s] = Append(wire[s], f)
          /\ \A t \in Stream \ {s} : wire'[t] = wire[t]
      BY <2>5 DEF StreamPart
    <2>7. Halves(s)'
      <3>1. ASSUME NEW i \in 1 .. Len(wire'[s]), ~wire'[s][i].whole
            PROVE  i = Len(wire'[s]) /\ Doomed(s)'
        <4>1. /\ Len(wire'[s]) = Len(wire[s]) + 1 /\ wire'[s][Len(wire[s]) + 1] = f
              /\ \A m \in 1 .. Len(wire[s]) : wire'[s][m] = wire[s][m]
          BY <2>5, <2>6
        <4>2. i = Len(wire'[s])
          BY <2>2, <2>5, <3>1, <4>1
        <4>3. ~whole
          BY <2>4, <3>1, <4>1, <4>2
        <4>4. QED
          BY <1>5, <2>1, <4>2, <4>3 DEF Doomed
      <3>2. QED
        BY <3>1 DEF Halves
    <2>8. \A t \in Stream \ {s} : Halves(t)'
      BY <1>3, <2>6 DEF StreamPart, Halves
    <2>9. QED
      BY <1>2, <2>6, <2>7, <2>8 DEF StreamPart
  <1>6. QED
    BY <1>4, <1>5

\* The stream of a frame cut short is dropped, any other is returned.
LEMMA GiveBackFrames ==
  ASSUME StreamPart, NEW k \in Task, GiveBack(k), task'[k].at = "returned",
         \A j \in Task \ {k} : task'[j] = task[j]
  PROVE  StreamPart'
  <1>1. PICK s \in Stream : s = task[k].s /\ Holds(k) /\ stream[s] = "lent"
    BY DEF GiveBack, StreamPart, Holding, Holds
  <1>2. PICK x \in {"idle", "gone"} : /\ stream' = [stream EXCEPT ![s] = x]
                                      /\ task[k].err = "writeFailed" => x = "gone"
    BY <1>1 DEF GiveBack
  <1>3. /\ stream' \in [Stream -> {"fresh", "idle", "lent", "gone"}] /\ stream'[s] = x
        /\ \A t \in Stream \ {s} : stream'[t] = stream[t]
    <2>1. /\ stream \in [Stream -> {"fresh", "idle", "lent", "gone"}]
          /\ x \in {"fresh", "idle", "lent", "gone"}
      BY <1>2 DEF StreamPart
    <2>2. QED
      BY <1>2, <2>1
  <1>4. \A j \in Task \ {k} : Holds(j)' => Holds(j) /\ task'[j].s = task[j].s /\ task[j].s # s
    BY <1>1 DEF Holds, StreamPart, Alone
  <1>5. ~Holds(k)'
    BY DEF Holds
  <1>6. Holding' /\ Alone'
    <2>1. Holding /\ Alone
      BY DEF StreamPart
    <2>2. Holding'
      BY <1>3, <1>4, <1>5, <2>1 DEF Holding
    <2>3. Alone'
      BY <1>4, <1>5, <2>1 DEF Alone
    <2>4. QED
      BY <2>2, <2>3
  <1>7. UNCHANGED wire
    BY DEF GiveBack
  <1>8. ASSUME NEW t \in Stream \ {s} PROVE Halves(t)'
    <2>1. Doomed(t) => Doomed(t)'
      BY <1>1 DEF Doomed
    <2>2. QED
      BY <1>3, <1>7, <2>1 DEF StreamPart, Halves
  <1>9. Halves(s)'
    <2>1. Doomed(s) => x = "gone"
      <3>1. SUFFICES ASSUME NEW j \in Task, task[j].at = "giveback", task[j].s = s,
                            task[j].err = "writeFailed"
                     PROVE  x = "gone"
        BY DEF Doomed
      <3>2. Holds(j) /\ Alone
        BY <3>1 DEF Holds, StreamPart
      <3>3. j = k
        BY <1>1, <3>1, <3>2 DEF Alone
      <3>4. QED
        BY <1>2, <3>1, <3>3
    <2>2. Halves(s)
      BY DEF StreamPart
    <2>3. QED
      BY <1>1, <1>3, <1>7, <2>1, <2>2 DEF Halves
  <1>10. QED
    BY <1>3, <1>6, <1>7, <1>8, <1>9 DEF StreamPart

LEMMA ExpandFrames ==
  ASSUME StreamPart, NEW s \in Stream, Expand(s)
  PROVE  StreamPart'
  <1>1. stream[s] = "fresh" /\ stream' = [stream EXCEPT ![s] = "idle"] /\ UNCHANGED <<task, wire>>
    BY DEF Expand
  <1>2. stream \in [Stream -> {"fresh", "idle", "lent", "gone"}] /\ Holding /\ Alone
    BY DEF StreamPart
  <1>3. /\ stream' \in [Stream -> {"fresh", "idle", "lent", "gone"}]
        /\ \A t \in Stream : stream[t] \in {"lent", "gone"} => stream'[t] = stream[t]
    BY <1>1, <1>2
  <1>4. Holding' /\ Alone'
    BY <1>1, <1>2, <1>3 DEF Holding, Alone, Holds
  <1>5. \A t \in Stream : Halves(t)'
    BY <1>1, <1>3 DEF StreamPart, Halves, Doomed
  <1>6. QED
    BY <1>1, <1>3, <1>4, <1>5 DEF StreamPart

\* The beginning of a frame is the last of its stream and stays unread.
LEMMA ReadFrames ==
  ASSUME StreamPart, NEW s \in Stream, ReadFrame(s)
  PROVE  StreamPart'
  <1>1. wire[s] \in Seq(Frame) /\ wire[s] # << >> /\ Halves(s)
    BY DEF StreamPart, ReadFrame
  <1>2. wire[s][1].whole \/ Len(wire[s]) <= 1
    BY <1>1 DEF Halves
  <1>3. wire' = [wire EXCEPT ![s] = Tail(wire[s])] /\ UNCHANGED <<stream, task>>
    BY <1>1, <1>2 DEF ReadFrame
  <1>4. /\ wire' \in [Stream -> Seq(Frame)] /\ wire'[s] = Tail(wire[s])
        /\ \A t \in Stream \ {s} : wire'[t] = wire[t]
    BY <1>1, <1>3 DEF StreamPart
  <1>5. /\ Len(wire'[s]) = Len(wire[s]) - 1
        /\ \A i \in 1 .. Len(wire'[s]) : wire'[s][i] = wire[s][i + 1]
    BY <1>1, <1>4
  <1>6. Holding' /\ Alone'
    BY <1>3 DEF StreamPart, Holding, Alone, Holds
  <1>7. Halves(s)'
    <2>1. ASSUME NEW i \in 1 .. Len(wire'[s]), ~wire'[s][i].whole
          PROVE  i = Len(wire'[s]) /\ (stream'[s] = "gone" \/ Doomed(s)')
      <3>1. i + 1 \in 1 .. Len(wire[s]) /\ ~wire[s][i + 1].whole
        BY <1>1, <1>5, <2>1
      <3>2. i + 1 = Len(wire[s]) /\ (stream[s] = "gone" \/ Doomed(s))
        BY <1>1, <3>1 DEF Halves
      <3>3. QED
        BY <1>1, <1>3, <1>5, <3>2 DEF Doomed
    <2>2. QED
      BY <2>1 DEF Halves
  <1>8. \A t \in Stream \ {s} : Halves(t)'
    BY <1>3, <1>4 DEF StreamPart, Halves, Doomed
  <1>9. QED
    BY <1>3, <1>4, <1>6, <1>7, <1>8 DEF StreamPart

LEMMA SameFrames ==
  ASSUME StreamPart, UNCHANGED <<stream, task, wire>>
  PROVE  StreamPart'
  BY NotHolding

LEMMA SendFrames ==
  ASSUME "timeout" \notin Faults, CallInv, StreamPart, NEW k \in Task, SendStep(k)
  PROVE  StreamPart'
  <1>0. PICK P : TasksIn(P)
    BY DEF CallInv
  <1>1. CASE SendCheck(k)
    <2>1. UNCHANGED <<stream, wire>>
      BY <1>1 DEF SendCheck
    <2>2. QED
      BY <1>0, <1>1, <2>1, CheckRecord, NotHolding DEF Holds
  <1>2. CASE SendPool(k)
    <2>1. UNCHANGED <<stream, wire>> /\ pools \in SUBSET Conn
      BY <1>2 DEF SendPool, CallInv
    <2>2. QED
      BY <1>0, <1>2, <2>1, PoolRecord, NotHolding DEF Holds
  <1>3. CASE Borrow(k)
    <2>1. UNCHANGED wire
      BY <1>3 DEF Borrow
    <2>2. CASE task'[k].at = "returned" /\ UNCHANGED stream
      BY <1>0, <1>3, <2>1, <2>2, BorrowRecord, NotHolding DEF Holds
    <2>3. QED
      BY <1>0, <1>3, <2>1, <2>2, BorrowRecord, BorrowFrames
  <1>4. CASE Write(k)
    <2>1. UNCHANGED stream
      BY <1>4 DEF Write
    <2>2. QED
      BY <1>0, <1>4, <2>1, WriteRecord, WriteFrames
  <1>5. CASE GiveBack(k)
    BY <1>0, <1>5, GiveBackRecord, GiveBackFrames
  <1>6. QED
    BY <1>1, <1>2, <1>3, <1>4, <1>5 DEF SendStep

LEMMA OtherFrames ==
  ASSUME StreamPart, OtherStep
  PROVE  StreamPart'
  <1>1. CASE \E s \in Stream : Expand(s) \/ ReadFrame(s)
    BY <1>1, ExpandFrames, ReadFrames
  <1>2. CASE UNCHANGED <<stream, task, wire>>
    BY <1>2, SameFrames
  <1>3. QED
    BY <1>1, <1>2 DEF OtherStep, Route, Unregister, Learn, ConnDies, ClosingRemove, ClosingPool,
       NetworkClose

LEMMA StreamStep ==
  ASSUME "timeout" \notin Faults, CallInv, StreamPart, [Next]_vars
  PROVE  StreamPart'
  <1>0. PICK P : TasksIn(P)
    BY DEF CallInv
  <1>1. CASE DeliveryNext /\ UNCHANGED <<group, callVars>>
    BY <1>1, SendFrames, OtherFrames DEF DeliveryNext, OtherStep
  <1>2. CASE UNCHANGED deliveryVars
    BY <1>2, SameFrames DEF deliveryVars
  <1>3. CASE Spawn
    <2>1. UNCHANGED <<stream, wire>>
      BY <1>3 DEF Spawn
    <2>2. QED
      BY <1>0, <1>3, <2>1, SpawnCall, NotHolding DEF Holds, CallInv
  <1>4. ASSUME NEW k \in Task, Report(k) PROVE StreamPart'
    <2>1. UNCHANGED <<stream, wire>>
      BY <1>4 DEF Report
    <2>2. QED
      BY <1>0, <1>4, <2>1, ReportCall, NotHolding DEF Holds, CallInv
  <1>5. QED
    BY <1>1, <1>2, <1>3, <1>4 DEF Next, GroupStep, LoopEnds, WaitReturns, SendToGroup,
       AddPeerToGroup, RemovePeerFromGroup, RemoveGroup, vars

\* If Write fails only with the errors SendMsg drops the stream for, the
\* beginning of a frame is the last thing on its stream: SendMsg's deferred
\* DropStream comes before anybody else can borrow it.
THEOREM FramesWholeHolds == "timeout" \notin Faults => (Spec => []FramesWhole)
  <1> SUFFICES ASSUME "timeout" \notin Faults PROVE Spec => []FramesWhole
    OBVIOUS
  <1>1. Init => GroupInv
    BY InitInv
  <1>2. GroupInv /\ [Next]_vars => GroupInv'
    BY CallStep, StreamStep DEF GroupInv
  <1>3. GroupInv => FramesWhole
    <2> SUFFICES ASSUME GroupInv, NEW s \in Stream, NEW i \in 1 .. Len(wire[s]),
                        ~wire[s][i].whole
                 PROVE  i = Len(wire[s]) /\ stream[s] \in {"lent", "gone"}
      BY DEF FramesWhole
    <2>1. i = Len(wire[s]) /\ (stream[s] = "gone" \/ Doomed(s))
      BY DEF GroupInv, StreamPart, Halves
    <2>2. Doomed(s) => stream[s] = "lent"
      BY DEF GroupInv, StreamPart, Doomed, Holding, Holds
    <2>3. QED
      BY <2>1, <2>2
  <1>4. QED
    BY <1>1, <1>2, <1>3, PTL DEF Spec
=============================================================================
