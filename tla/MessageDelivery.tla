-------------------------- MODULE MessageDelivery ---------------------------
(***************************************************************************)
(* A message from Host.SendMsg to the handler at the other host: SendMsg   *)
(* (host.go) over the send-stream-pool manager, the frame it writes, the   *)
(* receiveStreamHandlerLoop that takes frames from a stream, and the       *)
(* pipeline that finds the handler and calls it                            *)
(* (host_handle_msg_pipeline.go).                                          *)
(*                                                                         *)
(* Each call of SendMsg is a Task and its message bears the task's name.   *)
(* The pool of a connection is what SendStreamPool does, seen from outside:*)
(* a stream is idle, lent, not yet opened or gone.  A frame is a length    *)
(* and that many bytes: of a frame of which only the beginning was         *)
(* written, the reader takes the rest from whatever follows.  Every        *)
(* connection is served at both ends, but some of its streams may be left  *)
(* unread: one that the other end reuses while its accept loop waits for a *)
(* new one (network/tcp/stream.go), or that is over its quota (host.go,    *)
(* handleReceiveStream).                                                   *)
(***************************************************************************)
EXTENDS Integers, Sequences, FiniteSets

CONSTANTS
  Peer, Conn, Owner,   \* connections and their remote peers
  Stream, On,          \* streams and their connections
  Opened,              \* streams InitStreams opens
  Unread,              \* streams the receiver may leave unread
  Task,
  Mortal,              \* connections that may die
  Faults,              \* subset of {"error", "timeout"}: how Write may fail
  None

ASSUME DeliveryAssumption ==
  /\ Owner \in [Conn -> Peer] /\ On \in [Stream -> Conn] /\ Opened \subseteq Stream
  /\ Unread \subseteq Stream
  /\ Mortal \subseteq Conn
  /\ Faults \subseteq {"error", "timeout"} /\ None \notin Conn \cup Stream

VARIABLES
  conns,       \* connections in the connection manager
  pools,       \* connections with a pool in the pool manager
  dead,        \* connections that are closed
  nwClosed,    \* the network is closed
  book,        \* peers the protocol book has for the protocol
  handlers,    \* peers that have a handler for it
  stream,      \* state of each stream
  task,        \* where each call of SendMsg is
  sent,        \* tasks whose frame has been written as a whole
  wire,        \* frames written to a stream and not yet read
  garbled,     \* streams whose reader has lost the beginning of frames
  job          \* how far the message of a task has come at the receiver

hostVars == <<conns, pools, dead, nwClosed, book>>
farVars == <<handlers, garbled, job>>
deliveryVars == <<hostVars, farVars, stream, task, sent, wire>>

Results == {"nil", "writeFailed", "other"}
\* A call: where it is, its receiver, pool and stream, and its result.
TaskStates ==
  [at : {"none", "check", "pool", "borrow", "write", "giveback", "returned", "done"},
   pid : Peer \cup {None}, c : Conn \cup {None}, s : Stream \cup {None}, err : Results]
NoTask == [at |-> "none", pid |-> None, c |-> None, s |-> None, err |-> "nil"]
Frame == [task : Task, whole : BOOLEAN]

DeliveryTypeOK ==
  /\ conns \in SUBSET Conn /\ pools \in SUBSET Conn /\ dead \in SUBSET Conn
  /\ nwClosed \in BOOLEAN /\ book \in SUBSET Peer /\ handlers \in SUBSET Peer
  /\ stream \in [Stream -> {"fresh", "idle", "lent", "gone"}]
  /\ task \in [Task -> TaskStates] /\ sent \in SUBSET Task
  /\ \A s \in Stream : wire[s] \in Seq(Frame)
  /\ garbled \in SUBSET Stream
  /\ job \in [Task -> {"none", "read", "handled", "dropped"}]

\* Every peer is connected and supports the protocol.
DeliveryInit ==
  /\ conns = Conn /\ pools = Conn /\ dead = {} /\ nwClosed = FALSE
  /\ book = {Owner[c] : c \in Conn} /\ handlers = {Owner[c] : c \in Conn}
  /\ stream = [s \in Stream |-> IF s \in Opened THEN "idle" ELSE "fresh"]
  /\ task = [k \in Task |-> NoTask] /\ sent = {}
  /\ wire = [s \in Stream |-> << >>] /\ garbled = {}
  /\ job = [k \in Task |-> "none"]

-----------------------------------------------------------------------------
(* SendMsg *)

Connected(q) == \E c \in conns : Owner[c] = q

Idle(c) == {s \in Stream : On[s] = c /\ stream[s] = "idle"}
Size(c) == {s \in Stream : On[s] = c /\ stream[s] \in {"idle", "lent"}}
\* currentSize has reached maxSize: what was dropped does not count.
Full(c) == \A s \in Stream : On[s] = c => s \in Size(c)

\* Connected and SupportedByPeer
SendCheck(k) ==
  /\ task[k].at = "check"
  /\ task' = [task EXCEPT ![k] =
       IF Connected(@.pid) /\ @.pid \in book THEN [@ EXCEPT !.at = "pool"]
       ELSE [@ EXCEPT !.at = "returned", !.err = "other"]]
  /\ UNCHANGED <<hostVars, farVars, stream, sent, wire>>

\* GetPeerBestConnSendStreamPool: of the peer's pools one with the most idle
\* streams, even if that is none.
Best(q) ==
  {c \in pools : /\ Owner[c] = q
                 /\ \A d \in pools : Owner[d] = q => Cardinality(Idle(d)) <= Cardinality(Idle(c))}

SendPool(k) ==
  /\ task[k].at = "pool"
  /\ \/ /\ Best(task[k].pid) = {}
        /\ task' = [task EXCEPT ![k] = [@ EXCEPT !.at = "returned", !.err = "other"]]
     \/ \E c \in Best(task[k].pid) :
          task' = [task EXCEPT ![k] = [@ EXCEPT !.at = "borrow", !.c = c]]
  /\ UNCHANGED <<hostVars, farVars, stream, sent, wire>>

\* BorrowStream: a stream, or an error if the pool is closed, or if it is full
\* and nothing is idle; otherwise it waits.  The pool of a dead connection may
\* also have been closed by its expandLoop.
Borrow(k) ==
  LET c == task[k].c IN
  /\ task[k].at = "borrow"
  /\ \/ /\ c \in pools
        /\ \E s \in Idle(c) :
             /\ stream' = [stream EXCEPT ![s] = "lent"]
             /\ task' = [task EXCEPT ![k] = [@ EXCEPT !.at = "write", !.s = s]]
     \/ /\ c \notin pools \/ c \in dead \/ (Idle(c) = {} /\ Full(c))
        /\ task' = [task EXCEPT ![k] = [@ EXCEPT !.at = "returned", !.err = "other"]]
        /\ UNCHANGED stream
  /\ UNCHANGED <<hostVars, farVars, sent, wire>>

\* The expandLoop opens a stream, but not for a pool that has lost its last;
\* it does not survive the first one it opens.
Expand(s) ==
  LET c == On[s] IN
  /\ \A t \in Stream \ Opened : On[t] = c => stream[t] = "fresh"
  /\ s \notin Opened /\ c \in pools \ dead /\ Size(c) # {} /\ Idle(c) = {}
  /\ stream' = [stream EXCEPT ![s] = "idle"]
  /\ UNCHANGED <<hostVars, farVars, task, sent, wire>>

Written(k, whole, err) ==
  /\ wire' = [wire EXCEPT ![task[k].s] = Append(@, [task |-> k, whole |-> whole])]
  /\ sent' = IF whole THEN sent \cup {k} ELSE sent
  /\ task' = [task EXCEPT ![k] = [@ EXCEPT !.at = "giveback", !.err = err]]

\* Mutant: the number of bytes written is not looked at.
WriteUnchecked(k) ==
  LET c == On[task[k].s] IN
  /\ task[k].at = "write"
  /\ \/ c \notin dead /\ \E whole \in BOOLEAN : Written(k, whole, "nil")
     \/ /\ c \in dead
        /\ task' = [task EXCEPT ![k] =
             [@ EXCEPT !.at = "giveback", !.err = IF nwClosed THEN "nil" ELSE "other"]]
        /\ UNCHANGED <<sent, wire>>
  /\ UNCHANGED <<hostVars, farVars, stream>>

\* The frame is written in one Write.  It may be cut short by an error of the
\* stream or by a timeout; the latter counts as a closed connection, as does
\* a connection that is closed.  Once the network is closed nothing counts.
Write(k) ==
  LET c == On[task[k].s] IN
  /\ task[k].at = "write"
  /\ \/ c \notin dead /\ Written(k, TRUE, "nil")
     \/ c \notin dead /\ "error" \in Faults /\ Written(k, FALSE, "writeFailed")
     \/ c \notin dead /\ "timeout" \in Faults /\ Written(k, FALSE, "other")
     \/ /\ c \in dead
        /\ task' = [task EXCEPT ![k] =
             [@ EXCEPT !.at = "giveback", !.err = IF nwClosed THEN "nil" ELSE "other"]]
        /\ UNCHANGED <<sent, wire>>
  /\ UNCHANGED <<hostVars, farVars, stream>>

\* Mutant: the stream is returned whatever the result.
GiveBackAlways(k) ==
  /\ task[k].at = "giveback"
  /\ stream' = [stream EXCEPT ![task[k].s] = IF task[k].c \in pools THEN "idle" ELSE "gone"]
  /\ task' = [task EXCEPT ![k] = [@ EXCEPT !.at = "returned", !.s = None]]
  /\ UNCHANGED <<hostVars, farVars, sent, wire>>

\* The deferred DropStream or ReturnStream, and the return
GiveBack(k) ==
  /\ task[k].at = "giveback"
  /\ stream' = [stream EXCEPT ![task[k].s] =
       IF task[k].err # "writeFailed" /\ task[k].c \in pools THEN "idle" ELSE "gone"]
  /\ task' = [task EXCEPT ![k] = [@ EXCEPT !.at = "returned", !.s = None]]
  /\ UNCHANGED <<hostVars, farVars, sent, wire>>

-----------------------------------------------------------------------------
(* The receiver *)

\* receiveStreamHandlerLoop: a whole frame becomes a job of the pipeline; the
\* beginning of one swallows the beginning of the next, if there is a next.
ReadFrame(s) ==
  /\ wire[s] # << >> /\ On[s] \notin dead
  /\ IF Head(wire[s]).whole
     THEN /\ wire' = [wire EXCEPT ![s] = Tail(@)]
          /\ job' = IF s \in garbled THEN job ELSE [job EXCEPT ![Head(wire[s]).task] = "read"]
          /\ UNCHANGED garbled
     ELSE /\ Len(wire[s]) > 1
          /\ wire' = [wire EXCEPT ![s] = Tail(Tail(@))]
          /\ garbled' = garbled \cup {s} /\ UNCHANGED job
  /\ UNCHANGED <<hostVars, handlers, stream, task, sent>>

\* The pipeline: Unmarshal, the handler, if there is one, and its call with
\* the remote peer and the payload ("payload handler not found, drop the
\* payload" otherwise)
Route(k) ==
  /\ job[k] = "read"
  /\ job' = [job EXCEPT ![k] = IF task[k].pid \in handlers THEN "handled" ELSE "dropped"]
  /\ UNCHANGED <<hostVars, handlers, garbled, stream, task, sent, wire>>

\* UnregisterMsgPayloadHandler at the receiver ...
Unregister(q) ==
  /\ q \in handlers
  /\ handlers' = handlers \ {q}
  /\ UNCHANGED <<hostVars, garbled, job, stream, task, sent, wire>>

\* ... and the PUSH that says so.
Learn(q) ==
  /\ q \in book \ handlers
  /\ book' = book \ {q}
  /\ UNCHANGED <<conns, pools, dead, nwClosed, farVars, stream, task, sent, wire>>

-----------------------------------------------------------------------------
(* Connections *)

ConnDies(c) ==
  /\ c \in Mortal \ dead
  /\ dead' = dead \cup {c}
  /\ UNCHANGED <<conns, pools, nwClosed, book, farVars, stream, task, sent, wire>>

\* handleClosingConn: out of the connection manager, ...  Once closeC is
\* closed the accept loops end without calling it (a removal under way is
\* taken to be made before that).
ClosingRemove(c) ==
  /\ c \in conns \cap dead /\ ~nwClosed
  /\ conns' = conns \ {c}
  /\ UNCHANGED <<pools, dead, nwClosed, book, farVars, stream, task, sent, wire>>

\* ... then RemovePeerConnAndCloseSendStreamPool.
ClosingPool(c) ==
  /\ c \in pools \ conns
  /\ pools' = pools \ {c}
  /\ UNCHANGED <<conns, dead, nwClosed, book, farVars, stream, task, sent, wire>>

\* Stop: closeC and the connections are closed, then the network.
NetworkClose ==
  /\ ~nwClosed /\ nwClosed' = TRUE
  /\ dead' = Conn
  /\ UNCHANGED <<conns, pools, book, farVars, stream, task, sent, wire>>

-----------------------------------------------------------------------------
SendStep(k) == SendCheck(k) \/ SendPool(k) \/ Borrow(k) \/ Write(k) \/ GiveBack(k)

DeliveryNext ==
  \/ \E k \in Task : SendStep(k) \/ Route(k)
  \/ \E s \in Stream : Expand(s) \/ ReadFrame(s)
  \/ \E q \in Peer : Unregister(q) \/ Learn(q)
  \/ \E c \in Conn : ConnDies(c) \/ ClosingRemove(c) \/ ClosingPool(c)
  \/ NetworkClose

-----------------------------------------------------------------------------
(* Properties *)

\* If Write is cut short by errors only, and not by a timeout, after which the
\* code goes on with the stream (README, known deviations): the beginning of a
\* frame is the last thing ever written to a stream, so that no reader takes it
\* for the beginning of something else.  A stream is returned to the pool only
\* after a whole frame.
FramesWhole ==
  \A s \in Stream : \A i \in 1 .. Len(wire[s]) :
    ~wire[s][i].whole => i = Len(wire[s]) /\ stream[s] \in {"lent", "gone"}

LeftUnread(k) == \E s \in Unread : \E i \in 1 .. Len(wire[s]) : wire[s][i].task = k

\* A message for which SendMsg has returned nil is handled, or dropped for
\* want of a handler, if its connection lives and it did not go to a stream
\* the receiver leaves unread: whatever happens to the other messages, streams
\* and connections.
NilIsHandled ==
  \A k \in Task : task[k].at = "done" /\ task[k].err = "nil"
    ~> job[k] \in {"handled", "dropped"} \/ task[k].c \in dead \/ LeftUnread(k)
=============================================================================
