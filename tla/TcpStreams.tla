----------------------------- MODULE TcpStreams -----------------------------
(***************************************************************************)
(* The one-way streams of a TCP connection (network/tcp/connection.go and  *)
(* stream.go).  A yamux stream carries data in both directions; a send     *)
(* stream is its write half, a receive stream its read half.  The end that *)
(* opens a yamux stream writes to it and keeps the read half in usableRS,  *)
(* for its own AcceptReceiveStream; the end that accepts it reads it and   *)
(* keeps the write half in usableSS, for its own OpenSendStream.           *)
(*                                                                         *)
(* Each end has one goroutine in acceptReceiveStreamLoop.  Its             *)
(* AcceptReceiveStream looks into usableRS and, if it finds nothing, waits *)
(* in the session's AcceptStream.  The yamux session itself is external: a *)
(* stream opened at one end joins the accept queue of the other.           *)
(***************************************************************************)
EXTENDS Integers, Sequences, SequencesExt, FiniteSets

CONSTANTS
  End,     \* the two ends of the connection
  Stream   \* yamux streams; their number bounds how many are opened

ASSUME EndAssumption == IsFiniteSet(End) /\ Cardinality(End) = 2

VARIABLES
  opened,    \* streams each end has opened
  backlog,   \* per end: the session's queue of streams not yet accepted
  usableRS,  \* per end: read halves of its own streams, free to be accepted
  usableSS,  \* per end: write halves of accepted streams, free to be opened
  sends,     \* per end and stream: send streams handed out and not closed
  recvs,     \* per end and stream: receive streams handed out and not closed
  sendClosed, recvClosed,  \* per end: halves that have been closed
  accept,    \* per end: "call" or "wait", where AcceptReceiveStream is
  down       \* the session is closed

halves == <<usableRS, usableSS, sends, recvs, sendClosed, recvClosed>>
vars == <<opened, backlog, halves, accept, down>>

TypeOK ==
  /\ opened \in [End -> SUBSET Stream] /\ backlog \in [End -> Seq(Stream)]
  /\ usableRS \in [End -> SUBSET Stream] /\ usableSS \in [End -> SUBSET Stream]
  /\ sends \in [End -> [Stream -> Nat]] /\ recvs \in [End -> [Stream -> Nat]]
  /\ sendClosed \in [End -> SUBSET Stream] /\ recvClosed \in [End -> SUBSET Stream]
  /\ accept \in [End -> {"call", "wait"}] /\ down \in BOOLEAN

\* NewConn
Init ==
  /\ opened = [e \in End |-> {}] /\ backlog = [e \in End |-> << >>]
  /\ usableRS = [e \in End |-> {}] /\ usableSS = [e \in End |-> {}]
  /\ sends = [e \in End |-> [s \in Stream |-> 0]]
  /\ recvs = [e \in End |-> [s \in Stream |-> 0]]
  /\ sendClosed = [e \in End |-> {}] /\ recvClosed = [e \in End |-> {}]
  /\ accept = [e \in End |-> "call"] /\ down = FALSE

Other(e) == CHOOSE f \in End : f # e
Fresh == Stream \ UNION {opened[e] : e \in End}

-----------------------------------------------------------------------------
(* OpenSendStream *)

\* Mutant: the stream found stays among the usable ones.
getUsableSendStreamKeeps(e, s) ==
  /\ s \in usableSS[e] \ recvClosed[e]
  /\ UNCHANGED <<usableSS, sendClosed>>

\* getUsableSendStream finds s.  The map is searched in any order; streams
\* whose read half was closed, met before s, are thrown away and their write
\* halves closed.
getUsableSendStream(e, s) ==
  /\ s \in usableSS[e] \ recvClosed[e]
  /\ \E met \in SUBSET (usableSS[e] \cap recvClosed[e]) :
       /\ usableSS' = [usableSS EXCEPT ![e] = @ \ (met \cup {s})]
       /\ sendClosed' = [sendClosed EXCEPT ![e] = @ \cup met]

\* It finds none: all that is there has a closed read half.
noUsableSendStream(e) ==
  /\ usableSS[e] \subseteq recvClosed[e]
  /\ usableSS' = [usableSS EXCEPT ![e] = {}]
  /\ sendClosed' = [sendClosed EXCEPT ![e] = @ \cup usableSS[e]]

OpenReused(e) ==
  /\ ~down
  /\ \E s \in Stream :
       /\ getUsableSendStream(e, s)
       /\ sends' = [sends EXCEPT ![e][s] = @ + 1]
  /\ UNCHANGED <<opened, backlog, usableRS, recvs, recvClosed, accept, down>>

\* Mutant: the read half of a new stream is not put aside.
OpenNewForgets(e) ==
  /\ ~down
  /\ noUsableSendStream(e)
  /\ \E s \in Fresh :
       /\ opened' = [opened EXCEPT ![e] = @ \cup {s}]
       /\ backlog' = [backlog EXCEPT ![Other(e)] = Append(@, s)]
       /\ sends' = [sends EXCEPT ![e][s] = @ + 1]
  /\ UNCHANGED <<usableRS, recvs, recvClosed, accept, down>>

\* A new yamux stream; putUsableReceiveStream.
OpenNew(e) ==
  /\ ~down
  /\ noUsableSendStream(e)
  /\ \E s \in Fresh :
       /\ opened' = [opened EXCEPT ![e] = @ \cup {s}]
       /\ backlog' = [backlog EXCEPT ![Other(e)] = Append(@, s)]
       /\ sends' = [sends EXCEPT ![e][s] = @ + 1]
       /\ usableRS' = [usableRS EXCEPT ![e] = @ \cup {s}]
  /\ UNCHANGED <<recvs, recvClosed, accept, down>>

-----------------------------------------------------------------------------
(* AcceptReceiveStream, called by acceptReceiveStreamLoop again and again *)

\* getUsableReceiveStream finds a read half, as above.
AcceptReused(e) ==
  /\ accept[e] = "call" /\ ~down
  /\ \E s \in usableRS[e] \ sendClosed[e],
        met \in SUBSET (usableRS[e] \cap sendClosed[e]) :
       /\ usableRS' = [usableRS EXCEPT ![e] = @ \ (met \cup {s})]
       /\ recvClosed' = [recvClosed EXCEPT ![e] = @ \cup met]
       /\ recvs' = [recvs EXCEPT ![e][s] = @ + 1]
  /\ UNCHANGED <<opened, backlog, usableSS, sends, sendClosed, accept, down>>

\* It finds none, and the session's AcceptStream is called.
AcceptWait(e) ==
  /\ accept[e] = "call" /\ ~down
  /\ usableRS[e] \subseteq sendClosed[e]
  /\ usableRS' = [usableRS EXCEPT ![e] = {}]
  /\ recvClosed' = [recvClosed EXCEPT ![e] = @ \cup usableRS[e]]
  /\ accept' = [accept EXCEPT ![e] = "wait"]
  /\ UNCHANGED <<opened, backlog, usableSS, sends, recvs, sendClosed, down>>

\* Mutant: a stream of the session is taken only if no read half is usable.
AcceptNewIfNoneUsable(e) ==
  /\ accept[e] = "wait" /\ ~down /\ backlog[e] # << >> /\ usableRS[e] = {}
  /\ LET s == Head(backlog[e]) IN
     /\ recvs' = [recvs EXCEPT ![e][s] = @ + 1]
     /\ usableSS' = [usableSS EXCEPT ![e] = @ \cup {s}]
  /\ backlog' = [backlog EXCEPT ![e] = Tail(@)]
  /\ accept' = [accept EXCEPT ![e] = "call"]
  /\ UNCHANGED <<opened, usableRS, sends, sendClosed, recvClosed, down>>

\* A stream the other end opened arrives; putUsableSendStream.
AcceptNew(e) ==
  /\ accept[e] = "wait" /\ ~down /\ backlog[e] # << >>
  /\ LET s == Head(backlog[e]) IN
     /\ recvs' = [recvs EXCEPT ![e][s] = @ + 1]
     /\ usableSS' = [usableSS EXCEPT ![e] = @ \cup {s}]
  /\ backlog' = [backlog EXCEPT ![e] = Tail(@)]
  /\ accept' = [accept EXCEPT ![e] = "call"]
  /\ UNCHANGED <<opened, usableRS, sends, sendClosed, recvClosed, down>>

-----------------------------------------------------------------------------
(* Close of a stream, and the end of the session *)

\* yamuxSendStream.Close: a stream is dropped by its pool.
CloseSend(e, s) ==
  /\ sends[e][s] > 0 /\ ~down
  /\ sends' = [sends EXCEPT ![e][s] = @ - 1]
  /\ sendClosed' = [sendClosed EXCEPT ![e] = @ \cup {s}]
  /\ UNCHANGED <<opened, backlog, usableRS, usableSS, recvs, recvClosed, accept, down>>

\* yamuxReceiveStream.Close: its reader failed, or it was one too many.
CloseReceive(e, s) ==
  /\ recvs[e][s] > 0 /\ ~down
  /\ recvs' = [recvs EXCEPT ![e][s] = @ - 1]
  /\ recvClosed' = [recvClosed EXCEPT ![e] = @ \cup {s}]
  /\ UNCHANGED <<opened, backlog, usableRS, usableSS, sends, sendClosed, accept, down>>

\* Conn.Close, or the loss of the TCP connection
SessionEnds ==
  /\ ~down /\ down' = TRUE
  /\ UNCHANGED <<opened, backlog, halves, accept>>

OpenSendStream(e) == OpenReused(e) \/ OpenNew(e)
AcceptReceiveStream(e) == AcceptReused(e) \/ AcceptWait(e) \/ AcceptNew(e)

Next ==
  \/ \E e \in End : OpenSendStream(e) \/ AcceptReceiveStream(e)
  \/ \E e \in End, s \in Stream : CloseSend(e, s) \/ CloseReceive(e, s)
  \/ SessionEnds

Spec == Init /\ [][Next]_vars

\* The accept loops run.  Nobody has to open or close a stream.
Fairness == \A e \in End : WF_vars(AcceptReceiveStream(e))

FairSpec == Spec /\ Fairness

-----------------------------------------------------------------------------
(* Properties *)

InBacklog(e) == ToSet(backlog[e])

\* No half is handed out twice, whether it came from the session or from the
\* usable ones: two writers on one half would mix their packages.
HalfUsedOnce ==
  \A e \in End, s \in Stream :
    /\ sends[e][s] + (IF s \in usableSS[e] THEN 1 ELSE 0) <= 1
    /\ recvs[e][s] + (IF s \in usableRS[e] THEN 1 ELSE 0) <= 1

\* No half is lost: of every stream that was opened, each of the four halves
\* is in use, usable or closed, or still waits in the session.
HalvesAccounted ==
  \A e \in End : \A s \in opened[e] :
    LET f == Other(e) IN
    /\ sends[e][s] > 0 \/ s \in sendClosed[e]
    /\ recvs[e][s] > 0 \/ s \in usableRS[e] \cup recvClosed[e]
    /\ recvs[f][s] > 0 \/ s \in InBacklog(f) \cup recvClosed[f]
    /\ sends[f][s] > 0 \/ s \in InBacklog(f) \cup usableSS[f] \cup sendClosed[f]

\* What an end sends on a stream it has opened is read: the other end's
\* accept loop gets to the stream.
NewStreamAccepted ==
  \A e \in End, s \in Stream : s \in InBacklog(e) ~> down \/ s \notin InBacklog(e)

-----------------------------------------------------------------------------
(* What the repository says and the code does not do (README, known
   deviations): each is refuted by the .cfg named. *)

\* With the constants of MCTcpStreams.cfg.  core/network/connection.go:41-42: AcceptReceiveStream "will block until a
\* new receiving stream is accepted or the connection is closed".  While an
\* end holds a send stream made of a stream it had accepted, the other end
\* gets to reading it.
ReusedStreamAccepted ==
  \A e \in End, s \in Stream :
    s \notin opened[e] /\ sends[e][s] > 0
      ~> \/ down \/ sends[e][s] = 0
         \/ s \notin usableRS[Other(e)]
=============================================================================
