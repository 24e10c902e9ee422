--------------------------- MODULE SendStreamPool ---------------------------
(***************************************************************************)
(* The pool of send streams a host keeps for one connection                *)
(* (components/send_stream_pool.go).                                       *)
(*                                                                         *)
(* A send stream is an element of Stream.  Callers (User) are the          *)
(* goroutines that run Host.SendMsg: each borrows a stream, writes, and    *)
(* then returns or drops it.  One more goroutine, the expandLoop, opens    *)
(* streams when few are idle.  mu is the pool's lock: it is a variable     *)
(* because BorrowStream waits up to a second while it holds it, and        *)
(* because expandStream opens several streams while it holds it.           *)
(* Sections that cannot block while they hold mu are single actions with   *)
(* the guard mu = Free.  closeC is the Boolean closed (a closed channel is *)
(* always ready), expandingSignalC, of capacity 1, the Boolean signal.     *)
(* A select with several ready cases takes any of them.                    *)
(***************************************************************************)
EXTENDS Integers, Sequences, FiniteSets

CONSTANTS
  User,      \* goroutines that borrow streams
  Stream,    \* stream identities; one that was dropped may be used again
  initSize,  \* streams opened by InitStreams
  maxSize,   \* capacity of poolC
  None,      \* no stream
  Free,      \* nobody holds mu
  Loop       \* the expandLoop goroutine, as a holder of mu

\* NewSendStreamPool refuses initSize > maxSize (ErrInitSizeTooBig).
ASSUME SizeAssumption ==
  initSize \in Nat /\ maxSize \in Nat /\ initSize <= maxSize

ASSUME NameAssumption ==
  None \notin Stream /\ Free \notin User /\ Loop \notin User /\ Free # Loop

ASSUME StreamFinite == IsFiniteSet(Stream)

VARIABLES
  poolC,        \* the buffered channel of idle streams
  idleSize, currentSize,
  closed,       \* closeC has been closed
  signal,       \* expandingSignalC holds its one element
  mu,           \* who holds the lock: Free, a user, or Loop
  once,         \* InitStreams: "new", "running", "done" or "failed"
  loop,         \* where expandLoop is
  threshold,    \* expandCheck's local variable
  left,         \* iterations expandStream still has to make
  pc,           \* where each user is
  hold,         \* the stream a user has borrowed
  lent,         \* streams handed out, not yet put back or dropped
  connClosed    \* the connection has been closed (from outside the pool)

poolVars == <<poolC, idleSize, currentSize>>
loopVars == <<loop, threshold, left>>
userVars == <<pc, hold, lent>>
vars == <<poolC, idleSize, currentSize, closed, signal, mu, once, loop,
          threshold, left, pc, hold, lent, connClosed>>

LoopStates == {"off", "select", "check", "expand", "opening", "exited", "dead"}
UserStates == {"idle", "borrow", "relock", "waiting", "sleep", "trigger", "holding"}

TypeOK ==
  /\ poolC \in Seq(Stream)
  /\ idleSize \in Int /\ currentSize \in Int
  /\ closed \in BOOLEAN /\ signal \in BOOLEAN /\ connClosed \in BOOLEAN
  /\ mu \in User \cup {Free, Loop}
  /\ once \in {"new", "running", "done", "failed"}
  /\ loop \in LoopStates
  /\ threshold \in Nat /\ left \in Nat
  /\ pc \in [User -> UserStates]
  /\ hold \in [User -> Stream \cup {None}]
  /\ lent \in SUBSET Stream

\* NewSendStreamPool
Init ==
  /\ poolC = << >> /\ idleSize = 0 /\ currentSize = 0
  /\ closed = FALSE /\ signal = FALSE /\ mu = Free
  /\ once = "new" /\ loop = "off" /\ threshold = 0 /\ left = 0
  /\ pc = [u \in User |-> "idle"]
  /\ hold = [u \in User |-> None]
  /\ lent = {}
  /\ connClosed = FALSE

-----------------------------------------------------------------------------
(* Helpers *)

Pooled == {poolC[i] : i \in 1 .. Len(poolC)}

\* What conn.OpenSendStream may answer: a stream, an error that says the
\* connection is gone (or a timeout), or another error.
OpenResult == IF connClosed THEN {"closed"} ELSE {"ok", "closed", "other"}

\* openSendStream when the connection gives it a stream: the send on poolC
\* blocks while the channel is full.
openSendStream ==
  /\ Len(poolC) < maxSize
  /\ \E s \in Stream \ (Pooled \cup lent) : poolC' = Append(poolC, s)
  /\ idleSize' = idleSize + 1
  /\ currentSize' = currentSize + 1

\* triggerExpand never blocks; on a closed pool select may take closeC.
triggerExpand ==
  \/ signal' = TRUE
  \/ closed /\ signal' = signal

\* math.Round(0.2 * currentSize)
expandingThreshold == (currentSize + 2) \div 5

expandCheck ==
  threshold >= idleSize /\ currentSize < maxSize /\ currentSize # 0

\* expandStream's expandSize
expandSize ==
  LET half == initSize \div 2
      want == IF half = 0 THEN 1 ELSE half
  IN  IF want + currentSize > maxSize THEN maxSize - currentSize ELSE want

-----------------------------------------------------------------------------
(* InitStreams: handleNewConnection calls it before the pool is shared.    *)

InitStreams ==
  /\ once = "new" /\ mu = Free
  /\ once' = "running" /\ mu' = Loop
  /\ UNCHANGED <<poolVars, closed, signal, loopVars, userVars, connClosed>>

InitOpen ==
  /\ once = "running" /\ currentSize < initSize
  /\ \E r \in OpenResult :
       IF r = "ok"
       THEN openSendStream /\ UNCHANGED <<once, mu>>
       ELSE once' = "failed" /\ mu' = Free /\ UNCHANGED poolVars
  /\ UNCHANGED <<closed, signal, loopVars, userVars, connClosed>>

InitDone ==
  /\ once = "running" /\ currentSize >= initSize
  /\ once' = "done" /\ mu' = Free /\ loop' = "select"
  /\ UNCHANGED <<poolVars, closed, signal, threshold, left, userVars, connClosed>>

-----------------------------------------------------------------------------
(* BorrowStream *)

\* SendMsg asks for a stream; the pool is visible once InitStreams succeeded.
Call(u) ==
  /\ pc[u] = "idle" /\ once = "done"
  /\ pc' = [pc EXCEPT ![u] = "borrow"]
  /\ UNCHANGED <<poolVars, closed, signal, mu, once, loopVars, hold, lent, connClosed>>

\* Mutant: the idle stream is taken and idleSize forgotten.
takeStreamUncounted(u, next) ==
  /\ poolC # << >>
  /\ poolC' = Tail(poolC)
  /\ hold' = [hold EXCEPT ![u] = Head(poolC)]
  /\ lent' = lent \cup {Head(poolC)}
  /\ pc' = [pc EXCEPT ![u] = next]
  /\ UNCHANGED <<idleSize, currentSize>>

\* case sendStream = <-s.poolC, followed by s.idleSize--
takeStream(u, next) ==
  /\ poolC # << >>
  /\ poolC' = Tail(poolC) /\ idleSize' = idleSize - 1
  /\ hold' = [hold EXCEPT ![u] = Head(poolC)]
  /\ lent' = lent \cup {Head(poolC)}
  /\ pc' = [pc EXCEPT ![u] = next]
  /\ UNCHANGED currentSize

\* ErrStreamPoolClosed
borrowClosed(u) ==
  /\ closed
  /\ pc' = [pc EXCEPT ![u] = "idle"]
  /\ UNCHANGED <<poolVars, hold, lent>>

\* The first select, with its default case.
BorrowStream(u) ==
  /\ pc[u] = "borrow" /\ mu = Free
  /\ \/ borrowClosed(u) /\ UNCHANGED signal
     \/ takeStream(u, "trigger") /\ UNCHANGED signal
     \/ /\ ~closed /\ poolC = << >>
        /\ IF currentSize >= maxSize
           THEN pc' = [pc EXCEPT ![u] = "idle"] /\ UNCHANGED signal
           ELSE pc' = [pc EXCEPT ![u] = "relock"] /\ triggerExpand
        /\ UNCHANGED <<poolVars, hold, lent>>
  /\ UNCHANGED <<closed, mu, once, loopVars, connClosed>>

\* The deferred triggerExpand runs after the unlock.
BorrowTrigger(u) ==
  /\ pc[u] = "trigger"
  /\ pc' = [pc EXCEPT ![u] = "holding"]
  /\ triggerExpand
  /\ UNCHANGED <<poolVars, closed, mu, once, loopVars, hold, lent, connClosed>>

\* The second select is entered with the lock held again.
BorrowRelock(u) ==
  /\ pc[u] = "relock" /\ mu = Free
  /\ mu' = u
  /\ pc' = [pc EXCEPT ![u] = "waiting"]
  /\ UNCHANGED <<poolVars, closed, signal, once, loopVars, hold, lent, connClosed>>

\* Mutant: the early return on closeC forgets the unlock.
BorrowWaitLeaksLock(u) ==
  /\ pc[u] = "waiting" /\ mu = u
  /\ \/ borrowClosed(u) /\ UNCHANGED mu
     \/ takeStream(u, "holding") /\ mu' = Free
     \/ /\ ~closed /\ poolC = << >>
        /\ pc' = [pc EXCEPT ![u] = "sleep"] /\ mu' = Free
        /\ UNCHANGED <<poolVars, hold, lent>>
  /\ UNCHANGED <<closed, signal, once, loopVars, connClosed>>

\* Its three cases; time.After fires when nothing else came for a second.
BorrowWait(u) ==
  /\ pc[u] = "waiting" /\ mu = u
  /\ mu' = Free
  /\ \/ borrowClosed(u)
     \/ takeStream(u, "holding")
     \/ /\ ~closed /\ poolC = << >>
        /\ pc' = [pc EXCEPT ![u] = "sleep"]
        /\ UNCHANGED <<poolVars, hold, lent>>
  /\ UNCHANGED <<closed, signal, once, loopVars, connClosed>>

\* time.Sleep(time.Second) and the recursive call
BorrowRetry(u) ==
  /\ pc[u] = "sleep"
  /\ pc' = [pc EXCEPT ![u] = "borrow"]
  /\ UNCHANGED <<poolVars, closed, signal, mu, once, loopVars, hold, lent, connClosed>>

-----------------------------------------------------------------------------
(* The end of a borrow, and Close *)

release(u) ==
  /\ pc' = [pc EXCEPT ![u] = "idle"]
  /\ hold' = [hold EXCEPT ![u] = None]

\* Mutant: a returned stream is counted as a new one.
ReturnStreamCountsAgain(u) ==
  /\ pc[u] = "holding" /\ mu = Free
  /\ release(u)
  /\ poolC' = Append(poolC, hold[u])
  /\ idleSize' = idleSize + 1 /\ currentSize' = currentSize + 1
  /\ lent' = lent \ {hold[u]}
  /\ UNCHANGED <<closed, signal, mu, once, loopVars, connClosed>>

\* Mutant: the caller goes on using the stream it has returned.
ReturnStreamKeeps(u) ==
  /\ pc[u] = "holding" /\ mu = Free /\ Len(poolC) < maxSize
  /\ poolC' = Append(poolC, hold[u]) /\ idleSize' = idleSize + 1
  /\ UNCHANGED <<currentSize, closed, signal, mu, once, loopVars, userVars, connClosed>>

\* On a closed pool the stream may be left in nobody's hands: it stays in
\* lent, and currentSize still counts it.
ReturnStream(u) ==
  /\ pc[u] = "holding" /\ mu = Free
  /\ release(u)
  /\ \/ closed /\ UNCHANGED <<poolVars, lent>>
     \/ IF Len(poolC) < maxSize
        THEN /\ poolC' = Append(poolC, hold[u]) /\ idleSize' = idleSize + 1
             /\ lent' = lent \ {hold[u]}
             /\ UNCHANGED currentSize
        ELSE \* pool full: the stream is closed, currentSize still counts it
             UNCHANGED <<poolVars, lent>>
  /\ UNCHANGED <<closed, signal, mu, once, loopVars, connClosed>>

DropStream(u) ==
  /\ pc[u] = "holding" /\ mu = Free
  /\ release(u)
  /\ lent' = lent \ {hold[u]}
  /\ IF currentSize - 1 < 0
     THEN currentSize' = 0 /\ idleSize' = 0
     ELSE currentSize' = currentSize - 1 /\ UNCHANGED idleSize
  /\ UNCHANGED <<poolC, closed, signal, mu, once, loopVars, connClosed>>

\* RemovePeerConnAndCloseSendStreamPool; a pool that failed to initialise is
\* closed by nobody.
Close ==
  /\ once = "done" /\ mu = Free /\ ~closed
  /\ closed' = TRUE
  /\ UNCHANGED <<poolVars, signal, mu, once, loopVars, userVars, connClosed>>

\* The connection goes away under the pool.
ConnClose ==
  /\ ~connClosed
  /\ connClosed' = TRUE
  /\ UNCHANGED <<poolVars, closed, signal, mu, once, loopVars, userVars>>

-----------------------------------------------------------------------------
(* expandLoop *)

LoopExit ==
  /\ loop = "select" /\ closed
  /\ loop' = "exited"
  /\ UNCHANGED <<poolVars, closed, signal, mu, once, threshold, left, userVars, connClosed>>

\* The signal is received and expandingThreshold is computed, under RLock.
LoopSignal ==
  /\ loop = "select" /\ signal /\ mu = Free
  /\ signal' = FALSE
  /\ threshold' = expandingThreshold
  /\ loop' = "check"
  /\ UNCHANGED <<poolVars, closed, mu, once, left, userVars, connClosed>>

\* The rest of expandCheck takes RLock a second time.
LoopCheck ==
  /\ loop = "check" /\ mu = Free
  /\ loop' = IF expandCheck THEN "expand" ELSE "select"
  /\ UNCHANGED <<poolVars, closed, signal, mu, once, threshold, left, userVars, connClosed>>

\* expandStream takes the lock and fixes its size.
ExpandStart ==
  /\ loop = "expand" /\ mu = Free
  /\ mu' = Loop
  /\ left' = expandSize
  /\ loop' = "opening"
  /\ UNCHANGED <<poolVars, closed, signal, once, threshold, userVars, connClosed>>

\* One iteration.  CheckClosedConnectionWithErr is called for a nil error
\* too and panics on it: the deferred unlock runs, LoggerGo recovers, and
\* the goroutine is gone.  On a closed connection the pool is closed.
ExpandOpen ==
  /\ loop = "opening" /\ left > 0
  /\ \E r \in OpenResult :
       \/ /\ r = "ok"
          /\ openSendStream
          /\ loop' = "dead" /\ mu' = Free /\ left' = 0
          /\ UNCHANGED closed
       \/ /\ r = "closed"
          /\ closed' = TRUE
          /\ loop' = "select" /\ mu' = Free /\ left' = 0
          /\ UNCHANGED poolVars
       \/ /\ r = "other"
          /\ left' = left - 1
          /\ UNCHANGED <<poolVars, closed, loop, mu>>
  /\ UNCHANGED <<signal, once, threshold, userVars, connClosed>>

\* All iterations failed: the loop triggers itself again.
ExpandEnd ==
  /\ loop = "opening" /\ left = 0
  /\ triggerExpand
  /\ loop' = "select" /\ mu' = Free
  /\ UNCHANGED <<poolVars, closed, once, threshold, left, userVars, connClosed>>

-----------------------------------------------------------------------------
InitStep == InitStreams \/ InitOpen \/ InitDone
LoopStep == LoopExit \/ LoopSignal \/ LoopCheck \/ ExpandStart \/ ExpandOpen \/ ExpandEnd
BorrowStep(u) == BorrowStream(u) \/ BorrowTrigger(u) \/ BorrowRelock(u)
                   \/ BorrowWait(u) \/ BorrowRetry(u)
GiveBack(u) == ReturnStream(u) \/ DropStream(u)

Next ==
  \/ InitStep \/ LoopStep \/ Close \/ ConnClose
  \/ \E u \in User : Call(u) \/ BorrowStep(u) \/ GiveBack(u)

Spec == Init /\ [][Next]_vars

\* Go schedules every goroutine, and sync.RWMutex hands the lock to a waiter
\* that has been kept waiting (starvation mode), hence the strong fairness
\* where a step needs mu.  Nothing makes a caller call, a connection close,
\* or the host close the pool.
Fairness ==
  /\ WF_vars(InitStep) /\ SF_vars(LoopStep)
  /\ \A u \in User : SF_vars(BorrowStep(u)) /\ SF_vars(GiveBack(u))

FairSpec == Spec /\ Fairness

-----------------------------------------------------------------------------
(* Properties *)

\* The counters tell the truth: idleSize is the number of streams in poolC,
\* and currentSize counts the idle streams and the ones handed out.  The
\* branch of DropStream that repairs negative counters is therefore dead.
CountersExact ==
  /\ idleSize = Len(poolC)
  /\ currentSize = idleSize + Cardinality(lent)

\* The pool never outgrows maxSize, and whoever holds a stream finds room to
\* put it back: the default case of ReturnStream, which closes a stream that
\* currentSize goes on counting, is dead, and the send on poolC that
\* openSendStream makes with the lock held cannot block.
Bounded ==
  /\ currentSize <= maxSize
  /\ lent # {} => Len(poolC) < maxSize
  /\ left > 0 => Len(poolC) < maxSize

\* A stream has one owner: it is idle once, or in the hands of one caller.
\* Two writers on one stream would interleave their frames.
Exclusive ==
  /\ \A i, j \in 1 .. Len(poolC) : i # j => poolC[i] # poolC[j]
  /\ Pooled \cap lent = {}
  /\ \A u, v \in User : u # v /\ hold[u] = hold[v] => hold[u] = None
  /\ \A u \in User : hold[u] # None => hold[u] \in lent

\* The strengthening that makes the three invariants above inductive: which
\* part of the code holds mu, and how much expandStream may still open.
LockInv ==
  /\ once = "running" => mu = Loop
  /\ once # "done" => loop = "off"
  /\ once \in {"new", "running"} => currentSize <= initSize
  /\ loop = "opening" => mu = Loop
  /\ left > 0 => loop = "opening"
  /\ left + currentSize <= maxSize
  /\ \A u \in User : hold[u] # None <=> pc[u] \in {"trigger", "holding"}

\* A closed pool never waits: every borrower gets an answer.
ClosedReleasesBorrowers ==
  \A u \in User : (closed /\ pc[u] \in {"borrow", "relock", "waiting", "sleep"})
                    ~> pc[u] \in {"idle", "trigger", "holding"}

-----------------------------------------------------------------------------
(* What the repository says and the code does not do (README, known
   deviations): each is refuted by the .cfg named. *)

\* With the constants of MCSendStreamPool.cfg.  send_stream_pool.go:293, "expandLoop is a goroutine that periodically
\* checks if the pool should be expanded": while the pool is open and
\* initialised, the goroutine is there.
ExpandLoopServesOpenPool ==
  (once = "done" /\ ~closed) => loop \notin {"off", "exited", "dead"}

\* MCSendStreamPoolBorrow.cfg.  send_stream_pool.go:102-106: a borrower is given a stream, or an error.
BorrowAnswered ==
  \A u \in User : pc[u] = "borrow" ~> pc[u] \in {"idle", "trigger", "holding"}
=============================================================================
