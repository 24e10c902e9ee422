----------------------- MODULE LevelConnectionManager -----------------------
(***************************************************************************)
(* The connection manager of a host (components/connection_manager.go):    *)
(* which connections of which peers are kept, in two levels, and which are *)
(* eliminated when there are too many peers.                               *)
(*                                                                         *)
(* A list of *peerConnections is a sequence of peers (highLevelConn,       *)
(* lowLevelConn) and the connSet of each entry (highSet, lowSet).  Every   *)
(* exported method takes the manager's lock for its whole body, so each is *)
(* one action.  The caller is the host: handleNewConnection, which runs    *)
(* for one connection at a time, asks Allowed and some time later calls    *)
(* AddPeerConnection; handleClosingConn calls RemovePeerConnection for a   *)
(* connection that has been closed; setDirectPeer calls AddHighLevelPeer   *)
(* from any goroutine.                                                     *)
(***************************************************************************)
EXTENDS Integers, FiniteSets, SequencesExt

CONSTANTS
  Peer, Conn,
  Owner,              \* the remote peer of each connection
  Strategies,         \* the strategies SetStrategy is called with
  MaxPeersSet,        \* the argument of SetMaxCountOfPeers
  MaxConnsSet,        \* the argument of SetMaxCountOfConnectionsEachPeer
  DefaultMaxPeers     \* DefaultMaxCountOfPeers (20 in the code)

ASSUME OwnerAssumption == Owner \in [Conn -> Peer] /\ IsFiniteSet(Conn)

ASSUME LimitAssumption ==
  MaxPeersSet \in Int /\ MaxConnsSet \in Int /\ DefaultMaxPeers \in Nat \ {0}

VARIABLES
  strategy,
  highLevelPeers, eliminatePeers,
  highLevelConn, highSet,
  lowLevelConn, lowSet,
  status,       \* the life of each connection, as the host drives it
  fatal         \* "This shouldn't happen, it's a bug" was reached

lists == <<highLevelConn, highSet, lowLevelConn, lowSet>>
vars == <<strategy, highLevelPeers, eliminatePeers, highLevelConn, highSet,
          lowLevelConn, lowSet, status, fatal>>

Known == {"Random", "FIFO", "LIFO"}

\* SetStrategy falls back to the default for a value it does not know.
SetStrategy(s) == IF s \in Known THEN s ELSE "LIFO"

\* SetMaxCountOfPeers and SetMaxCountOfConnectionsEachPeer fall back to
\* their defaults for a limit below one.
maxCountOfPeers == IF MaxPeersSet < 1 THEN DefaultMaxPeers ELSE MaxPeersSet
maxCountOfConnectionsEachPeer == IF MaxConnsSet < 1 THEN 1 ELSE MaxConnsSet

\* new: not seen yet; allowed: passed Allowed; up: added; closing: closed,
\* by the manager or from outside, not yet removed.
Status == {"new", "allowed", "up", "closing"}

TypeOK ==
  /\ strategy \in Known
  /\ highLevelPeers \in SUBSET Peer /\ eliminatePeers \in SUBSET Peer
  /\ highLevelConn \in Seq(Peer) /\ lowLevelConn \in Seq(Peer)
  /\ highSet \in [Peer -> SUBSET Conn] /\ lowSet \in [Peer -> SUBSET Conn]
  /\ status \in [Conn -> Status]
  /\ fatal \in BOOLEAN

Init ==
  /\ strategy \in {SetStrategy(s) : s \in Strategies}
  /\ highLevelPeers = {} /\ eliminatePeers = {}
  /\ highLevelConn = << >> /\ lowLevelConn = << >>
  /\ highSet = [p \in Peer |-> {}] /\ lowSet = [p \in Peer |-> {}]
  /\ status = [c \in Conn |-> "new"]
  /\ fatal = FALSE

-----------------------------------------------------------------------------
(* Queries *)

\* getHighLevelConnections and getLowLevelConnections find an entry.
InHigh(p) == Contains(highLevelConn, p)
InLow(p) == Contains(lowLevelConn, p)

Connected(p) ==
  \/ InHigh(p) /\ highSet[p] # {}
  \/ InLow(p) /\ lowSet[p] # {}

\* The connections of the entries in the two lists.
Tracked ==
  UNION ({highSet[p] : p \in ToSet(highLevelConn)}
           \cup {lowSet[p] : p \in ToSet(lowLevelConn)})

ConnCount(p) ==
  (IF InHigh(p) THEN Cardinality(highSet[p]) ELSE 0)
    + (IF InLow(p) THEN Cardinality(lowSet[p]) ELSE 0)

CountOfPeers == Len(highLevelConn) + Len(lowLevelConn)

\* Mutant: one connection too many.
UnderQuotaOffByOne(p) == ConnCount(p) <= maxCountOfConnectionsEachPeer

UnderQuota(p) == ConnCount(p) < maxCountOfConnectionsEachPeer

\* Mutant: LIFO is not treated specially.
AllowedAnyStrategy(p) ==
  IF ConnCount(p) > 0
  THEN UnderQuota(p)
  ELSE p \in highLevelPeers \/ Len(highLevelConn) < maxCountOfPeers

Allowed(p) ==
  LET highLevel == p \in highLevelPeers
  IN  IF ConnCount(p) > 0
      THEN UnderQuota(p)
      ELSE IF strategy = "LIFO"
           THEN IF highLevel THEN Len(highLevelConn) < maxCountOfPeers
                             ELSE CountOfPeers < maxCountOfPeers
           ELSE highLevel \/ Len(highLevelConn) < maxCountOfPeers

-----------------------------------------------------------------------------
(* Elimination *)

\* The index the strategy picks in a non-empty list.
Picks(list) ==
  CASE strategy = "Random" -> 1 .. Len(list)
    [] strategy = "FIFO"   -> {1}
    [] strategy = "LIFO"   -> {Len(list)}

\* Mutant: the entry goes, its connections stay open.
closingNothing(st, conns) == st

\* The connections of the entry are closed by goroutines of their own.
closing(st, conns) == [c \in Conn |-> IF c \in conns THEN "closing" ELSE st[c]]

\* Mutant: the limit is noticed one peer too late.
OverflowLate(hi, lo) == Len(hi) + Len(lo) > maxCountOfPeers + 1

Overflow(hi, lo) == Len(hi) + Len(lo) > maxCountOfPeers

\* Mutant: for a high-level newcomer the high-level list is looked at first.
eliminateHighFirst(eliminateHigh, hi, hs, lo, ls, st) ==
  /\ IF Overflow(hi, lo) /\ eliminateHigh
     THEN \E i \in Picks(hi) :
            /\ highLevelConn' = RemoveAt(hi, i)
            /\ highSet' = [hs EXCEPT ![hi[i]] = {}]
            /\ status' = closing(st, hs[hi[i]])
            /\ eliminatePeers' = eliminatePeers \cup {hi[i]}
     ELSE highLevelConn' = hi /\ highSet' = hs /\ status' = st /\ UNCHANGED eliminatePeers
  /\ lowLevelConn' = lo /\ lowSet' = ls
  /\ UNCHANGED fatal

\* eliminateConnections, on the lists and sets AddPeerConnection has just
\* extended: one low-level entry goes, or, if there is none and the newcomer
\* is of high level, one high-level entry.
eliminateConnections(eliminateHigh, hi, hs, lo, ls, st) ==
  \/ /\ ~Overflow(hi, lo)
     /\ highLevelConn' = hi /\ highSet' = hs
     /\ lowLevelConn' = lo /\ lowSet' = ls
     /\ status' = st
     /\ UNCHANGED <<eliminatePeers, fatal>>
  \/ /\ Overflow(hi, lo) /\ lo # << >>
     /\ \E i \in Picks(lo) :
          /\ lowLevelConn' = RemoveAt(lo, i)
          /\ lowSet' = [ls EXCEPT ![lo[i]] = {}]
          /\ status' = closing(st, ls[lo[i]])
          /\ eliminatePeers' = eliminatePeers \cup {lo[i]}
     /\ highLevelConn' = hi /\ highSet' = hs
     /\ UNCHANGED fatal
  \/ /\ Overflow(hi, lo) /\ lo = << >>
     /\ IF eliminateHigh
        THEN /\ \E i \in Picks(hi) :
                  /\ highLevelConn' = RemoveAt(hi, i)
                  /\ highSet' = [hs EXCEPT ![hi[i]] = {}]
                  /\ status' = closing(st, hs[hi[i]])
                  /\ eliminatePeers' = eliminatePeers \cup {hi[i]}
             /\ UNCHANGED fatal
        ELSE /\ fatal' = TRUE
             /\ highLevelConn' = hi /\ highSet' = hs /\ status' = st
             /\ UNCHANGED eliminatePeers
     /\ lowLevelConn' = lo /\ lowSet' = ls

-----------------------------------------------------------------------------
(* Operations *)

AddHighLevelPeer(p) ==
  /\ p \notin highLevelPeers
  /\ highLevelPeers' = highLevelPeers \cup {p}
  /\ UNCHANGED <<strategy, eliminatePeers, lists, status, fatal>>

\* handleNewConnection's question; acceptConnLoop handles one connection at
\* a time.
Allow(c) ==
  /\ status[c] = "new"
  /\ \A d \in Conn : status[d] # "allowed"
  /\ Allowed(Owner[c])
  /\ status' = [status EXCEPT ![c] = "allowed"]
  /\ UNCHANGED <<strategy, highLevelPeers, eliminatePeers, lists, fatal>>

\* The connection does not get as far as AddPeerConnection: the protocol
\* exchange or the stream pool failed.
GiveUp(c) ==
  /\ status[c] = "allowed"
  /\ status' = [status EXCEPT ![c] = "new"]
  /\ UNCHANGED <<strategy, highLevelPeers, eliminatePeers, lists, fatal>>

AddPeerConnection(c) ==
  LET p == Owner[c]
      up == [status EXCEPT ![c] = "up"]
  IN
  /\ status[c] = "allowed"
  /\ \/ /\ p \in highLevelPeers /\ InHigh(p)
        /\ highSet' = [highSet EXCEPT ![p] = @ \cup {c}]
        /\ status' = up
        /\ UNCHANGED <<highLevelConn, lowLevelConn, lowSet, eliminatePeers, fatal>>
     \/ /\ p \notin highLevelPeers /\ InLow(p)
        /\ lowSet' = [lowSet EXCEPT ![p] = @ \cup {c}]
        /\ status' = up
        /\ UNCHANGED <<highLevelConn, highSet, lowLevelConn, eliminatePeers, fatal>>
     \/ /\ p \in highLevelPeers /\ ~InHigh(p)
        /\ eliminateConnections(TRUE, Append(highLevelConn, p),
             [highSet EXCEPT ![p] = {c}], lowLevelConn, lowSet, up)
     \/ /\ p \notin highLevelPeers /\ ~InLow(p)
        /\ eliminateConnections(FALSE, highLevelConn, highSet,
             Append(lowLevelConn, p), [lowSet EXCEPT ![p] = {c}], up)
  /\ UNCHANGED <<strategy, highLevelPeers>>

\* Mutant: the first entry is taken.
PosFirst(list, p) == 1

\* The position of p in a list that contains it.
Pos(list, p) == CHOOSE i \in 1 .. Len(list) : list[i] = p

heldHigh(c) == InHigh(Owner[c]) /\ c \in highSet[Owner[c]]

heldLow(c) == InLow(Owner[c]) /\ c \in lowSet[Owner[c]]

\* removes the whole entry of the peer from each list whose entry has conn
RemovePeerConnection(c) ==
  LET p == Owner[c] IN
  /\ status[c] = "closing"
  /\ highLevelConn' = IF heldHigh(c) THEN RemoveAt(highLevelConn, Pos(highLevelConn, p))
                                  ELSE highLevelConn
  /\ highSet' = IF heldHigh(c) THEN [highSet EXCEPT ![p] = {}] ELSE highSet
  /\ lowLevelConn' = IF heldLow(c) THEN RemoveAt(lowLevelConn, Pos(lowLevelConn, p))
                                ELSE lowLevelConn
  /\ lowSet' = IF heldLow(c) THEN [lowSet EXCEPT ![p] = {}] ELSE lowSet
  /\ eliminatePeers' = eliminatePeers \ {p}
  /\ status' = [status EXCEPT ![c] = "new"]
  /\ UNCHANGED <<strategy, highLevelPeers, fatal>>

\* The connection is closed by the remote side, or by an error.
ConnDown(c) ==
  /\ status[c] = "up"
  /\ status' = [status EXCEPT ![c] = "closing"]
  /\ UNCHANGED <<strategy, highLevelPeers, eliminatePeers, lists, fatal>>

\* closes every connection of both lists and keeps the lists
Close ==
  /\ \E c \in Tracked : status[c] = "up"
  /\ status' = closing(status, Tracked)
  /\ UNCHANGED <<strategy, highLevelPeers, eliminatePeers, lists, fatal>>

Next ==
  \/ \E p \in Peer : AddHighLevelPeer(p)
  \/ \E c \in Conn : \/ Allow(c) \/ GiveUp(c) \/ AddPeerConnection(c)
                     \/ RemovePeerConnection(c) \/ ConnDown(c)
  \/ Close

Spec == Init /\ [][Next]_vars

-----------------------------------------------------------------------------
(* Properties *)

\* There are never more entries than maxCountOfPeers: one elimination per
\* addition is enough, although a peer may have an entry in both lists.  And
\* the branch the code calls a bug is dead: when a low-level newcomer makes
\* the manager overflow, there is a low-level entry to eliminate.
Capacity == CountOfPeers <= maxCountOfPeers /\ ~fatal

\* A list holds one entry per peer, so that getHighLevelConnections and
\* getLowLevelConnections find the only one, and an entry has connections of
\* its own peer only, at least one.
OneEntryPerPeer ==
  /\ \A i, j \in 1 .. Len(highLevelConn) :
       highLevelConn[i] = highLevelConn[j] => i = j
  /\ \A i, j \in 1 .. Len(lowLevelConn) :
       lowLevelConn[i] = lowLevelConn[j] => i = j
  /\ \A p \in Peer : /\ highSet[p] # {} <=> InHigh(p)
                     /\ lowSet[p] # {} <=> InLow(p)
  /\ \A p \in Peer : \A c \in highSet[p] \cup lowSet[p] : Owner[c] = p

\* The entries hold connections that were added and are not yet removed.
TrackedAlive == \A c \in Tracked : status[c] \in {"up", "closing"}

\* A peer never has more connections than it may, in both lists together,
\* although Allowed and AddPeerConnection are two separate critical sections.
PeerQuota == \A p \in Peer : ConnCount(p) <= maxCountOfConnectionsEachPeer

\* An open connection does not fall out of the manager, where it is counted,
\* found by PeerConnection and closed by Close: its entry is eliminated with
\* its connections closed, or it goes with a sibling, whose removal takes the
\* whole entry of the peer along (connection_manager.go:489-503).
DroppedIsClosed ==
  [][\A c \in Conn :
       (c \in Tracked /\ status[c] = "up" /\ c \notin Tracked')
       => \/ status'[c] = "closing"
          \/ \E d \in Conn : /\ Owner[d] = Owner[c] /\ d # c
                            /\ status[d] = "closing" /\ RemovePeerConnection(d)]_vars

\* AddPeerConnection "returns true if the connection was successfully added"
\* (connection_manager.go:420): it does not make the connection it adds the
\* victim of its own elimination.  The random strategy may.
NewcomerKept ==
  [][strategy # "Random" =>
       \A c \in Conn : status[c] = "allowed" /\ status'[c] # "allowed"
                         => status'[c] # "closing"]_vars

\* Direct peers are protected: elimination takes a high-level entry only for
\* another high-level peer, only when no low-level entry is left, and never
\* under LIFO.  This is what the code does and what makes a peer "direct"; the
\* comments on the three strategies say the opposite, see HighPrioritized.
HighLevelProtected ==
  [][\A c \in Conn :
       (status[c] = "allowed" /\ AddPeerConnection(c)
          /\ ~(ToSet(highLevelConn) \subseteq ToSet(highLevelConn')))
       => /\ Owner[c] \in highLevelPeers
          /\ lowLevelConn = << >>
          /\ strategy # "LIFO"]_vars

\* MCLevelConnectionManagerHigh.cfg.  "If eliminateHigh is true, it prioritizes
\* eliminating high-level connections" (connection_manager.go:293, :347, :371):
\* the newcomer of high level that makes the manager overflow replaces one of
\* its own level while there is one.  The code looks at the low level first, so this fails.
HighPrioritized ==
  [][\A c \in Conn :
       (status[c] = "allowed" /\ AddPeerConnection(c)
          /\ Owner[c] \in highLevelPeers /\ highLevelConn # << >>)
       => ToSet(lowLevelConn) \subseteq ToSet(lowLevelConn')]_vars

-----------------------------------------------------------------------------
\* What the manager promises, seen from outside.
Registry == INSTANCE ConnectionRegistry WITH
  Capacity <- maxCountOfPeers, Quota <- maxCountOfConnectionsEachPeer,
  held <- Tracked, open <- {c \in Conn : status[c] = "up"}

\* Two lists, two levels and three strategies come to one set of connections
\* with two limits: in particular an entry is eliminated only when there is
\* no room, the victims are connections of one peer and are closed, and a
\* removal concerns one peer only.
ImplementsRegistry == Registry!Spec
=============================================================================
