------------------------- MODULE ConnectionRegistry -------------------------
(***************************************************************************)
(* What a connection manager promises (core/manager/connection_manager.go, *)
(* ConnectionManager), without levels, lists and strategies: a set of      *)
(* connections, of a limited number of peers with a limited number of      *)
(* connections each.  LevelConnectionManager implements it.                *)
(***************************************************************************)
EXTENDS Integers, FiniteSets

CONSTANTS
  Peer, Conn, Owner,
  Capacity,    \* MaxCountOfPeersAllowed
  Quota        \* connections each peer may have

VARIABLES
  held,        \* connections the registry knows
  open         \* connections handed to it that are not closed

vars == <<held, open>>

Of(p, conns) == {c \in conns : Owner[c] = p}

WithinLimits(conns) ==
  /\ Cardinality({Owner[c] : c \in conns}) <= Capacity
  /\ \A p \in Peer : Cardinality(Of(p, conns)) <= Quota

Init == held = {} /\ open = {}

\* AddPeerConnection: the limits hold afterwards, at the cost, perhaps, of
\* connections of one peer, which are closed; but not while there is room.
Add(c) ==
  /\ c \notin held \cup open
  /\ \E p \in Peer : \E victims \in SUBSET Of(p, held \cup {c}) :
       /\ victims # {} => Cardinality(held) >= Capacity
       /\ held' = (held \cup {c}) \ victims
       /\ open' = (open \cup {c}) \ victims
  /\ WithinLimits(held')

\* RemovePeerConnection: c has been closed; connections of the same peer may
\* go with it.
Remove(c) ==
  /\ c \in held \ open
  /\ \E gone \in SUBSET Of(Owner[c], held) : c \in gone /\ held' = held \ gone
  /\ UNCHANGED open

\* A connection is closed by somebody else.
Down(c) ==
  /\ c \in open
  /\ open' = open \ {c}
  /\ UNCHANGED held

\* Close
CloseAll == open' = open \ held /\ UNCHANGED held

Next == CloseAll \/ \E c \in Conn : Add(c) \/ Remove(c) \/ Down(c)

Spec == Init /\ [][Next]_vars
=============================================================================
