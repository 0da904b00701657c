--------------------------- MODULE MCCoordinator ---------------------------
(***************************************************************************)
(* Small instances of Coordinator.                                         *)
(***************************************************************************)
EXTENDS Coordinator

Two == 1..2
Three == 1..3
First == {1}
Second == {2}
AllConns == Conn
OfFirst == {c \in Conn : c[1] = 1}
OneKey == 1..1
Vals == 0..MaxRequests
Stamps1 == 0..1
Stamps2 == 0..2
Levels == 0..Cardinality(Server) + 1
LevelOne == {1}

(***************************************************************************)
(* For the read repair run, which is about a get of a quiet cluster: a get *)
(* at another moment, and what a put or a broken connection after the get  *)
(* lead to, are not explored.  The states that RepairConverges speaks of,  *)
(* and all states on the way to them, satisfy this.                        *)
(***************************************************************************)
GetsWhenQuiet ==
  (\E i \in DOMAIN reqs : reqs[i].kind = "get") => \E k \in Key : fresh[k]
=============================================================================
