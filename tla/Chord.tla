------------------------------- MODULE Chord -------------------------------
(***************************************************************************)
(* Lookups on the Chord ring (chord/include/chord.h) while the script      *)
(* chord/init is still handing out the finger tables.                      *)
(*                                                                         *)
(* The script sorts the nodes by id and calls setFingertable of one after  *)
(* the other.  A node that gets its table tells the first node in it that  *)
(* it is its predecessor, and only then returns.  Meanwhile anybody may    *)
(* ask any node for the successor or the predecessor of a key.  The node   *)
(* answers, throws, or asks another node and waits for it; the answer      *)
(* comes back unchanged along the chain of calls, so a lookup is the place *)
(* where it is being handled.                                              *)
(*                                                                         *)
(* An id is a number below 2^M: a hash of 64 hex digits, compared as a     *)
(* string of fixed length, where M = 256.  LocalNode is not protected by a *)
(* lock.  A lookup that reads the finger table while it is being assigned  *)
(* can see it empty, see any of its entries as the match, or end the       *)
(* process (TornRead).  A process that ends loses its table and its        *)
(* predecessor; it may be started again, without them.                     *)
(***************************************************************************)
EXTENDS Integers, Sequences, FiniteSets, Functions

CONSTANTS
  M,          \* the number of bits of an id
  NodeIds,    \* the ids that nodes can have
  MaxNodes,   \* bound: the number of nodes of a ring
  MaxCrashes  \* bound: processes that end by themselves

ASSUME MAssumption == M \in Nat \ {0}
\* No node has the id of all ones: its successor would be looked for at id 0,
\* which Bs never finds.
ASSUME NodeIdsAssumption == NodeIds \subseteq 0..2^M - 2
ASSUME MaxNodesAssumption == MaxNodes \in Nat \ {0}
ASSUME MaxCrashesAssumption == MaxCrashes \in Nat

Id == 0..2^M - 1

NoId == -1

VARIABLES
  nodes,          \* the ids of the nodes
  up,             \* the nodes whose process runs
  todo,           \* the nodes that the script has still to serve, in order
  phase,          \* what the call for Head(todo) is doing
  d_fingertable,  \* of each node; empty before setFingertable
  d_predecessor,  \* of each node; boost::none is NoId
  crashes,        \* the number of processes that have ended
  lookup          \* the lookup that is followed

vars == <<nodes, up, todo, phase, d_fingertable, d_predecessor, crashes, lookup>>

ring == <<nodes, up, todo, phase, d_fingertable, d_predecessor, crashes>>

\* A lookup: what is asked, the node that handles it now, its outcome, and as
\* history the nodes that passed it on, whether it began in a ring that was set
\* up, and whether it read a torn table.
NoLookup ==
  [op |-> "none", key |-> NoId, at |-> NoId, status |-> "none",
   result |-> NoId, asked |-> {}, settled |-> FALSE, raced |-> FALSE]
-----------------------------------------------------------------------------
\* Whether middle is on the way up from lower to upper: without both ends,
\* or with both when the way goes past zero.
IdBetween(lower, middle, upper) ==
  IF lower < upper
    THEN lower < middle /\ middle < upper
    ELSE ~(upper < middle /\ middle < lower)

\* Where the script believes the owner of k to be, counted from 0: a binary
\* search that never looks at the first node of the list.
Bs(k, lst) ==
  LET bs[r \in (0..Len(lst)) \X (0..Len(lst))] ==
        LET b == r[1]
            e == r[2]
            m == (b + e) \div 2
        IN IF b + 1 = e THEN e
           ELSE IF k <= lst[m + 1] THEN bs[<<b, m>>]
           ELSE bs[<<m, e>>]
  IN bs[<<0, Len(lst)>>]

\* The id that the i-th entry of a finger table is for: 2^(i-1) further on
\* around the ring.
FingerId(id, i) == (id + 2^(i - 1)) % 2^M

\* The finger table of node id.
CreateFing(id, lst) ==
  [i \in 1..M |->
     LET idx == Bs(FingerId(id, i), lst)
     IN IF idx >= Len(lst) THEN lst[1] ELSE lst[idx + 1]]

\* A finite set of numbers in ascending order: there is one such sequence.
InOrder(S) ==
  CHOOSE q \in [1..Cardinality(S) -> S] :
    Range(q) = S /\ \A i, j \in DOMAIN q : i < j => q[i] < q[j]

SortedNodes == InOrder(nodes)
-----------------------------------------------------------------------------
(***************************************************************************)
(* The script and the nodes it calls.                                      *)
(***************************************************************************)

\* setFingertable reaches its node, which begins to assign the table.
CallSetFingertable ==
  /\ phase = "idle" /\ todo # <<>> /\ Head(todo) \in up
  /\ phase' = "assigning"
  /\ UNCHANGED <<nodes, up, todo, d_fingertable, d_predecessor, crashes, lookup>>

\* The table is in place, with the ids computed again, and the node calls
\* setPredecessor of its successor.
AssignFingertable ==
  /\ phase = "assigning"
  /\ d_fingertable' =
       [d_fingertable EXCEPT ![Head(todo)] = CreateFing(Head(todo), SortedNodes)]
  /\ phase' = "calling"
  /\ UNCHANGED <<nodes, up, todo, d_predecessor, crashes, lookup>>

\* Mutant of Successor: the far end of the table.
SuccessorLast(n) == d_fingertable[n][Len(d_fingertable[n])]

\* The node that n takes to be its successor.
Successor(n) == Head(d_fingertable[n])

\* setPredecessor at the successor; both calls return and the script goes on.
SetPredecessor ==
  /\ phase = "calling" /\ Successor(Head(todo)) \in up
  /\ d_predecessor' =
       [d_predecessor EXCEPT ![Successor(Head(todo))] = Head(todo)]
  /\ todo' = Tail(todo)
  /\ phase' = "idle"
  /\ UNCHANGED <<nodes, up, d_fingertable, crashes, lookup>>

\* The node that is to be called, or the successor that it calls, is not
\* there: the script ends with the exception.
ScriptDies ==
  /\ \/ phase = "idle" /\ todo # <<>> /\ Head(todo) \notin up
     \/ phase = "calling" /\ Successor(Head(todo)) \notin up
  /\ phase' = "dead"
  /\ UNCHANGED <<nodes, up, todo, d_fingertable, d_predecessor, crashes, lookup>>
-----------------------------------------------------------------------------
(***************************************************************************)
(* Lookups.                                                                *)
(***************************************************************************)

\* Somebody asks a node.  getNodeSucc has no key.
Ask(op, key, n) ==
  /\ lookup.status = "none" /\ n \in up
  /\ op = "getNodeSucc" => key = 0
  /\ lookup' = [NoLookup EXCEPT !.op = op, !.key = key, !.at = n,
                                !.status = "asking",
                                !.settled = (todo = <<>> /\ crashes = 0)]
  /\ UNCHANGED ring

IsSuccessor(n, key) == IdBetween(d_predecessor[n], key, n)

IsPredecessor(n, key) == IdBetween(n, key, Successor(n))

\* Mutant of ClosestPrecedingNode: lower and upper in the wrong order.
ClosestPrecedingNodeSwapped(n, key) ==
  LET match == {i \in DOMAIN d_fingertable[n] :
                  IdBetween(key, d_fingertable[n][i], n)}
  IN IF match = {} THEN Successor(n)
     ELSE d_fingertable[n][CHOOSE i \in match : \A j \in match : j <= i]

\* Mutant of ClosestPrecedingNode: with no match the node asks itself.
ClosestPrecedingNodeSelf(n, key) ==
  LET match == {i \in DOMAIN d_fingertable[n] :
                  IdBetween(n, d_fingertable[n][i], key)}
  IN IF match = {} THEN n
     ELSE d_fingertable[n][CHOOSE i \in match : \A j \in match : j <= i]

\* The last entry of the table that is between n and the key, or else the
\* first entry.
ClosestPrecedingNode(n, key) ==
  LET match == {i \in DOMAIN d_fingertable[n] :
                  IdBetween(n, d_fingertable[n][i], key)}
  IN IF match = {} THEN Successor(n)
     ELSE d_fingertable[n][CHOOSE i \in match : \A j \in match : j <= i]

Found(n) == lookup' = [lookup EXCEPT !.status = "found", !.result = n]

Failed == lookup' = [lookup EXCEPT !.status = "failed"]

\* The node calls another one with the same question and waits.
PassOn(n) ==
  lookup' = [lookup EXCEPT !.at = n, !.asked = @ \cup {lookup.at}]

Asking(op) ==
  lookup.status = "asking" /\ lookup.op = op /\ lookup.at \in up

\* find_successor.  A node that does not know its predecessor throws before
\* it looks at its table.
FindSuccessor ==
  LET n == lookup.at
      key == lookup.key
      known == d_predecessor[n] # NoId
  IN /\ Asking("findSucc")
     /\ \/ /\ known /\ IsSuccessor(n, key)
           /\ Found(n)
        \/ /\ ~known \/ (~IsSuccessor(n, key) /\ d_fingertable[n] = <<>>)
           /\ Failed
        \/ /\ known /\ ~IsSuccessor(n, key) /\ d_fingertable[n] # <<>>
           /\ PassOn(ClosestPrecedingNode(n, key))
     /\ UNCHANGED ring

\* find_predecessor.
FindPredecessor ==
  LET n == lookup.at
      key == lookup.key
      known == d_fingertable[n] # <<>>
  IN /\ Asking("findPred")
     /\ \/ /\ known /\ IsPredecessor(n, key)
           /\ Found(n)
        \/ /\ ~known
           /\ Failed
        \/ /\ known /\ ~IsPredecessor(n, key)
           /\ PassOn(ClosestPrecedingNode(n, key))
     /\ UNCHANGED ring

\* get_successor.
GetSuccessor ==
  LET n == lookup.at
  IN /\ Asking("getNodeSucc")
     /\ IF d_fingertable[n] = <<>> THEN Failed ELSE Found(Successor(n))
     /\ UNCHANGED ring

\* The process of n ends, with what it was doing for the script.
ProcessEnds(n) ==
  /\ up' = up \ {n}
  /\ d_fingertable' = [d_fingertable EXCEPT ![n] = <<>>]
  /\ d_predecessor' = [d_predecessor EXCEPT ![n] = NoId]
  /\ phase' = IF phase \in {"assigning", "calling"} /\ n = Head(todo)
                THEN "dead" ELSE phase
  /\ crashes' = crashes + 1
  /\ UNCHANGED <<nodes, todo>>

\* A lookup that gets to the table of a node while set_fingertable assigns it.
\* That it is seen empty is FindSuccessor, FindPredecessor and GetSuccessor.
\* Or the reverse scan begins at an end that is not set yet, or a string that
\* is being replaced is copied: the process ends, or any entry can match, or
\* none; findPred can take the node itself for the predecessor.
TornRead ==
  LET n == lookup.at
      new == CreateFing(n, SortedNodes)
      torn(l) == [l EXCEPT !.raced = TRUE]
  IN /\ lookup.status = "asking" /\ n \in up
     /\ phase = "assigning" /\ n = Head(todo)
     /\ lookup.op = "findSucc" =>
          d_predecessor[n] # NoId /\ ~IsSuccessor(n, lookup.key)
     /\ \/ /\ lookup' = torn([lookup EXCEPT !.status = "failed"])
           /\ ProcessEnds(n)
        \/ /\ lookup.op \in {"findSucc", "findPred"}
           /\ \E f \in Range(new) :
                lookup' = torn([lookup EXCEPT !.at = f, !.asked = @ \cup {n}])
           /\ UNCHANGED ring
        \/ /\ lookup.op = "findPred"
           /\ lookup' = torn([lookup EXCEPT !.status = "found", !.result = n])
           /\ UNCHANGED ring
        \/ /\ lookup.op = "getNodeSucc"
           /\ lookup' = torn([lookup EXCEPT !.status = "found", !.result = Head(new)])
           /\ UNCHANGED ring

\* The node that is to be asked next has gone: the exception of open comes
\* back along the chain.
Unreachable ==
  /\ lookup.status = "asking" /\ lookup.at \notin up
  /\ Failed
  /\ UNCHANGED ring

\* A process ends, and breaks the chain of calls that goes through it.
Crash(n) ==
  /\ crashes < MaxCrashes /\ n \in up
  /\ ProcessEnds(n)
  /\ IF lookup.status = "asking" /\ n \in lookup.asked \cup {lookup.at}
       THEN Failed
       ELSE UNCHANGED lookup

\* A server is started again: main makes a new LocalNode.
Restart(n) ==
  /\ n \in nodes \ up
  /\ up' = up \cup {n}
  /\ UNCHANGED <<nodes, todo, phase, d_fingertable, d_predecessor, crashes, lookup>>
-----------------------------------------------------------------------------
\* A ring of at most MaxNodes nodes.
Init ==
  /\ nodes \in {r \in SUBSET NodeIds : r # {} /\ Cardinality(r) <= MaxNodes}
  /\ up = nodes
  /\ todo = SortedNodes
  /\ phase = "idle"
  /\ d_fingertable = [n \in nodes |-> <<>>]
  /\ d_predecessor = [n \in nodes |-> NoId]
  /\ crashes = 0
  /\ lookup = NoLookup

Script == CallSetFingertable \/ AssignFingertable \/ SetPredecessor \/ ScriptDies

Handle == FindSuccessor \/ FindPredecessor \/ GetSuccessor \/ Unreachable

Next ==
  \/ Script
  \/ \E op \in {"findSucc", "findPred", "getNodeSucc"}, key \in Id, n \in nodes :
       Ask(op, key, n)
  \/ Handle
  \/ TornRead
  \/ \E n \in nodes : Crash(n) \/ Restart(n)

Spec == Init /\ [][Next]_vars

\* The script runs on and the threads of the servers run; nobody has to ask.
FairSpec == Spec /\ WF_vars(Script) /\ WF_vars(Handle)
-----------------------------------------------------------------------------
(***************************************************************************)
(* Properties.  A key is a hash and differs from the ids of the nodes.     *)
(***************************************************************************)

\* How far it is from a up to b around the ring.
Distance(a, b) == (b - a) % 2^M

\* The first node at or after an id.
Owner(id) == CHOOSE n \in nodes : \A o \in nodes : Distance(id, n) <= Distance(id, o)

\* The last node before an id.
Before(id) ==
  CHOOSE n \in nodes : \A o \in nodes : Distance(n, id - 1) <= Distance(o, id - 1)

Key == Id \ nodes

\* The nodes that stand in their own finger table.
SelfFingered == {n \in nodes : n \in Range(CreateFing(n, SortedNodes))}

(***************************************************************************)
(* An answer is the right one by the definition of the ring, whether or    *)
(* not all tables have been handed out: find_successor answers the owner   *)
(* of the key even if torn tables sent it astray; find_predecessor and     *)
(* get_successor, which decide by the table, the neighbour, unless they    *)
(* read a torn one.                                                        *)
(***************************************************************************)
AnswerCorrect ==
  lookup.status = "found" =>
    /\ lookup.op = "findSucc" /\ lookup.key \in Key =>
         lookup.result = Owner(lookup.key)
    /\ lookup.op = "findPred" /\ lookup.key \in Key /\ ~lookup.raced =>
         lookup.result = Before(lookup.key)
    /\ lookup.op = "getNodeSucc" =>
         lookup.result = Owner(lookup.at + 1)

(***************************************************************************)
(* A node that is not in its own table passes a lookup on to a node that   *)
(* is nearer below the key, or to the owner: closest_preceding_node never  *)
(* oversteps, also with the entries that Bs gets wrong.                    *)
(***************************************************************************)
HopForward ==
  [][(/\ lookup.key \in Key
      /\ lookup.at \in nodes \ SelfFingered
      /\ lookup'.asked # lookup.asked
      /\ ~lookup'.raced) =>
        \/ lookup'.at = Owner(lookup.key)
        \/ Distance(lookup'.at, lookup.key) < Distance(lookup.at, lookup.key)]_vars

(***************************************************************************)
(* A lookup of a key ends in a ring where no node is in its own table, and *)
(* it ends with an answer when it began after the script and no process    *)
(* ended.                                                                  *)
(***************************************************************************)
LookupEnds ==
  (lookup.status = "asking" /\ lookup.key \in Key /\ SelfFingered = {}) ~>
    (\/ lookup.status = "found"
     \/ (lookup.status = "failed" /\ (~lookup.settled \/ crashes > 0)))

(***************************************************************************)
(* In a ring that is set up, every node answers every lookup, as the test  *)
(* find_succ expects of each of its ten nodes (chord/test/chord_test.cpp). *)
(* Then no lookup comes back to a node that has passed it on: the tables   *)
(* do not change any more, and it would be passed on the same way again.   *)
(***************************************************************************)
EveryNodeAnswers ==
  lookup.status = "asking" /\ lookup.settled /\ lookup.key \in Key =>
    lookup.at \notin lookup.asked
=============================================================================
