------------------------------- MODULE Bank -------------------------------
(***************************************************************************)
(* The branches of the bank (bank/src/branch.cpp, snapshot.cpp), which     *)
(* send each other money all the time, and the controller                  *)
(* (bank/src/controller.cpp), which has them take a snapshot that should   *)
(* account for all of it, the money on the way included.                   *)
(*                                                                         *)
(* The module starts when the branches are connected and introduced: one   *)
(* TCP connection for each pair, FIFO in both directions.                  *)
(*                                                                         *)
(* Strands.  A transfer is handled where it is read; markers and the       *)
(* controller's messages are posted to d_strand.  The branch runs its      *)
(* io_service on one thread, and reads the next message of a connection    *)
(* (header, then body: two more trips through the queue) after what the    *)
(* previous one posted.  So a message that is posted is modelled as        *)
(* received when its task runs.                                            *)
(*                                                                         *)
(* Timers.  The controller retrieves a snapshot 10 seconds after it asked  *)
(* for it and asks for the next 5 seconds later.  The module takes these   *)
(* to be longer than what the messages of a snapshot need.                 *)
(***************************************************************************)
EXTENDS Integers, Sequences, FiniteSets, Functions

CONSTANTS
  Branch,        \* the branches, all known to each other
  Balance,       \* what each of them starts with
  None,          \* no snapshot yet, no report yet
  MaxSnapshots,  \* bound: snapshots the controller asks for
  MaxPayments    \* bound: payments that are made

ASSUME BranchAssumption == IsFiniteSet(Branch)
ASSUME BalanceAssumption == Balance \in Nat
ASSUME SnapshotsAssumption == MaxSnapshots \in Nat
ASSUME PaymentsAssumption == MaxPayments \in Nat

\* No snapshot is the empty optional.
ASSUME NoneAssumption ==
  \A b \in Branch :
    None \notin [id : Nat, balance : Nat,
                states : [Branch \ {b} -> [done : BOOLEAN, transferred : Nat]]]

Pair == {p \in Branch \X Branch : p[1] # p[2]}

Peers(b) == Branch \ {b}

Id == 1..MaxSnapshots

VARIABLES
  d_money,       \* the balance of each branch
  d_snapshot,    \* the snapshot each branch is taking or took last, or None
  chan,          \* messages on the way from one branch to another
  ctl,           \* messages on the way from the controller to a branch
  d_snapshot_id, \* controller: the id of the snapshot it is at
  asked,         \* controller: it waits to retrieve that snapshot
  reports,       \* what the controller printed, by snapshot and branch
  payments,      \* counted for their bound
  dead           \* branches whose process ended with an exception

vars == <<d_money, d_snapshot, chan, ctl, d_snapshot_id, asked, reports, payments, dead>>

Transfer(money) == [type |-> "Transfer", money |-> money]
Marker(id) == [type |-> "Marker", id |-> id]

InitSnapshot(id) == [type |-> "InitSnapshot", id |-> id]
RetrieveSnapshot(id) == [type |-> "RetrieveSnapshot", id |-> id]

-----------------------------------------------------------------------------
Init ==
  /\ d_money = [b \in Branch |-> Balance]
  /\ d_snapshot = [b \in Branch |-> None]
  /\ chan = [p \in Pair |-> <<>>]
  /\ ctl = [b \in Branch |-> <<>>]
  /\ d_snapshot_id = 1
  /\ asked = FALSE
  /\ reports = [i \in Id |-> [b \in Branch |-> None]]
  /\ dead = {}
  /\ payments = 0

(***************************************************************************)
(* The timer of do_send_money: between 1 and 5 per cent of the balance go  *)
(* to some peer, rounded down; nothing is sent when that is nothing.       *)
(***************************************************************************)
SendMoney(b, to, money) ==
  /\ b \notin dead
  /\ money \in (d_money[b] \div 100)..((5 * d_money[b]) \div 100)
  /\ money > 0
  /\ payments < MaxPayments
  /\ payments' = payments + 1
  /\ d_money' = [d_money EXCEPT ![b] = @ - money]
  /\ chan' = [chan EXCEPT ![<<b, to>>] = Append(@, Transfer(money))]
  /\ UNCHANGED <<d_snapshot, ctl, d_snapshot_id, asked, reports, dead>>

Arrived(p, type) == p[2] \notin dead /\ chan[p] # <<>> /\ Head(chan[p]).type = type

\* The snapshot with another state of the channel from a peer.
WithState(snap, from, state) ==
  [snap EXCEPT !.states = [snap.states EXCEPT ![from] = state]]

\* A transfer is put down.
PutDown(snap, from, money) ==
  WithState(snap, from, [snap.states[from] EXCEPT !.transferred = @ + money])

\* Mutant of Recorded: everything that comes in after the balance was
\* recorded is put down, on completed channels too.
RecordedAlways(snap, from, money) ==
  IF snap # None THEN PutDown(snap, from, money) ELSE snap

\* Snapshot::record_tx: only a channel that is still recorded counts.
Recorded(snap, from, money) ==
  IF snap # None /\ ~snap.states[from].done THEN PutDown(snap, from, money) ELSE snap

HandleTransfer(p) ==
  /\ Arrived(p, "Transfer")
  /\ LET money == Head(chan[p]).money
     IN  /\ d_money' = [d_money EXCEPT ![p[2]] = @ + money]
         /\ d_snapshot' = [d_snapshot EXCEPT ![p[2]] = Recorded(@, p[1], money)]
  /\ chan' = [chan EXCEPT ![p] = Tail(@)]
  /\ UNCHANGED <<ctl, d_snapshot_id, asked, reports, payments, dead>>

\* The constructor of Snapshot: all channels of b are recorded from now on.
NewSnapshot(b, id) ==
  [id |-> id, balance |-> d_money[b],
   states |-> [a \in Peers(b) |-> [done |-> FALSE, transferred |-> 0]]]

\* A marker on every channel of b.
SendMarkers(queues, b, id) ==
  [p \in Pair |-> IF p[1] = b THEN Append(queues[p], Marker(id)) ELSE queues[p]]

(***************************************************************************)
(* InitSnapshot: the branch begins the snapshot.                           *)
(***************************************************************************)
HandleInitSnapshot(b) ==
  /\ b \notin dead
  /\ ctl[b] # <<>>
  /\ Head(ctl[b]).type = "InitSnapshot"
  /\ d_snapshot' = [d_snapshot EXCEPT ![b] = NewSnapshot(b, Head(ctl[b]).id)]
  /\ chan' = SendMarkers(chan, b, Head(ctl[b]).id)
  /\ ctl' = [ctl EXCEPT ![b] = Tail(@)]
  /\ UNCHANGED <<d_money, d_snapshot_id, asked, reports, payments, dead>>

\* Snapshot::marker: the channel is complete; a second marker is reported
\* and changes nothing.
Marked(snap, from) ==
  WithState(snap, from, [snap.states[from] EXCEPT !.done = TRUE])

\* Mutant of HandleMarker: only the first marker ever makes a branch begin.
HandleMarkerOnce(p) ==
  /\ Arrived(p, "Marker")
  /\ LET b == p[2]
         id == Head(chan[p]).id
         rest == [chan EXCEPT ![p] = Tail(@)]
     IN  IF d_snapshot[b] = None
         THEN /\ d_snapshot' = [d_snapshot EXCEPT ![b] = Marked(NewSnapshot(b, id), p[1])]
              /\ chan' = SendMarkers(rest, b, id)
         ELSE /\ d_snapshot' = [d_snapshot EXCEPT ![b] = Marked(@, p[1])]
              /\ chan' = rest
  /\ UNCHANGED <<d_money, ctl, d_snapshot_id, asked, reports, payments, dead>>

\* Mutant of HandleMarker: the channel the first marker came on is left open.
HandleMarkerLeavesOpen(p) ==
  /\ Arrived(p, "Marker")
  /\ LET b == p[2]
         id == Head(chan[p]).id
         rest == [chan EXCEPT ![p] = Tail(@)]
     IN  IF d_snapshot[b] = None \/ d_snapshot[b].id # id
         THEN /\ d_snapshot' = [d_snapshot EXCEPT ![b] = NewSnapshot(b, id)]
              /\ chan' = SendMarkers(rest, b, id)
         ELSE /\ d_snapshot' = [d_snapshot EXCEPT ![b] = Marked(@, p[1])]
              /\ chan' = rest
  /\ UNCHANGED <<d_money, ctl, d_snapshot_id, asked, reports, payments, dead>>

(***************************************************************************)
(* A marker: a branch that is not in this snapshot begins it; in any case  *)
(* the channel the marker came on is complete.                             *)
(***************************************************************************)
HandleMarker(p) ==
  /\ Arrived(p, "Marker")
  /\ LET b == p[2]
         id == Head(chan[p]).id
         rest == [chan EXCEPT ![p] = Tail(@)]
     IN  IF d_snapshot[b] = None \/ d_snapshot[b].id # id
         THEN /\ d_snapshot' = [d_snapshot EXCEPT ![b] = Marked(NewSnapshot(b, id), p[1])]
              /\ chan' = SendMarkers(rest, b, id)
         ELSE /\ d_snapshot' = [d_snapshot EXCEPT ![b] = Marked(@, p[1])]
              /\ chan' = rest
  /\ UNCHANGED <<d_money, ctl, d_snapshot_id, asked, reports, payments, dead>>

\* The money one local snapshot accounts for.
Accounted(snap) ==
  snap.balance + SumFunction([a \in DOMAIN snap.states |-> snap.states[a].transferred])

Complete(snap) == \A a \in DOMAIN snap.states : snap.states[a].done

(***************************************************************************)
(* RetrieveSnapshot: the branch returns the snapshot if it is the one it   *)
(* holds.  Without any snapshot, or with an incomplete one, the process    *)
(* ends.  What the controller prints is reduced to the money it adds up to.*)
(***************************************************************************)
HandleRetrieveSnapshot(b) ==
  /\ b \notin dead
  /\ ctl[b] # <<>>
  /\ Head(ctl[b]).type = "RetrieveSnapshot"
  /\ LET id == Head(ctl[b]).id
         snap == d_snapshot[b]
         wanted == snap # None /\ snap.id = id
     IN  /\ dead' = IF snap = None \/ (wanted /\ ~Complete(snap))
                    THEN dead \cup {b} ELSE dead
         /\ reports' = IF wanted /\ Complete(snap)
                       THEN [reports EXCEPT ![id] = [@ EXCEPT ![b] = Accounted(snap)]]
                       ELSE reports
  /\ ctl' = [ctl EXCEPT ![b] = Tail(@)]
  /\ UNCHANGED <<d_money, d_snapshot, chan, d_snapshot_id, asked, payments>>
-----------------------------------------------------------------------------
\* No message of a snapshot is on its way.
Settled ==
  /\ \A b \in Branch : ctl[b] = <<>>
  /\ \A p \in Pair : \A i \in DOMAIN chan[p] : chan[p][i].type # "Marker"

(***************************************************************************)
(* The timer of do_snapshot: some branch is asked to begin.                *)
(***************************************************************************)
DoSnapshot(b) ==
  /\ ~asked
  /\ d_snapshot_id <= MaxSnapshots
  /\ Settled
  /\ ctl' = [ctl EXCEPT ![b] = Append(@, InitSnapshot(d_snapshot_id))]
  /\ asked' = TRUE
  /\ UNCHANGED <<d_money, d_snapshot, chan, d_snapshot_id, reports, payments, dead>>

(***************************************************************************)
(* The timer of do_retrieve_snapshot: all branches are asked to return it, *)
(* and do_snapshot moves on to the next id.                                *)
(***************************************************************************)
DoRetrieveSnapshot ==
  /\ asked
  /\ Settled
  /\ ctl' = [b \in Branch |-> Append(ctl[b], RetrieveSnapshot(d_snapshot_id))]
  /\ asked' = FALSE
  /\ d_snapshot_id' = d_snapshot_id + 1
  /\ UNCHANGED <<d_money, d_snapshot, chan, reports, payments, dead>>

HandleMessage(p) == HandleTransfer(p) \/ HandleMarker(p)

HandleControl(b) == HandleInitSnapshot(b) \/ HandleRetrieveSnapshot(b)

Next ==
  \/ \E p \in Pair : \E money \in 1..d_money[p[1]] : SendMoney(p[1], p[2], money)
  \/ \E p \in Pair : HandleTransfer(p) \/ HandleMarker(p)
  \/ \E b \in Branch : HandleInitSnapshot(b) \/ HandleRetrieveSnapshot(b)
  \/ \E b \in Branch : DoSnapshot(b)
  \/ DoRetrieveSnapshot

Spec == Init /\ [][Next]_vars

(***************************************************************************)
(* Messages arrive and the timers of the controller go off.                *)
(***************************************************************************)
FairSpec ==
  /\ Spec
  /\ \A p \in Pair : WF_vars(HandleMessage(p))
  /\ \A b \in Branch : WF_vars(HandleControl(b))
  /\ WF_vars(\E b \in Branch : DoSnapshot(b))
  /\ WF_vars(DoRetrieveSnapshot)
-----------------------------------------------------------------------------
Money == Balance * Cardinality(Branch)

\* The money in the transfers at the given places of a queue.
InFlight(q, places) ==
  SumFunction([k \in places |-> IF q[k].type = "Transfer" THEN q[k].money ELSE 0])

\* Branch b has begun the snapshot that the controller is at.
Taken(b) == d_snapshot[b] # None /\ d_snapshot[b].id = d_snapshot_id

\* The markers of snapshot i in a queue.
Markers(q, i) == {k \in DOMAIN q : q[k] = Marker(i)}

\* The places of a queue that belong to the channel's state in snapshot i: those
\* ahead of the marker, and all of them before the sender has begun.
Counted(q, i, begun) ==
  IF begun /\ Markers(q, i) = {} THEN {}
  ELSE {k \in DOMAIN q : \A j \in Markers(q, i) : k < j}

\* What branch b, and the channel p, stand for in the books of the snapshot.
Share(b) == IF Taken(b) THEN Accounted(d_snapshot[b]) ELSE d_money[b]

OnTheWay(p) == InFlight(chan[p], Counted(chan[p], d_snapshot_id, Taken(p[1])))

(***************************************************************************)
(* No branch is asked for a snapshot it has not completed: to_message,     *)
(* "Will explode if too soon", does not explode.  The markers alone bring  *)
(* every branch in and complete every channel.                             *)
(***************************************************************************)
NoExplosion == dead = {}

(***************************************************************************)
(* The snapshot the controller prints accounts for all the money there is, *)
(* each unit once, although the branches pay each other all the while.     *)
(***************************************************************************)
ReportConserves ==
  \A i \in Id : (\A b \in Branch : reports[i][b] # None) =>
    SumFunction(reports[i]) = Money

(***************************************************************************)
(* While a snapshot is being taken the books balance: the balances of the  *)
(* branches that have not begun, what the others have put down, and the    *)
(* money ahead of the markers make up all the money.                       *)
(***************************************************************************)
BooksBalance ==
  SumFunction([b \in Branch |-> Share(b)]) + SumFunction([p \in Pair |-> OnTheWay(p)]) = Money

(***************************************************************************)
(* A snapshot that is asked for is printed by every branch in the end.     *)
(***************************************************************************)
SnapshotReturned ==
  \A i \in Id : (asked /\ d_snapshot_id = i) ~> (\A b \in Branch : reports[i][b] # None)
=============================================================================
