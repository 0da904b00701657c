---------------------------- MODULE BankProofs ----------------------------
(***************************************************************************)
(* Proofs about Bank, for any number of branches, snapshots and payments.  *)
(*                                                                         *)
(* The markers of a snapshot reach every branch and complete every channel *)
(* (Flows), and the books of the snapshot under way balance: what the      *)
(* branches that have begun have recorded, what the others hold, and what  *)
(* is on the way in the channels that are still recorded, is all the money *)
(* (BooksBalance).  When the snapshot is complete nothing is on the way    *)
(* that counts, so the reports add up to all the money (ReportConserves).  *)
(***************************************************************************)
EXTENDS Bank, Sums, TLAPS

ChannelState == [done : BOOLEAN, transferred : Nat]

SnapshotOf(b) == [id : Nat, balance : Nat, states : [Peers(b) -> ChannelState]]

Message == [type : {"Transfer"}, money : Nat] \cup [type : {"Marker"}, id : Nat]

Control == [type : {"InitSnapshot", "RetrieveSnapshot"}, id : Nat]

Types ==
  /\ d_money \in [Branch -> Nat]
  /\ d_snapshot = [b \in Branch |-> d_snapshot[b]]
  /\ \A b \in Branch : d_snapshot[b] = None \/ d_snapshot[b] \in SnapshotOf(b)
  /\ chan \in [Pair -> Seq(Message)]
  /\ ctl \in [Branch -> Seq(Control)]
  /\ d_snapshot_id \in Nat \ {0}
  /\ asked \in BOOLEAN

\* A marker is in the queue.
Marking(q) == \E j \in DOMAIN q : q[j].type = "Marker"

\* The markers in the queue are one at most, and of snapshot i.
Single(q, i) ==
  /\ \A j, k \in DOMAIN q : q[j].type = "Marker" /\ q[k].type = "Marker" => j = k
  /\ \A j \in DOMAIN q : q[j].type = "Marker" => q[j].id = i

\* A branch with this snapshot has begun snapshot i, and has also completed the
\* channel from a.
Begun(snap, i) == snap # None /\ snap.id = i

Closed(snap, i, a) == Begun(snap, i) /\ snap.states[a].done

\* The channel q from a, whose snapshot is sa, to a branch whose snapshot is sb:
\* when a has begun snapshot i, its marker is on the way or has arrived.
Flow(q, i, a, sa, sb) ==
  /\ Single(q, i)
  /\ Begun(sa, i) <=> Marking(q) \/ Closed(sb, i, a)
  /\ ~(Marking(q) /\ Closed(sb, i, a))

Flows == \A p \in Pair : Flow(chan[p], d_snapshot_id, p[1], d_snapshot[p[1]], d_snapshot[p[2]])

\* No branch is ahead of the controller.
Behind ==
  \A b \in Branch :
    d_snapshot[b] # None =>
      IF asked THEN d_snapshot[b].id <= d_snapshot_id ELSE d_snapshot[b].id < d_snapshot_id

\* A branch that is asked for a snapshot has completed it.
Returnable(b) ==
  /\ Len(ctl[b]) = 1
  /\ Head(ctl[b]) = RetrieveSnapshot(d_snapshot_id - 1)
  /\ d_snapshot[b] # None /\ d_snapshot[b].id = d_snapshot_id - 1
  /\ Complete(d_snapshot[b])

Retrieving == ~asked => \A b \in Branch : ctl[b] # <<>> => Returnable(b)

\* The first branch was asked to begin, or somebody has begun.
Beginning(b) ==
  /\ Len(ctl[b]) = 1
  /\ Head(ctl[b]) = InitSnapshot(d_snapshot_id)
  /\ \A a \in Branch : ~Taken(a) /\ (a # b => ctl[a] = <<>>)

Started == (\A b \in Branch : ctl[b] = <<>>) /\ \E b \in Branch : Taken(b)

Taking == asked => Started \/ \E b \in Branch : Beginning(b)

BankInv == Types /\ Flows /\ Behind /\ Retrieving /\ Taking /\ NoExplosion

-----------------------------------------------------------------------------
(* Queues                                                                  *)

\* A payment is put behind what is in the queue.
LEMMA PaymentSent ==
  ASSUME NEW q \in Seq(Message), NEW m \in Nat, NEW i
  PROVE  /\ Append(q, Transfer(m)) \in Seq(Message)
         /\ Marking(Append(q, Transfer(m))) <=> Marking(q)
         /\ Single(q, i) => Single(Append(q, Transfer(m)), i)
<1> DEFINE x == Transfer(m)
<1>1. x \in Message /\ x.type # "Marker"
  BY DEF Transfer, Message
<1> HIDE DEF x
<1>2. /\ Append(q, x) \in Seq(Message) /\ Len(q) \in Nat /\ DOMAIN q = 1..Len(q)
      /\ DOMAIN Append(q, x) = 1..(Len(q) + 1)
      /\ Append(q, x)[Len(q) + 1] = x
      /\ \A j \in 1..Len(q) : Append(q, x)[j] = q[j]
  BY <1>1
<1> DEFINE q2 == Append(q, x)
<1> HIDE DEF q2
<1>3. Marking(q2) <=> Marking(q)
  BY <1>1, <1>2 DEF Marking, q2
<1>4. Single(q, i) => Single(q2, i)
  BY <1>1, <1>2 DEF Single, q2
<1> QED BY <1>2, <1>3, <1>4 DEF q2, x

\* A marker is put into a queue that has none.
LEMMA MarkerSent ==
  ASSUME NEW q \in Seq(Message), NEW i \in Nat, ~Marking(q)
  PROVE  /\ Append(q, Marker(i)) \in Seq(Message)
         /\ Marking(Append(q, Marker(i)))
         /\ Single(Append(q, Marker(i)), i)
<1> DEFINE x == Marker(i)
<1>1. x \in Message /\ x.type = "Marker" /\ x.id = i
  BY DEF Marker, Message
<1> HIDE DEF x
<1>2. /\ Append(q, x) \in Seq(Message) /\ Len(q) \in Nat /\ DOMAIN q = 1..Len(q)
      /\ DOMAIN Append(q, x) = 1..(Len(q) + 1)
      /\ Append(q, x)[Len(q) + 1] = x
      /\ \A j \in 1..Len(q) : Append(q, x)[j] = q[j]
  BY <1>1
<1> DEFINE q2 == Append(q, x)
<1> HIDE DEF q2
<1>3. Marking(q2)
  BY <1>1, <1>2 DEF Marking, q2
<1>4. \A j \in DOMAIN q2 : q2[j].type = "Marker" => j = Len(q) + 1
  BY <1>2 DEF Marking, q2
<1>5. Single(q2, i)
  BY <1>1, <1>2, <1>4 DEF Single, q2
<1> QED BY <1>2, <1>3, <1>5 DEF q2, x

\* The only message of a queue is taken.
LEMMA OnlyOne ==
  ASSUME NEW S, NEW q \in Seq(S), Len(q) = 1
  PROVE  Tail(q) = <<>> /\ q # <<>>
<1>1. q # <<>>
  OBVIOUS
<1>2. Tail(q) \in Seq(S) /\ Len(Tail(q)) = 0
  BY <1>1
<1>3. \A s \in Seq(S) : Len(s) = 0 => s = <<>>
  OBVIOUS
<1> QED BY <1>1, <1>2, <1>3

\* A message is put into an empty queue.
LEMMA FirstOne ==
  ASSUME NEW S, NEW x \in S
  PROVE  /\ Append(<<>>, x) \in Seq(S) /\ Len(Append(<<>>, x)) = 1
         /\ Head(Append(<<>>, x)) = x
OBVIOUS

\* The first message of a queue is taken.
LEMMA TailIs ==
  ASSUME NEW q \in Seq(Message), q # <<>>
  PROVE  /\ Tail(q) \in Seq(Message) /\ Head(q) = q[1] /\ Head(q) \in Message
         /\ 1 \in DOMAIN q
         /\ \A j \in DOMAIN Tail(q) : j + 1 \in DOMAIN q /\ Tail(q)[j] = q[j + 1]
         /\ \A j \in DOMAIN q : j = 1 \/ (j - 1 \in DOMAIN Tail(q) /\ Tail(q)[j - 1] = q[j])
         /\ DOMAIN q \subseteq Nat \ {0} /\ DOMAIN Tail(q) \subseteq Nat \ {0}
OBVIOUS

\* A payment is taken: the markers behind it are still there.
LEMMA PaymentTaken ==
  ASSUME NEW q \in Seq(Message), q # <<>>, Head(q).type # "Marker", NEW i
  PROVE  /\ Tail(q) \in Seq(Message)
         /\ Marking(Tail(q)) <=> Marking(q)
         /\ Single(q, i) => Single(Tail(q), i)
<1> DEFINE t == Tail(q)
<1>1. /\ t \in Seq(Message) /\ 1 \in DOMAIN q /\ q[1].type # "Marker"
      /\ \A j \in DOMAIN t : j + 1 \in DOMAIN q /\ t[j] = q[j + 1]
      /\ \A j \in DOMAIN q : j = 1 \/ (j - 1 \in DOMAIN t /\ t[j - 1] = q[j])
      /\ DOMAIN q \subseteq Nat \ {0} /\ DOMAIN t \subseteq Nat \ {0}
  BY TailIs
<1> HIDE DEF t
<1>2. Marking(t) <=> Marking(q)
  BY <1>1 DEF Marking
<1>3. ASSUME Single(q, i) PROVE Single(t, i)
  <2>1. ASSUME NEW j \in DOMAIN t, t[j].type = "Marker"
        PROVE  j + 1 \in DOMAIN q /\ q[j + 1].type = "Marker" /\ q[j + 1].id = i
                 /\ t[j].id = i
    BY <1>1, <1>3, <2>1 DEF Single
  <2>2. ASSUME NEW j \in DOMAIN t, NEW k \in DOMAIN t, t[j].type = "Marker", t[k].type = "Marker"
        PROVE  j = k
    <3>1. j + 1 = k + 1
      BY <1>3, <2>1, <2>2 DEF Single
    <3> QED BY <1>1, <3>1
  <2> QED BY <2>1, <2>2 DEF Single
<1> QED BY <1>1, <1>2, <1>3 DEF t

\* The marker is taken: there is no other.
LEMMA MarkerTaken ==
  ASSUME NEW q \in Seq(Message), NEW i, q # <<>>, Head(q).type = "Marker", Single(q, i)
  PROVE  /\ Tail(q) \in Seq(Message)
         /\ Marking(q) /\ Head(q).id = i
         /\ ~Marking(Tail(q)) /\ Single(Tail(q), i)
<1> DEFINE t == Tail(q)
<1>1. /\ t \in Seq(Message) /\ 1 \in DOMAIN q /\ q[1].type = "Marker" /\ Head(q) = q[1]
      /\ \A j \in DOMAIN t : j + 1 \in DOMAIN q /\ t[j] = q[j + 1]
      /\ DOMAIN t \subseteq Nat \ {0}
  BY TailIs
<1> HIDE DEF t
<1>2. Marking(q) /\ Head(q).id = i
  BY <1>1 DEF Marking, Single
<1>3. ASSUME NEW j \in DOMAIN t, t[j].type = "Marker"
      PROVE  FALSE
  <2>1. j + 1 = 1
    BY <1>1, <1>3 DEF Single
  <2> QED BY <1>1, <2>1
<1>4. ~Marking(t)
  BY <1>3 DEF Marking
<1>5. Single(t, i)
  BY <1>4 DEF Single, Marking
<1> QED BY <1>1, <1>2, <1>4, <1>5 DEF t

-----------------------------------------------------------------------------
(* Snapshots                                                               *)

\* A snapshot is not the empty optional.
LEMMA NoneIsNo ==
  ASSUME NEW b \in Branch, NEW s \in SnapshotOf(b)
  PROVE  s # None
BY NoneAssumption DEF SnapshotOf, Peers, ChannelState

\* A snapshot that has just begun records every channel.
LEMMA NewIs ==
  ASSUME NEW b \in Branch, NEW i \in Nat, d_money[b] \in Nat
  PROVE  /\ NewSnapshot(b, i) \in SnapshotOf(b)
         /\ NewSnapshot(b, i).id = i
         /\ \A a \in Peers(b) : ~NewSnapshot(b, i).states[a].done
BY DEF NewSnapshot, SnapshotOf, ChannelState

\* The state of one channel is replaced.
LEMMA StateIs ==
  ASSUME NEW b \in Branch, NEW s \in SnapshotOf(b), NEW a \in Peers(b), NEW x \in ChannelState
  PROVE  /\ WithState(s, a, x) \in SnapshotOf(b)
         /\ WithState(s, a, x).id = s.id
         /\ WithState(s, a, x).states[a] = x
         /\ \A c \in Peers(b) : c # a => WithState(s, a, x).states[c] = s.states[c]
BY DEF WithState, SnapshotOf

\* The channel that a marker came on is complete, and the others are as before.
LEMMA MarkedIs ==
  ASSUME NEW b \in Branch, NEW s \in SnapshotOf(b), NEW a \in Peers(b)
  PROVE  /\ Marked(s, a) \in SnapshotOf(b)
         /\ Marked(s, a).id = s.id
         /\ Marked(s, a).states[a].done
         /\ \A c \in Peers(b) : c # a => Marked(s, a).states[c] = s.states[c]
<1> DEFINE x == [s.states[a] EXCEPT !.done = TRUE]
<1>1. x \in ChannelState /\ x.done
  BY DEF SnapshotOf, ChannelState
<1> HIDE DEF x
<1>2. Marked(s, a) = WithState(s, a, x)
  BY DEF Marked, x
<1> QED BY <1>1, <1>2, StateIs

\* The snapshots s and t of b tell apart the same branches and channels.
Alike(s, t, b) ==
  /\ s = None <=> t = None
  /\ t # None => t \in SnapshotOf(b) /\ s.id = t.id
                   /\ \A c \in Peers(b) : s.states[c].done <=> t.states[c].done

\* A transfer that is put down completes nothing.
LEMMA RecordedIs ==
  ASSUME NEW b \in Branch, NEW s, s = None \/ s \in SnapshotOf(b), NEW a \in Peers(b), NEW m \in Nat
  PROVE  Alike(s, Recorded(s, a, m), b)
<1>1. CASE s = None \/ s.states[a].done
  BY <1>1, NoneIsNo DEF Recorded, Alike
<1>2. CASE s \in SnapshotOf(b) /\ ~s.states[a].done
  <2> DEFINE x == [s.states[a] EXCEPT !.transferred = @ + m]
  <2>1. x \in ChannelState /\ (x.done <=> s.states[a].done)
    BY <1>2 DEF SnapshotOf, ChannelState
  <2>2. Recorded(s, a, m) = WithState(s, a, x)
    BY <1>2, NoneIsNo DEF Recorded, PutDown
  <2> HIDE DEF x
  <2> DEFINE w == WithState(s, a, x)
  <2>3. /\ w \in SnapshotOf(b) /\ w.id = s.id /\ w.states[a] = x
        /\ \A c \in Peers(b) : c # a => w.states[c] = s.states[c]
    BY <1>2, <2>1, StateIs
  <2> HIDE DEF w
  <2>4. w # None /\ s # None
    BY <1>2, <2>3, NoneIsNo
  <2>5. Alike(s, w, b)
    BY <2>1, <2>3, <2>4 DEF Alike
  <2> QED BY <2>2, <2>5 DEF w
<1> QED BY <1>1, <1>2

-----------------------------------------------------------------------------
(* Steps                                                                   *)

\* The two ends of a channel.
LEMMA PairIs ==
  ASSUME NEW p \in Pair
  PROVE  /\ p[1] \in Branch /\ p[2] \in Branch /\ p[1] # p[2]
         /\ p[1] \in Peers(p[2]) /\ p = <<p[1], p[2]>>
BY DEF Pair, Peers

\* A channel between snapshots that agree on what has begun and what is complete.
LEMMA FlowAlike ==
  ASSUME NEW q, NEW q2, NEW i, NEW a, NEW b, NEW sa, NEW sa2, NEW sb, NEW sb2,
         a \in Peers(b), Alike(sa, sa2, a), Alike(sb, sb2, b),
         Marking(q2) <=> Marking(q), Single(q, i) => Single(q2, i),
         Flow(q, i, a, sa, sb)
  PROVE  Flow(q2, i, a, sa2, sb2)
<1>1. Begun(sa, i) <=> Begun(sa2, i)
  BY DEF Alike, Begun
<1>2. Closed(sb, i, a) <=> Closed(sb2, i, a)
  BY DEF Alike, Begun, Closed
<1> QED BY <1>1, <1>2 DEF Flow

\* Payments are made and arrive; nobody begins or completes anything.
LEMMA Quietly ==
  ASSUME BankInv, d_money' \in [Branch -> Nat], chan' \in [Pair -> Seq(Message)],
         d_snapshot' = [b \in Branch |-> d_snapshot'[b]],
         \A b \in Branch : Alike(d_snapshot[b], d_snapshot'[b], b),
         \A p \in Pair : /\ Marking(chan'[p]) <=> Marking(chan[p])
                         /\ Single(chan[p], d_snapshot_id) => Single(chan'[p], d_snapshot_id),
         ctl' = ctl, d_snapshot_id' = d_snapshot_id, asked' = asked, dead' = dead
  PROVE  BankInv'
<1>1. Types'
  BY DEF BankInv, Types, Alike
<1>2. Flows'
  <2> SUFFICES ASSUME NEW p \in Pair
               PROVE  Flow(chan'[p], d_snapshot_id, p[1], d_snapshot'[p[1]], d_snapshot'[p[2]])
    BY DEF Flows
  <2>1. Flow(chan[p], d_snapshot_id, p[1], d_snapshot[p[1]], d_snapshot[p[2]])
    BY DEF BankInv, Flows
  <2>2. Alike(d_snapshot[p[1]], d_snapshot'[p[1]], p[1])
          /\ Alike(d_snapshot[p[2]], d_snapshot'[p[2]], p[2]) /\ p[1] \in Peers(p[2])
    BY PairIs
  <2>3. /\ Marking(chan'[p]) <=> Marking(chan[p])
        /\ Single(chan[p], d_snapshot_id) => Single(chan'[p], d_snapshot_id)
    OBVIOUS
  <2> QED BY ONLY <2>1, <2>2, <2>3, FlowAlike
<1>3. \A b \in Branch : /\ d_snapshot'[b] = None <=> d_snapshot[b] = None
                        /\ d_snapshot[b] # None => d_snapshot'[b].id = d_snapshot[b].id
  BY DEF Alike
<1>4. Behind'
  BY <1>3 DEF BankInv, Behind
<1>5. Retrieving'
  <2> SUFFICES ASSUME ~asked, NEW b \in Branch, ctl[b] # <<>> PROVE Returnable(b)'
    BY DEF Retrieving
  <2>1. Returnable(b)
    BY DEF BankInv, Retrieving
  <2>2. d_snapshot'[b] \in SnapshotOf(b) /\ d_snapshot[b] \in SnapshotOf(b)
    BY <2>1 DEF Alike, Returnable, BankInv, Types
  <2>3. Complete(d_snapshot'[b])
    BY <2>1, <2>2 DEF Returnable, Complete, Alike, SnapshotOf
  <2> QED BY <1>3, <2>1, <2>3 DEF Returnable
<1>6. \A b \in Branch : Taken(b)' <=> Taken(b)
  BY <1>3 DEF Taken
<1>7. Taking'
  BY <1>6 DEF BankInv, Taking, Started, Beginning
<1> QED BY <1>1, <1>2, <1>4, <1>5, <1>7 DEF BankInv, NoExplosion

\* A snapshot agrees with itself.
LEMMA Same ==
  ASSUME Types
  PROVE  \A b \in Branch : Alike(d_snapshot[b], d_snapshot[b], b)
BY DEF Types, Alike

\* A payment is made.
LEMMA SendMoneyStep ==
  ASSUME BankInv, NEW p \in Pair, NEW money \in 1..d_money[p[1]], SendMoney(p[1], p[2], money)
  PROVE  BankInv'
<1>0. Types /\ p[1] \in Branch /\ p = <<p[1], p[2]>>
  BY PairIs DEF BankInv
<1>1. money \in Nat /\ d_money[p[1]] - money \in Nat
  BY <1>0 DEF Types
<1>2. d_money' = [d_money EXCEPT ![p[1]] = d_money[p[1]] - money]
  BY DEF SendMoney
<1>3. d_money' \in [Branch -> Nat]
  BY <1>0, <1>1, <1>2 DEF Types
<1> DEFINE q == chan[p]
           q2 == Append(q, Transfer(money))
<1>4. chan' = [chan EXCEPT ![p] = q2]
  BY <1>0 DEF SendMoney
<1>5. q \in Seq(Message)
  BY <1>0 DEF Types
<1>6. /\ q2 \in Seq(Message) /\ (Marking(q2) <=> Marking(q))
      /\ Single(q, d_snapshot_id) => Single(q2, d_snapshot_id)
  BY <1>1, <1>5, PaymentSent
<1> HIDE DEF q2
<1>7. chan' \in [Pair -> Seq(Message)]
  BY <1>0, <1>4, <1>6 DEF Types
<1>8. ASSUME NEW r \in Pair
      PROVE  /\ Marking(chan'[r]) <=> Marking(chan[r])
             /\ Single(chan[r], d_snapshot_id) => Single(chan'[r], d_snapshot_id)
  <2>1. CASE r = p
    <3>1. chan'[r] = q2 /\ chan[r] = q
      BY <1>0, <1>4, <2>1 DEF Types
    <3> QED BY <1>6, <3>1
  <2>2. CASE r # p
    <3>1. chan'[r] = chan[r]
      BY <1>0, <1>4, <2>2 DEF Types
    <3> QED BY <3>1
  <2> QED BY <2>1, <2>2
<1>9. /\ d_snapshot' = d_snapshot /\ ctl' = ctl /\ d_snapshot_id' = d_snapshot_id
      /\ asked' = asked /\ dead' = dead
  BY DEF SendMoney
<1>10. /\ d_snapshot' = [b \in Branch |-> d_snapshot'[b]]
       /\ \A b \in Branch : Alike(d_snapshot[b], d_snapshot'[b], b)
  BY <1>0, <1>9, Same DEF Types
<1> QED BY <1>3, <1>7, <1>8, <1>9, <1>10, Quietly

\* A payment arrives.
LEMMA HandleTransferStep ==
  ASSUME BankInv, NEW p \in Pair, HandleTransfer(p)
  PROVE  BankInv'
<1> DEFINE a == p[1]
           b == p[2]
           q == chan[p]
           q2 == Tail(q)
           m == Head(q).money
<1>0. Types /\ a \in Peers(b) /\ b \in Branch /\ q \in Seq(Message)
  BY PairIs DEF BankInv, Types
<1>1. q # <<>> /\ Head(q).type = "Transfer"
  BY DEF HandleTransfer, Arrived
<1>2. m \in Nat
  <2>1. Head(q) \in Message
    BY <1>0, <1>1
  <2> QED BY <1>1, <2>1 DEF Message
<1>3. /\ d_money' = [d_money EXCEPT ![b] = d_money[b] + m]
      /\ d_snapshot' = [d_snapshot EXCEPT ![b] = Recorded(d_snapshot[b], a, m)]
      /\ chan' = [chan EXCEPT ![p] = q2]
      /\ ctl' = ctl /\ d_snapshot_id' = d_snapshot_id /\ asked' = asked /\ dead' = dead
  BY DEF HandleTransfer
<1>4. d_money' \in [Branch -> Nat]
  BY <1>0, <1>2, <1>3 DEF Types
<1>5. /\ q2 \in Seq(Message) /\ (Marking(q2) <=> Marking(q))
      /\ Single(q, d_snapshot_id) => Single(q2, d_snapshot_id)
  <2>1. Head(q).type # "Marker"
    BY <1>1
  <2> HIDE DEF q
  <2> QED BY <1>0, <1>1, <2>1, PaymentTaken
<1> DEFINE s == d_snapshot[b]
           s2 == Recorded(s, a, m)
<1>6. Alike(s, s2, b)
  <2>1. s = None \/ s \in SnapshotOf(b)
    BY <1>0 DEF Types
  <2> HIDE DEF s, m, a, b
  <2> QED BY <1>0, <1>2, <2>1, RecordedIs
<1> HIDE DEF q2, s2
<1>7. chan' \in [Pair -> Seq(Message)]
  BY <1>0, <1>3, <1>5 DEF Types
<1>8. ASSUME NEW r \in Pair
      PROVE  /\ Marking(chan'[r]) <=> Marking(chan[r])
             /\ Single(chan[r], d_snapshot_id) => Single(chan'[r], d_snapshot_id)
  <2>1. CASE r = p
    <3>1. chan'[r] = q2 /\ chan[r] = q
      BY <1>0, <1>3, <2>1 DEF Types
    <3> QED BY <1>5, <3>1
  <2>2. CASE r # p
    <3>1. chan'[r] = chan[r]
      BY <1>0, <1>3, <2>2 DEF Types
    <3> QED BY <3>1
  <2> QED BY <2>1, <2>2
<1>9. d_snapshot' = [d_snapshot EXCEPT ![b] = s2]
  BY <1>3 DEF s2
<1>10. d_snapshot' = [c \in Branch |-> d_snapshot'[c]]
  BY <1>0, <1>9 DEF Types
<1>11. ASSUME NEW c \in Branch
       PROVE  Alike(d_snapshot[c], d_snapshot'[c], c)
  <2>1. CASE c = b
    <3>1. d_snapshot'[c] = s2
      BY <1>0, <1>9, <2>1 DEF Types
    <3> QED BY <1>6, <2>1, <3>1
  <2>2. CASE c # b
    <3>1. d_snapshot'[c] = d_snapshot[c]
      BY <1>0, <1>9, <2>2 DEF Types
    <3> QED BY <1>0, <3>1, Same
  <2> QED BY <2>1, <2>2
<1> QED BY <1>3, <1>4, <1>7, <1>8, <1>10, <1>11, Quietly

\* Snapshot s of b, which has received what is no longer in the queues rest, says
\* which markers have arrived.
Ready(rest, b, s) ==
  \A p \in Pair :
    IF p[2] # b THEN rest[p] = chan[p]
    ELSE /\ Single(rest[p], d_snapshot_id)
         /\ Taken(p[1]) <=> Marking(rest[p]) \/ s.states[p[1]].done
         /\ ~(Marking(rest[p]) /\ s.states[p[1]].done)

NoCommand == \A a \in Branch : ctl[a] = <<>>

With(b, s) == [d_snapshot EXCEPT ![b] = s]

\* A branch begins the snapshot: it sends markers behind what is in the queues
\* rest, and its own snapshot is s.
LEMMA Begins ==
  ASSUME BankInv, asked, NEW b \in Branch, ~Taken(b),
         NEW rest \in [Pair -> Seq(Message)], NEW s \in SnapshotOf(b), s.id = d_snapshot_id,
         Ready(rest, b, s), chan' = SendMarkers(rest, b, d_snapshot_id), d_snapshot' = With(b, s),
         NoCommand', ctl' \in [Branch -> Seq(Control)],
         d_money' = d_money, d_snapshot_id' = d_snapshot_id, asked' = asked, dead' = dead
  PROVE  BankInv'
<1> DEFINE i == d_snapshot_id
<1>0. Types /\ i \in Nat /\ s # None
  BY NoneIsNo DEF BankInv, Types
<1>1. d_snapshot'[b] = s /\ \A a \in Branch : a # b => d_snapshot'[a] = d_snapshot[a]
  BY <1>0 DEF Types, With
<1>2. ASSUME NEW p \in Pair, p[1] = b
      PROVE  /\ chan'[p] \in Seq(Message)
             /\ Flow(chan'[p], i, b, s, d_snapshot[p[2]])
  <2>1. rest[p] = chan[p] /\ chan'[p] = Append(chan[p], Marker(i)) /\ chan[p] \in Seq(Message)
    BY <1>0, <1>2, PairIs DEF SendMarkers, Types, Ready
  <2>2. Flow(chan[p], i, b, d_snapshot[b], d_snapshot[p[2]])
    BY <1>2 DEF BankInv, Flows
  <2>3. ~Marking(chan[p]) /\ ~Closed(d_snapshot[p[2]], i, b)
    BY <2>2 DEF Flow, Begun, Taken
  <2> DEFINE q == chan[p]
             q2 == Append(q, Marker(i))
  <2>4. q2 \in Seq(Message) /\ Marking(q2) /\ Single(q2, i)
    BY <1>0, <2>1, <2>3, MarkerSent
  <2>5. Begun(s, i)
    BY <1>0 DEF Begun
  <2> HIDE DEF q2
  <2>6. Flow(q2, i, b, s, d_snapshot[p[2]])
    BY <2>3, <2>4, <2>5 DEF Flow
  <2> QED BY <2>1, <2>4, <2>6 DEF q2
<1>3. ASSUME NEW p \in Pair, p[1] # b, p[2] = b
      PROVE  /\ chan'[p] \in Seq(Message)
             /\ Flow(chan'[p], i, p[1], d_snapshot[p[1]], s)
  <2>1. chan'[p] = rest[p]
    BY <1>3 DEF SendMarkers
  <2>2. Taken(p[1]) <=> Begun(d_snapshot[p[1]], i)
    BY DEF Taken, Begun
  <2>3. Closed(s, i, p[1]) <=> s.states[p[1]].done
    BY <1>0 DEF Closed, Begun
  <2> QED BY <1>3, <2>1, <2>2, <2>3 DEF Flow, Ready
<1>4. ASSUME NEW p \in Pair, p[1] # b, p[2] # b
      PROVE  /\ chan'[p] \in Seq(Message)
             /\ Flow(chan'[p], i, p[1], d_snapshot[p[1]], d_snapshot[p[2]])
  <2>1. chan'[p] = chan[p]
    BY <1>4 DEF SendMarkers, Ready
  <2> QED BY <1>0, <2>1 DEF BankInv, Flows, Types
<1>5. Flows'
  <2> SUFFICES ASSUME NEW p \in Pair
               PROVE  Flow(chan'[p], i, p[1], d_snapshot'[p[1]], d_snapshot'[p[2]])
    BY DEF Flows
  <2>1. p[1] \in Branch /\ p[2] \in Branch /\ p[1] # p[2]
    BY PairIs
  <2> QED BY <1>1, <1>2, <1>3, <1>4, <2>1
<1>6. Types'
  <2>1. chan' \in [Pair -> Seq(Message)]
    BY <1>2, <1>3, <1>4 DEF SendMarkers
  <2>2. d_snapshot' = [a \in Branch |-> d_snapshot'[a]]
    BY <1>0 DEF Types, With
  <2> QED BY <1>0, <1>1, <2>1, <2>2 DEF Types
<1>7. Behind'
  <2> SUFFICES ASSUME NEW c \in Branch, d_snapshot'[c] # None PROVE d_snapshot'[c].id <= i
    BY DEF Behind
  <2>1. CASE c = b
    BY <1>0, <1>1, <2>1
  <2>2. CASE c # b
    BY <1>1, <2>2 DEF BankInv, Behind
  <2> QED BY <2>1, <2>2
<1>8. Retrieving'
  BY DEF Retrieving
<1>9. Taken(b)'
  BY <1>0, <1>1 DEF Taken
<1>10. Taking'
  BY <1>9 DEF Taking, Started, NoCommand
<1> QED BY <1>5, <1>6, <1>7, <1>8, <1>10 DEF BankInv, NoExplosion

\* The first branch begins.
LEMMA HandleInitSnapshotStep ==
  ASSUME BankInv, NEW b \in Branch, HandleInitSnapshot(b)
  PROVE  BankInv'
<1> DEFINE i == d_snapshot_id
<1>0. Types /\ i \in Nat /\ d_money[b] \in Nat /\ chan \in [Pair -> Seq(Message)]
  BY DEF BankInv, Types
<1>1. ctl[b] # <<>> /\ Head(ctl[b]).type = "InitSnapshot"
  BY DEF HandleInitSnapshot
<1>2. asked
  BY <1>1 DEF BankInv, Retrieving, Returnable, RetrieveSnapshot
<1>3. Beginning(b)
  BY <1>1, <1>2 DEF BankInv, Taking, Started, Beginning
<1>4. Head(ctl[b]).id = i /\ Tail(ctl[b]) = <<>>
  BY <1>0, <1>3, OnlyOne DEF Beginning, InitSnapshot, Types
<1> DEFINE s == NewSnapshot(b, i)
<1>5. s \in SnapshotOf(b) /\ s.id = i /\ \A a \in Peers(b) : ~s.states[a].done
  BY <1>0, NewIs
<1>6. /\ d_snapshot' = [d_snapshot EXCEPT ![b] = s]
      /\ chan' = SendMarkers(chan, b, i)
      /\ ctl' = [ctl EXCEPT ![b] = <<>>]
      /\ d_money' = d_money /\ d_snapshot_id' = d_snapshot_id /\ asked' = asked /\ dead' = dead
  BY <1>4 DEF HandleInitSnapshot
<1> HIDE DEF s
<1>7. (\A a \in Branch : ctl'[a] = <<>>) /\ ctl' \in [Branch -> Seq(Control)]
  BY <1>0, <1>3, <1>6 DEF Beginning, Types
<1>8. ASSUME NEW p \in Pair, p[2] = b
      PROVE  /\ Single(chan[p], i)
             /\ Taken(p[1]) <=> Marking(chan[p]) \/ s.states[p[1]].done
             /\ ~(Marking(chan[p]) /\ s.states[p[1]].done)
  <2>1. p[1] \in Branch /\ p[1] \in Peers(b)
    BY <1>8, PairIs
  <2>2. ~Taken(p[1]) /\ ~Taken(b)
    BY <1>3, <2>1 DEF Beginning
  <2>3. Flow(chan[p], i, p[1], d_snapshot[p[1]], d_snapshot[b])
    BY <1>8 DEF BankInv, Flows
  <2>4. Single(chan[p], i) /\ ~Marking(chan[p])
    BY <2>2, <2>3 DEF Flow, Begun, Taken
  <2> QED BY <1>5, <2>1, <2>2, <2>4
<1>9. ~Taken(b)
  BY <1>3 DEF Beginning
<1>10. Ready(chan, b, s)
  BY <1>8 DEF Ready
<1>11. NoCommand' /\ d_snapshot' = With(b, s)
  BY <1>6, <1>7 DEF NoCommand, With
<1> QED BY <1>0, <1>2, <1>5, <1>6, <1>7, <1>9, <1>10, <1>11, Begins

\* A marker makes a branch begin, or completes a channel of one that has.
LEMMA HandleMarkerStep ==
  ASSUME BankInv, NEW p \in Pair, HandleMarker(p)
  PROVE  BankInv'
<1> DEFINE i == d_snapshot_id
           a == p[1]
           b == p[2]
           q == chan[p]
           rest == [chan EXCEPT ![p] = Tail(q)]
<1>0. /\ Types /\ i \in Nat /\ d_money[b] \in Nat /\ a \in Peers(b) /\ a \in Branch
      /\ b \in Branch /\ a # b /\ q \in Seq(Message)
  BY PairIs DEF BankInv, Types
<1>1. q # <<>> /\ Head(q).type = "Marker"
  BY DEF HandleMarker, Arrived
<1>2. Flow(q, i, a, d_snapshot[a], d_snapshot[b])
  BY DEF BankInv, Flows
<1>3. Single(q, i)
  BY <1>2 DEF Flow
<1>4. /\ Tail(q) \in Seq(Message) /\ Marking(q) /\ Head(q).id = i
      /\ ~Marking(Tail(q)) /\ Single(Tail(q), i)
  <2> HIDE DEF q, i
  <2> QED BY <1>0, <1>1, <1>3, MarkerTaken
<1>5. Taken(a) /\ ~Closed(d_snapshot[b], i, a)
  BY <1>2, <1>4 DEF Flow, Begun, Taken
<1>6. asked
  BY <1>0, <1>5 DEF BankInv, Behind, Taken, Types
<1>7. Started
  BY <1>0, <1>5, <1>6 DEF BankInv, Taking, Beginning
<1>8. /\ rest \in [Pair -> Seq(Message)] /\ rest[p] = Tail(q)
      /\ \A r \in Pair : r # p => rest[r] = chan[r]
  BY <1>0, <1>4 DEF Types
<1>9. /\ ctl' = ctl /\ d_money' = d_money /\ d_snapshot_id' = d_snapshot_id
      /\ asked' = asked /\ dead' = dead
  BY DEF HandleMarker
<1>10. CASE ~Taken(b)
  <2> DEFINE n == NewSnapshot(b, i)
             s == Marked(n, a)
  <2>1. /\ d_snapshot' = [d_snapshot EXCEPT ![b] = s]
        /\ chan' = SendMarkers(rest, b, i)
    BY <1>4, <1>10 DEF HandleMarker, Taken
  <2>2. n \in SnapshotOf(b) /\ n.id = i /\ \A c \in Peers(b) : ~n.states[c].done
    BY <1>0, NewIs
  <2> HIDE DEF n
  <2>3. /\ s \in SnapshotOf(b) /\ s.id = i /\ s.states[a].done
        /\ \A c \in Peers(b) : c # a => ~s.states[c].done
    BY <1>0, <2>2, MarkedIs
  <2> HIDE DEF s, rest
  <2>4. ASSUME NEW r \in Pair, r[2] = b
        PROVE  /\ Single(rest[r], i)
               /\ Taken(r[1]) <=> Marking(rest[r]) \/ s.states[r[1]].done
               /\ ~(Marking(rest[r]) /\ s.states[r[1]].done)
    <3>1. CASE r = p
      BY <1>4, <1>5, <1>8, <2>3, <3>1
    <3>2. CASE r # p
      <4>1. r[1] # a /\ r[1] \in Peers(b) /\ rest[r] = chan[r]
        <5>1. p = <<a, b>> /\ r = <<r[1], b>> /\ r[1] \in Peers(b)
          BY <2>4, PairIs
        <5> QED BY <1>8, <3>2, <5>1
      <4>2. Flow(chan[r], i, r[1], d_snapshot[r[1]], d_snapshot[b])
        BY <2>4 DEF BankInv, Flows
      <4>3. ~Closed(d_snapshot[b], i, r[1])
        BY <1>10 DEF Closed, Begun, Taken
      <4>4. Taken(r[1]) <=> Begun(d_snapshot[r[1]], i)
        BY DEF Taken, Begun
      <4> QED BY <2>3, <4>1, <4>2, <4>3, <4>4 DEF Flow
    <3> QED BY <3>1, <3>2
  <2>5. \A r \in Pair : r[2] # b => rest[r] = chan[r]
    BY <1>8
  <2>6. (\A c \in Branch : ctl'[c] = <<>>) /\ ctl' \in [Branch -> Seq(Control)]
    BY <1>0, <1>7, <1>9 DEF Started, Types
  <2>7. Ready(rest, b, s)
    BY <2>4, <2>5 DEF Ready
  <2>8. NoCommand' /\ d_snapshot' = With(b, s)
    BY <2>1, <2>6 DEF NoCommand, With
  <2> HIDE DEF b, a
  <2> QED BY <1>0, <1>6, <1>8, <1>9, <1>10, <2>1, <2>3, <2>6, <2>7, <2>8, Begins
<1>11. CASE Taken(b)
  <2> DEFINE s == Marked(d_snapshot[b], a)
  <2>1. d_snapshot' = [d_snapshot EXCEPT ![b] = s] /\ chan' = rest
    BY <1>4, <1>11 DEF HandleMarker, Taken
  <2>2. d_snapshot[b] \in SnapshotOf(b) /\ d_snapshot[b].id = i
    BY <1>0, <1>11 DEF Types, Taken
  <2>3. /\ s \in SnapshotOf(b) /\ s.id = i /\ s.states[a].done
        /\ \A c \in Peers(b) : c # a => s.states[c] = d_snapshot[b].states[c]
    BY <1>0, <2>2, MarkedIs
  <2> HIDE DEF s
  <2>4. s # None
    BY <1>0, <2>3, NoneIsNo
  <2>5. d_snapshot'[b] = s /\ \A c \in Branch : c # b => d_snapshot'[c] = d_snapshot[c]
    BY <1>0, <2>1 DEF Types
  <2>6. Types'
    <3>1. d_snapshot' = [c \in Branch |-> d_snapshot'[c]]
      BY <1>0, <2>1 DEF Types
    <3> QED BY <1>0, <1>8, <1>9, <2>1, <2>3, <2>5, <3>1 DEF Types
  <2>7. \A c \in Branch : Begun(d_snapshot'[c], i) <=> Begun(d_snapshot[c], i)
    BY <2>2, <2>3, <2>4, <2>5, <1>11 DEF Begun, Taken
  <2>8. \A c \in Branch : Taken(c)' <=> Taken(c)
    BY <1>9, <2>7 DEF Begun, Taken
  <2> HIDE DEF rest
  <2>9. ASSUME NEW r \in Pair
        PROVE  Flow(chan'[r], i, r[1], d_snapshot'[r[1]], d_snapshot'[r[2]])
    <3>0. r[1] \in Branch /\ r[2] \in Branch /\ r[1] \in Peers(r[2]) /\ r = <<r[1], r[2]>>
      BY PairIs
    <3>1. CASE r = p
      <4>1. Closed(s, i, a)
        BY <2>3, <2>4 DEF Closed, Begun
      <4>2. Begun(d_snapshot'[a], i)
        BY <1>0, <1>5, <2>7 DEF Begun, Taken
      <4>3. chan'[r] = Tail(q)
        BY <1>8, <2>1, <3>1
      <4> QED BY <1>4, <2>5, <3>1, <4>1, <4>2, <4>3 DEF Flow
    <3>2. CASE r # p
      <4>1. Flow(chan[r], i, r[1], d_snapshot[r[1]], d_snapshot[r[2]])
        BY DEF BankInv, Flows
      <4>2. chan'[r] = chan[r]
        BY <1>8, <2>1, <3>2
      <4>3. Closed(d_snapshot'[r[2]], i, r[1]) <=> Closed(d_snapshot[r[2]], i, r[1])
        <5>1. CASE r[2] = b
          <6>1. r[1] # a
            BY <3>0, <3>2, <5>1, PairIs
          <6>2. s.states[r[1]] = d_snapshot[b].states[r[1]]
            BY <2>3, <3>0, <5>1, <6>1
          <6> QED BY <2>2, <2>3, <2>4, <2>5, <5>1, <6>2, <1>11 DEF Closed, Begun, Taken
        <5>2. CASE r[2] # b
          BY <2>5, <3>0, <5>2
        <5> QED BY <5>1, <5>2
      <4> QED BY <2>7, <3>0, <4>1, <4>2, <4>3 DEF Flow
    <3> QED BY <3>1, <3>2
  <2>10. Flows'
    BY <1>9, <2>9 DEF Flows
  <2>11. Behind'
    <3> SUFFICES ASSUME NEW c \in Branch, d_snapshot'[c] # None PROVE d_snapshot'[c].id <= i
      BY <1>6, <1>9 DEF Behind
    <3>1. CASE c = b
      BY <1>0, <2>3, <2>5, <3>1
    <3>2. CASE c # b
      BY <1>6, <2>5, <3>2 DEF BankInv, Behind
    <3> QED BY <3>1, <3>2
  <2>12. Retrieving' /\ Taking'
    BY <1>6, <1>7, <1>9, <2>8 DEF Retrieving, Taking, Started
  <2> QED BY <1>9, <2>6, <2>10, <2>11, <2>12 DEF BankInv, NoExplosion
<1> QED BY <1>10, <1>11

\* A branch that is asked for its snapshot has it.
LEMMA HandleRetrieveSnapshotStep ==
  ASSUME BankInv, NEW b \in Branch, HandleRetrieveSnapshot(b)
  PROVE  BankInv'
<1>0. Types
  BY DEF BankInv
<1>1. ctl[b] # <<>> /\ Head(ctl[b]).type = "RetrieveSnapshot"
  BY DEF HandleRetrieveSnapshot
<1>2. ~asked
  <2> SUFFICES ASSUME asked PROVE FALSE
    BY <1>0 DEF Types
  <2>1. PICK c \in Branch : Beginning(c)
    BY <1>1 DEF BankInv, Taking, Started
  <2>2. c = b /\ Head(ctl[b]) = InitSnapshot(d_snapshot_id)
    BY <1>1, <2>1 DEF Beginning
  <2> QED BY <1>1, <2>2 DEF InitSnapshot
<1>3. Returnable(b)
  BY <1>1, <1>2 DEF BankInv, Retrieving
<1>4. Head(ctl[b]).id = d_snapshot_id - 1
  BY <1>3 DEF Returnable, RetrieveSnapshot
<1>5. dead' = dead
  BY <1>3, <1>4 DEF HandleRetrieveSnapshot, Returnable
<1>6. /\ ctl' = [ctl EXCEPT ![b] = Tail(ctl[b])]
      /\ d_money' = d_money /\ d_snapshot' = d_snapshot /\ chan' = chan
      /\ d_snapshot_id' = d_snapshot_id /\ asked' = asked
  BY DEF HandleRetrieveSnapshot
<1>7. Tail(ctl[b]) = <<>>
  <2>1. ctl[b] \in Seq(Control) /\ Len(ctl[b]) = 1
    BY <1>0, <1>3 DEF Types, Returnable
  <2> QED BY <2>1, OnlyOne
<1>8. /\ ctl' \in [Branch -> Seq(Control)] /\ ctl'[b] = <<>>
      /\ \A a \in Branch : a # b => ctl'[a] = ctl[a]
  <2>1. ctl' = [ctl EXCEPT ![b] = <<>>]
    BY <1>6, <1>7, Zenon
  <2>2. <<>> \in Seq(Control) /\ ctl \in [Branch -> Seq(Control)]
    BY <1>0 DEF Types
  <2> QED BY <2>1, <2>2
<1>9. Types' /\ Flows' /\ Behind'
  BY <1>6, <1>8 DEF BankInv, Types, Flows, Behind
<1>10. Retrieving'
  <2> SUFFICES ASSUME NEW a \in Branch, ctl'[a] # <<>> PROVE Returnable(a)'
    BY DEF Retrieving
  <2>1. a # b /\ Returnable(a)
    BY <1>2, <1>8 DEF BankInv, Retrieving
  <2> QED BY <1>6, <1>8, <2>1 DEF Returnable
<1>11. Taking'
  BY <1>2, <1>6 DEF Taking
<1> QED BY <1>5, <1>9, <1>10, <1>11 DEF BankInv, NoExplosion

\* The controller asks a branch to begin.
LEMMA DoSnapshotStep ==
  ASSUME BankInv, NEW b \in Branch, DoSnapshot(b)
  PROVE  BankInv'
<1> DEFINE i == d_snapshot_id
<1>0. Types /\ i \in Nat
  BY DEF BankInv, Types
<1>1. /\ ~asked /\ asked' = TRUE /\ (\A a \in Branch : ctl[a] = <<>>)
      /\ d_money' = d_money /\ d_snapshot' = d_snapshot /\ chan' = chan
      /\ d_snapshot_id' = d_snapshot_id /\ dead' = dead
  BY DEF DoSnapshot, Settled
<1>2. ctl' = [ctl EXCEPT ![b] = Append(ctl[b], InitSnapshot(i))]
  BY DEF DoSnapshot
<1>3. InitSnapshot(i) \in Control
  BY <1>0 DEF InitSnapshot, Control
<1> DEFINE x == InitSnapshot(i)
           q == Append(<<>>, x)
<1> HIDE DEF x
<1>4. q \in Seq(Control) /\ Len(q) = 1 /\ Head(q) = x
  BY <1>3, FirstOne DEF x
<1>5. ctl' = [ctl EXCEPT ![b] = q]
  BY <1>1, <1>2 DEF x
<1> HIDE DEF q
<1>6. /\ ctl' \in [Branch -> Seq(Control)] /\ Len(ctl'[b]) = 1 /\ Head(ctl'[b]) = x
      /\ \A a \in Branch : a # b => ctl'[a] = <<>>
  BY <1>0, <1>1, <1>4, <1>5 DEF Types
<1>7. Types' /\ Flows'
  BY <1>1, <1>6 DEF BankInv, Types, Flows
<1>8. \A a \in Branch : d_snapshot[a] # None => d_snapshot[a].id < i
  BY <1>1 DEF BankInv, Behind
<1>9. \A a \in Branch : d_snapshot[a] # None => d_snapshot[a].id \in Nat
  BY <1>0 DEF Types, SnapshotOf
<1>10. Behind'
  BY <1>0, <1>1, <1>8, <1>9 DEF Behind
<1>11. \A a \in Branch : ~Taken(a)'
  BY <1>0, <1>1, <1>8, <1>9 DEF Taken
<1>12. Beginning(b)'
  BY <1>1, <1>6, <1>11 DEF Beginning, x
<1>13. Retrieving' /\ Taking'
  BY <1>1, <1>12 DEF Retrieving, Taking
<1> QED BY <1>1, <1>7, <1>10, <1>13 DEF BankInv, NoExplosion

\* When nothing of the snapshot is on its way any more, every branch has begun
\* and completed it: the one that began first has sent a marker to all others.
LEMMA SettledIsComplete ==
  ASSUME BankInv, asked, Settled, NEW b \in Branch
  PROVE  Taken(b) /\ Complete(d_snapshot[b])
<1>1. \A a \in Branch : ctl[a] = <<>>
  BY DEF Settled
<1>2. PICK c \in Branch : Taken(c)
  <2>1. ~\E a \in Branch : Beginning(a)
    BY <1>1 DEF Beginning
  <2> QED BY <2>1 DEF BankInv, Taking, Started
<1>3. ASSUME NEW a \in Branch, Taken(a), NEW d \in Branch, a # d
      PROVE  Taken(d) /\ d_snapshot[d].states[a].done
  <2> DEFINE p == <<a, d>>
  <2>1. p \in Pair /\ p[1] = a /\ p[2] = d
    BY <1>3 DEF Pair
  <2> HIDE DEF p
  <2>2. ~Marking(chan[p])
    BY <2>1 DEF Settled, Marking
  <2>3. Flow(chan[p], d_snapshot_id, a, d_snapshot[a], d_snapshot[d])
    BY <2>1 DEF BankInv, Flows
  <2>4. Closed(d_snapshot[d], d_snapshot_id, a)
    BY <1>3, <2>2, <2>3 DEF Flow, Begun, Taken
  <2> QED BY <2>4 DEF Closed, Begun, Taken
<1>4. \A a \in Branch : Taken(a)
  BY <1>2, <1>3
<1>5. d_snapshot[b] \in SnapshotOf(b)
  BY <1>4 DEF BankInv, Types, Taken
<1>6. DOMAIN d_snapshot[b].states = Peers(b)
  BY <1>5 DEF SnapshotOf
<1>7. \A a \in Peers(b) : d_snapshot[b].states[a].done
  BY <1>3, <1>4 DEF Peers
<1> QED BY <1>4, <1>6, <1>7 DEF Complete

\* The controller asks for the snapshot.
LEMMA DoRetrieveSnapshotStep ==
  ASSUME BankInv, DoRetrieveSnapshot
  PROVE  BankInv'
<1> DEFINE i == d_snapshot_id
           x == RetrieveSnapshot(i)
<1>0. Types /\ i \in Nat /\ i + 1 \in Nat \ {0} /\ (i + 1) - 1 = i
  BY DEF BankInv, Types
<1>1. /\ asked /\ asked' = FALSE /\ Settled /\ d_snapshot_id' = i + 1
      /\ d_money' = d_money /\ d_snapshot' = d_snapshot /\ chan' = chan /\ dead' = dead
      /\ ctl' = [b \in Branch |-> Append(ctl[b], x)]
  BY DEF DoRetrieveSnapshot
<1>2. x \in Control
  BY <1>0 DEF RetrieveSnapshot, Control
<1> HIDE DEF x
<1>3. \A b \in Branch : ctl[b] = <<>>
  BY <1>1 DEF Settled
<1>4. \A b \in Branch : ctl'[b] = Append(<<>>, x)
  BY <1>1, <1>3
<1>5. ctl' \in [Branch -> Seq(Control)]
  <2>1. Append(<<>>, x) \in Seq(Control)
    BY <1>2, FirstOne
  <2>2. ctl' = [b \in Branch |-> ctl'[b]]
    BY <1>1
  <2> HIDE DEF i
  <2> QED BY <1>4, <2>1, <2>2
<1>6. \A b \in Branch : Taken(b) /\ Complete(d_snapshot[b])
  BY <1>1, SettledIsComplete
<1>7. \A b \in Branch : d_snapshot[b] # None /\ d_snapshot[b].id = i
  BY <1>6 DEF Taken
<1>8. Types'
  BY <1>0, <1>1, <1>5 DEF Types
<1>9. Flows'
  <2> SUFFICES ASSUME NEW p \in Pair
               PROVE  Flow(chan[p], i + 1, p[1], d_snapshot[p[1]], d_snapshot[p[2]])
    BY <1>1 DEF Flows
  <2>1. ~Begun(d_snapshot[p[1]], i + 1) /\ ~Begun(d_snapshot[p[2]], i + 1)
    BY <1>0, <1>7, PairIs DEF Begun
  <2>2. \A j \in DOMAIN chan[p] : chan[p][j].type # "Marker"
    BY <1>1 DEF Settled
  <2> QED BY <2>1, <2>2 DEF Flow, Closed, Marking, Single
<1>10. Behind'
  BY <1>0, <1>1, <1>7 DEF Behind
<1>11. Retrieving'
  <2> SUFFICES ASSUME NEW b \in Branch PROVE Returnable(b)'
    BY DEF Retrieving
  <2>1. Len(ctl'[b]) = 1 /\ Head(ctl'[b]) = x
    BY <1>2, <1>4, FirstOne
  <2>2. x = RetrieveSnapshot(d_snapshot_id' - 1)
    BY <1>0, <1>1 DEF x
  <2> QED BY <1>0, <1>1, <1>6, <1>7, <2>1, <2>2 DEF Returnable
<1>12. Taking'
  BY <1>1 DEF Taking
<1> QED BY <1>1, <1>8, <1>9, <1>10, <1>11, <1>12 DEF BankInv, NoExplosion

\* Initially nothing is on its way.
LEMMA BankInit == Init => BankInv
<1> SUFFICES ASSUME Init PROVE BankInv
  OBVIOUS
<1>1. Types
  <2>1. d_money \in [Branch -> Nat] /\ d_snapshot_id \in Nat \ {0}
    BY BalanceAssumption DEF Init
  <2>2. asked \in BOOLEAN
    BY DEF Init
  <2>3. chan \in [Pair -> Seq(Message)] /\ ctl \in [Branch -> Seq(Control)]
    BY DEF Init
  <2>4. d_snapshot = [b \in Branch |-> d_snapshot[b]] /\ \A b \in Branch : d_snapshot[b] = None
    BY DEF Init
  <2> QED BY <2>1, <2>2, <2>3, <2>4 DEF Types
<1>2. Flows
  <2> SUFFICES ASSUME NEW p \in Pair
               PROVE  Flow(chan[p], d_snapshot_id, p[1], d_snapshot[p[1]], d_snapshot[p[2]])
    BY DEF Flows
  <2>1. chan[p] = <<>> /\ d_snapshot[p[1]] = None /\ d_snapshot[p[2]] = None
    BY PairIs DEF Init
  <2>2. DOMAIN chan[p] = {}
    BY <2>1
  <2> QED BY <2>1, <2>2 DEF Flow, Begun, Closed, Marking, Single
<1>3. Behind /\ Retrieving /\ Taking /\ NoExplosion
  BY DEF Init, Behind, Retrieving, Taking, NoExplosion
<1> QED BY <1>1, <1>2, <1>3 DEF BankInv

\* Every step keeps the invariant.
LEMMA BankNext == BankInv /\ [Next]_vars => BankInv'
<1> SUFFICES ASSUME BankInv, [Next]_vars PROVE BankInv'
  OBVIOUS
<1>1. CASE UNCHANGED vars
  BY <1>1 DEF vars, BankInv, Types, Flows, Behind, Retrieving, Returnable, Taking, Started,
              Beginning, Taken, NoExplosion
<1> QED BY <1>1, SendMoneyStep, HandleTransferStep, HandleMarkerStep, HandleInitSnapshotStep,
           HandleRetrieveSnapshotStep, DoSnapshotStep, DoRetrieveSnapshotStep DEF Next

(***************************************************************************)
(* For any number of branches, snapshots and payments, no branch is asked  *)
(* for a snapshot before it has begun and completed it, so that to_message *)
(* never throws: whoever begins, the markers alone reach every branch and  *)
(* complete every channel before the last of them has arrived.             *)
(***************************************************************************)
THEOREM NoneExplodes == Spec => []NoExplosion
<1>1. BankInv => NoExplosion
  BY DEF BankInv
<1> QED BY BankInit, BankNext, <1>1, PTL DEF Spec
-----------------------------------------------------------------------------
(* Money in a queue                                                        *)

\* What a message is worth.
Worth(x) == IF x.type = "Transfer" THEN x.money ELSE 0

Values(q, S) == [k \in S |-> Worth(q[k])]

\* The places ahead of the marker, and what is there.
Places(q, i) == {k \in DOMAIN q : \A j \in Markers(q, i) : k < j}

Ahead(q, i) == InFlight(q, Places(q, i))

\* What a channel stands for whose sender has snapshot s.
Way(q, i, s) == InFlight(q, Counted(q, i, Begun(s, i)))

LEMMA WorthIs ==
  /\ \A x \in Message : Worth(x) \in Int
  /\ \A x \in Message : x.type = "Marker" => Worth(x) = 0
  /\ \A m \in Nat : Worth(Transfer(m)) = m
BY DEF Worth, Message, Transfer

LEMMA QueueIs ==
  ASSUME NEW q \in Seq(Message), NEW S \in SUBSET DOMAIN q
  PROVE  /\ DOMAIN q = 1..Len(q) /\ Len(q) \in Nat
         /\ IsFiniteSet(S)
         /\ InFlight(q, S) = Sum(Values(q, S), S)
         /\ \A k \in S : Values(q, S)[k] = Worth(q[k]) /\ Values(q, S)[k] \in Int
         /\ InFlight(q, S) \in Int
<1>1. DOMAIN q = 1..Len(q) /\ Len(q) \in Nat
  OBVIOUS
<1>2. IsFiniteSet(DOMAIN q)
  BY <1>1, FS_Interval
<1>3. IsFiniteSet(S)
  BY <1>2, FS_Subset
<1>4. \A k \in S : Values(q, S)[k] = Worth(q[k]) /\ Values(q, S)[k] \in Int
  BY WorthIs DEF Values
<1>5. DOMAIN Values(q, S) = S /\ InFlight(q, S) = SumFunction(Values(q, S))
  BY DEF Values, InFlight, Worth
<1>6. InFlight(q, S) = Sum(Values(q, S), S)
  BY <1>5, SumFunctionIs
<1>7. Sum(Values(q, S), S) \in Int
  BY <1>3, <1>4, SumInt
<1> QED BY <1>1, <1>3, <1>4, <1>6, <1>7

LEMMA InFlightNothing ==
  ASSUME NEW q \in Seq(Message)
  PROVE  InFlight(q, {}) = 0
<1>1. InFlight(q, {}) = Sum(Values(q, {}), {})
  BY QueueIs
<1> QED BY <1>1, SumEmpty

\* Two queues that agree at the places.
LEMMA InFlightSame ==
  ASSUME NEW q, NEW r, NEW S, \A k \in S : r[k] = q[k]
  PROVE  InFlight(r, S) = InFlight(q, S)
BY DEF InFlight

\* One more place.
LEMMA InFlightAdd ==
  ASSUME NEW q \in Seq(Message), NEW S \in SUBSET DOMAIN q, NEW e \in DOMAIN q, e \notin S
  PROVE  InFlight(q, S \cup {e}) = InFlight(q, S) + Worth(q[e])
<1> DEFINE T == S \cup {e}
           f == Values(q, S)
           g == Values(q, T)
<1>1. T \in SUBSET DOMAIN q
  OBVIOUS
<1>2. InFlight(q, S) = Sum(f, S) /\ IsFiniteSet(S)
  BY QueueIs
<1>3. InFlight(q, T) = Sum(g, T)
  BY <1>1, QueueIs
<1>4. \A k \in S : f[k] \in Int /\ f[k] = Worth(q[k])
  BY QueueIs
<1>5. \A k \in T : g[k] \in Int /\ g[k] = Worth(q[k])
  BY <1>1, QueueIs
<1>6. g[e] \in Int /\ g[e] = Worth(q[e]) /\ \A x \in S : f[x] \in Int /\ g[x] = f[x]
  BY <1>4, <1>5
<1> HIDE DEF f, g
<1>7. Sum(g, S \cup {e}) = Sum(f, S) + g[e]
  <2>1. IsFiniteSet(S) /\ g[e] \in Int /\ \A x \in S : f[x] \in Int /\ g[x] = f[x]
    BY <1>2, <1>6
  <2> QED BY ONLY <2>1, e \notin S, SumGrows
<1> QED BY <1>2, <1>3, <1>6, <1>7

\* The places of a queue whose first message is taken.
LEMMA InFlightShift ==
  ASSUME NEW q \in Seq(Message), q # <<>>, NEW S \in SUBSET DOMAIN Tail(q)
  PROVE  /\ {k + 1 : k \in S} \in SUBSET DOMAIN q
         /\ InFlight(q, {k + 1 : k \in S}) = InFlight(Tail(q), S)
<1> DEFINE t == Tail(q)
           T == {k + 1 : k \in S}
           f == Values(q, T)
           g == Values(t, S)
<1>1. /\ t \in Seq(Message) /\ S \in SUBSET DOMAIN t
      /\ \A j \in DOMAIN t : j + 1 \in DOMAIN q /\ t[j] = q[j + 1]
      /\ DOMAIN t \subseteq Nat \ {0}
  BY TailIs
<1>2. T \in SUBSET DOMAIN q /\ S \in SUBSET Nat
  BY <1>1
<1> HIDE DEF t
<1>3. InFlight(q, T) = Sum(f, T)
  BY <1>2, QueueIs
<1>4. InFlight(t, S) = Sum(g, S) /\ IsFiniteSet(S)
  BY <1>1, QueueIs
<1>5. \A k \in T : f[k] \in Int /\ f[k] = Worth(q[k])
  BY <1>2, QueueIs
<1>6. \A k \in S : g[k] = Worth(t[k])
  BY <1>1, QueueIs
<1>7. \A k \in S : f[k + 1] \in Int /\ g[k] = f[k + 1]
  <2> HIDE DEF f, g
  <2> QED BY <1>1, <1>5, <1>6
<1> HIDE DEF f, g
<1>8. Sum(f, {k + 1 : k \in S}) = Sum(g, S)
  BY ONLY <1>2, <1>4, <1>7, SumShift
<1> QED BY <1>2, <1>3, <1>4, <1>8 DEF t

\* In a queue with markers of one snapshot only.
LEMMA MarkersIs ==
  ASSUME NEW q \in Seq(Message), NEW i \in Nat
  PROVE  /\ \A j \in DOMAIN q : j \in Markers(q, i) <=> q[j].type = "Marker" /\ q[j].id = i
         /\ ~Marking(q) => Markers(q, i) = {} /\ Places(q, i) = DOMAIN q
         /\ Single(q, i) /\ Marking(q) => Markers(q, i) # {}
         /\ Places(q, i) \in SUBSET DOMAIN q
<1>1. ASSUME NEW j \in DOMAIN q
      PROVE  j \in Markers(q, i) <=> q[j].type = "Marker" /\ q[j].id = i
  <2>1. q[j] \in Message
    OBVIOUS
  <2>2. q[j] = Marker(i) <=> q[j].type = "Marker" /\ q[j].id = i
    BY <2>1 DEF Message, Marker
  <2> QED BY <2>2 DEF Markers
<1>2. Markers(q, i) \subseteq DOMAIN q
  BY DEF Markers
<1>3. ~Marking(q) => Markers(q, i) = {}
  BY <1>1, <1>2 DEF Marking
<1>4. ~Marking(q) => Places(q, i) = DOMAIN q
  BY <1>3 DEF Places
<1>5. Single(q, i) /\ Marking(q) => Markers(q, i) # {}
  BY <1>1 DEF Marking, Single
<1> QED BY <1>1, <1>3, <1>4, <1>5 DEF Places

\* What a channel stands for.
LEMMA WayIs ==
  ASSUME NEW q \in Seq(Message), NEW i \in Nat, NEW s, Single(q, i)
  PROVE  /\ Begun(s, i) /\ ~Marking(q) => Way(q, i, s) = 0
         /\ ~Begun(s, i) \/ Marking(q) => Way(q, i, s) = Ahead(q, i)
         /\ Way(q, i, s) \in Int /\ Ahead(q, i) \in Int
<1>1. Ahead(q, i) \in Int
  BY MarkersIs, QueueIs DEF Ahead
<1> DEFINE C == Counted(q, i, Begun(s, i))
<1>0. Way(q, i, s) = InFlight(q, C)
  BY DEF Way
<1>2. CASE Begun(s, i) /\ ~Marking(q)
  <2>1. C = {}
    BY <1>2, MarkersIs DEF Counted
  <2> HIDE DEF C
  <2>2. Way(q, i, s) = 0
    BY <1>0, <2>1, InFlightNothing
  <2> QED BY <1>1, <1>2, <2>2
<1>3. CASE ~Begun(s, i) \/ Marking(q)
  <2>1. C = Places(q, i)
    BY <1>3, MarkersIs DEF Counted, Places
  <2> HIDE DEF C
  <2>2. Way(q, i, s) = Ahead(q, i)
    BY <1>0, <2>1 DEF Ahead
  <2> QED BY <1>1, <1>3, <2>2
<1> QED BY <1>2, <1>3

\* A payment goes into a queue without a marker.
LEMMA AheadPaid ==
  ASSUME NEW q \in Seq(Message), NEW i \in Nat, NEW m \in Nat, ~Marking(q)
  PROVE  Ahead(Append(q, Transfer(m)), i) = Ahead(q, i) + m
<1> DEFINE x == Transfer(m)
           r == Append(q, x)
           n == Len(q)
           e == n + 1
<1>1. x \in Message /\ Worth(x) = m
  BY WorthIs DEF Transfer, Message
<1>2. r \in Seq(Message) /\ ~Marking(r)
  BY PaymentSent
<1> HIDE DEF x
<1>3. /\ DOMAIN q = 1..n /\ n \in Nat /\ DOMAIN r = 1..(n + 1) /\ r[e] = x
      /\ \A k \in 1..n : r[k] = q[k]
  BY <1>1
<1> HIDE DEF r, n
<1>4. DOMAIN r = DOMAIN q \cup {e} /\ e \notin DOMAIN q /\ e \in DOMAIN r
        /\ DOMAIN q \in SUBSET DOMAIN r
  BY <1>3
<1>5. Places(q, i) = DOMAIN q /\ Places(r, i) = DOMAIN r
  BY <1>2, MarkersIs
<1>6. InFlight(r, DOMAIN q) = InFlight(q, DOMAIN q)
  BY <1>3, InFlightSame
<1> DEFINE D == DOMAIN q
<1> HIDE DEF D, e
<1>7. InFlight(r, D \cup {e}) = InFlight(r, D) + Worth(r[e])
  BY <1>2, <1>4, InFlightAdd DEF D
<1> QED BY <1>1, <1>3, <1>4, <1>5, <1>6, <1>7 DEF Ahead, D, r, x

\* A payment goes behind the marker.
LEMMA AheadPaidLate ==
  ASSUME NEW q \in Seq(Message), NEW i \in Nat, NEW m \in Nat, Marking(q), Single(q, i)
  PROVE  Ahead(Append(q, Transfer(m)), i) = Ahead(q, i)
<1> DEFINE x == Transfer(m)
           r == Append(q, x)
           n == Len(q)
<1>1. x \in Message /\ x.type # "Marker"
  BY DEF Transfer, Message
<1>2. r \in Seq(Message)
  BY PaymentSent
<1> HIDE DEF x
<1>3. /\ DOMAIN q = 1..n /\ n \in Nat /\ DOMAIN r = 1..(n + 1) /\ r[n + 1] = x
      /\ \A k \in 1..n : r[k] = q[k]
  BY <1>1
<1> HIDE DEF r, n
<1>4. Markers(r, i) = Markers(q, i)
  <2>1. ASSUME NEW j \in DOMAIN r PROVE j \in Markers(r, i) <=> j \in Markers(q, i)
    BY <1>1, <1>2, <1>3, MarkersIs DEF Markers
  <2>2. Markers(r, i) \subseteq DOMAIN r /\ Markers(q, i) \subseteq DOMAIN r
    BY <1>3 DEF Markers
  <2> QED BY <2>1, <2>2
<1>5. PICK j \in Markers(q, i) : j \in DOMAIN q
  BY MarkersIs DEF Markers
<1>6. Places(r, i) = Places(q, i)
  BY <1>3, <1>4, <1>5 DEF Places
<1>7. Places(q, i) \subseteq 1..n
  BY <1>3 DEF Places
<1>8. InFlight(r, Places(q, i)) = InFlight(q, Places(q, i))
  BY <1>3, <1>7, InFlightSame
<1> QED BY <1>6, <1>8 DEF Ahead, r, x

\* A payment is taken from the head of the queue.
LEMMA AheadTaken ==
  ASSUME NEW q \in Seq(Message), NEW i \in Nat, q # <<>>, Head(q).type = "Transfer"
  PROVE  Ahead(q, i) = Ahead(Tail(q), i) + Head(q).money
<1> DEFINE t == Tail(q)
           S == Places(t, i)
           T == {k + 1 : k \in S}
<1>1. /\ t \in Seq(Message) /\ Head(q) = q[1] /\ 1 \in DOMAIN q
      /\ \A j \in DOMAIN t : j + 1 \in DOMAIN q /\ t[j] = q[j + 1]
      /\ \A j \in DOMAIN q : j = 1 \/ (j - 1 \in DOMAIN t /\ t[j - 1] = q[j])
      /\ DOMAIN q \subseteq Nat \ {0} /\ DOMAIN t \subseteq Nat \ {0}
  BY TailIs
<1>2. q[1].type = "Transfer" /\ Worth(q[1]) = Head(q).money
  BY <1>1 DEF Worth
<1>3. S \in SUBSET DOMAIN t
  BY DEF Places
<1>4. T \in SUBSET DOMAIN q /\ InFlight(q, T) = InFlight(t, S)
  BY <1>3, InFlightShift
<1> HIDE DEF t
<1>5. ASSUME NEW j \in DOMAIN q
      PROVE  j \in Markers(q, i) <=> j - 1 \in Markers(t, i)
  <2>1. CASE j = 1
    <3>1. j \notin Markers(q, i)
      BY <1>2, <2>1, MarkersIs
    <3>2. j - 1 \notin DOMAIN t
      BY <1>1, <2>1
    <3> QED BY <3>1, <3>2 DEF Markers
  <2>2. CASE j # 1
    BY <1>1, <2>2 DEF Markers
  <2> QED BY <2>1, <2>2
<1>6. ASSUME NEW k \in DOMAIN t
      PROVE  k \in Markers(t, i) <=> k + 1 \in Markers(q, i)
  BY <1>1, <1>6 DEF Markers
<1>7. Markers(t, i) \subseteq DOMAIN t /\ Markers(q, i) \subseteq DOMAIN q
  BY DEF Markers
<1>8. ASSUME NEW k \in DOMAIN t
      PROVE  k \in Places(t, i) <=> k + 1 \in Places(q, i)
  <2>1. k + 1 \in DOMAIN q /\ k \in Nat
    BY <1>1
  <2>2. ASSUME k \in Places(t, i), NEW j \in Markers(q, i) PROVE k + 1 < j
    <3>1. j \in DOMAIN q /\ j \in Nat /\ j - 1 \in Markers(t, i)
      BY <1>1, <1>5, <1>7
    <3>2. k < j - 1
      BY <2>2, <3>1 DEF Places
    <3> QED BY <2>1, <3>1, <3>2
  <2>3. ASSUME k + 1 \in Places(q, i), NEW j \in Markers(t, i) PROVE k < j
    <3>1. j \in Nat /\ j + 1 \in Markers(q, i)
      BY <1>1, <1>6, <1>7
    <3>2. k + 1 < j + 1
      BY <2>3, <3>1 DEF Places
    <3> QED BY <2>1, <3>1, <3>2
  <2> QED BY <2>1, <2>2, <2>3 DEF Places
<1>9. 1 \in Places(q, i)
  <2>1. ASSUME NEW j \in Markers(q, i) PROVE 1 < j
    <3>1. j \in DOMAIN q /\ j \in Nat \ {0} /\ j - 1 \in DOMAIN t
      BY <1>1, <1>5, <1>7
    <3>2. j - 1 \in Nat \ {0}
      BY <1>1, <3>1
    <3> QED BY <3>1, <3>2
  <2> QED BY <1>1, <2>1 DEF Places
<1>10. Places(q, i) = T \cup {1} /\ 1 \notin T
  <2>1. ASSUME NEW j \in Places(q, i), j # 1 PROVE j \in T
    <3>1. j \in DOMAIN q /\ j \in Nat
      BY <1>1, <2>1 DEF Places
    <3>2. j - 1 \in DOMAIN t /\ (j - 1) + 1 = j
      BY <1>1, <2>1, <3>1
    <3>3. j - 1 \in S
      BY <1>8, <2>1, <3>2
    <3> QED BY <3>2, <3>3
  <2>2. ASSUME NEW k \in S PROVE k + 1 \in Places(q, i) /\ k + 1 # 1
    BY <1>1, <1>3, <1>8
  <2> QED BY <1>9, <2>1, <2>2
<1> HIDE DEF T, S
<1>11. InFlight(q, T \cup {1}) = InFlight(q, T) + Worth(q[1])
  BY <1>1, <1>4, <1>10, InFlightAdd
<1> QED BY <1>2, <1>4, <1>10, <1>11 DEF Ahead, S, t

\* Nothing is ahead of a marker at the head of the queue.
LEMMA AheadMarker ==
  ASSUME NEW q \in Seq(Message), NEW i \in Nat, q # <<>>, Head(q).type = "Marker", Head(q).id = i
  PROVE  Ahead(q, i) = 0
<1>1. Head(q) = q[1] /\ 1 \in DOMAIN q /\ DOMAIN q \subseteq Nat \ {0}
  BY TailIs
<1>2. 1 \in Markers(q, i)
  BY <1>1, MarkersIs
<1>3. Places(q, i) = {}
  BY <1>1, <1>2 DEF Places
<1> QED BY <1>3, InFlightNothing DEF Ahead

\* Everything is ahead of a marker that has just been sent.
LEMMA AheadMarked ==
  ASSUME NEW q \in Seq(Message), NEW i \in Nat, ~Marking(q)
  PROVE  Ahead(Append(q, Marker(i)), i) = Ahead(q, i)
<1> DEFINE x == Marker(i)
           r == Append(q, x)
           n == Len(q)
<1>1. x \in Message /\ x.type = "Marker" /\ x.id = i
  BY DEF Marker, Message
<1>2. r \in Seq(Message) /\ Marking(r)
  BY MarkerSent
<1> HIDE DEF x
<1>3. /\ DOMAIN q = 1..n /\ n \in Nat /\ DOMAIN r = 1..(n + 1) /\ r[n + 1] = x
      /\ \A k \in 1..n : r[k] = q[k]
  BY <1>1
<1> HIDE DEF r, n
<1>4. Markers(r, i) = {n + 1}
  <2>1. n + 1 \in Markers(r, i)
    BY <1>1, <1>2, <1>3, MarkersIs
  <2>2. ASSUME NEW j \in Markers(r, i), j # n + 1 PROVE FALSE
    <3>1. j \in DOMAIN q /\ r[j].type = "Marker"
      BY <1>2, <1>3, <2>2, MarkersIs DEF Markers
    <3> QED BY <1>3, <3>1 DEF Marking
  <2> QED BY <2>1, <2>2
<1>5. Places(r, i) = DOMAIN q
  BY <1>3, <1>4 DEF Places
<1>6. Places(q, i) = DOMAIN q
  BY MarkersIs
<1>7. InFlight(r, DOMAIN q) = InFlight(q, DOMAIN q)
  BY <1>3, InFlightSame
<1> QED BY <1>5, <1>6, <1>7 DEF Ahead, r, x

-----------------------------------------------------------------------------
(* Money in a snapshot                                                     *)

Transferred(s) == [a \in DOMAIN s.states |-> s.states[a].transferred]

LEMMA PeersFinite == \A b \in Branch : IsFiniteSet(Peers(b))
BY BranchAssumption, FS_Subset DEF Peers

LEMMA PairsFinite == IsFiniteSet(Pair)
<1>1. IsFiniteSet(Branch \X Branch)
  BY BranchAssumption, FS_Product
<1>2. Pair \subseteq Branch \X Branch
  BY DEF Pair
<1> QED BY <1>1, <1>2, FS_Subset

LEMMA AccountedIs ==
  ASSUME NEW b \in Branch, NEW s \in SnapshotOf(b)
  PROVE  /\ Transferred(s) \in [Peers(b) -> Int]
         /\ Accounted(s) = s.balance + SumFunction(Transferred(s))
         /\ SumFunction(Transferred(s)) \in Int
         /\ Accounted(s) \in Int
<1>1. DOMAIN s.states = Peers(b) /\ s.balance \in Nat
  BY DEF SnapshotOf
<1>2. \A a \in Peers(b) : s.states[a].transferred \in Nat
  BY DEF SnapshotOf, ChannelState
<1>3. Transferred(s) \in [Peers(b) -> Int] /\ DOMAIN Transferred(s) = Peers(b)
  BY <1>1, <1>2 DEF Transferred
<1>4. SumFunction(Transferred(s)) \in Int
  <2>1. \A a \in Peers(b) : Transferred(s)[a] \in Int
    BY <1>3
  <2> QED BY <1>3, <2>1, PeersFinite, SumFunctionIs, SumInt
<1>5. Accounted(s) = s.balance + SumFunction(Transferred(s))
  BY DEF Accounted, Transferred
<1> QED BY <1>1, <1>3, <1>4, <1>5

\* The state of a channel is replaced.
LEMMA AccountedState ==
  ASSUME NEW b \in Branch, NEW s \in SnapshotOf(b), NEW a \in Peers(b), NEW x \in ChannelState
  PROVE  Accounted(WithState(s, a, x))
           = Accounted(s) + (x.transferred - s.states[a].transferred)
<1> DEFINE w == WithState(s, a, x)
           f == Transferred(s)
           v == x.transferred
           u == s.states[a].transferred
           bal == s.balance
<1>1. /\ w \in SnapshotOf(b) /\ w.states[a] = x
      /\ \A c \in Peers(b) : c # a => w.states[c] = s.states[c]
  BY StateIs
<1>2. w.balance = bal
  BY DEF WithState, SnapshotOf
<1>3. v \in Int /\ u \in Int /\ bal \in Int
  BY DEF SnapshotOf, ChannelState
<1>4. f \in [Peers(b) -> Int] /\ f[a] = u /\ DOMAIN s.states = Peers(b)
  BY AccountedIs DEF Transferred, SnapshotOf
<1> HIDE DEF w
<1>5. DOMAIN w.states = Peers(b)
  BY <1>1 DEF SnapshotOf
<1>6. Transferred(w) = [f EXCEPT ![a] = v]
  BY <1>1, <1>4, <1>5 DEF Transferred
<1> HIDE DEF f, v
<1>7. SumFunction([f EXCEPT ![a] = v]) = SumFunction(f) + (v - f[a]) /\ SumFunction(f) \in Int
  <2>1. IsFiniteSet(Peers(b))
    BY PeersFinite
  <2> QED BY ONLY <1>3, <1>4, <2>1, a \in Peers(b), SumUpdate
<1> DEFINE g == SumFunction(f)
<1>8. Accounted(w) = bal + (g + (v - u))
  BY <1>1, <1>2, <1>4, <1>6, <1>7, AccountedIs
<1>9. Accounted(s) = bal + g
  BY AccountedIs DEF f
<1>10. bal + (g + (v - u)) = (bal + g) + (v - u)
  <2> HIDE DEF g, u, bal
  <2> QED BY <1>3, <1>7 DEF g
<1> QED BY <1>8, <1>9, <1>10 DEF w, v

\* A transfer is put down.
LEMMA AccountedPutDown ==
  ASSUME NEW b \in Branch, NEW s \in SnapshotOf(b), NEW a \in Peers(b), NEW m \in Nat
  PROVE  /\ PutDown(s, a, m) \in SnapshotOf(b) /\ PutDown(s, a, m).id = s.id
         /\ Accounted(PutDown(s, a, m)) = Accounted(s) + m
<1> DEFINE x == [s.states[a] EXCEPT !.transferred = @ + m]
           u == s.states[a].transferred
<1>1. u \in Nat /\ x \in ChannelState /\ x.transferred = u + m
  BY DEF SnapshotOf, ChannelState
<1>2. PutDown(s, a, m) = WithState(s, a, x)
  BY DEF PutDown
<1>3. (u + m) - u = m
  <2> HIDE DEF u
  <2> QED BY <1>1
<1> HIDE DEF x
<1>4. Accounted(WithState(s, a, x)) = Accounted(s) + (x.transferred - u)
  BY <1>1, AccountedState
<1>5. WithState(s, a, x) \in SnapshotOf(b) /\ WithState(s, a, x).id = s.id
  BY <1>1, StateIs
<1> QED BY <1>1, <1>2, <1>3, <1>4, <1>5

\* A channel is completed.
LEMMA AccountedMarked ==
  ASSUME NEW b \in Branch, NEW s \in SnapshotOf(b), NEW a \in Peers(b)
  PROVE  Accounted(Marked(s, a)) = Accounted(s)
<1> DEFINE x == [s.states[a] EXCEPT !.done = TRUE]
           u == s.states[a].transferred
<1>1. u \in Nat /\ x \in ChannelState /\ x.transferred = u
  BY DEF SnapshotOf, ChannelState
<1>2. Marked(s, a) = WithState(s, a, x)
  BY DEF Marked
<1>3. u - u = 0 /\ Accounted(s) \in Int
  <2> HIDE DEF u
  <2> QED BY <1>1, AccountedIs
<1> HIDE DEF x
<1>4. Accounted(WithState(s, a, x)) = Accounted(s) + (x.transferred - u)
  BY <1>1, AccountedState
<1> QED BY <1>1, <1>2, <1>3, <1>4

\* A snapshot that has just begun holds the balance and nothing else.
LEMMA AccountedNew ==
  ASSUME NEW b \in Branch, NEW i \in Nat, d_money[b] \in Nat
  PROVE  Accounted(NewSnapshot(b, i)) = d_money[b]
<1> DEFINE s == NewSnapshot(b, i)
           f == Transferred(s)
<1>1. s \in SnapshotOf(b) /\ s.balance = d_money[b]
  BY NewIs DEF NewSnapshot
<1>2. DOMAIN f = Peers(b) /\ \A a \in Peers(b) : f[a] = 0
  BY DEF Transferred, NewSnapshot
<1> HIDE DEF s, f
<1>3. SumFunction(f) = 0 * Cardinality(Peers(b))
  BY <1>2, PeersFinite, SumFunctionIs, SumConstant
<1>4. Cardinality(Peers(b)) \in Nat
  BY PeersFinite, FS_CardinalityType
<1>5. SumFunction(f) = 0
  BY <1>3, <1>4
<1>6. Accounted(s) = d_money[b] + SumFunction(f)
  BY <1>1, AccountedIs DEF f
<1> QED BY <1>5, <1>6 DEF s

-----------------------------------------------------------------------------
(* The books                                                               *)

\* What a branch with snapshot s and balance m stands for.
Stake(s, i, m) == IF Begun(s, i) THEN Accounted(s) ELSE m

Shares == [b \in Branch |-> Share(b)]

Ways == [p \in Pair |-> OnTheWay(p)]

Queued == [p \in Pair |-> InFlight(chan[p], DOMAIN chan[p])]

\* All the money is held or in a queue.
Conserved == SumFunction(d_money) + SumFunction(Queued) = Money

Sheets ==
  /\ Shares \in [Branch -> Int] /\ Ways \in [Pair -> Int]
  /\ \A b \in Branch : Shares[b] = Stake(d_snapshot[b], d_snapshot_id, d_money[b])
  /\ \A p \in Pair : Ways[p] = Way(chan[p], d_snapshot_id, d_snapshot[p[1]])
  /\ d_money \in [Branch -> Int] /\ Queued \in [Pair -> Int]
  /\ \A p \in Pair : Queued[p] = InFlight(chan[p], DOMAIN chan[p])

LEMMA SheetsNow == BankInv => Sheets
<1> SUFFICES ASSUME BankInv PROVE Sheets
  OBVIOUS
<1>0. d_snapshot_id \in Nat /\ d_money \in [Branch -> Int] /\ Types
  BY DEF BankInv, Types
<1>1. ASSUME NEW b \in Branch
      PROVE  /\ Share(b) = Stake(d_snapshot[b], d_snapshot_id, d_money[b])
             /\ Share(b) \in Int
  <2>1. Taken(b) <=> Begun(d_snapshot[b], d_snapshot_id)
    BY DEF Taken, Begun
  <2>2. Taken(b) => Accounted(d_snapshot[b]) \in Int
    BY <1>0, AccountedIs DEF Types, Taken
  <2> QED BY <1>0, <2>1, <2>2 DEF Share, Stake
<1>2. ASSUME NEW p \in Pair
      PROVE  /\ OnTheWay(p) = Way(chan[p], d_snapshot_id, d_snapshot[p[1]])
             /\ OnTheWay(p) \in Int
             /\ InFlight(chan[p], DOMAIN chan[p]) \in Int
  <2>1. OnTheWay(p) = Way(chan[p], d_snapshot_id, d_snapshot[p[1]])
    BY DEF OnTheWay, Way, Taken, Begun
  <2>2. Single(chan[p], d_snapshot_id) /\ chan[p] \in Seq(Message)
    BY <1>0 DEF BankInv, Flows, Flow, Types
  <2>3. Way(chan[p], d_snapshot_id, d_snapshot[p[1]]) \in Int
    BY <1>0, <2>2, WayIs
  <2> QED BY <2>1, <2>2, <2>3, QueueIs
<1> QED BY <1>0, <1>1, <1>2 DEF Sheets, Shares, Ways, Queued

LEMMA SheetsThen == BankInv' => Sheets'
BY SheetsNow, PTL

\* Money moves between the balance of e and the channel p in the books.
LEMMA BooksMove ==
  ASSUME BankInv, BankInv', BooksBalance, NEW p \in Pair, NEW e \in Branch, NEW d \in Int,
         Shares'[e] = Shares[e] + d, Ways[p] = Ways'[p] + d,
         \A b \in Branch : b # e => Shares'[b] = Shares[b],
         \A r \in Pair : r # p => Ways'[r] = Ways[r]
  PROVE  BooksBalance'
<1> DEFINE f == Shares
           f2 == Shares'
           g == Ways
           g2 == Ways'
<1>1. f \in [Branch -> Int] /\ f2 \in [Branch -> Int] /\ g \in [Pair -> Int] /\ g2 \in [Pair -> Int]
  BY SheetsNow, SheetsThen DEF Sheets
<1>2. /\ f2[e] = f[e] + d /\ g[p] = g2[p] + d
      /\ \A x \in Branch : x # e => f2[x] = f[x]
      /\ \A x \in Pair : x # p => g2[x] = g[x]
  OBVIOUS
<1>3. BooksBalance <=> SumFunction(f) + SumFunction(g) = Money
  BY DEF BooksBalance, Shares, Ways
<1>4. BooksBalance' <=> SumFunction(f2) + SumFunction(g2) = Money
  BY DEF BooksBalance, Shares, Ways, Money
<1> HIDE DEF f, f2, g, g2
<1>5. SumFunction(f2) = SumFunction(f) + d /\ SumFunction(f) \in Int
  BY ONLY BranchAssumption, e \in Branch, d \in Int, <1>1, <1>2, SumMoves
<1>6. SumFunction(g) = SumFunction(g2) + d /\ SumFunction(g2) \in Int
  BY ONLY PairsFinite, p \in Pair, d \in Int, <1>1, <1>2, SumMoves
<1>7. SumFunction(f2) + SumFunction(g2) = SumFunction(f) + SumFunction(g)
  BY ONLY d \in Int, <1>5, <1>6
<1> QED BY <1>3, <1>4, <1>7

\* Nothing moves in the books.
LEMMA BooksStay ==
  ASSUME BankInv, BankInv', BooksBalance,
         \A b \in Branch : Shares'[b] = Shares[b], \A r \in Pair : Ways'[r] = Ways[r]
  PROVE  BooksBalance'
<1>1. Shares' = Shares /\ Ways' = Ways
  BY SheetsNow, SheetsThen DEF Sheets
<1>2. BooksBalance <=> SumFunction(Shares) + SumFunction(Ways) = Money
  BY DEF BooksBalance, Shares, Ways
<1>3. BooksBalance' <=> SumFunction(Shares') + SumFunction(Ways') = Money
  BY DEF BooksBalance, Shares, Ways, Money
<1> QED BY <1>1, <1>2, <1>3

\* Money moves between the balance of e and the queue p.
LEMMA ConservedMove ==
  ASSUME BankInv, BankInv', Conserved, NEW p \in Pair, NEW e \in Branch, NEW d \in Int,
         d_money'[e] = d_money[e] + d, Queued[p] = Queued'[p] + d,
         \A b \in Branch : b # e => d_money'[b] = d_money[b],
         \A r \in Pair : r # p => Queued'[r] = Queued[r]
  PROVE  Conserved'
<1> DEFINE f == d_money
           f2 == d_money'
           g == Queued
           g2 == Queued'
<1>1. f \in [Branch -> Int] /\ f2 \in [Branch -> Int] /\ g \in [Pair -> Int] /\ g2 \in [Pair -> Int]
  BY SheetsNow, SheetsThen DEF Sheets
<1>2. /\ f2[e] = f[e] + d /\ g[p] = g2[p] + d
      /\ \A x \in Branch : x # e => f2[x] = f[x]
      /\ \A x \in Pair : x # p => g2[x] = g[x]
  OBVIOUS
<1>3. Conserved <=> SumFunction(f) + SumFunction(g) = Money
  BY DEF Conserved
<1>4. Conserved' <=> SumFunction(f2) + SumFunction(g2) = Money
  BY DEF Conserved, Money
<1> HIDE DEF f, f2, g, g2
<1>5. SumFunction(f2) = SumFunction(f) + d /\ SumFunction(f) \in Int
  BY ONLY BranchAssumption, e \in Branch, d \in Int, <1>1, <1>2, SumMoves
<1>6. SumFunction(g) = SumFunction(g2) + d /\ SumFunction(g2) \in Int
  BY ONLY PairsFinite, p \in Pair, d \in Int, <1>1, <1>2, SumMoves
<1>7. SumFunction(f2) + SumFunction(g2) = SumFunction(f) + SumFunction(g)
  BY ONLY d \in Int, <1>5, <1>6
<1> QED BY <1>3, <1>4, <1>7

\* No money moves.
LEMMA ConservedStay ==
  ASSUME BankInv, BankInv', Conserved, d_money' = d_money, \A r \in Pair : Queued'[r] = Queued[r]
  PROVE  Conserved'
<1>1. Queued' = Queued
  BY SheetsNow, SheetsThen DEF Sheets
<1> QED BY <1>1 DEF Conserved, Money

\* A message is put behind the others.
LEMMA AllAppend ==
  ASSUME NEW q \in Seq(Message), NEW x \in Message
  PROVE  InFlight(Append(q, x), DOMAIN Append(q, x)) = InFlight(q, DOMAIN q) + Worth(x)
<1> DEFINE r == Append(q, x)
           n == Len(q)
           e == n + 1
           D == DOMAIN q
<1>1. /\ DOMAIN q = 1..n /\ n \in Nat /\ DOMAIN r = 1..(n + 1) /\ r[e] = x
      /\ r \in Seq(Message) /\ \A k \in 1..n : r[k] = q[k]
  OBVIOUS
<1> HIDE DEF r, n
<1>2. DOMAIN r = D \cup {e} /\ e \notin D /\ e \in DOMAIN r /\ D \in SUBSET DOMAIN r
  BY <1>1
<1>3. InFlight(r, D) = InFlight(q, D)
  BY <1>1, InFlightSame
<1> HIDE DEF D, e
<1>4. InFlight(r, D \cup {e}) = InFlight(r, D) + Worth(r[e])
  BY <1>1, <1>2, InFlightAdd
<1> QED BY <1>1, <1>2, <1>3, <1>4 DEF r, D

\* The first message is taken.
LEMMA AllTail ==
  ASSUME NEW q \in Seq(Message), q # <<>>
  PROVE  InFlight(q, DOMAIN q) = InFlight(Tail(q), DOMAIN Tail(q)) + Worth(Head(q))
<1> DEFINE t == Tail(q)
           S == DOMAIN t
           T == {k + 1 : k \in S}
<1>1. /\ t \in Seq(Message) /\ Head(q) = q[1] /\ 1 \in DOMAIN q
      /\ \A j \in DOMAIN t : j + 1 \in DOMAIN q
      /\ \A j \in DOMAIN q : j = 1 \/ j - 1 \in DOMAIN t
      /\ DOMAIN q \subseteq Nat \ {0} /\ DOMAIN t \subseteq Nat \ {0}
  BY TailIs
<1>2. T \in SUBSET DOMAIN q /\ InFlight(q, T) = InFlight(t, S)
  BY InFlightShift
<1> HIDE DEF t
<1>3. DOMAIN q = T \cup {1} /\ 1 \notin T
  <2>1. ASSUME NEW j \in DOMAIN q, j # 1 PROVE j \in T
    <3>1. j - 1 \in S /\ (j - 1) + 1 = j
      BY <1>1, <2>1
    <3> QED BY <3>1
  <2>2. \A k \in S : k + 1 # 1
    BY <1>1
  <2>3. 1 \notin T
    BY <2>2
  <2> HIDE DEF T
  <2> QED BY <1>1, <1>2, <2>1, <2>3
<1> HIDE DEF T, S
<1>4. InFlight(q, T \cup {1}) = InFlight(q, T) + Worth(q[1])
  BY <1>1, <1>2, <1>3, InFlightAdd
<1> QED BY <1>1, <1>2, <1>3, <1>4 DEF S, t

\* What a channel stands for depends on whether its sender has begun.
LEMMA WaySame ==
  ASSUME NEW q \in Seq(Message), NEW i \in Nat, NEW s, NEW s2, Single(q, i),
         Begun(s, i) <=> Begun(s2, i)
  PROVE  Way(q, i, s2) = Way(q, i, s)
BY WayIs

\* A branch that keeps its balance and its snapshot stands for what it did.
LEMMA ShareStays ==
  ASSUME BankInv, BankInv', d_snapshot_id' = d_snapshot_id, NEW b \in Branch,
         d_snapshot'[b] = d_snapshot[b], d_money'[b] = d_money[b]
  PROVE  Shares'[b] = Shares[b]
<1>1. Sheets /\ Sheets'
  BY SheetsNow, SheetsThen
<1>2. /\ Shares[b] = Stake(d_snapshot[b], d_snapshot_id, d_money[b])
      /\ Shares'[b] = Stake(d_snapshot'[b], d_snapshot_id', d_money'[b])
  BY <1>1 DEF Sheets
<1> QED BY <1>2

\* So does a channel whose sender does not begin.
LEMMA ChannelStays ==
  ASSUME BankInv, BankInv', d_snapshot_id' = d_snapshot_id, NEW r \in Pair, chan'[r] = chan[r],
         Begun(d_snapshot'[r[1]], d_snapshot_id) <=> Begun(d_snapshot[r[1]], d_snapshot_id)
  PROVE  Ways'[r] = Ways[r] /\ Queued'[r] = Queued[r]
<1> DEFINE q == chan[r]
           i == d_snapshot_id
           s == d_snapshot[r[1]]
           s2 == d_snapshot'[r[1]]
<1>1. Sheets /\ Sheets'
  BY SheetsNow, SheetsThen
<1>2. /\ Ways[r] = Way(q, i, s) /\ Ways'[r] = Way(q, i, s2)
      /\ Queued[r] = InFlight(q, DOMAIN q) /\ Queued'[r] = InFlight(q, DOMAIN q)
  BY <1>1 DEF Sheets
<1>3. q \in Seq(Message) /\ i \in Nat /\ Single(q, i)
  BY DEF BankInv, Types, Flows, Flow
<1>4. Begun(s, i) <=> Begun(s2, i)
  OBVIOUS
<1> HIDE DEF q, i, s, s2
<1>5. Way(q, i, s2) = Way(q, i, s)
  BY <1>3, <1>4, WaySame
<1> QED BY <1>2, <1>5

\* A payment leaves the balance of its sender for the channel.
LEMMA SendMoneyBooks ==
  ASSUME BankInv, BankInv', Conserved, BooksBalance,
         NEW p \in Pair, NEW money \in 1..d_money[p[1]], SendMoney(p[1], p[2], money)
  PROVE  BooksBalance' /\ Conserved'
<1> DEFINE e == p[1]
           i == d_snapshot_id
           q == chan[p]
           q2 == Append(q, Transfer(money))
           s == d_snapshot[e]
<1>0. Types /\ e \in Branch /\ p = <<p[1], p[2]>> /\ i \in Nat /\ q \in Seq(Message) /\ Single(q, i)
  BY PairIs DEF BankInv, Types, Flows, Flow
<1>1. money \in Nat /\ d_money[e] \in Int
  BY <1>0 DEF Types
<1> DEFINE d == -money
<1>2. d \in Int /\ d_money[e] - money = d_money[e] + d
  <2> DEFINE x == d_money[e]
  <2> HIDE DEF x
  <2> QED BY <1>1 DEF x
<1>3. /\ d_money'[e] = d_money[e] + d /\ \A b \in Branch : b # e => d_money'[b] = d_money[b]
      /\ chan'[p] = q2 /\ \A r \in Pair : r # p => chan'[r] = chan[r]
      /\ d_snapshot' = d_snapshot /\ d_snapshot_id' = i
  BY <1>0, <1>2 DEF Types, SendMoney
<1>4. /\ q2 \in Seq(Message) /\ (Marking(q2) <=> Marking(q)) /\ Single(q2, i)
      /\ Transfer(money) \in Message /\ Worth(Transfer(money)) = money
  BY <1>0, <1>1, PaymentSent, WorthIs DEF Transfer, Message
<1>5. /\ Sheets /\ Sheets'
  BY SheetsNow, SheetsThen
<1>6. /\ Shares[e] = Stake(s, i, d_money[e]) /\ Shares'[e] = Stake(s, i, d_money'[e])
      /\ Ways[p] = Way(q, i, s) /\ Ways'[p] = Way(q2, i, s)
      /\ Queued[p] = InFlight(q, DOMAIN q) /\ Queued'[p] = InFlight(q2, DOMAIN q2)
  BY <1>0, <1>3, <1>5 DEF Sheets
<1>7. /\ \A b \in Branch : b # e => Shares'[b] = Shares[b]
      /\ \A r \in Pair : r # p => Ways'[r] = Ways[r] /\ Queued'[r] = Queued[r]
  <2> HIDE DEF e, q2, d
  <2>1. ASSUME NEW b \in Branch, b # e PROVE Shares'[b] = Shares[b]
    BY <1>3, <2>1, ShareStays
  <2>2. ASSUME NEW r \in Pair, r # p PROVE Ways'[r] = Ways[r] /\ Queued'[r] = Queued[r]
    BY <1>3, <2>2, ChannelStays
  <2> QED BY <2>1, <2>2
<1> HIDE DEF q2, d
<1>8. Conserved'
  <2>1. InFlight(q2, DOMAIN q2) = InFlight(q, DOMAIN q) + money /\ InFlight(q, DOMAIN q) \in Int
    BY <1>0, <1>4, AllAppend, QueueIs DEF q2
  <2> DEFINE u == InFlight(q, DOMAIN q)
             v == InFlight(q2, DOMAIN q2)
  <2> HIDE DEF u, v
  <2>2. u = v + d
    BY <1>1, <2>1 DEF u, v, d
  <2>3. Queued[p] = Queued'[p] + d
    BY <1>6, <2>2 DEF u, v
  <2> HIDE DEF e
  <2> QED BY <1>0, <1>2, <1>3, <1>7, <2>3, ConservedMove
<1>9. CASE Begun(s, i)
  <2>1. Shares'[e] = Shares[e]
    BY <1>6, <1>9 DEF Stake
  <2>2. Way(q2, i, s) = Way(q, i, s)
    <3> HIDE DEF q, s, i
    <3>1. CASE Marking(q)
      <4>1. Ahead(q2, i) = Ahead(q, i)
        BY <1>0, <1>1, <3>1, AheadPaidLate DEF q2
      <4> QED BY <1>0, <1>4, <3>1, <4>1, WayIs
    <3>2. CASE ~Marking(q)
      BY <1>0, <1>4, <1>9, <3>2, WayIs
    <3> QED BY <3>1, <3>2
  <2>3. \A b \in Branch : Shares'[b] = Shares[b]
    BY <1>7, <2>1
  <2>4. \A r \in Pair : Ways'[r] = Ways[r]
    BY <1>6, <1>7, <2>2
  <2> QED BY <1>8, <2>3, <2>4, BooksStay
<1>10. CASE ~Begun(s, i)
  <2>1. Shares'[e] = Shares[e] + d
    BY <1>3, <1>6, <1>10 DEF Stake
  <2>2. ~Marking(q)
    BY <1>10 DEF BankInv, Flows, Flow
  <2>3. Ahead(q2, i) = Ahead(q, i) + money
    <3> HIDE DEF q, i
    <3> QED BY <1>0, <1>1, <2>2, AheadPaid DEF q2
  <2>4. Way(q, i, s) = Ahead(q, i) /\ Way(q2, i, s) = Ahead(q2, i) /\ Ahead(q, i) \in Int
    <3> HIDE DEF q, s, i
    <3> QED BY <1>0, <1>4, <1>10, WayIs
  <2> DEFINE u == Ahead(q, i)
             v == Ahead(q2, i)
  <2> HIDE DEF u, v
  <2>5. u = v + d
    BY <1>1, <2>3, <2>4 DEF u, v, d
  <2>6. Ways[p] = Ways'[p] + d
    BY <1>6, <2>4, <2>5 DEF u, v
  <2> HIDE DEF e
  <2>7. BooksBalance'
    BY <1>0, <1>2, <1>7, <2>1, <2>6, BooksMove
  <2> QED BY <1>8, <2>7
<1> QED BY <1>9, <1>10

\* A payment arrives: it was ahead of the marker if and only if it is put down, or
\* still counts in the balance.
LEMMA HandleTransferBooks ==
  ASSUME BankInv, BankInv', Conserved, BooksBalance, NEW p \in Pair, HandleTransfer(p)
  PROVE  BooksBalance' /\ Conserved'
<1> DEFINE a == p[1]
           b == p[2]
           i == d_snapshot_id
           q == chan[p]
           q2 == Tail(q)
           m == Head(q).money
           s == d_snapshot[b]
           s2 == Recorded(s, a, m)
           sa == d_snapshot[a]
<1>0. /\ Types /\ a \in Peers(b) /\ a \in Branch /\ b \in Branch /\ a # b
      /\ i \in Nat /\ q \in Seq(Message) /\ d_money[b] \in Int
  BY PairIs DEF BankInv, Types
<1>1. q # <<>> /\ Head(q).type = "Transfer" /\ Head(q).type # "Marker"
  BY DEF HandleTransfer, Arrived
<1>2. m \in Nat /\ m \in Int /\ Worth(Head(q)) = m
  <2>1. Head(q) \in Message
    BY <1>0, <1>1
  <2> QED BY <1>1, <2>1 DEF Message, Worth
<1>3. /\ d_money'[b] = d_money[b] + m /\ \A c \in Branch : c # b => d_money'[c] = d_money[c]
      /\ d_snapshot'[b] = s2 /\ \A c \in Branch : c # b => d_snapshot'[c] = d_snapshot[c]
      /\ chan'[p] = q2 /\ \A r \in Pair : r # p => chan'[r] = chan[r]
      /\ d_snapshot_id' = i
  <2>1. /\ d_money' = [d_money EXCEPT ![b] = d_money[b] + m]
        /\ d_snapshot' = [d_snapshot EXCEPT ![b] = s2]
        /\ chan' = [chan EXCEPT ![p] = q2] /\ d_snapshot_id' = i
    BY DEF HandleTransfer
  <2> HIDE DEF s2, q2, m
  <2> QED BY <1>0, <2>1 DEF Types
<1>4. Flow(q, i, a, sa, s)
  BY DEF BankInv, Flows
<1>5. Single(q, i)
  BY <1>4 DEF Flow
<1>6. s = None \/ s \in SnapshotOf(b)
  BY <1>0 DEF Types
<1>7. Sheets /\ Sheets'
  BY SheetsNow, SheetsThen
<1>8. /\ Shares[b] = Stake(s, i, d_money[b]) /\ Shares'[b] = Stake(s2, i, d_money'[b])
      /\ Ways[p] = Way(q, i, sa) /\ Ways'[p] = Way(q2, i, sa)
      /\ Queued[p] = InFlight(q, DOMAIN q) /\ Queued'[p] = InFlight(q2, DOMAIN q2)
  BY <1>0, <1>3, <1>7 DEF Sheets
<1> HIDE DEF a, b, i, q, q2, m, s, s2, sa
<1>9. q2 \in Seq(Message) /\ (Marking(q2) <=> Marking(q)) /\ Single(q2, i)
  BY <1>0, <1>1, <1>5, PaymentTaken DEF q2
<1>10. Ahead(q, i) = Ahead(q2, i) + m /\ Ahead(q2, i) \in Int
  BY <1>0, <1>1, <1>9, AheadTaken, WayIs DEF q2, m
<1>11. InFlight(q, DOMAIN q) = InFlight(q2, DOMAIN q2) + m
  BY <1>0, <1>1, <1>2, AllTail DEF q2
<1>12. Begun(s2, i) <=> Begun(s, i)
  BY <1>0, <1>2, <1>6, RecordedIs DEF s2, Alike, Begun
<1>13. ASSUME NEW c \in Branch
       PROVE  Begun(d_snapshot'[c], i) <=> Begun(d_snapshot[c], i)
  BY <1>3, <1>12 DEF s
<1>14. \A c \in Branch : c # b => Shares'[c] = Shares[c]
  BY <1>3, ShareStays DEF i
<1>15. \A r \in Pair : r # p => Ways'[r] = Ways[r] /\ Queued'[r] = Queued[r]
  <2> SUFFICES ASSUME NEW r \in Pair, r # p PROVE Ways'[r] = Ways[r] /\ Queued'[r] = Queued[r]
    OBVIOUS
  <2>1. r[1] \in Branch
    BY PairIs
  <2> QED BY <1>3, <1>13, <2>1, ChannelStays DEF i
<1>16. Conserved'
  BY <1>0, <1>2, <1>3, <1>8, <1>11, <1>15, ConservedMove
<1>17. ASSUME ~Closed(s, i, a), Shares'[b] = Shares[b] + m
       PROVE  BooksBalance'
  <2>1. ~Begun(sa, i) \/ Marking(q)
    BY <1>4, <1>17 DEF Flow
  <2>2. Way(q, i, sa) = Ahead(q, i) /\ Way(q2, i, sa) = Ahead(q2, i)
    BY <1>0, <1>5, <1>9, <2>1, WayIs
  <2>3. Ways[p] = Ways'[p] + m
    BY <1>8, <1>10, <2>2
  <2> QED BY <1>0, <1>2, <1>14, <1>15, <1>17, <2>3, BooksMove
<1>18. CASE ~Begun(s, i)
  <2>1. Shares'[b] = Shares[b] + m
    BY <1>3, <1>8, <1>12, <1>18 DEF Stake
  <2>2. ~Closed(s, i, a)
    BY <1>18 DEF Closed
  <2> QED BY <1>16, <1>17, <2>1, <2>2
<1>19. CASE Begun(s, i) /\ ~s.states[a].done
  <2>1. s \in SnapshotOf(b) /\ s # None
    BY <1>6, <1>19 DEF Begun
  <2>2. s2 = PutDown(s, a, m)
    BY <1>19, <2>1 DEF s2, Recorded
  <2>3. Accounted(s2) = Accounted(s) + m
    BY <1>0, <1>2, <2>1, <2>2, AccountedPutDown
  <2>4. Shares'[b] = Shares[b] + m
    BY <1>8, <1>12, <1>19, <2>3 DEF Stake
  <2>5. ~Closed(s, i, a)
    BY <1>19 DEF Closed
  <2> QED BY <1>16, <1>17, <2>4, <2>5
<1>20. CASE Begun(s, i) /\ s.states[a].done
  <2>1. s2 = s
    BY <1>20 DEF s2, Recorded
  <2>2. Shares'[b] = Shares[b]
    BY <1>8, <1>20, <2>1 DEF Stake
  <2>3. Begun(sa, i) /\ ~Marking(q)
    BY <1>4, <1>20 DEF Flow, Closed
  <2>4. Ways'[p] = Ways[p]
    BY <1>0, <1>5, <1>8, <1>9, <2>3, WayIs
  <2>5. \A c \in Branch : Shares'[c] = Shares[c]
    BY <1>14, <2>2
  <2>6. \A r \in Pair : Ways'[r] = Ways[r]
    BY <1>15, <2>4
  <2> QED BY <1>16, <2>5, <2>6, BooksStay
<1> QED BY <1>18, <1>19, <1>20

\* The channels in the queues rest stand for what they do in chan, and those out
\* of b are the same.
SameWays(rest, b) ==
  \A p \in Pair :
    IF p[1] = b THEN rest[p] = chan[p]
    ELSE /\ Way(rest[p], d_snapshot_id, d_snapshot[p[1]]) = Way(chan[p], d_snapshot_id, d_snapshot[p[1]])
         /\ InFlight(rest[p], DOMAIN rest[p]) = InFlight(chan[p], DOMAIN chan[p])

\* A branch begins: its balance is put down, and all that is in its channels is
\* ahead of the markers.
LEMMA BooksBegin ==
  ASSUME BankInv, BankInv', Conserved, BooksBalance, NEW b \in Branch, ~Taken(b),
         NEW rest \in [Pair -> Seq(Message)], NEW s \in SnapshotOf(b), s.id = d_snapshot_id,
         Accounted(s) = d_money[b], SameWays(rest, b),
         chan' = SendMarkers(rest, b, d_snapshot_id), d_snapshot' = With(b, s),
         d_money' = d_money, d_snapshot_id' = d_snapshot_id
  PROVE  BooksBalance' /\ Conserved'
<1> DEFINE i == d_snapshot_id
<1>0. Types /\ i \in Nat /\ s # None
  BY NoneIsNo DEF BankInv, Types
<1>1. d_snapshot'[b] = s /\ \A c \in Branch : c # b => d_snapshot'[c] = d_snapshot[c]
  BY <1>0 DEF Types, With
<1>2. Begun(s, i) /\ ~Begun(d_snapshot[b], i)
  BY <1>0 DEF Begun, Taken
<1>3. Sheets /\ Sheets'
  BY SheetsNow, SheetsThen
<1>4. ASSUME NEW c \in Branch
      PROVE  Shares'[c] = Shares[c]
  <2>1. CASE c = b
    <3>1. /\ Shares[b] = Stake(d_snapshot[b], i, d_money[b])
          /\ Shares'[b] = Stake(s, i, d_money[b])
      BY <1>1, <1>3 DEF Sheets
    <3> QED BY <1>2, <2>1, <3>1 DEF Stake
  <2>2. CASE c # b
    BY <1>1, <2>2, ShareStays
  <2> QED BY <2>1, <2>2
<1>5. ASSUME NEW p \in Pair
      PROVE  Ways'[p] = Ways[p] /\ Queued'[p] = Queued[p]
  <2> DEFINE q == chan[p]
             r == rest[p]
             t == d_snapshot[p[1]]
  <2>0. q \in Seq(Message) /\ p[1] \in Branch /\ Flow(q, i, p[1], t, d_snapshot[p[2]])
    BY <1>0, PairIs DEF BankInv, Types, Flows
  <2>1. /\ Ways[p] = Way(q, i, t) /\ Ways'[p] = Way(chan'[p], i, d_snapshot'[p[1]])
        /\ Queued[p] = InFlight(q, DOMAIN q) /\ Queued'[p] = InFlight(chan'[p], DOMAIN chan'[p])
    BY <1>3 DEF Sheets
  <2>2. CASE p[1] = b
    <3> DEFINE x == Marker(i)
               q2 == Append(q, x)
    <3>1. chan'[p] = q2 /\ d_snapshot'[p[1]] = s
      BY <1>1, <2>2 DEF SendMarkers, SameWays
    <3>2. ~Begun(t, i) /\ ~Marking(q) /\ Single(q, i)
      BY <1>2, <2>0, <2>2 DEF Flow
    <3>3. x \in Message /\ Worth(x) = 0
      BY <1>0, WorthIs DEF Marker, Message
    <3> HIDE DEF q, i, t
    <3>4. q2 \in Seq(Message) /\ Marking(q2) /\ Single(q2, i)
      BY <1>0, <2>0, <3>2, MarkerSent
    <3>5. Ahead(q2, i) = Ahead(q, i)
      BY <1>0, <2>0, <3>2, AheadMarked
    <3> HIDE DEF x
    <3>6. InFlight(q2, DOMAIN q2) = InFlight(q, DOMAIN q) + 0 /\ InFlight(q, DOMAIN q) \in Int
      BY <2>0, <3>3, AllAppend, QueueIs
    <3> HIDE DEF q2
    <3>7. Way(q2, i, s) = Way(q, i, t)
      BY <1>0, <2>0, <3>2, <3>4, <3>5, WayIs
    <3> DEFINE u == InFlight(q, DOMAIN q)
    <3> HIDE DEF u
    <3>8. InFlight(q2, DOMAIN q2) = u
      BY <3>6 DEF u
    <3> QED BY <2>1, <3>1, <3>7, <3>8 DEF u
  <2>3. CASE p[1] # b
    <3>1. chan'[p] = r /\ d_snapshot'[p[1]] = t
      BY <1>1, <2>0, <2>3 DEF SendMarkers
    <3>2. Way(r, i, t) = Way(q, i, t) /\ InFlight(r, DOMAIN r) = InFlight(q, DOMAIN q)
      BY <2>3 DEF SameWays
    <3> QED BY <2>1, <3>1, <3>2
  <2> QED BY <2>2, <2>3
<1>6. BooksBalance'
  BY <1>4, <1>5, BooksStay
<1>7. Conserved'
  BY <1>5, ConservedStay
<1> QED BY <1>6, <1>7

\* The first branch begins.
LEMMA HandleInitSnapshotBooks ==
  ASSUME BankInv, BankInv', Conserved, BooksBalance, NEW b \in Branch, HandleInitSnapshot(b)
  PROVE  BooksBalance' /\ Conserved'
<1> DEFINE i == d_snapshot_id
           s == NewSnapshot(b, i)
<1>0. Types /\ i \in Nat /\ d_money[b] \in Nat /\ chan \in [Pair -> Seq(Message)]
  BY DEF BankInv, Types
<1>1. ctl[b] # <<>> /\ Head(ctl[b]).type = "InitSnapshot"
  BY DEF HandleInitSnapshot
<1>2. asked
  BY <1>1 DEF BankInv, Retrieving, Returnable, RetrieveSnapshot
<1>3. Beginning(b)
  BY <1>1, <1>2 DEF BankInv, Taking, Started, Beginning
<1>4. Head(ctl[b]).id = i /\ ~Taken(b)
  BY <1>3 DEF Beginning, InitSnapshot
<1>5. s \in SnapshotOf(b) /\ s.id = i /\ Accounted(s) = d_money[b]
  BY <1>0, NewIs, AccountedNew
<1>6. /\ d_snapshot' = With(b, s) /\ chan' = SendMarkers(chan, b, i)
      /\ d_money' = d_money /\ d_snapshot_id' = d_snapshot_id
  BY <1>4 DEF HandleInitSnapshot, With
<1>7. SameWays(chan, b)
  BY DEF SameWays
<1> HIDE DEF s
<1> QED BY <1>0, <1>4, <1>5, <1>6, <1>7, BooksBegin

\* A marker arrives: there was nothing ahead of it, and what is behind it does not
\* belong to the snapshot.
LEMMA HandleMarkerBooks ==
  ASSUME BankInv, BankInv', Conserved, BooksBalance, NEW p \in Pair, HandleMarker(p)
  PROVE  BooksBalance' /\ Conserved'
<1> DEFINE i == d_snapshot_id
           a == p[1]
           b == p[2]
           q == chan[p]
           t == Tail(q)
           rest == [chan EXCEPT ![p] = t]
           sa == d_snapshot[a]
<1>0. /\ Types /\ i \in Nat /\ d_money[b] \in Nat /\ a \in Peers(b) /\ a \in Branch
      /\ b \in Branch /\ a # b /\ q \in Seq(Message)
  BY PairIs DEF BankInv, Types
<1>1. q # <<>> /\ Head(q).type = "Marker"
  BY DEF HandleMarker, Arrived
<1>2. Flow(q, i, a, sa, d_snapshot[b])
  BY DEF BankInv, Flows
<1>3. Single(q, i)
  BY <1>2 DEF Flow
<1>4. /\ t \in Seq(Message) /\ Marking(q) /\ Head(q).id = i /\ ~Marking(t) /\ Single(t, i)
      /\ Worth(Head(q)) = 0
  <2> HIDE DEF q, i
  <2>1. Head(q) \in Message
    BY <1>0, <1>1
  <2> QED BY <1>0, <1>1, <1>3, <2>1, MarkerTaken, WorthIs
<1>5. Begun(sa, i)
  BY <1>2, <1>4 DEF Flow
<1>6. Way(q, i, sa) = Way(t, i, sa) /\ InFlight(t, DOMAIN t) = InFlight(q, DOMAIN q)
  <2> HIDE DEF q, i, sa
  <2>1. Ahead(q, i) = 0
    BY <1>0, <1>1, <1>4, AheadMarker
  <2>2. Way(q, i, sa) = 0
    BY <1>0, <1>3, <1>4, <2>1, WayIs
  <2>3. InFlight(q, DOMAIN q) = InFlight(t, DOMAIN t) + 0
    BY <1>0, <1>1, <1>4, AllTail
  <2> HIDE DEF t
  <2>4. Way(t, i, sa) = 0
    BY <1>0, <1>4, <1>5, WayIs
  <2> DEFINE u == InFlight(t, DOMAIN t)
  <2>5. u \in Int
    BY <1>4, QueueIs
  <2> HIDE DEF u
  <2>6. InFlight(q, DOMAIN q) = u
    BY <2>3, <2>5 DEF u
  <2> QED BY <2>2, <2>4, <2>6 DEF u
<1> HIDE DEF t
<1>7. /\ rest \in [Pair -> Seq(Message)] /\ rest[p] = t
      /\ \A r \in Pair : r # p => rest[r] = chan[r]
  BY <1>0, <1>4 DEF Types
<1>8. d_money' = d_money /\ d_snapshot_id' = d_snapshot_id
  BY DEF HandleMarker
<1>9. CASE ~Taken(b)
  <2> DEFINE n == NewSnapshot(b, i)
             s == Marked(n, a)
  <2>1. d_snapshot' = With(b, s) /\ chan' = SendMarkers(rest, b, i)
    BY <1>4, <1>9 DEF HandleMarker, Taken, With, t
  <2>2. n \in SnapshotOf(b) /\ n.id = i /\ Accounted(n) = d_money[b]
    BY <1>0, NewIs, AccountedNew
  <2> HIDE DEF n
  <2>3. s \in SnapshotOf(b) /\ s.id = i /\ Accounted(s) = d_money[b]
    BY <1>0, <2>2, MarkedIs, AccountedMarked
  <2> HIDE DEF s, rest
  <2>4. SameWays(rest, b)
    <3> SUFFICES ASSUME NEW r \in Pair
                 PROVE  IF r[1] = b THEN rest[r] = chan[r]
                        ELSE /\ Way(rest[r], i, d_snapshot[r[1]]) = Way(chan[r], i, d_snapshot[r[1]])
                             /\ InFlight(rest[r], DOMAIN rest[r]) = InFlight(chan[r], DOMAIN chan[r])
      BY DEF SameWays
    <3> QED BY <1>0, <1>6, <1>7
  <2> HIDE DEF b
  <2> QED BY <1>0, <1>7, <1>8, <1>9, <2>1, <2>3, <2>4, BooksBegin
<1>10. CASE Taken(b)
  <2> DEFINE s == d_snapshot[b]
             s2 == Marked(s, a)
  <2>1. d_snapshot' = [d_snapshot EXCEPT ![b] = s2] /\ chan' = rest
    BY <1>4, <1>10 DEF HandleMarker, Taken, t
  <2>2. s \in SnapshotOf(b) /\ s.id = i
    BY <1>0, <1>10 DEF Types, Taken
  <2>3. s2 \in SnapshotOf(b) /\ s2.id = i /\ Accounted(s2) = Accounted(s)
    BY <1>0, <2>2, MarkedIs, AccountedMarked
  <2> HIDE DEF s2
  <2>4. Begun(s, i) /\ Begun(s2, i)
    BY <1>0, <2>2, <2>3, NoneIsNo DEF Begun
  <2>5. d_snapshot'[b] = s2 /\ \A c \in Branch : c # b => d_snapshot'[c] = d_snapshot[c]
    BY <1>0, <2>1 DEF Types
  <2>6. Sheets /\ Sheets'
    BY SheetsNow, SheetsThen
  <2>7. ASSUME NEW c \in Branch
        PROVE  Shares'[c] = Shares[c]
    <3>1. CASE c = b
      <4>1. Shares[b] = Stake(s, i, d_money[b]) /\ Shares'[b] = Stake(s2, i, d_money[b])
        BY <1>0, <1>8, <2>5, <2>6 DEF Sheets
      <4> QED BY <2>3, <2>4, <3>1, <4>1 DEF Stake
    <3>2. CASE c # b
      BY <1>8, <2>5, <3>2, ShareStays
    <3> QED BY <3>1, <3>2
  <2> HIDE DEF rest
  <2>8. ASSUME NEW r \in Pair
        PROVE  Ways'[r] = Ways[r] /\ Queued'[r] = Queued[r]
    <3>1. CASE r = p
      <4>1. chan'[p] = t /\ d_snapshot'[a] = sa
        BY <1>0, <1>7, <2>1, <2>5
      <4>2. /\ Ways[p] = Way(q, i, sa) /\ Ways'[p] = Way(t, i, sa)
            /\ Queued[p] = InFlight(q, DOMAIN q) /\ Queued'[p] = InFlight(t, DOMAIN t)
        BY <1>8, <2>6, <4>1 DEF Sheets
      <4> QED BY <1>6, <3>1, <4>2
    <3>2. CASE r # p
      <4>1. chan'[r] = chan[r] /\ r[1] \in Branch
        BY <1>7, <2>1, <3>2, PairIs
      <4>2. Begun(d_snapshot'[r[1]], i) <=> Begun(d_snapshot[r[1]], i)
        BY <2>4, <2>5, <4>1
      <4> QED BY <1>8, <4>1, <4>2, ChannelStays
    <3> QED BY <3>1, <3>2
  <2>9. BooksBalance'
    BY <2>7, <2>8, BooksStay
  <2>10. Conserved'
    BY <1>8, <2>8, ConservedStay
  <2> QED BY <2>9, <2>10
<1> QED BY <1>9, <1>10

\* The controller moves on: nobody has begun the next snapshot, and the books are
\* the balances and all that is on the way.
LEMMA DoRetrieveSnapshotBooks ==
  ASSUME BankInv, BankInv', Conserved, BooksBalance, DoRetrieveSnapshot
  PROVE  BooksBalance' /\ Conserved'
<1> DEFINE i == d_snapshot_id
           j == i + 1
<1>0. i \in Nat /\ j \in Nat /\ i # j
  BY DEF BankInv, Types
<1>1. /\ asked /\ Settled /\ d_snapshot_id' = j
      /\ d_money' = d_money /\ d_snapshot' = d_snapshot /\ chan' = chan
  BY DEF DoRetrieveSnapshot
<1>2. \A b \in Branch : ~Begun(d_snapshot[b], j)
  BY <1>0, <1>1, SettledIsComplete DEF Taken, Begun
<1>3. Sheets /\ Sheets'
  BY SheetsNow, SheetsThen
<1> HIDE DEF j
<1>4. ASSUME NEW b \in Branch
      PROVE  Shares'[b] = d_money[b]
  <2>1. Shares'[b] = Stake(d_snapshot[b], j, d_money[b])
    BY <1>1, <1>3 DEF Sheets
  <2> QED BY <1>2, <2>1 DEF Stake
<1>5. ASSUME NEW p \in Pair
      PROVE  Ways'[p] = Queued[p] /\ Queued'[p] = Queued[p]
  <2> DEFINE q == chan[p]
             s == d_snapshot[p[1]]
  <2>1. /\ Ways'[p] = Way(q, j, s) /\ Queued[p] = InFlight(q, DOMAIN q)
        /\ Queued'[p] = InFlight(q, DOMAIN q)
    BY <1>1, <1>3 DEF Sheets
  <2>2. q \in Seq(Message) /\ ~Begun(s, j) /\ ~Marking(q)
    BY <1>1, <1>2, PairIs DEF BankInv, Types, Settled, Marking
  <2>3. Single(q, j)
    BY <2>2 DEF Single, Marking
  <2> HIDE DEF q, s
  <2>4. Way(q, j, s) = Ahead(q, j) /\ Places(q, j) = DOMAIN q
    BY <1>0, <2>2, <2>3, WayIs, MarkersIs
  <2> QED BY <2>1, <2>4 DEF Ahead
<1>6. Shares' = d_money /\ Ways' = Queued
  BY <1>3, <1>4, <1>5 DEF Sheets
<1>7. BooksBalance' <=> SumFunction(Shares') + SumFunction(Ways') = Money
  BY DEF BooksBalance, Shares, Ways, Money
<1>8. BooksBalance'
  BY <1>6, <1>7 DEF Conserved
<1>9. Conserved'
  BY <1>1, <1>5, ConservedStay
<1> QED BY <1>8, <1>9

\* A step that moves no message and begins nothing.
LEMMA NothingMoves ==
  ASSUME Conserved, BooksBalance, d_money' = d_money, d_snapshot' = d_snapshot, chan' = chan,
         d_snapshot_id' = d_snapshot_id
  PROVE  BooksBalance' /\ Conserved'
BY DEF BooksBalance, Conserved, Queued, Money, Share, OnTheWay, Taken

\* Initially every branch has its balance, and nothing is on the way.
LEMMA BooksInit == Init => BooksBalance /\ Conserved
<1> SUFFICES ASSUME Init PROVE BooksBalance /\ Conserved
  OBVIOUS
<1>0. BankInv
  BY BankInit
<1>1. Sheets
  BY <1>0, SheetsNow
<1>2. d_snapshot_id \in Nat
  BY <1>0 DEF BankInv, Types
<1>3. ASSUME NEW b \in Branch
      PROVE  Shares[b] = Balance /\ d_money[b] = Balance
  <2>1. d_money[b] = Balance /\ d_snapshot[b] = None
    BY DEF Init
  <2>2. Shares[b] = Stake(d_snapshot[b], d_snapshot_id, d_money[b])
    BY <1>1 DEF Sheets
  <2> QED BY <2>1, <2>2 DEF Stake, Begun
<1> DEFINE q == <<>>
<1>4. q \in Seq(Message) /\ DOMAIN q = {}
  OBVIOUS
<1>5. ~Marking(q) /\ \A i : Single(q, i)
  BY <1>4 DEF Marking, Single
<1>6. \A p \in Pair : chan[p] = q /\ d_snapshot[p[1]] = None
  BY PairIs DEF Init
<1> HIDE DEF q
<1>7. InFlight(q, DOMAIN q) = 0
  BY <1>4, InFlightNothing
<1>8. ASSUME NEW p \in Pair
      PROVE  Ways[p] = 0 /\ Queued[p] = 0
  <2>1. Ways[p] = Way(q, d_snapshot_id, None) /\ Queued[p] = InFlight(q, DOMAIN q)
    BY <1>1, <1>6 DEF Sheets
  <2>2. ~Begun(None, d_snapshot_id)
    BY DEF Begun
  <2>3. Way(q, d_snapshot_id, None) = Ahead(q, d_snapshot_id)
    BY <1>2, <1>4, <1>5, <2>2, WayIs
  <2>4. Places(q, d_snapshot_id) = DOMAIN q
    BY <1>2, <1>4, <1>5, MarkersIs
  <2> QED BY <1>7, <2>1, <2>3, <2>4 DEF Ahead
<1>9. \A f : DOMAIN f = Branch /\ (\A b \in Branch : f[b] = Balance) => SumFunction(f) = Money
  <2> SUFFICES ASSUME NEW f, DOMAIN f = Branch, \A b \in Branch : f[b] = Balance
               PROVE  SumFunction(f) = Money
    OBVIOUS
  <2>1. Sum(f, Branch) = Balance * Cardinality(Branch)
    BY BranchAssumption, BalanceAssumption, SumConstant
  <2>2. SumFunction(f) = Sum(f, Branch)
    BY SumFunctionIs
  <2> QED BY <2>1, <2>2 DEF Money
<1>10. \A g : DOMAIN g = Pair /\ (\A p \in Pair : g[p] = 0) => SumFunction(g) = 0
  <2> SUFFICES ASSUME NEW g, DOMAIN g = Pair, \A p \in Pair : g[p] = 0
               PROVE  SumFunction(g) = 0
    OBVIOUS
  <2>1. Sum(g, Pair) = 0 * Cardinality(Pair) /\ Cardinality(Pair) \in Nat
    BY PairsFinite, SumConstant, FS_CardinalityType
  <2>2. SumFunction(g) = Sum(g, Pair)
    BY SumFunctionIs
  <2> QED BY <2>1, <2>2
<1>11. DOMAIN Shares = Branch /\ DOMAIN d_money = Branch /\ DOMAIN Ways = Pair /\ DOMAIN Queued = Pair
  BY <1>1 DEF Sheets
<1>12. SumFunction(Shares) = Money /\ SumFunction(d_money) = Money
  BY <1>3, <1>9, <1>11
<1>13. SumFunction(Ways) = 0 /\ SumFunction(Queued) = 0
  BY <1>8, <1>10, <1>11
<1>14. Money \in Int
  <2>1. Cardinality(Branch) \in Nat
    BY BranchAssumption, FS_CardinalityType
  <2> QED BY <2>1, BalanceAssumption DEF Money
<1>15. BooksBalance <=> SumFunction(Shares) + SumFunction(Ways) = Money
  BY DEF BooksBalance, Shares, Ways
<1> HIDE DEF Money
<1> QED BY <1>12, <1>13, <1>14, <1>15 DEF Conserved

\* Every step keeps the books.
LEMMA BooksNext ==
  BankInv /\ BankInv' /\ Conserved /\ BooksBalance /\ [Next]_vars => BooksBalance' /\ Conserved'
<1> SUFFICES ASSUME BankInv, BankInv', Conserved, BooksBalance, [Next]_vars
             PROVE  BooksBalance' /\ Conserved'
  OBVIOUS
<1>1. CASE UNCHANGED vars
  BY <1>1, NothingMoves DEF vars
<1>2. ASSUME NEW b \in Branch, HandleRetrieveSnapshot(b) \/ DoSnapshot(b)
      PROVE  BooksBalance' /\ Conserved'
  BY <1>2, NothingMoves DEF HandleRetrieveSnapshot, DoSnapshot
<1> QED BY <1>1, <1>2, SendMoneyBooks, HandleTransferBooks, HandleMarkerBooks,
           HandleInitSnapshotBooks, DoRetrieveSnapshotBooks DEF Next

(***************************************************************************)
(* For any number of branches, snapshots and payments, the books balance   *)
(* in every state of a snapshot: what the branches that have begun have    *)
(* recorded, the balances of those that have not, and the transfers ahead  *)
(* of the markers are all the money.                                       *)
(***************************************************************************)
THEOREM BooksAlwaysBalance == Spec => []BooksBalance
<1> DEFINE Inv == BankInv /\ BooksBalance /\ Conserved
<1>1. Init => Inv
  BY BankInit, BooksInit
<1>2. Inv /\ [Next]_vars => Inv'
  BY BankNext, BooksNext
<1>3. Inv => BooksBalance
  OBVIOUS
<1> QED BY <1>1, <1>2, <1>3, PTL DEF Spec

-----------------------------------------------------------------------------
(* What the controller prints                                              *)

\* What the branches hold in their snapshots.
Holdings == [b \in Branch |-> Accounted(d_snapshot[b])]

\* Snapshot i has been asked for: it is complete and accounts for all the money,
\* and what is printed of it is what the branches hold.
Printed(i) ==
  /\ \A b \in Branch : /\ d_snapshot[b] \in SnapshotOf(b) /\ Complete(d_snapshot[b])
                       /\ reports[i][b] # None => reports[i][b] = Accounted(d_snapshot[b])
  /\ SumFunction(Holdings) = Money

Printing == ~asked => \A i \in Id : i = d_snapshot_id - 1 => Printed(i)

\* Nothing is printed of a snapshot before it is asked for.
Unprinted == \A i \in Id : i >= d_snapshot_id => \A b \in Branch : reports[i][b] = None

Sheet ==
  /\ reports = [i \in Id |-> reports[i]]
  /\ \A i \in Id : reports[i] = [b \in Branch |-> reports[i][b]]

ReportInv == Sheet /\ Unprinted /\ Printing /\ ReportConserves

\* A step that prints nothing, while a snapshot is taken or with no snapshot changed.
LEMMA NothingPrinted ==
  ASSUME ReportInv, reports' = reports, d_snapshot_id' = d_snapshot_id,
         asked' \/ (asked' = asked /\ d_snapshot' = d_snapshot)
  PROVE  ReportInv'
<1>1. Sheet' /\ Unprinted' /\ ReportConserves'
  BY DEF ReportInv, Sheet, Unprinted, ReportConserves, Money
<1>2. Printing'
  <2>1. CASE asked'
    BY <2>1 DEF Printing
  <2>2. CASE asked' = asked /\ d_snapshot' = d_snapshot
    <3> SUFFICES ASSUME ~asked, NEW i \in Id, i = d_snapshot_id - 1 PROVE Printed(i)'
      BY <2>2 DEF Printing
    <3>1. Printed(i)
      BY DEF ReportInv, Printing
    <3> QED BY <2>2, <3>1 DEF Printed, Holdings, Money
  <2> QED BY <2>1, <2>2
<1> QED BY <1>1, <1>2 DEF ReportInv

\* A marker, or an order to begin, is on the way only while a snapshot is taken.
LEMMA TakenOnlyWhenAsked ==
  ASSUME BankInv
  PROVE  /\ \A p \in Pair : HandleMarker(p) => asked
         /\ \A b \in Branch : HandleInitSnapshot(b) => asked
<1>1. ASSUME NEW p \in Pair, HandleMarker(p) PROVE asked
  <2> DEFINE q == chan[p]
  <2>0. Types /\ q \in Seq(Message) /\ p[1] \in Branch
    BY PairIs DEF BankInv, Types
  <2>1. q # <<>> /\ Head(q).type = "Marker"
    BY <1>1 DEF HandleMarker, Arrived
  <2>2. Flow(q, d_snapshot_id, p[1], d_snapshot[p[1]], d_snapshot[p[2]])
    BY DEF BankInv, Flows
  <2>3. Marking(q)
    <3> HIDE DEF q
    <3>1. 1 \in DOMAIN q /\ q[1].type = "Marker"
      BY <2>0, <2>1, TailIs
    <3> QED BY <3>1 DEF Marking
  <2>4. Taken(p[1])
    BY <2>2, <2>3 DEF Flow, Begun, Taken
  <2> QED BY <2>0, <2>4 DEF BankInv, Behind, Taken, Types
<1>2. ASSUME NEW b \in Branch, HandleInitSnapshot(b) PROVE asked
  <2>1. ctl[b] # <<>> /\ Head(ctl[b]).type = "InitSnapshot"
    BY <1>2 DEF HandleInitSnapshot
  <2> QED BY <2>1 DEF BankInv, Retrieving, Returnable, RetrieveSnapshot
<1> QED BY <1>1, <1>2

\* A payment that arrives is not put down in a complete snapshot.
LEMMA HandleTransferPrints ==
  ASSUME BankInv, ReportInv, NEW p \in Pair, HandleTransfer(p)
  PROVE  ReportInv'
<1> DEFINE a == p[1]
           b == p[2]
           s == d_snapshot[b]
           m == Head(chan[p]).money
<1>0. /\ reports' = reports /\ d_snapshot_id' = d_snapshot_id /\ asked' = asked
      /\ d_snapshot' = [d_snapshot EXCEPT ![b] = Recorded(s, a, m)]
      /\ a \in Peers(b) /\ b \in Branch
  BY PairIs DEF HandleTransfer
<1>1. CASE asked
  BY <1>0, <1>1, NothingPrinted
<1>2. CASE ~asked
  <2>1. Sheet' /\ Unprinted' /\ ReportConserves'
    BY <1>0 DEF ReportInv, Sheet, Unprinted, ReportConserves, Money
  <2>2. Printing'
    <3> SUFFICES ASSUME NEW i \in Id, i = d_snapshot_id - 1 PROVE Printed(i)'
      BY <1>0 DEF Printing
    <3>1. Printed(i)
      BY <1>2 DEF ReportInv, Printing
    <3>2. s \in SnapshotOf(b) /\ Complete(s)
      BY <1>0, <3>1 DEF Printed
    <3>3. s.states[a].done
      BY <1>0, <3>2 DEF Complete, SnapshotOf
    <3>4. Recorded(s, a, m) = s
      BY <3>3 DEF Recorded
    <3>5. d_snapshot' = d_snapshot
      <4>1. d_snapshot' = [d_snapshot EXCEPT ![b] = d_snapshot[b]]
        BY <1>0, <3>4
      <4>2. d_snapshot = [c \in Branch |-> d_snapshot[c]]
        BY DEF BankInv, Types
      <4> HIDE DEF b
      <4> QED BY <4>1, <4>2
    <3> QED BY <1>0, <3>1, <3>5 DEF Printed, Holdings, Money
  <2> QED BY <2>1, <2>2 DEF ReportInv
<1> QED BY <1>1, <1>2

\* A branch returns the snapshot.
LEMMA HandleRetrieveSnapshotPrints ==
  ASSUME BankInv, ReportInv, NEW b \in Branch, HandleRetrieveSnapshot(b)
  PROVE  ReportInv'
<1> DEFINE s == d_snapshot[b]
           n == Head(ctl[b]).id
           v == Accounted(s)
<1>0. Types
  BY DEF BankInv
<1>1. ctl[b] # <<>> /\ Head(ctl[b]).type = "RetrieveSnapshot"
  BY DEF HandleRetrieveSnapshot
<1>2. ~asked
  <2> SUFFICES ASSUME asked PROVE FALSE
    BY <1>0 DEF Types
  <2>1. PICK c \in Branch : Beginning(c)
    BY <1>1 DEF BankInv, Taking, Started
  <2>2. c = b /\ Head(ctl[b]) = InitSnapshot(d_snapshot_id)
    BY <1>1, <2>1 DEF Beginning
  <2> QED BY <1>1, <2>2 DEF InitSnapshot
<1>3. Returnable(b)
  BY <1>1, <1>2 DEF BankInv, Retrieving
<1>4. n = d_snapshot_id - 1 /\ d_snapshot_id \in Nat
  BY <1>0, <1>3 DEF Returnable, RetrieveSnapshot, Types
<1>5. /\ reports' = [reports EXCEPT ![n] = [reports[n] EXCEPT ![b] = v]]
      /\ d_snapshot' = d_snapshot /\ d_snapshot_id' = d_snapshot_id /\ asked' = asked
  BY <1>3, <1>4 DEF HandleRetrieveSnapshot, Returnable
<1> HIDE DEF n, v
<1>6. /\ reports = [i \in Id |-> reports[i]]
      /\ \A i \in Id : reports[i] = [c \in Branch |-> reports[i][c]]
  BY DEF ReportInv, Sheet
<1> DEFINE row == [reports[n] EXCEPT ![b] = v]
<1>7. n \in Id => /\ row = [c \in Branch |-> row[c]] /\ row[b] = v
                  /\ \A c \in Branch : c # b => row[c] = reports[n][c]
  BY <1>6
<1> HIDE DEF row
<1>8. reports' = [reports EXCEPT ![n] = row]
  BY <1>5 DEF row
<1>9. /\ reports' = [i \in Id |-> reports'[i]]
      /\ \A i \in Id : reports'[i] = IF i = n THEN row ELSE reports[i]
  BY <1>6, <1>8
<1>10. Sheet'
  BY <1>6, <1>7, <1>9 DEF Sheet
<1>11. Unprinted'
  <2> SUFFICES ASSUME NEW i \in Id, i >= d_snapshot_id, NEW c \in Branch PROVE reports'[i][c] = None
    BY <1>5 DEF Unprinted
  <2>1. i # n
    BY <1>4 DEF Id
  <2> QED BY <1>9, <2>1 DEF ReportInv, Unprinted
<1>12. ASSUME NEW k \in Id, k = n PROVE Printed(k)'
  <2>1. Printed(k)
    BY <1>2, <1>4, <1>12 DEF ReportInv, Printing
  <2>2. \A c \in Branch : reports'[k][c] # None => reports'[k][c] = Accounted(d_snapshot[c])
    BY <1>7, <1>9, <1>12, <2>1 DEF Printed, v
  <2> QED BY <1>5, <2>1, <2>2 DEF Printed, Holdings, Money
<1>13. Printing'
  BY <1>4, <1>5, <1>12 DEF Printing
<1>14. ReportConserves'
  <2> SUFFICES ASSUME NEW i \in Id, \A c \in Branch : reports'[i][c] # None
               PROVE  SumFunction(reports'[i]) = Money
    BY DEF ReportConserves, Money
  <2>1. CASE i = n
    <3>1. Printed(i)'
      BY <1>12, <2>1
    <3>2. \A c \in Branch : reports'[i][c] = Holdings'[c]
      BY <3>1 DEF Printed, Holdings
    <3>3. reports'[i] = [c \in Branch |-> reports'[i][c]]
      BY <1>10 DEF Sheet
    <3>4. reports'[i] = Holdings'
      BY <3>2, <3>3 DEF Holdings
    <3> QED BY <3>1, <3>4 DEF Printed, Money
  <2>2. CASE i # n
    <3>1. reports'[i] = reports[i]
      BY <1>9, <2>2
    <3> QED BY <3>1 DEF ReportInv, ReportConserves
  <2> QED BY <2>1, <2>2
<1> QED BY <1>10, <1>11, <1>13, <1>14 DEF ReportInv

\* The controller asks for the snapshot: every branch has completed it, nothing is
\* ahead of a marker any more, and the books say that it is all the money.
LEMMA DoRetrieveSnapshotPrints ==
  ASSUME BankInv, BooksBalance, ReportInv, DoRetrieveSnapshot
  PROVE  ReportInv'
<1> DEFINE i == d_snapshot_id
<1>0. Types /\ i \in Nat /\ (i + 1) - 1 = i
  BY DEF BankInv, Types
<1>1. /\ asked /\ Settled /\ d_snapshot_id' = i + 1 /\ asked' = FALSE
      /\ d_snapshot' = d_snapshot /\ reports' = reports
  BY DEF DoRetrieveSnapshot
<1>2. \A b \in Branch : Taken(b) /\ Complete(d_snapshot[b])
  BY <1>1, SettledIsComplete
<1>3. \A b \in Branch : d_snapshot[b] \in SnapshotOf(b) /\ Begun(d_snapshot[b], i)
  BY <1>0, <1>2 DEF Types, Taken, Begun
<1>4. Sheets
  BY SheetsNow
<1>5. Shares = Holdings
  BY <1>2 DEF Shares, Holdings, Share
<1>6. ASSUME NEW p \in Pair PROVE Ways[p] = 0
  <2> DEFINE q == chan[p]
             s == d_snapshot[p[1]]
  <2>1. Ways[p] = Way(q, i, s)
    BY <1>4 DEF Sheets
  <2>2. q \in Seq(Message) /\ ~Marking(q) /\ Begun(s, i)
    BY <1>0, <1>1, <1>3, PairIs DEF Types, Settled, Marking
  <2>3. Single(q, i)
    BY <2>2 DEF Single, Marking
  <2> HIDE DEF q, s, i
  <2> QED BY <1>0, <2>1, <2>2, <2>3, WayIs
<1>7. SumFunction(Ways) = 0 /\ SumFunction(Shares) \in Int
  <2>1. DOMAIN Ways = Pair /\ DOMAIN Shares = Branch /\ \A b \in Branch : Shares[b] \in Int
    BY <1>4 DEF Sheets
  <2>2. Sum(Ways, Pair) = 0 * Cardinality(Pair) /\ Cardinality(Pair) \in Nat
    BY <1>6, PairsFinite, SumConstant, FS_CardinalityType
  <2>3. Sum(Shares, Branch) \in Int
    BY <2>1, BranchAssumption, SumInt
  <2>4. SumFunction(Ways) = Sum(Ways, Pair) /\ SumFunction(Shares) = Sum(Shares, Branch)
    BY <2>1, SumFunctionIs
  <2> QED BY <2>2, <2>3, <2>4
<1>8. SumFunction(Shares) + SumFunction(Ways) = Money
  BY DEF BooksBalance, Shares, Ways
<1>9. SumFunction(Holdings) = Money
  <2> DEFINE u == SumFunction(Shares)
  <2> HIDE DEF u
  <2>1. u + 0 = Money /\ u \in Int
    BY <1>7, <1>8 DEF u
  <2>2. u = Money
    BY <2>1
  <2> QED BY <1>5, <2>2 DEF u
<1>10. Sheet' /\ ReportConserves'
  BY <1>1 DEF ReportInv, Sheet, ReportConserves, Money
<1>11. Unprinted'
  <2> SUFFICES ASSUME NEW k \in Id, k >= i + 1, NEW b \in Branch PROVE reports[k][b] = None
    BY <1>1 DEF Unprinted
  <2>1. k >= i
    BY <1>0 DEF Id
  <2> QED BY <2>1 DEF ReportInv, Unprinted
<1>12. Printing'
  <2> SUFFICES ASSUME NEW k \in Id, k = i PROVE Printed(k)'
    BY <1>0, <1>1 DEF Printing
  <2>1. \A b \in Branch : reports[k][b] = None
    BY <1>0 DEF ReportInv, Unprinted
  <2> QED BY <1>1, <1>2, <1>3, <1>9, <2>1 DEF Printed, Holdings, Money
<1> QED BY <1>10, <1>11, <1>12 DEF ReportInv

\* Every step keeps what is printed right.
LEMMA ReportNext == BankInv /\ BooksBalance /\ ReportInv /\ [Next]_vars => ReportInv'
<1> SUFFICES ASSUME BankInv, BooksBalance, ReportInv, [Next]_vars PROVE ReportInv'
  OBVIOUS
<1>1. CASE UNCHANGED vars
  BY <1>1, NothingPrinted DEF vars
<1>2. ASSUME NEW p \in Pair, NEW money, SendMoney(p[1], p[2], money) PROVE ReportInv'
  BY <1>2, NothingPrinted DEF SendMoney
<1>3. ASSUME NEW p \in Pair, HandleMarker(p) PROVE ReportInv'
  BY <1>3, TakenOnlyWhenAsked, NothingPrinted DEF HandleMarker
<1>4. ASSUME NEW b \in Branch, HandleInitSnapshot(b) PROVE ReportInv'
  BY <1>4, TakenOnlyWhenAsked, NothingPrinted DEF HandleInitSnapshot
<1>5. ASSUME NEW b \in Branch, DoSnapshot(b) PROVE ReportInv'
  BY <1>5, NothingPrinted DEF DoSnapshot
<1> QED BY <1>1, <1>2, <1>3, <1>4, <1>5, HandleTransferPrints, HandleRetrieveSnapshotPrints,
           DoRetrieveSnapshotPrints DEF Next

\* Initially nothing is printed.
LEMMA ReportInit == Init /\ BooksBalance => ReportInv
<1> SUFFICES ASSUME Init, BooksBalance PROVE ReportInv
  OBVIOUS
<1>1. Sheet /\ Unprinted
  BY DEF Init, Sheet, Unprinted
<1>2. Printing
  BY DEF Init, Printing, Id
<1>3. ReportConserves
  <2> SUFFICES ASSUME NEW i \in Id, \A b \in Branch : reports[i][b] # None
               PROVE  SumFunction(reports[i]) = Money
    BY DEF ReportConserves
  <2> DEFINE f == reports[i]
  <2>1. DOMAIN f = Branch /\ \A b \in Branch : f[b] = None
    BY DEF Init
  <2>2. Branch = {}
    BY <2>1
  <2> HIDE DEF f
  <2>3. SumFunction(f) = Sum(f, Branch)
    BY <2>1, SumFunctionIs
  <2>4. Sum(f, Branch) = 0
    BY <2>2, SumEmpty, Zenon
  <2>5. Money = 0
    <3>1. Cardinality(Branch) = 0
      BY <2>2, FS_EmptySet
    <3> QED BY <3>1, BalanceAssumption DEF Money
  <2> QED BY <2>3, <2>4, <2>5 DEF f
<1> QED BY <1>1, <1>2, <1>3 DEF ReportInv

(***************************************************************************)
(* For any number of branches, snapshots and payments, a snapshot that all *)
(* branches have returned accounts for all the money, each unit once: the  *)
(* books balance when the last marker has arrived, a complete snapshot     *)
(* does not change any more, and what is printed is what it holds.         *)
(***************************************************************************)
THEOREM ReportsConserve == Spec => []ReportConserves
<1> DEFINE Inv == BankInv /\ BooksBalance /\ Conserved /\ ReportInv
<1>1. Init => Inv
  BY BankInit, BooksInit, ReportInit
<1>2. Inv /\ [Next]_vars => Inv'
  BY BankNext, BooksNext, ReportNext
<1>3. Inv => ReportConserves
  BY DEF ReportInv
<1> QED BY <1>1, <1>2, <1>3, PTL DEF Spec
===========================================================================
