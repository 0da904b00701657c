-------------------------- MODULE BankStartProofs --------------------------
(***************************************************************************)
(* Proofs about BankStart, for every number of branches and every balance. *)
(***************************************************************************)
EXTENDS BankStart, Sums, TLAPS

(***************************************************************************)
(* The list of branches wraps around at most once.                         *)
(***************************************************************************)
LEMMA WrapFacts ==
  ASSUME NEW x \in Nat, x < N + N
  PROVE  x % N = IF x < N THEN x ELSE x - N
<1>1. CASE x < N
  BY <1>1, NAssumption
<1>2. CASE ~(x < N)
  BY <1>2, NAssumption
<1>3. QED BY <1>1, <1>2

(***************************************************************************)
(* The number of branches that b dials, for an odd and for an even number  *)
(* of branches.                                                            *)
(***************************************************************************)
LEMMA CountFacts ==
  ASSUME NEW b \in Branch
  PROVE  \E h \in Nat :
           \/ N = 2 * h + 1 /\ OutgoingCount(b) = h
           \/ N = 2 * h /\ OutgoingCount(b) = IF b < h THEN h ELSE h - 1
<1> DEFINE h == N \div 2
<1>1. h \in Nat /\ N % 2 \in 0..1 /\ N = (2 * h) + (N % 2)
  BY NAssumption
<1>2. CASE N % 2 = 0
  <2>1. N = 2 * h /\ h > 0
    BY <1>1, <1>2, NAssumption
  <2>2. (N - 1) \div 2 = h - 1
    BY <1>1, <2>1, NAssumption
  <2> HIDE DEF h
  <2>3. OutgoingCount(b) = (h - 1) + (IF b < h THEN 1 ELSE 0)
    BY <1>2, <2>2 DEF OutgoingCount, h
  <2>4. OutgoingCount(b) = IF b < h THEN h ELSE h - 1
    BY <2>3, <1>1
  <2>5. QED BY <2>1, <2>4, <1>1
<1>3. CASE N % 2 = 1
  <2>1. N = 2 * h + 1
    BY <1>1, <1>3, NAssumption
  <2>2. (N - 1) \div 2 = h
    BY <1>1, <2>1, NAssumption
  <2>3. OutgoingCount(b) = h + 0
    BY <1>3, <2>2 DEF OutgoingCount
  <2> HIDE DEF h
  <2>4. OutgoingCount(b) = h
    BY <2>3, <1>1
  <2>5. QED BY <2>1, <2>4, <1>1
<1>4. QED BY <1>1, <1>2, <1>3

(***************************************************************************)
(* Branch a dials branch b if b is close enough behind it in the list.     *)
(***************************************************************************)
LEMMA DialFacts ==
  ASSUME NEW a \in Branch, NEW b \in Branch, a # b
  PROVE  b \in Outgoing(a) <=> (IF a < b THEN b - a ELSE b - a + N) <= OutgoingCount(a)
<1> DEFINE d == IF a < b THEN b - a ELSE b - a + N
<1>1. a \in Int /\ b \in Int /\ 0 <= a /\ a < N /\ 0 <= b /\ b < N /\ N \in Nat \ {0}
  BY NAssumption DEF Branch
<1>2. d \in 1..N - 1
  BY <1>1
<1>3. OutgoingCount(a) \in Int /\ OutgoingCount(a) < N
  <2>1. PICK h \in Nat : \/ N = 2 * h + 1 /\ OutgoingCount(a) = h
                         \/ N = 2 * h /\ OutgoingCount(a) = IF a < h THEN h ELSE h - 1
    BY CountFacts
  <2>2. QED BY <2>1, <1>1
<1>4. ASSUME NEW i \in 1..OutgoingCount(a)
      PROVE  (a + i) % N = b <=> i = d
  <2> DEFINE x == a + i
  <2>1. x \in Nat /\ x < N + N
    BY <1>1, <1>3
  <2> HIDE DEF x
  <2>2. x % N = IF x < N THEN x ELSE x - N
    BY <2>1, WrapFacts
  <2> USE DEF x
  <2>3. i \in Int /\ 1 <= i /\ i < N
    BY <1>1, <1>3
  <2>4. QED BY <2>2, <2>3, <1>1
<1>5. b \in Outgoing(a) <=> \E i \in 1..OutgoingCount(a) : i = d
  BY <1>4 DEF Outgoing
<1>6. QED BY <1>2, <1>3, <1>5

(***************************************************************************)
(* The dialing rule: of two branches exactly one dials the other.          *)
(***************************************************************************)
LEMMA DialedOnce ==
  ASSUME NEW a \in Branch, NEW b \in Branch, a # b
  PROVE  b \in Outgoing(a) <=> a \notin Outgoing(b)
<1>1. a \in Int /\ b \in Int /\ 0 <= a /\ a < N /\ 0 <= b /\ b < N /\ N \in Nat \ {0}
  BY NAssumption DEF Branch
<1>2. PICK h \in Nat : \/ N = 2 * h + 1 /\ OutgoingCount(a) = h
                       \/ N = 2 * h /\ OutgoingCount(a) = IF a < h THEN h ELSE h - 1
  BY CountFacts
<1>3. PICK g \in Nat : \/ N = 2 * g + 1 /\ OutgoingCount(b) = g
                       \/ N = 2 * g /\ OutgoingCount(b) = IF b < g THEN g ELSE g - 1
  BY CountFacts
<1>4. g = h
  BY <1>1, <1>2, <1>3
<1> DEFINE near(x, y) == (IF x < y THEN y - x ELSE y - x + N) <= OutgoingCount(x)
<1>5. near(a, b) <=> ~near(b, a)
  BY <1>1, <1>2, <1>3, <1>4
<1>6. (b \in Outgoing(a) <=> near(a, b)) /\ (a \in Outgoing(b) <=> near(b, a))
  BY DialFacts
<1> HIDE DEF near
<1>7. QED BY <1>5, <1>6

(***************************************************************************)
(* Nobody dials itself, and nobody dials somebody who is not in the list.  *)
(***************************************************************************)
LEMMA OutgoingPeers ==
  ASSUME NEW a \in Branch, NEW b \in Outgoing(a)
  PROVE  b \in Branch /\ b # a
<1>1. a \in Int /\ 0 <= a /\ a < N /\ N \in Nat \ {0}
  BY NAssumption DEF Branch
<1>2. OutgoingCount(a) \in Int /\ OutgoingCount(a) < N
  <2>1. PICK h \in Nat : \/ N = 2 * h + 1 /\ OutgoingCount(a) = h
                         \/ N = 2 * h /\ OutgoingCount(a) = IF a < h THEN h ELSE h - 1
    BY CountFacts
  <2>2. QED BY <2>1, <1>1
<1>3. PICK i \in 1..OutgoingCount(a) : b = (a + i) % N
  BY DEF Outgoing
<1> DEFINE x == a + i
<1>4. i \in Int /\ 1 <= i /\ i < N /\ x \in Nat /\ x < N + N /\ b = x % N
  BY <1>1, <1>2, <1>3
<1> HIDE DEF x
<1>5. b = IF x < N THEN x ELSE x - N
  BY <1>4, WrapFacts
<1> USE DEF x
<1>6. QED BY <1>1, <1>4, <1>5 DEF Branch

-----------------------------------------------------------------------------
(***************************************************************************)
(* A pair of branches is two different branches, and can be turned round.  *)
(***************************************************************************)
LEMMA PairFacts ==
  ASSUME NEW p \in Pair
  PROVE  /\ p[1] \in Branch /\ p[2] \in Branch /\ p[1] # p[2]
         /\ p = <<p[1], p[2]>>
         /\ <<p[2], p[1]>> \in Pair
BY DEF Pair

(***************************************************************************)
(* A branch pays no more than it has.                                      *)
(***************************************************************************)
LEMMA PaymentFacts ==
  ASSUME NEW balance \in Nat, NEW money \in Payments(balance)
  PROVE  money \in Nat /\ balance - money \in Nat
BY DEF Payments

(***************************************************************************)
(* Type correctness of one step.                                           *)
(***************************************************************************)
LEMMA TypeStep == TypeOK /\ [Next]_vars => TypeOK'
<1> SUFFICES ASSUME TypeOK, [Next]_vars PROVE TypeOK'
  OBVIOUS
<1> USE DEF TypeOK
<1>1. CASE UNCHANGED vars
  BY <1>1 DEF vars
<1>2. ASSUME NEW b \in Branch, HandleInitBranch(b) PROVE TypeOK'
  <2>1. {<<b, t>> : t \in Outgoing(b)} \subseteq Pair
    BY OutgoingPeers DEF Pair
  <2>2. d_money' \in [Branch -> Nat] /\ overwritten' \in Nat
    BY <1>2, StartBalanceAssumption DEF HandleInitBranch
  <2>3. dialing' \subseteq Pair /\ initialised' \subseteq Branch
    BY <1>2, <2>1 DEF HandleInitBranch
  <2>4. QED BY <1>2, <2>2, <2>3 DEF HandleInitBranch
<1>3. ASSUME NEW p \in Pair, Connected(p) PROVE TypeOK'
  <2>1. Hello \in Message
    BY DEF Message
  <2>2. chan' \in [Pair -> Seq(Message)]
    BY <1>3, <2>1 DEF Connected
  <2>3. d_channels' \in [Branch -> SUBSET Branch]
    BY <1>3, PairFacts DEF Connected
  <2>4. QED BY <1>3, <2>2, <2>3 DEF Connected
<1>4. ASSUME NEW p \in Pair, HandleHello(p) PROVE TypeOK'
  <2>1. chan' \in [Pair -> Seq(Message)]
    BY <1>4 DEF HandleHello, Arrived
  <2>2. d_channels' \in [Branch -> SUBSET Branch]
    BY <1>4, PairFacts DEF HandleHello
  <2>3. QED BY <1>4, <2>1, <2>2 DEF HandleHello
<1>5. ASSUME NEW p \in Pair, HandleTransfer(p) PROVE TypeOK'
  <2>1. chan[p] \in Seq(Message) /\ chan[p] # <<>> /\ Head(chan[p]).type = "Transfer"
    BY <1>5 DEF HandleTransfer, Arrived
  <2>2. Head(chan[p]) \in Message /\ Tail(chan[p]) \in Seq(Message)
    BY <2>1
  <2>3. Head(chan[p]).money \in Nat
    BY <2>1, <2>2 DEF Message, Hello
  <2> DEFINE money == Head(chan[p]).money
  <2>4. d_money' \in [Branch -> Nat]
    <3>1. p[2] \in Branch /\ money \in Nat
      BY <2>3, PairFacts
    <3>2. d_money' = [d_money EXCEPT ![p[2]] = @ + money]
      BY <1>5 DEF HandleTransfer
    <3> HIDE DEF money
    <3>3. QED BY <3>1, <3>2
  <2>5. chan' \in [Pair -> Seq(Message)]
    BY <1>5, <2>2 DEF HandleTransfer
  <2>6. QED BY <1>5, <2>4, <2>5 DEF HandleTransfer
<1>6. ASSUME NEW p \in Pair, NEW money \in Payments(d_money[p[1]]),
             SendMoney(p[1], p[2], money)
      PROVE  TypeOK'
  <2>1. d_money[p[1]] \in Nat
    BY PairFacts
  <2>2. money \in Nat /\ d_money[p[1]] - money \in Nat
    BY <2>1, PaymentFacts
  <2>3. d_money' \in [Branch -> Nat]
    BY <1>6, <2>2, PairFacts DEF SendMoney
  <2>4. Transfer(money) \in Message
    BY <2>2 DEF Transfer, Message
  <2>5. chan' = [chan EXCEPT ![p] = Append(@, Transfer(money))]
    BY <1>6, PairFacts DEF SendMoney
  <2>6. chan' \in [Pair -> Seq(Message)]
    BY <2>4, <2>5
  <2>7. QED BY <1>6, <2>3, <2>6 DEF SendMoney
<1>7. QED BY <1>1, <1>2, <1>3, <1>4, <1>5, <1>6 DEF Next

(***************************************************************************)
(* The variables of the starting bank keep their types; in particular no   *)
(* balance goes below zero.                                                *)
(***************************************************************************)
THEOREM TypeCorrect == Spec => []TypeOK
<1>1. Init => TypeOK
  BY DEF Init, TypeOK
<1>2. QED BY <1>1, TypeStep, PTL DEF Spec

-----------------------------------------------------------------------------
\* Who has been called is decided by the rule and by who is initialised.
DialedByRule ==
  \A a, b \in Branch : a # b =>
    (<<a, b>> \in Called <=> a \in initialised /\ b \in Outgoing(a))

(***************************************************************************)
(* One step: only InitBranch adds calls, and all of the rule's at once.    *)
(***************************************************************************)
LEMMA DialedStep == TypeOK /\ DialedByRule /\ [Next]_vars => DialedByRule'
<1> SUFFICES ASSUME TypeOK, DialedByRule, [Next]_vars PROVE DialedByRule'
  OBVIOUS
<1>1. CASE UNCHANGED <<initialised, dialing, open>>
  BY <1>1 DEF DialedByRule, Called
<1>2. ASSUME NEW c \in Branch, HandleInitBranch(c) PROVE DialedByRule'
  <2>1. initialised' = initialised \cup {c}
    BY <1>2 DEF HandleInitBranch
  <2>2. Called' = Called \cup {<<c, t>> : t \in Outgoing(c)}
    BY <1>2 DEF HandleInitBranch, Called
  <2>3. ASSUME NEW a \in Branch, NEW b \in Branch, a # b
        PROVE  <<a, b>> \in Called' <=> a \in initialised' /\ b \in Outgoing(a)
    <3>1. <<a, b>> \in Called <=> a \in initialised /\ b \in Outgoing(a)
      BY <2>3 DEF DialedByRule
    <3>2. CASE a = c
      BY <2>1, <2>2, <3>1, <3>2
    <3>3. CASE a # c
      BY <2>1, <2>2, <3>1, <3>3
    <3>4. QED BY <3>2, <3>3
  <2>4. QED BY <2>3 DEF DialedByRule
<1>3. ASSUME NEW p \in Pair, Connected(p) PROVE DialedByRule'
  <2>1. Called' = Called /\ initialised' = initialised
    BY <1>3 DEF Connected, Called
  <2>2. QED BY <2>1 DEF DialedByRule
<1>4. CASE UNCHANGED vars
  BY <1>1, <1>4 DEF vars
<1>5. ASSUME NEW p \in Pair, HandleHello(p) \/ HandleTransfer(p) PROVE DialedByRule'
  BY <1>1, <1>5 DEF HandleHello, HandleTransfer
<1>6. ASSUME NEW p \in Pair, NEW money \in Payments(d_money[p[1]]),
             SendMoney(p[1], p[2], money)
      PROVE  DialedByRule'
  BY <1>1, <1>6 DEF SendMoney
<1>7. QED BY <1>2, <1>3, <1>4, <1>5, <1>6 DEF Next

(***************************************************************************)
(* For every number of branches, and in whatever order they are            *)
(* initialised: of two initialised branches exactly one has dialed the     *)
(* other.                                                                  *)
(***************************************************************************)
THEOREM Topology == Spec => []EachPairOnce
<1>1. Init => DialedByRule
  BY DEF Init, DialedByRule, Called
<1>2. TypeOK /\ DialedByRule => EachPairOnce
  <2> SUFFICES ASSUME TypeOK, DialedByRule, NEW a \in initialised, NEW b \in initialised, a # b
               PROVE  <<a, b>> \in Called <=> <<b, a>> \notin Called
    BY DEF EachPairOnce
  <2>1. a \in Branch /\ b \in Branch
    BY DEF TypeOK
  <2>2. b \in Outgoing(a) <=> a \notin Outgoing(b)
    BY <2>1, DialedOnce
  <2>3. QED BY <2>1, <2>2 DEF DialedByRule
<1>3. QED BY <1>1, <1>2, TypeCorrect, DialedStep, PTL DEF Spec
-----------------------------------------------------------------------------
\* A waiting message is from somebody known by name, or is a Hello.
KnownOrHello ==
  \A p \in Pair : chan[p] # <<>> => p[1] \in d_channels[p[2]] \/ Head(chan[p]) = Hello

\* Who can send to a branch is known to it, or will be by a waiting message.
Mutual ==
  \A p \in Pair : p[2] \in d_channels[p[1]] => p[1] \in d_channels[p[2]] \/ chan[p] # <<>>

\* Hello is said by a branch that has the other one as a channel.
HelloFromCaller ==
  \A p \in Pair : \A i \in DOMAIN chan[p] : chan[p][i] = Hello => p[2] \in d_channels[p[1]]

Introduced == KnownOrHello /\ Mutual /\ HelloFromCaller

(***************************************************************************)
(* A step that takes the head of one queue, and lets nobody be forgotten,  *)
(* leaves no unknown sender behind if the sender of that queue is known.   *)
(***************************************************************************)
LEMMA TakeStep ==
  ASSUME TypeOK, TypeOK', Introduced, NEW p \in Pair,
         chan[p] # <<>>, chan' = [chan EXCEPT ![p] = Tail(@)],
         \A b \in Branch : d_channels[b] \subseteq d_channels'[b],
         p[1] \in d_channels'[p[2]],
         \A q \in Pair : q[2] \in d_channels'[q[1]] =>
            q[2] \in d_channels[q[1]] \/ q[1] \in d_channels'[q[2]]
  PROVE  Introduced'
<1> USE DEF TypeOK
<1>1. ASSUME NEW q \in Pair, q # p PROVE chan'[q] = chan[q]
  BY <1>1
<1>2. chan'[p] = Tail(chan[p]) /\ chan[p] \in Seq(Message)
  OBVIOUS
<1>3. KnownOrHello'
  <2> SUFFICES ASSUME NEW q \in Pair, chan'[q] # <<>>
               PROVE  q[1] \in d_channels'[q[2]] \/ Head(chan'[q]) = Hello
    BY DEF KnownOrHello
  <2>1. CASE q = p
    BY <2>1
  <2>2. CASE q # p
    <3>1. chan'[q] = chan[q]
      BY <2>2, <1>1
    <3>2. q[1] \in d_channels[q[2]] \/ Head(chan[q]) = Hello
      BY <3>1 DEF Introduced, KnownOrHello
    <3>3. QED BY <3>1, <3>2, PairFacts
  <2>3. QED BY <2>1, <2>2
<1>4. Mutual'
  <2> SUFFICES ASSUME NEW q \in Pair, q[2] \in d_channels'[q[1]]
               PROVE  q[1] \in d_channels'[q[2]] \/ chan'[q] # <<>>
    BY DEF Mutual
  <2>1. CASE q = p
    BY <2>1
  <2>2. CASE q # p /\ q[2] \in d_channels[q[1]]
    <3>1. chan'[q] = chan[q]
      BY <2>2, <1>1
    <3>2. q[1] \in d_channels[q[2]] \/ chan[q] # <<>>
      BY <2>2 DEF Introduced, Mutual
    <3>3. QED BY <3>1, <3>2, PairFacts
  <2>3. QED BY <2>1, <2>2
<1>5. HelloFromCaller'
  <2> SUFFICES ASSUME NEW q \in Pair, NEW i \in DOMAIN chan'[q], chan'[q][i] = Hello
               PROVE  q[2] \in d_channels'[q[1]]
    BY DEF HelloFromCaller
  <2>1. \E j \in DOMAIN chan[q] : chan[q][j] = Hello
    <3>1. CASE q = p
      BY <3>1, <1>2
    <3>2. CASE q # p
      BY <3>2, <1>1
    <3>3. QED BY <3>1, <3>2
  <2>2. q[2] \in d_channels[q[1]]
    BY <2>1 DEF Introduced, HelloFromCaller
  <2>3. QED BY <2>2, PairFacts
<1>6. QED BY <1>3, <1>4, <1>5 DEF Introduced

(***************************************************************************)
(* A step that puts a message at the end of one queue, of a branch that    *)
(* has the other as a channel, keeps the introductions in order, provided  *)
(* the message is a Hello or the queue of an unknown sender is not empty.  *)
(***************************************************************************)
LEMMA PutStep ==
  ASSUME TypeOK, TypeOK', Introduced, NEW p \in Pair, NEW m \in Message,
         chan' = [chan EXCEPT ![p] = Append(@, m)],
         d_channels' = [d_channels EXCEPT ![p[1]] = @ \cup {p[2]}],
         m = Hello \/ p[2] \in d_channels[p[1]]
  PROVE  Introduced'
<1> USE DEF TypeOK
<1>1. ASSUME NEW q \in Pair, q # p PROVE chan'[q] = chan[q]
  BY <1>1
<1>2. chan'[p] = Append(chan[p], m) /\ chan[p] \in Seq(Message)
  OBVIOUS
<1>3. p[2] \in d_channels'[p[1]] /\ \A b \in Branch : d_channels[b] \subseteq d_channels'[b]
  BY PairFacts
<1>4. ASSUME NEW q \in Pair, q # p, q[2] \in d_channels'[q[1]] PROVE q[2] \in d_channels[q[1]]
  BY <1>4, PairFacts
<1>5. chan'[p] # <<>> /\ (chan[p] # <<>> => Head(chan'[p]) = Head(chan[p]))
                     /\ (chan[p] = <<>> => Head(chan'[p]) = m)
  BY <1>2
<1>6. KnownOrHello'
  <2> SUFFICES ASSUME NEW q \in Pair, chan'[q] # <<>>
               PROVE  q[1] \in d_channels'[q[2]] \/ Head(chan'[q]) = Hello
    BY DEF KnownOrHello
  <2>1. CASE q = p /\ chan[p] = <<>>
    <3>1. m = Hello \/ p[1] \in d_channels[p[2]]
      BY <2>1 DEF Introduced, Mutual
    <3>2. QED BY <2>1, <3>1, <1>3, <1>5, PairFacts
  <2>2. CASE chan[q] # <<>>
    <3>1. q[1] \in d_channels[q[2]] \/ Head(chan[q]) = Hello
      BY <2>2 DEF Introduced, KnownOrHello
    <3>2. Head(chan'[q]) = Head(chan[q])
      BY <2>2, <1>1, <1>5
    <3>3. QED BY <3>1, <3>2, <1>3, PairFacts
  <2>3. QED BY <2>1, <2>2, <1>1
<1>7. Mutual'
  <2> SUFFICES ASSUME NEW q \in Pair, q[2] \in d_channels'[q[1]], q # p
               PROVE  q[1] \in d_channels'[q[2]] \/ chan'[q] # <<>>
    BY <1>5 DEF Mutual
  <2>1. q[1] \in d_channels[q[2]] \/ chan[q] # <<>>
    BY <1>4 DEF Introduced, Mutual
  <2>2. QED BY <2>1, <1>1, <1>3, PairFacts
<1>8. HelloFromCaller'
  <2> SUFFICES ASSUME NEW q \in Pair, NEW i \in DOMAIN chan'[q], chan'[q][i] = Hello, q # p
               PROVE  q[2] \in d_channels'[q[1]]
    BY <1>3 DEF HelloFromCaller
  <2>1. q[2] \in d_channels[q[1]]
    BY <1>1 DEF Introduced, HelloFromCaller
  <2>2. QED BY <2>1, <1>3, PairFacts
<1>9. QED BY <1>6, <1>7, <1>8 DEF Introduced

(***************************************************************************)
(* Every step keeps the introductions in order.                            *)
(***************************************************************************)
LEMMA IntroducedStep == TypeOK /\ TypeOK' /\ Introduced /\ [Next]_vars => Introduced'
<1> SUFFICES ASSUME TypeOK, TypeOK', Introduced, [Next]_vars PROVE Introduced'
  OBVIOUS
<1>1. CASE UNCHANGED <<d_channels, chan>>
  BY <1>1 DEF Introduced, KnownOrHello, Mutual, HelloFromCaller
<1>2. CASE UNCHANGED vars
  BY <1>1, <1>2 DEF vars
<1>3. ASSUME NEW b \in Branch, HandleInitBranch(b) PROVE Introduced'
  BY <1>1, <1>3 DEF HandleInitBranch
<1>4. ASSUME NEW p \in Pair, Connected(p) PROVE Introduced'
  <2>1. Hello \in Message
    BY DEF Message
  <2>2. QED BY <1>4, <2>1, PutStep DEF Connected
<1>5. ASSUME NEW p \in Pair, HandleHello(p) PROVE Introduced'
  <2>1. chan[p] # <<>> /\ Head(chan[p]).type = "Hello" /\ chan[p] \in Seq(Message)
    BY <1>5 DEF HandleHello, Arrived, TypeOK
  <2>2. Head(chan[p]) = Hello /\ 1 \in DOMAIN chan[p] /\ Head(chan[p]) = chan[p][1]
    BY <2>1 DEF Message, Hello
  <2>3. p[2] \in d_channels[p[1]]
    BY <2>2 DEF Introduced, HelloFromCaller
  <2>4. d_channels' = [d_channels EXCEPT ![p[2]] = @ \cup {p[1]}]
    BY <1>5 DEF HandleHello
  <2>5. chan' = [chan EXCEPT ![p] = Tail(@)]
    BY <1>5 DEF HandleHello
  <2>6. /\ \A b \in Branch : d_channels[b] \subseteq d_channels'[b]
        /\ p[1] \in d_channels'[p[2]]
    BY <2>4, PairFacts DEF TypeOK
  <2>7. ASSUME NEW q \in Pair, q[2] \in d_channels'[q[1]]
        PROVE  q[2] \in d_channels[q[1]] \/ q[1] \in d_channels'[q[2]]
    <3>1. q[1] \in Branch /\ q[2] \in Branch /\ p[1] \in Branch /\ p[2] \in Branch
      BY PairFacts
    <3>2. CASE q[1] = p[2] /\ q[2] = p[1]
      BY <2>3, <2>6, <3>1, <3>2
    <3>3. CASE ~(q[1] = p[2] /\ q[2] = p[1])
      BY <2>4, <2>7, <3>1, <3>3 DEF TypeOK
    <3>4. QED BY <3>2, <3>3
  <2>8. QED BY <2>1, <2>5, <2>6, <2>7, TakeStep
<1>6. ASSUME NEW p \in Pair, HandleTransfer(p) PROVE Introduced'
  <2>1. chan[p] # <<>> /\ Head(chan[p]).type = "Transfer"
    BY <1>6 DEF HandleTransfer, Arrived
  <2>2. Head(chan[p]) # Hello
    BY <2>1 DEF Hello
  <2>3. p[1] \in d_channels[p[2]]
    BY <2>1, <2>2 DEF Introduced, KnownOrHello
  <2>4. d_channels' = d_channels /\ chan' = [chan EXCEPT ![p] = Tail(@)]
    BY <1>6 DEF HandleTransfer
  <2>5. QED BY <2>1, <2>3, <2>4, TakeStep
<1>7. ASSUME NEW p \in Pair, NEW money \in Payments(d_money[p[1]]),
             SendMoney(p[1], p[2], money)
      PROVE  Introduced'
  <2>1. Transfer(money) \in Message
    BY PaymentFacts, PairFacts DEF Transfer, Message, TypeOK
  <2>2. p[2] \in d_channels[p[1]] /\ d_channels' = d_channels
    BY <1>7 DEF SendMoney
  <2>3. d_channels' = [d_channels EXCEPT ![p[1]] = @ \cup {p[2]}]
    BY <2>2, PairFacts DEF TypeOK
  <2>4. chan' = [chan EXCEPT ![p] = Append(@, Transfer(money))]
    BY <1>7, PairFacts DEF SendMoney
  <2>5. QED BY <2>1, <2>2, <2>3, <2>4, PutStep
<1>8. QED BY <1>2, <1>3, <1>4, <1>5, <1>6, <1>7 DEF Next

(***************************************************************************)
(* For every number of branches: a payment that arrives comes from a       *)
(* branch that the payee knows by name.                                    *)
(***************************************************************************)
THEOREM PayersIntroduced == Spec => []PayerKnown
<1>1. Init => Introduced
  <2> SUFFICES ASSUME Init PROVE Introduced
    OBVIOUS
  <2>1. ASSUME NEW p \in Pair
        PROVE  chan[p] = <<>> /\ d_channels[p[1]] = {}
    BY PairFacts DEF Init
  <2>2. QED BY <2>1 DEF Introduced, KnownOrHello, Mutual, HelloFromCaller
<1>2. Introduced => PayerKnown
  BY DEF Introduced, KnownOrHello, PayerKnown, Arrived, Hello
<1>3. QED BY <1>1, <1>2, TypeCorrect, IntroducedStep, PTL DEF Spec
-----------------------------------------------------------------------------
(* Money                                                                   *)

\* What a message is worth.
Worth(x) == IF x.type = "Transfer" THEN x.money ELSE 0

Values(q) == [k \in DOMAIN q |-> Worth(q[k])]

\* What each connection carries.
Carried == [p \in Pair |-> InFlight(chan[p])]

LEMMA WorthFacts ==
  /\ \A x \in Message : Worth(x) \in Nat
  /\ Worth(Hello) = 0
  /\ \A m \in Nat : Worth(Transfer(m)) = m
BY DEF Worth, Message, Hello, Transfer

LEMMA ValuesFacts ==
  ASSUME NEW q \in Seq(Message)
  PROVE  /\ Len(q) \in Nat
         /\ InFlight(q) = Sum(Values(q), 1..Len(q))
         /\ \A k \in 1..Len(q) : Values(q)[k] = Worth(q[k]) /\ Values(q)[k] \in Int
         /\ InFlight(q) \in Int
<1>1. Len(q) \in Nat /\ DOMAIN q = 1..Len(q) /\ DOMAIN Values(q) = 1..Len(q)
  BY DEF Values
<1>2. \A k \in 1..Len(q) : Values(q)[k] = Worth(q[k]) /\ Values(q)[k] \in Int
  BY WorthFacts DEF Values
<1>3. InFlight(q) = SumFunction(Values(q))
  BY DEF InFlight, Values, Worth
<1>4. InFlight(q) = Sum(Values(q), 1..Len(q))
  BY <1>1, <1>3, SumFunctionIs
<1>5. IsFiniteSet(1..Len(q))
  BY <1>1, FS_Interval
<1>6. Sum(Values(q), 1..Len(q)) \in Int
  BY <1>2, <1>5, SumInt
<1>7. QED BY <1>1, <1>2, <1>4, <1>6

\* A message is put behind what is in the queue.
LEMMA InFlightAppend ==
  ASSUME NEW q \in Seq(Message), NEW x \in Message
  PROVE  InFlight(Append(q, x)) = InFlight(q) + Worth(x)
<1> DEFINE n == Len(q)
           r == Append(q, x)
<1>1. r \in Seq(Message) /\ Len(r) = n + 1 /\ r[n + 1] = x /\ \A k \in 1..n : r[k] = q[k]
  OBVIOUS
<1>2. n \in Nat /\ InFlight(q) = Sum(Values(q), 1..n)
  BY ValuesFacts
<1> HIDE DEF n, r
<1>3. InFlight(r) = Sum(Values(r), 1..(n + 1))
  BY <1>1, ValuesFacts
<1> DEFINE f == Values(q)
           g == Values(r)
<1>4. g[n + 1] = Worth(x) /\ g[n + 1] \in Int
  BY <1>1, <1>2, ValuesFacts, WorthFacts
<1>5. \A k \in 1..n : f[k] \in Int /\ g[k] = f[k]
  BY <1>1, <1>2, ValuesFacts DEF n
<1> HIDE DEF f, g
<1>6. Sum(g, 1..(n + 1)) = Sum(f, 1..n) + g[n + 1]
  BY ONLY <1>2, <1>4, <1>5, SumAppend
<1>7. QED BY <1>2, <1>3, <1>4, <1>6 DEF f, g, r

\* The first message of the queue is taken.
LEMMA InFlightTail ==
  ASSUME NEW q \in Seq(Message), q # <<>>
  PROVE  InFlight(q) = Worth(Head(q)) + InFlight(Tail(q))
<1> DEFINE r == Tail(q)
           n == Len(r)
<1>1. /\ r \in Seq(Message) /\ Len(q) = n + 1 /\ Head(q) = q[1]
      /\ \A k \in 1..n : r[k] = q[k + 1] /\ k + 1 \in 1..(n + 1)
  OBVIOUS
<1> HIDE DEF n, r
<1>2. n \in Nat /\ InFlight(r) = Sum(Values(r), 1..n)
  BY <1>1, ValuesFacts DEF n
<1>3. InFlight(q) = Sum(Values(q), 1..(n + 1))
  BY <1>1, ValuesFacts
<1> DEFINE f == Values(q)
           g == Values(r)
<1>4. f[1] = Worth(Head(q)) /\ \A k \in 1..(n + 1) : f[k] \in Int
  BY <1>1, <1>2, ValuesFacts
<1>5. \A k \in 1..n : g[k] = f[k + 1]
  <2>1. \A k \in 1..n : g[k] = Worth(r[k])
    BY <1>1, ValuesFacts DEF n
  <2>2. \A k \in 1..(n + 1) : f[k] = Worth(q[k])
    BY <1>1, ValuesFacts
  <2> HIDE DEF f, g
  <2>3. QED BY <1>1, <2>1, <2>2
<1> HIDE DEF f, g
<1>6. Sum(f, 1..(n + 1)) = f[1] + Sum(g, 1..n)
  BY ONLY <1>2, <1>4, <1>5, SumTail
<1>7. QED BY <1>2, <1>3, <1>4, <1>6 DEF f, g, r

\* There are finitely many branches and connections.
LEMMA FiniteBank == IsFiniteSet(Branch) /\ IsFiniteSet(Pair)
<1>1. IsFiniteSet(Branch)
  BY NAssumption, FS_Interval DEF Branch
<1>2. IsFiniteSet(Branch \X Branch)
  BY <1>1, FS_Product
<1>3. Pair \subseteq Branch \X Branch
  BY DEF Pair
<1>4. QED BY <1>1, <1>2, <1>3, FS_Subset

\* Types of the two sums.
LEMMA CarriedType ==
  ASSUME TypeOK
  PROVE  Carried \in [Pair -> Int] /\ d_money \in [Branch -> Int]
BY ValuesFacts DEF Carried, TypeOK

\* The two sums are numbers.
LEMMA SumsAreInt ==
  ASSUME TypeOK
  PROVE  SumFunction(Carried) \in Int /\ SumFunction(d_money) \in Int
<1>1. DOMAIN Carried = Pair /\ \A p \in Pair : Carried[p] \in Int
  BY CarriedType
<1>2. DOMAIN d_money = Branch /\ \A b \in Branch : d_money[b] \in Int
  BY CarriedType
<1>3. QED BY <1>1, <1>2, FiniteBank, SumFunctionIs, SumInt

\* What one queue carries changes.
LEMMA QueueChange ==
  ASSUME TypeOK, NEW p \in Pair, NEW q \in Seq(Message), chan' = [chan EXCEPT ![p] = q],
         NEW d \in Int, InFlight(q) = InFlight(chan[p]) + d
  PROVE  SumFunction(Carried') = SumFunction(Carried) + d
<1>1. Carried \in [Pair -> Int]
  BY CarriedType
<1> DEFINE v == InFlight(q)
           c == Carried
           w == Carried[p]
<1>2. v \in Int /\ w \in Int /\ v = w + d
  BY ValuesFacts DEF TypeOK, Carried
<1>3. Carried' = [c EXCEPT ![p] = v]
  BY DEF Carried, TypeOK
<1> HIDE DEF v
<1>4. /\ SumFunction([c EXCEPT ![p] = v]) = SumFunction(c) + (v - c[p])
      /\ SumFunction(c) \in Int
  <2>1. c \in [Pair -> Int]
    BY <1>1
  <2> HIDE DEF c
  <2>2. QED BY <1>2, <2>1, FiniteBank, SumUpdate
<1>5. v - c[p] = d
  <2> HIDE DEF w
  <2>1. v - w = d
    BY <1>2
  <2>2. QED BY <2>1 DEF w
<1>6. QED BY <1>3, <1>4, <1>5

\* The balance of one branch changes.
LEMMA BalanceChange ==
  ASSUME TypeOK, NEW b \in Branch, NEW d \in Int, d_money' = [d_money EXCEPT ![b] = d_money[b] + d]
  PROVE  SumFunction(d_money') = SumFunction(d_money) + d
<1> DEFINE v == d_money[b] + d
           w == d_money[b]
<1>1. d_money \in [Branch -> Int] /\ w \in Int
  BY CarriedType
<1>2. v \in Int /\ d_money' = [d_money EXCEPT ![b] = v] /\ v - w = d
  <2> HIDE DEF w
  <2>1. w + d \in Int /\ (w + d) - w = d
    BY <1>1
  <2>2. QED BY <2>1 DEF w
<1> HIDE DEF v
<1>3. SumFunction([d_money EXCEPT ![b] = v]) = SumFunction(d_money) + (v - d_money[b])
  <2>1. d_money \in [Branch -> Int] /\ v \in Int
    BY <1>1, <1>2
  <2>2. QED BY ONLY b \in Branch, <2>1, FiniteBank, SumUpdate
<1>4. QED BY <1>2, <1>3

\* What leaves the one sum comes to the other.
LEMMA MoneyMoves ==
  ASSUME TypeOK, MoneyAccounted, NEW d \in Int,
         SumFunction(d_money') = SumFunction(d_money) + d,
         SumFunction(Carried') = SumFunction(Carried) + (0 - d),
         overwritten' = overwritten, initialised' = initialised
  PROVE  MoneyAccounted'
<1> DEFINE held == SumFunction(d_money)
           way == SumFunction(Carried)
<1>1. held \in Int /\ way \in Int /\ overwritten \in Int
  BY SumsAreInt DEF TypeOK
<1>2. (held + d) + (way + (0 - d)) + overwritten = held + way + overwritten
  <2> HIDE DEF held, way
  <2>1. QED BY <1>1
<1>3. held + way + overwritten = Balance * Cardinality(initialised)
  BY DEF MoneyAccounted, Carried
<1>4. SumFunction(d_money') + SumFunction(Carried') + overwritten' = Balance * Cardinality(initialised')
  BY <1>2, <1>3
<1>5. QED BY <1>4 DEF MoneyAccounted, Carried

\* Nothing is moved when a queue gets or loses a Hello.
LEMMA NothingMoves ==
  ASSUME TypeOK, MoneyAccounted, NEW p \in Pair, NEW q \in Seq(Message),
         chan' = [chan EXCEPT ![p] = q], InFlight(q) = InFlight(chan[p]) + 0,
         d_money' = d_money, overwritten' = overwritten, initialised' = initialised
  PROVE  MoneyAccounted'
<1>1. SumFunction(Carried') = SumFunction(Carried) + 0
  <2> DEFINE z == 0
  <2>1. z \in Int /\ InFlight(q) = InFlight(chan[p]) + z
    OBVIOUS
  <2> HIDE DEF z
  <2>2. SumFunction(Carried') = SumFunction(Carried) + z
    BY <2>1, QueueChange
  <2>3. QED BY <2>2 DEF z
<1>2. SumFunction(Carried) \in Int /\ SumFunction(d_money) \in Int
  BY SumsAreInt
<1>3. SumFunction(Carried') = SumFunction(Carried) + (0 - 0)
  BY <1>1
<1>4. SumFunction(d_money') = SumFunction(d_money) + 0
  BY <1>2
<1>5. QED BY <1>3, <1>4, MoneyMoves

\* A branch is given its balance.
LEMMA InitBranchMoney ==
  ASSUME TypeOK, MoneyAccounted, NEW b \in Branch, HandleInitBranch(b)
  PROVE  MoneyAccounted'
<1> DEFINE held == SumFunction(d_money)
           way == SumFunction(Carried)
           given == Balance * Cardinality(initialised)
           m == d_money[b]
<1>1. /\ d_money' = [d_money EXCEPT ![b] = Balance] /\ overwritten' = overwritten + m
      /\ chan' = chan /\ initialised' = initialised \cup {b} /\ b \notin initialised
  BY DEF HandleInitBranch
<1>2. m \in Int /\ d_money \in [Branch -> Int] /\ overwritten \in Int
  BY CarriedType DEF TypeOK
<1>3. SumFunction(d_money') = held + (Balance - m)
  <2>1. d_money \in [Branch -> Int] /\ Balance \in Int
    BY <1>2, StartBalanceAssumption
  <2>2. SumFunction([d_money EXCEPT ![b] = Balance]) = SumFunction(d_money) + (Balance - d_money[b])
    BY ONLY b \in Branch, <2>1, FiniteBank, SumUpdate
  <2>3. QED BY <1>1, <2>2
<1>4. held \in Int /\ way \in Int
  BY SumsAreInt
<1>5. SumFunction(Carried') = way
  BY <1>1 DEF Carried
<1>6. IsFiniteSet(initialised)
  BY FiniteBank, FS_Subset DEF TypeOK
<1>7. Cardinality(initialised') = Cardinality(initialised) + 1 /\ Cardinality(initialised) \in Nat
  BY <1>1, <1>6, FS_AddElement, FS_CardinalityType
<1>8. Balance * Cardinality(initialised') = given + Balance
  <2>1. \A c \in Nat : Balance * (c + 1) = (Balance * c) + Balance
    BY StartBalanceAssumption
  <2>2. QED BY <1>7, <2>1
<1>9. held + way + overwritten = given
  BY DEF MoneyAccounted, Carried
<1>10. (held + (Balance - m)) + way + (overwritten + m) = (held + way + overwritten) + Balance
  <2> HIDE DEF held, way, m
  <2>1. QED BY <1>2, <1>4, StartBalanceAssumption
<1>11. SumFunction(d_money') + SumFunction(Carried') + overwritten'
         = Balance * Cardinality(initialised')
  BY <1>1, <1>3, <1>5, <1>8, <1>9, <1>10
<1>12. QED BY <1>11 DEF MoneyAccounted, Carried

\* Every step keeps the money accounted for.
LEMMA MoneyStep == TypeOK /\ MoneyAccounted /\ [Next]_vars => MoneyAccounted'
<1> SUFFICES ASSUME TypeOK, MoneyAccounted, [Next]_vars PROVE MoneyAccounted'
  OBVIOUS
<1>1. CASE UNCHANGED vars
  BY <1>1 DEF vars, MoneyAccounted
<1>2. ASSUME NEW p \in Pair, Connected(p) PROVE MoneyAccounted'
  <2> DEFINE q == Append(chan[p], Hello)
  <2>1. /\ chan' = [chan EXCEPT ![p] = q] /\ d_money' = d_money
        /\ overwritten' = overwritten /\ initialised' = initialised
    BY <1>2 DEF Connected
  <2>2. chan[p] \in Seq(Message) /\ Hello \in Message
    BY DEF TypeOK, Message
  <2>3. q \in Seq(Message) /\ InFlight(q) = InFlight(chan[p]) + 0
    BY <2>2, InFlightAppend, WorthFacts
  <2> HIDE DEF q
  <2>4. QED BY <2>1, <2>3, NothingMoves
<1>3. ASSUME NEW p \in Pair, HandleHello(p) PROVE MoneyAccounted'
  <2> DEFINE q == Tail(chan[p])
  <2>1. /\ chan' = [chan EXCEPT ![p] = q] /\ d_money' = d_money
        /\ overwritten' = overwritten /\ initialised' = initialised
        /\ chan[p] # <<>> /\ Head(chan[p]).type = "Hello"
    BY <1>3 DEF HandleHello, Arrived
  <2>2. chan[p] \in Seq(Message) /\ q \in Seq(Message)
    BY <2>1 DEF TypeOK
  <2>3. InFlight(chan[p]) = 0 + InFlight(q)
    BY <2>1, <2>2, InFlightTail DEF Worth
  <2>4. InFlight(chan[p]) \in Int /\ InFlight(q) \in Int
    BY <2>2, ValuesFacts
  <2> HIDE DEF q
  <2>5. InFlight(q) = InFlight(chan[p]) + 0
    BY <2>3, <2>4
  <2>6. QED BY <2>1, <2>2, <2>5, NothingMoves
<1>4. ASSUME NEW p \in Pair, HandleTransfer(p) PROVE MoneyAccounted'
  <2> DEFINE q == Tail(chan[p])
             m == Head(chan[p]).money
             b == p[2]
  <2>1. /\ chan' = [chan EXCEPT ![p] = q] /\ d_money' = [d_money EXCEPT ![b] = d_money[b] + m]
        /\ overwritten' = overwritten /\ initialised' = initialised
        /\ chan[p] # <<>> /\ Head(chan[p]).type = "Transfer"
    BY <1>4 DEF HandleTransfer, Arrived
  <2>2. chan[p] \in Seq(Message) /\ q \in Seq(Message) /\ Head(chan[p]) \in Message
    BY <2>1 DEF TypeOK
  <2>3. m \in Nat /\ Worth(Head(chan[p])) = m
    BY <2>1, <2>2 DEF Message, Hello, Worth
  <2>4. InFlight(chan[p]) = m + InFlight(q)
    BY <2>1, <2>2, <2>3, InFlightTail
  <2>5. InFlight(chan[p]) \in Int /\ InFlight(q) \in Int
    BY <2>2, ValuesFacts
  <2>6. b \in Branch
    BY PairFacts
  <2> HIDE DEF q, m, b
  <2>7. 0 - m \in Int /\ m \in Int /\ InFlight(q) = InFlight(chan[p]) + (0 - m)
    BY <2>3, <2>4, <2>5
  <2>8. SumFunction(Carried') = SumFunction(Carried) + (0 - m)
    BY <2>1, <2>2, <2>7, QueueChange
  <2>9. SumFunction(d_money') = SumFunction(d_money) + m
    BY <2>1, <2>6, <2>7, BalanceChange
  <2>10. QED BY <2>1, <2>7, <2>8, <2>9, MoneyMoves
<1>5. ASSUME NEW p \in Pair, NEW money \in Payments(d_money[p[1]]),
             SendMoney(p[1], p[2], money)
      PROVE  MoneyAccounted'
  <2> DEFINE q == Append(chan[p], Transfer(money))
             b == p[1]
             d == 0 - money
  <2>1. b \in Branch /\ d_money[b] \in Nat
    BY PairFacts DEF TypeOK
  <2>2. money \in Nat /\ d \in Int /\ money = 0 - d /\ d_money[b] - money = d_money[b] + d
    BY <2>1, PaymentFacts
  <2>3. /\ chan' = [chan EXCEPT ![p] = q] /\ d_money' = [d_money EXCEPT ![b] = d_money[b] + d]
        /\ overwritten' = overwritten /\ initialised' = initialised
    BY <1>5, <2>2, PairFacts DEF SendMoney
  <2>4. chan[p] \in Seq(Message) /\ Transfer(money) \in Message
    BY <2>2 DEF TypeOK, Message, Transfer
  <2>5. q \in Seq(Message) /\ InFlight(q) = InFlight(chan[p]) + money
    BY <2>2, <2>4, InFlightAppend, WorthFacts
  <2> HIDE DEF q, b, d
  <2>6. SumFunction(Carried') = SumFunction(Carried) + (0 - d)
    <3>1. money \in Int
      BY <2>2
    <3>2. SumFunction(Carried') = SumFunction(Carried) + money
      BY <2>3, <2>5, <3>1, QueueChange
    <3>3. QED BY <2>2, <3>2
  <2>7. SumFunction(d_money') = SumFunction(d_money) + d
    BY <2>1, <2>2, <2>3, BalanceChange
  <2>8. QED BY <2>2, <2>3, <2>6, <2>7, MoneyMoves
<1>6. QED BY <1>1, <1>2, <1>3, <1>4, <1>5, InitBranchMoney DEF Next

(***************************************************************************)
(* For every number of branches and every balance: money is lost only      *)
(* where InitBranch replaces what a branch was paid before it, in whatever *)
(* order the branches are initialised, connected and paid.                 *)
(***************************************************************************)
THEOREM MoneyIsAccounted == Spec => []MoneyAccounted
<1>1. Init => MoneyAccounted
  <2> SUFFICES ASSUME Init PROVE MoneyAccounted
    OBVIOUS
  <2>1. /\ DOMAIN d_money = Branch /\ \A b \in Branch : d_money[b] = 0
        /\ DOMAIN Carried = Pair /\ \A p \in Pair : Carried[p] = InFlight(<<>>)
    BY DEF Init, Carried
  <2>2. InFlight(<<>>) = 0
    <3>1. DOMAIN Values(<<>>) = {} /\ InFlight(<<>>) = SumFunction(Values(<<>>))
      BY DEF InFlight, Values, Worth
    <3>2. QED BY <3>1, SumFunctionIs, SumEmpty
  <2>3. SumFunction(d_money) = 0 * Cardinality(Branch)
    BY <2>1, FiniteBank, SumFunctionIs, SumConstant
  <2>4. SumFunction(Carried) = 0 * Cardinality(Pair)
    BY <2>1, <2>2, FiniteBank, SumFunctionIs, SumConstant
  <2>5. Cardinality(Branch) \in Nat /\ Cardinality(Pair) \in Nat
    BY FiniteBank, FS_CardinalityType
  <2>6. SumFunction(d_money) = 0 /\ SumFunction(Carried) = 0
    BY <2>3, <2>4, <2>5
  <2>7. overwritten = 0 /\ Cardinality(initialised) = 0
    BY FS_EmptySet DEF Init
  <2>8. QED BY <2>6, <2>7, StartBalanceAssumption DEF MoneyAccounted, Carried
<1>2. QED BY <1>1, TypeCorrect, MoneyStep, PTL DEF Spec
=============================================================================
