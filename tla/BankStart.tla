----------------------------- MODULE BankStart -----------------------------
(***************************************************************************)
(* How the branches of the bank come up (bank/src/branch.cpp).  The        *)
(* controller sends InitBranch to every branch, in no particular order,    *)
(* with the list of all of them.  A branch then takes its balance, dials   *)
(* about half of the others and begins to pay; the rest dial it.  A dialed *)
(* connection opens with Hello, which tells the other side who is calling. *)
(*                                                                         *)
(* Nobody waits for anybody: a branch may be called, and paid, before its  *)
(* own InitBranch has come.                                                *)
(*                                                                         *)
(* A branch is its place in the list.  What hello_handler posts to the     *)
(* strand runs before the next message of that connection is read (one     *)
(* thread, two reads for each message), so Hello is one step.              *)
(***************************************************************************)
EXTENDS Integers, Sequences, FiniteSets, Functions

CONSTANTS
  N,        \* the number of branches
  Balance,  \* what InitBranch gives to each of them
  Payers    \* bound: the branches that pay

ASSUME NAssumption == N \in Nat \ {0}
ASSUME StartBalanceAssumption == Balance \in Nat

Branch == 0..N - 1

Pair == {p \in Branch \X Branch : p[1] # p[2]}

VARIABLES
  d_money,      \* the balance of each branch
  initialised,  \* the branches that have handled InitBranch
  dialing,      \* <<a, b>>: a is connecting to b
  open,         \* <<a, b>>: a has connected to b
  d_channels,   \* the branches each branch can send to, by name
  chan,         \* messages on the way from one branch to another
  overwritten   \* history: money that InitBranch replaced

vars == <<d_money, initialised, dialing, open, d_channels, chan, overwritten>>

Hello == [type |-> "Hello"]
Transfer(money) == [type |-> "Transfer", money |-> money]

Message == {Hello} \cup [type : {"Transfer"}, money : Nat]

TypeOK ==
  /\ d_money \in [Branch -> Nat]
  /\ initialised \subseteq Branch
  /\ dialing \subseteq Pair
  /\ open \subseteq Pair
  /\ d_channels \in [Branch -> SUBSET Branch]
  /\ chan \in [Pair -> Seq(Message)]
  /\ overwritten \in Nat
-----------------------------------------------------------------------------
\* Mutant of OutgoingCount: an even number of branches is not special.
OutgoingCountHalf(b) == (N - 1) \div 2

(***************************************************************************)
(* How many branches branch b dials: half of the others, and when that     *)
(* does not come out even the first half of the list dials one more.       *)
(***************************************************************************)
OutgoingCount(b) ==
  ((N - 1) \div 2) + (IF N % 2 = 0 /\ b < N \div 2 THEN 1 ELSE 0)

\* Mutant of Outgoing: counted from the branch itself.
OutgoingFromSelf(b) == {(b + i) % N : i \in 0..OutgoingCount(b) - 1}

\* The branches it dials are the next ones in the list, which wraps around.
Outgoing(b) == {(b + i) % N : i \in 1..OutgoingCount(b)}

Init ==
  /\ d_money = [b \in Branch |-> 0]
  /\ initialised = {}
  /\ dialing = {}
  /\ open = {}
  /\ d_channels = [b \in Branch |-> {}]
  /\ chan = [p \in Pair |-> <<>>]
  /\ overwritten = 0

(***************************************************************************)
(* InitBranch: the balance is set, whatever came in before, and the dialing*)
(* and paying begin.                                                       *)
(***************************************************************************)
HandleInitBranch(b) ==
  /\ b \notin initialised
  /\ initialised' = initialised \cup {b}
  /\ d_money' = [d_money EXCEPT ![b] = Balance]
  /\ overwritten' = overwritten + d_money[b]
  /\ dialing' = dialing \cup {<<b, t>> : t \in Outgoing(b)}
  /\ UNCHANGED <<open, d_channels, chan>>

\* Mutant of Connected: the caller does not say who it is.
ConnectedSilently(c) ==
  /\ c \in dialing
  /\ dialing' = dialing \ {c}
  /\ open' = open \cup {c}
  /\ d_channels' = [d_channels EXCEPT ![c[1]] = @ \cup {c[2]}]
  /\ UNCHANGED <<d_money, initialised, chan, overwritten>>

\* The connection that c[1] dialed is up: it is a channel, and says Hello.
Connected(c) ==
  /\ c \in dialing
  /\ dialing' = dialing \ {c}
  /\ open' = open \cup {c}
  /\ d_channels' = [d_channels EXCEPT ![c[1]] = @ \cup {c[2]}]
  /\ chan' = [chan EXCEPT ![c] = Append(@, Hello)]
  /\ UNCHANGED <<d_money, initialised, overwritten>>

Arrived(p, type) == chan[p] # <<>> /\ Head(chan[p]).type = type

\* Mutant of HandleHello: a branch that is not initialised hangs up.
HandleHelloInitialised(p) ==
  /\ Arrived(p, "Hello")
  /\ d_channels' = IF p[2] \in initialised
                   THEN [d_channels EXCEPT ![p[2]] = @ \cup {p[1]}]
                   ELSE d_channels
  /\ chan' = [chan EXCEPT ![p] = Tail(@)]
  /\ UNCHANGED <<d_money, initialised, dialing, open, overwritten>>

\* Hello: the connection has a name now, and is a channel for both sides.
HandleHello(p) ==
  /\ Arrived(p, "Hello")
  /\ d_channels' = [d_channels EXCEPT ![p[2]] = @ \cup {p[1]}]
  /\ chan' = [chan EXCEPT ![p] = Tail(@)]
  /\ UNCHANGED <<d_money, initialised, dialing, open, overwritten>>

\* Mutant of HandleTransfer: a branch takes no money before it is initialised.
HandleTransferInitialised(p) ==
  /\ Arrived(p, "Transfer")
  /\ d_money' = [d_money EXCEPT ![p[2]] =
                   IF p[2] \in initialised THEN @ + Head(chan[p]).money ELSE @]
  /\ chan' = [chan EXCEPT ![p] = Tail(@)]
  /\ UNCHANGED <<initialised, dialing, open, d_channels, overwritten>>

HandleTransfer(p) ==
  /\ Arrived(p, "Transfer")
  /\ d_money' = [d_money EXCEPT ![p[2]] = @ + Head(chan[p]).money]
  /\ chan' = [chan EXCEPT ![p] = Tail(@)]
  /\ UNCHANGED <<initialised, dialing, open, d_channels, overwritten>>

\* What do_send_money may pay: 1 to 5 per cent, rounded down, if anything.
Payments(balance) == ((balance \div 100)..((5 * balance) \div 100)) \ {0}

(***************************************************************************)
(* The timer of do_send_money, which init_branch_handler starts: a payment *)
(* to a branch that is a channel by now.                                   *)
(***************************************************************************)
SendMoney(b, to, money) ==
  /\ b \in initialised \cap Payers
  /\ to \in d_channels[b]
  /\ d_money' = [d_money EXCEPT ![b] = @ - money]
  /\ chan' = [chan EXCEPT ![<<b, to>>] = Append(@, Transfer(money))]
  /\ UNCHANGED <<initialised, dialing, open, d_channels, overwritten>>

Next ==
  \/ \E b \in Branch : HandleInitBranch(b)
  \/ \E p \in Pair : Connected(p) \/ HandleHello(p) \/ HandleTransfer(p)
  \/ \E p \in Pair : \E money \in Payments(d_money[p[1]]) : SendMoney(p[1], p[2], money)

Spec == Init /\ [][Next]_vars

(***************************************************************************)
(* InitBranch reaches every branch, connections come up, messages arrive.  *)
(***************************************************************************)
FairSpec ==
  /\ Spec
  /\ \A b \in Branch : WF_vars(HandleInitBranch(b))
  /\ \A p \in Pair : WF_vars(Connected(p)) /\ WF_vars(HandleHello(p) \/ HandleTransfer(p))
-----------------------------------------------------------------------------
Called == dialing \cup open

(***************************************************************************)
(* The dialing rule of init_branch_handler: of two initialised branches    *)
(* exactly one dials the other.  d_channels keeps one channel for a name,  *)
(* so that a second connection would carry transfers and markers out of    *)
(* order, and a missing one would leave a pair out of every snapshot.      *)
(***************************************************************************)
EachPairOnce ==
  \A a, b \in initialised : a # b =>
    (<<a, b>> \in Called <=> <<b, a>> \notin Called)

(***************************************************************************)
(* A payment never reaches a branch that cannot name the payer: under the  *)
(* empty name of an unintroduced connection Snapshot::record_tx and        *)
(* Snapshot::marker find no channel.                                       *)
(***************************************************************************)
PayerKnown ==
  \A p \in Pair : Arrived(p, "Transfer") => p[1] \in d_channels[p[2]]

\* The money in the transfers of a queue.
InFlight(q) ==
  SumFunction([k \in DOMAIN q |-> IF q[k].type = "Transfer" THEN q[k].money ELSE 0])

(***************************************************************************)
(* Money is lost only where InitBranch replaces what a branch was paid     *)
(* before it: what the branches hold, what is on the way and what was      *)
(* replaced make up the balances given out.                                *)
(***************************************************************************)
MoneyAccounted ==
  SumFunction(d_money) + SumFunction([p \in Pair |-> InFlight(chan[p])]) + overwritten
    = Balance * Cardinality(initialised)

(***************************************************************************)
(* In the end every branch has a channel to every other one, in whatever   *)
(* order they were initialised and called.                                 *)
(***************************************************************************)
AllConnected == <>[](\A b \in Branch : d_channels[b] = Branch \ {b})
=============================================================================
