---------------------------- MODULE Coordinator ----------------------------
(***************************************************************************)
(* The cluster of the key-value store: one class Coordinator               *)
(* (kv/server/src/coordinator.cpp) per server, each over its own Replica,  *)
(* joined by the connections each server opens to every other one.         *)
(*                                                                         *)
(* A client's put or get is answered after the number of servers it asks   *)
(* for.  Writes that miss a server are repaired when a key is read         *)
(* (Mode = "read_repair") or by hints that are kept until the server has   *)
(* acknowledged and sent again when it is reached (Mode =                  *)
(* "hinted_handoff").                                                      *)
(*                                                                         *)
(* Connections.  <<s, t>> is the connection that s opens to t: s sends its *)
(* requests and its WriteCompletes on it, and t answers DoRead and         *)
(* ReadRepair on it.  A connection is FIFO; when it breaks, what was in    *)
(* flight is lost, and so is what is sent before it is open again.  What a *)
(* process sent before it died may still be read by the other side.        *)
(*                                                                         *)
(* The log.  Replica::write and the hints post tasks that flush a record   *)
(* and then change the memory.  A server replays its logs before it serves *)
(* anybody, so m_store and m_hints are what the flushed logs say: they     *)
(* survive a crash, and the posted tasks do not (module ReplicaLog has the *)
(* replay in detail).                                                      *)
(***************************************************************************)
EXTENDS Replica, Integers, FiniteSets

CONSTANTS
  Server,       \* 1..n, as the configuration lists them
  Putters,      \* bound: the servers that clients send their puts to
  Getters,      \* bound: the servers that clients send their gets to
  Weak,         \* bound: the connections that may break
  Mode,         \* "read_repair" or "hinted_handoff"
  Consistency,  \* the consistency levels that clients ask for
  Width,        \* the range of a uint32_t: 2^32 in the code
  MaxRequests,  \* bound: requests of clients
  MaxGets,      \* bound: how many of them are gets
  MaxCrashes,   \* bound: processes killed
  MaxCuts       \* bound: connections broken

ASSUME ServerAssumption ==
  /\ IsFiniteSet(Server) /\ Server = 1..Cardinality(Server)
  /\ Putters \subseteq Server /\ Getters \subseteq Server /\ Weak \subseteq Server \X Server
  /\ IsFiniteSet(Key) /\ Key = 1..Cardinality(Key)
ASSUME ModeAssumption == Mode \in {"read_repair", "hinted_handoff"}
ASSUME WidthAssumption == Width \in Nat /\ Width > 2 * Cardinality(Server)
ASSUME ConsistencyAssumption == Consistency \subseteq 0..Width - 1
ASSUME RequestsAssumption == MaxRequests \in Nat

\* A pending entry that was erased, or lost with its process, is no counter.
ASSUME NoCounterAssumption == Null \notin Nat

Uuid == 1..MaxRequests

\* The uuid "RR" of a write that nobody waits for.
RR == 0

\* The empty string and the zero timestamp stand for a missing element.
NoData == 0
Empty == [data |-> NoData, timestamp |-> 0]

\* The value of request i is i: values only need to be told apart.
ASSUME ValueAssumption == Val = 0..MaxRequests /\ 0 \in Stamp

Conn == {c \in Server \X Server : c[1] # c[2]}

VARIABLES
  up,                \* the servers whose process runs
  m_store,           \* the flushed and installed element of each key
  m_log,             \* appends posted to the strand of the log
  m_hints,           \* hint counters, per server, peer and key
  m_hint_log,        \* hint records posted to the strand of the hint log
  m_pending_writes,  \* remaining acknowledgements of each put, or Null
  m_pending_reads,   \* remaining answers of each get, or Null
  link,              \* the open connections
  fwd,               \* messages on a connection from the server that opened it
  bwd,               \* messages on a connection back to that server
  reqs,              \* history: the requests clients made
  replies,           \* history: the number of answers each request got
  fresh,             \* history: the key was read while nothing was in flight
  crashes, cuts      \* numbers of crashes and of broken connections

logs == <<m_store, m_log, m_hints, m_hint_log>>
pendings == <<m_pending_writes, m_pending_reads>>
net == <<link, fwd, bwd>>
bounds == <<crashes, cuts>>
vars == <<up, logs, pendings, net, reqs, replies, fresh, bounds>>

DoWriteMsg == [type : {"DoWrite"}, uuid : Uuid \cup {RR}, key : Key, val : Val,
               timestamp : Stamp]
KeyMsg == [type : {"ReadRepair"}, key : Key]
ReadMsg == [type : {"DoRead"}, uuid : Uuid, key : Key]
AckMsg == [type : {"WriteComplete"}, uuid : Uuid]
Request == DoWriteMsg \cup KeyMsg \cup ReadMsg \cup AckMsg
Response == [type : {"ReadComplete"}, uuid : Uuid]
              \cup [type : {"ReadRepairResponse"}, key : Key, val : Val, timestamp : Stamp]
HintTask == [op : {"add", "drop"}, replica : Server, key : Key]

TypeOK ==
  /\ up \subseteq Server
  /\ m_store \in [Server -> StoreType]
  /\ m_log \in [Server -> Seq(DoWrite)]
  /\ m_hints \in [Server -> [Server -> [Key -> Int]]]
  /\ m_hint_log \in [Server -> Seq(HintTask)]
  /\ m_pending_writes \in [Server -> [Uuid -> (0..Width - 1) \cup {Null}]]
  /\ m_pending_reads \in [Server -> [Uuid -> (0..Width - 1) \cup {Null}]]
  /\ link \subseteq Conn
  /\ fwd \in [Conn -> Seq(Request)]
  /\ bwd \in [Conn -> Seq(Response)]
  /\ reqs \in Seq([kind : {"put", "get"}, at : Server, key : Key, timestamp : Stamp,
                   consistency : Consistency, crashes : Nat])
  /\ replies \in [Uuid -> Nat]
  /\ fresh \in [Key -> BOOLEAN]
  /\ crashes \in Nat /\ cuts \in Nat
-----------------------------------------------------------------------------
\* Mutant of Dec: the counter is signed.
DecSigned(n) == n - 1

\* Unsigned decrement.
Dec(n) == (n + Width - 1) % Width

\* Mutants of Remaining: the coordinator's own copy is not counted, or is
\* counted twice.
RemainingAll(consistency) == consistency
RemainingTwoLess(consistency) == Dec(Dec(consistency))

\* The answers still needed when the coordinator has done its own part.
Remaining(consistency) == Dec(consistency)

\* Mutant of LastAnswer: every answer from the last needed one on counts.
LastAnswerOrLater(consistency) == consistency <= 1

\* The answer being counted down is the one the client waits for.
LastAnswer(consistency) == consistency = 1

\* Replica::read, with the missing element written as the handlers do.
ReadOrEmpty(s, k) == IF m_store[s][k] = Null THEN Empty ELSE m_store[s][k]

\* Replica::write on server s: the appends that are posted after it.
PostWrite(s, k, element) ==
  IF Stale(m_store[s][k], element.timestamp)
  THEN m_log
  ELSE [m_log EXCEPT ![s] = Append(@, [key |-> k, val |-> element.data,
                                       timestamp |-> element.timestamp])]

DoWriteOf(uuid, k, element) ==
  [type |-> "DoWrite", uuid |-> uuid, key |-> k, val |-> element.data,
   timestamp |-> element.timestamp]

\* send_msg on one connection; on a broken one the message is lost.
SendOn(queues, c, m) ==
  IF c \in link THEN [queues EXCEPT ![c] = Append(@, m)] ELSE queues

\* send_msg on every channel of m_channels.
SendAll(queues, s, m) ==
  [c \in Conn |-> IF c[1] = s /\ c \in link THEN Append(queues[c], m) ELSE queues[c]]

Answer(uuid, yes) == [replies EXCEPT ![uuid] = IF yes THEN @ + 1 ELSE @]

\* The peers of s in the order of its configuration.
PeersOf(s) == [i \in 1..Cardinality(Server) - 1 |-> IF i < s THEN i ELSE i + 1]

Hint(op, t, k) == [op |-> op, replica |-> t, key |-> k]

\* Mutant of AddHints: only the peers that are out of reach get a hint.
AddHintsUnreachable(s, k) ==
  LET down == SelectSeq(PeersOf(s), LAMBDA t : <<s, t>> \notin link)
  IN  IF Mode = "hinted_handoff"
      THEN [m_hint_log EXCEPT ![s] = @ \o [i \in DOMAIN down |-> Hint("add", down[i], k)]]
      ELSE m_hint_log

\* handle_put posts one hint per peer, whether it can be reached or not.
AddHints(s, k) ==
  IF Mode = "hinted_handoff"
  THEN [m_hint_log EXCEPT ![s] = @ \o [i \in DOMAIN PeersOf(s) |->
                                         Hint("add", PeersOf(s)[i], k)]]
  ELSE m_hint_log

DropHint(s, t, k) ==
  IF Mode = "hinted_handoff"
  THEN [m_hint_log EXCEPT ![s] = Append(@, Hint("drop", t, k))]
  ELSE m_hint_log

\* Nothing is in flight, nothing is posted, everybody reaches everybody.
Quiet ==
  /\ up = Server
  /\ link = Conn
  /\ \A c \in Conn : fwd[c] = <<>> /\ bwd[c] = <<>>
  /\ \A s \in Server : m_log[s] = <<>> /\ m_hint_log[s] = <<>>

NotFresh == fresh' = [k \in Key |-> FALSE]
-----------------------------------------------------------------------------
(***************************************************************************)
(* All servers run, are connected and introduced, and hold nothing.        *)
(***************************************************************************)
Init ==
  /\ up = Server
  /\ m_store = [s \in Server |-> EmptyStore]
  /\ m_log = [s \in Server |-> <<>>]
  /\ m_hints = [s \in Server |-> [t \in Server |-> [k \in Key |-> 0]]]
  /\ m_hint_log = [s \in Server |-> <<>>]
  /\ m_pending_writes = [s \in Server |-> [u \in Uuid |-> Null]]
  /\ m_pending_reads = [s \in Server |-> [u \in Uuid |-> Null]]
  /\ link = Conn
  /\ fwd = [c \in Conn |-> <<>>]
  /\ bwd = [c \in Conn |-> <<>>]
  /\ reqs = <<>>
  /\ replies = [u \in Uuid |-> 0]
  /\ fresh = [k \in Key |-> FALSE]
  /\ crashes = 0 /\ cuts = 0

NewRequest(kind, s, k, timestamp, consistency) ==
  /\ s \in up
  /\ Len(reqs) < MaxRequests
  /\ reqs' = Append(reqs, [kind |-> kind, at |-> s, key |-> k, timestamp |-> timestamp,
                           consistency |-> consistency, crashes |-> crashes])

(***************************************************************************)
(* A client's put arrives at s, whose clock says stamp.                    *)
(***************************************************************************)
HandlePut(s, k, stamp, consistency) ==
  LET uuid == Len(reqs) + 1
      element == [data |-> uuid, timestamp |-> stamp]
  IN  /\ NewRequest("put", s, k, stamp, consistency)
      /\ m_log' = PostWrite(s, k, element)
      /\ m_hint_log' = AddHints(s, k)
      /\ m_pending_writes' = [m_pending_writes EXCEPT ![s][uuid] = Remaining(consistency)]
      /\ replies' = Answer(uuid, consistency = 1)
      /\ fwd' = SendAll(fwd, s, DoWriteOf(uuid, k, element))
      /\ NotFresh
      /\ UNCHANGED <<up, m_store, m_hints, m_pending_reads, link, bwd, bounds>>

(***************************************************************************)
(* A client's get arrives at s.  With consistency 1 the answer is what s   *)
(* holds; otherwise it is sent when enough servers have answered.  The     *)
(* posted ReadRepair goes out behind the DoRead.                           *)
(***************************************************************************)
HandleGet(s, k, consistency) ==
  LET uuid == Len(reqs) + 1
      read == IF consistency = 1 THEN fwd
              ELSE SendAll(fwd, s, [type |-> "DoRead", uuid |-> uuid, key |-> k])
  IN  /\ Cardinality({i \in DOMAIN reqs : reqs[i].kind = "get"}) < MaxGets
      /\ NewRequest("get", s, k, ReadOrEmpty(s, k).timestamp, consistency)
      /\ m_pending_reads' = IF consistency = 1 THEN m_pending_reads
                            ELSE [m_pending_reads EXCEPT ![s][uuid] = Remaining(consistency)]
      /\ replies' = Answer(uuid, consistency = 1)
      /\ fwd' = IF Mode = "read_repair"
                THEN SendAll(read, s, [type |-> "ReadRepair", key |-> k])
                ELSE read
      /\ fresh' = [fresh EXCEPT ![k] = Quiet]
      /\ UNCHANGED <<up, logs, m_pending_writes, link, bwd, bounds>>
-----------------------------------------------------------------------------
(***************************************************************************)
(* The tasks posted to the two logs: flush, then the completion handler.   *)
(***************************************************************************)
RunLog(s) ==
  /\ m_log[s] # <<>>
  /\ m_store' = [m_store EXCEPT ![s] = Install(@, Head(m_log[s]))]
  /\ m_log' = [m_log EXCEPT ![s] = Tail(@)]
  /\ UNCHANGED <<up, m_hints, m_hint_log, pendings, net, reqs, replies, fresh, bounds>>

RunHintLog(s) ==
  /\ m_hint_log[s] # <<>>
  /\ LET hint == Head(m_hint_log[s])
     IN  m_hints' = [m_hints EXCEPT ![s][hint.replica][hint.key] =
                       IF hint.op = "add" THEN @ + 1 ELSE @ - 1]
  /\ m_hint_log' = [m_hint_log EXCEPT ![s] = Tail(@)]
  /\ UNCHANGED <<up, m_store, m_log, pendings, net, reqs, replies, fresh, bounds>>
-----------------------------------------------------------------------------
(***************************************************************************)
(* The process of s ends: it is killed, or an exception leaves the         *)
(* io_service.  Its connections break.  What it had sent can still be read *)
(* by the others.                                                          *)
(***************************************************************************)
Stop(s) ==
  /\ up' = up \ {s}
  /\ m_log' = [m_log EXCEPT ![s] = <<>>]
  /\ m_hint_log' = [m_hint_log EXCEPT ![s] = <<>>]
  /\ m_pending_writes' = [m_pending_writes EXCEPT ![s] = [u \in Uuid |-> Null]]
  /\ m_pending_reads' = [m_pending_reads EXCEPT ![s] = [u \in Uuid |-> Null]]
  /\ link' = {c \in link : s \notin {c[1], c[2]}}
  /\ fwd' = [c \in Conn |-> IF c[2] = s THEN <<>> ELSE fwd[c]]
  /\ bwd' = [c \in Conn |-> IF s \in {c[1], c[2]} THEN <<>> ELSE bwd[c]]
  /\ crashes' = crashes + 1
  /\ NotFresh
  /\ UNCHANGED <<m_store, m_hints, reqs, replies, cuts>>

Popped(queues, c) == [queues EXCEPT ![c] = Tail(@)]

\* The next message for t on the connection of s has the given type.
Arrived(queues, c, type) == queues[c] # <<>> /\ Head(queues[c]).type = type

(***************************************************************************)
(* DoWrite at c[2]: the write is posted, and acknowledged at once on the   *)
(* channel of c[2] itself.                                                 *)
(***************************************************************************)
HandleDoWrite(c) ==
  /\ Arrived(fwd, c, "DoWrite")
  /\ LET msg == Head(fwd[c])
         ack == [type |-> "WriteComplete", uuid |-> msg.uuid]
     IN  /\ m_log' = PostWrite(c[2], msg.key, ElementOf(msg))
         /\ fwd' = IF msg.uuid = RR THEN Popped(fwd, c)
                   ELSE SendOn(Popped(fwd, c), <<c[2], c[1]>>, ack)
  /\ UNCHANGED <<up, m_store, m_hints, m_hint_log, pendings, link, bwd, reqs, replies,
                 fresh, bounds>>

\* Mutant of HandleWriteComplete: an unknown uuid is not an error, and the
\* hint is dropped all the same.
HandleWriteCompleteTolerant(c) ==
  /\ Arrived(fwd, c, "WriteComplete")
  /\ LET uuid == Head(fwd[c]).uuid
         s == c[2]
         consistency == m_pending_writes[s][uuid]
     IN  /\ m_hint_log' = DropHint(s, c[1], reqs[uuid].key)
         /\ fwd' = Popped(fwd, c)
         /\ IF consistency = Null
            THEN UNCHANGED <<replies, m_pending_writes>>
            ELSE /\ replies' = Answer(uuid, LastAnswer(consistency))
                 /\ m_pending_writes' = [m_pending_writes EXCEPT ![s][uuid] = Dec(@)]
         /\ UNCHANGED <<up, m_store, m_log, m_hints, m_pending_reads, link, bwd, reqs,
                        fresh, bounds>>

(***************************************************************************)
(* WriteComplete from c[1] at c[2], which counts down, answers the client  *)
(* when this was the last acknowledgement it needed, and drops the hint.   *)
(* An unknown uuid throws.                                                 *)
(***************************************************************************)
HandleWriteComplete(c) ==
  /\ Arrived(fwd, c, "WriteComplete")
  /\ LET uuid == Head(fwd[c]).uuid
         s == c[2]
         consistency == m_pending_writes[s][uuid]
     IN  IF consistency = Null
         THEN Stop(s)
         ELSE /\ replies' = Answer(uuid, LastAnswer(consistency))
              /\ m_pending_writes' = [m_pending_writes EXCEPT ![s][uuid] = Dec(@)]
              /\ m_hint_log' = DropHint(s, c[1], reqs[uuid].key)
              /\ fwd' = Popped(fwd, c)
              /\ UNCHANGED <<up, m_store, m_log, m_hints, m_pending_reads, link, bwd, reqs,
                             fresh, bounds>>

HandleDoRead(c) ==
  /\ Arrived(fwd, c, "DoRead")
  /\ bwd' = SendOn(bwd, c, [type |-> "ReadComplete", uuid |-> Head(fwd[c]).uuid])
  /\ fwd' = Popped(fwd, c)
  /\ UNCHANGED <<up, logs, pendings, link, reqs, replies, fresh, bounds>>

HandleReadRepair(c) ==
  /\ Arrived(fwd, c, "ReadRepair")
  /\ LET key == Head(fwd[c]).key
         data == ReadOrEmpty(c[2], key)
     IN  bwd' = SendOn(bwd, c, [type |-> "ReadRepairResponse", key |-> key,
                                val |-> data.data, timestamp |-> data.timestamp])
  /\ fwd' = Popped(fwd, c)
  /\ UNCHANGED <<up, logs, pendings, link, reqs, replies, fresh, bounds>>

(***************************************************************************)
(* ReadComplete at c[1].  Only the count matters: the value in it is not   *)
(* looked at, the client gets what c[1] held when it asked.                *)
(***************************************************************************)
HandleReadComplete(c) ==
  /\ Arrived(bwd, c, "ReadComplete")
  /\ LET uuid == Head(bwd[c]).uuid
         s == c[1]
         consistency == m_pending_reads[s][uuid]
     IN  IF consistency = Null
         THEN Stop(s)
         ELSE /\ replies' = Answer(uuid, LastAnswer(consistency))
              /\ m_pending_reads' = [m_pending_reads EXCEPT ![s][uuid] = Dec(@)]
              /\ bwd' = Popped(bwd, c)
              /\ UNCHANGED <<up, logs, m_pending_writes, link, fwd, reqs, fresh, bounds>>

\* Mutant of HandleReadRepairResponse: a newer value is kept and not passed
\* on to the other servers.
HandleReadRepairResponseKeeps(c) ==
  /\ Arrived(bwd, c, "ReadRepairResponse")
  /\ LET msg == Head(bwd[c])
         s == c[1]
         mine == m_store[s][msg.key]
     IN  \/ /\ mine # Null => mine.timestamp < msg.timestamp
            /\ m_log' = PostWrite(s, msg.key, ElementOf(msg))
            /\ UNCHANGED fwd
         \/ /\ mine # Null
            /\ msg.timestamp <= mine.timestamp
            /\ fwd' = SendOn(fwd, c, DoWriteOf(RR, msg.key, mine))
            /\ UNCHANGED m_log
  /\ bwd' = Popped(bwd, c)
  /\ UNCHANGED <<up, m_store, m_hints, m_hint_log, pendings, link, reqs, replies, fresh,
                 bounds>>

(***************************************************************************)
(* ReadRepairResponse at c[1]: a newer value is written and sent to        *)
(* everybody; an older one, or another one with the same timestamp, is     *)
(* answered with what c[1] holds.                                          *)
(***************************************************************************)
HandleReadRepairResponse(c) ==
  /\ Arrived(bwd, c, "ReadRepairResponse")
  /\ LET msg == Head(bwd[c])
         s == c[1]
         mine == m_store[s][msg.key]
     IN  \/ /\ mine # Null => mine.timestamp < msg.timestamp
            /\ m_log' = PostWrite(s, msg.key, ElementOf(msg))
            /\ fwd' = SendAll(fwd, s, DoWriteOf(RR, msg.key, ElementOf(msg)))
         \/ /\ mine # Null
            /\ \/ msg.timestamp < mine.timestamp
               \/ msg.timestamp = mine.timestamp /\ mine.data # msg.val
            /\ fwd' = SendOn(fwd, c, DoWriteOf(RR, msg.key, mine))
            /\ UNCHANGED m_log
         \/ /\ mine = ElementOf(msg)
            /\ UNCHANGED <<m_log, fwd>>
  /\ bwd' = Popped(bwd, c)
  /\ UNCHANGED <<up, m_store, m_hints, m_hint_log, pendings, link, reqs, replies, fresh,
                 bounds>>
-----------------------------------------------------------------------------
Crash(s) ==
  /\ s \in up
  /\ crashes < MaxCrashes
  /\ Stop(s)

\* The logs are replayed before the server accepts or opens a connection.
Restart(s) ==
  /\ s \notin up
  /\ up' = up \cup {s}
  /\ UNCHANGED <<logs, pendings, net, reqs, replies, fresh, bounds>>

\* A connection breaks while both processes live on.
Cut(c) ==
  /\ c \in link \cap Weak
  /\ cuts < MaxCuts
  /\ cuts' = cuts + 1
  /\ link' = link \ {c}
  /\ fwd' = [fwd EXCEPT ![c] = <<>>]
  /\ bwd' = [bwd EXCEPT ![c] = <<>>]
  /\ NotFresh
  /\ UNCHANGED <<up, logs, pendings, reqs, replies, crashes>>

\* The elements of a set of keys in ascending order: there is one such sequence.
InOrder(keys) ==
  {q \in [1..Cardinality(keys) -> keys] : \A i, j \in DOMAIN q : i < j => q[i] < q[j]}

(***************************************************************************)
(* What recon_handler sends behind the introduction: for every key with a  *)
(* hint for t, the element that s holds now.                               *)
(***************************************************************************)
Handoff(s, t) ==
  LET hinted == {k \in Key : m_hints[s][t][k] # 0 /\ m_store[s][k] # Null}
  IN  IF Mode = "hinted_handoff"
      THEN {[i \in DOMAIN q |-> DoWriteOf(RR, q[i], m_store[s][q[i]])] : q \in InOrder(hinted)}
      ELSE {<<>>}

\* Mutant of Connect: the hints are taken back once they have been sent again.
ConnectForgets(c) ==
  /\ c \notin link
  /\ {c[1], c[2]} \subseteq up
  /\ m_log[c[1]] = <<>> /\ m_hint_log[c[1]] = <<>>
  /\ link' = link \cup {c}
  /\ \E msgs \in Handoff(c[1], c[2]) : fwd' = [fwd EXCEPT ![c] = msgs]
  /\ m_hints' = [m_hints EXCEPT ![c[1]][c[2]] = [k \in Key |-> 0]]
  /\ UNCHANGED <<up, m_store, m_log, m_hint_log, pendings, bwd, reqs, replies, fresh, bounds>>

(***************************************************************************)
(* The reconnect timer of c[1] expires and c[2] can be reached.  The timer *)
(* and the connect are socket events: the io_service has by then run what  *)
(* was posted to the logs while the connection was down.                   *)
(***************************************************************************)
Connect(c) ==
  /\ c \notin link
  /\ {c[1], c[2]} \subseteq up
  /\ m_log[c[1]] = <<>> /\ m_hint_log[c[1]] = <<>>
  /\ link' = link \cup {c}
  /\ \E msgs \in Handoff(c[1], c[2]) : fwd' = [fwd EXCEPT ![c] = msgs]
  /\ UNCHANGED <<up, logs, pendings, bwd, reqs, replies, fresh, bounds>>
-----------------------------------------------------------------------------
Deliver(c) ==
  \/ HandleDoWrite(c)
  \/ HandleWriteComplete(c)
  \/ HandleDoRead(c)
  \/ HandleReadRepair(c)
  \/ HandleReadComplete(c)
  \/ HandleReadRepairResponse(c)

Next ==
  \/ \E s \in Putters, k \in Key, t \in Stamp \ {0}, n \in Consistency : HandlePut(s, k, t, n)
  \/ \E s \in Getters, k \in Key, n \in Consistency : HandleGet(s, k, n)
  \/ \E s \in Server : RunLog(s) \/ RunHintLog(s) \/ Crash(s) \/ Restart(s)
  \/ \E c \in Conn : Deliver(c) \/ Cut(c) \/ Connect(c)

Spec == Init /\ [][Next]_vars

(***************************************************************************)
(* Posted tasks run, messages on an open connection arrive, the reconnect  *)
(* timer keeps trying, and an operator starts a server that is down.       *)
(***************************************************************************)
Fairness ==
  /\ \A s \in Server : WF_vars(RunLog(s)) /\ WF_vars(RunHintLog(s)) /\ WF_vars(Restart(s))
  /\ \A c \in Conn : WF_vars(Deliver(c)) /\ WF_vars(Connect(c))

FairSpec == Spec /\ Fairness
-----------------------------------------------------------------------------
\* Server s has installed, or posted the append of, something as recent.
Holds(s, k, timestamp) ==
  \/ m_store[s][k] # Null /\ timestamp <= m_store[s][k].timestamp
  \/ \E i \in DOMAIN m_log[s] : m_log[s][i].key = k /\ timestamp <= m_log[s][i].timestamp

Puts == {u \in DOMAIN reqs : reqs[u].kind = "put"}

(***************************************************************************)
(* A put that was answered was taken by as many servers as the client      *)
(* asked for, and each of them still has it unless its process died: the   *)
(* answer is sent before anybody has flushed the record, so each crash can *)
(* cost a copy, and nothing else can.                                      *)
(***************************************************************************)
AckedSurvives ==
  \A u \in Puts : replies[u] > 0 =>
    Cardinality({s \in Server : Holds(s, reqs[u].key, reqs[u].timestamp)})
      + (crashes - reqs[u].crashes) >= reqs[u].consistency

(***************************************************************************)
(* A request is answered at most once, although every further WriteComplete*)
(* or ReadComplete counts down the same uint32_t below 1 and round its     *)
(* range; never when it asks for no server or for more than there are.     *)
(***************************************************************************)
ReplyOnce ==
  \A u \in DOMAIN reqs :
    replies[u] <= IF reqs[u].consistency \in 1..Cardinality(Server) THEN 1 ELSE 0

\* Hints for t on key k, counted as they will be when the hint log of s is idle.
Hints(s, t, k) ==
  LET posted(op) == Cardinality({i \in DOMAIN m_hint_log[s] :
                                   m_hint_log[s][i] = Hint(op, t, k)})
  IN  m_hints[s][t][k] + posted("add") - posted("drop")

(***************************************************************************)
(* The hint counters never go below zero: recon_handler tests for a        *)
(* counter that is not 0, and one that is too low would cancel the hint of *)
(* a later write.                                                          *)
(***************************************************************************)
HintsNonNegative ==
  \A s, t \in Server, k \in Key : m_hints[s][t][k] >= 0 /\ Hints(s, t, k) >= 0

(***************************************************************************)
(* Hinted handoff forgets nothing: as long as no process died since a put, *)
(* each peer has the write or the coordinator keeps a hint for it,         *)
(* whatever connections break.                                             *)
(***************************************************************************)
HandoffKeeps ==
  Mode = "hinted_handoff" =>
    \A u \in Puts : crashes = reqs[u].crashes =>
      \A t \in Server \ {reqs[u].at} :
        \/ Holds(t, reqs[u].key, reqs[u].timestamp)
        \/ Hints(reqs[u].at, t, reqs[u].key) > 0

\* Clients of all servers are answered elements of the same age.  A server that has
\* nothing answers as one that holds the empty element which a repair of nothing
\* leaves behind, and read repair does not tell them apart either.
Converged(k) ==
  \A s, t \in Server : ReadOrEmpty(s, k).timestamp = ReadOrEmpty(t, k).timestamp

(***************************************************************************)
(* Hinted handoff: when connections stop breaking, all servers come to     *)
(* hold elements of the same age, unless a server crashed, which loses     *)
(* what was on its queues.                                                 *)
(***************************************************************************)
HandoffConverges == <>[](crashes > 0 \/ \A k \in Key : Converged(k))

(***************************************************************************)
(* Read repair: one get of a key while everybody is reachable and nothing  *)
(* else is going on brings all servers to the newest element anybody had,  *)
(* by the time its messages are through.  Two answers can both be newer    *)
(* than what the coordinator holds, and come before it has installed the   *)
(* first.                                                                  *)
(***************************************************************************)
RepairConverges ==
  Mode = "read_repair" => \A k \in Key : fresh[k] /\ Quiet => Converged(k)

(***************************************************************************)
(* Every request that asks for at least one and at most all servers is     *)
(* answered, unless a server crashes or a connection breaks: nothing is    *)
(* retried, and there is no timeout.                                       *)
(***************************************************************************)
RequestsAnswered ==
  \A u \in Uuid :
    (u \in DOMAIN reqs /\ reqs[u].consistency \in 1..Cardinality(Server))
      ~> (u \in DOMAIN reqs /\ (replies[u] > 0 \/ crashes > 0 \/ cuts > 0))
=============================================================================
