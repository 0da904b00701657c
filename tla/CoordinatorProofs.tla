------------------------- MODULE CoordinatorProofs -------------------------
(***************************************************************************)
(* The cluster, for any number of servers, keys and requests, any          *)
(* consistency levels, crashes and broken connections, and both modes:     *)
(* TypeOK, ReplyOnce and AckedSurvives first, then hinted handoff          *)
(* (HintsNonNegative, HandoffKeeps) and read repair (RepairConverges),     *)
(* each of which has its argument at its head.                             *)
(*                                                                         *)
(* Requests.  A request stands in at most one message between its          *)
(* coordinator and each peer, on the way there or on the way back (Once),  *)
(* so that each peer is counted at most once.  For a request that is still *)
(* waited for there is therefore a set D of peers that were counted, and   *)
(* the counter, the answer to the client and the copies follow from D      *)
(* (Waits).  D is not in the program: it is found again in every step.     *)
(***************************************************************************)
EXTENDS Coordinator, Sums, FiniteSetTheorems, TLAPS

N == Cardinality(Server)

\* The message asks for an answer to request u, and the message is one.
Asks(m, u) == m.type \in {"DoWrite", "DoRead"} /\ m.uuid = u
Acks(m, u) == m.type \in {"WriteComplete", "ReadComplete"} /\ m.uuid = u

AskedIn(q, u) == \E i \in DOMAIN q : Asks(q[i], u)
AckedIn(q, u) == \E i \in DOMAIN q : Acks(q[i], u)

AskedOnce(q, u) == \A i, j \in DOMAIN q : Asks(q[i], u) /\ Asks(q[j], u) => i = j
AckedOnce(q, u) == \A i, j \in DOMAIN q : Acks(q[i], u) /\ Acks(q[j], u) => i = j

\* The message has nothing to do with any request of a client.
Idle(m) == \A u \in Uuid : ~Asks(m, u) /\ ~Acks(m, u)

\* The connection in the other direction.
Back(c) == <<c[2], c[1]>>

Belongs(u, kind, s, rs) == u \in DOMAIN rs /\ rs[u].kind = kind /\ rs[u].at = s

RequestFits(m, c, rs) ==
  /\ m.type = "DoWrite" /\ m.uuid # RR =>
       /\ Belongs(m.uuid, "put", c[1], rs)
       /\ m.key = rs[m.uuid].key
       /\ m.timestamp = rs[m.uuid].timestamp
  /\ m.type = "DoRead" => Belongs(m.uuid, "get", c[1], rs)
  /\ m.type = "WriteComplete" => Belongs(m.uuid, "put", c[2], rs)

ResponseFits(m, c, rs) == m.type = "ReadComplete" => Belongs(m.uuid, "get", c[1], rs)

\* Messages are on the connection of the server that has the request.
Addressed ==
  \A c \in Conn :
    /\ \A i \in DOMAIN fwd[c] : RequestFits(fwd[c][i], c, reqs)
    /\ \A i \in DOMAIN bwd[c] : ResponseFits(bwd[c][i], c, reqs)

PendingKnown ==
  \A s \in Server, u \in Uuid :
    /\ m_pending_writes[s][u] # Null => Belongs(u, "put", s, reqs)
    /\ m_pending_reads[s][u] # Null => Belongs(u, "get", s, reqs)

OnceOn(c, u) ==
  /\ AskedOnce(fwd[c], u) /\ AckedOnce(fwd[c], u) /\ AckedOnce(bwd[c], u)
  /\ AskedIn(fwd[c], u) => ~AckedIn(fwd[Back(c)], u) /\ ~AckedIn(bwd[c], u)

Once == \A c \in Conn, u \in Uuid : OnceOn(c, u)

\* The counter of request u.
Pending(u) ==
  IF reqs[u].kind = "put" THEN m_pending_writes[reqs[u].at][u]
  ELSE m_pending_reads[reqs[u].at][u]

\* The answer of t to request u is still to come.
Owes(u, t) ==
  LET c == <<reqs[u].at, t>>
  IN AskedIn(fwd[c], u) \/ AckedIn(fwd[Back(c)], u) \/ AckedIn(bwd[c], u)

\* What k decrements make of the counter that began with n - 1.
CountedDown(n, k) == IF k < n THEN n - 1 - k ELSE n - 1 - k + Width

Holders(u) == {s \in Server : Holds(s, reqs[u].key, reqs[u].timestamp)}

\* The peers whose acknowledgement of u is on the way.
Acking(u) == {t \in Server \ {reqs[u].at} : AckedIn(fwd[<<t, reqs[u].at>>], u)}

\* All of W hold what put u wrote, but for one server for each crash since.
Survives(W, u) == Cardinality(W \ Holders(u)) <= crashes - reqs[u].crashes

Waits(u, D) ==
  /\ D \subseteq Server \ {reqs[u].at}
  /\ \A t \in D : ~Owes(u, t)
  /\ Pending(u) = CountedDown(reqs[u].consistency, Cardinality(D))
  /\ replies[u] = IF reqs[u].consistency \in 1..Cardinality(D) + 1 THEN 1 ELSE 0
  /\ reqs[u].kind = "put" => Survives({reqs[u].at} \cup D \cup Acking(u), u)

\* Nobody waits any more: a get that was answered at once, or the process of
\* the coordinator has died.
Over(u) ==
  /\ replies[u] <= IF reqs[u].consistency \in 1..N THEN 1 ELSE 0
  /\ reqs[u].kind = "put" /\ replies[u] > 0 =>
       \E W \in SUBSET Server : Cardinality(W) >= reqs[u].consistency /\ Survives(W, u)

Counted(u) ==
  IF Pending(u) = Null THEN Over(u) ELSE \E D \in SUBSET Server : Waits(u, D)

AllCounted ==
  /\ \A u \in DOMAIN reqs : Counted(u)
  /\ \A u \in Uuid \ DOMAIN reqs : replies[u] = 0

\* The history of the requests is in order.
Recorded ==
  DOMAIN reqs \subseteq Uuid /\ \A u \in DOMAIN reqs : reqs[u].crashes <= crashes

Inv ==
  /\ TypeOK
  /\ Addressed
  /\ PendingKnown
  /\ Once
  /\ AllCounted
  /\ Recorded

-----------------------------------------------------------------------------
(* Arithmetic                                                              *)

LEMMA ServersType == N \in Nat /\ Server = 1..N /\ IsFiniteSet(Server)
BY ServerAssumption, FS_CardinalityType DEF N

LEMMA DecIs ==
  ASSUME NEW n \in 0..Width - 1
  PROVE  Dec(n) = IF n = 0 THEN Width - 1 ELSE n - 1
BY WidthAssumption DEF Dec

LEMMA CountDown ==
  ASSUME NEW n \in 0..Width - 1, NEW k \in 0..N - 1
  PROVE  /\ CountedDown(n, k) \in 0..Width - 1
         /\ Dec(CountedDown(n, k)) = CountedDown(n, k + 1)
         /\ CountedDown(n, k) = 1 <=> k + 2 = n
<1> DEFINE m == CountedDown(n, k)
<1>1. /\ N \in Nat /\ Width \in Nat /\ Width > 2 * N
      /\ k \in Nat /\ k < N /\ n \in Nat /\ n < Width
  BY ServersType, WidthAssumption DEF N
<1>2. m \in 0..Width - 1
  BY <1>1 DEF CountedDown
<1>3. Dec(m) = IF m = 0 THEN Width - 1 ELSE m - 1
  BY <1>2, DecIs
<1> HIDE DEF m
<1>4. Dec(m) = CountedDown(n, k + 1)
  BY <1>1, <1>3 DEF CountedDown, m
<1>5. m = 1 <=> k + 2 = n
  BY <1>1 DEF CountedDown, m
<1> QED BY <1>2, <1>4, <1>5 DEF m

-----------------------------------------------------------------------------
(* Queues                                                                  *)

LEMMA QueueTail ==
  ASSUME NEW S, NEW q \in Seq(S), q # <<>>
  PROVE  /\ Tail(q) \in Seq(S)
         /\ DOMAIN Tail(q) = 1..Len(q) - 1
         /\ \A i \in DOMAIN Tail(q) : i + 1 \in DOMAIN q /\ Tail(q)[i] = q[i + 1]
         /\ 1 \in DOMAIN q /\ Head(q) = q[1] /\ Head(q) \in S
OBVIOUS

LEMMA TailFrom ==
  ASSUME NEW S, NEW q \in Seq(S), q # <<>>, NEW r, r = Tail(q), NEW i \in DOMAIN r
  PROVE  \E j \in DOMAIN q : r[i] = q[j]
BY QueueTail

LEMMA QueueAppend ==
  ASSUME NEW S, NEW q \in Seq(S), NEW m \in S
  PROVE  /\ Append(q, m) \in Seq(S)
         /\ DOMAIN Append(q, m) = DOMAIN q \cup {Len(q) + 1}
         /\ Len(q) + 1 \notin DOMAIN q
         /\ \A i \in DOMAIN q : Append(q, m)[i] = q[i]
         /\ Append(q, m)[Len(q) + 1] = m
OBVIOUS

\* What a queue becomes when no message about a client's request joins it.
Trimmed(q, r, S) ==
  \/ r = q
  \/ r = <<>>
  \/ q # <<>> /\ r = Tail(q)
  \/ \E m \in S : Idle(m) /\ r = Append(q, m)
  \/ r \in Seq(S) /\ \A i \in DOMAIN r : Idle(r[i])

\* Nothing about request u appears, and nothing twice.
Fewer(q, r, u) ==
  /\ AskedIn(r, u) => AskedIn(q, u)
  /\ AckedIn(r, u) => AckedIn(q, u)
  /\ AskedOnce(q, u) => AskedOnce(r, u)
  /\ AckedOnce(q, u) => AckedOnce(r, u)

LEMMA TailFewer ==
  ASSUME NEW S, NEW q \in Seq(S), q # <<>>, NEW u
  PROVE  /\ Fewer(q, Tail(q), u)
         /\ AskedOnce(q, u) /\ Asks(Head(q), u) => ~AskedIn(Tail(q), u)
         /\ AckedOnce(q, u) /\ Acks(Head(q), u) => ~AckedIn(Tail(q), u)
         /\ Asks(Head(q), u) => AskedIn(q, u)
         /\ Acks(Head(q), u) => AckedIn(q, u)
<1> DEFINE r == Tail(q)
<1>1. /\ r \in Seq(S) /\ DOMAIN r = 1..Len(q) - 1 /\ DOMAIN q = 1..Len(q)
      /\ \A i \in DOMAIN r : i + 1 \in DOMAIN q /\ r[i] = q[i + 1]
      /\ 1 \in DOMAIN q /\ Head(q) = q[1] /\ Len(q) \in Nat
  BY QueueTail
<1> HIDE DEF r
<1>2. Fewer(q, r, u)
  <2>1. AskedIn(r, u) => AskedIn(q, u)
    BY <1>1 DEF AskedIn
  <2>2. AckedIn(r, u) => AckedIn(q, u)
    BY <1>1 DEF AckedIn
  <2>3. AskedOnce(q, u) => AskedOnce(r, u)
    BY <1>1 DEF AskedOnce
  <2>4. AckedOnce(q, u) => AckedOnce(r, u)
    BY <1>1 DEF AckedOnce
  <2> QED BY <2>1, <2>2, <2>3, <2>4 DEF Fewer
<1>3. AskedOnce(q, u) /\ Asks(Head(q), u) => ~AskedIn(r, u)
  BY <1>1 DEF AskedOnce, AskedIn
<1>4. AckedOnce(q, u) /\ Acks(Head(q), u) => ~AckedIn(r, u)
  BY <1>1 DEF AckedOnce, AckedIn
<1> QED BY <1>1, <1>2, <1>3, <1>4 DEF AskedIn, AckedIn, r

LEMMA AppendOne ==
  ASSUME NEW S, NEW q \in Seq(S), NEW m \in S, NEW u
  PROVE  /\ AskedIn(Append(q, m), u) <=> AskedIn(q, u) \/ Asks(m, u)
         /\ AckedIn(Append(q, m), u) <=> AckedIn(q, u) \/ Acks(m, u)
         /\ AskedOnce(q, u) /\ ~(AskedIn(q, u) /\ Asks(m, u)) => AskedOnce(Append(q, m), u)
         /\ AckedOnce(q, u) /\ ~(AckedIn(q, u) /\ Acks(m, u)) => AckedOnce(Append(q, m), u)
<1> DEFINE r == Append(q, m)
<1>1. /\ DOMAIN r = DOMAIN q \cup {Len(q) + 1}
      /\ \A i \in DOMAIN q : r[i] = q[i]
      /\ r[Len(q) + 1] = m
  BY QueueAppend
<1> HIDE DEF r
<1>2. AskedIn(r, u) <=> AskedIn(q, u) \/ Asks(m, u)
  BY <1>1 DEF AskedIn
<1>3. AckedIn(r, u) <=> AckedIn(q, u) \/ Acks(m, u)
  BY <1>1 DEF AckedIn
<1>4. AskedOnce(q, u) /\ ~(AskedIn(q, u) /\ Asks(m, u)) => AskedOnce(r, u)
  BY <1>1 DEF AskedOnce, AskedIn
<1>5. AckedOnce(q, u) /\ ~(AckedIn(q, u) /\ Acks(m, u)) => AckedOnce(r, u)
  BY <1>1 DEF AckedOnce, AckedIn
<1> QED BY <1>2, <1>3, <1>4, <1>5 DEF r

LEMMA TrimmedFewer ==
  ASSUME NEW S, NEW q \in Seq(S), NEW r, Trimmed(q, r, S), NEW u \in Uuid
  PROVE  Fewer(q, r, u)
<1>1. CASE r = q
  BY <1>1 DEF Fewer
<1>2. CASE r = <<>>
  BY <1>2 DEF Fewer, AskedIn, AckedIn, AskedOnce, AckedOnce
<1>3. CASE q # <<>> /\ r = Tail(q)
  BY <1>3, TailFewer
<1>4. CASE \E m \in S : Idle(m) /\ r = Append(q, m)
  <2>1. PICK m \in S : Idle(m) /\ r = Append(q, m)
    BY <1>4
  <2>2. ~Asks(m, u) /\ ~Acks(m, u)
    BY <2>1 DEF Idle
  <2> QED BY <2>1, <2>2, AppendOne DEF Fewer
<1>5. CASE \A i \in DOMAIN r : Idle(r[i])
  BY <1>5 DEF Fewer, AskedIn, AckedIn, AskedOnce, AckedOnce, Idle
<1> QED BY <1>1, <1>2, <1>3, <1>4, <1>5 DEF Trimmed

\* Each message of the queue was in it, or has nothing to do with requests.
LEMMA TrimmedFrom ==
  ASSUME NEW S, NEW q \in Seq(S), NEW r, Trimmed(q, r, S)
  PROVE  /\ r \in Seq(S)
         /\ \A i \in DOMAIN r : Idle(r[i]) \/ \E j \in DOMAIN q : r[i] = q[j]
<1>1. CASE r = q
  BY <1>1
<1>2. CASE r = <<>>
  BY <1>2
<1>3. CASE q # <<>> /\ r = Tail(q)
  BY <1>3, QueueTail
<1>4. CASE \E m \in S : Idle(m) /\ r = Append(q, m)
  <2>1. PICK m \in S : Idle(m) /\ r = Append(q, m)
    BY <1>4
  <2> QED BY <2>1, QueueAppend
<1>5. CASE r \in Seq(S) /\ \A i \in DOMAIN r : Idle(r[i])
  BY <1>5
<1> QED BY <1>1, <1>2, <1>3, <1>4, <1>5 DEF Trimmed

-----------------------------------------------------------------------------
(* Types                                                                   *)

LEMMA ConnType ==
  ASSUME NEW c \in Conn
  PROVE  c[1] \in Server /\ c[2] \in Server /\ c[1] # c[2] /\ Back(c) \in Conn /\ Back(c) # c
           /\ c = <<c[1], c[2]>> /\ Back(Back(c)) = c
BY DEF Conn, Back

LEMMA ElementType ==
  ASSUME NEW e \in Element
  PROVE  e.data \in Val /\ e.timestamp \in Stamp /\ e.timestamp \in Nat /\ e # Null
BY StampAssumption, NullAssumption DEF Element

LEMMA EmptyType == Empty \in Element
BY ValueAssumption, RequestsAssumption DEF Empty, NoData, Element

LEMMA ReadType ==
  ASSUME TypeOK, NEW s \in Server, NEW k \in Key
  PROVE  ReadOrEmpty(s, k) \in Element
BY EmptyType DEF TypeOK, StoreType, ReadOrEmpty

LEMMA PostWriteType ==
  ASSUME TypeOK, NEW s \in Server, NEW k \in Key, NEW e \in Element
  PROVE  PostWrite(s, k, e) \in [Server -> Seq(DoWrite)]
<1> DEFINE r == [key |-> k, val |-> e.data, timestamp |-> e.timestamp]
<1>1. r \in DoWrite
  BY ElementType DEF DoWrite
<1>2. Append(m_log[s], r) \in Seq(DoWrite)
  BY <1>1, QueueAppend DEF TypeOK
<1> HIDE DEF r
<1>3. [m_log EXCEPT ![s] = Append(m_log[s], r)] \in [Server -> Seq(DoWrite)]
  BY <1>2 DEF TypeOK
<1> QED BY <1>3 DEF PostWrite, TypeOK, r

LEMMA SendAllType ==
  ASSUME NEW S, NEW queues \in [Conn -> Seq(S)], NEW s \in Server, NEW m \in S
  PROVE  /\ SendAll(queues, s, m) \in [Conn -> Seq(S)]
         /\ \A c \in Conn : SendAll(queues, s, m)[c] =
              IF c[1] = s /\ c \in link THEN Append(queues[c], m) ELSE queues[c]
BY QueueAppend DEF SendAll

LEMMA SendOnType ==
  ASSUME NEW S, NEW queues \in [Conn -> Seq(S)], NEW c \in Conn, NEW m \in S
  PROVE  /\ SendOn(queues, c, m) \in [Conn -> Seq(S)]
         /\ \A d \in Conn : SendOn(queues, c, m)[d] =
              IF d = c /\ c \in link THEN Append(queues[c], m) ELSE queues[d]
<1>1. Append(queues[c], m) \in Seq(S)
  BY QueueAppend
<1> QED BY <1>1 DEF SendOn

LEMMA PoppedType ==
  ASSUME NEW S, NEW queues \in [Conn -> Seq(S)], NEW c \in Conn, queues[c] # <<>>
  PROVE  /\ Popped(queues, c) \in [Conn -> Seq(S)]
         /\ \A d \in Conn : Popped(queues, c)[d] = IF d = c THEN Tail(queues[c]) ELSE queues[d]
         /\ Head(queues[c]) \in S
<1>1. Tail(queues[c]) \in Seq(S) /\ Head(queues[c]) \in S
  BY QueueTail
<1> QED BY <1>1 DEF Popped

LEMMA DoWriteOfType ==
  ASSUME NEW u \in Uuid \cup {RR}, NEW k \in Key, NEW e \in Element
  PROVE  /\ DoWriteOf(u, k, e) \in Request
         /\ DoWriteOf(u, k, e).type = "DoWrite"
         /\ DoWriteOf(u, k, e).uuid = u
         /\ DoWriteOf(u, k, e).key = k
         /\ DoWriteOf(u, k, e).timestamp = e.timestamp
BY ElementType DEF DoWriteOf, Request, DoWriteMsg

LEMMA HintLogType ==
  ASSUME TypeOK, NEW s \in Server, NEW k \in Key
  PROVE  /\ AddHints(s, k) \in [Server -> Seq(HintTask)]
         /\ \A t \in Server : DropHint(s, t, k) \in [Server -> Seq(HintTask)]
<1> DEFINE adds == [i \in DOMAIN PeersOf(s) |-> Hint("add", PeersOf(s)[i], k)]
<1>1. DOMAIN PeersOf(s) = 1..N - 1 /\ N \in Nat /\ N - 1 \in Nat
  BY ServersType DEF PeersOf, N
<1>2. \A i \in 1..N - 1 : PeersOf(s)[i] \in Server
  BY ServersType DEF PeersOf, N
<1>3. \A i \in 1..N - 1 : Hint("add", PeersOf(s)[i], k) \in HintTask
  BY <1>2 DEF Hint, HintTask
<1>4. adds \in Seq(HintTask)
  BY <1>1, <1>3
<1>5. m_hint_log \in [Server -> Seq(HintTask)]
  BY DEF TypeOK
<1> HIDE DEF adds
<1>6. m_hint_log[s] \o adds \in Seq(HintTask)
  BY <1>4, <1>5
<1>7. AddHints(s, k) \in [Server -> Seq(HintTask)]
  BY <1>5, <1>6 DEF AddHints, adds
<1>8. ASSUME NEW t \in Server PROVE DropHint(s, t, k) \in [Server -> Seq(HintTask)]
  <2>1. Hint("drop", t, k) \in HintTask
    BY DEF Hint, HintTask
  <2>2. Append(m_hint_log[s], Hint("drop", t, k)) \in Seq(HintTask)
    BY <2>1, <1>5, QueueAppend
  <2> QED BY <2>2, <1>5 DEF DropHint
<1> QED BY <1>7, <1>8

\* The messages that follow a reconnect have nothing to do with requests.
LEMMA HandoffType ==
  ASSUME TypeOK, NEW c \in Conn, NEW msgs \in Handoff(c[1], c[2])
  PROVE  msgs \in Seq(Request) /\ \A i \in DOMAIN msgs : Idle(msgs[i])
<1> DEFINE hinted == {k \in Key : m_hints[c[1]][c[2]][k] # 0 /\ m_store[c[1]][k] # Null}
<1>1. CASE Mode = "hinted_handoff"
  <2>1. PICK q \in [1..Cardinality(hinted) -> hinted] :
               msgs = [i \in DOMAIN q |-> DoWriteOf(RR, q[i], m_store[c[1]][q[i]])]
    BY <1>1 DEF Handoff, InOrder
  <2>2. Cardinality(hinted) \in Nat
    <3>1. IsFiniteSet(Key)
      BY ServerAssumption
    <3> QED BY <3>1, FS_Subset, FS_CardinalityType
  <2>3. \A i \in 1..Cardinality(hinted) : q[i] \in Key /\ m_store[c[1]][q[i]] \in Element
    <3>1. c[1] \in Server
      BY ConnType
    <3>2. m_store[c[1]] \in [Key -> Element \cup {Null}]
      BY <3>1 DEF TypeOK, StoreType
    <3>3. \A k \in hinted : k \in Key /\ m_store[c[1]][k] \in Element
      BY <3>2
    <3> QED BY <3>3
  <2> HIDE DEF hinted
  <2>4. \A i \in 1..Cardinality(hinted) : msgs[i] \in Request /\ Idle(msgs[i])
    <3> TAKE i \in 1..Cardinality(hinted)
    <3>1. msgs[i] = DoWriteOf(RR, q[i], m_store[c[1]][q[i]])
      BY <2>1
    <3>2. msgs[i] \in Request /\ msgs[i].type = "DoWrite" /\ msgs[i].uuid = RR
      BY <3>1, <2>3, DoWriteOfType
    <3>3. RR \notin Uuid
      BY DEF RR, Uuid
    <3> QED BY <3>2, <3>3 DEF Idle, Asks, Acks
  <2>5. DOMAIN msgs = 1..Cardinality(hinted)
    BY <2>1
  <2>6. msgs = [i \in 1..Cardinality(hinted) |-> msgs[i]]
    BY <2>1
  <2> HIDE DEF hinted
  <2> QED BY <2>2, <2>4, <2>5, <2>6
<1>2. CASE Mode # "hinted_handoff"
  BY <1>2 DEF Handoff
<1> QED BY <1>1, <1>2

LEMMA InitTypes == Init => TypeOK
<1> SUFFICES ASSUME Init PROVE TypeOK
  OBVIOUS
<1>1. m_store \in [Server -> StoreType] /\ up \subseteq Server /\ link \subseteq Conn
  BY DEF Init, StoreType, EmptyStore
<1>2. /\ m_log \in [Server -> Seq(DoWrite)]
      /\ m_hint_log \in [Server -> Seq(HintTask)]
      /\ m_hints \in [Server -> [Server -> [Key -> Int]]]
  BY DEF Init
<1>3. /\ m_pending_writes \in [Server -> [Uuid -> (0..Width - 1) \cup {Null}]]
      /\ m_pending_reads \in [Server -> [Uuid -> (0..Width - 1) \cup {Null}]]
  BY DEF Init
<1>4. fwd \in [Conn -> Seq(Request)] /\ bwd \in [Conn -> Seq(Response)]
  BY DEF Init
<1>5. /\ reqs \in Seq([kind : {"put", "get"}, at : Server, key : Key, timestamp : Stamp,
                       consistency : Consistency, crashes : Nat])
      /\ replies \in [Uuid -> Nat] /\ fresh \in [Key -> BOOLEAN]
      /\ crashes \in Nat /\ cuts \in Nat
  BY DEF Init
<1> QED BY <1>1, <1>2, <1>3, <1>4, <1>5 DEF TypeOK

LEMMA StopType ==
  ASSUME TypeOK, NEW s \in Server, Stop(s)
  PROVE  TypeOK'
<1>1. /\ up' \subseteq Server /\ link' \subseteq Conn
      /\ m_store' \in [Server -> StoreType]
      /\ m_hints' \in [Server -> [Server -> [Key -> Int]]]
      /\ crashes' \in Nat /\ cuts' \in Nat /\ fresh' \in [Key -> BOOLEAN]
      /\ replies' \in [Uuid -> Nat]
  BY DEF Stop, TypeOK, NotFresh
<1>2. reqs' = reqs
  BY DEF Stop
<1>3. m_log' \in [Server -> Seq(DoWrite)] /\ m_hint_log' \in [Server -> Seq(HintTask)]
  BY DEF Stop, TypeOK
<1>4. /\ m_pending_writes' \in [Server -> [Uuid -> (0..Width - 1) \cup {Null}]]
      /\ m_pending_reads' \in [Server -> [Uuid -> (0..Width - 1) \cup {Null}]]
  BY DEF Stop, TypeOK
<1>5. fwd' \in [Conn -> Seq(Request)] /\ bwd' \in [Conn -> Seq(Response)]
  BY DEF Stop, TypeOK
<1> QED BY <1>1, <1>2, <1>3, <1>4, <1>5 DEF TypeOK

\* The record of a client's request and the answer that it may get at once.
LEMMA NewRequestType ==
  ASSUME TypeOK, NEW kind \in {"put", "get"}, NEW s \in Server, NEW k \in Key,
         NEW t \in Stamp, NEW n \in Consistency, NewRequest(kind, s, k, t, n)
  PROVE  /\ reqs' \in Seq([kind : {"put", "get"}, at : Server, key : Key, timestamp : Stamp,
                           consistency : Consistency, crashes : Nat])
         /\ Len(reqs) + 1 \in Uuid
         /\ Len(reqs) + 1 \notin DOMAIN reqs
         /\ DOMAIN reqs' = DOMAIN reqs \cup {Len(reqs) + 1}
         /\ \A u \in DOMAIN reqs : reqs'[u] = reqs[u]
         /\ reqs'[Len(reqs) + 1] =
              [kind |-> kind, at |-> s, key |-> k, timestamp |-> t, consistency |-> n,
               crashes |-> crashes]
<1> DEFINE R == [kind : {"put", "get"}, at : Server, key : Key, timestamp : Stamp,
                 consistency : Consistency, crashes : Nat]
           r == [kind |-> kind, at |-> s, key |-> k, timestamp |-> t, consistency |-> n,
                 crashes |-> crashes]
<1>1. r \in R /\ reqs \in Seq(R) /\ reqs' = Append(reqs, r) /\ Len(reqs) < MaxRequests
  BY DEF TypeOK, NewRequest
<1>2. Len(reqs) + 1 \in Uuid
  BY <1>1, RequestsAssumption DEF Uuid
<1> HIDE DEF R, r
<1>3. /\ reqs' \in Seq(R)
      /\ Len(reqs) + 1 \notin DOMAIN reqs
      /\ DOMAIN reqs' = DOMAIN reqs \cup {Len(reqs) + 1}
      /\ \A u \in DOMAIN reqs : reqs'[u] = reqs[u]
      /\ reqs'[Len(reqs) + 1] = r
  BY <1>1, QueueAppend
<1> QED BY <1>2, <1>3 DEF R, r

LEMMA AnswerType ==
  ASSUME TypeOK, NEW u \in Uuid, NEW yes \in BOOLEAN, replies' = Answer(u, yes)
  PROVE  /\ replies' \in [Uuid -> Nat]
         /\ replies'[u] = replies[u] + IF yes THEN 1 ELSE 0
         /\ \A v \in Uuid \ {u} : replies'[v] = replies[v]
BY DEF TypeOK, Answer

LEMMA PutType ==
  ASSUME TypeOK, NEW s \in Server, NEW k \in Key, NEW t \in Stamp, NEW n \in Consistency,
         HandlePut(s, k, t, n)
  PROVE  TypeOK'
<1> DEFINE u == Len(reqs) + 1
           e == [data |-> u, timestamp |-> t]
<1>1. NewRequest("put", s, k, t, n) /\ u \in Uuid
  BY NewRequestType DEF HandlePut
<1>2. e \in Element
  BY <1>1, ValueAssumption, RequestsAssumption DEF Element, Uuid
<1>3. m_log' \in [Server -> Seq(DoWrite)]
  BY <1>2, PostWriteType DEF HandlePut
<1>4. m_hint_log' \in [Server -> Seq(HintTask)]
  BY HintLogType DEF HandlePut
<1>5. fwd' \in [Conn -> Seq(Request)]
  <2>1. DoWriteOf(u, k, e) \in Request
    BY <1>1, <1>2, DoWriteOfType
  <2>2. fwd' = SendAll(fwd, s, DoWriteOf(u, k, e)) /\ fwd \in [Conn -> Seq(Request)]
    BY DEF HandlePut, TypeOK
  <2> QED BY <2>1, <2>2, SendAllType
<1>6. m_pending_writes' \in [Server -> [Uuid -> (0..Width - 1) \cup {Null}]]
  <2>1. Remaining(n) \in 0..Width - 1
    BY DecIs, ConsistencyAssumption, WidthAssumption DEF Remaining
  <2>2. m_pending_writes' = [m_pending_writes EXCEPT ![s][u] = Remaining(n)]
    BY DEF HandlePut
  <2> QED BY <2>1, <2>2, <1>1 DEF TypeOK
<1>7. replies' \in [Uuid -> Nat]
  BY <1>1, AnswerType DEF HandlePut
<1>8. reqs' \in Seq([kind : {"put", "get"}, at : Server, key : Key, timestamp : Stamp,
                     consistency : Consistency, crashes : Nat])
  BY <1>1, NewRequestType
<1>9. /\ up' = up /\ m_store' = m_store /\ m_hints' = m_hints /\ link' = link /\ bwd' = bwd
      /\ m_pending_reads' = m_pending_reads /\ crashes' = crashes /\ cuts' = cuts
      /\ fresh' \in [Key -> BOOLEAN]
  BY DEF HandlePut, NotFresh, bounds
<1> QED BY <1>3, <1>4, <1>5, <1>6, <1>7, <1>8, <1>9 DEF TypeOK

LEMMA GetType ==
  ASSUME TypeOK, NEW s \in Server, NEW k \in Key, NEW n \in Consistency, HandleGet(s, k, n)
  PROVE  TypeOK'
<1> DEFINE u == Len(reqs) + 1
           read == [type |-> "DoRead", uuid |-> u, key |-> k]
           repair == [type |-> "ReadRepair", key |-> k]
           q == IF n = 1 THEN fwd ELSE SendAll(fwd, s, read)
<1>0. ReadOrEmpty(s, k).timestamp \in Stamp
  BY ReadType, ElementType
<1>1. NewRequest("get", s, k, ReadOrEmpty(s, k).timestamp, n) /\ u \in Uuid
  BY <1>0, NewRequestType DEF HandleGet
<1>2. fwd' \in [Conn -> Seq(Request)]
  <2>1. read \in Request /\ repair \in Request
    BY <1>1 DEF Request, ReadMsg, KeyMsg
  <2>2. fwd \in [Conn -> Seq(Request)]
    BY DEF TypeOK
  <2>3. q \in [Conn -> Seq(Request)]
    BY <2>1, <2>2, SendAllType
  <2>4. fwd' = q \/ fwd' = SendAll(q, s, repair)
    BY DEF HandleGet
  <2> HIDE DEF q, read, repair
  <2> QED BY <2>1, <2>3, <2>4, SendAllType
<1>3. m_pending_reads' \in [Server -> [Uuid -> (0..Width - 1) \cup {Null}]]
  <2>1. Remaining(n) \in 0..Width - 1
    BY DecIs, ConsistencyAssumption, WidthAssumption DEF Remaining
  <2>2. CASE m_pending_reads' = m_pending_reads
    BY <2>2 DEF TypeOK
  <2>3. CASE m_pending_reads' = [m_pending_reads EXCEPT ![s][u] = Remaining(n)]
    BY <2>1, <2>3, <1>1 DEF TypeOK
  <2> QED BY <2>2, <2>3 DEF HandleGet
<1>4. replies' \in [Uuid -> Nat]
  BY <1>1, AnswerType DEF HandleGet
<1>5. reqs' \in Seq([kind : {"put", "get"}, at : Server, key : Key, timestamp : Stamp,
                     consistency : Consistency, crashes : Nat])
  BY <1>0, <1>1, NewRequestType
<1>6. /\ up' = up /\ m_store' = m_store /\ m_log' = m_log /\ m_hints' = m_hints
      /\ m_hint_log' = m_hint_log /\ link' = link /\ bwd' = bwd
      /\ m_pending_writes' = m_pending_writes /\ crashes' = crashes /\ cuts' = cuts
  BY DEF HandleGet, logs, bounds
<1>7. fresh' \in [Key -> BOOLEAN]
  BY DEF HandleGet, TypeOK, Quiet
<1> QED BY <1>2, <1>3, <1>4, <1>5, <1>6, <1>7 DEF TypeOK

LEMMA ReqType ==
  ASSUME TypeOK, NEW u \in DOMAIN reqs
  PROVE  /\ reqs[u].kind \in {"put", "get"}
         /\ reqs[u].at \in Server
         /\ reqs[u].key \in Key
         /\ reqs[u].timestamp \in Stamp /\ reqs[u].timestamp \in Nat
         /\ reqs[u].consistency \in 0..Width - 1
         /\ reqs[u].crashes \in Nat
<1> DEFINE R == [kind : {"put", "get"}, at : Server, key : Key, timestamp : Stamp,
                 consistency : Consistency, crashes : Nat]
<1>1. reqs \in Seq(R)
  BY DEF TypeOK
<1> HIDE DEF R
<1>2. reqs[u] \in R
  BY <1>1
<1> QED BY <1>2, StampAssumption, ConsistencyAssumption DEF R

LEMMA RequestType ==
  ASSUME TypeOK, NEW c \in Conn, fwd[c] # <<>>, NEW msg, msg = Head(fwd[c])
  PROVE  /\ msg \in Request
         /\ msg.type = "DoWrite" =>
              /\ msg.uuid \in Uuid \cup {RR} /\ msg.key \in Key
              /\ ElementOf(msg) \in Element /\ ElementOf(msg).timestamp = msg.timestamp
         /\ msg.type = "WriteComplete" => msg.uuid \in Uuid
         /\ msg.type = "DoRead" => msg.uuid \in Uuid /\ msg.key \in Key
         /\ msg.type = "ReadRepair" => msg.key \in Key
<1>1. msg \in Request
  BY QueueTail DEF TypeOK
<1> QED BY <1>1 DEF Request, DoWriteMsg, KeyMsg, ReadMsg, AckMsg, ElementOf, Element

LEMMA ResponseType ==
  ASSUME TypeOK, NEW c \in Conn, bwd[c] # <<>>, NEW msg, msg = Head(bwd[c])
  PROVE  /\ msg \in Response
         /\ msg.type = "ReadComplete" => msg.uuid \in Uuid
         /\ msg.type = "ReadRepairResponse" => msg.key \in Key /\ ElementOf(msg) \in Element
<1>1. msg \in Response
  BY QueueTail DEF TypeOK
<1> QED BY <1>1 DEF Response, ElementOf, Element

LEMMA RunType ==
  ASSUME TypeOK, NEW s \in Server, RunLog(s) \/ RunHintLog(s)
  PROVE  TypeOK'
<1>1. CASE RunLog(s)
  <2> DEFINE r == Head(m_log[s])
  <2>1. m_log[s] \in Seq(DoWrite) /\ m_log[s] # <<>>
    BY <1>1 DEF RunLog, TypeOK
  <2>2. r \in DoWrite /\ Tail(m_log[s]) \in Seq(DoWrite)
    BY <2>1, QueueTail
  <2>3. ElementOf(r) \in Element /\ r.key \in Key
    BY <2>2 DEF ElementOf, Element, DoWrite
  <2>4. Install(m_store[s], r) \in StoreType
    BY <2>3 DEF Install, StoreType, TypeOK
  <2>5. /\ m_store' = [m_store EXCEPT ![s] = Install(m_store[s], r)]
        /\ m_log' = [m_log EXCEPT ![s] = Tail(m_log[s])]
        /\ up' = up /\ m_hints' = m_hints /\ m_hint_log' = m_hint_log
        /\ m_pending_writes' = m_pending_writes /\ m_pending_reads' = m_pending_reads
        /\ link' = link /\ fwd' = fwd /\ bwd' = bwd /\ reqs' = reqs /\ replies' = replies
        /\ fresh' = fresh /\ crashes' = crashes /\ cuts' = cuts
    BY <1>1 DEF RunLog, pendings, net, bounds
  <2> HIDE DEF r
  <2> QED BY <2>2, <2>4, <2>5 DEF TypeOK
<1>2. CASE RunHintLog(s)
  <2> DEFINE h == Head(m_hint_log[s])
             n == IF h.op = "add" THEN m_hints[s][h.replica][h.key] + 1
                  ELSE m_hints[s][h.replica][h.key] - 1
  <2>1. m_hint_log[s] \in Seq(HintTask) /\ m_hint_log[s] # <<>>
    BY <1>2 DEF RunHintLog, TypeOK
  <2>2. h \in HintTask /\ Tail(m_hint_log[s]) \in Seq(HintTask)
    BY <2>1, QueueTail
  <2>3. h.replica \in Server /\ h.key \in Key
    BY <2>2 DEF HintTask
  <2>4. m_hints[s][h.replica][h.key] \in Int
    <3> HIDE DEF h
    <3> QED BY <2>3 DEF TypeOK
  <2>5. /\ m_hints' = [m_hints EXCEPT ![s][h.replica][h.key] = n]
        /\ m_hint_log' = [m_hint_log EXCEPT ![s] = Tail(m_hint_log[s])]
        /\ up' = up /\ m_store' = m_store /\ m_log' = m_log
        /\ m_pending_writes' = m_pending_writes /\ m_pending_reads' = m_pending_reads
        /\ link' = link /\ fwd' = fwd /\ bwd' = bwd /\ reqs' = reqs /\ replies' = replies
        /\ fresh' = fresh /\ crashes' = crashes /\ cuts' = cuts
    BY <1>2 DEF RunHintLog, pendings, net, bounds
  <2> HIDE DEF h
  <2>6. n \in Int
    BY <2>4
  <2> HIDE DEF n
  <2>7. m_hints' \in [Server -> [Server -> [Key -> Int]]]
    BY <2>3, <2>5, <2>6 DEF TypeOK
  <2> QED BY <2>2, <2>5, <2>7 DEF TypeOK
<1> QED BY <1>1, <1>2

LEMMA LinkType ==
  ASSUME TypeOK, NEW c \in Conn, Cut(c) \/ Connect(c)
  PROVE  TypeOK'
<1>1. CASE Cut(c)
  BY <1>1 DEF Cut, TypeOK, NotFresh, logs, pendings
<1>2. CASE Connect(c)
  <2>1. PICK msgs \in Handoff(c[1], c[2]) : fwd' = [fwd EXCEPT ![c] = msgs]
    BY <1>2 DEF Connect
  <2>2. fwd' \in [Conn -> Seq(Request)]
    BY <2>1, HandoffType DEF TypeOK
  <2> QED BY <1>2, <2>2 DEF Connect, TypeOK, logs, pendings, bounds
<1> QED BY <1>1, <1>2

LEMMA DeliverType ==
  ASSUME TypeOK, PendingKnown, NEW c \in Conn, Deliver(c)
  PROVE  TypeOK'
<1>0. /\ c[1] \in Server /\ c[2] \in Server /\ <<c[2], c[1]>> \in Conn
      /\ fwd \in [Conn -> Seq(Request)] /\ bwd \in [Conn -> Seq(Response)]
  BY ConnType DEF TypeOK, Back
<1>1. CASE HandleDoWrite(c)
  <2> DEFINE msg == Head(fwd[c])
             ack == [type |-> "WriteComplete", uuid |-> msg.uuid]
  <2>1. fwd[c] # <<>> /\ msg.type = "DoWrite"
    BY <1>1 DEF HandleDoWrite, Arrived
  <2>2. msg.uuid \in Uuid \cup {RR} /\ msg.key \in Key /\ ElementOf(msg) \in Element
    BY <2>1, RequestType
  <2>3. m_log' \in [Server -> Seq(DoWrite)]
    BY <1>0, <1>1, <2>2, PostWriteType DEF HandleDoWrite
  <2>4. Popped(fwd, c) \in [Conn -> Seq(Request)]
    BY <1>0, <2>1, PoppedType
  <2>5. msg.uuid # RR => ack \in Request
    BY <2>2 DEF Request, AckMsg
  <2>6. fwd' = IF msg.uuid = RR THEN Popped(fwd, c)
               ELSE SendOn(Popped(fwd, c), <<c[2], c[1]>>, ack)
    BY <1>1 DEF HandleDoWrite
  <2> HIDE DEF msg, ack
  <2>7. fwd' \in [Conn -> Seq(Request)]
    BY <1>0, <2>4, <2>5, <2>6, SendOnType
  <2> QED BY <1>1, <2>3, <2>7 DEF HandleDoWrite, TypeOK, pendings, bounds
<1>2. CASE HandleWriteComplete(c)
  <2> DEFINE u == Head(fwd[c]).uuid
             n == m_pending_writes[c[2]][u]
  <2>1. fwd[c] # <<>> /\ Head(fwd[c]).type = "WriteComplete" /\ u \in Uuid
    BY <1>2, RequestType DEF HandleWriteComplete, Arrived
  <2>2. CASE n = Null
    BY <1>0, <1>2, <2>2, StopType DEF HandleWriteComplete
  <2>3. CASE n # Null
    <3>1. n \in 0..Width - 1
      BY <1>0, <2>1, <2>3 DEF TypeOK
    <3>2. u \in DOMAIN reqs /\ reqs[u].key \in Key
      <4> HIDE DEF u
      <4>1. u \in DOMAIN reqs
        BY <1>0, <2>1, <2>3 DEF PendingKnown, Belongs
      <4> QED BY <4>1, ReqType
    <3>3. /\ replies' = Answer(u, LastAnswer(n))
          /\ m_pending_writes' = [m_pending_writes EXCEPT ![c[2]][u] = Dec(n)]
          /\ m_hint_log' = DropHint(c[2], c[1], reqs[u].key)
          /\ fwd' = Popped(fwd, c)
          /\ UNCHANGED <<up, m_store, m_log, m_hints, m_pending_reads, link, bwd, reqs, fresh,
                         bounds>>
      BY <1>2, <2>3 DEF HandleWriteComplete
    <3>4. Dec(n) \in 0..Width - 1
      BY <3>1, DecIs, WidthAssumption
    <3> HIDE DEF u, n
    <3>5. replies' \in [Uuid -> Nat]
      BY <2>1, <3>3, AnswerType DEF LastAnswer
    <3>6. m_hint_log' \in [Server -> Seq(HintTask)]
      BY <1>0, <3>2, <3>3, HintLogType
    <3>7. fwd' \in [Conn -> Seq(Request)]
      BY <1>0, <2>1, <3>3, PoppedType
    <3>8. m_pending_writes' \in [Server -> [Uuid -> (0..Width - 1) \cup {Null}]]
      BY <1>0, <2>1, <3>3, <3>4 DEF TypeOK
    <3> QED BY <3>3, <3>5, <3>6, <3>7, <3>8 DEF TypeOK, bounds
  <2> QED BY <2>2, <2>3
<1>3. CASE HandleDoRead(c) \/ HandleReadRepair(c)
  <2>1. fwd[c] # <<>> /\ fwd' = Popped(fwd, c)
    BY <1>3 DEF HandleDoRead, HandleReadRepair, Arrived
  <2>2. fwd' \in [Conn -> Seq(Request)]
    BY <1>0, <2>1, PoppedType
  <2>3. PICK r \in Response : bwd' = SendOn(bwd, c, r)
    <3>1. CASE HandleDoRead(c)
      <4>1. [type |-> "ReadComplete", uuid |-> Head(fwd[c]).uuid] \in Response
        BY <2>1, <3>1, RequestType DEF HandleDoRead, Arrived, Response
      <4> QED BY <3>1, <4>1 DEF HandleDoRead
    <3>2. CASE HandleReadRepair(c)
      <4> DEFINE key == Head(fwd[c]).key
                 data == ReadOrEmpty(c[2], key)
      <4>1. key \in Key
        BY <2>1, <3>2, RequestType DEF HandleReadRepair, Arrived
      <4>2. data \in Element
        BY <1>0, <4>1, ReadType
      <4>3. [type |-> "ReadRepairResponse", key |-> key, val |-> data.data,
             timestamp |-> data.timestamp] \in Response
        BY <4>1, <4>2, ElementType DEF Response
      <4> QED BY <3>2, <4>3 DEF HandleReadRepair
    <3> QED BY <1>3, <3>1, <3>2
  <2>4. bwd' \in [Conn -> Seq(Response)]
    BY <1>0, <2>3, SendOnType
  <2> QED BY <1>3, <2>2, <2>4
        DEF HandleDoRead, HandleReadRepair, TypeOK, logs, pendings, bounds
<1>4. CASE HandleReadComplete(c)
  <2> DEFINE u == Head(bwd[c]).uuid
             n == m_pending_reads[c[1]][u]
  <2>1. bwd[c] # <<>> /\ Head(bwd[c]).type = "ReadComplete" /\ u \in Uuid
    BY <1>4, ResponseType DEF HandleReadComplete, Arrived
  <2>2. CASE n = Null
    BY <1>0, <1>4, <2>2, StopType DEF HandleReadComplete
  <2>3. CASE n # Null
    <3>1. n \in 0..Width - 1
      BY <1>0, <2>1, <2>3 DEF TypeOK
    <3>3. /\ replies' = Answer(u, LastAnswer(n))
          /\ m_pending_reads' = [m_pending_reads EXCEPT ![c[1]][u] = Dec(n)]
          /\ bwd' = Popped(bwd, c)
          /\ UNCHANGED <<up, logs, m_pending_writes, link, fwd, reqs, fresh, bounds>>
      BY <1>4, <2>3 DEF HandleReadComplete
    <3>4. Dec(n) \in 0..Width - 1
      BY <3>1, DecIs, WidthAssumption
    <3> HIDE DEF u, n
    <3>5. replies' \in [Uuid -> Nat]
      BY <2>1, <3>3, AnswerType DEF LastAnswer
    <3>7. bwd' \in [Conn -> Seq(Response)]
      BY <1>0, <2>1, <3>3, PoppedType
    <3>8. m_pending_reads' \in [Server -> [Uuid -> (0..Width - 1) \cup {Null}]]
      BY <1>0, <2>1, <3>3, <3>4 DEF TypeOK
    <3> QED BY <3>3, <3>5, <3>7, <3>8 DEF TypeOK, bounds, logs
  <2> QED BY <2>2, <2>3
<1>5. CASE HandleReadRepairResponse(c)
  <2> DEFINE msg == Head(bwd[c])
             mine == m_store[c[1]][msg.key]
  <2>1. bwd[c] # <<>> /\ msg.key \in Key /\ ElementOf(msg) \in Element
    BY <1>5, ResponseType DEF HandleReadRepairResponse, Arrived
  <2>2. bwd' \in [Conn -> Seq(Response)]
    BY <1>0, <1>5, <2>1, PoppedType DEF HandleReadRepairResponse
  <2>3. mine # Null => mine \in Element
    BY <1>0, <2>1 DEF TypeOK, StoreType
  <2>4. m_log' \in [Server -> Seq(DoWrite)]
    <3>1. m_log' = m_log \/ m_log' = PostWrite(c[1], msg.key, ElementOf(msg))
      BY <1>5 DEF HandleReadRepairResponse
    <3>2. m_log \in [Server -> Seq(DoWrite)]
      BY DEF TypeOK
    <3>3. PostWrite(c[1], msg.key, ElementOf(msg)) \in [Server -> Seq(DoWrite)]
      BY <1>0, <2>1, PostWriteType
    <3> QED BY <3>1, <3>2, <3>3
  <2>5. fwd' \in [Conn -> Seq(Request)]
    <3>1. \/ fwd' = fwd
          \/ fwd' = SendAll(fwd, c[1], DoWriteOf(RR, msg.key, ElementOf(msg)))
          \/ mine # Null /\ fwd' = SendOn(fwd, c, DoWriteOf(RR, msg.key, mine))
      BY <1>5 DEF HandleReadRepairResponse
    <3>2. DoWriteOf(RR, msg.key, ElementOf(msg)) \in Request
      BY <2>1, DoWriteOfType
    <3>3. mine # Null => DoWriteOf(RR, msg.key, mine) \in Request
      BY <2>1, <2>3, DoWriteOfType
    <3>4. SendAll(fwd, c[1], DoWriteOf(RR, msg.key, ElementOf(msg))) \in [Conn -> Seq(Request)]
      BY <1>0, <3>2, SendAllType
    <3>5. mine # Null =>
            SendOn(fwd, c, DoWriteOf(RR, msg.key, mine)) \in [Conn -> Seq(Request)]
      BY <1>0, <3>3, SendOnType
    <3> QED BY <1>0, <3>1, <3>4, <3>5
  <2> QED BY <1>5, <2>2, <2>4, <2>5 DEF HandleReadRepairResponse, TypeOK, pendings, bounds
<1> QED BY <1>1, <1>2, <1>3, <1>4, <1>5 DEF Deliver

LEMMA TypeStep == TypeOK /\ PendingKnown /\ [Next]_vars => TypeOK'
<1> SUFFICES ASSUME TypeOK, PendingKnown, [Next]_vars PROVE TypeOK'
  OBVIOUS
<1>1. ASSUME NEW s \in Putters, NEW k \in Key, NEW t \in Stamp \ {0}, NEW n \in Consistency,
             HandlePut(s, k, t, n)
      PROVE  TypeOK'
  BY <1>1, PutType, ServerAssumption
<1>2. ASSUME NEW s \in Getters, NEW k \in Key, NEW n \in Consistency, HandleGet(s, k, n)
      PROVE  TypeOK'
  BY <1>2, GetType, ServerAssumption
<1>3. ASSUME NEW s \in Server, RunLog(s) \/ RunHintLog(s)
      PROVE  TypeOK'
  BY <1>3, RunType
<1>4. ASSUME NEW s \in Server, Crash(s)
      PROVE  TypeOK'
  BY <1>4, StopType DEF Crash
<1>5. ASSUME NEW s \in Server, Restart(s)
      PROVE  TypeOK'
  BY <1>5 DEF Restart, TypeOK, logs, pendings, net, bounds
<1>6. ASSUME NEW c \in Conn, Deliver(c) \/ Cut(c) \/ Connect(c)
      PROVE  TypeOK'
  BY <1>6, DeliverType, LinkType
<1>7. CASE UNCHANGED vars
  BY <1>7 DEF vars, TypeOK, logs, pendings, net, bounds
<1> QED BY <1>1, <1>2, <1>3, <1>4, <1>5, <1>6, <1>7 DEF Next

-----------------------------------------------------------------------------
(* The messages about requests                                             *)

\* The history only grows.
ReqsKept == DOMAIN reqs \subseteq DOMAIN reqs' /\ \A u \in DOMAIN reqs : reqs'[u] = reqs[u]

\* No message about a client's request is sent.
NetTrims ==
  \A c \in Conn : Trimmed(fwd[c], fwd'[c], Request) /\ Trimmed(bwd[c], bwd'[c], Response)

\* Nobody owes an answer that was not owed before, and nobody but those of T
\* begins to acknowledge u.
OwesNoMore == \A u \in DOMAIN reqs : \A t \in Server \ {reqs[u].at} : Owes(u, t)' => Owes(u, t)

AcksNoMore(T, v) ==
  \A u \in DOMAIN reqs : Acking(u)' \subseteq Acking(u) \cup (IF u = v THEN T ELSE {})

LEMMA IdleFits ==
  ASSUME NEW c \in Conn, NEW rs
  PROVE  /\ \A m \in Request : Idle(m) => RequestFits(m, c, rs)
         /\ \A m \in Response : Idle(m) => ResponseFits(m, c, rs)
<1>1. ASSUME NEW m \in Request, Idle(m) PROVE RequestFits(m, c, rs)
  <2>1. m.type \in {"DoWrite", "DoRead", "WriteComplete"} => m.uuid \in Uuid \cup {RR}
    BY DEF Request, DoWriteMsg, KeyMsg, ReadMsg, AckMsg
  <2>2. m.type \in {"DoRead", "WriteComplete"} => m.uuid \in Uuid
    BY DEF Request, DoWriteMsg, KeyMsg, ReadMsg, AckMsg
  <2> QED BY <1>1, <2>1, <2>2 DEF Idle, Asks, Acks, RequestFits
<1>2. ASSUME NEW m \in Response, Idle(m) PROVE ResponseFits(m, c, rs)
  <2>1. m.type = "ReadComplete" => m.uuid \in Uuid
    BY DEF Response
  <2> QED BY <1>2, <2>1 DEF Idle, Acks, ResponseFits
<1> QED BY <1>1, <1>2

LEMMA StillFits ==
  ASSUME ReqsKept, NEW c \in Conn, NEW m
  PROVE  /\ RequestFits(m, c, reqs) => RequestFits(m, c, reqs')
         /\ ResponseFits(m, c, reqs) => ResponseFits(m, c, reqs')
BY DEF ReqsKept, RequestFits, ResponseFits, Belongs

LEMMA TrimAddressed ==
  ASSUME TypeOK, Addressed, ReqsKept, NetTrims
  PROVE  Addressed'
<1>1. ASSUME NEW c \in Conn, NEW i \in DOMAIN fwd'[c] PROVE RequestFits(fwd'[c][i], c, reqs')
  <2>1. fwd[c] \in Seq(Request) /\ Trimmed(fwd[c], fwd'[c], Request)
    BY DEF TypeOK, NetTrims
  <2>2. /\ fwd'[c] \in Seq(Request)
        /\ Idle(fwd'[c][i]) \/ \E j \in DOMAIN fwd[c] : fwd'[c][i] = fwd[c][j]
    BY <2>1, TrimmedFrom
  <2>3. fwd'[c][i] \in Request
    BY <2>2
  <2>4. CASE Idle(fwd'[c][i])
    BY <2>3, <2>4, IdleFits
  <2>5. CASE \E j \in DOMAIN fwd[c] : fwd'[c][i] = fwd[c][j]
    BY <2>5, StillFits DEF Addressed
  <2> QED BY <2>2, <2>4, <2>5
<1>2. ASSUME NEW c \in Conn, NEW i \in DOMAIN bwd'[c] PROVE ResponseFits(bwd'[c][i], c, reqs')
  <2>1. bwd[c] \in Seq(Response) /\ Trimmed(bwd[c], bwd'[c], Response)
    BY DEF TypeOK, NetTrims
  <2>2. /\ bwd'[c] \in Seq(Response)
        /\ Idle(bwd'[c][i]) \/ \E j \in DOMAIN bwd[c] : bwd'[c][i] = bwd[c][j]
    BY <2>1, TrimmedFrom
  <2>3. bwd'[c][i] \in Response
    BY <2>2
  <2>4. CASE Idle(bwd'[c][i])
    BY <2>3, <2>4, IdleFits
  <2>5. CASE \E j \in DOMAIN bwd[c] : bwd'[c][i] = bwd[c][j]
    BY <2>5, StillFits DEF Addressed
  <2> QED BY <2>2, <2>4, <2>5
<1> QED BY <1>1, <1>2 DEF Addressed

\* Fewer messages about u on all queues.
FewerOf(u) == \A c \in Conn : Fewer(fwd[c], fwd'[c], u) /\ Fewer(bwd[c], bwd'[c], u)

LEMMA TrimFewer ==
  ASSUME TypeOK, NetTrims, NEW u \in Uuid
  PROVE  FewerOf(u)
<1> SUFFICES ASSUME NEW c \in Conn
             PROVE  Fewer(fwd[c], fwd'[c], u) /\ Fewer(bwd[c], bwd'[c], u)
  BY DEF FewerOf
<1>1. /\ fwd[c] \in Seq(Request) /\ Trimmed(fwd[c], fwd'[c], Request)
      /\ bwd[c] \in Seq(Response) /\ Trimmed(bwd[c], bwd'[c], Response)
  BY DEF TypeOK, NetTrims
<1> QED BY <1>1, TrimmedFewer

LEMMA FewerOnce ==
  ASSUME NEW u \in Uuid, FewerOf(u), NEW c \in Conn, OnceOn(c, u)
  PROVE  OnceOn(c, u)'
<1>1. Back(c) \in Conn /\ Fewer(fwd[Back(c)], fwd'[Back(c)], u)
  BY ConnType DEF FewerOf
<1>2. Fewer(fwd[c], fwd'[c], u) /\ Fewer(bwd[c], bwd'[c], u)
  BY DEF FewerOf
<1> QED BY <1>1, <1>2 DEF OnceOn, Fewer

LEMMA FewerOwed ==
  ASSUME TypeOK, ReqsKept, NEW u \in DOMAIN reqs, FewerOf(u)
  PROVE  /\ \A t \in Server \ {reqs[u].at} : Owes(u, t)' => Owes(u, t)
         /\ Acking(u)' \subseteq Acking(u)
<1>0. reqs'[u] = reqs[u] /\ reqs[u].at \in Server
  BY ReqType DEF ReqsKept
<1>1. ASSUME NEW t \in Server \ {reqs[u].at}
      PROVE  /\ Owes(u, t)' => Owes(u, t)
             /\ AckedIn(fwd'[<<t, reqs[u].at>>], u) => AckedIn(fwd[<<t, reqs[u].at>>], u)
  <2> DEFINE c == <<reqs[u].at, t>>
  <2>1. c \in Conn /\ Back(c) \in Conn /\ Back(c) = <<t, reqs[u].at>>
    BY <1>0 DEF Conn, Back
  <2>2. /\ Fewer(fwd[c], fwd'[c], u) /\ Fewer(bwd[c], bwd'[c], u)
        /\ Fewer(fwd[Back(c)], fwd'[Back(c)], u)
    BY <2>1 DEF FewerOf
  <2> HIDE DEF c
  <2> QED BY <1>0, <2>1, <2>2 DEF Owes, Fewer, c
<1> QED BY <1>0, <1>1 DEF Acking

\* What a step that sends nothing about requests keeps.
LEMMA TrimKeeps ==
  ASSUME Inv, ReqsKept, NetTrims
  PROVE  Addressed' /\ Once' /\ OwesNoMore /\ (\A v : AcksNoMore({}, v))
<1>0. TypeOK /\ Addressed /\ Once /\ DOMAIN reqs \subseteq Uuid
  BY DEF Inv, Recorded
<1>1. Addressed'
  BY <1>0, TrimAddressed
<1>2. \A u \in Uuid : FewerOf(u)
  BY <1>0, TrimFewer
<1>3. Once'
  BY <1>0, <1>2, FewerOnce DEF Once
<1>4. \A u \in DOMAIN reqs : /\ \A t \in Server \ {reqs[u].at} : Owes(u, t)' => Owes(u, t)
                             /\ Acking(u)' \subseteq Acking(u)
  BY <1>0, <1>2, FewerOwed
<1> QED BY <1>1, <1>3, <1>4 DEF OwesNoMore, AcksNoMore

\* Nothing is said of a request that was not made.
LEMMA NotMentioned ==
  ASSUME TypeOK, Addressed, NEW u \in Uuid, u \notin DOMAIN reqs, NEW c \in Conn
  PROVE  ~AskedIn(fwd[c], u) /\ ~AckedIn(fwd[c], u) /\ ~AckedIn(bwd[c], u)
<1>1. u # RR
  BY DEF Uuid, RR
<1>2. fwd[c] \in Seq(Request) /\ bwd[c] \in Seq(Response)
  BY DEF TypeOK
<1>3. ASSUME NEW i \in DOMAIN fwd[c] PROVE ~Asks(fwd[c][i], u) /\ ~Acks(fwd[c][i], u)
  <2>1. fwd[c][i] \in Request /\ RequestFits(fwd[c][i], c, reqs)
    BY <1>2 DEF Addressed
  <2>2. fwd[c][i].type # "ReadComplete"
    BY <2>1 DEF Request, DoWriteMsg, KeyMsg, ReadMsg, AckMsg
  <2> QED BY <1>1, <2>1, <2>2 DEF RequestFits, Belongs, Asks, Acks
<1>4. ASSUME NEW i \in DOMAIN bwd[c] PROVE ~Acks(bwd[c][i], u)
  <2>1. bwd[c][i] \in Response /\ ResponseFits(bwd[c][i], c, reqs)
    BY <1>2 DEF Addressed
  <2>2. bwd[c][i].type # "WriteComplete"
    BY <2>1 DEF Response
  <2> QED BY <2>1, <2>2 DEF ResponseFits, Belongs, Acks
<1> QED BY <1>3, <1>4 DEF AskedIn, AckedIn

\* A queue that the question m joins, with or without an idle message behind it.
Joined(q, r, m) ==
  \/ r = Append(q, m)
  \/ \E z \in Request : Idle(z) /\ r = Append(Append(q, m), z)

LEMMA JoinedQueue ==
  ASSUME NEW q \in Seq(Request), NEW m \in Request, NEW r, Joined(q, r, m), NEW u \in Uuid
  PROVE  /\ AskedIn(r, u) <=> AskedIn(q, u) \/ Asks(m, u)
         /\ AckedIn(r, u) <=> AckedIn(q, u) \/ Acks(m, u)
         /\ AskedOnce(q, u) /\ ~(AskedIn(q, u) /\ Asks(m, u)) => AskedOnce(r, u)
         /\ AckedOnce(q, u) /\ ~(AckedIn(q, u) /\ Acks(m, u)) => AckedOnce(r, u)
         /\ \A i \in DOMAIN r : \/ r[i] = m
                                \/ r[i] \in Request /\ Idle(r[i])
                                \/ \E j \in DOMAIN q : r[i] = q[j]
<1> DEFINE p == Append(q, m)
<1>1. p \in Seq(Request) /\ \A i \in DOMAIN p : p[i] = m \/ \E j \in DOMAIN q : p[i] = q[j]
  BY QueueAppend
<1>2. CASE r = p
  BY <1>1, <1>2, AppendOne
<1>3. CASE \E z \in Request : Idle(z) /\ r = Append(p, z)
  <2>1. PICK z \in Request : Idle(z) /\ r = Append(p, z)
    BY <1>3
  <2>2. ~Asks(z, u) /\ ~Acks(z, u)
    BY <2>1 DEF Idle
  <2>3. /\ AskedIn(p, u) <=> AskedIn(q, u) \/ Asks(m, u)
        /\ AckedIn(p, u) <=> AckedIn(q, u) \/ Acks(m, u)
        /\ AskedOnce(q, u) /\ ~(AskedIn(q, u) /\ Asks(m, u)) => AskedOnce(p, u)
        /\ AckedOnce(q, u) /\ ~(AckedIn(q, u) /\ Acks(m, u)) => AckedOnce(p, u)
    BY AppendOne
  <2> HIDE DEF p
  <2>4. /\ AskedIn(r, u) <=> AskedIn(p, u)
        /\ AckedIn(r, u) <=> AckedIn(p, u)
        /\ AskedOnce(p, u) => AskedOnce(r, u)
        /\ AckedOnce(p, u) => AckedOnce(r, u)
    BY <1>1, <2>1, <2>2, AppendOne
  <2>5. \A i \in DOMAIN r : r[i] = z \/ \E j \in DOMAIN p : r[i] = p[j]
    BY <1>1, <2>1, QueueAppend
  <2>6. \A i \in DOMAIN r : \/ r[i] = m
                            \/ r[i] \in Request /\ Idle(r[i])
                            \/ \E j \in DOMAIN q : r[i] = q[j]
    BY <1>1, <2>1, <2>5
  <2> QED BY <2>3, <2>4, <2>6
<1> QED BY <1>2, <1>3 DEF Joined

\* A new request u: its question m goes out on some connections.
LEMMA AskKeeps ==
  ASSUME Inv, ReqsKept, NEW u \in Uuid, u \notin DOMAIN reqs, bwd' = bwd,
         NEW m \in Request, m.type \in {"DoWrite", "DoRead"}, m.uuid = u,
         \A c \in Conn : \/ fwd'[c] = fwd[c]
                         \/ RequestFits(m, c, reqs') /\ Joined(fwd[c], fwd'[c], m)
  PROVE  /\ Addressed' /\ Once' /\ OwesNoMore /\ (\A v : AcksNoMore({}, v))
         /\ \A c \in Conn : ~AckedIn(fwd'[c], u)
<1>0. TypeOK /\ Addressed /\ Once /\ DOMAIN reqs \subseteq Uuid
  BY DEF Inv, Recorded
<1>1. \A c \in Conn : fwd[c] \in Seq(Request)
  BY <1>0 DEF TypeOK
<1>2. Asks(m, u) /\ \A v \in Uuid : ~Acks(m, v) /\ (Asks(m, v) => v = u)
  BY DEF Asks, Acks
<1>3. Addressed'
  <2>1. ASSUME NEW c \in Conn, NEW i \in DOMAIN fwd'[c]
        PROVE  RequestFits(fwd'[c][i], c, reqs')
    <3>1. CASE fwd'[c] = fwd[c]
      BY <1>0, <3>1, StillFits DEF Addressed
    <3>2. CASE RequestFits(m, c, reqs') /\ Joined(fwd[c], fwd'[c], m)
      <4>1. \/ fwd'[c][i] = m
            \/ fwd'[c][i] \in Request /\ Idle(fwd'[c][i])
            \/ \E j \in DOMAIN fwd[c] : fwd'[c][i] = fwd[c][j]
        BY <1>1, <3>2, JoinedQueue
      <4>2. CASE fwd'[c][i] = m
        BY <3>2, <4>2
      <4>3. CASE fwd'[c][i] \in Request /\ Idle(fwd'[c][i])
        BY <4>3, IdleFits
      <4>4. CASE \E j \in DOMAIN fwd[c] : fwd'[c][i] = fwd[c][j]
        BY <1>0, <4>4, StillFits DEF Addressed
      <4> QED BY <4>1, <4>2, <4>3, <4>4
    <3> QED BY <3>1, <3>2
  <2>2. ASSUME NEW c \in Conn, NEW i \in DOMAIN bwd'[c]
        PROVE  ResponseFits(bwd'[c][i], c, reqs')
    BY <1>0, StillFits DEF Addressed
  <2> QED BY <2>1, <2>2 DEF Addressed
<1>4. ASSUME NEW v \in Uuid, v # u PROVE FewerOf(v)
  <2> SUFFICES ASSUME NEW c \in Conn PROVE Fewer(fwd[c], fwd'[c], v)
    BY DEF FewerOf, Fewer
  <2> QED BY <1>1, <1>2, <1>4, JoinedQueue DEF Fewer
<1>5. ASSUME NEW c \in Conn
      PROVE  ~AckedIn(fwd'[c], u) /\ ~AckedIn(bwd'[c], u)
               /\ AskedOnce(fwd'[c], u) /\ AckedOnce(fwd'[c], u) /\ AckedOnce(bwd'[c], u)
  <2>1. ~AskedIn(fwd[c], u) /\ ~AckedIn(fwd[c], u) /\ ~AckedIn(bwd[c], u)
    BY <1>0, NotMentioned
  <2>2. AskedOnce(fwd[c], u) /\ AckedOnce(fwd[c], u) /\ AckedOnce(bwd[c], u)
    BY <1>0 DEF Once, OnceOn
  <2> QED BY <1>1, <1>2, <2>1, <2>2, JoinedQueue
<1>6. Once'
  <2> SUFFICES ASSUME NEW c \in Conn, NEW v \in Uuid PROVE OnceOn(c, v)'
    BY DEF Once
  <2>1. CASE v = u
    BY <1>5, <2>1, ConnType DEF OnceOn
  <2>2. CASE v # u
    BY <1>0, <1>4, <2>2, FewerOnce DEF Once
  <2> QED BY <2>1, <2>2
<1>7. \A v \in DOMAIN reqs : /\ \A t \in Server \ {reqs[v].at} : Owes(v, t)' => Owes(v, t)
                             /\ Acking(v)' \subseteq Acking(v)
  BY <1>0, <1>4, FewerOwed
<1> QED BY <1>3, <1>5, <1>6, <1>7 DEF OwesNoMore, AcksNoMore

\* The peer acknowledges a write on its own connection to the coordinator.
LEMMA WriteAnswered ==
  ASSUME Inv, reqs' = reqs, bwd' = bwd, NEW c \in Conn, fwd[c] # <<>>,
         NEW u \in DOMAIN reqs, Asks(Head(fwd[c]), u), reqs[u].at = c[1],
         NEW a \in Request, a.type = "WriteComplete", a.uuid = u, RequestFits(a, Back(c), reqs),
         \A d \in Conn : fwd'[d] = IF d = c THEN Tail(fwd[c])
                                   ELSE IF d = Back(c) THEN Append(fwd[d], a) ELSE fwd[d]
  PROVE  Addressed' /\ Once' /\ OwesNoMore /\ AcksNoMore({c[2]}, u)
<1>0. TypeOK /\ Addressed /\ Once /\ DOMAIN reqs \subseteq Uuid /\ ReqsKept
  BY DEF Inv, Recorded, ReqsKept
<1>1. \A d \in Conn : fwd[d] \in Seq(Request)
  BY <1>0 DEF TypeOK
<1>2. Acks(a, u) /\ \A v \in Uuid : ~Asks(a, v) /\ (Acks(a, v) => v = u)
  BY DEF Asks, Acks
<1> DEFINE b == Back(c)
<1>3. /\ b \in Conn /\ b # c /\ Back(b) = c /\ u \in Uuid
      /\ fwd'[c] = Tail(fwd[c]) /\ fwd'[b] = Append(fwd[b], a)
      /\ \A d \in Conn \ {b, c} : fwd'[d] = fwd[d] /\ Back(d) \in Conn \ {b, c}
  <2>1. b \in Conn /\ b # c /\ Back(b) = c /\ u \in Uuid
    BY <1>0, ConnType
  <2>2. ASSUME NEW d \in Conn \ {b, c} PROVE Back(d) \in Conn \ {b, c}
    <3>1. Back(d) \in Conn /\ Back(Back(d)) = d
      BY ConnType
    <3> QED BY <2>1, <2>2, <3>1
  <2> QED BY <2>1, <2>2
<1> HIDE DEF b
<1>4. /\ AskedIn(fwd[c], u) /\ ~AckedIn(fwd[b], u) /\ ~AckedIn(bwd[c], u)
      /\ ~AskedIn(fwd'[c], u)
      /\ \A v \in Uuid : Fewer(fwd[c], fwd'[c], v)
  <2>1. /\ AskedOnce(fwd[c], u) /\ Asks(Head(fwd[c]), u) => ~AskedIn(Tail(fwd[c]), u)
        /\ Asks(Head(fwd[c]), u) => AskedIn(fwd[c], u)
        /\ \A v \in Uuid : Fewer(fwd[c], Tail(fwd[c]), v)
    BY <1>1, TailFewer
  <2>2. OnceOn(c, u)
    BY <1>0, <1>3 DEF Once
  <2> QED BY <1>3, <2>1, <2>2 DEF OnceOn, b
<1>5. \A v \in Uuid :
        /\ AskedIn(fwd'[b], v) <=> AskedIn(fwd[b], v)
        /\ AckedIn(fwd'[b], v) <=> AckedIn(fwd[b], v) \/ v = u
        /\ AskedOnce(fwd[b], v) => AskedOnce(fwd'[b], v)
        /\ AckedOnce(fwd[b], v) => AckedOnce(fwd'[b], v)
  BY <1>1, <1>2, <1>3, <1>4, AppendOne
<1>6. Addressed'
  <2>1. ASSUME NEW d \in Conn, NEW i \in DOMAIN fwd'[d]
        PROVE  RequestFits(fwd'[d][i], d, reqs)
    <3>1. CASE d = c
      <4>1. fwd[c] \in Seq(Request) /\ fwd[c] # <<>> /\ i \in DOMAIN fwd'[c]
              /\ fwd'[c] = Tail(fwd[c])
        BY <1>1, <1>3, <3>1
      <4>2. \E j \in DOMAIN fwd[c] : fwd'[c][i] = fwd[c][j]
        BY ONLY <4>1, TailFrom
      <4> QED BY <1>0, <3>1, <4>2 DEF Addressed
    <3>2. CASE d = b
      <4>1. fwd'[b][i] = a \/ \E j \in DOMAIN fwd[b] : fwd'[b][i] = fwd[b][j]
        BY <1>1, <1>3, <3>2, QueueAppend
      <4>2. RequestFits(a, b, reqs)
        BY DEF b
      <4> QED BY <1>0, <1>3, <3>2, <4>1, <4>2 DEF Addressed
    <3>3. CASE d \notin {b, c}
      BY <1>0, <1>3, <3>3 DEF Addressed
    <3> QED BY <3>1, <3>2, <3>3
  <2> QED BY <1>0, <2>1 DEF Addressed
<1>7. ASSUME NEW v \in Uuid, v # u PROVE FewerOf(v)
  <2> SUFFICES ASSUME NEW d \in Conn PROVE Fewer(fwd[d], fwd'[d], v)
    BY DEF FewerOf, Fewer
  <2> QED BY <1>3, <1>4, <1>5, <1>7 DEF Fewer
<1>8. Once'
  <2> SUFFICES ASSUME NEW d \in Conn, NEW v \in Uuid PROVE OnceOn(d, v)'
    BY DEF Once
  <2>0. OnceOn(d, v)
    BY <1>0 DEF Once
  <2>1. CASE v # u
    BY <1>7, <2>0, <2>1, FewerOnce
  <2>2. CASE v = u /\ d = c
    BY <1>3, <1>4, <2>0, <2>2 DEF OnceOn, Fewer
  <2>3. CASE v = u /\ d = b
    BY <1>3, <1>4, <1>5, <2>0, <2>3 DEF OnceOn, Fewer
  <2>4. CASE d \notin {b, c}
    BY <1>3, <2>0, <2>4 DEF OnceOn
  <2> QED BY <2>1, <2>2, <2>3, <2>4
<1>9. ASSUME NEW v \in DOMAIN reqs
      PROVE  /\ \A t \in Server \ {reqs[v].at} : Owes(v, t)' => Owes(v, t)
             /\ Acking(v)' \subseteq Acking(v) \cup (IF v = u THEN {c[2]} ELSE {})
  <2>1. CASE v # u
    BY <1>0, <1>7, <2>1, FewerOwed
  <2>2. CASE v = u
    <3>1. ASSUME NEW t \in Server \ {reqs[v].at}
          PROVE  /\ Owes(v, t)' => Owes(v, t)
                 /\ t # c[2] => (AckedIn(fwd'[<<t, reqs[v].at>>], v)
                                   => AckedIn(fwd[<<t, reqs[v].at>>], v))
      <4> DEFINE d == <<reqs[v].at, t>>
      <4>1. d \in Conn /\ Back(d) = <<t, reqs[v].at>> /\ reqs' = reqs
        BY <1>0, ReqType DEF Conn, Back
      <4>2. CASE t = c[2]
        <5>1. d = c
          BY <2>2, <4>2, ConnType
        <5> QED BY <1>4, <2>2, <4>2, <5>1 DEF Owes
      <4>3. CASE t # c[2]
        <5>1. d \notin {b, c}
          BY <2>2, <4>3, ConnType DEF b, Back
        <5>2. fwd'[d] = fwd[d] /\ fwd'[Back(d)] = fwd[Back(d)]
          BY <1>3, <4>1, <5>1
        <5> HIDE DEF d
        <5> QED BY <4>1, <5>2 DEF Owes, d
      <4> QED BY <4>2, <4>3
    <3> QED BY <2>2, <3>1 DEF Acking
  <2> QED BY <2>1, <2>2
<1> QED BY <1>6, <1>8, <1>9 DEF OwesNoMore, AcksNoMore

\* The peer answers a read on the connection that the question came on.
LEMMA ReadAnswered ==
  ASSUME Inv, reqs' = reqs, NEW c \in Conn, fwd[c] # <<>>,
         NEW u \in DOMAIN reqs, Asks(Head(fwd[c]), u), reqs[u].at = c[1],
         NEW a \in Response, a.type = "ReadComplete", a.uuid = u, ResponseFits(a, c, reqs),
         \A d \in Conn : /\ fwd'[d] = IF d = c THEN Tail(fwd[c]) ELSE fwd[d]
                         /\ bwd'[d] = IF d = c THEN Append(bwd[c], a) ELSE bwd[d]
  PROVE  Addressed' /\ Once' /\ OwesNoMore /\ (\A v : AcksNoMore({}, v))
<1>0. TypeOK /\ Addressed /\ Once /\ DOMAIN reqs \subseteq Uuid /\ ReqsKept
  BY DEF Inv, Recorded, ReqsKept
<1>1. \A d \in Conn : fwd[d] \in Seq(Request) /\ bwd[d] \in Seq(Response)
  BY <1>0 DEF TypeOK
<1>2. Acks(a, u) /\ \A v \in Uuid : ~Asks(a, v) /\ (Acks(a, v) => v = u)
  BY DEF Asks, Acks
<1>3. u \in Uuid /\ fwd'[c] = Tail(fwd[c]) /\ bwd'[c] = Append(bwd[c], a)
  BY <1>0
<1>4. /\ AskedIn(fwd[c], u) /\ ~AckedIn(fwd[Back(c)], u) /\ ~AckedIn(bwd[c], u)
      /\ ~AskedIn(fwd'[c], u)
      /\ \A v \in Uuid, d \in Conn : Fewer(fwd[d], fwd'[d], v)
  <2>1. /\ AskedOnce(fwd[c], u) /\ Asks(Head(fwd[c]), u) => ~AskedIn(Tail(fwd[c]), u)
        /\ Asks(Head(fwd[c]), u) => AskedIn(fwd[c], u)
        /\ \A v \in Uuid : Fewer(fwd[c], Tail(fwd[c]), v)
    BY <1>1, TailFewer
  <2>2. OnceOn(c, u)
    BY <1>0, <1>3 DEF Once
  <2>3. \A v \in Uuid, d \in Conn \ {c} : Fewer(fwd[d], fwd'[d], v)
    BY DEF Fewer
  <2> QED BY <1>3, <2>1, <2>2, <2>3 DEF OnceOn
<1>5. \A v \in Uuid :
        /\ AskedIn(bwd'[c], v) <=> AskedIn(bwd[c], v)
        /\ AckedIn(bwd'[c], v) <=> AckedIn(bwd[c], v) \/ v = u
        /\ AskedOnce(bwd[c], v) => AskedOnce(bwd'[c], v)
        /\ AckedOnce(bwd[c], v) => AckedOnce(bwd'[c], v)
  BY <1>1, <1>2, <1>3, <1>4, AppendOne
<1>6. Addressed'
  <2>1. ASSUME NEW d \in Conn, NEW i \in DOMAIN fwd'[d]
        PROVE  RequestFits(fwd'[d][i], d, reqs)
    <3>1. CASE d = c
      <4>1. fwd[c] \in Seq(Request) /\ fwd[c] # <<>> /\ i \in DOMAIN fwd'[c]
              /\ fwd'[c] = Tail(fwd[c])
        BY <1>1, <1>3, <3>1
      <4>2. \E j \in DOMAIN fwd[c] : fwd'[c][i] = fwd[c][j]
        BY ONLY <4>1, TailFrom
      <4> QED BY <1>0, <3>1, <4>2 DEF Addressed
    <3>2. CASE d # c
      BY <1>0, <3>2 DEF Addressed
    <3> QED BY <3>1, <3>2
  <2>2. ASSUME NEW d \in Conn, NEW i \in DOMAIN bwd'[d]
        PROVE  ResponseFits(bwd'[d][i], d, reqs)
    <3>1. CASE d = c
      <4>1. bwd'[c][i] = a \/ \E j \in DOMAIN bwd[c] : bwd'[c][i] = bwd[c][j]
        BY <1>1, <1>3, <3>1, QueueAppend
      <4> QED BY <1>0, <3>1, <4>1 DEF Addressed
    <3>2. CASE d # c
      BY <1>0, <3>2 DEF Addressed
    <3> QED BY <3>1, <3>2
  <2> QED BY <2>1, <2>2 DEF Addressed
<1>7. ASSUME NEW v \in Uuid, v # u PROVE FewerOf(v)
  <2> SUFFICES ASSUME NEW d \in Conn PROVE Fewer(bwd[d], bwd'[d], v)
    BY <1>4 DEF FewerOf
  <2> QED BY <1>5, <1>7 DEF Fewer
<1>8. Once'
  <2> SUFFICES ASSUME NEW d \in Conn, NEW v \in Uuid PROVE OnceOn(d, v)'
    BY DEF Once
  <2>0. OnceOn(d, v) /\ Back(d) \in Conn
    BY <1>0, ConnType DEF Once
  <2>1. CASE v # u
    BY <1>7, <2>0, <2>1, FewerOnce
  <2>2. CASE v = u /\ d = c
    BY <1>3, <1>4, <1>5, <2>0, <2>2 DEF OnceOn, Fewer
  <2>3. CASE v = u /\ d # c
    BY <1>3, <1>4, <2>0, <2>3 DEF OnceOn, Fewer
  <2> QED BY <2>1, <2>2, <2>3
<1>9. ASSUME NEW v \in DOMAIN reqs
      PROVE  /\ \A t \in Server \ {reqs[v].at} : Owes(v, t)' => Owes(v, t)
             /\ Acking(v)' \subseteq Acking(v)
  <2>1. CASE v # u
    BY <1>0, <1>7, <2>1, FewerOwed
  <2>2. CASE v = u
    <3>1. ASSUME NEW t \in Server \ {reqs[v].at}
          PROVE  /\ Owes(v, t)' => Owes(v, t)
                 /\ AckedIn(fwd'[<<t, reqs[v].at>>], v) => AckedIn(fwd[<<t, reqs[v].at>>], v)
      <4> DEFINE d == <<reqs[v].at, t>>
      <4>1. d \in Conn /\ Back(d) \in Conn /\ Back(d) = <<t, reqs[v].at>>
        BY <1>0, ReqType DEF Conn, Back
      <4>2. Fewer(fwd[d], fwd'[d], v) /\ Fewer(fwd[Back(d)], fwd'[Back(d)], v)
        BY <1>3, <1>4, <2>2, <4>1
      <4>3. d # c => bwd'[d] = bwd[d]
        BY <4>1
      <4> HIDE DEF d
      <4> QED BY <1>4, <2>2, <4>1, <4>2, <4>3 DEF Owes, Fewer, d
    <3> QED BY <2>2, <3>1 DEF Acking
  <2> QED BY <2>1, <2>2
<1> QED BY <1>6, <1>8, <1>9 DEF OwesNoMore, AcksNoMore

-----------------------------------------------------------------------------
(* The copies of a write                                                   *)

\* What a write at w leaves: everybody still holds what they held, and w holds
\* the element or something as recent.
LEMMA PostWriteHolds ==
  ASSUME TypeOK, NEW w \in Server, NEW k \in Key, NEW e \in Element,
         m_log' = PostWrite(w, k, e), m_store' = m_store
  PROVE  /\ \A s \in Server, j \in Key, ts \in Nat : Holds(s, j, ts) => Holds(s, j, ts)'
         /\ Holds(w, k, e.timestamp)'
<1> DEFINE r == [key |-> k, val |-> e.data, timestamp |-> e.timestamp]
<1>1. r \in DoWrite /\ r.key = k /\ r.timestamp = e.timestamp /\ e.timestamp \in Nat
  BY ElementType DEF DoWrite
<1>2. m_log \in [Server -> Seq(DoWrite)]
  BY DEF TypeOK
<1>3. CASE Stale(m_store[w][k], e.timestamp)
  <2>1. m_log' = m_log
    BY <1>3 DEF PostWrite
  <2> QED BY <1>3, <2>1 DEF Stale, Holds
<1>4. CASE ~Stale(m_store[w][k], e.timestamp)
  <2>1. m_log' = [m_log EXCEPT ![w] = Append(m_log[w], r)]
    BY <1>4 DEF PostWrite
  <2> HIDE DEF r
  <2>2. /\ DOMAIN m_log'[w] = DOMAIN m_log[w] \cup {Len(m_log[w]) + 1}
        /\ \A i \in DOMAIN m_log[w] : m_log'[w][i] = m_log[w][i]
        /\ m_log'[w][Len(m_log[w]) + 1] = r
    <3>1. m_log[w] \in Seq(DoWrite) /\ m_log'[w] = Append(m_log[w], r)
      BY <1>2, <2>1
    <3> QED BY <1>1, <3>1, QueueAppend
  <2>3. \A s \in Server \ {w} : m_log'[s] = m_log[s]
    BY <1>2, <2>1
  <2>4. Holds(w, k, e.timestamp)'
    BY <1>1, <2>2 DEF Holds
  <2>5. ASSUME NEW s \in Server, NEW j \in Key, NEW ts \in Nat, Holds(s, j, ts)
        PROVE  Holds(s, j, ts)'
    <3>1. CASE s = w
      BY <2>2, <2>5, <3>1 DEF Holds
    <3>2. CASE s # w
      BY <2>3, <2>5, <3>2 DEF Holds
    <3> QED BY <3>1, <3>2
  <2> QED BY <2>4, <2>5
<1> QED BY <1>3, <1>4

\* The posted append installs its element or finds a more recent one.
LEMMA RunLogHolds ==
  ASSUME TypeOK, NEW w \in Server, RunLog(w)
  PROVE  \A s \in Server, j \in Key, ts \in Nat : Holds(s, j, ts) => Holds(s, j, ts)'
<1> DEFINE r == Head(m_log[w])
           q == m_log[w]
<1>1. q \in Seq(DoWrite) /\ q # <<>>
  BY DEF RunLog, TypeOK
<1>2. /\ r \in DoWrite /\ r = q[1]
      /\ \A i \in DOMAIN q : i # 1 => i - 1 \in DOMAIN Tail(q) /\ Tail(q)[i - 1] = q[i]
  BY <1>1, QueueTail
<1>3. /\ r.key \in Key /\ r.timestamp \in Nat /\ ElementOf(r) \in Element
      /\ ElementOf(r).timestamp = r.timestamp
  BY <1>2, StampAssumption DEF DoWrite, ElementOf, Element
<1>4. /\ m_log'[w] = Tail(q) /\ m_store'[w] = Install(m_store[w], r)
      /\ \A s \in Server \ {w} : m_log'[s] = m_log[s] /\ m_store'[s] = m_store[s]
  BY DEF RunLog, TypeOK
<1>5. m_store[w] \in [Key -> Element \cup {Null}]
  BY DEF TypeOK, StoreType
<1>6. ASSUME NEW i \in DOMAIN q PROVE q[i] \in DoWrite /\ q[i].timestamp \in Nat
  <2>1. q[i] \in DoWrite
    BY <1>1
  <2> QED BY <2>1, StampAssumption DEF DoWrite
<1> HIDE DEF r, q
<1>7. ASSUME NEW j \in Key, NEW ts \in Nat, m_store[w][j] # Null, ts <= m_store[w][j].timestamp
      PROVE  m_store'[w][j] # Null /\ ts <= m_store'[w][j].timestamp
  <2>1. m_store[w][j] \in Element /\ m_store[w][j].timestamp \in Nat
    BY <1>5, <1>7, ElementType
  <2>2. ElementOf(r) # Null
    BY <1>3, ElementType
  <2> QED BY <1>3, <1>4, <1>5, <1>7, <2>1, <2>2 DEF Install, Stale
<1>8. m_store'[w][r.key] # Null /\ r.timestamp <= m_store'[w][r.key].timestamp
  <2>1. ElementOf(r) # Null
    BY <1>3, ElementType
  <2> QED BY <1>3, <1>4, <1>5, <2>1 DEF Install, Stale
<1>9. ASSUME NEW s \in Server, NEW j \in Key, NEW ts \in Nat, Holds(s, j, ts)
      PROVE  Holds(s, j, ts)'
  <2>1. CASE s # w
    BY <1>4, <1>9, <2>1 DEF Holds
  <2>2. CASE s = w /\ m_store[w][j] # Null /\ ts <= m_store[w][j].timestamp
    BY <1>7, <2>2 DEF Holds
  <2>3. CASE s = w /\ \E i \in DOMAIN q : q[i].key = j /\ ts <= q[i].timestamp
    <3>1. PICK i \in DOMAIN q : q[i].key = j /\ ts <= q[i].timestamp
      BY <2>3
    <3>2. CASE i = 1
      <4>1. r.key = j /\ ts <= r.timestamp
        BY <1>2, <3>1, <3>2
      <4>2. m_store'[w][j] \in Element
        <5>1. ElementOf(r) \in Element \cup {Null} /\ m_store'[w][j] # Null
          BY <1>3, <1>8, <4>1
        <5> QED BY <1>3, <1>4, <1>5, <5>1 DEF Install
      <4>3. ts <= m_store'[w][j].timestamp
        BY <1>3, <1>8, <4>1, <4>2, ElementType
      <4> QED BY <1>8, <2>3, <4>1, <4>3 DEF Holds
    <3>3. CASE i # 1
      <4>1. i - 1 \in DOMAIN m_log'[w] /\ m_log'[w][i - 1] = q[i]
        BY <1>2, <1>4, <3>3
      <4> QED BY <2>3, <3>1, <4>1 DEF Holds
    <3> QED BY <3>2, <3>3
  <2> QED BY <1>9, <2>1, <2>2, <2>3 DEF Holds, q
<1> QED BY <1>9

\* Each crash may cost one copy, and nothing else does.
CopiesKept(u) ==
  \E X \in SUBSET Server :
    Cardinality(X) <= crashes' - crashes /\ Holders(u) \subseteq Holders(u)' \cup X

LEMMA SameHoldersKept ==
  ASSUME TypeOK, NEW u \in DOMAIN reqs, reqs'[u] = reqs[u], crashes' = crashes,
         \A s \in Server, j \in Key, ts \in Nat : Holds(s, j, ts) => Holds(s, j, ts)'
  PROVE  CopiesKept(u)
<1>1. reqs[u].key \in Key /\ reqs[u].timestamp \in Nat /\ crashes \in Nat
  BY ReqType DEF TypeOK
<1>2. Holders(u) \subseteq Holders(u)' \cup {}
  BY <1>1 DEF Holders
<1>3. Cardinality({}) <= crashes' - crashes
  BY <1>1, FS_EmptySet
<1> QED BY <1>2, <1>3 DEF CopiesKept

LEMMA StopCopiesKept ==
  ASSUME TypeOK, NEW s \in Server, Stop(s), NEW u \in DOMAIN reqs
  PROVE  CopiesKept(u)
<1>1. /\ m_store' = m_store /\ reqs' = reqs /\ crashes' = crashes + 1 /\ crashes \in Nat
      /\ \A x \in Server \ {s} : m_log'[x] = m_log[x]
  BY DEF Stop, TypeOK
<1>2. Holders(u) \subseteq Holders(u)' \cup {s}
  BY <1>1 DEF Holders, Holds
<1>3. Cardinality({s}) <= crashes' - crashes
  <2>1. Cardinality({s}) = 1
    BY FS_Singleton
  <2> QED BY <1>1, <2>1
<1> QED BY <1>2, <1>3 DEF CopiesKept

LEMMA SurvivesStep ==
  ASSUME TypeOK, TypeOK', NEW u \in DOMAIN reqs, reqs'[u] = reqs[u], CopiesKept(u),
         NEW W \in SUBSET Server, NEW V \in SUBSET Server,
         Survives(W, u), V \subseteq W \cup Holders(u)'
  PROVE  Cardinality(V \ Holders(u)') <= crashes' - reqs[u].crashes
<1>1. PICK X \in SUBSET Server :
             Cardinality(X) <= crashes' - crashes /\ Holders(u) \subseteq Holders(u)' \cup X
  BY DEF CopiesKept
<1>2. crashes \in Nat /\ crashes' \in Nat /\ reqs[u].crashes \in Nat
  BY ReqType DEF TypeOK
<1> DEFINE A == W \ Holders(u)
           B == V \ Holders(u)'
<1>3. B \subseteq A \cup X
  BY <1>1
<1>4. IsFiniteSet(A) /\ IsFiniteSet(X) /\ IsFiniteSet(A \cup X)
  <2>1. A \subseteq Server /\ X \subseteq Server /\ A \cup X \subseteq Server
    OBVIOUS
  <2> QED BY <2>1, ServersType, FS_Subset
<1> HIDE DEF A, B
<1>5. Cardinality(B) <= Cardinality(A \cup X) /\ Cardinality(B) \in Nat
  BY <1>3, <1>4, FS_Subset, FS_CardinalityType
<1>6. Cardinality(A \cup X) <= Cardinality(A) + Cardinality(X)
        /\ Cardinality(A \cup X) \in Nat /\ Cardinality(A) \in Nat /\ Cardinality(X) \in Nat
  <2>1. Cardinality(A \cup X) = Cardinality(A) + Cardinality(X) - Cardinality(A \cap X)
    BY <1>4, FS_Union
  <2>2. Cardinality(A \cap X) \in Nat
    BY <1>4, FS_Subset, FS_CardinalityType
  <2> QED BY <1>4, <2>1, <2>2, FS_CardinalityType
<1>7. Cardinality(A) <= crashes - reqs[u].crashes
  BY DEF Survives, A
<1>8. Cardinality(B) <= crashes' - reqs[u].crashes
  BY <1>1, <1>2, <1>5, <1>6, <1>7
<1> QED BY <1>8 DEF B

-----------------------------------------------------------------------------
(* The count of the answers                                                *)

\* A set of counted peers is at most all servers but one.
LEMMA PeersCount ==
  ASSUME NEW s \in Server, NEW D \in SUBSET (Server \ {s})
  PROVE  /\ Cardinality(D) \in 0..N - 1
         /\ Cardinality({s} \cup D) = Cardinality(D) + 1
         /\ \A t \in (Server \ {s}) \ D : Cardinality(D \cup {t}) = Cardinality(D) + 1
<1>1. IsFiniteSet(Server) /\ N = Cardinality(Server) /\ D \subseteq Server /\ N \in Nat
  BY ServersType DEF N
<1>2. IsFiniteSet(D) /\ Cardinality(D) \in Nat
  BY <1>1, FS_Subset, FS_CardinalityType
<1>3. Cardinality({s} \cup D) = Cardinality(D) + 1
  <2>1. s \notin D /\ {s} \cup D = D \cup {s}
    OBVIOUS
  <2> QED BY <1>2, <2>1, FS_AddElement
<1>4. Cardinality({s} \cup D) <= N
  <2>1. {s} \cup D \subseteq Server
    OBVIOUS
  <2> QED BY <1>1, <2>1, FS_Subset
<1>5. \A t \in (Server \ {s}) \ D : Cardinality(D \cup {t}) = Cardinality(D) + 1
  BY <1>2, FS_AddElement
<1> QED BY <1>1, <1>2, <1>3, <1>4, <1>5

LEMMA SurvivesFewer ==
  ASSUME TypeOK, NEW u \in DOMAIN reqs, NEW W \in SUBSET Server, NEW V \in SUBSET W,
         Survives(W, u)
  PROVE  Survives(V, u)
<1> DEFINE A == W \ Holders(u)
           B == V \ Holders(u)
<1>1. B \subseteq A /\ A \subseteq Server
  OBVIOUS
<1>2. IsFiniteSet(A) /\ IsFiniteSet(B)
  BY <1>1, ServersType, FS_Subset
<1>3. crashes \in Nat /\ reqs[u].crashes \in Nat
  BY ReqType DEF TypeOK
<1>4. Cardinality(A) <= crashes - reqs[u].crashes
  BY DEF Survives
<1> HIDE DEF A, B
<1>5. Cardinality(B) <= Cardinality(A) /\ Cardinality(A) \in Nat /\ Cardinality(B) \in Nat
  BY <1>1, <1>2, FS_Subset, FS_CardinalityType
<1>6. Cardinality(B) <= crashes - reqs[u].crashes
  BY <1>3, <1>4, <1>5
<1> QED BY <1>6 DEF Survives, B

\* What is known of a request that is waited for is enough when nobody waits
\* for it any more.
LEMMA CountedOver ==
  ASSUME TypeOK, NEW u \in DOMAIN reqs, Counted(u)
  PROVE  Over(u)
<1>1. CASE Pending(u) = Null
  BY <1>1 DEF Counted
<1>2. CASE Pending(u) # Null
  <2> DEFINE s == reqs[u].at
             n == reqs[u].consistency
  <2>1. PICK D \in SUBSET Server : Waits(u, D)
    BY <1>2 DEF Counted
  <2>2. s \in Server /\ n \in Nat /\ D \in SUBSET (Server \ {s}) /\ N \in Nat
    BY <2>1, ReqType, WidthAssumption, ServersType DEF Waits
  <2>3. /\ Cardinality(D) \in 0..N - 1
        /\ Cardinality({s} \cup D) = Cardinality(D) + 1
    BY <2>2, PeersCount
  <2>4. replies[u] = IF n \in 1..Cardinality(D) + 1 THEN 1 ELSE 0
    BY <2>1 DEF Waits
  <2>5. replies[u] <= IF n \in 1..N THEN 1 ELSE 0
    <3> HIDE DEF n
    <3> QED BY <2>2, <2>3, <2>4
  <2>6. ASSUME reqs[u].kind = "put", replies[u] > 0
        PROVE  \E W \in SUBSET Server : Cardinality(W) >= n /\ Survives(W, u)
    <3>1. Survives({s} \cup D \cup Acking(u), u)
      BY <2>1, <2>6 DEF Waits
    <3>2. {s} \cup D \cup Acking(u) \in SUBSET Server
      BY <2>2 DEF Acking
    <3>3. {s} \cup D \in SUBSET ({s} \cup D \cup Acking(u))
      OBVIOUS
    <3> HIDE DEF s, n
    <3>4. Survives({s} \cup D, u)
      BY <3>1, <3>2, <3>3, SurvivesFewer
    <3>5. Cardinality({s} \cup D) >= n
      BY <2>2, <2>3, <2>4, <2>6
    <3> QED BY <2>2, <3>4, <3>5
  <2> QED BY <2>5, <2>6 DEF Over
<1> QED BY <1>1, <1>2

LEMMA OverKept ==
  ASSUME TypeOK, TypeOK', NEW u \in DOMAIN reqs, reqs'[u] = reqs[u], Over(u),
         replies'[u] = replies[u], reqs[u].kind = "put" => CopiesKept(u)
  PROVE  Over(u)'
<1>1. replies'[u] <= IF reqs'[u].consistency \in 1..N THEN 1 ELSE 0
  BY DEF Over
<1>2. ASSUME reqs[u].kind = "put", replies[u] > 0
      PROVE  \E W \in SUBSET Server :
               /\ Cardinality(W) >= reqs[u].consistency
               /\ Cardinality(W \ Holders(u)') <= crashes' - reqs[u].crashes
  <2>1. PICK W \in SUBSET Server : Cardinality(W) >= reqs[u].consistency /\ Survives(W, u)
    BY <1>2 DEF Over
  <2>2. W \subseteq W \cup Holders(u)'
    OBVIOUS
  <2>3. Cardinality(W \ Holders(u)') <= crashes' - reqs[u].crashes
    BY <1>2, <2>1, <2>2, SurvivesStep
  <2> QED BY <2>1, <2>3
<1> QED BY <1>1, <1>2 DEF Over, Survives

\* A step that leaves the counter and the answers of u alone.
LEMMA CountedKept ==
  ASSUME TypeOK, TypeOK', NEW u \in DOMAIN reqs, reqs'[u] = reqs[u], Counted(u),
         replies'[u] = replies[u], Pending(u)' = Pending(u),
         \A t \in Server \ {reqs[u].at} : Owes(u, t)' => Owes(u, t),
         reqs[u].kind = "put" =>
           CopiesKept(u) /\ Acking(u)' \subseteq Acking(u) \cup Holders(u)'
  PROVE  Counted(u)'
<1>1. CASE Pending(u) = Null
  BY <1>1, CountedOver, OverKept DEF Counted
<1>2. CASE Pending(u) # Null
  <2>1. PICK D \in SUBSET Server : Waits(u, D)
    BY <1>2 DEF Counted
  <2>2. reqs[u].at \in Server
    BY ReqType
  <2>3. reqs[u].kind = "put" =>
          Cardinality(({reqs[u].at} \cup D \cup Acking(u)') \ Holders(u)')
            <= crashes' - reqs[u].crashes
    <3> DEFINE W == {reqs[u].at} \cup D \cup Acking(u)
               V == {reqs[u].at} \cup D \cup Acking(u)'
    <3> HAVE reqs[u].kind = "put"
    <3>1. W \in SUBSET Server /\ V \in SUBSET Server /\ Survives(W, u)
      BY <2>1, <2>2 DEF Waits, Acking
    <3>2. V \subseteq W \cup Holders(u)'
      OBVIOUS
    <3>3. CopiesKept(u)
      OBVIOUS
    <3> HIDE DEF W, V
    <3>4. Cardinality(V \ Holders(u)') <= crashes' - reqs[u].crashes
      BY <3>1, <3>2, <3>3, SurvivesStep
    <3> QED BY <3>4 DEF V
  <2>4. Waits(u, D)'
    <3>1. D \subseteq Server \ {reqs'[u].at} /\ \A t \in D : ~Owes(u, t)'
      BY <2>1 DEF Waits
    <3>2. Pending(u)' = CountedDown(reqs'[u].consistency, Cardinality(D))
      BY <2>1 DEF Waits
    <3>3. replies'[u] = IF reqs'[u].consistency \in 1..Cardinality(D) + 1 THEN 1 ELSE 0
      BY <2>1 DEF Waits
    <3> QED BY <2>3, <3>1, <3>2, <3>3 DEF Waits, Survives
  <2> QED BY <1>2, <2>4 DEF Counted
<1> QED BY <1>1, <1>2

\* The answer of t arrives and is counted.
LEMMA CountAnswer ==
  ASSUME TypeOK, TypeOK', NEW u \in DOMAIN reqs, reqs'[u] = reqs[u], Counted(u),
         Pending(u) # Null, Pending(u)' = Dec(Pending(u)), Pending(u)' # Null,
         replies'[u] = replies[u] + IF LastAnswer(Pending(u)) THEN 1 ELSE 0,
         NEW t \in Server \ {reqs[u].at}, Owes(u, t), ~Owes(u, t)',
         \A x \in Server \ {reqs[u].at} : Owes(u, x)' => Owes(u, x),
         reqs[u].kind = "put" =>
           CopiesKept(u) /\ t \in Acking(u) /\ Acking(u)' \subseteq Acking(u)
  PROVE  Counted(u)'
<1> DEFINE s == reqs[u].at
           n == reqs[u].consistency
<1>1. PICK D \in SUBSET Server : Waits(u, D)
  BY DEF Counted
<1>2. /\ s \in Server /\ n \in 0..Width - 1 /\ D \in SUBSET (Server \ {s})
      /\ N \in Nat /\ t \notin D /\ Width \in Nat
  BY <1>1, ReqType, WidthAssumption, ServersType DEF Waits
<1> DEFINE k == Cardinality(D)
<1>3. k \in 0..N - 1 /\ Cardinality(D \cup {t}) = k + 1
  BY <1>2, PeersCount
<1> HIDE DEF k, n
<1>4. Dec(CountedDown(n, k)) = CountedDown(n, k + 1) /\ (CountedDown(n, k) = 1 <=> k + 2 = n)
  BY <1>2, <1>3, CountDown
<1>5. Pending(u) = CountedDown(n, k) /\ replies[u] = IF n \in 1..k + 1 THEN 1 ELSE 0
  BY <1>1 DEF Waits, k, n
<1>6. Pending(u)' = CountedDown(n, k + 1)
  BY <1>4, <1>5
<1>7. replies'[u] = IF n \in 1..k + 2 THEN 1 ELSE 0
  BY <1>2, <1>3, <1>4, <1>5 DEF LastAnswer
<1>8. reqs[u].kind = "put" =>
        Cardinality(({s} \cup (D \cup {t}) \cup Acking(u)') \ Holders(u)')
          <= crashes' - reqs[u].crashes
  <2> DEFINE W == {s} \cup D \cup Acking(u)
             V == {s} \cup (D \cup {t}) \cup Acking(u)'
  <2> HAVE reqs[u].kind = "put"
  <2>1. W \in SUBSET Server /\ V \in SUBSET Server /\ Survives(W, u)
    BY <1>1, <1>2 DEF Waits, Acking
  <2>2. V \subseteq W \cup Holders(u)' /\ CopiesKept(u)
    OBVIOUS
  <2> HIDE DEF W, V
  <2>3. Cardinality(V \ Holders(u)') <= crashes' - reqs[u].crashes
    BY <2>1, <2>2, SurvivesStep
  <2> QED BY <2>3 DEF V
<1>9. Waits(u, D \cup {t})'
  <2>1. D \cup {t} \subseteq Server \ {reqs'[u].at} /\ \A x \in D \cup {t} : ~Owes(u, x)'
    BY <1>1, <1>2 DEF Waits
  <2>2. Pending(u)' = CountedDown(reqs'[u].consistency, Cardinality(D \cup {t}))
    BY <1>3, <1>6 DEF n
  <2>3. replies'[u] = IF reqs'[u].consistency \in 1..Cardinality(D \cup {t}) + 1 THEN 1 ELSE 0
    BY <1>3, <1>7 DEF n
  <2> QED BY <1>8, <2>1, <2>2, <2>3 DEF Waits, Survives
<1> QED BY <1>2, <1>9 DEF Counted

-----------------------------------------------------------------------------
(* The steps                                                               *)

\* Who held a copy holds it still, or something more recent.
HoldsKept == \A s \in Server, j \in Key, ts \in Nat : Holds(s, j, ts) => Holds(s, j, ts)'

\* What every step keeps: the history; no answer is owed that was not owed
\* before; copies and counters are lost by a crash alone, and no counter comes
\* back.
Kept ==
  /\ ReqsKept /\ OwesNoMore
  /\ crashes' = crashes => HoldsKept
  /\ crashes' # crashes => crashes' = crashes + 1
  /\ \A u \in DOMAIN reqs : Pending(u)' # Null => Pending(u) # Null
  /\ crashes' = crashes => \A u \in DOMAIN reqs : Pending(u)' = Null => Pending(u) = Null

\* A step that counts nothing: whoever begins to acknowledge a put holds it.
LEMMA UncountedStep ==
  ASSUME Inv, TypeOK', reqs' = reqs, replies' = replies, crashes' = crashes,
         m_pending_writes' = m_pending_writes, m_pending_reads' = m_pending_reads,
         Addressed', Once', OwesNoMore,
         \A s \in Server, j \in Key, ts \in Nat : Holds(s, j, ts) => Holds(s, j, ts)',
         \A u \in DOMAIN reqs : Acking(u)' \subseteq Acking(u) \cup Holders(u)'
  PROVE  Inv' /\ Kept
<1>0. TypeOK /\ PendingKnown /\ AllCounted /\ Recorded
  BY DEF Inv
<1>1. PendingKnown'
  BY <1>0 DEF PendingKnown
<1>2. Recorded'
  BY <1>0 DEF Recorded
<1>3. ASSUME NEW u \in DOMAIN reqs PROVE Counted(u)'
  <2>1. Counted(u) /\ reqs'[u] = reqs[u] /\ replies'[u] = replies[u]
    BY <1>0 DEF AllCounted
  <2>2. Pending(u)' = Pending(u)
    BY DEF Pending
  <2>3. CopiesKept(u)
    BY <1>0, <2>1, SameHoldersKept
  <2>4. \A t \in Server \ {reqs[u].at} : Owes(u, t)' => Owes(u, t)
    BY DEF OwesNoMore
  <2> QED BY <1>0, <2>1, <2>2, <2>3, <2>4, CountedKept
<1>4. AllCounted'
  BY <1>0, <1>3 DEF AllCounted
<1>5. Kept
  BY DEF Kept, ReqsKept, HoldsKept, Pending
<1> QED BY <1>1, <1>2, <1>4, <1>5 DEF Inv

\* A step, moreover, that sends nothing about requests.
LEMMA IdleStep ==
  ASSUME Inv, TypeOK', reqs' = reqs, replies' = replies, crashes' = crashes,
         m_pending_writes' = m_pending_writes, m_pending_reads' = m_pending_reads,
         NetTrims,
         \A s \in Server, j \in Key, ts \in Nat : Holds(s, j, ts) => Holds(s, j, ts)'
  PROVE  Inv' /\ Kept
<1>1. ReqsKept
  BY DEF ReqsKept
<1>2. Addressed' /\ Once' /\ OwesNoMore /\ \A v : AcksNoMore({}, v)
  BY <1>1, TrimKeeps
<1>3. \A u \in DOMAIN reqs : Acking(u)' \subseteq Acking(u) \cup Holders(u)'
  BY <1>2 DEF AcksNoMore
<1> QED BY <1>2, <1>3, UncountedStep

LEMMA SameNet ==
  ASSUME fwd' = fwd, bwd' = bwd
  PROVE  NetTrims
BY DEF NetTrims, Trimmed

LEMMA SameCopies ==
  ASSUME m_store' = m_store, m_log' = m_log
  PROVE  \A s \in Server, j \in Key, ts \in Nat : Holds(s, j, ts) => Holds(s, j, ts)'
BY DEF Holds

LEMMA LocalSteps ==
  ASSUME Inv, TypeOK', NEW s \in Server, RunLog(s) \/ RunHintLog(s) \/ Restart(s)
  PROVE  Inv' /\ Kept
<1>0. TypeOK
  BY DEF Inv
<1>1. /\ reqs' = reqs /\ replies' = replies /\ crashes' = crashes
      /\ m_pending_writes' = m_pending_writes /\ m_pending_reads' = m_pending_reads
      /\ fwd' = fwd /\ bwd' = bwd
  BY DEF RunLog, RunHintLog, Restart, pendings, net, bounds
<1>2. NetTrims
  BY <1>1, SameNet
<1>3. \A x \in Server, j \in Key, ts \in Nat : Holds(x, j, ts) => Holds(x, j, ts)'
  <2>1. CASE RunLog(s)
    BY <1>0, <2>1, RunLogHolds
  <2>2. CASE RunHintLog(s) \/ Restart(s)
    <3>1. m_store' = m_store /\ m_log' = m_log
      BY <2>2 DEF RunHintLog, Restart, logs
    <3> QED BY <3>1, SameCopies
  <2> QED BY <2>1, <2>2
<1> QED BY <1>1, <1>2, <1>3, IdleStep

LEMMA LinkSteps ==
  ASSUME Inv, TypeOK', NEW c \in Conn, Cut(c) \/ Connect(c)
  PROVE  Inv' /\ Kept
<1>0. TypeOK /\ fwd \in [Conn -> Seq(Request)] /\ bwd \in [Conn -> Seq(Response)]
  BY DEF Inv, TypeOK
<1>1. /\ reqs' = reqs /\ replies' = replies /\ crashes' = crashes
      /\ m_pending_writes' = m_pending_writes /\ m_pending_reads' = m_pending_reads
      /\ m_store' = m_store /\ m_log' = m_log
  BY DEF Cut, Connect, logs, pendings, bounds
<1>2. NetTrims
  <2>1. CASE Cut(c)
    BY <1>0, <2>1 DEF Cut, NetTrims, Trimmed
  <2>2. CASE Connect(c)
    <3>1. PICK msgs \in Handoff(c[1], c[2]) : fwd' = [fwd EXCEPT ![c] = msgs]
      BY <2>2 DEF Connect
    <3>2. msgs \in Seq(Request) /\ \A i \in DOMAIN msgs : Idle(msgs[i])
      BY <1>0, HandoffType
    <3>3. bwd' = bwd
      BY <2>2 DEF Connect
    <3> QED BY <1>0, <3>1, <3>2, <3>3 DEF NetTrims, Trimmed
  <2> QED BY <2>1, <2>2
<1>3. \A x \in Server, j \in Key, ts \in Nat : Holds(x, j, ts) => Holds(x, j, ts)'
  BY <1>1, SameCopies
<1> QED BY <1>1, <1>2, <1>3, IdleStep

\* A process ends: its counters are gone, and so are the copies it had not
\* flushed.
LEMMA StopStep ==
  ASSUME Inv, TypeOK', NEW s \in Server, Stop(s)
  PROVE  Inv' /\ Kept
<1>0. TypeOK /\ PendingKnown /\ AllCounted /\ Recorded
  BY DEF Inv
<1>1. reqs' = reqs /\ replies' = replies /\ crashes' = crashes + 1 /\ ReqsKept
  BY DEF Stop, ReqsKept
<1>2. NetTrims
  BY DEF Stop, NetTrims, Trimmed
<1>3. Addressed' /\ Once' /\ OwesNoMore /\ \A v : AcksNoMore({}, v)
  BY <1>1, <1>2, TrimKeeps
<1>4. \A x \in Server, u \in Uuid :
        /\ m_pending_writes'[x][u] = IF x = s THEN Null ELSE m_pending_writes[x][u]
        /\ m_pending_reads'[x][u] = IF x = s THEN Null ELSE m_pending_reads[x][u]
  BY <1>0 DEF Stop, TypeOK
<1>5. PendingKnown'
  BY <1>0, <1>1, <1>4 DEF PendingKnown
<1>6. Recorded'
  <2>1. crashes \in Nat /\ \A u \in DOMAIN reqs : reqs[u].crashes \in Nat
    BY <1>0, ReqType DEF TypeOK
  <2> QED BY <1>0, <1>1, <2>1 DEF Recorded
<1>7. ASSUME NEW u \in DOMAIN reqs PROVE Counted(u)'
  <2>1. Counted(u) /\ reqs'[u] = reqs[u] /\ replies'[u] = replies[u] /\ u \in Uuid
    BY <1>0, <1>1 DEF AllCounted, Recorded
  <2>2. CopiesKept(u) /\ reqs[u].at \in Server
    BY <1>0, StopCopiesKept, ReqType
  <2>3. CASE reqs[u].at = s
    <3>1. Pending(u)' = Null
      BY <1>4, <2>1, <2>2, <2>3 DEF Pending
    <3>2. Over(u)'
      BY <1>0, <2>1, <2>2, CountedOver, OverKept
    <3> QED BY <3>1, <3>2 DEF Counted
  <2>4. CASE reqs[u].at # s
    <3>1. Pending(u)' = Pending(u)
      BY <1>4, <2>1, <2>2, <2>4 DEF Pending
    <3>2. /\ \A t \in Server \ {reqs[u].at} : Owes(u, t)' => Owes(u, t)
          /\ Acking(u)' \subseteq Acking(u)
      BY <1>3 DEF OwesNoMore, AcksNoMore
    <3>3. Acking(u)' \subseteq Acking(u) \cup Holders(u)'
      BY <3>2
    <3> QED BY <1>0, <2>1, <2>2, <3>1, <3>2, <3>3, CountedKept
  <2> QED BY <2>3, <2>4
<1>8. AllCounted'
  BY <1>0, <1>1, <1>7 DEF AllCounted
<1>9. Kept
  <2>1. crashes' # crashes
    BY <1>0, <1>1 DEF TypeOK
  <2>2. ASSUME NEW u \in DOMAIN reqs, Pending(u)' # Null PROVE Pending(u) # Null
    <3>1. u \in Uuid /\ reqs[u].at \in Server
      BY <1>0, ReqType DEF Recorded
    <3> QED BY <1>1, <1>4, <2>2, <3>1 DEF Pending
  <2> QED BY <1>1, <1>3, <2>1, <2>2 DEF Kept
<1> QED BY <1>3, <1>5, <1>6, <1>8, <1>9 DEF Inv

LEMMA NoRequest ==
  /\ RR \notin Uuid
  /\ \A m : m.type = "DoWrite" /\ m.uuid = RR => Idle(m)
  /\ \A m : m.type \in {"ReadRepair", "ReadRepairResponse"} => Idle(m)
<1>1. RR \notin Uuid
  BY DEF RR, Uuid
<1> QED BY <1>1 DEF Idle, Asks, Acks

\* A DoWrite at c[2]: posted, and acknowledged at once when c[1] can be reached.
LEMMA DoWriteStep ==
  ASSUME Inv, TypeOK', NEW c \in Conn, HandleDoWrite(c)
  PROVE  Inv' /\ Kept
<1> DEFINE msg == Head(fwd[c])
           ack == [type |-> "WriteComplete", uuid |-> msg.uuid]
<1>0. /\ TypeOK /\ Addressed /\ DOMAIN reqs \subseteq Uuid
      /\ fwd \in [Conn -> Seq(Request)] /\ c[2] \in Server
  BY ConnType DEF Inv, TypeOK, Recorded
<1>1. fwd[c] # <<>> /\ msg.type = "DoWrite"
  BY DEF HandleDoWrite, Arrived
<1>2. /\ msg.uuid \in Uuid \cup {RR} /\ msg.key \in Key /\ ElementOf(msg) \in Element
      /\ ElementOf(msg).timestamp = msg.timestamp
  BY <1>0, <1>1, RequestType
<1>3. /\ reqs' = reqs /\ replies' = replies /\ crashes' = crashes /\ bwd' = bwd
      /\ m_pending_writes' = m_pending_writes /\ m_pending_reads' = m_pending_reads
      /\ m_store' = m_store /\ m_log' = PostWrite(c[2], msg.key, ElementOf(msg))
      /\ fwd' = IF msg.uuid = RR THEN Popped(fwd, c)
                ELSE SendOn(Popped(fwd, c), Back(c), ack)
  BY DEF HandleDoWrite, pendings, bounds, Back
<1>a. PICK k \in Key, e \in Element : k = msg.key /\ e = ElementOf(msg)
  BY <1>2
<1>4. /\ \A x \in Server, j \in Key, ts \in Nat : Holds(x, j, ts) => Holds(x, j, ts)'
      /\ Holds(c[2], k, e.timestamp)'
  <2>1. m_log' = PostWrite(c[2], k, e)
    BY <1>3, <1>a
  <2> QED BY <1>0, <1>3, <2>1, PostWriteHolds
<1>5. /\ Popped(fwd, c) \in [Conn -> Seq(Request)]
      /\ \A d \in Conn : Popped(fwd, c)[d] = IF d = c THEN Tail(fwd[c]) ELSE fwd[d]
  BY <1>0, <1>1, PoppedType
<1>6. CASE msg.uuid = RR \/ Back(c) \notin link
  <2>1. fwd' = Popped(fwd, c)
    BY <1>3, <1>6 DEF SendOn
  <2>2. NetTrims
    BY <1>1, <1>3, <1>5, <2>1 DEF NetTrims, Trimmed
  <2> QED BY <1>3, <1>4, <2>2, IdleStep
<1>7. CASE msg.uuid # RR /\ Back(c) \in link
  <2>1. PICK u \in DOMAIN reqs : /\ u = msg.uuid /\ reqs[u].at = c[1] /\ reqs[u].kind = "put"
                                /\ k = reqs[u].key /\ e.timestamp = reqs[u].timestamp
    <3>1. RequestFits(msg, c, reqs)
      BY <1>0, <1>1, QueueTail DEF Addressed
    <3> QED BY <1>1, <1>2, <1>7, <1>a, <3>1 DEF RequestFits, Belongs
  <2>2. Asks(msg, u)
    BY <1>1, <2>1 DEF Asks
  <2>3. ack \in Request /\ ack.type = "WriteComplete" /\ ack.uuid = u
    BY <1>2, <1>7, <2>1 DEF Request, AckMsg
  <2>4. Back(c) \in Conn /\ Back(c) # c /\ Back(c)[2] = c[1] /\ Back(c)[1] = c[2]
    BY ConnType DEF Back
  <2>5. RequestFits(ack, Back(c), reqs)
    BY <2>1, <2>3, <2>4 DEF RequestFits, Belongs
  <2> HIDE DEF ack
  <2>6. \A d \in Conn : fwd'[d] = IF d = c THEN Tail(fwd[c])
                                  ELSE IF d = Back(c) THEN Append(fwd[d], ack) ELSE fwd[d]
    <3>1. fwd' = SendOn(Popped(fwd, c), Back(c), ack)
      BY <1>3, <1>7
    <3> DEFINE q == Popped(fwd, c)
               b == Back(c)
    <3> HIDE DEF q, b
    <3>a. q \in [Conn -> Seq(Request)] /\ b \in Conn /\ b \in link
      BY <1>5, <1>7, <2>4 DEF q, b
    <3>b. \A d \in Conn : SendOn(q, b, ack)[d] =
                             IF d = b /\ b \in link THEN Append(q[b], ack) ELSE q[d]
      BY <2>3, <3>a, SendOnType
    <3>2. \A d \in Conn : fwd'[d] = IF d = Back(c) THEN Append(Popped(fwd, c)[d], ack)
                                    ELSE Popped(fwd, c)[d]
      BY <3>1, <3>a, <3>b DEF q, b
    <3> QED BY <1>5, <2>4, <3>2
  <2>7. Addressed' /\ Once' /\ OwesNoMore /\ AcksNoMore({c[2]}, u)
    BY <1>1, <1>3, <2>1, <2>2, <2>3, <2>5, <2>6, WriteAnswered
  <2>8. \A v \in DOMAIN reqs : Acking(v)' \subseteq Acking(v) \cup Holders(v)'
    <3>1. c[2] \in Holders(u)'
      BY <1>0, <1>3, <1>4, <2>1 DEF Holders
    <3> QED BY <2>7, <3>1 DEF AcksNoMore
  <2> QED BY <1>3, <1>4, <2>7, <2>8, UncountedStep
<1> QED BY <1>6, <1>7

\* A read is answered on the connection it came on.
LEMMA DoReadStep ==
  ASSUME Inv, TypeOK', NEW c \in Conn, HandleDoRead(c)
  PROVE  Inv' /\ Kept
<1> DEFINE msg == Head(fwd[c])
           u == msg.uuid
           ack == [type |-> "ReadComplete", uuid |-> u]
<1>0. /\ TypeOK /\ Addressed /\ DOMAIN reqs \subseteq Uuid
      /\ fwd \in [Conn -> Seq(Request)] /\ bwd \in [Conn -> Seq(Response)]
  BY DEF Inv, TypeOK, Recorded
<1>1. fwd[c] # <<>> /\ msg.type = "DoRead"
  BY DEF HandleDoRead, Arrived
<1>2. u \in Uuid
  BY <1>0, <1>1, RequestType
<1>3. /\ reqs' = reqs /\ replies' = replies /\ crashes' = crashes
      /\ m_pending_writes' = m_pending_writes /\ m_pending_reads' = m_pending_reads
      /\ m_store' = m_store /\ m_log' = m_log
      /\ fwd' = Popped(fwd, c) /\ bwd' = SendOn(bwd, c, ack)
  BY DEF HandleDoRead, pendings, bounds, logs
<1>4. \A x \in Server, j \in Key, ts \in Nat : Holds(x, j, ts) => Holds(x, j, ts)'
  BY <1>3, SameCopies
<1>5. \A d \in Conn : fwd'[d] = IF d = c THEN Tail(fwd[c]) ELSE fwd[d]
  BY <1>0, <1>1, <1>3, PoppedType
<1>6. CASE c \notin link
  <2>1. bwd' = bwd
    BY <1>3, <1>6 DEF SendOn
  <2>2. NetTrims
    BY <1>1, <1>5, <2>1 DEF NetTrims, Trimmed
  <2> QED BY <1>3, <1>4, <2>2, IdleStep
<1>7. CASE c \in link
  <2>1. u \in DOMAIN reqs /\ reqs[u].at = c[1] /\ reqs[u].kind = "get"
    <3>1. RequestFits(msg, c, reqs)
      BY <1>0, <1>1, QueueTail DEF Addressed
    <3> QED BY <1>1, <3>1 DEF RequestFits, Belongs
  <2>2. Asks(msg, u)
    BY <1>1 DEF Asks
  <2>3. ack \in Response /\ ack.type = "ReadComplete" /\ ack.uuid = u
    BY <1>2 DEF Response
  <2>5. ResponseFits(ack, c, reqs)
    BY <2>1, <2>3 DEF ResponseFits, Belongs
  <2> HIDE DEF ack, u
  <2>6. \A d \in Conn : bwd'[d] = IF d = c THEN Append(bwd[c], ack) ELSE bwd[d]
    <3>1. \A d \in Conn : SendOn(bwd, c, ack)[d] =
                             IF d = c /\ c \in link THEN Append(bwd[c], ack) ELSE bwd[d]
      <4>1. bwd \in [Conn -> Seq(Response)] /\ c \in Conn /\ ack \in Response
        BY <1>0, <2>3
      <4> QED BY ONLY <4>1, SendOnType
    <3> QED BY <1>3, <1>7, <3>1
  <2>7. Addressed' /\ Once' /\ OwesNoMore /\ \A v : AcksNoMore({}, v)
    BY <1>1, <1>3, <1>5, <2>1, <2>2, <2>3, <2>5, <2>6, ReadAnswered
  <2>8. \A v \in DOMAIN reqs : Acking(v)' \subseteq Acking(v) \cup Holders(v)'
    BY <2>7 DEF AcksNoMore
  <2> QED BY <1>3, <1>4, <2>7, <2>8, UncountedStep
<1> QED BY <1>6, <1>7

LEMMA ReadRepairStep ==
  ASSUME Inv, TypeOK', NEW c \in Conn, HandleReadRepair(c)
  PROVE  Inv' /\ Kept
<1> DEFINE key == Head(fwd[c]).key
           data == ReadOrEmpty(c[2], key)
           answer == [type |-> "ReadRepairResponse", key |-> key, val |-> data.data,
                      timestamp |-> data.timestamp]
<1>0. /\ TypeOK /\ fwd \in [Conn -> Seq(Request)] /\ bwd \in [Conn -> Seq(Response)]
      /\ c[2] \in Server
  BY ConnType DEF Inv, TypeOK
<1>1. fwd[c] # <<>> /\ key \in Key
  BY <1>0, RequestType DEF HandleReadRepair, Arrived
<1>2. answer \in Response /\ Idle(answer)
  <2>1. data \in Element
    BY <1>0, <1>1, ReadType
  <2>2. answer \in Response
    BY <1>1, <2>1, ElementType DEF Response
  <2>3. answer.type = "ReadRepairResponse"
    OBVIOUS
  <2> HIDE DEF answer
  <2> QED BY <2>2, <2>3, NoRequest
<1>3. /\ reqs' = reqs /\ replies' = replies /\ crashes' = crashes
      /\ m_pending_writes' = m_pending_writes /\ m_pending_reads' = m_pending_reads
      /\ m_store' = m_store /\ m_log' = m_log
      /\ fwd' = Popped(fwd, c) /\ bwd' = SendOn(bwd, c, answer)
  BY DEF HandleReadRepair, pendings, bounds, logs
<1> HIDE DEF answer
<1>4. \A x \in Server, j \in Key, ts \in Nat : Holds(x, j, ts) => Holds(x, j, ts)'
  BY <1>3, SameCopies
<1>5. \A d \in Conn : fwd'[d] = IF d = c THEN Tail(fwd[c]) ELSE fwd[d]
  BY <1>0, <1>1, <1>3, PoppedType
<1>6. \A d \in Conn : bwd'[d] = IF d = c /\ c \in link THEN Append(bwd[c], answer) ELSE bwd[d]
  <2>1. \A d \in Conn : SendOn(bwd, c, answer)[d] =
                           IF d = c /\ c \in link THEN Append(bwd[c], answer) ELSE bwd[d]
    <3>1. bwd \in [Conn -> Seq(Response)] /\ c \in Conn /\ answer \in Response
      BY <1>0, <1>2
    <3> QED BY ONLY <3>1, SendOnType
  <2> QED BY <1>3, <2>1
<1>7. NetTrims
  BY <1>1, <1>2, <1>5, <1>6 DEF NetTrims, Trimmed
<1> QED BY <1>3, <1>4, <1>7, IdleStep

\* The writes that repair others carry no uuid.
LEMMA ReadRepairResponseStep ==
  ASSUME Inv, TypeOK', NEW c \in Conn, HandleReadRepairResponse(c)
  PROVE  Inv' /\ Kept
<1> DEFINE msg == Head(bwd[c])
           mine == m_store[c[1]][msg.key]
           theirs == DoWriteOf(RR, msg.key, ElementOf(msg))
           ours == DoWriteOf(RR, msg.key, mine)
<1>0. /\ TypeOK /\ fwd \in [Conn -> Seq(Request)] /\ bwd \in [Conn -> Seq(Response)]
      /\ c[1] \in Server
  BY ConnType DEF Inv, TypeOK
<1>1. bwd[c] # <<>> /\ msg.key \in Key /\ ElementOf(msg) \in Element
  BY <1>0, ResponseType DEF HandleReadRepairResponse, Arrived
<1>2. mine # Null => mine \in Element
  BY <1>0, <1>1 DEF TypeOK, StoreType
<1>3. /\ theirs \in Request /\ Idle(theirs)
      /\ mine # Null => ours \in Request /\ Idle(ours)
  BY <1>1, <1>2, DoWriteOfType, NoRequest
<1>4. /\ reqs' = reqs /\ replies' = replies /\ crashes' = crashes
      /\ m_pending_writes' = m_pending_writes /\ m_pending_reads' = m_pending_reads
      /\ m_store' = m_store /\ bwd' = Popped(bwd, c)
      /\ m_log' = m_log \/ m_log' = PostWrite(c[1], msg.key, ElementOf(msg))
      /\ \/ fwd' = fwd
         \/ fwd' = SendAll(fwd, c[1], theirs)
         \/ mine # Null /\ fwd' = SendOn(fwd, c, ours)
  BY DEF HandleReadRepairResponse, pendings, bounds
<1>5. \A x \in Server, j \in Key, ts \in Nat : Holds(x, j, ts) => Holds(x, j, ts)'
  <2>1. CASE m_log' = m_log
    BY <1>4, <2>1, SameCopies
  <2>2. CASE m_log' = PostWrite(c[1], msg.key, ElementOf(msg))
    BY <1>0, <1>1, <1>4, <2>2, PostWriteHolds
  <2> QED BY <1>4, <2>1, <2>2
<1>6. \A d \in Conn : bwd'[d] = IF d = c THEN Tail(bwd[c]) ELSE bwd[d]
  <2>1. \A d \in Conn : Popped(bwd, c)[d] = IF d = c THEN Tail(bwd[c]) ELSE bwd[d]
    BY <1>0, <1>1, PoppedType
  <2> QED BY <1>4, <2>1
<1>7. \A d \in Conn : Trimmed(bwd[d], bwd'[d], Response)
  BY <1>1, <1>6 DEF Trimmed
<1> HIDE DEF theirs, ours, mine
<1>8. \A d \in Conn : Trimmed(fwd[d], fwd'[d], Request)
  <2>1. CASE fwd' = fwd
    BY <2>1 DEF Trimmed
  <2>2. CASE fwd' = SendAll(fwd, c[1], theirs)
    <3>1. \A d \in Conn : fwd'[d] = IF d[1] = c[1] /\ d \in link THEN Append(fwd[d], theirs)
                                    ELSE fwd[d]
      <4>1. \A d \in Conn : SendAll(fwd, c[1], theirs)[d] =
              IF d[1] = c[1] /\ d \in link THEN Append(fwd[d], theirs) ELSE fwd[d]
        <5>1. fwd \in [Conn -> Seq(Request)] /\ c[1] \in Server /\ theirs \in Request
          BY <1>0, <1>3
        <5> QED BY ONLY <5>1, SendAllType
      <4> QED BY <2>2, <4>1
    <3> QED BY <1>3, <3>1 DEF Trimmed
  <2>3. CASE mine # Null /\ fwd' = SendOn(fwd, c, ours)
    <3>1. \A d \in Conn : fwd'[d] = IF d = c /\ c \in link THEN Append(fwd[c], ours)
                                    ELSE fwd[d]
      BY <1>0, <1>3, <2>3, SendOnType
    <3> QED BY <1>3, <2>3, <3>1 DEF Trimmed
  <2> QED BY <1>4, <2>1, <2>2, <2>3
<1>9. NetTrims
  BY <1>7, <1>8 DEF NetTrims
<1> QED BY <1>4, <1>5, <1>9, IdleStep

\* Which answers a request can get: a put no ReadComplete, a get no WriteComplete.
LEMMA AnswersFit ==
  ASSUME TypeOK, Addressed, NEW c \in Conn, NEW u \in DOMAIN reqs
  PROVE  /\ reqs[u].kind = "put" => ~AckedIn(bwd[c], u)
         /\ reqs[u].kind = "get" => ~AckedIn(fwd[c], u)
<1>1. fwd[c] \in Seq(Request) /\ bwd[c] \in Seq(Response)
  BY DEF TypeOK
<1>2. ASSUME NEW i \in DOMAIN fwd[c], reqs[u].kind = "get" PROVE ~Acks(fwd[c][i], u)
  <2>1. fwd[c][i] \in Request /\ RequestFits(fwd[c][i], c, reqs)
    BY <1>1 DEF Addressed
  <2>2. fwd[c][i].type # "ReadComplete"
    BY <2>1 DEF Request, DoWriteMsg, KeyMsg, ReadMsg, AckMsg
  <2> QED BY <1>2, <2>1, <2>2 DEF RequestFits, Belongs, Acks
<1>3. ASSUME NEW i \in DOMAIN bwd[c], reqs[u].kind = "put" PROVE ~Acks(bwd[c][i], u)
  <2>1. bwd[c][i] \in Response /\ ResponseFits(bwd[c][i], c, reqs)
    BY <1>1 DEF Addressed
  <2>2. bwd[c][i].type # "WriteComplete"
    BY <2>1 DEF Response
  <2> QED BY <1>3, <2>1, <2>2 DEF ResponseFits, Belongs, Acks
<1> QED BY <1>2, <1>3 DEF AckedIn

\* The step counts an answer to u and leaves the other requests alone.
LEMMA CountedStep ==
  ASSUME Inv, TypeOK', reqs' = reqs, crashes' = crashes, m_store' = m_store, m_log' = m_log,
         NetTrims, NEW u \in DOMAIN reqs, Pending(u) # Null,
         Pending(u)' = Dec(Pending(u)), Pending(u)' # Null,
         replies' = Answer(u, LastAnswer(Pending(u))),
         \A v \in DOMAIN reqs \ {u} : Pending(v)' = Pending(v),
         PendingKnown',
         NEW t \in Server \ {reqs[u].at}, Owes(u, t), ~Owes(u, t)',
         reqs[u].kind = "put" => t \in Acking(u)
  PROVE  Inv' /\ Kept
<1>0. TypeOK /\ PendingKnown /\ AllCounted /\ Recorded /\ DOMAIN reqs \subseteq Uuid /\ ReqsKept
  BY DEF Inv, Recorded, ReqsKept
<1>1. Addressed' /\ Once' /\ OwesNoMore /\ \A v : AcksNoMore({}, v)
  BY <1>0, TrimKeeps
<1>2. \A v \in DOMAIN reqs : /\ \A x \in Server \ {reqs[v].at} : Owes(v, x)' => Owes(v, x)
                             /\ Acking(v)' \subseteq Acking(v)
  BY <1>1 DEF OwesNoMore, AcksNoMore
<1>3. \A s \in Server, j \in Key, ts \in Nat : Holds(s, j, ts) => Holds(s, j, ts)'
  BY SameCopies
<1>4. \A v \in DOMAIN reqs : CopiesKept(v) /\ Counted(v) /\ reqs'[v] = reqs[v]
  BY <1>0, <1>3, SameHoldersKept DEF AllCounted
<1>5. /\ replies'[u] = replies[u] + IF LastAnswer(Pending(u)) THEN 1 ELSE 0
      /\ \A v \in Uuid \ {u} : replies'[v] = replies[v]
  <2>1. u \in Uuid /\ LastAnswer(Pending(u)) \in BOOLEAN
    BY <1>0 DEF LastAnswer
  <2> QED BY <1>0, <2>1, AnswerType
<1>6. Counted(u)'
  BY <1>0, <1>2, <1>4, <1>5, CountAnswer
<1>7. ASSUME NEW v \in DOMAIN reqs \ {u} PROVE Counted(v)'
  <2>1. replies'[v] = replies[v] /\ Pending(v)' = Pending(v)
    BY <1>0, <1>5
  <2>2. Acking(v)' \subseteq Acking(v) \cup Holders(v)'
    BY <1>2
  <2> QED BY <1>0, <1>2, <1>4, <2>1, <2>2, CountedKept
<1>8. AllCounted'
  <2>1. \A v \in DOMAIN reqs' : Counted(v)'
    BY <1>6, <1>7
  <2>2. \A v \in Uuid \ DOMAIN reqs' : replies'[v] = 0
    BY <1>0, <1>5 DEF AllCounted
  <2> QED BY <2>1, <2>2 DEF AllCounted
<1>9. Recorded'
  BY <1>0 DEF Recorded
<1>10. Kept
  BY <1>0, <1>1, <1>3 DEF Kept, HoldsKept
<1> QED BY <1>1, <1>8, <1>9, <1>10 DEF Inv

\* The acknowledgement of u by t takes it off what t owes.
TakesAck(u, t) == t \in Acking(u) /\ Owes(u, t) /\ ~Owes(u, t)'

LEMMA WriteCompleteStep ==
  ASSUME Inv, TypeOK', NEW c \in Conn, HandleWriteComplete(c)
  PROVE  /\ Inv' /\ Kept
         /\ \/ Stop(c[2])
            \/ \E u \in DOMAIN reqs :
                 /\ reqs[u].kind = "put" /\ reqs[u].at = c[2] /\ Pending(u) # Null
                 /\ TakesAck(u, c[1])
                 /\ m_hint_log' = DropHint(c[2], c[1], reqs[u].key)
                 /\ m_hints' = m_hints /\ reqs' = reqs /\ crashes' = crashes
<1>0. /\ TypeOK /\ Addressed /\ Once /\ PendingKnown /\ DOMAIN reqs \subseteq Uuid
      /\ fwd \in [Conn -> Seq(Request)] /\ c[1] \in Server /\ c[2] \in Server /\ c[1] # c[2]
      /\ m_pending_writes \in [Server -> [Uuid -> (0..Width - 1) \cup {Null}]]
  BY ConnType DEF Inv, TypeOK, Recorded
<1>1. fwd[c] # <<>> /\ Head(fwd[c]).type = "WriteComplete"
  BY DEF HandleWriteComplete, Arrived
<1>2. PICK u \in DOMAIN reqs :
             u = Head(fwd[c]).uuid /\ reqs[u].at = c[2] /\ reqs[u].kind = "put"
  <2>1. RequestFits(Head(fwd[c]), c, reqs)
    BY <1>0, <1>1, QueueTail DEF Addressed
  <2> QED BY <1>1, <2>1 DEF RequestFits, Belongs
<1>3. Pending(u) = m_pending_writes[c[2]][u] /\ u \in Uuid
  BY <1>0, <1>2 DEF Pending
<1>4. CASE Pending(u) = Null
  BY <1>0, <1>2, <1>3, <1>4, StopStep DEF HandleWriteComplete
<1>5. CASE Pending(u) # Null
  <2>1. /\ replies' = Answer(u, LastAnswer(Pending(u)))
        /\ m_pending_writes' = [m_pending_writes EXCEPT ![c[2]][u] = Dec(Pending(u))]
        /\ fwd' = Popped(fwd, c) /\ m_pending_reads' = m_pending_reads /\ bwd' = bwd
        /\ m_hint_log' = DropHint(c[2], c[1], reqs[u].key) /\ m_hints' = m_hints
        /\ m_store' = m_store /\ m_log' = m_log /\ reqs' = reqs /\ crashes' = crashes
    BY <1>2, <1>3, <1>5 DEF HandleWriteComplete, bounds
  <2>2. \A s \in Server, v \in Uuid :
          m_pending_writes'[s][v] =
            IF s = c[2] /\ v = u THEN Dec(Pending(u)) ELSE m_pending_writes[s][v]
    BY <1>0, <1>3, <2>1
  <2>3. Pending(u)' = Dec(Pending(u)) /\ Pending(u)' # Null
    <3>1. Pending(u) \in 0..Width - 1
      BY <1>0, <1>3, <1>5
    <3>2. Dec(Pending(u)) \in Nat
      BY <3>1, DecIs, WidthAssumption
    <3>3. Pending(u)' = Dec(Pending(u))
      BY <1>0, <1>2, <1>3, <2>1, <2>2 DEF Pending
    <3> QED BY <3>2, <3>3, NoCounterAssumption
  <2>4. \A v \in DOMAIN reqs \ {u} : Pending(v)' = Pending(v)
    BY <1>0, <2>1, <2>2, ReqType DEF Pending
  <2>5. PendingKnown'
    BY <1>0, <1>2, <2>1, <2>2 DEF PendingKnown, Belongs
  <2>6. \A d \in Conn : fwd'[d] = IF d = c THEN Tail(fwd[c]) ELSE fwd[d]
    BY <1>0, <1>1, <2>1, PoppedType
  <2>7. NetTrims
    BY <1>1, <2>1, <2>6 DEF NetTrims, Trimmed
  <2>8. Acks(Head(fwd[c]), u)
    BY <1>1, <1>2 DEF Acks
  <2>9. /\ AckedIn(fwd[c], u) /\ (AckedOnce(fwd[c], u) => ~AckedIn(fwd'[c], u))
    <3>1. fwd[c] \in Seq(Request) /\ fwd'[c] = Tail(fwd[c])
      BY <1>0, <2>6
    <3> QED BY <1>1, <2>8, <3>1, TailFewer
  <2> DEFINE d == <<c[2], c[1]>>
  <2>10. d \in Conn /\ Back(d) = c /\ d # c
    BY <1>0, ConnType DEF Conn, Back
  <2>11. Owes(u, c[1]) /\ c[1] \in Acking(u)
    <3>1. c = <<c[1], c[2]>>
      BY ConnType
    <3> QED BY <1>0, <1>2, <2>9, <2>10, <3>1 DEF Owes, Acking
  <2>12. ~Owes(u, c[1])'
    <3>1. OnceOn(d, u) /\ OnceOn(c, u)
      BY <1>0, <1>3, <2>10 DEF Once
    <3>2. ~AskedIn(fwd[d], u) /\ ~AckedIn(fwd'[c], u)
      BY <2>9, <2>10, <3>1 DEF OnceOn
    <3>3. ~AckedIn(bwd[d], u)
      BY <1>0, <1>2, <2>10, AnswersFit
    <3>4. fwd'[d] = fwd[d] /\ bwd'[d] = bwd[d] /\ reqs'[u].at = c[2]
      BY <1>2, <2>1, <2>6, <2>10
    <3> HIDE DEF d
    <3> QED BY <2>10, <3>2, <3>3, <3>4 DEF Owes, d
  <2>13. Inv' /\ Kept
    BY <1>0, <1>2, <1>5, <2>1, <2>3, <2>4, <2>5, <2>7, <2>11, <2>12, CountedStep
  <2> QED BY <1>2, <1>5, <2>1, <2>11, <2>12, <2>13 DEF TakesAck
<1> QED BY <1>4, <1>5

LEMMA ReadCompleteStep ==
  ASSUME Inv, TypeOK', NEW c \in Conn, HandleReadComplete(c)
  PROVE  Inv' /\ Kept
<1>0. /\ TypeOK /\ Addressed /\ Once /\ PendingKnown /\ DOMAIN reqs \subseteq Uuid
      /\ bwd \in [Conn -> Seq(Response)] /\ c[1] \in Server /\ c[2] \in Server /\ c[1] # c[2]
      /\ m_pending_reads \in [Server -> [Uuid -> (0..Width - 1) \cup {Null}]]
  BY ConnType DEF Inv, TypeOK, Recorded
<1>1. bwd[c] # <<>> /\ Head(bwd[c]).type = "ReadComplete"
  BY DEF HandleReadComplete, Arrived
<1>2. PICK u \in DOMAIN reqs :
             u = Head(bwd[c]).uuid /\ reqs[u].at = c[1] /\ reqs[u].kind = "get"
  <2>1. ResponseFits(Head(bwd[c]), c, reqs)
    BY <1>0, <1>1, QueueTail DEF Addressed
  <2> QED BY <1>1, <2>1 DEF ResponseFits, Belongs
<1>3. Pending(u) = m_pending_reads[c[1]][u] /\ u \in Uuid
  BY <1>0, <1>2 DEF Pending
<1>4. CASE Pending(u) = Null
  BY <1>0, <1>2, <1>3, <1>4, StopStep DEF HandleReadComplete
<1>5. CASE Pending(u) # Null
  <2>1. /\ replies' = Answer(u, LastAnswer(Pending(u)))
        /\ m_pending_reads' = [m_pending_reads EXCEPT ![c[1]][u] = Dec(Pending(u))]
        /\ bwd' = Popped(bwd, c) /\ m_pending_writes' = m_pending_writes /\ fwd' = fwd
        /\ m_store' = m_store /\ m_log' = m_log /\ reqs' = reqs /\ crashes' = crashes
    BY <1>2, <1>3, <1>5 DEF HandleReadComplete, bounds, logs
  <2>2. \A s \in Server, v \in Uuid :
          m_pending_reads'[s][v] =
            IF s = c[1] /\ v = u THEN Dec(Pending(u)) ELSE m_pending_reads[s][v]
    BY <1>0, <1>3, <2>1
  <2>3. Pending(u)' = Dec(Pending(u)) /\ Pending(u)' # Null
    <3>1. Pending(u) \in 0..Width - 1
      BY <1>0, <1>3, <1>5
    <3>2. Dec(Pending(u)) \in Nat
      BY <3>1, DecIs, WidthAssumption
    <3>3. Pending(u)' = Dec(Pending(u))
      BY <1>0, <1>2, <1>3, <2>1, <2>2 DEF Pending
    <3> QED BY <3>2, <3>3, NoCounterAssumption
  <2>4. \A v \in DOMAIN reqs \ {u} : Pending(v)' = Pending(v)
    BY <1>0, <2>1, <2>2, ReqType DEF Pending
  <2>5. PendingKnown'
    BY <1>0, <1>2, <2>1, <2>2 DEF PendingKnown, Belongs
  <2>6. \A d \in Conn : bwd'[d] = IF d = c THEN Tail(bwd[c]) ELSE bwd[d]
    BY <1>0, <1>1, <2>1, PoppedType
  <2>7. NetTrims
    BY <1>1, <2>1, <2>6 DEF NetTrims, Trimmed
  <2>8. Acks(Head(bwd[c]), u)
    BY <1>1, <1>2 DEF Acks
  <2>9. /\ AckedIn(bwd[c], u) /\ (AckedOnce(bwd[c], u) => ~AckedIn(bwd'[c], u))
    <3>1. bwd[c] \in Seq(Response) /\ bwd'[c] = Tail(bwd[c])
      BY <1>0, <2>6
    <3> QED BY <1>1, <2>8, <3>1, TailFewer
  <2>10. c = <<reqs[u].at, c[2]>> /\ Back(c) \in Conn
    BY <1>2, ConnType
  <2>11. Owes(u, c[2])
    BY <2>9, <2>10 DEF Owes
  <2>12. ~Owes(u, c[2])'
    <3>1. OnceOn(c, u)
      BY <1>0, <1>3 DEF Once
    <3>2. ~AskedIn(fwd[c], u) /\ ~AckedIn(bwd'[c], u)
      BY <2>9, <3>1 DEF OnceOn
    <3>3. ~AckedIn(fwd[Back(c)], u)
      BY <1>0, <1>2, <2>10, AnswersFit
    <3> QED BY <2>1, <2>10, <3>2, <3>3 DEF Owes
  <2> QED BY <1>0, <1>2, <1>5, <2>1, <2>3, <2>4, <2>5, <2>7, <2>11, <2>12, CountedStep
<1> QED BY <1>4, <1>5

\* A new request: the others are left alone.
LEMMA RequestStep ==
  ASSUME Inv, TypeOK', ReqsKept, crashes' = crashes,
         NEW u \in Uuid, u \notin DOMAIN reqs, DOMAIN reqs' = DOMAIN reqs \cup {u},
         reqs'[u].crashes = crashes,
         \A v \in Uuid \ {u} : replies'[v] = replies[v],
         \A v \in DOMAIN reqs : Pending(v)' = Pending(v),
         \A s \in Server, j \in Key, ts \in Nat : Holds(s, j, ts) => Holds(s, j, ts)',
         Addressed', Once', OwesNoMore, \A v : AcksNoMore({}, v), PendingKnown', Counted(u)'
  PROVE  Inv' /\ Kept
<1>0. TypeOK /\ AllCounted /\ Recorded /\ DOMAIN reqs \subseteq Uuid /\ crashes \in Nat
  BY DEF Inv, Recorded, TypeOK
<1>1. Recorded'
  BY <1>0 DEF Recorded, ReqsKept
<1>2. ASSUME NEW v \in DOMAIN reqs PROVE Counted(v)'
  <2>1. /\ Counted(v) /\ reqs'[v] = reqs[v] /\ replies'[v] = replies[v]
        /\ Pending(v)' = Pending(v)
    BY <1>0 DEF AllCounted, ReqsKept
  <2>2. CopiesKept(v)
    BY <1>0, <2>1, SameHoldersKept
  <2>3. \A x \in Server \ {reqs[v].at} : Owes(v, x)' => Owes(v, x)
    BY DEF OwesNoMore
  <2>4. Acking(v)' \subseteq Acking(v) \cup Holders(v)'
    BY DEF AcksNoMore
  <2> QED BY <1>0, <2>1, <2>2, <2>3, <2>4, CountedKept
<1>3. AllCounted'
  <2>1. \A v \in DOMAIN reqs' : Counted(v)'
    BY <1>2
  <2>2. \A v \in Uuid \ DOMAIN reqs' : replies'[v] = 0
    BY <1>0 DEF AllCounted
  <2> QED BY <2>1, <2>2 DEF AllCounted
<1>4. Kept
  BY DEF Kept, HoldsKept
<1> QED BY <1>1, <1>3, <1>4 DEF Inv

\* A counter that begins with the answers still needed, and no peer counted.
LEMMA BeginsWaiting ==
  ASSUME TypeOK', NEW u \in DOMAIN reqs', NEW n \in 0..Width - 1,
         reqs'[u].consistency = n, reqs'[u].at \in Server,
         Pending(u)' = Remaining(n), replies'[u] = IF n = 1 THEN 1 ELSE 0,
         reqs'[u].kind = "put" =>
           Acking(u)' = {} /\ reqs'[u].at \in Holders(u)' /\ crashes' = reqs'[u].crashes
  PROVE  Counted(u)'
<1>1. Cardinality({}) = 0
  BY FS_EmptySet
<1>2. Remaining(n) = CountedDown(n, 0) /\ Remaining(n) \in Nat
  BY DecIs, WidthAssumption DEF Remaining, CountedDown
<1>3. replies'[u] = IF n \in 1..Cardinality({}) + 1 THEN 1 ELSE 0
  BY <1>1
<1>4. reqs'[u].kind = "put" =>
        Cardinality(({reqs'[u].at} \cup {} \cup Acking(u)') \ Holders(u)')
          <= crashes' - reqs'[u].crashes
  <2> HAVE reqs'[u].kind = "put"
  <2> DEFINE X == ({reqs'[u].at} \cup {} \cup Acking(u)') \ Holders(u)'
  <2>1. X = {}
    OBVIOUS
  <2>2. crashes' \in Nat /\ crashes' = reqs'[u].crashes
    BY DEF TypeOK
  <2> HIDE DEF X
  <2>3. Cardinality(X) <= crashes' - reqs'[u].crashes
    BY <1>1, <2>1, <2>2
  <2> QED BY <2>3 DEF X
<1>5. Waits(u, {})'
  BY <1>1, <1>2, <1>3, <1>4 DEF Waits, Survives
<1>6. Pending(u)' # Null
  BY <1>2, NoCounterAssumption
<1> QED BY <1>5, <1>6 DEF Counted

LEMMA PutStep ==
  ASSUME Inv, TypeOK', NEW s \in Server, NEW k \in Key, NEW t \in Stamp, NEW n \in Consistency,
         HandlePut(s, k, t, n)
  PROVE  Inv' /\ Kept
<1>0. /\ TypeOK /\ PendingKnown /\ AllCounted /\ DOMAIN reqs \subseteq Uuid
      /\ n \in 0..Width - 1 /\ t \in Nat /\ fwd \in [Conn -> Seq(Request)]
      /\ m_pending_writes \in [Server -> [Uuid -> (0..Width - 1) \cup {Null}]]
  BY ConsistencyAssumption, StampAssumption DEF Inv, Recorded, TypeOK
<1>1. PICK u \in Uuid :
        /\ u = Len(reqs) + 1 /\ u \notin DOMAIN reqs /\ DOMAIN reqs' = DOMAIN reqs \cup {u}
        /\ \A v \in DOMAIN reqs : reqs'[v] = reqs[v]
        /\ reqs'[u] = [kind |-> "put", at |-> s, key |-> k, timestamp |-> t,
                       consistency |-> n, crashes |-> crashes]
  <2>1. NewRequest("put", s, k, t, n)
    BY DEF HandlePut
  <2> QED BY <1>0, <2>1, NewRequestType
<1>2. PICK e \in Element : e = [data |-> u, timestamp |-> t]
  <2>1. u \in Val
    BY ValueAssumption, RequestsAssumption DEF Uuid
  <2>2. [data |-> u, timestamp |-> t] \in Element
    BY <2>1 DEF Element
  <2> QED BY <2>2
<1>3. /\ m_log' = PostWrite(s, k, e) /\ replies' = Answer(u, n = 1)
      /\ m_pending_writes' = [m_pending_writes EXCEPT ![s][u] = Remaining(n)]
      /\ fwd' = SendAll(fwd, s, DoWriteOf(u, k, e))
      /\ m_store' = m_store /\ m_pending_reads' = m_pending_reads /\ bwd' = bwd
      /\ crashes' = crashes
  BY <1>1, <1>2 DEF HandlePut, bounds
<1>4. ReqsKept
  BY <1>1 DEF ReqsKept
<1>5. /\ \A x \in Server, j \in Key, ts \in Nat : Holds(x, j, ts) => Holds(x, j, ts)'
      /\ Holds(s, k, e.timestamp)'
  BY <1>0, <1>3, PostWriteHolds
<1>6. /\ Addressed' /\ Once' /\ OwesNoMore /\ (\A v : AcksNoMore({}, v))
      /\ \A c \in Conn : ~AckedIn(fwd'[c], u)
  <2> DEFINE m == DoWriteOf(u, k, e)
  <2>1. /\ m \in Request /\ m.type = "DoWrite" /\ m.uuid = u /\ m.key = k /\ m.timestamp = t
    BY <1>2, DoWriteOfType
  <2>2. fwd' = SendAll(fwd, s, m)
    BY <1>3
  <2> HIDE DEF m
  <2>3. \A c \in Conn : fwd'[c] = IF c[1] = s /\ c \in link THEN Append(fwd[c], m) ELSE fwd[c]
    <3>1. fwd \in [Conn -> Seq(Request)] /\ s \in Server /\ m \in Request
      BY <1>0, <2>1
    <3>2. \A c \in Conn : SendAll(fwd, s, m)[c] =
            IF c[1] = s /\ c \in link THEN Append(fwd[c], m) ELSE fwd[c]
      BY ONLY <3>1, SendAllType
    <3> QED BY <2>2, <3>2
  <2>4. \A c \in Conn : c[1] = s => RequestFits(m, c, reqs')
    BY <1>1, <2>1 DEF RequestFits, Belongs
  <2>5. \A c \in Conn : \/ fwd'[c] = fwd[c]
                        \/ RequestFits(m, c, reqs') /\ Joined(fwd[c], fwd'[c], m)
    BY <2>3, <2>4 DEF Joined
  <2>6. m.type \in {"DoWrite", "DoRead"}
    BY <2>1
  <2> QED BY <1>1, <1>3, <1>4, <2>1, <2>5, <2>6, AskKeeps
<1>7. /\ replies'[u] = replies[u] + (IF n = 1 THEN 1 ELSE 0)
      /\ \A v \in Uuid \ {u} : replies'[v] = replies[v]
  <2>1. (n = 1) \in BOOLEAN
    OBVIOUS
  <2> QED BY <1>0, <1>3, <2>1, AnswerType
<1>8. \A x \in Server, v \in Uuid :
        m_pending_writes'[x][v] =
          IF x = s /\ v = u THEN Remaining(n) ELSE m_pending_writes[x][v]
  BY <1>0, <1>3
<1>9. PendingKnown'
  BY <1>0, <1>1, <1>3, <1>8 DEF PendingKnown, Belongs
<1>10. \A v \in DOMAIN reqs : Pending(v)' = Pending(v)
  BY <1>0, <1>1, <1>3, <1>8, ReqType DEF Pending
<1>11. Counted(u)'
  <2>1. Pending(u)' = Remaining(n)
    BY <1>1, <1>8 DEF Pending
  <2>2. replies'[u] = IF n = 1 THEN 1 ELSE 0
    BY <1>0, <1>1, <1>7 DEF AllCounted
  <2>3. Acking(u)' = {}
    <3>1. \A x \in Server \ {s} : <<x, s>> \in Conn
      BY DEF Conn
    <3> QED BY <1>1, <1>6, <3>1 DEF Acking
  <2>4. s \in Holders(u)'
    BY <1>1, <1>2, <1>5 DEF Holders
  <2>5. /\ u \in DOMAIN reqs' /\ reqs'[u].consistency = n /\ reqs'[u].at = s
        /\ reqs'[u].crashes = crashes'
    BY <1>1, <1>3
  <2> QED BY <1>0, <2>1, <2>2, <2>3, <2>4, <2>5, BeginsWaiting
<1> QED BY <1>1, <1>3, <1>4, <1>5, <1>6, <1>7, <1>9, <1>10, <1>11, RequestStep

LEMMA GetStep ==
  ASSUME Inv, TypeOK', NEW s \in Server, NEW k \in Key, NEW n \in Consistency,
         HandleGet(s, k, n)
  PROVE  Inv' /\ Kept
<1>0. /\ TypeOK /\ PendingKnown /\ AllCounted /\ DOMAIN reqs \subseteq Uuid
      /\ n \in 0..Width - 1 /\ fwd \in [Conn -> Seq(Request)]
      /\ m_pending_reads \in [Server -> [Uuid -> (0..Width - 1) \cup {Null}]]
  BY ConsistencyAssumption DEF Inv, Recorded, TypeOK
<1>1. PICK t \in Stamp, u \in Uuid :
        /\ u = Len(reqs) + 1 /\ u \notin DOMAIN reqs /\ DOMAIN reqs' = DOMAIN reqs \cup {u}
        /\ \A v \in DOMAIN reqs : reqs'[v] = reqs[v]
        /\ reqs'[u] = [kind |-> "get", at |-> s, key |-> k, timestamp |-> t,
                       consistency |-> n, crashes |-> crashes]
  <2>1. PICK t \in Stamp : t = ReadOrEmpty(s, k).timestamp
    BY <1>0, ReadType, ElementType
  <2>2. NewRequest("get", s, k, t, n)
    BY <2>1 DEF HandleGet
  <2> QED BY <1>0, <2>2, NewRequestType
<1> DEFINE read == [type |-> "DoRead", uuid |-> u, key |-> k]
           repair == [type |-> "ReadRepair", key |-> k]
           q == IF n = 1 THEN fwd ELSE SendAll(fwd, s, read)
<1>2. /\ replies' = Answer(u, n = 1)
      /\ m_pending_reads' = IF n = 1 THEN m_pending_reads
                            ELSE [m_pending_reads EXCEPT ![s][u] = Remaining(n)]
      /\ fwd' = q \/ fwd' = SendAll(q, s, repair)
      /\ m_store' = m_store /\ m_log' = m_log /\ m_pending_writes' = m_pending_writes
      /\ bwd' = bwd /\ crashes' = crashes
  BY <1>1 DEF HandleGet, bounds, logs
<1>3. /\ read \in Request /\ read.type = "DoRead" /\ read.uuid = u
      /\ repair \in Request /\ Idle(repair)
  <2>1. read \in Request /\ repair \in Request /\ repair.type = "ReadRepair"
    BY DEF Request, ReadMsg, KeyMsg
  <2> QED BY <2>1, NoRequest
<1>4. ReqsKept
  BY <1>1 DEF ReqsKept
<1>5. \A x \in Server, j \in Key, ts \in Nat : Holds(x, j, ts) => Holds(x, j, ts)'
  BY <1>2, SameCopies
<1> HIDE DEF read, repair
<1>6. q \in [Conn -> Seq(Request)]
        /\ \A c \in Conn : q[c] = IF n # 1 /\ c[1] = s /\ c \in link THEN Append(fwd[c], read)
                                  ELSE fwd[c]
  <2>1. fwd \in [Conn -> Seq(Request)] /\ s \in Server /\ read \in Request
    BY <1>0, <1>3
  <2>2. /\ SendAll(fwd, s, read) \in [Conn -> Seq(Request)]
        /\ \A c \in Conn : SendAll(fwd, s, read)[c] =
             IF c[1] = s /\ c \in link THEN Append(fwd[c], read) ELSE fwd[c]
    BY ONLY <2>1, SendAllType
  <2> QED BY <2>1, <2>2
<1> HIDE DEF q
<1>7. \A c \in Conn : \/ fwd'[c] = q[c]
                      \/ c[1] = s /\ c \in link /\ fwd'[c] = Append(q[c], repair)
  <2>1. q \in [Conn -> Seq(Request)] /\ s \in Server /\ repair \in Request
    BY <1>3, <1>6
  <2>2. \A c \in Conn : SendAll(q, s, repair)[c] =
          IF c[1] = s /\ c \in link THEN Append(q[c], repair) ELSE q[c]
    BY ONLY <2>1, SendAllType
  <2> QED BY <1>2, <2>2
<1>8. Addressed' /\ Once' /\ OwesNoMore /\ \A v : AcksNoMore({}, v)
  <2>1. CASE n = 1
    <3>1. \A c \in Conn : \/ fwd'[c] = fwd[c]
                          \/ fwd'[c] = Append(fwd[c], repair)
      BY <1>6, <1>7, <2>1
    <3>2. NetTrims
      BY <1>2, <1>3, <3>1 DEF NetTrims, Trimmed
    <3> QED BY <1>4, <3>2, TrimKeeps
  <2>2. CASE n # 1
    <3>1. \A c \in Conn : c[1] = s => RequestFits(read, c, reqs')
      BY <1>1, <1>3 DEF RequestFits, Belongs
    <3>2. ASSUME NEW c \in Conn
          PROVE  \/ fwd'[c] = fwd[c]
                 \/ RequestFits(read, c, reqs') /\ Joined(fwd[c], fwd'[c], read)
      <4>1. CASE c[1] = s /\ c \in link
        <5>1. \/ fwd'[c] = Append(fwd[c], read)
              \/ fwd'[c] = Append(Append(fwd[c], read), repair)
          BY <1>6, <1>7, <2>2, <4>1
        <5> QED BY <1>3, <3>1, <4>1, <5>1 DEF Joined
      <4>2. CASE ~(c[1] = s /\ c \in link)
        BY <1>6, <1>7, <4>2
      <4> QED BY <4>1, <4>2
    <3>3. read.type \in {"DoWrite", "DoRead"}
      BY <1>3
    <3> QED BY <1>1, <1>2, <1>3, <1>4, <3>2, <3>3, AskKeeps
  <2> QED BY <2>1, <2>2
<1>9. /\ replies'[u] = replies[u] + (IF n = 1 THEN 1 ELSE 0)
      /\ \A v \in Uuid \ {u} : replies'[v] = replies[v]
  <2>1. (n = 1) \in BOOLEAN
    OBVIOUS
  <2> QED BY <1>0, <1>2, <2>1, AnswerType
<1>10. \A x \in Server, v \in Uuid :
        m_pending_reads'[x][v] =
          IF n # 1 /\ x = s /\ v = u THEN Remaining(n) ELSE m_pending_reads[x][v]
  BY <1>0, <1>2
<1>11. PendingKnown'
  BY <1>0, <1>1, <1>2, <1>10 DEF PendingKnown, Belongs
<1>12. \A v \in DOMAIN reqs : Pending(v)' = Pending(v)
  BY <1>0, <1>1, <1>2, <1>10, ReqType DEF Pending
<1>13. Counted(u)'
  <2>1. replies'[u] = IF n = 1 THEN 1 ELSE 0
    BY <1>0, <1>1, <1>9 DEF AllCounted
  <2>2. CASE n # 1
    <3>1. Pending(u)' = Remaining(n)
      BY <1>1, <1>10, <2>2 DEF Pending
    <3> QED BY <1>0, <1>1, <2>1, <3>1, BeginsWaiting
  <2>3. CASE n = 1
    <3>1. m_pending_reads[s][u] = Null
      BY <1>0, <1>1 DEF PendingKnown, Belongs
    <3>2. Pending(u)' = Null
      BY <1>1, <1>10, <2>3, <3>1 DEF Pending
    <3>3. n \in 1..N
      BY <2>3, ServersType
    <3>4. Over(u)'
      BY <1>1, <2>1, <2>3, <3>3 DEF Over
    <3> QED BY <3>2, <3>4 DEF Counted
  <2> QED BY <2>2, <2>3
<1> QED BY <1>1, <1>2, <1>4, <1>5, <1>8, <1>9, <1>11, <1>12, <1>13, RequestStep

-----------------------------------------------------------------------------
(* The theorems                                                            *)

LEMMA InitHolds == Init => Inv
<1> SUFFICES ASSUME Init PROVE Inv
  OBVIOUS
<1>1. TypeOK
  BY InitTypes
<1>2. /\ DOMAIN reqs = {} /\ \A c \in Conn : fwd[c] = <<>> /\ bwd[c] = <<>>
      /\ \A s \in Server, u \in Uuid : m_pending_writes[s][u] = Null
                                       /\ m_pending_reads[s][u] = Null
      /\ \A u \in Uuid : replies[u] = 0
  BY DEF Init
<1>3. Addressed
  BY <1>2 DEF Addressed
<1>4. PendingKnown
  BY <1>2 DEF PendingKnown
<1>5. Once
  <2>1. \A c \in Conn, u \in Uuid : AskedOnce(fwd[c], u) /\ AckedOnce(fwd[c], u)
                                    /\ AckedOnce(bwd[c], u) /\ ~AskedIn(fwd[c], u)
    BY <1>2 DEF AskedOnce, AckedOnce, AskedIn
  <2> QED BY <2>1 DEF Once, OnceOn
<1>6. AllCounted /\ Recorded
  BY <1>2 DEF AllCounted, Recorded
<1> QED BY <1>1, <1>3, <1>4, <1>5, <1>6 DEF Inv

LEMMA DeliverStep ==
  ASSUME Inv, TypeOK', NEW c \in Conn, Deliver(c)
  PROVE  Inv' /\ Kept
BY DoWriteStep, WriteCompleteStep, DoReadStep, ReadRepairStep, ReadCompleteStep,
   ReadRepairResponseStep DEF Deliver

LEMMA NextHolds == Inv /\ [Next]_vars => Inv' /\ Kept
<1> SUFFICES ASSUME Inv, [Next]_vars PROVE Inv' /\ Kept
  OBVIOUS
<1>0. TypeOK'
  BY TypeStep DEF Inv
<1>1. ASSUME NEW s \in Putters, NEW k \in Key, NEW t \in Stamp \ {0}, NEW n \in Consistency,
             HandlePut(s, k, t, n)
      PROVE  Inv' /\ Kept
  BY <1>0, <1>1, PutStep, ServerAssumption
<1>2. ASSUME NEW s \in Getters, NEW k \in Key, NEW n \in Consistency, HandleGet(s, k, n)
      PROVE  Inv' /\ Kept
  BY <1>0, <1>2, GetStep, ServerAssumption
<1>3. ASSUME NEW s \in Server, RunLog(s) \/ RunHintLog(s) \/ Restart(s)
      PROVE  Inv' /\ Kept
  BY <1>0, <1>3, LocalSteps
<1>4. ASSUME NEW s \in Server, Crash(s)
      PROVE  Inv' /\ Kept
  BY <1>0, <1>4, StopStep DEF Crash
<1>5. ASSUME NEW c \in Conn, Deliver(c)
      PROVE  Inv' /\ Kept
  BY <1>0, <1>5, DeliverStep
<1>6. ASSUME NEW c \in Conn, Cut(c) \/ Connect(c)
      PROVE  Inv' /\ Kept
  BY <1>0, <1>6, LinkSteps
<1>7. CASE UNCHANGED vars
  <2>1. /\ reqs' = reqs /\ replies' = replies /\ crashes' = crashes
        /\ m_pending_writes' = m_pending_writes /\ m_pending_reads' = m_pending_reads
        /\ fwd' = fwd /\ bwd' = bwd /\ m_store' = m_store /\ m_log' = m_log
    BY <1>7 DEF vars, logs, pendings, net, bounds
  <2>2. NetTrims
    BY <2>1, SameNet
  <2>3. \A x \in Server, j \in Key, ts \in Nat : Holds(x, j, ts) => Holds(x, j, ts)'
    BY <2>1, SameCopies
  <2> QED BY <1>0, <2>1, <2>2, <2>3, IdleStep
<1> QED BY <1>1, <1>2, <1>3, <1>4, <1>5, <1>6, <1>7 DEF Next

LEMMA Holding == Spec => []Inv
BY InitHolds, NextHolds, PTL DEF Spec

(***************************************************************************)
(* The tables, counters, queues and messages keep their types; a counter   *)
(* stays in the range of a uint32_t however often it is counted down.      *)
(***************************************************************************)
THEOREM TypeCorrect == Spec => []TypeOK
<1>1. Inv => TypeOK
  BY DEF Inv
<1> QED BY <1>1, Holding, PTL

(***************************************************************************)
(* A client's request is answered at most once, and not at all when it     *)
(* asks for no server or for more than there are: handle_write_complete    *)
(* and handle_read_complete pass 1 once, although later answers count      *)
(* further down and round the range.                                       *)
(***************************************************************************)
THEOREM RequestsAnsweredOnce == Spec => []ReplyOnce
<1>1. Inv => ReplyOnce
  <2> SUFFICES ASSUME Inv, NEW u \in DOMAIN reqs
               PROVE  replies[u] <= IF reqs[u].consistency \in 1..Cardinality(Server)
                                    THEN 1 ELSE 0
    BY DEF ReplyOnce
  <2>1. TypeOK /\ Counted(u)
    BY DEF Inv, AllCounted
  <2>2. Over(u)
    BY <2>1, CountedOver
  <2> QED BY <2>2 DEF Over, N
<1> QED BY <1>1, Holding, PTL

(***************************************************************************)
(* A put that was answered is held by as many servers as its client asked  *)
(* for, less one for each process that died since: acknowledgements are    *)
(* sent before the record is flushed, but never for a write that the peer  *)
(* has neither posted nor found to be older than what it holds.            *)
(***************************************************************************)
THEOREM AckedCopiesSurvive == Spec => []AckedSurvives
<1>1. Inv => AckedSurvives
  <2> SUFFICES ASSUME Inv, NEW u \in Puts, replies[u] > 0
               PROVE  Cardinality(Holders(u)) + (crashes - reqs[u].crashes)
                        >= reqs[u].consistency
    BY DEF AckedSurvives, Holders
  <2>1. TypeOK /\ u \in DOMAIN reqs /\ reqs[u].kind = "put" /\ Counted(u)
    BY DEF Inv, AllCounted, Puts
  <2>2. PICK W \in SUBSET Server : Cardinality(W) >= reqs[u].consistency /\ Survives(W, u)
    BY <2>1, CountedOver DEF Over
  <2> DEFINE H == Holders(u)
             L == W \ H
  <2>3. IsFiniteSet(H) /\ IsFiniteSet(L) /\ IsFiniteSet(H \cup L)
    <3>1. H \subseteq Server /\ L \subseteq Server /\ H \cup L \subseteq Server
      BY DEF Holders
    <3> QED BY <3>1, ServersType, FS_Subset
  <2>4. W \subseteq H \cup L /\ H \cap L = {}
    OBVIOUS
  <2>5. Cardinality(L) <= crashes - reqs[u].crashes
    BY <2>2 DEF Survives
  <2> HIDE DEF H, L
  <2>6. /\ Cardinality(W) <= Cardinality(H \cup L)
        /\ Cardinality(W) \in Nat /\ Cardinality(H \cup L) \in Nat
    <3>1. IsFiniteSet(W) /\ Cardinality(W) <= Cardinality(H \cup L)
      BY ONLY <2>3, <2>4, FS_Subset
    <3> QED BY ONLY <2>3, <3>1, FS_CardinalityType
  <2>7. Cardinality(H \cup L) = Cardinality(H) + Cardinality(L)
          /\ Cardinality(H) \in Nat /\ Cardinality(L) \in Nat
    <3>1. Cardinality(H \cup L) = Cardinality(H) + Cardinality(L) - Cardinality(H \cap L)
      BY <2>3, FS_Union
    <3>2. Cardinality(H \cap L) = 0
      BY <2>4, FS_EmptySet
    <3> QED BY <2>3, <3>1, <3>2, FS_CardinalityType
  <2>8. crashes \in Nat /\ reqs[u].crashes \in Nat /\ reqs[u].consistency \in Nat
    <3>1. reqs[u].crashes \in Nat /\ reqs[u].consistency \in 0..Width - 1
      BY <2>1, ReqType
    <3> QED BY <2>1, <3>1, WidthAssumption DEF TypeOK
  <2>9. Cardinality(H) + (crashes - reqs[u].crashes) >= reqs[u].consistency
    BY <2>2, <2>5, <2>6, <2>7, <2>8
  <2> QED BY <2>9 DEF H
<1> QED BY <1>1, Holding, PTL

-----------------------------------------------------------------------------
(***************************************************************************)
(* Hinted handoff.  The hint counters never go below zero, and as long as  *)
(* no process dies a peer that misses a write has a hint.                  *)
(*                                                                         *)
(* The argument.  The hints of a server for a peer and a key are at least  *)
(* as many as the puts for which the peer still owes an answer or misses   *)
(* the element (HintsCover): a put adds to both, and an acknowledgement    *)
(* that takes a hint away takes a put away too, because the peer holds the *)
(* element by then unless a process died (Kept).  What is in memory,       *)
(* m_hints, lags behind by the records that are posted, so the same is     *)
(* said of every prefix of the posted records (Prefixes).                  *)
(***************************************************************************)

\* The places of a record among the first j of a queue, and their number.
Where(q, j, h) == {i \in DOMAIN q : i <= j /\ q[i] = h}
Count(q, j, h) == Cardinality(Where(q, j, h))

\* The hints as they will be when the first j posted records are flushed.
Level(s, t, k, j) ==
  m_hints[s][t][k] + Count(m_hint_log[s], j, Hint("add", t, k))
                   - Count(m_hint_log[s], j, Hint("drop", t, k))

Prefixes ==
  \A s, t \in Server, k \in Key : \A j \in 0..Len(m_hint_log[s]) : Level(s, t, k, j) >= 0

\* A put that is not waited for any more is older than a crash.
Remembered ==
  \A u \in DOMAIN reqs : reqs[u].kind = "put" /\ Pending(u) = Null => reqs[u].crashes < crashes

\* The puts of s on k for which t needs a hint.
IsDue(u, s, t, k) ==
  /\ reqs[u].kind = "put" /\ reqs[u].at = s /\ reqs[u].key = k
  /\ Pending(u) # Null
  /\ Owes(u, t) \/ (reqs[u].crashes = crashes /\ ~Holds(t, k, reqs[u].timestamp))

Due(s, t, k) == {u \in DOMAIN reqs : IsDue(u, s, t, k)}

HintsCover ==
  Mode = "hinted_handoff" =>
    \A c \in Conn, k \in Key : Cardinality(Due(c[1], c[2], k)) <= Hints(c[1], c[2], k)

HintInv == Inv /\ Prefixes /\ Remembered /\ HintsCover

-----------------------------------------------------------------------------
(* Counting records                                                        *)

LEMMA CountType ==
  ASSUME NEW S, NEW q \in Seq(S), NEW j, NEW h
  PROVE  IsFiniteSet(Where(q, j, h)) /\ Count(q, j, h) \in Nat
<1>1. Where(q, j, h) \subseteq 1..Len(q) /\ Len(q) \in Nat
  BY DEF Where
<1>2. IsFiniteSet(1..Len(q))
  BY <1>1, FS_Interval
<1>3. IsFiniteSet(Where(q, j, h))
  BY <1>1, <1>2, FS_Subset
<1> QED BY <1>3, FS_CardinalityType DEF Count

LEMMA CountNone ==
  ASSUME NEW S, NEW q \in Seq(S), NEW h
  PROVE  Count(q, 0, h) = 0
<1>1. Where(q, 0, h) = {}
  BY DEF Where
<1> QED BY <1>1, FS_EmptySet DEF Count

LEMMA CountAppend ==
  ASSUME NEW S, NEW q \in Seq(S), NEW m \in S, NEW h
  PROVE  /\ Append(q, m) \in Seq(S) /\ Len(Append(q, m)) = Len(q) + 1
         /\ \A j \in 0..Len(q) : Count(Append(q, m), j, h) = Count(q, j, h)
         /\ Count(Append(q, m), Len(q) + 1, h) =
              Count(q, Len(q), h) + IF m = h THEN 1 ELSE 0
<1> DEFINE r == Append(q, m)
<1>1. /\ r \in Seq(S) /\ DOMAIN r = DOMAIN q \cup {Len(q) + 1} /\ DOMAIN q = 1..Len(q)
      /\ Len(q) \in Nat /\ \A i \in DOMAIN q : r[i] = q[i]
      /\ r[Len(q) + 1] = m /\ Len(r) = Len(q) + 1
  BY QueueAppend
<1> HIDE DEF r
<1>2. ASSUME NEW j \in 0..Len(q) PROVE Where(r, j, h) = Where(q, j, h)
  BY <1>1 DEF Where
<1>3. Where(r, Len(q) + 1, h) = IF m = h THEN Where(q, Len(q), h) \cup {Len(q) + 1}
                                ELSE Where(q, Len(q), h)
  <2>1. CASE m = h
    BY <1>1, <2>1 DEF Where
  <2>2. CASE m # h
    BY <1>1, <2>2 DEF Where
  <2> QED BY <2>1, <2>2
<1>4. Len(q) + 1 \notin Where(q, Len(q), h) /\ IsFiniteSet(Where(q, Len(q), h))
  <2>1. Len(q) + 1 \notin Where(q, Len(q), h)
    BY <1>1 DEF Where
  <2> QED BY <2>1, CountType
<1>5. Cardinality(Where(q, Len(q), h) \cup {Len(q) + 1}) = Cardinality(Where(q, Len(q), h)) + 1
  BY <1>4, FS_AddElement
<1>6. Cardinality(Where(q, Len(q), h)) \in Nat
  BY <1>4, FS_CardinalityType
<1>7. Count(r, Len(q) + 1, h) = Count(q, Len(q), h) + IF m = h THEN 1 ELSE 0
  BY <1>3, <1>5, <1>6 DEF Count
<1> QED BY <1>1, <1>2, <1>7 DEF r, Count

LEMMA CountTail ==
  ASSUME NEW S, NEW q \in Seq(S), q # <<>>, NEW h, NEW j \in 0..Len(q) - 1
  PROVE  Count(Tail(q), j, h) = Count(q, j + 1, h) - IF Head(q) = h THEN 1 ELSE 0
<1> DEFINE r == Tail(q)
           A == Where(r, j, h)
           B == Where(q, j + 1, h) \ {1}
           f == [i \in A |-> i + 1]
<1>1. /\ r \in Seq(S) /\ DOMAIN r = 1..Len(q) - 1 /\ DOMAIN q = 1..Len(q) /\ Len(q) \in Nat
      /\ \A i \in DOMAIN r : r[i] = q[i + 1]
      /\ 1 \in DOMAIN q /\ Head(q) = q[1]
  BY QueueTail
<1> HIDE DEF r
<1>2. f \in Bijection(A, B)
  <2>1. \A i \in A : i \in Nat /\ i + 1 \in B
    BY <1>1 DEF Where
  <2>2. \A i \in B : i - 1 \in A /\ f[i - 1] = i
    BY <1>1 DEF Where
  <2> HIDE DEF A, B
  <2>3. f \in [A -> B] /\ \A i, k \in A : f[i] = f[k] => i = k
    BY <2>1
  <2> QED BY <2>2, <2>3 DEF Bijection, Injection, Surjection, IsInjective
<1>3. IsFiniteSet(A) /\ IsFiniteSet(Where(q, j + 1, h))
  BY <1>1, CountType
<1>4. Cardinality(B) = Cardinality(A)
  BY <1>2, <1>3, FS_Bijection DEF ExistsBijection
<1>5. Cardinality(B) = IF 1 \in Where(q, j + 1, h) THEN Cardinality(Where(q, j + 1, h)) - 1
                       ELSE Cardinality(Where(q, j + 1, h))
  BY <1>3, FS_RemoveElement
<1>6. 1 \in Where(q, j + 1, h) <=> Head(q) = h
  BY <1>1 DEF Where
<1>7. Cardinality(Where(q, j + 1, h)) \in Nat
  BY <1>3, FS_CardinalityType
<1> HIDE DEF A, B
<1>8. Cardinality(A) = Cardinality(Where(q, j + 1, h)) - IF Head(q) = h THEN 1 ELSE 0
  BY <1>4, <1>5, <1>6, <1>7
<1> QED BY <1>8 DEF A, Count, r

LEMMA CountConcat ==
  ASSUME NEW S, NEW q \in Seq(S), NEW r \in Seq(S), NEW h
  PROVE  /\ q \o r \in Seq(S) /\ Len(q \o r) = Len(q) + Len(r)
         /\ \A j \in 0..Len(q) : Count(q \o r, j, h) = Count(q, j, h)
         /\ \A j \in Len(q)..Len(q) + Len(r) :
              /\ Count(q \o r, j, h) >= Count(q, Len(q), h)
              /\ (\A i \in DOMAIN r : r[i] # h) => Count(q \o r, j, h) = Count(q, Len(q), h)
         /\ (\E i \in DOMAIN r : r[i] = h) =>
              Count(q \o r, Len(q) + Len(r), h) >= Count(q, Len(q), h) + 1
<1> DEFINE p == q \o r
           A == Where(q, Len(q), h)
<1>1. /\ p \in Seq(S) /\ DOMAIN p = 1..Len(q) + Len(r) /\ DOMAIN q = 1..Len(q)
      /\ DOMAIN r = 1..Len(r) /\ Len(q) \in Nat /\ Len(r) \in Nat
      /\ Len(p) = Len(q) + Len(r)
      /\ \A i \in DOMAIN q : p[i] = q[i]
      /\ \A i \in DOMAIN r : p[Len(q) + i] = r[i]
      /\ \A i \in DOMAIN p \ DOMAIN q : i - Len(q) \in DOMAIN r /\ p[i] = r[i - Len(q)]
  OBVIOUS
<1> HIDE DEF p
<1>2. ASSUME NEW j \in 0..Len(q) PROVE Where(p, j, h) = Where(q, j, h)
  BY <1>1 DEF Where
<1>3. ASSUME NEW j \in Len(q)..Len(q) + Len(r)
      PROVE  /\ Count(p, j, h) >= Count(q, Len(q), h)
             /\ (\A i \in DOMAIN r : r[i] # h) => Count(p, j, h) = Count(q, Len(q), h)
  <2>1. Where(q, Len(q), h) \subseteq Where(p, j, h)
    BY <1>1 DEF Where
  <2>2. (\A i \in DOMAIN r : r[i] # h) => Where(p, j, h) = Where(q, Len(q), h)
    BY <1>1 DEF Where
  <2>3. IsFiniteSet(Where(p, j, h))
    BY <1>1, CountType
  <2>4. Cardinality(Where(p, j, h)) >= Cardinality(Where(q, Len(q), h))
    <3>1. /\ Cardinality(Where(q, Len(q), h)) <= Cardinality(Where(p, j, h))
          /\ IsFiniteSet(Where(q, Len(q), h))
      BY <2>1, <2>3, FS_Subset
    <3> QED BY <2>3, <3>1, FS_CardinalityType
  <2> QED BY <2>2, <2>4 DEF Count
<1>4. ASSUME NEW i \in DOMAIN r, r[i] = h
      PROVE  Count(p, Len(q) + Len(r), h) >= Count(q, Len(q), h) + 1
  <2> DEFINE B == Where(p, Len(q) + Len(r), h)
             x == Len(q) + i
  <2>1. A \cup {x} \subseteq B /\ x \notin A
    BY <1>1, <1>4 DEF Where
  <2>2. IsFiniteSet(A) /\ IsFiniteSet(B)
    BY <1>1, CountType
  <2> HIDE DEF A, B, x
  <2>3. Cardinality(A \cup {x}) = Cardinality(A) + 1 /\ Cardinality(A) \in Nat
    BY <2>1, <2>2, FS_AddElement, FS_CardinalityType
  <2>4. Cardinality(A \cup {x}) <= Cardinality(B) /\ Cardinality(B) \in Nat
    BY <2>1, <2>2, FS_Subset, FS_CardinalityType
  <2>5. Cardinality(B) >= Cardinality(A) + 1
    BY <2>3, <2>4
  <2> QED BY <2>5 DEF A, B, Count
<1> QED BY <1>1, <1>2, <1>3, <1>4 DEF p, Count

-----------------------------------------------------------------------------
(* The hints                                                               *)

LEMMA HintIs ==
  ASSUME NEW op, NEW t, NEW k, NEW op2, NEW t2, NEW k2
  PROVE  Hint(op, t, k) = Hint(op2, t2, k2) <=> op = op2 /\ t = t2 /\ k = k2
BY DEF Hint

LEMMA HintTypes ==
  ASSUME TypeOK, NEW s \in Server
  PROVE  /\ m_hint_log[s] \in Seq(HintTask) /\ Len(m_hint_log[s]) \in Nat
         /\ \A t \in Server, k \in Key : m_hints[s][t][k] \in Int
BY DEF TypeOK

LEMMA WhereAll ==
  ASSUME NEW S, NEW q \in Seq(S), NEW h
  PROVE  {i \in DOMAIN q : q[i] = h} = Where(q, Len(q), h)
BY DEF Where

LEMMA LevelIs ==
  ASSUME TypeOK, NEW s \in Server, NEW t \in Server, NEW k \in Key
  PROVE  /\ Hints(s, t, k) = Level(s, t, k, Len(m_hint_log[s]))
         /\ Level(s, t, k, 0) = m_hints[s][t][k]
         /\ \A j : Level(s, t, k, j) \in Int
<1>1. m_hint_log[s] \in Seq(HintTask) /\ m_hints[s][t][k] \in Int
  BY HintTypes
<1>2. \A h : {i \in DOMAIN m_hint_log[s] : m_hint_log[s][i] = h}
               = Where(m_hint_log[s], Len(m_hint_log[s]), h)
  BY <1>1, WhereAll
<1>3. Hints(s, t, k) = Level(s, t, k, Len(m_hint_log[s]))
  BY <1>2 DEF Hints, Level, Count
<1>4. Level(s, t, k, 0) = m_hints[s][t][k]
  BY <1>1, CountNone DEF Level
<1>5. \A j : Level(s, t, k, j) \in Int
  BY <1>1, CountType DEF Level
<1> QED BY <1>3, <1>4, <1>5

\* The hints as they are when all that is posted is flushed.
LEMMA NextLevelIs ==
  ASSUME TypeOK', NEW s \in Server, NEW t \in Server, NEW k \in Key
  PROVE  /\ Hints(s, t, k)' = Level(s, t, k, Len(m_hint_log[s]))'
         /\ m_hint_log'[s] \in Seq(HintTask) /\ Len(m_hint_log'[s]) \in Nat
<1>1. m_hint_log'[s] \in Seq(HintTask) /\ Len(m_hint_log'[s]) \in Nat
  BY DEF TypeOK
<1>2. \A h : {i \in DOMAIN m_hint_log'[s] : m_hint_log'[s][i] = h}
               = Where(m_hint_log'[s], Len(m_hint_log'[s]), h)
  BY <1>1, WhereAll
<1> QED BY <1>1, <1>2 DEF Hints, Level, Count, Hint

LEMMA HintsNotNegative ==
  ASSUME TypeOK, Prefixes, NEW s \in Server, NEW t \in Server, NEW k \in Key
  PROVE  /\ m_hints[s][t][k] >= 0 /\ Hints(s, t, k) >= 0 /\ Hints(s, t, k) \in Int
<1>1. Len(m_hint_log[s]) \in Nat
  BY HintTypes
<1>2. Level(s, t, k, 0) >= 0 /\ Level(s, t, k, Len(m_hint_log[s])) >= 0
  BY <1>1 DEF Prefixes
<1> QED BY <1>2, LevelIs

\* One posted record is flushed.
LEMMA RunHintLevel ==
  ASSUME TypeOK, NEW x \in Server, RunHintLog(x),
         NEW s \in Server, NEW t \in Server, NEW k \in Key
  PROVE  IF s = x
         THEN /\ Len(m_hint_log'[s]) = Len(m_hint_log[s]) - 1 /\ Len(m_hint_log[s]) \in Nat
              /\ \A j \in 0..Len(m_hint_log'[s]) : Level(s, t, k, j)' = Level(s, t, k, j + 1)
         ELSE m_hint_log'[s] = m_hint_log[s] /\ m_hints'[s][t][k] = m_hints[s][t][k]
<1> DEFINE q == m_hint_log[x]
           h == Head(q)
<1>1. q \in Seq(HintTask) /\ q # <<>> /\ Len(q) \in Nat
  BY HintTypes DEF RunHintLog
<1>2. h \in HintTask /\ Tail(q) \in Seq(HintTask) /\ Len(Tail(q)) = Len(q) - 1
  BY <1>1, QueueTail
<1>3. h.op \in {"add", "drop"} /\ h.replica \in Server /\ h.key \in Key
        /\ h = Hint(h.op, h.replica, h.key)
  BY <1>2 DEF HintTask, Hint
<1>4. m_hints \in [Server -> [Server -> [Key -> Int]]] /\ m_hint_log \in [Server -> Seq(HintTask)]
  BY DEF TypeOK
<1>5. /\ m_hints' = [m_hints EXCEPT ![x][h.replica][h.key] =
                        IF h.op = "add" THEN @ + 1 ELSE @ - 1]
      /\ m_hint_log' = [m_hint_log EXCEPT ![x] = Tail(q)]
  BY DEF RunHintLog
<1> HIDE DEF h, q
<1>6. CASE s = x
  <2>1. m_hint_log'[s] = Tail(q) /\ m_hint_log[s] = q
    BY <1>4, <1>5, <1>6 DEF q
  <2>2. m_hints'[s][t][k] = m_hints[s][t][k]
          + (IF h = Hint("add", t, k) THEN 1 ELSE 0) - (IF h = Hint("drop", t, k) THEN 1 ELSE 0)
    <3>1. m_hints[s][t][k] \in Int
      BY <1>4
    <3>2. CASE h.replica = t /\ h.key = k
      <4>1. m_hints'[s][t][k] = IF h.op = "add" THEN m_hints[s][t][k] + 1
                                ELSE m_hints[s][t][k] - 1
        BY <1>3, <1>4, <1>5, <1>6, <3>2
      <4>2. /\ h = Hint("add", t, k) <=> h.op = "add"
            /\ h = Hint("drop", t, k) <=> h.op = "drop"
        BY <1>3, <3>2, HintIs
      <4> QED BY <1>3, <3>1, <4>1, <4>2
    <3>3. CASE ~(h.replica = t /\ h.key = k)
      <4>1. m_hints'[s][t][k] = m_hints[s][t][k]
        BY <1>3, <1>4, <1>5, <1>6, <3>3
      <4>2. h # Hint("add", t, k) /\ h # Hint("drop", t, k)
        BY <1>3, <3>3, HintIs
      <4> QED BY <3>1, <4>1, <4>2
    <3> QED BY <3>2, <3>3
  <2>3. ASSUME NEW j \in 0..Len(q) - 1 PROVE Level(s, t, k, j)' = Level(s, t, k, j + 1)
    <3>1. Count(Tail(q), j, Hint("add", t, k)) =
            Count(q, j + 1, Hint("add", t, k)) - IF h = Hint("add", t, k) THEN 1 ELSE 0
      BY <1>1, CountTail DEF h
    <3>2. Count(Tail(q), j, Hint("drop", t, k)) =
            Count(q, j + 1, Hint("drop", t, k)) - IF h = Hint("drop", t, k) THEN 1 ELSE 0
      BY <1>1, CountTail DEF h
    <3>3. /\ Count(q, j + 1, Hint("add", t, k)) \in Nat
          /\ Count(q, j + 1, Hint("drop", t, k)) \in Nat /\ m_hints[s][t][k] \in Int
      BY <1>1, <1>4, CountType
    <3>4. /\ Level(s, t, k, j)' = m_hints'[s][t][k] + Count(Tail(q), j, Hint("add", t, k))
                                    - Count(Tail(q), j, Hint("drop", t, k))
          /\ Level(s, t, k, j + 1) = m_hints[s][t][k] + Count(q, j + 1, Hint("add", t, k))
                                       - Count(q, j + 1, Hint("drop", t, k))
      BY <2>1 DEF Level, Hint
    <3> DEFINE a == IF h = Hint("add", t, k) THEN 1 ELSE 0
               d == IF h = Hint("drop", t, k) THEN 1 ELSE 0
    <3>5. a \in Int /\ d \in Int
      OBVIOUS
    <3>6. /\ Count(Tail(q), j, Hint("add", t, k)) = Count(q, j + 1, Hint("add", t, k)) - a
          /\ Count(Tail(q), j, Hint("drop", t, k)) = Count(q, j + 1, Hint("drop", t, k)) - d
          /\ m_hints'[s][t][k] = m_hints[s][t][k] + a - d
      BY <2>2, <3>1, <3>2
    <3> HIDE DEF a, d
    <3> QED BY <3>3, <3>4, <3>5, <3>6
  <2> QED BY <1>1, <1>2, <1>6, <2>1, <2>3
<1>7. CASE s # x
  BY <1>3, <1>4, <1>5, <1>7
<1> QED BY <1>6, <1>7

LEMMA SameLevel ==
  ASSUME NEW s \in Server, NEW t \in Server, NEW k \in Key,
         m_hint_log'[s] = m_hint_log[s], m_hints'[s][t][k] = m_hints[s][t][k]
  PROVE  /\ \A j : Level(s, t, k, j)' = Level(s, t, k, j)
         /\ Hints(s, t, k)' = Hints(s, t, k)
BY DEF Level, Hints, Hint

-----------------------------------------------------------------------------
(* The puts for which a peer needs a hint                                  *)

LEMMA DueFinite ==
  ASSUME Recorded, NEW s, NEW t, NEW k
  PROVE  IsFiniteSet(Due(s, t, k)) /\ Cardinality(Due(s, t, k)) \in Nat
<1>1. Due(s, t, k) \subseteq 1..MaxRequests
  BY DEF Due, Recorded, Uuid
<1>2. IsFiniteSet(1..MaxRequests)
  BY RequestsAssumption, FS_Interval
<1> QED BY <1>1, <1>2, FS_Subset, FS_CardinalityType

\* A request that was made before needs no hint that it did not need.
LEMMA DueKept ==
  ASSUME Inv, Kept, NEW u \in DOMAIN reqs, NEW s \in Server, NEW t \in Server \ {s},
         NEW k \in Key, IsDue(u, s, t, k)'
  PROVE  IsDue(u, s, t, k)
<1>1. /\ reqs'[u] = reqs[u] /\ reqs[u].kind = "put" /\ reqs[u].at = s /\ reqs[u].key = k
      /\ Pending(u) # Null
  BY DEF Kept, ReqsKept, IsDue
<1>2. CASE Owes(u, t)'
  BY <1>1, <1>2 DEF Kept, OwesNoMore, IsDue
<1>3. CASE (reqs[u].crashes = crashes /\ ~Holds(t, k, reqs[u].timestamp))'
  <2>1. TypeOK /\ reqs[u].crashes <= crashes
    BY DEF Inv, Recorded
  <2>2. reqs[u].crashes \in Nat /\ crashes \in Nat /\ reqs[u].timestamp \in Nat
    BY <2>1, ReqType DEF TypeOK
  <2>3. crashes' = crashes
    BY <1>1, <1>3, <2>1, <2>2 DEF Kept
  <2>4. ~Holds(t, k, reqs[u].timestamp)
    <3>1. PICK ts \in Nat : ts = reqs[u].timestamp
      BY <2>2
    <3>2. ~Holds(t, k, ts)'
      BY <1>1, <1>3, <3>1 DEF Holds
    <3>3. ~Holds(t, k, ts)
      BY <2>3, <3>2 DEF Kept, HoldsKept
    <3> QED BY <3>1, <3>3
  <2> QED BY <1>1, <1>3, <2>3, <2>4 DEF IsDue
<1> QED BY <1>2, <1>3 DEF IsDue

LEMMA RememberedKept ==
  ASSUME Inv, Kept, Remembered,
         \A u \in DOMAIN reqs' \ DOMAIN reqs : reqs'[u].kind = "put" => Pending(u)' # Null
  PROVE  Remembered'
<1>0. TypeOK /\ Recorded
  BY DEF Inv
<1> SUFFICES ASSUME NEW u \in DOMAIN reqs', reqs'[u].kind = "put", Pending(u)' = Null
             PROVE  reqs'[u].crashes < crashes'
  BY DEF Remembered
<1>1. u \in DOMAIN reqs
  OBVIOUS
<1>2. /\ reqs'[u] = reqs[u] /\ reqs[u].crashes \in Nat /\ crashes \in Nat
      /\ reqs[u].crashes <= crashes
  BY <1>0, <1>1, ReqType DEF Kept, ReqsKept, TypeOK, Recorded
<1>3. CASE crashes' = crashes
  <2>1. Pending(u) = Null
    BY <1>1, <1>3 DEF Kept
  <2> QED BY <1>1, <1>2, <1>3, <2>1 DEF Remembered
<1>4. CASE crashes' # crashes
  BY <1>2, <1>4 DEF Kept
<1> QED BY <1>3, <1>4

\* No put arrives, and no hint is lost.
LEMMA CoverKept ==
  ASSUME HintInv, Inv', Kept, NEW c \in Conn, NEW k \in Key,
         \A u \in DOMAIN reqs' \ DOMAIN reqs : reqs'[u].kind = "get",
         Mode = "hinted_handoff", Hints(c[1], c[2], k)' = Hints(c[1], c[2], k)
  PROVE  Cardinality(Due(c[1], c[2], k))' <= Hints(c[1], c[2], k)'
<1>0. Inv /\ Recorded /\ c[1] \in Server /\ c[2] \in Server \ {c[1]} /\ TypeOK /\ Prefixes
  BY ConnType DEF HintInv, Inv
<1>1. Due(c[1], c[2], k)' \subseteq Due(c[1], c[2], k)
  <2> SUFFICES ASSUME NEW u \in DOMAIN reqs', IsDue(u, c[1], c[2], k)'
               PROVE  u \in DOMAIN reqs /\ IsDue(u, c[1], c[2], k)
    BY DEF Due
  <2>1. u \in DOMAIN reqs
    BY DEF IsDue
  <2> QED BY <1>0, <2>1, DueKept
<1>2. Cardinality(Due(c[1], c[2], k)') <= Cardinality(Due(c[1], c[2], k))
        /\ Cardinality(Due(c[1], c[2], k)') \in Nat /\ Cardinality(Due(c[1], c[2], k)) \in Nat
  <2>1. IsFiniteSet(Due(c[1], c[2], k))
    BY <1>0, DueFinite
  <2> QED BY <1>1, <2>1, FS_Subset, FS_CardinalityType
<1>3. Cardinality(Due(c[1], c[2], k)) <= Hints(c[1], c[2], k)
  BY DEF HintInv, HintsCover
<1>4. Hints(c[1], c[2], k) \in Int
  BY <1>0, HintsNotNegative
<1> QED BY <1>2, <1>3, <1>4

\* A step that leaves the hints alone.
LEMMA HintsAlone ==
  ASSUME HintInv, Inv', Kept, m_hints' = m_hints, m_hint_log' = m_hint_log,
         \A u \in DOMAIN reqs' \ DOMAIN reqs : reqs'[u].kind = "get"
  PROVE  HintInv'
<1>0. Inv /\ Remembered /\ Prefixes
  BY DEF HintInv
<1>1. Remembered'
  BY <1>0, RememberedKept
<1>2. \A s \in Server, t \in Server, k \in Key :
        /\ \A j : Level(s, t, k, j)' = Level(s, t, k, j)
        /\ Hints(s, t, k)' = Hints(s, t, k)
  BY SameLevel
<1>3. Prefixes'
  BY <1>0, <1>2 DEF Prefixes
<1>4. HintsCover'
  <2> SUFFICES ASSUME Mode = "hinted_handoff", NEW c \in Conn, NEW k \in Key
               PROVE  Cardinality(Due(c[1], c[2], k))' <= Hints(c[1], c[2], k)'
    BY DEF HintsCover
  <2>1. Hints(c[1], c[2], k)' = Hints(c[1], c[2], k)
    BY <1>2, ConnType
  <2> QED BY <2>1, CoverKept
<1> QED BY <1>1, <1>3, <1>4 DEF HintInv

\* A record is flushed: the counter catches up.
LEMMA HintsFlushed ==
  ASSUME HintInv, Inv', Kept, NEW x \in Server, RunHintLog(x)
  PROVE  HintInv'
<1>0. Inv /\ TypeOK /\ Remembered /\ Prefixes /\ reqs' = reqs /\ TypeOK'
  BY DEF HintInv, Inv, RunHintLog
<1>1. Remembered'
  BY <1>0, RememberedKept
<1>2. ASSUME NEW s \in Server, NEW t \in Server, NEW k \in Key
      PROVE  /\ Hints(s, t, k)' = Hints(s, t, k)
             /\ \A j \in 0..Len(m_hint_log'[s]) : Level(s, t, k, j)' >= 0
  <2>1. CASE s # x
    <3>1. m_hint_log'[s] = m_hint_log[s] /\ m_hints'[s][t][k] = m_hints[s][t][k]
      BY <1>0, <2>1, RunHintLevel
    <3> QED BY <1>0, <3>1, SameLevel DEF Prefixes
  <2>2. CASE s = x
    <3>1. /\ Len(m_hint_log'[s]) = Len(m_hint_log[s]) - 1 /\ Len(m_hint_log[s]) \in Nat
          /\ \A j \in 0..Len(m_hint_log'[s]) : Level(s, t, k, j)' = Level(s, t, k, j + 1)
      BY <1>0, <2>2, RunHintLevel
    <3>2. Len(m_hint_log'[s]) \in Nat
      BY <1>0 DEF TypeOK
    <3>3. \A j \in 0..Len(m_hint_log'[s]) : Level(s, t, k, j)' >= 0
      BY <1>0, <3>1, <3>2 DEF Prefixes
    <3>4. Hints(s, t, k) = Level(s, t, k, Len(m_hint_log[s]))
      BY <1>0, LevelIs
    <3>5. Hints(s, t, k)' = Level(s, t, k, Len(m_hint_log[s]))'
      BY <1>0, NextLevelIs
    <3>6. Level(s, t, k, Len(m_hint_log[s]))' = Level(s, t, k, Len(m_hint_log[s]))
      <4>1. PICK j \in 0..Len(m_hint_log'[s]) : j = Len(m_hint_log'[s])
        BY <3>2
      <4>2. Level(s, t, k, j)' = Level(s, t, k, j + 1) /\ j + 1 = Len(m_hint_log[s])
        BY <3>1, <4>1
      <4> QED BY <4>1, <4>2 DEF Level, Hint
    <3> QED BY <3>3, <3>4, <3>5, <3>6
  <2> QED BY <2>1, <2>2
<1>3. Prefixes'
  BY <1>2 DEF Prefixes
<1>4. HintsCover'
  <2> SUFFICES ASSUME Mode = "hinted_handoff", NEW c \in Conn, NEW k \in Key
               PROVE  Cardinality(Due(c[1], c[2], k))' <= Hints(c[1], c[2], k)'
    BY DEF HintsCover
  <2>1. Hints(c[1], c[2], k)' = Hints(c[1], c[2], k)
    BY <1>2, ConnType
  <2> QED BY <1>0, <2>1, CoverKept
<1> QED BY <1>1, <1>3, <1>4 DEF HintInv

\* A process dies: its posted records are gone, and so are its counters.
LEMMA HintsStopped ==
  ASSUME HintInv, Inv', Kept, NEW x \in Server, Stop(x)
  PROVE  HintInv'
<1>0. Inv /\ TypeOK /\ Remembered /\ Prefixes /\ reqs' = reqs /\ TypeOK' /\ Recorded'
  BY DEF HintInv, Inv, Stop
<1>1. Remembered'
  BY <1>0, RememberedKept
<1>2. /\ m_hints' = m_hints /\ m_hint_log'[x] = <<>>
      /\ \A s \in Server \ {x} : m_hint_log'[s] = m_hint_log[s]
  BY <1>0 DEF Stop, TypeOK
<1>3. ASSUME NEW s \in Server, NEW t \in Server, NEW k \in Key
      PROVE  \A j \in 0..Len(m_hint_log'[s]) : Level(s, t, k, j)' >= 0
  <2>1. CASE s # x
    <3>1. \A j : Level(s, t, k, j)' = Level(s, t, k, j)
      BY <1>2, <2>1, SameLevel
    <3> QED BY <1>0, <1>2, <2>1, <3>1 DEF Prefixes
  <2>2. CASE s = x
    <3> SUFFICES Level(s, t, k, 0)' >= 0
      BY <1>2, <2>2
    <3>1. \A h : Count(m_hint_log'[s], 0, h) = 0
      <4>1. m_hint_log'[s] \in Seq(HintTask)
        BY <1>0, NextLevelIs
      <4> QED BY <4>1, CountNone
    <3>2. m_hints[s][t][k] >= 0 /\ m_hints[s][t][k] \in Int
      BY <1>0, HintsNotNegative, HintTypes
    <3>3. Level(s, t, k, 0)' = m_hints[s][t][k]
      BY <1>2, <3>1, <3>2 DEF Level, Hint
    <3> QED BY <3>2, <3>3
  <2> QED BY <2>1, <2>2
<1>4. Prefixes'
  BY <1>3 DEF Prefixes
<1>5. HintsCover'
  <2> SUFFICES ASSUME Mode = "hinted_handoff", NEW c \in Conn, NEW k \in Key
               PROVE  Cardinality(Due(c[1], c[2], k))' <= Hints(c[1], c[2], k)'
    BY DEF HintsCover
  <2>0. c[1] \in Server /\ c[2] \in Server
    BY ConnType
  <2>1. CASE c[1] # x
    <3>1. Hints(c[1], c[2], k)' = Hints(c[1], c[2], k)
      BY <1>2, <2>0, <2>1, SameLevel
    <3> QED BY <1>0, <3>1, CoverKept
  <2>2. CASE c[1] = x
    <3>1. Due(c[1], c[2], k)' = {}
      <4>1. ASSUME NEW u \in DOMAIN reqs, reqs[u].at = x, reqs[u].kind = "put"
            PROVE  Pending(u)' = Null
        <5>1. u \in Uuid
          BY <1>0 DEF Inv, Recorded
        <5>2. m_pending_writes'[x][u] = Null
          BY <1>0, <5>1 DEF Stop, TypeOK
        <5> QED BY <1>0, <4>1, <5>2 DEF Pending
      <4> QED BY <1>0, <2>2, <4>1 DEF Due, IsDue
    <3>2. Cardinality(Due(c[1], c[2], k)') = 0
      BY <3>1, FS_EmptySet
    <3>3. Hints(c[1], c[2], k)' >= 0
      <4>1. Hints(c[1], c[2], k)' = Level(c[1], c[2], k, Len(m_hint_log[c[1]]))'
        BY <1>0, <2>0, NextLevelIs
      <4>2. PICK j \in 0..Len(m_hint_log'[c[1]]) : j = Len(m_hint_log'[c[1]])
        BY <1>0, <2>0, NextLevelIs
      <4>3. Level(c[1], c[2], k, j)' >= 0
        BY <1>3, <2>0
      <4>4. Level(c[1], c[2], k, Len(m_hint_log[c[1]]))' = Level(c[1], c[2], k, j)'
        BY <4>2 DEF Level, Hint
      <4> QED BY <4>1, <4>3, <4>4
    <3> QED BY <3>2, <3>3
  <2> QED BY <2>1, <2>2
<1> QED BY <1>1, <1>4, <1>5 DEF HintInv

\* An acknowledgement of u by t takes a hint away: u needed it, and does not
\* any more.
LEMMA HintsDropped ==
  ASSUME HintInv, Inv', Kept, NEW c \in Conn, NEW u \in DOMAIN reqs,
         reqs[u].kind = "put", reqs[u].at = c[2], Pending(u) # Null, TakesAck(u, c[1]),
         m_hint_log' = DropHint(c[2], c[1], reqs[u].key),
         m_hints' = m_hints, reqs' = reqs, crashes' = crashes,
         Mode = "hinted_handoff"
  PROVE  HintInv'
<1> DEFINE x == c[2]
           y == c[1]
           q == m_hint_log[x]
<1>0. Inv /\ TypeOK /\ Remembered /\ Prefixes /\ HintsCover /\ TypeOK' /\ Recorded
  BY DEF HintInv, Inv
<1>1. Remembered'
  BY <1>0, RememberedKept
<1>2. /\ x \in Server /\ y \in Server /\ x # y /\ <<x, y>> \in Conn
      /\ q \in Seq(HintTask) /\ Len(q) \in Nat
  BY <1>0, ConnType, HintTypes DEF Back
<1>3. PICK g \in Key : g = reqs[u].key
  BY <1>0, ReqType
<1>4. IsDue(u, x, y, g)
  BY <1>3 DEF IsDue, TakesAck
<1>5. Hints(x, y, g) >= 1 /\ Hints(x, y, g) \in Int
  <2> DEFINE E == Due(x, y, g)
  <2>1. u \in E
    BY <1>4 DEF Due
  <2>2. IsFiniteSet(E) /\ Cardinality(E) \in Nat
    BY <1>0, DueFinite
  <2>3. Cardinality(E) <= Hints(x, y, g)
    <3>1. <<x, y>>[1] = x /\ <<x, y>>[2] = y
      OBVIOUS
    <3> QED BY <1>0, <1>2, <3>1 DEF HintsCover
  <2> HIDE DEF E
  <2>4. Cardinality(E) >= 1
    <3>1. E # {}
      BY <2>1
    <3>2. Cardinality(E) # 0
      BY <2>2, <3>1, FS_EmptySet
    <3> QED BY <2>2, <3>2
  <2>5. Hints(x, y, g) \in Int
    BY <1>0, <1>2, HintsNotNegative
  <2> QED BY <2>2, <2>3, <2>4, <2>5
<1> DEFINE h == Hint("drop", y, g)
<1>6. /\ h \in HintTask
      /\ m_hint_log'[x] = Append(q, h)
      /\ \A s \in Server \ {x} : m_hint_log'[s] = m_hint_log[s]
  BY <1>0, <1>2, <1>3 DEF DropHint, Hint, HintTask, TypeOK
<1> HIDE DEF q, h
<1>7. ASSUME NEW t \in Server, NEW k \in Key
      PROVE  /\ \A j \in 0..Len(q) : Level(x, t, k, j)' = Level(x, t, k, j)
             /\ Hints(x, t, k)' = Hints(x, t, k) - IF t = y /\ k = g THEN 1 ELSE 0
             /\ \A j : j = Len(q) + 1 => Level(x, t, k, j)' = Hints(x, t, k)'
             /\ Len(m_hint_log'[x]) = Len(q) + 1
  <2> DEFINE a == Hint("add", t, k)
             d == Hint("drop", t, k)
             r == Append(q, h)
  <2>1. /\ Len(r) = Len(q) + 1
        /\ \A j \in 0..Len(q) : Count(r, j, a) = Count(q, j, a)
        /\ Count(r, Len(q) + 1, a) = Count(q, Len(q), a) + IF h = a THEN 1 ELSE 0
        /\ \A j \in 0..Len(q) : Count(r, j, d) = Count(q, j, d)
        /\ Count(r, Len(q) + 1, d) = Count(q, Len(q), d) + IF h = d THEN 1 ELSE 0
    BY <1>2, <1>6, CountAppend DEF q
  <2>2. h # a /\ (h = d <=> t = y /\ k = g)
    BY HintIs DEF h
  <2>3. \A j : Count(q, j, a) \in Nat /\ Count(q, j, d) \in Nat /\ m_hints[x][t][k] \in Int
    BY <1>0, <1>2, CountType, HintTypes DEF q
  <2>4. \A j : /\ Level(x, t, k, j) = m_hints[x][t][k] + Count(q, j, a) - Count(q, j, d)
               /\ Level(x, t, k, j)' = m_hints[x][t][k] + Count(r, j, a) - Count(r, j, d)
    BY <1>6 DEF Level, Hint, q
  <2>5. Hints(x, t, k) = Level(x, t, k, Len(q))
    BY <1>0, <1>2, LevelIs DEF q
  <2>6. Hints(x, t, k)' = m_hints[x][t][k] + Count(r, Len(r), a) - Count(r, Len(r), d)
    <3>1. Hints(x, t, k)' = Level(x, t, k, Len(m_hint_log[x]))'
      BY <1>0, <1>2, NextLevelIs
    <3> QED BY <1>6, <3>1 DEF Level, Hint
  <2> HIDE DEF a, d, r
  <2>7. \A j \in 0..Len(q) : Level(x, t, k, j)' = Level(x, t, k, j)
    BY <2>1, <2>3, <2>4
  <2>8. Count(r, Len(q) + 1, a) = Count(q, Len(q), a)
    BY <2>1, <2>2, <2>3
  <2>9. Count(r, Len(q) + 1, d) = Count(q, Len(q), d) + IF t = y /\ k = g THEN 1 ELSE 0
    BY <2>1, <2>2
  <2>10. Hints(x, t, k)' = Hints(x, t, k) - IF t = y /\ k = g THEN 1 ELSE 0
    <3> DEFINE n == IF t = y /\ k = g THEN 1 ELSE 0
    <3>1. n \in Int
      OBVIOUS
    <3>2. Count(r, Len(r), d) = Count(q, Len(q), d) + n /\ Count(r, Len(r), a) = Count(q, Len(q), a)
      BY <2>1, <2>8, <2>9
    <3>3. Hints(x, t, k) = m_hints[x][t][k] + Count(q, Len(q), a) - Count(q, Len(q), d)
      BY <2>4, <2>5
    <3>4. Count(q, Len(q), a) \in Nat /\ Count(q, Len(q), d) \in Nat /\ m_hints[x][t][k] \in Int
      BY <2>3
    <3> HIDE DEF n
    <3>5. Hints(x, t, k)' = Hints(x, t, k) - n
      BY <2>6, <3>1, <3>2, <3>3, <3>4
    <3> QED BY <3>5 DEF n
  <2>11. \A j : j = Len(q) + 1 => Level(x, t, k, j)' = Hints(x, t, k)'
    BY <2>1, <2>4, <2>6
  <2>12. Len(m_hint_log'[x]) = Len(q) + 1
    BY <1>6, <2>1 DEF r
  <2> QED BY <2>7, <2>10, <2>11, <2>12
<1>8. Prefixes'
  <2> SUFFICES ASSUME NEW s \in Server, NEW t \in Server, NEW k \in Key,
                      NEW j \in 0..Len(m_hint_log'[s])
               PROVE  Level(s, t, k, j)' >= 0
    BY DEF Prefixes
  <2>1. CASE s # x
    <3>1. Level(s, t, k, j)' = Level(s, t, k, j) /\ m_hint_log'[s] = m_hint_log[s]
      BY <1>6, <2>1, SameLevel
    <3> QED BY <1>0, <3>1 DEF Prefixes
  <2>2. CASE s = x /\ j \in 0..Len(q)
    <3>1. Level(x, t, k, j)' = Level(x, t, k, j)
      BY <1>7, <2>2
    <3> QED BY <1>0, <1>2, <2>2, <3>1 DEF Prefixes, q
  <2>3. CASE s = x /\ j = Len(q) + 1
    <3>1. Level(x, t, k, j)' = Hints(x, t, k)'
      BY <1>7, <2>3
    <3>2. Hints(x, t, k) >= 0 /\ Hints(x, t, k) \in Int
      BY <1>0, <1>2, HintsNotNegative
    <3>3. Hints(x, t, k)' >= 0
      <4>1. CASE t = y /\ k = g
        BY <1>5, <1>7, <4>1
      <4>2. CASE ~(t = y /\ k = g)
        BY <1>7, <3>2, <4>2
      <4> QED BY <4>1, <4>2
    <3> QED BY <2>3, <3>1, <3>3
  <2>4. s = x => Len(m_hint_log'[s]) = Len(q) + 1 /\ Len(q) \in Nat
    BY <1>2, <1>7 DEF q
  <2> QED BY <2>1, <2>2, <2>3, <2>4
<1>9. HintsCover'
  <2> SUFFICES ASSUME NEW d \in Conn, NEW k \in Key
               PROVE  Cardinality(Due(d[1], d[2], k))' <= Hints(d[1], d[2], k)'
    BY DEF HintsCover
  <2>0. d[1] \in Server /\ d[2] \in Server
    BY ConnType
  <2>1. CASE d[1] # x
    <3>1. Hints(d[1], d[2], k)' = Hints(d[1], d[2], k)
      BY <1>6, <2>0, <2>1, SameLevel
    <3> QED BY <3>1, CoverKept
  <2>2. CASE d[1] = x /\ ~(d[2] = y /\ k = g)
    <3>1. Hints(d[1], d[2], k)' = Hints(d[1], d[2], k)
      <4>1. Hints(d[1], d[2], k) \in Int
        BY <1>0, <2>0, HintsNotNegative
      <4>2. Hints(x, d[2], k)' = Hints(x, d[2], k) - 0
        BY <1>7, <2>0, <2>2
      <4> QED BY <2>2, <4>1, <4>2 DEF Hints, Hint
    <3> QED BY <3>1, CoverKept
  <2>3. CASE d[1] = x /\ d[2] = y /\ k = g
    <3> DEFINE E == Due(x, y, g)
               F == Due(x, y, g)'
    <3>1. F \subseteq E \ {u}
      <4>1. ASSUME NEW v \in DOMAIN reqs, IsDue(v, x, y, g)'
            PROVE  IsDue(v, x, y, g) /\ v # u
        <5>1. IsDue(v, x, y, g)
          <6>1. x \in Server /\ y \in Server \ {x} /\ g \in Key
            BY <1>2
          <6> QED BY <1>0, <4>1, <6>1, DueKept
        <5>2. ~IsDue(u, x, y, g)'
          <6>1. ~Owes(u, y)' /\ y \in Acking(u)
            BY DEF TakesAck
          <6>2. reqs[u].crashes = crashes => Holds(y, g, reqs[u].timestamp)
            <7> HAVE reqs[u].crashes = crashes
            <7>1. PICK D \in SUBSET Server : Waits(u, D)
              BY <1>0 DEF Inv, AllCounted, Counted
            <7> DEFINE L == ({reqs[u].at} \cup D \cup Acking(u)) \ Holders(u)
            <7>2. Cardinality(L) <= crashes - reqs[u].crashes
              BY <7>1 DEF Waits, Survives
            <7>3. L \subseteq Server
              BY <1>2 DEF Acking
            <7> HIDE DEF L
            <7>4. IsFiniteSet(L) /\ Cardinality(L) \in Nat /\ crashes \in Nat
              BY <1>0, <7>3, ServersType, FS_Subset, FS_CardinalityType DEF TypeOK
            <7>5. Cardinality(L) = 0
              BY <7>2, <7>4
            <7>6. L = {}
              BY <7>4, <7>5, FS_EmptySet
            <7>7. y \in Holders(u)
              BY <6>1, <7>6 DEF L
            <7> QED BY <1>3, <7>7 DEF Holders
          <6>3. PICK ts \in Nat : ts = reqs[u].timestamp
            BY <1>0, ReqType
          <6>4. reqs[u].crashes = crashes => Holds(y, g, ts)'
            BY <1>2, <6>2, <6>3 DEF Kept, HoldsKept
          <6>5. Holds(y, g, ts)' <=> Holds(y, g, reqs[u].timestamp)'
            BY <6>3 DEF Holds
          <6> QED BY <6>1, <6>4, <6>5 DEF IsDue
        <5> QED BY <4>1, <5>1, <5>2
      <4> QED BY <4>1 DEF Due
    <3>2. u \in E /\ IsFiniteSet(E) /\ Cardinality(E) \in Nat
      BY <1>0, <1>4, DueFinite DEF Due
    <3>3. Cardinality(E) <= Hints(x, y, g)
      <4>1. <<x, y>>[1] = x /\ <<x, y>>[2] = y
        OBVIOUS
      <4> QED BY <1>0, <1>2, <4>1 DEF HintsCover
    <3>4. Hints(x, y, g)' = Hints(x, y, g) - 1
      BY <1>2, <1>7
    <3> HIDE DEF E, F
    <3>5. Cardinality(E \ {u}) = Cardinality(E) - 1 /\ IsFiniteSet(E \ {u})
      BY <3>2, FS_RemoveElement
    <3>6. Cardinality(F) <= Cardinality(E \ {u}) /\ Cardinality(F) \in Nat
      BY <3>1, <3>5, FS_Subset, FS_CardinalityType
    <3>7. Cardinality(F) <= Hints(x, y, g)'
      BY <1>5, <3>2, <3>3, <3>4, <3>5, <3>6
    <3> QED BY <2>3, <3>7 DEF F, Due, IsDue, Hints, Owes, Holds, Hint
  <2> QED BY <2>1, <2>2, <2>3
<1> QED BY <1>1, <1>8, <1>9 DEF HintInv

\* A put posts a hint for every peer, and no other.
LEMMA AddsAll ==
  ASSUME TypeOK, NEW s \in Server, NEW g \in Key, Mode = "hinted_handoff",
         m_hint_log' = AddHints(s, g), m_hints' = m_hints
  PROVE  /\ \A x \in Server \ {s} : m_hint_log'[x] = m_hint_log[x]
         /\ \A t \in Server, k \in Key :
              /\ \A j \in 0..Len(m_hint_log[s]) : Level(s, t, k, j)' = Level(s, t, k, j)
              /\ \A j \in Len(m_hint_log[s])..Len(m_hint_log'[s]) :
                   Level(s, t, k, j)' >= Hints(s, t, k)
              /\ t # s /\ k = g =>
                   \A j : j = Len(m_hint_log'[s]) => Level(s, t, k, j)' >= Hints(s, t, k) + 1
         /\ Len(m_hint_log[s]) \in Nat /\ Len(m_hint_log'[s]) \in Nat
         /\ Len(m_hint_log[s]) <= Len(m_hint_log'[s])
<1> DEFINE q == m_hint_log[s]
           adds == [i \in DOMAIN PeersOf(s) |-> Hint("add", PeersOf(s)[i], g)]
<1>1. /\ DOMAIN PeersOf(s) = 1..N - 1 /\ N \in Nat /\ N - 1 \in Nat /\ Server = 1..N
      /\ s \in 1..N
  BY ServersType DEF PeersOf, N
<1>2. \A i \in 1..N - 1 : PeersOf(s)[i] \in Server
  BY ServersType DEF PeersOf, N
<1>3. \A i \in 1..N - 1 : Hint("add", PeersOf(s)[i], g) \in HintTask
  BY <1>2 DEF Hint, HintTask
<1>4. adds \in Seq(HintTask) /\ DOMAIN adds = 1..N - 1
  BY <1>1, <1>3
<1>5. \A i \in DOMAIN adds : adds[i] = Hint("add", PeersOf(s)[i], g)
  BY <1>1
<1>6. m_hint_log \in [Server -> Seq(HintTask)] /\ q \in Seq(HintTask) /\ Len(q) \in Nat
  BY DEF TypeOK
<1>7. m_hint_log' = [m_hint_log EXCEPT ![s] = q \o adds]
  BY DEF AddHints
<1> HIDE DEF adds, q
<1>8. m_hint_log'[s] = q \o adds /\ \A x \in Server \ {s} : m_hint_log'[x] = m_hint_log[x]
  BY <1>6, <1>7
<1>9. \A h :
         /\ q \o adds \in Seq(HintTask) /\ Len(q \o adds) = Len(q) + Len(adds)
         /\ \A j \in 0..Len(q) : Count(q \o adds, j, h) = Count(q, j, h)
         /\ \A j \in Len(q)..Len(q) + Len(adds) :
              /\ Count(q \o adds, j, h) >= Count(q, Len(q), h)
              /\ (\A i \in DOMAIN adds : adds[i] # h) =>
                   Count(q \o adds, j, h) = Count(q, Len(q), h)
         /\ (\E i \in DOMAIN adds : adds[i] = h) =>
              Count(q \o adds, Len(q) + Len(adds), h) >= Count(q, Len(q), h) + 1
  <2> TAKE h
  <2>1. q \in Seq(HintTask) /\ adds \in Seq(HintTask)
    BY <1>4, <1>6
  <2> QED BY ONLY <2>1, CountConcat
<1>10. \A t \in Server \ {s} : \E i \in DOMAIN adds : adds[i] = Hint("add", t, g)
  <2> TAKE t \in Server \ {s}
  <2>1. CASE t < s
    <3>1. t \in 1..N - 1 /\ PeersOf(s)[t] = t
      BY <1>1, <2>1, ServersType DEF PeersOf, N
    <3> QED BY <1>4, <1>5, <3>1
  <2>2. CASE ~(t < s)
    <3>1. t - 1 \in 1..N - 1 /\ PeersOf(s)[t - 1] = t
      BY <1>1, <2>2, ServersType DEF PeersOf, N
    <3> QED BY <1>4, <1>5, <3>1
  <2> QED BY <2>1, <2>2
<1>11. ASSUME NEW t \in Server, NEW k \in Key
       PROVE  /\ \A j \in 0..Len(q) : Level(s, t, k, j)' = Level(s, t, k, j)
              /\ \A j \in Len(q)..Len(q \o adds) : Level(s, t, k, j)' >= Hints(s, t, k)
              /\ t # s /\ k = g =>
                   \A j : j = Len(q \o adds) => Level(s, t, k, j)' >= Hints(s, t, k) + 1
  <2> DEFINE a == Hint("add", t, k)
             d == Hint("drop", t, k)
             p == q \o adds
  <2>1. /\ p \in Seq(HintTask) /\ Len(p) = Len(q) + Len(adds)
        /\ \A j \in 0..Len(q) : Count(p, j, a) = Count(q, j, a)
        /\ \A j \in Len(q)..Len(q) + Len(adds) : Count(p, j, a) >= Count(q, Len(q), a)
        /\ (\E i \in DOMAIN adds : adds[i] = a) =>
             Count(p, Len(q) + Len(adds), a) >= Count(q, Len(q), a) + 1
    BY ONLY <1>9 DEF p
  <2>2. /\ \A j \in 0..Len(q) : Count(p, j, d) = Count(q, j, d)
        /\ \A j \in Len(q)..Len(q) + Len(adds) : Count(p, j, d) = Count(q, Len(q), d)
    <3>1. \A i \in DOMAIN adds : adds[i] # d
      BY <1>5, HintIs
    <3> QED BY ONLY <1>9, <3>1 DEF p
  <2>3. m_hints[s][t][k] \in Int
    BY HintTypes
  <2>4. \A j : /\ Level(s, t, k, j) = m_hints[s][t][k] + Count(q, j, a) - Count(q, j, d)
               /\ Level(s, t, k, j)' = m_hints[s][t][k] + Count(p, j, a) - Count(p, j, d)
    BY <1>8 DEF Level, Hint, q
  <2>5. Hints(s, t, k) = Level(s, t, k, Len(q))
    BY LevelIs DEF q
  <2>6. /\ \A j : Count(q, j, a) \in Nat /\ Count(q, j, d) \in Nat
        /\ \A j : Count(p, j, a) \in Nat /\ Count(p, j, d) \in Nat
    BY <1>6, <2>1, CountType
  <2>7. Len(adds) \in Nat
    BY <1>4
  <2>8. t # s /\ k = g => \E i \in DOMAIN adds : adds[i] = a
    BY <1>10
  <2> HIDE DEF a, d, p
  <2>9. \A j \in 0..Len(q) : Level(s, t, k, j)' = Level(s, t, k, j)
    BY <2>1, <2>2, <2>4
  <2>10. ASSUME NEW j \in Len(q)..Len(q) + Len(adds) PROVE Level(s, t, k, j)' >= Hints(s, t, k)
    <3>1. Count(p, j, a) >= Count(q, Len(q), a) /\ Count(p, j, d) = Count(q, Len(q), d)
      BY <2>1, <2>2
    <3>2. Hints(s, t, k) = m_hints[s][t][k] + Count(q, Len(q), a) - Count(q, Len(q), d)
      BY <2>4, <2>5
    <3>3. Level(s, t, k, j)' = m_hints[s][t][k] + Count(p, j, a) - Count(p, j, d)
      BY <2>4
    <3>4. /\ Count(q, Len(q), a) \in Nat /\ Count(q, Len(q), d) \in Nat
          /\ Count(p, j, a) \in Nat /\ Count(p, j, d) \in Nat
      BY <2>6
    <3> QED BY <2>3, <3>1, <3>2, <3>3, <3>4
  <2>11. ASSUME t # s, k = g, NEW j, j = Len(q) + Len(adds)
         PROVE  Level(s, t, k, j)' >= Hints(s, t, k) + 1
    <3>1. Count(p, j, a) >= Count(q, Len(q), a) + 1 /\ Count(p, j, d) = Count(q, Len(q), d)
      <4>1. j \in Len(q)..Len(q) + Len(adds)
        BY <1>6, <2>7, <2>11
      <4> QED BY <2>1, <2>2, <2>8, <2>11, <4>1
    <3>2. Hints(s, t, k) = m_hints[s][t][k] + Count(q, Len(q), a) - Count(q, Len(q), d)
      BY <2>4, <2>5
    <3>3. Level(s, t, k, j)' = m_hints[s][t][k] + Count(p, j, a) - Count(p, j, d)
      BY <2>4
    <3>4. /\ Count(q, Len(q), a) \in Nat /\ Count(q, Len(q), d) \in Nat
          /\ Count(p, j, a) \in Nat /\ Count(p, j, d) \in Nat
      BY <2>6
    <3> QED BY <2>3, <3>1, <3>2, <3>3, <3>4
  <2> QED BY <2>1, <2>9, <2>10, <2>11 DEF p
<1>12. Len(q \o adds) = Len(q) + Len(adds) /\ Len(adds) \in Nat
  BY <1>4, <1>9
<1> QED BY <1>6, <1>8, <1>11, <1>12 DEF q

LEMMA HintsAdded ==
  ASSUME HintInv, Inv', Kept, NEW s \in Server, NEW g \in Key, NEW ts \in Stamp,
         NEW n \in Consistency, HandlePut(s, g, ts, n)
  PROVE  HintInv'
<1>0. Inv /\ TypeOK /\ Remembered /\ Prefixes /\ HintsCover /\ TypeOK' /\ Recorded'
  BY DEF HintInv, Inv
<1>1. PICK u \in Uuid :
        /\ u = Len(reqs) + 1 /\ u \notin DOMAIN reqs /\ DOMAIN reqs' = DOMAIN reqs \cup {u}
        /\ reqs'[u] = [kind |-> "put", at |-> s, key |-> g, timestamp |-> ts,
                       consistency |-> n, crashes |-> crashes]
  <2>1. NewRequest("put", s, g, ts, n)
    BY DEF HandlePut
  <2> QED BY <1>0, <2>1, NewRequestType
<1>2. m_hint_log' = AddHints(s, g) /\ m_hints' = m_hints
        /\ m_pending_writes' = [m_pending_writes EXCEPT ![s][u] = Remaining(n)]
  BY <1>1 DEF HandlePut
<1>3. Pending(u)' # Null
  <2>1. n \in 0..Width - 1
    BY ConsistencyAssumption
  <2>2. Remaining(n) \in Nat
    BY <2>1, DecIs, WidthAssumption DEF Remaining
  <2>3. m_pending_writes'[s][u] = Remaining(n)
    BY <1>0, <1>1, <1>2 DEF TypeOK
  <2>4. Pending(u)' = Remaining(n)
    BY <1>1, <2>3 DEF Pending
  <2> QED BY <2>2, <2>4, NoCounterAssumption
<1>4. Remembered'
  BY <1>0, <1>1, <1>3, RememberedKept
<1>5. CASE Mode # "hinted_handoff"
  <2>1. m_hint_log' = m_hint_log
    BY <1>2, <1>5 DEF AddHints
  <2>2. \A x \in Server, t \in Server, k \in Key :
          \A j : Level(x, t, k, j)' = Level(x, t, k, j)
    BY <1>2, <2>1, SameLevel
  <2>3. Prefixes'
    BY <1>0, <2>1, <2>2 DEF Prefixes
  <2> QED BY <1>4, <1>5, <2>3 DEF HintInv, HintsCover
<1>6. CASE Mode = "hinted_handoff"
  <2>0. /\ \A x \in Server \ {s} : m_hint_log'[x] = m_hint_log[x]
        /\ \A t \in Server, k \in Key :
             /\ \A j \in 0..Len(m_hint_log[s]) : Level(s, t, k, j)' = Level(s, t, k, j)
             /\ \A j \in Len(m_hint_log[s])..Len(m_hint_log'[s]) :
                  Level(s, t, k, j)' >= Hints(s, t, k)
             /\ t # s /\ k = g =>
                  \A j : j = Len(m_hint_log'[s]) => Level(s, t, k, j)' >= Hints(s, t, k) + 1
        /\ Len(m_hint_log[s]) \in Nat /\ Len(m_hint_log'[s]) \in Nat
        /\ Len(m_hint_log[s]) <= Len(m_hint_log'[s])
    BY <1>0, <1>2, <1>6, AddsAll
  <2>1. Prefixes'
    <3> SUFFICES ASSUME NEW x \in Server, NEW t \in Server, NEW k \in Key,
                        NEW j \in 0..Len(m_hint_log'[x])
                 PROVE  Level(x, t, k, j)' >= 0
      BY DEF Prefixes
    <3>1. CASE x # s
      <4>1. Level(x, t, k, j)' = Level(x, t, k, j) /\ m_hint_log'[x] = m_hint_log[x]
        BY <1>2, <2>0, <3>1, SameLevel
      <4> QED BY <1>0, <4>1 DEF Prefixes
    <3>2. CASE x = s /\ j \in 0..Len(m_hint_log[s])
      BY <1>0, <2>0, <3>2 DEF Prefixes
    <3>3. CASE x = s /\ j \in Len(m_hint_log[s])..Len(m_hint_log'[s])
      <4>1. Hints(s, t, k) >= 0 /\ Hints(s, t, k) \in Int
        BY <1>0, HintsNotNegative
      <4>2. Level(s, t, k, j)' >= Hints(s, t, k)
        BY <2>0, <3>3
      <4>3. Level(s, t, k, j)' \in Int
        <5>1. m_hint_log'[s] \in Seq(HintTask) /\ m_hints'[s][t][k] \in Int
          BY <1>0 DEF TypeOK
        <5>2. \A h : Count(m_hint_log'[s], j, h) \in Nat
          BY <5>1, CountType
        <5> QED BY <5>1, <5>2 DEF Level, Hint
      <4> QED BY <3>3, <4>1, <4>2, <4>3
    <3> QED BY <2>0, <3>1, <3>2, <3>3
  <2>2. ASSUME NEW c \in Conn, NEW k \in Key
        PROVE  Cardinality(Due(c[1], c[2], k))' <= Hints(c[1], c[2], k)'
    <3> DEFINE E == Due(c[1], c[2], k)
               F == Due(c[1], c[2], k)'
    <3>0. c[1] \in Server /\ c[2] \in Server \ {c[1]}
      BY ConnType
    <3>1. \A v \in DOMAIN reqs : IsDue(v, c[1], c[2], k)' => IsDue(v, c[1], c[2], k)
      BY <1>0, <3>0, DueKept
    <3>2. F \subseteq E \cup {u}
      BY <1>1, <3>1 DEF Due
    <3>3. ~(c[1] = s /\ k = g) => F \subseteq E
      <4>1. ~(c[1] = s /\ k = g) => ~IsDue(u, c[1], c[2], k)'
        BY <1>1 DEF IsDue
      <4> QED BY <1>1, <3>1, <4>1 DEF Due
    <3>4. IsFiniteSet(E) /\ Cardinality(E) \in Nat /\ Cardinality(E) <= Hints(c[1], c[2], k)
      BY <1>0, <1>6, DueFinite DEF Inv, HintsCover
    <3>5. Hints(c[1], c[2], k) \in Int
      BY <1>0, <3>0, HintsNotNegative
    <3>6. PICK j \in 0..Len(m_hint_log'[c[1]]) :
                 j = Len(m_hint_log'[c[1]]) /\ Hints(c[1], c[2], k)' = Level(c[1], c[2], k, j)'
      <4>1. Len(m_hint_log'[c[1]]) \in Nat
              /\ Hints(c[1], c[2], k)' = Level(c[1], c[2], k, Len(m_hint_log[c[1]]))'
        BY <1>0, <3>0, NextLevelIs
      <4>2. PICK j \in 0..Len(m_hint_log'[c[1]]) : j = Len(m_hint_log'[c[1]])
        BY <4>1
      <4>3. Level(c[1], c[2], k, j)' = Level(c[1], c[2], k, Len(m_hint_log[c[1]]))'
        BY <4>2 DEF Level, Hint
      <4> QED BY <4>1, <4>2, <4>3
    <3>7. Hints(c[1], c[2], k)' \in Int
      <4>1. m_hint_log'[c[1]] \in Seq(HintTask) /\ m_hints'[c[1]][c[2]][k] \in Int
        <5>1. /\ m_hint_log' \in [Server -> Seq(HintTask)]
              /\ m_hints' \in [Server -> [Server -> [Key -> Int]]]
          BY ONLY <1>0 DEF TypeOK
        <5> QED BY ONLY <3>0, <5>1, k \in Key
      <4>2. \A h : Count(m_hint_log'[c[1]], j, h) \in Nat
        BY <4>1, CountType
      <4>3. Level(c[1], c[2], k, j)' \in Int
        BY <4>1, <4>2 DEF Level, Hint
      <4> QED BY <3>6, <4>3
    <3> HIDE DEF E, F
    <3>8. CASE c[1] = s /\ k = g
      <4>1. Hints(c[1], c[2], k)' >= Hints(c[1], c[2], k) + 1
        <5>1. j = Len(m_hint_log'[s]) /\ c[2] # s
          BY <3>0, <3>6, <3>8
        <5>2. Level(s, c[2], k, j)' >= Hints(s, c[2], k) + 1
          BY <2>0, <3>0, <3>8, <5>1
        <5>3. /\ Level(s, c[2], k, j)' = Level(c[1], c[2], k, j)'
              /\ Hints(s, c[2], k) = Hints(c[1], c[2], k)
          BY <3>8
        <5> QED BY <3>6, <5>2, <5>3
      <4>2. IsFiniteSet(E \cup {u}) /\ Cardinality(E \cup {u}) <= Cardinality(E) + 1
              /\ Cardinality(E \cup {u}) \in Nat
        <5>1. IsFiniteSet(E)
          BY <3>4
        <5>2. /\ IsFiniteSet(E \cup {u})
              /\ Cardinality(E \cup {u}) = Cardinality(E)
                   \/ Cardinality(E \cup {u}) = Cardinality(E) + 1
          BY ONLY <5>1, FS_AddElement
        <5> QED BY <3>4, <5>2
      <4>3. Cardinality(F) <= Cardinality(E \cup {u}) /\ Cardinality(F) \in Nat
        <5>1. IsFiniteSet(E \cup {u}) /\ F \in SUBSET (E \cup {u})
          BY <3>2, <4>2
        <5>2. IsFiniteSet(F) /\ Cardinality(F) <= Cardinality(E \cup {u})
          BY ONLY <5>1, FS_Subset
        <5> QED BY ONLY <5>2, FS_CardinalityType
      <4>4. Cardinality(F) <= Hints(c[1], c[2], k)'
        BY <3>4, <3>5, <3>7, <4>1, <4>2, <4>3
      <4> QED BY <4>4 DEF F
    <3>9. CASE ~(c[1] = s /\ k = g)
      <4>1. Hints(c[1], c[2], k)' >= Hints(c[1], c[2], k)
        <5>1. CASE c[1] # s
          <6>1. Hints(c[1], c[2], k)' = Hints(c[1], c[2], k)
            BY <1>2, <2>0, <3>0, <5>1, SameLevel
          <6> QED BY <3>5, <6>1
        <5>2. CASE c[1] = s
          <6>1. j \in Len(m_hint_log[s])..Len(m_hint_log'[s])
            BY <2>0, <3>6, <5>2
          <6>2. Level(s, c[2], k, j)' >= Hints(s, c[2], k)
            BY <2>0, <3>0, <6>1
          <6>3. /\ Level(s, c[2], k, j)' = Level(c[1], c[2], k, j)'
                /\ Hints(s, c[2], k) = Hints(c[1], c[2], k)
            BY <5>2
          <6> QED BY <3>6, <6>2, <6>3
        <5> QED BY <5>1, <5>2
      <4>2. Cardinality(F) <= Cardinality(E) /\ Cardinality(F) \in Nat
        <5>1. IsFiniteSet(E) /\ F \in SUBSET E
          BY <3>3, <3>4, <3>9
        <5>2. IsFiniteSet(F) /\ Cardinality(F) <= Cardinality(E)
          BY ONLY <5>1, FS_Subset
        <5> QED BY ONLY <5>2, FS_CardinalityType
      <4>3. Cardinality(F) <= Hints(c[1], c[2], k)'
        BY <3>4, <3>5, <3>7, <4>1, <4>2
      <4> QED BY <4>3 DEF F
    <3> QED BY <3>8, <3>9
  <2>3. HintsCover'
    BY <2>2 DEF HintsCover
  <2> QED BY <1>4, <2>1, <2>3 DEF HintInv
<1> QED BY <1>5, <1>6

-----------------------------------------------------------------------------
(* Every step                                                              *)

LEMMA InitHints == Init => HintInv
<1> SUFFICES ASSUME Init PROVE HintInv
  OBVIOUS
<1>1. Inv /\ TypeOK
  BY InitHolds DEF Inv
<1>2. /\ DOMAIN reqs = {}
      /\ \A s \in Server : m_hint_log[s] = <<>>
      /\ \A s \in Server, t \in Server, k \in Key : m_hints[s][t][k] = 0
  BY DEF Init
<1>3. ASSUME NEW s \in Server, NEW t \in Server, NEW k \in Key
      PROVE  Level(s, t, k, 0) = 0 /\ Hints(s, t, k) = 0
  <2>1. Level(s, t, k, 0) = 0
    BY <1>1, <1>2, LevelIs
  <2>2. Len(m_hint_log[s]) = 0
    BY <1>2
  <2> QED BY <1>1, <2>1, <2>2, LevelIs
<1>4. Prefixes
  <2>1. \A s \in Server : \A j \in 0..Len(m_hint_log[s]) : j = 0
    BY <1>2
  <2> QED BY <1>3, <2>1 DEF Prefixes
<1>5. Remembered
  BY <1>2 DEF Remembered
<1>6. HintsCover
  <2>1. \A c \in Conn, k \in Key : Due(c[1], c[2], k) = {}
    BY <1>2 DEF Due
  <2>2. \A c \in Conn, k \in Key : Hints(c[1], c[2], k) = 0
    BY <1>3, ConnType
  <2> QED BY <2>1, <2>2, FS_EmptySet DEF HintsCover
<1> QED BY <1>1, <1>4, <1>5, <1>6 DEF HintInv

\* A get makes a request that is a get, and no hint.
LEMMA HintsGet ==
  ASSUME HintInv, Inv', Kept, NEW s \in Server, NEW k \in Key, NEW n \in Consistency,
         HandleGet(s, k, n)
  PROVE  HintInv'
<1>1. m_hints' = m_hints /\ m_hint_log' = m_hint_log
  BY DEF HandleGet, logs
<1>2. \A u \in DOMAIN reqs' \ DOMAIN reqs : reqs'[u].kind = "get"
  <2>1. TypeOK
    BY DEF HintInv, Inv
  <2>2. PICK r : reqs' = Append(reqs, r) /\ r.kind = "get"
    BY DEF HandleGet, NewRequest
  <2> HIDE DEF HandleGet
  <2>3. DOMAIN reqs = 1..Len(reqs) /\ Len(reqs) \in Nat
    BY <2>1 DEF TypeOK
  <2>4. DOMAIN reqs' = 1..Len(reqs) + 1 /\ reqs'[Len(reqs) + 1] = r
    BY <2>1, <2>2, <2>3 DEF TypeOK
  <2> QED BY <2>2, <2>3, <2>4
<1> QED BY <1>1, <1>2, HintsAlone

LEMMA HintsDelivered ==
  ASSUME HintInv, Inv', Kept, NEW c \in Conn, Deliver(c)
  PROVE  HintInv'
<1>0. Inv /\ TypeOK /\ TypeOK' /\ c[1] \in Server /\ c[2] \in Server
  BY ConnType DEF HintInv, Inv
<1>1. CASE HandleDoWrite(c) \/ HandleDoRead(c) \/ HandleReadRepair(c)
             \/ HandleReadRepairResponse(c)
  <2>1. m_hints' = m_hints /\ m_hint_log' = m_hint_log /\ reqs' = reqs
    BY <1>1 DEF HandleDoWrite, HandleDoRead, HandleReadRepair, HandleReadRepairResponse, logs
  <2> QED BY <2>1, HintsAlone
<1>2. CASE HandleReadComplete(c)
  <2>1. CASE Stop(c[1])
    BY <1>0, <2>1, HintsStopped
  <2>2. CASE ~Stop(c[1])
    <3>1. m_hints' = m_hints /\ m_hint_log' = m_hint_log /\ reqs' = reqs
      BY <1>2, <2>2 DEF HandleReadComplete, logs
    <3> QED BY <3>1, HintsAlone
  <2> QED BY <2>1, <2>2
<1>3. CASE HandleWriteComplete(c)
  <2>1. CASE Stop(c[2])
    BY <1>0, <2>1, HintsStopped
  <2>2. CASE \E u \in DOMAIN reqs :
               /\ reqs[u].kind = "put" /\ reqs[u].at = c[2] /\ Pending(u) # Null
               /\ TakesAck(u, c[1])
               /\ m_hint_log' = DropHint(c[2], c[1], reqs[u].key)
               /\ m_hints' = m_hints /\ reqs' = reqs /\ crashes' = crashes
    <3>1. CASE Mode = "hinted_handoff"
      BY <2>2, <3>1, HintsDropped
    <3>2. CASE Mode # "hinted_handoff"
      <4>1. m_hints' = m_hints /\ m_hint_log' = m_hint_log /\ reqs' = reqs
        BY <2>2, <3>2 DEF DropHint
      <4> QED BY <4>1, HintsAlone
    <3> QED BY <3>1, <3>2
  <2> QED BY <1>0, <1>3, <2>1, <2>2, WriteCompleteStep
<1> QED BY <1>1, <1>2, <1>3 DEF Deliver

LEMMA NextHints == HintInv /\ [Next]_vars => HintInv'
<1> SUFFICES ASSUME HintInv, [Next]_vars PROVE HintInv'
  OBVIOUS
<1>0. Inv' /\ Kept
  BY NextHolds DEF HintInv
<1>1. ASSUME NEW s \in Putters, NEW k \in Key, NEW t \in Stamp \ {0}, NEW n \in Consistency,
             HandlePut(s, k, t, n)
      PROVE  HintInv'
  BY <1>0, <1>1, HintsAdded, ServerAssumption
<1>2. ASSUME NEW s \in Getters, NEW k \in Key, NEW n \in Consistency, HandleGet(s, k, n)
      PROVE  HintInv'
  BY <1>0, <1>2, HintsGet, ServerAssumption
<1>3. ASSUME NEW s \in Server, RunHintLog(s)
      PROVE  HintInv'
  BY <1>0, <1>3, HintsFlushed
<1>4. ASSUME NEW s \in Server, Crash(s)
      PROVE  HintInv'
  BY <1>0, <1>4, HintsStopped DEF Crash
<1>5. ASSUME NEW c \in Conn, Deliver(c)
      PROVE  HintInv'
  BY <1>0, <1>5, HintsDelivered
<1>6. ASSUME m_hints' = m_hints /\ m_hint_log' = m_hint_log /\ reqs' = reqs
      PROVE  HintInv'
  BY <1>0, <1>6, HintsAlone
<1>7. ASSUME NEW s \in Server, RunLog(s) \/ Restart(s)
      PROVE  HintInv'
  BY <1>6, <1>7 DEF RunLog, Restart, logs
<1>8. ASSUME NEW c \in Conn, Cut(c) \/ Connect(c)
      PROVE  HintInv'
  BY <1>6, <1>8 DEF Cut, Connect, logs
<1>9. CASE UNCHANGED vars
  BY <1>6, <1>9 DEF vars, logs
<1> QED BY <1>1, <1>2, <1>3, <1>4, <1>5, <1>7, <1>8, <1>9 DEF Next

LEMMA HoldingHints == Spec => []HintInv
BY InitHints, NextHints, PTL DEF Spec

(***************************************************************************)
(* The hint counters of a server never go below zero, neither in memory    *)
(* nor when what is posted to the hint log has been flushed:               *)
(* handle_write_complete takes a hint away only for an acknowledgement     *)
(* that the peer still owed, and the put that it answers posted a hint     *)
(* before.                                                                 *)
(***************************************************************************)
THEOREM HintsStayCounted == Spec => []HintsNonNegative
<1>1. HintInv => HintsNonNegative
  BY HintsNotNegative DEF HintInv, Inv, HintsNonNegative
<1> QED BY <1>1, HoldingHints, PTL

(***************************************************************************)
(* Hinted handoff forgets no write: as long as no process died since a     *)
(* put, a peer that does not have it has a hint at the coordinator,        *)
(* whichever connections broke with how many messages on them.             *)
(***************************************************************************)
THEOREM HandoffForgetsNothing == Spec => []HandoffKeeps
<1>1. HintInv => HandoffKeeps
  <2> SUFFICES ASSUME HintInv, Mode = "hinted_handoff", NEW u \in Puts,
                      crashes = reqs[u].crashes, NEW t \in Server \ {reqs[u].at},
                      ~Holds(t, reqs[u].key, reqs[u].timestamp)
               PROVE  Hints(reqs[u].at, t, reqs[u].key) > 0
    BY DEF HandoffKeeps
  <2>0. Inv /\ TypeOK /\ Recorded /\ Remembered /\ HintsCover /\ Prefixes
    BY DEF HintInv, Inv
  <2>1. u \in DOMAIN reqs /\ reqs[u].kind = "put"
    BY DEF Puts
  <2>2. reqs[u].at \in Server /\ reqs[u].key \in Key /\ crashes \in Nat
    <3>1. crashes \in Nat
      BY ONLY <2>0 DEF TypeOK
    <3> QED BY ONLY <2>0, <2>1, <3>1, ReqType
  <2>3. PICK s \in Server, k \in Key : s = reqs[u].at /\ k = reqs[u].key
    BY <2>2
  <2>4. <<s, t>> \in Conn
    BY <2>3 DEF Conn
  <2>5. Pending(u) # Null
    BY <2>0, <2>1, <2>2 DEF Remembered
  <2>6. u \in Due(s, t, k)
    BY <2>1, <2>3, <2>5 DEF Due, IsDue
  <2>7. Cardinality(Due(s, t, k)) <= Hints(s, t, k)
    <3>1. \A c \in Conn : Cardinality(Due(c[1], c[2], k)) <= Hints(c[1], c[2], k)
      BY <2>0 DEF HintsCover
    <3> QED BY <2>4, <3>1
  <2>8. IsFiniteSet(Due(s, t, k)) /\ Cardinality(Due(s, t, k)) \in Nat
    BY <2>0, DueFinite
  <2>9. Cardinality(Due(s, t, k)) # 0
    BY <2>6, <2>8, FS_EmptySet
  <2>10. Hints(s, t, k) \in Int
    BY <2>0, <2>3, HintsNotNegative
  <2> QED BY <2>3, <2>7, <2>8, <2>9, <2>10
<1> QED BY <1>1, HoldingHints, PTL

-----------------------------------------------------------------------------
(***************************************************************************)
(* Read repair.  A get of a key in a quiet cluster brings all servers to   *)
(* the newest element that any of them has.                                *)
(*                                                                         *)
(* The argument.  Only timestamps matter, so for each key the messages and *)
(* the posted appends are reduced to sets of timestamps.  Let s be the     *)
(* server of the get and n the newest timestamp at that moment.  Nothing   *)
(* newer ever appears, and only s asks and writes (Bounded).  The repair   *)
(* is in one of three stages: s has yet to hear from a server that holds n *)
(* (Unheard); s has posted n and sent it to all others (Learned); or s     *)
(* holds n, and each of the others holds it, will get it, or has yet to    *)
(* answer s, which then sends it (Spreading).  The steps of a repair are   *)
(* relations between such sets, and each keeps the stages in order; what   *)
(* the handlers do is then shown to be such a step, or none.               *)
(***************************************************************************)

\* The timestamps of the messages of S in a queue, and whether it has one of them.
Stamps(q, S) == {q[i].timestamp : i \in {j \in DOMAIN q : q[j] \in S}}
Has(q, S) == \E i \in DOMAIN q : q[i] \in S

PostsOf(k) == {r \in DoWrite : r.key = k}
WritesOf(k) == {m \in Request : m.type = "DoWrite" /\ m.key = k}
AsksOf(k) == {m \in Request : m.type = "ReadRepair" /\ m.key = k}
TellsOf(k) == {m \in Response : m.type = "ReadRepairResponse" /\ m.key = k}

\* The same for each connection.
StampsOn(queues, S) == [c \in Conn |-> Stamps(queues[c], S)]
HasOn(queues, S) == {c \in Conn : Has(queues[c], S)}

\* All that is under way about key k.
Ages(k) == [t \in Server |-> ReadOrEmpty(t, k).timestamp]
Posts(k) == [t \in Server |-> Stamps(m_log[t], PostsOf(k))]
Writes(k) == StampsOn(fwd, WritesOf(k))
Queries(k) == HasOn(fwd, AsksOf(k))
Tells(k) == StampsOn(bwd, TellsOf(k))

\* Only s asks and writes, and nothing is newer than n, the newest when s began to
\* ask.  An answer is no newer than what its sender holds.
Bounded(s, n, age, post, write, query, tell) ==
  /\ \A t \in Server : age[t] <= n /\ \A m \in post[t] : m <= n
  /\ \A c \in Conn :
       /\ c[1] # s => write[c] = {} /\ c \notin query /\ tell[c] = {}
       /\ \A m \in write[c] : m <= n
       /\ \A m \in tell[c] : m <= age[c[2]]

\* Server t holds the newest element or will: it is posted, or it was sent to t.
Coming(s, t, n, age, post, write) ==
  age[t] = n \/ n \in post[t] \/ n \in write[<<s, t>>]

\* The answer of t is still to come.
Waiting(s, t, query, tell) == <<s, t>> \in query \/ tell[<<s, t>>] # {}

\* s holds the newest element, and so will all others or s has yet to hear from them.
Spreading(s, n, age, post, write, query, tell) ==
  /\ age[s] = n
  /\ \A t \in Server \ {s} :
       Coming(s, t, n, age, post, write) \/ Waiting(s, t, query, tell)

\* s has posted the newest element and sent it to all others.
Learned(s, n, age, post, write) ==
  /\ n \in post[s]
  /\ \A t \in Server \ {s} : Coming(s, t, n, age, post, write)

\* s has yet to hear of the newest element.
Unheard(s, n, age, post, query, tell) ==
  /\ age[s] # n /\ n \notin post[s]
  /\ \E h \in Server \ {s} :
       age[h] = n /\ (<<s, h>> \in query \/ n \in tell[<<s, h>>])

Repairing(s, n, age, post, write, query, tell) ==
  /\ Bounded(s, n, age, post, write, query, tell)
  /\ \/ n = 0
     \/ Spreading(s, n, age, post, write, query, tell)
     \/ Learned(s, n, age, post, write)
     \/ Unheard(s, n, age, post, query, tell)

RepairInv ==
  Mode = "read_repair" =>
    \A k \in Key : fresh[k] =>
      /\ link = Conn
      /\ \E s \in Server, n \in Stamp :
           Repairing(s, n, Ages(k), Posts(k), Writes(k), Queries(k), Tells(k))

-----------------------------------------------------------------------------
(* Queues                                                                  *)

LEMMA StampsNone ==
  ASSUME NEW S
  PROVE  Stamps(<<>>, S) = {} /\ ~Has(<<>>, S)
BY DEF Stamps, Has

\* What a message that joins a queue adds.
LEMMA StampsAppend ==
  ASSUME NEW R, NEW q \in Seq(R), NEW m \in R, NEW S
  PROVE  /\ m \in S => Stamps(Append(q, m), S) = Stamps(q, S) \cup {m.timestamp}
         /\ m \notin S => Stamps(Append(q, m), S) = Stamps(q, S)
         /\ Has(Append(q, m), S) <=> Has(q, S) \/ m \in S
<1> DEFINE r == Append(q, m)
           l == Len(q) + 1
<1>1. /\ DOMAIN r = DOMAIN q \cup {l} /\ l \notin DOMAIN q /\ r[l] = m
      /\ \A i \in DOMAIN q : r[i] = q[i]
  BY QueueAppend
<1> HIDE DEF r, l
<1>2. Has(r, S) <=> Has(q, S) \/ m \in S
  BY <1>1 DEF Has
<1>3. m \in S => Stamps(r, S) = Stamps(q, S) \cup {m.timestamp}
  BY <1>1 DEF Stamps
<1>4. m \notin S => Stamps(r, S) = Stamps(q, S)
  BY <1>1 DEF Stamps
<1> QED BY <1>2, <1>3, <1>4 DEF r

\* One place of x has been taken out: x may have another.
Took(X, Y, x) == Y \subseteq X /\ X \subseteq Y \cup {x}

\* What a message that leaves a queue takes away.
LEMMA StampsTail ==
  ASSUME NEW R, NEW q \in Seq(R), q # <<>>, NEW S, NEW m, m = Head(q)
  PROVE  /\ m \in S => m.timestamp \in Stamps(q, S)
                         /\ Took(Stamps(q, S), Stamps(Tail(q), S), m.timestamp)
         /\ m \notin S => Stamps(Tail(q), S) = Stamps(q, S)
         /\ m \in S => Has(q, S)
         /\ Has(Tail(q), S) => Has(q, S)
         /\ m \notin S => (Has(Tail(q), S) <=> Has(q, S))
<1> DEFINE r == Tail(q)
<1>1. /\ DOMAIN r = 1..Len(q) - 1 /\ DOMAIN q = 1..Len(q) /\ Len(q) \in Nat
      /\ \A i \in DOMAIN r : i + 1 \in DOMAIN q /\ r[i] = q[i + 1]
      /\ 1 \in DOMAIN q /\ m = q[1]
  BY QueueTail
<1> HIDE DEF r
<1>2. \A i \in DOMAIN q : i = 1 \/ (i - 1 \in DOMAIN r /\ r[i - 1] = q[i])
  BY <1>1
<1>3. \A i \in DOMAIN r : \E j \in DOMAIN q : r[i] = q[j]
  BY <1>1
<1>4. \A i \in DOMAIN q : q[i] = m \/ \E j \in DOMAIN r : q[i] = r[j]
  BY <1>1, <1>2
<1>5. \E i \in DOMAIN q : q[i] = m
  BY <1>1
<1>6. /\ m \in S => Has(q, S)
      /\ Has(r, S) => Has(q, S)
      /\ m \notin S => (Has(r, S) <=> Has(q, S))
  BY <1>3, <1>4, <1>5 DEF Has
<1>7. Stamps(r, S) \subseteq Stamps(q, S)
  BY <1>3 DEF Stamps
<1>8. m \in S => m.timestamp \in Stamps(q, S) /\ Stamps(q, S) \subseteq Stamps(r, S) \cup {m.timestamp}
  BY <1>4, <1>5 DEF Stamps
<1>9. m \notin S => Stamps(q, S) \subseteq Stamps(r, S)
  BY <1>4 DEF Stamps
<1> QED BY <1>6, <1>7, <1>8, <1>9 DEF r, Took

-----------------------------------------------------------------------------
(* The steps of a repair                                                   *)

Shaped(age, post, write, query, tell) ==
  /\ age \in [Server -> Nat] /\ post \in [Server -> SUBSET Nat]
  /\ write \in [Conn -> SUBSET Nat] /\ query \in SUBSET Conn
  /\ tell \in [Conn -> SUBSET Nat]

\* f and g are the same but at x.
SameBut(f, g, x) == \A y \in DOMAIN f : y # x => g[y] = f[y]

\* t installs the element with timestamp m that was posted, unless it has a newer one.
Installs(t, m, age, post, age2, post2) ==
  /\ m \in post[t] /\ Took(post[t], post2[t], m) /\ SameBut(post, post2, t)
  /\ age2[t] = (IF m <= age[t] THEN age[t] ELSE m) /\ SameBut(age, age2, t)

\* A write with timestamp m arrives at c[2], which posts it unless it is stale.
Arrives(c, m, age, post, write, post2, write2) ==
  /\ m \in write[c] /\ Took(write[c], write2[c], m) /\ SameBut(write, write2, c)
  /\ \/ post2[c[2]] = post[c[2]] \cup {m}
     \/ post2[c[2]] = post[c[2]] /\ m <= age[c[2]]
  /\ SameBut(post, post2, c[2])

\* c[2] answers the question of c[1].
Answers(c, age, query, tell, query2, tell2) ==
  /\ c \in query /\ Took(query, query2, c)
  /\ tell2[c] = tell[c] \cup {age[c[2]]} /\ SameBut(tell, tell2, c)

\* m joins what is on every connection of s.
JoinsAll(s, m, write, write2) ==
  \A d \in Conn : write2[d] = IF d[1] = s THEN write[d] \cup {m} ELSE write[d]

\* c[1] hears that c[2] holds an element with timestamp m, newer than its own, or older
\* than its own, or just as old.
HearsNewer(c, m, age, post, write, post2, write2) ==
  /\ age[c[1]] < m \/ age[c[1]] = 0
  /\ post2[c[1]] = post[c[1]] \cup {m} /\ SameBut(post, post2, c[1])
  /\ JoinsAll(c[1], m, write, write2)

HearsOlder(c, m, age, post, write, post2, write2) ==
  /\ m <= age[c[1]]
  /\ post2 = post
  /\ write2[c] = write[c] \cup {age[c[1]]} /\ SameBut(write, write2, c)

HearsSame(c, m, age, post, write, post2, write2) ==
  m = age[c[1]] /\ post2 = post /\ write2 = write

Hears(c, m, age, post, write, tell, post2, write2, tell2) ==
  /\ m \in tell[c] /\ Took(tell[c], tell2[c], m) /\ SameBut(tell, tell2, c)
  /\ \/ HearsNewer(c, m, age, post, write, post2, write2)
     \/ HearsOlder(c, m, age, post, write, post2, write2)
     \/ HearsSame(c, m, age, post, write, post2, write2)

\* The connection of s to a peer.
LEMMA PeerConn ==
  ASSUME NEW s \in Server, NEW t \in Server \ {s}
  PROVE  <<s, t>> \in Conn /\ <<s, t>>[1] = s /\ <<s, t>>[2] = t
BY DEF Conn

\* A posted append that runs keeps the stage, or makes Learned Spreading.
LEMMA InstallKeeps ==
  ASSUME NEW age, NEW post, NEW write, NEW query, NEW tell,
         Shaped(age, post, write, query, tell),
         NEW s \in Server, NEW n \in Nat,
         Repairing(s, n, age, post, write, query, tell),
         NEW t \in Server, NEW m, NEW age2, NEW post2,
         Installs(t, m, age, post, age2, post2),
         Shaped(age2, post2, write, query, tell)
  PROVE  Repairing(s, n, age2, post2, write, query, tell)
<1>1. m \in Nat /\ m <= n /\ \A x \in Server : age[x] \in Nat /\ age[x] <= n
  BY DEF Shaped, Installs, Repairing, Bounded
<1>2. \A x \in Server : age2[x] <= n /\ age[x] <= age2[x] /\ age2[x] \in Nat
  BY <1>1 DEF Shaped, Installs, SameBut
<1>3. \A x \in Server : post2[x] \subseteq post[x]
  BY DEF Shaped, Installs, SameBut, Took
<1>4. \A x \in Server : n \in post[x] => n \in post2[x] \/ age2[x] = n
  BY <1>1 DEF Shaped, Installs, SameBut, Took
<1>5. \A x \in Server : age[x] = n => age2[x] = n
  BY <1>1, <1>2
<1>6. Bounded(s, n, age2, post2, write, query, tell)
  <2>1. Bounded(s, n, age, post, write, query, tell)
    BY DEF Repairing
  <2>2. \A c \in Conn : c[2] \in Server /\ tell[c] \in SUBSET Nat
    BY DEF Conn, Shaped
  <2>3. \A c \in Conn : \A x \in tell[c] : x <= age2[c[2]]
    <3> SUFFICES ASSUME NEW c \in Conn, NEW x \in tell[c] PROVE x <= age2[c[2]]
      OBVIOUS
    <3>1. x \in Nat /\ x <= age[c[2]]
      BY <2>1, <2>2 DEF Bounded
    <3> QED BY <1>1, <1>2, <2>2, <3>1
  <2> QED BY <1>2, <1>3, <2>1, <2>3 DEF Bounded
<1>7. \A x \in Server : Coming(s, x, n, age, post, write) => Coming(s, x, n, age2, post2, write)
  BY <1>4, <1>5 DEF Coming
<1>8. CASE Spreading(s, n, age, post, write, query, tell)
  <2>1. Spreading(s, n, age2, post2, write, query, tell)
    BY <1>5, <1>7, <1>8 DEF Spreading
  <2> QED BY <1>6, <2>1 DEF Repairing
<1>9. CASE Learned(s, n, age, post, write)
  <2>1. Learned(s, n, age2, post2, write) \/ Spreading(s, n, age2, post2, write, query, tell)
    BY <1>4, <1>7, <1>9 DEF Learned, Spreading
  <2> QED BY <1>6, <2>1 DEF Repairing
<1>10. CASE Unheard(s, n, age, post, query, tell)
  <2>1. n \notin post2[s]
    BY <1>3, <1>10 DEF Unheard
  <2>2. age2[s] # n
    <3>1. age[s] # n /\ n \notin post[s]
      BY <1>10 DEF Unheard
    <3> QED BY <1>1, <3>1 DEF Installs, SameBut, Shaped
  <2>3. Unheard(s, n, age2, post2, query, tell)
    BY <1>5, <1>10, <2>1, <2>2 DEF Unheard
  <2> QED BY <1>6, <2>3 DEF Repairing
<1>11. CASE n = 0
  BY <1>6, <1>11 DEF Repairing
<1> QED BY <1>8, <1>9, <1>10, <1>11 DEF Repairing

\* A write that arrives was coming, and is coming still or installed.
LEMMA ArriveKeeps ==
  ASSUME NEW age, NEW post, NEW write, NEW query, NEW tell,
         Shaped(age, post, write, query, tell),
         NEW s \in Server, NEW n \in Nat,
         Repairing(s, n, age, post, write, query, tell),
         NEW c \in Conn, NEW m, NEW post2, NEW write2,
         Arrives(c, m, age, post, write, post2, write2),
         Shaped(age, post2, write2, query, tell)
  PROVE  Repairing(s, n, age, post2, write2, query, tell)
<1>1. /\ Bounded(s, n, age, post, write, query, tell)
      /\ m \in Nat /\ m <= n /\ \A x \in Server : age[x] \in Nat /\ age[x] <= n
  BY DEF Shaped, Arrives, Repairing, Bounded
<1>2. c[1] = s /\ c[2] \in Server \ {s} /\ c = <<s, c[2]>>
  BY <1>1 DEF Bounded, Arrives, Conn
<1>3. /\ \A x \in Server : post[x] \subseteq post2[x] /\ post2[x] \subseteq post[x] \cup {m}
      /\ post2[s] = post[s]
  BY <1>2 DEF Arrives, SameBut, Shaped
<1>4. \A d \in Conn : write2[d] \subseteq write[d]
  BY DEF Arrives, SameBut, Shaped, Took
<1>5. Bounded(s, n, age, post2, write2, query, tell)
  BY <1>1, <1>3, <1>4 DEF Bounded
<1>6. \A x \in Server \ {s} :
        Coming(s, x, n, age, post, write) => Coming(s, x, n, age, post2, write2)
  <2> SUFFICES ASSUME NEW x \in Server \ {s}, Coming(s, x, n, age, post, write)
               PROVE  Coming(s, x, n, age, post2, write2)
    OBVIOUS
  <2>1. CASE age[x] = n \/ n \in post[x]
    BY <1>3, <2>1 DEF Coming
  <2>2. CASE n \in write[<<s, x>>] /\ <<s, x>> # c
    <3>1. write2[<<s, x>>] = write[<<s, x>>]
      BY <2>2, PeerConn DEF Arrives, SameBut, Shaped
    <3> QED BY <2>2, <3>1 DEF Coming
  <2>3. CASE n \in write[<<s, x>>] /\ <<s, x>> = c
    <3>1. x = c[2]
      BY <2>3, PeerConn
    <3>2. n \in write2[c] \/ m = n
      BY <2>3 DEF Arrives, Took
    <3>3. m = n => n \in post2[x] \/ age[x] = n
      BY <1>1, <3>1 DEF Arrives
    <3> QED BY <2>3, <3>2, <3>3 DEF Coming
  <2> QED BY <2>1, <2>2, <2>3 DEF Coming
<1>7. CASE Spreading(s, n, age, post, write, query, tell)
  <2>1. Spreading(s, n, age, post2, write2, query, tell)
    BY <1>6, <1>7 DEF Spreading
  <2> QED BY <1>5, <2>1 DEF Repairing
<1>8. CASE Learned(s, n, age, post, write)
  <2>1. Learned(s, n, age, post2, write2)
    BY <1>3, <1>6, <1>8 DEF Learned
  <2> QED BY <1>5, <2>1 DEF Repairing
<1>9. CASE Unheard(s, n, age, post, query, tell)
  <2>1. Unheard(s, n, age, post2, query, tell)
    BY <1>3, <1>9 DEF Unheard
  <2> QED BY <1>5, <2>1 DEF Repairing
<1>10. CASE n = 0
  BY <1>5, <1>10 DEF Repairing
<1> QED BY <1>7, <1>8, <1>9, <1>10 DEF Repairing

\* A server that answers has been asked, and its answer has its age.
LEMMA AnswerKeeps ==
  ASSUME NEW age, NEW post, NEW write, NEW query, NEW tell,
         Shaped(age, post, write, query, tell),
         NEW s \in Server, NEW n \in Nat,
         Repairing(s, n, age, post, write, query, tell),
         NEW c \in Conn, NEW query2, NEW tell2,
         Answers(c, age, query, tell, query2, tell2),
         Shaped(age, post, write, query2, tell2)
  PROVE  Repairing(s, n, age, post, write, query2, tell2)
<1>1. /\ Bounded(s, n, age, post, write, query, tell)
      /\ \A x \in Server : age[x] \in Nat /\ age[x] <= n
  BY DEF Shaped, Repairing, Bounded
<1>2. c[1] = s /\ c[2] \in Server \ {s} /\ c = <<s, c[2]>>
  BY <1>1 DEF Bounded, Answers, Conn
<1>3. \A d \in Conn : tell[d] \subseteq tell2[d] /\ (d # c => tell2[d] = tell[d])
  BY DEF Answers, SameBut, Shaped
<1>4. query2 \subseteq query /\ \A d \in query : d \in query2 \/ d = c
  BY DEF Answers, Took
<1>5. tell2[c] = tell[c] \cup {age[c[2]]}
  BY DEF Answers
<1>6. Bounded(s, n, age, post, write, query2, tell2)
  <2>1. \A d \in Conn : \A x \in tell2[d] : x <= age[d[2]]
    BY <1>1, <1>2, <1>3, <1>5 DEF Bounded
  <2>2. \A d \in Conn : d[1] # s => tell2[d] = {} /\ d \notin query2
    BY <1>1, <1>2, <1>3, <1>4 DEF Bounded
  <2> QED BY <1>1, <2>1, <2>2 DEF Bounded
<1>7. \A x \in Server \ {s} : Waiting(s, x, query, tell) => Waiting(s, x, query2, tell2)
  <2> SUFFICES ASSUME NEW x \in Server \ {s}, Waiting(s, x, query, tell)
               PROVE  Waiting(s, x, query2, tell2)
    OBVIOUS
  <2>1. <<s, x>> \in Conn
    BY PeerConn
  <2> QED BY <1>3, <1>4, <1>5, <2>1 DEF Waiting
<1>8. CASE Spreading(s, n, age, post, write, query, tell)
  <2>1. Spreading(s, n, age, post, write, query2, tell2)
    BY <1>7, <1>8 DEF Spreading
  <2> QED BY <1>6, <2>1 DEF Repairing
<1>9. CASE Learned(s, n, age, post, write)
  BY <1>6, <1>9 DEF Repairing
<1>10. CASE Unheard(s, n, age, post, query, tell)
  <2>1. PICK h \in Server \ {s} : age[h] = n /\ (<<s, h>> \in query \/ n \in tell[<<s, h>>])
    BY <1>10 DEF Unheard
  <2>2. <<s, h>> \in Conn /\ <<s, h>>[2] = h
    BY PeerConn
  <2>3. <<s, h>> \in query2 \/ n \in tell2[<<s, h>>]
    BY <1>3, <1>4, <1>5, <2>1, <2>2
  <2>4. Unheard(s, n, age, post, query2, tell2)
    BY <1>10, <2>1, <2>3 DEF Unheard
  <2> QED BY <1>6, <2>4 DEF Repairing
<1>11. CASE n = 0
  BY <1>6, <1>11 DEF Repairing
<1> QED BY <1>8, <1>9, <1>10, <1>11 DEF Repairing

\* An answer: Unheard becomes Learned by the newest one, and Spreading sends n back.
LEMMA HearKeeps ==
  ASSUME NEW age, NEW post, NEW write, NEW query, NEW tell,
         Shaped(age, post, write, query, tell),
         NEW s \in Server, NEW n \in Nat,
         Repairing(s, n, age, post, write, query, tell),
         NEW c \in Conn, NEW m, NEW post2, NEW write2, NEW tell2,
         Hears(c, m, age, post, write, tell, post2, write2, tell2),
         Shaped(age, post2, write2, query, tell2)
  PROVE  Repairing(s, n, age, post2, write2, query, tell2)
<1>1. /\ Bounded(s, n, age, post, write, query, tell)
      /\ \A x \in Server : age[x] \in Nat /\ age[x] <= n
  BY DEF Shaped, Repairing, Bounded
<1>2. c[1] = s /\ c[2] \in Server \ {s} /\ c = <<s, c[2]>>
  BY <1>1 DEF Bounded, Hears, Conn
<1>3. m \in Nat /\ m <= age[c[2]] /\ m <= n
  <2>1. m \in Nat /\ m <= age[c[2]]
    BY <1>1 DEF Bounded, Hears, Shaped
  <2> QED BY <1>1, <1>2, <2>1
<1>4. \A x \in Server : post[x] \subseteq post2[x] /\ post2[x] \subseteq post[x] \cup {m}
  BY <1>2 DEF Hears, HearsNewer, HearsOlder, HearsSame, SameBut, Shaped
<1>5. \A d \in Conn : /\ write[d] \subseteq write2[d]
                      /\ write2[d] \subseteq write[d] \cup {m, age[s]}
                      /\ d[1] # s => write2[d] = write[d]
  <2>1. CASE HearsNewer(c, m, age, post, write, post2, write2)
    BY <1>2, <2>1 DEF HearsNewer, JoinsAll
  <2>2. CASE HearsOlder(c, m, age, post, write, post2, write2)
    BY <1>2, <2>2 DEF HearsOlder, SameBut, Shaped
  <2>3. CASE HearsSame(c, m, age, post, write, post2, write2)
    BY <2>3 DEF HearsSame
  <2> QED BY <2>1, <2>2, <2>3 DEF Hears
<1>6. /\ \A d \in Conn : tell2[d] \subseteq tell[d] /\ (d # c => tell2[d] = tell[d])
      /\ tell[c] \subseteq tell2[c] \cup {m}
  BY DEF Hears, Took, SameBut, Shaped
<1>7. Bounded(s, n, age, post2, write2, query, tell2)
  <2>1. \A x \in Server : \A y \in post2[x] : y <= n
    BY <1>1, <1>3, <1>4 DEF Bounded
  <2>2. \A d \in Conn : \A y \in write2[d] : y <= n
    BY <1>1, <1>3, <1>5 DEF Bounded
  <2>3. \A d \in Conn : /\ d[1] # s => write2[d] = {} /\ d \notin query /\ tell2[d] = {}
                        /\ \A y \in tell2[d] : y <= age[d[2]]
    BY <1>1, <1>5, <1>6 DEF Bounded
  <2> QED BY <1>1, <2>1, <2>2, <2>3 DEF Bounded
<1>8. \A x \in Server \ {s} :
        Coming(s, x, n, age, post, write) => Coming(s, x, n, age, post2, write2)
  <2> SUFFICES ASSUME NEW x \in Server \ {s}, Coming(s, x, n, age, post, write)
               PROVE  Coming(s, x, n, age, post2, write2)
    OBVIOUS
  <2>1. <<s, x>> \in Conn
    BY PeerConn
  <2> QED BY <1>4, <1>5, <2>1 DEF Coming
<1>9. CASE n = 0
  BY <1>7, <1>9 DEF Repairing
<1>10. CASE n # 0 /\ Spreading(s, n, age, post, write, query, tell)
  <2>0. age[s] = n
    BY <1>10 DEF Spreading
  <2>1. Coming(s, c[2], n, age, post2, write2)
    <3>1. CASE HearsNewer(c, m, age, post, write, post2, write2)
      BY <1>2, <1>3, <1>10, <2>0, <3>1 DEF HearsNewer
    <3>2. CASE HearsOlder(c, m, age, post, write, post2, write2)
      BY <1>2, <2>0, <3>2 DEF HearsOlder, Coming
    <3>3. CASE HearsSame(c, m, age, post, write, post2, write2)
      <4>1. m = n
        BY <1>2, <2>0, <3>3 DEF HearsSame
      <4>2. age[c[2]] = n
        BY <1>1, <1>2, <1>3, <4>1
      <4> QED BY <4>2 DEF Coming
    <3> QED BY <3>1, <3>2, <3>3 DEF Hears
  <2>2. ASSUME NEW x \in Server \ {s}
        PROVE  Coming(s, x, n, age, post2, write2) \/ Waiting(s, x, query, tell2)
    <3>1. CASE x = c[2]
      BY <2>1, <3>1
    <3>2. CASE x # c[2]
      <4>1. <<s, x>> \in Conn /\ <<s, x>> # c
        BY <1>2, <3>2, PeerConn
      <4>2. tell2[<<s, x>>] = tell[<<s, x>>]
        BY <1>6, <4>1
      <4> QED BY <1>8, <1>10, <4>2 DEF Spreading, Waiting
    <3> QED BY <3>1, <3>2
  <2>3. Spreading(s, n, age, post2, write2, query, tell2)
    BY <2>0, <2>2 DEF Spreading
  <2> QED BY <1>7, <2>3 DEF Repairing
<1>11. CASE Learned(s, n, age, post, write)
  <2>1. Learned(s, n, age, post2, write2)
    BY <1>4, <1>8, <1>11 DEF Learned
  <2> QED BY <1>7, <2>1 DEF Repairing
<1>12. CASE n # 0 /\ Unheard(s, n, age, post, query, tell)
  <2>0. age[s] # n /\ n \notin post[s]
    BY <1>12 DEF Unheard
  <2>1. CASE m = n
    <3>1. HearsNewer(c, m, age, post, write, post2, write2)
      BY <1>1, <1>2, <1>3, <2>0, <2>1 DEF Hears, HearsOlder, HearsSame
    <3>2. n \in post2[s]
      BY <1>2, <2>1, <3>1 DEF HearsNewer
    <3>3. ASSUME NEW x \in Server \ {s}
          PROVE  n \in write2[<<s, x>>]
      <4>1. <<s, x>> \in Conn /\ <<s, x>>[1] = s
        BY PeerConn
      <4>2. \A d \in Conn : d[1] = s => m \in write2[d]
        BY <1>2, <3>1 DEF HearsNewer, JoinsAll
      <4> QED BY <2>1, <4>1, <4>2
    <3>4. Learned(s, n, age, post2, write2)
      BY <3>2, <3>3 DEF Learned, Coming
    <3> QED BY <1>7, <3>4 DEF Repairing
  <2>2. CASE m # n
    <3>1. n \notin post2[s]
      BY <1>4, <2>0, <2>2
    <3>2. PICK h \in Server \ {s} : age[h] = n /\ (<<s, h>> \in query \/ n \in tell[<<s, h>>])
      BY <1>12 DEF Unheard
    <3>3. <<s, h>> \in Conn
      BY PeerConn
    <3>4. <<s, h>> \in query \/ n \in tell2[<<s, h>>]
      BY <1>6, <2>2, <3>2, <3>3
    <3>5. Unheard(s, n, age, post2, query, tell2)
      BY <2>0, <3>1, <3>2, <3>4 DEF Unheard
    <3> QED BY <1>7, <3>5 DEF Repairing
  <2> QED BY <2>1, <2>2
<1> QED BY <1>9, <1>10, <1>11, <1>12 DEF Repairing

\* When nothing is under way any more, all servers hold the newest element.
LEMMA RepairDone ==
  ASSUME NEW age, NEW post, NEW write, NEW query, NEW tell,
         Shaped(age, post, write, query, tell),
         NEW s \in Server, NEW n \in Nat,
         Repairing(s, n, age, post, write, query, tell),
         \A t \in Server : post[t] = {},
         \A c \in Conn : write[c] = {} /\ tell[c] = {} /\ c \notin query,
         NEW t \in Server
  PROVE  age[t] = n
<1>1. age[t] \in Nat /\ age[t] <= n
  BY DEF Shaped, Repairing, Bounded
<1>2. \A x \in Server \ {s} :
        write[<<s, x>>] = {} /\ tell[<<s, x>>] = {} /\ <<s, x>> \notin query
  BY PeerConn
<1>3. CASE n = 0
  BY <1>1, <1>3
<1>4. CASE Spreading(s, n, age, post, write, query, tell)
  BY <1>2, <1>4 DEF Spreading, Coming, Waiting
<1>5. ~Learned(s, n, age, post, write)
  BY DEF Learned
<1>6. ~Unheard(s, n, age, post, query, tell)
  BY <1>2 DEF Unheard
<1> QED BY <1>3, <1>4, <1>5, <1>6 DEF Repairing

\* The newest of the ages of finitely many servers.
LEMMA NewestExists ==
  ASSUME NEW S, IsFiniteSet(S), NEW f \in [S -> Nat], S # {}
  PROVE  \E h \in S : \A x \in S : f[x] <= f[h]
<1> DEFINE Good == {U \in SUBSET S : U = {} \/ \E h \in U : \A x \in U : f[x] <= f[h]}
<1>1. ASSUME NEW U \in SUBSET S,
             \A V \in SUBSET S : V \subseteq U /\ V # U => V \in Good
      PROVE  U \in Good
  <2> SUFFICES ASSUME U # {} PROVE \E h \in U : \A x \in U : f[x] <= f[h]
    OBVIOUS
  <2>1. PICK u \in U : TRUE
    OBVIOUS
  <2>2. U \ {u} \in Good
    BY <1>1
  <2>3. CASE U \ {u} = {}
    <3>1. \A x \in U : x = u
      BY <2>3
    <3>2. f[u] \in Nat /\ f[u] <= f[u]
      OBVIOUS
    <3> QED BY <3>1, <3>2
  <2>4. CASE U \ {u} # {}
    <3>1. PICK h \in U \ {u} : \A x \in U \ {u} : f[x] <= f[h]
      BY <2>2, <2>4
    <3>2. f[u] \in Nat /\ f[h] \in Nat /\ \A x \in U : f[x] \in Nat
      OBVIOUS
    <3>3. CASE f[u] <= f[h]
      <4>1. \A x \in U : f[x] <= f[h]
        BY <3>1, <3>3
      <4> QED BY <4>1
    <3>4. CASE f[h] < f[u]
      <4>1. \A x \in U : f[x] <= f[u]
        BY <3>1, <3>2, <3>4
      <4> QED BY <4>1
    <3> QED BY <3>2, <3>3, <3>4
  <2> QED BY <2>3, <2>4
<1> HIDE DEF Good
<1>2. SUBSET S \subseteq Good
  BY <1>1, SubsetInduction
<1> QED BY <1>2 DEF Good

\* s asks all others while nothing is under way.
LEMMA RepairBegins ==
  ASSUME NEW age, NEW post, NEW write, NEW query, NEW tell,
         Shaped(age, post, write, query, tell),
         NEW s \in Server,
         \A t \in Server : post[t] = {},
         \A c \in Conn : write[c] = {} /\ tell[c] = {} /\ (c \in query <=> c[1] = s)
  PROVE  \E h \in Server : Repairing(s, age[h], age, post, write, query, tell)
<1>1. IsFiniteSet(Server) /\ Server # {} /\ age \in [Server -> Nat]
  BY ServerAssumption DEF Shaped
<1>2. PICK h \in Server : \A x \in Server : age[x] <= age[h]
  BY <1>1, NewestExists
<1> DEFINE n == age[h]
<1>3. Bounded(s, n, age, post, write, query, tell)
  BY <1>2 DEF Bounded
<1>4. \A x \in Server \ {s} : <<s, x>> \in query
  BY PeerConn
<1>5. CASE age[s] = n
  <2>1. Spreading(s, n, age, post, write, query, tell)
    BY <1>4, <1>5 DEF Spreading, Waiting
  <2> QED BY <1>3, <2>1 DEF Repairing
<1>6. CASE age[s] # n
  <2>1. Unheard(s, n, age, post, query, tell)
    BY <1>4, <1>6 DEF Unheard
  <2> QED BY <1>3, <2>1 DEF Repairing
<1> QED BY <1>5, <1>6

-----------------------------------------------------------------------------
(* What the handlers do to what is under way                               *)

\* The next message on c is taken.
LEMMA PoppedStamps ==
  ASSUME NEW R, NEW f \in [Conn -> Seq(R)], NEW c \in Conn, f[c] # <<>>,
         NEW m, m = Head(f[c]), NEW S, NEW g, g = Popped(f, c)
  PROVE  /\ m \notin S => StampsOn(g, S) = StampsOn(f, S) /\ HasOn(g, S) = HasOn(f, S)
         /\ m \in S => /\ m.timestamp \in StampsOn(f, S)[c]
                       /\ Took(StampsOn(f, S)[c], StampsOn(g, S)[c], m.timestamp)
                       /\ SameBut(StampsOn(f, S), StampsOn(g, S), c)
                       /\ c \in HasOn(f, S) /\ Took(HasOn(f, S), HasOn(g, S), c)
<1>1. \A d \in Conn : g[d] = IF d = c THEN Tail(f[c]) ELSE f[d]
  BY PoppedType
<1>2. f[c] \in Seq(R)
  OBVIOUS
<1>3. /\ m \in S => m.timestamp \in Stamps(f[c], S)
                      /\ Took(Stamps(f[c], S), Stamps(g[c], S), m.timestamp)
      /\ m \notin S => Stamps(g[c], S) = Stamps(f[c], S)
      /\ m \in S => Has(f[c], S)
      /\ Has(g[c], S) => Has(f[c], S)
      /\ m \notin S => (Has(g[c], S) <=> Has(f[c], S))
  <2>1. g[c] = Tail(f[c])
    BY <1>1
  <2>2. /\ m \in S => m.timestamp \in Stamps(f[c], S)
                        /\ Took(Stamps(f[c], S), Stamps(Tail(f[c]), S), m.timestamp)
        /\ m \notin S => Stamps(Tail(f[c]), S) = Stamps(f[c], S)
        /\ m \in S => Has(f[c], S)
        /\ Has(Tail(f[c]), S) => Has(f[c], S)
        /\ m \notin S => (Has(Tail(f[c]), S) <=> Has(f[c], S))
    BY <1>2, StampsTail
  <2> QED BY <2>1, <2>2
<1>4. \A d \in Conn : d # c => Stamps(g[d], S) = Stamps(f[d], S) /\ (Has(g[d], S) <=> Has(f[d], S))
  BY <1>1
<1>5. m \notin S => StampsOn(g, S) = StampsOn(f, S) /\ HasOn(g, S) = HasOn(f, S)
  BY <1>3, <1>4 DEF StampsOn, HasOn
<1>6. m \in S => /\ m.timestamp \in StampsOn(f, S)[c]
                 /\ Took(StampsOn(f, S)[c], StampsOn(g, S)[c], m.timestamp)
                 /\ SameBut(StampsOn(f, S), StampsOn(g, S), c)
  BY <1>3, <1>4 DEF StampsOn, SameBut
<1>7. m \in S => c \in HasOn(f, S) /\ Took(HasOn(f, S), HasOn(g, S), c)
  BY <1>3, <1>4 DEF HasOn, Took
<1> QED BY <1>5, <1>6, <1>7

LEMMA PoppedOthers ==
  ASSUME NEW R, NEW f \in [Conn -> Seq(R)], NEW c \in Conn, f[c] # <<>>,
         NEW S, Head(f[c]) \notin S
  PROVE  StampsOn(Popped(f, c), S) = StampsOn(f, S)
<1> DEFINE m == Head(f[c])
           g == Popped(f, c)
<1>1. m = Head(f[c]) /\ g = Popped(f, c) /\ m \notin S
  OBVIOUS
<1> HIDE DEF m, g
<1>2. StampsOn(g, S) = StampsOn(f, S) /\ HasOn(g, S) = HasOn(f, S)
  BY <1>1, PoppedStamps
<1> QED BY <1>2 DEF g

LEMMA PoppedOtherAsks ==
  ASSUME NEW R, NEW f \in [Conn -> Seq(R)], NEW c \in Conn, f[c] # <<>>,
         NEW S, Head(f[c]) \notin S
  PROVE  HasOn(Popped(f, c), S) = HasOn(f, S)
<1> DEFINE m == Head(f[c])
           g == Popped(f, c)
<1>1. m = Head(f[c]) /\ g = Popped(f, c) /\ m \notin S
  OBVIOUS
<1> HIDE DEF m, g
<1>2. StampsOn(g, S) = StampsOn(f, S) /\ HasOn(g, S) = HasOn(f, S)
  BY <1>1, PoppedStamps
<1> QED BY <1>2 DEF g

LEMMA PoppedOne ==
  ASSUME NEW R, NEW f \in [Conn -> Seq(R)], NEW c \in Conn, f[c] # <<>>,
         NEW S, Head(f[c]) \in S
  PROVE  /\ Head(f[c]).timestamp \in StampsOn(f, S)[c]
         /\ Took(StampsOn(f, S)[c], StampsOn(Popped(f, c), S)[c], Head(f[c]).timestamp)
         /\ SameBut(StampsOn(f, S), StampsOn(Popped(f, c), S), c)
BY PoppedStamps

LEMMA PoppedAsk ==
  ASSUME NEW R, NEW f \in [Conn -> Seq(R)], NEW c \in Conn, f[c] # <<>>,
         NEW S, Head(f[c]) \in S
  PROVE  c \in HasOn(f, S) /\ Took(HasOn(f, S), HasOn(Popped(f, c), S), c)
BY PoppedStamps

\* A message is sent on c.
LEMMA SentStamps ==
  ASSUME NEW R, NEW f \in [Conn -> Seq(R)], NEW c \in Conn, link = Conn,
         NEW m \in R, NEW S, NEW g, g = SendOn(f, c, m)
  PROVE  /\ m \notin S => StampsOn(g, S) = StampsOn(f, S) /\ HasOn(g, S) = HasOn(f, S)
         /\ m \in S => /\ StampsOn(g, S)[c] = StampsOn(f, S)[c] \cup {m.timestamp}
                       /\ SameBut(StampsOn(f, S), StampsOn(g, S), c)
<1>1. \A d \in Conn : g[d] = IF d = c THEN Append(f[c], m) ELSE f[d]
  BY SendOnType
<1>2. /\ m \in S => Stamps(g[c], S) = Stamps(f[c], S) \cup {m.timestamp}
      /\ m \notin S => Stamps(g[c], S) = Stamps(f[c], S)
      /\ Has(g[c], S) <=> Has(f[c], S) \/ m \in S
  <2>1. g[c] = Append(f[c], m) /\ f[c] \in Seq(R)
    BY <1>1
  <2>2. /\ m \in S => Stamps(Append(f[c], m), S) = Stamps(f[c], S) \cup {m.timestamp}
        /\ m \notin S => Stamps(Append(f[c], m), S) = Stamps(f[c], S)
        /\ Has(Append(f[c], m), S) <=> Has(f[c], S) \/ m \in S
    BY <2>1, StampsAppend
  <2> QED BY <2>1, <2>2
<1>3. \A d \in Conn : d # c => Stamps(g[d], S) = Stamps(f[d], S) /\ (Has(g[d], S) <=> Has(f[d], S))
  BY <1>1
<1>4. m \notin S => StampsOn(g, S) = StampsOn(f, S) /\ HasOn(g, S) = HasOn(f, S)
  BY <1>2, <1>3 DEF StampsOn, HasOn
<1>5. m \in S => /\ StampsOn(g, S)[c] = StampsOn(f, S)[c] \cup {m.timestamp}
                 /\ SameBut(StampsOn(f, S), StampsOn(g, S), c)
  BY <1>2, <1>3 DEF StampsOn, SameBut
<1> QED BY <1>4, <1>5

LEMMA SentOthers ==
  ASSUME NEW R, NEW f \in [Conn -> Seq(R)], NEW c \in Conn, link = Conn,
         NEW m \in R, NEW S, m \notin S
  PROVE  StampsOn(SendOn(f, c, m), S) = StampsOn(f, S)
BY SentStamps

LEMMA SentNoAsk ==
  ASSUME NEW R, NEW f \in [Conn -> Seq(R)], NEW c \in Conn, link = Conn,
         NEW m \in R, NEW S, m \notin S
  PROVE  HasOn(SendOn(f, c, m), S) = HasOn(f, S)
BY SentStamps

LEMMA SentOne ==
  ASSUME NEW R, NEW f \in [Conn -> Seq(R)], NEW c \in Conn, link = Conn,
         NEW m \in R, NEW S, m \in S
  PROVE  /\ StampsOn(SendOn(f, c, m), S)[c] = StampsOn(f, S)[c] \cup {m.timestamp}
         /\ SameBut(StampsOn(f, S), StampsOn(SendOn(f, c, m), S), c)
BY SentStamps

\* A message is sent on all connections of s.
LEMMA SentAllStamps ==
  ASSUME NEW R, NEW f \in [Conn -> Seq(R)], NEW s \in Server, link = Conn,
         NEW m \in R, NEW S, NEW g, g = SendAll(f, s, m)
  PROVE  /\ m \notin S => StampsOn(g, S) = StampsOn(f, S) /\ HasOn(g, S) = HasOn(f, S)
         /\ m \in S =>
              /\ \A d \in Conn : StampsOn(g, S)[d] = IF d[1] = s
                                                     THEN StampsOn(f, S)[d] \cup {m.timestamp}
                                                     ELSE StampsOn(f, S)[d]
              /\ HasOn(g, S) = HasOn(f, S) \cup {d \in Conn : d[1] = s}
<1>1. \A d \in Conn : g[d] = IF d[1] = s THEN Append(f[d], m) ELSE f[d]
  BY SendAllType
<1>2. ASSUME NEW d \in Conn, d[1] = s
      PROVE  /\ m \in S => Stamps(g[d], S) = Stamps(f[d], S) \cup {m.timestamp}
             /\ m \notin S => Stamps(g[d], S) = Stamps(f[d], S)
             /\ Has(g[d], S) <=> Has(f[d], S) \/ m \in S
  <2>1. g[d] = Append(f[d], m) /\ f[d] \in Seq(R)
    BY <1>1, <1>2
  <2>2. /\ m \in S => Stamps(Append(f[d], m), S) = Stamps(f[d], S) \cup {m.timestamp}
        /\ m \notin S => Stamps(Append(f[d], m), S) = Stamps(f[d], S)
        /\ Has(Append(f[d], m), S) <=> Has(f[d], S) \/ m \in S
    BY <2>1, StampsAppend
  <2> QED BY <2>1, <2>2
<1>3. ASSUME NEW d \in Conn, d[1] # s
      PROVE  Stamps(g[d], S) = Stamps(f[d], S) /\ (Has(g[d], S) <=> Has(f[d], S))
  BY <1>1, <1>3
<1>4. m \notin S => StampsOn(g, S) = StampsOn(f, S) /\ HasOn(g, S) = HasOn(f, S)
  BY <1>2, <1>3 DEF StampsOn, HasOn
<1>5. m \in S => \A d \in Conn : StampsOn(g, S)[d] = IF d[1] = s
                                                     THEN StampsOn(f, S)[d] \cup {m.timestamp}
                                                     ELSE StampsOn(f, S)[d]
  BY <1>2, <1>3 DEF StampsOn
<1>6. m \in S => HasOn(g, S) = HasOn(f, S) \cup {d \in Conn : d[1] = s}
  BY <1>2, <1>3 DEF HasOn
<1> QED BY <1>4, <1>5, <1>6

LEMMA SentAllOthers ==
  ASSUME NEW f \in [Conn -> Seq(Request)], NEW s \in Server, link = Conn,
         NEW m \in Request, NEW S, m \notin S
  PROVE  StampsOn(SendAll(f, s, m), S) = StampsOn(f, S)
BY SentAllStamps

LEMMA SentAllNoAsk ==
  ASSUME NEW f \in [Conn -> Seq(Request)], NEW s \in Server, link = Conn,
         NEW m \in Request, NEW S, m \notin S
  PROVE  HasOn(SendAll(f, s, m), S) = HasOn(f, S)
BY SentAllStamps

LEMMA SentAllOne ==
  ASSUME NEW f \in [Conn -> Seq(Request)], NEW s \in Server, link = Conn,
         NEW m \in Request, NEW S, m \in S
  PROVE  JoinsAll(s, m.timestamp, StampsOn(f, S), StampsOn(SendAll(f, s, m), S))
<1> DEFINE g == SendAll(f, s, m)
<1>1. \A d \in Conn : g[d] = IF d[1] = s THEN Append(f[d], m) ELSE f[d]
  BY SendAllType
<1> HIDE DEF g
<1>2. \A d \in Conn : Stamps(Append(f[d], m), S) = Stamps(f[d], S) \cup {m.timestamp}
  BY StampsAppend
<1>3. \A d \in Conn : StampsOn(g, S)[d] = IF d[1] = s THEN StampsOn(f, S)[d] \cup {m.timestamp}
                                           ELSE StampsOn(f, S)[d]
  BY <1>1, <1>2 DEF StampsOn
<1> QED BY <1>3 DEF g, JoinsAll

LEMMA SentAllAsk ==
  ASSUME NEW f \in [Conn -> Seq(Request)], NEW s \in Server, link = Conn,
         NEW m \in Request, NEW S, m \in S
  PROVE  HasOn(SendAll(f, s, m), S) = HasOn(f, S) \cup {d \in Conn : d[1] = s}
BY SentAllStamps

\* The types of what is under way.
LEMMA UnderWayType ==
  ASSUME TypeOK, NEW k \in Key
  PROVE  Shaped(Ages(k), Posts(k), Writes(k), Queries(k), Tells(k))
<1>1. Ages(k) \in [Server -> Nat]
  BY ReadType, ElementType DEF Ages
<1>2. ASSUME NEW R, NEW q \in Seq(R), NEW S, \A m \in S : m.timestamp \in Nat
      PROVE  Stamps(q, S) \in SUBSET Nat
  BY <1>2 DEF Stamps
<1>3. Posts(k) \in [Server -> SUBSET Nat]
  <2>1. \A m \in PostsOf(k) : m.timestamp \in Nat
    BY StampAssumption DEF PostsOf, DoWrite
  <2>2. \A t \in Server : m_log[t] \in Seq(DoWrite)
    BY DEF TypeOK
  <2>3. \A t \in Server : Stamps(m_log[t], PostsOf(k)) \in SUBSET Nat
    BY <1>2, <2>1, <2>2
  <2> QED BY <2>3 DEF Posts
<1>4. Writes(k) \in [Conn -> SUBSET Nat]
  <2>1. \A m \in WritesOf(k) : m.timestamp \in Nat
    BY StampAssumption DEF WritesOf, Request, DoWriteMsg, KeyMsg, ReadMsg, AckMsg
  <2>2. \A c \in Conn : fwd[c] \in Seq(Request)
    BY DEF TypeOK
  <2>3. \A c \in Conn : Stamps(fwd[c], WritesOf(k)) \in SUBSET Nat
    BY <1>2, <2>1, <2>2
  <2> QED BY <2>3 DEF Writes, StampsOn
<1>5. Tells(k) \in [Conn -> SUBSET Nat]
  <2>1. \A m \in TellsOf(k) : m.timestamp \in Nat
    BY StampAssumption DEF TellsOf, Response
  <2>2. \A c \in Conn : bwd[c] \in Seq(Response)
    BY DEF TypeOK
  <2>3. \A c \in Conn : Stamps(bwd[c], TellsOf(k)) \in SUBSET Nat
    BY <1>2, <2>1, <2>2
  <2> QED BY <2>3 DEF Tells, StampsOn
<1>6. Queries(k) \in SUBSET Conn
  BY DEF Queries, HasOn
<1> QED BY <1>1, <1>3, <1>4, <1>5, <1>6 DEF Shaped

\* The same in the next state.
LEMMA NextUnderWayType ==
  ASSUME NEW k \in Key
  PROVE  TypeOK' => Shaped(Ages(k)', Posts(k)', Writes(k)', Queries(k)', Tells(k)')
<1>1. TypeOK => Shaped(Ages(k), Posts(k), Writes(k), Queries(k), Tells(k))
  BY UnderWayType
<1>2. Shaped(Ages(k), Posts(k), Writes(k), Queries(k), Tells(k))'
        <=> Shaped(Ages(k)', Posts(k)', Writes(k)', Queries(k)', Tells(k)')
  BY DEF Shaped
<1> QED BY <1>1, <1>2, PTL

\* Replica::write posts the append unless it is stale.
LEMMA PostedStamps ==
  ASSUME TypeOK, NEW k \in Key, NEW t \in Server, NEW j \in Key, NEW e \in Element,
         m_log' = PostWrite(t, j, e)
  PROVE  /\ j # k \/ Stale(m_store[t][j], e.timestamp) => Posts(k)' = Posts(k)
         /\ j = k /\ Stale(m_store[t][j], e.timestamp) => e.timestamp <= Ages(k)[t]
         /\ j = k /\ ~Stale(m_store[t][j], e.timestamp) =>
              /\ Posts(k)'[t] = Posts(k)[t] \cup {e.timestamp}
              /\ SameBut(Posts(k), Posts(k)', t)
<1> DEFINE r == [key |-> j, val |-> e.data, timestamp |-> e.timestamp]
<1>1. r \in DoWrite /\ r.timestamp = e.timestamp /\ (r \in PostsOf(k) <=> j = k)
  BY ElementType DEF DoWrite, PostsOf
<1>2. m_log[t] \in Seq(DoWrite) /\ m_log \in [Server -> Seq(DoWrite)]
  BY DEF TypeOK
<1>3. CASE Stale(m_store[t][j], e.timestamp)
  <2>1. m_log' = m_log
    BY <1>3 DEF PostWrite
  <2>2. Posts(k)' = Posts(k)
    BY <2>1 DEF Posts
  <2>3. j = k => e.timestamp <= Ages(k)[t]
    BY <1>3 DEF Stale, Ages, ReadOrEmpty
  <2> QED BY <1>3, <2>2, <2>3
<1>4. CASE ~Stale(m_store[t][j], e.timestamp)
  <2>1. m_log' = [m_log EXCEPT ![t] = Append(m_log[t], r)]
    BY <1>4 DEF PostWrite
  <2> HIDE DEF r
  <2>2. m_log'[t] = Append(m_log[t], r) /\ \A x \in Server \ {t} : m_log'[x] = m_log[x]
    BY <1>2, <2>1
  <2>3. /\ j = k => Stamps(m_log'[t], PostsOf(k)) = Stamps(m_log[t], PostsOf(k)) \cup {e.timestamp}
        /\ j # k => Stamps(m_log'[t], PostsOf(k)) = Stamps(m_log[t], PostsOf(k))
    <3> DEFINE q == m_log[t]
               S == PostsOf(k)
    <3>1. q \in Seq(DoWrite)
      BY <1>2
    <3> HIDE DEF q, S
    <3>2. /\ r \in S => Stamps(Append(q, r), S) = Stamps(q, S) \cup {r.timestamp}
          /\ r \notin S => Stamps(Append(q, r), S) = Stamps(q, S)
      BY <1>1, <3>1, StampsAppend
    <3> QED BY <1>1, <2>2, <3>2 DEF q, S
  <2>4. Posts(k)' = [x \in Server |-> Stamps(m_log'[x], PostsOf(k))]
    BY DEF Posts
  <2>5. j = k => Posts(k)'[t] = Posts(k)[t] \cup {e.timestamp} /\ SameBut(Posts(k), Posts(k)', t)
    BY <2>2, <2>3, <2>4 DEF Posts, SameBut
  <2>6. j # k => Posts(k)' = Posts(k)
    <3> SUFFICES ASSUME j # k PROVE \A x \in Server : Stamps(m_log'[x], PostsOf(k)) = Stamps(m_log[x], PostsOf(k))
      BY <2>4 DEF Posts
    <3> QED BY <2>2, <2>3
  <2> QED BY <1>4, <2>5, <2>6
<1> QED BY <1>3, <1>4

\* RunLog is a step of the repair of k or has nothing to do with it.
LEMMA InstalledStamps ==
  ASSUME TypeOK, NEW k \in Key, NEW t \in Server, RunLog(t)
  PROVE  \/ Ages(k)' = Ages(k) /\ Posts(k)' = Posts(k)
         \/ \E m : Installs(t, m, Ages(k), Posts(k), Ages(k)', Posts(k)')
<1> DEFINE r == Head(m_log[t])
<1>1. m_log[t] \in Seq(DoWrite) /\ m_log[t] # <<>>
  BY DEF RunLog, TypeOK
<1>2. r \in DoWrite /\ r.key \in Key /\ r.timestamp \in Nat
  <2>1. r \in DoWrite
    BY <1>1, QueueTail
  <2> QED BY <2>1, StampAssumption DEF DoWrite
<1>3. ElementOf(r) \in Element /\ ElementOf(r).timestamp = r.timestamp /\ ElementOf(r) # Null
  BY <1>2, NullAssumption DEF ElementOf, Element, DoWrite
<1>4. /\ m_log'[t] = Tail(m_log[t]) /\ m_store'[t] = Install(m_store[t], r)
      /\ \A x \in Server \ {t} : m_log'[x] = m_log[x] /\ m_store'[x] = m_store[x]
  BY DEF RunLog, TypeOK
<1>5. m_store[t] \in [Key -> Element \cup {Null}]
  BY DEF TypeOK, StoreType
<1> HIDE DEF r
<1>6. /\ r \in PostsOf(k) => r.timestamp \in Stamps(m_log[t], PostsOf(k))
          /\ Took(Stamps(m_log[t], PostsOf(k)), Stamps(m_log'[t], PostsOf(k)), r.timestamp)
      /\ r \notin PostsOf(k) => Stamps(m_log'[t], PostsOf(k)) = Stamps(m_log[t], PostsOf(k))
  <2> DEFINE q == m_log[t]
             S == PostsOf(k)
  <2>1. q \in Seq(DoWrite) /\ q # <<>> /\ r = Head(q) /\ m_log'[t] = Tail(q)
    BY <1>1, <1>4 DEF r
  <2> HIDE DEF q, S
  <2>2. /\ r \in S => r.timestamp \in Stamps(q, S) /\ Took(Stamps(q, S), Stamps(Tail(q), S), r.timestamp)
        /\ r \notin S => Stamps(Tail(q), S) = Stamps(q, S)
    BY ONLY <2>1, StampsTail
  <2> QED BY <2>1, <2>2 DEF q, S
<1>7. Posts(k)' = [x \in Server |-> Stamps(m_log'[x], PostsOf(k))]
  BY DEF Posts
<1>8. /\ Ages(k)' = [x \in Server |-> IF m_store'[x][k] = Null THEN Empty.timestamp
                                       ELSE m_store'[x][k].timestamp]
      /\ Ages(k) = [x \in Server |-> IF m_store[x][k] = Null THEN Empty.timestamp
                                       ELSE m_store[x][k].timestamp]
  BY DEF Ages, ReadOrEmpty
<1>9. CASE r.key # k
  <2>1. r \notin PostsOf(k)
    BY <1>9 DEF PostsOf
  <2>2. Posts(k)' = Posts(k)
    <3>1. \A x \in Server : Stamps(m_log'[x], PostsOf(k)) = Stamps(m_log[x], PostsOf(k))
      BY <1>4, <1>6, <2>1
    <3> QED BY <1>7, <3>1 DEF Posts
  <2>3. m_store'[t][k] = m_store[t][k]
    BY <1>2, <1>4, <1>5, <1>9 DEF Install
  <2>4. \A x \in Server : m_store'[x][k] = m_store[x][k]
    BY <1>4, <2>3
  <2>5. Ages(k)' = Ages(k)
    BY <1>8, <2>4
  <2> QED BY <2>2, <2>5
<1>10. CASE r.key = k
  <2>1. r \in PostsOf(k)
    BY <1>2, <1>10 DEF PostsOf
  <2>2. /\ r.timestamp \in Posts(k)[t] /\ Took(Posts(k)[t], Posts(k)'[t], r.timestamp)
        /\ SameBut(Posts(k), Posts(k)', t)
    BY <1>4, <1>6, <1>7, <2>1 DEF Posts, SameBut
  <2>3. SameBut(Ages(k), Ages(k)', t)
    BY <1>4, <1>8 DEF SameBut
  <2>4. Empty.timestamp = 0
    BY DEF Empty
  <2>5. Ages(k)'[t] = IF r.timestamp <= Ages(k)[t] THEN Ages(k)[t] ELSE r.timestamp
    <3>1. CASE m_store[t][k] = Null
      <4>1. m_store'[t][k] = ElementOf(r)
        BY <1>4, <1>5, <1>10, <3>1 DEF Install, Stale
      <4>2. Ages(k)'[t] = r.timestamp /\ Ages(k)[t] = 0
        BY <1>3, <1>8, <2>4, <3>1, <4>1
      <4> QED BY <1>2, <4>2
    <3>2. CASE m_store[t][k] # Null /\ r.timestamp <= m_store[t][k].timestamp
      <4>1. m_store'[t][k] = m_store[t][k]
        BY <1>4, <1>10, <3>2 DEF Install, Stale
      <4> QED BY <1>8, <3>2, <4>1
    <3>3. CASE m_store[t][k] # Null /\ ~(r.timestamp <= m_store[t][k].timestamp)
      <4>1. m_store'[t][k] = ElementOf(r)
        BY <1>4, <1>5, <1>10, <3>3 DEF Install, Stale
      <4> QED BY <1>3, <1>8, <3>3, <4>1
    <3> QED BY <3>1, <3>2, <3>3
  <2>6. Installs(t, r.timestamp, Ages(k), Posts(k), Ages(k)', Posts(k)')
    BY <2>2, <2>3, <2>5 DEF Installs
  <2> QED BY <2>6
<1> QED BY <1>9, <1>10

RepairOf(s, n, k) == Repairing(s, n, Ages(k), Posts(k), Writes(k), Queries(k), Tells(k))

LEMMA NextRepairOf ==
  ASSUME NEW s, NEW n, NEW k
  PROVE  RepairOf(s, n, k)'
           <=> Repairing(s, n, Ages(k)', Posts(k)', Writes(k)', Queries(k)', Tells(k)')
BY DEF RepairOf, Repairing, Bounded, Spreading, Learned, Unheard, Coming, Waiting

\* The appends.
LEMMA RunLogRepair ==
  ASSUME TypeOK, TypeOK', NEW k \in Key, NEW s \in Server, NEW n \in Nat, RepairOf(s, n, k),
         NEW t \in Server, RunLog(t)
  PROVE  RepairOf(s, n, k)'
<1>1. fwd' = fwd /\ bwd' = bwd
  BY DEF RunLog, net
<1>2. Writes(k)' = Writes(k) /\ Queries(k)' = Queries(k) /\ Tells(k)' = Tells(k)
  BY <1>1 DEF Writes, Queries, Tells, StampsOn, HasOn
<1>3. Repairing(s, n, Ages(k), Posts(k), Writes(k), Queries(k), Tells(k))
  BY DEF RepairOf
<1>4. Shaped(Ages(k), Posts(k), Writes(k), Queries(k), Tells(k))
  BY UnderWayType
<1>5. Shaped(Ages(k)', Posts(k)', Writes(k), Queries(k), Tells(k))
  BY <1>2, NextUnderWayType
<1>6. Repairing(s, n, Ages(k)', Posts(k)', Writes(k), Queries(k), Tells(k))
  <2>1. CASE Ages(k)' = Ages(k) /\ Posts(k)' = Posts(k)
    BY <1>3, <2>1
  <2>2. CASE \E m : Installs(t, m, Ages(k), Posts(k), Ages(k)', Posts(k)')
    BY <1>3, <1>4, <1>5, <2>2, InstallKeeps
  <2> QED BY <2>1, <2>2, InstalledStamps
<1> QED BY <1>2, <1>6, NextRepairOf

\* HandleDoWrite: the acknowledgement it sends has no part in a repair.
LEMMA DoWriteRepair ==
  ASSUME TypeOK, TypeOK', link = Conn, NEW k \in Key, NEW s \in Server, NEW n \in Nat,
         RepairOf(s, n, k), NEW c \in Conn, HandleDoWrite(c)
  PROVE  RepairOf(s, n, k)'
<1> DEFINE msg == Head(fwd[c])
           ack == [type |-> "WriteComplete", uuid |-> msg.uuid]
           popped == Popped(fwd, c)
           W == WritesOf(k)
           A == AsksOf(k)
<1>0. fwd[c] # <<>> /\ msg.type = "DoWrite" /\ c[1] \in Server /\ c[2] \in Server /\ Back(c) \in Conn
  BY ConnType DEF HandleDoWrite, Arrived
<1>1. /\ msg \in Request /\ msg.key \in Key /\ ElementOf(msg) \in Element
      /\ msg.uuid \in Uuid \cup {RR} /\ ElementOf(msg).timestamp = msg.timestamp
  BY <1>0, RequestType
<1>2. /\ m_store' = m_store /\ bwd' = bwd
      /\ m_log' = PostWrite(c[2], msg.key, ElementOf(msg))
      /\ fwd' = IF msg.uuid = RR THEN popped ELSE SendOn(popped, Back(c), ack)
  BY DEF HandleDoWrite, Back
<1>3. fwd \in [Conn -> Seq(Request)] /\ popped \in [Conn -> Seq(Request)]
  BY <1>0, PoppedType DEF TypeOK
<1>4. Ages(k)' = Ages(k) /\ Tells(k)' = Tells(k)
  BY <1>2 DEF Ages, ReadOrEmpty, Tells, StampsOn
<1>5. msg \notin A /\ (msg \in W <=> msg.key = k)
  BY <1>0, <1>1 DEF AsksOf, WritesOf
<1>6. msg.uuid # RR => ack \in Request /\ ack \notin A /\ ack \notin W
  BY <1>1 DEF Request, AckMsg, AsksOf, WritesOf
<1> HIDE DEF msg, ack, popped, W, A
<1>7. StampsOn(fwd', W) = StampsOn(popped, W) /\ HasOn(fwd', A) = HasOn(popped, A)
  <2>1. CASE msg.uuid = RR
    BY <1>2, <2>1
  <2>2. CASE msg.uuid # RR
    <3>1. fwd' = SendOn(popped, Back(c), ack)
      BY <1>2, <2>2
    <3>2. ack \in Request /\ ack \notin A /\ ack \notin W
      BY <1>6, <2>2
    <3>3. StampsOn(fwd', W) = StampsOn(popped, W)
      BY <1>0, <1>3, <3>1, <3>2, SentOthers
    <3>4. HasOn(fwd', A) = HasOn(popped, A)
      BY <1>0, <1>3, <3>1, <3>2, SentNoAsk
    <3> QED BY <3>3, <3>4
  <2> QED BY <2>1, <2>2
<1>8. /\ HasOn(popped, A) = HasOn(fwd, A)
      /\ msg \notin W => StampsOn(popped, W) = StampsOn(fwd, W)
      /\ msg \in W => /\ msg.timestamp \in StampsOn(fwd, W)[c]
                      /\ Took(StampsOn(fwd, W)[c], StampsOn(popped, W)[c], msg.timestamp)
                      /\ SameBut(StampsOn(fwd, W), StampsOn(popped, W), c)
  <2>1. msg = Head(fwd[c]) /\ popped = Popped(fwd, c)
    BY DEF msg, popped
  <2>2. HasOn(popped, A) = HasOn(fwd, A)
    BY <1>0, <1>3, <1>5, <2>1, PoppedOtherAsks
  <2>3. msg \notin W => StampsOn(popped, W) = StampsOn(fwd, W)
    BY <1>0, <1>3, <2>1, PoppedOthers
  <2>4. msg \in W => /\ msg.timestamp \in StampsOn(fwd, W)[c]
                     /\ Took(StampsOn(fwd, W)[c], StampsOn(popped, W)[c], msg.timestamp)
                     /\ SameBut(StampsOn(fwd, W), StampsOn(popped, W), c)
    BY <1>0, <1>3, <2>1, PoppedOne
  <2> QED BY <2>2, <2>3, <2>4
<1>9. Writes(k)' = StampsOn(popped, W) /\ Writes(k) = StampsOn(fwd, W)
      /\ Queries(k)' = Queries(k)
  <2>1. Writes(k)' = StampsOn(fwd', W) /\ Queries(k)' = HasOn(fwd', A)
    BY DEF Writes, Queries, W, A, StampsOn, HasOn
  <2>2. Writes(k) = StampsOn(fwd, W) /\ Queries(k) = HasOn(fwd, A)
    BY DEF Writes, Queries, W, A
  <2> QED BY <1>7, <1>8, <2>1, <2>2
<1>10. /\ Repairing(s, n, Ages(k), Posts(k), Writes(k), Queries(k), Tells(k))
       /\ Shaped(Ages(k), Posts(k), Writes(k), Queries(k), Tells(k))
       /\ Shaped(Ages(k), Posts(k)', Writes(k)', Queries(k), Tells(k))
  BY <1>4, <1>9, UnderWayType, NextUnderWayType DEF RepairOf
<1>11. Repairing(s, n, Ages(k), Posts(k)', Writes(k)', Queries(k), Tells(k))
  <2> DEFINE e == ElementOf(msg)
  <2>1. CASE msg.key # k
    <3>1. Posts(k)' = Posts(k)
      BY <1>0, <1>1, <1>2, <2>1, PostedStamps
    <3>2. Writes(k)' = Writes(k)
      BY <1>5, <1>8, <1>9, <2>1
    <3> QED BY <1>10, <3>1, <3>2
  <2>2. CASE msg.key = k
    <3>0. /\ Stale(m_store[c[2]][k], msg.timestamp) =>
               Posts(k)' = Posts(k) /\ msg.timestamp <= Ages(k)[c[2]]
          /\ ~Stale(m_store[c[2]][k], msg.timestamp) =>
               /\ Posts(k)'[c[2]] = Posts(k)[c[2]] \cup {msg.timestamp}
               /\ SameBut(Posts(k), Posts(k)', c[2])
      BY <1>0, <1>1, <1>2, <2>2, PostedStamps
    <3>1. /\ \/ Posts(k)'[c[2]] = Posts(k)[c[2]] \cup {msg.timestamp}
             \/ Posts(k)'[c[2]] = Posts(k)[c[2]] /\ msg.timestamp <= Ages(k)[c[2]]
          /\ SameBut(Posts(k), Posts(k)', c[2])
      BY <3>0 DEF SameBut
    <3>2. /\ msg.timestamp \in Writes(k)[c]
          /\ Took(Writes(k)[c], Writes(k)'[c], msg.timestamp)
          /\ SameBut(Writes(k), Writes(k)', c)
      BY <1>5, <1>8, <1>9, <2>2
    <3>3. Arrives(c, msg.timestamp, Ages(k), Posts(k), Writes(k), Posts(k)', Writes(k)')
      BY <3>1, <3>2 DEF Arrives
    <3> QED BY <1>10, <3>3, ArriveKeeps
  <2> QED BY <2>1, <2>2
<1> QED BY <1>4, <1>9, <1>11, NextRepairOf

\* Nothing that is under way about key k has changed.
Unmoved(k) ==
  /\ Ages(k)' = Ages(k) /\ Posts(k)' = Posts(k) /\ Writes(k)' = Writes(k)
  /\ Queries(k)' = Queries(k) /\ Tells(k)' = Tells(k)

LEMMA UnmovedRepair ==
  ASSUME NEW k, NEW s, NEW n, RepairOf(s, n, k), Unmoved(k)
  PROVE  RepairOf(s, n, k)'
BY NextRepairOf DEF RepairOf, Unmoved

LEMMA SameStores ==
  ASSUME NEW k, m_store' = m_store, m_log' = m_log
  PROVE  Ages(k)' = Ages(k) /\ Posts(k)' = Posts(k)
BY DEF Ages, ReadOrEmpty, Posts

LEMMA SameRequests ==
  ASSUME NEW k, fwd' = fwd
  PROVE  Writes(k)' = Writes(k) /\ Queries(k)' = Queries(k)
BY DEF Writes, Queries, StampsOn, HasOn

LEMMA SameAnswers ==
  ASSUME NEW k, bwd' = bwd
  PROVE  Tells(k)' = Tells(k)
BY DEF Tells, StampsOn

\* The next request on c is not about the repair of k.
LEMMA PoppedRequest ==
  ASSUME TypeOK, NEW k \in Key, NEW c \in Conn, fwd[c] # <<>>,
         NEW g, g = Popped(fwd, c)
  PROVE  /\ Head(fwd[c]) \notin WritesOf(k) => StampsOn(g, WritesOf(k)) = Writes(k)
         /\ Head(fwd[c]) \notin AsksOf(k) => HasOn(g, AsksOf(k)) = Queries(k)
         /\ g \in [Conn -> Seq(Request)]
<1>1. fwd \in [Conn -> Seq(Request)]
  BY DEF TypeOK
<1>2. g \in [Conn -> Seq(Request)]
  BY <1>1, PoppedType
<1>3. Head(fwd[c]) \notin WritesOf(k) => StampsOn(g, WritesOf(k)) = Writes(k)
  BY <1>1, PoppedOthers DEF Writes
<1>4. Head(fwd[c]) \notin AsksOf(k) => HasOn(g, AsksOf(k)) = Queries(k)
  BY <1>1, PoppedOtherAsks DEF Queries
<1> QED BY <1>2, <1>3, <1>4

LEMMA DoReadRepairs ==
  ASSUME TypeOK, link = Conn, NEW k \in Key, NEW c \in Conn, HandleDoRead(c)
  PROVE  Unmoved(k)
<1> DEFINE msg == Head(fwd[c])
           answer == [type |-> "ReadComplete", uuid |-> msg.uuid]
<1>1. fwd[c] # <<>> /\ msg.type = "DoRead"
  BY DEF HandleDoRead, Arrived
<1>2. msg.uuid \in Uuid
  BY <1>1, RequestType
<1>3. msg \notin WritesOf(k) /\ msg \notin AsksOf(k)
  BY <1>1 DEF WritesOf, AsksOf
<1>4. answer \in Response /\ answer \notin TellsOf(k)
  BY <1>2 DEF Response, TellsOf
<1>5. /\ m_store' = m_store /\ m_log' = m_log /\ fwd' = Popped(fwd, c)
      /\ bwd' = SendOn(bwd, c, answer)
  BY DEF HandleDoRead, logs
<1> HIDE DEF answer
<1>6. StampsOn(bwd', TellsOf(k)) = StampsOn(bwd, TellsOf(k))
  <2>1. bwd \in [Conn -> Seq(Response)]
    BY DEF TypeOK
  <2> QED BY <1>4, <1>5, <2>1, SentOthers
<1>7. Tells(k)' = Tells(k)
  BY <1>6 DEF Tells, StampsOn
<1>8. StampsOn(fwd', WritesOf(k)) = Writes(k) /\ HasOn(fwd', AsksOf(k)) = Queries(k)
  BY <1>1, <1>3, <1>5, PoppedRequest
<1>9. Writes(k)' = Writes(k) /\ Queries(k)' = Queries(k)
  BY <1>8 DEF Writes, Queries, StampsOn, HasOn
<1> QED BY <1>5, <1>7, <1>9, SameStores DEF Unmoved

LEMMA WriteCompleteRepairs ==
  ASSUME TypeOK, NEW k \in Key, NEW c \in Conn, Arrived(fwd, c, "WriteComplete"),
         m_store' = m_store, m_log' = m_log, fwd' = Popped(fwd, c), bwd' = bwd
  PROVE  Unmoved(k)
<1>1. fwd[c] # <<>> /\ Head(fwd[c]) \notin WritesOf(k) /\ Head(fwd[c]) \notin AsksOf(k)
  BY DEF Arrived, WritesOf, AsksOf
<1>2. StampsOn(fwd', WritesOf(k)) = Writes(k) /\ HasOn(fwd', AsksOf(k)) = Queries(k)
  BY <1>1, PoppedRequest
<1>3. Writes(k)' = Writes(k) /\ Queries(k)' = Queries(k)
  BY <1>2 DEF Writes, Queries, StampsOn, HasOn
<1> QED BY <1>3, SameStores, SameAnswers DEF Unmoved

LEMMA ReadCompleteRepairs ==
  ASSUME TypeOK, NEW k \in Key, NEW c \in Conn, Arrived(bwd, c, "ReadComplete"),
         m_store' = m_store, m_log' = m_log, bwd' = Popped(bwd, c), fwd' = fwd
  PROVE  Unmoved(k)
<1>1. bwd[c] # <<>> /\ Head(bwd[c]) \notin TellsOf(k) /\ bwd \in [Conn -> Seq(Response)]
  BY DEF Arrived, TellsOf, TypeOK
<1>2. StampsOn(bwd', TellsOf(k)) = StampsOn(bwd, TellsOf(k))
  BY <1>1, PoppedOthers
<1>3. Tells(k)' = Tells(k)
  BY <1>2 DEF Tells, StampsOn
<1> QED BY <1>3, SameStores, SameRequests DEF Unmoved

\* HandleReadRepair.
LEMMA ReadRepairRepair ==
  ASSUME TypeOK, TypeOK', link = Conn, NEW k \in Key, NEW s \in Server, NEW n \in Nat,
         RepairOf(s, n, k), NEW c \in Conn, HandleReadRepair(c)
  PROVE  RepairOf(s, n, k)'
<1> DEFINE msg == Head(fwd[c])
           data == ReadOrEmpty(c[2], msg.key)
           answer == [type |-> "ReadRepairResponse", key |-> msg.key, val |-> data.data,
                      timestamp |-> data.timestamp]
           T == TellsOf(k)
<1>0. fwd[c] # <<>> /\ msg.type = "ReadRepair" /\ c[2] \in Server
  BY ConnType DEF HandleReadRepair, Arrived
<1>1. msg \in Request /\ msg.key \in Key
  BY <1>0, RequestType
<1>2. /\ m_store' = m_store /\ m_log' = m_log /\ fwd' = Popped(fwd, c)
      /\ bwd' = SendOn(bwd, c, answer)
  BY DEF HandleReadRepair, logs
<1>3. fwd \in [Conn -> Seq(Request)] /\ bwd \in [Conn -> Seq(Response)]
  BY DEF TypeOK
<1>4. msg \notin WritesOf(k) /\ (msg \in AsksOf(k) <=> msg.key = k)
  BY <1>0, <1>1 DEF AsksOf, WritesOf
<1>5. /\ answer \in Response /\ (answer \in T <=> msg.key = k)
      /\ answer.timestamp = data.timestamp
  <2>1. data \in Element
    BY <1>0, <1>1, ReadType
  <2>2. answer \in Response
    BY <1>1, <2>1, ElementType DEF Response
  <2> QED BY <2>2 DEF TellsOf
<1>6. msg.key = k => data.timestamp = Ages(k)[c[2]]
  BY <1>0 DEF Ages
<1> HIDE DEF answer, data
<1>7. Ages(k)' = Ages(k) /\ Posts(k)' = Posts(k)
  BY <1>2, SameStores
<1>8. StampsOn(fwd', WritesOf(k)) = Writes(k)
  BY <1>0, <1>2, <1>4, PoppedRequest
<1>9. Writes(k)' = Writes(k)
  BY <1>8 DEF Writes, StampsOn
<1>10. CASE msg.key # k
  <2>1. HasOn(fwd', AsksOf(k)) = Queries(k)
    BY <1>0, <1>2, <1>4, <1>10, PoppedRequest
  <2>2. StampsOn(bwd', T) = StampsOn(bwd, T)
    <3>1. answer \in Response /\ answer \notin T
      BY <1>5, <1>10
    <3> HIDE DEF T
    <3> QED BY <1>2, <1>3, <3>1, SentOthers, ZenonT(60)
  <2>3. Queries(k)' = Queries(k) /\ Tells(k)' = Tells(k)
    BY <2>1, <2>2 DEF Queries, HasOn, Tells, StampsOn
  <2> QED BY <1>7, <1>9, <2>3, UnmovedRepair DEF Unmoved
<1>11. CASE msg.key = k
  <2>1. c \in Queries(k) /\ Took(Queries(k), HasOn(fwd', AsksOf(k)), c)
    <3> DEFINE A == AsksOf(k)
    <3>1. Head(fwd[c]) \in A
      BY <1>4, <1>11
    <3> HIDE DEF A
    <3>2. c \in HasOn(fwd, A) /\ Took(HasOn(fwd, A), HasOn(Popped(fwd, c), A), c)
      BY <1>0, <1>3, <3>1, PoppedAsk
    <3> QED BY <1>2, <3>2 DEF Queries, A
  <2>2. /\ StampsOn(bwd', T)[c] = StampsOn(bwd, T)[c] \cup {answer.timestamp}
        /\ SameBut(StampsOn(bwd, T), StampsOn(bwd', T), c)
    <3>1. answer \in Response /\ answer \in T
      BY <1>5, <1>11
    <3> HIDE DEF T
    <3>2. /\ StampsOn(SendOn(bwd, c, answer), T)[c] = StampsOn(bwd, T)[c] \cup {answer.timestamp}
          /\ SameBut(StampsOn(bwd, T), StampsOn(SendOn(bwd, c, answer), T), c)
      BY <1>3, <3>1, SentOne
    <3> QED BY <1>2, <3>2
  <2>3. Queries(k)' = HasOn(fwd', AsksOf(k)) /\ Tells(k)' = StampsOn(bwd', T)
        /\ Tells(k) = StampsOn(bwd, T)
    BY DEF Queries, HasOn, Tells, StampsOn
  <2>4. Answers(c, Ages(k), Queries(k), Tells(k), Queries(k)', Tells(k)')
    BY <1>5, <1>6, <1>11, <2>1, <2>2, <2>3 DEF Answers
  <2>5. /\ Repairing(s, n, Ages(k), Posts(k), Writes(k), Queries(k), Tells(k))
        /\ Shaped(Ages(k), Posts(k), Writes(k), Queries(k), Tells(k))
        /\ Shaped(Ages(k), Posts(k), Writes(k), Queries(k)', Tells(k)')
    BY <1>7, <1>9, UnderWayType, NextUnderWayType DEF RepairOf
  <2>6. Repairing(s, n, Ages(k), Posts(k), Writes(k), Queries(k)', Tells(k)')
    BY <2>4, <2>5, AnswerKeeps
  <2> QED BY <1>7, <1>9, <2>6, NextRepairOf
<1> QED BY <1>10, <1>11

\* HandleReadRepairResponse, with a newer element, an older one, or the same.
LEMMA ResponseRepair ==
  ASSUME TypeOK, TypeOK', link = Conn, NEW k \in Key, NEW s \in Server, NEW n \in Nat,
         RepairOf(s, n, k), NEW c \in Conn, HandleReadRepairResponse(c)
  PROVE  RepairOf(s, n, k)'
<1> DEFINE msg == Head(bwd[c])
           e == ElementOf(msg)
           mine == m_store[c[1]][msg.key]
           theirs == DoWriteOf(RR, msg.key, e)
           ours == DoWriteOf(RR, msg.key, mine)
           W == WritesOf(k)
           A == AsksOf(k)
           T == TellsOf(k)
           Newer == /\ mine # Null => mine.timestamp < msg.timestamp
                    /\ m_log' = PostWrite(c[1], msg.key, e)
                    /\ fwd' = SendAll(fwd, c[1], theirs)
           Older == /\ mine # Null
                    /\ msg.timestamp <= mine.timestamp
                    /\ fwd' = SendOn(fwd, c, ours) /\ m_log' = m_log
           Same == mine = e /\ m_log' = m_log /\ fwd' = fwd
<1>0. bwd[c] # <<>> /\ msg.type = "ReadRepairResponse" /\ c[1] \in Server
  BY ConnType DEF HandleReadRepairResponse, Arrived
<1>1. msg \in Response /\ msg.key \in Key /\ e \in Element /\ e.timestamp = msg.timestamp
  BY <1>0, ResponseType DEF ElementOf
<1>2. msg.timestamp \in Nat /\ e # Null
  BY <1>1, ElementType
<1>3. mine # Null => mine \in Element /\ mine.timestamp \in Nat
  <2>1. m_store[c[1]] \in [Key -> Element \cup {Null}]
    BY <1>0 DEF TypeOK, StoreType
  <2>2. mine \in Element \cup {Null}
    BY <1>1, <2>1
  <2> HIDE DEF mine
  <2> QED BY <2>2, ElementType
<1>4. m_store' = m_store /\ bwd' = Popped(bwd, c)
  BY DEF HandleReadRepairResponse
<1>5. Newer \/ Older \/ Same
  BY <1>2, <1>3 DEF HandleReadRepairResponse
<1>6. fwd \in [Conn -> Seq(Request)] /\ bwd \in [Conn -> Seq(Response)]
  BY DEF TypeOK
<1>7. msg \in T <=> msg.key = k
  BY <1>0, <1>1 DEF TellsOf
<1>8. /\ theirs \in Request /\ theirs.timestamp = msg.timestamp
      /\ theirs \notin A /\ (theirs \in W <=> msg.key = k)
  <2>1. /\ theirs \in Request /\ theirs.timestamp = e.timestamp
        /\ theirs.type = "DoWrite" /\ theirs.key = msg.key
    BY <1>1, DoWriteOfType
  <2> HIDE DEF theirs
  <2> QED BY <1>1, <2>1 DEF AsksOf, WritesOf
<1>9. mine # Null => /\ ours \in Request /\ ours.timestamp = mine.timestamp
                     /\ ours \notin A /\ (ours \in W <=> msg.key = k)
  <2> SUFFICES ASSUME mine # Null
               PROVE  /\ ours \in Request /\ ours.timestamp = mine.timestamp
                      /\ ours \notin A /\ (ours \in W <=> msg.key = k)
    OBVIOUS
  <2>1. /\ ours \in Request /\ ours.timestamp = mine.timestamp
        /\ ours.type = "DoWrite" /\ ours.key = msg.key
    BY <1>1, <1>3, DoWriteOfType
  <2> HIDE DEF ours
  <2> QED BY <2>1 DEF AsksOf, WritesOf
<1>10. /\ Ages(k)' = Ages(k)
       /\ msg.key = k => Ages(k)[c[1]] = IF mine = Null THEN 0 ELSE mine.timestamp
  BY <1>0, <1>4 DEF Ages, ReadOrEmpty, Empty
<1> HIDE DEF msg, theirs, ours, mine, e
<1>11. /\ Writes(k)' = StampsOn(fwd', W) /\ Writes(k) = StampsOn(fwd, W)
       /\ Queries(k)' = HasOn(fwd', A) /\ Queries(k) = HasOn(fwd, A)
       /\ Tells(k)' = StampsOn(bwd', T) /\ Tells(k) = StampsOn(bwd, T)
  BY DEF Writes, Queries, Tells, StampsOn, HasOn
<1> HIDE DEF W, A, T
<1>12. Queries(k)' = Queries(k)
  <2>1. CASE Newer
    BY <1>0, <1>6, <1>8, <1>11, <2>1, SentAllNoAsk
  <2>2. CASE Older
    BY <1>6, <1>9, <1>11, <2>2, SentNoAsk, ZenonT(60)
  <2>3. CASE Same
    BY <1>11, <2>3
  <2> QED BY <1>5, <2>1, <2>2, <2>3
<1>13. CASE msg.key # k
  <2>1. Tells(k)' = Tells(k)
    <3>1. Head(bwd[c]) \notin T
      BY <1>7, <1>13 DEF msg
    <3> QED BY <1>0, <1>4, <1>6, <1>11, <3>1, PoppedOthers
  <2>2. Posts(k)' = Posts(k)
    <3>1. CASE Newer
      BY <1>0, <1>1, <1>13, <3>1, PostedStamps
    <3>2. CASE m_log' = m_log
      BY <1>4, <3>2, SameStores
    <3> QED BY <1>5, <3>1, <3>2
  <2>3. Writes(k)' = Writes(k)
    <3>1. CASE Newer
      <4>1. theirs \notin W /\ theirs \in Request
        BY <1>8, <1>13
      <4>2. StampsOn(SendAll(fwd, c[1], theirs), W) = StampsOn(fwd, W)
        BY <1>0, <1>6, <4>1, SentAllOthers
      <4> QED BY <1>11, <3>1, <4>2
    <3>2. CASE Older
      <4>1. ours \notin W /\ ours \in Request
        BY <1>9, <1>13, <3>2
      <4>2. StampsOn(SendOn(fwd, c, ours), W) = StampsOn(fwd, W)
        BY <1>6, <4>1, SentOthers, ZenonT(60)
      <4> QED BY <1>11, <3>2, <4>2
    <3>3. CASE Same
      BY <1>11, <3>3
    <3> QED BY <1>5, <3>1, <3>2, <3>3
  <2> QED BY <1>10, <1>12, <2>1, <2>2, <2>3, UnmovedRepair DEF Unmoved
<1>14. CASE msg.key = k
  <2>1. /\ msg.timestamp \in Tells(k)[c] /\ Took(Tells(k)[c], Tells(k)'[c], msg.timestamp)
        /\ SameBut(Tells(k), Tells(k)', c)
    <3>1. Head(bwd[c]) \in T
      BY <1>7, <1>14 DEF msg
    <3>2. /\ Head(bwd[c]).timestamp \in StampsOn(bwd, T)[c]
          /\ Took(StampsOn(bwd, T)[c], StampsOn(Popped(bwd, c), T)[c], Head(bwd[c]).timestamp)
          /\ SameBut(StampsOn(bwd, T), StampsOn(Popped(bwd, c), T), c)
      BY <1>0, <1>6, <3>1, PoppedOne
    <3> QED BY <1>4, <1>11, <3>2 DEF msg
  <2> DEFINE m == msg.timestamp
  <2>2. ASSUME Newer
        PROVE  HearsNewer(c, m, Ages(k), Posts(k), Writes(k), Posts(k)', Writes(k)')
    <3>0. ~Stale(m_store[c[1]][msg.key], e.timestamp)
      BY <1>1, <1>2, <1>3, <2>2 DEF Stale, mine
    <3>1. /\ Posts(k)'[c[1]] = Posts(k)[c[1]] \cup {msg.timestamp}
          /\ SameBut(Posts(k), Posts(k)', c[1])
      BY <1>0, <1>1, <1>14, <2>2, <3>0, PostedStamps
    <3>2. JoinsAll(c[1], msg.timestamp, Writes(k), Writes(k)')
      <4>1. theirs \in W /\ theirs \in Request
        BY <1>8, <1>14
      <4>2. JoinsAll(c[1], theirs.timestamp, StampsOn(fwd, W), StampsOn(SendAll(fwd, c[1], theirs), W))
        BY <1>0, <1>6, <4>1, SentAllOne
      <4>3. Writes(k)' = StampsOn(SendAll(fwd, c[1], theirs), W)
        BY <1>11, <2>2
      <4> QED BY <1>8, <1>11, <4>2, <4>3
    <3>3. Ages(k)[c[1]] < msg.timestamp \/ Ages(k)[c[1]] = 0
      BY <1>10, <1>14, <2>2
    <3> QED BY <3>1, <3>2, <3>3 DEF HearsNewer
  <2>3. ASSUME Older
        PROVE  HearsOlder(c, m, Ages(k), Posts(k), Writes(k), Posts(k)', Writes(k)')
    <3>1. Posts(k)' = Posts(k)
      BY <1>4, <2>3, SameStores
    <3>2. Ages(k)[c[1]] = mine.timestamp
      BY <1>10, <1>14, <2>3
    <3>3. Writes(k)'[c] = Writes(k)[c] \cup {mine.timestamp} /\ SameBut(Writes(k), Writes(k)', c)
      <4>1. ours \in W /\ ours \in Request /\ ours.timestamp = mine.timestamp
        BY <1>9, <1>14, <2>3
      <4>2. /\ StampsOn(SendOn(fwd, c, ours), W)[c] = StampsOn(fwd, W)[c] \cup {ours.timestamp}
            /\ SameBut(StampsOn(fwd, W), StampsOn(SendOn(fwd, c, ours), W), c)
        BY <1>6, <4>1, SentOne
      <4>3. Writes(k)' = StampsOn(SendOn(fwd, c, ours), W)
        BY <1>11, <2>3
      <4> QED BY <1>11, <4>1, <4>2, <4>3
    <3> QED BY <2>3, <3>1, <3>2, <3>3 DEF HearsOlder
  <2>4. ASSUME Same
        PROVE  HearsSame(c, m, Ages(k), Posts(k), Writes(k), Posts(k)', Writes(k)')
    <3>1. Posts(k)' = Posts(k) /\ Writes(k)' = Writes(k)
      BY <1>4, <1>11, <2>4, SameStores
    <3>2. mine.timestamp = msg.timestamp /\ mine # Null
      BY <1>1, <1>2, <2>4
    <3> QED BY <1>10, <1>14, <3>1, <3>2 DEF HearsSame
  <2>5. Hears(c, m, Ages(k), Posts(k), Writes(k), Tells(k), Posts(k)', Writes(k)', Tells(k)')
    BY <1>5, <2>1, <2>2, <2>3, <2>4 DEF Hears
  <2>6. /\ Repairing(s, n, Ages(k), Posts(k), Writes(k), Queries(k), Tells(k))
        /\ Shaped(Ages(k), Posts(k), Writes(k), Queries(k), Tells(k))
        /\ Shaped(Ages(k), Posts(k)', Writes(k)', Queries(k), Tells(k)')
    BY <1>10, <1>12, UnderWayType, NextUnderWayType DEF RepairOf
  <2>7. Repairing(s, n, Ages(k), Posts(k)', Writes(k)', Queries(k), Tells(k)')
    BY <2>5, <2>6, HearKeeps
  <2> QED BY <1>10, <1>12, <2>7, NextRepairOf
<1> QED BY <1>13, <1>14

\* A get asks everybody about its key.
LEMMA GetAsks ==
  ASSUME TypeOK, link = Conn, Mode = "read_repair", NEW s \in Server, NEW j \in Key,
         NEW consistency \in Consistency, HandleGet(s, j, consistency), NEW k \in Key
  PROVE  /\ Ages(k)' = Ages(k) /\ Posts(k)' = Posts(k) /\ Writes(k)' = Writes(k)
         /\ Tells(k)' = Tells(k)
         /\ k # j => Queries(k)' = Queries(k)
         /\ k = j => Queries(k)' = Queries(k) \cup {d \in Conn : d[1] = s}
<1> DEFINE uuid == Len(reqs) + 1
           doread == [type |-> "DoRead", uuid |-> uuid, key |-> j]
           ask == [type |-> "ReadRepair", key |-> j]
           read == IF consistency = 1 THEN fwd ELSE SendAll(fwd, s, doread)
           W == WritesOf(k)
           A == AsksOf(k)
<1>1. /\ m_store' = m_store /\ m_log' = m_log /\ bwd' = bwd
      /\ fwd' = SendAll(read, s, ask)
  BY DEF HandleGet, logs
<1>2. Ages(k)' = Ages(k) /\ Posts(k)' = Posts(k) /\ Tells(k)' = Tells(k)
  BY <1>1, SameStores, SameAnswers
<1>3. uuid \in Uuid
  BY RequestsAssumption DEF HandleGet, NewRequest, Uuid, TypeOK
<1>4. doread \in Request /\ doread \notin W /\ doread \notin A
  BY <1>3 DEF Request, ReadMsg, WritesOf, AsksOf
<1>5. ask \in Request /\ ask \notin W /\ (ask \in A <=> j = k)
  BY DEF Request, KeyMsg, WritesOf, AsksOf
<1>6. fwd \in [Conn -> Seq(Request)]
  BY DEF TypeOK
<1>7. /\ Writes(k)' = StampsOn(fwd', W) /\ Writes(k) = StampsOn(fwd, W)
      /\ Queries(k)' = HasOn(fwd', A) /\ Queries(k) = HasOn(fwd, A)
  BY DEF Writes, Queries, StampsOn, HasOn
<1> HIDE DEF doread, ask, W, A
<1>8. /\ read \in [Conn -> Seq(Request)] /\ StampsOn(read, W) = StampsOn(fwd, W)
      /\ HasOn(read, A) = HasOn(fwd, A)
  <2>1. SendAll(fwd, s, doread) \in [Conn -> Seq(Request)]
    BY <1>4, <1>6, SendAllType
  <2>2. StampsOn(SendAll(fwd, s, doread), W) = StampsOn(fwd, W)
    BY <1>4, <1>6, SentAllOthers
  <2>3. HasOn(SendAll(fwd, s, doread), A) = HasOn(fwd, A)
    BY <1>4, <1>6, SentAllNoAsk
  <2> QED BY <1>6, <2>1, <2>2, <2>3
<1> HIDE DEF read
<1>9. StampsOn(SendAll(read, s, ask), W) = StampsOn(read, W)
  BY <1>5, <1>8, SentAllOthers
<1>10. k # j => HasOn(SendAll(read, s, ask), A) = HasOn(read, A)
  BY <1>5, <1>8, SentAllNoAsk
<1>11. k = j => HasOn(SendAll(read, s, ask), A) = HasOn(read, A) \cup {d \in Conn : d[1] = s}
  BY <1>5, <1>8, SentAllAsk
<1> QED BY <1>1, <1>2, <1>7, <1>8, <1>9, <1>10, <1>11

\* Nothing is under way in a quiet cluster.
LEMMA QuietStamps ==
  ASSUME Quiet, NEW k
  PROVE  /\ \A t \in Server : Posts(k)[t] = {}
         /\ \A c \in Conn : Writes(k)[c] = {} /\ Tells(k)[c] = {} /\ c \notin Queries(k)
<1>1. \A t \in Server : Stamps(m_log[t], PostsOf(k)) = {}
  BY StampsNone DEF Quiet
<1>2. \A c \in Conn : /\ Stamps(fwd[c], WritesOf(k)) = {} /\ ~Has(fwd[c], AsksOf(k))
                      /\ Stamps(bwd[c], TellsOf(k)) = {}
  BY StampsNone DEF Quiet
<1> QED BY <1>1, <1>2 DEF Posts, Writes, Tells, Queries, StampsOn, HasOn

\* A get in a quiet cluster begins a repair.
LEMMA GetBegins ==
  ASSUME TypeOK, TypeOK', Quiet, Mode = "read_repair", NEW s \in Server, NEW k \in Key,
         NEW consistency \in Consistency, HandleGet(s, k, consistency)
  PROVE  \E n \in Stamp : RepairOf(s, n, k)'
<1>1. link = Conn
  BY DEF Quiet
<1>2. /\ Ages(k)' = Ages(k) /\ Posts(k)' = Posts(k) /\ Writes(k)' = Writes(k)
      /\ Tells(k)' = Tells(k) /\ Queries(k)' = Queries(k) \cup {d \in Conn : d[1] = s}
  BY <1>1, GetAsks
<1>3. /\ \A t \in Server : Posts(k)'[t] = {}
      /\ \A c \in Conn : Writes(k)'[c] = {} /\ Tells(k)'[c] = {} /\ (c \in Queries(k)' <=> c[1] = s)
  BY <1>2, QuietStamps
<1>4. Shaped(Ages(k)', Posts(k)', Writes(k)', Queries(k)', Tells(k)')
  BY NextUnderWayType
<1>5. \E h \in Server : Repairing(s, Ages(k)'[h], Ages(k)', Posts(k)', Writes(k)', Queries(k)', Tells(k)')
  BY <1>3, <1>4, RepairBegins
<1>6. \A h \in Server : Ages(k)[h] \in Stamp
  BY ReadType, ElementType DEF Ages
<1> QED BY <1>2, <1>5, <1>6, NextRepairOf

-----------------------------------------------------------------------------
(* The invariant                                                           *)

Repaired(k) == link = Conn /\ \E s \in Server, n \in Stamp : RepairOf(s, n, k)

LEMMA RepairInvIs == RepairInv <=> (Mode = "read_repair" => \A k \in Key : fresh[k] => Repaired(k))
BY DEF RepairInv, Repaired, RepairOf

LEMMA NextRepairInvIs ==
  RepairInv' <=> (Mode = "read_repair" => \A k \in Key : fresh'[k] => Repaired(k)')
BY DEF RepairInv, Repaired, RepairOf

LEMMA RepairKept ==
  ASSUME NEW k, Repaired(k), link' = link,
         \A s \in Server, n \in Nat : RepairOf(s, n, k) => RepairOf(s, n, k)'
  PROVE  Repaired(k)'
BY StampAssumption DEF Repaired

LEMMA UnmovedKept ==
  ASSUME NEW k, Repaired(k), link' = link, Unmoved(k)
  PROVE  Repaired(k)'
BY UnmovedRepair, RepairKept

\* The end of a process ends what is known of a repair.
LEMMA StopForgets ==
  ASSUME NEW s \in Server, Stop(s), NEW k \in Key
  PROVE  ~fresh'[k]
BY DEF Stop, NotFresh

LEMMA DeliverRepaired ==
  ASSUME TypeOK, TypeOK', NEW c \in Conn, Deliver(c), NEW k \in Key,
         fresh[k] => Repaired(k), fresh'[k]
  PROVE  Repaired(k)'
<1>1. ASSUME fresh' = fresh PROVE Repaired(k) /\ link = Conn
  BY <1>1 DEF Repaired
<1>2. CASE HandleDoWrite(c)
  <2>1. fresh' = fresh /\ link' = link
    BY <1>2 DEF HandleDoWrite
  <2> QED BY <1>1, <1>2, <2>1, DoWriteRepair, RepairKept
<1>3. CASE HandleWriteComplete(c)
  <2>1. CASE Stop(c[2])
    BY <2>1, StopForgets, ConnType
  <2>2. CASE ~Stop(c[2])
    <3>1. /\ fresh' = fresh /\ link' = link /\ Arrived(fwd, c, "WriteComplete")
          /\ m_store' = m_store /\ m_log' = m_log /\ fwd' = Popped(fwd, c) /\ bwd' = bwd
      BY <1>3, <2>2 DEF HandleWriteComplete
    <3>2. Unmoved(k)
      BY <3>1, WriteCompleteRepairs
    <3> QED BY <1>1, <3>1, <3>2, UnmovedKept
  <2> QED BY <2>1, <2>2
<1>4. CASE HandleDoRead(c)
  <2>1. fresh' = fresh /\ link' = link
    BY <1>4 DEF HandleDoRead
  <2>2. Unmoved(k)
    BY <1>1, <1>4, <2>1, DoReadRepairs
  <2> QED BY <1>1, <2>1, <2>2, UnmovedKept
<1>5. CASE HandleReadRepair(c)
  <2>1. fresh' = fresh /\ link' = link
    BY <1>5 DEF HandleReadRepair
  <2> QED BY <1>1, <1>5, <2>1, ReadRepairRepair, RepairKept
<1>6. CASE HandleReadComplete(c)
  <2>1. CASE Stop(c[1])
    BY <2>1, StopForgets, ConnType
  <2>2. CASE ~Stop(c[1])
    <3>1. /\ fresh' = fresh /\ link' = link /\ Arrived(bwd, c, "ReadComplete")
          /\ m_store' = m_store /\ m_log' = m_log /\ bwd' = Popped(bwd, c) /\ fwd' = fwd
      BY <1>6, <2>2 DEF HandleReadComplete, logs
    <3>2. Unmoved(k)
      BY <3>1, ReadCompleteRepairs
    <3> QED BY <1>1, <3>1, <3>2, UnmovedKept
  <2> QED BY <2>1, <2>2
<1>7. CASE HandleReadRepairResponse(c)
  <2>1. fresh' = fresh /\ link' = link
    BY <1>7 DEF HandleReadRepairResponse
  <2> QED BY <1>1, <1>7, <2>1, ResponseRepair, RepairKept
<1> QED BY <1>2, <1>3, <1>4, <1>5, <1>6, <1>7 DEF Deliver

\* A get of the key begins a repair or ends what is known of one.
LEMMA GetRepaired ==
  ASSUME TypeOK, TypeOK', Mode = "read_repair", NEW s \in Server, NEW j \in Key,
         NEW consistency \in Consistency, HandleGet(s, j, consistency), NEW k \in Key,
         fresh[k] => Repaired(k), fresh'[k]
  PROVE  Repaired(k)'
<1>1. link' = link /\ fresh' = [fresh EXCEPT ![j] = Quiet] /\ fresh \in [Key -> BOOLEAN]
  BY DEF HandleGet, TypeOK
<1>2. CASE j = k
  <2>1. fresh'[k] <=> Quiet
    BY <1>1, <1>2, Zenon
  <2>2. Quiet /\ link = Conn
    BY <2>1 DEF Quiet
  <2>3. \E n \in Stamp : RepairOf(s, n, k)'
    BY <1>2, <2>2, GetBegins
  <2> QED BY <1>1, <2>2, <2>3 DEF Repaired
<1>3. CASE j # k
  <2>1. fresh'[k] = fresh[k]
    BY <1>1, <1>3
  <2>2. Repaired(k) /\ link = Conn
    BY <2>1 DEF Repaired
  <2>3. Unmoved(k)
    BY <1>3, <2>2, GetAsks DEF Unmoved
  <2> QED BY <1>1, <2>2, <2>3, UnmovedKept
<1> QED BY <1>2, <1>3

LEMMA NextRepaired ==
  ASSUME TypeOK, TypeOK', Mode = "read_repair", [Next]_vars, NEW k \in Key,
         fresh[k] => Repaired(k), fresh'[k]
  PROVE  Repaired(k)'
<1>0. ASSUME fresh' = fresh PROVE Repaired(k) /\ link = Conn
  BY <1>0 DEF Repaired
<1>1. ASSUME NEW s \in Putters, NEW j \in Key, NEW t \in Stamp \ {0}, NEW n \in Consistency,
             HandlePut(s, j, t, n)
      PROVE  FALSE
  BY <1>1 DEF HandlePut, NotFresh
<1>2. ASSUME NEW s \in Getters, NEW j \in Key, NEW n \in Consistency, HandleGet(s, j, n)
      PROVE  Repaired(k)'
  BY <1>2, GetRepaired, ServerAssumption
<1>3. ASSUME NEW s \in Server, RunLog(s)
      PROVE  Repaired(k)'
  <2>1. fresh' = fresh /\ link' = link
    BY <1>3 DEF RunLog, net
  <2> QED BY <1>0, <1>3, <2>1, RunLogRepair, RepairKept
<1>4. ASSUME NEW s \in Server, RunHintLog(s) \/ Restart(s)
      PROVE  Repaired(k)'
  <2>1. /\ fresh' = fresh /\ link' = link /\ m_store' = m_store /\ m_log' = m_log
        /\ fwd' = fwd /\ bwd' = bwd
    BY <1>4 DEF RunHintLog, Restart, net, logs
  <2>2. Unmoved(k)
    BY <2>1, SameStores, SameRequests, SameAnswers DEF Unmoved
  <2> QED BY <1>0, <2>1, <2>2, UnmovedKept
<1>5. ASSUME NEW s \in Server, Crash(s)
      PROVE  FALSE
  BY <1>5, StopForgets DEF Crash
<1>6. ASSUME NEW c \in Conn, Deliver(c)
      PROVE  Repaired(k)'
  BY <1>6, DeliverRepaired
<1>7. ASSUME NEW c \in Conn, Cut(c)
      PROVE  FALSE
  BY <1>7 DEF Cut, NotFresh
<1>8. ASSUME NEW c \in Conn, Connect(c)
      PROVE  FALSE
  <2>1. fresh' = fresh /\ c \notin link
    BY <1>8 DEF Connect
  <2> QED BY <1>0, <2>1
<1>9. CASE UNCHANGED vars
  <2>1. /\ fresh' = fresh /\ link' = link /\ m_store' = m_store /\ m_log' = m_log
        /\ fwd' = fwd /\ bwd' = bwd
    BY <1>9 DEF vars, net, logs
  <2>2. Unmoved(k)
    BY <2>1, SameStores, SameRequests, SameAnswers DEF Unmoved
  <2> QED BY <1>0, <2>1, <2>2, UnmovedKept
<1> QED BY <1>1, <1>2, <1>3, <1>4, <1>5, <1>6, <1>7, <1>8, <1>9 DEF Next

LEMMA InitRepairs == Init => RepairInv
BY DEF Init, RepairInv

LEMMA NextRepairs == TypeOK /\ TypeOK' /\ RepairInv /\ [Next]_vars => RepairInv'
<1> SUFFICES ASSUME TypeOK, TypeOK', RepairInv, [Next]_vars, Mode = "read_repair",
                    NEW k \in Key, fresh'[k]
             PROVE  Repaired(k)'
  BY NextRepairInvIs
<1>1. fresh[k] => Repaired(k)
  BY RepairInvIs
<1> QED BY <1>1, NextRepaired

LEMMA HoldingRepairs == Spec => []RepairInv
<1>1. Spec => []TypeOK
  BY TypeCorrect
<1> QED BY <1>1, InitRepairs, NextRepairs, PTL DEF Spec

(***************************************************************************)
(* A get of a key while everybody is reachable and nothing is under way    *)
(* brings all servers to the newest element that any of them had, by the   *)
(* time that the cluster is quiet again: the questions and answers of      *)
(* HandleReadRepair and HandleReadRepairResponse may be interleaved with   *)
(* the appends to the logs, and with gets of other keys, in any way.       *)
(***************************************************************************)
THEOREM OneGetRepairs == Spec => []RepairConverges
<1>1. TypeOK /\ RepairInv => RepairConverges
  <2> SUFFICES ASSUME TypeOK, RepairInv, Mode = "read_repair", NEW k \in Key, fresh[k], Quiet
               PROVE  Converged(k)
    BY DEF RepairConverges
  <2>1. PICK s \in Server, n \in Stamp : RepairOf(s, n, k)
    BY RepairInvIs DEF Repaired
  <2>2. n \in Nat /\ Repairing(s, n, Ages(k), Posts(k), Writes(k), Queries(k), Tells(k))
    BY <2>1, StampAssumption DEF RepairOf
  <2>3. \A t \in Server : Ages(k)[t] = n
    BY <2>2, UnderWayType, QuietStamps, RepairDone
  <2> QED BY <2>3 DEF Converged, Ages
<1> QED BY <1>1, TypeCorrect, HoldingRepairs, PTL
=============================================================================
