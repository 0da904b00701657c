------------------------------ MODULE KvProofs ------------------------------
(***************************************************************************)
(* Proofs about two parts of the key-value store that share no state: the  *)
(* replica with its log file (ReplicaLog) and the client on its channel    *)
(* (KvClient).                                                             *)
(***************************************************************************)
EXTENDS ReplicaLog, KvClient, Sums, SequenceTheorems, TLAPS

-----------------------------------------------------------------------------
(***************************************************************************)
(*                         THE REPLICA AND ITS LOG                         *)
(*                                                                         *)
(* For every set of keys, values and timestamps and every number of writes *)
(* and crashes.                                                            *)
(*                                                                         *)
(* The argument.  NothingForgotten is the heart of it: a record that is in *)
(* the file of a running process is covered by the store, or a task that   *)
(* is still on the strand will cover it.  Each task hands the duty on: the *)
(* replay of a record either finds it covered or posts an append for it,   *)
(* and an append covers it when it runs.                                   *)
(***************************************************************************)

\* What the file and the strand hold was posted by the coordinator.
FromAccepted ==
  /\ \A j \in DOMAIN file : file[j] \in accepted
  /\ \A i \in DOMAIN m_strand : m_strand[i].op = "append" => m_strand[i].msg \in accepted

IInv == TypeOK /\ LogBeforeStore /\ NothingForgotten /\ FromAccepted

-----------------------------------------------------------------------------
(***************************************************************************)
(* Installing a record, as the completion handler of Replica::write does,  *)
(* keeps a store a store, covers the record, changes no other slot and     *)
(* uncovers nothing.                                                       *)
(***************************************************************************)
LEMMA InstallFacts ==
  ASSUME NEW store \in StoreType, NEW msg \in DoWrite
  PROVE  /\ Install(store, msg) \in StoreType
         /\ Covers(Install(store, msg), msg)
         /\ \A k \in Key : \/ Install(store, msg)[k] = store[k]
                           \/ k = msg.key /\ Install(store, msg)[k] = ElementOf(msg)
         /\ \A rec \in DoWrite : Covers(store, rec) => Covers(Install(store, msg), rec)
<1>1. ElementOf(msg) \in Element /\ ElementOf(msg) # Null
  BY NullAssumption DEF ElementOf, Element, DoWrite
<1>2. msg.key \in Key /\ msg.timestamp \in Nat /\ ElementOf(msg).timestamp = msg.timestamp
  BY StampAssumption DEF DoWrite, ElementOf
<1>3. \A k \in Key : store[k] # Null => store[k].timestamp \in Nat
  BY StampAssumption DEF StoreType, Element
<1>4. CASE Stale(store[msg.key], msg.timestamp)
  BY <1>2, <1>4 DEF Stale, Install, Covers
<1>5. CASE ~Stale(store[msg.key], msg.timestamp)
  <2> DEFINE new == [store EXCEPT ![msg.key] = ElementOf(msg)]
  <2>1. Install(store, msg) = new
    BY <1>5 DEF Install
  <2>2. new \in StoreType /\ new[msg.key] = ElementOf(msg)
    BY <1>1, <1>2 DEF StoreType
  <2>3. \A k \in Key : k # msg.key => new[k] = store[k]
    BY <1>2 DEF StoreType
  <2>4. Covers(new, msg)
    BY <1>1, <1>2, <2>2 DEF Covers
  <2>5. ASSUME NEW rec \in DoWrite, Covers(store, rec)
        PROVE  Covers(new, rec)
    <3>1. rec.key \in Key /\ rec.timestamp \in Nat
      BY StampAssumption DEF DoWrite
    <3>2. CASE rec.key = msg.key
      BY <1>1, <1>2, <1>3, <1>5, <2>2, <2>5, <3>1, <3>2 DEF Covers, Stale
    <3>3. CASE rec.key # msg.key
      BY <2>3, <2>5, <3>1, <3>3 DEF Covers
    <3>4. QED BY <3>2, <3>3
  <2>6. QED BY <2>1, <2>2, <2>3, <2>4, <2>5
<1>6. QED BY <1>4, <1>5

(***************************************************************************)
(* The early return of Replica::write is taken exactly for a record that   *)
(* the store covers.                                                       *)
(***************************************************************************)
LEMMA StaleIsCovered ==
  ASSUME NEW store, NEW msg
  PROVE  Stale(store[msg.key], msg.timestamp) <=> Covers(store, msg)
BY DEF Stale, Covers

(***************************************************************************)
(* The tasks that constructors and writes post are tasks.                  *)
(***************************************************************************)
LEMMA TaskFacts ==
  /\ \A msg \in DoWrite : /\ Append1(msg) \in Task
                          /\ Append1(msg).op = "append"
                          /\ Append1(msg).msg = msg
  /\ \A pos \in Nat \ {0} : /\ Replay(pos) \in Task
                            /\ Replay(pos).op = "replay"
                            /\ Replay(pos).pos = pos
  /\ \A task \in Task : /\ task.op \in {"append", "replay"}
                        /\ task.op = "append" => task.msg \in DoWrite
                        /\ task.op = "replay" => task.pos \in Nat \ {0}
BY DEF Append1, Replay, Task

(***************************************************************************)
(* Type correctness of one step.                                           *)
(***************************************************************************)
LEMMA TypeStep == TypeOK /\ [Next]_vars => TypeOK'
<1> SUFFICES ASSUME TypeOK, [Next]_vars PROVE TypeOK'
  OBVIOUS
<1>1. ASSUME NEW k \in Key, NEW v \in Val, NEW t \in Stamp,
             Write([key |-> k, val |-> v, timestamp |-> t])
      PROVE  TypeOK'
  <2> DEFINE msg == [key |-> k, val |-> v, timestamp |-> t]
  <2>1. msg \in DoWrite
    BY DEF DoWrite
  <2>2. Append1(msg) \in Task
    BY <2>1, TaskFacts
  <2> HIDE DEF msg
  <2>3. m_strand' \in Seq(Task) /\ accepted' \subseteq DoWrite
    <3>1. \/ m_strand' = m_strand /\ accepted' = accepted
          \/ m_strand' = Append(m_strand, Append1(msg)) /\ accepted' = accepted \cup {msg}
      BY <1>1 DEF Write, msg
    <3>2. QED BY <2>1, <2>2, <3>1, SMTT(30) DEF TypeOK
  <2>4. QED BY <1>1, <2>3 DEF Write, TypeOK, msg
<1>2. CASE RunAppend
  <2>1. Head(m_strand) \in Task /\ Tail(m_strand) \in Seq(Task)
    BY <1>2 DEF RunAppend, AtHead, TypeOK
  <2>2. Head(m_strand).msg \in DoWrite
    BY <1>2, <2>1, TaskFacts DEF RunAppend, AtHead
  <2>3. m_store' \in StoreType
    BY <1>2, <2>2, InstallFacts DEF RunAppend, TypeOK
  <2>4. file' \in Seq(DoWrite)
    BY <1>2, <2>2 DEF RunAppend, TypeOK
  <2>5. QED BY <1>2, <2>1, <2>3, <2>4 DEF RunAppend, TypeOK
<1>3. CASE ReplayRecord
  <2> DEFINE pos == Head(m_strand).pos
             rest == <<Replay(pos + 1)>> \o Tail(m_strand)
  <2>1. Head(m_strand) \in Task /\ Tail(m_strand) \in Seq(Task)
    BY <1>3 DEF ReplayRecord, AtHead, TypeOK
  <2>2. pos \in Nat \ {0} /\ pos <= Len(file)
    BY <1>3, <2>1, TaskFacts DEF ReplayRecord, AtHead
  <2>3. file[pos] \in DoWrite
    BY <2>2 DEF TypeOK
  <2>4. Append1(file[pos]) \in Task /\ Replay(pos + 1) \in Task
    BY <2>2, <2>3, TaskFacts
  <2>5. rest \in Seq(Task) /\ Append(rest, Append1(file[pos])) \in Seq(Task)
    BY <2>1, <2>4
  <2>6. m_strand' \in Seq(Task)
    BY <1>3, <2>5 DEF ReplayRecord
  <2>7. QED BY <1>3, <2>6 DEF ReplayRecord, TypeOK
<1>4. CASE ReplayDone
  <2>1. Tail(m_strand) \in Seq(Task)
    BY <1>4 DEF ReplayDone, AtHead, TypeOK
  <2>2. QED BY <1>4, <2>1 DEF ReplayDone, TypeOK
<1>5. CASE Crash
  <2>1. EmptyStore \in StoreType
    BY DEF EmptyStore, StoreType
  <2>2. m_strand' \in Seq(Task) /\ crashes' \in Nat
    BY <1>5 DEF Crash, TypeOK
  <2>3. QED BY <1>5, <2>1, <2>2, Zenon DEF Crash, TypeOK
<1>6. CASE Restart
  <2>1. <<Replay(1)>> \in Seq(Task)
    BY TaskFacts
  <2>2. QED BY <1>6, <2>1 DEF Restart, TypeOK
<1>7. CASE UNCHANGED vars
  BY <1>7 DEF vars, TypeOK
<1>8. QED BY <1>1, <1>2, <1>3, <1>4, <1>5, <1>6, <1>7 DEF Next

(***************************************************************************)
(* The variables of the replica keep their types in every behaviour.       *)
(***************************************************************************)
THEOREM TypeCorrect == Spec => []TypeOK
<1>1. Init => TypeOK
  <2>1. EmptyStore \in StoreType
    BY DEF EmptyStore, StoreType
  <2>2. <<Replay(1)>> \in Seq(Task)
    BY TaskFacts
  <2>3. QED BY <2>1, <2>2 DEF Init, TypeOK
<1>2. QED BY <1>1, TypeStep, PTL DEF Spec

-----------------------------------------------------------------------------
(***************************************************************************)
(* A task of the strand is its head or, one place earlier, in its tail.    *)
(***************************************************************************)
LEMMA TailFacts ==
  ASSUME NEW s \in Seq(Task), s # <<>>
  PROVE  /\ \A i \in DOMAIN s : \/ s[i] = Head(s)
                                \/ i - 1 \in DOMAIN Tail(s) /\ Tail(s)[i - 1] = s[i]
         /\ \A i \in DOMAIN Tail(s) : i + 1 \in DOMAIN s /\ Tail(s)[i] = s[i + 1]
OBVIOUS

(***************************************************************************)
(* Posting a task puts it behind the tasks of the strand.                  *)
(***************************************************************************)
LEMMA AppendFacts ==
  ASSUME NEW s \in Seq(Task), NEW t \in Task
  PROVE  /\ Append(s, t) \in Seq(Task)
         /\ DOMAIN s = 1..Len(s) /\ Len(s) \in Nat
         /\ DOMAIN Append(s, t) = 1..(Len(s) + 1)
         /\ Append(s, t)[Len(s) + 1] = t
         /\ \A i \in 1..Len(s) : Append(s, t)[i] = s[i]
OBVIOUS

(***************************************************************************)
(* What one turn of the replay loop does to the strand: the head moves on  *)
(* to the next record, and an append may be posted at the end.             *)
(***************************************************************************)
LEMMA ReplayFacts ==
  ASSUME NEW s \in Seq(Task), s # <<>>, NEW h \in Task, NEW t \in Task,
         NEW new, new = <<h>> \o Tail(s) \/ new = Append(<<h>> \o Tail(s), t)
  PROVE  /\ 1 \in DOMAIN new /\ new[1] = h
         /\ \A i \in DOMAIN s : s[i] = Head(s) \/ (i \in DOMAIN new /\ new[i] = s[i])
         /\ \A i \in DOMAIN new : \/ new[i] = h
                                  \/ i \in DOMAIN s /\ new[i] = s[i]
                                  \/ new[i] = t
         /\ new = Append(<<h>> \o Tail(s), t) => \E i \in DOMAIN new : new[i] = t
<1> DEFINE r == <<h>> \o Tail(s)
<1>1. /\ r \in Seq(Task) /\ Len(r) = Len(s) /\ r[1] = h
      /\ \A i \in 2..Len(s) : r[i] = s[i]
  OBVIOUS
<1>2. /\ DOMAIN s = 1..Len(s) /\ DOMAIN r = 1..Len(s) /\ Len(s) \in Nat /\ Len(s) > 0
      /\ s[1] = Head(s)
  BY <1>1
<1> HIDE DEF r
<1>3. \A i \in DOMAIN s : s[i] = Head(s) \/ r[i] = s[i]
  BY <1>1, <1>2
<1>4. \A i \in DOMAIN r : r[i] = h \/ r[i] = s[i]
  BY <1>1, <1>2
<1> DEFINE a == Append(r, t)
<1>5. /\ DOMAIN a = 1..(Len(s) + 1) /\ a[Len(s) + 1] = t
      /\ \A i \in 1..Len(s) : a[i] = r[i]
  BY <1>1, AppendFacts
<1> HIDE DEF a
<1>6. CASE new = a
  <2>1. 1 \in DOMAIN a /\ a[1] = h
    BY <1>1, <1>2, <1>5
  <2>2. \A i \in DOMAIN s : s[i] = Head(s) \/ (i \in DOMAIN a /\ a[i] = s[i])
    BY <1>2, <1>3, <1>5
  <2>3. \A i \in DOMAIN a : i \in 1..Len(s) \/ a[i] = t
    BY <1>2, <1>5
  <2>4. \A i \in DOMAIN a : a[i] = h \/ (i \in DOMAIN s /\ a[i] = s[i]) \/ a[i] = t
    BY <1>2, <1>4, <1>5, <2>3
  <2>5. \E i \in DOMAIN a : a[i] = t
    BY <1>2, <1>5
  <2>6. QED BY <1>6, <2>1, <2>2, <2>4, <2>5
<1>7. CASE new = r /\ new # a
  <2>1. 1 \in DOMAIN r /\ r[1] = h
    BY <1>1, <1>2
  <2>2. QED BY <1>2, <1>3, <1>4, <1>7, <2>1 DEF r, a
<1>8. QED BY <1>6, <1>7 DEF r, a

(***************************************************************************)
(* Every step preserves the inductive invariant.                           *)
(***************************************************************************)
LEMMA InvStep == IInv /\ [Next]_vars => IInv'
<1> SUFFICES ASSUME IInv, [Next]_vars PROVE IInv'
  OBVIOUS
<1>0. TypeOK /\ TypeOK'
  BY TypeStep DEF IInv
<1>1. ASSUME NEW k \in Key, NEW v \in Val, NEW t \in Stamp,
             Write([key |-> k, val |-> v, timestamp |-> t])
      PROVE  IInv'
  <2> DEFINE msg == [key |-> k, val |-> v, timestamp |-> t]
  <2>1. msg \in DoWrite /\ Append1(msg).op = "append" /\ Append1(msg).msg = msg
    BY TaskFacts DEF DoWrite
  <2>2. UNCHANGED <<m_store, file, up>>
    BY <1>1 DEF Write
  <2>3. \/ m_strand' = m_strand /\ accepted' = accepted
        \/ m_strand' = Append(m_strand, Append1(msg)) /\ accepted' = accepted \cup {msg}
    BY <1>1 DEF Write
  <2> HIDE DEF msg
  <2>4. \A i \in DOMAIN m_strand : i \in DOMAIN m_strand' /\ m_strand'[i] = m_strand[i]
    BY <1>0, <2>3 DEF TypeOK
  <2>5. \A i \in DOMAIN m_strand' :
          \/ i \in DOMAIN m_strand /\ m_strand'[i] = m_strand[i]
          \/ m_strand'[i] = Append1(msg) /\ msg \in accepted'
    <3>1. CASE m_strand' = m_strand
      BY <3>1
    <3>2. CASE m_strand' = Append(m_strand, Append1(msg)) /\ accepted' = accepted \cup {msg}
      <4>1. \A i \in DOMAIN m_strand' : i \in DOMAIN m_strand \/ i = Len(m_strand) + 1
        BY <1>0, <2>1, <3>2, AppendFacts, TaskFacts DEF TypeOK
      <4>2. QED BY <1>0, <2>1, <3>2, <4>1, AppendFacts, TaskFacts DEF TypeOK
    <3>3. QED BY <2>3, <3>1, <3>2
  <2>6. LogBeforeStore'
    BY <2>2 DEF LogBeforeStore, IInv
  <2>7. NothingForgotten'
    BY <2>2, <2>4 DEF NothingForgotten, AppendPending, ReplayPending, IInv
  <2>8. accepted \subseteq accepted'
    BY <2>3
  <2>9. FromAccepted'
    BY <2>1, <2>2, <2>5, <2>8 DEF FromAccepted, IInv
  <2>10. QED BY <1>0, <2>6, <2>7, <2>9 DEF IInv
<1>2. CASE RunAppend
  <2> DEFINE msg == Head(m_strand).msg
  <2>1. Head(m_strand) \in Task /\ Head(m_strand).op = "append" /\ m_strand # <<>>
    BY <1>0, <1>2 DEF RunAppend, AtHead, TypeOK
  <2>2. msg \in DoWrite
    BY <2>1, TaskFacts
  <2>3. /\ file' = Append(file, msg) /\ m_store' = Install(m_store, msg)
        /\ m_strand' = Tail(m_strand) /\ up' = up /\ accepted' = accepted
    BY <1>2 DEF RunAppend
  <2>4. \E i \in DOMAIN m_strand : m_strand[i] = Head(m_strand)
    BY <1>0, <2>1 DEF TypeOK
  <2>5. msg \in accepted
    BY <2>1, <2>4 DEF IInv, FromAccepted
  <2> HIDE DEF msg
  <2>6. /\ \A j \in DOMAIN file : j \in DOMAIN file' /\ file'[j] = file[j]
        /\ \E j \in DOMAIN file' : file'[j] = msg
        /\ \A j \in DOMAIN file' : \/ j \in DOMAIN file /\ file'[j] = file[j]
                                   \/ file'[j] = msg
    BY <1>0, <2>2, <2>3 DEF TypeOK
  <2>7. /\ m_store' \in StoreType /\ Covers(m_store', msg)
        /\ \A k \in Key : \/ m_store'[k] = m_store[k]
                          \/ k = msg.key /\ m_store'[k] = ElementOf(msg)
        /\ \A rec \in DoWrite : Covers(m_store, rec) => Covers(m_store', rec)
    BY <1>0, <2>2, <2>3, InstallFacts DEF TypeOK
  <2>8. LogBeforeStore'
    <3>1. SUFFICES ASSUME NEW k \in Key, m_store'[k] # Null
                   PROVE  \E j \in DOMAIN file' :
                            file'[j].key = k /\ ElementOf(file'[j]) = m_store'[k]
      BY DEF LogBeforeStore
    <3>2. CASE m_store'[k] = m_store[k]
      BY <2>6, <3>1, <3>2 DEF IInv, LogBeforeStore
    <3>3. CASE k = msg.key /\ m_store'[k] = ElementOf(msg)
      BY <2>6, <3>3
    <3>4. QED BY <2>7, <3>2, <3>3
  <2>9. NothingForgotten'
    <3>1. SUFFICES ASSUME up, NEW j \in DOMAIN file'
                   PROVE  \/ Covers(m_store', file'[j])
                          \/ AppendPending(file[j])' \/ ReplayPending(j)'
      BY <2>3 DEF NothingForgotten
    <3>2. CASE file'[j] = msg
      BY <2>7, <3>2
    <3>3. CASE j \in DOMAIN file /\ file'[j] = file[j]
      <4>0. file[j] \in DoWrite
        BY <1>0, <3>3 DEF TypeOK
      <4>1. CASE Covers(m_store, file[j])
        BY <2>7, <3>3, <4>0, <4>1
      <4>2. CASE AppendPending(file[j])
        <5>1. PICK i \in DOMAIN m_strand :
                /\ m_strand[i].op = "append" /\ m_strand[i].msg.key = file[j].key
                /\ file[j].timestamp <= m_strand[i].msg.timestamp
          BY <4>2 DEF AppendPending
        <5>2. CASE m_strand[i] = Head(m_strand)
          <6>1. /\ file[j].key = msg.key /\ file[j].timestamp <= msg.timestamp
                /\ file[j].timestamp \in Nat /\ msg.timestamp \in Nat /\ msg.key \in Key
            BY <2>2, <4>0, <5>1, <5>2, StampAssumption DEF msg, DoWrite
          <6>2. m_store'[msg.key] # Null => m_store'[msg.key].timestamp \in Nat
            BY <2>7, <6>1, StampAssumption DEF StoreType, Element
          <6>3. Covers(m_store', file[j])
            BY <2>7, <6>1, <6>2 DEF Covers
          <6>4. QED BY <3>3, <6>3
        <5>3. CASE i - 1 \in DOMAIN Tail(m_strand) /\ Tail(m_strand)[i - 1] = m_strand[i]
          <6>1. AppendPending(file[j])'
            BY <2>3, <3>3, <5>1, <5>3 DEF AppendPending
          <6>2. QED BY <6>1
        <5>4. QED BY <1>0, <2>1, <5>2, <5>3, TailFacts DEF TypeOK
      <4>3. CASE ReplayPending(j)
        <5>1. PICK i \in DOMAIN m_strand : m_strand[i].op = "replay" /\ m_strand[i].pos <= j
          BY <4>3 DEF ReplayPending
        <5>2. i - 1 \in DOMAIN Tail(m_strand) /\ Tail(m_strand)[i - 1] = m_strand[i]
          BY <1>0, <2>1, <5>1, TailFacts DEF TypeOK
        <5>3. QED BY <2>3, <5>1, <5>2 DEF ReplayPending
      <4>4. QED BY <3>1, <3>3, <4>1, <4>2, <4>3 DEF IInv, NothingForgotten
    <3>4. QED BY <2>6, <3>2, <3>3
  <2>10. FromAccepted'
    <3>1. \A j \in DOMAIN file' : file'[j] \in accepted'
      BY <2>3, <2>5, <2>6 DEF IInv, FromAccepted
    <3>2. \A i \in DOMAIN m_strand' :
            m_strand'[i].op = "append" => m_strand'[i].msg \in accepted'
      BY <1>0, <2>1, <2>3, TailFacts DEF TypeOK, IInv, FromAccepted
    <3>3. QED BY <3>1, <3>2 DEF FromAccepted
  <2>11. QED BY <1>0, <2>8, <2>9, <2>10 DEF IInv
<1>3. CASE ReplayRecord
  <2> DEFINE pos == Head(m_strand).pos
             msg == file[pos]
             rest == <<Replay(pos + 1)>> \o Tail(m_strand)
  <2>1. /\ Head(m_strand) \in Task /\ Head(m_strand).op = "replay" /\ m_strand # <<>>
    BY <1>0, <1>3 DEF ReplayRecord, AtHead, TypeOK
  <2>2. pos \in Nat \ {0} /\ pos <= Len(file)
    BY <1>3, <2>1, TaskFacts DEF ReplayRecord
  <2>3. msg \in DoWrite /\ pos \in DOMAIN file
    BY <1>0, <2>2 DEF TypeOK
  <2>4. msg \in accepted
    BY <2>3 DEF IInv, FromAccepted
  <2>5. /\ Replay(pos + 1) \in Task /\ Append1(msg) \in Task
        /\ Replay(pos + 1).op = "replay" /\ Replay(pos + 1).pos = pos + 1
        /\ Append1(msg).op = "append" /\ Append1(msg).msg = msg
    BY <2>2, <2>3, TaskFacts
  <2>6. /\ UNCHANGED <<m_store, file, up, accepted>>
        /\ \/ Covers(m_store, msg) /\ m_strand' = rest
           \/ m_strand' = Append(rest, Append1(msg))
    BY <1>3, StaleIsCovered DEF ReplayRecord
  <2>7. /\ 1 \in DOMAIN m_strand' /\ m_strand'[1] = Replay(pos + 1)
        /\ \A i \in DOMAIN m_strand : m_strand[i] = Head(m_strand)
             \/ (i \in DOMAIN m_strand' /\ m_strand'[i] = m_strand[i])
        /\ \A i \in DOMAIN m_strand' : \/ m_strand'[i] = Replay(pos + 1)
                                       \/ i \in DOMAIN m_strand /\ m_strand'[i] = m_strand[i]
                                       \/ m_strand'[i] = Append1(msg)
        /\ m_strand' = Append(rest, Append1(msg)) =>
             \E i \in DOMAIN m_strand' : m_strand'[i] = Append1(msg)
    <3> DEFINE h == Replay(pos + 1)
               t == Append1(msg)
               new == m_strand'
    <3>1. m_strand \in Seq(Task) /\ m_strand # <<>> /\ h \in Task /\ t \in Task
      BY <1>0, <2>1, <2>5 DEF TypeOK
    <3>2. new = <<h>> \o Tail(m_strand) \/ new = Append(<<h>> \o Tail(m_strand), t)
      BY <2>6
    <3> HIDE DEF h, t, new
    <3>3. /\ 1 \in DOMAIN new /\ new[1] = h
          /\ \A i \in DOMAIN m_strand : m_strand[i] = Head(m_strand)
               \/ (i \in DOMAIN new /\ new[i] = m_strand[i])
          /\ \A i \in DOMAIN new : \/ new[i] = h
                                   \/ i \in DOMAIN m_strand /\ new[i] = m_strand[i]
                                   \/ new[i] = t
          /\ new = Append(<<h>> \o Tail(m_strand), t) => \E i \in DOMAIN new : new[i] = t
      BY <3>1, <3>2, ReplayFacts
    <3>4. QED BY <3>3, Zenon DEF h, t, new
  <2>8. LogBeforeStore'
    BY <2>6 DEF IInv, LogBeforeStore
  <2>9. NothingForgotten'
    <3>1. SUFFICES ASSUME up, NEW j \in DOMAIN file
                   PROVE  \/ Covers(m_store, file[j])
                          \/ AppendPending(file[j])' \/ ReplayPending(j)'
      BY <2>6 DEF NothingForgotten
    <3>2. j \in Nat /\ file[j] \in DoWrite
      BY <1>0 DEF TypeOK
    <3>3. CASE AppendPending(file[j])
      <4>1. PICK i \in DOMAIN m_strand :
              /\ m_strand[i].op = "append" /\ m_strand[i].msg.key = file[j].key
              /\ file[j].timestamp <= m_strand[i].msg.timestamp
        BY <3>3 DEF AppendPending
      <4>2. i \in DOMAIN m_strand' /\ m_strand'[i] = m_strand[i]
        BY <2>1, <2>7, <4>1
      <4>3. QED BY <2>6, <4>1, <4>2 DEF AppendPending
    <3>4. CASE ReplayPending(j)
      <4>1. PICK i \in DOMAIN m_strand : m_strand[i].op = "replay" /\ m_strand[i].pos <= j
        BY <3>4 DEF ReplayPending
      <4>2. CASE m_strand[i] # Head(m_strand)
        BY <2>7, <4>1, <4>2 DEF ReplayPending
      <4>3. CASE m_strand[i] = Head(m_strand) /\ pos + 1 <= j
        BY <2>5, <2>7, <4>3 DEF ReplayPending
      <4>4. CASE m_strand[i] = Head(m_strand) /\ pos = j
        <5>1. CASE Covers(m_store, msg)
          BY <4>4, <5>1
        <5>2. CASE m_strand' = Append(rest, Append1(msg))
          <6>1. PICK n \in DOMAIN m_strand' : m_strand'[n] = Append1(msg)
            BY <2>7, <5>2
          <6>2. msg.timestamp \in Nat
            BY <2>3, StampAssumption DEF DoWrite
          <6>3. QED BY <2>5, <2>6, <4>4, <6>1, <6>2 DEF AppendPending
        <5>3. QED BY <2>6, <5>1, <5>2
      <4>5. QED BY <2>2, <3>2, <4>1, <4>2, <4>3, <4>4
    <3>5. QED BY <3>1, <3>3, <3>4 DEF IInv, NothingForgotten
  <2>10. FromAccepted'
    <3>1. \A i \in DOMAIN m_strand' :
            m_strand'[i].op = "append" => m_strand'[i].msg \in accepted'
      BY <2>4, <2>5, <2>6, <2>7 DEF IInv, FromAccepted
    <3>2. QED BY <2>6, <3>1 DEF IInv, FromAccepted
  <2>11. QED BY <1>0, <2>8, <2>9, <2>10 DEF IInv
<1>4. CASE ReplayDone
  <2>1. /\ Head(m_strand) \in Task /\ Head(m_strand).op = "replay" /\ m_strand # <<>>
        /\ Head(m_strand).pos > Len(file)
    BY <1>0, <1>4 DEF ReplayDone, AtHead, TypeOK
  <2>2. /\ UNCHANGED <<m_store, file, up, accepted>> /\ m_strand' = Tail(m_strand)
    BY <1>4 DEF ReplayDone
  <2>3. LogBeforeStore'
    BY <2>2 DEF IInv, LogBeforeStore
  <2>4. NothingForgotten'
    <3>1. SUFFICES ASSUME up, NEW j \in DOMAIN file
                   PROVE  \/ Covers(m_store, file[j])
                          \/ AppendPending(file[j])' \/ ReplayPending(j)'
      BY <2>2 DEF NothingForgotten
    <3>2. CASE AppendPending(file[j])
      <4>1. PICK i \in DOMAIN m_strand :
              /\ m_strand[i].op = "append" /\ m_strand[i].msg.key = file[j].key
              /\ file[j].timestamp <= m_strand[i].msg.timestamp
        BY <3>2 DEF AppendPending
      <4>2. i - 1 \in DOMAIN Tail(m_strand) /\ Tail(m_strand)[i - 1] = m_strand[i]
        BY <1>0, <2>1, <4>1, TailFacts DEF TypeOK
      <4>3. QED BY <2>2, <4>1, <4>2 DEF AppendPending
    <3>3. CASE ReplayPending(j)
      <4>1. PICK i \in DOMAIN m_strand : m_strand[i].op = "replay" /\ m_strand[i].pos <= j
        BY <3>3 DEF ReplayPending
      <4>2. m_strand[i] # Head(m_strand)
        <5>1. j <= Len(file) /\ j \in Nat /\ Len(file) \in Nat
          BY <1>0 DEF TypeOK
        <5>2. Head(m_strand).pos \in Nat
          BY <2>1, TaskFacts
        <5>3. QED BY <2>1, <4>1, <5>1, <5>2
      <4>3. i - 1 \in DOMAIN Tail(m_strand) /\ Tail(m_strand)[i - 1] = m_strand[i]
        BY <1>0, <2>1, <4>2, TailFacts DEF TypeOK
      <4>4. QED BY <2>2, <4>1, <4>3 DEF ReplayPending
    <3>4. QED BY <3>1, <3>2, <3>3 DEF IInv, NothingForgotten
  <2>5. FromAccepted'
    BY <1>0, <2>1, <2>2, TailFacts DEF TypeOK, IInv, FromAccepted
  <2>6. QED BY <1>0, <2>3, <2>4, <2>5 DEF IInv
<1>5. CASE Crash
  <2>1. LogBeforeStore'
    BY <1>5 DEF Crash, LogBeforeStore, EmptyStore
  <2>2. NothingForgotten'
    BY <1>5, Zenon DEF Crash, NothingForgotten
  <2>3. FromAccepted'
    BY <1>5 DEF Crash, FromAccepted, IInv
  <2>4. QED BY <1>0, <2>1, <2>2, <2>3 DEF IInv
<1>6. CASE Restart
  <2>1. /\ UNCHANGED <<m_store, file, accepted>> /\ m_strand' = <<Replay(1)>>
    BY <1>6 DEF Restart
  <2>2. /\ DOMAIN m_strand' = {1} /\ m_strand'[1].op = "replay" /\ m_strand'[1].pos = 1
    BY <2>1, TaskFacts
  <2>3. LogBeforeStore'
    BY <2>1 DEF IInv, LogBeforeStore
  <2>4. NothingForgotten'
    <3>1. \A j \in DOMAIN file : 1 <= j
      BY <1>0 DEF TypeOK
    <3>2. QED BY <2>1, <2>2, <3>1 DEF NothingForgotten, ReplayPending
  <2>5. FromAccepted'
    BY <2>1, <2>2 DEF IInv, FromAccepted
  <2>6. QED BY <1>0, <2>3, <2>4, <2>5 DEF IInv
<1>7. CASE UNCHANGED vars
  BY <1>0, <1>7 DEF vars, IInv, LogBeforeStore, NothingForgotten, FromAccepted,
                    AppendPending, ReplayPending
<1>8. QED BY <1>1, <1>2, <1>3, <1>4, <1>5, <1>6, <1>7 DEF Next

(***************************************************************************)
(* The invariant holds when the first Replica has been constructed.        *)
(***************************************************************************)
LEMMA InvInit == Init => IInv
<1> SUFFICES ASSUME Init PROVE IInv
  OBVIOUS
<1>1. EmptyStore \in StoreType /\ <<Replay(1)>> \in Seq(Task)
  BY TaskFacts DEF EmptyStore, StoreType
<1>2. TypeOK
  BY <1>1 DEF Init, TypeOK
<1>3. LogBeforeStore
  BY DEF Init, LogBeforeStore, EmptyStore
<1>4. NothingForgotten
  BY DEF Init, NothingForgotten
<1>5. FromAccepted
  <2>1. \A i \in DOMAIN m_strand : m_strand[i].op = "replay"
    BY TaskFacts DEF Init
  <2>2. QED BY <2>1 DEF Init, FromAccepted
<1>6. QED BY <1>2, <1>3, <1>4, <1>5 DEF IInv

(***************************************************************************)
(* The inductive invariant holds in every reachable state.                 *)
(***************************************************************************)
THEOREM Invariance == Spec => []IInv
BY InvInit, InvStep, PTL DEF Spec

(***************************************************************************)
(* Write-ahead: what a read returns is in the flushed file.                *)
(***************************************************************************)
THEOREM WriteAhead == Spec => []LogBeforeStore
<1>1. IInv => LogBeforeStore
  BY DEF IInv
<1>2. QED BY <1>1, Invariance, PTL

(***************************************************************************)
(* No flushed record is forgotten by a running process.                    *)
(***************************************************************************)
THEOREM NoRecordForgotten == Spec => []NothingForgotten
<1>1. IInv => NothingForgotten
  BY DEF IInv
<1>2. QED BY <1>1, Invariance, PTL

(***************************************************************************)
(* When the strand is idle, the store is what the file says.               *)
(***************************************************************************)
THEOREM RecoveryIsComplete == Spec => []RecoveredStore
<1>1. IInv => RecoveredStore
  <2> SUFFICES ASSUME IInv, up, m_strand = <<>>
               PROVE  /\ \A j \in DOMAIN file : Covers(m_store, file[j])
                      /\ LogBeforeStore
                      /\ TieFree => \A j \in DOMAIN file :
                           ElementOf(file[j]) = m_store[file[j].key]
                             \/ file[j].timestamp < m_store[file[j].key].timestamp
    BY DEF RecoveredStore
  <2>1. \A j \in DOMAIN file : Covers(m_store, file[j])
    BY DEF IInv, NothingForgotten, AppendPending, ReplayPending
  <2>2. ASSUME TieFree, NEW j \in DOMAIN file
        PROVE  ElementOf(file[j]) = m_store[file[j].key]
                 \/ file[j].timestamp < m_store[file[j].key].timestamp
    <3>0. \A n \in DOMAIN file : file[n] \in DoWrite
      BY DEF IInv, TypeOK
    <3>1. file[j].key \in Key /\ file[j].timestamp \in Nat
      BY <3>0, StampAssumption DEF DoWrite
    <3>2. PICK i \in DOMAIN file :
            file[i].key = file[j].key /\ ElementOf(file[i]) = m_store[file[j].key]
      BY <2>1, <3>1 DEF Covers, IInv, LogBeforeStore
    <3>3. file[i].timestamp \in Nat /\ file[i].timestamp = m_store[file[j].key].timestamp
      <4>1. file[i] \in DoWrite
        BY <3>0
      <4>2. file[i].timestamp \in Nat
        BY <4>1, StampAssumption DEF DoWrite
      <4>3. ElementOf(file[i]).timestamp = file[i].timestamp
        BY DEF ElementOf
      <4>4. QED BY <3>2, <4>2, <4>3
    <3>4. file[j].timestamp <= file[i].timestamp
      BY <2>1, <3>3 DEF Covers
    <3>5. CASE file[j].timestamp = file[i].timestamp
      BY <2>2, <3>2, <3>5 DEF TieFree, IInv, FromAccepted
    <3>6. CASE file[j].timestamp < file[i].timestamp
      BY <3>3, <3>6
    <3>7. QED BY <3>1, <3>3, <3>4, <3>5, <3>6
  <2>3. QED BY <2>1, <2>2 DEF IInv
<1>2. QED BY <1>1, Invariance, PTL

(***************************************************************************)
(* While the process runs, no read goes back in time.                      *)
(***************************************************************************)
THEOREM ReadsMonotone == Spec => ReadsNeverGoBack
<1> DEFINE Forward == up /\ up' => \A k \in Key : m_store[k] # Null =>
             m_store'[k] # Null /\ m_store[k].timestamp <= m_store'[k].timestamp
<1>1. IInv /\ [Next]_vars => [Forward]_vars
  <2> SUFFICES ASSUME TypeOK, Next, up, up', NEW k \in Key, m_store[k] # Null
               PROVE  m_store'[k] # Null /\ m_store[k].timestamp <= m_store'[k].timestamp
    BY DEF IInv
  <2>1. m_store[k] \in Element /\ m_store[k].timestamp \in Nat
    BY StampAssumption DEF TypeOK, StoreType, Element
  <2>2. CASE RunAppend
    <3> DEFINE msg == Head(m_strand).msg
               rec == [key |-> k, val |-> m_store[k].data, timestamp |-> m_store[k].timestamp]
    <3>1. Head(m_strand) \in Task /\ Head(m_strand).op = "append"
      BY <2>2 DEF RunAppend, AtHead, TypeOK
    <3>2. msg \in DoWrite /\ m_store' = Install(m_store, msg)
      BY <2>2, <3>1, TaskFacts DEF RunAppend
    <3>3. rec \in DoWrite /\ Covers(m_store, rec)
      BY <2>1 DEF DoWrite, Covers, Element
    <3> HIDE DEF msg
    <3>4. Covers(m_store', rec)
      BY <3>2, <3>3, InstallFacts DEF TypeOK
    <3>5. QED BY <3>4 DEF Covers
  <2>3. CASE m_store' = m_store
    BY <2>1, <2>3
  <2>4. ~Crash
    BY Zenon DEF Crash
  <2>5. RunAppend \/ m_store' = m_store
    BY <2>4 DEF Next, Write, ReplayRecord, ReplayDone, Restart
  <2>6. QED BY <2>2, <2>3, <2>5
<1>2. Spec => [][Forward]_vars
  BY <1>1, Invariance, PTL DEF Spec
<1>3. QED BY <1>2 DEF ReadsNeverGoBack

(***************************************************************************)
(* The replica with its log file, strand and replay implements the         *)
(* last-writer-wins store: running a posted append commits its record, a   *)
(* crash loses the view, and every other step is invisible.                *)
(***************************************************************************)
THEOREM Refinement == Spec => ImplementsLwwStore
<1> DEFINE log == {file[i] : i \in DOMAIN file}
<1>1. Init => Lww!Init
  BY DEF Init, Lww!Init, EmptyStore, Lww!EmptyStore
<1>2. IInv /\ [Next]_vars => [Lww!Next]_<<log, m_store>>
  <2> SUFFICES ASSUME TypeOK, [Next]_vars PROVE [Lww!Next]_<<log, m_store>>
    BY DEF IInv
  <2>1. CASE RunAppend
    <3> DEFINE msg == Head(m_strand).msg
    <3>1. Head(m_strand) \in Task /\ Head(m_strand).op = "append"
      BY <2>1 DEF RunAppend, AtHead, TypeOK
    <3>2. msg \in DoWrite
      BY <3>1, TaskFacts
    <3>3. file' = Append(file, msg) /\ m_store' = Install(m_store, msg)
      BY <2>1 DEF RunAppend
    <3> HIDE DEF msg
    <3>4. /\ \A j \in DOMAIN file : j \in DOMAIN file' /\ file'[j] = file[j]
          /\ \E j \in DOMAIN file' : file'[j] = msg
          /\ \A j \in DOMAIN file' : \/ j \in DOMAIN file /\ file'[j] = file[j]
                                     \/ file'[j] = msg
      BY <3>2, <3>3 DEF TypeOK
    <3>5. log' = log \cup {msg}
      BY <3>4
    <3>6. m_store' = Lww!Install(m_store, msg)
      BY <3>3 DEF Install, Lww!Install, Stale, Lww!Stale, ElementOf, Lww!ElementOf
    <3>7. Lww!Commit(msg) /\ msg \in Lww!DoWrite
      BY <3>2, <3>5, <3>6 DEF Lww!Commit, DoWrite, Lww!DoWrite
    <3>8. Lww!Next
      BY <3>7, SMT DEF Lww!Next, Lww!Commit
    <3>9. QED BY <3>8
  <2>2. CASE Crash
    <3>1. log' = log /\ m_store' = Lww!EmptyStore
      BY <2>2 DEF Crash, EmptyStore, Lww!EmptyStore
    <3>2. Lww!Lose
      BY <3>1 DEF Lww!Lose
    <3>3. QED BY <3>2 DEF Lww!Next
  <2>3. CASE file' = file /\ m_store' = m_store
    BY <2>3
  <2>4. RunAppend \/ Crash \/ (file' = file /\ m_store' = m_store)
    BY DEF Next, vars, Write, ReplayRecord, ReplayDone, Restart
  <2>5. QED BY <2>1, <2>2, <2>3, <2>4
<1>3. QED BY <1>1, <1>2, Invariance, PTL DEF Spec, Lww!Spec, ImplementsLwwStore

-----------------------------------------------------------------------------
(* How the file grows                                                      *)

\* What LogGrowth allows.
Allowed == writes * 2^crashes

\* Only the task at the head of the strand is a replay, and it reads no further
\* than the end of the file.
ReplayFirst ==
  /\ \A i \in DOMAIN m_strand : i # 1 => m_strand[i].op = "append"
  /\ m_strand # <<>> /\ Head(m_strand).op = "replay" => Head(m_strand).pos <= Len(file) + 1

\* The file, with the appends that are posted and those the replay may still
\* post, is within what is allowed; a file without a process may be replayed.
Due ==
  /\ ~up => m_strand = <<>> /\ 2 * Len(file) <= Allowed
  /\ up /\ (m_strand = <<>> \/ Head(m_strand).op = "append") =>
       Len(file) + Len(m_strand) <= Allowed
  /\ up /\ m_strand # <<>> /\ Head(m_strand).op = "replay" =>
       (2 * Len(file) + Len(m_strand)) - Head(m_strand).pos <= Allowed

GrowthInv == TypeOK /\ ReplayFirst /\ Due

\* One more call allows at least one more record, one more crash twice as many.
LEMMA AllowedFacts ==
  ASSUME NEW w \in Nat, NEW c \in Nat
  PROVE  /\ w * 2^c \in Nat
         /\ (w + 1) * 2^c \in Nat /\ (w + 1) * 2^c >= w * 2^c + 1
         /\ w * 2^(c + 1) \in Nat /\ w * 2^(c + 1) = 2 * (w * 2^c)
<1> DEFINE p == 2^c
           r == 2^(c + 1)
<1>1. p \in Nat /\ p >= 1
  BY PowerIs
<1>2. r = 2 * p
  BY PowerDoubles
<1> HIDE DEF p, r
<1>3. w * p \in Nat /\ (w + 1) * p = w * p + p
  BY <1>1
<1>4. w * (2 * p) = 2 * (w * p)
  BY <1>1
<1>5. (w + 1) * p \in Nat /\ (w + 1) * p >= w * p + 1
  BY <1>1, <1>3
<1>6. w * r \in Nat /\ w * r = 2 * (w * p)
  BY <1>2, <1>3, <1>4
<1> QED BY <1>3, <1>5, <1>6 DEF p, r

\* A strand to which a task was posted is not empty.
LEMMA PostedFacts ==
  ASSUME NEW s \in Seq(Task), NEW t \in Task
  PROVE  /\ Len(Append(s, t)) = Len(s) + 1 /\ DOMAIN Append(s, t) = 1..(Len(s) + 1)
         /\ Append(s, t)[Len(s) + 1] = t /\ Append(s, t) # <<>>
         /\ Head(Append(s, t)) = Append(s, t)[1] /\ \A i \in 1..Len(s) : Append(s, t)[i] = s[i]
OBVIOUS

\* What is on the strand: its head and its length.
LEMMA StrandFacts ==
  ASSUME TypeOK
  PROVE  /\ Len(m_strand) \in Nat /\ Len(file) \in Nat /\ Allowed \in Nat
         /\ DOMAIN m_strand = 1..Len(m_strand)
         /\ m_strand # <<>> => /\ Len(m_strand) >= 1 /\ Head(m_strand) = m_strand[1]
                               /\ Head(m_strand) \in Task
                               /\ Head(m_strand).op \in {"append", "replay"}
                               /\ Head(m_strand).op = "replay" => Head(m_strand).pos \in Nat \ {0}
         /\ m_strand = <<>> => Len(m_strand) = 0
<1>1. Allowed \in Nat
  BY AllowedFacts DEF TypeOK, Allowed
<1>2. m_strand # <<>> => Head(m_strand) \in Task /\ Len(m_strand) >= 1 /\ Head(m_strand) = m_strand[1]
  BY DEF TypeOK
<1>3. m_strand # <<>> => /\ Head(m_strand).op \in {"append", "replay"}
                         /\ Head(m_strand).op = "replay" => Head(m_strand).pos \in Nat \ {0}
  BY <1>2, TaskFacts
<1>4. Len(m_strand) \in Nat /\ Len(file) \in Nat /\ DOMAIN m_strand = 1..Len(m_strand)
  BY DEF TypeOK
<1> QED BY <1>1, <1>2, <1>3, <1>4

\* The file itself is within what is allowed.
LEMMA GrowthBound == GrowthInv => LogGrowth
<1> SUFFICES ASSUME GrowthInv PROVE Len(file) <= Allowed
  BY DEF LogGrowth, Allowed
<1>0. TypeOK /\ ReplayFirst /\ Due
  BY DEF GrowthInv
<1> DEFINE n == Len(file)
           l == Len(m_strand)
           x == Head(m_strand).pos
<1>1. n \in Nat /\ l \in Nat /\ Allowed \in Nat
  BY <1>0, StrandFacts
<1> HIDE DEF Allowed
<1>2. CASE ~up
  BY <1>0, <1>1, <1>2 DEF Due
<1>3. CASE up /\ (m_strand = <<>> \/ Head(m_strand).op = "append")
  BY <1>0, <1>1, <1>3 DEF Due
<1>4. CASE up /\ m_strand # <<>> /\ Head(m_strand).op = "replay"
  <2>1. x \in Nat /\ x <= n + 1 /\ l >= 1 /\ (2 * n + l) - x <= Allowed
    BY <1>0, <1>4, StrandFacts DEF Due, ReplayFirst
  <2> HIDE DEF n, l, x
  <2>2. n <= Allowed
    BY <1>1, <2>1
  <2> QED BY <2>2 DEF n
<1>5. up \in BOOLEAN /\ (m_strand # <<>> => Head(m_strand).op \in {"append", "replay"})
  BY <1>0, StrandFacts DEF TypeOK
<1> QED BY <1>2, <1>3, <1>4, <1>5

\* A call posts one append at most.
LEMMA GrowthWrite ==
  ASSUME GrowthInv, TypeOK', NEW msg \in DoWrite, Write(msg)
  PROVE  GrowthInv'
<1> DEFINE n == Len(file)
           l == Len(m_strand)
           A == Allowed
           A2 == Allowed'
           t == Append1(msg)
<1>0. TypeOK /\ ReplayFirst /\ Due /\ up
  BY DEF GrowthInv, Write
<1>1. n \in Nat /\ l \in Nat /\ A \in Nat /\ A2 \in Nat /\ A2 >= A + 1
  BY <1>0, StrandFacts, AllowedFacts DEF TypeOK, Allowed, Write
<1>2. /\ file' = file /\ up' = up
      /\ m_strand' = m_strand \/ m_strand' = Append(m_strand, t)
  BY DEF Write
<1>3. t \in Task /\ t.op = "append"
  BY TaskFacts
<1>4. m_strand \in Seq(Task)
  BY <1>0 DEF TypeOK
<1> HIDE DEF t, A, A2
<1>5. CASE m_strand' = m_strand
  <2>1. ReplayFirst'
    BY <1>0, <1>2, <1>5 DEF ReplayFirst
  <2>2. Due'
    <3>1. (m_strand = <<>> \/ Head(m_strand).op = "append") => n + l <= A2
      <4>1. (m_strand = <<>> \/ Head(m_strand).op = "append") => n + l <= A
        BY <1>0 DEF Due, A
      <4> HIDE DEF n, l
      <4> QED BY <1>1, <4>1
    <3>2. m_strand # <<>> /\ Head(m_strand).op = "replay" => (2 * n + l) - Head(m_strand).pos <= A2
      <4> SUFFICES ASSUME m_strand # <<>> /\ Head(m_strand).op = "replay"
                   PROVE  (2 * n + l) - Head(m_strand).pos <= A2
        OBVIOUS
      <4> DEFINE x == Head(m_strand).pos
      <4>1. (2 * n + l) - x <= A /\ x \in Nat
        BY <1>0, StrandFacts DEF Due, A
      <4> HIDE DEF n, l, x
      <4>2. (2 * n + l) - x <= A2
        BY <1>1, <4>1
      <4> QED BY <4>2 DEF x
    <3> QED BY <1>0, <1>2, <1>5, <3>1, <3>2 DEF Due, A2
  <2> QED BY <2>1, <2>2 DEF GrowthInv
<1>6. CASE m_strand' = Append(m_strand, t)
  <2>1. /\ Len(m_strand') = l + 1 /\ m_strand' # <<>> /\ DOMAIN m_strand' = 1..(l + 1)
        /\ m_strand'[l + 1] = t /\ (\A i \in 1..l : m_strand'[i] = m_strand[i])
        /\ DOMAIN m_strand = 1..l /\ Head(m_strand') = m_strand'[1]
    BY <1>3, <1>4, <1>6
  <2>2. m_strand = <<>> => l = 0
    OBVIOUS
  <2>3. m_strand # <<>> => Head(m_strand') = Head(m_strand) /\ l >= 1
    BY <1>0, <1>1, <2>1, StrandFacts
  <2>4. m_strand = <<>> => Head(m_strand') = t
    BY <2>1, <2>2
  <2> HIDE DEF l
  <2>5. ReplayFirst'
    <3>1. ASSUME NEW i \in DOMAIN m_strand', i # 1 PROVE m_strand'[i].op = "append"
      <4>1. CASE i = l + 1
        BY <1>3, <2>1, <4>1
      <4>2. CASE i \in 1..l
        BY <1>0, <2>1, <3>1, <4>2 DEF ReplayFirst
      <4> QED BY <1>1, <2>1, <4>1, <4>2
    <3>2. m_strand' # <<>> /\ Head(m_strand').op = "replay" => Head(m_strand').pos <= Len(file') + 1
      BY <1>0, <1>2, <1>3, <2>3, <2>4 DEF ReplayFirst
    <3> QED BY <3>1, <3>2 DEF ReplayFirst
  <2>6. Due'
    <3>1. Head(m_strand').op = "append" => n + (l + 1) <= A2
      <4> SUFFICES ASSUME Head(m_strand').op = "append" PROVE n + (l + 1) <= A2
        OBVIOUS
      <4>1. n + l <= A
        BY <1>0, <2>3, <2>4 DEF Due, A, l
      <4> HIDE DEF n
      <4> QED BY <1>1, <4>1
    <3>2. Head(m_strand').op = "replay" => (2 * n + (l + 1)) - Head(m_strand').pos <= A2
      <4> SUFFICES ASSUME Head(m_strand').op = "replay"
                   PROVE  (2 * n + (l + 1)) - Head(m_strand').pos <= A2
        OBVIOUS
      <4>1. m_strand # <<>> /\ Head(m_strand') = Head(m_strand)
        BY <1>3, <2>3, <2>4
      <4> DEFINE x == Head(m_strand).pos
      <4>2. (2 * n + l) - x <= A /\ x \in Nat
        BY <1>0, <4>1, StrandFacts DEF Due, A, l
      <4> HIDE DEF n, x
      <4>3. (2 * n + (l + 1)) - x <= A2
        BY <1>1, <4>2
      <4> QED BY <4>1, <4>3 DEF x
    <3> QED BY <1>0, <1>2, <2>1, <3>1, <3>2 DEF Due, A2
  <2> QED BY <2>5, <2>6 DEF GrowthInv
<1> QED BY <1>2, <1>5, <1>6

\* An append that runs was posted before.
LEMMA GrowthRunAppend ==
  ASSUME GrowthInv, TypeOK', RunAppend
  PROVE  GrowthInv'
<1> DEFINE n == Len(file)
           l == Len(m_strand)
           s == Tail(m_strand)
<1>0. TypeOK /\ ReplayFirst /\ Due /\ up /\ m_strand # <<>> /\ Head(m_strand).op = "append"
  BY DEF GrowthInv, RunAppend, AtHead
<1>1. n \in Nat /\ l \in Nat /\ l >= 1 /\ Allowed \in Nat /\ n + l <= Allowed
  BY <1>0, StrandFacts DEF Due
<1>2. /\ file' = Append(file, Head(m_strand).msg) /\ m_strand' = s
      /\ up' = up /\ writes' = writes /\ crashes' = crashes
  BY DEF RunAppend
<1>3. Head(m_strand).msg \in DoWrite
  BY <1>0, StrandFacts, TaskFacts
<1>4. Len(file') = n + 1
  BY <1>0, <1>2, <1>3 DEF TypeOK
<1>5. /\ s \in Seq(Task) /\ Len(s) = l - 1 /\ DOMAIN s = 1..Len(s) /\ (s # <<>> => Head(s) = s[1] /\ 1 \in DOMAIN s)
      /\ \A i \in DOMAIN s : i + 1 \in DOMAIN m_strand /\ s[i] = m_strand[i + 1] /\ i + 1 # 1
  BY <1>0 DEF TypeOK
<1>6. \A i \in DOMAIN s : s[i].op = "append"
  BY <1>0, <1>5 DEF ReplayFirst
<1> HIDE DEF s
<1>7. s # <<>> => Head(s).op = "append" /\ Head(s).op # "replay"
  BY <1>5, <1>6
<1>8. ReplayFirst'
  BY <1>2, <1>6, <1>7 DEF ReplayFirst
<1>9. (n + 1) + (l - 1) <= Allowed
  <2> HIDE DEF n, l, Allowed
  <2> QED BY <1>1
<1>10. Allowed' = Allowed
  BY <1>2 DEF Allowed
<1> HIDE DEF Allowed
<1>11. Due'
  BY <1>0, <1>2, <1>4, <1>5, <1>7, <1>9, <1>10 DEF Due
<1> QED BY <1>8, <1>11 DEF GrowthInv

\* The replay reads a record and posts one append at most.
LEMMA GrowthReplayRecord ==
  ASSUME GrowthInv, TypeOK', ReplayRecord
  PROVE  GrowthInv'
<1> DEFINE n == Len(file)
           l == Len(m_strand)
           x == Head(m_strand).pos
           y == x + 1
           h == Replay(y)
           r == <<h>> \o Tail(m_strand)
           t == Append1(file[x])
<1>0. TypeOK /\ ReplayFirst /\ Due /\ up /\ m_strand # <<>> /\ Head(m_strand).op = "replay"
  BY DEF GrowthInv, ReplayRecord, AtHead
<1>1. /\ n \in Nat /\ l \in Nat /\ l >= 1 /\ Allowed \in Nat /\ (2 * n + l) - x <= Allowed
      /\ x \in Nat \ {0} /\ x <= n
  BY <1>0, StrandFacts DEF Due, ReplayRecord
<1>2. /\ m_strand' = r \/ m_strand' = Append(r, t)
      /\ file' = file /\ up' = up /\ writes' = writes /\ crashes' = crashes
  BY DEF ReplayRecord
<1>3. h \in Task /\ h.op = "replay" /\ h.pos = y /\ y \in Nat
  BY <1>1, TaskFacts
<1>4. t \in Task /\ t.op = "append"
  <2>1. file[x] \in DoWrite
    BY <1>0, <1>1 DEF TypeOK
  <2> QED BY <2>1, TaskFacts
<1> HIDE DEF y, h, t
<1>5. /\ r \in Seq(Task) /\ Len(r) = l /\ r[1] = h /\ (\A i \in 2..l : r[i] = m_strand[i])
      /\ DOMAIN r = 1..l /\ DOMAIN m_strand = 1..l
  BY <1>0, <1>1, <1>3 DEF TypeOK
<1> HIDE DEF r
<1>6. \A i \in 2..l : r[i].op = "append"
  <2>1. \A i \in 2..l : i \in DOMAIN m_strand /\ i # 1
    BY <1>1, <1>5
  <2> QED BY <1>0, <1>5, <2>1 DEF ReplayFirst
<1>7. Allowed' = Allowed
  BY <1>2 DEF Allowed
<1>8. y <= n + 1 /\ (2 * n + l) - y <= Allowed /\ (2 * n + (l + 1)) - y <= Allowed
  <2> HIDE DEF n, l, x, Allowed
  <2> QED BY <1>1 DEF y
<1> HIDE DEF Allowed
<1>9. CASE m_strand' = r
  <2>1. r # <<>> /\ Head(r) = h
    BY <1>1, <1>5
  <2>2. \A i \in DOMAIN r : i # 1 => r[i].op = "append"
    <3> HIDE DEF l
    <3> QED BY <1>1, <1>5, <1>6
  <2>3. ReplayFirst'
    BY <1>2, <1>3, <1>8, <1>9, <2>1, <2>2 DEF ReplayFirst
  <2>4. Due'
    BY <1>0, <1>2, <1>3, <1>5, <1>7, <1>8, <1>9, <2>1 DEF Due
  <2> QED BY <2>3, <2>4 DEF GrowthInv
<1>10. CASE m_strand' = Append(r, t)
  <2> DEFINE a == Append(r, t)
  <2>1. /\ Len(a) = l + 1 /\ DOMAIN a = 1..(l + 1) /\ a[l + 1] = t /\ a # <<>> /\ Head(a) = a[1]
        /\ \A i \in 1..l : a[i] = r[i]
    <3>1. /\ Len(a) = Len(r) + 1 /\ DOMAIN a = 1..(Len(r) + 1) /\ a[Len(r) + 1] = t
          /\ a # <<>> /\ Head(a) = a[1] /\ \A i \in 1..Len(r) : a[i] = r[i]
      <4>1. r \in Seq(Task) /\ t \in Task
        BY <1>4, <1>5
      <4> QED BY ONLY <4>1, PostedFacts
    <3> HIDE DEF a, l
    <3> QED BY <1>5, <3>1
  <2> HIDE DEF a
  <2>2. Head(a) = h
    BY <1>1, <1>5, <2>1
  <2>3. \A i \in DOMAIN a : i # 1 => a[i].op = "append"
    <3> SUFFICES ASSUME NEW i \in DOMAIN a, i # 1 PROVE a[i].op = "append"
      OBVIOUS
    <3> HIDE DEF l
    <3>1. i = l + 1 \/ i \in 2..l
      BY <1>1, <2>1
    <3>2. CASE i = l + 1
      BY <1>4, <2>1, <3>2
    <3>3. CASE i \in 2..l
      BY <1>1, <1>6, <2>1, <3>3
    <3> QED BY <3>1, <3>2, <3>3
  <2>4. m_strand' = a
    BY <1>10 DEF a
  <2>5. ReplayFirst'
    BY <1>2, <1>3, <1>8, <2>2, <2>3, <2>4 DEF ReplayFirst
  <2>6. Due'
    BY <1>0, <1>2, <1>3, <1>7, <1>8, <2>1, <2>2, <2>4 DEF Due
  <2> QED BY <2>5, <2>6 DEF GrowthInv
<1> QED BY <1>2, <1>9, <1>10

\* At the end of the file the replay has nothing more to post.
LEMMA GrowthReplayDone ==
  ASSUME GrowthInv, TypeOK', ReplayDone
  PROVE  GrowthInv'
<1> DEFINE n == Len(file)
           l == Len(m_strand)
           x == Head(m_strand).pos
           s == Tail(m_strand)
<1>0. TypeOK /\ ReplayFirst /\ Due /\ up /\ m_strand # <<>> /\ Head(m_strand).op = "replay"
  BY DEF GrowthInv, ReplayDone, AtHead
<1>1. /\ n \in Nat /\ l \in Nat /\ l >= 1 /\ Allowed \in Nat /\ (2 * n + l) - x <= Allowed
      /\ x \in Nat /\ x > n /\ x <= n + 1
  BY <1>0, StrandFacts DEF Due, ReplayDone, ReplayFirst
<1>2. m_strand' = s /\ file' = file /\ up' = up /\ writes' = writes /\ crashes' = crashes
  BY DEF ReplayDone
<1>3. /\ s \in Seq(Task) /\ Len(s) = l - 1 /\ (s # <<>> => Head(s) = s[1] /\ 1 \in DOMAIN s)
      /\ \A i \in DOMAIN s : i + 1 \in DOMAIN m_strand /\ s[i] = m_strand[i + 1] /\ i + 1 # 1
  BY <1>0 DEF TypeOK
<1>4. \A i \in DOMAIN s : s[i].op = "append"
  BY <1>0, <1>3 DEF ReplayFirst
<1> HIDE DEF s
<1>5. s # <<>> => Head(s).op = "append" /\ Head(s).op # "replay"
  BY <1>3, <1>4
<1>6. ReplayFirst'
  BY <1>2, <1>4, <1>5 DEF ReplayFirst
<1>7. n + (l - 1) <= Allowed
  <2> HIDE DEF n, l, x, Allowed
  <2> QED BY <1>1
<1>8. Allowed' = Allowed
  BY <1>2 DEF Allowed
<1> HIDE DEF Allowed
<1>9. Due'
  BY <1>0, <1>2, <1>3, <1>5, <1>7, <1>8 DEF Due
<1> QED BY <1>6, <1>9 DEF GrowthInv

\* A crash allows twice as much, and the replay of the restart needs it.
LEMMA GrowthCrash ==
  ASSUME GrowthInv, TypeOK', Crash \/ Restart
  PROVE  GrowthInv'
<1> DEFINE n == Len(file)
<1>0. TypeOK /\ ReplayFirst /\ Due
  BY DEF GrowthInv
<1>1. n \in Nat /\ Allowed \in Nat
  BY <1>0, StrandFacts
<1>2. CASE Crash
  <2>1. m_strand' = <<>> /\ file' = file /\ writes' = writes /\ crashes' = crashes + 1
    BY <1>2 DEF Crash
  <2>2. up' = FALSE
    BY <1>2, Zenon DEF Crash
  <2>3. Allowed' = 2 * Allowed
    BY <1>0, <2>1, AllowedFacts DEF Allowed, TypeOK
  <2>4. n <= Allowed
    BY GrowthBound DEF LogGrowth, Allowed
  <2> HIDE DEF Allowed
  <2>5. 2 * n <= 2 * Allowed
    <3> HIDE DEF n
    <3> QED BY <1>1, <2>4
  <2>6. ReplayFirst'
    BY <2>1 DEF ReplayFirst
  <2>7. ~up' /\ 2 * Len(file') <= Allowed'
    BY <2>1, <2>2, <2>3, <2>5
  <2>8. Due'
    BY <2>1, <2>7 DEF Due
  <2> QED BY <2>6, <2>8 DEF GrowthInv
<1>3. CASE Restart
  <2> DEFINE h == Replay(1)
             r == <<h>>
  <2>1. m_strand' = r /\ file' = file /\ writes' = writes /\ crashes' = crashes
    BY <1>3 DEF Restart
  <2>2. ~up
    BY <1>3 DEF Restart
  <2>3. up'
    BY <1>3, Zenon DEF Restart
  <2>4. 2 * n <= Allowed /\ Allowed' = Allowed
    BY <1>0, <2>1, <2>2 DEF Due, Allowed
  <2>5. h.op = "replay" /\ h.pos = 1
    BY TaskFacts
  <2> HIDE DEF h, Allowed
  <2>6. Len(r) = 1 /\ DOMAIN r = {1} /\ Head(r) = h /\ r # <<>>
    OBVIOUS
  <2> HIDE DEF r
  <2>7. ReplayFirst'
    <3>1. 1 <= n + 1
      <4> HIDE DEF n
      <4> QED BY <1>1
    <3> QED BY <2>1, <2>5, <2>6, <3>1 DEF ReplayFirst
  <2>8. (2 * n + 1) - 1 <= Allowed
    <3> HIDE DEF n
    <3> QED BY <1>1, <2>4
  <2>9. Due'
    BY <2>1, <2>3, <2>4, <2>5, <2>6, <2>8 DEF Due
  <2> QED BY <2>7, <2>9 DEF GrowthInv
<1> QED BY <1>2, <1>3

\* Every step keeps the file and what it may still grow by within what is allowed.
LEMMA GrowthStep == GrowthInv /\ [Next]_vars => GrowthInv'
<1> SUFFICES ASSUME GrowthInv, [Next]_vars PROVE GrowthInv'
  OBVIOUS
<1>0. TypeOK'
  BY TypeStep DEF GrowthInv
<1>1. ASSUME NEW k \in Key, NEW v \in Val, NEW t \in Stamp,
             Write([key |-> k, val |-> v, timestamp |-> t])
      PROVE  GrowthInv'
  <2> DEFINE msg == [key |-> k, val |-> v, timestamp |-> t]
  <2>1. msg \in DoWrite /\ Write(msg)
    BY <1>1 DEF DoWrite
  <2> HIDE DEF msg
  <2> QED BY <1>0, <2>1, GrowthWrite
<1>2. CASE UNCHANGED vars
  BY <1>2 DEF vars, GrowthInv, TypeOK, ReplayFirst, Due, Allowed
<1> QED BY <1>0, <1>1, <1>2, GrowthRunAppend, GrowthReplayRecord, GrowthReplayDone, GrowthCrash
        DEF Next

\* An empty file may be replayed.
LEMMA GrowthInit == Init => GrowthInv
<1> SUFFICES ASSUME Init PROVE GrowthInv
  OBVIOUS
<1>0. TypeOK
  BY InvInit DEF IInv
<1> DEFINE h == Replay(1)
           r == <<h>>
<1>1. /\ m_strand = r /\ file = <<>> /\ Len(file) = 0 /\ writes = 0 /\ crashes = 0 /\ up
  BY DEF Init
<1>2. h.op = "replay" /\ h.pos = 1
  BY TaskFacts
<1>3. Allowed \in Nat
  BY <1>0, StrandFacts
<1> HIDE DEF h, Allowed
<1>4. Len(r) = 1 /\ DOMAIN r = {1} /\ Head(r) = h /\ r # <<>>
  OBVIOUS
<1> HIDE DEF r
<1>5. ReplayFirst
  BY <1>1, <1>2, <1>4 DEF ReplayFirst
<1>6. Due
  BY <1>1, <1>2, <1>3, <1>4 DEF Due
<1> QED BY <1>0, <1>5, <1>6 DEF GrowthInv

(***************************************************************************)
(* For any number of writes and crashes the file is at most as long as the *)
(* number of writes doubled once for every crash: a restart appends again  *)
(* what it reads, and the replay does not read what it appends.            *)
(***************************************************************************)
THEOREM FileAtMostDoubles == Spec => []LogGrowth
BY GrowthInit, GrowthStep, GrowthBound, PTL DEF Spec

-----------------------------------------------------------------------------
(***************************************************************************)
(*                       THE CLIENT ON ITS CHANNEL                         *)
(*                                                                         *)
(* For any number of commands, of broken and of refused connections, and   *)
(* whatever the coordinator answers: what arrives arrives in order, a      *)
(* connection that works keeps working and one that is broken is replaced, *)
(* and answers are matched with commands.                                  *)
(*                                                                         *)
(* Three arguments, which hardly touch each other:                         *)
(*   the operations of one connection end before the next is opened, or    *)
(*   late says that they did not (Operations);                             *)
(*   a message is written when it comes to the head of m_mq, which happens *)
(*   to it once at most, also when m_mq is popped too early (Ordered);     *)
(*   so the coordinator gets each command once at most, and as long as no  *)
(*   command failed there is but one without an answer (Matched).          *)
(***************************************************************************)
Elems(q) == {q[i] : i \in DOMAIN q}
Increasing(q) == \A i, j \in DOMAIN q : i < j => q[i] < q[j]
Injective(q) == \A i, j \in DOMAIN q : q[i] = q[j] => i = j

Types ==
  /\ socket \in {"connecting", "open", "broken"}
  /\ hook \in {"owner", "reconnect"}
  /\ m_mq \in Seq(Nat) /\ posted \in Seq(Nat) /\ write \in Seq(Nat)
  /\ wire \in Seq(Nat) /\ sent \in Seq(Nat) /\ incoming \in Seq(Nat)
  /\ printed \in Seq(Nat) /\ callbacks \in Seq({"owner", "reconnect"})
  /\ ready \in [Kinds -> Nat]
  /\ at \in {"idle", "prompt", "exited"}
  /\ issued \in Nat /\ failed \in Nat /\ expired \in Nat

\* The writes under way: outstanding, or done and not handled yet.
Writes == Len(write) + ready["written"] + ready["write_error"]

\* A connection that is being opened has nothing left of the one before, and
\* nothing has failed on one that is open; one message is written at a time,
\* that at the head of the queue.
Operations ==
  /\ socket = "connecting" => ~timer /\ ~read /\ \A k \in Kinds : ready[k] = 0
  /\ socket = "open" => ~timer /\ \A k \in Kinds \ {"connected", "written"} : ready[k] = 0
  /\ Writes <= 1
  /\ Writes = 1 => m_mq # <<>>
  /\ ~undefined

\* Something is under way that ends in a call of reconnect.
Watched ==
  /\ socket = "open" => read \/ ready["connected"] > 0
  /\ socket = "broken" =>
       \/ read \/ timer
       \/ \E k \in {"connected", "refused", "read_error", "timer"} : ready[k] > 0

\* The messages keep the order in which they were typed, from the queue of the
\* posted tasks through m_mq and the writes to the peer.  Of those in m_mq only
\* the first was given to async_write.
InLine(s, w, m, p, n) ==
  /\ Increasing(s) /\ Increasing(w) /\ Increasing(m) /\ Increasing(p)
  /\ \A x \in Elems(s), y \in Elems(w) : x < y
  /\ \A x \in Elems(s) \cup Elems(w), y \in Elems(m) : x <= y
  /\ \A x \in Elems(s) \cup Elems(w) \cup Elems(m), y \in Elems(p) : x < y
  /\ \A x \in Elems(s) \cup Elems(w) \cup Elems(m) \cup Elems(p) : x \in 1..n

Ordered == InLine(sent, write, m_mq, posted, issued)

\* What the peer was sent is with it, on its way back, printed, or lost.
Apart ==
  /\ Injective(wire) /\ Injective(incoming) /\ Injective(printed)
  /\ Elems(wire) \cap Elems(incoming) = {}
  /\ Elems(wire) \cap Elems(printed) = {}
  /\ Elems(incoming) \cap Elems(printed) = {}
  /\ Elems(wire) \cup Elems(incoming) \cup Elems(printed) \subseteq Elems(sent)

\* The client's own handler, which prompts, is still to come: in the order in
\* which it passes through these places, each of which excludes the others.
Coming ==
  \/ hook = "owner" /\ socket = "connecting"
  \/ hook = "owner" /\ ready["connected"] > 0
  \/ "owner" \in Elems(callbacks)

Prompts ==
  /\ hook = "owner" /\ socket = "connecting" => ready["connected"] = 0
  /\ hook = "owner" => ready["connected"] <= 1
  /\ hook = "owner" /\ (socket = "connecting" \/ ready["connected"] > 0) =>
       "owner" \notin Elems(callbacks)
  /\ \A i, j \in DOMAIN callbacks : callbacks[i] = "owner" /\ callbacks[j] = "owner" => i = j
  /\ Coming => at = "idle" /\ issued = 0
  /\ issued = 0 => ~m_timer /\ expired = 0

Matched ==
  failed = 0 =>
    /\ \A i \in DOMAIN printed : printed[i] = i
    /\ at = "idle" => Len(printed) = issued - 1 \/ (issued = 0 /\ printed = <<>>)
    /\ at # "idle" => Len(printed) = issued

KvInv ==
  /\ Types
  /\ late \/ Operations
  /\ Watched
  /\ Ordered
  /\ Apart
  /\ Prompts
  /\ Matched

-----------------------------------------------------------------------------
(* Queues                                                                  *)

LEMMA EmptyElems == /\ Elems(<<>>) = {} /\ Increasing(<<>>) /\ Injective(<<>>)
                    /\ \A S : <<>> \in Seq(S)
BY DEF Elems, Increasing, Injective

LEMMA AppendElems ==
  ASSUME NEW S, NEW q \in Seq(S), NEW x \in S
  PROVE  /\ Append(q, x) \in Seq(S) /\ Append(q, x) # <<>>
         /\ Len(Append(q, x)) = Len(q) + 1 /\ Len(q) \in Nat
         /\ Elems(Append(q, x)) = Elems(q) \cup {x}
         /\ Injective(q) /\ x \notin Elems(q) => Injective(Append(q, x))
<1> DEFINE r == Append(q, x)
<1>1. /\ r \in Seq(S) /\ r # <<>> /\ Len(r) = Len(q) + 1 /\ Len(q) \in Nat
      /\ DOMAIN q = 1..Len(q) /\ DOMAIN r = 1..Len(q) + 1
      /\ \A i \in DOMAIN q : r[i] = q[i]
      /\ r[Len(q) + 1] = x
  OBVIOUS
<1> HIDE DEF r
<1>2. Elems(r) = Elems(q) \cup {x}
  BY <1>1 DEF Elems
<1>3. ASSUME Injective(q), x \notin Elems(q) PROVE Injective(r)
  BY <1>1, <1>3 DEF Injective, Elems
<1> QED BY <1>1, <1>2, <1>3 DEF r

LEMMA AppendAdds ==
  ASSUME NEW q \in Seq(Nat), NEW x \in Nat
  PROVE  Elems(Append(q, x)) = Elems(q) \cup {x}
BY AppendElems

LEMMA AppendIncreasing ==
  ASSUME NEW q \in Seq(Nat), NEW x \in Nat, Increasing(q), \A y \in Elems(q) : y < x
  PROVE  Increasing(Append(q, x))
<1> DEFINE r == Append(q, x)
<1>1. /\ Len(q) \in Nat /\ DOMAIN q = 1..Len(q) /\ DOMAIN r = 1..Len(q) + 1
      /\ \A i \in DOMAIN q : r[i] = q[i]
      /\ r[Len(q) + 1] = x
  OBVIOUS
<1> HIDE DEF r
<1>2. \A i \in DOMAIN q : q[i] < x
  BY DEF Elems
<1>3. Increasing(r)
  BY <1>1, <1>2 DEF Increasing
<1> QED BY <1>3 DEF r

LEMMA TailElems ==
  ASSUME NEW S, NEW q \in Seq(S), q # <<>>
  PROVE  /\ Tail(q) \in Seq(S) /\ Head(q) \in S /\ Len(Tail(q)) = Len(q) - 1 /\ Len(q) \in Nat
         /\ Len(q) > 0
         /\ Head(q) \in Elems(q) /\ Elems(q) = {Head(q)} \cup Elems(Tail(q))
         /\ Increasing(q) => Increasing(Tail(q)) /\ \A y \in Elems(Tail(q)) : Head(q) < y
         /\ Injective(q) => Injective(Tail(q)) /\ Head(q) \notin Elems(Tail(q))
<1> DEFINE r == Tail(q)
<1>1. /\ r \in Seq(S) /\ Len(r) = Len(q) - 1 /\ Len(q) \in Nat /\ Len(q) > 0
      /\ DOMAIN q = 1..Len(q) /\ DOMAIN r = 1..Len(q) - 1
      /\ \A i \in DOMAIN r : i + 1 \in DOMAIN q /\ r[i] = q[i + 1]
      /\ 1 \in DOMAIN q /\ Head(q) = q[1] /\ Head(q) \in S
  OBVIOUS
<1> HIDE DEF r
<1>2. \A i \in DOMAIN q : i = 1 \/ (i - 1 \in DOMAIN r /\ r[i - 1] = q[i])
  <2> TAKE i \in DOMAIN q
  <2>1. CASE i # 1
    <3>1. i - 1 \in DOMAIN r /\ (i - 1) + 1 = i
      BY <1>1, <2>1
    <3> QED BY <1>1, <3>1
  <2> QED BY <2>1
<1>3. Head(q) \in Elems(q) /\ Elems(q) = {Head(q)} \cup Elems(r)
  <2>1. Elems(q) \subseteq {Head(q)} \cup Elems(r)
    BY <1>1, <1>2 DEF Elems
  <2>2. {Head(q)} \cup Elems(r) \subseteq Elems(q)
    BY <1>1 DEF Elems
  <2> QED BY <2>1, <2>2
<1>4. ASSUME Increasing(q) PROVE Increasing(r) /\ \A y \in Elems(r) : Head(q) < y
  <2>1. \A i \in DOMAIN r : 1 < i + 1
    BY <1>1
  <2>2. \A i \in DOMAIN r : Head(q) < r[i]
    BY <1>1, <1>4, <2>1 DEF Increasing
  <2>3. \A i, j \in DOMAIN r : i < j => i + 1 < j + 1
    BY <1>1
  <2>4. Increasing(r)
    BY <1>1, <1>4, <2>3 DEF Increasing
  <2> QED BY <2>2, <2>4 DEF Elems
<1>5. ASSUME Injective(q) PROVE Injective(r) /\ Head(q) \notin Elems(r)
  <2>1. \A i \in DOMAIN r : i + 1 # 1
    BY <1>1
  <2>2. \A i \in DOMAIN r : Head(q) # r[i]
    BY <1>1, <1>5, <2>1 DEF Injective
  <2>3. \A i, j \in DOMAIN r : i + 1 = j + 1 => i = j
    BY <1>1
  <2>4. Injective(r)
    BY <1>1, <1>5, <2>3 DEF Injective
  <2> QED BY <2>2, <2>4 DEF Elems
<1> QED BY <1>1, <1>3, <1>4, <1>5 DEF r

\* A message is taken out of the middle.
Without(q, i) == SubSeq(q, 1, i - 1) \o SubSeq(q, i + 1, Len(q))

LEMMA WithoutElems ==
  ASSUME NEW S, NEW q \in Seq(S), NEW i \in DOMAIN q
  PROVE  /\ Without(q, i) \in Seq(S) /\ q[i] \in S /\ q[i] \in Elems(q)
         /\ Elems(Without(q, i)) \subseteq Elems(q)
         /\ Injective(q) => Injective(Without(q, i)) /\ q[i] \notin Elems(Without(q, i))
<1> DEFINE r == Without(q, i)
           a == SubSeq(q, 1, i - 1)
           b == SubSeq(q, i + 1, Len(q))
           old == [k \in 1..Len(q) - 1 |-> IF k < i THEN k ELSE k + 1]
<1>1. Len(q) \in Nat /\ DOMAIN q = 1..Len(q) /\ i \in 1..Len(q)
  OBVIOUS
<1>2. a \in Seq(S) /\ Len(a) = i - 1 /\ \A k \in 1..i - 1 : a[k] = q[k]
  <2>1. 1 \in 1..Len(q) + 1 /\ i - 1 \in 0..Len(q)
    BY <1>1
  <2> QED BY <1>1, <2>1, SubSeqProperties
<1>3. b \in Seq(S) /\ Len(b) = Len(q) - i /\ \A k \in 1..Len(q) - i : b[k] = q[i + k]
  <2>1. i + 1 \in 1..Len(q) + 1 /\ Len(q) \in i..Len(q) /\ (i + 1) - 1 = i
    BY <1>1
  <2>2. /\ b \in Seq(S) /\ Len(b) = Len(q) - (i + 1) + 1
        /\ \A k \in 1..Len(q) - (i + 1) + 1 : b[k] = q[(i + 1) + k - 1]
    BY <2>1, SubSeqProperties
  <2>3. /\ Len(q) - (i + 1) + 1 = Len(q) - i
        /\ \A k \in 1..Len(q) - i : (i + 1) + k - 1 = i + k
    BY <1>1
  <2> HIDE DEF b
  <2> QED BY ONLY <2>2, <2>3
<1> HIDE DEF a, b
<1>4. r = a \o b
  BY DEF a, b, Without
<1> HIDE DEF r
<1>5. r \in Seq(S) /\ Len(r) = Len(a) + Len(b) /\ DOMAIN r = 1..Len(r)
  <2>1. a \in Seq(S) /\ b \in Seq(S)
    BY <1>2, <1>3
  <2>2. a \o b \in Seq(S) /\ Len(a \o b) = Len(a) + Len(b)
    BY ONLY <2>1
  <2> QED BY ONLY <1>4, <2>2
<1>6. DOMAIN r = 1..Len(q) - 1
  BY <1>1, <1>2, <1>3, <1>5
<1>7. ASSUME NEW k \in DOMAIN r
      PROVE  old[k] \in DOMAIN q \ {i} /\ r[k] = q[old[k]]
  <2>1. CASE k < i
    <3>1. k \in 1..Len(a) /\ r[k] = a[k]
      <4>1. k \in 1..Len(a) /\ a \in Seq(S) /\ b \in Seq(S)
        BY <1>1, <1>2, <1>3, <1>6, <2>1
      <4>2. (a \o b)[k] = a[k]
        BY ONLY <4>1
      <4> QED BY ONLY <1>4, <4>1, <4>2
    <3> QED BY <1>1, <1>2, <1>6, <2>1, <3>1
  <2>2. CASE ~(k < i)
    <3>1. k - Len(a) \in 1..Len(b) /\ k \in Nat
      BY <1>1, <1>2, <1>3, <1>6, <2>2
    <3>2. r[k] = b[k - Len(a)]
      <4>1. k \in 1..Len(a) + Len(b) /\ ~(k <= Len(a)) /\ a \in Seq(S) /\ b \in Seq(S)
        BY <1>1, <1>2, <1>3, <1>6, <2>2
      <4> QED BY ONLY <1>4, <4>1
    <3>3. i + (k - Len(a)) = k + 1 /\ k - Len(a) \in 1..Len(q) - i
      BY <1>1, <1>2, <1>3, <3>1
    <3>4. r[k] = q[k + 1]
      BY <1>3, <3>2, <3>3
    <3>5. old[k] = k + 1 /\ k + 1 \in DOMAIN q \ {i}
      BY <1>1, <1>6, <2>2
    <3> QED BY <3>4, <3>5
  <2> QED BY <2>1, <2>2
<1>8. \A k, l \in DOMAIN r : old[k] = old[l] => k = l
  BY <1>1, <1>6
<1> HIDE DEF old
<1>9. Elems(r) \subseteq Elems(q) /\ q[i] \in Elems(q) /\ q[i] \in S
  <2>1. \A k \in DOMAIN r : r[k] \in Elems(q)
    BY <1>7 DEF Elems
  <2>2. q[i] \in Elems(q) /\ q[i] \in S
    BY <1>1 DEF Elems
  <2> QED BY <2>1, <2>2 DEF Elems
<1>10. ASSUME Injective(q) PROVE Injective(r) /\ q[i] \notin Elems(r)
  <2>1. ASSUME NEW k \in DOMAIN r, NEW l \in DOMAIN r, r[k] = r[l] PROVE k = l
    <3>1. q[old[k]] = q[old[l]] /\ old[k] \in DOMAIN q /\ old[l] \in DOMAIN q
      BY <1>7, <2>1
    <3> QED BY <1>8, <1>10, <3>1 DEF Injective
  <2>2. \A k \in DOMAIN r : r[k] # q[i]
    BY <1>7, <1>10 DEF Injective
  <2> QED BY <2>1, <2>2 DEF Elems, Injective
<1> QED BY <1>5, <1>9, <1>10 DEF r

-----------------------------------------------------------------------------
(* Types                                                                   *)

LEMMA KindsAre ==
  /\ "connected" \in Kinds /\ "refused" \in Kinds /\ "written" \in Kinds
  /\ "write_error" \in Kinds /\ "read_error" \in Kinds /\ "timer" \in Kinds
BY DEF Kinds

\* The handlers that are ready.
LEMMA CompletedIs ==
  ASSUME Types, NEW k \in Kinds, Completed(k)
  PROVE  /\ ready' \in [Kinds -> Nat] /\ ready'[k] = ready[k] + 1 /\ ready'[k] > 0
         /\ \A j \in Kinds : ready[j] \in Nat
         /\ \A j \in Kinds \ {k} : ready'[j] = ready[j]
BY DEF Types, Completed

LEMMA TakenIs ==
  ASSUME Types, NEW k \in Kinds, Taken(k)
  PROVE  /\ ready' \in [Kinds -> Nat] /\ ready[k] > 0 /\ ready'[k] = ready[k] - 1
         /\ \A j \in Kinds : ready[j] \in Nat
         /\ \A j \in Kinds \ {k} : ready'[j] = ready[j]
BY DEF Types, Taken

LEMMA TimerIs ==
  ASSUME Types, RunTimer
  PROVE  /\ ready' \in [Kinds -> Nat] /\ ready["timer"] > 0
         /\ ready'["timer"] = ready["timer"] - 1
         /\ ready'["connected"] = ready["connected"]
         /\ ready'["written"] = ready["written"]
         /\ \A j \in Kinds : ready[j] \in Nat
         /\ read => ready'["read_error"] > 0
         /\ ~Outstanding => /\ \A k \in Kinds : ready'[k] = 0
                           /\ write = <<>> /\ ~read /\ ~timer
<1> DEFINE r == IF read THEN 1 ELSE 0
           c == IF socket = "connecting" THEN 1 ELSE 0
           n == Len(write)
<1>1. r \in Nat /\ c \in Nat /\ n \in Nat /\ (read => r = 1) /\ (~read => r = 0)
        /\ (socket # "connecting" => c = 0) /\ (write = <<>> => n = 0)
  BY DEF Types
<1>2. ready' = [ready EXCEPT !["timer"] = @ - 1, !["write_error"] = @ + n,
                             !["read_error"] = @ + r, !["refused"] = @ + c]
  BY DEF RunTimer
<1> HIDE DEF r, c, n
<1>3. ready \in [Kinds -> Nat] /\ ready["timer"] > 0
  BY DEF RunTimer, Types
<1>4. /\ ready' \in [Kinds -> Nat] /\ \A j \in Kinds : ready[j] \in Nat
      /\ ready'["timer"] = ready["timer"] - 1
      /\ ready'["write_error"] = ready["write_error"] + n
      /\ ready'["read_error"] = ready["read_error"] + r
      /\ ready'["refused"] = ready["refused"] + c
      /\ ready'["connected"] = ready["connected"]
      /\ ready'["written"] = ready["written"]
  <2>1. \A j \in Kinds : ready[j] \in Nat
    BY <1>3
  <2>2. /\ ready["timer"] - 1 \in Nat /\ ready["write_error"] + n \in Nat
        /\ ready["read_error"] + r \in Nat /\ ready["refused"] + c \in Nat
    BY <1>1, <1>3, <2>1, KindsAre
  <2> QED BY <1>2, <1>3, <2>1, <2>2, KindsAre
<1>5. read => ready'["read_error"] > 0
  BY <1>1, <1>4, KindsAre
<1>6. ASSUME ~Outstanding
      PROVE  (\A k \in Kinds : ready'[k] = 0) /\ write = <<>> /\ ~read /\ ~timer
  <2>1. /\ write = <<>> /\ ~read /\ ~timer /\ socket # "connecting" /\ ~(ready["timer"] > 1)
        /\ \A k \in Kinds \ {"timer"} : ~(ready[k] > 0)
    BY <1>6 DEF Outstanding
  <2>2. \A k \in Kinds \ {"timer"} : ready[k] = 0
    BY <1>4, <2>1
  <2>3. ready["timer"] = 1
    BY <1>3, <1>4, <2>1, KindsAre
  <2>4. n = 0 /\ r = 0 /\ c = 0
    BY <1>1, <2>1
  <2>5. /\ ready'["timer"] = 0 /\ ready'["write_error"] = 0 /\ ready'["read_error"] = 0
        /\ ready'["refused"] = 0 /\ ready'["connected"] = 0 /\ ready'["written"] = 0
    BY <1>4, <2>2, <2>3, <2>4, KindsAre
  <2> QED BY <2>1, <2>5 DEF Kinds
<1> QED BY <1>3, <1>4, <1>5, <1>6

LEMMA TypesStep == Types /\ [ClientNext]_clientVars => Types'
<1> SUFFICES ASSUME Types, [ClientNext]_clientVars PROVE Types'
  OBVIOUS
<1>1. CASE Command
  BY <1>1 DEF Types, Command, send_msg, Armed
<1>2. CASE Exit
  BY <1>2 DEF Types, Exit, channel
<1>3. CASE RunCallback
  BY <1>3 DEF Types, RunCallback, run_cmd
<1>4. CASE RunCommandTimer
  BY <1>4 DEF Types, RunCommandTimer, run_cmd, channel
<1>5. CASE message_handler
  BY <1>5 DEF Types, message_handler, run_cmd
<1>6. CASE CommandTimerExpires
  BY <1>6 DEF Types, CommandTimerExpires, channel
<1>7. CASE Answer
  <2>1. PICK i \in DOMAIN wire :
             /\ incoming' = Append(incoming, wire[i])
             /\ wire' = SubSeq(wire, 1, i - 1) \o SubSeq(wire, i + 1, Len(wire))
    BY <1>7 DEF Answer
  <2>2. wire \in Seq(Nat) /\ incoming \in Seq(Nat)
    BY DEF Types
  <2>3. wire' \in Seq(Nat) /\ wire[i] \in Nat
    <3>1. Without(wire, i) \in Seq(Nat) /\ wire[i] \in Nat
      BY ONLY <2>2, i \in DOMAIN wire, WithoutElems
    <3> QED BY <2>1, <3>1 DEF Without
  <2>4. incoming' \in Seq(Nat)
    <3>1. Append(incoming, wire[i]) \in Seq(Nat)
      BY ONLY <2>2, <2>3, AppendElems
    <3> QED BY <2>1, <3>1
  <2>5. UNCHANGED <<socket, hook, m_mq, posted, write, ready, callbacks, sent, client>>
    BY <1>7 DEF Answer
  <2> QED BY <2>3, <2>4, <2>5 DEF Types, client
<1>8. CASE Network /\ (Connects \/ Refuses \/ ReadFails \/ TimerExpires)
  <2>1. ready' \in [Kinds -> Nat]
    BY <1>8, CompletedIs, KindsAre DEF Connects, Refuses, ReadFails, TimerExpires
  <2> QED BY <1>8, <2>1, EmptyElems DEF Types, Network, client, Connects, Refuses, ReadFails, TimerExpires
<1>9. CASE Network /\ Breaks
  BY <1>9 DEF Types, Network, client, Breaks
<1>10. CASE Network /\ (WriteEnds \/ WriteFails)
  <2>1. ready' \in [Kinds -> Nat]
    BY <1>10, CompletedIs, KindsAre DEF WriteEnds, WriteFails
  <2>2. write' \in Seq(Nat) /\ wire' \in Seq(Nat) /\ sent' \in Seq(Nat)
    <3>1. wire \in Seq(Nat) /\ sent \in Seq(Nat) /\ write \in Seq(Nat) /\ write # <<>>
      BY <1>10 DEF Types, WriteEnds, WriteFails
    <3>2. Tail(write) \in Seq(Nat) /\ Head(write) \in Nat
      BY ONLY <3>1, TailElems
    <3>3. Append(wire, Head(write)) \in Seq(Nat) /\ Append(sent, Head(write)) \in Seq(Nat)
      BY ONLY <3>1, <3>2, AppendElems
    <3> QED BY <1>10, <3>1, <3>2, <3>3 DEF WriteEnds, WriteFails
  <2> QED BY <1>10, <2>1, <2>2 DEF Types, Network, client, WriteEnds, WriteFails
<1>11. CASE ChannelHandler /\ RunSend
  <2>1. m_mq' \in Seq(Nat) /\ posted' \in Seq(Nat) /\ m_mq' # <<>>
    <3>1. m_mq \in Seq(Nat) /\ posted \in Seq(Nat) /\ posted # <<>>
      BY <1>11 DEF Types, RunSend
    <3>2. Tail(posted) \in Seq(Nat) /\ Head(posted) \in Nat
      BY ONLY <3>1, TailElems
    <3>3. Append(m_mq, Head(posted)) \in Seq(Nat) /\ Append(m_mq, Head(posted)) # <<>>
      BY ONLY <3>1, <3>2, AppendElems
    <3> QED BY <1>11, <3>2, <3>3 DEF RunSend
  <2>2. write' \in Seq(Nat)
    <3>1. write \in Seq(Nat)
      BY DEF Types
    <3>2. Head(m_mq') \in Nat
      BY ONLY <2>1, TailElems
    <3>3. Append(write, Head(m_mq')) \in Seq(Nat)
      BY ONLY <3>1, <3>2, AppendElems
    <3> QED BY <1>11, <3>1, <3>3 DEF RunSend, do_send
  <2> QED BY <1>11, <2>1, <2>2 DEF Types, ChannelHandler, client, RunSend
<1>12. CASE ChannelHandler /\ RunWritten
  <2>1. ready' \in [Kinds -> Nat]
    BY <1>12, TakenIs, KindsAre DEF RunWritten
  <2>2. m_mq' \in Seq(Nat)
    <3>1. m_mq \in Seq(Nat) /\ (m_mq # <<>> => Tail(m_mq) \in Seq(Nat))
      BY TailElems DEF Types
    <3> QED BY <1>12, <3>1 DEF RunWritten, AfterWrite
  <2>3. write' \in Seq(Nat)
    <3>1. write \in Seq(Nat)
      BY DEF Types
    <3>2. m_mq' # <<>> => Head(m_mq') \in Nat
      BY ONLY <2>2, TailElems
    <3>3. m_mq' # <<>> => Append(write, Head(m_mq')) \in Seq(Nat)
      BY ONLY <3>1, <3>2, AppendElems
    <3> QED BY <1>12, <3>1, <3>3 DEF RunWritten, do_send
  <2> QED BY <1>12, <2>1, <2>2, <2>3 DEF Types, ChannelHandler, client, RunWritten
<1>13. CASE ChannelHandler /\ (RunWriteFailed \/ RunReadFailed \/ RunRefused)
  <2>1. ready' \in [Kinds -> Nat]
    BY <1>13, TakenIs, KindsAre DEF RunWriteFailed, RunReadFailed, RunRefused
  <2> QED BY <1>13, <2>1 DEF Types, ChannelHandler, client, RunWriteFailed, RunReadFailed,
                             RunRefused
<1>14. CASE ChannelHandler /\ RunConnected
  <2>1. ready' \in [Kinds -> Nat]
    BY <1>14, TakenIs, KindsAre DEF RunConnected
  <2>2. callbacks' \in Seq({"owner", "reconnect"})
    BY <1>14 DEF Types, RunConnected
  <2> QED BY <1>14, <2>1, <2>2 DEF Types, ChannelHandler, client, RunConnected
<1>15. CASE ChannelHandler /\ RunTimer
  <2>1. ready' \in [Kinds -> Nat]
    BY <1>15, TimerIs
  <2> QED BY <1>15, <2>1, EmptyElems DEF Types, ChannelHandler, client, RunTimer
<1>16. CASE UNCHANGED clientVars
  BY <1>16 DEF Types, clientVars, channel, client
<1> QED BY <1>1, <1>2, <1>3, <1>4, <1>5, <1>6, <1>7, <1>8, <1>9, <1>10, <1>11, <1>12, <1>13,
           <1>14, <1>15, <1>16
        DEF ClientNext, Work, Network, Progress, ChannelHandler, Handlers

-----------------------------------------------------------------------------
(* The operations of a connection                                          *)

\* The steps of the client and of the coordinator, which leave the operations
\* of the channel alone; and those of the channel, which leave the client alone.
OwnerStep ==
  \/ Command \/ Exit \/ RunCallback \/ RunCommandTimer \/ message_handler
  \/ CommandTimerExpires \/ Answer \/ UNCHANGED clientVars

ChannelStep == UNCHANGED client /\ (Progress \/ Breaks \/ TimerExpires \/ Handlers)

LEMMA TwoKinds == [ClientNext]_clientVars => OwnerStep \/ ChannelStep
BY DEF ClientNext, Work, Network, ChannelHandler, OwnerStep, ChannelStep

LEMMA OwnerLeaves ==
  OwnerStep => UNCHANGED <<socket, hook, m_mq, write, read, ready, timer, sent, undefined, late>>
BY DEF OwnerStep, Command, Exit, RunCallback, RunCommandTimer, message_handler,
       CommandTimerExpires, Answer, clientVars, channel

LEMMA WatchedStep ==
  ASSUME Types, Watched, [ClientNext]_clientVars
  PROVE  Watched'
<1>1. CASE OwnerStep
  BY <1>1, OwnerLeaves DEF Watched
<1>2. CASE Connects
  BY <1>2, CompletedIs, KindsAre DEF Connects, Watched
<1>3. CASE Refuses
  BY <1>3, CompletedIs, KindsAre DEF Refuses, Watched
<1>4. CASE Breaks
  BY <1>4 DEF Breaks, Watched
<1>5. CASE WriteEnds
  BY <1>5, CompletedIs, KindsAre DEF WriteEnds, Watched
<1>6. CASE WriteFails
  BY <1>6, CompletedIs, KindsAre DEF WriteFails, Watched
<1>7. CASE ReadFails
  BY <1>7, CompletedIs, KindsAre DEF ReadFails, Watched
<1>8. CASE TimerExpires
  BY <1>8, CompletedIs, KindsAre DEF TimerExpires, Watched
<1>9. CASE RunSend
  BY <1>9 DEF RunSend, Watched
<1>10. CASE RunWritten
  BY <1>10, TakenIs, KindsAre DEF RunWritten, Watched
<1>11. CASE RunWriteFailed \/ RunReadFailed \/ RunRefused
  <2>1. timer' /\ socket' = socket /\ (read' <=> read)
    BY <1>11 DEF RunWriteFailed, RunReadFailed, RunRefused, reconnect
  <2>2. ready'["connected"] = ready["connected"]
    BY <1>11, TakenIs, KindsAre DEF RunWriteFailed, RunReadFailed, RunRefused
  <2> QED BY <2>1, <2>2 DEF Watched
<1>12. CASE RunConnected
  BY <1>12 DEF RunConnected, Watched
<1>13. CASE RunTimer
  BY <1>13 DEF RunTimer, Watched
<1> QED BY <1>1, <1>2, <1>3, <1>4, <1>5, <1>6, <1>7, <1>8, <1>9, <1>10, <1>11, <1>12, <1>13,
           TwoKinds DEF ChannelStep, Progress, Handlers

\* What Operations says of the writes, apart from the rest.
OneWrite ==
  /\ Writes <= 1
  /\ Writes = 1 => m_mq # <<>>
  /\ ~undefined

Clean ==
  /\ socket = "connecting" => ~timer /\ ~read /\ \A k \in Kinds : ready[k] = 0
  /\ socket = "open" => ~timer /\ \A k \in Kinds \ {"connected", "written"} : ready[k] = 0

LEMMA OperationsAre == Operations <=> OneWrite /\ Clean
BY DEF Operations, OneWrite, Clean

LEMMA WritesType ==
  ASSUME Types
  PROVE  /\ Len(write) \in Nat /\ ready["written"] \in Nat /\ ready["write_error"] \in Nat
         /\ Writes \in Nat /\ (write # <<>> => Len(write) > 0)
         /\ write \in Seq(Nat) /\ m_mq \in Seq(Nat) /\ posted \in Seq(Nat)
<1>1. Len(write) \in Nat /\ (write # <<>> => Len(write) > 0) /\ ready \in [Kinds -> Nat]
  BY DEF Types
<1>2. ready["written"] \in Nat /\ ready["write_error"] \in Nat
  BY <1>1, KindsAre
<1> QED BY <1>1, <1>2, SMTT(30) DEF Writes, Types

\* A step that neither begins a write nor handles the end of one.
LEMMA SameWrites ==
  ASSUME OneWrite, write' = write, m_mq' = m_mq, undefined' = undefined,
         ready'["written"] = ready["written"], ready'["write_error"] = ready["write_error"]
  PROVE  OneWrite'
BY DEF OneWrite, Writes

LEMMA OneWriteStep ==
  ASSUME Types, Types', Operations, [ClientNext]_clientVars, ~late'
  PROVE  OneWrite'
<1>0. OneWrite
  BY OperationsAre
<1>a. /\ Len(write) \in Nat /\ ready["written"] \in Nat /\ ready["write_error"] \in Nat
      /\ (write # <<>> => Len(write) > 0)
      /\ write \in Seq(Nat) /\ m_mq \in Seq(Nat) /\ posted \in Seq(Nat)
  BY WritesType
<1>b. Len(write) \in Nat /\ ready["written"] \in Nat /\ ready["write_error"] \in Nat
  BY <1>a
<1>1. CASE OwnerStep
  BY <1>0, <1>1, OwnerLeaves, SameWrites
<1>2. CASE Connects
  BY <1>0, <1>2, CompletedIs, KindsAre, SameWrites DEF Connects
<1>3. CASE Refuses
  BY <1>0, <1>3, CompletedIs, KindsAre, SameWrites DEF Refuses
<1>4. CASE Breaks
  BY <1>0, <1>4, SameWrites DEF Breaks
<1>5. CASE WriteEnds
  <2>1. write # <<>> /\ write' = Tail(write) /\ m_mq' = m_mq /\ undefined' = undefined
    BY <1>5 DEF WriteEnds
  <2>2. Len(write') = Len(write) - 1
    BY <1>a, <2>1, TailElems
  <2>3. /\ ready'["written"] = ready["written"] + 1
        /\ ready'["write_error"] = ready["write_error"]
    BY <1>5, CompletedIs, KindsAre DEF WriteEnds
  <2>4. Writes' = Writes
    BY <1>a, <2>2, <2>3 DEF Writes
  <2> QED BY <1>0, <2>1, <2>4 DEF OneWrite
<1>6. CASE WriteFails
  <2>1. write # <<>> /\ write' = Tail(write) /\ m_mq' = m_mq /\ undefined' = undefined
    BY <1>6 DEF WriteFails
  <2>2. Len(write') = Len(write) - 1
    BY <1>a, <2>1, TailElems
  <2>3. /\ ready'["written"] = ready["written"]
        /\ ready'["write_error"] = ready["write_error"] + 1
    BY <1>6, CompletedIs, KindsAre DEF WriteFails
  <2>4. Writes' = Writes
    BY ONLY <1>b, <2>2, <2>3 DEF Writes
  <2> QED BY <1>0, <2>1, <2>4 DEF OneWrite
<1>7. CASE ReadFails
  BY <1>0, <1>7, CompletedIs, KindsAre, SameWrites DEF ReadFails
<1>8. CASE TimerExpires
  BY <1>0, <1>8, CompletedIs, KindsAre, SameWrites DEF TimerExpires
<1>9. CASE RunSend
  <2>1. posted # <<>> /\ m_mq' = Append(m_mq, Head(posted)) /\ undefined' = undefined
          /\ ready' = ready
    BY <1>9 DEF RunSend
  <2>2. m_mq' # <<>>
    <3>1. Head(posted) \in Nat
      BY <1>a, <2>1, TailElems
    <3> QED BY <1>a, <2>1, <3>1, AppendElems
  <2>3. CASE m_mq = <<>>
    <3>1. Writes = 0
      BY <1>0, <2>3, WritesType DEF OneWrite
    <3>2. write' = Append(write, Head(m_mq')) /\ m_mq' \in Seq(Nat)
      BY <1>9, <2>3 DEF RunSend, MayWrite, do_send, Types
    <3>3. Head(m_mq') \in Nat
      BY <2>2, <3>2, TailElems
    <3>4. Len(write') = Len(write) + 1
      BY <1>a, <3>2, <3>3, AppendElems
    <3>5. Writes' = 1
      <4>1. ready'["written"] = ready["written"] /\ ready'["write_error"] = ready["write_error"]
        BY <2>1
      <4> QED BY ONLY <1>b, <3>1, <3>4, <4>1 DEF Writes
    <3> QED BY <1>0, <2>1, <2>2, <3>5 DEF OneWrite
  <2>4. CASE m_mq # <<>>
    <3>1. write' = write
      BY <1>9, <2>4 DEF RunSend, MayWrite
    <3>2. Writes' = Writes
      BY <2>1, <3>1 DEF Writes
    <3> QED BY <1>0, <2>1, <2>2, <3>2 DEF OneWrite
  <2> QED BY <2>3, <2>4
<1>10. CASE RunWritten
  <2>1. /\ ready["written"] > 0 /\ ready'["written"] = ready["written"] - 1
        /\ ready'["write_error"] = ready["write_error"]
    BY <1>10, TakenIs, KindsAre DEF RunWritten
  <2>2. Writes = 1 /\ Len(write) = 0 /\ ready["written"] = 1 /\ ready["write_error"] = 0
    BY <1>0, <1>a, <2>1 DEF OneWrite, Writes
  <2>3. m_mq # <<>> /\ undefined' = undefined
    BY <1>0, <1>10, <2>2 DEF OneWrite, RunWritten
  <2>4. CASE m_mq' # <<>>
    <3>1. write' = Append(write, Head(m_mq')) /\ m_mq' \in Seq(Nat)
      BY <1>10, <2>3, <2>4 DEF RunWritten, do_send, Types
    <3>2. Head(m_mq') \in Nat
      BY <2>4, <3>1, TailElems
    <3>3. Len(write') = 1
      BY <1>a, <2>2, <3>1, <3>2, AppendElems
    <3>4. Writes' = 1
      BY <2>1, <2>2, <3>3 DEF Writes
    <3> QED BY <1>0, <2>3, <2>4, <3>4 DEF OneWrite
  <2>5. CASE m_mq' = <<>>
    <3>1. write' = write
      BY <1>10, <2>3, <2>5 DEF RunWritten
    <3>2. Writes' = 0
      BY <2>1, <2>2, <3>1 DEF Writes
    <3> QED BY <1>0, <2>3, <3>2 DEF OneWrite
  <2> QED BY <2>4, <2>5
<1>11. CASE RunWriteFailed
  <2>1. /\ ready'["written"] = ready["written"] /\ ready["write_error"] > 0
        /\ ready'["write_error"] = ready["write_error"] - 1
    BY <1>11, TakenIs, KindsAre DEF RunWriteFailed
  <2>2. write' = write /\ undefined' = undefined
    BY <1>11 DEF RunWriteFailed
  <2>3. Writes' = 0
    BY <1>0, <1>a, <2>1, <2>2 DEF OneWrite, Writes
  <2> QED BY <1>0, <2>2, <2>3 DEF OneWrite
<1>12. CASE RunReadFailed
  BY <1>0, <1>12, TakenIs, KindsAre, SameWrites DEF RunReadFailed
<1>13. CASE RunRefused
  BY <1>0, <1>13, TakenIs, KindsAre, SameWrites DEF RunRefused
<1>14. CASE RunConnected
  BY <1>0, <1>14, TakenIs, KindsAre, SameWrites DEF RunConnected
<1>15. CASE RunTimer
  <2>1. ~Outstanding /\ write' = <<>> /\ undefined' = undefined
    BY <1>15 DEF RunTimer
  <2>2. ready'["written"] = 0 /\ ready'["write_error"] = 0
    BY <1>15, <2>1, TimerIs, KindsAre
  <2>3. Writes' = 0
    BY <2>1, <2>2 DEF Writes
  <2> QED BY <1>0, <2>1, <2>3 DEF OneWrite
<1> QED BY <1>1, <1>2, <1>3, <1>4, <1>5, <1>6, <1>7, <1>8, <1>9, <1>10, <1>11, <1>12, <1>13,
           <1>14, <1>15, TwoKinds DEF ChannelStep, Progress, Handlers

LEMMA CleanStep ==
  ASSUME Types, Operations, [ClientNext]_clientVars, ~late'
  PROVE  Clean'
<1>0. Clean /\ socket \in {"connecting", "open", "broken"}
  BY OperationsAre DEF Types
<1>1. CASE OwnerStep
  BY <1>0, <1>1, OwnerLeaves DEF Clean
<1>2. CASE Connects
  BY <1>0, <1>2, CompletedIs, KindsAre DEF Connects, Clean
<1>3. CASE Refuses \/ Breaks
  BY <1>3 DEF Refuses, Breaks, Clean
<1>4. CASE WriteEnds
  BY <1>0, <1>4, CompletedIs, KindsAre DEF WriteEnds, Clean
<1>5. CASE WriteFails \/ ReadFails
  BY <1>5 DEF WriteFails, ReadFails, Clean
<1>6. CASE TimerExpires
  BY <1>0, <1>6 DEF TimerExpires, Clean
<1>7. CASE RunSend
  BY <1>0, <1>7 DEF RunSend, Clean
<1>8. CASE RunWritten
  BY <1>0, <1>8, TakenIs, KindsAre DEF RunWritten, Clean
<1>9. CASE RunWriteFailed
  <2>1. socket = "broken"
    BY <1>0, <1>9, TakenIs, KindsAre DEF RunWriteFailed, Clean
  <2> QED BY <1>9, <2>1 DEF RunWriteFailed, Clean
<1>10. CASE RunReadFailed
  <2>1. socket = "broken"
    BY <1>0, <1>10, TakenIs, KindsAre DEF RunReadFailed, Clean
  <2> QED BY <1>10, <2>1 DEF RunReadFailed, Clean
<1>11. CASE RunRefused
  <2>1. socket = "broken"
    BY <1>0, <1>11, TakenIs, KindsAre DEF RunRefused, Clean
  <2> QED BY <1>11, <2>1 DEF RunRefused, Clean
<1>12. CASE RunConnected
  <2>1. socket # "connecting"
    BY <1>0, <1>12, TakenIs, KindsAre DEF RunConnected, Clean
  <2> QED BY <1>0, <1>12, <2>1, TakenIs, KindsAre DEF RunConnected, Clean
<1>13. CASE RunTimer
  <2>1. ~Outstanding /\ socket' = "connecting" /\ ~read' /\ timer' = timer
    BY <1>13 DEF RunTimer
  <2> QED BY <1>13, <2>1, TimerIs DEF Clean
<1> QED BY <1>1, <1>2, <1>3, <1>4, <1>5, <1>6, <1>7, <1>8, <1>9, <1>10, <1>11, <1>12, <1>13,
           TwoKinds DEF ChannelStep, Progress, Handlers

LEMMA OperationsStep ==
  ASSUME Types, Types', late \/ Operations, [ClientNext]_clientVars
  PROVE  late' \/ Operations'
<1>1. late => late'
  <2>1. CASE OwnerStep
    BY <2>1, OwnerLeaves
  <2>2. CASE RunTimer
    BY <2>2 DEF RunTimer
  <2>3. CASE Progress \/ Breaks \/ TimerExpires \/ (Handlers /\ ~RunTimer)
    BY <2>3 DEF Progress, Connects, Refuses, WriteEnds, WriteFails, ReadFails, Breaks,
         TimerExpires, Handlers, RunSend, RunWritten, RunWriteFailed, RunReadFailed,
         RunConnected, RunRefused
  <2> QED BY <2>1, <2>2, <2>3, TwoKinds DEF ChannelStep
<1>2. ASSUME Operations, ~late' PROVE Operations'
  <2>1. OneWrite' /\ Clean'
    BY <1>2, OneWriteStep, CleanStep
  <2> QED BY <2>1 DEF Operations, OneWrite, Clean
<1> QED BY <1>1, <1>2

-----------------------------------------------------------------------------
(* The order of the messages                                               *)

LEMMA LineTyped ==
  ASSUME NEW s \in Seq(Nat), NEW w \in Seq(Nat), NEW m \in Seq(Nat), NEW p \in Seq(Nat),
         NEW n \in Nat, InLine(s, w, m, p, n)
  PROVE  InLine(s, w, m, Append(p, n + 1), n + 1)
<1> DEFINE r == Append(p, n + 1)
<1>1. Elems(r) = Elems(p) \cup {n + 1}
  <2>1. n + 1 \in Nat
    OBVIOUS
  <2> QED BY ONLY p \in Seq(Nat), <2>1, AppendElems
<1>2. \A x \in Elems(s) \cup Elems(w) \cup Elems(m) \cup Elems(p) : x \in 1..n
  BY DEF InLine
<1>3. \A x \in Elems(s) \cup Elems(w) \cup Elems(m) \cup Elems(p) : x < n + 1 /\ x \in 1..n + 1
  BY <1>2
<1>4. Increasing(r)
  <2>1. \A y \in Elems(p) : y < n + 1
    BY <1>3
  <2>2. Increasing(p) /\ n + 1 \in Nat
    BY DEF InLine
  <2> QED BY ONLY p \in Seq(Nat), <2>1, <2>2, AppendIncreasing
<1> HIDE DEF r
<1>5. \A x \in Elems(s) \cup Elems(w) \cup Elems(m), y \in Elems(r) : x < y
  BY <1>1, <1>3 DEF InLine
<1>6. \A x \in Elems(s) \cup Elems(w) \cup Elems(m) \cup Elems(r) : x \in 1..n + 1
  BY <1>1, <1>3
<1>7. InLine(s, w, m, r, n + 1)
  BY <1>4, <1>5, <1>6 DEF InLine
<1> QED BY <1>7 DEF r

LEMMA LineQueued ==
  ASSUME NEW s \in Seq(Nat), NEW w \in Seq(Nat), NEW m \in Seq(Nat), NEW p \in Seq(Nat),
         NEW n \in Nat, InLine(s, w, m, p, n), p # <<>>
  PROVE  /\ InLine(s, w, Append(m, Head(p)), Tail(p), n)
         /\ m = <<>> => InLine(s, Append(w, Head(p)), Append(m, Head(p)), Tail(p), n)
<1> DEFINE h == Head(p)
           r == Tail(p)
           l == Append(m, h)
           v == Append(w, h)
<1>1. /\ h \in Nat /\ r \in Seq(Nat) /\ h \in Elems(p) /\ Elems(p) = {h} \cup Elems(r)
      /\ Increasing(p) => Increasing(r) /\ \A y \in Elems(r) : h < y
  BY TailElems
<1>2. Elems(l) = Elems(m) \cup {h} /\ Elems(v) = Elems(w) \cup {h}
  BY <1>1, AppendElems
<1>3. /\ \A x \in Elems(s) \cup Elems(w) \cup Elems(m) : x < h
      /\ Increasing(m) /\ Increasing(w) /\ Increasing(p) /\ Increasing(s)
  BY <1>1 DEF InLine
<1>4. Increasing(l) /\ Increasing(v)
  <2>1. h \in Nat /\ (\A x \in Elems(m) : x < h) /\ (\A x \in Elems(w) : x < h)
    BY <1>1, <1>3
  <2> QED BY ONLY m \in Seq(Nat), w \in Seq(Nat), <1>3, <2>1, AppendIncreasing
<1> HIDE DEF h, r, l, v
<1>5. \A x \in Elems(s) \cup Elems(w) \cup Elems(m) \cup Elems(p) : x \in 1..n
  BY DEF InLine
<1>6. \A x \in Elems(s) \cup Elems(w) : x <= h
  <2>1. \A x \in Elems(s) \cup Elems(w) : x < h /\ x \in Nat
    BY <1>3, <1>5
  <2> QED BY <1>1, <2>1
<1>7. \A x \in Elems(s) \cup Elems(w) \cup Elems(l), y \in Elems(r) : x < y
  BY <1>1, <1>2, <1>3 DEF InLine
<1>8. InLine(s, w, l, r, n)
  <2>1. \A x \in Elems(s) \cup Elems(w), y \in Elems(l) : x <= y
    BY <1>2, <1>6 DEF InLine
  <2>2. \A x \in Elems(s) \cup Elems(w) \cup Elems(l) \cup Elems(r) : x \in 1..n
    BY <1>1, <1>2, <1>5
  <2> QED BY <1>1, <1>3, <1>4, <1>7, <2>1, <2>2 DEF InLine
<1>9. ASSUME m = <<>> PROVE InLine(s, v, l, r, n)
  <2>1. Elems(l) = {h}
    BY <1>2, <1>9, EmptyElems
  <2>2. \A x \in Elems(s), y \in Elems(v) : x < y
    BY <1>2, <1>3 DEF InLine
  <2>3. \A x \in Elems(s) \cup Elems(v), y \in Elems(l) : x <= y
    BY <1>1, <1>2, <1>6, <2>1
  <2>4. \A x \in Elems(s) \cup Elems(v) \cup Elems(l), y \in Elems(r) : x < y
    BY <1>1, <1>2, <1>7
  <2>5. \A x \in Elems(s) \cup Elems(v) \cup Elems(l) \cup Elems(r) : x \in 1..n
    BY <1>1, <1>2, <1>5
  <2> QED BY <1>1, <1>3, <1>4, <2>2, <2>3, <2>4, <2>5 DEF InLine
<1> QED BY <1>8, <1>9 DEF h, r, l, v

LEMMA LineWritten ==
  ASSUME NEW s \in Seq(Nat), NEW w \in Seq(Nat), NEW m \in Seq(Nat), NEW p \in Seq(Nat),
         NEW n \in Nat, InLine(s, w, m, p, n), m # <<>>
  PROVE  /\ InLine(s, w, Tail(m), p, n)
         /\ Tail(m) # <<>> => InLine(s, Append(w, Head(Tail(m))), Tail(m), p, n)
<1> DEFINE h == Head(m)
           r == Tail(m)
<1>1. /\ h \in Nat /\ r \in Seq(Nat) /\ h \in Elems(m) /\ Elems(m) = {h} \cup Elems(r)
      /\ Increasing(m) => Increasing(r) /\ \A y \in Elems(r) : h < y
  BY TailElems
<1> HIDE DEF h, r
<1>2. \A x \in Elems(s) \cup Elems(w) \cup Elems(m) \cup Elems(p) : x \in 1..n
  BY DEF InLine
<1>3. InLine(s, w, r, p, n)
  BY <1>1 DEF InLine
<1>4. ASSUME r # <<>> PROVE InLine(s, Append(w, Head(r)), r, p, n)
  <2> DEFINE g == Head(r)
             v == Append(w, g)
  <2>1. /\ g \in Nat /\ g \in Elems(r) /\ Elems(r) = {g} \cup Elems(Tail(r))
        /\ Increasing(r) => \A y \in Elems(Tail(r)) : g < y
    BY <1>1, <1>4, TailElems
  <2> HIDE DEF g
  <2>2. Elems(v) = Elems(w) \cup {g}
    <3>1. g \in Nat
      BY <2>1
    <3> QED BY ONLY w \in Seq(Nat), <3>1, AppendAdds
  <2>3. \A x \in Elems(s) \cup Elems(w) : x < g
    <3>1. \A x \in Elems(s) \cup Elems(w) : x <= h /\ x \in Nat
      <4>1. \A x \in Elems(s) \cup Elems(w) : x \in Nat
        BY <1>2
      <4>2. \A x \in Elems(s) \cup Elems(w) : x <= h
        BY <1>1 DEF InLine
      <4> QED BY <4>1, <4>2
    <3>2. h < g
      BY <1>1, <2>1 DEF InLine
    <3> QED BY <1>1, <2>1, <3>1, <3>2
  <2>4. Increasing(v)
    <3>1. Increasing(w) /\ \A x \in Elems(w) : x < g
      BY <2>3 DEF InLine
    <3> QED BY ONLY w \in Seq(Nat), <2>1, <3>1, AppendIncreasing
  <2> HIDE DEF v
  <2>5. \A x \in Elems(s), y \in Elems(v) : x < y
    BY <2>2, <2>3 DEF InLine
  <2>6. \A y \in Elems(r) : g <= y
    <3>1. \A y \in Elems(Tail(r)) : g < y /\ y \in Nat
      BY <1>1, <1>2, <2>1 DEF InLine
    <3> QED BY <2>1, <3>1
  <2>7. \A x \in Elems(s) \cup Elems(v), y \in Elems(r) : x <= y
    BY <1>3, <2>2, <2>6 DEF InLine
  <2>8. \A x \in Elems(s) \cup Elems(v) \cup Elems(r), y \in Elems(p) : x < y
    BY <1>3, <2>1, <2>2 DEF InLine
  <2>9. \A x \in Elems(s) \cup Elems(v) \cup Elems(r) \cup Elems(p) : x \in 1..n
    BY <1>1, <1>2, <2>1, <2>2
  <2>10. InLine(s, v, r, p, n)
    BY <1>3, <2>4, <2>5, <2>7, <2>8, <2>9 DEF InLine
  <2> QED BY <2>10 DEF v, g
<1> QED BY <1>3, <1>4 DEF r

LEMMA LineSent ==
  ASSUME NEW s \in Seq(Nat), NEW w \in Seq(Nat), NEW m \in Seq(Nat), NEW p \in Seq(Nat),
         NEW n \in Nat, InLine(s, w, m, p, n), w # <<>>
  PROVE  InLine(s, Tail(w), m, p, n) /\ InLine(Append(s, Head(w)), Tail(w), m, p, n)
<1> DEFINE h == Head(w)
           r == Tail(w)
           v == Append(s, h)
<1>1. /\ h \in Nat /\ r \in Seq(Nat) /\ h \in Elems(w) /\ Elems(w) = {h} \cup Elems(r)
      /\ Increasing(w) => Increasing(r) /\ \A y \in Elems(r) : h < y
  BY TailElems
<1>2. Elems(v) = Elems(s) \cup {h}
  BY <1>1, AppendElems
<1>3. Increasing(v)
  <2>1. Increasing(s) /\ h \in Nat /\ \A x \in Elems(s) : x < h
    BY <1>1 DEF InLine
  <2> QED BY ONLY s \in Seq(Nat), <2>1, AppendIncreasing
<1> HIDE DEF h, r, v
<1>4. InLine(s, r, m, p, n)
  BY <1>1 DEF InLine
<1>5. InLine(v, r, m, p, n)
  BY <1>1, <1>2, <1>3 DEF InLine
<1> QED BY <1>4, <1>5 DEF h, r, v

LEMMA OrderedStep ==
  ASSUME Types, Ordered, [ClientNext]_clientVars
  PROVE  Ordered'
<1>0. /\ sent \in Seq(Nat) /\ write \in Seq(Nat) /\ m_mq \in Seq(Nat) /\ posted \in Seq(Nat)
      /\ issued \in Nat /\ InLine(sent, write, m_mq, posted, issued)
  BY DEF Types, Ordered
<1>1. CASE Command
  <2>1. /\ posted' = Append(posted, issued + 1) /\ issued' = issued + 1
        /\ sent' = sent /\ write' = write /\ m_mq' = m_mq
    BY <1>1 DEF Command, send_msg
  <2>2. InLine(sent, write, m_mq, Append(posted, issued + 1), issued + 1)
    BY ONLY <1>0, LineTyped
  <2> QED BY <2>1, <2>2 DEF Ordered
<1>2. CASE OwnerStep /\ ~Command
  <2>1. UNCHANGED <<sent, write, m_mq, posted, issued>>
    BY <1>2 DEF OwnerStep, Exit, RunCallback, RunCommandTimer, message_handler,
         CommandTimerExpires, Answer, clientVars, channel, client
  <2> QED BY <1>0, <2>1 DEF Ordered
<1>3. CASE ChannelStep /\ (Connects \/ Refuses \/ ReadFails \/ Breaks \/ TimerExpires \/
             RunWriteFailed \/ RunReadFailed \/ RunConnected \/ RunRefused)
  <2>1. UNCHANGED <<sent, write, m_mq, posted, issued>>
    BY <1>3 DEF ChannelStep, client, Connects, Refuses, ReadFails, Breaks, TimerExpires,
         RunWriteFailed, RunReadFailed, RunConnected, RunRefused
  <2> QED BY <1>0, <2>1 DEF Ordered
<1>4. CASE ChannelStep /\ (WriteEnds \/ WriteFails)
  <2>1. /\ write # <<>> /\ write' = Tail(write) /\ m_mq' = m_mq /\ posted' = posted
        /\ issued' = issued /\ (sent' = sent \/ sent' = Append(sent, Head(write)))
    BY <1>4 DEF ChannelStep, client, WriteEnds, WriteFails
  <2>2. write # <<>>
    BY <2>1
  <2>3. /\ InLine(sent, Tail(write), m_mq, posted, issued)
        /\ InLine(Append(sent, Head(write)), Tail(write), m_mq, posted, issued)
    BY ONLY <1>0, <2>2, LineSent
  <2> QED BY <2>1, <2>3 DEF Ordered
<1>5. CASE ChannelStep /\ RunSend
  <2>1. /\ posted' = Tail(posted) /\ m_mq' = Append(m_mq, Head(posted))
        /\ issued' = issued /\ sent' = sent
    BY <1>5 DEF ChannelStep, client, RunSend
  <2>2. posted # <<>>
    BY <1>5 DEF RunSend
  <2>3. /\ InLine(sent, write, Append(m_mq, Head(posted)), Tail(posted), issued)
        /\ m_mq = <<>> => InLine(sent, Append(write, Head(posted)), Append(m_mq, Head(posted)),
                                 Tail(posted), issued)
    BY ONLY <1>0, <2>2, LineQueued
  <2>4. CASE m_mq # <<>>
    <3>1. write' = write
      BY <1>5, <2>4 DEF RunSend, MayWrite
    <3> QED BY <2>1, <2>3, <3>1 DEF Ordered
  <2>5. CASE m_mq = <<>>
    <3>1. write' = Append(write, Head(m_mq'))
      BY <1>5, <2>5 DEF RunSend, MayWrite, do_send
    <3>2. Head(m_mq') = Head(posted)
      <4>1. Head(posted) \in Nat
        BY ONLY <1>0, <2>2, TailElems
      <4> QED BY <2>1, <2>5, <4>1
    <3> QED BY <2>1, <2>3, <2>5, <3>1, <3>2 DEF Ordered
  <2> QED BY <2>4, <2>5
<1>6. CASE ChannelStep /\ RunWritten
  <2>1. posted' = posted /\ issued' = issued /\ sent' = sent
    BY <1>6 DEF ChannelStep, client, RunWritten
  <2>2. CASE m_mq = <<>>
    <3>1. m_mq' = m_mq /\ write' = write
      BY <1>6, <2>2 DEF RunWritten
    <3> QED BY <1>0, <2>1, <3>1 DEF Ordered
  <2>3. CASE m_mq # <<>>
    <3>1. /\ InLine(sent, write, Tail(m_mq), posted, issued)
          /\ Tail(m_mq) # <<>> =>
               InLine(sent, Append(write, Head(Tail(m_mq))), Tail(m_mq), posted, issued)
      BY ONLY <1>0, <2>3, LineWritten
    <3>2. /\ m_mq' = Tail(m_mq)
          /\ IF Tail(m_mq) # <<>> THEN write' = Append(write, Head(Tail(m_mq)))
             ELSE write' = write
      BY <1>6, <2>3 DEF RunWritten, AfterWrite, do_send
    <3> QED BY <2>1, <3>1, <3>2 DEF Ordered
  <2> QED BY <2>2, <2>3
<1>7. CASE ChannelStep /\ RunTimer
  <2>1. write' = <<>> /\ m_mq' = <<>> /\ posted' = posted /\ issued' = issued /\ sent' = sent
    BY <1>7 DEF ChannelStep, client, RunTimer
  <2>2. InLine(sent, <<>>, <<>>, posted, issued)
    BY <1>0, EmptyElems DEF InLine
  <2> QED BY <2>1, <2>2 DEF Ordered
<1> QED BY <1>1, <1>2, <1>3, <1>4, <1>5, <1>6, <1>7, TwoKinds
        DEF OwnerStep, ChannelStep, Progress, Handlers

-----------------------------------------------------------------------------
(* Answers and prompts                                                     *)

LEMMA ApartStep ==
  ASSUME Types, Ordered, Apart, [ClientNext]_clientVars
  PROVE  Apart'
<1>0. /\ wire \in Seq(Nat) /\ incoming \in Seq(Nat) /\ printed \in Seq(Nat)
      /\ sent \in Seq(Nat) /\ write \in Seq(Nat)
  BY DEF Types
<1>1. CASE message_handler
  <2>1. /\ incoming # <<>> /\ incoming' = Tail(incoming) /\ wire' = wire /\ sent' = sent
        /\ printed' = Append(printed, Head(incoming))
    BY <1>1 DEF message_handler
  <2> DEFINE h == Head(incoming)
             r == Tail(incoming)
             l == Append(printed, h)
  <2>2. /\ h \in Nat /\ h \in Elems(incoming) /\ Elems(incoming) = {h} \cup Elems(r)
        /\ Injective(incoming) => Injective(r) /\ h \notin Elems(r)
    BY <1>0, <2>1, TailElems
  <2> HIDE DEF h, r
  <2>3. /\ Elems(l) = Elems(printed) \cup {h}
        /\ Injective(printed) /\ h \notin Elems(printed) => Injective(l)
    <3>1. h \in Nat /\ printed \in Seq(Nat)
      BY <1>0, <2>2
    <3> QED BY ONLY <3>1, AppendElems
  <2> HIDE DEF l
  <2>4. incoming' = r /\ printed' = l
    BY <2>1 DEF h, r, l
  <2> QED BY <2>1, <2>2, <2>3, <2>4 DEF Apart
<1>2. CASE Answer
  <2>1. PICK i \in DOMAIN wire :
             incoming' = Append(incoming, wire[i]) /\ wire' = Without(wire, i)
    BY <1>2 DEF Answer, Without
  <2>2. printed' = printed /\ sent' = sent
    BY <1>2 DEF Answer, client
  <2> DEFINE h == wire[i]
             r == Without(wire, i)
             l == Append(incoming, h)
  <2>3. /\ h \in Nat /\ h \in Elems(wire) /\ Elems(r) \subseteq Elems(wire)
        /\ Injective(wire) => Injective(r) /\ h \notin Elems(r)
    BY <1>0, WithoutElems
  <2> HIDE DEF h, r
  <2>4. /\ Elems(l) = Elems(incoming) \cup {h}
        /\ Injective(incoming) /\ h \notin Elems(incoming) => Injective(l)
    <3>1. h \in Nat /\ incoming \in Seq(Nat)
      BY <1>0, <2>3
    <3> QED BY ONLY <3>1, AppendElems
  <2> HIDE DEF l
  <2>5. wire' = r /\ incoming' = l
    BY <2>1 DEF h, r, l
  <2> QED BY <2>2, <2>3, <2>4, <2>5 DEF Apart
<1>3. CASE ChannelStep /\ Connects
  <2>1. wire' = <<>> /\ incoming' = <<>> /\ printed' = printed /\ sent' = sent
    BY <1>3 DEF ChannelStep, client, Connects
  <2> QED BY <2>1, EmptyElems DEF Apart
<1>4. CASE ChannelStep /\ WriteEnds /\ socket = "open"
  <2>1. /\ write # <<>> /\ wire' = Append(wire, Head(write)) /\ sent' = Append(sent, Head(write))
        /\ incoming' = incoming /\ printed' = printed
    BY <1>4 DEF ChannelStep, client, WriteEnds
  <2> DEFINE h == Head(write)
             v == Append(wire, h)
             l == Append(sent, h)
  <2>2. h \in Nat /\ h \in Elems(write)
    BY <1>0, <2>1, TailElems
  <2> HIDE DEF h
  <2>3. h \notin Elems(sent)
    <3>1. \A x \in Elems(sent) : x < h /\ x \in Nat
      BY <2>2 DEF Ordered, InLine
    <3> QED BY <2>2, <3>1
  <2>4. /\ Elems(v) = Elems(wire) \cup {h} /\ Elems(l) = Elems(sent) \cup {h}
        /\ Injective(wire) /\ h \notin Elems(wire) => Injective(v)
    <3>1. h \in Nat /\ wire \in Seq(Nat) /\ sent \in Seq(Nat)
      BY <1>0, <2>2
    <3> QED BY ONLY <3>1, AppendElems
  <2> HIDE DEF v, l
  <2>5. wire' = v /\ sent' = l
    BY <2>1 DEF h, v, l
  <2> QED BY <2>1, <2>3, <2>4, <2>5 DEF Apart
<1>5. CASE \/ OwnerStep /\ ~message_handler /\ ~Answer
           \/ ChannelStep /\ ~Connects /\ ~(WriteEnds /\ socket = "open")
  <2>1. UNCHANGED <<wire, incoming, printed, sent>>
    BY <1>5 DEF OwnerStep, ChannelStep, Command, Exit, RunCallback, RunCommandTimer,
         CommandTimerExpires, clientVars, channel, client, Progress, Refuses, WriteEnds, WriteFails,
         ReadFails, Breaks, TimerExpires, Handlers, RunSend, RunWritten, RunWriteFailed,
         RunReadFailed, RunConnected, RunRefused, RunTimer
  <2> QED BY <2>1 DEF Apart
<1> QED BY <1>1, <1>2, <1>3, <1>4, <1>5, TwoKinds

\* An answer is to a command that was typed and not answered yet.
LEMMA AnswerNew ==
  ASSUME Types, Ordered, Apart, incoming # <<>>
  PROVE  Head(incoming) \in 1..issued /\ Head(incoming) \notin Elems(printed)
<1>1. incoming \in Seq(Nat)
  BY DEF Types
<1>2. Head(incoming) \in Elems(incoming)
  BY <1>1, TailElems
<1>3. Head(incoming) \in Elems(sent)
  BY <1>2 DEF Apart
<1> QED BY <1>2, <1>3 DEF Apart, Ordered, InLine

LEMMA PromptsStep ==
  ASSUME Types, Ordered, Apart, Prompts, [ClientNext]_clientVars
  PROVE  Prompts'
<1>0. /\ callbacks \in Seq({"owner", "reconnect"}) /\ ready["connected"] \in Nat
      /\ issued \in Nat /\ expired \in Nat /\ hook \in {"owner", "reconnect"}
  BY KindsAre DEF Types
<1>1. CASE Command
  <2>1. at = "prompt" /\ issued' = issued + 1 /\ UNCHANGED <<socket, hook, ready, callbacks>>
    BY <1>1 DEF Command
  <2>2. ~Coming /\ issued' # 0
    BY <1>0, <2>1 DEF Prompts
  <2> QED BY <2>1, <2>2 DEF Prompts, Coming
<1>2. CASE Exit
  <2>1. at = "prompt" /\ UNCHANGED <<socket, hook, ready, callbacks, issued, m_timer, expired>>
    BY <1>2 DEF Exit, channel
  <2>2. ~Coming
    BY <2>1 DEF Prompts
  <2> QED BY <2>1, <2>2 DEF Prompts, Coming
<1>3. CASE RunCallback
  <2>1. /\ callbacks # <<>> /\ callbacks' = Tail(callbacks)
        /\ UNCHANGED <<socket, hook, ready, issued, expired>>
    BY <1>3 DEF RunCallback
  <2> DEFINE r == Tail(callbacks)
  <2>2. /\ DOMAIN callbacks = 1..Len(callbacks) /\ DOMAIN r = 1..Len(callbacks) - 1
        /\ Len(callbacks) \in Nat /\ 1 \in DOMAIN callbacks /\ Head(callbacks) = callbacks[1]
        /\ \A i \in DOMAIN r : i + 1 \in DOMAIN callbacks /\ r[i] = callbacks[i + 1]
    BY <1>0, <2>1
  <2>3. callbacks' = r
    BY <2>1
  <2> HIDE DEF r
  <2>4. Elems(r) \subseteq Elems(callbacks)
    BY <2>2 DEF Elems
  <2>5. \A i, j \in DOMAIN r : r[i] = "owner" /\ r[j] = "owner" => i = j
    <3> SUFFICES ASSUME NEW i \in DOMAIN r, NEW j \in DOMAIN r, r[i] = "owner", r[j] = "owner"
                 PROVE  i = j
      OBVIOUS
    <3>1. i + 1 \in DOMAIN callbacks /\ j + 1 \in DOMAIN callbacks
            /\ callbacks[i + 1] = "owner" /\ callbacks[j + 1] = "owner"
      BY <2>2
    <3>2. i + 1 = j + 1
      BY <3>1 DEF Prompts
    <3> QED BY <2>2, <3>2
  <2>6. CASE Head(callbacks) = "owner"
    <3>1. "owner" \in Elems(callbacks) /\ \A i \in DOMAIN r : i + 1 # 1
      BY <2>2, <2>6 DEF Elems
    <3>2. "owner" \notin Elems(r)
      BY <2>2, <2>6, <3>1 DEF Elems, Prompts
    <3>3. ~Coming'
      BY <2>1, <2>3, <3>1, <3>2 DEF Coming, Prompts
    <3>4. ~m_timer'
      BY <1>3, <2>6 DEF RunCallback, run_cmd
    <3> QED BY <2>1, <2>3, <2>4, <2>5, <3>3, <3>4 DEF Prompts
  <2>7. CASE Head(callbacks) # "owner"
    <3>1. UNCHANGED <<at, m_timer>>
      BY <1>3, <2>7 DEF RunCallback
    <3>2. Coming' => Coming
      BY <2>1, <2>3, <2>4 DEF Coming
    <3> QED BY <2>1, <2>3, <2>4, <2>5, <3>1, <3>2 DEF Prompts
  <2> QED BY <2>6, <2>7
<1>4. CASE RunCommandTimer
  <2>1. /\ expired > 0 /\ ~m_timer' /\ UNCHANGED <<socket, hook, ready, callbacks, issued>>
    BY <1>4 DEF RunCommandTimer, run_cmd, channel
  <2>2. issued # 0 /\ ~Coming
    BY <1>0, <2>1 DEF Prompts
  <2> QED BY <2>1, <2>2 DEF Prompts, Coming
<1>5. CASE message_handler
  <2>1. UNCHANGED <<socket, hook, ready, callbacks, issued>> /\ incoming # <<>>
    BY <1>5 DEF message_handler
  <2>2. issued # 0
    BY <1>0, <2>1, AnswerNew
  <2> QED BY <2>1, <2>2 DEF Prompts, Coming
<1>6. CASE CommandTimerExpires
  <2>1. m_timer /\ UNCHANGED <<socket, hook, ready, callbacks, at, issued>>
    BY <1>6 DEF CommandTimerExpires, channel
  <2>2. issued # 0
    BY <2>1 DEF Prompts
  <2> QED BY <2>1, <2>2 DEF Prompts, Coming
<1>7. CASE Answer \/ UNCHANGED clientVars
  <2>1. UNCHANGED <<socket, hook, ready, callbacks, at, issued, m_timer, expired>>
    BY <1>7 DEF Answer, clientVars, channel, client
  <2> QED BY <2>1 DEF Prompts, Coming
<1>8. ASSUME ChannelStep PROVE UNCHANGED <<at, issued, m_timer, expired>>
  BY <1>8 DEF ChannelStep, client
<1>9. CASE ChannelStep /\ Connects
  <2>1. /\ socket = "connecting" /\ socket' = "open" /\ hook' = hook /\ callbacks' = callbacks
        /\ ready'["connected"] = ready["connected"] + 1
    BY <1>9, CompletedIs, KindsAre DEF Connects
  <2> QED BY <1>0, <1>8, <1>9, <2>1 DEF Prompts, Coming
<1>10. CASE ChannelStep /\ RunConnected
  <2>1. /\ socket' = socket /\ hook' = hook /\ callbacks' = Append(callbacks, hook)
        /\ ready["connected"] > 0 /\ ready'["connected"] = ready["connected"] - 1
    BY <1>10, TakenIs, KindsAre DEF RunConnected
  <2>2. Elems(callbacks') = Elems(callbacks) \cup {hook}
    <3>1. Elems(Append(callbacks, hook)) = Elems(callbacks) \cup {hook}
      BY ONLY <1>0, AppendElems
    <3> QED BY <2>1, <3>1
  <2>3. CASE hook # "owner"
    <3>1. \A i \in DOMAIN callbacks' : callbacks'[i] = "owner" =>
            i \in DOMAIN callbacks /\ callbacks[i] = "owner"
      BY <1>0, <2>1, <2>3
    <3>2. Coming' => Coming
      BY <2>1, <2>2, <2>3 DEF Coming
    <3> QED BY <1>8, <1>10, <2>1, <2>3, <3>1, <3>2 DEF Prompts
  <2>4. CASE hook = "owner"
    <3>1. "owner" \notin Elems(callbacks) /\ socket # "connecting" /\ ready'["connected"] = 0
            /\ Coming
      BY <1>0, <2>1, <2>4 DEF Prompts, Coming
    <3>2. \A i \in DOMAIN callbacks' : callbacks'[i] = "owner" => i = Len(callbacks) + 1
      BY <1>0, <2>1, <3>1 DEF Elems
    <3> QED BY <1>8, <1>10, <2>1, <3>1, <3>2 DEF Prompts
  <2> QED BY <2>3, <2>4
<1>11. CASE ChannelStep /\ RunTimer
  <2>1. hook' = "reconnect" /\ callbacks' = callbacks
    BY <1>11 DEF RunTimer
  <2> QED BY <1>8, <1>11, <2>1 DEF Prompts, Coming
<1>12. CASE ChannelStep /\ (Refuses \/ Breaks)
  <2>1. /\ socket' = "broken" /\ hook' = hook /\ callbacks' = callbacks
        /\ ready'["connected"] = ready["connected"]
    BY <1>12, CompletedIs, KindsAre DEF Refuses, Breaks
  <2> QED BY <1>8, <1>12, <2>1 DEF Prompts, Coming
<1>13. CASE ChannelStep /\ (WriteEnds \/ WriteFails \/ ReadFails \/ TimerExpires \/ RunSend \/
              RunWritten \/ RunWriteFailed \/ RunReadFailed \/ RunRefused)
  <2>1. socket' = socket /\ hook' = hook /\ callbacks' = callbacks
    BY <1>13 DEF WriteEnds, WriteFails, ReadFails, TimerExpires, RunSend, RunWritten,
         RunWriteFailed, RunReadFailed, RunRefused
  <2>2. ready'["connected"] = ready["connected"]
    BY <1>13, CompletedIs, TakenIs, KindsAre DEF WriteEnds, WriteFails, ReadFails,
         TimerExpires, RunSend, RunWritten, RunWriteFailed, RunReadFailed, RunRefused
  <2> QED BY <1>8, <1>13, <2>1, <2>2 DEF Prompts, Coming
<1> QED BY <1>1, <1>2, <1>3, <1>4, <1>5, <1>6, <1>7, <1>9, <1>10, <1>11, <1>12, <1>13, TwoKinds
        DEF OwnerStep, ChannelStep, Progress, Handlers

\* As long as no command failed, one command at most is without an answer.
LEMMA MatchedStep ==
  ASSUME Types, Ordered, Apart, Prompts, Matched, [ClientNext]_clientVars
  PROVE  Matched'
<1>0. printed \in Seq(Nat) /\ Len(printed) \in Nat /\ issued \in Nat /\ failed \in Nat
  BY DEF Types
<1>1. CASE Command
  <2>1. at = "prompt" /\ at' = "idle" /\ issued' = issued + 1 /\ UNCHANGED <<printed, failed>>
    BY <1>1 DEF Command
  <2> QED BY <1>0, <2>1 DEF Matched
<1>2. CASE Exit
  <2>1. at = "prompt" /\ at' = "exited" /\ UNCHANGED <<issued, printed, failed>>
    BY <1>2 DEF Exit
  <2> QED BY <2>1 DEF Matched
<1>3. CASE RunCallback
  <2>1. UNCHANGED <<issued, printed, failed>>
    BY <1>3 DEF RunCallback
  <2>2. CASE Head(callbacks) = "owner"
    <3>1. callbacks \in Seq({"owner", "reconnect"}) /\ callbacks # <<>>
      BY <1>3 DEF RunCallback, Types
    <3>2. Head(callbacks) \in Elems(callbacks)
      BY ONLY <3>1, TailElems
    <3>3. at = "idle" /\ issued = 0
      BY <2>2, <3>2 DEF Prompts, Coming
    <3>4. Elems(printed) = {}
      <4>1. \A x \in Elems(sent) : x \in 1..issued
        BY DEF Ordered, InLine
      <4>2. Elems(sent) = {}
        BY <3>3, <4>1
      <4> QED BY <4>2 DEF Apart
    <3>5. Len(printed) = 0
      <4>1. printed = <<>>
        BY ONLY <1>0, <3>4, TailElems
      <4> QED BY <4>1
    <3> QED BY <2>1, <3>3, <3>5 DEF Matched
  <2>3. CASE Head(callbacks) # "owner"
    BY <1>3, <2>1, <2>3 DEF RunCallback, Matched
  <2> QED BY <2>2, <2>3
<1>4. CASE RunCommandTimer
  BY <1>0, <1>4 DEF RunCommandTimer, Matched
<1>5. CASE message_handler
  <2>1. /\ at = "idle" /\ at' = "prompt" /\ UNCHANGED <<issued, failed>> /\ incoming # <<>>
        /\ printed' = Append(printed, Head(incoming))
    BY <1>5 DEF message_handler, Runs, run_cmd
  <2> DEFINE h == Head(incoming)
  <2>2. h \in 1..issued /\ h \notin Elems(printed)
    BY <2>1, AnswerNew
  <2> HIDE DEF h
  <2>3. ASSUME failed = 0
        PROVE  h = Len(printed) + 1 /\ issued = Len(printed) + 1
    <3>1. \A i \in DOMAIN printed : printed[i] = i
      BY <2>3 DEF Matched
    <3>2. Len(printed) = issued - 1
      BY <1>0, <2>1, <2>2, <2>3 DEF Matched
    <3>3. h \notin 1..Len(printed)
      BY <1>0, <2>2, <3>1 DEF Elems
    <3> QED BY <1>0, <2>2, <3>2, <3>3
  <2>4. /\ Len(printed') = Len(printed) + 1 /\ DOMAIN printed' = 1..Len(printed) + 1
        /\ printed'[Len(printed) + 1] = h
        /\ \A i \in 1..Len(printed) : i \in DOMAIN printed /\ printed'[i] = printed[i]
    <3>1. printed' = Append(printed, h) /\ h \in Nat
      BY <2>1, <2>2 DEF h
    <3> QED BY <1>0, <3>1
  <2> QED BY <1>0, <2>1, <2>3, <2>4 DEF Matched
<1>6. CASE CommandTimerExpires \/ Answer \/ ChannelStep \/ UNCHANGED clientVars
  <2>1. UNCHANGED <<at, issued, printed, failed>>
    BY <1>6 DEF CommandTimerExpires, Answer, ChannelStep, clientVars, client
  <2> QED BY <2>1 DEF Matched
<1> QED BY <1>1, <1>2, <1>3, <1>4, <1>5, <1>6, TwoKinds DEF OwnerStep

-----------------------------------------------------------------------------
LEMMA InitKv == ClientInit => KvInv
<1> SUFFICES ASSUME ClientInit PROVE KvInv
  OBVIOUS
<1> USE DEF ClientInit, ChannelInit
<1>1. Types
  <2>1. ready \in [Kinds -> Nat]
    OBVIOUS
  <2> QED BY <2>1, EmptyElems DEF Types
<1>2. \A k \in Kinds : ready[k] = 0
  OBVIOUS
<1>3. Operations
  <2>1. Writes = 0
    BY <1>2, KindsAre DEF Writes
  <2> QED BY <1>2, <2>1 DEF Operations
<1>4. Watched
  BY DEF Watched
<1>5. Ordered
  BY EmptyElems DEF Ordered, InLine
<1>6. Apart
  BY EmptyElems DEF Apart
<1>7. Prompts
  BY <1>2, KindsAre, EmptyElems DEF Prompts, Coming
<1>8. Matched
  BY DEF Matched
<1> QED BY <1>1, <1>3, <1>4, <1>5, <1>6, <1>7, <1>8 DEF KvInv

LEMMA NextKv == KvInv /\ [ClientNext]_clientVars => KvInv'
<1> SUFFICES ASSUME KvInv, [ClientNext]_clientVars PROVE KvInv'
  OBVIOUS
<1>1. Types /\ (late \/ Operations) /\ Watched /\ Ordered /\ Apart /\ Prompts /\ Matched
  BY DEF KvInv
<1>2. Types'
  BY <1>1, TypesStep
<1>3. late' \/ Operations'
  BY <1>1, <1>2, OperationsStep
<1>4. Watched' /\ Ordered' /\ Apart' /\ Prompts' /\ Matched'
  BY <1>1, WatchedStep, OrderedStep, ApartStep, PromptsStep, MatchedStep
<1> QED BY <1>2, <1>3, <1>4 DEF KvInv

LEMMA HoldingKv == ClientSpec => []KvInv
BY InitKv, NextKv, PTL DEF ClientSpec

(***************************************************************************)
(* The channel writes one message at a time and never pops an empty queue, *)
(* unless the reconnect timer's handler ran before the operations of the   *)
(* old connection were over; and the coordinator gets the commands in      *)
(* their order and none twice, over any number of connections.             *)
(***************************************************************************)
THEOREM ChannelIsSound == ClientSpec => []ChannelSound
<1>1. KvInv => ChannelSound
  <2> SUFFICES ASSUME KvInv, ~late
               PROVE  /\ ~undefined /\ Len(write) <= 1
                      /\ \A i, j \in DOMAIN sent : i < j => sent[i] < sent[j]
    BY DEF ChannelSound
  <2>1. Types /\ Operations /\ Ordered
    BY DEF KvInv
  <2>2. Len(write) <= 1 /\ ~undefined
    BY <2>1, WritesType DEF Operations, Writes
  <2> QED BY <2>1, <2>2 DEF Ordered, InLine, Increasing
<1> QED BY <1>1, HoldingKv, PTL

(***************************************************************************)
(* A broken connection is never forgotten: an operation that will fail, a  *)
(* handler or the timer is still to come, and ends in connecting again.    *)
(* And a connection that works is not torn down by a timer left over from  *)
(* the one before, with the same exception.                                *)
(***************************************************************************)
THEOREM BrokenIsNoticed == ClientSpec => []TimerTracksSocket
<1>1. KvInv => TimerTracksSocket
  <2> SUFFICES ASSUME KvInv PROVE TimerTracksSocket
    OBVIOUS
  <2>1. Watched /\ (late \/ Operations)
    BY DEF KvInv
  <2>2. socket = "broken" => \/ read \/ write # <<>> \/ timer
                             \/ \E k \in Kinds \ {"written"} : ready[k] > 0
    BY <2>1, KindsAre DEF Watched
  <2>3. late \/ (socket = "open" => ~timer /\ ready["timer"] = 0)
    BY <2>1, KindsAre DEF Operations
  <2> QED BY <2>2, <2>3 DEF TimerTracksSocket
<1> QED BY <1>1, HoldingKv, PTL

(***************************************************************************)
(* No answer is printed twice, also over reconnects and in the exceptional *)
(* case; and as long as no command was declared failed, the answer that is *)
(* printed is that to the command just typed.                              *)
(***************************************************************************)
THEOREM AnswersMatchCommands == ClientSpec => []RepliesMatch
<1>1. KvInv => RepliesMatch
  BY DEF KvInv, Apart, Injective, Matched, RepliesMatch
<1> QED BY <1>1, HoldingKv, PTL
=============================================================================
