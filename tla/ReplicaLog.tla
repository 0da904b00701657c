---------------------------- MODULE ReplicaLog ----------------------------
(***************************************************************************)
(* One replica of the key-value store with its write-ahead log: class      *)
(* Replica (kv/server/src/replica.cpp) over class Log<DoWrite>             *)
(* (kv/server/include/log.hpp), in a process that may crash and be started *)
(* again.                                                                  *)
(*                                                                         *)
(* A write is not done when Replica::write returns.  It posts a task to    *)
(* the strand of the log; the task, run later by the io_service, appends   *)
(* the record to the file, flushes it, and only then installs the element  *)
(* in m_store.  The constructor posts a task that replays the file by      *)
(* calling Replica::write for every record, so that a restart posts (and   *)
(* appends to the file) every record again.                                *)
(*                                                                         *)
(* The crash is that of the process: what was flushed survives.            *)
(***************************************************************************)
EXTENDS Replica

CONSTANTS
  MaxWrites,   \* bound: calls to Replica::write by the coordinator
  MaxCrashes   \* bound: crashes of the process

VARIABLES
  m_store,     \* Key -> element or Null; volatile
  file,        \* the flushed records of the log file; survives a crash
  m_strand,    \* tasks posted to the strand of the log, in order; volatile
  up,          \* the process runs
  accepted,    \* history: the records the coordinator's calls had posted
  writes,      \* number of calls so far (for MaxWrites)
  crashes      \* number of crashes so far (for MaxCrashes)

vars == <<m_store, file, m_strand, up, accepted, writes, crashes>>

Append1(msg) == [op |-> "append", msg |-> msg]

\* pos is the record the replay loop reads next.
Replay(pos) == [op |-> "replay", pos |-> pos]

Task == [op : {"append"}, msg : DoWrite] \cup [op : {"replay"}, pos : Nat \ {0}]

TypeOK ==
  /\ m_store \in StoreType
  /\ file \in Seq(DoWrite)
  /\ m_strand \in Seq(Task)
  /\ up \in BOOLEAN
  /\ accepted \subseteq DoWrite
  /\ writes \in Nat
  /\ crashes \in Nat

\* The task at the head of the strand has the given kind.
AtHead(op) == up /\ m_strand # <<>> /\ Head(m_strand).op = op

\* The replay loop has begun: it holds the only thread until it ends.
Replaying == AtHead("replay") /\ Head(m_strand).pos > 1

-----------------------------------------------------------------------------
(***************************************************************************)
(* The constructor: an empty store, and the replay of whatever file there  *)
(* is as the first task of the strand.                                     *)
(***************************************************************************)
Init ==
  /\ m_store = EmptyStore
  /\ file = <<>>
  /\ m_strand = <<Replay(1)>>
  /\ up = TRUE
  /\ accepted = {}
  /\ writes = 0
  /\ crashes = 0

(***************************************************************************)
(* Replica::write called by the coordinator: either the early return, or a *)
(* task posted to the strand.                                              *)
(***************************************************************************)
Write(msg) ==
  /\ up
  /\ ~Replaying
  /\ writes < MaxWrites
  /\ writes' = writes + 1
  /\ IF Stale(m_store[msg.key], msg.timestamp)
     THEN UNCHANGED <<m_strand, accepted>>
     ELSE /\ m_strand' = Append(m_strand, Append1(msg))
          /\ accepted' = accepted \cup {msg}
  /\ UNCHANGED <<m_store, file, up, crashes>>

\* Mutant of RunAppend: the handler is called before the flush, so that the
\* element is visible while the record can still be lost.
RunAppendHandlerFirst ==
  /\ AtHead("append")
  /\ LET msg == Head(m_strand).msg
     IN  \/ /\ Stale(m_store[msg.key], msg.timestamp)
            /\ file' = Append(file, msg)
            /\ m_strand' = Tail(m_strand)
            /\ UNCHANGED m_store
         \/ /\ ~Stale(m_store[msg.key], msg.timestamp)
            /\ m_store' = Install(m_store, msg)
            /\ UNCHANGED <<file, m_strand>>
  /\ UNCHANGED <<up, accepted, writes, crashes>>

\* Mutant of RunAppend: the handler turns down an equal timestamp, but not
\* an older one.
RunAppendEqualOnly ==
  /\ AtHead("append")
  /\ LET msg == Head(m_strand).msg
         held == m_store[msg.key]
     IN  /\ file' = Append(file, msg)
         /\ m_store' = IF held # Null /\ held.timestamp = msg.timestamp
                       THEN m_store
                       ELSE [m_store EXCEPT ![msg.key] = ElementOf(msg)]
  /\ m_strand' = Tail(m_strand)
  /\ UNCHANGED <<up, accepted, writes, crashes>>

(***************************************************************************)
(* The task write_update posted: append, flush, then the handler, which    *)
(* installs the element unless the slot has moved past it.                 *)
(***************************************************************************)
RunAppend ==
  /\ AtHead("append")
  /\ LET msg == Head(m_strand).msg
     IN  /\ file' = Append(file, msg)
         /\ m_store' = Install(m_store, msg)
  /\ m_strand' = Tail(m_strand)
  /\ UNCHANGED <<up, accepted, writes, crashes>>

(***************************************************************************)
(* One turn of the loop in replay_log: read the next record and hand it to *)
(* replay_handler, which calls write.  What write posts goes behind        *)
(* everything that is on the strand already.                               *)
(***************************************************************************)
ReplayRecord ==
  /\ AtHead("replay")
  /\ LET pos == Head(m_strand).pos
         msg == file[pos]
         rest == <<Replay(pos + 1)>> \o Tail(m_strand)
     IN  /\ pos <= Len(file)
         /\ m_strand' = IF Stale(m_store[msg.key], msg.timestamp)
                        THEN rest
                        ELSE Append(rest, Append1(msg))
  /\ UNCHANGED <<m_store, file, up, accepted, writes, crashes>>

\* Mutant of ReplayDone: the end of the file is seen one record too early.
ReplayDoneEarly ==
  /\ AtHead("replay")
  /\ Head(m_strand).pos >= Len(file)
  /\ m_strand' = Tail(m_strand)
  /\ UNCHANGED <<m_store, file, up, accepted, writes, crashes>>

\* The end of the file ends the loop and the task.
ReplayDone ==
  /\ AtHead("replay")
  /\ Head(m_strand).pos > Len(file)
  /\ m_strand' = Tail(m_strand)
  /\ UNCHANGED <<m_store, file, up, accepted, writes, crashes>>

\* The process dies: the store and the posted tasks go with it.
Crash ==
  /\ up
  /\ crashes < MaxCrashes
  /\ crashes' = crashes + 1
  /\ up' = FALSE
  /\ m_store' = EmptyStore
  /\ m_strand' = <<>>
  /\ UNCHANGED <<file, accepted, writes>>

\* Mutant of Restart: the records are counted from 0.
RestartFromZero ==
  /\ ~up
  /\ up' = TRUE
  /\ m_strand' = <<Replay(0)>>
  /\ UNCHANGED <<m_store, file, accepted, writes, crashes>>

\* Mutant of Restart: the log is replayed by the constructor and once more
\* by the caller.
RestartReplaysTwice ==
  /\ ~up
  /\ up' = TRUE
  /\ m_strand' = <<Replay(1), Replay(1)>>
  /\ UNCHANGED <<m_store, file, accepted, writes, crashes>>

\* Mutant of Restart: nobody replays the log.
RestartWithoutReplay ==
  /\ ~up
  /\ up' = TRUE
  /\ UNCHANGED <<m_store, file, m_strand, accepted, writes, crashes>>

\* The process is started again and constructs its Replica.
Restart ==
  /\ ~up
  /\ up' = TRUE
  /\ m_strand' = <<Replay(1)>>
  /\ UNCHANGED <<m_store, file, accepted, writes, crashes>>

RunTask == RunAppend \/ ReplayRecord \/ ReplayDone

Next ==
  \/ \E k \in Key, v \in Val, t \in Stamp :
       Write([key |-> k, val |-> v, timestamp |-> t])
  \/ RunAppend
  \/ ReplayRecord
  \/ ReplayDone
  \/ Crash
  \/ Restart

Spec == Init /\ [][Next]_vars

(***************************************************************************)
(* The io_service runs what is ready, and an operator starts a server that *)
(* is down.                                                                *)
(***************************************************************************)
FairSpec == Spec /\ WF_vars(RunTask) /\ WF_vars(Restart)

-----------------------------------------------------------------------------
\* The slot holds something at least as recent as the record.
Covers(store, msg) ==
  store[msg.key] # Null /\ msg.timestamp <= store[msg.key].timestamp

\* A posted append will make the slot at least as recent as the record.
AppendPending(msg) ==
  \E i \in DOMAIN m_strand :
    /\ m_strand[i].op = "append"
    /\ m_strand[i].msg.key = msg.key
    /\ msg.timestamp <= m_strand[i].msg.timestamp

\* A posted or running replay has still to read record j of the file.
ReplayPending(j) ==
  \E i \in DOMAIN m_strand : m_strand[i].op = "replay" /\ m_strand[i].pos <= j

(***************************************************************************)
(* Write-ahead: a value a read can return is in the flushed file, so that  *)
(* a crash right after the read cannot take it back.  The code's order is  *)
(* flush first, then the completion handler that installs the element.     *)
(***************************************************************************)
LogBeforeStore ==
  \A k \in Key : m_store[k] # Null =>
    \E j \in DOMAIN file : file[j].key = k /\ ElementOf(file[j]) = m_store[k]

(***************************************************************************)
(* No flushed record is forgotten, however crashes, the replay and new     *)
(* writes interleave: while the process runs, the store is as recent as    *)
(* the record, or a task still on the strand will make it so.              *)
(***************************************************************************)
NothingForgotten ==
  up => \A j \in DOMAIN file :
          Covers(m_store, file[j]) \/ AppendPending(file[j]) \/ ReplayPending(j)

\* No two of the posted records write one key at one timestamp.
TieFree ==
  \A a, b \in accepted : a.key = b.key /\ a.timestamp = b.timestamp => a = b

(***************************************************************************)
(* Once the strand is idle the store is what the file says: each slot      *)
(* holds a newest record of its key, and the only one when no timestamp    *)
(* was used twice.  With equal timestamps the code only promises the age:  *)
(* a write that arrives before the replay of a restart can replace a       *)
(* record as old as itself.                                                *)
(***************************************************************************)
RecoveredStore ==
  up /\ m_strand = <<>> =>
    /\ \A j \in DOMAIN file : Covers(m_store, file[j])
    /\ LogBeforeStore
    /\ TieFree => \A j \in DOMAIN file :
         ElementOf(file[j]) = m_store[file[j].key]
           \/ file[j].timestamp < m_store[file[j].key].timestamp

(***************************************************************************)
(* The file at most doubles with every restart: the replay appends again   *)
(* what it reads, and reads no record it appended itself.                  *)
(***************************************************************************)
LogGrowth == Len(file) <= writes * 2^crashes

(***************************************************************************)
(* While the process runs a read never goes back in time: the early test   *)
(* of Replica::write is stale by the time the posted task runs, and the    *)
(* test inside the completion handler has to catch that.                   *)
(***************************************************************************)
ReadsNeverGoBack ==
  [][up /\ up' => \A k \in Key : m_store[k] # Null =>
       m_store'[k] # Null /\ m_store[k].timestamp <= m_store'[k].timestamp]_vars

(***************************************************************************)
(* When crashes stop, the store catches up with the file for good.         *)
(***************************************************************************)
EventuallyRecovers ==
  <>[](up /\ \A j \in DOMAIN file : Covers(m_store, file[j]))

(***************************************************************************)
(* The replica implements the last-writer-wins store of LwwStore: its      *)
(* committed records are the flushed ones and its view is m_store.         *)
(***************************************************************************)
Lww == INSTANCE LwwStore WITH log <- {file[i] : i \in DOMAIN file}, view <- m_store

ImplementsLwwStore == Lww!Spec
=============================================================================
