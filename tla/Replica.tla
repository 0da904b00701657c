------------------------------ MODULE Replica ------------------------------
(***************************************************************************)
(* The data of one replica of the key-value store (kv/server): an element  *)
(* per key, the DoWrite records of its log, and the last-writer-wins rule  *)
(* by which Replica::write decides.  Pure operators, shared by the module  *)
(* of a single replica (ReplicaLog) and the module of the cluster          *)
(* (Coordinator).                                                          *)
(*                                                                         *)
(* A timestamp is a natural number.  The code's stamp is                   *)
(* TimeUtil::GetCurrentTime(), compared lexicographically on seconds and   *)
(* nanoseconds: a total order, and nothing makes two stamps differ.        *)
(***************************************************************************)
EXTENDS Naturals, Sequences

CONSTANTS
  Key,     \* the slots of m_store (the code has 256)
  Val,     \* the values clients store
  Stamp,   \* the timestamps that writes carry
  Null     \* an empty shared_ptr: the slot was never written

ASSUME StampAssumption == Stamp \subseteq Nat

Element == [data : Val, timestamp : Stamp]

DoWrite == [key : Key, val : Val, timestamp : Stamp]

ASSUME NullAssumption == Null \notin Element

StoreType == [Key -> Element \cup {Null}]

EmptyStore == [k \in Key |-> Null]

ElementOf(msg) == [data |-> msg.val, timestamp |-> msg.timestamp]

(***************************************************************************)
(* The test both checks of Replica::write make: a write at timestamp is    *)
(* dropped when the slot already holds an element at least as recent.      *)
(***************************************************************************)
Stale(current, timestamp) ==
  current # Null /\ timestamp <= current.timestamp

\* Mutant of Install: the handler trusts the test made before the post.
InstallUnchecked(store, msg) == [store EXCEPT ![msg.key] = ElementOf(msg)]

(***************************************************************************)
(* The completion handler of Replica::write: install the element unless it *)
(* has become stale since the write was posted.                            *)
(***************************************************************************)
Install(store, msg) ==
  IF Stale(store[msg.key], msg.timestamp)
  THEN store
  ELSE [store EXCEPT ![msg.key] = ElementOf(msg)]
=============================================================================
