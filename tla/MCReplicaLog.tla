--------------------------- MODULE MCReplicaLog ---------------------------
(***************************************************************************)
(* A small instance of ReplicaLog: enough writes that two of them race on  *)
(* one key, with equal and with different timestamps, and enough crashes   *)
(* that the file left by a replay is replayed itself.                      *)
(***************************************************************************)
EXTENDS ReplicaLog

MCStamp == 1..2
=============================================================================
