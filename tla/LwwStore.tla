----------------------------- MODULE LwwStore -----------------------------
(***************************************************************************)
(* What one replica of the key-value store promises to its coordinator,    *)
(* with no log file, no strand and no replay: a set of committed records   *)
(* that only grows, and a view of it that reads are answered from.  A      *)
(* record becomes visible in the step that commits it, if it is newer than *)
(* what the view holds.  A crash empties the view and no record is lost;   *)
(* committed records then come back one by one, committed again.           *)
(***************************************************************************)
EXTENDS Replica

VARIABLES
  log,    \* the committed records
  view    \* what Replica::read returns

Init == log = {} /\ view = EmptyStore

Commit(msg) ==
  /\ log' = log \cup {msg}
  /\ view' = Install(view, msg)

Lose == view' = EmptyStore /\ UNCHANGED log

Next ==
  \/ \E msg \in DoWrite : Commit(msg)
  \/ Lose

Spec == Init /\ [][Next]_<<log, view>>
=============================================================================
