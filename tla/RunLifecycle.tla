---------------------------- MODULE RunLifecycle ----------------------------
(***************************************************************************)
(* What the run store promises a reader of a run directory                 *)
(* (openPodRunStore, prunePodRuns, publishRun): the life of a run as a     *)
(* single value.                                                           *)
(***************************************************************************)
VARIABLE view

Statuses == {"completed", "failed", "cancelled"}

Init == view = "none"

(* createPodRunStore makes the directory, and removes it if it fails.      *)
Create  == view = "none" /\ view' = "starting"
Abandon == view = "starting" /\ view' = "none"
Started == view = "starting" /\ view' = "running"

(* finish, or a failed write, makes the log disagree with the record ...   *)
Unsettle == view = "running" /\ view' = "unsettled"

(* ... until the record is renamed to its terminal status, for good.       *)
Settle == view = "unsettled" /\ view' \in Statuses

Next == Create \/ Abandon \/ Started \/ Unsettle \/ Settle

Spec == Init /\ [][Next]_view
=============================================================================
