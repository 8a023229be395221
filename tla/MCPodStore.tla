----------------------------- MODULE MCPodStore -----------------------------
(* PodStore, RunRecords and Deployment for model checking: the record of   *)
(* one run through its handles, the records of a deployment's runs as      *)
(* pruning and status see them, and the command lines that bring a         *)
(* deployment's state directories about and away.  PodStore has the steps  *)
(* of a handle, RunRecords what they leave on disk, and Deployment whether *)
(* anything is there at all, so a behaviour is one of the three (part),    *)
(* while the others rest where they begin.                                 *)
EXTENDS PodStore, TLC

CONSTANTS Runs, KeepTerminalRuns, Clis, DeployKinds, Runtimes, Targets, Nothing

VARIABLES
    part, dirs, recorded, log, finishedAt, clock, writer, ended, ctl, view,
    target, cli, built, tags, late, made, root, full, controller, cut, kept,
    result, left, swept, cliFaults

Records == INSTANCE RunRecords WITH record <- recorded
Deploying ==
    INSTANCE Deployment WITH Kinds <- DeployKinds, recorded <- kept,
                             dir <- made, faults <- cliFaults

recordsVars == <<dirs, recorded, log, finishedAt, clock, writer, ended, ctl,
                 view>>
deployVars == <<target, cli, built, tags, late, made, root, full, controller,
                cut, kept, result, left, swept, cliFaults>>

Symmetry == Permutations(Clis) \cup Permutations(Runtimes)

(* Where the command lines rest: one fixed initial state.                  *)
Resting ==
    /\ target = "local"
    /\ \E r \in Runtimes : \A c \in Clis :
        cli[c].kind = "pod" /\ cli[c].runtime = r

(* The runs: at most one of those that there may be is new.  Command lines *)
(* that ask for different runtimes are of the smaller layout.              *)
MCInit ==
    /\ part \in {"store", "records", "deploy"}
    /\ Init /\ Records!Init /\ Deploying!Init
    /\ IF part = "records" THEN Cardinality(dirs) >= Cardinality(Runs) - 1
                           ELSE dirs = {}
    /\ part # "deploy" => Resting
    /\ \A b, c \in Clis : cli[b].runtime # cli[c].runtime =>
        cli[b].kind = "organizer" /\ cli[c].kind = "organizer"

(* Runs that the status command is asked for (0 when it rests).            *)
Viewed == 0..1

MCNext ==
    \/ part = "store" /\ Next /\ UNCHANGED <<part, recordsVars, deployVars>>
    \/ part = "records" /\ Records!Next /\ view'.run \in Viewed
        /\ UNCHANGED <<part, vars, deployVars>>
    \/ part = "deploy" /\ Deploying!Next
        /\ UNCHANGED <<part, vars, recordsVars>>

MCSpec == MCInit /\ [][MCNext]_<<part, vars, recordsVars, deployVars>>

-----------------------------------------------------------------------------
(* The properties of the instances, of which their modules say more. What  *)
(* holds between the writers of the records, prunePodRuns and a status     *)
(* command.                                                                *)
RecordsSafety == part = "records" => Records!RecordsSafety

(* What holds between command lines that prepare, run and clean up one     *)
(* deployment (prepareImage, prepareDeploymentState, reapDeploymentState). *)
DeploySafety == part = "deploy" => Deploying!DeploySafety
=============================================================================
