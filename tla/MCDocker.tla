------------------------------ MODULE MCDocker ------------------------------
(* DockerRuntime and AppPublication for model checking. The containers of  *)
(* a run and the published app have different names and nothing else in    *)
(* common, so a behaviour is one of the runtime or one of the app (part),  *)
(* while the other one rests where it begins.                              *)
(*                                                                         *)
(* An agent, a verifier and the two suites of a source verification run in *)
(* a process, and another one comes up after it and closes; three          *)
(* deployments replace the app.                                            *)
EXTENDS DockerRuntime

CONSTANT MaxRuns, MaxAppFaults

VARIABLES
    part,
    apps, run, pc, previous, renameAttempted, replacementAttempted,
    candidateActive, retired, outcome, appCancelled, reclose, before, swept,
    appFaults

AppPub == INSTANCE AppPublication
              WITH containers <- apps, cancelled <- appCancelled,
                   faults <- appFaults, MaxFaults <- MaxAppFaults

appVars == <<apps, run, pc, previous, renameAttempted, replacementAttempted,
             candidateActive, retired, outcome, appCancelled, reclose, before,
             swept, appFaults>>

MCInit ==
    /\ part \in {"runtime", "app"}
    /\ Init /\ AppPub!Init
    /\ part = "runtime" => apps[AppPub!App] = AppPub!Gone

MCNext ==
    \/ part = "runtime" /\ Next /\ UNCHANGED <<part, appVars>>
    \/ part = "app" /\ AppPub!Next /\ UNCHANGED <<part, vars>>

MCSpec ==
    /\ MCInit /\ [][MCNext]_<<part, vars, appVars>>
    /\ WF_vars(part = "runtime" /\ Step)
    /\ WF_appVars(part = "app" /\ AppPub!Step)

-----------------------------------------------------------------------------
(* The properties of AppPublication, and the ends of both. What publish    *)
(* leaves of the previous app, of its replacement and of its candidate,    *)
(* whatever fails.                                                         *)
AppSafety == AppPub!AppSafety

(* A running app leaves service only by the rename of publish, or as this  *)
(* deployment's own replacement.                                           *)
ServiceMovedAside == AppPub!ServiceMovedAside

(* A cancelled runtime closes and its process ends; publish, cancelled or  *)
(* failing, and the close after it come to an end.                         *)
DeploymentsEnd == CancelEnds /\ AppPub!Ends
=============================================================================
