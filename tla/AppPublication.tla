--------------------------- MODULE AppPublication ---------------------------
(***************************************************************************)
(* Replacement of the published app by the sequential deployments of one   *)
(* name (publish, cancel and close of src/docker-runtime.mjs): probe a     *)
(* candidate, move the app aside, create and probe its replacement, and on *)
(* any failure put the app back.                                           *)
(*                                                                         *)
(* A container is known by the deployment run that created it.  A Docker   *)
(* command that fails, times out or is aborted may or may not have taken   *)
(* effect.  One action is one Docker command (the two inspections of the   *)
(* roll back, and the commands on the candidate, are one action each).     *)
(***************************************************************************)
EXTENDS Integers

CONSTANTS
    MaxRuns,    \* bound: deployments, one after the other
    MaxFaults   \* bound: failed commands and crashes

VARIABLES
    containers,           \* the container of each name, if any
    run,                  \* the deployment under way
    pc,
    previous,             \* what appState returned
    renameAttempted,
    replacementAttempted,
    candidateActive,      \* the candidate's name is in activeContainers
    retired,              \* the backup's name is in retiredContainers
    outcome,              \* how publish ended
    cancelled,
    reclose,              \* close took the candidate's name when it began
    before,               \* the app when publish was called
    swept,                \* no clean-up command of this run has failed
    faults

controller == <<run, previous, renameAttempted, replacementAttempted,
                candidateActive, retired, cancelled, reclose, before>>
vars == <<containers, run, pc, previous, renameAttempted, replacementAttempted,
          candidateActive, retired, outcome, cancelled, reclose, before, swept,
          faults>>

Runs  == 0..MaxRuns
App       == <<"app", 0>>
TryOut    == <<"app-candidate", 0>>
Backup(r) == <<"app-backup", r>>
Names     == {App, TryOut} \cup {Backup(r) : r \in Runs}

Gone       == [id |-> -1, running |-> FALSE]
Containers == [id : Runs, running : BOOLEAN] \cup {Gone}

Replacing   == {"rename", "stop", "create", "start", "probe"}
RollingBack == {"remove", "renameBack", "startBack", "inspectBack", "lingering"}
Pcs == {"idle", "candidate", "sweep", "inspect", "closing", "closed", "dead"}
         \cup Replacing \cup RollingBack

TypeOK ==
    /\ containers \in [Names -> Containers]
    /\ run \in Runs
    /\ pc \in Pcs
    /\ previous \in Containers
    /\ {renameAttempted, replacementAttempted, candidateActive, retired,
        cancelled, reclose, swept} \subseteq BOOLEAN
    /\ outcome \in {"none", "published", "failed", "unrestored"}
    /\ before \in Containers
    /\ faults \in 0..MaxFaults

(* An app published earlier, running or not, or none.                      *)
Init ==
    /\ \E app \in {Gone} \cup [id : {0}, running : BOOLEAN] :
         containers = [n \in Names |-> IF n = App THEN app ELSE Gone]
    /\ run = 0
    /\ pc = "closed"
    /\ previous = Gone
    /\ renameAttempted = FALSE /\ replacementAttempted = FALSE
    /\ candidateActive = FALSE /\ retired = FALSE
    /\ outcome = "none"
    /\ cancelled = FALSE /\ reclose = FALSE
    /\ before = Gone
    /\ swept = TRUE
    /\ faults = 0

Fault == faults < MaxFaults /\ faults' = faults + 1

-----------------------------------------------------------------------------
(* What a Docker command does to the containers.  rename wants a free      *)
(* name, start a free host port; a command that cannot do so changes       *)
(* nothing and exits nonzero.                                              *)

Removed(n) == [containers EXCEPT ![n] = Gone]
Created(n) == [containers EXCEPT ![n] = [id |-> run, running |-> FALSE]]
Stopped(n) == [containers EXCEPT ![n].running = FALSE]

CanRename(a, b) == containers[a] # Gone /\ containers[b] = Gone
Renamed(a, b) ==
    IF CanRename(a, b)
    THEN [containers EXCEPT ![b] = containers[a], ![a] = Gone]
    ELSE containers

PortFree(n) == \A m \in Names \ {n, TryOut} : ~containers[m].running
CanStart(n) == containers[n] # Gone /\ PortFree(n)
Running(n) ==
    IF CanStart(n) THEN [containers EXCEPT ![n].running = TRUE] ELSE containers

(* commandWithin on the way to the replacement: it returns, or it throws   *)
(* because it failed, because the deadline passed or because of cancel(),  *)
(* whether or not Docker has carried the command out.                      *)
Command(possible, effect, next, catch) ==
    \/ /\ ~cancelled /\ possible
       /\ containers' = effect /\ pc' = next
       /\ UNCHANGED faults
    \/ /\ \/ (cancelled \/ ~possible) /\ UNCHANGED faults
          \/ Fault
       /\ containers' \in {containers, effect}
       /\ pc' = catch

(* cleanupCommand: its own deadline, not stopped by cancel(), and every    *)
(* error is swallowed.                                                     *)
CleanupCommand(effect, next) ==
    /\ pc' = next
    /\ \/ containers' = effect /\ UNCHANGED <<faults, swept>>
       \/ Fault /\ containers' \in {containers, effect} /\ swept' = FALSE

-----------------------------------------------------------------------------
(* A deployment begins: reconcileTransientResources removes what carries   *)
(* the transient label, which candidates do and app and backups do not.    *)
Start ==
    /\ pc \in {"closed", "dead"} /\ run < MaxRuns
    /\ run' = run + 1
    /\ containers' = Removed(TryOut)
    /\ pc' = "idle"
    /\ previous' = Gone
    /\ renameAttempted' = FALSE /\ replacementAttempted' = FALSE
    /\ candidateActive' = FALSE /\ retired' = FALSE
    /\ outcome' = "none"
    /\ cancelled' = FALSE /\ reclose' = FALSE
    /\ before' = containers[App]
    /\ swept' = TRUE
    /\ UNCHANGED faults

(* publish is called with the verified artifact: cancellation and the      *)
(* artifact's receipt are checked before the first command.                *)
Publish ==
    /\ pc = "idle"
    /\ \/ /\ ~cancelled
          /\ pc' = "candidate" /\ candidateActive' = TRUE
          /\ UNCHANGED <<outcome, faults>>
       \/ /\ (cancelled /\ UNCHANGED faults) \/ Fault
          /\ pc' = "closing" /\ outcome' = "failed"
          /\ UNCHANGED candidateActive
    /\ UNCHANGED <<containers, run, previous, renameAttempted,
                   replacementAttempted, retired, cancelled, reclose, before,
                   swept>>

(* Create, start and probe the candidate, check the artifact; the finally  *)
(* block removes the candidate in either case.                             *)
RunCandidate ==
    /\ pc = "candidate" /\ pc' = "sweep"
    /\ LET up == [containers EXCEPT ![TryOut] =
                    [id |-> run, running |-> TRUE]]
       IN \/ /\ ~cancelled /\ containers' = up
             /\ UNCHANGED <<outcome, faults>>
          \/ /\ (cancelled /\ UNCHANGED faults) \/ Fault
             /\ containers' \in {containers, Created(TryOut), up}
             /\ outcome' = "failed"
    /\ UNCHANGED <<controller, swept>>

SweepCandidate ==
    /\ pc = "sweep"
    /\ CleanupCommand(Removed(TryOut),
                      IF outcome = "failed" THEN "closing" ELSE "inspect")
    /\ candidateActive' = FALSE
    /\ UNCHANGED <<run, previous, renameAttempted, replacementAttempted,
                   retired, outcome, cancelled, reclose, before>>

(* appState; the try block starts by deciding whether there is an app to   *)
(* move aside.                                                             *)
Inspect ==
    /\ pc = "inspect"
    /\ \/ /\ ~cancelled
          /\ previous' = containers[App]
          /\ renameAttempted' = (containers[App] # Gone)
          /\ replacementAttempted' = (containers[App] = Gone)
          /\ pc' = IF containers[App] = Gone THEN "create" ELSE "rename"
          /\ UNCHANGED <<outcome, faults>>
       \/ /\ (cancelled /\ UNCHANGED faults) \/ Fault
          /\ pc' = "closing" /\ outcome' = "failed"
          /\ UNCHANGED <<previous, renameAttempted, replacementAttempted>>
    /\ UNCHANGED <<containers, run, candidateActive, retired, cancelled,
                   reclose, before, swept>>

(* Mutant: the roll back removes app without asking whether a replacement  *)
(* was attempted.                                                          *)
CatchUnguarded(replacing) == "remove"

(* Where the catch block starts: app is only removed if its replacement    *)
(* was attempted, and there is an app to restore if it was renamed.        *)
Catch(replacing) == IF replacing THEN "remove" ELSE "renameBack"

(* Mutant: the app is stopped first and renamed by the next command.       *)
RenameStopsFirst ==
    /\ pc = "rename"
    /\ Command(TRUE, Stopped(App), "stop", Catch(FALSE))
    /\ UNCHANGED <<controller, outcome, swept>>

Rename ==
    /\ pc = "rename"
    /\ Command(CanRename(App, Backup(run)), Renamed(App, Backup(run)),
               IF previous.running THEN "stop" ELSE "create", Catch(FALSE))
    /\ replacementAttempted' = (pc' = "create")
    /\ UNCHANGED <<run, previous, renameAttempted, candidateActive, retired,
                   outcome, cancelled, reclose, before, swept>>

Stop ==
    /\ pc = "stop"
    /\ Command(TRUE, Stopped(Backup(run)), "create", Catch(FALSE))
    /\ replacementAttempted' = (pc' = "create")
    /\ UNCHANGED <<run, previous, renameAttempted, candidateActive, retired,
                   outcome, cancelled, reclose, before, swept>>

Create ==
    /\ pc = "create"
    /\ Command(containers[App] = Gone, Created(App), "start", Catch(TRUE))
    /\ UNCHANGED <<controller, outcome, swept>>

StartApp ==
    /\ pc = "start"
    /\ Command(CanStart(App), Running(App), "probe", Catch(TRUE))
    /\ UNCHANGED <<controller, outcome, swept>>

(* probeApp, the artifact, the cancellation and the deadline; then publish *)
(* returns and leaves the backup to close().                               *)
ProbeApp ==
    /\ pc = "probe"
    /\ Command(TRUE, containers, "closing", Catch(TRUE))
    /\ outcome' = IF pc' = "closing" THEN "published" ELSE outcome
    /\ retired' = (pc' = "closing" /\ renameAttempted)
    /\ UNCHANGED <<run, previous, renameAttempted, replacementAttempted,
                   candidateActive, cancelled, reclose, before, swept>>

-----------------------------------------------------------------------------
(* The catch block.                                                        *)

RemoveReplacement ==
    /\ pc = "remove"
    /\ CleanupCommand(Removed(App),
                      IF renameAttempted THEN "renameBack" ELSE "lingering")
    /\ UNCHANGED <<controller, outcome>>

(* A step of the restoration: nonzero exits are allowed, a command that    *)
(* runs out of time throws and ends the restoration.                       *)
RestoreCommand(effect, next) ==
    \/ /\ containers' = effect /\ pc' = next
       /\ UNCHANGED <<outcome, faults, swept>>
    \/ /\ Fault /\ swept' = FALSE
       /\ containers' \in {containers, effect}
       /\ \/ pc' = next /\ UNCHANGED outcome
          \/ pc' = "closing" /\ outcome' = "unrestored"

RenameBack ==
    /\ pc = "renameBack"
    /\ RestoreCommand(Renamed(Backup(run), App),
                      IF previous.running THEN "startBack" ELSE "inspectBack")
    /\ UNCHANGED controller

StartBack ==
    /\ pc = "startBack"
    /\ RestoreCommand(Running(App), "inspectBack")
    /\ UNCHANGED controller

Settle(good) ==
    /\ pc' = "closing"
    /\ \/ /\ outcome' = IF good THEN "failed" ELSE "unrestored"
          /\ UNCHANGED <<faults, swept>>
       \/ Fault /\ swept' = FALSE /\ outcome' = "unrestored"
    /\ UNCHANGED <<containers, controller>>

(* The app must be the one inspected before, in the state it was in, and   *)
(* the backup's name must be free.                                         *)
InspectBack ==
    /\ pc = "inspectBack"
    /\ Settle(containers[App] = previous /\ containers[Backup(run)] = Gone)

Lingering ==
    /\ pc = "lingering"
    /\ Settle(containers[App] = Gone)

-----------------------------------------------------------------------------
(* cancel(): every running command is aborted and close() begins, with the *)
(* names that were active then.                                            *)
Cancel ==
    /\ pc \notin {"closed", "dead"} /\ ~cancelled
    /\ cancelled' = TRUE
    /\ reclose' = candidateActive
    /\ UNCHANGED <<containers, run, pc, previous, renameAttempted,
                   replacementAttempted, candidateActive, retired, outcome,
                   before, swept, faults>>

(* performClose, as far as it touches these containers.                    *)
Close ==
    /\ pc = "closing"
    /\ CleanupCommand([n \in Names |->
                        IF (n = TryOut /\ (candidateActive \/ reclose))
                           \/ (n = Backup(run) /\ retired)
                        THEN Gone ELSE containers[n]], "closed")
    /\ UNCHANGED <<controller, outcome>>

(* The controller's container or its host dies; Docker's containers stay.  *)
Crash ==
    /\ pc \notin {"closed", "dead"}
    /\ Fault
    /\ pc' = "dead"
    /\ UNCHANGED <<containers, controller, outcome, swept>>

Step ==
    \/ Publish \/ RunCandidate \/ SweepCandidate \/ Inspect
    \/ Rename \/ Stop \/ Create \/ StartApp \/ ProbeApp
    \/ RemoveReplacement \/ RenameBack \/ StartBack \/ InspectBack \/ Lingering
    \/ Close

Next == Start \/ Step \/ Cancel \/ Crash

(* Every command is bounded by a deadline, so a live controller goes on.   *)
Spec == Init /\ [][Next]_vars /\ WF_vars(Step)

-----------------------------------------------------------------------------
(* A deployment that fails and does not say that the previous app could    *)
(* not be restored has left the app it found: the same container, running  *)
(* or stopped as before, and no container under the backup's name          *)
(* (docker-runtime.mjs:1581-1650).                                         *)
PlainFailureRestores ==
    pc \in {"closing", "closed"} /\ outcome = "failed"
        => containers[App] = before /\ containers[Backup(run)] = Gone

(* Whatever fails, and even if the controller dies half way: until the     *)
(* replacement has passed its probe, the container of the previous app     *)
(* exists, as app or under the backup's name (1560-1583: app is only       *)
(* removed once the rename is known to have happened).                     *)
PreviousAppNeverLost ==
    pc # "closed" /\ outcome # "published" /\ before # Gone
        => \E n \in {App, Backup(run)} : containers[n].id = before.id

(* The roll back runs on its own deadline and after cancel(): a failed or  *)
(* cancelled replacement is stranded only if a clean-up command failed too *)
(* (README.md:364-367).                                                    *)
StrandedOnlyByCleanup ==
    outcome = "unrestored" => ~swept

(* After a deployment that published and whose clean-up commands worked,   *)
(* one container is left: the running replacement.                         *)
PublishedLeavesOneApp ==
    pc = "closed" /\ outcome = "published" /\ swept
        => /\ containers[App] = [id |-> run, running |-> TRUE]
           /\ containers[TryOut] = Gone /\ containers[Backup(run)] = Gone

(* A running app leaves service in two ways only: it is moved aside whole, *)
(* still running, under the backup's name, or it is this deployment's own  *)
(* replacement that is removed.  Nothing else that publish, its roll back, *)
(* cancel() or close() does stops what is serving.                         *)
ServiceMovedAside ==
    [][containers[App].running /\ ~containers'[App].running
         => \/ pc = "rename" /\ containers'[Backup(run)] = containers[App]
            \/ pc = "remove" /\ containers[App].id = run]_vars

(* A cancelled or failing deployment comes to an end: close() completes    *)
(* unless the controller dies.                                             *)
Ends == (pc # "closed") ~> (pc \in {"closed", "dead"})

(* All of these at once: what publish leaves of the previous app, of its   *)
(* replacement and of its candidate.                                       *)
AppSafety ==
    /\ TypeOK /\ PlainFailureRestores /\ PreviousAppNeverLost
    /\ StrandedOnlyByCleanup /\ PublishedLeavesOneApp
=============================================================================
