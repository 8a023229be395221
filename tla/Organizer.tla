------------------------------ MODULE Organizer ------------------------------
(***************************************************************************)
(* The organizer (src/organize.mjs, src/organizer-controller.mjs): one to  *)
(* three agents choose a template for an assignment, each within its time, *)
(* and a controller counts their votes and records the run.                *)
(*                                                                         *)
(* One action ends at one await.  A failed append may have written its     *)
(* line; a failed atomicWrite leaves the old file.  A signal may come at   *)
(* any moment while it is handled.  The runtime is DockerRuntime: what it  *)
(* is asked succeeds or throws, and cancel() returns when no execution is  *)
(* left.  Receipts are reduced to the template they name.                  *)
(***************************************************************************)
EXTENDS Integers, Sequences, SequencesExt, FiniteSets

CONSTANTS
    Templates,   \* the installed templates
    MaxFaults    \* bound: failed writes

VARIABLES
    n,             \* agents asked
    pc,
    agent,         \* each agent's execution
    raced,         \* what timedAgent's race of it has come to
    chosen,        \* the template selected
    interrupted,
    cancelled,     \* whether runtime.cancel() was called
    dir, workspace, latest,    \* what prepareRun has made
    record,        \* the status in run.json
    log,           \* events.jsonl
    pending,       \* the event record() is writing, and where it leads
    faults

vars == <<n, pc, agent, raced, chosen, interrupted, cancelled, dir, workspace,
          latest, record, log, pending, faults>>
votes == <<n, agent, raced, chosen>>
disk == <<dir, workspace, latest, record, log>>

Agents == 1..n
Receipts == Templates \cup {"bad"}
Results == Receipts \cup {"error"}
Types == {"run.started", "run.completed", "run.failed"}
Handled == {"digest", "append", "render", "start", "agents", "settling",
            "writeDone", "catch", "cancelling", "writeFailed"}
Ended == {"returned", "thrown"}

TypeOK ==
    /\ n \in 1..3
    /\ pc \in Handled \cup Ended \cup
              {"mkdir", "files", "latest", "undo", "first", "close", "clean"}
    /\ agent \in [Agents -> {"idle", "running"} \cup Results]
    /\ raced \in [Agents -> {"pending"} \cup Results]
    /\ \A i \in Agents : raced[i] \in Receipts => raced[i] = agent[i]
    /\ chosen \in Templates \cup {"none"}
    /\ {interrupted, cancelled, dir, workspace, latest} \subseteq BOOLEAN
    /\ record \in {"none", "running", "completed", "failed"}
    /\ log \in Seq(Types) /\ IsInjective(log)
    /\ faults \in 0..MaxFaults

Init ==
    /\ n \in 1..3 /\ pc = "mkdir"
    /\ agent = [i \in Agents |-> "idle"]
    /\ raced = [i \in Agents |-> "pending"]
    /\ chosen = "none" /\ interrupted = FALSE /\ cancelled = FALSE
    /\ dir = FALSE /\ workspace = FALSE /\ latest = FALSE
    /\ record = "none" /\ log = <<>>
    /\ pending = [type |-> "none", then |-> "none"] /\ faults = 0

Fault == faults < MaxFaults /\ faults' = faults + 1

-----------------------------------------------------------------------------
(* prepareRun.                                                             *)

MakeDir ==
    /\ pc = "mkdir"
    /\ \/ dir' = TRUE /\ pc' = "files" /\ UNCHANGED faults
       \/ Fault /\ pc' = "thrown" /\ UNCHANGED dir
    /\ UNCHANGED <<votes, interrupted, cancelled, workspace, latest, record,
                   log, pending>>

(* The agents' workspaces and an empty events.jsonl.                       *)
MakeFiles ==
    /\ pc = "files"
    /\ \/ workspace' = TRUE /\ pc' = "latest" /\ UNCHANGED faults
       \/ Fault /\ workspace' \in BOOLEAN /\ pc' = "undo"
    /\ UNCHANGED <<votes, interrupted, cancelled, dir, latest, record, log,
                   pending>>

WriteLatest ==
    /\ pc = "latest"
    /\ \/ latest' = TRUE /\ pc' = "first" /\ UNCHANGED faults
       \/ Fault /\ pc' = "undo" /\ UNCHANGED latest
    /\ UNCHANGED <<votes, interrupted, cancelled, dir, workspace, record, log,
                   pending>>

Undo ==
    /\ pc = "undo"
    /\ \/ dir' = FALSE /\ workspace' = FALSE /\ UNCHANGED faults
       \/ Fault /\ dir' \in BOOLEAN /\ workspace' \in {FALSE, workspace}
    /\ pc' = "thrown"
    /\ UNCHANGED <<votes, interrupted, cancelled, latest, record, log,
                   pending>>

(* run.json is written outside the try: if that fails all of it stays.     *)
WriteFirst ==
    /\ pc = "first"
    /\ \/ record' = "running" /\ pc' = "digest" /\ UNCHANGED faults
       \/ Fault /\ pc' = "thrown" /\ UNCHANGED record
    /\ UNCHANGED <<votes, interrupted, cancelled, dir, workspace, latest, log,
                   pending>>

-----------------------------------------------------------------------------
(* record: append the event, then render CHANGELOG.md.  What it throws is  *)
(* swallowed for run.failed.                                               *)

Record(type, then) ==
    pc' = "append" /\ pending' = [type |-> type, then |-> then]

Thrown == IF pending.type = "run.failed" THEN pending.then ELSE "catch"

AppendEvent ==
    /\ pc = "append"
    /\ \/ /\ log' = Append(log, pending.type) /\ pc' = "render"
          /\ UNCHANGED faults
       \/ Fault /\ pc' = Thrown /\ log' \in {log, Append(log, pending.type)}
    /\ UNCHANGED <<votes, interrupted, cancelled, dir, workspace, latest,
                   record, pending>>

Render ==
    /\ pc = "render"
    /\ \/ pc' = pending.then /\ UNCHANGED faults
       \/ Fault /\ pc' = Thrown
    /\ UNCHANGED <<votes, interrupted, cancelled, disk, pending>>

-----------------------------------------------------------------------------
(* The agents.                                                             *)

Digest ==
    /\ pc = "digest"
    /\ \/ Record("run.started", "start")
       \/ pc' = "catch" /\ UNCHANGED pending
    /\ UNCHANGED <<votes, interrupted, cancelled, disk, faults>>

(* runtime.start; then all agents are asked at once.                       *)
StartAgents ==
    /\ pc = "start"
    /\ \/ /\ ~interrupted /\ pc' = "agents"
          /\ agent' = [i \in Agents |-> "running"]
       \/ pc' = "catch" /\ UNCHANGED agent
    /\ UNCHANGED <<n, raced, chosen, interrupted, cancelled, disk, pending,
                   faults>>

AgentSettles(i) ==
    /\ agent[i] = "running"
    /\ \E result \in Results :
         /\ agent' = [agent EXCEPT ![i] = result]
         /\ raced' = IF raced[i] = "pending" THEN [raced EXCEPT ![i] = result]
                     ELSE raced
    /\ UNCHANGED <<n, pc, chosen, interrupted, cancelled, disk, pending,
                   faults>>

(* Mutant: the timers are set only once an agent has failed.               *)
TimerLate(i) ==
    /\ pc = "settling" /\ raced[i] = "pending"
    /\ raced' = [raced EXCEPT ![i] = "error"]
    /\ UNCHANGED <<n, pc, agent, chosen, interrupted, cancelled, disk, pending,
                   faults>>

(* timedAgent: the timer rejects, the execution goes on.                   *)
Timer(i) ==
    /\ pc \in {"agents", "settling"} /\ raced[i] = "pending"
    /\ raced' = [raced EXCEPT ![i] = "error"]
    /\ UNCHANGED <<n, pc, agent, chosen, interrupted, cancelled, disk, pending,
                   faults>>

(* Promise.all rejects: the executions still running are cancelled, and    *)
(* every race is waited for.                                               *)
Rejected ==
    /\ pc = "agents" /\ \E i \in Agents : raced[i] = "error"
    /\ pc' = "settling"
    /\ cancelled' = (cancelled \/ \E i \in Agents : agent[i] = "running")
    /\ UNCHANGED <<votes, interrupted, disk, pending, faults>>

AllSettled ==
    /\ pc = "settling" /\ \A i \in Agents : raced[i] # "pending"
    /\ pc' = "catch"
    /\ UNCHANGED <<votes, interrupted, cancelled, disk, pending, faults>>

Count(t) == Cardinality({i \in Agents : raced[i] = t})

(* Mutant: half of the votes are enough.                                   *)
WinnersByHalf == {t \in Templates : 2 * Count(t) >= n}

(* chooseTemplate: all of two, else at least half of them rounded up.      *)
Winners == {t \in Templates : IF n = 2 THEN Count(t) = n
                              ELSE Count(t) >= (n + 1) \div 2}

chooseTemplate ==
    CHOOSE t \in Winners : \A u \in Winners : Count(t) >= Count(u)

(* Every agent has answered.                                               *)
Counted ==
    /\ pc = "agents" /\ \A i \in Agents : raced[i] \in Receipts
    /\ IF (\E i \in Agents : raced[i] = "bad") \/ Winners = {} \/ interrupted
       THEN pc' = "catch" /\ UNCHANGED <<chosen, pending>>
       ELSE chosen' = chooseTemplate /\ Record("run.completed", "writeDone")
    /\ UNCHANGED <<n, agent, raced, interrupted, cancelled, disk, faults>>

-----------------------------------------------------------------------------
(* The end.                                                                *)

WriteDone ==
    /\ pc = "writeDone"
    /\ \/ record' = "completed" /\ pc' = "close" /\ UNCHANGED faults
       \/ Fault /\ pc' = "catch" /\ UNCHANGED record
    /\ UNCHANGED <<votes, interrupted, cancelled, dir, workspace, latest, log,
                   pending>>

Catch ==
    /\ pc = "catch"
    /\ cancelled' = TRUE /\ pc' = "cancelling"
    /\ UNCHANGED <<votes, interrupted, disk, pending, faults>>

Cancelled ==
    /\ pc = "cancelling" /\ \A i \in Agents : agent[i] # "running"
    /\ Record("run.failed", "writeFailed")
    /\ UNCHANGED <<votes, interrupted, cancelled, disk, faults>>

WriteFailed ==
    /\ pc = "writeFailed"
    /\ \/ record' = "failed" /\ UNCHANGED faults
       \/ Fault /\ UNCHANGED record
    /\ pc' = "close"
    /\ UNCHANGED <<votes, interrupted, cancelled, dir, workspace, latest, log,
                   pending>>

Close ==
    /\ pc = "close" /\ pc' = "clean"
    /\ UNCHANGED <<votes, interrupted, cancelled, disk, pending, faults>>

Clean ==
    /\ pc = "clean"
    /\ \/ workspace' = FALSE /\ UNCHANGED faults
       \/ Fault /\ UNCHANGED workspace
    /\ pc' = IF pending.type = "run.failed" THEN "thrown" ELSE "returned"
    /\ UNCHANGED <<votes, interrupted, cancelled, dir, latest, record, log,
                   pending>>

Signal ==
    /\ pc \in Handled /\ ~interrupted
    /\ interrupted' = TRUE /\ cancelled' = TRUE
    /\ UNCHANGED <<votes, pc, disk, pending, faults>>

Controller ==
    \/ MakeDir \/ MakeFiles \/ WriteLatest \/ Undo \/ WriteFirst
    \/ AppendEvent \/ Render \/ Digest \/ StartAgents \/ Rejected \/ AllSettled
    \/ Counted \/ WriteDone \/ Catch \/ Cancelled \/ WriteFailed \/ Close
    \/ Clean

Next ==
    \/ Controller \/ Signal
    \/ \E i \in Agents : AgentSettles(i) \/ Timer(i)

(* The controller goes on, timers fire, and an execution that is cancelled *)
(* ends.  No agent need answer.                                            *)
TimeGoesOn ==
    \E i \in Agents : Timer(i) \/ (cancelled /\ AgentSettles(i))

Spec == Init /\ [][Next]_vars /\ WF_vars(Controller) /\ WF_vars(TimeGoesOn)

-----------------------------------------------------------------------------
(* README.md:557-558: "One valid vote selects with `-n 1`; two must be      *)
(* unanimous; three require a majority."  A template on record as selected *)
(* has more than half of all the agents' votes, and every agent gave a     *)
(* valid one (chooseTemplate).                                             *)
SelectedByMajority ==
    record = "completed" =>
        2 * Cardinality({i \in Agents : agent[i] = chosen}) > n
        /\ \A i \in Agents : agent[i] \in Templates

(* Once the outcome is on record no agent is at work any more, also not    *)
(* one that had run out of its time or was launched beside one that        *)
(* failed: the catch waits for runtime.cancel().                           *)
EndedIsQuiet ==
    record \in {"completed", "failed"} =>
        \A i \in Agents : agent[i] # "running"

(* What the controller tells its caller and what it leaves on record are   *)
(* the same, whichever write fails: a run that threw is not on record as   *)
(* completed, and one that returned is, as is the event.                   *)
OutcomeRecorded ==
    /\ pc = "thrown" => record # "completed"
    /\ pc = "returned" => record = "completed" /\ Last(log) = "run.completed"

(* runs/latest never names a run without a directory: prepareRun writes it *)
(* last, after which nothing is undone.                                    *)
LatestExists == latest => dir

(* No agent is asked once a signal has come, whatever was awaited then.    *)
NoAgentAfterSignal ==
    [][interrupted => \A i \in Agents : agent'[i] = "running"
                                          => agent[i] = "running"]_vars

(* The run ends, although no agent need ever answer.                       *)
RunEnds == <>(pc \in Ended)

(* All of these at once: the votes, the agents and what is on record       *)
(* agree.                                                                  *)
OrganizerSafety ==
    /\ TypeOK /\ SelectedByMajority /\ EndedIsQuiet /\ OutcomeRecorded
    /\ LatestExists
=============================================================================
