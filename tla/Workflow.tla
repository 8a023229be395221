------------------------------- MODULE Workflow -------------------------------
(***************************************************************************)
(* A workflow deployment's controller (src/workflow.mjs and runController  *)
(* in src/bimo.mjs): validateWorkflow's search of the role graph, and      *)
(* runWorkflow, which walks that graph one role at a time, records every   *)
(* step in events.jsonl and CHANGELOG.md, verifies the output and replaces *)
(* the published app.                                                      *)
(*                                                                         *)
(* One action ends at one await.  A failed append may have written its     *)
(* line; a failed atomicWrite leaves the old file.  A signal may come at   *)
(* any moment: it cancels the runtime, and the clock throws from then on.  *)
(* What roles, verification and publication do is DockerRuntime and        *)
(* AppPublication; here they succeed or throw.                             *)
(***************************************************************************)
EXTENDS Integers, Sequences, SequencesExt, FiniteSets, Relation

CONSTANTS
    Roles,       \* names of roles
    Start,       \* workflow.start
    MaxSteps,    \* workflow.maxSteps
    MaxFaults    \* bound: failed writes

ASSUME WorkflowAssumption ==
    /\ Start \in Roles /\ "done" \notin Roles
    /\ MaxSteps \in Nat \ {0} /\ MaxFaults \in Nat

VARIABLES
    on,            \* each role's targets, an outcome being its target
    queue, reachable, reachesDone,          \* validateWorkflow's search
    pc, step, activeRole,
    events,        \* the events in memory, in order
    pending,       \* the event that record() is writing, and where it leads
    log,           \* events.jsonl
    changelog,     \* the events that CHANGELOG.md was rendered from
    latest,        \* whether runs/latest names this run
    published,     \* whether the app was replaced
    interrupted,
    faults

search == <<on, queue, reachable, reachesDone>>
files == <<log, changelog, latest>>
vars == <<on, queue, reachable, reachesDone, pc, step, activeRole, events,
          pending, log, changelog, latest, published, interrupted, faults>>

Types == {"run.started", "role.started", "role.failed", "role.finished",
          "verification.passed", "verification.failed",
          "publication.finished", "run.finished", "run.failed"}
Event(type) == [type |-> type, role |-> activeRole, step |-> step]
Calls == {"role", "verify", "publish"}
Working == {"inRole", "inVerify", "inPublish"}
Ended == {"invalid", "returned", "thrown"}

TypeOK ==
    /\ on \in [Roles -> SUBSET (Roles \cup {"done"})]
    /\ \A i \in 1..Len(queue) : queue[i] \in Roles
    /\ reachable \in SUBSET Roles /\ reachesDone \in BOOLEAN
    /\ pc \in {"validate", "append", "render", "latest", "loop", "fail",
               "finish"} \cup Calls \cup Working \cup Ended
    /\ step \in 0..MaxSteps /\ activeRole \in Roles
    /\ \A e \in Range(events) \cup Range(log) \cup Range(changelog) :
         e.type \in Types
    /\ latest \in BOOLEAN /\ published \in BOOLEAN /\ interrupted \in BOOLEAN
    /\ faults \in 0..MaxFaults

Init ==
    /\ on \in [Roles -> (SUBSET (Roles \cup {"done"})) \ {{}}]
    /\ queue = <<Start>> /\ reachable = {} /\ reachesDone = FALSE
    /\ pc = "validate" /\ step = 0 /\ activeRole = Start
    /\ events = <<>> /\ pending = <<>>
    /\ log = <<>> /\ changelog = <<>> /\ latest = FALSE
    /\ published = FALSE /\ interrupted = FALSE /\ faults = 0

Fault == faults < MaxFaults /\ faults' = faults + 1

-----------------------------------------------------------------------------
(* record(type) up to its first await: the event is numbered and kept in   *)
(* memory whatever becomes of the file.                                    *)
RecordThen(e, next) ==
    /\ events' = Append(events, e)
    /\ pending' = <<e, next>>
    /\ pc' = "append"

(* An error in runWorkflow: within the try it is recorded as run.failed,   *)
(* outside it ends the run.                                                *)
Throw ==
    IF pending # <<>> /\ pending[1].type \in {"run.started", "run.failed"}
    THEN pc' = "thrown" /\ UNCHANGED <<events, pending>>
    ELSE RecordThen(Event("run.failed"), "thrown")

(* One turn of validateWorkflow's search.                                  *)
Visit ==
    /\ pc = "validate" /\ queue # <<>>
    /\ LET role == Head(queue)
       IN IF role \in reachable
          THEN queue' = Tail(queue) /\ UNCHANGED <<reachable, reachesDone>>
          ELSE /\ reachable' = reachable \cup {role}
               /\ reachesDone' = (reachesDone \/ "done" \in on[role])
               /\ queue' = Tail(queue) \o SetToSeq(on[role] \ {"done"})
    /\ UNCHANGED <<on, pc, step, activeRole, events, pending, files,
                   published, interrupted, faults>>

(* The search is over: the workflow is refused, or the run directory is    *)
(* made and run.started recorded.                                          *)
Validated ==
    /\ pc = "validate" /\ queue = <<>>
    /\ IF reachesDone /\ reachable = Roles /\ ~interrupted
       THEN RecordThen(Event("run.started"), "latest")
       ELSE pc' = "invalid" /\ UNCHANGED <<events, pending>>
    /\ UNCHANGED <<search, step, activeRole, files, published, interrupted,
                   faults>>

-----------------------------------------------------------------------------
(* record(), its two awaits.                                               *)

AppendLine ==
    /\ pc = "append"
    /\ \/ /\ log' = Append(log, pending[1]) /\ pc' = "render"
          /\ UNCHANGED <<events, pending, faults>>
       \/ Fault /\ log' \in {log, Append(log, pending[1])} /\ Throw
    /\ UNCHANGED <<search, step, activeRole, changelog, latest, published,
                   interrupted>>

RenderChangelog ==
    /\ pc = "render"
    /\ \/ /\ changelog' = events /\ pc' = pending[2] /\ pending' = <<>>
          /\ UNCHANGED <<events, faults>>
       \/ Fault /\ UNCHANGED changelog /\ Throw
    /\ UNCHANGED <<search, step, activeRole, log, latest, published,
                   interrupted>>

WriteLatest ==
    /\ pc = "latest"
    /\ \/ latest' = TRUE /\ pc' = "loop" /\ UNCHANGED <<events, pending, faults>>
       \/ Fault /\ UNCHANGED latest /\ Throw
    /\ UNCHANGED <<search, step, activeRole, log, changelog, published,
                   interrupted>>

-----------------------------------------------------------------------------
(* The loop.  remainingTimeoutSeconds throws once interrupted, and at any  *)
(* time for the deadline.                                                  *)

(* The top of the loop, where the clock is read.                           *)
LoopTop ==
    /\ pc = "loop"
    /\ \/ step = MaxSteps /\ Throw /\ UNCHANGED step
       \/ step < MaxSteps /\ step' = step + 1 /\ Throw
       \/ /\ step < MaxSteps /\ ~interrupted
          /\ step' = step + 1
          /\ RecordThen([Event("role.started") EXCEPT !.step = step + 1], "role")
    /\ UNCHANGED <<search, activeRole, files, published, interrupted, faults>>

(* Mutant: the clock is read after the call only.                          *)
CallUnchecked ==
    /\ pc \in Calls
    /\ \/ /\ pc' = CASE pc = "role" -> "inRole" [] pc = "verify" -> "inVerify"
                    [] pc = "publish" -> "inPublish"
          /\ UNCHANGED <<events, pending>>
       \/ IF pc = "role" THEN RecordThen(Event("role.failed"), "fail") ELSE Throw
    /\ UNCHANGED <<search, step, activeRole, files, published, interrupted,
                   faults>>

(* The clock is read before each call of runRole, verify and publish.      *)
Call ==
    /\ pc \in Calls
    /\ \/ /\ ~interrupted
          /\ pc' = CASE pc = "role" -> "inRole" [] pc = "verify" -> "inVerify"
                    [] pc = "publish" -> "inPublish"
          /\ UNCHANGED <<events, pending>>
       \/ IF pc = "role" THEN RecordThen(Event("role.failed"), "fail") ELSE Throw
    /\ UNCHANGED <<search, step, activeRole, files, published, interrupted,
                   faults>>

(* Mutant: an outcome the role does not have is not refused.               *)
RoleAnyOutcome ==
    /\ pc = "inRole"
    /\ \/ RecordThen(Event("role.failed"), "fail") /\ UNCHANGED activeRole
       \/ /\ ~interrupted
          /\ \E next \in Roles \cup {"done"} :
               /\ RecordThen(Event("role.finished"),
                             IF next = "done" THEN "verify" ELSE "loop")
               /\ activeRole' = IF next = "done" THEN activeRole ELSE next
    /\ UNCHANGED <<search, step, files, published, interrupted, faults>>

(* What validateReceipt lets a role's receipt choose.                      *)
Accepted(role) == on[role]

(* runRole and its receipt: an unknown outcome, a failed or late role and  *)
(* an interrupt are recorded as role.failed.                               *)
RunRole ==
    /\ pc = "inRole"
    /\ \/ RecordThen(Event("role.failed"), "fail") /\ UNCHANGED activeRole
       \/ /\ ~interrupted
          /\ \E next \in Accepted(activeRole) :
               /\ RecordThen(Event("role.finished"),
                             IF next = "done" THEN "verify" ELSE "loop")
               /\ activeRole' = IF next = "done" THEN activeRole ELSE next
    /\ UNCHANGED <<search, step, files, published, interrupted, faults>>

(* The error goes on to the outer catch after role.failed, and after a     *)
(* verification that did not pass.                                         *)
Rethrow ==
    /\ pc = "fail"
    /\ Throw
    /\ UNCHANGED <<search, step, activeRole, files, published, interrupted,
                   faults>>

Verify ==
    /\ pc = "inVerify"
    /\ \/ Throw
       \/ /\ ~interrupted
          /\ \/ RecordThen(Event("verification.passed"), "publish")
             \/ RecordThen(Event("verification.failed"), "fail")
    /\ UNCHANGED <<search, step, activeRole, files, published, interrupted,
                   faults>>

(* publish either replaces the app and returns or restores it and throws;  *)
(* a signal that comes too late to stop it does not undo it.               *)
Publish ==
    /\ pc = "inPublish"
    /\ \/ Throw /\ UNCHANGED published
       \/ /\ published' = TRUE
          /\ RecordThen(Event("publication.finished"), "finish")
    /\ UNCHANGED <<search, step, activeRole, files, interrupted, faults>>

Finish ==
    /\ pc = "finish"
    /\ RecordThen(Event("run.finished"), "returned")
    /\ UNCHANGED <<search, step, activeRole, files, published, interrupted,
                   faults>>

(* SIGINT or SIGTERM; the handlers are removed when the run is over.       *)
Interrupt ==
    /\ pc \notin Ended /\ ~interrupted
    /\ interrupted' = TRUE
    /\ UNCHANGED <<search, pc, step, activeRole, events, pending, files,
                   published, faults>>

Step ==
    \/ Visit \/ Validated \/ AppendLine \/ RenderChangelog \/ WriteLatest
    \/ LoopTop \/ Call \/ RunRole \/ Rethrow \/ Verify \/ Publish \/ Finish

Next == Step \/ Interrupt

(* Roles, verification and publication end by their deadlines.             *)
Spec == Init /\ [][Next]_vars /\ WF_vars(Step)

-----------------------------------------------------------------------------
(* What the start reaches along the edges of the role graph.               *)
Reached ==
    LET nodes == Roles \cup {"done"}
        edges == [x, y \in nodes |-> x \in Roles /\ y \in on[x]]
        reach == ReflexiveTransitiveClosure(edges, nodes)
    IN {n \in nodes : reach[Start, n]}

(* validateWorkflow's search decides what it is to decide: a workflow is   *)
(* refused for its graph exactly if the start cannot reach done or some    *)
(* role cannot be reached.                                                 *)
SearchIsReachability ==
    pc = "validate" /\ queue = <<>>
        => /\ reachesDone = ("done" \in Reached)
           /\ reachable = Reached \ {"done"}

(* The steps that the log tells of.                                        *)
Finished == SelectSeq(log, LAMBDA e : e.type = "role.finished")

(* While no write has failed, events.jsonl tells of one walk through the   *)
(* graph: each step's role is an allowed successor of the role finished    *)
(* before it, and the last finished role leads to done before the output   *)
(* is verified.                                                            *)
LogIsWalk ==
    faults = 0 =>
        /\ \A i \in 1..Len(Finished) : Finished[i].step = i
        /\ Finished # <<>> => Finished[1].role = Start
        /\ \A i \in 1..(Len(Finished) - 1) :
             Finished[i + 1].role \in on[Finished[i].role]
        /\ (\E e \in Range(log) : e.type = "verification.passed")
             => "done" \in on[Last(Finished).role]

(* Successful return, the record on disk and the app agree: the log ends   *)
(* with run.finished, the changelog shows it, latest names the run and the *)
(* app is the verified one.                                                *)
ReturnIsRecorded ==
    pc = "returned" =>
        /\ Last(log).type = "run.finished" /\ Last(changelog).type = "run.finished"
        /\ \E e \in Range(log) : e.type = "verification.passed"
        /\ latest /\ published

(* A run recorded as failed has left the published app alone, unless a     *)
(* write of its record failed (workflow.mjs:591-592: the app is replaced   *)
(* before that is recorded).                                               *)
FailedKeepsApp ==
    log # <<>> /\ Last(log).type = "run.failed" /\ published => faults > 0

(* After a signal no role, verification or publication is begun: the clock *)
(* is read before each of them.                                            *)
NoWorkAfterSignal ==
    [][interrupted /\ pc' # pc => pc' \notin Working]_vars

(* A controller ends: it returns, or it throws.                            *)
RunEnds == <>(pc \in Ended)

(* All of these at once: the validated graph, the walk, the record and the *)
(* app agree.                                                              *)
WorkflowSafety ==
    /\ TypeOK /\ SearchIsReachability /\ LogIsWalk /\ ReturnIsRecorded
    /\ FailedKeepsApp
=============================================================================
