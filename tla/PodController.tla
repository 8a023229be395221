---------------------------- MODULE PodController ----------------------------
(***************************************************************************)
(* The controller of one engineering-pod run (src/pod-controller.mjs,      *)
(* driven by runPodController and internalPodRun of src/bimo.mjs).         *)
(*                                                                         *)
(* An attempt plans, runs three writers at once, consumes their results in *)
(* the order they settle, hands at most one dependency request of writer A *)
(* to the still-running writer B, has every commit checked, integrates,    *)
(* and takes the candidate through the gates.  A failed attempt is thrown  *)
(* away and the next one starts from the same base.                        *)
(*                                                                         *)
(* Agents, Git and the store answer the controller: their answers are      *)
(* nondeterministic.  Commits are numbered per writer and attempt (1: the  *)
(* first commit, or A's checkpoint; 2: the commit after the handoff).      *)
(***************************************************************************)
EXTENDS Integers, Sequences, FiniteSets

CONSTANTS
    MaxAttempts,   \* template.maxAttempts
    PromptsFit     \* no writer's prompt exceeds buildPrompt's size limit

ASSUME ControllerAssumption ==
    MaxAttempts \in Nat \ {0} /\ PromptsFit \in BOOLEAN

VARIABLES
    pc,            \* where the controller is
    attempt,       \* number of the attempt
    writer,        \* each writer execution of the race: running, or its result
    stale,         \* writer executions of earlier attempts still running
    pending,       \* writers whose result the race has not consumed
    winner,        \* the writer the awaited Promise.race resolved to
    initial,       \* outcomes of the accepted writer receipts
    firstError,    \* the error the attempt will fail with
    accepted,      \* per writer, the commit that will be integrated
    checked,       \* <<writer, commit>> pairs with a passed checker receipt
    checkSlot,     \* the writer whose commit is being checked
    checkpoint,    \* A's checkpoint commit, once its request is queued
    combined,      \* B's commit inside the base A resumed on
    gates,         \* <<gate, candidate>> pairs with a passed receipt
    events,        \* types and attempts of the events whose append succeeded
    interrupted,   \* a signal was delivered
    expired,       \* which deadline has passed: "no", "attempt", "workflow"
    cancelled,     \* agents.cancel() was called
    status,        \* "running", "ready" or "failed"
    source         \* the run's Git source: "open", "retained" or "removed"

race == <<writer, stale, pending, winner, initial>>
work == <<accepted, checked, checkSlot, checkpoint, combined, gates>>
env  == <<interrupted, expired, cancelled>>
vars == <<pc, attempt, writer, stale, pending, winner, initial, firstError,
          accepted, checked, checkSlot, checkpoint, combined, gates, events,
          interrupted, expired, cancelled, status, source>>

None == "none"
A == "engineering-a"
B == "engineering-b"
C == "qa-tests"
WriterSlots == {A, B, C}
SlotOrder == <<A, B, C>>
Position(s) == CHOOSE i \in 1..3 : SlotOrder[i] = s

(* What a message says to terminalInterruption: "fault" says nothing,      *)
(* "interrupt" is a cancellation, a timeout or a deadline, "worded" is an  *)
(* agent's own explanation that happens to contain one of the words.       *)
Errors == {"fault", "worded", "interrupt"}
terminalInterruption(e) == e \in {"worded", "interrupt"}

(* What a writer execution settles with: an error, a receipt that fails    *)
(* validation, or a receipt with its outcome.                              *)
Failures == {"fault", "interrupt", "invalid", "failed", "failed-worded"}
Results  == Failures \cup {"completed", "blocked"}

AgentPcs == {"planning", "checkpointing", "checking", "owner", "ownerCheck",
             "requester", "requesterCheck", "qa", "testing", "verify"}
Pcs == AgentPcs \cup {"start", "plan", "launch", "race", "queue", "commit",
                      "check", "handoff", "integrate", "scan", "publishable",
                      "attemptFailed", "ending", "settling", "closing", "done"}
Commits == 0..2
Candidates == [WriterSlots -> Commits]
GateNames == {"qa-conformance", "testing", "trusted-verification",
              "pre-publication-scan"}
EventTypes == {"run.started", "plan.started", "plan.finished",
               "writers.started", "inbox.queued", "attempt.failed",
               "publication.ready"}

TypeOK ==
    /\ pc \in Pcs
    /\ attempt \in 0..MaxAttempts
    /\ writer \in [WriterSlots -> Results \cup {"idle", "running"}]
    /\ stale \subseteq WriterSlots \X (1..MaxAttempts)
    /\ pending \subseteq WriterSlots
    /\ winner \in WriterSlots \cup {None}
    /\ initial \in [WriterSlots -> {None, "completed", "blocked", "failed"}]
    /\ firstError \in Errors \cup {None}
    /\ accepted \in Candidates
    /\ checked \subseteq WriterSlots \X Commits
    /\ checkSlot \in WriterSlots
    /\ checkpoint \in Commits
    /\ combined \in Commits
    /\ gates \subseteq GateNames \X Candidates
    /\ events \in Seq(EventTypes \X (0..MaxAttempts))
    /\ interrupted \in BOOLEAN
    /\ expired \in {"no", "attempt", "workflow"}
    /\ cancelled \in BOOLEAN
    /\ status \in {"running", "ready", "failed"}
    /\ source \in {"open", "retained", "removed"}

NoCandidate == [s \in WriterSlots |-> 0]

Init ==
    /\ pc = "start" /\ attempt = 0
    /\ writer = [s \in WriterSlots |-> "idle"]
    /\ stale = {} /\ pending = {} /\ winner = None
    /\ initial = [s \in WriterSlots |-> None]
    /\ firstError = None
    /\ accepted = NoCandidate /\ checked = {} /\ checkSlot = A
    /\ checkpoint = 0 /\ combined = 0 /\ gates = {}
    /\ events = <<>>
    /\ interrupted = FALSE /\ expired = "no" /\ cancelled = FALSE
    /\ status = "running" /\ source = "open"

-----------------------------------------------------------------------------
(* Clocks, deadlines and errors.                                           *)

(* Mutant of TimeLeft: the clock ignores the signal.                       *)
DeadlineOnly == expired = "no"

(* remainingMs: the clock itself throws once a signal was delivered.       *)
TimeLeft == ~interrupted /\ expired = "no"

(* runAgent and verifySource refuse to start without time left or on a     *)
(* cancelled runtime.  One already in flight when the runtime is cancelled *)
(* may be past its last check and still answer.                            *)
Startable == TimeLeft /\ ~cancelled

(* What an awaited operation of Git, Docker, the store or an agent         *)
(* container can reject with.                                              *)
PortErrors == {"fault", "interrupt"}

Running == {s \in WriterSlots : writer[s] = "running"}

Log(type) == events' = Append(events, <<type, attempt>>)

(* The attempt fails with e; cancelActive is part of the race only.        *)
FailAttempt(e) ==
    /\ firstError' = e
    /\ pc' = "attemptFailed"
    /\ UNCHANGED <<attempt, race, work, events, env, status, source>>

(* The controller awaits an agent at the next pc, if it can be started.    *)
CallAgent(next) ==
    IF Startable THEN pc' = next /\ UNCHANGED firstError
                 ELSE pc' = "attemptFailed" /\ firstError' = "interrupt"

-----------------------------------------------------------------------------
(* Start of the run and of an attempt.                                     *)

Start ==
    /\ pc = "start"
    /\ \/ /\ events' = <<<<"run.started", 0>>>>
          /\ pc' = "plan" /\ attempt' = 1
          /\ UNCHANGED firstError
       \/ \E e \in PortErrors :
              /\ firstError' = e /\ pc' = "ending"
              /\ events' \in {events, <<<<"run.started", 0>>>>}
              /\ UNCHANGED attempt
    /\ UNCHANGED <<race, work, env, status, source>>

(* The attempt's deadline is computed outside the try that would make an   *)
(* error there an attempt.failed event, so a signal ends the run at once.  *)
StartAttempt ==
    /\ pc = "plan"
    /\ \/ /\ interrupted
          /\ pc' = "ending" /\ firstError' = "interrupt"
          /\ UNCHANGED <<race, work, events, expired>>
       \/ /\ ~interrupted
          /\ writer' = [s \in WriterSlots |-> "idle"]
          /\ stale' = stale \cup {<<s, attempt - 1>> : s \in Running}
          /\ pending' = {} /\ winner' = None
          /\ initial' = [s \in WriterSlots |-> None]
          /\ accepted' = NoCandidate /\ checked' = {} /\ checkSlot' = A
          /\ checkpoint' = 0 /\ combined' = 0 /\ gates' = {}
          /\ IF expired = "workflow"
             THEN /\ pc' = "attemptFailed" /\ firstError' = "interrupt"
                  /\ UNCHANGED <<events, expired>>
             ELSE /\ expired' = "no"
                  /\ \/ /\ ~cancelled /\ Log("plan.started")
                        /\ pc' = "planning" /\ firstError' = None
                     \/ \E e \in IF cancelled THEN {"interrupt"} ELSE PortErrors :
                            /\ firstError' = e /\ pc' = "attemptFailed"
                            /\ UNCHANGED events \/ Log("plan.started")
    /\ UNCHANGED <<attempt, interrupted, cancelled, status, source>>

(* The planner's plan is valid, recorded and for this attempt.             *)
PlannerAnswers ==
    /\ pc = "planning"
    /\ pc' = "launch" /\ Log("plan.finished")
    /\ UNCHANGED <<attempt, race, work, firstError, env, status, source>>

(* Three worktrees, writers.started, then three executions at once.        *)
LaunchWriters ==
    /\ pc = "launch" /\ TimeLeft
    /\ Log("writers.started")
    /\ writer' = [s \in WriterSlots |-> "running"]
    /\ pending' = WriterSlots
    /\ pc' = "race"
    /\ UNCHANGED <<attempt, stale, winner, initial, firstError, work, env,
                   status, source>>

(* executeWriter throws for the second or third writer: the deadline has   *)
(* just passed, or its prompt is too large.  The writers launched before   *)
(* it keep running.                                                        *)
LaunchBreaks ==
    /\ pc = "launch" /\ TimeLeft
    /\ Log("writers.started")
    /\ \E launched \in {{A}, {A, B}} :
           writer' = [s \in WriterSlots |->
                          IF s \in launched THEN "running" ELSE "idle"]
    /\ \/ firstError' = "interrupt" /\ expired' = "attempt"
       \/ ~PromptsFit /\ firstError' = "fault" /\ UNCHANGED expired
    /\ pc' = "attemptFailed"
    /\ UNCHANGED <<attempt, stale, pending, winner, initial, work, interrupted,
                   cancelled, status, source>>

LaunchFails ==
    /\ pc = "launch"
    /\ \E e \in PortErrors : FailAttempt(e)

-----------------------------------------------------------------------------
(* The race: writers settle in any order; the controller consumes them.    *)

(* A writer settles.  If the controller is waiting in Promise.race with    *)
(* nothing settled yet, this writer wins it.                               *)
WriterSettles(s) ==
    /\ writer[s] = "running"
    /\ \E r \in Results : writer' = [writer EXCEPT ![s] = r]
    /\ winner' = IF pc = "race" /\ winner = None /\ s \in pending
                 THEN s ELSE winner
    /\ UNCHANGED <<pc, attempt, stale, pending, initial, firstError, work,
                   events, env, status, source>>

StaleSettles ==
    /\ \E x \in stale : stale' = stale \ {x}
    /\ UNCHANGED <<pc, attempt, writer, pending, winner, initial, firstError,
                   work, events, env, status, source>>

(* Mutant of NextWinner: a writer that settled while the controller was    *)
(* elsewhere is not noticed.                                               *)
ForgetSettled(P) == None

(* The next Promise.race: among writers already settled the first in slot  *)
(* order wins.                                                             *)
First(S) == CHOOSE s \in S : \A t \in S : Position(s) <= Position(t)
NextWinner(P) ==
    LET done == {s \in P : writer[s] # "running"} IN
    IF done = {} THEN None ELSE First(done)

KeepFirst(e) == IF firstError = None THEN e ELSE firstError
ErrorOf(r) ==
    CASE r \in {"invalid", "failed"} -> "fault"
      [] r = "failed-worded" -> "worded"
      [] OTHER -> r

(* Only a rejected execution, or an error thrown while a result is         *)
(* processed, is put to terminalInterruption here; a "failed" receipt is   *)
(* not.                                                                    *)
Cancels(r) == r \in {"fault", "interrupt"} /\ terminalInterruption(r)

(* An outcome that needs no await: an error, anything after the first      *)
(* error, a failed or completed receipt, a request that cannot be handed   *)
(* over.                                                                   *)
CanHandOver(s) == s = A /\ B \in Running

Consume(s) ==
    /\ pc = "race" /\ winner = s
    /\ LET r == writer[s]
           rejected == r \in {"fault", "interrupt"}
           skipped == firstError # None /\ ~rejected
       IN
       /\ \/ r # "blocked" \/ skipped \/ ~CanHandOver(s)
       /\ pending' = pending \ {s}
       /\ winner' = NextWinner(pending \ {s})
       /\ cancelled' = (cancelled \/ Cancels(r))
       /\ IF skipped THEN UNCHANGED <<initial, firstError>>
          ELSE /\ initial' = [initial EXCEPT ![s] =
                       CASE r \in {"completed", "blocked"} -> r
                         [] r \in {"failed", "failed-worded"} -> "failed"
                         [] OTHER -> None]
               /\ firstError' = IF r = "completed" THEN firstError
                                ELSE IF r = "blocked" THEN KeepFirst("fault")
                                ELSE KeepFirst(ErrorOf(r))
       /\ UNCHANGED <<pc, attempt, writer, stale, work, events, interrupted,
                      expired, status, source>>

(* A is blocked on B while B still runs: commit A's checkpoint, then have  *)
(* it checked.  B may settle while the checker runs.                       *)
BackToRace(e) ==
    /\ firstError' = e
    /\ cancelled' = (cancelled \/ terminalInterruption(e))
    /\ pc' = "race"

BeginHandover ==
    /\ pc = "race" /\ winner = A /\ writer[A] = "blocked"
    /\ firstError = None /\ CanHandOver(A)
    /\ pending' = pending \ {A}
    /\ initial' = [initial EXCEPT ![A] = "blocked"]
    /\ \/ /\ Startable /\ pc' = "checkpointing" /\ winner' = None
          /\ UNCHANGED <<firstError, cancelled>>
       \/ /\ \E e \in PortErrors : BackToRace(e)
          /\ winner' = NextWinner(pending \ {A})
    /\ UNCHANGED <<attempt, writer, stale, work, events, interrupted, expired,
                   status, source>>

(* The checkpoint's receipt: B must still be running when it passes.       *)
CheckpointChecked ==
    /\ pc = "checkpointing"
    /\ \/ /\ checked' = checked \cup {<<A, 1>>}
          /\ IF B \in Running
             THEN pc' = "queue" /\ UNCHANGED <<winner, firstError, cancelled>>
             ELSE BackToRace("fault") /\ winner' = NextWinner(pending)
       \/ /\ \E e \in Errors : BackToRace(e)
          /\ winner' = NextWinner(pending)
          /\ UNCHANGED checked
    /\ UNCHANGED <<attempt, writer, stale, pending, initial, accepted, checkSlot,
                   checkpoint, combined, gates, events, interrupted, expired,
                   status, source>>

(* enqueueInbox, then the inbox.queued event; the request is remembered    *)
(* between the two.                                                        *)
QueueRequest ==
    /\ pc = "queue"
    /\ winner' = NextWinner(pending)
    /\ \/ /\ checkpoint' = 1 /\ Log("inbox.queued") /\ pc' = "race"
          /\ UNCHANGED <<firstError, cancelled>>
       \/ /\ BackToRace("fault")
          /\ checkpoint' \in {0, 1}
          /\ UNCHANGED events
    /\ UNCHANGED <<attempt, writer, stale, pending, initial, accepted, checked,
                   checkSlot, combined, gates, interrupted, expired, status,
                   source>>

(* Every writer of the attempt has been consumed.                          *)
RaceOver ==
    /\ pc = "race" /\ pending = {}
    /\ pc' = IF firstError = None THEN "commit" ELSE "attemptFailed"
    /\ UNCHANGED <<attempt, race, work, firstError, events, env, status, source>>

-----------------------------------------------------------------------------
(* Commits, checkers and the dependency handoff.                           *)

Completed == {s \in WriterSlots : initial[s] = "completed"}

(* Every completed writer's delta is committed before any is checked.      *)
CommitWriters ==
    /\ pc = "commit"
    /\ \/ /\ TimeLeft
          /\ pc' = "check" /\ checkSlot' = First(Completed)
          /\ UNCHANGED <<attempt, race, accepted, checked, checkpoint, combined,
                         gates, firstError, events, env, status, source>>
       \/ \E e \in PortErrors : FailAttempt(e)

(* A failed check is kept and the remaining writers are still checked.     *)
Later(s) == {t \in Completed : Position(t) > Position(s)}
NextCheck(e) ==
    /\ firstError' = IF e = None THEN firstError ELSE KeepFirst(e)
    /\ IF Later(checkSlot) # {}
       THEN checkSlot' = First(Later(checkSlot)) /\ pc' = "check"
       ELSE /\ pc' = IF firstError' = None THEN "handoff" ELSE "attemptFailed"
            /\ UNCHANGED checkSlot

StartChecker ==
    /\ pc = "check"
    /\ \/ Startable /\ pc' = "checking" /\ UNCHANGED <<checkSlot, firstError>>
       \/ \E e \in PortErrors : NextCheck(e)
    /\ UNCHANGED <<attempt, race, accepted, checked, checkpoint, combined, gates,
                   events, env, status, source>>

CheckerAnswers ==
    /\ pc = "checking"
    /\ \/ /\ NextCheck(None)
          /\ checked' = checked \cup {<<checkSlot, 1>>}
          /\ accepted' = [accepted EXCEPT ![checkSlot] = 1]
       \/ /\ \E e \in Errors : NextCheck(e)
          /\ UNCHANGED <<checked, accepted>>
    /\ UNCHANGED <<attempt, race, checkpoint, combined, gates, events, env,
                   status, source>>

(* With a queued request, B is run again on its own commit with its inbox. *)
Handoff ==
    /\ pc = "handoff"
    /\ IF checkpoint = 0 THEN pc' = "integrate" /\ UNCHANGED firstError
                         ELSE CallAgent("owner")
    /\ UNCHANGED <<attempt, race, work, events, env, status, source>>

(* Mutant of OwnerAnswers: the commit made for the inbox is not checked.   *)
OwnerUnchecked ==
    /\ pc = "owner"
    /\ accepted' = [accepted EXCEPT ![B] = 2]
    /\ combined' = 2
    /\ CallAgent("requester")
    /\ UNCHANGED <<attempt, race, checked, checkSlot, checkpoint, gates, events,
                   env, status, source>>

(* B's second receipt is "completed"; its delta is committed and checked.  *)
OwnerAnswers ==
    /\ pc = "owner"
    /\ CallAgent("ownerCheck")
    /\ UNCHANGED <<attempt, race, work, events, env, status, source>>

(* Mutant of OwnerChecked: B's first commit stays the accepted one.        *)
OwnerKeepsFirst ==
    /\ pc = "ownerCheck"
    /\ checked' = checked \cup {<<B, 2>>}
    /\ combined' = 2
    /\ CallAgent("requester")
    /\ UNCHANGED <<attempt, race, accepted, checkSlot, checkpoint, gates, events,
                   env, status, source>>

(* B's second commit replaces its first, and A resumes on its checkpoint   *)
(* combined with that commit.                                              *)
OwnerChecked ==
    /\ pc = "ownerCheck"
    /\ checked' = checked \cup {<<B, 2>>}
    /\ accepted' = [accepted EXCEPT ![B] = 2]
    /\ combined' = 2
    /\ CallAgent("requester")
    /\ UNCHANGED <<attempt, race, checkSlot, checkpoint, gates, events, env,
                   status, source>>

RequesterAnswers ==
    /\ pc = "requester"
    /\ CallAgent("requesterCheck")
    /\ UNCHANGED <<attempt, race, work, events, env, status, source>>

RequesterChecked ==
    /\ pc = "requesterCheck"
    /\ checked' = checked \cup {<<A, 2>>}
    /\ accepted' = [accepted EXCEPT ![A] = 2]
    /\ pc' = "integrate"
    /\ UNCHANGED <<attempt, race, checkSlot, checkpoint, combined, gates,
                   firstError, events, env, status, source>>

-----------------------------------------------------------------------------
(* Integration and the gates.  The candidate is the triple of commits.     *)

Integrate ==
    /\ pc = "integrate"
    /\ IF \E s \in WriterSlots : accepted[s] = 0
       THEN pc' = "attemptFailed" /\ firstError' = "fault"
       ELSE CallAgent("qa")
    /\ UNCHANGED <<attempt, race, work, events, env, status, source>>

Gate(name) ==
    /\ gates' = gates \cup {<<name, accepted>>}
    /\ UNCHANGED <<attempt, race, accepted, checked, checkSlot, checkpoint,
                   combined, events, env, status, source>>

QaPasses      == pc = "qa" /\ Gate("qa-conformance") /\ CallAgent("testing")
TestingPasses == pc = "testing" /\ Gate("testing") /\ CallAgent("verify")
VerifyPasses  == /\ pc = "verify" /\ Gate("trusted-verification")
                 /\ pc' = "scan" /\ UNCHANGED firstError

(* The scan and the two gate records read no clock.                        *)
ScanPasses    == /\ pc = "scan" /\ Gate("pre-publication-scan")
                 /\ pc' = "publishable" /\ UNCHANGED firstError

(* A reviewer's refusal carries its own explanation into the error.        *)
Worded == {"ownerCheck", "requesterCheck", "qa", "testing"}
StepFails ==
    /\ pc \in {"planning", "handoff", "owner", "ownerCheck", "requester",
               "requesterCheck", "integrate", "qa", "testing", "verify", "scan",
               "publishable"}
    /\ \E e \in PortErrors \cup (IF pc \in Worded THEN {"worded"} ELSE {}) :
           FailAttempt(e)

PublicationReady ==
    /\ pc = "publishable"
    /\ Log("publication.ready")
    /\ status' = "ready" /\ pc' = "closing"
    /\ UNCHANGED <<attempt, race, work, firstError, env, source>>

-----------------------------------------------------------------------------
(* The end of an attempt and of the run.                                   *)

(* A store that cannot append attempt.failed ends the run.                 *)
AttemptFailed ==
    /\ pc = "attemptFailed"
    /\ \/ /\ Log("attempt.failed")
          /\ IF terminalInterruption(firstError) \/ attempt = MaxAttempts
             THEN pc' = "ending" /\ UNCHANGED attempt
             ELSE pc' = "plan" /\ attempt' = attempt + 1
          /\ UNCHANGED firstError
       \/ /\ pc' = "ending" /\ firstError' = "fault"
          /\ UNCHANGED <<attempt, events>>
    /\ UNCHANGED <<race, work, env, status, source>>

CancelActive ==
    /\ pc = "ending"
    /\ cancelled' = TRUE /\ pc' = "settling"
    /\ UNCHANGED <<attempt, race, work, firstError, events, interrupted,
                   expired, status, source>>

(* store.finish("failed") once no execution is left; it may fail twice.    *)
(* The source is closed either way.                                        *)
FinishFailed ==
    /\ pc = "settling" /\ Running = {} /\ stale = {}
    /\ status' \in {"failed", "running"}
    /\ source' \in {"removed", "open"}
    /\ pc' = "done"
    /\ UNCHANGED <<attempt, race, work, firstError, events, env>>

CloseRetained ==
    /\ pc = "closing"
    /\ source' = "retained" /\ pc' = "done"
    /\ UNCHANGED <<attempt, race, work, firstError, events, env, status>>

(* SIGINT or SIGTERM; the handlers are removed when the run is over.       *)
Signal ==
    /\ pc # "done" /\ ~interrupted
    /\ interrupted' = TRUE /\ cancelled' = TRUE
    /\ UNCHANGED <<pc, attempt, race, work, firstError, events, expired, status,
                   source>>

DeadlinePasses ==
    /\ pc # "done"
    /\ \/ expired = "no" /\ expired' \in {"attempt", "workflow"}
       \/ expired = "attempt" /\ expired' = "workflow"
    /\ UNCHANGED <<pc, attempt, race, work, firstError, events, interrupted,
                   cancelled, status, source>>

Controller ==
    \/ Start \/ StartAttempt \/ PlannerAnswers
    \/ LaunchWriters \/ LaunchBreaks \/ LaunchFails
    \/ \E s \in WriterSlots : Consume(s)
    \/ BeginHandover \/ CheckpointChecked \/ QueueRequest \/ RaceOver
    \/ CommitWriters \/ StartChecker \/ CheckerAnswers
    \/ Handoff \/ OwnerAnswers \/ OwnerChecked
    \/ RequesterAnswers \/ RequesterChecked
    \/ Integrate \/ QaPasses \/ TestingPasses \/ VerifyPasses \/ ScanPasses
    \/ StepFails \/ PublicationReady
    \/ AttemptFailed \/ CancelActive \/ FinishFailed \/ CloseRetained

Writers == StaleSettles \/ \E s \in WriterSlots : WriterSettles(s)

Next == Controller \/ Writers \/ Signal \/ DeadlinePasses

(* Every awaited operation settles: agents, Docker and Git commands all    *)
(* run under a timeout, and the event loop resumes the controller.         *)
Spec == /\ Init /\ [][Next]_vars
        /\ WF_vars(Controller) /\ WF_vars(Writers)

-----------------------------------------------------------------------------
(* Properties.                                                             *)

(* A ready run has had every commit it integrates passed by a checker of   *)
(* its own, and all four gates passed on exactly that candidate: no order  *)
(* of settling writers, handoffs and failed checks gets an unreviewed      *)
(* commit to publication (runAttempt).                                     *)
ReadyIsReviewed ==
    status = "ready" =>
        /\ \A s \in WriterSlots : <<s, accepted[s]>> \in checked
        /\ \A g \in GateNames : <<g, accepted>> \in gates

(* When a dependency request was queued, the candidate holds the commit B  *)
(* made in answer to it, and A's commit was made on top of that very       *)
(* commit, never A's checkpoint (runAttempt's inbox branch).               *)
HandoffIntegrated ==
    status = "ready" /\ checkpoint # 0 =>
        accepted[A] = 2 /\ accepted[B] = combined

(* Once a signal was delivered the controller starts no agent and no       *)
(* verification, in whichever phase the signal arrives (the clock passed   *)
(* to runEngineeringPod throws).                                           *)
NoWorkAfterSignal ==
    [][interrupted => /\ pc' \in AgentPcs => pc' = pc
                      /\ Running' \subseteq Running]_vars

(* The run record turns "failed" only when no execution of any attempt is  *)
(* still running, even if the attempt broke while launching its writers    *)
(* (the outer catch awaits activeExecutions).                              *)
FailedRunIsQuiet ==
    status = "failed" => Running = {} /\ stale = {}

(* An attempt that launched all of its writers, of which qa-tests is the   *)
(* last, begins no replacement while one of them runs: the race goes on    *)
(* after the first error until each has been consumed.                     *)
RaceDrains == \A i \in 1..MaxAttempts : <<C, i>> \notin stale

(* All writers of an attempt have settled when the next attempt begins     *)
(* (the race drains every writer after the first error).                   *)
AttemptsDoNotOverlap == stale = {}

(* publication.ready is appended at most once and nothing follows it, and  *)
(* every attempt after the first follows the recorded failure of the one   *)
(* before it: what openPodRunStore and publishRun rely on.                 *)
EventProtocol ==
    \A i \in 1..Len(events) :
        /\ events[i][1] = "publication.ready" => i = Len(events)
        /\ events[i][1] = "plan.started" /\ events[i][2] > 1 =>
               \E j \in 1..(i - 1) :
                   events[j] = <<"attempt.failed", events[i][2] - 1>>

(* Every run ends: no order of settling writers, checkers and signals      *)
(* leaves the race waiting for a writer that has already settled.          *)
RunEnds == <>(pc = "done")

(* Why the race drains: a winner is a pending writer that has settled, and *)
(* a qa-tests writer that runs is pending; what has been consumed without  *)
(* an error is completed, but for A's request.                             *)
RacePcs == {"race", "checkpointing", "queue"}
RaceInv ==
    /\ pending # {} => pc \in RacePcs
    /\ winner # None => winner \in pending /\ writer[winner] \in Results
    /\ \A s \in pending : writer[s] # "idle"
    /\ writer[C] = "running" => C \in pending
    /\ pc \in RacePcs \cup {"commit"} /\ firstError = None =>
         \A s \in {B, C} \ pending : initial[s] = "completed"
    /\ pc = "commit" => firstError = None
    /\ pc = "start" \/ (pc = "plan" /\ attempt = 1) => Running = {}
    /\ pc \notin {"start", "ending", "settling", "done"} => attempt # 0

(* Why what is ready has been reviewed: accepted commits are checked ones, *)
(* and the candidate that goes through the gates does not change.          *)
GatePcs == {"qa", "testing", "verify", "scan", "publishable"}
ReviewInv ==
    /\ \A s \in WriterSlots : accepted[s] # 0 => <<s, accepted[s]>> \in checked
    /\ pc \in GatePcs => \A s \in WriterSlots : accepted[s] # 0
    /\ pc \in GatePcs \ {"qa"} => <<"qa-conformance", accepted>> \in gates
    /\ pc \in GatePcs \ {"qa", "testing"} => <<"testing", accepted>> \in gates
    /\ pc \in {"scan", "publishable"} =>
         <<"trusted-verification", accepted>> \in gates
    /\ pc = "publishable" => <<"pre-publication-scan", accepted>> \in gates
    /\ pc \in {"requester", "requesterCheck"} => accepted[B] = combined
    /\ pc \in GatePcs \cup {"integrate"} /\ checkpoint # 0 =>
         accepted[A] = 2 /\ accepted[B] = combined
    /\ status = "ready" => pc \in {"closing", "done"}
    /\ status = "failed" => pc = "done"

(* Why the log keeps its protocol.                                         *)
LogInv ==
    /\ status # "ready" =>
         \A i \in 1..Len(events) : events[i][1] # "publication.ready"
    /\ pc = "plan" /\ attempt > 1 =>
         \E j \in 1..Len(events) : events[j] = <<"attempt.failed", attempt - 1>>

(* What holds at any moment of a run besides ReadyIsReviewed: the handoff, *)
(* the quiet end, the protocol of the log and the race that drains.        *)
ControllerSafety ==
    /\ TypeOK /\ HandoffIntegrated /\ FailedRunIsQuiet /\ EventProtocol
    /\ RaceDrains /\ RaceInv /\ ReviewInv /\ LogInv
=============================================================================
