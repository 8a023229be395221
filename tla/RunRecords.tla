----------------------------- MODULE RunRecords -----------------------------
(***************************************************************************)
(* The run directories of a deployment as several processes use them: a    *)
(* controller that prunes old runs and creates its own (prunePodRuns and   *)
(* createPodRunStore of src/pod-store.mjs), publishers and controllers     *)
(* that finish runs, and the status command (internalStatus and            *)
(* summarizeRun of src/bimo.mjs), which only reads.                        *)
(*                                                                         *)
(* A run has a directory, a record (run.json) and a log (events.jsonl), of *)
(* which only the last event matters here.  Every read, write and removal  *)
(* of one of them is a step of its own.  Run ids are ordered; finishedAt   *)
(* is the value of a clock.                                                *)
(***************************************************************************)
EXTENDS Integers, FiniteSets

CONSTANTS
    Runs,               \* run ids, as numbers
    KeepTerminalRuns    \* how many terminal runs pruning keeps

Terminal == {"completed", "failed"}
None == "none"

VARIABLES
    dirs,       \* runs that have a directory
    record,     \* the status in run.json, None without one
    log,        \* how events.jsonl ends: active, torn or a terminal status
    finishedAt,
    clock,
    writer,     \* what the process that writes the run is about to do
    ended,      \* the outcome of each run that has one
    ctl,        \* the controller that starts
    view        \* the status command; due: the record when it began

runs == <<dirs, record, log, finishedAt, clock, writer, ended>>
vars == <<dirs, record, log, finishedAt, clock, writer, ended, ctl, view>>

IdleCtl == [step |-> "idle", todo |-> {}, run |-> 0, record |-> None,
            log |-> None, terminal |-> {}, doomed |-> {}]
IdleView == [step |-> "idle", run |-> 0, state |-> None, due |-> None]
Writers == {"none", "record", "log", "running", "rename", "done", "dead"}

TypeOK ==
    /\ dirs \subseteq Runs
    /\ record \in [Runs -> Terminal \cup {None, "running"}]
    /\ log \in [Runs -> Terminal \cup {None, "active", "torn"}]
    /\ \A r \in Runs \ dirs : record[r] = None /\ log[r] = None
    /\ finishedAt \in [Runs -> 0..clock] /\ clock \in Nat
    /\ writer \in [Runs -> Writers]
    /\ ended \in [Runs -> Terminal \cup {None}]
    /\ ctl.step \in {"idle", "list", "examine", "record", "log", "slice",
                     "delete", "create"}
    /\ ctl.todo \subseteq Runs /\ ctl.doomed \subseteq Runs
    /\ view.step \in {"idle", "record", "events", "report"}

(* What there may be of a run at the beginning: nothing, something that is *)
(* malformed (nothing is synced, so a crash of the host can lose the event *)
(* and keep the record), a run at work or waiting, or one that has ended.  *)
Absent == [dir |-> FALSE, record |-> None, log |-> None, at |-> 0]
Malformed == [dir |-> TRUE, record |-> "completed", log |-> "active", at |-> 1]
Running == [dir |-> TRUE, record |-> "running", log |-> "active", at |-> 0]
Ended(at) == [dir |-> TRUE, record |-> "completed", log |-> "completed", at |-> at]

Init ==
    \E first \in [Runs -> {Absent, Malformed, Running, Ended(1), Ended(2)}] :
        /\ dirs = {r \in Runs : first[r].dir}
        /\ record = [r \in Runs |-> first[r].record]
        /\ log = [r \in Runs |-> first[r].log]
        /\ finishedAt = [r \in Runs |-> first[r].at]
        /\ clock = 2
        /\ writer = [r \in Runs |-> IF first[r] = Running THEN "running"
                                    ELSE IF first[r].dir THEN "done" ELSE "none"]
        /\ ended = [r \in Runs |-> IF first[r].dir /\ first[r] # Running
                                   THEN "completed" ELSE None]
        /\ ctl = IdleCtl /\ view = IdleView

-----------------------------------------------------------------------------
(* Processes that write a run.                                             *)

WriteRecord(r) ==
    /\ writer[r] = "record" /\ r \in dirs
    /\ record' = [record EXCEPT ![r] = "running"]
    /\ writer' = [writer EXCEPT ![r] = "log"]
    /\ UNCHANGED <<dirs, log, finishedAt, clock, ended, ctl, view>>

WriteLog(r) ==
    /\ writer[r] = "log" /\ r \in dirs
    /\ log' = [log EXCEPT ![r] = "active"]
    /\ writer' = [writer EXCEPT ![r] = "running"]
    /\ UNCHANGED <<dirs, record, finishedAt, clock, ended, ctl, view>>

(* A creation that fails takes its directory away.                         *)
CreateFails(r) ==
    /\ writer[r] \in {"record", "log"}
    /\ dirs' = dirs \ {r}
    /\ record' = [record EXCEPT ![r] = None]
    /\ writer' = [writer EXCEPT ![r] = "dead"]
    /\ ctl' = IdleCtl
    /\ UNCHANGED <<log, finishedAt, clock, ended, view>>

(* The run is there; the controller's name is free again when it exits.    *)
ControllerExits ==
    /\ ctl.step = "create" /\ writer[ctl.run] \in {"running", "rename", "done", "dead"}
    /\ ctl' = IdleCtl
    /\ UNCHANGED <<runs, view>>

(* Mutant: the record says so before the log does.                         *)
FinishRecordFirst(r) ==
    /\ \/ /\ writer[r] = "running"
          /\ writer' = [writer EXCEPT ![r] = "rename"]
          /\ clock' = clock + 1
          /\ finishedAt' = [finishedAt EXCEPT ![r] = clock + 1]
          /\ record' = [record EXCEPT ![r] = "completed"]
          /\ UNCHANGED <<log, ended>>
       \/ /\ writer[r] = "rename"
          /\ writer' = [writer EXCEPT ![r] = "done"]
          /\ \E status \in Terminal :
               /\ log' = [log EXCEPT ![r] = status]
               /\ ended' = [ended EXCEPT ![r] = status]
          /\ UNCHANGED <<record, finishedAt, clock>>
    /\ UNCHANGED <<dirs, ctl, view>>

(* finish: the run.finished event, then the record.                        *)
Finish(r) ==
    /\ \/ /\ writer[r] = "running"
          /\ writer' = [writer EXCEPT ![r] = "rename"]
          /\ clock' = clock + 1
          /\ finishedAt' = [finishedAt EXCEPT ![r] = clock + 1]
          /\ \E status \in Terminal :
               /\ log' = [log EXCEPT ![r] = status]
               /\ ended' = [ended EXCEPT ![r] = status]
          /\ UNCHANGED record
       \/ /\ writer[r] = "rename"
          /\ writer' = [writer EXCEPT ![r] = "done"]
          /\ record' = [record EXCEPT ![r] = ended[r]]
          /\ UNCHANGED <<log, finishedAt, clock, ended>>
    /\ UNCHANGED <<dirs, ctl, view>>

(* The writer dies, perhaps in the middle of appending an event.           *)
Die(r) ==
    /\ writer[r] \in {"record", "log", "running", "rename"}
    /\ writer' = [writer EXCEPT ![r] = "dead"]
    /\ log' \in {log, IF writer[r] = "running" THEN [log EXCEPT ![r] = "torn"]
                                               ELSE log}
    /\ ctl' = IF ctl.run = r /\ ctl.step = "create" THEN IdleCtl ELSE ctl
    /\ UNCHANGED <<dirs, record, finishedAt, clock, ended, view>>

-----------------------------------------------------------------------------
(* prunePodRuns, by the controller that is about to create run r.          *)

Step(step) == ctl' = [ctl EXCEPT !.step = step]
Unwritten == UNCHANGED <<runs, view>>

Start(r) ==
    /\ ctl.step = "idle" /\ r \notin dirs /\ writer[r] = "none"
    /\ ctl' = [IdleCtl EXCEPT !.step = "list", !.run = r]
    /\ Unwritten

List ==
    /\ ctl.step = "list"
    /\ ctl' = [ctl EXCEPT !.step = "examine", !.todo = dirs]
    /\ Unwritten

(* openPodRunStore: both sizes, the record, the log; none may change       *)
(* meanwhile.  An entry that fails is passed over.                         *)
Entry == CHOOSE r \in ctl.todo : TRUE
Skip == ctl' = [ctl EXCEPT !.step = "examine", !.todo = @ \ {Entry}]

Examine ==
    /\ ctl.step = "examine"
    /\ IF ctl.todo = {} THEN Step("slice")
       ELSE IF record[Entry] = None \/ log[Entry] = None THEN Skip
       ELSE ctl' = [ctl EXCEPT !.step = "record", !.record = record[Entry],
                               !.log = log[Entry]]
    /\ Unwritten

ReadRecord ==
    /\ ctl.step = "record"
    /\ IF record[Entry] = ctl.record THEN Step("log") ELSE Skip
    /\ Unwritten

ValidTerminal(rec, last) == rec \in Terminal /\ last = rec

ReadLog ==
    /\ ctl.step = "log"
    /\ IF log[Entry] = ctl.log /\ ValidTerminal(ctl.record, ctl.log)
       THEN ctl' = [ctl EXCEPT !.step = "examine", !.todo = @ \ {Entry},
                      !.terminal = @ \cup {<<Entry, finishedAt[Entry]>>}]
       ELSE Skip
    /\ Unwritten

(* Newest first, then by run id.                                           *)
Before(x, y) == x[2] > y[2] \/ (x[2] = y[2] /\ x[1] < y[1])

Doomed(terminal) ==
    {x[1] : x \in {y \in terminal :
        Cardinality({z \in terminal : Before(z, y)}) >= KeepTerminalRuns}}

Slice ==
    /\ ctl.step = "slice"
    /\ ctl' = [ctl EXCEPT !.step = "delete", !.doomed = Doomed(ctl.terminal)]
    /\ Unwritten

(* rm: the files in any order, then the directory.                         *)
Remove ==
    /\ ctl.step = "delete" /\ ctl.doomed # {}
    /\ LET r == CHOOSE r \in ctl.doomed : TRUE IN
       \/ /\ record[r] # None /\ record' = [record EXCEPT ![r] = None]
          /\ UNCHANGED <<dirs, log, ctl>>
       \/ /\ log[r] # None /\ log' = [log EXCEPT ![r] = None]
          /\ UNCHANGED <<dirs, record, ctl>>
       \/ /\ record[r] = None /\ log[r] = None
          /\ dirs' = dirs \ {r}
          /\ ctl' = [ctl EXCEPT !.doomed = @ \ {r}]
          /\ UNCHANGED <<record, log>>
    /\ UNCHANGED <<finishedAt, clock, writer, ended, view>>

(* createPodRunStore: the directory first.                                 *)
Create ==
    /\ ctl.step = "delete" /\ ctl.doomed = {}
    /\ dirs' = dirs \cup {ctl.run}
    /\ writer' = [writer EXCEPT ![ctl.run] = "record"]
    /\ Step("create")
    /\ UNCHANGED <<record, log, finishedAt, clock, ended, view>>

(* The controller dies while it prunes, or pruning fails (too many         *)
(* directories, a removal refused) and the run is not created.             *)
PruneFails ==
    /\ ctl.step \in {"list", "examine", "record", "log", "slice", "delete"}
    /\ ctl' = IdleCtl
    /\ Unwritten

-----------------------------------------------------------------------------
(* internalStatus and summarizeRun.                                        *)

Look(r) ==
    /\ view.step = "idle" /\ r \in dirs
    /\ view' = [IdleView EXCEPT !.step = "record", !.run = r,
                              !.due = record[r]]
    /\ UNCHANGED <<runs, ctl>>

LookRecord ==
    /\ view.step = "record"
    /\ view' = [view EXCEPT !.state = record[view.run], !.step = "events"]
    /\ UNCHANGED <<runs, ctl>>

(* The record tells; without one, the last event; with neither, the run    *)
(* has just begun.  A last event that does not parse is an error.          *)
StateOf(rec, last) ==
    IF last = "torn" THEN "unknown" ELSE IF rec # None THEN rec
    ELSE IF last \in Terminal THEN last ELSE "running"

LookEvents ==
    /\ view.step = "events"
    /\ view' = [view EXCEPT !.state = StateOf(view.state, log[view.run]),
                            !.step = "report"]
    /\ UNCHANGED <<runs, ctl>>

Report ==
    /\ view.step = "report"
    /\ view' = IdleView
    /\ UNCHANGED <<runs, ctl>>

Next ==
    \/ \E r \in Runs : \/ WriteRecord(r) \/ WriteLog(r) \/ CreateFails(r)
                       \/ Finish(r) \/ Die(r)
                       \/ Start(r) \/ Look(r)
    \/ ControllerExits \/ List \/ Examine \/ ReadRecord \/ ReadLog \/ Slice
    \/ Remove \/ Create \/ PruneFails
    \/ LookRecord \/ LookEvents \/ Report

Spec == Init /\ [][Next]_vars

-----------------------------------------------------------------------------
(* README.md: "Active, malformed, or unsafe entries are never deleted      *)
(* automatically."  Pruning touches a run only if both its record and its  *)
(* log say that it has ended, whatever its publisher does meanwhile.       *)
OnlyEndedPruned ==
    \A r \in ctl.doomed : writer[r] = "done" /\ ended[r] # None
        /\ record[r] \in {None, ended[r]} /\ log[r] \in {None, ended[r]}

(* README.md: "Bimo retains the newest 20 validated terminal run records." *)
(* A run that goes leaves at least so many that ended later.               *)
NewestKept ==
    \A r \in ctl.doomed :
        Cardinality({q \in dirs \ ctl.doomed :
            /\ ValidTerminal(record[q], log[q])
            /\ Before(<<q, finishedAt[q]>>, <<r, finishedAt[r]>>)})
          >= KeepTerminalRuns

(* Status never reports an end a run has not had.                          *)
ReportsTruth ==
    view.step = "report" /\ view.state \in Terminal
      => view.state = ended[view.run]

(* A status command that begins once the record has the end of a run tells *)
(* that end, unless it reads while the run is being pruned.                *)
StatusFresh ==
    view.step = "report" /\ view.due \in Terminal
      => view.state = view.due \/ record[view.run] = None

(* All of these at once: what holds between the writers of the records,    *)
(* prunePodRuns and a status command at any moment.                        *)
RecordsSafety ==
    /\ TypeOK /\ OnlyEndedPruned /\ NewestKept /\ ReportsTruth
    /\ StatusFresh
=============================================================================
