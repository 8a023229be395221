------------------------------ MODULE PodStore ------------------------------
(***************************************************************************)
(* The durable record of one pod run (src/pod-store.mjs): the run record   *)
(* run.json, the event log events.jsonl, the attempt plans and the         *)
(* per-attempt collections (work results, gate receipts, inboxes).         *)
(*                                                                         *)
(* A handle is what createPodRunStore or openPodRunStore returns: counters *)
(* in memory and a promise chain that runs its operations one at a time.   *)
(* An operation is several steps, one per await, so the process can die,   *)
(* or the file system refuse a write, between any two of them.             *)
(***************************************************************************)
EXTENDS Integers, Sequences, FiniteSets

CONSTANTS
    EventTypes,   \* event types a caller appends (never "run.finished")
    MaxAttempts,  \* attempts of a run (MAX_ATTEMPTS, 10 in the code)
    MaxEvents,    \* events of a run (MAX_EVENTS, 1000 in the code)
    MaxRecords,   \* records of a collection (MAX_COLLECTION_RECORDS, 100)
    MaxQueue,     \* bound: operations waiting on one handle
    MaxFaults     \* bound: file-system failures in a behaviour

Terminal == {"completed", "failed", "cancelled"}
Attempts == 1..MaxAttempts
Kinds    == {"work-results", "gate-receipts", "inbox"}
Events   == <<"events", 0>>
Plan(a)  == <<"plan", a>>
Collections == Kinds \X Attempts
Files    == {Events} \cup Collections

ASSUME StoreAssumption ==
    /\ MaxAttempts \in Nat
    /\ MaxEvents \in Nat \ {0}
    /\ MaxRecords \in Nat
    /\ MaxQueue \in Nat
    /\ MaxFaults \in Nat
    /\ EventTypes \cap (Terminal \cup {"record", "garbage"}) = {}

VARIABLES
    dir,       \* how far the run directory exists on disk
    record,    \* run.json
    files,     \* the append-only files: complete lines and a torn tail
    plans,     \* attempts whose plan.json exists
    handle,    \* which constructor the live process holds a handle from
    count,     \* the handle's counters, eventSequence first among them
    attempt,   \* the handle's run.currentAttempt
    finished,  \* the handle's finished flag
    queue,     \* the handle's promise chain
    faults     \* file-system failures so far

disk == <<dir, record, files, plans>>
mem  == <<handle, count, attempt, finished, queue>>
vars == <<dir, record, files, plans, handle, count, attempt, finished, queue,
          faults>>

(* A terminal status as a tag stands for a run.finished event that carries *)
(* it; "record" is a line of a collection; "garbage" is a line that does   *)
(* not parse: a torn tail with the next line written straight after it.    *)
Tags    == EventTypes \cup Terminal \cup {"record", "garbage"}
Line    == [seq : Nat, tag : Tags]
File    == [lines : Seq(Line), torn : BOOLEAN]
Record  == [status : Terminal \cup {"running"}, attempt : 0..MaxAttempts]
OpFiles == Files \cup {Plan(a) : a \in Attempts}
Op      == [name : {"append", "plan", "finish"}, file : OpFiles, tag : Tags,
            pc : {"queued", "write", "rename"}, seq : Nat,
            attempt : 0..MaxAttempts]

EmptyFile  == [lines |-> <<>>, torn |-> FALSE]
NewRecord  == [status |-> "running", attempt |-> 0]
Garbage    == [seq |-> 0, tag |-> "garbage"]

TypeOK ==
    /\ dir \in {"absent", "made", "recorded", "ready"}
    /\ record \in Record
    /\ files \in [Files -> File]
    /\ plans \in SUBSET Attempts
    /\ handle \in {"none", "creating", "create", "open"}
    /\ count \in [Files -> Nat]
    /\ attempt \in 0..MaxAttempts
    /\ finished \in BOOLEAN
    /\ queue \in Seq(Op)
    /\ faults \in 0..MaxFaults

Init ==
    /\ dir = "absent"
    /\ record = NewRecord
    /\ files = [f \in Files |-> EmptyFile]
    /\ plans = {}
    /\ handle = "none"
    /\ count = [f \in Files |-> 0]
    /\ attempt = 0
    /\ finished = FALSE
    /\ queue = <<>>
    /\ faults = 0

Fault == faults < MaxFaults /\ faults' = faults + 1

-----------------------------------------------------------------------------
(* createPodRunStore: mkdir, run.json, events.jsonl, then the handle.      *)

CreateDir ==
    /\ handle = "none" /\ dir = "absent"
    /\ dir' = "made" /\ handle' = "creating"
    /\ UNCHANGED <<record, files, plans, count, attempt, finished, queue, faults>>

CreateRecord ==
    /\ handle = "creating" /\ dir = "made"
    /\ dir' = "recorded" /\ record' = NewRecord
    /\ UNCHANGED <<files, plans, mem, faults>>

CreateEvents ==
    /\ handle = "creating" /\ dir = "recorded"
    /\ dir' = "ready" /\ handle' = "create"
    /\ count' = [f \in Files |-> 0]
    /\ attempt' = 0 /\ finished' = FALSE
    /\ UNCHANGED <<record, files, plans, queue, faults>>

(* A failed write removes the directory; a failed removal is swallowed.    *)
CreateFails ==
    /\ handle = "creating" /\ Fault
    /\ handle' = "none"
    /\ dir' \in {dir, "absent"}
    /\ UNCHANGED <<record, files, plans, count, attempt, finished, queue>>

-----------------------------------------------------------------------------
(* openPodRunStore: what it accepts, and the handle it returns.            *)

Lines == files[Events].lines
LastTag(s) == IF s = <<>> THEN "garbage" ELSE s[Len(s)].tag
TerminalEvents == {i \in 1..Len(Lines) : Lines[i].tag \in Terminal}

(* Every line is complete, parses and carries its own position.            *)
LogReadable ==
    /\ ~files[Events].torn
    /\ \A i \in 1..Len(Lines) : Lines[i].seq = i /\ Lines[i].tag # "garbage"

(* Mutant of RecordAgrees: an active record is not compared with the log.  *)
TerminalAgrees ==
    record.status # "running" => LastTag(Lines) = record.status

(* The run record and the log agree on whether, and how, the run ended.    *)
RecordAgrees ==
    IF record.status = "running"
    THEN TerminalEvents = {}
    ELSE LastTag(Lines) = record.status

Openable ==
    /\ dir = "ready"
    /\ LogReadable
    /\ Len(Lines) <= MaxEvents
    /\ RecordAgrees

Open ==
    /\ handle = "none"
    /\ Openable
    /\ handle' = "open"
    /\ count' = [f \in Files |-> IF f = Events THEN Len(Lines) ELSE 0]
    /\ attempt' = record.attempt
    /\ finished' = (record.status # "running")
    /\ UNCHANGED <<disk, queue, faults>>

-----------------------------------------------------------------------------
(* Calls put an operation on the handle's promise chain; an opened handle  *)
(* offers appendEvent and finish only.                                     *)

Call(name, file, tag) ==
    [name |-> name, file |-> file, tag |-> tag, pc |-> "queued", seq |-> 0,
     attempt |-> 0]

OpenedCalls == {Call("append", Events, t) : t \in EventTypes}
                   \cup {Call("finish", Events, s) : s \in Terminal}
CreatedCalls == OpenedCalls
                   \cup {Call("plan", Plan(a), "record") : a \in Attempts}
                   \cup {Call("append", f, "record") : f \in Collections}

Request ==
    /\ handle \in {"create", "open"}
    /\ Len(queue) < MaxQueue
    /\ \E c \in IF handle = "open" THEN OpenedCalls ELSE CreatedCalls :
           queue' = Append(queue, c)
    /\ UNCHANGED <<disk, handle, count, attempt, finished, faults>>

(* serialize: only the oldest operation of the chain runs; the mutant lets *)
(* operations overlap.                                                     *)
AnyTurn(i) == i \in 1..Len(queue)
Turn(i) == i = 1 /\ queue # <<>>

Without(s, i) == [j \in 1..(Len(s) - 1) |-> s[IF j < i THEN j ELSE j + 1]]
Leave(i) == queue' = Without(queue, i)
Advance(i, pc) == queue' = [queue EXCEPT ![i].pc = pc]

(* The limits: appendEvent leaves room for the terminal event.             *)
AppendRefused == count[Events] >= MaxEvents - 1
FinishRefused == count[Events] >= MaxEvents
CollectRefused(f) == f[2] \notin plans \/ count[f] >= MaxRecords

(* Mutant of Refused: the finished flag is not looked at.                  *)
RefusedUnfinished(o) ==
    \/ o.name = "append" /\ o.file = Events /\ AppendRefused
    \/ o.name = "append" /\ o.file # Events /\ CollectRefused(o.file)
    \/ o.name = "finish" /\ FinishRefused
Refused(o) ==
    \/ finished
    \/ o.name = "append" /\ o.file = Events /\ AppendRefused
    \/ o.name = "append" /\ o.file # Events /\ CollectRefused(o.file)
    \/ o.name = "finish" /\ FinishRefused

(* The synchronous start: the checks, then the record that will be written *)
(* is built from the counters as they are now.                             *)
Begin(i) ==
    LET o == queue[i] IN
    /\ Turn(i) /\ o.pc = "queued"
    /\ \/ Refused(o) /\ Leave(i)
       \/ /\ ~Refused(o)
          /\ queue' = [queue EXCEPT ![i] =
                 [o EXCEPT !.pc = "write",
                           !.seq = IF o.name = "plan" THEN 0 ELSE count[o.file] + 1,
                           !.attempt = IF o.name = "plan" /\ o.file[2] > attempt
                                       THEN o.file[2] ELSE attempt]]
    /\ UNCHANGED <<disk, handle, count, attempt, finished, faults>>

(* appendFile.  A failed append has written nothing, a part of the line,   *)
(* or the whole line.                                                      *)
Appended(file, line) ==
    [lines |-> Append(file.lines, IF file.torn THEN Garbage ELSE line),
     torn |-> FALSE]
FailedAppends(file, line) ==
    {file, [file EXCEPT !.torn = TRUE], Appended(file, line)}

(* The counter follows the successful append; the mutant forgets it.       *)
ForgetCount(f, n) == UNCHANGED count
SetCount(f, n) == count' = [count EXCEPT ![f] = n]

WriteLine(i) ==
    LET o == queue[i]
        line == [seq |-> o.seq, tag |-> o.tag] IN
    /\ Turn(i) /\ o.pc = "write" /\ o.name \in {"append", "finish"}
    /\ \/ /\ files' = [files EXCEPT ![o.file] = Appended(@, line)]
          /\ SetCount(o.file, o.seq)
          /\ IF o.name = "finish" THEN Advance(i, "rename") ELSE Leave(i)
          /\ UNCHANGED faults
       \/ /\ Fault
          /\ \E g \in FailedAppends(files[o.file], line) :
                 files' = [files EXCEPT ![o.file] = g]
          /\ Leave(i)
          /\ UNCHANGED count
    /\ UNCHANGED <<dir, record, plans, handle, attempt, finished>>

(* atomicCreate of plan.json: refused when the attempt has a plan.         *)
WritePlan(i) ==
    LET o == queue[i] IN
    /\ Turn(i) /\ o.pc = "write" /\ o.name = "plan"
    /\ \/ /\ o.file[2] \notin plans
          /\ plans' = plans \cup {o.file[2]}
          /\ Advance(i, "rename")
          /\ UNCHANGED faults
       \/ /\ o.file[2] \in plans
          /\ Leave(i)
          /\ UNCHANGED <<plans, faults>>
       \/ Fault /\ Leave(i) /\ UNCHANGED plans
    /\ UNCHANGED <<dir, record, files, handle, count, attempt, finished>>

(* atomicWrite of run.json, then the handle's copy of the run.             *)
Renamed(o) ==
    [status |-> IF o.name = "finish" THEN o.tag ELSE "running",
     attempt |-> o.attempt]

Rename(i) ==
    LET o == queue[i] IN
    /\ Turn(i) /\ o.pc = "rename"
    /\ \/ /\ record' = Renamed(o)
          /\ attempt' = o.attempt
          /\ finished' = (finished \/ o.name = "finish")
          /\ UNCHANGED faults
       \/ Fault /\ UNCHANGED <<record, attempt, finished>>
    /\ Leave(i)
    /\ UNCHANGED <<dir, files, plans, handle, count>>

-----------------------------------------------------------------------------
(* The process holding the handle dies, or drops it: memory is gone.       *)
Crash ==
    /\ handle # "none"
    /\ handle' = "none"
    /\ queue' = <<>>
    /\ UNCHANGED <<disk, count, attempt, finished, faults>>

Next ==
    \/ CreateDir \/ CreateRecord \/ CreateEvents \/ CreateFails
    \/ Open
    \/ Request
    \/ \E i \in 1..Len(queue) :
           Begin(i) \/ WriteLine(i) \/ WritePlan(i) \/ Rename(i)
    \/ Crash

Spec == Init /\ [][Next]_vars

-----------------------------------------------------------------------------
(* Properties.                                                             *)

Finishing == record.status = "running" /\ TerminalEvents = {Len(Lines)}

(* While no write has failed, openPodRunStore accepts a created run at any *)
(* moment, a crash at any await included, except in the window of finish   *)
(* between the append of run.finished and the rename of run.json.          *)
CleanRunReopens ==
    faults = 0 /\ dir = "ready" => Openable \/ Finishing

(* Whatever failed on the way, a terminal run.json over a readable log is  *)
(* backed by a final run.finished event with the same status: a finish     *)
(* that failed at the rename and is called again leaves a run that opens.  *)
TerminalRecordBacked ==
    record.status \in Terminal /\ LogReadable => LastTag(Lines) = record.status

(* appendEvent leaves one place free, so finish is never refused for want  *)
(* of room while the log is readable and holds no terminal event, reopened *)
(* handles and failed writes included.                                     *)
TerminalSlotReserved ==
    handle \in {"create", "open"} /\ LogReadable /\ TerminalEvents = {}
        => ~FinishRefused

(* run.json names an attempt only after the attempt's plan.json exists, so *)
(* a reader of the record always finds the plan it points at.              *)
RecordedAttemptHasPlan == record.attempt = 0 \/ record.attempt \in plans

(* Operations issued concurrently number a collection without gaps or      *)
(* repeats and within its limit, so a cursor over an inbox misses nothing. *)
CollectionsNumbered ==
    faults = 0 => \A c \in Collections :
        /\ Len(files[c].lines) <= MaxRecords
        /\ \A i \in 1..Len(files[c].lines) : files[c].lines[i].seq = i

(* Once run.json holds a terminal status nothing of the run's record ever  *)
(* changes again: not the status, not the log, not a plan or a collection. *)
TerminalFrozen ==
    [][record.status \in Terminal => UNCHANGED disk]_vars

(* What an operation on the chain looks like.                              *)
OpShaped ==
    \A i \in 1..Len(queue) :
        LET o == queue[i] IN
        /\ o.tag # "garbage"
        /\ o.name = "append" => o.file \in Files /\ o.tag \notin Terminal
        /\ o.name = "plan"   => \E a \in Attempts : o.file = Plan(a)
        /\ o.name = "finish" => o.file = Events /\ o.tag \in Terminal

(* Only the oldest operation of a live handle's chain has begun.           *)
OneAtATime ==
    /\ handle \in {"none", "creating"} => queue = <<>>
    /\ \A i \in 2..Len(queue) : queue[i].pc = "queued"

(* A terminal record has a complete directory under it, and the handle of  *)
(* a live process knows of it and runs nothing any more.                   *)
FinishedKnown ==
    /\ handle = "creating" => dir \in {"made", "recorded"}
    /\ handle \in {"create", "open"} => dir = "ready"
    /\ dir # "ready" => record = NewRecord /\ files[Events] = EmptyFile
    /\ record.status \in Terminal /\ handle \in {"create", "open"} => finished
    /\ finished => \A i \in 1..Len(queue) : queue[i].pc = "queued"

(* An attempt number in the record, in memory or about to be recorded has  *)
(* its plan; one about to be planned is the operation's own.               *)
PlanBacked ==
    LET known(a) == a = 0 \/ a \in plans IN
    /\ known(record.attempt) /\ known(attempt)
    /\ \A i \in 1..Len(queue) :
           LET o == queue[i] IN
           /\ o.pc = "rename" => known(o.attempt)
           /\ o.pc = "write" => \/ known(o.attempt)
                                \/ o.name = "plan" /\ o.attempt = o.file[2]

(* A finish that is about to rename has its event at the end of the log.   *)
FinishBacked ==
    \A i \in 1..Len(queue) :
        queue[i].name = "finish" /\ queue[i].pc = "rename" /\ LogReadable
            => LastTag(Lines) = queue[i].tag

(* The inductive invariant: the handle's memory and its chain agree with   *)
(* the disk at every await of every operation.                             *)
StoreInv ==
    /\ TypeOK /\ OpShaped /\ OneAtATime /\ FinishedKnown
    /\ PlanBacked /\ FinishBacked
    /\ TerminalRecordBacked

(* While the log is readable and holds no terminal event there is room for *)
(* one: on disk, in the handle's counter and in an append under way.       *)
SlotInv ==
    /\ LogReadable /\ TerminalEvents = {} =>
          /\ Len(Lines) < MaxEvents
          /\ handle \in {"create", "open"} => count[Events] < MaxEvents
    /\ \A i \in 1..Len(queue) :
          queue[i].name = "append" /\ queue[i].file = Events
            /\ queue[i].pc = "write" => queue[i].seq < MaxEvents

Limit(f) == IF f = Events THEN MaxEvents ELSE MaxRecords

(* A file whose lines are all whole, numbered from 1 and within the limit. *)
Sound(f) ==
    /\ ~files[f].torn
    /\ Len(files[f].lines) <= Limit(f)
    /\ \A i \in 1..Len(files[f].lines) :
          files[f].lines[i].seq = i /\ files[f].lines[i].tag # "garbage"

(* What an operation that has begun has to write, or has written, while no *)
(* write has failed: the next line of its file, and nothing follows a      *)
(* terminal event.                                                         *)
InStep(o) ==
    /\ o.pc = "write" =>
          /\ TerminalEvents = {}
          /\ o.name # "plan" => /\ o.seq = Len(files[o.file].lines) + 1
                               /\ o.seq <= Limit(o.file)
    /\ o.pc = "rename" /\ o.name # "finish" => TerminalEvents = {}

(* Every file is sound, the counters of the handle that may append to it   *)
(* agree with it, and a terminal event without a terminal record is the    *)
(* last one, and the finish that appended it is at the head of the chain   *)
(* if its process lives.                                                   *)
Clean ==
    /\ \A f \in Files : Sound(f)
    /\ dir # "ready" => \A f \in Files : files[f] = EmptyFile
    /\ handle = "create" => \A f \in Files : count[f] = Len(files[f].lines)
    /\ handle = "open" =>
          /\ count[Events] = Len(Lines)
          /\ \A i \in 1..Len(queue) : queue[i].file = Events
    /\ record.status = "running" /\ TerminalEvents # {} =>
          /\ TerminalEvents = {Len(Lines)}
          /\ handle \in {"create", "open"} =>
                queue # <<>> /\ queue[1].name = "finish" /\ queue[1].pc = "rename"
    /\ \A i \in 1..Len(queue) : InStep(queue[i])

CleanInv == faults = 0 => Clean

(* All that is claimed of the store at any moment but CleanRunReopens,     *)
(* with the invariants that these claims rest on.                          *)
StoreSafety ==
    /\ StoreInv /\ SlotInv /\ CleanInv
    /\ RecordedAttemptHasPlan /\ TerminalSlotReserved /\ CollectionsNumbered

(* What a reader of the run directory sees: no run, a run being created, a *)
(* run that opens with its status, or a run that does not open.            *)
View ==
    CASE dir = "absent"              -> "none"
      [] dir \in {"made", "recorded"} -> "starting"
      [] Openable                    -> record.status
      [] OTHER                       -> "unsettled"

Lifecycle == INSTANCE RunLifecycle WITH view <- View

(* Through crashes, failed writes and concurrent operations a reader sees  *)
(* the life of a run: it starts, runs, and reaches exactly one terminal    *)
(* status through the window in which it does not open; a run that stopped *)
(* opening never reads as running again.                                   *)
ImplementsLifecycle == Lifecycle!Spec
=============================================================================
