--------------------------- MODULE PodStoreProofs ---------------------------
(***************************************************************************)
(* Proofs about the run store, for every number of attempts, events,       *)
(* records, waiting operations and file-system failures.                   *)
(***************************************************************************)
EXTENDS PodStore, TLAPS

(* Leave(1) drops the oldest operation and keeps the order of the others.  *)
LEMMA WithoutFirst ==
    ASSUME NEW S, NEW s \in Seq(S), 1 \in 1..Len(s)
    PROVE  /\ Without(s, 1) \in Seq(S)
           /\ Len(Without(s, 1)) = Len(s) - 1
           /\ \A j \in 1..(Len(s) - 1) : Without(s, 1)[j] = s[j + 1]
<1> DEFINE w == [j \in 1..(Len(s) - 1) |-> s[j + 1]]
<1>1. Len(s) - 1 \in Nat /\ \A j \in 1..(Len(s) - 1) : s[j + 1] \in S
  OBVIOUS
<1>2. Without(s, 1) = w
  BY DEF Without
<1>3. w \in Seq(S) /\ Len(w) = Len(s) - 1
  BY <1>1
<1> QED
  BY Zenon, <1>2, <1>3

(* A line added to an append-only file, or a failed attempt at it, leaves  *)
(* an append-only file.                                                    *)
LEMMA AppendedType ==
    ASSUME NEW file \in File, NEW line \in Line
    PROVE  /\ Appended(file, line) \in File
           /\ FailedAppends(file, line) \subseteq File
<1>1. Garbage \in Line
  BY DEF Garbage, Line, Tags
<1>2. Append(file.lines, IF file.torn THEN Garbage ELSE line) \in Seq(Line)
  BY <1>1 DEF File
<1>3. Appended(file, line) \in File
  BY <1>2 DEF Appended, File
<1>4. [file EXCEPT !.torn = TRUE] \in File
  BY Zenon DEF File
<1> QED
  BY <1>3, <1>4 DEF FailedAppends

(* The record and the files of a new run have their types.                 *)
LEMMA NewTypes == NewRecord \in Record /\ EmptyFile \in File
<1>1. 0 \in 0..MaxAttempts
  BY StoreAssumption DEF StoreAssumption
<1>2. NewRecord \in Record
  BY <1>1 DEF NewRecord, Record
<1>3. EmptyFile \in File
  BY DEF EmptyFile, File
<1> QED
  BY <1>2, <1>3

(* The invariant holds before the run directory exists.                    *)
LEMMA InitStoreInv == Init => StoreInv
<1> SUFFICES ASSUME Init PROVE StoreInv
  OBVIOUS
<1> USE StoreAssumption DEF Init, StoreAssumption
<1>1. TypeOK
  <2>1. files \in [Files -> File] /\ count \in [Files -> Nat]
    BY NewTypes
  <2>2. record \in Record
    BY NewTypes
  <2>3. attempt \in 0..MaxAttempts /\ faults \in 0..MaxFaults
    OBVIOUS
  <2>4. queue \in Seq(Op) /\ plans \in SUBSET Attempts
    OBVIOUS
  <2> QED
    BY Zenon, <2>1, <2>2, <2>3, <2>4 DEF TypeOK
<1>2. OpShaped /\ OneAtATime /\ FinishBacked
  BY DEF OpShaped, OneAtATime, FinishBacked
<1>3. FinishedKnown
  BY DEF FinishedKnown, Files
<1>4. PlanBacked
  BY DEF PlanBacked, NewRecord
<1>5. TerminalRecordBacked
  BY DEF TerminalRecordBacked, NewRecord, Terminal
<1> QED
  BY <1>1, <1>2, <1>3, <1>4, <1>5 DEF StoreInv

(* Creating a run keeps the invariant, failed creations included.          *)
LEMMA CreateStoreInv ==
    StoreInv /\ (CreateDir \/ CreateRecord \/ CreateEvents \/ CreateFails) => StoreInv'
<1> SUFFICES ASSUME StoreInv,
                    CreateDir \/ CreateRecord \/ CreateEvents \/ CreateFails
             PROVE  StoreInv'
  OBVIOUS
<1> USE StoreAssumption DEF StoreAssumption
<1>0. /\ TypeOK /\ OpShaped /\ OneAtATime /\ FinishedKnown
      /\ PlanBacked /\ FinishBacked /\ TerminalRecordBacked
  BY DEF StoreInv
<1>1. /\ handle \in {"none", "creating"} /\ queue = <<>> /\ queue' = queue
      /\ UNCHANGED <<files, plans>>
      /\ dir # "ready" /\ record = NewRecord /\ record' = NewRecord
      /\ handle' # "open"
  BY <1>0 DEF CreateDir, CreateRecord, CreateEvents, CreateFails, OneAtATime,
              FinishedKnown, mem
<1>2. TypeOK'
  <2>1. count' \in [Files -> Nat] /\ attempt' \in 0..MaxAttempts /\ finished' \in BOOLEAN
    <3>1. CASE CreateEvents
      <4>1. count' = [f \in Files |-> 0] /\ attempt' = 0 /\ finished' = FALSE
        BY <3>1 DEF CreateEvents
      <4>2. 0 \in Nat /\ 0 \in 0..MaxAttempts
        OBVIOUS
      <4> QED
        BY Zenon, <4>1, <4>2
    <3>2. CASE UNCHANGED <<count, attempt, finished>>
      BY <1>0, <3>2 DEF TypeOK
    <3> QED
      BY <3>1, <3>2 DEF CreateDir, CreateRecord, CreateFails, mem
  <2>2. faults' \in 0..MaxFaults
    BY <1>0 DEF TypeOK, CreateDir, CreateRecord, CreateEvents, CreateFails, Fault
  <2>3. /\ dir' \in {"absent", "made", "recorded", "ready"}
        /\ handle' \in {"none", "creating", "create", "open"}
    BY <1>0 DEF TypeOK, CreateDir, CreateRecord, CreateEvents, CreateFails, mem
  <2> QED
    BY <1>0, <1>1, <2>1, <2>2, <2>3, NewTypes DEF TypeOK
<1>3. OpShaped' /\ OneAtATime' /\ FinishBacked'
  BY <1>1 DEF OpShaped, OneAtATime, FinishBacked
<1>4. FinishedKnown'
  BY <1>0, <1>1 DEF FinishedKnown, TypeOK, CreateDir, CreateRecord, CreateEvents,
              CreateFails, NewRecord, Terminal, mem
<1>5. PlanBacked'
  BY <1>0, <1>1 DEF PlanBacked, CreateDir, CreateRecord, CreateEvents, CreateFails,
              NewRecord, mem
<1>6. TerminalRecordBacked'
  BY <1>1 DEF TerminalRecordBacked, NewRecord, Terminal
<1> QED
  BY <1>2, <1>3, <1>4, <1>5, <1>6 DEF StoreInv

(* The log's readings only look at the log.                                *)
LEMMA SameLog ==
    ASSUME UNCHANGED files
    PROVE  LogReadable' = LogReadable /\ Lines' = Lines
           /\ LastTag(Lines)' = LastTag(Lines)
BY DEF LogReadable, Lines, LastTag

(* Opening a run gives a handle that agrees with the disk.                 *)
LEMMA OpenStoreInv == StoreInv /\ Open => StoreInv'
<1> SUFFICES ASSUME StoreInv, Open PROVE StoreInv'
  OBVIOUS
<1> USE StoreAssumption DEF StoreAssumption
<1>0. /\ TypeOK /\ OpShaped /\ OneAtATime /\ FinishedKnown
      /\ PlanBacked /\ FinishBacked /\ TerminalRecordBacked
  BY DEF StoreInv
<1>1. queue = <<>> /\ queue' = queue /\ UNCHANGED <<disk, faults>>
      /\ handle' = "open" /\ dir = "ready"
      /\ attempt' = record.attempt /\ finished' = (record.status # "running")
  BY <1>0 DEF Open, Openable, OneAtATime
<1>2. Len(Lines) \in Nat
  BY <1>0 DEF TypeOK, Lines, Files, File
<1>3. TypeOK'
  BY <1>0, <1>1, <1>2 DEF TypeOK, Open, disk, Record
<1>4. OpShaped' /\ OneAtATime' /\ FinishBacked'
  BY <1>1 DEF OpShaped, OneAtATime, FinishBacked
<1>5. FinishedKnown'
  <2>1. record.status \in Terminal => finished'
    BY Zenon, <1>1 DEF Terminal
  <2> QED
    BY <2>1, <1>1 DEF FinishedKnown, disk
<1>6. PlanBacked'
  BY <1>0, <1>1 DEF PlanBacked, disk
<1>7. TerminalRecordBacked'
  BY Zenon, <1>0, <1>1, SameLog DEF TerminalRecordBacked, disk
<1> QED
  BY <1>3, <1>4, <1>5, <1>6, <1>7 DEF StoreInv

(* A dropped handle takes its chain with it.                               *)
LEMMA CrashStoreInv == StoreInv /\ Crash => StoreInv'
<1> SUFFICES ASSUME StoreInv, Crash PROVE StoreInv'
  OBVIOUS
<1>0. /\ TypeOK /\ FinishedKnown /\ PlanBacked /\ TerminalRecordBacked
  BY DEF StoreInv
<1>1. queue' = <<>> /\ handle' = "none"
      /\ UNCHANGED <<disk, count, attempt, finished, faults>>
  BY DEF Crash
<1>2. TypeOK'
  BY <1>0, <1>1 DEF TypeOK, disk
<1>3. OpShaped' /\ OneAtATime' /\ FinishBacked'
  BY <1>1 DEF OpShaped, OneAtATime, FinishBacked
<1>4. FinishedKnown' /\ PlanBacked'
  BY <1>0, <1>1 DEF FinishedKnown, PlanBacked, disk
<1>5. TerminalRecordBacked'
  BY Zenon, <1>0, <1>1, SameLog DEF TerminalRecordBacked, disk
<1> QED
  BY <1>2, <1>3, <1>4, <1>5 DEF StoreInv

(* A call joins the chain at its end, unstarted.                           *)
LEMMA RequestStoreInv == StoreInv /\ Request => StoreInv'
<1> SUFFICES ASSUME StoreInv, Request PROVE StoreInv'
  OBVIOUS
<1> USE StoreAssumption DEF StoreAssumption
<1>0. /\ TypeOK /\ OpShaped /\ OneAtATime /\ FinishedKnown
      /\ PlanBacked /\ FinishBacked /\ TerminalRecordBacked
  BY DEF StoreInv
<1>1. UNCHANGED <<disk, handle, count, attempt, finished, faults>>
      /\ handle \in {"create", "open"}
  BY DEF Request
<1>2. PICK c \in CreatedCalls : queue' = Append(queue, c)
  BY DEF Request, CreatedCalls
<1>3. /\ c \in Op /\ c.pc = "queued" /\ c.tag # "garbage"
      /\ c.name = "append" => c.file \in Files /\ c.tag \notin Terminal
      /\ c.name = "plan"   => \E a \in Attempts : c.file = Plan(a)
      /\ c.name = "finish" => c.file = Events /\ c.tag \in Terminal
  <2>1. CASE c \in OpenedCalls
    BY <2>1 DEF OpenedCalls, Call, Op, OpFiles, Files, Tags, Terminal
  <2>2. CASE c \in {Call("plan", Plan(a), "record") : a \in Attempts}
    BY <2>2 DEF Call, Op, OpFiles, Tags, Terminal
  <2>3. CASE c \in {Call("append", f, "record") : f \in Collections}
    BY <2>3 DEF Call, Op, OpFiles, Files, Tags, Terminal
  <2> QED
    BY <1>2, <2>1, <2>2, <2>3 DEF CreatedCalls
<1>4. queue \in Seq(Op)
  BY <1>0 DEF TypeOK
<1>5. /\ queue' \in Seq(Op) /\ Len(queue') = Len(queue) + 1
      /\ \A i \in 1..Len(queue) : queue'[i] = queue[i]
      /\ queue'[Len(queue) + 1] = c
  BY <1>2, <1>3, <1>4
<1>6. TypeOK'
  BY <1>0, <1>1, <1>5 DEF TypeOK, disk
<1>7. OpShaped'
  BY <1>0, <1>3, <1>4, <1>5 DEF OpShaped
<1>8. OneAtATime'
  BY <1>0, <1>1, <1>3, <1>4, <1>5 DEF OneAtATime
<1>9. FinishedKnown'
  BY <1>0, <1>1, <1>3, <1>4, <1>5 DEF FinishedKnown, disk
<1>10. PlanBacked'
  BY <1>0, <1>1, <1>3, <1>4, <1>5 DEF PlanBacked, disk
<1>11. FinishBacked' /\ TerminalRecordBacked'
  BY <1>0, <1>1, <1>3, <1>4, <1>5, SameLog
     DEF FinishBacked, TerminalRecordBacked, disk
<1> QED
  BY <1>6, <1>7, <1>8, <1>9, <1>10, <1>11 DEF StoreInv

(* When the oldest operation leaves the chain, what is left of it has not  *)
(* begun, so whatever else the step does to the disk and to the counters   *)
(* only the record and the log have to be looked at.                       *)
LEMMA LeaveChain ==
    ASSUME StoreInv, queue # <<>>, Leave(1), UNCHANGED handle,
           handle \in {"create", "open"}
    PROVE  /\ queue' \in Seq(Op)
           /\ OpShaped' /\ OneAtATime'
           /\ \A i \in 1..Len(queue') : queue'[i].pc = "queued"
<1>1. queue \in Seq(Op) /\ OpShaped /\ OneAtATime
  BY DEF StoreInv, TypeOK
<1>2. 1 \in 1..Len(queue)
  BY <1>1
<1>3. /\ queue' \in Seq(Op) /\ Len(queue') = Len(queue) - 1
      /\ \A j \in 1..(Len(queue) - 1) : queue'[j] = queue[j + 1]
  BY <1>1, <1>2, WithoutFirst DEF Leave
<1>4. OpShaped'
  BY <1>1, <1>3 DEF OpShaped
<1>5. \A i \in 1..Len(queue') : queue'[i].pc = "queued"
  BY <1>1, <1>3 DEF OneAtATime
<1>6. OneAtATime'
  BY <1>3, <1>5 DEF OneAtATime
<1> QED
  BY <1>3, <1>4, <1>5, <1>6

(* The oldest operation starts: it is refused, or it has built its record. *)
LEMMA BeginStoreInv ==
    ASSUME StoreInv, NEW i \in 1..Len(queue), Begin(i)
    PROVE  StoreInv'
<1> USE StoreAssumption DEF StoreAssumption
<1>0. /\ TypeOK /\ OpShaped /\ OneAtATime /\ FinishedKnown
      /\ PlanBacked /\ FinishBacked /\ TerminalRecordBacked
  BY DEF StoreInv
<1>1. /\ UNCHANGED <<disk, handle, count, attempt, finished, faults>>
      /\ i = 1 /\ queue # <<>> /\ queue[1].pc = "queued"
      /\ handle \in {"create", "open"}
  BY <1>0 DEF Begin, Turn, OneAtATime, TypeOK
<1>2. queue \in Seq(Op) /\ queue[1] \in Op
  BY <1>0, <1>1 DEF TypeOK
<1>3. CASE Leave(1)
  <2>1. /\ queue' \in Seq(Op) /\ OpShaped' /\ OneAtATime'
        /\ \A j \in 1..Len(queue') : queue'[j].pc = "queued"
    BY <1>1, <1>3, LeaveChain
  <2>2. TypeOK'
    BY <1>0, <1>1, <2>1 DEF TypeOK, disk
  <2>3. FinishedKnown' /\ PlanBacked' /\ FinishBacked'
    BY <1>0, <1>1, <2>1 DEF FinishedKnown, PlanBacked, FinishBacked, disk
  <2>4. TerminalRecordBacked'
    BY Zenon, <1>0, <1>1, SameLog DEF TerminalRecordBacked, disk
  <2> QED
    BY <2>1, <2>2, <2>3, <2>4 DEF StoreInv
<1>4. CASE ~Refused(queue[1]) /\ ~Leave(1)
  <2> DEFINE o == queue[1]
             sq == IF o.name = "plan" THEN 0 ELSE count[o.file] + 1
             at == IF o.name = "plan" /\ o.file[2] > attempt
                   THEN o.file[2] ELSE attempt
             b == [o EXCEPT !.pc = "write", !.seq = sq, !.attempt = at]
  <2>1. queue' = [queue EXCEPT ![1] = b] /\ ~finished
    BY <1>1, <1>4 DEF Begin, Refused
  <2>2. sq \in Nat
    <3>1. CASE o.name = "plan"
      BY <3>1
    <3>2. CASE o.name # "plan"
      <4>1. o.file \in Files
        BY <1>0, <1>1, <1>2, <3>2 DEF OpShaped, Files, Op
      <4> QED
        BY <1>0, <3>2, <4>1 DEF TypeOK
    <3> QED
      BY <3>1, <3>2
  <2>3. at \in 0..MaxAttempts /\ (at = attempt \/ (o.name = "plan" /\ at = o.file[2]))
    <3>1. o.name = "plan" => o.file[2] \in 1..MaxAttempts
      BY <1>0, <1>1, <1>2 DEF OpShaped, Plan, Attempts
    <3> QED
      BY <1>0, <3>1 DEF TypeOK
  <2> HIDE DEF sq, at
  <2>4. /\ b \in Op /\ b.name = o.name /\ b.file = o.file /\ b.tag = o.tag
        /\ b.pc = "write"
        /\ b.attempt = attempt \/ (b.name = "plan" /\ b.attempt = b.file[2])
    BY Zenon, <1>2, <2>2, <2>3 DEF Op
  <2> HIDE DEF b
  <2>5. /\ queue' \in Seq(Op) /\ Len(queue') = Len(queue) /\ queue'[1] = b
        /\ \A j \in 2..Len(queue) : queue'[j] = queue[j]
    BY <1>1, <1>2, <2>1, <2>4
  <2>6. TypeOK'
    BY <1>0, <1>1, <2>5 DEF TypeOK, disk
  <2>7. OpShaped' /\ OneAtATime'
    BY <1>0, <1>1, <1>2, <2>4, <2>5 DEF OpShaped, OneAtATime
  <2>8. FinishedKnown'
    BY <1>0, <1>1, <2>1 DEF FinishedKnown, disk
  <2>9. PlanBacked'
    BY <1>0, <1>1, <1>2, <2>4, <2>5 DEF PlanBacked, disk
  <2>10. FinishBacked' /\ TerminalRecordBacked'
    BY <1>0, <1>1, <1>2, <2>4, <2>5, SameLog
       DEF FinishBacked, TerminalRecordBacked, OneAtATime, disk
  <2> QED
    BY <2>6, <2>7, <2>8, <2>9, <2>10 DEF StoreInv
<1> QED
  BY <1>1, <1>3, <1>4 DEF Begin

(* An operation past its checks runs on a live handle of an active run.    *)
LEMMA BegunIsActive ==
    ASSUME StoreInv, NEW i \in 1..Len(queue), Turn(i), queue[i].pc # "queued"
    PROVE  /\ i = 1 /\ queue # <<>> /\ queue \in Seq(Op) /\ queue[1] \in Op
           /\ handle \in {"create", "open"} /\ dir = "ready"
           /\ ~finished /\ record.status \notin Terminal
<1>1. i = 1 /\ queue # <<>> /\ queue \in Seq(Op) /\ queue[1] \in Op
  BY DEF Turn, StoreInv, TypeOK
<1>2. handle \in {"create", "open"}
  BY <1>1 DEF StoreInv, TypeOK, OneAtATime
<1>3. ~finished /\ dir = "ready"
  BY <1>1, <1>2 DEF StoreInv, FinishedKnown
<1> QED
  BY <1>1, <1>2, <1>3 DEF StoreInv, FinishedKnown

(* The oldest operation moves on to its rename; the others are untouched.  *)
LEMMA AdvanceChain ==
    ASSUME StoreInv, queue # <<>>, handle \in {"create", "open"},
           UNCHANGED handle, Advance(1, "rename")
    PROVE  /\ queue' \in Seq(Op) /\ Len(queue') = Len(queue)
           /\ queue'[1] = [queue[1] EXCEPT !.pc = "rename"]
           /\ \A j \in 2..Len(queue) :
                  queue'[j] = queue[j] /\ queue'[j].pc = "queued"
           /\ OpShaped' /\ OneAtATime'
<1>1. queue \in Seq(Op) /\ queue[1] \in Op /\ 1 \in 1..Len(queue)
      /\ OpShaped /\ OneAtATime
  BY DEF StoreInv, TypeOK
<1> DEFINE r == [queue[1] EXCEPT !.pc = "rename"]
<1>2. /\ r \in Op /\ r.name = queue[1].name /\ r.file = queue[1].file
      /\ r.tag = queue[1].tag
  BY SMTT(30), <1>1 DEF Op
<1>3. queue' = [queue EXCEPT ![1] = r]
  BY <1>1 DEF Advance
<1> HIDE DEF r
<1>4. /\ queue' \in Seq(Op) /\ Len(queue') = Len(queue) /\ queue'[1] = r
      /\ \A j \in 2..Len(queue) : queue'[j] = queue[j]
  BY <1>1, <1>2, <1>3
<1>5. OpShaped' /\ OneAtATime'
  BY <1>1, <1>2, <1>4 DEF OpShaped, OneAtATime
<1> QED
  BY <1>1, <1>4, <1>5 DEF OneAtATime, r

(* appendFile, done or failed, on any of the append-only files.            *)
LEMMA WriteLineStoreInv ==
    ASSUME StoreInv, NEW i \in 1..Len(queue), WriteLine(i)
    PROVE  StoreInv'
<1> USE StoreAssumption DEF StoreAssumption
<1> DEFINE o == queue[1]
           line == [seq |-> o.seq, tag |-> o.tag]
<1>0. /\ TypeOK /\ OpShaped /\ OneAtATime /\ FinishedKnown
      /\ PlanBacked /\ FinishBacked /\ TerminalRecordBacked
  BY DEF StoreInv
<1>1. /\ i = 1 /\ queue # <<>> /\ queue \in Seq(Op) /\ o \in Op
      /\ handle \in {"create", "open"} /\ dir = "ready"
      /\ ~finished /\ record.status \notin Terminal
  BY BegunIsActive DEF WriteLine
<1>2. /\ UNCHANGED <<dir, record, plans, handle, attempt, finished>>
      /\ o.pc = "write" /\ o.name \in {"append", "finish"}
  BY <1>1 DEF WriteLine
<1>3. o.file \in Files /\ line \in Line /\ o.seq \in Nat
  BY <1>0, <1>1, <1>2 DEF OpShaped, Op, Line, Files
<1>4. TerminalRecordBacked'
  BY <1>1, <1>2 DEF TerminalRecordBacked
<1>5. files' \in [Files -> File] /\ count' \in [Files -> Nat] /\ faults' \in 0..MaxFaults
  <2>1. files[o.file] \in File
    BY <1>0, <1>3 DEF TypeOK
  <2>2. /\ Appended(files[o.file], line) \in File
        /\ FailedAppends(files[o.file], line) \subseteq File
    BY <1>3, <2>1, AppendedType
  <2>3. /\ count' \in [Files -> Nat] /\ faults' \in 0..MaxFaults
    <3>1. CASE SetCount(o.file, o.seq) /\ UNCHANGED faults
      BY <1>0, <1>3, <3>1 DEF SetCount, TypeOK
    <3>2. CASE Fault /\ UNCHANGED count
      BY <1>0, <3>2 DEF Fault, TypeOK
    <3> QED
      BY <1>1, <3>1, <3>2 DEF WriteLine
  <2>4. files' \in [Files -> File]
    BY <1>0, <1>1, <1>3, <2>2 DEF WriteLine, TypeOK
  <2> QED
    BY <2>3, <2>4
<1>6. CASE Leave(1)
  <2>1. /\ queue' \in Seq(Op) /\ OpShaped' /\ OneAtATime'
        /\ \A j \in 1..Len(queue') : queue'[j].pc = "queued"
    BY <1>1, <1>2, <1>6, LeaveChain
  <2>2. TypeOK'
    BY <1>0, <1>2, <1>5, <2>1 DEF TypeOK
  <2>3. FinishedKnown' /\ PlanBacked' /\ FinishBacked'
    BY <1>0, <1>1, <1>2, <2>1 DEF FinishedKnown, PlanBacked, FinishBacked
  <2> QED
    BY <1>4, <2>1, <2>2, <2>3 DEF StoreInv
<1>7. CASE /\ Advance(1, "rename") /\ o.name = "finish"
           /\ files' = [files EXCEPT ![o.file] = Appended(@, line)]
  <2>1. /\ queue' \in Seq(Op) /\ Len(queue') = Len(queue)
        /\ queue'[1] = [o EXCEPT !.pc = "rename"]
        /\ \A j \in 2..Len(queue) : queue'[j] = queue[j] /\ queue'[j].pc = "queued"
        /\ OpShaped' /\ OneAtATime'
    BY <1>1, <1>2, <1>7, AdvanceChain
  <2>2. TypeOK'
    BY SMTT(30), <1>0, <1>2, <1>5, <2>1 DEF TypeOK
  <2>3. FinishedKnown'
    BY <1>0, <1>1, <1>2 DEF FinishedKnown
  <2>4. queue'[1].attempt = o.attempt /\ queue'[1].tag = o.tag /\ queue'[1].pc = "rename"
    BY <1>1, <2>1 DEF Op
  <2>5. PlanBacked'
    <3>1. o.attempt = 0 \/ o.attempt \in plans
      BY <1>0, <1>1, <1>2, <1>7 DEF PlanBacked
    <3>2. \A j \in 1..Len(queue') : j = 1 \/ queue'[j].pc = "queued"
      BY <1>1, <2>1
    <3> QED
      BY <1>0, <1>2, <2>4, <3>1, <3>2 DEF PlanBacked
  <2>6. LogReadable' => LastTag(Lines') = o.tag
    <3>1. o.file = Events /\ files[Events] \in File
      BY <1>0, <1>1, <1>7 DEF OpShaped, TypeOK, Files
    <3>2. Lines' = Append(Lines, IF files[Events].torn THEN Garbage ELSE line)
      BY <1>0, <1>3, <1>7, <3>1 DEF Lines, Appended, TypeOK
    <3>3. Lines \in Seq(Line) /\ Garbage \in Line
      BY <3>1 DEF Lines, File, Garbage, Line, Tags
    <3>4. /\ Len(Lines') \in 1..Len(Lines') /\ Lines' # <<>>
          /\ Lines'[Len(Lines')] = IF files[Events].torn THEN Garbage ELSE line
      BY <1>3, <3>2, <3>3
    <3>5. files[Events].torn => ~LogReadable'
      BY <3>4 DEF LogReadable, Garbage
    <3> QED
      BY <3>4, <3>5 DEF LastTag
  <2>7. FinishBacked'
    <3>1. \A j \in 1..Len(queue') : j = 1 \/ queue'[j].pc = "queued"
      BY <1>1, <2>1
    <3> QED
      BY <2>4, <2>6, <3>1 DEF FinishBacked
  <2> QED
    BY <1>4, <2>1, <2>2, <2>3, <2>5, <2>7 DEF StoreInv
<1> QED
  BY <1>1, <1>6, <1>7 DEF WriteLine

(* atomicCreate of a plan, done, refused or failed.                        *)
LEMMA WritePlanStoreInv ==
    ASSUME StoreInv, NEW i \in 1..Len(queue), WritePlan(i)
    PROVE  StoreInv'
<1> USE StoreAssumption DEF StoreAssumption
<1> DEFINE o == queue[1]
<1>0. /\ TypeOK /\ OpShaped /\ OneAtATime /\ FinishedKnown
      /\ PlanBacked /\ FinishBacked /\ TerminalRecordBacked
  BY DEF StoreInv
<1>1. /\ i = 1 /\ queue # <<>> /\ queue \in Seq(Op) /\ o \in Op
      /\ handle \in {"create", "open"} /\ dir = "ready"
      /\ ~finished /\ record.status \notin Terminal
  BY BegunIsActive DEF WritePlan
<1>2. /\ UNCHANGED <<dir, record, files, handle, count, attempt, finished>>
      /\ o.pc = "write" /\ o.name = "plan"
  BY <1>1 DEF WritePlan
<1>3. o.file[2] \in Attempts
  BY <1>0, <1>1, <1>2 DEF OpShaped, Plan
<1>4. TerminalRecordBacked'
  BY <1>1, <1>2 DEF TerminalRecordBacked
<1>5. plans \subseteq plans' /\ plans' \in SUBSET Attempts /\ faults' \in 0..MaxFaults
  BY <1>0, <1>1, <1>3 DEF WritePlan, Fault, TypeOK
<1>6. CASE Leave(1)
  <2>1. /\ queue' \in Seq(Op) /\ OpShaped' /\ OneAtATime'
        /\ \A j \in 1..Len(queue') : queue'[j].pc = "queued"
    BY <1>1, <1>2, <1>6, LeaveChain
  <2>2. TypeOK'
    BY <1>0, <1>2, <1>5, <2>1 DEF TypeOK
  <2>3. FinishedKnown' /\ FinishBacked'
    BY <1>0, <1>1, <1>2, <2>1 DEF FinishedKnown, FinishBacked
  <2>4. PlanBacked'
    BY <1>0, <1>2, <1>5, <2>1 DEF PlanBacked
  <2> QED
    BY <1>4, <2>1, <2>2, <2>3, <2>4 DEF StoreInv
<1>7. CASE Advance(1, "rename") /\ plans' = plans \cup {o.file[2]}
  <2>1. /\ queue' \in Seq(Op) /\ Len(queue') = Len(queue)
        /\ queue'[1] = [o EXCEPT !.pc = "rename"]
        /\ \A j \in 2..Len(queue) : queue'[j] = queue[j] /\ queue'[j].pc = "queued"
        /\ OpShaped' /\ OneAtATime'
    BY <1>1, <1>2, <1>7, AdvanceChain
  <2>2. TypeOK'
    BY <1>0, <1>2, <1>5, <2>1 DEF TypeOK
  <2>3. FinishedKnown'
    BY <1>0, <1>1, <1>2 DEF FinishedKnown
  <2>4. /\ queue'[1].attempt = o.attempt /\ queue'[1].name = "plan"
        /\ queue'[1].pc = "rename"
    BY <1>1, <1>2, <2>1 DEF Op
  <2>5. o.attempt = 0 \/ o.attempt \in plans'
    BY <1>0, <1>1, <1>2, <1>7 DEF PlanBacked
  <2>6. \A j \in 1..Len(queue') : j = 1 \/ queue'[j].pc = "queued"
    BY <1>1, <2>1
  <2>7. PlanBacked'
    BY <1>0, <1>2, <1>5, <2>4, <2>5, <2>6 DEF PlanBacked
  <2>8. FinishBacked'
    BY <2>4, <2>6 DEF FinishBacked
  <2> QED
    BY <1>4, <2>1, <2>2, <2>3, <2>7, <2>8 DEF StoreInv
<1> QED
  BY <1>1, <1>6, <1>7 DEF WritePlan

(* The rename of run.json, done or failed, ends its operation.             *)
LEMMA RenameStoreInv ==
    ASSUME StoreInv, NEW i \in 1..Len(queue), Rename(i)
    PROVE  StoreInv'
<1> USE StoreAssumption DEF StoreAssumption
<1> DEFINE o == queue[1]
<1>0. /\ TypeOK /\ OpShaped /\ OneAtATime /\ FinishedKnown
      /\ PlanBacked /\ FinishBacked /\ TerminalRecordBacked
  BY DEF StoreInv
<1>1. /\ i = 1 /\ queue # <<>> /\ queue \in Seq(Op) /\ o \in Op
      /\ handle \in {"create", "open"} /\ dir = "ready"
      /\ ~finished /\ record.status \notin Terminal
  BY BegunIsActive DEF Rename
<1>2. UNCHANGED <<dir, files, plans, handle, count>> /\ o.pc = "rename" /\ Leave(1)
  BY <1>1 DEF Rename
<1>3. /\ queue' \in Seq(Op) /\ OpShaped' /\ OneAtATime'
      /\ \A j \in 1..Len(queue') : queue'[j].pc = "queued"
  BY <1>1, <1>2, LeaveChain
<1>4. FinishBacked'
  BY <1>3 DEF FinishBacked
<1>5. CASE Fault /\ UNCHANGED <<record, attempt, finished>>
  <2>1. TypeOK'
    BY <1>0, <1>2, <1>3, <1>5 DEF TypeOK, Fault
  <2>2. FinishedKnown' /\ PlanBacked' /\ TerminalRecordBacked'
    BY <1>0, <1>1, <1>2, <1>3, <1>5
       DEF FinishedKnown, PlanBacked, TerminalRecordBacked
  <2> QED
    BY <1>3, <1>4, <2>1, <2>2 DEF StoreInv
<1>6. CASE /\ record' = Renamed(o) /\ attempt' = o.attempt /\ UNCHANGED faults
           /\ finished' = (finished \/ o.name = "finish")
  <2>1. /\ record'.attempt = o.attempt
        /\ record'.status \in Terminal => o.name = "finish" /\ record'.status = o.tag
    BY <1>6 DEF Renamed, Terminal
  <2>2. record' \in Record
    <3>1. o.attempt \in 0..MaxAttempts
      BY <1>1 DEF Op
    <3>2. o.name = "finish" => o.tag \in Terminal
      BY <1>0, <1>1 DEF OpShaped
    <3> QED
      BY <1>6, <3>1, <3>2 DEF Renamed, Record
  <2>3. TypeOK'
    <3>1. attempt' \in 0..MaxAttempts
      BY <1>1, <1>6 DEF Op
    <3>2. finished' \in BOOLEAN
      BY <1>6
    <3> QED
      BY <1>0, <1>2, <1>3, <1>6, <2>2, <3>1, <3>2 DEF TypeOK
  <2>4. FinishedKnown'
    BY Zenon, <1>1, <1>2, <1>3, <1>6, <2>1 DEF FinishedKnown
  <2>5. PlanBacked'
    <3>1. o.attempt = 0 \/ o.attempt \in plans
      BY <1>0, <1>1, <1>2 DEF PlanBacked
    <3> QED
      BY <1>2, <1>3, <1>6, <2>1, <3>1 DEF PlanBacked
  <2>6. TerminalRecordBacked'
    BY Zenon, <1>0, <1>1, <1>2, <2>1, SameLog DEF TerminalRecordBacked, FinishBacked
  <2> QED
    BY <1>3, <1>4, <2>3, <2>4, <2>5, <2>6 DEF StoreInv
<1> QED
  BY <1>1, <1>5, <1>6 DEF Rename

(* Every step of the store keeps the invariant.                            *)
LEMMA NextStoreInv == StoreInv /\ [Next]_vars => StoreInv'
<1> SUFFICES ASSUME StoreInv, [Next]_vars PROVE StoreInv'
  OBVIOUS
<1>1. CASE CreateDir \/ CreateRecord \/ CreateEvents \/ CreateFails
  BY <1>1, CreateStoreInv
<1>2. CASE Open
  BY <1>2, OpenStoreInv
<1>3. CASE Request
  BY <1>3, RequestStoreInv
<1>4. ASSUME NEW i \in 1..Len(queue),
             Begin(i) \/ WriteLine(i) \/ WritePlan(i) \/ Rename(i)
      PROVE  StoreInv'
  BY SMTT(30), <1>4, BeginStoreInv, WriteLineStoreInv, WritePlanStoreInv, RenameStoreInv
<1>5. CASE Crash
  BY <1>5, CrashStoreInv
<1>6. CASE UNCHANGED vars
  BY <1>6 DEF vars, StoreInv, TypeOK, OpShaped, OneAtATime, FinishedKnown,
              PlanBacked, FinishBacked, TerminalRecordBacked, LogReadable, Lines,
              LastTag
<1> QED
  BY <1>1, <1>2, <1>3, <1>4, <1>5, <1>6 DEF Next

(* At every await of every operation, in every interleaving of calls, and  *)
(* through every crash and failed write, the memory of a live handle       *)
(* agrees with the run directory (serialize, appendEvent, writeAttemptPlan,*)
(* finish, openPodRunStore).                                               *)
THEOREM StoreInvariant == Spec => []StoreInv
<1>1. Init => StoreInv
  BY InitStoreInv
<1>2. StoreInv /\ [Next]_vars => StoreInv'
  BY NextStoreInv
<1> QED
  BY <1>1, <1>2, PTL DEF Spec

(* The state of the store keeps its type.                                  *)
THEOREM TypeCorrect == Spec => []TypeOK
<1>1. StoreInv => TypeOK
  BY DEF StoreInv
<1> QED
  BY <1>1, StoreInvariant, PTL

(* A terminal run.json over a readable log has the run.finished event of   *)
(* the same status as its last event (finish).                             *)
THEOREM TerminalBacked == Spec => []TerminalRecordBacked
<1>1. StoreInv => TerminalRecordBacked
  BY DEF StoreInv
<1> QED
  BY <1>1, StoreInvariant, PTL

(* run.json never names an attempt whose plan.json is missing              *)
(* (writeAttemptPlan creates the plan before it renames the record).       *)
THEOREM AttemptsPlanned == Spec => []RecordedAttemptHasPlan
<1>1. StoreInv => RecordedAttemptHasPlan
  BY DEF StoreInv, PlanBacked, RecordedAttemptHasPlan
<1> QED
  BY <1>1, StoreInvariant, PTL

(* Once the record is terminal no step of any process changes the disk.    *)
LEMMA TerminalStep ==
    ASSUME StoreInv, [Next]_vars, record.status \in Terminal
    PROVE  UNCHANGED disk
<1>1. dir = "ready"
  BY SMTT(30) DEF StoreInv, FinishedKnown, NewRecord, Terminal
<1>2. CASE CreateDir \/ CreateRecord \/ CreateEvents \/ CreateFails
  BY <1>1, <1>2 DEF CreateDir, CreateRecord, CreateEvents, CreateFails, StoreInv,
                    FinishedKnown
<1>3. CASE Open \/ Request \/ Crash \/ UNCHANGED vars
  BY <1>3 DEF Open, Request, Crash, vars, disk
<1>4. ASSUME NEW i \in 1..Len(queue),
             Begin(i) \/ WriteLine(i) \/ WritePlan(i) \/ Rename(i)
      PROVE  UNCHANGED disk
  <2>1. CASE Begin(i)
    BY SMTT(30), <2>1 DEF Begin
  <2>2. CASE WriteLine(i) \/ WritePlan(i) \/ Rename(i)
    BY Zenon, <2>2, BegunIsActive DEF WriteLine, WritePlan, Rename
  <2> QED
    BY <1>4, <2>1, <2>2
<1> QED
  BY <1>2, <1>3, <1>4 DEF Next

(* A terminal run is immutable: late or concurrent operations, reopened    *)
(* handles and retried finishes change nothing on disk.                    *)
THEOREM FrozenOnceTerminal == Spec => TerminalFrozen
<1>1. StoreInv /\ [Next]_vars => [record.status \in Terminal => UNCHANGED disk]_vars
  BY TerminalStep
<1> QED
  BY <1>1, StoreInvariant, PTL DEF Spec, TerminalFrozen

-----------------------------------------------------------------------------
(* The store implements the life of a run.                                 *)

(* Whether a run opens depends on the directory, the record and the log.   *)
LEMMA SameView ==
    ASSUME UNCHANGED <<dir, files>>, record'.status = record.status
    PROVE  View' = View
<1>1. Lines' = Lines /\ LogReadable' = LogReadable /\ LastTag(Lines)' = LastTag(Lines)
  BY SameLog
<1>2. TerminalEvents' = TerminalEvents /\ Len(Lines)' = Len(Lines)
  BY <1>1 DEF TerminalEvents
<1>3. RecordAgrees' = RecordAgrees
  BY <1>1, <1>2 DEF RecordAgrees
<1> QED
  BY <1>1, <1>2, <1>3 DEF View, Openable

(* A log only grows: it never becomes readable again, gets shorter or      *)
(* loses a terminal event.                                                 *)
LEMMA LogOnlyGrows ==
    ASSUME TypeOK, NEW line \in Line,
           files'[Events] \in FailedAppends(files[Events], line)
    PROVE  /\ ~LogReadable => ~LogReadable'
           /\ Len(Lines') >= Len(Lines)
           /\ TerminalEvents # {} => TerminalEvents' # {}
<1>1. files[Events] \in File /\ Lines \in Seq(Line)
  BY DEF TypeOK, Files, Lines, File
<1>2. CASE files'[Events] = files[Events]
  BY <1>1, <1>2 DEF LogReadable, Lines, TerminalEvents
<1>3. CASE files'[Events] = [files[Events] EXCEPT !.torn = TRUE]
  <2>1. files'[Events].torn = TRUE /\ Lines' = Lines
    BY <1>1, <1>3 DEF File, Lines
  <2> QED
    BY <1>1, <2>1 DEF LogReadable, TerminalEvents
<1>4. CASE files'[Events] = Appended(files[Events], line)
  <2> DEFINE last == IF files[Events].torn THEN Garbage ELSE line
  <2>1. Lines' = Append(Lines, last) /\ last \in Line
    BY <1>4 DEF Lines, Appended, Garbage, Line, Tags
  <2>2. /\ Len(Lines') = Len(Lines) + 1 /\ Lines'[Len(Lines) + 1] = last
        /\ \A i \in 1..Len(Lines) : Lines'[i] = Lines[i]
        /\ Len(Lines) \in Nat
    BY <1>1, <2>1
  <2>3. CASE files[Events].torn
    <3>1. Lines'[Len(Lines')].tag = "garbage" /\ Len(Lines') \in 1..Len(Lines')
      BY <2>2, <2>3 DEF Garbage
    <3>2. ~LogReadable'
      BY <3>1 DEF LogReadable
    <3> QED
      BY <2>2, <3>2 DEF TerminalEvents
  <2>4. CASE ~files[Events].torn
    BY <2>2, <2>4 DEF LogReadable, TerminalEvents
  <2> QED
    BY <2>3, <2>4
<1> QED
  BY Zenon, <1>2, <1>3, <1>4 DEF FailedAppends

(* An append can only take a run from running to unsettled.                *)
LEMMA AppendView ==
    ASSUME StoreInv, NEW i \in 1..Len(queue), WriteLine(i)
    PROVE  View' = View \/ (View = "running" /\ View' = "unsettled")
<1> DEFINE o == queue[1]
           line == [seq |-> o.seq, tag |-> o.tag]
<1>1. /\ i = 1 /\ queue # <<>> /\ o \in Op /\ dir = "ready"
      /\ record.status \notin Terminal
  BY BegunIsActive DEF WriteLine
<1>2. record.status = "running" /\ UNCHANGED <<dir, record>>
  BY <1>1 DEF WriteLine, StoreInv, TypeOK, Record
<1>3. line \in Line
  BY <1>1 DEF Op, Line
<1>4. files'[Events] \in FailedAppends(files[Events], line)
  <2>1. files \in [Files -> File] /\ Events \in Files
    BY DEF StoreInv, TypeOK, Files
  <2>2. \E g \in FailedAppends(files[o.file], line) : files' = [files EXCEPT ![o.file] = g]
    BY <1>1 DEF WriteLine, FailedAppends
  <2>3. files[Events] \in FailedAppends(files[Events], line)
    BY DEF FailedAppends
  <2> QED
    BY <2>1, <2>2, <2>3
<1>5. /\ ~LogReadable => ~LogReadable'
      /\ Len(Lines') >= Len(Lines)
      /\ TerminalEvents # {} => TerminalEvents' # {}
  BY <1>3, <1>4, LogOnlyGrows DEF StoreInv
<1>6. Len(Lines) \in Int /\ Len(Lines') \in Int
  <2>1. files[Events] \in File /\ files'[Events] \in File
    BY <1>3, <1>4, AppendedType DEF StoreInv, TypeOK, Files
  <2> QED
    BY <2>1 DEF Lines, File
<1>7. Openable' => Openable
  BY <1>1, <1>2, <1>5, <1>6, StoreAssumption
     DEF Openable, RecordAgrees, StoreAssumption
<1> QED
  BY <1>1, <1>2, <1>7 DEF View

(* The rename of run.json settles a run that does not open, or changes     *)
(* nothing a reader of the status sees.                                    *)
LEMMA RenameView ==
    ASSUME StoreInv, NEW i \in 1..Len(queue), Rename(i)
    PROVE  View' = View \/ (View = "unsettled" /\ View' \in Terminal)
<1> DEFINE o == queue[1]
<1>1. /\ i = 1 /\ queue # <<>> /\ queue \in Seq(Op) /\ o \in Op /\ dir = "ready"
      /\ record.status \notin Terminal
  BY SMTT(30), BegunIsActive DEF Rename
<1>2. record.status = "running" /\ UNCHANGED <<dir, files>> /\ o.pc = "rename"
  BY <1>1 DEF Rename, StoreInv, TypeOK, Record
<1>3. CASE record'.status = record.status
  BY <1>2, <1>3, SameView
<1>4. CASE record'.status # record.status
  <2>1. o.name = "finish" /\ record'.status = o.tag /\ o.tag \in Terminal
    BY <1>1, <1>2, <1>4 DEF Rename, Renamed, StoreInv, OpShaped
  <2>2. LogReadable => LastTag(Lines) = o.tag
    BY <1>1, <1>2, <2>1 DEF StoreInv, FinishBacked
  <2>3. Lines \in Seq(Line)
    BY DEF StoreInv, TypeOK, Files, Lines, File
  <2>4. LogReadable => TerminalEvents # {}
    <3>1. SUFFICES ASSUME LogReadable PROVE Len(Lines) \in TerminalEvents
      OBVIOUS
    <3>2. Lines # <<>> /\ Lines[Len(Lines)].tag \in Terminal
      BY <2>1, <2>2, <3>1 DEF LastTag, Terminal
    <3> QED
      BY <2>3, <3>2 DEF TerminalEvents
  <2>5. View = "unsettled"
    BY <1>1, <1>2, <2>4 DEF View, Openable, RecordAgrees
  <2>6. View' = "unsettled" \/ View' \in Terminal
    BY <1>1, <1>2, <2>1 DEF View
  <2> QED
    BY <2>5, <2>6
<1> QED
  BY <1>3, <1>4

(* Creation maps to the first steps of the life of a run.                  *)
LEMMA CreateView ==
    ASSUME StoreInv, CreateDir \/ CreateRecord \/ CreateEvents \/ CreateFails
    PROVE  [Lifecycle!Next]_View
<1> USE DEF Lifecycle!Next, Lifecycle!Create, Lifecycle!Abandon, Lifecycle!Started
<1>1. dir # "ready" /\ files[Events] = EmptyFile /\ UNCHANGED files
  BY DEF StoreInv, FinishedKnown, CreateDir, CreateRecord, CreateEvents, CreateFails
<1>2. CASE CreateDir
  BY <1>2 DEF CreateDir, View, Openable
<1>3. CASE CreateRecord
  BY <1>3 DEF CreateRecord, View, Openable
<1>4. CASE CreateEvents
  <2>1. record = NewRecord /\ record' = record /\ dir' = "ready"
    BY <1>1, <1>4 DEF CreateEvents, StoreInv, FinishedKnown
  <2>2. Lines' = <<>> /\ ~files'[Events].torn
    BY <1>1 DEF Lines, EmptyFile
  <2>3. LogReadable' /\ TerminalEvents' = {} /\ Len(Lines') = 0
    BY <2>2 DEF LogReadable, TerminalEvents
  <2>4. Openable'
    BY <2>1, <2>3, StoreAssumption
       DEF Openable, RecordAgrees, NewRecord, StoreAssumption
  <2>5. View' = "running" /\ View = "starting"
    <3>1. View' = "running"
      BY <2>1, <2>4 DEF View, NewRecord
    <3>2. View = "starting"
      BY <1>4 DEF View, Openable, CreateEvents
    <3> QED
      BY <3>1, <3>2
  <2> QED
    BY <2>5
<1>5. CASE CreateFails
  BY <1>5 DEF CreateFails, View, Openable, StoreInv, FinishedKnown
<1> QED
  BY <1>2, <1>3, <1>4, <1>5

(* What a reader of the run directory sees is the life of a run: through   *)
(* crashes, failed writes and concurrent operations it reaches at most one *)
(* terminal status, keeps it, and never reads as running again once it has *)
(* stopped opening (createPodRunStore, finish, openPodRunStore).           *)
THEOREM StoreImplementsLifecycle == Spec => ImplementsLifecycle
<1>1. Init => Lifecycle!Init
  BY DEF Init, Lifecycle!Init, View, Openable
<1>2. StoreInv /\ [Next]_vars => [Lifecycle!Next]_View
  <2> SUFFICES ASSUME StoreInv, [Next]_vars PROVE [Lifecycle!Next]_View
    OBVIOUS
  <2>1. CASE CreateDir \/ CreateRecord \/ CreateEvents \/ CreateFails
    BY <2>1, CreateView
  <2>2. CASE Open \/ Request \/ Crash \/ UNCHANGED vars
    <3>1. UNCHANGED <<dir, files>> /\ record' = record
      BY <2>2 DEF Open, Request, Crash, vars, disk
    <3> QED
      BY <3>1, SameView
  <2>3. ASSUME NEW i \in 1..Len(queue),
               Begin(i) \/ WriteLine(i) \/ WritePlan(i) \/ Rename(i)
        PROVE  [Lifecycle!Next]_View
    <3>1. CASE Begin(i) \/ WritePlan(i)
      <4>1. UNCHANGED <<dir, files>> /\ record' = record
        BY <3>1 DEF Begin, WritePlan, disk
      <4> QED
        BY <4>1, SameView
    <3>2. CASE WriteLine(i)
      BY <3>2, AppendView DEF Lifecycle!Next, Lifecycle!Unsettle
    <3>3. CASE Rename(i)
      BY <3>3, RenameView DEF Lifecycle!Next, Lifecycle!Settle, Terminal,
                              Lifecycle!Statuses
    <3> QED
      BY <2>3, <3>1, <3>2, <3>3
  <2> QED
    BY <2>1, <2>2, <2>3 DEF Next
<1> QED
  BY <1>1, <1>2, StoreInvariant, PTL DEF Spec, ImplementsLifecycle, Lifecycle!Spec
=============================================================================
