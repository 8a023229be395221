------------------------ MODULE PodStoreCleanProofs -------------------------
(***************************************************************************)
(* Proofs about the contents of a run's files, which rest on the invariant *)
(* of PodStoreProofs: there is always room for the terminal event, and     *)
(* while no write has failed the files are numbered and a run opens.       *)
(***************************************************************************)
EXTENDS PodStoreProofs

(* The log as a sequence of lines.                                         *)
LEMMA LogType ==
    ASSUME TypeOK
    PROVE  /\ Events \in Files /\ files[Events] \in File
           /\ Lines \in Seq(Line) /\ Len(Lines) \in Nat
           /\ \A f \in Files : /\ files[f] \in File
                               /\ files[f].lines \in Seq(Line)
                               /\ Len(files[f].lines) \in Nat
                               /\ count[f] \in Nat
<1>1. Events \in Files /\ \A f \in Files : files[f] \in File /\ count[f] \in Nat
  BY DEF TypeOK, Files
<1>2. \A f \in Files : files[f].lines \in Seq(Line)
  BY <1>1 DEF File
<1> QED
  BY <1>1, <1>2 DEF Lines

(* What reading the log yields depends on the log alone.                   *)
LEMMA SameTerminal ==
    ASSUME files'[Events] = files[Events]
    PROVE  /\ Lines' = Lines /\ LogReadable' = LogReadable
           /\ TerminalEvents' = TerminalEvents
BY DEF Lines, LogReadable, TerminalEvents

(* An operation that ends, or goes on to its rename, leaves none that is   *)
(* about to write.                                                         *)
LEMMA NothingToWrite ==
    ASSUME StoreInv, NEW i \in 1..Len(queue),
           WriteLine(i) \/ WritePlan(i) \/ Rename(i)
    PROVE  /\ \A j \in 1..Len(queue') : queue'[j].pc # "write"
           /\ \A j \in 1..Len(queue') :
                queue'[j].pc = "rename" =>
                  /\ j = 1 /\ queue[1].pc = "write" /\ Advance(1, "rename")
                  /\ queue'[1].name = queue[1].name
<1>1. /\ i = 1 /\ queue # <<>> /\ queue \in Seq(Op) /\ queue[1] \in Op
      /\ handle \in {"create", "open"} /\ UNCHANGED handle
  BY BegunIsActive DEF WriteLine, WritePlan, Rename
<1>2. CASE Leave(1)
  BY <1>1, <1>2, LeaveChain
<1>3. CASE Advance(1, "rename") /\ queue[1].pc = "write"
  <2>1. /\ Len(queue') = Len(queue)
        /\ queue'[1] = [queue[1] EXCEPT !.pc = "rename"]
        /\ \A j \in 2..Len(queue) : queue'[j].pc = "queued"
    BY <1>1, <1>3, AdvanceChain
  <2>2. queue'[1].pc = "rename" /\ queue'[1].name = queue[1].name
    BY <1>1, <2>1 DEF Op
  <2>3. \A j \in 1..Len(queue') : j = 1 \/ queue'[j].pc = "queued"
    BY <1>1, <2>1
  <2>4. \A j \in 1..Len(queue') : queue'[j].pc # "write"
    BY <2>2, <2>3
  <2> QED
    BY <1>3, <2>2, <2>3, <2>4
<1> QED
  BY <1>1, <1>2, <1>3 DEF WriteLine, WritePlan, Rename

-----------------------------------------------------------------------------
(* There is room for the terminal event.                                   *)

(* It is there when the run directory does not exist yet.                  *)
LEMMA InitSlotInv == Init => SlotInv
<1> SUFFICES ASSUME Init PROVE SlotInv
  OBVIOUS
<1>1. Lines = <<>> /\ queue = <<>> /\ handle = "none"
  BY DEF Init, Lines, EmptyFile, Files
<1>2. Len(Lines) < MaxEvents
  BY <1>1, StoreAssumption DEF StoreAssumption
<1> QED
  BY <1>1, <1>2 DEF SlotInv

(* Creating, opening and dropping a handle, and calls, keep it.            *)
LEMMA HandleSlotInv ==
    ASSUME StoreInv, SlotInv,
           \/ CreateDir \/ CreateRecord \/ CreateEvents \/ CreateFails
           \/ Open \/ Request \/ Crash
    PROVE  SlotInv'
<1> USE StoreAssumption DEF StoreAssumption
<1>0. TypeOK /\ OneAtATime /\ FinishedKnown
  BY DEF StoreInv
<1>1. UNCHANGED files
  BY DEF CreateDir, CreateRecord, CreateEvents, CreateFails, Open, Request,
         Crash, disk
<1>2. Lines' = Lines /\ LogReadable' = LogReadable
      /\ TerminalEvents' = TerminalEvents
  BY <1>1, SameTerminal
<1>3. CASE CreateDir \/ CreateRecord \/ CreateEvents \/ CreateFails
  <2>1. /\ queue' = <<>> /\ files[Events] = EmptyFile
        /\ handle' \in {"none", "creating"} \/ count'[Events] = 0
    BY <1>0, <1>3, LogType
       DEF CreateDir, CreateRecord, CreateEvents, CreateFails, OneAtATime,
           FinishedKnown, mem, TypeOK
  <2>2. Len(Lines) = 0
    BY <2>1 DEF Lines, EmptyFile
  <2> QED
    BY <1>2, <2>1, <2>2 DEF SlotInv
<1>4. CASE Open
  <2>1. queue' = <<>> /\ count'[Events] = Len(Lines)
    BY <1>0, <1>4, LogType DEF Open, OneAtATime
  <2> QED
    BY <1>2, <2>1 DEF SlotInv
<1>5. CASE Request
  <2>1. PICK c \in CreatedCalls : queue' = Append(queue, c)
    BY <1>5 DEF Request, CreatedCalls
  <2>2. c.pc = "queued"
    BY <2>1 DEF CreatedCalls, OpenedCalls, Call
  <2>3. queue \in Seq(Op) /\ UNCHANGED <<handle, count>>
    BY <1>0, <1>5 DEF TypeOK, Request
  <2>4. /\ Len(queue') = Len(queue) + 1 /\ queue'[Len(queue) + 1] = c
        /\ \A i \in 1..Len(queue) : queue'[i] = queue[i]
    BY <2>1, <2>3
  <2> QED
    BY <1>2, <2>2, <2>3, <2>4 DEF SlotInv
<1>6. CASE Crash
  <2>1. queue' = <<>> /\ handle' = "none"
    BY <1>6 DEF Crash
  <2> QED
    BY <1>2, <2>1 DEF SlotInv
<1> QED
  BY <1>3, <1>4, <1>5, <1>6

(* An append that begins has been refused the last place.                  *)
LEMMA BeginSlotInv ==
    ASSUME StoreInv, SlotInv, NEW i \in 1..Len(queue), Begin(i)
    PROVE  SlotInv'
<1> USE StoreAssumption DEF StoreAssumption
<1>0. TypeOK /\ OneAtATime /\ OpShaped
  BY DEF StoreInv
<1>1. /\ UNCHANGED <<files, handle, count>>
      /\ i = 1 /\ queue # <<>> /\ queue \in Seq(Op) /\ queue[1] \in Op
      /\ handle \in {"create", "open"}
  BY <1>0 DEF Begin, Turn, OneAtATime, TypeOK, disk
<1>2. Lines' = Lines /\ LogReadable' = LogReadable
      /\ TerminalEvents' = TerminalEvents
  BY <1>1, SameTerminal
<1>3. CASE Leave(1)
  <2>1. \A j \in 1..Len(queue') : queue'[j].pc = "queued"
    BY <1>1, <1>3, LeaveChain
  <2> QED
    BY <1>1, <1>2, <2>1 DEF SlotInv
<1>4. CASE ~Refused(queue[1]) /\ ~Leave(1)
  <2> DEFINE o == queue[1]
             sq == IF o.name = "plan" THEN 0 ELSE count[o.file] + 1
             at == IF o.name = "plan" /\ o.file[2] > attempt
                   THEN o.file[2] ELSE attempt
             b == [o EXCEPT !.pc = "write", !.seq = sq, !.attempt = at]
  <2>1. queue' = [queue EXCEPT ![1] = b]
    BY <1>1, <1>4 DEF Begin
  <2> HIDE DEF at
  <2>2. b.name = o.name /\ b.file = o.file /\ b.seq = sq
    BY <1>1 DEF Op
  <2>3. b.name = "append" /\ b.file = Events => b.seq < MaxEvents
    <3>1. SUFFICES ASSUME o.name = "append", o.file = Events
                   PROVE  count[Events] + 1 < MaxEvents
      BY <2>2
    <3>2. ~(count[Events] >= MaxEvents - 1)
      BY <1>4, <3>1 DEF Refused, AppendRefused
    <3> QED
      BY <1>0, <3>2, LogType
  <2> HIDE DEF b
  <2>4. /\ Len(queue') = Len(queue) /\ queue'[1] = b
        /\ \A j \in 2..Len(queue) : queue'[j] = queue[j]
    BY <1>1, <2>1
  <2>5. \A j \in 1..Len(queue') :
          queue'[j].name = "append" /\ queue'[j].file = Events
            /\ queue'[j].pc = "write" => queue'[j].seq < MaxEvents
    BY <1>1, <2>3, <2>4 DEF SlotInv
  <2> QED
    BY <1>1, <1>2, <2>5 DEF SlotInv
<1> QED
  BY <1>1, <1>3, <1>4 DEF Begin

(* What a write does to the log: nothing, or what FailedAppends lists, and *)
(* the counter of the log follows only if the line was written.            *)
LEMMA WriteToLog ==
    ASSUME StoreInv, NEW i \in 1..Len(queue), WriteLine(i)
    PROVE  LET o == queue[1]
               line == [seq |-> o.seq, tag |-> o.tag] IN
           /\ i = 1 /\ queue # <<>> /\ queue \in Seq(Op) /\ o \in Op
           /\ o.pc = "write" /\ o.name \in {"append", "finish"}
           /\ o.file \in Files /\ line \in Line /\ o.seq \in Nat
           /\ handle \in {"create", "open"} /\ record.status = "running"
           /\ UNCHANGED <<dir, record, handle>>
           /\ o.file # Events => files'[Events] = files[Events]
           /\ o.file = Events =>
                files'[Events] \in FailedAppends(files[Events], line)
           /\ \/ count'[Events] = count[Events]
              \/ /\ o.file = Events /\ count'[Events] = o.seq
                 /\ files'[Events] = Appended(files[Events], line)
<1> DEFINE o == queue[1]
           line == [seq |-> o.seq, tag |-> o.tag]
<1>0. TypeOK /\ OpShaped
  BY DEF StoreInv
<1>1. /\ i = 1 /\ queue # <<>> /\ queue \in Seq(Op) /\ o \in Op
      /\ handle \in {"create", "open"} /\ record.status \notin Terminal
  BY BegunIsActive DEF WriteLine
<1>2. /\ UNCHANGED <<dir, record, handle>>
      /\ o.pc = "write" /\ o.name \in {"append", "finish"}
  BY <1>1 DEF WriteLine
<1>3. o.file \in Files /\ line \in Line /\ o.seq \in Nat
  BY <1>0, <1>1, <1>2 DEF OpShaped, Op, Line, Files
<1>4. record.status = "running"
  BY <1>0, <1>1 DEF TypeOK, Record
<1>5. \E g \in FailedAppends(files[o.file], line) :
         files' = [files EXCEPT ![o.file] = g]
  BY <1>1 DEF WriteLine, FailedAppends
<1>6. /\ o.file # Events => files'[Events] = files[Events]
      /\ o.file = Events => files'[Events] \in FailedAppends(files[Events], line)
  BY <1>0, <1>3, <1>5, LogType DEF TypeOK
<1>7. \/ count'[Events] = count[Events]
      \/ /\ o.file = Events /\ count'[Events] = o.seq
         /\ files'[Events] = Appended(files[Events], line)
  <2>1. \/ UNCHANGED count
        \/ /\ count' = [count EXCEPT ![o.file] = o.seq]
           /\ files' = [files EXCEPT ![o.file] = Appended(@, line)]
    BY <1>1 DEF WriteLine, SetCount
  <2> QED
    BY <1>0, <1>3, <2>1, LogType DEF TypeOK
<1> QED
  BY <1>1, <1>2, <1>3, <1>4, <1>6, <1>7

(* A whole line that is added to a log is its last one, and if the log is  *)
(* readable then, it carries the length of the log.                        *)
LEMMA LogAfterAppend ==
    ASSUME TypeOK, NEW line \in Line,
           files'[Events] = Appended(files[Events], line)
    PROVE  /\ files[Events].torn => ~LogReadable'
           /\ ~files[Events].torn =>
                /\ Lines' = Append(Lines, line)
                /\ Len(Lines') = Len(Lines) + 1
                /\ Lines'[Len(Lines) + 1] = line
                /\ \A j \in 1..Len(Lines) : Lines'[j] = Lines[j]
                /\ LogReadable' => line.seq = Len(Lines')
                /\ TerminalEvents' = {} => line.tag \notin Terminal
<1> DEFINE last == IF files[Events].torn THEN Garbage ELSE line
<1>1. Lines' = Append(Lines, last) /\ last \in Line /\ Lines \in Seq(Line)
  BY LogType DEF Lines, Appended, Garbage, Line, Tags
<1>2. /\ Len(Lines') = Len(Lines) + 1 /\ Lines'[Len(Lines) + 1] = last
      /\ \A j \in 1..Len(Lines) : Lines'[j] = Lines[j]
      /\ Len(Lines) \in Nat /\ Len(Lines') \in 1..Len(Lines')
  BY <1>1
<1>3. CASE files[Events].torn
  BY <1>2, <1>3 DEF LogReadable, Garbage
<1>4. CASE ~files[Events].torn
  <2>1. last = line
    BY <1>4
  <2> HIDE DEF last
  <2>2. LogReadable' => line.seq = Len(Lines')
    BY <1>2, <2>1 DEF LogReadable
  <2>3. line.tag \in Terminal => Len(Lines') \in TerminalEvents'
    BY <1>2, <2>1 DEF TerminalEvents
  <2> QED
    BY <1>1, <1>2, <1>4, <2>1, <2>2, <2>3
<1> QED
  BY <1>3, <1>4

(* A line is written, or failed to be.                                     *)
LEMMA WriteLineSlotInv ==
    ASSUME StoreInv, SlotInv, NEW i \in 1..Len(queue), WriteLine(i)
    PROVE  SlotInv'
<1> USE StoreAssumption DEF StoreAssumption
<1> DEFINE o == queue[1]
           line == [seq |-> o.seq, tag |-> o.tag]
<1>0. TypeOK /\ OpShaped
  BY DEF StoreInv
<1>1. /\ i = 1 /\ queue # <<>> /\ queue \in Seq(Op) /\ o \in Op
      /\ o.pc = "write" /\ o.name \in {"append", "finish"}
      /\ line \in Line /\ o.seq \in Nat
      /\ handle \in {"create", "open"} /\ UNCHANGED handle
      /\ o.file # Events => files'[Events] = files[Events]
      /\ o.file = Events => files'[Events] \in FailedAppends(files[Events], line)
      /\ \/ count'[Events] = count[Events]
         \/ /\ o.file = Events /\ count'[Events] = o.seq
            /\ files'[Events] = Appended(files[Events], line)
  BY WriteToLog
<1>2. \A j \in 1..Len(queue') : queue'[j].pc # "write"
  BY NothingToWrite
<1>3. SUFFICES ASSUME LogReadable', TerminalEvents' = {}
               PROVE  Len(Lines') < MaxEvents /\ count'[Events] < MaxEvents
  BY <1>2 DEF SlotInv
<1>4. o.file = Events =>
         \/ files'[Events] = files[Events]
         \/ files'[Events] = Appended(files[Events], line)
  <2>1. files'[Events].torn = FALSE \/ ~files'[Events].torn
    BY <1>3 DEF LogReadable
  <2>2. files'[Events] # [files[Events] EXCEPT !.torn = TRUE]
    BY <1>0, <2>1, LogType DEF File
  <2> QED
    BY Zenon, <1>1, <2>2 DEF FailedAppends
<1>5. o.file = Events /\ o.name = "append" => o.seq < MaxEvents
  BY <1>1 DEF SlotInv
<1>6. LogReadable /\ TerminalEvents = {}
  <2>1. CASE o.file # Events
    BY Zenon, <1>1, <1>3, <2>1, SameTerminal
  <2>2. CASE o.file = Events
    BY <1>0, <1>1, <1>3, <2>2, LogOnlyGrows
  <2> QED
    BY <2>1, <2>2
<1>7. Len(Lines) < MaxEvents /\ count[Events] < MaxEvents
  BY <1>1, <1>6 DEF SlotInv
<1>8. CASE o.file = Events /\ files'[Events] = Appended(files[Events], line)
  <2>1. /\ Len(Lines') = Len(Lines) + 1 /\ line.seq = Len(Lines')
        /\ line.tag \notin Terminal
    BY <1>0, <1>1, <1>3, <1>8, LogAfterAppend
  <2>2. o.name = "append"
    BY <1>0, <1>1, <2>1 DEF OpShaped
  <2> QED
    BY <1>1, <1>5, <1>7, <1>8, <2>1, <2>2
<1>9. CASE files'[Events] = files[Events] /\ count'[Events] = count[Events]
  BY <1>7, <1>9, SameTerminal
<1> QED
  BY <1>1, <1>4, <1>8, <1>9

(* The steps that leave the files and the counters alone.                  *)
LEMMA QuietSlotInv ==
    ASSUME StoreInv, SlotInv, NEW i \in 1..Len(queue), WritePlan(i) \/ Rename(i)
    PROVE  SlotInv'
<1>1. UNCHANGED <<files, count, handle>>
  BY DEF WritePlan, Rename
<1>2. Lines' = Lines /\ LogReadable' = LogReadable
      /\ TerminalEvents' = TerminalEvents
  BY <1>1, SameTerminal
<1>3. \A j \in 1..Len(queue') : queue'[j].pc # "write"
  BY NothingToWrite
<1> QED
  BY <1>1, <1>2, <1>3 DEF SlotInv

(* Every step of the store keeps the place free.                           *)
LEMMA NextSlotInv == StoreInv /\ SlotInv /\ [Next]_vars => SlotInv'
<1> SUFFICES ASSUME StoreInv, SlotInv, [Next]_vars PROVE SlotInv'
  OBVIOUS
<1>1. CASE \/ CreateDir \/ CreateRecord \/ CreateEvents \/ CreateFails
           \/ Open \/ Request \/ Crash
  BY <1>1, HandleSlotInv
<1>2. ASSUME NEW i \in 1..Len(queue),
             Begin(i) \/ WriteLine(i) \/ WritePlan(i) \/ Rename(i)
      PROVE  SlotInv'
  BY <1>2, BeginSlotInv, WriteLineSlotInv, QuietSlotInv
<1>3. CASE UNCHANGED vars
  BY <1>3 DEF vars, SlotInv, LogReadable, TerminalEvents, Lines
<1> QED
  BY <1>1, <1>2, <1>3 DEF Next

-----------------------------------------------------------------------------
(* While no write has failed.                                              *)

(* The empty log.                                                          *)
LEMMA EmptyLog ==
    ASSUME files[Events] = EmptyFile
    PROVE  Lines = <<>> /\ TerminalEvents = {}
BY DEF Lines, EmptyFile, TerminalEvents

LEMMA EmptySound ==
    ASSUME NEW f \in Files, files[f] = EmptyFile
    PROVE  Sound(f)
BY StoreAssumption DEF StoreAssumption, Sound, EmptyFile, Limit

LEMMA InitCleanInv == Init => CleanInv
<1> SUFFICES ASSUME Init PROVE Clean
  BY DEF CleanInv
<1>1. \A f \in Files : files[f] = EmptyFile
  BY DEF Init
<1>2. TerminalEvents = {} /\ queue = <<>> /\ handle = "none"
  BY <1>1, EmptyLog DEF Init, Files
<1> QED
  BY <1>1, <1>2, EmptySound DEF Clean

(* What holds of the files holds of them as long as they do not change.    *)
LEMMA SameFiles ==
    ASSUME UNCHANGED files
    PROVE  /\ \A f \in Files : Sound(f)' = Sound(f)
           /\ Lines' = Lines /\ TerminalEvents' = TerminalEvents
BY DEF Sound, Limit, Lines, TerminalEvents

LEMMA QueuedInStep ==
    ASSUME NEW o, o.pc = "queued"
    PROVE  InStep(o)
BY DEF InStep

(* Creating a run, opening it and dropping its handle.                     *)
LEMMA HandleClean ==
    ASSUME StoreInv, Clean,
           \/ CreateDir \/ CreateRecord \/ CreateEvents \/ CreateFails
           \/ Open \/ Crash
    PROVE  Clean'
<1>0. TypeOK /\ OneAtATime /\ FinishedKnown
  BY DEF StoreInv
<1>1. UNCHANGED files /\ queue' = <<>>
  BY <1>0 DEF CreateDir, CreateRecord, CreateEvents, CreateFails, Open, Crash,
              disk, mem, OneAtATime
<1>2. /\ \A f \in Files : Sound(f)'
      /\ Lines' = Lines /\ TerminalEvents' = TerminalEvents
  BY <1>1, SameFiles DEF Clean
<1>3. CASE CreateDir \/ CreateRecord \/ CreateEvents \/ CreateFails
  <2>1. /\ \A f \in Files : files[f] = EmptyFile
        /\ handle' # "open"
        /\ handle' = "create" => count' = [f \in Files |-> 0]
    BY <1>0, <1>3 DEF CreateDir, CreateRecord, CreateEvents, CreateFails,
                      FinishedKnown, Clean, mem
  <2>2. TerminalEvents = {}
    BY <1>0, <2>1, EmptyLog, LogType
  <2>3. \A f \in Files : Len(files[f].lines) = 0
    BY <2>1 DEF EmptyFile
  <2> QED
    BY <1>1, <1>2, <2>1, <2>2, <2>3 DEF Clean
<1>4. CASE Open
  <2>1. /\ handle' = "open" /\ count'[Events] = Len(Lines)
        /\ dir' = "ready" /\ record' = record
    BY <1>0, <1>4, LogType DEF Open, Openable, disk
  <2>2. record.status = "running" => TerminalEvents = {}
    BY <1>4 DEF Open, Openable, RecordAgrees
  <2> QED
    BY <1>1, <1>2, <2>1, <2>2 DEF Clean
<1>5. CASE Crash
  <2>1. handle' = "none" /\ UNCHANGED <<dir, record>>
    BY <1>5 DEF Crash, disk
  <2> QED
    BY <1>1, <1>2, <2>1 DEF Clean
<1> QED
  BY <1>3, <1>4, <1>5

(* Whatever is left of the chain was in it before.                         *)
LEMMA ChainFiles ==
    ASSUME StoreInv, queue # <<>>, handle \in {"create", "open"},
           UNCHANGED handle, Leave(1) \/ Advance(1, "rename")
    PROVE  \A j \in 1..Len(queue') : \E k \in 1..Len(queue) :
              queue'[j].file = queue[k].file
<1>1. queue \in Seq(Op) /\ queue[1] \in Op /\ 1 \in 1..Len(queue)
  BY DEF StoreInv, TypeOK
<1>2. CASE Leave(1)
  <2>1. /\ Len(queue') = Len(queue) - 1
        /\ \A j \in 1..(Len(queue) - 1) : queue'[j] = queue[j + 1]
    BY <1>1, <1>2, WithoutFirst DEF Leave
  <2>2. \A j \in 1..Len(queue') :
          j + 1 \in 1..Len(queue) /\ queue'[j].file = queue[j + 1].file
    BY <1>1, <2>1
  <2> QED
    BY <2>2
<1>3. CASE Advance(1, "rename")
  <2>1. /\ Len(queue') = Len(queue)
        /\ queue'[1] = [queue[1] EXCEPT !.pc = "rename"]
        /\ \A j \in 2..Len(queue) : queue'[j] = queue[j]
    BY <1>3, AdvanceChain
  <2>2. queue'[1].file = queue[1].file
    BY <1>1, <2>1 DEF Op
  <2>3. \A j \in 1..Len(queue') : j = 1 \/ j \in 2..Len(queue)
    BY <1>1, <2>1
  <2>4. \A j \in 1..Len(queue') :
          j \in 1..Len(queue) /\ queue'[j].file = queue[j].file
    BY Zenon, <1>1, <2>1, <2>2, <2>3
  <2> QED
    BY <2>4
<1> QED
  BY <1>2, <1>3

(* A call joins the chain.                                                 *)
LEMMA RequestClean == StoreInv /\ Clean /\ Request => Clean'
<1> SUFFICES ASSUME StoreInv, Clean, Request PROVE Clean'
  OBVIOUS
<1>1. /\ UNCHANGED <<dir, record, files, handle, count>>
      /\ queue \in Seq(Op) /\ handle \in {"create", "open"}
  BY DEF Request, disk, StoreInv, TypeOK
<1>2. PICK c \in CreatedCalls :
         /\ queue' = Append(queue, c)
         /\ handle = "open" => c \in OpenedCalls
  BY DEF Request, CreatedCalls
<1>3. c.pc = "queued" /\ (handle = "open" => c.file = Events)
  BY <1>2 DEF CreatedCalls, OpenedCalls, Call
<1>4. /\ Len(queue') = Len(queue) + 1 /\ queue'[Len(queue) + 1] = c
      /\ \A i \in 1..Len(queue) : queue'[i] = queue[i]
      /\ \A i \in 1..Len(queue') : i \in 1..Len(queue) \/ i = Len(queue) + 1
  BY <1>1, <1>2
<1>5. /\ \A f \in Files : Sound(f)'
      /\ Lines' = Lines /\ TerminalEvents' = TerminalEvents
  BY <1>1, SameFiles DEF Clean
<1>6. \A i \in 1..Len(queue') :
        \/ InStep(queue[i]) /\ queue'[i] = queue[i]
        \/ queue'[i].pc = "queued"
  BY <1>3, <1>4 DEF Clean
<1>7. (\A i \in 1..Len(queue) : InStep(queue[i]))'
  BY Zenon, <1>1, <1>5, <1>6 DEF InStep, Limit
<1>8. record.status = "running" /\ TerminalEvents # {} =>
        queue' # <<>> /\ queue'[1].name = "finish" /\ queue'[1].pc = "rename"
  BY <1>1, <1>4 DEF Clean
<1>9. handle = "open" => \A i \in 1..Len(queue') : queue'[i].file = Events
  BY <1>3, <1>4 DEF Clean
<1> QED
  BY <1>1, <1>5, <1>7, <1>8, <1>9 DEF Clean

(* An operation begins.  While the record is active nothing is terminal,   *)
(* for the finish that appended a terminal event is past its beginning.    *)
LEMMA BeginClean ==
    ASSUME StoreInv, Clean, NEW i \in 1..Len(queue), Begin(i)
    PROVE  Clean'
<1> USE StoreAssumption DEF StoreAssumption
<1>0. TypeOK /\ OneAtATime /\ OpShaped /\ FinishedKnown
  BY DEF StoreInv
<1>1. /\ UNCHANGED <<dir, record, files, handle, count>>
      /\ i = 1 /\ queue # <<>> /\ queue \in Seq(Op) /\ queue[1] \in Op
      /\ handle \in {"create", "open"} /\ queue[1].pc = "queued"
  BY <1>0 DEF Begin, Turn, OneAtATime, TypeOK, disk
<1>2. /\ \A f \in Files : Sound(f)'
      /\ Lines' = Lines /\ TerminalEvents' = TerminalEvents
  BY <1>1, SameFiles DEF Clean
<1>3. record.status = "running" => TerminalEvents = {}
  BY <1>1 DEF Clean
<1>4. CASE Leave(1)
  <2>1. \A j \in 1..Len(queue') : queue'[j].pc = "queued"
    BY <1>1, <1>4, LeaveChain
  <2>2. handle = "open" => \A j \in 1..Len(queue') : queue'[j].file = Events
    BY <1>1, <1>4, ChainFiles DEF Clean
  <2>3. (\A j \in 1..Len(queue) : InStep(queue[j]))'
    BY <2>1 DEF InStep
  <2> QED
    BY <1>1, <1>2, <1>3, <2>2, <2>3 DEF Clean
<1>5. CASE ~Refused(queue[1]) /\ ~Leave(1)
  <2> DEFINE o == queue[1]
             sq == IF o.name = "plan" THEN 0 ELSE count[o.file] + 1
             at == IF o.name = "plan" /\ o.file[2] > attempt
                   THEN o.file[2] ELSE attempt
             b == [o EXCEPT !.pc = "write", !.seq = sq, !.attempt = at]
  <2>1. queue' = [queue EXCEPT ![1] = b] /\ ~finished
    BY <1>1, <1>5 DEF Begin, Refused
  <2>2. TerminalEvents = {}
    BY <1>0, <1>1, <1>3, <2>1 DEF FinishedKnown, TypeOK, Record
  <2> HIDE DEF at
  <2>3. b.name = o.name /\ b.file = o.file /\ b.seq = sq /\ b.pc = "write"
    BY <1>1 DEF Op
  <2>4. o.name # "plan" => /\ sq = Len(files[o.file].lines) + 1
                           /\ sq <= Limit(o.file)
    <3>1. SUFFICES ASSUME o.name # "plan"
                   PROVE  /\ count[o.file] = Len(files[o.file].lines)
                          /\ count[o.file] + 1 <= Limit(o.file)
      OBVIOUS
    <3>2. o.file \in Files /\ count[o.file] \in Nat
      BY <1>0, <1>1, <3>1, LogType DEF OpShaped, Op
    <3>3. count[o.file] = Len(files[o.file].lines)
      BY SMTT(30), <1>1, <3>2 DEF Clean, Lines
    <3>4. CASE o.name = "append" /\ o.file = Events
      <4>1. ~(count[Events] >= MaxEvents - 1)
        BY <1>5, <3>4 DEF Refused, AppendRefused
      <4> QED
        BY <3>2, <3>3, <3>4, <4>1 DEF Limit
    <3>5. CASE o.name = "append" /\ o.file # Events
      <4>1. ~(count[o.file] >= MaxRecords)
        BY <1>5, <3>5 DEF Refused, CollectRefused
      <4> QED
        BY <3>2, <3>3, <3>5, <4>1 DEF Limit
    <3>6. CASE o.name = "finish"
      <4>1. ~(count[Events] >= MaxEvents) /\ o.file = Events
        BY <1>0, <1>1, <1>5, <3>6 DEF Refused, FinishRefused, OpShaped
      <4> QED
        BY <3>2, <3>3, <4>1 DEF Limit
    <3> QED
      BY <1>1, <3>1, <3>4, <3>5, <3>6 DEF Op
  <2> HIDE DEF b
  <2>5. /\ Len(queue') = Len(queue) /\ queue'[1] = b
        /\ \A j \in 2..Len(queue) : queue'[j] = queue[j]
        /\ \A j \in 1..Len(queue') : j = 1 \/ j \in 2..Len(queue)
    BY <1>1, <2>1
  <2>6. \A j \in 1..Len(queue') : \/ queue'[j] = b
                                  \/ queue'[j].pc = "queued"
    BY <1>0, <2>5 DEF OneAtATime
  <2>7. (\A j \in 1..Len(queue) : InStep(queue[j]))'
    BY <1>1, <1>2, <2>2, <2>3, <2>4, <2>6 DEF InStep, Limit
  <2>8. handle = "open" => \A j \in 1..Len(queue') : queue'[j].file = Events
    BY SMTT(30), <1>1, <2>3, <2>5 DEF Clean
  <2> QED
    BY <1>1, <1>2, <2>2, <2>7, <2>8 DEF Clean
<1> QED
  BY <1>1, <1>4, <1>5 DEF Begin

(* The next line of a sound file leaves it sound.                          *)
LEMMA AppendSound ==
    ASSUME TypeOK, NEW f \in Files, NEW line \in Line, Sound(f),
           files' = [files EXCEPT ![f] = Appended(@, line)],
           line.seq = Len(files[f].lines) + 1, line.seq <= Limit(f),
           line.tag # "garbage"
    PROVE  /\ Sound(f)'
           /\ files'[f].lines = Append(files[f].lines, line)
           /\ Len(files'[f].lines) = line.seq
<1>1. /\ files[f].lines \in Seq(Line) /\ Len(files[f].lines) \in Nat
      /\ ~files[f].torn
  BY LogType DEF Sound
<1>2. files'[f] = Appended(files[f], line)
  BY DEF TypeOK
<1>3. /\ files'[f].torn = FALSE
      /\ files'[f].lines = Append(files[f].lines, line)
  BY <1>1, <1>2 DEF Appended
<1>4. /\ Len(files'[f].lines) = line.seq
      /\ files'[f].lines[line.seq] = line
      /\ \A i \in 1..Len(files[f].lines) :
            files'[f].lines[i] = files[f].lines[i]
      /\ \A i \in 1..line.seq : i \in 1..Len(files[f].lines) \/ i = line.seq
  BY <1>1, <1>3
<1>5. \A i \in 1..Len(files'[f].lines) :
         files'[f].lines[i].seq = i /\ files'[f].lines[i].tag # "garbage"
  BY SMTT(30), <1>4 DEF Sound
<1> QED
  BY <1>3, <1>4, <1>5 DEF Sound, Limit

(* A line is written whole.                                                *)
LEMMA WriteLineClean ==
    ASSUME StoreInv, Clean, NEW i \in 1..Len(queue), WriteLine(i), ~Fault
    PROVE  Clean'
<1> DEFINE o == queue[1]
           line == [seq |-> o.seq, tag |-> o.tag]
<1>0. TypeOK /\ OpShaped /\ FinishedKnown
  BY DEF StoreInv
<1>1. /\ i = 1 /\ queue # <<>> /\ queue \in Seq(Op) /\ o \in Op
      /\ o.pc = "write" /\ o.name \in {"append", "finish"}
      /\ o.file \in Files /\ line \in Line /\ o.seq \in Nat
      /\ handle \in {"create", "open"} /\ record.status = "running"
      /\ UNCHANGED <<dir, record, handle>>
  BY WriteToLog
<1>2. /\ files' = [files EXCEPT ![o.file] = Appended(@, line)]
      /\ count' = [count EXCEPT ![o.file] = o.seq]
      /\ IF o.name = "finish" THEN Advance(1, "rename") ELSE Leave(1)
  BY <1>1 DEF WriteLine, SetCount
<1>3. /\ TerminalEvents = {} /\ o.seq = Len(files[o.file].lines) + 1
      /\ o.seq <= Limit(o.file) /\ o.tag # "garbage" /\ 1 \in 1..Len(queue)
      /\ o.tag \in Terminal => o.name = "finish"
      /\ o.name = "finish" => o.file = Events /\ o.tag \in Terminal
  BY <1>0, <1>1 DEF Clean, InStep, OpShaped
<1>4. PICK fl \in Files : fl = o.file
  BY SMTT(30), <1>1
<1>5. /\ Sound(fl)'
      /\ files'[o.file].lines = Append(files[o.file].lines, line)
      /\ Len(files'[o.file].lines) = o.seq
  <2>1. /\ line.seq = o.seq /\ line.tag = o.tag /\ Sound(fl)
    BY <1>1, <1>4 DEF Clean
  <2> HIDE DEF line
  <2> QED
    BY Zenon, <1>0, <1>1, <1>2, <1>3, <1>4, <2>1, AppendSound
<1>6. \A f \in Files : f # o.file => files'[f] = files[f] /\ count'[f] = count[f]
  BY <1>0, <1>1, <1>2 DEF TypeOK
<1>7. count'[o.file] = o.seq
  BY SMTT(30), <1>0, <1>1, <1>2 DEF TypeOK
<1>8. (\A f \in Files : Sound(f))'
  <2>1. \A f \in Files : f # fl => Sound(f)'
    <3>1. SUFFICES ASSUME NEW f \in Files, f # fl PROVE Sound(f)'
      OBVIOUS
    <3>2. files'[f] = files[f] /\ Sound(f)
      BY SMTT(30), <1>6, <1>4, <3>1 DEF Clean
    <3> QED
      BY <3>2 DEF Sound, Limit
  <2> QED
    BY <1>5, <2>1
<1>9. handle = "create" => \A f \in Files : count'[f] = Len(files'[f].lines)
  BY Zenon, <1>5, <1>6, <1>7 DEF Clean
<1>10. handle = "open" => /\ count'[Events] = Len(Lines')
                         /\ \A j \in 1..Len(queue') : queue'[j].file = Events
  <2>1. SUFFICES ASSUME handle = "open"
                 PROVE  /\ count'[Events] = Len(Lines')
                        /\ \A j \in 1..Len(queue') : queue'[j].file = Events
    OBVIOUS
  <2>2. \A k \in 1..Len(queue) : queue[k].file = Events
    BY <2>1 DEF Clean
  <2>3. o.file = Events
    BY <1>3, <2>2
  <2>4. \A j \in 1..Len(queue') : queue'[j].file = Events
    BY <1>1, <1>2, <2>2, ChainFiles
  <2> QED
    BY <1>5, <1>7, <2>3, <2>4 DEF Lines
<1>11. TerminalEvents' = IF o.name = "finish" THEN {Len(Lines')} ELSE {}
  <2>1. CASE o.file # Events
    <3>1. Lines' = Lines
      BY <1>0, <1>6, <2>1, LogType DEF Lines
    <3> QED
      BY <1>3, <2>1, <3>1 DEF TerminalEvents
  <2>2. CASE o.file = Events
    <3>1. Lines \in Seq(Line) /\ Lines' = Append(Lines, line)
      BY <1>0, <1>5, <2>2, LogType DEF Lines
    <3>2. /\ Len(Lines') = Len(Lines) + 1 /\ Lines'[Len(Lines')] = line
          /\ \A j \in 1..Len(Lines) : Lines'[j] = Lines[j]
          /\ \A j \in 1..Len(Lines') : j \in 1..Len(Lines) \/ j = Len(Lines')
          /\ Len(Lines') \in 1..Len(Lines')
      BY <1>1, <3>1
    <3>3. line.tag \in Terminal <=> o.name = "finish"
      BY <1>3
    <3>4. \A j \in 1..Len(Lines) : Lines[j].tag \notin Terminal
      BY <1>3 DEF TerminalEvents
    <3> HIDE DEF line
    <3>5. \A j \in 1..Len(Lines') :
             Lines'[j].tag \in Terminal <=> o.name = "finish" /\ j = Len(Lines')
      <4>1. TAKE j \in 1..Len(Lines')
      <4>2. CASE j \in 1..Len(Lines)
        BY <1>0, <3>2, <3>4, <4>2, LogType
      <4>3. CASE j = Len(Lines')
        BY SMTT(30), <3>2, <3>3, <4>3
      <4> QED
        BY <3>2, <4>1, <4>2, <4>3
    <3> QED
      BY <3>2, <3>5 DEF TerminalEvents
  <2> QED
    BY <2>1, <2>2
<1>12. CASE o.name = "finish"
  <2>1. /\ Len(queue') = Len(queue)
        /\ queue'[1] = [o EXCEPT !.pc = "rename"]
        /\ \A j \in 2..Len(queue) : queue'[j].pc = "queued"
    BY <1>1, <1>2, <1>12, AdvanceChain
  <2>2. queue'[1].name = "finish" /\ queue'[1].pc = "rename" /\ queue' # <<>>
    BY <1>1, <1>3, <1>12, <2>1 DEF Op
  <2>3. \A j \in 1..Len(queue') :
           \/ queue'[j].name = "finish" /\ queue'[j].pc = "rename"
           \/ queue'[j].pc = "queued"
    <3>1. \A j \in 1..Len(queue') : j = 1 \/ j \in 2..Len(queue)
      BY <1>1, <2>1
    <3> QED
      BY Zenon, <2>1, <2>2, <3>1
  <2>4. (\A j \in 1..Len(queue) : InStep(queue[j]))'
    BY <2>3 DEF InStep
  <2> QED
    BY <1>0, <1>1, <1>8, <1>9, <1>10, <1>11, <1>12, <2>2, <2>4
       DEF Clean, FinishedKnown
<1>13. CASE o.name # "finish"
  <2>1. \A j \in 1..Len(queue') : queue'[j].pc = "queued"
    BY <1>1, <1>2, <1>13, LeaveChain
  <2>2. (\A j \in 1..Len(queue) : InStep(queue[j]))'
    BY <2>1 DEF InStep
  <2> QED
    BY <1>0, <1>1, <1>8, <1>9, <1>10, <1>11, <1>13, <2>2
       DEF Clean, FinishedKnown
<1> QED
  BY <1>12, <1>13

(* A plan is written or refused.                                           *)
LEMMA WritePlanClean ==
    ASSUME StoreInv, Clean, NEW i \in 1..Len(queue), WritePlan(i)
    PROVE  Clean'
<1> DEFINE o == queue[1]
<1>0. TypeOK /\ OpShaped
  BY SMTT(30) DEF StoreInv
<1>1. /\ i = 1 /\ queue # <<>> /\ queue \in Seq(Op) /\ o \in Op
      /\ handle \in {"create", "open"} /\ 1 \in 1..Len(queue)
  BY BegunIsActive DEF WritePlan
<1>2. /\ UNCHANGED <<dir, record, files, handle, count>>
      /\ o.pc = "write" /\ o.name = "plan"
      /\ Leave(1) \/ Advance(1, "rename")
  BY SMTT(30), <1>1 DEF WritePlan
<1>3. /\ \A f \in Files : Sound(f)'
      /\ Lines' = Lines /\ TerminalEvents' = TerminalEvents
      /\ TerminalEvents = {}
  BY <1>1, <1>2, SameFiles DEF Clean, InStep
<1>4. handle = "open" => \A j \in 1..Len(queue') : queue'[j].file = Events
  BY <1>1, <1>2, ChainFiles DEF Clean
<1>5. \A j \in 1..Len(queue') : queue'[j].pc # "write"
  <2>1. CASE Leave(1)
    BY <1>1, <1>2, <2>1, LeaveChain
  <2>2. CASE Advance(1, "rename")
    <3>1. /\ Len(queue') = Len(queue)
          /\ queue'[1] = [o EXCEPT !.pc = "rename"]
          /\ \A j \in 2..Len(queue) : queue'[j].pc = "queued"
      BY <1>1, <1>2, <2>2, AdvanceChain
    <3>2. queue'[1].pc = "rename"
      BY <1>1, <3>1 DEF Op
    <3>3. \A j \in 1..Len(queue') : j = 1 \/ j \in 2..Len(queue)
      BY <1>1, <3>1
    <3> QED
      BY Zenon, <3>1, <3>2, <3>3
  <2> QED
    BY <1>2, <2>1, <2>2
<1>6. (\A j \in 1..Len(queue) : InStep(queue[j]))'
  BY <1>3, <1>5 DEF InStep
<1> QED
  BY <1>1, <1>2, <1>3, <1>4, <1>6 DEF Clean

(* run.json is renamed: the record of a finish is terminal from then on.   *)
LEMMA RenameClean ==
    ASSUME StoreInv, Clean, NEW i \in 1..Len(queue), Rename(i), ~Fault
    PROVE  Clean'
<1> DEFINE o == queue[1]
<1>0. TypeOK /\ OpShaped
  BY DEF StoreInv
<1>1. /\ i = 1 /\ queue # <<>> /\ queue \in Seq(Op) /\ o \in Op
      /\ handle \in {"create", "open"} /\ 1 \in 1..Len(queue)
  BY BegunIsActive DEF Rename
<1>2. /\ UNCHANGED <<dir, files, handle, count>>
      /\ o.pc = "rename" /\ Leave(1) /\ record' = Renamed(o)
  BY <1>1 DEF Rename
<1>3. /\ \A f \in Files : Sound(f)'
      /\ Lines' = Lines /\ TerminalEvents' = TerminalEvents
  BY <1>2, SameFiles DEF Clean
<1>4. handle = "open" => \A j \in 1..Len(queue') : queue'[j].file = Events
  BY <1>1, <1>2, ChainFiles DEF Clean
<1>5. \A j \in 1..Len(queue') : queue'[j].pc = "queued"
  BY <1>1, <1>2, LeaveChain
<1>6. (\A j \in 1..Len(queue) : InStep(queue[j]))'
  BY <1>5 DEF InStep
<1>7. record'.status = "running" => TerminalEvents = {}
  <2>1. o.name = "finish" => o.tag # "running"
    BY <1>0, <1>1 DEF OpShaped, Terminal
  <2>2. o.name # "finish" => TerminalEvents = {}
    BY <1>1, <1>2 DEF Clean, InStep
  <2> QED
    BY <1>2, <2>1, <2>2 DEF Renamed
<1> QED
  BY <1>1, <1>2, <1>3, <1>4, <1>6, <1>7 DEF Clean

(* While no write fails the files stay sound and in step with the handle.  *)
LEMMA NextCleanInv == StoreInv /\ CleanInv /\ [Next]_vars => CleanInv'
<1> SUFFICES ASSUME StoreInv, CleanInv, [Next]_vars, faults' = 0
             PROVE  Clean'
  BY DEF CleanInv
<1>0. TypeOK
  BY DEF StoreInv
<1>1. faults \in Nat /\ ~Fault
  BY <1>0, StoreAssumption DEF TypeOK, Fault, StoreAssumption
<1>2. faults = 0
  <2>1. faults' = faults \/ Fault
    BY Zenon DEF Next, vars, CreateDir, CreateRecord, CreateEvents, CreateFails,
           Open, Request, Begin, WriteLine, WritePlan, Rename, Crash
  <2> QED
    BY SMTT(30), <1>1, <2>1
<1>3. Clean
  BY <1>2 DEF CleanInv
<1>4. CASE \/ CreateDir \/ CreateRecord \/ CreateEvents \/ CreateFails
           \/ Open \/ Crash
  BY <1>3, <1>4, HandleClean
<1>5. CASE Request
  BY <1>3, <1>5, RequestClean
<1>6. ASSUME NEW i \in 1..Len(queue),
             Begin(i) \/ WriteLine(i) \/ WritePlan(i) \/ Rename(i)
      PROVE  Clean'
  BY SMTT(30), <1>1, <1>3, <1>6, BeginClean, WriteLineClean, WritePlanClean, RenameClean
<1>7. CASE UNCHANGED vars
  BY Zenon, <1>3, <1>7 DEF vars, Clean, Sound, Limit, InStep, Lines, TerminalEvents
<1> QED
  BY <1>4, <1>5, <1>6, <1>7 DEF Next

(* What the three invariants say of a run that is opened, finished or read *)
(* by a cursor.                                                            *)
LEMMA SafetyFromInv == StoreInv /\ SlotInv /\ CleanInv => StoreSafety
<1> SUFFICES ASSUME StoreInv, SlotInv, CleanInv PROVE StoreSafety
  OBVIOUS
<1> USE StoreAssumption DEF StoreAssumption
<1>0. TypeOK /\ PlanBacked
  BY DEF StoreInv
<1>1. RecordedAttemptHasPlan
  BY <1>0 DEF PlanBacked, RecordedAttemptHasPlan
<1>2. TerminalSlotReserved
  BY <1>0, LogType DEF SlotInv, TerminalSlotReserved, FinishRefused
<1>3. CollectionsNumbered
  <2>1. \A c \in Collections : c \in Files /\ c # Events
    BY DEF Files, Collections, Events, Kinds, Attempts
  <2> QED
    BY <2>1 DEF CollectionsNumbered, CleanInv, Clean, Sound, Limit
<1> QED
  BY <1>1, <1>2, <1>3 DEF StoreSafety

(* openPodRunStore takes every sound run but one in the window of finish.  *)
LEMMA ReopensFromInv == StoreInv /\ CleanInv => CleanRunReopens
<1> SUFFICES ASSUME StoreInv, CleanInv, faults = 0, dir = "ready"
             PROVE  Openable \/ Finishing
  BY DEF CleanRunReopens
<1>0. TypeOK /\ TerminalRecordBacked /\ Clean
  BY DEF StoreInv, CleanInv
<1>1. LogReadable /\ Len(Lines) <= MaxEvents
  <2>1. Sound(Events)
    BY <1>0, LogType DEF Clean
  <2> QED
    BY <2>1 DEF Sound, Limit, LogReadable, Lines
<1>2. CASE record.status = "running"
  BY <1>0, <1>1, <1>2 DEF Clean, Openable, RecordAgrees, Finishing
<1>3. CASE record.status # "running"
  <2>1. record.status \in Terminal
    BY <1>0, <1>3 DEF TypeOK, Record
  <2> QED
    BY <1>0, <1>1, <1>3, <2>1 DEF Openable, RecordAgrees, TerminalRecordBacked
<1> QED
  BY <1>2, <1>3

(* The store is safe at every await of every operation: terminal records   *)
(* are backed by the log, a recorded attempt has its plan, finish always   *)
(* has its place, and collections are numbered without gaps.               *)
THEOREM StoreSafe == Spec => []StoreSafety
<1>1. Init => StoreInv /\ SlotInv /\ CleanInv
  BY InitStoreInv, InitSlotInv, InitCleanInv
<1>2. StoreInv /\ SlotInv /\ CleanInv /\ [Next]_vars
         => (StoreInv /\ SlotInv /\ CleanInv)'
  BY NextStoreInv, NextSlotInv, NextCleanInv
<1> QED
  BY <1>1, <1>2, SafetyFromInv, PTL DEF Spec

(* A run none of whose writes failed opens again whenever its process      *)
(* dies, except between finish's two writes.                               *)
THEOREM CleanReopens == Spec => []CleanRunReopens
<1>1. Init => StoreInv /\ CleanInv
  BY InitStoreInv, InitCleanInv
<1>2. StoreInv /\ CleanInv /\ [Next]_vars => (StoreInv /\ CleanInv)'
  BY NextStoreInv, NextCleanInv
<1> QED
  BY <1>1, <1>2, ReopensFromInv, PTL DEF Spec
=============================================================================
