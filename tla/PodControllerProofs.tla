------------------------- MODULE PodControllerProofs -------------------------
(***************************************************************************)
(* What holds of the controller of a pod run for any number of attempts.   *)
(***************************************************************************)
EXTENDS PodController, SequenceTheorems, TLAPS

(* The writers, in the order of the slots.                                 *)
LEMMA SlotFacts ==
    /\ A \in WriterSlots /\ B \in WriterSlots /\ C \in WriterSlots
    /\ A # B /\ A # C /\ B # C /\ None \notin WriterSlots
    /\ \A s \in WriterSlots : s = A \/ s = B \/ s = C
BY DEF A, B, C, None, WriterSlots

LEMMA Positions == Position(A) = 1 /\ Position(B) = 2 /\ Position(C) = 3
<1>1. SlotOrder[1] = A /\ SlotOrder[2] = B /\ SlotOrder[3] = C
  BY DEF SlotOrder
<1>2. \A s \in WriterSlots : Position(s) \in 1..3 /\ SlotOrder[Position(s)] = s
  <2>1. \A s \in WriterSlots : \E i \in 1..3 : SlotOrder[i] = s
    BY <1>1, SlotFacts
  <2> QED
    BY <2>1 DEF Position
<1>3. \A i \in 1..3 : i = 1 \/ i = 2 \/ i = 3
  OBVIOUS
<1> QED
  BY <1>1, <1>2, <1>3, SlotFacts

(* First takes a writer of the set, also where Promise.race does.          *)
LEMMA FirstIn ==
    ASSUME NEW S \in SUBSET WriterSlots, S # {}
    PROVE  First(S) \in S
<1>1. \E s \in S : \A t \in S : Position(s) <= Position(t)
  <2>1. CASE A \in S
    BY <2>1, Positions, SlotFacts
  <2>2. CASE A \notin S /\ B \in S
    BY <2>2, Positions, SlotFacts
  <2>3. CASE A \notin S /\ B \notin S
    BY <2>3, Positions, SlotFacts
  <2> QED
    BY <2>1, <2>2, <2>3
<1> QED
  BY <1>1 DEF First

LEMMA WinnerSettled ==
    ASSUME NEW P \in SUBSET WriterSlots
    PROVE  \/ NextWinner(P) = None
           \/ NextWinner(P) \in P /\ writer[NextWinner(P)] # "running"
<1> DEFINE settled == {s \in P : writer[s] # "running"}
<1>1. CASE settled = {}
  BY <1>1 DEF NextWinner
<1>2. CASE settled # {}
  <2>1. First(settled) \in settled
    BY <1>2, FirstIn
  <2>2. NextWinner(P) = First(settled)
    BY <1>2 DEF NextWinner
  <2> QED
    BY <2>1, <2>2
<1> QED
  BY <1>1, <1>2

(* An appended event.                                                      *)
LEMMA LogFacts ==
    ASSUME TypeOK, NEW type \in EventTypes, Log(type)
    PROVE  /\ events' \in Seq(EventTypes \X (0..MaxAttempts))
           /\ Len(events') = Len(events) + 1 /\ Len(events) \in Nat
           /\ \A i \in 1..Len(events) : events'[i] = events[i]
           /\ events'[Len(events) + 1] = <<type, attempt>>
<1>1. /\ events \in Seq(EventTypes \X (0..MaxAttempts))
      /\ <<type, attempt>> \in EventTypes \X (0..MaxAttempts)
      /\ events' = Append(events, <<type, attempt>>)
  BY DEF TypeOK, Log
<1> QED
  BY <1>1, AppendProperties, LenProperties

-----------------------------------------------------------------------------
(* The errors and results a step brings.                                   *)
LEMMA ErrorFacts ==
    /\ PortErrors \subseteq Errors /\ None \notin Errors
    /\ {"fault", "worded", "interrupt"} \subseteq Errors
    /\ \A r \in Failures : ErrorOf(r) \in Errors
    /\ "idle" \notin Results /\ "running" \notin Results
    /\ Results = Failures \cup {"completed", "blocked"}
BY DEF PortErrors, Errors, None, Failures, Results, ErrorOf

-----------------------------------------------------------------------------
(* Types.                                                                  *)

LEMMA InitType == Init => TypeOK
<1> SUFFICES ASSUME Init PROVE TypeOK
  OBVIOUS
<1>1. events \in Seq(EventTypes \X (0..MaxAttempts))
  <2>1. events = <<>>
    BY DEF Init
  <2> QED
    BY <2>1
<1>2. /\ pc \in Pcs /\ attempt \in 0..MaxAttempts
      /\ status \in {"running", "ready", "failed"}
      /\ expired \in {"no", "attempt", "workflow"}
      /\ source \in {"open", "retained", "removed"}
  BY ControllerAssumption DEF Init, Pcs
<1>6. interrupted \in BOOLEAN /\ cancelled \in BOOLEAN
  BY Zenon DEF Init
<1>3. /\ writer \in [WriterSlots -> Results \cup {"idle", "running"}]
      /\ initial \in [WriterSlots -> {None, "completed", "blocked", "failed"}]
  BY DEF Init
<1>4. /\ accepted \in Candidates /\ checkpoint \in Commits /\ combined \in Commits
      /\ checkSlot \in WriterSlots
  BY SlotFacts DEF Init, Candidates, Commits, NoCandidate
<1>5. /\ stale = {} /\ pending = {} /\ winner = None /\ firstError = None
      /\ checked = {} /\ gates = {}
  BY DEF Init
<1> QED
  BY <1>1, <1>2, <1>3, <1>4, <1>5, <1>6 DEF TypeOK

(* The parts of a step that several actions share.                         *)
LEMMA TypeFail ==
    ASSUME TypeOK, NEW e \in Errors, FailAttempt(e)
    PROVE  TypeOK'
BY DEF TypeOK, FailAttempt, Pcs, race, work, env

LEMMA TypeCall ==
    ASSUME TypeOK, NEW next \in AgentPcs, CallAgent(next)
    PROVE  pc' \in Pcs /\ firstError' \in Errors \cup {None}
BY ErrorFacts DEF TypeOK, CallAgent, Pcs

LEMMA TypeNextCheck ==
    ASSUME TypeOK, NEW e \in Errors \cup {None}, NextCheck(e)
    PROVE  /\ pc' \in Pcs /\ firstError' \in Errors \cup {None}
           /\ checkSlot' \in WriterSlots
<1>1. firstError' \in Errors \cup {None}
  BY DEF NextCheck, KeepFirst, TypeOK
<1>2. pc' \in Pcs
  BY DEF NextCheck, Pcs
<1>3. checkSlot' \in WriterSlots
  <2>1. Later(checkSlot) \in SUBSET WriterSlots
    BY DEF Later, Completed
  <2>2. CASE Later(checkSlot) # {}
    <3>1. First(Later(checkSlot)) \in Later(checkSlot)
      BY <2>1, <2>2, FirstIn
    <3> QED
      BY <2>1, <2>2, <3>1 DEF NextCheck
  <2>3. CASE Later(checkSlot) = {}
    BY <2>3 DEF NextCheck, TypeOK
  <2> QED
    BY <2>2, <2>3
<1> QED
  BY <1>1, <1>2, <1>3

LEMMA TypeStart ==
    ASSUME TypeOK, RaceInv, Start \/ StartAttempt
    PROVE  TypeOK'
<1>1. CASE Start
  <2>1. <<<<"run.started", 0>>>> \in Seq(EventTypes \X (0..MaxAttempts))
    BY ControllerAssumption DEF EventTypes
  <2>2. events' \in Seq(EventTypes \X (0..MaxAttempts))
    BY Zenon, <1>1, <2>1 DEF Start, TypeOK
  <2>3. /\ pc' \in Pcs /\ attempt' \in 0..MaxAttempts
        /\ firstError' \in Errors \cup {None}
    BY <1>1, ControllerAssumption, ErrorFacts DEF Start, TypeOK, Pcs
  <2> QED
    BY <1>1, <2>2, <2>3 DEF Start, TypeOK, race, work, env
<1>2. CASE StartAttempt /\ interrupted
  BY <1>2, ErrorFacts DEF StartAttempt, TypeOK, Pcs, race, work
<1>3. CASE StartAttempt /\ ~interrupted
  <2>1. events' \in Seq(EventTypes \X (0..MaxAttempts))
    <3>1. CASE Log("plan.started")
      BY <3>1, LogFacts DEF EventTypes
    <3>2. CASE UNCHANGED events
      BY <3>2 DEF TypeOK
    <3> QED
      BY <1>3, <3>1, <3>2 DEF StartAttempt
  <2>2. stale' \subseteq WriterSlots \X (1..MaxAttempts)
    <3>1. \A s \in Running : s \in WriterSlots /\ attempt - 1 \in 1..MaxAttempts
      BY <1>3, ControllerAssumption DEF StartAttempt, RaceInv, Running, TypeOK
    <3> QED
      BY <1>3, <3>1 DEF StartAttempt, TypeOK
  <2>3. /\ pc' \in Pcs /\ firstError' \in Errors \cup {None}
        /\ expired' \in {"no", "attempt", "workflow"}
    BY <1>3, ErrorFacts DEF StartAttempt, TypeOK, Pcs, AgentPcs
  <2>4. /\ writer' \in [WriterSlots -> Results \cup {"idle", "running"}]
        /\ pending' \subseteq WriterSlots /\ winner' \in WriterSlots \cup {None}
        /\ initial' \in [WriterSlots -> {None, "completed", "blocked", "failed"}]
        /\ accepted' \in Candidates /\ checked' \subseteq WriterSlots \X Commits
        /\ checkSlot' \in WriterSlots /\ checkpoint' \in Commits
        /\ combined' \in Commits /\ gates' \subseteq GateNames \X Candidates
    BY <1>3, SlotFacts DEF StartAttempt, Candidates, Commits, NoCandidate
  <2> QED
    BY <1>3, <2>1, <2>2, <2>3, <2>4 DEF StartAttempt, TypeOK
<1> QED
  BY <1>1, <1>2, <1>3

LEMMA TypeLaunch ==
    ASSUME TypeOK, PlannerAnswers \/ LaunchWriters \/ LaunchBreaks
    PROVE  TypeOK'
<1>1. events' \in Seq(EventTypes \X (0..MaxAttempts))
  <2>1. \E type \in EventTypes : Log(type)
    BY DEF PlannerAnswers, LaunchWriters, LaunchBreaks, EventTypes
  <2> QED
    BY <2>1, LogFacts
<1>2. CASE PlannerAnswers
  BY <1>1, <1>2 DEF PlannerAnswers, TypeOK, Pcs, race, work, env
<1>3. CASE LaunchWriters
  BY <1>1, <1>3 DEF LaunchWriters, TypeOK, Pcs, work, env
<1>4. CASE LaunchBreaks
  <2>1. /\ writer' \in [WriterSlots -> Results \cup {"idle", "running"}]
        /\ expired' \in {"no", "attempt", "workflow"}
        /\ firstError' \in Errors \cup {None} /\ pc' \in Pcs
    BY <1>4, ErrorFacts DEF LaunchBreaks, TypeOK, Pcs
  <2> QED
    BY <1>1, <1>4, <2>1 DEF LaunchBreaks, TypeOK, work
<1> QED
  BY <1>2, <1>3, <1>4

LEMMA TypeWriters ==
    ASSUME TypeOK, Writers
    PROVE  TypeOK'
<1>1. CASE StaleSettles
  BY <1>1 DEF StaleSettles, TypeOK, work, env
<1>2. ASSUME NEW s \in WriterSlots, WriterSettles(s) PROVE TypeOK'
  <2>1. /\ writer' \in [WriterSlots -> Results \cup {"idle", "running"}]
        /\ winner' \in WriterSlots \cup {None}
    BY <1>2 DEF WriterSettles, TypeOK
  <2> QED
    BY <1>2, <2>1 DEF WriterSettles, TypeOK, work, env
<1> QED
  BY <1>1, <1>2 DEF Writers

LEMMA NextWinnerType ==
    ASSUME NEW P \in SUBSET WriterSlots
    PROVE  NextWinner(P) \in WriterSlots \cup {None}
BY WinnerSettled

LEMMA TypeConsume ==
    ASSUME TypeOK, RaceInv, NEW s \in WriterSlots, Consume(s)
    PROVE  TypeOK'
<1>1. writer[s] \in Results
  BY SlotFacts DEF Consume, RaceInv
<1>2. pending' \subseteq WriterSlots /\ winner' \in WriterSlots \cup {None}
  <2>1. pending \ {s} \in SUBSET WriterSlots
    BY DEF TypeOK
  <2> QED
    BY <2>1, NextWinnerType DEF Consume
<1>3. cancelled' \in BOOLEAN
  BY DEF Consume, TypeOK
<1>4. firstError' \in Errors \cup {None}
  <2>1. KeepFirst("fault") \in Errors
    BY ErrorFacts DEF KeepFirst, TypeOK
  <2>2. writer[s] \in Failures => KeepFirst(ErrorOf(writer[s])) \in Errors
    BY ErrorFacts DEF KeepFirst, TypeOK
  <2> QED
    BY <1>1, <2>1, <2>2, ErrorFacts DEF Consume, TypeOK
<1>5. initial' \in [WriterSlots -> {None, "completed", "blocked", "failed"}]
  BY <1>1 DEF Consume, TypeOK
<1> QED
  BY <1>2, <1>3, <1>4, <1>5 DEF Consume, TypeOK, work

LEMMA TypeRace ==
    ASSUME TypeOK, RaceInv,
           BeginHandover \/ CheckpointChecked \/ QueueRequest \/ RaceOver
    PROVE  TypeOK'
<1>1. \A e \in Errors : BackToRace(e) =>
          /\ pc' \in Pcs /\ firstError' \in Errors \cup {None}
          /\ cancelled' \in BOOLEAN
  BY DEF BackToRace, Pcs, terminalInterruption, TypeOK
<1>2. NextWinner(pending) \in WriterSlots \cup {None}
  BY NextWinnerType DEF TypeOK
<1>3. CASE BeginHandover
  <2>1. NextWinner(pending \ {A}) \in WriterSlots \cup {None}
    BY NextWinnerType DEF TypeOK
  <2>2. /\ pc' \in Pcs /\ firstError' \in Errors \cup {None}
        /\ cancelled' \in BOOLEAN
    BY <1>1, <1>3, ErrorFacts DEF BeginHandover, TypeOK, Pcs, AgentPcs
  <2>3. /\ pending' \subseteq WriterSlots /\ winner' \in WriterSlots \cup {None}
        /\ initial' \in [WriterSlots -> {None, "completed", "blocked", "failed"}]
    BY Zenon, <1>3, <2>1 DEF BeginHandover, TypeOK
  <2> QED
    BY <1>3, <2>2, <2>3 DEF BeginHandover, TypeOK, work
<1>4. CASE CheckpointChecked
  <2>1. /\ pc' \in Pcs /\ firstError' \in Errors \cup {None}
        /\ cancelled' \in BOOLEAN /\ winner' \in WriterSlots \cup {None}
    BY <1>1, <1>2, <1>4, ErrorFacts DEF CheckpointChecked, TypeOK, Pcs
  <2>2. checked' \subseteq WriterSlots \X Commits
    BY <1>4, SlotFacts DEF CheckpointChecked, TypeOK, Commits
  <2> QED
    BY <1>4, <2>1, <2>2 DEF CheckpointChecked, TypeOK
<1>5. CASE QueueRequest
  <2>1. /\ pc' \in Pcs /\ firstError' \in Errors \cup {None}
        /\ cancelled' \in BOOLEAN /\ checkpoint' \in Commits
    BY <1>1, <1>5, ErrorFacts DEF QueueRequest, TypeOK, Pcs, Commits
  <2>2. events' \in Seq(EventTypes \X (0..MaxAttempts))
    <3>1. CASE Log("inbox.queued")
      BY <3>1, LogFacts DEF EventTypes
    <3> QED
      BY <1>5, <3>1 DEF QueueRequest, TypeOK
  <2> QED
    BY <1>2, <1>5, <2>1, <2>2 DEF QueueRequest, TypeOK
<1>6. CASE RaceOver
  BY <1>6 DEF RaceOver, TypeOK, Pcs, race, work, env
<1> QED
  BY <1>3, <1>4, <1>5, <1>6

LEMMA TypeReview ==
    ASSUME TypeOK, RaceInv,
           \/ CommitWriters \/ StartChecker \/ CheckerAnswers
           \/ Handoff \/ OwnerAnswers \/ OwnerChecked
           \/ RequesterAnswers \/ RequesterChecked
    PROVE  TypeOK'
<1>1. CASE CommitWriters
  <2>1. CASE \E e \in PortErrors : FailAttempt(e)
    BY <2>1, ErrorFacts, TypeFail
  <2>2. CASE /\ pc' = "check" /\ checkSlot' = First(Completed)
             /\ UNCHANGED <<attempt, race, accepted, checked, checkpoint,
                            combined, gates, firstError, events, env, status,
                            source>>
    <3>1. Completed \in SUBSET WriterSlots /\ B \in Completed
      BY <1>1, SlotFacts DEF Completed, CommitWriters, RaceInv, RacePcs
    <3>2. First(Completed) \in Completed
      BY <3>1, FirstIn
    <3>3. checkSlot' \in WriterSlots /\ pc' \in Pcs
      BY <2>2, <3>1, <3>2 DEF Pcs
    <3> QED
      BY <2>2, <3>3 DEF TypeOK, race, env
  <2> QED
    BY <1>1, <2>1, <2>2 DEF CommitWriters
<1>2. CASE StartChecker
  <2>1. /\ pc' \in Pcs /\ firstError' \in Errors \cup {None}
        /\ checkSlot' \in WriterSlots
    <3>1. CASE \E e \in PortErrors : NextCheck(e)
      BY <3>1, ErrorFacts, TypeNextCheck
    <3>2. CASE pc' = "checking" /\ UNCHANGED <<checkSlot, firstError>>
      BY SMTT(30), <3>2 DEF TypeOK, Pcs, AgentPcs
    <3> QED
      BY <1>2, <3>1, <3>2 DEF StartChecker
  <2> QED
    BY <1>2, <2>1 DEF StartChecker, TypeOK, race, env
<1>3. CASE CheckerAnswers
  <2>1. \E e \in Errors \cup {None} : NextCheck(e)
    BY <1>3 DEF CheckerAnswers
  <2>2. /\ pc' \in Pcs /\ firstError' \in Errors \cup {None}
        /\ checkSlot' \in WriterSlots
    BY <2>1, TypeNextCheck
  <2>3. checked' \subseteq WriterSlots \X Commits /\ accepted' \in Candidates
    BY <1>3 DEF CheckerAnswers, TypeOK, Candidates, Commits
  <2> QED
    BY <1>3, <2>2, <2>3 DEF CheckerAnswers, TypeOK, race, env
<1>4. CASE Handoff
  <2>1. pc' \in Pcs /\ firstError' \in Errors \cup {None}
    <3>1. CASE CallAgent("owner")
      BY SMTT(30), <3>1, TypeCall DEF AgentPcs
    <3> QED
      BY <1>4, <3>1 DEF Handoff, TypeOK, Pcs
  <2> QED
    BY SMTT(30), <1>4, <2>1 DEF Handoff, TypeOK, race, work, env
<1>5. CASE OwnerAnswers
  <2>1. pc' \in Pcs /\ firstError' \in Errors \cup {None}
    BY SMTT(30), <1>5, TypeCall DEF OwnerAnswers, AgentPcs
  <2> QED
    BY <1>5, <2>1 DEF OwnerAnswers, TypeOK, race, work, env
<1>6. CASE OwnerChecked
  <2>1. pc' \in Pcs /\ firstError' \in Errors \cup {None}
    BY <1>6, TypeCall DEF OwnerChecked, AgentPcs
  <2>2. /\ checked' \subseteq WriterSlots \X Commits /\ accepted' \in Candidates
        /\ combined' \in Commits
    BY <1>6, SlotFacts DEF OwnerChecked, TypeOK, Candidates, Commits
  <2> QED
    BY <1>6, <2>1, <2>2 DEF OwnerChecked, TypeOK, race, env
<1>7. CASE RequesterAnswers
  <2>1. pc' \in Pcs /\ firstError' \in Errors \cup {None}
    BY <1>7, TypeCall DEF RequesterAnswers, AgentPcs
  <2> QED
    BY <1>7, <2>1 DEF RequesterAnswers, TypeOK, race, work, env
<1>8. CASE RequesterChecked
  <2>1. /\ checked' \subseteq WriterSlots \X Commits /\ accepted' \in Candidates
    BY <1>8, SlotFacts DEF RequesterChecked, TypeOK, Candidates, Commits
  <2> QED
    BY <1>8, <2>1 DEF RequesterChecked, TypeOK, Pcs, race, env
<1> QED
  BY <1>1, <1>2, <1>3, <1>4, <1>5, <1>6, <1>7, <1>8

LEMMA TypeGate ==
    ASSUME TypeOK,
           \/ Integrate \/ QaPasses \/ TestingPasses \/ VerifyPasses \/ ScanPasses
    PROVE  TypeOK'
<1>1. pc' \in Pcs /\ firstError' \in Errors \cup {None}
  <2>1. CASE \E next \in AgentPcs : CallAgent(next)
    BY <2>1, TypeCall
  <2>2. CASE pc' \in {"attemptFailed", "scan", "publishable"}
    BY <2>2, ErrorFacts
       DEF Integrate, QaPasses, TestingPasses, VerifyPasses, ScanPasses, CallAgent,
           TypeOK, Pcs
  <2> QED
    BY <2>1, <2>2
       DEF Integrate, QaPasses, TestingPasses, VerifyPasses, ScanPasses, AgentPcs
<1>2. CASE Integrate
  BY <1>1, <1>2 DEF Integrate, TypeOK, race, work, env
<1>3. ASSUME NEW g \in GateNames, Gate(g) PROVE TypeOK'
  <2>1. gates' \subseteq GateNames \X Candidates
    BY <1>3 DEF Gate, TypeOK
  <2> QED
    BY SMTT(30), <1>1, <1>3, <2>1 DEF Gate, TypeOK, race, env
<1> QED
  BY <1>2, <1>3
     DEF QaPasses, TestingPasses, VerifyPasses, ScanPasses, GateNames

LEMMA TypeEnd ==
    ASSUME TypeOK, RaceInv,
           \/ StepFails \/ LaunchFails \/ PublicationReady \/ AttemptFailed
           \/ CancelActive \/ FinishFailed \/ CloseRetained
           \/ Signal \/ DeadlinePasses
    PROVE  TypeOK'
<1>1. CASE StepFails \/ LaunchFails
  <2>1. \E e \in Errors : FailAttempt(e)
    BY <1>1, ErrorFacts DEF StepFails, LaunchFails
  <2> QED
    BY <2>1, TypeFail
<1>2. CASE PublicationReady
  <2>1. events' \in Seq(EventTypes \X (0..MaxAttempts))
    BY <1>2, LogFacts DEF PublicationReady, EventTypes
  <2> QED
    BY <1>2, <2>1 DEF PublicationReady, TypeOK, Pcs, race, work, env
<1>3. CASE AttemptFailed
  <2>1. events' \in Seq(EventTypes \X (0..MaxAttempts))
    <3>1. CASE Log("attempt.failed")
      BY <3>1, LogFacts DEF EventTypes
    <3> QED
      BY <1>3, <3>1 DEF AttemptFailed, TypeOK
  <2>2. attempt' \in 0..MaxAttempts
    BY <1>3, ControllerAssumption DEF AttemptFailed, TypeOK
  <2>3. pc' \in Pcs /\ firstError' \in Errors \cup {None}
    BY SMTT(30), <1>3, ErrorFacts DEF AttemptFailed, TypeOK, Pcs
  <2> QED
    BY SMTT(30), <1>3, <2>1, <2>2, <2>3 DEF AttemptFailed, TypeOK, race, work, env
<1>4. CASE CancelActive
  BY <1>4 DEF CancelActive, TypeOK, Pcs, race, work
<1>5. CASE FinishFailed
  BY <1>5 DEF FinishFailed, TypeOK, Pcs, race, work, env
<1>6. CASE CloseRetained
  BY <1>6 DEF CloseRetained, TypeOK, Pcs, race, work, env
<1>7. CASE Signal
  BY <1>7 DEF Signal, TypeOK, race, work
<1>8. CASE DeadlinePasses
  BY <1>8 DEF DeadlinePasses, TypeOK, race, work
<1> QED
  BY <1>1, <1>2, <1>3, <1>4, <1>5, <1>6, <1>7, <1>8

LEMMA TypeStep ==
    ASSUME TypeOK, RaceInv, Next
    PROVE  TypeOK'
BY TypeStart, TypeLaunch, TypeWriters, TypeConsume, TypeRace, TypeReview,
   TypeGate, TypeEnd DEF Next, Controller

-----------------------------------------------------------------------------
(* The race.                                                               *)

LEMMA InitRace == Init => RaceInv
BY SMTT(30), SlotFacts DEF Init, RaceInv, RacePcs, Running

(* Outside the race the controller leaves the writers alone.               *)
LEMMA RaceAside ==
    ASSUME RaceInv, UNCHANGED <<race, attempt>>, pc \notin RacePcs,
           pc' \notin RacePcs \cup {"commit", "start", "plan"},
           \/ pc' \in {"ending", "settling", "done"}
           \/ pc \notin {"start", "ending", "settling", "done"}
    PROVE  RaceInv'
BY DEF RaceInv, race

LEMMA RaceAsideStep ==
    ASSUME RaceInv,
           \/ PlannerAnswers \/ LaunchFails
           \/ CommitWriters \/ StartChecker \/ CheckerAnswers
           \/ Handoff \/ OwnerAnswers \/ OwnerChecked
           \/ RequesterAnswers \/ RequesterChecked
           \/ Integrate \/ QaPasses \/ TestingPasses \/ VerifyPasses \/ ScanPasses
           \/ StepFails \/ PublicationReady
           \/ CancelActive \/ FinishFailed \/ CloseRetained
    PROVE  RaceInv'
<1>1. CASE \/ PlannerAnswers \/ LaunchFails \/ StepFails \/ PublicationReady
           \/ CancelActive \/ FinishFailed \/ CloseRetained
  BY SMTT(30), <1>1, RaceAside
     DEF PlannerAnswers, LaunchFails, FailAttempt, StepFails, PublicationReady,
         CancelActive, FinishFailed, CloseRetained, RacePcs
<1>2. CASE CommitWriters \/ StartChecker \/ CheckerAnswers
  BY SMTT(30), <1>2, RaceAside
     DEF CommitWriters, FailAttempt, StartChecker, CheckerAnswers, NextCheck,
         RacePcs
<1>3. CASE \/ Handoff \/ OwnerAnswers \/ OwnerChecked
           \/ RequesterAnswers \/ RequesterChecked
  BY SMTT(30), <1>3, RaceAside
     DEF Handoff, OwnerAnswers, OwnerChecked, RequesterAnswers,
         RequesterChecked, CallAgent, RacePcs
<1>4. CASE \/ Integrate \/ QaPasses \/ TestingPasses \/ VerifyPasses
           \/ ScanPasses
  BY <1>4, RaceAside
     DEF Integrate, QaPasses, TestingPasses, VerifyPasses, ScanPasses, Gate,
         CallAgent, RacePcs
<1> QED
  BY SMTT(30), <1>1, <1>2, <1>3, <1>4

LEMMA RaceStart ==
    ASSUME TypeOK, RaceInv,
           Start \/ StartAttempt \/ LaunchWriters \/ LaunchBreaks \/ AttemptFailed
    PROVE  RaceInv'
<1>1. CASE Start
  BY <1>1 DEF Start, RaceInv, RacePcs, Running, race
<1>2. CASE StartAttempt
  <2>1. CASE interrupted
    BY SMTT(30), <1>2, <2>1, RaceAside DEF StartAttempt, RacePcs
  <2>2. CASE ~interrupted
    <3>1. /\ pending' = {} /\ winner' = None /\ writer'[C] = "idle"
          /\ pc' \in {"attemptFailed", "planning"} /\ UNCHANGED attempt
      BY SMTT(30), <1>2, <2>2, SlotFacts DEF StartAttempt
    <3>2. attempt # 0
      BY SMTT(30), <1>2 DEF StartAttempt, RaceInv
    <3> QED
      BY SMTT(30), <3>1, <3>2 DEF RaceInv, RacePcs
  <2> QED
    BY SMTT(30), <2>1, <2>2
<1>3. CASE LaunchWriters
  BY SMTT(30), <1>3, SlotFacts DEF LaunchWriters, RaceInv, RacePcs
<1>4. CASE LaunchBreaks
  <2>1. pending = {} /\ winner = None
    BY SMTT(30), <1>4 DEF LaunchBreaks, RaceInv, RacePcs
  <2>2. writer'[C] = "idle"
    BY SMTT(30), <1>4, SlotFacts DEF LaunchBreaks
  <2> QED
    BY SMTT(30), <1>4, <2>1, <2>2 DEF LaunchBreaks, RaceInv, RacePcs
<1>5. CASE AttemptFailed
  <2>1. attempt \in Nat /\ attempt # 0
    BY <1>5 DEF AttemptFailed, RaceInv, TypeOK
  <2>2. pc' = "ending" \/ (pc' = "plan" /\ attempt' = attempt + 1)
    BY <1>5 DEF AttemptFailed
  <2>3. UNCHANGED race
    BY <1>5 DEF AttemptFailed
  <2> QED
    BY SMTT(30), <1>5, <2>1, <2>2, <2>3 DEF AttemptFailed, RaceInv, RacePcs, race
<1> QED
  BY SMTT(30), <1>1, <1>2, <1>3, <1>4, <1>5

LEMMA RaceWriters ==
    ASSUME TypeOK, RaceInv, Writers
    PROVE  RaceInv'
<1>1. CASE StaleSettles
  BY <1>1 DEF StaleSettles, RaceInv, Running
<1>2. ASSUME NEW s \in WriterSlots, WriterSettles(s) PROVE RaceInv'
  <2>1. PICK r \in Results : writer' = [writer EXCEPT ![s] = r]
    BY Zenon, <1>2 DEF WriterSettles
  <2>2. /\ \A t \in WriterSlots : t # s => writer'[t] = writer[t]
        /\ writer'[s] = r /\ r # "running" /\ r # "idle"
    BY SMTT(30), <2>1, ErrorFacts DEF TypeOK
  <2>3. winner' # None => winner' \in pending /\ writer'[winner'] \in Results
    BY <1>2, <2>2, SlotFacts DEF WriterSettles, RaceInv, TypeOK
  <2>4. Running' \subseteq Running
    BY SMTT(30), <2>2 DEF Running
  <2>5. \A t \in pending : writer'[t] # "idle"
    BY SMTT(30), <2>2 DEF RaceInv, TypeOK
  <2>6. writer'[C] = "running" => C \in pending
    BY SMTT(30), <2>2, SlotFacts DEF RaceInv
  <2> QED
    BY <1>2, <2>3, <2>4, <2>5, <2>6 DEF WriterSettles, RaceInv
<1> QED
  BY SMTT(30), <1>1, <1>2 DEF Writers

(* The winner of the next Promise.race over the writers left.              *)
LEMMA NextWinnerSettled ==
    ASSUME TypeOK, RaceInv, NEW P \in SUBSET pending, NextWinner(P) # None
    PROVE  NextWinner(P) \in P /\ writer[NextWinner(P)] \in Results
<1>1. P \in SUBSET WriterSlots
  BY DEF TypeOK
<1>2. NextWinner(P) \in P /\ writer[NextWinner(P)] # "running"
  BY SMTT(30), <1>1, WinnerSettled
<1> QED
  BY SMTT(30), <1>1, <1>2 DEF TypeOK, RaceInv

LEMMA RaceConsume ==
    ASSUME TypeOK, RaceInv, NEW s \in WriterSlots, Consume(s)
    PROVE  RaceInv'
<1>1. /\ pc = "race" /\ pc' = "race" /\ winner = s /\ writer[s] \in Results
      /\ pending' = pending \ {s} /\ UNCHANGED <<writer, attempt>>
      /\ winner' = NextWinner(pending \ {s})
  BY SlotFacts DEF Consume, RaceInv
<1>2. winner' # None => winner' \in pending' /\ writer'[winner'] \in Results
  BY <1>1, NextWinnerSettled
<1>3. firstError' = None =>
          /\ firstError = None
          /\ \A t \in WriterSlots \ {s} : initial'[t] = initial[t]
          /\ initial'[s] = "completed"
  <2>1. KeepFirst("fault") # None
    BY ErrorFacts DEF KeepFirst
  <2>2. writer[s] \in Failures => KeepFirst(ErrorOf(writer[s])) # None
    BY ErrorFacts DEF KeepFirst
  <2>3. writer[s] \in Failures \/ writer[s] = "completed" \/ writer[s] = "blocked"
    BY SMTT(30), <1>1, ErrorFacts
  <2> QED
    BY <2>1, <2>2, <2>3 DEF Consume, TypeOK, Failures
<1>4. firstError' = None => \A t \in {B, C} \ pending' : initial'[t] = "completed"
  BY SMTT(30), <1>1, <1>3, SlotFacts DEF RaceInv, RacePcs
<1>5. writer[C] = "running" => C \in pending'
  BY <1>1, ErrorFacts DEF RaceInv
<1> QED
  BY <1>1, <1>2, <1>4, <1>5 DEF RaceInv, RacePcs

LEMMA RaceHandover ==
    ASSUME TypeOK, RaceInv,
           BeginHandover \/ CheckpointChecked \/ QueueRequest \/ RaceOver
    PROVE  RaceInv'
<1>1. CASE BeginHandover
  <2>1. /\ pc = "race" /\ writer[A] = "blocked" /\ firstError = None
        /\ pending' = pending \ {A} /\ UNCHANGED <<writer, attempt>>
        /\ pc' \in {"checkpointing", "race"}
        /\ winner' = None \/ winner' = NextWinner(pending \ {A})
        /\ \A t \in {B, C} : initial'[t] = initial[t]
    BY <1>1, SlotFacts DEF BeginHandover, BackToRace, TypeOK
  <2>2. winner' # None => winner' \in pending' /\ writer'[winner'] \in Results
    BY <2>1, NextWinnerSettled
  <2> QED
    BY SMTT(30), <2>1, <2>2, SlotFacts DEF RaceInv, RacePcs
<1>2. CASE CheckpointChecked \/ QueueRequest
  <2>1. /\ pc \in {"checkpointing", "queue"} /\ pc' \in {"queue", "race"}
        /\ UNCHANGED <<writer, attempt, pending, initial>>
        /\ UNCHANGED winner \/ winner' = NextWinner(pending)
        /\ firstError' = None => firstError = None
    BY SMTT(30), <1>2, ErrorFacts DEF CheckpointChecked, QueueRequest, BackToRace
  <2>2. winner' # None => winner' \in pending' /\ writer'[winner'] \in Results
    BY SMTT(30), <2>1, NextWinnerSettled DEF RaceInv
  <2> QED
    BY SMTT(30), <2>1, <2>2 DEF RaceInv, RacePcs
<1>3. CASE RaceOver
  BY <1>3 DEF RaceOver, RaceInv, RacePcs, race
<1> QED
  BY <1>1, <1>2, <1>3

LEMMA RaceStep ==
    ASSUME TypeOK, RaceInv, Next
    PROVE  RaceInv'
<1>1. CASE Signal \/ DeadlinePasses
  BY <1>1 DEF Signal, DeadlinePasses, RaceInv, race, Running
<1> QED
  BY SMTT(30), <1>1, RaceAsideStep, RaceStart, RaceWriters, RaceConsume, RaceHandover
     DEF Next, Controller

-----------------------------------------------------------------------------
(* The review.                                                             *)

LEMMA InitReview == Init => ReviewInv
BY DEF Init, ReviewInv, GatePcs, NoCandidate

LEMMA StillRunning ==
    ASSUME TypeOK, ReviewInv, pc \notin {"closing", "done"}
    PROVE  status = "running"
BY DEF TypeOK, ReviewInv

(* A step that neither accepts a commit nor goes on to the integration.    *)
LateReview == GatePcs \cup {"integrate", "requester", "requesterCheck"}
LEMMA ReviewAside ==
    ASSUME ReviewInv, UNCHANGED <<accepted, status>>, checked \subseteq checked',
           pc' \notin LateReview, status = "running"
    PROVE  ReviewInv'
BY DEF ReviewInv, LateReview, GatePcs

LEMMA ReviewAsideStep ==
    ASSUME TypeOK, ReviewInv,
           \/ Start \/ PlannerAnswers
           \/ LaunchWriters \/ LaunchBreaks \/ LaunchFails
           \/ \E s \in WriterSlots : Consume(s)
           \/ BeginHandover \/ CheckpointChecked \/ QueueRequest \/ RaceOver
           \/ CommitWriters \/ StartChecker \/ OwnerAnswers
           \/ StepFails \/ AttemptFailed \/ CancelActive
    PROVE  ReviewInv'
<1>1. pc \notin {"closing", "done"} /\ status = "running"
  <2>1. pc \notin {"closing", "done"}
    BY Zenon
       DEF Start, PlannerAnswers, LaunchWriters, LaunchBreaks, LaunchFails, Consume,
           BeginHandover, CheckpointChecked, QueueRequest, RaceOver,
           CommitWriters, StartChecker, OwnerAnswers, StepFails, AttemptFailed,
           CancelActive
  <2> QED
    BY <2>1, StillRunning
<1>2. CASE \/ Start \/ PlannerAnswers \/ LaunchWriters \/ LaunchBreaks
           \/ LaunchFails \/ StepFails \/ AttemptFailed \/ CancelActive
  BY Zenon, <1>1, <1>2, ReviewAside
     DEF Start, PlannerAnswers, LaunchWriters, LaunchBreaks, LaunchFails, StepFails,
         FailAttempt, AttemptFailed, CancelActive, LateReview, GatePcs, work
<1>3. CASE \E s \in WriterSlots : Consume(s)
  BY SMTT(30), <1>1, <1>3, ReviewAside DEF Consume, LateReview, GatePcs, work
<1>4. CASE BeginHandover \/ RaceOver
  BY SMTT(30), <1>1, <1>4, ReviewAside
     DEF BeginHandover, BackToRace, RaceOver, LateReview, GatePcs, work
<1>6. CASE CheckpointChecked \/ QueueRequest
  BY SMTT(30), <1>1, <1>6, ReviewAside
     DEF CheckpointChecked, QueueRequest, BackToRace, LateReview, GatePcs
<1>5. CASE CommitWriters \/ StartChecker \/ OwnerAnswers
  BY <1>1, <1>5, ReviewAside
     DEF CommitWriters, FailAttempt, StartChecker, NextCheck, OwnerAnswers,
         CallAgent, LateReview, GatePcs, work
<1> QED
  BY <1>2, <1>3, <1>4, <1>5, <1>6

LEMMA ReviewStartAttempt ==
    ASSUME TypeOK, ReviewInv, StartAttempt
    PROVE  ReviewInv'
<1>1. status = "running" /\ UNCHANGED status
  BY Zenon, StillRunning DEF StartAttempt
<1>2. pc' \notin LateReview
  BY DEF StartAttempt, LateReview, GatePcs
<1>3. CASE interrupted
  BY SMTT(30), <1>1, <1>2, <1>3, ReviewAside DEF StartAttempt, work
<1>4. CASE ~interrupted
  <2>1. \A s \in WriterSlots : accepted'[s] = 0
    BY <1>4 DEF StartAttempt, NoCandidate
  <2> QED
    BY SMTT(30), <1>1, <1>2, <2>1 DEF ReviewInv, LateReview, GatePcs
<1> QED
  BY SMTT(30), <1>3, <1>4

LEMMA ReviewCommits ==
    ASSUME TypeOK, ReviewInv,
           \/ CheckerAnswers \/ Handoff \/ OwnerChecked
           \/ RequesterAnswers \/ RequesterChecked
    PROVE  ReviewInv'
<1>1. status = "running" /\ UNCHANGED status
  BY SMTT(30), StillRunning
     DEF CheckerAnswers, Handoff, OwnerChecked, RequesterAnswers,
         RequesterChecked
<1>2. CASE CheckerAnswers
  <2>1. pc' \notin LateReview
    BY SMTT(30), <1>2 DEF CheckerAnswers, NextCheck, LateReview, GatePcs
  <2>2. \A s \in WriterSlots : accepted'[s] # 0 => <<s, accepted'[s]>> \in checked'
    BY SMTT(30), <1>2 DEF CheckerAnswers, ReviewInv, TypeOK, Candidates
  <2> QED
    BY SMTT(30), <1>1, <2>1, <2>2 DEF ReviewInv, LateReview, GatePcs
<1>3. CASE Handoff
  BY SMTT(30), <1>1, <1>3 DEF Handoff, CallAgent, ReviewInv, GatePcs, work
<1>4. CASE OwnerChecked
  <2>1. pc' \in {"requester", "attemptFailed"} /\ accepted'[B] = combined'
    BY SMTT(30), <1>4, SlotFacts DEF OwnerChecked, CallAgent, TypeOK, Candidates
  <2>2. \A s \in WriterSlots : accepted'[s] # 0 => <<s, accepted'[s]>> \in checked'
    BY SMTT(30), <1>4, SlotFacts DEF OwnerChecked, ReviewInv, TypeOK, Candidates
  <2> QED
    BY SMTT(30), <1>1, <2>1, <2>2 DEF ReviewInv, GatePcs
<1>5. CASE RequesterAnswers
  BY SMTT(30), <1>1, <1>5 DEF RequesterAnswers, CallAgent, ReviewInv, GatePcs, work
<1>6. CASE RequesterChecked
  <2>1. /\ pc' = "integrate" /\ accepted'[A] = 2 /\ accepted'[B] = accepted[B]
        /\ accepted[B] = combined /\ UNCHANGED combined
    BY SMTT(30), <1>6, SlotFacts DEF RequesterChecked, ReviewInv, TypeOK, Candidates
  <2>2. \A s \in WriterSlots : accepted'[s] # 0 => <<s, accepted'[s]>> \in checked'
    BY <1>6, SlotFacts DEF RequesterChecked, ReviewInv, TypeOK, Candidates
  <2> QED
    BY SMTT(30), <1>1, <2>1, <2>2 DEF ReviewInv, GatePcs
<1> QED
  BY SMTT(30), <1>2, <1>3, <1>4, <1>5, <1>6

LEMMA ReviewGates ==
    ASSUME TypeOK, ReviewInv,
           \/ Integrate \/ QaPasses \/ TestingPasses \/ VerifyPasses \/ ScanPasses
    PROVE  ReviewInv'
<1>1. status = "running" /\ UNCHANGED status
  BY StillRunning
     DEF Integrate, QaPasses, TestingPasses, VerifyPasses, ScanPasses, Gate
<1>2. CASE Integrate
  BY SMTT(30), <1>1, <1>2 DEF Integrate, CallAgent, ReviewInv, GatePcs, work
<1>3. CASE QaPasses
  BY SMTT(30), <1>1, <1>3 DEF QaPasses, Gate, CallAgent, ReviewInv, GatePcs
<1>4. CASE TestingPasses
  BY SMTT(30), <1>1, <1>4 DEF TestingPasses, Gate, CallAgent, ReviewInv, GatePcs
<1>5. CASE VerifyPasses
  BY SMTT(30), <1>1, <1>5 DEF VerifyPasses, Gate, ReviewInv, GatePcs
<1>6. CASE ScanPasses
  BY <1>1, <1>6 DEF ScanPasses, Gate, ReviewInv, GatePcs
<1> QED
  BY <1>2, <1>3, <1>4, <1>5, <1>6

LEMMA ReviewEnd ==
    ASSUME TypeOK, ReviewInv,
           \/ PublicationReady \/ FinishFailed \/ CloseRetained
           \/ Writers \/ Signal \/ DeadlinePasses
    PROVE  ReviewInv'
<1>1. CASE PublicationReady
  BY SMTT(30), <1>1 DEF PublicationReady, ReviewInv, GatePcs, work
<1>2. CASE FinishFailed
  BY SMTT(30), <1>2 DEF FinishFailed, ReviewInv, GatePcs, work
<1>3. CASE CloseRetained
  BY <1>3 DEF CloseRetained, ReviewInv, GatePcs, work
<1>4. CASE Writers \/ Signal \/ DeadlinePasses
  <2>1. UNCHANGED <<pc, accepted, checked, gates, checkpoint, combined, status>>
    BY <1>4 DEF Writers, StaleSettles, WriterSettles, Signal, DeadlinePasses, work
  <2> QED
    BY SMTT(30), <2>1 DEF ReviewInv
<1> QED
  BY SMTT(30), <1>1, <1>2, <1>3, <1>4

LEMMA ReviewStep ==
    ASSUME TypeOK, ReviewInv, Next
    PROVE  ReviewInv'
BY ReviewAsideStep, ReviewStartAttempt, ReviewCommits, ReviewGates, ReviewEnd
   DEF Next, Controller

-----------------------------------------------------------------------------
(* The log.                                                                *)

Unpublished == \A i \in 1..Len(events) : events[i][1] # "publication.ready"
Announced == \E j \in 1..Len(events) : events[j] = <<"attempt.failed", attempt - 1>>

LEMMA InitLog == Init => LogInv /\ EventProtocol
BY DEF Init, LogInv, EventProtocol

(* An append keeps the protocol when nothing is published and the attempt  *)
(* it may begin has been announced.                                        *)
LEMMA Appending ==
    ASSUME TypeOK, EventProtocol, Unpublished, NEW type \in EventTypes, Log(type),
           type = "plan.started" /\ attempt > 1 => Announced
    PROVE  EventProtocol' /\ (type # "publication.ready" => Unpublished')
<1> DEFINE n == Len(events) + 1
<1>1. /\ Len(events') = n /\ n \in Nat /\ Len(events) \in Nat /\ n > Len(events)
      /\ \A i \in 1..Len(events) : events'[i] = events[i]
      /\ events'[n] = <<type, attempt>>
  BY LogFacts
<1>2. events'[n][1] = type /\ events'[n][2] = attempt
  BY <1>1
<1> HIDE DEF n
<1>3. \A i \in 1..n : i = n \/ i \in 1..Len(events)
  <2>1. n = Len(events) + 1
    BY DEF n
  <2> QED
    BY <1>1, <2>1
<1>4. type # "publication.ready" => Unpublished'
  BY SMTT(30), <1>1, <1>2, <1>3 DEF Unpublished
<1>5. ASSUME NEW i \in 1..n
      PROVE  /\ events'[i][1] = "publication.ready" => i = n
             /\ events'[i][1] = "plan.started" /\ events'[i][2] > 1 =>
                  \E j \in 1..(i - 1) :
                      events'[j] = <<"attempt.failed", events'[i][2] - 1>>
  <2>1. CASE i = n
    <3>1. n - 1 = Len(events)
      BY <1>1 DEF n
    <3> QED
      BY <1>1, <1>2, <2>1, <3>1 DEF Announced
  <2>2. CASE i \in 1..Len(events)
    <3>1. events'[i] = events[i]
      BY <1>1, <2>2
    <3>2. \A j \in 1..(i - 1) : events'[j] = events[j]
      BY <1>1, <2>2
    <3> QED
      BY Zenon, <2>2, <3>1, <3>2 DEF EventProtocol, Unpublished
  <2> QED
    BY SMTT(30), <1>3, <2>1, <2>2
<1>6. EventProtocol'
  BY Zenon, <1>1, <1>5 DEF EventProtocol
<1> QED
  BY <1>4, <1>6

LEMMA NotLogged ==
    ASSUME LogInv, EventProtocol, UNCHANGED events,
           pc' # "plan" \/ UNCHANGED <<pc, attempt>>,
           status' # "ready" => status # "ready"
    PROVE  LogInv' /\ EventProtocol'
BY ZenonT(30) DEF LogInv, EventProtocol

LEMMA Logged ==
    ASSUME TypeOK, LogInv, EventProtocol, status # "ready", UNCHANGED status,
           pc' # "plan",
           NEW type \in EventTypes \ {"plan.started", "publication.ready"},
           Log(type)
    PROVE  LogInv' /\ EventProtocol'
<1>1. Unpublished
  BY DEF LogInv, Unpublished
<1>2. EventProtocol' /\ Unpublished'
  BY <1>1, Appending
<1> QED
  BY <1>2 DEF LogInv, Unpublished

LEMMA LogAsideStep ==
    ASSUME LogInv, EventProtocol,
           \/ LaunchFails \/ \E s \in WriterSlots : Consume(s)
           \/ BeginHandover \/ CheckpointChecked \/ RaceOver
           \/ CommitWriters \/ StartChecker \/ CheckerAnswers
           \/ Handoff \/ OwnerAnswers \/ OwnerChecked
           \/ RequesterAnswers \/ RequesterChecked
           \/ Integrate \/ QaPasses \/ TestingPasses \/ VerifyPasses \/ ScanPasses
           \/ StepFails \/ CancelActive \/ CloseRetained
           \/ Writers \/ Signal \/ DeadlinePasses
    PROVE  LogInv' /\ EventProtocol'
<1>1. CASE \/ LaunchFails \/ StepFails \/ CancelActive \/ CloseRetained
           \/ Writers \/ Signal \/ DeadlinePasses
  BY Zenon, <1>1, NotLogged
     DEF LaunchFails, StepFails, FailAttempt, CancelActive, CloseRetained, Writers,
         StaleSettles, WriterSettles, Signal, DeadlinePasses
<1>2. CASE \/ \E s \in WriterSlots : Consume(s)
           \/ BeginHandover \/ CheckpointChecked \/ RaceOver
  BY ZenonT(30), <1>2, NotLogged
     DEF Consume, BeginHandover, CheckpointChecked, BackToRace, RaceOver
<1>3. CASE CommitWriters \/ StartChecker \/ CheckerAnswers
  BY ZenonT(30), <1>3, NotLogged
     DEF CommitWriters, FailAttempt, StartChecker, CheckerAnswers, NextCheck
<1>4. CASE \/ Handoff \/ OwnerAnswers \/ OwnerChecked
           \/ RequesterAnswers \/ RequesterChecked
  <2>1. CASE Handoff
    <3>1. UNCHANGED <<events, status>> /\ pc' # "plan"
      BY <2>1 DEF Handoff, CallAgent
    <3> QED
      BY <3>1, NotLogged
  <2>2. CASE OwnerAnswers
    <3>1. UNCHANGED <<events, status>> /\ pc' # "plan"
      BY <2>2 DEF OwnerAnswers, CallAgent
    <3> QED
      BY <3>1, NotLogged
  <2>3. CASE OwnerChecked
    <3>1. UNCHANGED <<events, status>> /\ pc' # "plan"
      BY <2>3 DEF OwnerChecked, CallAgent
    <3> QED
      BY <3>1, NotLogged
  <2>4. CASE RequesterAnswers
    <3>1. UNCHANGED <<events, status>> /\ pc' # "plan"
      BY <2>4 DEF RequesterAnswers, CallAgent
    <3> QED
      BY <3>1, NotLogged
  <2>5. CASE RequesterChecked
    <3>1. UNCHANGED <<events, status>> /\ pc' # "plan"
      BY <2>5 DEF RequesterChecked
    <3> QED
      BY <3>1, NotLogged
  <2> QED
    BY <1>4, <2>1, <2>2, <2>3, <2>4, <2>5
<1>5. CASE \/ Integrate \/ QaPasses \/ TestingPasses \/ VerifyPasses
           \/ ScanPasses
  BY Zenon, <1>5, NotLogged
     DEF Integrate, QaPasses, TestingPasses, VerifyPasses, ScanPasses, Gate,
         CallAgent
<1> QED
  BY <1>1, <1>2, <1>3, <1>4, <1>5

LEMMA LogStep ==
    ASSUME TypeOK, ReviewInv, LogInv, EventProtocol, Next
    PROVE  LogInv' /\ EventProtocol'
<1>1. CASE Start
  <2>1. events' = events \/ events' = <<<<"run.started", 0>>>>
    BY <1>1 DEF Start
  <2>2. /\ UNCHANGED status /\ status = "running"
        /\ pc' = "ending" \/ (pc' = "plan" /\ attempt' = 1)
    BY <1>1, StillRunning DEF Start
  <2>3. CASE events' = events
    <3>1. pc' = "plan" => ~(attempt' > 1)
      BY SMTT(30), <2>2
    <3> QED
      BY Zenon, <2>2, <2>3, <3>1 DEF LogInv, EventProtocol
  <2>4. CASE events' = <<<<"run.started", 0>>>>
    <3>1. Len(events') = 1 /\ events'[1][1] = "run.started"
      BY SMTT(30), <2>4
    <3> QED
      BY <2>2, <3>1 DEF LogInv, EventProtocol
  <2> QED
    BY <2>1, <2>3, <2>4
<1>2. CASE StartAttempt
  <2>1. /\ status = "running" /\ UNCHANGED <<status, attempt>>
        /\ pc = "plan" /\ pc' # "plan"
    BY <1>2, StillRunning DEF StartAttempt
  <2>2. CASE Log("plan.started")
    <3>1. Unpublished /\ (attempt > 1 => Announced)
      BY <2>1 DEF LogInv, Unpublished, Announced
    <3>2. EventProtocol' /\ Unpublished'
      BY <2>2, <3>1, Appending DEF EventTypes
    <3> QED
      BY <2>1, <3>2 DEF LogInv, Unpublished
  <2>3. CASE UNCHANGED events
    BY <2>1, <2>3, NotLogged
  <2> QED
    BY SMTT(30), <1>2, <2>2, <2>3 DEF StartAttempt
<1>3. CASE PlannerAnswers \/ LaunchWriters \/ LaunchBreaks \/ QueueRequest
  <2>1. /\ pc \notin {"closing", "done"} /\ UNCHANGED status /\ pc' # "plan"
        /\ \/ UNCHANGED events
           \/ Log("plan.finished") \/ Log("writers.started") \/ Log("inbox.queued")
    BY <1>3
       DEF PlannerAnswers, LaunchWriters, LaunchBreaks, QueueRequest, BackToRace
  <2>2. status = "running"
    BY <2>1, StillRunning
  <2>3. {"plan.finished", "writers.started", "inbox.queued"} \subseteq
            EventTypes \ {"plan.started", "publication.ready"}
    BY SMTT(30) DEF EventTypes
  <2> QED
    BY SMTT(30), <2>1, <2>2, <2>3, Logged, NotLogged
<1>4. CASE PublicationReady
  <2>1. status = "running"
    BY <1>4, StillRunning DEF PublicationReady
  <2>2. Unpublished
    BY <2>1 DEF LogInv, Unpublished
  <2>3. EventProtocol'
    BY <1>4, <2>2, Appending DEF PublicationReady, EventTypes
  <2> QED
    BY <1>4, <2>3 DEF PublicationReady, LogInv
<1>5. CASE AttemptFailed
  <2>1. status = "running" /\ UNCHANGED status
    BY SMTT(30), <1>5, StillRunning DEF AttemptFailed
  <2>2. CASE Log("attempt.failed")
    <3>1. Unpublished
      BY <2>1 DEF LogInv, Unpublished
    <3>2. EventProtocol' /\ Unpublished'
      BY <2>2, <3>1, Appending DEF EventTypes
    <3>3. /\ Len(events') \in 1..Len(events')
          /\ events'[Len(events')] = <<"attempt.failed", attempt>>
      BY <2>2, LogFacts DEF EventTypes
    <3>4. pc' = "plan" => attempt' - 1 = attempt
      <4>1. pc' = "plan" => attempt' = attempt + 1 /\ attempt \in Nat
        BY <1>5, <2>2 DEF AttemptFailed, TypeOK
      <4> QED
        BY SMTT(30), <4>1
    <3> QED
      BY <2>1, <3>2, <3>3, <3>4 DEF LogInv, Unpublished
  <2>3. CASE UNCHANGED events /\ pc' # "plan"
    BY <2>1, <2>3, NotLogged
  <2> QED
    BY <1>5, <2>2, <2>3 DEF AttemptFailed
<1>6. CASE FinishFailed
  <2>1. status = "running" /\ UNCHANGED events /\ pc' # "plan"
    BY <1>6, StillRunning DEF FinishFailed
  <2> QED
    BY <2>1, NotLogged
<1> QED
  BY <1>1, <1>2, <1>3, <1>4, <1>5, <1>6, LogAsideStep DEF Next, Controller

-----------------------------------------------------------------------------
(* What a run does in the end.                                             *)

(* Executions are left behind by an attempt that broke while launching,    *)
(* and the qa-tests writer is the last to be launched.                     *)
LEMMA DrainStep ==
    ASSUME TypeOK, RaceInv, RaceDrains, Next
    PROVE  RaceDrains'
<1>1. CASE StartAttempt /\ ~interrupted
  <2>1. C \notin Running
    BY <1>1 DEF StartAttempt, RaceInv, RacePcs, Running
  <2> QED
    BY SMTT(30), <1>1, <2>1 DEF StartAttempt, RaceDrains
<1>2. CASE ~(StartAttempt /\ ~interrupted)
  <2>1. stale' \subseteq stale
    <3>1. CASE \/ Start \/ StartAttempt \/ PlannerAnswers
               \/ LaunchWriters \/ LaunchBreaks \/ LaunchFails
               \/ \E s \in WriterSlots : Consume(s)
               \/ BeginHandover \/ CheckpointChecked \/ QueueRequest \/ RaceOver
      BY ZenonT(30), <1>2, <3>1
         DEF Start, StartAttempt, PlannerAnswers, LaunchWriters, LaunchBreaks,
             LaunchFails, FailAttempt, Consume, BeginHandover,
             CheckpointChecked, QueueRequest, RaceOver, race
    <3>2. CASE \/ CommitWriters \/ StartChecker \/ CheckerAnswers
               \/ Handoff \/ OwnerAnswers \/ OwnerChecked
               \/ RequesterAnswers \/ RequesterChecked
      BY <3>2
         DEF CommitWriters, FailAttempt, StartChecker, CheckerAnswers, Handoff,
             OwnerAnswers, OwnerChecked, RequesterAnswers, RequesterChecked, race
    <3>3. CASE \/ Integrate \/ QaPasses \/ TestingPasses \/ VerifyPasses
               \/ ScanPasses \/ StepFails \/ PublicationReady \/ AttemptFailed
               \/ CancelActive \/ FinishFailed \/ CloseRetained
               \/ Writers \/ Signal \/ DeadlinePasses
      BY Zenon, <3>3
         DEF Integrate, QaPasses, TestingPasses, VerifyPasses, ScanPasses, Gate,
             StepFails, FailAttempt, PublicationReady, AttemptFailed, CancelActive,
             FinishFailed, CloseRetained, Writers, StaleSettles, WriterSettles,
             Signal, DeadlinePasses, race
    <3> QED
      BY SMTT(30), <3>1, <3>2, <3>3 DEF Next, Controller
  <2> QED
    BY <2>1 DEF RaceDrains
<1> QED
  BY SMTT(30), <1>1, <1>2

(* A status is given by PublicationReady or FinishFailed, and afterwards   *)
(* the controller only closes the source.                                  *)
LEMMA Settled ==
    ASSUME TypeOK, ReviewInv, Next, ~PublicationReady, ~FinishFailed,
           status' # "running"
    PROVE  /\ UNCHANGED <<status, accepted, checked, gates, checkpoint, combined>>
           /\ Running' \subseteq Running /\ stale' \subseteq stale
<1>1. CASE CloseRetained
  BY <1>1 DEF CloseRetained, race, work, Running
<1>2. CASE Signal \/ DeadlinePasses
  BY <1>2 DEF Signal, DeadlinePasses, race, work, Running
<1>3. CASE StaleSettles
  BY <1>3 DEF StaleSettles, work, Running
<1>4. CASE \E s \in WriterSlots : WriterSettles(s)
  <2>1. PICK s \in WriterSlots : WriterSettles(s)
    BY <1>4
  <2>2. PICK r \in Results : writer' = [writer EXCEPT ![s] = r]
    BY Zenon, <2>1 DEF WriterSettles
  <2>3. Running' \subseteq Running
    BY <2>2, ErrorFacts DEF Running, TypeOK
  <2> QED
    BY <2>1, <2>3 DEF WriterSettles, work
<1>5. CASE Controller /\ ~CloseRetained
  <2>1. UNCHANGED status /\ pc \notin {"closing", "done"}
    <3>1. CASE \/ Start \/ StartAttempt \/ PlannerAnswers
               \/ LaunchWriters \/ LaunchBreaks \/ LaunchFails
               \/ \E s \in WriterSlots : Consume(s)
               \/ BeginHandover \/ CheckpointChecked \/ QueueRequest \/ RaceOver
      BY Zenon, <3>1
         DEF Start, StartAttempt, PlannerAnswers, LaunchWriters, LaunchBreaks,
             LaunchFails, FailAttempt, Consume, BeginHandover,
             CheckpointChecked, QueueRequest, RaceOver
    <3>2. CASE \/ CommitWriters \/ StartChecker \/ CheckerAnswers
               \/ Handoff \/ OwnerAnswers \/ OwnerChecked
               \/ RequesterAnswers \/ RequesterChecked
      BY SMTT(30), <3>2
         DEF CommitWriters, FailAttempt, StartChecker, CheckerAnswers, Handoff,
             OwnerAnswers, OwnerChecked, RequesterAnswers, RequesterChecked
    <3>3. CASE \/ Integrate \/ QaPasses \/ TestingPasses \/ VerifyPasses
               \/ ScanPasses \/ StepFails \/ AttemptFailed \/ CancelActive
      BY <3>3
         DEF Integrate, QaPasses, TestingPasses, VerifyPasses, ScanPasses, Gate,
             StepFails, FailAttempt, AttemptFailed, CancelActive
    <3> QED
      BY <1>5, <3>1, <3>2, <3>3 DEF Controller
  <2> QED
    BY <2>1, StillRunning
<1> QED
  BY <1>1, <1>2, <1>3, <1>4, <1>5 DEF Next, Writers

Ended == ReadyIsReviewed /\ HandoffIntegrated /\ FailedRunIsQuiet

LEMMA EndedStep ==
    ASSUME TypeOK, ReviewInv, Ended, Next
    PROVE  Ended'
<1>1. CASE PublicationReady
  <2>1. \A s \in WriterSlots : <<s, accepted[s]>> \in checked
    BY SMTT(30), <1>1 DEF PublicationReady, ReviewInv, GatePcs
  <2>2. \A g \in GateNames : <<g, accepted>> \in gates
    BY SMTT(30), <1>1 DEF PublicationReady, ReviewInv, GatePcs, GateNames
  <2>3. checkpoint # 0 => accepted[A] = 2 /\ accepted[B] = combined
    BY SMTT(30), <1>1 DEF PublicationReady, ReviewInv, GatePcs
  <2> QED
    BY SMTT(30), <1>1, <2>1, <2>2, <2>3
       DEF PublicationReady, Ended, ReadyIsReviewed, HandoffIntegrated,
           FailedRunIsQuiet, work
<1>2. CASE FinishFailed
  BY SMTT(30), <1>2 DEF FinishFailed, Ended, ReadyIsReviewed, HandoffIntegrated,
              FailedRunIsQuiet, Running, race
<1>3. CASE status' = "running"
  BY <1>3 DEF Ended, ReadyIsReviewed, HandoffIntegrated, FailedRunIsQuiet
<1>4. CASE ~PublicationReady /\ ~FinishFailed /\ status' # "running"
  BY <1>4, Settled
     DEF Ended, ReadyIsReviewed, HandoffIntegrated, FailedRunIsQuiet
<1> QED
  BY SMTT(30), <1>1, <1>2, <1>3, <1>4

-----------------------------------------------------------------------------
(* The theorems.                                                           *)

ControllerInv == ControllerSafety /\ ReadyIsReviewed

LEMMA InitControllerInv == Init => ControllerInv
<1>1. Init => RaceDrains /\ Ended
  BY DEF Init, RaceDrains, Ended, ReadyIsReviewed, HandoffIntegrated,
         FailedRunIsQuiet
<1> QED
  BY SMTT(30), <1>1, InitType, InitRace, InitReview, InitLog
     DEF ControllerInv, ControllerSafety, Ended

LEMMA NextControllerInv ==
    ASSUME ControllerInv, [Next]_vars
    PROVE  ControllerInv'
<1>1. CASE Next
  BY <1>1, TypeStep, RaceStep, ReviewStep, LogStep, DrainStep, EndedStep
     DEF ControllerInv, ControllerSafety, Ended
<1>2. CASE UNCHANGED vars
  <2>1. TypeOK' /\ RaceDrains'
    BY SMTT(30), <1>2 DEF vars, ControllerInv, ControllerSafety, TypeOK, RaceDrains
  <2>2. RaceInv'
    BY ZenonT(30), <1>2 DEF vars, ControllerInv, ControllerSafety, RaceInv, Running
  <2>3. ReviewInv'
    BY SMTT(30), <1>2 DEF vars, ControllerInv, ControllerSafety, ReviewInv
  <2>4. LogInv' /\ EventProtocol'
    BY Zenon, <1>2 DEF vars, ControllerInv, ControllerSafety, LogInv, EventProtocol
  <2>5. Ended'
    BY Zenon, <1>2 DEF vars, ControllerInv, ControllerSafety, Ended, ReadyIsReviewed,
                HandoffIntegrated, FailedRunIsQuiet, Running
  <2> QED
    BY SMTT(30), <2>1, <2>2, <2>3, <2>4, <2>5
       DEF ControllerInv, ControllerSafety, Ended
<1> QED
  BY <1>1, <1>2

LEMMA AlwaysControllerInv == Spec => []ControllerInv
BY InitControllerInv, NextControllerInv, PTL DEF Spec

(* Whatever the writers, agents, Git and the store answer, and whenever a  *)
(* signal or a deadline comes: a queued request is integrated with its     *)
(* answer, a failed run has no execution left, the log keeps its protocol, *)
(* and the race of an attempt is drained before the next (runAttempt and   *)
(* runEngineeringPod of src/pod-controller.mjs).                           *)
THEOREM ControllerSafe == Spec => []ControllerSafety
BY AlwaysControllerInv, PTL DEF ControllerInv

(* What is announced as ready has had all its commits checked and has      *)
(* passed the four gates as it is (runAttempt).                            *)
THEOREM ReadyReviewed == Spec => []ReadyIsReviewed
BY AlwaysControllerInv, PTL DEF ControllerInv

(* A step after a signal, whichever it is.                                 *)
LEMMA SignalStep ==
    ASSUME TypeOK, Next, interrupted
    PROVE  /\ pc' \in AgentPcs => pc' = pc
           /\ Running' \subseteq Running
<1>1. ~TimeLeft /\ ~Startable
  BY DEF TimeLeft, Startable
<1>2. CASE \E s \in WriterSlots : WriterSettles(s)
  <2>1. PICK s \in WriterSlots : WriterSettles(s)
    BY <1>2
  <2>2. PICK r \in Results : writer' = [writer EXCEPT ![s] = r]
    BY Zenon, <2>1 DEF WriterSettles
  <2>3. Running' \subseteq Running
    BY <2>2, ErrorFacts DEF Running, TypeOK
  <2> QED
    BY <2>1, <2>3 DEF WriterSettles
<1>3. CASE \/ Start \/ StartAttempt \/ PlannerAnswers
           \/ LaunchWriters \/ LaunchBreaks \/ LaunchFails
  BY Zenon, <1>1, <1>3
     DEF Start, StartAttempt, PlannerAnswers, LaunchWriters, LaunchBreaks,
         LaunchFails, FailAttempt, AgentPcs, Running, race
<1>4. CASE \/ \E s \in WriterSlots : Consume(s)
           \/ BeginHandover \/ CheckpointChecked \/ QueueRequest \/ RaceOver
  BY ZenonT(30), <1>1, <1>4
     DEF Consume, BeginHandover, CheckpointChecked, QueueRequest, BackToRace,
         RaceOver, AgentPcs, Running, race
<1>5. CASE \/ CommitWriters \/ StartChecker \/ CheckerAnswers
           \/ Handoff \/ OwnerAnswers \/ OwnerChecked
           \/ RequesterAnswers \/ RequesterChecked
  BY Zenon, <1>1, <1>5
     DEF CommitWriters, FailAttempt, StartChecker, CheckerAnswers, NextCheck,
         Handoff, OwnerAnswers, OwnerChecked, RequesterAnswers,
         RequesterChecked, CallAgent, AgentPcs, Running, race
<1>6. CASE \/ Integrate \/ QaPasses \/ TestingPasses \/ VerifyPasses \/ ScanPasses
           \/ StepFails \/ PublicationReady \/ AttemptFailed
           \/ CancelActive \/ FinishFailed \/ CloseRetained
  BY Zenon, <1>1, <1>6
     DEF Integrate, QaPasses, TestingPasses, VerifyPasses, ScanPasses, Gate,
         CallAgent, StepFails, FailAttempt, PublicationReady, AttemptFailed,
         CancelActive, FinishFailed, CloseRetained, AgentPcs, Running, race
<1>7. CASE StaleSettles \/ Signal \/ DeadlinePasses
  BY Zenon, <1>7 DEF StaleSettles, Signal, DeadlinePasses, Running, race
<1> QED
  BY <1>2, <1>3, <1>4, <1>5, <1>6, <1>7 DEF Next, Controller, Writers

(* Once a signal was delivered the controller starts no agent, no writer   *)
(* and no verification in any phase (the clock given to runEngineeringPod  *)
(* throws).                                                                *)
THEOREM NoWorkOnceInterrupted == Spec => NoWorkAfterSignal
<1>1. ASSUME TypeOK, [Next]_vars
      PROVE  [interrupted => /\ pc' \in AgentPcs => pc' = pc
                             /\ Running' \subseteq Running]_vars
  BY <1>1, SignalStep
<1>2. Spec => []TypeOK
  BY AlwaysControllerInv, PTL DEF ControllerInv, ControllerSafety
<1> QED
  BY <1>1, <1>2, PTL DEF Spec, NoWorkAfterSignal
=============================================================================
