-------------------------- MODULE PublicationProofs --------------------------
(***************************************************************************)
(* What holds of publication for any set of runs and any number of faults. *)
(***************************************************************************)
EXTENDS Publication, FiniteSetTheorems, SequenceTheorems, TLAPS

(* The four stages are different logs, and each is a log.                  *)
LEMMA Stages ==
    /\ Nothing \in Seq(LogEvents) /\ Ready \in Seq(LogEvents)
    /\ Recorded \in Seq(LogEvents) /\ Evidence \in Seq(LogEvents)
    /\ Len(Nothing) = 0 /\ Len(Ready) = 1
    /\ Len(Recorded) = 2 /\ Len(Evidence) = 3
    /\ Append(Nothing, "publication.ready") = Ready
    /\ Append(Ready, "publication.finished") = Recorded
    /\ Append(Recorded, "run.finished") = Evidence
<1>1. /\ Nothing \in Seq(LogEvents) /\ Len(Nothing) = 0
      /\ Append(Nothing, "publication.ready") = Ready
  BY DEF Nothing, Ready, LogEvents
<1>2. /\ Ready \in Seq(LogEvents) /\ Len(Ready) = 1
      /\ Append(Ready, "publication.finished") = Recorded
  <2>1. Ready \in Seq(LogEvents) /\ Len(Ready) = 1
    BY DEF Ready, LogEvents
  <2>2. Recorded \in Seq(LogEvents) /\ Len(Recorded) = 2
    BY DEF Recorded, LogEvents
  <2> DEFINE s == Append(Ready, "publication.finished")
  <2>3. /\ s \in Seq(LogEvents) /\ Len(s) = 2
        /\ s[1] = "publication.ready" /\ s[2] = "publication.finished"
    BY <2>1 DEF Ready, LogEvents
  <2>4. /\ Recorded[1] = "publication.ready"
        /\ Recorded[2] = "publication.finished"
    BY DEF Recorded
  <2> HIDE DEF s
  <2>5. \A i \in 1..Len(s) : s[i] = Recorded[i]
    BY <2>3, <2>4
  <2> QED
    BY <2>1, <2>2, <2>3, <2>5, SeqEqual DEF s
<1>3. /\ Recorded \in Seq(LogEvents) /\ Len(Recorded) = 2
      /\ Append(Recorded, "run.finished") = Evidence
  <2>1. Recorded \in Seq(LogEvents) /\ Len(Recorded) = 2
    BY DEF Recorded, LogEvents
  <2>2. Evidence \in Seq(LogEvents) /\ Len(Evidence) = 3
    BY DEF Evidence, LogEvents
  <2> DEFINE s == Append(Recorded, "run.finished")
  <2>3. /\ s \in Seq(LogEvents) /\ Len(s) = 3
        /\ s[1] = "publication.ready" /\ s[2] = "publication.finished"
        /\ s[3] = "run.finished"
    BY <2>1 DEF Recorded, LogEvents
  <2>4. /\ Evidence[1] = "publication.ready"
        /\ Evidence[2] = "publication.finished"
        /\ Evidence[3] = "run.finished"
    BY DEF Evidence
  <2> HIDE DEF s
  <2>5. \A i \in 1..Len(s) : s[i] = Evidence[i]
    BY <2>3, <2>4
  <2> QED
    BY <2>1, <2>2, <2>3, <2>5, SeqEqual DEF s
<1>4. Evidence \in Seq(LogEvents) /\ Len(Evidence) = 3
  BY DEF Evidence, LogEvents
<1> QED
  BY <1>1, <1>2, <1>3, <1>4

LEMMA StagesDiffer ==
    /\ Nothing # Ready /\ Nothing # Recorded /\ Nothing # Evidence
    /\ Ready # Recorded /\ Ready # Evidence /\ Recorded # Evidence
BY Stages

(* An event that is counted is there.                                      *)
LEMMA CountedIsThere ==
    ASSUME NEW r, NEW e, Count(r, e) = 1
    PROVE  Has(r, e)
<1>1. SUFFICES ASSUME ~Has(r, e) PROVE FALSE
  OBVIOUS
<1>2. {i \in DOMAIN log[r] : log[r][i] = e} = {}
  BY <1>1 DEF Has
<1> QED
  BY <1>2, FS_EmptySet DEF Count

(* Which events each stage has.                                            *)
LEMMA StageHas ==
    ASSUME NEW r
    PROVE  /\ log[r] = Nothing => ~Has(r, "publication.ready")
           /\ log[r] \in {Nothing, Ready} => ~Has(r, "publication.finished")
           /\ log[r] \in {Recorded, Evidence} => Has(r, "publication.finished")
           /\ log[r] \in {Nothing, Ready, Recorded} => ~Has(r, "run.finished")
<1>1. CASE log[r] = Nothing
  BY <1>1, StagesDiffer DEF Nothing, Has
<1>2. CASE log[r] = Ready
  BY <1>2, StagesDiffer DEF Ready, Has
<1>3. CASE log[r] = Recorded
  BY <1>3, StagesDiffer DEF Recorded, Has
<1>4. CASE log[r] = Evidence
  BY <1>4, StagesDiffer DEF Evidence, Has
<1> QED
  BY <1>1, <1>2, <1>3, <1>4

-----------------------------------------------------------------------------
LEMMA InitPublicationInv == Init => PublicationInv
<1> SUFFICES ASSUME Init PROVE PublicationInv
  OBVIOUS
<1> USE PublicationAssumption DEF Init, PublicationAssumption
<1>1. TypeOK
  <2>1. pub \in Publisher
    BY DEF Idle, Publisher, Pcs
  <2>2. log \in [Runs -> Seq(LogEvents)]
    OBVIOUS
  <2>3. pulls \in [Runs -> Seq(PullStates)]
    OBVIOUS
  <2>4. /\ status \in [Runs -> {"absent", "running", "completed", "failed"}]
        /\ heads \in [Runs -> {"absent", "candidate", "foreign"}]
    OBVIOUS
  <2>5. posts \in [Runs -> 0..MaxFaults] /\ faults \in 0..MaxFaults
    OBVIOUS
  <2>6. claimed \in BOOLEAN
    OBVIOUS
  <2> QED
    BY <2>1, <2>2, <2>3, <2>4, <2>5, <2>6 DEF TypeOK
<1>2. \A r \in Runs : Staged(r) /\ posts[r] <= faults
  BY StagesDiffer DEF Staged, Nothing
<1>3. PublisherInStep
  BY DEF PublisherInStep, At, Idle, Publishing
<1>4. SourceClaimed /\ SourceKeptButReplay
  BY StagesDiffer DEF SourceClaimed, SourceKeptButReplay, Nothing, Ready
<1> QED
  BY <1>1, <1>2, <1>3, <1>4 DEF PublicationInv

-----------------------------------------------------------------------------
(* Where the publisher goes next.                                          *)
LEMMA GotoShape ==
    ASSUME pub \in Publisher, NEW pc \in Pcs, Goto(pc)
    PROVE  pub' \in Publisher /\ pub'.pc = pc /\ pub'.run = pub.run
BY DEF Publisher, Goto

LEMMA IdleShape == Idle \in Publisher /\ Idle.pc = "idle"
BY DEF Idle, Publisher, Pcs

(* Everything a publisher does before it records the publication, and all  *)
(* that happens at GitHub, leaves the deployment alone.  Pull requests     *)
(* change and are added, none goes away.                                   *)
LEMMA RemoteStep ==
    ASSUME PublicationInv, UNCHANGED deployment,
           target' \in {"base", "moved"},
           heads' \in [Runs -> {"absent", "candidate", "foreign"}],
           pulls' \in [Runs -> Seq(PullStates)],
           posts' \in [Runs -> 0..MaxFaults],
           faults' \in 0..MaxFaults,
           \A r \in Runs : posts'[r] <= faults',
           \A r \in Runs : pulls[r] # <<>> => pulls'[r] # <<>>,
           \/ pub' \in {Idle, pub}
           \/ /\ pub.pc \in Publishing
              /\ \E pc \in Publishing :
                    Goto(pc) /\ (pc = "record" => pulls'[run] # <<>>)
    PROVE  PublicationInv'
<1>0. /\ TypeOK /\ PublisherInStep /\ SourceClaimed /\ SourceKeptButReplay
      /\ \A r \in Runs : Staged(r)
  BY DEF PublicationInv
<1>1. UNCHANGED <<status, log, controller, source, claimed>>
  BY DEF deployment
<1>2. \A r \in Runs : Staged(r)'
  BY <1>0, <1>1 DEF Staged
<1>3. SourceClaimed' /\ SourceKeptButReplay'
  BY <1>0, <1>1 DEF SourceClaimed, SourceKeptButReplay, Replayed
<1>4. pub \in Publisher
  BY <1>0 DEF TypeOK
<1>5. pub' \in Publisher /\ PublisherInStep'
  <2>1. CASE pub' = Idle
    BY <2>1, IdleShape DEF PublisherInStep, At, Publishing
  <2>2. CASE pub' = pub
    BY <1>0, <1>1, <1>4, <2>2 DEF PublisherInStep, At, run
  <2>3. ASSUME pub.pc \in Publishing, NEW pc \in Publishing, Goto(pc),
               pc = "record" => pulls'[run] # <<>>
        PROVE  pub' \in Publisher /\ PublisherInStep'
    <3>1. pub' \in Publisher /\ pub'.pc = pc /\ pub'.run = pub.run
      BY <1>4, <2>3, GotoShape DEF Publishing
    <3>2. pc \notin {"idle", "finish", "rename", "cleanup"}
      BY DEF Publishing
    <3>3. run \in Runs /\ status[run] = "running" /\ log[run] = Ready
      BY <1>0, <2>3 DEF PublisherInStep, At, Publishing
    <3> QED
      BY <1>1, <2>3, <3>1, <3>2, <3>3 DEF PublisherInStep, At, run
  <2> QED
    BY <2>1, <2>2, <2>3
<1>6. TypeOK'
  BY SMTT(30), <1>0, <1>1, <1>5 DEF TypeOK
<1> QED
  BY <1>2, <1>3, <1>5, <1>6 DEF PublicationInv

(* The steps that only look at the remote, and the ways a publisher ends.  *)
LEMMA LookingStep ==
    ASSUME PublicationInv,
           \/ InspectRemote \/ ReadBase \/ ReadHead \/ FindExistingPull
           \/ ReconcileBase \/ ReconcilePull
           \/ PublisherFails \/ CancelPublisher
    PROVE  PublicationInv'
<1>0. TypeOK /\ \A r \in Runs : posts[r] <= faults
  BY DEF PublicationInv
<1>1. UNCHANGED <<deployment, remote>>
  BY DEF InspectRemote, ReadBase, ReadHead, FindExistingPull, ReconcileBase,
         ReconcilePull, PublisherFails, CancelPublisher
<1>2. UNCHANGED <<target, heads, pulls, posts>>
  BY <1>1 DEF remote
<1>3. faults' \in 0..MaxFaults /\ faults <= faults'
  <2>1. UNCHANGED faults \/ Fault
    BY DEF InspectRemote, ReadBase, ReadHead, FindExistingPull, ReconcileBase,
           ReconcilePull, PublisherFails, CancelPublisher
  <2> QED
    BY <1>0, <2>1, PublicationAssumption
       DEF TypeOK, Fault, PublicationAssumption
<1>4. \A r \in Runs : posts'[r] <= faults'
  BY <1>0, <1>2, <1>3, PublicationAssumption
     DEF TypeOK, PublicationAssumption
<1>5. \/ pub' \in {Idle, pub}
      \/ /\ pub.pc \in Publishing
         /\ \E pc \in Publishing :
               Goto(pc) /\ (pc = "record" => pulls'[run] # <<>>)
  <2>1. CASE InspectRemote
    BY <2>1 DEF InspectRemote, Exit, At, Publishing, Pcs
  <2>2. CASE ReadBase \/ ReadHead \/ ReconcileBase
    BY <2>2 DEF ReadBase, ReadHead, ReconcileBase, Exit, At, Publishing, Pcs
  <2>3. CASE FindExistingPull \/ ReconcilePull
    <3>1. ExistingPull(run) => pulls[run] # <<>>
      BY DEF ExistingPull, Listed
    <3> QED
      BY <1>2, <2>3, <3>1
         DEF FindExistingPull, ReconcilePull, Exit, At, Publishing, Pcs
  <2>4. CASE PublisherFails \/ CancelPublisher
    BY <2>4 DEF PublisherFails, CancelPublisher, Exit
  <2> QED
    BY <2>1, <2>2, <2>3, <2>4
<1> QED
  BY <1>0, <1>1, <1>2, <1>3, <1>4, <1>5, RemoteStep DEF TypeOK

(* The push, and what others do to the remote's branches.                  *)
LEMMA BranchStep ==
    ASSUME PublicationInv,
           Push \/ TargetMoves \/ \E r \in Runs : ForeignPush(r)
    PROVE  PublicationInv'
<1>0. TypeOK /\ PublisherInStep /\ \A r \in Runs : posts[r] <= faults
  BY DEF PublicationInv
<1>1. UNCHANGED <<deployment, pulls, posts>>
  BY DEF Push, TargetMoves, ForeignPush
<1>2. faults' \in 0..MaxFaults /\ faults <= faults'
  <2>1. UNCHANGED faults \/ Fault
    BY DEF Push, TargetMoves, ForeignPush
  <2> QED
    BY SMTT(30), <1>0, <2>1, PublicationAssumption
       DEF TypeOK, Fault, PublicationAssumption
<1>3. \A r \in Runs : posts'[r] <= faults'
  BY <1>0, <1>1, <1>2, PublicationAssumption
     DEF TypeOK, PublicationAssumption
<1>4. /\ target' \in {"base", "moved"}
      /\ heads' \in [Runs -> {"absent", "candidate", "foreign"}]
  BY Zenon, <1>0 DEF TypeOK, Push, TargetMoves, ForeignPush
<1>5. \/ pub' \in {Idle, pub}
      \/ /\ pub.pc \in Publishing
         /\ \E pc \in Publishing :
               Goto(pc) /\ (pc = "record" => pulls'[run] # <<>>)
  BY DEF Push, TargetMoves, ForeignPush, Exit, At, Publishing, Pcs
<1> QED
  BY <1>0, <1>1, <1>2, <1>3, <1>4, <1>5, RemoteStep DEF TypeOK

(* The pull requests: created by the POST, or by one given up on, and      *)
(* changed by people.                                                      *)
LEMMA PullStep ==
    ASSUME PublicationInv,
           PostPull \/ \E r \in Runs : PullChanges(r) \/ LatePost(r)
    PROVE  PublicationInv'
<1> USE PublicationAssumption DEF PublicationAssumption
<1>0. TypeOK /\ PublisherInStep /\ \A r \in Runs : posts[r] <= faults
  BY DEF PublicationInv
<1>1. UNCHANGED <<deployment, target, heads>>
  BY DEF PostPull, PullChanges, LatePost
<1>2. ASSUME NEW r \in Runs, Created(r)
      PROVE  /\ pulls' \in [Runs -> Seq(PullStates)] /\ pulls'[r] # <<>>
             /\ \A q \in Runs : pulls[q] # <<>> => pulls'[q] # <<>>
  <2> DEFINE s == IF target = "base" /\ heads[r] = "candidate"
                  THEN "draft" ELSE "edited"
  <2>1. s \in PullStates /\ pulls[r] \in Seq(PullStates)
    BY <1>0 DEF PullStates, TypeOK
  <2>2. pulls' = [pulls EXCEPT ![r] = Append(@, s)]
    BY <1>2 DEF Created
  <2> HIDE DEF s
  <2>3. Append(pulls[r], s) \in Seq(PullStates) /\ Append(pulls[r], s) # <<>>
    BY <2>1
  <2> QED
    BY SMTT(30), <1>0, <2>2, <2>3 DEF TypeOK
<1>3. CASE PostPull
  <2>1. run \in Runs /\ pub.pc \in Publishing
    BY <1>0, <1>3 DEF PublisherInStep, PostPull, At, Publishing, Pcs
  <2>2. /\ pulls' \in [Runs -> Seq(PullStates)]
        /\ \A q \in Runs : pulls[q] # <<>> => pulls'[q] # <<>>
    BY SMTT(30), <1>0, <1>2, <1>3, <2>1 DEF PostPull, TypeOK
  <2>3. /\ posts' \in [Runs -> 0..MaxFaults] /\ faults' \in 0..MaxFaults
        /\ \A r \in Runs : posts'[r] <= faults'
    <3>1. /\ posts \in [Runs -> 0..MaxFaults] /\ faults \in 0..MaxFaults
          /\ posts[run] \in 0..MaxFaults /\ posts[run] <= faults
      BY <1>0, <2>1 DEF TypeOK
    <3>2. CASE UNCHANGED posts /\ (UNCHANGED faults \/ Fault)
      BY <1>0, <3>1, <3>2 DEF Fault
    <3>3. CASE Fault /\ posts' = [posts EXCEPT ![run] = @ + 1]
      <4>1. posts[run] + 1 \in 0..MaxFaults /\ posts[run] + 1 <= faults'
        BY <3>1, <3>3 DEF Fault
      <4>2. \A r \in Runs : posts[r] <= faults'
        BY <1>0, <3>1, <3>3 DEF Fault
      <4> QED
        BY <2>1, <3>1, <3>3, <4>1, <4>2 DEF Fault
    <3> QED
      BY <1>3, <3>2, <3>3 DEF PostPull
  <2>4. \E pc \in Publishing :
           Goto(pc) /\ (pc = "record" => pulls'[run] # <<>>)
    <3>1. "record" \in Publishing /\ "rebase" \in Publishing
      BY DEF Publishing, Pcs
    <3>2. Goto("rebase") \/ (Goto("record") /\ Created(run))
      BY <1>3 DEF PostPull
    <3> QED
      BY <1>2, <2>1, <3>1, <3>2
  <2> QED
    BY SMTT(30), <1>0, <1>1, <2>1, <2>2, <2>3, <2>4, RemoteStep DEF TypeOK
<1>4. ASSUME NEW r \in Runs, PullChanges(r)
      PROVE  PublicationInv'
  <2>1. PICK i \in DOMAIN pulls[r], s \in {"edited", "closed"} :
           pulls' = [pulls EXCEPT ![r][i] = s]
    BY Zenon, <1>4 DEF PullChanges
  <2>2. pulls[r] \in Seq(PullStates) /\ s \in PullStates
    BY <1>0 DEF TypeOK, PullStates
  <2>3. /\ [pulls[r] EXCEPT ![i] = s] \in Seq(PullStates)
        /\ [pulls[r] EXCEPT ![i] = s] # <<>>
    BY <2>2
  <2>4. /\ pulls' \in [Runs -> Seq(PullStates)]
        /\ \A q \in Runs : pulls[q] # <<>> => pulls'[q] # <<>>
    BY SMTT(30), <1>0, <2>1, <2>3 DEF TypeOK
  <2>5. UNCHANGED <<pub, posts, faults>>
    BY <1>4 DEF PullChanges
  <2> QED
    BY <1>0, <1>1, <2>4, <2>5, RemoteStep DEF TypeOK
<1>5. ASSUME NEW r \in Runs, LatePost(r)
      PROVE  PublicationInv'
  <2>1. /\ pulls' \in [Runs -> Seq(PullStates)]
        /\ \A q \in Runs : pulls[q] # <<>> => pulls'[q] # <<>>
    BY SMTT(30), <1>0, <1>2, <1>5 DEF LatePost, TypeOK
  <2>2. UNCHANGED <<pub, faults>> /\ posts' = [posts EXCEPT ![r] = @ - 1]
        /\ posts[r] > 0
    BY <1>5 DEF LatePost
  <2>3. /\ posts' \in [Runs -> 0..MaxFaults]
        /\ \A q \in Runs : posts'[q] <= faults'
    BY SMTT(30), <1>0, <2>2 DEF TypeOK
  <2> QED
    BY <1>0, <1>1, <2>1, <2>2, <2>3, RemoteStep DEF TypeOK
<1> QED
  BY <1>3, <1>4, <1>5

-----------------------------------------------------------------------------
(* The publication is recorded: the event is appended, or was not.         *)
LEMMA RecordStep == PublicationInv /\ RecordFinished => PublicationInv'
<1> SUFFICES ASSUME PublicationInv, RecordFinished PROVE PublicationInv'
  OBVIOUS
<1> USE PublicationAssumption DEF PublicationAssumption
<1>0. /\ TypeOK /\ PublisherInStep /\ SourceClaimed /\ SourceKeptButReplay
      /\ \A r \in Runs : Staged(r) /\ posts[r] <= faults
  BY DEF PublicationInv
<1>1. /\ run \in Runs /\ status[run] = "running" /\ log[run] = Ready
      /\ pulls[run] # <<>> /\ pub \in Publisher
  BY <1>0 DEF RecordFinished, PublisherInStep, At, Publishing, Pcs, TypeOK
<1>2. /\ UNCHANGED <<status, controller, source, claimed, pulls, posts, heads,
                     target>>
      /\ faults' \in 0..MaxFaults /\ faults <= faults'
  BY SMTT(30), <1>0 DEF RecordFinished, remote, Fault, TypeOK
<1>3. \A r \in Runs : posts'[r] <= faults'
  BY <1>0, <1>2 DEF TypeOK
<1>4. CASE log' = [log EXCEPT ![run] = Append(@, "publication.finished")]
  <2>1. /\ log' \in [Runs -> Seq(LogEvents)] /\ log'[run] = Recorded
        /\ \A r \in Runs : r # run => log'[r] = log[r]
    BY Zenon, <1>0, <1>1, <1>4, Stages DEF TypeOK
  <2>2. \A r \in Runs : Staged(r)'
    BY <1>0, <1>1, <1>2, <2>1, StagesDiffer DEF Staged
  <2>3. SourceClaimed' /\ SourceKeptButReplay'
    BY Zenon, <1>0, <1>2, <2>1, StagesDiffer
       DEF SourceClaimed, SourceKeptButReplay, Replayed, Ready
  <2>4. pub' \in Publisher /\ PublisherInStep'
    <3>1. CASE Goto("finish")
      <4>1. pub' \in Publisher /\ pub'.pc = "finish" /\ pub'.run = pub.run
        BY <1>1, <3>1, GotoShape DEF Pcs
      <4> QED
        BY <1>1, <1>2, <2>1, <4>1 DEF PublisherInStep, At, run, Publishing
    <3>2. CASE Exit
      BY <3>2, IdleShape DEF PublisherInStep, At, Publishing, Exit
    <3> QED
      BY <3>1, <3>2 DEF RecordFinished
  <2> QED
    BY Zenon, <1>0, <1>2, <1>3, <2>1, <2>2, <2>3, <2>4 DEF PublicationInv, TypeOK
<1>5. CASE UNCHANGED log /\ Exit
  BY <1>0, <1>2, <1>3, <1>5, RemoteStep
     DEF TypeOK, deployment, Exit
<1> QED
  BY <1>4, <1>5 DEF RecordFinished, Record

(* finish appends run.finished.                                            *)
LEMMA FinishStep == PublicationInv /\ AppendRunFinished => PublicationInv'
<1> SUFFICES ASSUME PublicationInv, AppendRunFinished PROVE PublicationInv'
  OBVIOUS
<1>0. /\ TypeOK /\ PublisherInStep /\ SourceClaimed /\ SourceKeptButReplay
      /\ \A r \in Runs : Staged(r) /\ posts[r] <= faults
  BY DEF PublicationInv
<1>1. /\ run \in Runs /\ status[run] = "running" /\ log[run] = Recorded
      /\ pub \in Publisher
  BY <1>0 DEF AppendRunFinished, PublisherInStep, At, TypeOK
<1>2. UNCHANGED <<status, controller, source, claimed, pulls, posts, heads,
                  target, faults>>
  BY DEF AppendRunFinished, remote
<1>3. /\ log' \in [Runs -> Seq(LogEvents)] /\ log'[run] = Evidence
      /\ \A r \in Runs : r # run => log'[r] = log[r]
  BY <1>0, <1>1, Stages DEF TypeOK, AppendRunFinished, Record
<1>4. \A r \in Runs : Staged(r)'
  BY <1>0, <1>1, <1>2, <1>3, StagesDiffer DEF Staged
<1>5. SourceClaimed' /\ SourceKeptButReplay'
  BY Zenon, <1>0, <1>2, <1>3, StagesDiffer
     DEF SourceClaimed, SourceKeptButReplay, Replayed, Ready
<1>6. pub' \in Publisher /\ PublisherInStep'
  <2>1. pub' \in Publisher /\ pub'.pc = "rename" /\ pub'.run = pub.run
    BY <1>1, GotoShape DEF Pcs, AppendRunFinished
  <2> QED
    BY <1>1, <1>2, <1>3, <2>1 DEF PublisherInStep, At, run, Publishing
<1> QED
  BY SMTT(30), <1>0, <1>2, <1>3, <1>4, <1>5, <1>6 DEF PublicationInv, TypeOK

(* finish renames run.json: the run is completed.                          *)
LEMMA RenameStep == PublicationInv /\ RenameRecord => PublicationInv'
<1> SUFFICES ASSUME PublicationInv, RenameRecord PROVE PublicationInv'
  OBVIOUS
<1>0. /\ TypeOK /\ PublisherInStep /\ SourceClaimed /\ SourceKeptButReplay
      /\ \A r \in Runs : Staged(r) /\ posts[r] <= faults
  BY DEF PublicationInv
<1>1. /\ run \in Runs /\ status[run] = "running" /\ log[run] = Evidence
      /\ pub \in Publisher
  BY <1>0 DEF RenameRecord, PublisherInStep, At, TypeOK
<1>2. UNCHANGED <<log, controller, source, claimed, pulls, posts, heads,
                  target, faults>>
  BY DEF RenameRecord, remote
<1>3. /\ status' \in [Runs -> {"absent", "running", "completed", "failed"}]
      /\ status'[run] = "completed"
      /\ \A r \in Runs : r # run => status'[r] = status[r]
  BY <1>0, <1>1 DEF TypeOK, RenameRecord
<1>4. \A r \in Runs : Staged(r)'
  BY <1>0, <1>1, <1>2, <1>3, StagesDiffer DEF Staged
<1>5. SourceClaimed' /\ SourceKeptButReplay'
  <2>1. SourceClaimed'
    BY <1>0, <1>2, <1>3 DEF SourceClaimed, TypeOK
  <2>2. SourceKeptButReplay'
    BY SMTT(30), <1>0, <1>1, <1>2, <1>3 DEF SourceKeptButReplay, Replayed
  <2> QED
    BY <2>1, <2>2
<1>6. pub' \in Publisher /\ PublisherInStep'
  <2>1. pub' \in Publisher /\ pub'.pc = "cleanup" /\ pub'.run = pub.run
    BY <1>1, GotoShape DEF Pcs, RenameRecord
  <2> QED
    BY <1>1, <1>2, <1>3, <2>1 DEF PublisherInStep, At, run, Publishing
<1> QED
  BY SMTT(30), <1>0, <1>2, <1>3, <1>4, <1>5, <1>6 DEF PublicationInv, TypeOK

(* The source is removed after the run is completed, so a ready run that   *)
(* loses its source to this step lost it to a replay.                      *)
LEMMA CleanupStep == PublicationInv /\ CleanupSource => PublicationInv'
<1> SUFFICES ASSUME PublicationInv, CleanupSource PROVE PublicationInv'
  OBVIOUS
<1> USE PublicationAssumption DEF PublicationAssumption
<1>0. /\ TypeOK /\ PublisherInStep /\ SourceClaimed /\ SourceKeptButReplay
      /\ \A r \in Runs : Staged(r) /\ posts[r] <= faults
  BY DEF PublicationInv
<1>1. run \in Runs /\ status[run] = "completed" /\ log[run] = Evidence
  BY <1>0 DEF CleanupSource, PublisherInStep, At, Staged
<1>2. /\ UNCHANGED <<status, log, controller, claimed, pulls, posts, heads,
                     target>>
      /\ source' \in {source, None} /\ pub' = Idle
      /\ faults' \in 0..MaxFaults /\ faults <= faults'
  BY <1>0 DEF CleanupSource, remote, Fault, TypeOK, Exit
<1>3. \A r \in Runs : Staged(r)' /\ posts'[r] <= faults'
  BY <1>0, <1>2 DEF Staged, TypeOK
<1>4. SourceKeptButReplay'
  <2>1. SUFFICES ASSUME NEW r \in Runs, log[r] = Ready
                 PROVE  source' = r \/ Replayed(r)'
    BY <1>2 DEF SourceKeptButReplay, Ready
  <2>2. r # run
    BY <1>1, <2>1, StagesDiffer
  <2>3. \E q \in Runs \ {r} : status'[q] = "completed"
    BY <1>1, <1>2, <2>2
  <2> QED
    BY <2>3 DEF Replayed
<1>5. SourceClaimed'
  BY <1>0, <1>2 DEF SourceClaimed
<1>6. pub' \in Publisher /\ PublisherInStep'
  BY <1>2, IdleShape DEF PublisherInStep, At, Publishing
<1> QED
  BY <1>0, <1>2, <1>3, <1>4, <1>5, <1>6 DEF PublicationInv, TypeOK

-----------------------------------------------------------------------------
(* publishRunInternal's three ways in.                                     *)
LEMMA InvokeStep ==
    ASSUME PublicationInv, NEW r \in Runs, Invoke(r)
    PROVE  PublicationInv'
<1>0. /\ TypeOK /\ PublisherInStep /\ SourceClaimed /\ SourceKeptButReplay
      /\ \A q \in Runs : Staged(q) /\ posts[q] <= faults
  BY DEF PublicationInv
<1>1. UNCHANGED <<status, log, controller, source, claimed, pulls, posts,
                  heads, target, faults>>
  BY DEF Invoke, deployment, remote
<1>2. log[r] \in {Ready, Recorded, Evidence}
  <2>1. Has(r, "publication.ready")
    BY CountedIsThere DEF Invoke
  <2> QED
    BY <1>0, <2>1, StageHas DEF Staged
<1>3. PICK pc \in {"cleanup", "finish", "remote"}, e \in Runs \cup {None} :
         /\ pub' = [pc |-> pc, run |-> r, expected |-> e]
         /\ pc = "cleanup" => status[r] = "completed"
         /\ pc = "finish" => status[r] = "running" /\ log[r] = Recorded
         /\ pc = "remote" => status[r] = "running" /\ log[r] = Ready
  <2>1. CASE Replay(r)
    BY SMTT(30), <1>0, <2>1 DEF Replay, Enter, TypeOK
  <2>2. CASE FinishInterrupted(r)
    <3>1. Has(r, "publication.finished") /\ status[r] = "running"
      BY <2>2, CountedIsThere DEF FinishInterrupted
    <3>2. log[r] # Ready
      BY <3>1, StageHas
    <3>3. log[r] # Evidence
      <4>1. Evidence[Len(Evidence)] = "run.finished"
        BY Stages DEF Evidence
      <4> QED
        BY <2>2, <4>1 DEF FinishInterrupted
    <3> QED
      BY Zenon, <1>2, <2>2, <3>1, <3>2, <3>3 DEF FinishInterrupted, Enter
  <2>3. CASE Publish(r)
    <3>1. log[r] \notin {Recorded, Evidence}
      BY <2>3, StageHas DEF Publish
    <3> QED
      BY <1>0, <1>2, <2>3, <3>1 DEF Publish, Enter, TypeOK
  <2> QED
    BY <2>1, <2>2, <2>3 DEF Invoke
<1>4. pub' \in Publisher /\ pub'.pc = pc /\ pub'.run = r
  BY <1>3 DEF Publisher, Pcs
<1>5. PublisherInStep'
  BY SMTT(30), <1>1, <1>3, <1>4 DEF PublisherInStep, At, run, Publishing
<1>6. \A q \in Runs : Staged(q)' /\ posts'[q] <= faults'
  BY SMTT(30), <1>0, <1>1 DEF Staged
<1>7. SourceClaimed' /\ SourceKeptButReplay'
  BY SMTT(30), <1>0, <1>1 DEF SourceClaimed, SourceKeptButReplay, Replayed
<1> QED
  BY Zenon, <1>0, <1>1, <1>4, <1>5, <1>6, <1>7 DEF PublicationInv, TypeOK

(* A controller claims /source, or is refused.  A ready run whose source   *)
(* is gone stays without it.                                               *)
LEMMA ClaimStep ==
    ASSUME PublicationInv, NEW r \in Runs, ClaimGitRoot(r)
    PROVE  PublicationInv'
<1> USE PublicationAssumption DEF PublicationAssumption
<1>0. /\ TypeOK /\ PublisherInStep /\ SourceClaimed /\ SourceKeptButReplay
      /\ \A q \in Runs : Staged(q) /\ posts[q] <= faults
  BY DEF PublicationInv
<1>1. /\ UNCHANGED <<log, pub, pulls, posts, heads, target, faults>>
      /\ controller = None /\ status[r] = "absent" /\ log[r] = Nothing
  BY <1>0 DEF ClaimGitRoot, remote, Staged
<1>2. /\ status' \in [Runs -> {"absent", "running", "completed", "failed"}]
      /\ status'[r] \in {"running", "failed"}
      /\ \A q \in Runs : q # r => status'[q] = status[q]
  BY Zenon, <1>0 DEF TypeOK, ClaimGitRoot
<1>3. \/ UNCHANGED <<controller, source, claimed>>
      \/ source = None /\ controller' = r /\ source' = r /\ claimed' = TRUE
  BY DEF ClaimGitRoot
<1>4. TypeOK'
  <2>1. controller' \in Runs \cup {None} /\ source' \in Runs \cup {None}
    BY <1>0, <1>3 DEF TypeOK
  <2>2. claimed' \in BOOLEAN
    BY Zenon, <1>0, <1>3 DEF TypeOK
  <2> QED
    BY SMTT(30), <1>0, <1>1, <1>2, <2>1, <2>2 DEF TypeOK
<1>5. \A q \in Runs : Staged(q)' /\ posts'[q] <= faults'
  BY <1>0, <1>1, <1>2, StagesDiffer DEF Staged
<1>6. PublisherInStep'
  <2>1. ~At("idle") => run # r
    BY <1>0, <1>1 DEF PublisherInStep, At, Publishing, TypeOK, Publisher
  <2> QED
    BY <1>0, <1>1, <1>2, <2>1 DEF PublisherInStep, At, run, Publishing,
       TypeOK, Publisher
<1>7. SourceClaimed'
  BY <1>0, <1>1, <1>3 DEF SourceClaimed, ClaimGitRoot, TypeOK
<1>8. SourceKeptButReplay'
  <2>1. SUFFICES ASSUME NEW q \in Runs, log[q] = Ready
                 PROVE  source' = q \/ Replayed(q)'
    BY <1>1 DEF SourceKeptButReplay, Ready
  <2>2. q # r /\ (source = q \/ Replayed(q))
    BY Zenon, <1>0, <1>1, <2>1, StagesDiffer DEF SourceKeptButReplay, Ready
  <2>3. \A p \in Runs : status[p] = "completed" => status'[p] = "completed"
    BY <1>1, <1>2
  <2>4. CASE source = q
    BY <1>3, <2>2, <2>4
  <2>5. CASE Replayed(q)
    BY <1>3, <2>2, <2>3, <2>5 DEF Replayed
  <2> QED
    BY <2>2, <2>4, <2>5
<1> QED
  BY <1>4, <1>5, <1>6, <1>7, <1>8 DEF PublicationInv

(* A controller finishes its run for publication: the source is there.     *)
LEMMA ReadyStep ==
    ASSUME PublicationInv, NEW r \in Runs, PublicationReady(r)
    PROVE  PublicationInv'
<1> USE PublicationAssumption DEF PublicationAssumption
<1>0. /\ TypeOK /\ PublisherInStep /\ SourceClaimed /\ SourceKeptButReplay
      /\ \A q \in Runs : Staged(q) /\ posts[q] <= faults
  BY DEF PublicationInv
<1>1. /\ UNCHANGED <<status, controller, source, claimed, pub, pulls, posts,
                     heads, target, faults>>
      /\ controller = r /\ source = r /\ log[r] = Nothing
  BY DEF PublicationReady, remote, Nothing
<1>2. /\ log' \in [Runs -> Seq(LogEvents)] /\ log'[r] = Ready
      /\ \A q \in Runs : q # r => log'[q] = log[q]
  BY SMTT(30), <1>0, <1>1, Stages DEF TypeOK, PublicationReady, Record
<1>3. status[r] = "running"
  BY <1>0, <1>1, StagesDiffer DEF SourceClaimed, Staged
<1>4. \A q \in Runs : Staged(q)' /\ posts'[q] <= faults'
  BY SMTT(30), <1>0, <1>1, <1>2, <1>3, StagesDiffer DEF Staged
<1>5. PublisherInStep'
  <2>1. ~At("idle") => run # r
    BY SMTT(30), <1>0, <1>1, <1>3, StagesDiffer
       DEF PublisherInStep, At, Publishing, TypeOK, Publisher
  <2> QED
    BY <1>0, <1>1, <1>2, <2>1 DEF PublisherInStep, At, run, Publishing,
       TypeOK, Publisher
<1>6. SourceClaimed' /\ SourceKeptButReplay'
  BY <1>0, <1>1, <1>2
     DEF SourceClaimed, SourceKeptButReplay, Replayed, Ready
<1> QED
  BY <1>0, <1>1, <1>2, <1>4, <1>5, <1>6 DEF PublicationInv, TypeOK

(* A controller ends: it fails, closes its Git resources or dies.  Only a  *)
(* failed one removes a source, and that is no ready run's.                *)
LEMMA ControllerEnds ==
    ASSUME PublicationInv, NEW r \in Runs,
           ControllerFails(r) \/ CloseRetaining(r) \/ ControllerDies
    PROVE  PublicationInv'
<1> USE PublicationAssumption DEF PublicationAssumption
<1>0. /\ TypeOK /\ PublisherInStep /\ SourceClaimed /\ SourceKeptButReplay
      /\ \A q \in Runs : Staged(q) /\ posts[q] <= faults
  BY DEF PublicationInv
<1>1. /\ UNCHANGED <<log, pub, pulls, posts, heads, target>>
      /\ controller' = None
      /\ faults' \in 0..MaxFaults /\ faults <= faults'
  BY SMTT(30), <1>0 DEF ControllerFails, CloseRetaining, ControllerDies, remote, Fault,
              TypeOK
<1>2. SourceClaimed' /\ \A q \in Runs : posts'[q] <= faults'
  BY <1>0, <1>1 DEF SourceClaimed, TypeOK
<1>3. claimed' \in BOOLEAN
  BY Zenon, <1>0 DEF ControllerFails, CloseRetaining, ControllerDies, TypeOK
<1>4. CASE UNCHANGED <<status, source>>
  <2>1. TypeOK'
    BY <1>0, <1>1, <1>3, <1>4 DEF TypeOK
  <2>2. \A q \in Runs : Staged(q)'
    BY <1>0, <1>1, <1>4 DEF Staged
  <2>3. PublisherInStep' /\ SourceKeptButReplay'
    BY SMTT(30), <1>0, <1>1, <1>4
       DEF PublisherInStep, At, run, SourceKeptButReplay, Replayed
  <2> QED
    BY <1>2, <2>1, <2>2, <2>3 DEF PublicationInv
<1>5. CASE ControllerFails(r)
  <2>1. /\ controller = r /\ log[r] = Nothing
        /\ status' = [status EXCEPT ![r] = "failed"]
        /\ source' \in {source, None}
    BY <1>5 DEF ControllerFails, Nothing
  <2>2. /\ status[r] = "running" /\ source \in {r, None}
    BY <1>0, <2>1, StagesDiffer DEF SourceClaimed, Staged
  <2>3. /\ status' \in [Runs -> {"absent", "running", "completed", "failed"}]
        /\ status'[r] = "failed"
        /\ \A q \in Runs : q # r => status'[q] = status[q]
    BY <1>0, <2>1 DEF TypeOK
  <2>4. TypeOK'
    BY SMTT(30), <1>0, <1>1, <1>3, <2>1, <2>3 DEF TypeOK
  <2>5. \A q \in Runs : Staged(q)'
    BY SMTT(30), <1>0, <1>1, <2>1, <2>3 DEF Staged
  <2>6. PublisherInStep'
    <3>1. ~At("idle") => run # r
      BY <1>0, <2>1, <2>2, StagesDiffer
         DEF PublisherInStep, At, Publishing, TypeOK, Publisher
    <3> QED
      BY SMTT(30), <1>0, <1>1, <2>3, <3>1 DEF PublisherInStep, At, run, Publishing,
         TypeOK, Publisher
  <2>7. SourceKeptButReplay'
    <3>1. SUFFICES ASSUME NEW q \in Runs, log[q] = Ready
                   PROVE  source' = q \/ Replayed(q)'
      BY SMTT(30), <1>1 DEF SourceKeptButReplay, Ready
    <3>2. q # r /\ (source = q \/ Replayed(q))
      BY <1>0, <2>1, <3>1, StagesDiffer DEF SourceKeptButReplay, Ready
    <3>3. Replayed(q) /\ source' # q
      BY <2>1, <2>2, <3>2
    <3>4. \A p \in Runs : status[p] = "completed" => status'[p] = "completed"
      BY <2>2, <2>3
    <3> QED
      BY <3>3, <3>4 DEF Replayed
  <2> QED
    BY SMTT(30), <1>2, <2>4, <2>5, <2>6, <2>7 DEF PublicationInv
<1> QED
  BY <1>4, <1>5 DEF CloseRetaining, ControllerDies

(* Every step keeps the invariant.                                         *)
LEMMA NextPublicationInv == PublicationInv /\ [Next]_vars => PublicationInv'
<1> SUFFICES ASSUME PublicationInv, [Next]_vars PROVE PublicationInv'
  OBVIOUS
<1>1. CASE PublisherSteps
  BY <1>1, LookingStep, BranchStep, PullStep, RecordStep, FinishStep,
     RenameStep, CleanupStep DEF PublisherSteps
<1>2. CASE PublisherFails \/ CancelPublisher
  BY <1>2, LookingStep
<1>3. CASE TargetMoves
  BY <1>3, BranchStep
<1>4. CASE ControllerDies
  <2>1. controller \in Runs
    BY <1>4 DEF ControllerDies, PublicationInv, TypeOK
  <2> QED
    BY <1>4, <2>1, ControllerEnds
<1>5. ASSUME NEW r \in Runs,
             \/ ClaimGitRoot(r) \/ PublicationReady(r) \/ ControllerFails(r)
             \/ CloseRetaining(r) \/ ForeignPush(r) \/ PullChanges(r)
             \/ LatePost(r) \/ Invoke(r)
      PROVE  PublicationInv'
  BY SMTT(30), <1>5, ClaimStep, ReadyStep, ControllerEnds, BranchStep, PullStep,
     InvokeStep
<1>6. CASE UNCHANGED vars
  BY ZenonT(30), <1>6 DEF vars, PublicationInv, TypeOK, Staged, PublisherInStep, At, run,
     SourceClaimed, SourceKeptButReplay, Replayed
<1> QED
  BY <1>1, <1>2, <1>3, <1>4, <1>5, <1>6 DEF Next

-----------------------------------------------------------------------------
(* The stages are the beginnings of the evidence.                          *)
LEMMA SafetyFromInv == PublicationInv => PublicationSafety
<1> SUFFICES ASSUME PublicationInv PROVE PublicationSafety
  OBVIOUS
<1>1. \A s \in {Nothing, Ready, Recorded, Evidence} :
         s = SubSeq(Evidence, 1, Len(s))
  <2>1. TAKE s \in {Nothing, Ready, Recorded, Evidence}
  <2>2. s \in Seq(LogEvents) /\ Len(s) \in Int /\ Len(s) <= 3
    <3>1. s \in Seq(LogEvents) /\ Len(s) \in {0, 1, 2, 3}
      BY <2>1, Stages, Zenon
    <3>2. \A n \in {0, 1, 2, 3} : n \in Int /\ n <= 3
      OBVIOUS
    <3> QED
      BY <3>1, <3>2, Zenon
  <2>3. /\ SubSeq(Evidence, 1, Len(s)) \in Seq(LogEvents)
        /\ Len(SubSeq(Evidence, 1, Len(s))) = Len(s)
        /\ \A i \in 1..Len(s) : SubSeq(Evidence, 1, Len(s))[i] = Evidence[i]
    <3>1. /\ Len(s) \in Int /\ 1 \in Int
          /\ \A i \in 1..Len(s) : Evidence[i] \in LogEvents
      <4>1. \A i \in 1..3 : Evidence[i] \in LogEvents
        BY Stages
      <4>2. \A i \in 1..Len(s) : i \in 1..3
        BY <2>2
      <4> QED
        BY <2>2, <4>1, <4>2
    <3>2. /\ SubSeq(Evidence, 1, Len(s)) \in Seq(LogEvents)
          /\ Len(SubSeq(Evidence, 1, Len(s))) =
                IF 1 <= Len(s) THEN Len(s) - 1 + 1 ELSE 0
          /\ \A i \in 1..(Len(s) - 1 + 1) :
                SubSeq(Evidence, 1, Len(s))[i] = Evidence[1 + i - 1]
      BY <3>1, SubSeqProperties
    <3> QED
      BY <2>2, <3>2
  <2>4. \A i \in 1..Len(s) : s[i] = Evidence[i]
    <3>1. CASE s = Nothing
      BY <3>1, Stages
    <3>2. CASE s = Ready
      BY <3>2, Stages DEF Ready, Evidence
    <3>3. CASE s = Recorded
      BY <3>3, Stages DEF Recorded, Evidence
    <3> QED
      BY <2>1, <3>1, <3>2, <3>3
  <2> DEFINE t == SubSeq(Evidence, 1, Len(s))
  <2>5. /\ t \in Seq(LogEvents) /\ Len(s) = Len(t)
        /\ \A i \in 1..Len(s) : s[i] = t[i]
    BY <2>3, <2>4
  <2> HIDE DEF t
  <2>6. s = t
    BY <2>2, <2>5, SeqEqual
  <2> QED
    BY <2>6 DEF t
<1>2. CompletedIsEvidenced
  BY <1>1, StageHas DEF PublicationInv, Staged, CompletedIsEvidenced
<1> QED
  BY <1>2 DEF PublicationInv, PublicationSafety

(* However often the publishers of a deployment are interrupted, cancelled *)
(* and started again, for any number of runs: the evidence of each run is  *)
(* in order, a completed run has all of it and a pull request, and the     *)
(* source of a ready run goes only when the replay of another takes it.    *)
THEOREM PublicationSafe == Spec => []PublicationSafety
<1> QED
  BY InitPublicationInv, NextPublicationInv, SafetyFromInv, PTL DEF Spec

(* No step of a publisher or a controller takes a foreign commit off a     *)
(* run's branch.                                                           *)
THEOREM ForeignKept == Spec => ForeignHeadKept
<1>1. PublicationInv /\ [Next]_vars
         => [\A r \in Runs : heads[r] = "foreign" => heads'[r] = "foreign"]_vars
  <2>1. SUFFICES ASSUME PublicationInv, Next, NEW r \in Runs,
                        heads[r] = "foreign"
                 PROVE  heads'[r] = "foreign"
    OBVIOUS
  <2>2. heads \in [Runs -> {"absent", "candidate", "foreign"}]
    BY <2>1 DEF PublicationInv, TypeOK
  <2>3. CASE UNCHANGED heads
    BY <2>1, <2>3
  <2>4. CASE Push
    BY <2>1, <2>2, <2>4 DEF Push
  <2>5. CASE \E q \in Runs : ForeignPush(q)
    BY SMTT(30), <2>1, <2>2, <2>5 DEF ForeignPush
  <2>6. UNCHANGED heads \/ Push \/ \E q \in Runs : ForeignPush(q)
    BY Zenon, <2>1 DEF Next, PublisherSteps, InspectRemote, ReadBase, ReadHead,
       FindExistingPull, PostPull, ReconcileBase, ReconcilePull,
       RecordFinished, AppendRunFinished, RenameRecord, CleanupSource,
       PublisherFails, CancelPublisher, ControllerDies, TargetMoves,
       ClaimGitRoot, PublicationReady, ControllerFails, CloseRetaining,
       PullChanges, LatePost, Invoke, remote
  <2> QED
    BY <2>3, <2>4, <2>5, <2>6
<1> QED
  BY <1>1, InitPublicationInv, NextPublicationInv, PTL
     DEF Spec, ForeignHeadKept

(* A pull request that was closed is found by every later publisher, so no *)
(* other is created: from a state without a POST under way, the run's list *)
(* of pull requests never changes again.                                   *)
THEOREM ClosedKept == Spec => ClosedPullNotReplaced
<1>1. ASSUME NEW r \in Runs
      PROVE  PublicationInv /\ Rejected(r) /\ [Next]_vars => Rejected(r)'
  <2>1. SUFFICES ASSUME PublicationInv, Rejected(r), [Next]_vars
                 PROVE  Rejected(r)'
    OBVIOUS
  <2>2. /\ pulls \in [Runs -> Seq(PullStates)] /\ posts \in [Runs -> 0..MaxFaults]
        /\ pub \in Publisher /\ PublisherInStep
        /\ pulls[r] = <<"closed">> /\ posts[r] = 0
    BY <2>1 DEF PublicationInv, TypeOK, Rejected
  <2>3. CASE PostPull
    <3>1. run \in Runs /\ run # r
      BY <2>1, <2>2, <2>3 DEF PostPull, Rejected, PublisherInStep, At, Publishing
    <3>2. pulls'[r] = pulls[r] /\ posts'[r] = posts[r]
      BY <2>2, <2>3, <3>1 DEF PostPull, Created
    <3>3. \E pc \in {"record", "rebase"} : Goto(pc)
      BY <2>3 DEF PostPull
    <3>4. pub'.pc # "post"
      BY <2>2, <3>3, GotoShape DEF Pcs
    <3> QED
      BY SMTT(30), <2>2, <3>2, <3>4 DEF Rejected, At
  <2>4. ASSUME NEW q \in Runs, PullChanges(q)
        PROVE  Rejected(r)'
    <3>1. UNCHANGED <<pub, posts>>
      BY <2>4 DEF PullChanges
    <3>2. PICK i \in DOMAIN pulls[q], s \in {"edited", "closed"} :
             pulls[q][i] = "draft" /\ pulls' = [pulls EXCEPT ![q][i] = s]
      BY Zenon, <2>4 DEF PullChanges
    <3>3. q # r
      BY <2>2, <3>2
    <3>4. pulls'[r] = pulls[r]
      BY <2>2, <3>2, <3>3
    <3> QED
      BY <2>1, <3>1, <3>4 DEF Rejected, At, run
  <2>5. ASSUME NEW q \in Runs, LatePost(q)
        PROVE  Rejected(r)'
    <3>1. UNCHANGED pub /\ q # r
      BY <2>2, <2>5 DEF LatePost
    <3>2. pulls'[r] = pulls[r] /\ posts'[r] = posts[r]
      BY <2>2, <2>5, <3>1 DEF LatePost, Created
    <3> QED
      BY <2>1, <3>1, <3>2 DEF Rejected, At, run
  <2>6. CASE FindExistingPull
    <3>1. UNCHANGED <<pulls, posts>>
      BY <2>6 DEF FindExistingPull, remote
    <3>2. \/ Listed(run) = <<>> /\ Goto("post")
          \/ Goto("record") \/ Exit
      BY <2>6 DEF FindExistingPull
    <3>3. CASE Listed(run) = <<>> /\ Goto("post")
      <4>1. run # r
        <5>1. <<"closed">> # <<>>
          OBVIOUS
        <5>2. pulls[run] = <<>>
          BY <3>3 DEF Listed
        <5> QED
          BY Zenon, <2>2, <5>1, <5>2
      <4>2. pub'.run = pub.run
        BY <2>2, <3>3, GotoShape DEF Pcs
      <4> QED
        BY <2>2, <3>1, <4>1, <4>2 DEF Rejected, run
    <3>4. CASE Goto("record") \/ Exit
      <4>1. pub'.pc # "post"
        BY <2>2, <3>4, GotoShape, IdleShape DEF Pcs, Exit
      <4> QED
        BY <2>2, <3>1, <4>1 DEF Rejected, At
    <3> QED
      BY <3>2, <3>3, <3>4
  <2>7. CASE UNCHANGED <<pulls, posts>> /\ (UNCHANGED pub \/ pub'.pc # "post")
    BY <2>1, <2>7 DEF Rejected, At, run
  <2>8. \/ PostPull \/ FindExistingPull
        \/ \E q \in Runs : PullChanges(q) \/ LatePost(q)
        \/ UNCHANGED <<pulls, posts>> /\ (UNCHANGED pub \/ pub'.pc # "post")
    <3>1. CASE \/ InspectRemote \/ Push \/ ReadBase \/ ReadHead
               \/ ReconcileBase \/ ReconcilePull \/ RecordFinished
               \/ AppendRunFinished \/ RenameRecord \/ CleanupSource
               \/ PublisherFails \/ CancelPublisher
      <4>1. UNCHANGED <<pulls, posts>>
        BY SMTT(30), <3>1 DEF InspectRemote, Push, ReadBase, ReadHead, ReconcileBase,
           ReconcilePull, RecordFinished, AppendRunFinished, RenameRecord,
           CleanupSource, PublisherFails, CancelPublisher, remote
      <4>2. \/ UNCHANGED pub \/ Exit
            \/ \E pc \in Pcs \ {"post"} : Goto(pc)
        BY <3>1 DEF InspectRemote, Push, ReadBase, ReadHead, ReconcileBase,
           ReconcilePull, RecordFinished, AppendRunFinished, RenameRecord,
           CleanupSource, PublisherFails, CancelPublisher, Pcs
      <4> QED
        BY SMTT(30), <2>2, <4>1, <4>2, GotoShape, IdleShape DEF Exit
    <3>2. CASE ControllerDies \/ TargetMoves \/ UNCHANGED vars
      BY SMTT(30), <3>2 DEF ControllerDies, TargetMoves, vars, remote
    <3>3. ASSUME NEW q \in Runs,
                 \/ ClaimGitRoot(q) \/ PublicationReady(q)
                 \/ ControllerFails(q) \/ CloseRetaining(q) \/ ForeignPush(q)
          PROVE  UNCHANGED <<pulls, posts, pub>>
      BY ZenonT(30), <3>3 DEF ClaimGitRoot, PublicationReady, ControllerFails,
         CloseRetaining, ForeignPush, remote
    <3>4. ASSUME NEW q \in Runs, Invoke(q)
          PROVE  UNCHANGED <<pulls, posts>> /\ pub'.pc # "post"
      <4>1. UNCHANGED <<pulls, posts>>
        BY ZenonT(30), <3>4 DEF Invoke, remote
      <4>2. \/ pub' = [pc |-> "cleanup", run |-> q, expected |-> source]
            \/ pub' = [pc |-> "finish", run |-> q, expected |-> None]
            \/ pub' = [pc |-> "remote", run |-> q, expected |-> source]
        BY ZenonT(30), <3>4 DEF Invoke, Replay, FinishInterrupted, Publish, Enter
      <4> QED
        BY <4>1, <4>2
    <3> QED
      BY <2>1, <3>1, <3>2, <3>3, <3>4 DEF Next, PublisherSteps
  <2> QED
    BY <2>3, <2>4, <2>5, <2>6, <2>7, <2>8
<1>2. ASSUME NEW r \in Runs
      PROVE  Spec => [](Rejected(r) => [](pulls[r] = <<"closed">>))
  <2>1. PublicationInv /\ Rejected(r) /\ [Next]_vars => Rejected(r)'
    BY <1>1
  <2>2. Rejected(r) => pulls[r] = <<"closed">>
    BY DEF Rejected
  <2> QED
    BY <2>1, <2>2, InitPublicationInv, NextPublicationInv, PTL DEF Spec
<1> QED
  BY <1>2 DEF ClosedPullNotReplaced
=============================================================================
