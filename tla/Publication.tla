----------------------------- MODULE Publication -----------------------------
(***************************************************************************)
(* Publication of the runs of one deployment (src/publish-run.mjs and      *)
(* src/github-publisher.mjs): push the reviewed candidate, open one draft  *)
(* pull request, record it, remove the retained source.                    *)
(*                                                                         *)
(* A run's event log is reduced to the three events publication turns on.  *)
(* The deployment has one source directory, /source, that every run's      *)
(* controller claims and every publisher reads; the container names        *)
(* bimo-<deployment>-controller and -publisher allow one of each at a      *)
(* time.  A publisher dies, times out or is cancelled between any two of   *)
(* its steps, and `bimo publish` starts it again.                          *)
(***************************************************************************)
EXTENDS Integers, Sequences, FiniteSets

CONSTANTS
    Runs,       \* the runs of the deployment
    None,       \* no run
    MaxFaults   \* bound: failed calls, deaths and cancellations

ASSUME PublicationAssumption == None \notin Runs /\ MaxFaults \in Nat

VARIABLES
    status,      \* run.json's status, "absent" before the run exists
    log,         \* the run's publication events, in order
    controller,  \* the run whose controller container is up
    source,      \* the run that made /source/repository.git
    claimed,     \* /source holds a controller's marker and home
    pub,         \* the publisher container
    target,      \* the target branch at the remote
    heads,       \* each run's branch bimo/<run> at the remote
    pulls,       \* each run's pull requests at GitHub, oldest first
    posts,       \* POSTs given up on that may still reach GitHub
    faults

deployment == <<status, log, controller, source, claimed>>
remote     == <<target, heads, pulls, posts>>
vars       == <<status, log, controller, source, claimed, pub, target, heads,
                pulls, posts, faults>>

LogEvents == {"publication.ready", "publication.finished", "run.finished"}
Evidence  == <<"publication.ready", "publication.finished", "run.finished">>
Pcs       == {"idle", "remote", "push", "base", "head", "find", "post",
              "rebase", "refind", "record", "finish", "rename", "cleanup"}

(* expected is the directory identity that cleanup insists on, None = any. *)
Publisher == [pc : Pcs, run : Runs \cup {None}, expected : Runs \cup {None}]
Idle      == [pc |-> "idle", run |-> None, expected |-> None]

(* "edited": open, but no longer the draft of the candidate on the base.   *)
PullStates == {"draft", "edited", "closed"}

TypeOK ==
    /\ status \in [Runs -> {"absent", "running", "completed", "failed"}]
    /\ log \in [Runs -> Seq(LogEvents)]
    /\ controller \in Runs \cup {None}
    /\ source \in Runs \cup {None}
    /\ claimed \in BOOLEAN
    /\ pub \in Publisher
    /\ target \in {"base", "moved"}
    /\ heads \in [Runs -> {"absent", "candidate", "foreign"}]
    /\ pulls \in [Runs -> Seq(PullStates)]
    /\ posts \in [Runs -> 0..MaxFaults]
    /\ faults \in 0..MaxFaults

Init ==
    /\ status = [r \in Runs |-> "absent"]
    /\ log = [r \in Runs |-> <<>>]
    /\ controller = None /\ source = None /\ claimed = FALSE
    /\ pub = Idle
    /\ target = "base"
    /\ heads = [r \in Runs |-> "absent"]
    /\ pulls = [r \in Runs |-> <<>>]
    /\ posts = [r \in Runs |-> 0]
    /\ faults = 0

Fault == faults < MaxFaults /\ faults' = faults + 1

Has(r, e)     == \E i \in DOMAIN log[r] : log[r][i] = e
Count(r, e)   == Cardinality({i \in DOMAIN log[r] : log[r][i] = e})
Record(r, e)  == log' = [log EXCEPT ![r] = Append(@, e)]

-----------------------------------------------------------------------------
(* The controller of a run, reduced to what it does to /source and to the  *)
(* run's record (modules PodController and PodStore have the rest).        *)

ClaimGitRoot(r) ==
    /\ controller = None /\ status[r] = "absent"
    /\ IF source = None /\ ~claimed
       THEN /\ status' = [status EXCEPT ![r] = "running"]
            /\ controller' = r /\ source' = r /\ claimed' = TRUE
       ELSE /\ status' = [status EXCEPT ![r] = "failed"]
            /\ UNCHANGED <<controller, source, claimed>>
    /\ UNCHANGED <<log, pub, remote, faults>>

PublicationReady(r) ==
    /\ controller = r /\ source = r /\ log[r] = <<>>
    /\ Record(r, "publication.ready")
    /\ UNCHANGED <<status, controller, source, claimed, pub, remote,
                   faults>>

(* finish("failed"), then close without retaining.                         *)
ControllerFails(r) ==
    /\ controller = r /\ log[r] = <<>>
    /\ status' = [status EXCEPT ![r] = "failed"]
    /\ controller' = None
    /\ \/ source' = None /\ claimed' = FALSE /\ UNCHANGED faults
       \/ Fault /\ UNCHANGED <<source, claimed>>
    /\ UNCHANGED <<log, pub, remote>>

(* close({retainForPublication: true}): its failure is swallowed.          *)
CloseRetaining(r) ==
    /\ controller = r /\ log[r] # <<>>
    /\ controller' = None
    /\ \/ claimed' = FALSE /\ UNCHANGED faults
       \/ Fault /\ UNCHANGED claimed
    /\ UNCHANGED <<status, log, source, pub, remote>>

ControllerDies ==
    /\ controller # None /\ Fault
    /\ controller' = None
    /\ UNCHANGED <<status, log, source, claimed, pub, remote>>

-----------------------------------------------------------------------------
(* GitHub and the people who use the repository.                           *)

TargetMoves ==
    /\ target = "base" /\ target' = "moved"
    /\ UNCHANGED <<deployment, pub, heads, pulls, posts, faults>>

(* Somebody's commit on the run's branch, one the candidate is not on.     *)
ForeignPush(r) ==
    /\ heads[r] # "foreign"
    /\ heads' = [heads EXCEPT ![r] = "foreign"]
    /\ UNCHANGED <<deployment, pub, target, pulls, posts, faults>>

PullChanges(r) ==
    /\ \E i \in DOMAIN pulls[r], s \in {"edited", "closed"} :
          /\ pulls[r][i] = "draft"
          /\ pulls' = [pulls EXCEPT ![r][i] = s]
    /\ UNCHANGED <<deployment, pub, target, heads, posts, faults>>

(* GitHub refuses a second open pull request for the same head and base.   *)
Accepts(r) == /\ heads[r] # "absent"
              /\ \A i \in DOMAIN pulls[r] : pulls[r][i] = "closed"

Created(r) ==
    pulls' = [pulls EXCEPT ![r] = Append(@,
                 IF target = "base" /\ heads[r] = "candidate"
                 THEN "draft" ELSE "edited")]

LatePost(r) ==
    /\ posts[r] > 0
    /\ posts' = [posts EXCEPT ![r] = @ - 1]
    /\ IF Accepts(r) THEN Created(r) ELSE UNCHANGED pulls
    /\ UNCHANGED <<deployment, pub, target, heads, faults>>

-----------------------------------------------------------------------------
(* publishRunInternal, one action per await that can be interrupted.       *)

run     == pub.run
At(pc)  == pub.pc = pc
Goto(pc) == pub' = [pub EXCEPT !.pc = pc]
Exit    == pub' = Idle
Enter(r, pc, expected) ==
    pub' = [pc |-> pc, run |-> r, expected |-> expected]

(* openPodRunStore wants run.json and the last event to agree; the log here *)
(* has the run.finished of a completed run only.                           *)
Openable(r) ==
    /\ status[r] # "absent"
    /\ (status[r] = "completed") <=> Has(r, "run.finished")

Replay(r) ==
    /\ status[r] = "completed" /\ Count(r, "publication.finished") = 1
    /\ source # None
    /\ Enter(r, "cleanup", source)

FinishInterrupted(r) ==
    /\ status[r] = "running" /\ Count(r, "publication.finished") = 1
    /\ log[r][Len(log[r])] = "publication.finished"
    /\ Enter(r, "finish", None)

(* The source must be there and hold the candidate's commit.               *)
Publish(r) ==
    /\ status[r] = "running" /\ ~Has(r, "publication.finished")
    /\ source = r
    /\ Enter(r, "remote", source)

Invoke(r) ==
    /\ At("idle") /\ Openable(r) /\ Count(r, "publication.ready") = 1
    /\ Replay(r) \/ FinishInterrupted(r) \/ Publish(r)
    /\ UNCHANGED <<deployment, remote, faults>>

InspectRemote ==
    /\ At("remote")
    /\ \/ /\ target = "base" /\ heads[run] = "absent" /\ Goto("push")
       \/ /\ target = "base" /\ heads[run] = "candidate" /\ Goto("base")
       \/ /\ (target # "base" \/ heads[run] = "foreign") /\ Exit
    /\ UNCHANGED <<deployment, remote, faults>>

(* Mutant: push --force.                                                   *)
ForcePush ==
    /\ At("push")
    /\ heads' = [heads EXCEPT ![run] = "candidate"] /\ Goto("base")
    /\ UNCHANGED <<deployment, target, pulls, posts, faults>>

(* The remote takes only a fast-forward; a push that timed out may have    *)
(* been taken all the same.                                                *)
Push ==
    /\ At("push")
    /\ \/ /\ heads[run] # "foreign"
          /\ heads' = [heads EXCEPT ![run] = "candidate"]
          /\ \/ Goto("base") /\ UNCHANGED faults
             \/ Exit /\ Fault
       \/ heads[run] = "foreign" /\ Exit /\ UNCHANGED <<heads, faults>>
    /\ UNCHANGED <<deployment, target, pulls, posts>>

ReadBase ==
    /\ At("base")
    /\ IF target = "base" THEN Goto("head") ELSE Exit
    /\ UNCHANGED <<deployment, remote, faults>>

ReadHead ==
    /\ At("head")
    /\ IF heads[run] = "candidate" THEN Goto("find") ELSE Exit
    /\ UNCHANGED <<deployment, remote, faults>>

(* Mutant: the query asks for open pull requests only.                     *)
ListedOpen(r) == SelectSeq(pulls[r], LAMBDA s : s # "closed")

(* findExistingPull asks for state=all.                                    *)
Listed(r) == pulls[r]

Matches(r) == heads[r] = "candidate" /\ target = "base"

(* Mutant: a pull request that is already there is a conflict.             *)
ExistingRefused(r) == FALSE

ExistingPull(r) == Listed(r) = <<"draft">> /\ Matches(r)

FindExistingPull ==
    /\ At("find")
    /\ \/ Listed(run) = <<>> /\ Goto("post")
       \/ ExistingPull(run) /\ Goto("record")
       \/ Listed(run) # <<>> /\ ~ExistingPull(run) /\ Exit
    /\ UNCHANGED <<deployment, remote, faults>>

(* The POST creates a pull request or is refused, and the answer comes     *)
(* back; or it does not, and the request was served, lost or still under   *)
(* way.  Anything but a matching pull request goes on to reconciliation.   *)
PostPull ==
    /\ At("post")
    /\ \/ /\ Accepts(run) /\ Created(run)
          /\ \/ Goto(IF Matches(run) THEN "record" ELSE "rebase")
                /\ UNCHANGED faults
             \/ Goto("rebase") /\ Fault
          /\ UNCHANGED posts
       \/ ~Accepts(run) /\ Goto("rebase") /\ UNCHANGED <<pulls, posts, faults>>
       \/ Goto("rebase") /\ Fault /\ UNCHANGED <<pulls, posts>>
       \/ /\ Goto("rebase") /\ Fault /\ UNCHANGED pulls
          /\ posts' = [posts EXCEPT ![run] = @ + 1]
    /\ UNCHANGED <<deployment, target, heads>>

ReconcileBase ==
    /\ At("rebase")
    /\ IF target = "base" THEN Goto("refind") ELSE Exit
    /\ UNCHANGED <<deployment, remote, faults>>

ReconcilePull ==
    /\ At("refind")
    /\ IF ExistingPull(run) THEN Goto("record") ELSE Exit
    /\ UNCHANGED <<deployment, remote, faults>>

(* Mutant: the source goes as soon as the pull request is there.           *)
RecordAfterCleanup ==
    /\ At("record")
    /\ source' = None
    /\ \/ Record(run, "publication.finished") /\ Goto("finish") /\ UNCHANGED faults
       \/ Exit /\ Fault /\ UNCHANGED log
    /\ UNCHANGED <<status, controller, claimed, remote>>

(* appendEvent; when it fails the line may or may not be in the file.      *)
RecordFinished ==
    /\ At("record")
    /\ \/ Record(run, "publication.finished") /\ Goto("finish") /\ UNCHANGED faults
       \/ Record(run, "publication.finished") /\ Exit /\ Fault
       \/ Exit /\ Fault /\ UNCHANGED log
    /\ UNCHANGED <<status, controller, source, claimed, remote>>

(* finish("completed") appends the terminal event ...                      *)
AppendRunFinished ==
    /\ At("finish")
    /\ Record(run, "run.finished") /\ Goto("rename")
    /\ UNCHANGED <<status, controller, source, claimed, remote, faults>>

(* ... and then renames the new run.json into place.                       *)
RenameRecord ==
    /\ At("rename")
    /\ status' = [status EXCEPT ![run] = "completed"] /\ Goto("cleanup")
    /\ UNCHANGED <<log, controller, source, claimed, remote, faults>>

(* Best effort: a failure or a timeout leaves the directory.               *)
CleanupSource ==
    /\ At("cleanup") /\ Exit
    /\ \/ /\ source' = IF pub.expected \in {None, source} THEN None ELSE source
          /\ UNCHANGED faults
       \/ Fault /\ UNCHANGED source
    /\ UNCHANGED <<status, log, controller, claimed, remote>>

(* A call fails or the deadline passes, and publishRun throws; or the      *)
(* container is lost.                                                      *)
PublisherFails ==
    /\ ~At("idle") /\ Fault /\ Exit
    /\ UNCHANGED <<deployment, remote>>

(* `bimo cancel` signals the publisher container, whose process installs   *)
(* no handler: the signal ends it or, sent to the container's first        *)
(* process, is ignored.                                                    *)
CancelPublisher ==
    /\ ~At("idle") /\ Fault
    /\ Exit \/ UNCHANGED pub
    /\ UNCHANGED <<deployment, remote>>

-----------------------------------------------------------------------------
PublisherSteps ==
    \/ InspectRemote \/ Push \/ ReadBase \/ ReadHead \/ FindExistingPull
    \/ PostPull \/ ReconcileBase \/ ReconcilePull \/ RecordFinished
    \/ AppendRunFinished \/ RenameRecord \/ CleanupSource

Next ==
    \/ PublisherSteps \/ PublisherFails \/ CancelPublisher
    \/ ControllerDies \/ TargetMoves
    \/ \E r \in Runs :
          \/ ClaimGitRoot(r) \/ PublicationReady(r) \/ ControllerFails(r)
          \/ CloseRetaining(r) \/ ForeignPush(r) \/ PullChanges(r)
          \/ LatePost(r) \/ Invoke(r)

(* A publisher that can step does, and an operator repeats `bimo publish`  *)
(* until it gets its turn.                                                 *)
Fairness ==
    /\ WF_vars(PublisherSteps)
    /\ \A r \in Runs : SF_vars(Invoke(r) /\ status[r] = "running")

Spec == Init /\ [][Next]_vars /\ Fairness

-----------------------------------------------------------------------------
(* Properties                                                              *)

(* However often publishing was interrupted and resumed, the events of a   *)
(* run are recorded once each and in order, and a run is completed only    *)
(* with all of them and with a pull request (publishRunInternal's three    *)
(* ways in: replay, finish what was recorded, publish).                    *)
CompletedIsEvidenced ==
    \A r \in Runs :
        /\ log[r] = SubSeq(Evidence, 1, Len(log[r]))
        /\ Has(r, "publication.finished") => pulls[r] # <<>>
        /\ status[r] = "completed" => log[r] = Evidence

(* The source of a publication-ready run stays until the publication is    *)
(* durably recorded (cleanupPrivateSourceGitDir runs after finish): without *)
(* it the candidate cannot be pushed by any later publisher.               *)
SourceKeptUntilPublished ==
    \A r \in Runs : log[r] = <<"publication.ready">> => source = r

(* The same but for a completed run: replaying its publication may remove  *)
(* the source of another.                                                  *)
Replayed(r) == source # r /\ \E q \in Runs \ {r} : status[q] = "completed"

SourceKeptButReplay ==
    \A r \in Runs : log[r] = <<"publication.ready">> => source = r \/ Replayed(r)

(* A pull request somebody closed is not replaced by a new one: a resumed  *)
(* publication finds it (findExistingPull) and stops.  A POST sent before  *)
(* the pull request was there is the one exception.                        *)
Rejected(r) ==
    /\ pulls[r] = <<"closed">> /\ posts[r] = 0
    /\ ~(At("post") /\ run = r)

ClosedPullNotReplaced ==
    \A r \in Runs : [](Rejected(r) => [](pulls[r] = <<"closed">>))

(* Publishing never replaces somebody else's commit on the run's branch,   *)
(* not even one that arrives between ls-remote and push.                   *)
ForeignHeadKept ==
    [][\A r \in Runs : heads[r] = "foreign" => heads'[r] = "foreign"]_vars

(* A ready run that is published again and again until it works ends       *)
(* completed, whatever calls failed on the way, unless somebody changed    *)
(* the repository under it, a publisher died inside finish(), or another   *)
(* run's publication was replayed.                                         *)
Blocked(r) ==
    \/ Replayed(r)
    \/ target # "base" \/ heads[r] = "foreign"
    \/ pulls[r] \notin {<<>>, <<"draft">>}
    \/ (At("idle") /\ ~Openable(r))

EventuallyPublished ==
    \A r \in Runs : Has(r, "publication.ready")
                       ~> (status[r] = "completed" \/ Blocked(r))

(* The record of a run goes through these stages: events are appended once *)
(* and in order, run.json follows run.finished, and the publication is     *)
(* recorded only over a pull request.                                      *)
Nothing  == <<>>
Ready    == <<"publication.ready">>
Recorded == <<"publication.ready", "publication.finished">>

Staged(r) ==
    /\ log[r] \in {Nothing, Ready, Recorded, Evidence}
    /\ log[r] \in {Recorded, Evidence} => pulls[r] # <<>>
    /\ status[r] \in {"absent", "failed"} => log[r] = Nothing
    /\ status[r] = "completed" => log[r] = Evidence

(* What the live publisher has read and not read again still holds: it     *)
(* works on a ready run from "remote" to "record", and each later step     *)
(* finds the record where the step before it left it.                      *)
Publishing == Pcs \ {"idle", "finish", "rename", "cleanup"}

PublisherInStep ==
    /\ At("idle") => pub = Idle
    /\ ~At("idle") => run \in Runs
    /\ pub.pc \in Publishing => status[run] = "running" /\ log[run] = Ready
    /\ At("record") => pulls[run] # <<>>
    /\ At("finish") => status[run] = "running" /\ log[run] = Recorded
    /\ At("rename") => status[run] = "running" /\ log[run] = Evidence
    /\ At("cleanup") => status[run] = "completed"

(* While a controller is up its run is active, unless it is published      *)
(* already, and /source is the controller's or empty.                      *)
SourceClaimed ==
    controller # None => /\ status[controller] \in {"running", "completed"}
                         /\ claimed /\ source \in {controller, None}

PublicationInv ==
    /\ TypeOK
    /\ \A r \in Runs : Staged(r) /\ posts[r] <= faults
    /\ PublisherInStep /\ SourceClaimed /\ SourceKeptButReplay

(* Both at once: the evidence of a run is in order, and its source waits   *)
(* until it is published, but for a replay; with the invariant that these  *)
(* claims rest on.                                                         *)
PublicationSafety ==
    /\ TypeOK /\ CompletedIsEvidenced /\ SourceKeptButReplay
    /\ PublicationInv
=============================================================================
