--------------------------- MODULE GitIntegration ---------------------------
(***************************************************************************)
(* The commits the controller makes of the writers' work (createWorktree,  *)
(* validateAndCommit, combineBase, integrate and scan of                   *)
(* src/git-runtime.mjs).                                                   *)
(*                                                                         *)
(* A tree is a function from paths to contents and a commit is a tree with *)
(* its parents, who made it and when (the attempt); it is its own SHA.     *)
(* Every path belongs to the scope of one writer slot or of none.  A       *)
(* writer, or a process it has left behind with a file open, may write to  *)
(* the paths of its slot at any time: freezing the worktree takes away     *)
(* permissions, not open files.  Worktrees without a writer are changed by *)
(* the controller alone, so the commands on them are one step.             *)
(***************************************************************************)
EXTENDS Integers, Sequences, FiniteSets, Functions

CONSTANTS
    Paths,
    Scope,         \* slot -> the paths it may write
    Contents,      \* what a path may hold
    Old,           \* what every path holds in the base
    Secret,        \* contents the scan refuses
    MaxFiles,      \* changes.maxFiles of the pod
    MaxAttempts,   \* bound: attempts
    MaxWrites      \* bound: writes by the writers, all together

Slots == {"engineering-a", "engineering-b", "qa-tests"}
FixedIntegrationOrder == <<"engineering-a", "engineering-b", "qa-tests">>

ASSUME GitAssumption ==
    /\ Scope \in [Slots -> SUBSET Paths]
    /\ \A s, t \in Slots : s # t => Scope[s] \cap Scope[t] = {}
    /\ Old \in Contents /\ Secret \subseteq Contents \ {Old}
    /\ {MaxFiles, MaxWrites} \subseteq Nat /\ MaxAttempts \in Nat \ {0}

VARIABLES
    attempt,
    worktrees,    \* for each slot the worktree of this attempt
    results,      \* resultRecords
    candidates,   \* the candidate of each attempt that has one
    branch,       \* refs/heads/<branch>, 0 if there is none
    branchHead,   \* what branchHeads has for it
    scanned,      \* candidates that passed the scan
    writes

vars == <<attempt, worktrees, results, candidates, branch,
          branchHead, scanned, writes>>

Trees == [Paths -> Contents]
CommitOf(by, time, tree, parents) ==
    [by |-> by, time |-> time, tree |-> tree, parents |-> parents]
Base == CommitOf("base", 0, [p \in Paths |-> Old], <<>>)
None == CommitOf("none", 0, [p \in Paths |-> Old], <<>>)
IsCommit(c) == c.tree \in Trees /\ c.time \in 0..MaxAttempts
Differ(t, u) == {p \in Paths : t[p] # u[p]}

(* No worktree, or one: its kind, HEAD, index and files, where the commit  *)
(* of it has got to, and what the inspection saw.                          *)
NoWorktree == [kind |-> "none"]
Worktree(kind, head) ==
    [kind |-> kind, head |-> head, index |-> head.tree, files |-> head.tree,
     step |-> "idle", seen |-> head.tree]
IsWorktree(w) ==
    /\ w = [kind |-> w.kind, head |-> w.head, index |-> w.index,
            files |-> w.files, step |-> w.step, seen |-> w.seen]
    /\ w.kind \in {"writer", "combined"}
    /\ w.step \in {"idle", "inspected", "staged", "committed"}
    /\ IsCommit(w.head) /\ {w.index, w.files, w.seen} \subseteq Trees

TypeOK ==
    /\ attempt \in 1..MaxAttempts
    /\ worktrees = [s \in Slots |-> worktrees[s]]
    /\ \A s \in Slots : worktrees[s] # NoWorktree => IsWorktree(worktrees[s])
    /\ \A r \in results :
         /\ r.attempt \in 1..MaxAttempts /\ r.slot \in Slots
         /\ r.seen \in Trees /\ IsCommit(r.sha) /\ IsCommit(r.directBase)
    /\ candidates = [n \in 1..MaxAttempts |-> candidates[n]]
    /\ \A n \in 1..MaxAttempts : IsCommit(candidates[n])
    /\ {branch, branchHead} \subseteq Range(candidates) \cup {None}
    /\ scanned \subseteq Range(candidates) \ {None} /\ writes \in 0..MaxWrites

(* prepareAssignment has cloned the repository.                            *)
Init ==
    /\ attempt = 1
    /\ worktrees = [s \in Slots |-> NoWorktree]
    /\ results = {}
    /\ candidates = [n \in 1..MaxAttempts |-> None]
    /\ branch = None /\ branchHead = None
    /\ scanned = {} /\ writes = 0

-----------------------------------------------------------------------------
(* The writers.                                                            *)

CreateWorktree(s) ==
    /\ worktrees[s] = NoWorktree
    /\ worktrees' = [worktrees EXCEPT ![s] = Worktree("writer", Base)]
    /\ UNCHANGED <<attempt, results, candidates, branch, branchHead,
                   scanned, writes>>

Write(s) ==
    /\ worktrees[s] # NoWorktree /\ writes < MaxWrites
    /\ writes' = writes + 1
    /\ \E p \in Scope[s], c \in Contents :
         /\ c # worktrees[s].files[p]
         /\ worktrees' = [worktrees EXCEPT ![s].files[p] = c]
    /\ UNCHANGED <<attempt, results, candidates, branch, branchHead,
                   scanned>>

(* An attempt that fails, for whatever reason, is followed by another.     *)
NextAttempt ==
    /\ attempt < MaxAttempts
    /\ attempt' = attempt + 1
    /\ worktrees' = [s \in Slots |-> NoWorktree]
    /\ UNCHANGED <<results, candidates, branch, branchHead, scanned,
                   writes>>

-----------------------------------------------------------------------------
(* validateAndCommit: freeze and inspect, add, compare and commit, check   *)
(* that nothing is left and record the result.  A step whose check fails   *)
(* fails the attempt.                                                      *)

Changes(w) == Differ(w.files, w.head.tree)

Inspect(s) ==
    LET w == worktrees[s] IN
    /\ w # NoWorktree /\ w.step = "idle"
    /\ Changes(w) # {} /\ Changes(w) \subseteq Scope[s]
    /\ Cardinality(Changes(w)) <= MaxFiles
    /\ worktrees' = [worktrees EXCEPT ![s].step = "inspected",
                                      ![s].seen = w.files]
    /\ UNCHANGED <<attempt, results, candidates, branch, branchHead,
                   scanned, writes>>

Add(s) ==
    LET w == worktrees[s] IN
    /\ w # NoWorktree /\ w.step = "inspected"
    /\ worktrees' = [worktrees EXCEPT ![s].step = "staged",
         ![s].index = [p \in Paths |-> IF p \in Scope[s] THEN w.files[p]
                                                         ELSE w.index[p]]]
    /\ UNCHANGED <<attempt, results, candidates, branch, branchHead,
                   scanned, writes>>

(* inspectIndex, the comparison and commitStaged.                          *)
Commit(s) ==
    LET w == worktrees[s] IN
    /\ w # NoWorktree /\ w.step = "staged"
    /\ w.index = w.seen
    /\ worktrees' = [worktrees EXCEPT ![s].step = "committed",
         ![s].head = CommitOf(s, attempt, w.index, <<w.head>>)]
    /\ UNCHANGED <<attempt, results, candidates, branch, branchHead, scanned,
                   writes>>

Record(s) ==
    LET w == worktrees[s] IN
    /\ w # NoWorktree /\ w.step = "committed"
    /\ Changes(w) = {}
    /\ worktrees' = [worktrees EXCEPT ![s].step = "idle"]
    /\ results' = results \cup
         {[attempt |-> attempt, slot |-> s, seen |-> w.files, sha |-> w.head,
           directBase |-> w.head.parents[1]]}
    /\ UNCHANGED <<attempt, candidates, branch, branchHead, scanned,
                   writes>>

-----------------------------------------------------------------------------
(* Mutant: the patch is taken against the commit the writer started from.  *)
PatchOfLast(r) ==
    [p \in Differ(r.sha.tree, r.directBase.tree) \cap Scope[r.slot]
        |-> r.sha.tree[p]]

(* cumulativePatch: what a result changes of the run's base in its scope.  *)
CumulativePatch(r) ==
    [p \in Differ(r.sha.tree, Base.tree) \cap Scope[r.slot] |-> r.sha.tree[p]]

Apply(patch, tree) ==
    [p \in Paths |-> IF p \in DOMAIN patch THEN patch[p] ELSE tree[p]]

(* combineBase: the requester resumes on the base with the dependency's    *)
(* and then its own work so far.                                           *)
CombineBase ==
    \E requester, dependency \in results :
        /\ {requester.attempt, dependency.attempt} = {attempt}
        /\ requester.slot = "engineering-a" /\ dependency.slot = "engineering-b"
        /\ worktrees["engineering-a"] # NoWorktree
        /\ worktrees["engineering-a"].kind = "writer"
        /\ worktrees["engineering-a"].step = "idle"
        /\ LET ours == CumulativePatch(requester)
               theirs == CumulativePatch(dependency)
               first == CommitOf("dependency", attempt,
                          Apply(theirs, Base.tree), <<Base>>)
               second == CommitOf("requester", attempt,
                           Apply(ours, first.tree), <<first>>)
           IN  /\ DOMAIN ours # {} /\ DOMAIN theirs # {}
               /\ worktrees' = [worktrees EXCEPT !["engineering-a"] =
                                   Worktree("combined", second)]
        /\ UNCHANGED <<attempt, results, candidates, branch, branchHead,
                       scanned, writes>>

(* The accepted commits: one result of each slot, all of this attempt.     *)
Acceptable(r) == r.attempt = attempt

(* integrate: the candidate is the base with the three patches, in the     *)
(* fixed order; its parents are the accepted commits.                      *)
Integrated(accepted) ==
    LET patch(i) == CumulativePatch(accepted[i])
    IN  CommitOf("integration", attempt,
            Apply(patch(3), Apply(patch(2), Apply(patch(1), Base.tree))),
            [i \in 1..3 |-> accepted[i].sha])

(* The candidate changes the base, in each scope, as the result does.      *)
Preserves(candidate, accepted) ==
    \A i \in 1..3 :
        CumulativePatch(accepted[i]) =
            [p \in Differ(candidate.tree, Base.tree) \cap Scope[accepted[i].slot]
                |-> candidate.tree[p]]

Integrate ==
    /\ candidates[attempt] = None
    /\ \E accepted \in [1..3 -> {r \in results : Acceptable(r)}] :
        /\ \A i \in 1..3 : accepted[i].slot = FixedIntegrationOrder[i]
        /\ \A i \in 1..3 : DOMAIN CumulativePatch(accepted[i]) # {}
        /\ \A i, j \in 1..3 : i # j => DOMAIN CumulativePatch(accepted[i])
                 \cap DOMAIN CumulativePatch(accepted[j]) = {}
        /\ Preserves(Integrated(accepted), accepted)
        /\ candidates' = [candidates EXCEPT ![attempt] = Integrated(accepted)]
    /\ UNCHANGED <<attempt, worktrees, results, branch, branchHead, scanned,
                   writes>>

(* The branch is moved from the head this runtime gave it, and from no     *)
(* other; if the command fails it may have been moved all the same.        *)
UpdateRef ==
    /\ candidates[attempt] \notin {None, branch, branchHead}
    /\ branch = branchHead
    /\ branch' = candidates[attempt]
    /\ branchHead' \in {branchHead, branch'}
    /\ UNCHANGED <<attempt, worktrees, results, candidates, scanned,
                   writes>>

(* The commits a commit is made of, without those of the base.  No chain   *)
(* is longer than base, dependency, requester, the commits of a writer and *)
(* the candidate.                                                          *)
Parents(c) == {c.parents[i] : i \in DOMAIN c.parents}
Reachable(sha) ==
    LET grow[n \in 0..MaxWrites + 4] ==
          IF n = 0 THEN {sha}
          ELSE grow[n - 1] \cup UNION {Parents(c) : c \in grow[n - 1]}
    IN  grow[MaxWrites + 4] \ {Base}

HasSecret(c) == \E p \in Paths : c.tree[p] \in Secret

(* scanReachableHistory: no commit on the way has a secret.                *)
CleanHistory(sha) == \A c \in Reachable(sha) : ~HasSecret(c)

Scan ==
    /\ branchHead # None /\ branchHead \notin scanned
    /\ CleanHistory(branchHead)
    /\ scanned' = scanned \cup {branchHead}
    /\ UNCHANGED <<attempt, worktrees, results, candidates, branch,
                   branchHead, writes>>

Next ==
    \/ \E s \in Slots : CreateWorktree(s) \/ Write(s) \/ Inspect(s) \/ Add(s)
                          \/ Commit(s) \/ Record(s)
    \/ NextAttempt \/ CombineBase \/ Integrate \/ UpdateRef \/ Scan

Spec == Init /\ [][Next]_vars

-----------------------------------------------------------------------------
(* The candidate is, path by path, the accepted result of the path's       *)
(* writer, and the base where nobody writes, also when a writer has made   *)
(* several commits or was resumed on a combined base: no work is lost and  *)
(* none gets in by another way.                                            *)
CandidateIsAccepted ==
    \A n \in 1..MaxAttempts : candidates[n] # None =>
        LET c == candidates[n] IN
        \A p \in Paths :
            c.tree[p] = IF \E i \in 1..3 : p \in Scope[FixedIntegrationOrder[i]]
                        THEN LET i == CHOOSE i \in 1..3 :
                                        p \in Scope[FixedIntegrationOrder[i]]
                             IN  c.parents[i].tree[p]
                        ELSE Old

(* A candidate is made of work of its own attempt only: "Any writer,       *)
(* checker, integration, QA, Testing, or verification failure discards the *)
(* attempt" (README.md).                                                   *)
AttemptsKeptApart ==
    \A n \in 1..MaxAttempts : candidates[n] # None =>
        \A i \in 1..3 : \E r \in results :
            /\ r.sha = candidates[n].parents[i]
            /\ r.attempt = n /\ r.slot = FixedIntegrationOrder[i]

(* What a result commits is what was inspected, although a process left    *)
(* behind may write between inspection, staging and commit, and its writer *)
(* goes on from exactly that.                                              *)
ResultIsInspected ==
    /\ \A s \in Slots : LET w == worktrees[s] IN
         w # NoWorktree => (w.step = "committed" => w.head.tree = w.seen)
    /\ \A r \in results : r.sha.tree = r.seen

(* A result changes its base within its own slot's scope and the file      *)
(* limit, and nothing that any other slot has.                             *)
InLimits(s, tree, base) ==
    /\ Differ(tree, base) \subseteq Scope[s]
    /\ Cardinality(Differ(tree, base)) <= MaxFiles
ResultInScope ==
    \A r \in results : InLimits(r.slot, r.sha.tree, r.directBase.tree)

(* Why: until the commit, what was inspected is within the limits of the   *)
(* slot; after it, HEAD is what was inspected on top of the old HEAD.      *)
InStep(s, w) ==
    /\ w.step \in {"inspected", "staged"} => InLimits(s, w.seen, w.head.tree)
    /\ w.step = "committed" =>
         /\ w.head.tree = w.seen /\ IsCommit(w.head.parents[1])
         /\ InLimits(s, w.head.tree, w.head.parents[1].tree)
WorkInStep ==
    \A s \in Slots : worktrees[s] # NoWorktree => InStep(s, worktrees[s])

(* A candidate that passed the scan has no secret in any commit that would *)
(* be published with it, a checkpoint that was corrected later included.   *)
ScanCoversHistory ==
    \A sha \in scanned : \A c \in Reachable(sha) : ~HasSecret(c)

(* All of these at once: what becomes of the work of the writers on its    *)
(* way into a candidate.                                                   *)
IntegrationSafety ==
    /\ TypeOK /\ CandidateIsAccepted /\ AttemptsKeptApart
    /\ ResultIsInspected /\ ResultInScope /\ WorkInStep /\ ScanCoversHistory
=============================================================================
