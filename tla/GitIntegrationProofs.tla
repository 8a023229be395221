------------------------ MODULE GitIntegrationProofs ------------------------
(***************************************************************************)
(* What holds of the commits and the candidates of the controller for any  *)
(* set of paths and contents, any disjoint scopes and any number of        *)
(* attempts and writes.                                                    *)
(***************************************************************************)
EXTENDS GitIntegration, TLAPS

(* The commits that are made are commits.                                  *)
LEMMA BaseIsCommit ==
    /\ Base.tree = [p \in Paths |-> Old] /\ Base.tree \in Trees
    /\ IsCommit(Base) /\ IsCommit(None)
BY GitAssumption DEF Base, None, CommitOf, IsCommit, Trees

LEMMA CommitFields ==
    ASSUME NEW by, NEW time \in 0..MaxAttempts, NEW tree \in Trees, NEW parents,
           NEW c, c = CommitOf(by, time, tree, parents)
    PROVE  c.tree = tree /\ c.parents = parents /\ IsCommit(c)
BY DEF CommitOf, IsCommit

LEMMA FreshWorktree ==
    ASSUME NEW kind \in {"writer", "combined"}, NEW c, IsCommit(c),
           NEW w, w = Worktree(kind, c)
    PROVE  IsWorktree(w) /\ w.step = "idle"
BY DEF Worktree, IsWorktree, IsCommit

(* A patch is of paths of the slot, and applied to a tree it makes a tree. *)
LEMMA PatchFacts ==
    ASSUME NEW r, r.sha.tree \in Trees, r.slot \in Slots
    PROVE  LET patch == CumulativePatch(r)
           IN  /\ DOMAIN patch = {p \in Scope[r.slot] : r.sha.tree[p] # Old}
               /\ \A p \in DOMAIN patch : patch[p] = r.sha.tree[p]
               /\ \A tree \in Trees : Apply(patch, tree) \in Trees
<1>1. Scope[r.slot] \subseteq Paths
  BY GitAssumption
<1> QED
  BY <1>1, BaseIsCommit DEF CumulativePatch, Differ, Apply, Trees

-----------------------------------------------------------------------------
(* A step in one worktree.                                                 *)
LEMMA WorktreeStep ==
    ASSUME IntegrationSafety, NEW s \in Slots, NEW w, IsWorktree(w), InStep(s, w),
           worktrees' = [worktrees EXCEPT ![s] = w], writes' \in 0..MaxWrites,
           UNCHANGED <<attempt, results, candidates, branch, branchHead, scanned>>
    PROVE  IntegrationSafety'
<1>0. /\ TypeOK /\ WorkInStep /\ ResultIsInspected /\ ResultInScope
      /\ CandidateIsAccepted /\ AttemptsKeptApart /\ ScanCoversHistory
  BY DEF IntegrationSafety
<1>1. /\ worktrees' = [t \in Slots |-> worktrees'[t]]
      /\ worktrees'[s] = w /\ \A t \in Slots : t # s => worktrees'[t] = worktrees[t]
  BY <1>0 DEF TypeOK
<1>2. TypeOK'
  <2>1. \A t \in Slots : worktrees'[t] # NoWorktree => IsWorktree(worktrees'[t])
    BY <1>0, <1>1 DEF TypeOK
  <2> QED
    BY <1>0, <1>1, <2>1 DEF TypeOK
<1>3. WorkInStep'
  <2>1. \A t \in Slots : worktrees'[t] # NoWorktree => InStep(t, worktrees'[t])
    BY <1>0, <1>1 DEF WorkInStep
  <2> QED
    BY <2>1 DEF WorkInStep
<1>4. ResultIsInspected'
  BY SMTT(30), <1>0, <1>1 DEF ResultIsInspected, InStep
<1>5. (ResultInScope /\ CandidateIsAccepted /\ AttemptsKeptApart /\ ScanCoversHistory)'
  BY <1>0 DEF ResultInScope, CandidateIsAccepted, AttemptsKeptApart, ScanCoversHistory
<1> QED
  BY <1>2, <1>3, <1>4, <1>5 DEF IntegrationSafety

LEMMA CreateStep ==
    ASSUME IntegrationSafety, NEW s \in Slots, CreateWorktree(s)
    PROVE  IntegrationSafety'
<1> DEFINE w == Worktree("writer", Base)
<1>1. IsWorktree(w) /\ w.step = "idle"
  BY BaseIsCommit, FreshWorktree
<1>2. InStep(s, w)
  BY <1>1 DEF InStep
<1>3. /\ worktrees' = [worktrees EXCEPT ![s] = w] /\ writes' \in 0..MaxWrites
      /\ UNCHANGED <<attempt, results, candidates, branch, branchHead, scanned>>
  BY DEF CreateWorktree, IntegrationSafety, TypeOK
<1> HIDE DEF w
<1> QED
  BY Zenon, <1>1, <1>2, <1>3, WorktreeStep

(* What a slot's worktree is, when it has one.                             *)
LEMMA OwnWorktree ==
    ASSUME IntegrationSafety, NEW s \in Slots, worktrees[s] # NoWorktree
    PROVE  /\ IsWorktree(worktrees[s]) /\ InStep(s, worktrees[s])
           /\ worktrees = [t \in Slots |-> worktrees[t]]
BY DEF IntegrationSafety, TypeOK, WorkInStep

LEMMA WriteStep ==
    ASSUME IntegrationSafety, NEW s \in Slots, Write(s)
    PROVE  IntegrationSafety'
<1>1. PICK p \in Scope[s], c \in Contents :
            worktrees' = [worktrees EXCEPT ![s].files[p] = c]
  BY Zenon DEF Write
<1>2. /\ worktrees[s] # NoWorktree /\ p \in Paths
      /\ UNCHANGED <<attempt, results, candidates, branch, branchHead, scanned>>
  BY GitAssumption DEF Write
<1>3. writes' \in 0..MaxWrites
  BY GitAssumption DEF Write, IntegrationSafety, TypeOK
<1>4. PICK w : w = worktrees'[s]
  OBVIOUS
<1>5. IsWorktree(worktrees[s]) /\ InStep(s, worktrees[s])
      /\ worktrees = [t \in Slots |-> worktrees[t]]
  BY <1>2, OwnWorktree
<1>6. worktrees' = [worktrees EXCEPT ![s] = w]
  BY <1>1, <1>4, <1>5
<1>7. /\ w = [kind |-> w.kind, head |-> w.head, index |-> w.index,
              files |-> w.files, step |-> w.step, seen |-> w.seen]
      /\ w.kind = worktrees[s].kind /\ w.head = worktrees[s].head
      /\ w.index = worktrees[s].index /\ w.step = worktrees[s].step
      /\ w.seen = worktrees[s].seen /\ w.files \in Trees
  BY <1>1, <1>2, <1>4, <1>5 DEF IsWorktree, Trees
<1>8. IsWorktree(w)
  BY <1>5, <1>7 DEF IsWorktree
<1>9. InStep(s, w)
  BY <1>5, <1>7 DEF InStep
<1> QED
  BY Zenon, <1>2, <1>3, <1>6, <1>8, <1>9, WorktreeStep

LEMMA InspectStep ==
    ASSUME IntegrationSafety, NEW s \in Slots, Inspect(s)
    PROVE  IntegrationSafety'
<1>1. /\ worktrees[s] # NoWorktree /\ writes' \in 0..MaxWrites
      /\ UNCHANGED <<attempt, results, candidates, branch, branchHead, scanned>>
  BY DEF Inspect, IntegrationSafety, TypeOK
<1>2. /\ IsWorktree(worktrees[s]) /\ InStep(s, worktrees[s])
      /\ worktrees = [t \in Slots |-> worktrees[t]]
  BY <1>1, OwnWorktree
<1>3. PICK w : w = worktrees'[s]
  OBVIOUS
<1>4. /\ worktrees' = [worktrees EXCEPT ![s] = w]
      /\ w = [kind |-> w.kind, head |-> w.head, index |-> w.index,
              files |-> w.files, step |-> w.step, seen |-> w.seen]
      /\ w.kind = worktrees[s].kind /\ w.files = worktrees[s].files
      /\ w.head = worktrees[s].head /\ w.index = worktrees[s].index
      /\ w.step = "inspected" /\ w.seen = worktrees[s].files
  BY Zenon, <1>2, <1>3 DEF Inspect, IsWorktree
<1>5. InLimits(s, w.seen, w.head.tree)
  BY <1>4 DEF Inspect, Changes, InLimits
<1>6. IsWorktree(w)
  BY <1>2, <1>4, <1>5 DEF IsWorktree, Trees
<1>7. InStep(s, w)
  BY <1>4, <1>5 DEF InStep
<1> QED
  BY Zenon, <1>1, <1>4, <1>6, <1>7, WorktreeStep

LEMMA AddStep ==
    ASSUME IntegrationSafety, NEW s \in Slots, Add(s)
    PROVE  IntegrationSafety'
<1>1. /\ worktrees[s] # NoWorktree /\ writes' \in 0..MaxWrites
      /\ UNCHANGED <<attempt, results, candidates, branch, branchHead, scanned>>
  BY Zenon DEF Add, IntegrationSafety, TypeOK
<1>2. /\ IsWorktree(worktrees[s]) /\ InStep(s, worktrees[s])
      /\ worktrees = [t \in Slots |-> worktrees[t]]
  BY <1>1, OwnWorktree
<1>3. PICK w : w = worktrees'[s]
  OBVIOUS
<1>4. /\ worktrees' = [worktrees EXCEPT ![s] = w]
      /\ w = [kind |-> w.kind, head |-> w.head, index |-> w.index,
              files |-> w.files, step |-> w.step, seen |-> w.seen]
      /\ w.kind = worktrees[s].kind /\ w.files = worktrees[s].files
      /\ w.head = worktrees[s].head /\ w.seen = worktrees[s].seen
      /\ w.step = "staged"
      /\ w.index = [p \in Paths |-> IF p \in Scope[s] THEN worktrees[s].files[p]
                                                      ELSE worktrees[s].index[p]]
  BY ZenonT(30), <1>2, <1>3 DEF Add, IsWorktree
<1>5. InLimits(s, w.seen, w.head.tree)
  BY Zenon, <1>2, <1>4 DEF Add, InStep
<1>6. IsWorktree(w)
  BY <1>2, <1>4, <1>5 DEF IsWorktree, Trees
<1>7. InStep(s, w)
  BY <1>4, <1>5 DEF InStep
<1> QED
  BY ZenonT(30), <1>1, <1>4, <1>6, <1>7, WorktreeStep

LEMMA CommitStep ==
    ASSUME IntegrationSafety, NEW s \in Slots, Commit(s)
    PROVE  IntegrationSafety'
<1>1. /\ worktrees[s] # NoWorktree /\ writes' \in 0..MaxWrites
      /\ UNCHANGED <<attempt, results, candidates, branch, branchHead, scanned>>
  BY DEF Commit, IntegrationSafety, TypeOK
<1>2. /\ IsWorktree(worktrees[s]) /\ InStep(s, worktrees[s])
      /\ worktrees = [t \in Slots |-> worktrees[t]]
  BY <1>1, OwnWorktree
<1>3. PICK w : w = worktrees'[s]
  OBVIOUS
<1>4. /\ worktrees' = [worktrees EXCEPT ![s] = w]
      /\ w = [kind |-> w.kind, head |-> w.head, index |-> w.index,
              files |-> w.files, step |-> w.step, seen |-> w.seen]
      /\ w.kind = worktrees[s].kind /\ w.files = worktrees[s].files
      /\ w.index = worktrees[s].index /\ w.seen = worktrees[s].seen
      /\ w.index = w.seen /\ w.step = "committed"
      /\ w.head = CommitOf(s, attempt, w.index, <<worktrees[s].head>>)
  BY Zenon, <1>2, <1>3 DEF Commit, IsWorktree
<1>5. /\ w.head.tree = w.index /\ w.head.parents = <<worktrees[s].head>>
      /\ IsCommit(w.head)
  <2>1. attempt \in 0..MaxAttempts /\ w.index \in Trees
    BY <1>2, <1>4, GitAssumption DEF IntegrationSafety, TypeOK, IsWorktree
  <2> QED
    BY <1>4, <2>1, CommitFields
<1>6. IsWorktree(w)
  BY <1>2, <1>4, <1>5 DEF IsWorktree, Trees
<1>7. InStep(s, w)
  <2>1. w.head.parents[1] = worktrees[s].head /\ IsCommit(worktrees[s].head)
    BY <1>2, <1>5 DEF IsWorktree
  <2>2. InLimits(s, w.seen, worktrees[s].head.tree)
    BY <1>2, <1>4 DEF Commit, InStep
  <2> QED
    BY <1>4, <1>5, <2>1, <2>2 DEF InStep
<1> QED
  BY Zenon, <1>1, <1>4, <1>6, <1>7, WorktreeStep

LEMMA RecordStep ==
    ASSUME IntegrationSafety, NEW s \in Slots, Record(s)
    PROVE  IntegrationSafety'
<1>0. /\ TypeOK /\ WorkInStep /\ ResultIsInspected /\ ResultInScope
      /\ CandidateIsAccepted /\ AttemptsKeptApart /\ ScanCoversHistory
  BY DEF IntegrationSafety
<1>1. /\ worktrees[s] # NoWorktree /\ worktrees[s].step = "committed"
      /\ UNCHANGED <<attempt, candidates, branch, branchHead, scanned, writes>>
  BY DEF Record
<1>2. /\ IsWorktree(worktrees[s]) /\ InStep(s, worktrees[s])
      /\ worktrees = [t \in Slots |-> worktrees[t]]
  BY <1>1, OwnWorktree
<1>3. PICK w : w = worktrees'[s]
  OBVIOUS
<1>4. /\ worktrees' = [worktrees EXCEPT ![s] = w]
      /\ w = [kind |-> w.kind, head |-> w.head, index |-> w.index,
              files |-> w.files, step |-> w.step, seen |-> w.seen]
      /\ w.kind = worktrees[s].kind /\ w.files = worktrees[s].files
      /\ w.head = worktrees[s].head /\ w.index = worktrees[s].index
      /\ w.seen = worktrees[s].seen /\ w.step = "idle"
  BY <1>2, <1>3 DEF Record, IsWorktree
<1>5. IsWorktree(w) /\ InStep(s, w)
  BY <1>2, <1>4 DEF IsWorktree, InStep
<1>6. PICK r : /\ results' = results \cup {r}
               /\ r = [attempt |-> attempt, slot |-> s, seen |-> worktrees[s].files,
                       sha |-> worktrees[s].head,
                       directBase |-> worktrees[s].head.parents[1]]
  BY Zenon DEF Record
<1>7. worktrees[s].files = worktrees[s].head.tree
  <2>1. worktrees[s].files \in Trees /\ worktrees[s].head.tree \in Trees
    BY <1>2 DEF IsWorktree, IsCommit
  <2>2. Differ(worktrees[s].files, worktrees[s].head.tree) = {}
    BY DEF Record, Changes
  <2> QED
    BY <2>1, <2>2 DEF Differ, Trees
<1>8. /\ r.attempt \in 1..MaxAttempts /\ r.slot \in Slots /\ r.seen \in Trees
      /\ IsCommit(r.sha) /\ IsCommit(r.directBase) /\ r.sha.tree = r.seen
      /\ InLimits(r.slot, r.sha.tree, r.directBase.tree)
  BY <1>0, <1>1, <1>2, <1>6, <1>7 DEF TypeOK, IsWorktree, InStep
<1>9. /\ worktrees' = [t \in Slots |-> worktrees'[t]]
      /\ worktrees'[s] = w /\ \A t \in Slots : t # s => worktrees'[t] = worktrees[t]
  BY <1>2, <1>4
<1>10. TypeOK'
  <2>1. \A t \in Slots : worktrees'[t] # NoWorktree => IsWorktree(worktrees'[t])
    BY <1>0, <1>5, <1>9 DEF TypeOK
  <2> QED
    BY <1>0, <1>1, <1>6, <1>8, <1>9, <2>1 DEF TypeOK
<1>11. WorkInStep'
  <2>1. \A t \in Slots : worktrees'[t] # NoWorktree => InStep(t, worktrees'[t])
    BY SMTT(30), <1>0, <1>5, <1>9 DEF WorkInStep
  <2> QED
    BY <2>1 DEF WorkInStep
<1>12. ResultIsInspected' /\ ResultInScope'
  BY SMTT(30), <1>0, <1>4, <1>6, <1>8, <1>9 DEF ResultIsInspected, ResultInScope
<1>13. (CandidateIsAccepted /\ AttemptsKeptApart /\ ScanCoversHistory)'
  BY <1>0, <1>1, <1>6 DEF CandidateIsAccepted, AttemptsKeptApart, ScanCoversHistory
<1> QED
  BY <1>10, <1>11, <1>12, <1>13 DEF IntegrationSafety

LEMMA NextAttemptStep ==
    ASSUME IntegrationSafety, NextAttempt
    PROVE  IntegrationSafety'
<1>0. /\ TypeOK /\ ResultIsInspected /\ ResultInScope
      /\ CandidateIsAccepted /\ AttemptsKeptApart /\ ScanCoversHistory
  BY DEF IntegrationSafety
<1>1. attempt' \in 1..MaxAttempts
  BY <1>0, GitAssumption DEF NextAttempt, TypeOK
<1>2. TypeOK'
  BY <1>0, <1>1 DEF NextAttempt, TypeOK
<1>3. WorkInStep' /\ ResultIsInspected'
  BY <1>0 DEF NextAttempt, WorkInStep, ResultIsInspected
<1>4. (ResultInScope /\ CandidateIsAccepted /\ AttemptsKeptApart /\ ScanCoversHistory)'
  BY <1>0 DEF NextAttempt, ResultInScope, CandidateIsAccepted, AttemptsKeptApart,
              ScanCoversHistory
<1> QED
  BY <1>2, <1>3, <1>4 DEF IntegrationSafety

(* A combined base is a commit on the base like any other.                 *)
LEMMA CombineStep ==
    ASSUME IntegrationSafety, CombineBase
    PROVE  IntegrationSafety'
<1>1. PICK requester \in results, dependency \in results :
        LET ours == CumulativePatch(requester)
            theirs == CumulativePatch(dependency)
            first == CommitOf("dependency", attempt,
                       Apply(theirs, Base.tree), <<Base>>)
            second == CommitOf("requester", attempt,
                        Apply(ours, first.tree), <<first>>)
        IN  /\ worktrees' = [worktrees EXCEPT !["engineering-a"] =
                                Worktree("combined", second)]
            /\ UNCHANGED <<attempt, results, candidates, branch, branchHead,
                           scanned, writes>>
  BY Zenon DEF CombineBase
<1> DEFINE first == CommitOf("dependency", attempt,
                      Apply(CumulativePatch(dependency), Base.tree), <<Base>>)
           second == CommitOf("requester", attempt,
                       Apply(CumulativePatch(requester), first.tree), <<first>>)
           w == Worktree("combined", second)
<1>2. /\ attempt \in 0..MaxAttempts /\ writes' \in 0..MaxWrites
      /\ requester.sha.tree \in Trees /\ requester.slot \in Slots
      /\ dependency.sha.tree \in Trees /\ dependency.slot \in Slots
  BY <1>1, GitAssumption DEF IntegrationSafety, TypeOK, IsCommit
<1>3. IsCommit(first)
  <2>1. Apply(CumulativePatch(dependency), Base.tree) \in Trees
    BY <1>2, BaseIsCommit, PatchFacts
  <2> QED
    BY <1>2, <2>1, CommitFields
<1>4. first.tree \in Trees
  BY <1>3 DEF IsCommit
<1> HIDE DEF first
<1>5. IsCommit(second)
  <2>1. Apply(CumulativePatch(requester), first.tree) \in Trees
    BY <1>2, <1>4, PatchFacts
  <2> QED
    BY <1>2, <2>1, CommitFields
<1> HIDE DEF second
<1>6. IsWorktree(w) /\ w.step = "idle"
  BY <1>5, FreshWorktree
<1>7. InStep("engineering-a", w)
  BY <1>6 DEF InStep
<1>8. worktrees' = [worktrees EXCEPT !["engineering-a"] = w]
  BY <1>1 DEF first, second
<1>9. "engineering-a" \in Slots
  BY DEF Slots
<1> HIDE DEF w
<1> QED
  BY Zenon, <1>1, <1>2, <1>6, <1>7, <1>8, <1>9, WorktreeStep

-----------------------------------------------------------------------------
(* Integration: path by path, the patches of the three results put the     *)
(* result of the path's writer into the base.                              *)
LEMMA IntegratedTree ==
    ASSUME NEW accepted, NEW c, c = Integrated(accepted), attempt \in 0..MaxAttempts,
           \A i \in 1..3 : /\ accepted[i].sha.tree \in Trees
                           /\ accepted[i].slot = FixedIntegrationOrder[i]
    PROVE  /\ IsCommit(c) /\ c.parents = [i \in 1..3 |-> accepted[i].sha]
           /\ \A p \in Paths :
                /\ \A i \in 1..3 : p \in Scope[FixedIntegrationOrder[i]] =>
                     c.tree[p] = accepted[i].sha.tree[p]
                /\ (\A i \in 1..3 : p \notin Scope[FixedIntegrationOrder[i]]) =>
                     c.tree[p] = Old
<1> DEFINE patch(i) == CumulativePatch(accepted[i])
           one == Apply(patch(1), Base.tree)
           two == Apply(patch(2), one)
           tree == Apply(patch(3), two)
<1>1. /\ 1 \in 1..3 /\ 2 \in 1..3 /\ 3 \in 1..3
      /\ \A i \in 1..3 : FixedIntegrationOrder[i] \in Slots
      /\ FixedIntegrationOrder[1] # FixedIntegrationOrder[2]
      /\ FixedIntegrationOrder[1] # FixedIntegrationOrder[3]
      /\ FixedIntegrationOrder[2] # FixedIntegrationOrder[3]
  BY DEF FixedIntegrationOrder, Slots
<1>2. \A i \in 1..3 :
        /\ DOMAIN patch(i) = {p \in Scope[FixedIntegrationOrder[i]] :
                                accepted[i].sha.tree[p] # Old}
        /\ \A p \in DOMAIN patch(i) : patch(i)[p] = accepted[i].sha.tree[p]
        /\ \A t \in Trees : Apply(patch(i), t) \in Trees
  BY ZenonT(30), <1>1, PatchFacts
<1> HIDE DEF patch
<1>3. one \in Trees /\ two \in Trees /\ tree \in Trees
  BY <1>1, <1>2, BaseIsCommit
<1>4. c = CommitOf("integration", attempt, tree, [i \in 1..3 |-> accepted[i].sha])
  BY DEF Integrated, patch
<1>5. IsCommit(c) /\ c.parents = [i \in 1..3 |-> accepted[i].sha] /\ c.tree = tree
  <2> HIDE DEF tree
  <2> QED
    BY <1>3, <1>4, CommitFields
<1>6. ASSUME NEW p \in Paths
      PROVE  /\ one[p] = IF p \in DOMAIN patch(1) THEN patch(1)[p] ELSE Old
             /\ two[p] = IF p \in DOMAIN patch(2) THEN patch(2)[p] ELSE one[p]
             /\ tree[p] = IF p \in DOMAIN patch(3) THEN patch(3)[p] ELSE two[p]
  BY <1>6, BaseIsCommit DEF Apply
<1> HIDE DEF one, two, tree
<1>7. \A i, j \in 1..3 : i # j =>
        Scope[FixedIntegrationOrder[i]] \cap Scope[FixedIntegrationOrder[j]] = {}
  <2>1. \A i, j \in 1..3 : i # j => FixedIntegrationOrder[i] # FixedIntegrationOrder[j]
    BY <1>1
  <2> QED
    BY <1>1, <2>1, GitAssumption
<1>8. ASSUME NEW p \in Paths, NEW i \in 1..3, p \in Scope[FixedIntegrationOrder[i]]
      PROVE  tree[p] = accepted[i].sha.tree[p]
  <2>1. \A j \in 1..3 : j # i => p \notin DOMAIN patch(j)
    BY <1>2, <1>7, <1>8
  <2>2. p \in DOMAIN patch(i) \/ accepted[i].sha.tree[p] = Old
    BY <1>2, <1>8
  <2>3. p \in DOMAIN patch(i) => patch(i)[p] = accepted[i].sha.tree[p]
    BY <1>2
  <2>4. i = 1 \/ i = 2 \/ i = 3
    OBVIOUS
  <2> QED
    BY <1>1, <1>6, <2>1, <2>2, <2>3, <2>4
<1>9. ASSUME NEW p \in Paths, \A i \in 1..3 : p \notin Scope[FixedIntegrationOrder[i]]
      PROVE  tree[p] = Old
  <2>1. \A j \in 1..3 : p \notin DOMAIN patch(j)
    BY <1>2, <1>9
  <2> QED
    BY <1>1, <1>6, <2>1
<1> QED
  BY <1>5, <1>8, <1>9

LEMMA IntegrateStep ==
    ASSUME IntegrationSafety, Integrate
    PROVE  IntegrationSafety'
<1>0. /\ TypeOK /\ WorkInStep /\ ResultIsInspected /\ ResultInScope
      /\ CandidateIsAccepted /\ AttemptsKeptApart /\ ScanCoversHistory
  BY DEF IntegrationSafety
<1>1. PICK accepted \in [1..3 -> results] :
        /\ \A i \in 1..3 : Acceptable(accepted[i])
        /\ \A i \in 1..3 : accepted[i].slot = FixedIntegrationOrder[i]
        /\ candidates[attempt] = None
        /\ candidates' = [candidates EXCEPT ![attempt] = Integrated(accepted)]
        /\ UNCHANGED <<attempt, worktrees, results, branch, branchHead,
                       scanned, writes>>
  BY Zenon DEF Integrate
<1>2. PICK c : c = Integrated(accepted)
  OBVIOUS
<1>3. \A i \in 1..3 : /\ accepted[i] \in results /\ accepted[i].attempt = attempt
                      /\ accepted[i].sha.tree \in Trees
  BY <1>0, <1>1 DEF Acceptable, TypeOK, IsCommit
<1>4. attempt \in 1..MaxAttempts /\ attempt \in 0..MaxAttempts
  BY <1>0, GitAssumption DEF TypeOK
<1>5. /\ IsCommit(c) /\ c.parents = [i \in 1..3 |-> accepted[i].sha]
      /\ \A p \in Paths :
           /\ \A i \in 1..3 : p \in Scope[FixedIntegrationOrder[i]] =>
                c.tree[p] = accepted[i].sha.tree[p]
           /\ (\A i \in 1..3 : p \notin Scope[FixedIntegrationOrder[i]]) =>
                c.tree[p] = Old
  BY <1>1, <1>2, <1>3, <1>4, IntegratedTree
<1>6. /\ candidates' = [n \in 1..MaxAttempts |-> candidates'[n]]
      /\ candidates'[attempt] = c
      /\ \A n \in 1..MaxAttempts : n # attempt => candidates'[n] = candidates[n]
  BY Zenon, <1>0, <1>1, <1>2, <1>4 DEF TypeOK
<1>7. Range(candidates) \subseteq Range(candidates)' \cup {None}
  BY <1>0, <1>1, <1>4, <1>6 DEF Range, TypeOK
<1>8. TypeOK'
  <2>1. {branch, branchHead}' \subseteq Range(candidates)' \cup {None}
    BY <1>0, <1>1, <1>7 DEF TypeOK
  <2>2. scanned' \subseteq Range(candidates)' \ {None}
    BY SMTT(30), <1>0, <1>1, <1>7 DEF TypeOK
  <2>3. \A n \in 1..MaxAttempts : IsCommit(candidates'[n])
    BY <1>0, <1>5, <1>6 DEF TypeOK
  <2> QED
    BY <1>0, <1>1, <1>6, <2>1, <2>2, <2>3 DEF TypeOK
<1>9. CandidateIsAccepted'
  <2>1. ASSUME NEW p \in Paths
        PROVE  c.tree[p] = IF \E i \in 1..3 : p \in Scope[FixedIntegrationOrder[i]]
                           THEN LET i == CHOOSE i \in 1..3 :
                                           p \in Scope[FixedIntegrationOrder[i]]
                                IN  c.parents[i].tree[p]
                           ELSE Old
    <3>1. CASE \E i \in 1..3 : p \in Scope[FixedIntegrationOrder[i]]
      <4>1. PICK k : k = CHOOSE i \in 1..3 : p \in Scope[FixedIntegrationOrder[i]]
        OBVIOUS
      <4>2. k \in 1..3 /\ p \in Scope[FixedIntegrationOrder[k]]
        BY <3>1, <4>1
      <4>3. c.tree[p] = c.parents[k].tree[p]
        BY <1>5, <4>2
      <4> QED
        BY <3>1, <4>1, <4>3
    <3>2. CASE ~(\E i \in 1..3 : p \in Scope[FixedIntegrationOrder[i]])
      BY <1>5, <3>2
    <3> QED
      BY <3>1, <3>2
  <2> QED
    BY SMTT(30), <1>0, <1>6, <2>1 DEF CandidateIsAccepted
<1>10. AttemptsKeptApart'
  <2>1. \A i \in 1..3 : \E r \in results :
            /\ r.sha = c.parents[i]
            /\ r.attempt = attempt /\ r.slot = FixedIntegrationOrder[i]
    BY SMTT(30), <1>1, <1>3, <1>5
  <2> QED
    BY <1>0, <1>1, <1>4, <1>6, <2>1 DEF AttemptsKeptApart
<1>11. (WorkInStep /\ ResultIsInspected /\ ResultInScope /\ ScanCoversHistory)'
  BY <1>0, <1>1 DEF WorkInStep, ResultIsInspected, ResultInScope, ScanCoversHistory
<1> QED
  BY <1>8, <1>9, <1>10, <1>11 DEF IntegrationSafety

(* The branch moves to a candidate; the scan takes in the branch's head.   *)
LEMMA BranchStep ==
    ASSUME IntegrationSafety, UpdateRef \/ Scan
    PROVE  IntegrationSafety'
<1>0. /\ TypeOK /\ WorkInStep /\ ResultIsInspected /\ ResultInScope
      /\ CandidateIsAccepted /\ AttemptsKeptApart /\ ScanCoversHistory
  BY DEF IntegrationSafety
<1>1. UNCHANGED <<attempt, worktrees, results, candidates, writes>>
  BY DEF UpdateRef, Scan
<1>2. candidates[attempt] \in Range(candidates)
  BY <1>0 DEF Range, TypeOK
<1>3. TypeOK'
  <2>1. CASE UpdateRef
    BY <1>0, <1>1, <1>2, <2>1 DEF TypeOK, UpdateRef
  <2>2. CASE Scan
    BY Zenon, <1>0, <1>1, <2>2 DEF TypeOK, Scan
  <2> QED
    BY <2>1, <2>2
<1>4. ScanCoversHistory'
  <2>1. CASE UpdateRef
    BY <1>0, <2>1 DEF ScanCoversHistory, UpdateRef
  <2>2. CASE Scan
    BY <1>0, <2>2 DEF ScanCoversHistory, Scan, CleanHistory
  <2> QED
    BY <2>1, <2>2
<1>5. (CandidateIsAccepted /\ AttemptsKeptApart)'
  BY <1>0, <1>1 DEF CandidateIsAccepted, AttemptsKeptApart
<1>6. (WorkInStep /\ ResultIsInspected /\ ResultInScope)'
  BY <1>0, <1>1 DEF WorkInStep, ResultIsInspected, ResultInScope
<1> QED
  BY <1>3, <1>4, <1>5, <1>6 DEF IntegrationSafety

-----------------------------------------------------------------------------
LEMMA InitIntegrationSafety == Init => IntegrationSafety
<1> SUFFICES ASSUME Init PROVE IntegrationSafety
  OBVIOUS
<1>1. 1 \in 1..MaxAttempts /\ 0 \in 0..MaxWrites
  BY GitAssumption
<1>2. TypeOK
  BY <1>1, BaseIsCommit DEF Init, TypeOK
<1>3. WorkInStep /\ ResultIsInspected /\ ResultInScope /\ ScanCoversHistory
  BY DEF Init, WorkInStep, ResultIsInspected, ResultInScope, ScanCoversHistory
<1>4. CandidateIsAccepted /\ AttemptsKeptApart
  BY DEF Init, CandidateIsAccepted, AttemptsKeptApart
<1> QED
  BY <1>2, <1>3, <1>4 DEF IntegrationSafety

LEMMA NextIntegrationSafety ==
    ASSUME IntegrationSafety, [Next]_vars
    PROVE  IntegrationSafety'
<1>1. CASE UNCHANGED vars
  <2>1. UNCHANGED <<attempt, worktrees, results, candidates, branch, branchHead,
                    scanned, writes>>
    BY <1>1 DEF vars
  <2>2. TypeOK' /\ WorkInStep' /\ ResultIsInspected' /\ ResultInScope'
    BY SMTT(30), <2>1 
       DEF IntegrationSafety, TypeOK, WorkInStep, ResultIsInspected, ResultInScope
  <2>3. CandidateIsAccepted' /\ AttemptsKeptApart' /\ ScanCoversHistory'
    BY <2>1 DEF IntegrationSafety, CandidateIsAccepted, AttemptsKeptApart,
                ScanCoversHistory
  <2> QED
    BY <2>2, <2>3 DEF IntegrationSafety
<1>2. CASE Next
  BY <1>2, CreateStep, WriteStep, InspectStep, AddStep, CommitStep, RecordStep,
     NextAttemptStep, CombineStep, IntegrateStep, BranchStep DEF Next
<1> QED
  BY <1>1, <1>2

(* Whatever the paths, the contents and the disjoint scopes, and however   *)
(* often writers and the processes they leave behind write in between:     *)
(* what validateAndCommit records is what it inspected, within the slot's  *)
(* scope and file limit; the candidate of integrate is, path by path, the  *)
(* accepted result of the path's writer, of its own attempt, and the base  *)
(* elsewhere; and what has passed the scan has no secret in its history.   *)
THEOREM IntegrationSafe == Spec => []IntegrationSafety
<1>1. Init => IntegrationSafety
  BY InitIntegrationSafety
<1>2. IntegrationSafety /\ [Next]_vars => IntegrationSafety'
  BY NextIntegrationSafety
<1> QED
  BY <1>1, <1>2, PTL DEF Spec
=============================================================================
