---------------------------- MODULE PodContract ----------------------------
(* The contract a pod run is held to (pod-contract.mjs): the template's    *)
(* write roots, the planner's attempt plan, read writer by writer against  *)
(* what earlier writers have claimed, and the dependency request by which  *)
(* one engineer asks for a change of the other's.  A plan or request that  *)
(* is refused ends the attempt; the next one begins with a plan of its own *)
(* (how many there are is PodController's).                                *)
(*                                                                         *)
(* A path is the sequence of its components, so one path holds another if  *)
(* it is a prefix of it.  Lists of IDs are sets: a repeated ID is refused  *)
(* like an unknown one.  Exact fields, texts, lengths, digests of commits  *)
(* and the receipts' outcomes are left out.                                *)
EXTENDS Naturals, FiniteSets, SequencesExt

CONSTANTS
    Lower,         \* component -> the component in lower case
    File,          \* a component that is the name of a file
    Trees,         \* what the run base may be: sets of directories, with
                   \* each directory its parents (ls-tree -d -r)
    Requirements, Criteria,
    MaxPaths       \* the most write paths a plan gives a writer

Directories == UNION Trees

VARIABLES
    pc,
    tree,          \* existingDirectories: those of the run base
    roots,         \* the allowedWriteRoots read, in the order of WriterIds
    required,      \* the plan's requirement IDs
    linked,        \* criterion ID -> its requirementIds
    writers,       \* writer -> its part of the plan, for those read
    request        \* the dependency request that is queued

vars == <<pc, tree, roots, required, linked, writers, request>>

WriterIds == <<"engineering-a", "engineering-b", "qa-tests">>
Places == Directories \cup {Append(d, File) : d \in Directories}

None == [owner |-> "none"]
NoWriter == [w \in {} |-> {}]

Init ==
    /\ pc = "template" /\ tree \in Trees /\ roots = <<>>
    /\ required = {} /\ linked = NoWriter /\ writers = NoWriter
    /\ request = None

-----------------------------------------------------------------------------
(* directoryContains, which minds case, and directoriesOverlap, which does *)
(* not.                                                                    *)
DirectoryContains(parent, child) == IsPrefix(parent, child)

Folded(p) == [i \in DOMAIN p |-> Lower[p[i]]]

DirectoriesOverlap(left, right) ==
    \/ IsPrefix(Folded(left), Folded(right))
    \/ IsPrefix(Folded(right), Folded(left))

(* validateExistingDirectories: no two that differ by case only.           *)
DirectoriesOK == \A d, e \in tree : Folded(d) = Folded(e) => d = e

(* validatePodTemplate, one writer: its root against those before it.      *)
ReadRoot ==
    /\ pc = "template"
    /\ \E root \in Directories :
        IF \E i \in DOMAIN roots : DirectoriesOverlap(roots[i], root)
        THEN pc' = "refused" /\ UNCHANGED roots
        ELSE /\ roots' = Append(roots, root)
             /\ pc' = IF Len(roots') = Len(WriterIds) THEN "plan"
                      ELSE "template"
    /\ UNCHANGED <<tree, required, linked, writers, request>>

-----------------------------------------------------------------------------
(* What is refused throws, and the attempt loop plans again from nothing.  *)
NewAttempt ==
    /\ pc' = "plan"
    /\ required' = {} /\ linked' = NoWriter /\ writers' = NoWriter
    /\ request' = None

(* validateAttemptPlan up to its writers: requirements, then criteria.     *)
ReadPlan ==
    /\ pc = "plan"
    /\ \E rs \in SUBSET Requirements, cs \in SUBSET Criteria :
       \E ln \in [cs -> SUBSET Requirements] :
        /\ DirectoriesOK /\ rs # {} /\ cs # {}
        /\ \A c \in cs : ln[c] # {} /\ ln[c] \subseteq rs
        /\ required' = rs /\ linked' = ln
    /\ pc' = "writers"
    /\ UNCHANGED <<tree, roots, writers, request>>

(* Every path the plan has given a writer so far.                          *)
Claimed == UNION {Range(writers[v].writePaths) : v \in DOMAIN writers}

(* The paths of one writer: existing directories inside its root, none of  *)
(* which overlaps another one claimed before, its own included.            *)
PathsOK(root, paths) ==
    /\ paths # <<>> /\ root \in tree
    /\ \A i \in DOMAIN paths :
        /\ paths[i] \in tree /\ DirectoryContains(root, paths[i])
        /\ \A p \in Claimed \cup {paths[j] : j \in 1..(i - 1)} :
            ~DirectoriesOverlap(p, paths[i])

(* Mutant of TraceOK: a criterion without what it is about.                *)
TraceLoose(rs, cs) ==
    /\ rs # {} /\ rs \subseteq required
    /\ cs # {} /\ cs \subseteq DOMAIN linked

(* The IDs of one writer: known, and with a criterion all it requires.     *)
TraceOK(rs, cs) ==
    /\ rs # {} /\ rs \subseteq required
    /\ cs # {} /\ cs \subseteq DOMAIN linked
    /\ \A c \in cs : linked[c] \subseteq rs

(* The next writer of the plan.                                            *)
ReadWriter ==
    /\ pc = "writers" /\ Cardinality(DOMAIN writers) < Len(WriterIds)
    /\ LET i == Cardinality(DOMAIN writers) + 1
       IN  \E rs \in SUBSET Requirements, cs \in SUBSET Criteria :
            /\ TraceOK(rs, cs)
            /\ \E paths \in SeqOf(Directories, MaxPaths) :
                /\ PathsOK(roots[i], paths)
                /\ writers' = writers @@ (WriterIds[i] :>
                      [requirementIds |-> rs, acceptanceIds |-> cs,
                       writePaths |-> paths])
    /\ UNCHANGED <<pc, tree, roots, required, linked, request>>

(* The end of validateAttemptPlan: every requirement has a criterion and a *)
(* writer, every criterion a writer.                                       *)
Covered ==
    /\ \A r \in required :
        /\ \E c \in DOMAIN linked : r \in linked[c]
        /\ \E w \in DOMAIN writers : r \in writers[w].requirementIds
    /\ \A c \in DOMAIN linked :
        \E w \in DOMAIN writers : c \in writers[w].acceptanceIds

AcceptPlan ==
    /\ pc = "writers" /\ Cardinality(DOMAIN writers) = Len(WriterIds)
    /\ Covered /\ pc' = "running"
    /\ UNCHANGED <<tree, roots, required, linked, writers, request>>

-----------------------------------------------------------------------------
Engineers == {"engineering-a", "engineering-b"}

Owns(w, p) ==
    \E i \in DOMAIN writers[w].writePaths :
        DirectoryContains(writers[w].writePaths[i], p)

(* validateDependencyRequest: the other engineer's path, IDs that both     *)
(* have (assertIdsCovered), with a criterion all it requires, and the      *)
(* digest of the owner's brief (brief).                                    *)
RequestOK(w, q) ==
    /\ w \in Engineers /\ q.owner \in Engineers \ {w}
    /\ Owns(q.owner, q.path)
    /\ q.requirementIds # {} /\ q.acceptanceIds # {}
    /\ \A v \in {w, q.owner} :
        /\ q.requirementIds \subseteq writers[v].requirementIds
        /\ q.acceptanceIds \subseteq writers[v].acceptanceIds
    /\ \A c \in q.acceptanceIds : linked[c] \subseteq q.requirementIds
    /\ q.brief

(* A writer's blocked receipt.  The controller queues a valid request of A *)
(* while B is at work.                                                     *)
Ask ==
    /\ pc = "running" /\ request = None
    /\ \E rs \in SUBSET Requirements, cs \in SUBSET Criteria :
        /\ TraceOK(rs, cs)
        /\ \E q \in [owner : Range(WriterIds), path : Places,
                     requirementIds : {rs}, acceptanceIds : {cs},
                     brief : BOOLEAN] :
            RequestOK("engineering-a", q) /\ request' = q
    /\ UNCHANGED <<pc, tree, roots, required, linked, writers>>

(* An answer that is refused, which an agent can give whatever it is asked *)
(* (an empty list of IDs is one), a plan that is not Covered, a request    *)
(* that comes when B is done, and an attempt that fails otherwise.         *)
Refuse ==
    /\ pc \in {"plan", "writers", "running"}
    /\ NewAttempt
    /\ UNCHANGED <<tree, roots>>

Next == ReadRoot \/ ReadPlan \/ ReadWriter \/ AcceptPlan \/ Ask \/ Refuse

Spec == Init /\ [][Next]_vars

-----------------------------------------------------------------------------
(* The type invariant: the writers read are the first of WriterIds, and    *)
(* nothing of a plan is left when another one is awaited (the attempt loop *)
(* begins with plan null and inboxRequest null).                           *)
TypeOK ==
    /\ pc \in {"template", "plan", "writers", "running", "refused"}
    /\ tree \in Trees /\ Len(roots) <= Len(WriterIds)
    /\ Range(roots) \subseteq Directories
    /\ required \subseteq Requirements /\ DOMAIN linked \subseteq Criteria
    /\ \E n \in 0..Len(WriterIds) :
        DOMAIN writers = {WriterIds[i] : i \in 1..n}
    /\ pc \in {"template", "plan", "refused"} =>
        writers = NoWriter /\ request = None
    /\ request # None => pc = "running"

Beneath(w, p) ==
    \E i \in DOMAIN writers[w].writePaths :
        IsPrefix(Folded(writers[w].writePaths[i]), Folded(p))

(* Under a plan that is accepted no path, whatever its case, is beneath    *)
(* the write paths of two writers.  The claims are compared one by one as  *)
(* they are read (directoriesOverlap in validateAttemptPlan); integration  *)
(* takes each path from the one writer it belongs to and relies on this    *)
(* (GitIntegration's assumption on Scope).                                 *)
OneOwner ==
    pc = "running" =>
        \A w, v \in DOMAIN writers, p \in Places :
            Beneath(w, p) /\ Beneath(v, p) => w = v

(* Under a plan that is accepted each requirement is the subject of a      *)
(* criterion that some one writer has together with everything the         *)
(* criterion requires, so that writer's checker can judge it.  No single   *)
(* check of validateAttemptPlan says so: the closure of each writer's IDs  *)
(* and the coverage of criteria by writers together do.                    *)
Traced ==
    pc = "running" =>
        \A r \in required : \E c \in DOMAIN linked, w \in DOMAIN writers :
            /\ r \in linked[c] /\ c \in writers[w].acceptanceIds
            /\ linked[c] \subseteq writers[w].requirementIds

(* A request that is queued names what engineering-b alone may write: what *)
(* A asks for is never something A, or the tests' writer, could have       *)
(* written (validateDependencyRequest and the plan's disjoint claims).     *)
QueuedIsOwners ==
    request # None =>
        \A w \in DOMAIN writers :
            Beneath(w, request.path) <=> w = "engineering-b"

(* All of these at once: what the rest of a run relies on once a plan or a *)
(* request was accepted.                                                   *)
ContractSafety ==
    /\ TypeOK /\ OneOwner /\ Traced /\ QueuedIsOwners
=============================================================================
