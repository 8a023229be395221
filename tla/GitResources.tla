---------------------------- MODULE GitResources ----------------------------
(***************************************************************************)
(* What a GitRuntime (src/git-runtime.mjs) has on disk: the Git root of    *)
(* the deployment, which runs share and each claims for itself, the clone  *)
(* credential, the worktrees and snapshots of the run, and close(), which  *)
(* removes them or retains the repository for publication.                 *)
(*                                                                         *)
(* The controllers of a deployment have one container name, so one runs    *)
(* at a time.  One action is one file operation or Git command, or several *)
(* that fail in the same way.  What fails, or is overdue, may have had its *)
(* effect; a controller may die at any time, and nothing cleans up after   *)
(* it.                                                                     *)
(***************************************************************************)
EXTENDS Integers, FiniteSets

CONSTANTS
    Runs,        \* the runs, one controller each
    MaxFaults    \* bound: failures and deaths

VARIABLES
    root,        \* entries of the Git root, each with the run that made it
    admin,       \* worktrees the repository administers, by run
    disk,        \* for each run the worktrees and snapshots on disk
    known,       \* for each run those it has recorded
    lost,        \* for each run what a failed operation has left behind
    at,          \* the step each controller is at
    owned,       \* gitRootOwned
    ready,       \* readyCommitted: publication.ready is recorded
    retain,      \* retainForPublication, as close() was last called
    closes,      \* how often close() has been called
    faults

vars == <<root, admin, disk, known, lost, at, owned, ready, retain, closes,
  faults>>
items == <<admin, disk, known>>
flags == <<owned, ready, retain, closes>>

None == "none"
Foreign == "foreign"
Entries == {"marker", "home", "bare", "credential", "other"}
Items == {"worktree", "source", "snapshot"}
Steps == {"new", "open", "relist", "home", "credential", "clone", "cleanup",
    "abandon", "ready", "secure", "copy", "install", "close", "prune",
    "verify", "rmhome", "rmbare", "rmmarker", "closed", "failed", "dead",
    "published"}

TypeOK ==
    /\ root \in [Entries -> Runs \cup {None, Foreign}]
    /\ admin \subseteq Runs \X Items
    /\ disk \in [Runs -> SUBSET Items] /\ known \in [Runs -> SUBSET Items]
    /\ \A r \in Runs : at[r] \in {"ready", "secure", "copy", "install"} =>
         known[r] \subseteq disk[r]
    /\ lost \in [Runs -> SUBSET (Items \cup {"credential", "home"})]
    /\ at \in [Runs -> Steps] /\ owned \in [Runs -> BOOLEAN]
    /\ ready \in [Runs -> BOOLEAN] /\ retain \in [Runs -> BOOLEAN]
    /\ closes \in [Runs -> 0..2]
    /\ faults \in 0..MaxFaults

(* The root is empty, or has something that is not ours.                   *)
Init ==
    /\ \E other \in {Foreign, None} :
         root = [e \in Entries |-> IF e = "other" THEN other ELSE None]
    /\ admin = {}
    /\ disk = [r \in Runs |-> {}] /\ known = [r \in Runs |-> {}]
    /\ lost = [r \in Runs |-> {}]
    /\ at = [r \in Runs |-> "new"] /\ owned = [r \in Runs |-> FALSE]
    /\ ready = [r \in Runs |-> FALSE] /\ retain = [r \in Runs |-> FALSE]
    /\ closes = [r \in Runs |-> 0]
    /\ faults = 0

Fault == faults < MaxFaults /\ faults' = faults + 1
Goto(r, step) == at' = [at EXCEPT ![r] = step]
There == {e \in Entries : root[e] # None}
Put(e, r) == root' = [root EXCEPT ![e] = r]
Lose(r, what) == lost' = [lost EXCEPT ![r] = @ \cup what]

(* The container name is free.                                             *)
Alone == \A q \in Runs : at[q] \in {"new", "closed", "failed", "dead", "published"}

-----------------------------------------------------------------------------
(* claimGitRoot.                                                           *)

(* Mutant: what is in the root is not looked at.                           *)
ListNothing(r) ==
    /\ at[r] = "new" /\ Alone
    /\ Goto(r, "open")
    /\ UNCHANGED <<root, items, lost, flags, faults>>

List(r) ==
    /\ at[r] = "new" /\ Alone
    /\ Goto(r, IF There = {} THEN "open" ELSE "close")
    /\ UNCHANGED <<root, items, lost, flags, faults>>

(* The claim fails: the marker, whosever it is, is removed.                *)
FailClaim(r) ==
    /\ Put("marker", None) /\ Goto(r, "close")
    /\ UNCHANGED <<items, lost, flags>>

(* open(marker, "wx"), write, sync, close.                                 *)
OpenMarker(r) ==
    /\ at[r] = "open"
    /\ \/ IF root["marker"] = None
          THEN /\ Put("marker", r) /\ Goto(r, "relist")
               /\ UNCHANGED <<items, lost, flags, faults>>
          ELSE FailClaim(r) /\ UNCHANGED faults
       \/ Fault /\ FailClaim(r)

Relist(r) ==
    /\ at[r] = "relist"
    /\ \/ /\ There = {"marker"} /\ Goto(r, "home")
          /\ UNCHANGED <<root, items, lost, flags, faults>>
       \/ There # {"marker"} /\ FailClaim(r) /\ UNCHANGED faults
       \/ Fault /\ FailClaim(r)

(* Overdue, the directory may have been made all the same.                 *)
MakeHome(r) ==
    /\ at[r] = "home"
    /\ \/ IF root["home"] = None
          THEN /\ Put("home", r) /\ owned' = [owned EXCEPT ![r] = TRUE]
               /\ Goto(r, "credential")
               /\ UNCHANGED <<items, lost, ready, retain, closes, faults>>
          ELSE FailClaim(r) /\ UNCHANGED faults
       \/ Fault /\ FailClaim(r)
       \/ /\ Fault /\ root["home"] = None
          /\ root' = [root EXCEPT !["home"] = r, !["marker"] = None]
          /\ Lose(r, {"home"}) /\ Goto(r, "close")
          /\ UNCHANGED <<items, flags>>

-----------------------------------------------------------------------------
(* prepareAssignment.  The directories of the run have its own name;       *)
(* claiming them succeeds or fails the run.                                *)

(* createCloneCredential, where there is a token.  Overdue, the directory  *)
(* for it may have been made.                                              *)
CreateCredential(r) ==
    /\ at[r] = "credential"
    /\ \/ /\ Put("credential", r) /\ Goto(r, "clone")
          /\ UNCHANGED <<lost, faults>>
       \/ Goto(r, "clone") /\ UNCHANGED <<root, lost, faults>>
       \/ Fault /\ Goto(r, "close") /\ UNCHANGED <<root, lost>>
       \/ /\ Fault /\ Goto(r, "close")
          /\ Put("credential", r) /\ Lose(r, {"credential"})
    /\ UNCHANGED <<items, flags>>

(* A clone that fails may leave a repository.                              *)
Clone(r) ==
    /\ at[r] = "clone"
    /\ \/ Put("bare", r) /\ Goto(r, "cleanup") /\ UNCHANGED faults
       \/ /\ Fault /\ Goto(r, "abandon")
          /\ UNCHANGED root \/ Put("bare", r)
    /\ UNCHANGED <<items, lost, flags>>

(* The finally block.  Afterwards the run goes on, unless the clone has    *)
(* failed or the repository is not as the assignment says.                 *)
CleanCredential(r) ==
    /\ at[r] \in {"cleanup", "abandon"}
    /\ \/ /\ Put("credential", None)
          /\ \/ at[r] = "cleanup" /\ Goto(r, "ready")
             \/ Goto(r, "close")
          /\ UNCHANGED <<lost, faults>>
       \/ /\ Fault /\ root["credential"] = r
          /\ Goto(r, "close") /\ Lose(r, {"credential"})
          /\ UNCHANGED root
    /\ UNCHANGED <<items, flags>>

-----------------------------------------------------------------------------
(* Worktrees and snapshots.  When one fails the attempt does, and the run  *)
(* goes on with the next attempt or is closed.                             *)

GoOn(r) == Goto(r, "ready") \/ Goto(r, "close")
With(r, new) == disk' = [disk EXCEPT ![r] = @ \cup new]
Without(r, old) == disk' = [disk EXCEPT ![r] = @ \ old]
Record(r, new) == known' = [known EXCEPT ![r] = @ \cup new]
Entry(r, some) == {r} \X (some \cap {"worktree", "source"})

(* git worktree add: when it fails nothing is removed.                     *)
AddWorktree(r, item) ==
    /\ at[r] = "ready" /\ item \notin disk[r]
    /\ \/ item = "worktree"
       \/ item = "source" /\ "snapshot" \notin disk[r]
    /\ \/ /\ With(r, {item}) /\ admin' = admin \cup Entry(r, {item})
          /\ Goto(r, "secure") /\ UNCHANGED <<lost, faults>>
       \/ Fault /\ GoOn(r) /\ UNCHANGED <<disk, admin, lost>>
       \/ /\ Fault /\ GoOn(r) /\ Lose(r, {item})
          /\ With(r, {item}) /\ admin' = admin \cup Entry(r, {item})
    /\ UNCHANGED <<root, known, flags>>

New(r) == disk[r] \ (known[r] \cup lost[r])

(* The checks and the permissions; the worktree is recorded, or removed    *)
(* again.  By then there may be no time left for git worktree remove.      *)
Secure(r) ==
    /\ at[r] = "secure"
    /\ \/ /\ Record(r, New(r))
          /\ IF New(r) = {"source"} THEN Goto(r, "copy") ELSE GoOn(r)
          /\ UNCHANGED <<disk, admin, faults>>
       \/ /\ Fault /\ GoOn(r) /\ Without(r, New(r))
          /\ admin' = admin \ Entry(r, New(r)) \/ UNCHANGED admin
          /\ UNCHANGED known
    /\ UNCHANGED <<root, lost, flags>>

(* createSnapshot: mkdtemp.  Overdue, the directory is left.               *)
CopySnapshot(r) ==
    /\ at[r] = "copy"
    /\ \/ With(r, {"snapshot"}) /\ Goto(r, "install") /\ UNCHANGED <<lost, faults>>
       \/ Fault /\ GoOn(r) /\ UNCHANGED <<disk, lost>>
       \/ Fault /\ GoOn(r) /\ With(r, {"snapshot"}) /\ Lose(r, {"snapshot"})
    /\ UNCHANGED <<root, admin, known, flags>>

(* Copy, lock, rename, receipt, record; a failure removes what there is.   *)
InstallSnapshot(r) ==
    /\ at[r] = "install"
    /\ \/ /\ Record(r, {"snapshot"})
          /\ GoOn(r) /\ UNCHANGED <<disk, faults>>
       \/ /\ Fault /\ GoOn(r)
          /\ Without(r, {"snapshot"}) /\ UNCHANGED known
    /\ UNCHANGED <<root, admin, lost, flags>>

(* publication.ready is recorded.                                          *)
Ready(r) ==
    /\ at[r] = "ready" /\ Goto(r, "close")
    /\ ready' = [ready EXCEPT ![r] = TRUE]
    /\ UNCHANGED <<root, items, lost, owned, retain, closes, faults>>

-----------------------------------------------------------------------------
(* close().  The controller calls it to retain the repository if the run   *)
(* is ready, and then ignores that it failed.  A run that failed is closed *)
(* once more, without retaining, after the controller has thrown.          *)

(* Mutant: the failure of close() is thrown for a ready run too.           *)
FailCloseReady(r) == Goto(r, IF closes[r] = 2 THEN "failed" ELSE "close")

FailClose(r) == Goto(r, IF ready[r] \/ closes[r] = 2 THEN "failed" ELSE "close")

(* Snapshots, then worktrees; what cannot be removed is passed over.       *)
RemoveItems(r) ==
    /\ at[r] = "close"
    /\ closes' = [closes EXCEPT ![r] = @ + 1]
    /\ retain' = [retain EXCEPT ![r] = ready[r] /\ closes[r] = 0]
    /\ Goto(r, IF retain'[r] /\ owned[r] THEN "prune" ELSE "verify")
    /\ \E kept \in SUBSET (known[r] \cap disk[r]), stale \in BOOLEAN :
         /\ IF kept = {} /\ ~stale THEN UNCHANGED faults ELSE Fault
         /\ Without(r, known[r] \ kept)
         /\ admin' = IF stale THEN admin ELSE admin \ Entry(r, known[r] \ kept)
         /\ lost' = [lost EXCEPT ![r] = (@ \ known[r]) \cup kept]
    /\ UNCHANGED <<root, known, owned, ready>>

(* git worktree prune, for the worktrees whose directory is gone.          *)
Pruned == {x \in admin : x[2] \in disk[x[1]]}

Prune(r) ==
    /\ at[r] = "prune"
    /\ \/ /\ admin' = Pruned
          /\ IF Pruned = {} THEN Goto(r, "verify") ELSE FailClose(r)
          /\ UNCHANGED faults
       \/ Fault /\ FailClose(r) /\ UNCHANGED admin
    /\ UNCHANGED <<root, disk, known, lost, flags>>

(* The run's directories, then verifyGitRootOwnership: nothing is removed  *)
(* from a root without our marker.                                         *)
VerifyOwnership(r) ==
    /\ at[r] = "verify"
    /\ \/ ~owned[r] /\ Goto(r, "closed") /\ UNCHANGED faults
       \/ owned[r] /\ root["marker"] = r /\ Goto(r, "rmhome") /\ UNCHANGED faults
       \/ owned[r] /\ root["marker"] # r /\ FailClose(r) /\ UNCHANGED faults
       \/ Fault /\ FailClose(r)
    /\ UNCHANGED <<root, items, lost, flags>>

(* The repository's administration of worktrees goes with it.              *)
RemoveBare(r) ==
    IF retain[r] THEN UNCHANGED <<root, admin>>
                 ELSE Put("bare", None) /\ admin' = {}

RemoveRoot(r) ==
    /\ \/ /\ at[r] = "rmhome" /\ Put("home", None) /\ Goto(r, "rmbare")
          /\ UNCHANGED <<admin, faults>>
       \/ /\ at[r] = "rmbare" /\ RemoveBare(r) /\ Goto(r, "rmmarker")
          /\ UNCHANGED faults
       \/ /\ at[r] = "rmmarker" /\ Put("marker", None) /\ Goto(r, "closed")
          /\ UNCHANGED <<admin, faults>>
       \/ /\ at[r] \in {"rmhome", "rmbare", "rmmarker"}
          /\ Fault /\ FailClose(r) /\ UNCHANGED <<root, admin>>
    /\ UNCHANGED <<disk, known, lost, flags>>

Die(r) ==
    /\ at[r] \notin {"new", "closed", "failed", "dead", "published"}
    /\ Fault /\ Goto(r, "dead")
    /\ UNCHANGED <<root, items, lost, flags>>

(* cleanupPrivateSourceGitDir, after the candidate has been published.     *)
Published(r) ==
    /\ ready[r] /\ at[r] \in {"closed", "failed", "dead"}
    /\ Put("bare", None) /\ admin' = {} /\ Goto(r, "published")
    /\ UNCHANGED <<disk, known, lost, flags, faults>>

(* Somebody else puts a file or a directory into the root, or another      *)
(* marker, be it in the place of a run's own, at any time.                 *)
Interfere ==
    /\ Fault
    /\ \E e \in {"other", "marker", "home"} :
         Put(e, Foreign) /\ (e = "home" => root[e] = None)
    /\ UNCHANGED <<items, lost, at, flags>>

Next == Interfere \/ \E r \in Runs :
    \/ List(r) \/ OpenMarker(r) \/ Relist(r) \/ MakeHome(r)
    \/ CreateCredential(r) \/ Clone(r) \/ CleanCredential(r)
    \/ \E item \in Items : AddWorktree(r, item)
    \/ Secure(r) \/ CopySnapshot(r) \/ InstallSnapshot(r) \/ Ready(r)
    \/ RemoveItems(r) \/ Prune(r) \/ VerifyOwnership(r) \/ RemoveRoot(r)
    \/ Die(r) \/ Published(r)

Spec == Init /\ [][Next]_vars

-----------------------------------------------------------------------------
(* Where a run removes what has the name of its marker or of its home      *)
(* without looking whose it is.                                            *)
Unlooked(e) ==
    CASE e = "marker" -> {"open", "relist", "home", "rmmarker"}
      [] e = "home"   -> {"rmhome"}
      [] OTHER        -> {}

(* "refuses a pre-seeded controller Git root without deleting its          *)
(* contents": a run never removes or replaces what another run has put     *)
(* into the root, be it a dead controller, a close that failed, or a       *)
(* repository that waits for its publication, nor what somebody else has.  *)
(* Only a marker or a home by the name of its own may go, which it removes *)
(* without looking again: a marker that came after it had found the root   *)
(* empty, when it fails to claim it (git-runtime.mjs:625, 640-642), and    *)
(* what has taken the place of its own when it has verified its marker and *)
(* closes (2032-2035).  A root whose marker has changed before that is     *)
(* left as it is.                                                          *)
OthersKept ==
    [][at' # at => \A e \in Entries :
         root[e] # None /\ root'[e] # root[e] =>
             \E r \in Runs :
                 /\ at'[r] # at[r]
                 /\ \/ root[e] = r
                    \/ root[e] = Foreign /\ at[r] \in Unlooked(e)]_vars

(* A run that is ready has its repository until it is published, however   *)
(* its close ends: nothing closes it a second time, without retaining.     *)
ReadyKeepsRepository ==
    \A r \in Runs : ready[r] /\ at[r] # "published" => root["bare"] = r

(* The clone credential is on disk during the clone only; it stays behind  *)
(* if the controller dies meanwhile or removing it fails.                  *)
CredentialOnlyForClone ==
    \A r \in Runs : root["credential"] = r =>
        \/ at[r] \in {"clone", "cleanup", "abandon", "dead"}
        \/ "credential" \in lost[r]

(* A close that succeeds leaves the repository without any worktree, if it *)
(* is retained, and nothing in the root otherwise; nothing of the run is   *)
(* left but what a failed operation has left behind.                       *)
CloseLeavesClean ==
    \A r \in Runs : at[r] = "closed" =>
        /\ disk[r] \subseteq lost[r]
        /\ root["marker"] # r
        /\ root["home"] = r => "home" \in lost[r]
        /\ IF ready[r] THEN admin = {} ELSE root["bare"] # r

(* All of these at once: what the runs that share the Git root find and    *)
(* leave there.                                                            *)
ResourcesSafety ==
    /\ TypeOK /\ ReadyKeepsRepository /\ CredentialOnlyForClone
    /\ CloseLeavesClean
=============================================================================
