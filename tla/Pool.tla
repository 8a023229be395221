--------------------------------- MODULE Pool ---------------------------------
(***************************************************************************)
(* The warm pool of one tenant on a Proxmox target (engine/src/proxmox/    *)
(* pool.rs): fill clones guests ahead of need, claim_for binds a ready one *)
(* to an agent or clones one, drain destroys the unclaimed ones; and what  *)
(* the journals of the agents (engine/src/fabric.rs) destroy by VMID: a    *)
(* failed apply's rollback, the recovery that the next command begins      *)
(* with, and the destroy command.                                          *)
(*                                                                         *)
(* Each is a process of its own.  They share the pool's file under a lock  *)
(* that is held for one action here, and lxc, the guests that exist, which *)
(* no lock covers.  A process can be killed between two actions, a call to *)
(* Proxmox or to a guest can fail, a guest can stop, and the template can  *)
(* be replaced.  An agent is applied and then destroyed, and so again:     *)
(* Fabric has the apply that replaces a generation.  Left out: warm        *)
(* runtimes, and that the cleanup after a failed clone fails to save the   *)
(* pool's file.  A free VMID is any, where the code takes the lowest.      *)
(***************************************************************************)
EXTENDS Integers, FiniteSets

CONSTANTS
    Operators,      \* processes that fill and drain
    Claimers,       \* agents, each with at most one command at a time
    Vmids,          \* vmid_low..vmid_high
    Size,           \* warm_pool_size
    MaxVersion,     \* bounds
    MaxCommands,
    MaxFaults

VARIABLES
    template,       \* the version of the template
    current,        \* template_version of the pool, 0 for none
    guests,         \* the records of the pool
    lxc,            \* the guests that exist
    proc,           \* the processes
    record,         \* the guest on each agent's record
    handed,         \* the guest each agent was given, and has
    touched,        \* the guests each agent's journal has among its remains
    strays,         \* guests whose destroy failed in a cleanup
    contested,      \* VMIDs that were somebody else's too when last taken
    commands, faults

pool == <<template, current, guests, lxc>>
agents == <<record, handed, touched>>
ghosts == <<strays, contested>>
bounds == <<commands, faults>>
vars == <<pool, proc, agents, ghosts, bounds>>

Procs == Operators \cup Claimers
None == "none"
Idle == [at |-> "idle", version |-> 0, doomed |-> {}, ready |-> {}, vmid |-> 0,
         cold |-> FALSE, loop |-> None]
Places == {"idle", "list", "sweep", "forget", "check", "count", "reserve",
           "clone", "mark", "undo", "undoForget", "drain", "pick", "cold",
           "bind", "unbind", "start", "clear", "cleared"}
Loops == {None, "recoverApply", "recoverDestroy", "rollback", "undo", "destroy"}

(* A record: claimedBy is an agent, owner a process that lives, or none.   *)
NoGuest == [state |-> None, version |-> 0, owner |-> None, claimedBy |-> None]
Guest == [state : {"cloning", "ready", "claimed"}, version : 1..MaxVersion,
          owner : Procs \cup {None}, claimedBy : Claimers \cup {None}]

TypeOK ==
    /\ template \in 1..MaxVersion /\ current \in 0..template
    /\ guests \in [Vmids -> Guest \cup {NoGuest}]
    /\ lxc \in [Vmids -> {None, "stopped", "unbound"} \cup Claimers]
    /\ \A q \in Procs : /\ proc[q].at \in Places /\ proc[q].loop \in Loops
                        /\ proc[q].version <= template
    /\ record \in [Claimers -> Vmids \cup {0}]
    /\ handed \in [Claimers -> Vmids \cup {0}]
    /\ touched \in [Claimers -> SUBSET Vmids]
    /\ \A v \in Vmids : guests[v].owner # None => guests[v].state = "cloning"

Init ==
    /\ template = 1 /\ current = 0
    /\ guests = [v \in Vmids |-> NoGuest] /\ lxc = [v \in Vmids |-> None]
    /\ proc = [q \in Procs |-> Idle]
    /\ record = [c \in Claimers |-> 0] /\ handed = [c \in Claimers |-> 0]
    /\ touched = [c \in Claimers |-> {}]
    /\ strays = {} /\ contested = {} /\ commands = 0 /\ faults = 0

Fault == faults < MaxFaults /\ faults' = faults + 1
Recorded == {v \in Vmids : guests[v] # NoGuest}
Go(q, at) == proc' = [proc EXCEPT ![q].at = at]
Stop(q) == proc' = [proc EXCEPT ![q] = Idle]
Me(q) == proc[q].vmid
Vanish(v) == lxc' = [lxc EXCEPT ![v] = None]
Drop(v) == guests' = [guests EXCEPT ![v] = NoGuest]
Journal(q, vs) == touched' = [touched EXCEPT ![q] = vs]

(* owner_alive, of a record of a guest that is being cloned.               *)
Dead(v) == guests[v].state = "cloning" /\ guests[v].owner = None

(* Somebody else is to destroy v: it is on the list of a process, in the   *)
(* journal of an agent or on an agent's record; or it was when a process   *)
(* took it that has it in its hands.                                       *)
Named(q, v) ==
    \/ \E o \in Procs \ {q} : \/ v \in proc[o].doomed \cup proc[o].ready
                              \/ v \in contested /\ v = Me(o)
    \/ \E c \in Claimers \ {q} : v \in touched[c] \cup {record[c]}

TakeUp(q, v) ==
    contested' = IF Named(q, v) THEN contested \cup {v} ELSE contested \ {v}

Begin(q, new) ==
    /\ proc[q].at = "idle" /\ commands < MaxCommands
    /\ commands' = commands + 1
    /\ proc' = [proc EXCEPT ![q] = new]
    /\ UNCHANGED <<pool, agents, ghosts, faults>>

-----------------------------------------------------------------------------
(* fill and drain: what is to go is listed under the lock, and destroyed   *)
(* and forgotten without it.                                               *)

Fill(q) ==
    q \in Operators /\ Begin(q, [Idle EXCEPT !.at = "list", !.version = template])

List(q) ==
    LET version == proc[q].version
        ready == {v \in Recorded : guests[v].state = "ready"}
        stale == {v \in ready : guests[v].version # version}
    IN /\ proc[q].at = "list"
       /\ current' = version
       /\ proc' = [proc EXCEPT ![q].at = "sweep", ![q].ready = ready \ stale,
                     ![q].doomed = {v \in Recorded : Dead(v)} \cup stale]
       /\ UNCHANGED <<template, guests, lxc, agents, ghosts, bounds>>

Drain(q) == q \in Operators /\ Begin(q, [Idle EXCEPT !.at = "drain"])

ListDrain(q) ==
    /\ proc[q].at = "drain"
    /\ proc' = [proc EXCEPT ![q].at = "sweep",
                  ![q].doomed = {v \in Recorded : guests[v].state = "ready"
                                                    \/ Dead(v)}]
    /\ UNCHANGED <<pool, agents, ghosts, bounds>>


(* destroy_guest, whose failure ends the command.                          *)
Destroy(q) ==
    /\ proc[q].at = "sweep"
    /\ \E v \in proc[q].doomed :
         \/ /\ Vanish(v) /\ UNCHANGED faults
            /\ proc' = [proc EXCEPT ![q].at = "forget", ![q].vmid = v]
         \/ Fault /\ Stop(q) /\ UNCHANGED lxc
    /\ UNCHANGED <<template, current, guests, agents, ghosts, commands>>

Forget(q) ==
    /\ proc[q].at = "forget" /\ Drop(Me(q))
    /\ proc' = [proc EXCEPT ![q].at = "sweep", ![q].doomed = @ \ {Me(q)},
                            ![q].vmid = 0]
    /\ UNCHANGED <<template, current, lxc, agents, ghosts, bounds>>

(* A drain is through; a fill (it has a version) goes on.                  *)
Swept(q) ==
    /\ proc[q].at = "sweep" /\ proc[q].doomed = {}
    /\ IF proc[q].version # 0 THEN Go(q, "check") ELSE Stop(q)
    /\ UNCHANGED <<pool, agents, ghosts, bounds>>

(* guest_running of a guest that was ready when listed.                    *)
Check(q) ==
    /\ proc[q].at = "check"
    /\ \/ /\ proc[q].ready = {} /\ Go(q, "count")
       \/ \E v \in proc[q].ready :
            LET gone == lxc[v] \in {None, "stopped"}
            IN  proc' = [proc EXCEPT ![q].ready = @ \ {v},
                           ![q].at = IF gone THEN "sweep" ELSE "check",
                           ![q].doomed = IF gone THEN {v} ELSE {}]
    /\ UNCHANGED <<pool, agents, ghosts, bounds>>

Held ==
    {v \in Recorded : /\ guests[v].claimedBy = None
                      /\ guests[v].state = "ready" \/ guests[v].owner # None}

Count(q) ==
    /\ proc[q].at = "count"
    /\ IF Cardinality(Held) >= Size THEN Stop(q) ELSE Go(q, "reserve")
    /\ UNCHANGED <<pool, agents, ghosts, bounds>>

-----------------------------------------------------------------------------
(* A new guest, for the pool or for a cold claim.                          *)

(* An apply has failed: what it has touched is to be cleared.              *)
Rollback(q, todo) ==
    proc' = [proc EXCEPT ![q] =
               IF todo = {} THEN Idle
               ELSE [Idle EXCEPT !.at = "clear", !.loop = "rollback",
                                 !.doomed = todo]]

Reservation(q) ==
    [state |-> "cloning", version |-> proc[q].version, owner |-> q,
     claimedBy |-> IF proc[q].cold THEN q ELSE None]


Reserve(q) ==
    LET free == {v \in Vmids \ Recorded : lxc[v] = None}
    IN /\ proc[q].at = "reserve"
       /\ \/ /\ free = {}
             /\ IF proc[q].cold THEN Rollback(q, touched[q]) ELSE Stop(q)
             /\ UNCHANGED <<guests, ghosts>>
          \/ \E v \in free :
               /\ guests' = [guests EXCEPT ![v] = Reservation(q)]
               /\ TakeUp(q, v) /\ strays' = strays \ {v}
               /\ proc' = [proc EXCEPT ![q].at = "clone", ![q].vmid = v]
       /\ UNCHANGED <<template, current, lxc, agents, bounds>>

(* A cold claim first journals the guest: failing to, it only forgets it.  *)
(* clone_and_start: a failure may leave a guest, which may run.            *)
Clone(q) ==
    /\ proc[q].at = "clone"
    /\ IF proc[q].cold THEN Journal(q, touched[q] \cup {Me(q)})
                       ELSE UNCHANGED touched
    /\ \/ /\ lxc[Me(q)] = None
          /\ lxc' = [lxc EXCEPT ![Me(q)] = "unbound"] /\ UNCHANGED faults
          /\ Go(q, IF proc[q].cold THEN "bind" ELSE "mark")
       \/ /\ lxc[Me(q)] # None
          /\ Go(q, "undo") /\ UNCHANGED <<lxc, faults>>
       \/ /\ lxc[Me(q)] = None /\ Fault /\ Go(q, "undo")
          /\ \E g \in {None, "stopped", "unbound"} :
               lxc' = [lxc EXCEPT ![Me(q)] = g]
       \/ proc[q].cold /\ Fault /\ Go(q, "undoForget") /\ UNCHANGED lxc
    /\ UNCHANGED <<template, current, guests, record, handed, ghosts, commands>>

(* What mark leaves of a record, if there still is one.                    *)
Marked(g, state, agent) ==
    IF g = NoGuest THEN NoGuest
    ELSE [g EXCEPT !.state = state, !.owner = None,
                   !.claimedBy = IF agent = None THEN @ ELSE agent]

MarkReady(q) ==
    /\ proc[q].at = "mark" /\ ~proc[q].cold
    /\ guests' = [guests EXCEPT ![Me(q)] = Marked(@, "ready", None)]
    /\ proc' = [proc EXCEPT ![q].at = "count", ![q].vmid = 0]
    /\ UNCHANGED <<template, current, lxc, agents, ghosts, bounds>>

(* The cleanup after a failure ignores its own: the record goes also when  *)
(* the guest could not be destroyed.                                       *)
Undo(q) ==
    /\ proc[q].at = "undo" /\ Go(q, "undoForget")
    /\ \/ Vanish(Me(q)) /\ UNCHANGED <<strays, faults>>
       \/ Fault /\ strays' = strays \cup {Me(q)} /\ UNCHANGED lxc
    /\ UNCHANGED <<template, current, guests, agents, contested, commands>>

UndoForget(q) ==
    /\ proc[q].at = "undoForget" /\ Drop(Me(q))
    /\ IF proc[q].cold THEN Rollback(q, touched[q]) ELSE Stop(q)
    /\ UNCHANGED <<template, current, lxc, agents, ghosts, bounds>>

-----------------------------------------------------------------------------
(* apply: the recovery of what was interrupted, then claim_for and         *)
(* cold_claim.                                                             *)

Claim(q) ==
    /\ q \in Claimers /\ record[q] = 0
    /\ Begin(q, IF touched[q] = {} THEN [Idle EXCEPT !.at = "pick"]
                ELSE [Idle EXCEPT !.at = "clear", !.loop = "recoverApply",
                                  !.doomed = touched[q]])

Usable ==
    {v \in Recorded : /\ guests[v].state = "ready"
                      /\ current # 0 /\ guests[v].version = current}

(* The guest is journaled, then the claim is saved; between the two the    *)
(* process may die, or fail to save.                                       *)
Pick(q) ==
    /\ proc[q].at = "pick"
    /\ \/ /\ Usable = {} /\ UNCHANGED <<guests, touched, contested, faults>>
          /\ proc' = [proc EXCEPT ![q].at = "cold", ![q].cold = TRUE]
       \/ \E v \in Usable :
            /\ Journal(q, touched[q] \cup {v})
            /\ \/ /\ guests' = [guests EXCEPT ![v].state = "claimed",
                                              ![v].claimedBy = q]
                  /\ proc' = [proc EXCEPT ![q].at = "bind", ![q].vmid = v]
                  /\ TakeUp(q, v) /\ UNCHANGED faults
               \/ /\ Fault /\ UNCHANGED <<guests, contested>>
                  /\ Stop(q) \/ Rollback(q, touched'[q])
    /\ UNCHANGED <<template, current, lxc, record, handed, strays, commands>>

Cold(q) ==
    /\ proc[q].at = "cold"
    /\ proc' = [proc EXCEPT ![q].at = "reserve", ![q].version = template]
    /\ UNCHANGED <<pool, agents, ghosts, bounds>>

HandOut(q) == Go(q, "start") /\ handed' = [handed EXCEPT ![q] = Me(q)]

(* bind, of a guest that answers and is not bound; its answer may be lost, *)
(* or the journal not written after it.                                    *)
Bind(q) ==
    /\ proc[q].at = "bind"
    /\ LET failed == IF proc[q].cold THEN "undo" ELSE "unbind"
           bound == [lxc EXCEPT ![Me(q)] = q]
       IN \/ /\ lxc[Me(q)] = "unbound" /\ lxc' = bound /\ UNCHANGED faults
             /\ IF proc[q].cold THEN Go(q, "mark") /\ UNCHANGED handed
                                ELSE HandOut(q)
          \/ /\ lxc[Me(q)] # "unbound"
             /\ Go(q, failed) /\ UNCHANGED <<lxc, handed, faults>>
          \/ /\ lxc[Me(q)] = "unbound" /\ lxc' \in {lxc, bound}
             /\ Fault /\ Go(q, failed) /\ UNCHANGED handed
          \/ /\ lxc[Me(q)] = "unbound" /\ lxc' = bound /\ ~proc[q].cold
             /\ Fault /\ Rollback(q, touched[q]) /\ UNCHANGED handed
    /\ UNCHANGED <<template, current, guests, record, touched, ghosts, commands>>

(* It becomes a dead record, and the next guest is tried.  The journal     *)
(* keeps it until the apply commits or what it touched is cleared.         *)
Unbind(q) ==
    /\ proc[q].at = "unbind"
    /\ \/ /\ guests' = [guests EXCEPT ![Me(q)] = Marked(@, "cloning", None)]
          /\ proc' = [proc EXCEPT ![q].at = "pick", ![q].vmid = 0]
          /\ UNCHANGED faults
       \/ Fault /\ Rollback(q, touched[q]) /\ UNCHANGED guests
    /\ UNCHANGED <<template, current, lxc, agents, ghosts, commands>>

(* The pool's file cannot be saved: the guest is cleaned up; the journal   *)
(* cannot be written after that: the apply is rolled back.                 *)
MarkClaimed(q) ==
    LET claimed == [guests EXCEPT ![Me(q)] = Marked(@, "claimed", q)]
    IN /\ proc[q].at = "mark" /\ proc[q].cold
       /\ \/ guests' = claimed /\ HandOut(q) /\ UNCHANGED faults
          \/ Fault /\ Go(q, "undo") /\ UNCHANGED <<guests, handed>>
          \/ /\ Fault /\ guests' = claimed
             /\ Rollback(q, touched[q]) /\ UNCHANGED handed
       /\ UNCHANGED <<template, current, lxc, record, touched, ghosts, commands>>

(* The claim has returned: the runtime is started and accepts its first    *)
(* task; the record of the agent and the commit are written.               *)
Commit(q) ==
    /\ proc[q].at = "start" /\ Stop(q)
    /\ record' = [record EXCEPT ![q] = Me(q)] /\ Journal(q, {})
    /\ UNCHANGED <<pool, handed, ghosts, bounds>>

(* It does not start: all that was touched is cleared; or it does not      *)
(* accept the task: only the guest that was claimed is; or the record is   *)
(* not written: that guest is, and the journal does not say so.            *)
StartFails(q) ==
    /\ proc[q].at = "start" /\ Fault
    /\ handed' = [handed EXCEPT ![q] = 0]
    /\ \/ Rollback(q, touched[q]) \/ Rollback(q, {Me(q)})
       \/ proc' = [proc EXCEPT ![q] = [Idle EXCEPT !.at = "clear",
                     !.loop = "undo", !.doomed = {Me(q)}]]
    /\ UNCHANGED <<pool, record, touched, ghosts, commands>>

-----------------------------------------------------------------------------
(* What a command on an agent destroys by VMID, whosever guest has it now: *)
(* the remains in its journal (recover), what a failed apply has touched   *)
(* or made (rollback, undo), and the guest on record (destroy).            *)

(* The guest is journaled as being destroyed.                              *)
Destroying(q) ==
    /\ proc' = [proc EXCEPT ![q] = [Idle EXCEPT !.at = "clear",
                  !.loop = "destroy", !.doomed = {record[q]}]]
    /\ Journal(q, {record[q]})

Release(q) ==
    /\ q \in Claimers /\ proc[q].at = "idle" /\ record[q] # 0
    /\ handed' = [handed EXCEPT ![q] = 0]
    /\ IF touched[q] = {} THEN Destroying(q)
       ELSE /\ proc' = [proc EXCEPT ![q] = [Idle EXCEPT !.at = "clear",
                          !.loop = "recoverDestroy", !.doomed = touched[q]]]
            /\ UNCHANGED touched
    /\ UNCHANGED <<pool, record, ghosts, bounds>>

(* A rollback ignores what fails; any other command ends.                  *)
Ignores(q) == proc[q].loop \in {"rollback", "undo"}

(* The guest is through, and but for the undo journaled as cleared.        *)
ClearNext(q, v) ==
    /\ proc' = [proc EXCEPT ![q].at = "clear", ![q].doomed = @ \ {v},
                            ![q].vmid = 0]
    /\ Journal(q, IF proc[q].loop = "undo" THEN touched[q]
                  ELSE touched[q] \ {v})

(* destroy_guest.                                                          *)
ClearDestroy(q) ==
    /\ proc[q].at = "clear"
    /\ \E v \in proc[q].doomed :
         \/ /\ Vanish(v) /\ UNCHANGED <<touched, strays, faults>>
            /\ proc' = [proc EXCEPT ![q].at = "cleared", ![q].vmid = v]
         \/ /\ Fault /\ lxc' \in {lxc, [lxc EXCEPT ![v] = None]}
            /\ IF Ignores(q) THEN ClearNext(q, v) /\ strays' = strays \cup {v}
                             ELSE Stop(q) /\ UNCHANGED <<touched, strays>>
    /\ UNCHANGED <<template, current, guests, record, handed, contested,
                   commands>>

(* forget, and the entry in the journal; either may fail.                  *)
ClearForget(q) ==
    /\ proc[q].at = "cleared"
    /\ \/ Drop(Me(q)) /\ ClearNext(q, Me(q)) /\ UNCHANGED faults
       \/ /\ Fault /\ UNCHANGED guests
          /\ IF Ignores(q) THEN ClearNext(q, Me(q))
                           ELSE Stop(q) /\ UNCHANGED touched
       \/ /\ Fault /\ Drop(Me(q)) /\ UNCHANGED touched
          /\ IF Ignores(q)
             THEN proc' = [proc EXCEPT ![q].at = "clear",
                             ![q].doomed = @ \ {Me(q)}, ![q].vmid = 0]
             ELSE Stop(q)
    /\ UNCHANGED <<template, current, lxc, record, handed, ghosts, commands>>

AllClear(q) ==
    /\ proc[q].at = "clear" /\ proc[q].doomed = {}
    /\ \/ /\ proc[q].loop = "recoverApply"
          /\ proc' = [proc EXCEPT ![q] = [Idle EXCEPT !.at = "pick"]]
          /\ UNCHANGED <<record, touched>>
       \/ proc[q].loop = "recoverDestroy" /\ Destroying(q) /\ UNCHANGED record
       \/ Ignores(q) /\ Stop(q) /\ UNCHANGED <<record, touched>>
       \/ /\ proc[q].loop = "destroy" /\ Stop(q)
          /\ record' = [record EXCEPT ![q] = 0] /\ UNCHANGED touched
    /\ UNCHANGED <<pool, handed, ghosts, bounds>>

-----------------------------------------------------------------------------
(* The environment.                                                        *)

(* A process dies, or ends with an error, and its records have no owner    *)
(* that lives.  The journal of an agent keeps what was touched, be it a    *)
(* guest that is yet to be cloned; the record of the agent may be there    *)
(* without the commit.                                                     *)
Die(q) ==
    /\ proc[q].at # "idle" /\ Fault /\ Stop(q)
    /\ guests' = [v \in Vmids |->
         IF guests[v].owner = q THEN [guests[v] EXCEPT !.owner = None]
         ELSE guests[v]]
    /\ \/ UNCHANGED touched
       \/ /\ proc[q].at = "clone" /\ proc[q].cold
          /\ Journal(q, touched[q] \cup {Me(q)})
    /\ IF proc[q].at = "start"
       THEN /\ handed' = [handed EXCEPT ![q] = 0]
            /\ record' \in {record, [record EXCEPT ![q] = Me(q)]}
       ELSE UNCHANGED <<handed, record>>
    /\ UNCHANGED <<template, current, lxc, ghosts, commands>>

GuestStops(v) ==
    /\ lxc[v] = "unbound" /\ lxc' = [lxc EXCEPT ![v] = "stopped"] /\ Fault
    /\ UNCHANGED <<template, current, guests, proc, agents, ghosts, commands>>

NewTemplate ==
    /\ template < MaxVersion /\ template' = template + 1
    /\ UNCHANGED <<current, guests, lxc, proc, agents, ghosts, bounds>>

Next ==
    \/ \E q \in Operators : Fill(q) \/ Drain(q)
    \/ \E q \in Claimers : Claim(q) \/ Release(q)
    \/ \E q \in Procs :
         \/ List(q) \/ ListDrain(q) \/ Destroy(q) \/ Forget(q) \/ Swept(q)
         \/ Check(q) \/ Count(q) \/ Reserve(q) \/ Clone(q) \/ MarkReady(q)
         \/ Undo(q) \/ UndoForget(q) \/ Pick(q) \/ Cold(q) \/ Bind(q)
         \/ Unbind(q) \/ MarkClaimed(q) \/ Commit(q) \/ StartFails(q)
         \/ ClearDestroy(q) \/ ClearForget(q) \/ AllClear(q) \/ Die(q)
    \/ \E v \in Vmids : GuestStops(v)
    \/ NewTemplate

Spec == Init /\ [][Next]_vars

-----------------------------------------------------------------------------
(* "Claimed guests belong to agents and are left alone" (drain): a guest   *)
(* that a claim has returned exists, is bound to its agent and is on       *)
(* record as its agent's, until its apply fails or that agent is           *)
(* destroyed.                                                              *)
HandedOutKept ==
    \A c \in Claimers : handed[c] # 0 =>
        /\ lxc[handed[c]] = c
        /\ guests[handed[c]].state = "claimed"
        /\ guests[handed[c]].claimedBy = c


(* "Every guest is recorded before it is cloned", and until it is          *)
(* destroyed, whoever dies: a guest without a record, which no later fill  *)
(* clears, is one that a failed cleanup has left, or was contested.        *)
GuestsOnRecord ==
    \A v \in Vmids \ (strays \cup contested) :
        lxc[v] # None => guests[v] # NoGuest

(* A filler holds no more unclaimed guests, with those being cloned, than  *)
(* warm_pool_size.  It counts and reserves under two locks, so each other  *)
(* filler may add one.                                                     *)
NotOverfilled == Cardinality(Held) < Size + Cardinality(Operators)

=============================================================================
