------------------------------- MODULE Fabric -------------------------------
(***************************************************************************)
(* The control plane of the engine for one agent (engine/src/fabric.rs):   *)
(* apply starts a new generation of the agent's resources, commits it and  *)
(* retires the one before; destroy stops everything.  Both journal what    *)
(* they are about to do, and begin by clearing what the journal says an    *)
(* interrupted command left (remains, recover).                            *)
(*                                                                         *)
(* Commands on one agent exclude each other by a lock that dies with the   *)
(* process, so there is at most one.  It can be killed between any two     *)
(* steps and in the middle of a line of the journal; a write, or the       *)
(* removal of a resource, can fail.  A resource is identified by the       *)
(* command that made it; agent.json is rec.                                *)
(***************************************************************************)
EXTENDS Integers, Sequences, FiniteSets, FiniteSetsExt, SequencesExt

CONSTANTS
    Specs,          \* specifications one may apply
    Targets,        \* subset of {"local", "proxmox"}
    Faults,         \* subset of {"kill", "write", "remove", "exit"}
    Tears,          \* how a line may be cut: subset of {"part", "whole"}
    MaxCommands,    \* bounds
    MaxFaults

ASSUME FabricAssumption ==
    /\ Targets \subseteq {"local", "proxmox"}
    /\ Faults \subseteq {"kill", "write", "remove", "exit"}
    /\ Tears \subseteq {"part", "whole"}
    /\ {MaxCommands, MaxFaults} \subseteq Nat

VARIABLES
    journal,    \* the entries that can be read
    torn,       \* the last line lacks its newline: "part" of an entry, or all
    rec,        \* agent.json
    alive,      \* resources that exist
    p,          \* the command
    n,          \* commands so far
    faults,
    serving,    \* resources of the generation committed last, as long as
                \* the journal says so
    off         \* resources that apply, or the loss of a commit, has left
                \* off the record

vars == <<journal, torn, rec, alive, p, n, faults, serving, off>>

Resource == [n : 1..MaxCommands, k : 1..2, gen : 1..MaxCommands, target : Targets]
NoRes == [n |-> 0, k |-> 0, gen |-> 0, target |-> "none"]
NoRec == [status |-> "none", gen |-> 0, target |-> "none", spec |-> "none", res |-> {}]

Idle(result) ==
    [at |-> "idle", result |-> result, cmd |-> "none", spec |-> "none",
     target |-> "none", gen |-> 0, i |-> 0, touched |-> {}, todo |-> {},
     loop |-> "none", old |-> NoRec]

Init ==
    /\ journal = <<>> /\ torn = "no" /\ rec = NoRec /\ alive = {}
    /\ p = Idle("none") /\ n = 0 /\ faults = 0 /\ serving = {} /\ off = {}

Fault == faults < MaxFaults /\ faults' = faults + 1

-----------------------------------------------------------------------------
(* Reading the journal.                                                    *)

(* known: the entry says how to reach the resource.  A local process is    *)
(* journaled before it has a pid.                                          *)
Thing(r, known, target) == [res |-> r, known |-> known, target |-> target]

Adds(e) ==
    CASE e.event \in {"touching", "created", "retiring", "destroying"} ->
            {Thing(e.res, e.known, e.target)}
      [] e.event = "commit" -> {Thing(r, TRUE, e.target) : r \in e.retire}
      [] OTHER -> {}


Removes(e, r) ==
    \/ e.event = "cleared" /\ e.res = r
    \/ e.event = "commit" /\ e.gen = r.gen

Remains ==
    UNION {{x \in Adds(journal[i]) :
              \A j \in (i + 1)..Len(journal) :
                /\ ~Removes(journal[j], x.res)
                /\ \A y \in Adds(journal[j]) : y.res # x.res}
           : i \in 1..Len(journal)}

OpenIntents ==
    {journal[i].gen : i \in {i \in 1..Len(journal) :
        /\ journal[i].event = "intent"
        /\ \A j \in (i + 1)..Len(journal) :
             ~(journal[j].event \in {"commit", "rollback"}
               /\ journal[j].gen = journal[i].gen)}}

(* Mutant: one past the generation of the record.                          *)
NextGenerationOfRecord == rec.gen + 1

NextGeneration ==
    Max({journal[i].gen : i \in 1..Len(journal)} \cup {rec.gen}) + 1

-----------------------------------------------------------------------------
(* Writing the journal.  A line without newline swallows the next one.     *)

Put(e) ==
    /\ journal' = CASE torn = "no" -> Append(journal, e)
                    [] torn = "part" -> journal
                    [] torn = "whole" -> Front(journal)
    /\ torn' = "no"

Entry(event, gen, target, thing, retire) ==
    [event |-> event, gen |-> gen, target |-> target, res |-> thing.res,
     known |-> thing.known, retire |-> retire]

NoThing == Thing(NoRes, FALSE, "none")
Plain(event) == Entry(event, p.gen, p.target, NoThing, {})

-----------------------------------------------------------------------------
(* Where a command is.  announce, kill and clear are the steps of a loop   *)
(* over todo: recover, rollback, undo, retire or destroy.                  *)

Go(at) == p' = [p EXCEPT !.at = at]
End(result) == p' = Idle(result)

Cur == CHOOSE x \in p.todo : \A y \in p.todo : x.res.k >= y.res.k
Known(resources, target) == {Thing(r, TRUE, target) : r \in resources}

AfterLoop(loop) ==
    CASE loop = "recover" -> "intents" [] loop \in {"rollback", "undo"} -> "rolled"
      [] loop = "retire" -> "done" [] loop = "destroy" -> "mark"

Round(loop, todo) ==
    IF todo = {} THEN AfterLoop(loop)
    ELSE IF loop \in {"retire", "destroy"} THEN "announce" ELSE "kill"

Loop(q, loop, todo) ==
    [q EXCEPT !.loop = loop, !.todo = todo, !.at = Round(loop, todo)]

Finished == Loop(p, p.loop, p.todo \ {Cur})

(* The resources of a generation, and the order in which a driver makes    *)
(* them: the proxy and then the runtime, or the route last of all.         *)
Res(k) == [n |-> n, k |-> k, gen |-> p.gen, target |-> p.target]
Made == {Res(1), Res(2)}

Plan(target) ==
    IF target = "local"
    THEN <<<<"touch", 1>>, <<"make", 1>>, <<"created", 1>>,
           <<"touch", 2>>, <<"make", 2>>, <<"created", 2>>>>
    ELSE <<<<"touch", 1>>, <<"touch", 2>>, <<"make", 2>>, <<"created", 2>>,
           <<"make", 1>>, <<"created", 1>>>>

Step == Plan(p.target)[p.i]
Handle == Thing(Res(Step[2]), Step[1] = "created" \/ p.target = "proxmox", p.target)
Touched == {x \in p.touched : x.res # Handle.res} \cup {Handle}
Onward(q) == [q EXCEPT !.i = @ + 1, !.at = IF q.i = 6 THEN "probe" ELSE "create"]

Superseded == IF p.old.status = "ready" THEN p.old.res ELSE {}

Writing ==
    \/ p.at \in {"announce", "clear", "rotate", "intent", "probe", "commit",
                 "rolled", "ended"}
    \/ p.at = "intents" /\ OpenIntents # {}
    \/ p.at = "create" /\ Step[1] # "make"

(* The entry that is due.                                                  *)
Due ==
    CASE p.at = "announce" ->
            IF p.loop = "retire"
            THEN Entry("retiring", p.gen, p.old.target, Cur, {})
            ELSE Entry("destroying", p.gen, p.target, Cur, {})
      [] p.at = "clear" ->
            Entry("cleared", IF p.loop = "recover" THEN 0 ELSE p.gen, p.target, Cur, {})
      [] p.at = "intents" -> Entry("rollback", Min(OpenIntents), "none", NoThing, {})
      [] p.at = "rotate" -> Plain("secrets_rotated")
      [] p.at = "intent" -> Plain("intent")
      [] p.at = "create" ->
            Entry(IF Step[1] = "touch" THEN "touching" ELSE "created",
                  p.gen, p.target, Handle, {})
      [] p.at = "probe" -> Plain("ready")
      [] p.at = "commit" -> Entry("commit", p.gen, p.target, NoThing, Superseded)
      [] p.at = "rolled" -> Plain("rollback")
      [] p.at = "ended" -> Plain("destroyed")

(* After it is written.                                                    *)
Written ==
    CASE p.at = "announce" -> Go("kill")
      [] p.at = "clear" -> p' = Finished
      [] p.at = "intents" -> Go("intents")
      [] p.at = "rotate" -> End("applied")
      [] p.at = "intent" -> p' = [p EXCEPT !.at = "create", !.i = 1]
      [] p.at = "create" -> p' = Onward([p EXCEPT !.touched = Touched])
      [] p.at = "probe" -> Go("record")
      [] p.at = "commit" -> p' = Loop(p, "retire", Known(Superseded, p.old.target))
      [] p.at = "rolled" -> End("failed")
      [] p.at = "ended" -> End("destroyed")

(* After it could not be written.                                          *)
Unwritten ==
    CASE p.at = "clear" /\ p.loop = "rollback" -> p' = Finished
      [] p.at = "create" -> p' = Loop([p EXCEPT !.touched = Touched], "rollback", Touched)
      [] p.at = "probe" -> p' = Loop(p, "rollback", Known(Made, p.target))
      [] OTHER -> End("failed")

(* A commit without its newline can be read until the next append, and is  *)
(* lost then, with what it says is to be retired.                          *)
LosesCommit == torn = "whole" /\ Last(journal).event = "commit"
ServingAfter == IF LosesCommit THEN {} ELSE serving
OffAfter == IF LosesCommit THEN off \cup Last(journal).retire ELSE off

(* The record and the commit together say which generation there is.       *)
Ghosts ==
    /\ serving' = IF p.at = "commit" THEN Made
                  ELSE IF p.at = "announce" /\ p.loop = "destroy" THEN {}
                  ELSE ServingAfter
    /\ off' = IF p.at = "commit" THEN off \ Superseded ELSE OffAfter

(* What there may be of an entry whose writing was cut short or failed.    *)
PutCut ==
    \/ UNCHANGED <<journal, torn, serving, off>>
    \/ /\ "part" \in Tears /\ torn' = "part"
       /\ journal' = IF torn = "whole" THEN Front(journal) ELSE journal
       /\ serving' = ServingAfter /\ off' = OffAfter
    \/ /\ "whole" \in Tears /\ torn = "no" /\ torn' = "whole"
       /\ journal' = Append(journal, Due)
       /\ Ghosts

Write ==
    /\ Writing
    /\ Put(Due) /\ Written /\ Ghosts
    /\ UNCHANGED <<rec, alive, n, faults>>

WriteFails ==
    /\ "write" \in Faults /\ Fault
    /\ Writing
    /\ Unwritten
    /\ (Put(Due) /\ Ghosts) \/ PutCut
    /\ UNCHANGED <<rec, alive, n>>

-----------------------------------------------------------------------------
(* The commands.                                                           *)

Begin(cmd, spec, target) ==
    /\ p.at = "idle" /\ n < MaxCommands
    /\ n' = n + 1
    /\ p' = LET q == [Idle("none") EXCEPT !.cmd = cmd, !.spec = spec,
                                          !.target = target]
            IN  IF Remains = {} THEN [q EXCEPT !.at = "look"]
                ELSE Loop(q, "recover", Remains)
    /\ UNCHANGED <<journal, torn, rec, alive, faults, serving, off>>

Apply(spec, target) == Begin("apply", spec, target)
Destroy == (journal # <<>> \/ torn # "no") /\ Begin("destroy", "none", "none")

Recovered ==
    /\ p.at = "intents" /\ OpenIntents = {}
    /\ Go("look")
    /\ UNCHANGED <<journal, torn, rec, alive, n, faults, serving, off>>

(* apply: what runs is as specified, except perhaps for its secrets; or a  *)
(* new generation is needed; or a secret cannot be resolved.               *)
LookApply ==
    /\ p.at = "look" /\ p.cmd = "apply"
    /\ IF /\ rec.status = "ready" /\ rec.spec = p.spec /\ rec.target = p.target
          /\ rec.res \subseteq alive
       THEN \/ End("applied")
            \/ p' = [p EXCEPT !.at = "rotate", !.gen = rec.gen]
       ELSE p' = [p EXCEPT !.at = "intent", !.gen = NextGeneration, !.old = rec]
    /\ UNCHANGED <<journal, torn, rec, alive, n, faults, serving, off>>

Refuse ==
    /\ p.at = "look" /\ p.cmd = "apply"
    /\ End("failed")
    /\ UNCHANGED <<journal, torn, rec, alive, n, faults, serving, off>>

Make ==
    /\ p.at = "create" /\ Step[1] = "make"
    /\ alive' = alive \cup {Res(Step[2])}
    /\ p' = Onward(p)
    /\ UNCHANGED <<journal, torn, rec, n, faults, serving, off>>

(* A local process runs whose pid is about to be journaled.                *)
Unnamed == p.target = "local" /\ Step[1] = "created" /\ Handle.res \in alive

(* The driver fails, or the runtime does not accept its first task.        *)
StartFails ==
    /\ \/ p.at = "create" /\ ~Unnamed /\ p' = Loop(p, "rollback", p.touched)
       \/ p.at \in {"probe", "record"}
          /\ p' = Loop(p, "rollback", Known(Made, p.target))
    /\ UNCHANGED <<journal, torn, rec, alive, n, faults, serving, off>>

NewRecord == [status |-> "ready", gen |-> p.gen, target |-> p.target,
              spec |-> p.spec, res |-> Made]

WriteRecord ==
    /\ p.at = "record"
    /\ rec' = NewRecord /\ off' = off \cup Superseded
    /\ Go("commit")
    /\ UNCHANGED <<journal, torn, alive, n, faults, serving>>

(* The new record is there or not; its resources are removed, and nothing  *)
(* is journaled as cleared.                                                *)
WriteRecordFails ==
    /\ "write" \in Faults /\ Fault
    /\ p.at = "record"
    /\ \/ rec' = NewRecord /\ off' = off \cup Superseded
       \/ UNCHANGED <<rec, off>>
    /\ p' = Loop(p, "undo", Known(Made, p.target))
    /\ UNCHANGED <<journal, torn, alive, n, serving>>

Committed ==
    /\ p.at = "done"
    /\ End("applied")
    /\ UNCHANGED <<journal, torn, rec, alive, n, faults, serving, off>>

LookDestroy ==
    /\ p.at = "look" /\ p.cmd = "destroy"
    /\ IF rec.status = "ready"
       THEN p' = Loop([p EXCEPT !.gen = rec.gen, !.target = rec.target],
                      "destroy", Known(rec.res, rec.target))
       ELSE End("destroyed")
    /\ UNCHANGED <<journal, torn, rec, alive, n, faults, serving, off>>

MarkDestroyed ==
    /\ p.at = "mark"
    /\ rec' = [rec EXCEPT !.status = "destroyed", !.res = {}]
    /\ Go("ended")
    /\ UNCHANGED <<journal, torn, alive, n, faults, serving, off>>

MarkFails ==
    /\ "write" \in Faults /\ Fault
    /\ p.at = "mark"
    /\ rec' \in {rec, [rec EXCEPT !.status = "destroyed", !.res = {}]}
    /\ End("failed")
    /\ UNCHANGED <<journal, torn, alive, n, serving, off>>

-----------------------------------------------------------------------------
(* Removing a resource.                                                    *)

Driver ==
    CASE p.loop = "recover" -> Cur.target [] p.loop = "retire" -> p.old.target
      [] OTHER -> p.target

(* The local driver knows processes only, and takes what has none for      *)
(* gone; the other one hands processes of this host to it.                 *)
Reaches(target, x) == x.known /\ x.res.target \in {"local", target}

AfterKill == IF p.loop = "undo" THEN p' = Finished ELSE Go("clear")

(* The driver that is asked does not know the resource.                    *)
Misdirected == Cur.known /\ ~Reaches(Driver, Cur)

Kill ==
    /\ p.at = "kill"
    /\ alive' = IF Reaches(Driver, Cur) THEN alive \ {Cur.res} ELSE alive
    /\ off' = IF Misdirected THEN off \cup {Cur.res} ELSE off
    /\ AfterKill
    /\ UNCHANGED <<journal, torn, rec, n, faults, serving>>

(* A rollback goes on all the same.                                        *)
KillFails ==
    /\ "remove" \in Faults /\ Fault
    /\ p.at = "kill" /\ Cur.res \in alive
    /\ alive' \in {alive, alive \ {Cur.res}}
    /\ IF p.loop \in {"rollback", "undo"} THEN AfterKill ELSE End("failed")
    /\ off' = IF p.loop = "rollback" THEN off \cup {Cur.res} ELSE off
    /\ UNCHANGED <<journal, torn, rec, n, serving>>

(* The command is killed.                                                  *)
Killed ==
    /\ "kill" \in Faults /\ Fault
    /\ p.at # "idle"
    /\ End("killed")
    /\ IF Writing THEN PutCut ELSE UNCHANGED <<journal, torn, serving, off>>
    /\ UNCHANGED <<rec, alive, n>>

(* A resource stops by itself.                                             *)
Exit ==
    /\ "exit" \in Faults /\ Fault
    /\ \E r \in alive : alive' = alive \ {r}
    /\ UNCHANGED <<journal, torn, rec, p, n, serving, off>>

Next ==
    \/ \E spec \in Specs, target \in Targets : Apply(spec, target)
    \/ Destroy \/ Recovered \/ LookApply \/ Refuse \/ Make \/ StartFails
    \/ WriteRecord \/ WriteRecordFails \/ Committed \/ LookDestroy
    \/ MarkDestroyed \/ MarkFails \/ Write \/ WriteFails \/ Kill \/ KillFails
    \/ Killed \/ Exit

Spec == Init /\ [][Next]_vars

-----------------------------------------------------------------------------
TypeOK ==
    /\ torn \in {"no"} \cup Tears
    /\ alive \subseteq Resource /\ serving \subseteq Resource /\ off \subseteq Resource
    /\ rec.status \in {"none", "ready", "destroyed"} /\ rec.res \subseteq Resource
    /\ rec.status # "ready" => rec.res = {}
    /\ \A x \in p.todo \cup p.touched : x.res \in Resource
    /\ n \in 0..MaxCommands /\ faults \in 0..MaxFaults
    /\ (p.at = "idle") = (p.cmd = "none")

(* A local process that was started and killed before its pid was          *)
(* journaled; engine/docs/agent-cli.md knows of it ("One gap is known").   *)
WithoutPid(r) ==
    /\ r.target = "local"
    /\ \A i \in 1..Len(journal) :
         ~(journal[i].event = "created" /\ journal[i].res = r)

Unrecorded ==
    LET remaining == {x.res : x \in Remains}
    IN  {r \in alive : /\ ~(rec.status = "ready" /\ r \in rec.res)
                       /\ r \notin remaining}

(* Whatever step a command is stopped at, every resource that exists is in *)
(* the record or among the remains, except those superseded by a record    *)
(* without commit, be it that the commit was never written or that it was  *)
(* cut off before its newline (durability.rs:57-59) and the next entry was *)
(* appended to it; those a rollback failed to remove; those of a target    *)
(* that the agent has left in an apply that was interrupted (Misdirected); *)
(* and processes without a pid.                                            *)
RecordedBut ==
    \A r \in Unrecorded : r \in off \/ WithoutPid(r)

(* engine/docs/agent-cli.md: "Remains from an interrupted run are cleared  *)
(* first".  After a command that succeeds, whatever was interrupted        *)
(* before, nothing exists but the committed generation, with the           *)
(* exceptions of RecordedBut.                                              *)
OnlyCommittedLeft ==
    p.result \in {"applied", "destroyed"} =>
        \A r \in alive : r \in rec.res \/ r \in off \/ WithoutPid(r)


(* next_generation: "a rolled-back generation number is never reused".  No *)
(* two applies have resources of the same generation.                      *)
FreshGenerations ==
    \A r, s \in alive : r.gen = s.gen => r.n = s.n

(* A command asks the driver of a resource's own target to remove it.      *)
(* Only what a commit has superseded is remembered with the target of the  *)
(* new generation (fabric.rs:470-477), so that the recovery after a move   *)
(* that was interrupted may take a guest for a process that is gone.       *)
RightDriver ==
    p.at = "kill" /\ Misdirected => p.loop = "recover" /\ Cur.target # Cur.res.target

(* engine/docs/agent-cli.md: "so a process killed at any point leaves      *)
(* every resource on record".                                              *)
EveryResourceOnRecord ==
    p.at = "idle" => \A r \in Unrecorded : WithoutPid(r)

(* What holds whenever a command is stopped, besides ServingKept.          *)
FabricSafety ==
    /\ TypeOK /\ RecordedBut /\ OnlyCommittedLeft /\ FreshGenerations
    /\ RightDriver
=============================================================================
