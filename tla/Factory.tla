------------------------------- MODULE Factory -------------------------------
(***************************************************************************)
(* A factory of the engine on one state directory (engine/src/runtime.rs,  *)
(* state.rs, process.rs, protocol.rs and the commands of main.rs): apply   *)
(* replaces the workers by those of a manifest, destroy and status read    *)
(* the state and write it back, send queues messages, and each worker, the *)
(* pod-process of a session, works off the inbox of its pod through an     *)
(* adapter that may answer anything, twice, or never.                      *)
(*                                                                         *)
(* The factory lock is held by apply throughout, and by the others for one *)
(* action here, except where an action says that it takes none.  A process *)
(* can be killed between two actions.  A session stands for the identity   *)
(* of its process (pid, group and start time).  Left out: the effect       *)
(* journal and the results of tool calls, which nothing but a repeated     *)
(* call of the same session reads, factory.read_state, the file of a       *)
(* message, which is written before its id is queued, and demo.            *)
(***************************************************************************)
EXTENDS Integers, FiniteSets, SequencesExt

CONSTANTS
    Pods,
    Manifests,      \* functions from some pods to launch fingerprints
    Requests,       \* ids of the messages that the operator sends
    To,             \* the pod of each request
    Destinations,   \* the pods that each pod may send to
    Limit,          \* ids that an inbox holds, 4096 in the code
    MaxSessions, MaxCommands, MaxFaults,    \* bounds
    None

VARIABLES
    state,          \* factory_state.json
    journal,        \* what recover_incomplete_apply reads of the journal
    inbox,          \* the ids queued for a pod, in order
    processed,      \* the markers of a pod
    terminals,      \* the terminal record of a message
    worker,         \* the pod-processes
    applier,        \* the apply that runs
    other,          \* the destroy or status that runs
    lost,           \* workers that a killed apply left off the record
    reverted,       \* whether a command wrote back another generation
    commands, faults

vars == <<state, journal, inbox, processed, terminals, worker, applier, other,
          lost, reverted, commands, faults>>
mail == <<inbox, processed, terminals>>
ghosts == <<lost, reverted>>

Sessions == 1..MaxSessions
NoState == [gen |-> 0, pods |-> <<>>]
Unborn == [at |-> "none", pod |-> None, gen |-> 0, msg |-> None]
Dead == [Unborn EXCEPT !.at = "dead"]
NeverReady == [Unborn EXCEPT !.at = "failed"]
NoApply == [at |-> "idle", manifest |-> <<>>, gen |-> 0, previous |-> {},
            todo |-> {}, pod |-> None, staged |-> <<>>, fresh |-> 0]
NoCommand == [op |-> "idle", seen |-> NoState]

EffectIdByCall(w, d) ==
    [from |-> worker[w].pod, for |-> worker[w].msg, to |-> d, call |-> w]

(* A message that a worker sends is named by its effect: the same pod,     *)
(* delivery and destination give the same id on a replay.                  *)
EffectId(w, d) ==
    [from |-> worker[w].pod, for |-> worker[w].msg, to |-> d, call |-> None]

Alive == {w \in Sessions : worker[w].at \notin {"none", "dead", "failed"}}
Locked == applier.at # "idle"

(* The sessions that a state names with a process (process_identity).      *)
Identities(s) ==
    {s.pods[q].session : q \in {r \in DOMAIN s.pods : s.pods[r].pid}}

(* The type invariant: an inbox holds an id once and at most Limit of them *)
(* (enqueue_message_locked), and a generation is cleaned up only when it   *)
(* was committed.                                                          *)
TypeOK ==
    /\ state.gen \in Nat /\ DOMAIN state.pods \subseteq Pods
    /\ \A q \in DOMAIN state.pods :
          /\ state.pods[q].session \in Sessions
          /\ state.pods[q].pid \in BOOLEAN
          /\ state.pods[q].status \in
                {"ready", "working", "persisted", "failed", "stopped"}
    /\ journal.spawned \cup journal.retiring \subseteq Sessions
    /\ journal.cleaned \subseteq journal.committed
    /\ journal.committed \subseteq journal.closed
    /\ \A q \in Pods : IsInjective(inbox[q]) /\ Len(inbox[q]) <= Limit
    /\ \A w \in Alive : worker[w].pod \in Pods
    /\ applier.at = "handshake" <=> applier.fresh # 0

Init ==
    /\ state = NoState
    /\ journal = [intent |-> 0, spawned |-> {}, retiring |-> {},
                  closed |-> {}, committed |-> {}, cleaned |-> {},
                  torn |-> FALSE]
    /\ inbox = [q \in Pods |-> <<>>]
    /\ processed = [q \in Pods |-> {}]
    /\ terminals = <<>>
    /\ worker = [w \in Sessions |-> Unborn]
    /\ applier = NoApply
    /\ other = NoCommand
    /\ lost = {} /\ reverted = FALSE
    /\ commands = 0 /\ faults = 0

Fault == faults < MaxFaults /\ faults' = faults + 1

(* stop_group: the pod-process has no handler, and dies of the SIGTERM;    *)
(* the result says whether its group was seen to be gone.                  *)
Stopped(ws) ==
    [w \in Sessions |-> IF w \in ws \cap Alive THEN Dead ELSE worker[w]]

-----------------------------------------------------------------------------
(* apply.                                                                  *)

Open == journal.intent # 0 /\ journal.intent \notin journal.closed
Unclean ==
    /\ journal.intent \in journal.committed
    /\ journal.intent \notin journal.cleaned

(* What the next recovery stops, and the line that it appends then.        *)
Leftover ==
    CASE Open -> journal.spawned
      [] Unclean -> journal.retiring
      [] OTHER -> {}

Recovered ==
    CASE Open -> [journal EXCEPT !.closed = @ \cup {journal.intent}]
      [] Unclean -> [journal EXCEPT !.cleaned = @ \cup {journal.intent}]
      [] OTHER -> journal

(* apply takes the lock and stops what is left over.  A line that a kill   *)
(* has torn does not parse, and then apply fails here for good.            *)
Apply(m) ==
    /\ ~Locked /\ commands < MaxCommands
    /\ Cardinality(DOMAIN m) <= Cardinality({w \in Sessions :
                                              worker[w] = Unborn})
    /\ ~journal.torn
    /\ worker' = Stopped(Leftover)
    /\ applier' = [NoApply EXCEPT !.at = "recovering", !.manifest = m]
    /\ commands' = commands + 1
    /\ UNCHANGED <<state, journal, mail, other, ghosts, faults>>

Recover ==
    /\ applier.at = "recovering"
    /\ journal' = Recovered
    /\ applier' = [applier EXCEPT !.at = "recovered"]
    /\ UNCHANGED <<state, mail, worker, other, ghosts, commands, faults>>

Unchanged(m) ==
    /\ DOMAIN state.pods = DOMAIN m
    /\ \A q \in DOMAIN m :
          /\ state.pods[q].fp = m[q]
          /\ state.pods[q].status # "failed"
          /\ state.pods[q].pid /\ state.pods[q].session \in Alive

(* apply returns if nothing changed, and else appends its intent.          *)
Decide ==
    /\ applier.at = "recovered"
    /\ IF Unchanged(applier.manifest)
       THEN applier' = NoApply /\ UNCHANGED journal
       ELSE /\ applier' = [applier EXCEPT
                             !.at = "staging", !.gen = state.gen + 1,
                             !.previous = Identities(state),
                             !.todo = DOMAIN applier.manifest]
            /\ journal' = [journal EXCEPT !.intent = state.gen + 1,
                                          !.spawned = {}, !.retiring = {}]
    /\ UNCHANGED <<state, mail, worker, other, ghosts, commands, faults>>

(* spawn_supervisor up to its wait for the ready file.                     *)
Spawn(q) ==
    /\ applier.at = "staging" /\ q \in applier.todo
    /\ \E w \in Sessions :
          /\ worker[w] = Unborn /\ \A v \in 1..(w - 1) : worker[v] # Unborn
          /\ worker' = [worker EXCEPT ![w] =
                          [Unborn EXCEPT !.at = "spawned", !.pod = q,
                                         !.gen = applier.gen]]
          /\ applier' = [applier EXCEPT !.at = "handshake", !.fresh = w,
                                        !.pod = q, !.todo = @ \ {q}]
    /\ UNCHANGED <<state, journal, mail, other, ghosts, commands, faults>>

(* The worker has been ready, and apply appends that it has spawned it: a  *)
(* worker that has died since can still have a start time to read.         *)
Stage ==
    /\ applier.at = "handshake"
    /\ worker[applier.fresh].at \notin {"spawned", "failed"}
    /\ journal' = [journal EXCEPT !.spawned = @ \cup {applier.fresh}]
    /\ applier' = [applier EXCEPT !.at = "staging", !.fresh = 0, !.pod = None,
                             !.staged = @ @@ (applier.pod :> applier.fresh)]
    /\ UNCHANGED <<state, mail, worker, other, ghosts, commands, faults>>

(* The worker exited, or was not ready in time: apply stops it and all     *)
(* that it has staged.  A worker that died after it was ready has no start *)
(* time to read, and then apply appends no rollback.                       *)
StageFails ==
    /\ applier.at = "handshake"
    /\ worker[applier.fresh].at \in {"spawned", "dead", "failed"}
    /\ worker' = Stopped(Range(applier.staged) \cup {applier.fresh})
    /\ journal' \in {[journal EXCEPT !.closed = @ \cup {applier.gen}]}
         \cup IF worker[applier.fresh] = Dead THEN {journal} ELSE {}
    /\ applier' = NoApply
    /\ UNCHANGED <<state, mail, other, ghosts, commands, faults>>

(* The append of Stage fails, whatever it has written: apply stops what it *)
(* has staged and returns.                                                 *)
AppendFails ==
    /\ applier.at = "handshake" /\ Fault
    /\ worker[applier.fresh].at \notin {"spawned", "failed"}
    /\ worker' = Stopped(Range(applier.staged) \cup {applier.fresh})
    /\ journal' \in
          {journal, [journal EXCEPT !.torn = TRUE],
           [journal EXCEPT !.spawned = @ \cup {applier.fresh}]}
    /\ applier' = NoApply
    /\ UNCHANGED <<state, mail, other, ghosts, commands>>

(* All are ready: apply appends which processes it is to stop.             *)
Retire ==
    /\ applier.at = "staging" /\ applier.todo = {}
    /\ journal' = [journal EXCEPT !.retiring = applier.previous]
    /\ applier' = [applier EXCEPT !.at = "publishing"]
    /\ UNCHANGED <<state, mail, worker, other, ghosts, commands, faults>>

(* The state of the new generation, all of whose pods are ready.           *)
NextState ==
    [gen |-> applier.gen,
     pods |-> [q \in DOMAIN applier.manifest |->
                 [session |-> applier.staged[q], fp |-> applier.manifest[q],
                  pid |-> TRUE, status |-> "ready"]]]

Publish ==
    /\ applier.at = "publishing"
    /\ state' = NextState
    /\ applier' = [applier EXCEPT !.at = "committing"]
    /\ UNCHANGED <<journal, mail, worker, other, ghosts, commands, faults>>

(* write_state fails: what was staged is stopped and rolled back.          *)
PublishFails ==
    /\ applier.at = "publishing" /\ Fault
    /\ worker' = Stopped(Range(applier.staged))
    /\ journal' = [journal EXCEPT !.closed = @ \cup {applier.gen}]
    /\ applier' = NoApply
    /\ UNCHANGED <<state, mail, other, ghosts, commands>>

Commit ==
    /\ applier.at = "committing"
    /\ journal' = [journal EXCEPT !.closed = @ \cup {applier.gen},
                                  !.committed = @ \cup {applier.gen}]
    /\ applier' = [applier EXCEPT !.at = "retiring"]
    /\ UNCHANGED <<state, mail, worker, other, ghosts, commands, faults>>

(* apply stops the processes of the previous state and appends cleanup.    *)
StopPrevious ==
    /\ applier.at = "retiring"
    /\ worker' = Stopped(applier.previous)
    /\ applier' = [applier EXCEPT !.at = "cleaning"]
    /\ UNCHANGED <<state, journal, mail, other, ghosts, commands, faults>>

Cleanup ==
    /\ applier.at = "cleaning"
    /\ journal' = [journal EXCEPT !.cleaned = @ \cup {applier.gen}]
    /\ applier' = NoApply
    /\ UNCHANGED <<state, mail, worker, other, ghosts, commands, faults>>

(* Where the next thing that apply does is to append a line.               *)
Appending ==
    \/ applier.at = "recovering" /\ (Open \/ Unclean)
    \/ applier.at = "recovered" /\ ~Unchanged(applier.manifest)
    \/ applier.at = "handshake" /\ worker[applier.fresh].at # "spawned"
    \/ applier.at = "staging" /\ applier.todo = {}
    \/ applier.at \in {"committing", "cleaning"}

(* apply is killed, or fails to append any other line and returns: it      *)
(* leaves all as it is, or with half of that line.  The workers that it    *)
(* loses are the one that it has not journaled, those staged under a       *)
(* generation that an earlier apply closed, and the previous ones if the   *)
(* state was written and the commit was not, or if an earlier apply has    *)
(* cleaned up a generation of the same number.                             *)
Kill ==
    /\ Locked /\ Fault
    /\ applier' = NoApply
    /\ \/ UNCHANGED journal
       \/ Appending /\ journal' = [journal EXCEPT !.torn = TRUE]
    /\ lost' = lost \cup
         (Alive \cap
            (CASE applier.at \in {"staging", "handshake", "publishing"} ->
                    {applier.fresh} \cup
                    IF Open THEN {} ELSE Range(applier.staged)
               [] applier.at = "committing" -> applier.previous
               [] applier.at \in {"retiring", "cleaning"} ->
                    IF Unclean THEN {} ELSE applier.previous
               [] OTHER -> {}))
    /\ UNCHANGED <<state, mail, worker, other, reverted, commands>>

-----------------------------------------------------------------------------
(* send, destroy and status.                                               *)

(* enqueue_message_locked: an id is queued once, and never taken out.      *)
Queued(id, d) ==
    inbox' = IF Contains(inbox[d], id) THEN inbox
             ELSE [inbox EXCEPT ![d] = Append(@, id)]

Admitted(id, d) ==
    /\ d \in DOMAIN state.pods
    /\ Contains(inbox[d], id) \/ Len(inbox[d]) < Limit

Send(r) ==
    /\ ~Locked
    /\ Admitted(r, To[r]) /\ ~Contains(inbox[To[r]], r)
    /\ Queued(r, To[r])
    /\ UNCHANGED <<state, journal, processed, terminals, worker, applier,
                   other, ghosts, commands, faults>>

(* Both commands read the state without the lock.                          *)
Look(op) ==
    /\ other = NoCommand /\ commands < MaxCommands
    /\ state # NoState
    /\ other' = [op |-> op, seen |-> state]
    /\ commands' = commands + 1
    /\ UNCHANGED <<state, journal, mail, worker, applier, ghosts, faults>>

(* The state that was read is written back, over whatever is there.        *)
WriteBack(s) ==
    /\ state' = s
    /\ reverted' = (reverted \/ state.gen # other.seen.gen)
    /\ UNCHANGED lost

Destroy ==
    /\ other.op = "destroy" /\ ~Locked
    /\ worker' = Stopped(Identities(other.seen))
    /\ WriteBack([other.seen EXCEPT !.pods =
                    [q \in DOMAIN @ |-> [@[q] EXCEPT !.pid = FALSE,
                                                     !.status = "stopped"]]])
    /\ other' = NoCommand
    /\ UNCHANGED <<journal, mail, applier, commands, faults>>

(* A group was not seen to be gone, or destroy is killed: some workers are *)
(* stopped and the state is not written.                                   *)
DestroyFails ==
    /\ other.op = "destroy" /\ ~Locked /\ Fault
    /\ \E ws \in SUBSET Identities(other.seen) : worker' = Stopped(ws)
    /\ other' = NoCommand
    /\ UNCHANGED <<state, journal, mail, applier, ghosts, commands>>

(* refresh, and write_state without the lock if a process has exited.      *)
Refreshed(s) ==
    [s EXCEPT !.pods =
       [q \in DOMAIN @ |->
          IF @[q].pid /\ @[q].session \notin Alive
          THEN [@[q] EXCEPT !.pid = FALSE, !.status = "failed"]
          ELSE @[q]]]

Status ==
    /\ other.op = "status"
    /\ IF Refreshed(other.seen) # other.seen
       THEN WriteBack(Refreshed(other.seen))
       ELSE UNCHANGED <<state, ghosts>>
    /\ other' = NoCommand
    /\ UNCHANGED <<journal, mail, worker, applier, commands, faults>>

-----------------------------------------------------------------------------
(* command_pod_process, the worker of a session.                           *)

Fenced(w) ==
    LET q == worker[w].pod
    IN  /\ state.gen = worker[w].gen /\ q \in DOMAIN state.pods
        /\ state.pods[q].session = w

Move(w, to) == worker' = [worker EXCEPT ![w].at = to]
Exit(w) == worker' = [worker EXCEPT ![w] = Dead]

SetStatus(w, s) ==
    state' = [state EXCEPT !.pods[worker[w].pod].status = s]

rest == <<journal, applier, other, ghosts, commands, faults>>

(* update_pod_delivery: a worker of another generation or session exits.   *)
Update(w, from, to, status) ==
    /\ worker[w].at = from /\ ~Locked
    /\ \/ Fenced(w) /\ SetStatus(w, status) /\ Move(w, to)
       \/ ~Fenced(w) /\ Exit(w) /\ UNCHANGED state
    /\ UNCHANGED <<mail, rest>>

(* The hello of the adapter is answered and the ready file written.        *)
Greet(w) ==
    /\ worker[w].at = "spawned" /\ Move(w, "ready")
    /\ UNCHANGED <<state, mail, rest>>

(* The first id of the inbox without a marker, read without the lock.      *)
Pick(w) ==
    LET q == worker[w].pod
        new(id) == id \notin processed[q]
        left == SelectSeq(inbox[q], new)
    IN  /\ worker[w].at = "ready" /\ left # <<>>
        /\ worker' = [worker EXCEPT ![w].at = "picked", ![w].msg = Head(left)]
        /\ UNCHANGED <<state, mail, rest>>

(* The delivery is recorded, and the adapter is sent the request.          *)
Begin(w) == Update(w, "picked", "turn", "working")

(* A tool call: execute_tool with pod.send_message, by authorize_send to a *)
(* destination of the pod.  A worker whose call is refused exits.          *)
Call(w, d) ==
    LET id == EffectId(w, d)
        granted == /\ d \in Destinations[worker[w].pod]
                   /\ Fenced(w) /\ Admitted(id, d)
    IN  /\ worker[w].at = "turn" /\ ~Locked
        /\ \/ granted /\ Queued(id, d) /\ UNCHANGED worker
           \/ ~granted /\ Exit(w) /\ UNCHANGED inbox
        /\ UNCHANGED <<state, processed, terminals, rest>>

(* A terminal frame: assert_worker_identity.                               *)
Answer(w) ==
    /\ worker[w].at = "turn" /\ ~Locked
    /\ \/ /\ Fenced(w)
          /\ Move(w, "answered")
       \/ ~Fenced(w) /\ Exit(w)
    /\ UNCHANGED <<state, mail, rest>>

(* atomic_create of the terminal record, without the lock: a record that   *)
(* exists is kept.                                                         *)
Persist(w) ==
    /\ worker[w].at = "answered"
    /\ terminals' = terminals @@ (worker[w].msg :> w)
    /\ Move(w, "persisted")
    /\ UNCHANGED <<state, inbox, processed, rest>>

Persisted(w) == Update(w, "persisted", "marking", "persisted")

MarkUnfenced(w) ==
    /\ worker[w].at = "marking" /\ ~Locked
    /\ Move(w, "marked")
    /\ processed' = [processed EXCEPT ![worker[w].pod] =
                       @ \cup {worker[w].msg}]
    /\ UNCHANGED <<state, inbox, terminals, rest>>

(* mark_processed.                                                         *)
Mark(w) ==
    /\ worker[w].at = "marking" /\ ~Locked
    /\ \/ /\ Fenced(w) /\ Move(w, "marked")
          /\ processed' = [processed EXCEPT ![worker[w].pod] =
                             @ \cup {worker[w].msg}]
       \/ ~Fenced(w) /\ Exit(w) /\ UNCHANGED processed
    /\ UNCHANGED <<state, inbox, terminals, rest>>

Completed(w) ==
    /\ worker[w].at = "marked" /\ ~Locked
    /\ \/ /\ Fenced(w) /\ SetStatus(w, "ready")
          /\ worker' = [worker EXCEPT ![w].at = "ready", ![w].msg = None]
       \/ ~Fenced(w) /\ Exit(w) /\ UNCHANGED state
    /\ UNCHANGED <<mail, rest>>

(* No terminal frame before the deadline of the turn.                      *)
TimeOut(w) ==
    /\ worker[w].at = "turn" /\ ~Locked
    /\ Exit(w)
    /\ \/ Fenced(w) /\ SetStatus(w, "failed")
       \/ ~Fenced(w) /\ UNCHANGED state
    /\ UNCHANGED <<mail, rest>>

(* The adapter exits or breaks the protocol, or the worker is killed.      *)
Die(w) ==
    /\ w \in Alive /\ Fault
    /\ worker' = [worker EXCEPT ![w] = IF worker[w].at = "spawned"
                                      THEN NeverReady ELSE Dead]
    /\ UNCHANGED <<state, mail, journal, applier, other, ghosts, commands>>

Work(w) ==
    \/ Greet(w) \/ Pick(w) \/ Begin(w) \/ Persist(w) \/ Persisted(w)
    \/ Answer(w) \/ Mark(w) \/ Completed(w) \/ TimeOut(w)

ApplyStep ==
    \/ Recover \/ Decide \/ Stage \/ StageFails \/ AppendFails \/ Retire
    \/ Publish \/ PublishFails \/ Commit \/ StopPrevious \/ Cleanup
    \/ \E q \in Pods : Spawn(q)

Next ==
    \/ \E m \in Manifests : Apply(m)
    \/ ApplyStep \/ Kill
    \/ \E r \in Requests : Send(r)
    \/ \E op \in {"destroy", "status"} : Look(op)
    \/ Destroy \/ DestroyFails \/ Status
    \/ \E w \in Sessions :
          Work(w) \/ Die(w) \/ \E d \in Pods : Call(w, d)

Spec == Init /\ [][Next]_vars

-----------------------------------------------------------------------------
(* A worker that runs is named by the state, by what the next recovery     *)
(* stops or by the apply that runs ("Apply, restart, and destroy leave no  *)
(* orphan worker", docs/plans/2026-08-21-agent-engine-workers.md), unless  *)
(* a killed apply lost it in one of the windows of Kill or tore a line of  *)
(* the journal, or a destroy or a status wrote the state of another        *)
(* generation back.                                                        *)
OnRecordBut ==
    \/ reverted \/ journal.torn
    \/ Alive \subseteq
        Identities(state) \cup Leftover \cup lost
          \cup applier.previous \cup Range(applier.staged) \cup {applier.fresh}

(* Messages are completed in the order in which they were queued, through  *)
(* every restart: a delivery that fails is not passed over.                *)
ProcessedInOrder ==
    \A q \in Pods : \A i, j \in 1..Len(inbox[q]) :
        i < j /\ inbox[q][j] \in processed[q] => inbox[q][i] \in processed[q]

(* "Rust persists a terminal result before it marks the source delivery    *)
(* complete" (engine/README.md), whichever sessions wrote the two.         *)
ProcessedHasTerminal ==
    \A q \in Pods : processed[q] \subseteq DOMAIN terminals

(* "The first durable terminal is the truth" (command_pod_process):        *)
(* another answer to the same message, also of a worker that has been      *)
(* superseded since it was found current, never replaces it.               *)
TerminalKept ==
    [][\A m \in DOMAIN terminals :
          m \in DOMAIN terminals' /\ terminals'[m] = terminals[m]]_vars

(* "Two identical send_message effects for the same delivery are the same  *)
(* effect and collapse to one" (execute_tool), in whichever session.       *)
EffectOnce ==
    \A q \in Pods : \A i, j \in 1..Len(inbox[q]) :
        /\ inbox[q][i] \notin Requests /\ inbox[q][j] \notin Requests
        /\ inbox[q][i].from = inbox[q][j].from
        /\ inbox[q][i].for = inbox[q][j].for
        => i = j

(* An adapter is not sent a message that is already complete, although the *)
(* worker looks for the marker without the lock, unless a destroy or a     *)
(* status has brought an earlier generation back.                          *)
NotRepeated ==
    [][\A w \in Sessions :
          worker[w].at = "picked" /\ worker'[w].at = "turn" =>
              reverted \/ worker[w].msg \notin processed[worker[w].pod]]_vars

(* Only a worker that the state names with its process completes a message *)
(* or sends one: what a superseded worker still runs has no effect.        *)
OnlyServingActs ==
    [][\A q \in Pods :
         /\ \A m \in processed'[q] \ processed[q] :
               \E w \in Alive \cap Identities(state) :
                  worker[w].pod = q /\ worker[w].msg = m
         /\ inbox'[q] # inbox[q] /\ Last(inbox'[q]) \notin Requests =>
               \E w \in Alive \cap Identities(state) :
                  /\ worker[w].pod = Last(inbox'[q]).from
                  /\ worker[w].msg = Last(inbox'[q]).for]_vars

(* "Apply stages and handshakes replacements before publishing a           *)
(* generation and retiring old process groups" (docs/agent-worker-v1.md):  *)
(* an apply stops no worker of the current state before it retires them,   *)
(* except one that recovers a generation whose state was written and whose *)
(* commit was not.                                                         *)
ServingKept ==
    [][/\ applier' # applier /\ applier.at # "retiring"
       /\ ~(~Locked /\ Open /\ state.gen = journal.intent)
       => Identities(state) \cap Alive \subseteq Alive']_vars

(* All of these at once: what holds of workers, mail and effects whenever  *)
(* a command or a worker is stopped.                                       *)
FactorySafety ==
    /\ TypeOK /\ OnRecordBut /\ ProcessedInOrder /\ ProcessedHasTerminal
    /\ EffectOnce

(* What no step of a command or a worker does.                             *)
FactorySteps ==
    /\ TerminalKept /\ NotRepeated /\ OnlyServingActs /\ ServingKept
=============================================================================
