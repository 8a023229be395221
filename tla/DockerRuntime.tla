---------------------------- MODULE DockerRuntime ----------------------------
(***************************************************************************)
(* The transient Docker resources of one deployment (start, agent          *)
(* executions, verification, cancel and close of src/docker-runtime.mjs):  *)
(* two networks, the gateway, the bootstrap, the health probe and one      *)
(* container for each execution, all of them labelled so that the next     *)
(* start finds strays.                                                     *)
(*                                                                         *)
(* A controller process makes one DockerRuntime (a life); a process that   *)
(* dies leaves what Docker runs.  Executions overlap: the writers of a pod *)
(* and the proposers of the organizer run at once.  One action is one      *)
(* Docker command from its issue to its return; a command that fails, runs *)
(* into its deadline or is aborted may have taken effect, by the time it   *)
(* returns; what Docker does for it later is left out.                     *)
(***************************************************************************)
EXTENDS Integers, FiniteSets

CONSTANTS
    Ops,         \* the executions of a life: agents, verifiers and suites
    Verifiers,   \* those of verify(), which remove their container first
    Candidate,   \* the two suites of verifySource(): the baseline is run
    Baseline,    \* after a candidate suite that passed
    MaxLives,    \* bound: controller processes, one after the other
    MaxWorking,  \* bound: those of them that execute anything
    MaxFaults    \* bound: failed commands and crashes

ASSUME DockerAssumption ==
    /\ Verifiers \subseteq Ops \ {Candidate, Baseline}
    /\ {Candidate, Baseline} \subseteq Ops
    /\ MaxLives \in Nat /\ MaxWorking \in Nat /\ MaxFaults \in Nat

VARIABLES
    docker,         \* what Docker has: for each container and network the
                    \* life that created it (0: none), and what is running
    life,
    st,             \* start(): the command it is at
    op,             \* each execution: the command it is at
    attempted,      \* agentNetworkCreated, egressNetworkCreated,
                    \* proxyCreateAttempted
    active,         \* activeContainers
    activeAtClose,
    cancelled,
    closing,        \* close(): where it is
    misses,         \* clean-up of this life that failed: the executions
                    \* whose finally block failed while close() settled,
                    \* "probe" for a health probe that was cut off and has
                    \* no name to remove it by, "lost" for any other
    faults

vars == <<docker, life, st, op, attempted, active, activeAtClose, cancelled,
          closing, misses, faults>>

containers == docker.containers
running    == docker.running
networks   == docker.networks

Names == {"bootstrap", "gateway", "probe"} \cup Ops
Networks == {"agents", "egress"}
Attempts == Networks \cup {"gateway"}
Starting == {"strays", "nets", "bootstrap", "agents", "egress", "gateway",
             "connect", "health"}
InCommand == {"create", "run", "remove"}

TypeOK ==
    /\ docker \in [containers : [Names -> 0..MaxLives],
                   running : SUBSET {n \in Names : containers[n] # 0},
                   networks : [Networks -> 0..MaxLives]]
    /\ life \in 0..MaxLives
    /\ st \in Starting \cup {"up", "failing", "over"}
    /\ op \in [Ops -> InCommand \cup {"idle", "prepare", "passed", "sweep",
                                     "done"}]
    /\ attempted \in SUBSET Attempts
    /\ active \in SUBSET Names /\ activeAtClose \in SUBSET Names
    /\ cancelled \in BOOLEAN
    /\ closing \in {"no", "settling", "active", "gateway", "networks", "closed"}
    /\ misses \in SUBSET (Ops \cup {"probe", "lost"}) /\ faults \in 0..MaxFaults

Init ==
    /\ docker = [containers |-> [n \in Names |-> 0], running |-> {},
                 networks |-> [n \in Networks |-> 0]]
    /\ life = 0 /\ st = "over"
    /\ op = [o \in Ops |-> "done"]
    /\ attempted = {} /\ active = {} /\ activeAtClose = {}
    /\ cancelled = FALSE /\ closing = "closed"
    /\ misses = {} /\ faults = 0

Fault == faults < MaxFaults /\ faults' = faults + 1

InFlight == st \in Starting \/ \E o \in Ops : op[o] \in InCommand
AtRest   == \A o \in Ops : op[o] \in {"idle", "done"}

(* The containers on each network; the others have none.                   *)
On(net) ==
    IF net = "egress" THEN {"gateway"}
    ELSE {"gateway", "probe"} \cup (Ops \ (Verifiers \cup {Candidate, Baseline}))

(* Docker after create, start and rm -f of a name, and after network rm:   *)
(* a network with a running container on it stays.                         *)
With(n)    == [docker EXCEPT !.containers[n] = life]
Up(n)      == [docker EXCEPT !.running = @ \cup ({n} \ {x \in Names : containers[x] = 0})]
Without(n) == [docker EXCEPT !.containers[n] = 0, !.running = @ \ {n}]
WithoutNetworks(nets) ==
    [docker EXCEPT !.networks = [n \in Networks |->
                     IF n \in nets /\ running \cap On(n) = {} THEN 0 ELSE @[n]]]

(* Mutant: cancel() has no listener to abort the command with.             *)
ThrowsOnlyByItself == Fault

(* commandWithin throws: the command failed, ran out of time or was        *)
(* aborted by cancel().                                                    *)
Throws == (cancelled /\ UNCHANGED faults) \/ Fault

(* cleanupCommand(["rm", "-f", n]): never stopped by cancel(), every error *)
(* swallowed.                                                              *)
Remove(n) ==
    \/ docker' = Without(n) /\ UNCHANGED <<misses, faults>>
    \/ /\ Fault
       /\ misses' = misses \cup {IF closing = "settling" THEN n ELSE "lost"}
       /\ docker' \in {docker, Without(n)}

-----------------------------------------------------------------------------
(* start().                                                                *)

NewRuntime ==
    /\ life < MaxLives /\ closing = "closed" /\ st = "over" /\ AtRest
    /\ life' = life + 1
    /\ st' = "strays"
    /\ op' = [o \in Ops |-> "idle"]
    /\ attempted' = {} /\ active' = {} /\ activeAtClose' = {}
    /\ cancelled' = FALSE /\ closing' = "no" /\ misses' = {}
    /\ UNCHANGED <<docker, faults>>

(* What the command of start() at this point does to Docker.               *)
Effect ==
    CASE st = "strays"  -> [docker EXCEPT !.containers = [n \in Names |-> 0],
                                          !.running = {}]
      [] st = "nets"    -> WithoutNetworks(Networks)
      [] st \in Networks -> [docker EXCEPT !.networks[st] = life]
      [] st = "gateway" -> With("gateway")
      [] st = "connect" -> Up("gateway")
      [] OTHER          -> docker

After ==
    CASE st = "strays" -> {"nets"}
      [] st = "nets" -> {"bootstrap", "agents"}    \* a pod skips bootstrap
      [] st = "bootstrap" -> {"agents"}
      [] st = "agents" -> {"egress"}
      [] st = "egress" -> {"gateway"}
      [] st = "gateway" -> {"connect"}
      [] st = "connect" -> {"health"}
      [] st = "health" -> {"up"}

(* Names and flags are noted before the command they are about is issued.  *)
Noted(next) ==
    /\ attempted' = attempted \cup ({next} \cap Attempts)
    /\ active' = (active \ {"bootstrap"}) \cup ({next} \cap {"bootstrap"})

StartCommand ==
    /\ st \in Starting /\ ~cancelled
    /\ docker' = Effect
    /\ \E next \in After : st' = next /\ Noted(next)
    /\ UNCHANGED <<life, op, activeAtClose, cancelled, closing, misses, faults>>

(* The bootstrap and the health probes are docker run --rm: cut off, the   *)
(* container may be left, created or running.                              *)
CutOff ==
    LET n == IF st = "health" THEN "probe" ELSE "bootstrap"
    IN IF st \in {"bootstrap", "health"}
       THEN {docker, With(n), [With(n) EXCEPT !.running = @ \cup {n}]}
       ELSE {docker}

StartFails ==
    /\ st \in Starting /\ Throws
    /\ docker' \in CutOff \cup {Effect}
    /\ st' = "failing"
    /\ misses' = IF containers'["probe"] = life THEN misses \cup {"probe"}
                 ELSE misses
    /\ UNCHANGED <<life, op, attempted, active, activeAtClose, cancelled,
                   closing>>

(* A health probe that is left running ends by itself and is removed.      *)
ProbeEnds ==
    /\ "probe" \in running /\ docker' = Without("probe")
    /\ UNCHANGED <<life, st, op, attempted, active, activeAtClose, cancelled,
                   closing, misses, faults>>

-----------------------------------------------------------------------------
(* #runAgentExecution, runSuite of verifySource, and verify.               *)

Begin(o) ==
    /\ st = "up" /\ op[o] = "idle" /\ o # Baseline /\ closing = "no"
    /\ life <= MaxWorking
    /\ op' = [op EXCEPT ![o] = IF cancelled THEN "done" ELSE "prepare"]
    /\ UNCHANGED <<docker, life, st, attempted, active, activeAtClose,
                   cancelled, closing, misses, faults>>

(* After the awaits on the attempt's files: note the name, issue create.   *)
Issue(o) ==
    /\ op[o] = "prepare"
    /\ active' = active \cup {o}
    /\ op' = [op EXCEPT ![o] = IF cancelled THEN "sweep" ELSE "create"]
    /\ UNCHANGED <<docker, life, st, attempted, activeAtClose, cancelled,
                   closing, misses, faults>>

CreateContainer(o) ==
    /\ op[o] = "create"
    /\ \/ /\ ~cancelled /\ docker' = With(o)
          /\ op' = [op EXCEPT ![o] = "run"]
          /\ UNCHANGED faults
       \/ /\ Throws /\ docker' \in {docker, With(o)}
          /\ op' = [op EXCEPT ![o] = "sweep"]
    /\ UNCHANGED <<life, st, attempted, active, activeAtClose,
                   cancelled, closing, misses>>

(* docker start -ai: the container is up until it exits or is cut off.     *)
RunContainer(o) ==
    /\ op[o] = "run"
    /\ \/ /\ ~cancelled /\ UNCHANGED <<docker, faults>>
          /\ op' = [op EXCEPT ![o] = IF o \in Verifiers THEN "remove"
                                     ELSE "passed"]
       \/ /\ Throws /\ docker' \in {docker, Up(o)}
          /\ op' = [op EXCEPT ![o] = "sweep"]
    /\ UNCHANGED <<life, st, attempted, active, activeAtClose, cancelled,
                   closing, misses>>

(* verify() removes its container by an ordinary command before it copies  *)
(* the output; only if that fails is the finally block to try again.       *)
RemoveVerifier(o) ==
    /\ op[o] = "remove"
    /\ \/ /\ ~cancelled /\ docker' = Without(o)
          /\ op' = [op EXCEPT ![o] = "done"] /\ active' = active \ {o}
          /\ UNCHANGED faults
       \/ /\ Throws /\ docker' \in {docker, Without(o)}
          /\ op' = [op EXCEPT ![o] = "sweep"] /\ UNCHANGED active
    /\ UNCHANGED <<life, st, attempted, activeAtClose, cancelled, closing,
                   misses>>

(* The finally block; verifySource() then goes on with its other suite,    *)
(* whether or not the container is gone.                                   *)
Sweep(o) ==
    /\ op[o] \in {"passed", "sweep"}
    /\ Remove(o)
    /\ active' = active \ {o}
    /\ op' = IF o = Candidate /\ op[o] = "passed"
             THEN [op EXCEPT ![o] = "done", ![Baseline] = "prepare"]
             ELSE [op EXCEPT ![o] = "done"]
    /\ UNCHANGED <<life, st, attempted, activeAtClose, cancelled, closing>>

-----------------------------------------------------------------------------
(* cancel() and close().                                                   *)

(* Mutant: close() forgets the names that were active when it began.       *)
CancelForgetsActive ==
    /\ st # "over" /\ ~cancelled
    /\ cancelled' = TRUE
    /\ IF closing = "no"
       THEN closing' = "settling" /\ activeAtClose' = {}
       ELSE UNCHANGED <<closing, activeAtClose>>
    /\ UNCHANGED <<docker, life, st, op, attempted, active, misses, faults>>

Cancel ==
    /\ st # "over" /\ ~cancelled
    /\ cancelled' = TRUE
    /\ IF closing = "no"
       THEN closing' = "settling" /\ activeAtClose' = active
       ELSE UNCHANGED <<closing, activeAtClose>>
    /\ UNCHANGED <<docker, life, st, op, attempted, active, misses, faults>>

(* close() of a runtime that is not cancelled: start() failed, or the      *)
(* controller is through.                                                  *)
CloseQuietly ==
    /\ closing = "no" /\ ~cancelled
    /\ st = "failing" \/ (st = "up" /\ AtRest)
    /\ closing' = "active" /\ activeAtClose' = active
    /\ UNCHANGED <<docker, life, st, op, attempted, active, cancelled, misses,
                   faults>>

(* Mutant: close() does not wait for the aborted commands of executions.   *)
SettledAtOnce ==
    /\ closing = "settling" /\ st \notin Starting
    /\ closing' = "active" /\ active' = active \cup activeAtClose
    /\ UNCHANGED <<docker, life, st, op, attempted, activeAtClose, cancelled,
                   misses, faults>>

(* Promise.allSettled over the commands that cancel() aborted.             *)
Settled ==
    /\ closing = "settling" /\ ~InFlight
    /\ closing' = "active" /\ active' = active \cup activeAtClose
    /\ UNCHANGED <<docker, life, st, op, attempted, activeAtClose, cancelled,
                   misses, faults>>

CloseActive ==
    /\ closing = "active"
    /\ IF active = {}
       THEN closing' = "gateway" /\ UNCHANGED <<docker, active, misses, faults>>
       ELSE \E n \in active :
              Remove(n) /\ active' = active \ {n} /\ UNCHANGED closing
    /\ UNCHANGED <<life, st, op, attempted, activeAtClose, cancelled>>

CloseGateway ==
    /\ closing = "gateway"
    /\ IF "gateway" \in attempted
       THEN Remove("gateway") ELSE UNCHANGED <<docker, misses, faults>>
    /\ attempted' = attempted \ {"gateway"}
    /\ closing' = "networks"
    /\ UNCHANGED <<life, st, op, active, activeAtClose, cancelled>>

CloseNetworks ==
    /\ closing = "networks"
    /\ \/ docker' = WithoutNetworks(attempted) /\ UNCHANGED <<misses, faults>>
       \/ /\ Fault /\ misses' = misses \cup {"lost"}
          /\ \E some \in SUBSET attempted : docker' = WithoutNetworks(some)
    /\ attempted' = {}
    /\ closing' = "closed"
    /\ UNCHANGED <<life, st, op, active, activeAtClose, cancelled>>

(* The controller's finally block awaits close(), after start() or the     *)
(* workflow has thrown or returned: the process ends.                      *)
Exit ==
    /\ closing = "closed" /\ st \in {"up", "failing"} /\ AtRest
    /\ st' = "over"
    /\ UNCHANGED <<docker, life, op, attempted, active, activeAtClose,
                   cancelled, closing, misses, faults>>

(* The process or its container dies; a container that was running stays.  *)
Crash ==
    /\ st # "over" /\ Fault
    /\ st' = "over" /\ closing' = "closed"
    /\ op' = [o \in Ops |-> "done"]
    /\ \E up \in SUBSET {o \in Ops : op[o] = "run" /\ containers[o] # 0},
          left \in CutOff :
         docker' = [left EXCEPT !.running = @ \cup up]
    /\ UNCHANGED <<life, attempted, active, activeAtClose, cancelled, misses>>

Step ==
    \/ StartCommand \/ StartFails
    \/ \E o \in Ops : \/ Issue(o) \/ CreateContainer(o) \/ RunContainer(o)
                      \/ RemoveVerifier(o) \/ Sweep(o)
    \/ Settled \/ CloseActive \/ CloseGateway \/ CloseNetworks \/ Exit
    \/ (st = "failing" /\ CloseQuietly)

Next ==
    \/ NewRuntime \/ Step \/ Cancel \/ CloseQuietly \/ Crash \/ ProbeEnds
    \/ \E o \in Ops : Begin(o)

(* Commands are bounded by deadlines, clean-up by a deadline of its own.   *)
Spec == Init /\ [][Next]_vars /\ WF_vars(Step)

-----------------------------------------------------------------------------
(* When close() is through and the executions have ended, nothing that     *)
(* this runtime created under a name is left in Docker, however many       *)
(* commands failed with or without effect or were aborted: names and flags *)
(* are noted before the command they are about.  A finally block may even  *)
(* fail to remove its container while close() waits for the aborted        *)
(* commands: close() has kept the name (docker-runtime.mjs:1668, 1671).    *)
(* A health probe that was cut off may be left, and with it the network of *)
(* the agents, which cannot be removed while it runs (1093-1103, 1702).    *)
(* Any other clean-up that fails may leave something.                      *)
CloseLeavesNothing ==
    closing = "closed" /\ st \in {"up", "failing"} /\ AtRest
        /\ "lost" \notin misses
        => /\ \A n \in Names \ {"probe"} : containers[n] # life
           /\ networks["egress"] # life
           /\ life \in {containers["probe"], networks["agents"]} =>
                "probe" \in misses

(* Once close() is through, its runtime creates no container and no        *)
(* network and starts nothing: close() after cancel() waits for the        *)
(* aborted commands to end (docker-runtime.mjs:1670).                      *)
NothingAfterClose ==
    [][closing = "closed" /\ life' = life /\ st # "over" /\ st' # "over"
         => /\ \A n \in Names : containers[n] = 0 => containers'[n] = 0
            /\ \A n \in Networks : networks[n] = 0 => networks'[n] = 0
            /\ running' \subseteq running]_vars

(* A runtime that has come up works among containers and networks of its   *)
(* own: whatever earlier processes left, when they died or with a health   *)
(* probe they could not name, was removed by reconcileTransientResources.  *)
UpWithoutStrays ==
    st = "up" => /\ \A n \in Names : containers[n] \in {0, life}
                 /\ \A n \in Networks : networks[n] \in {0, life}

(* A cancelled runtime closes and its process ends.                        *)
CancelEnds == cancelled /\ st # "over" ~> st = "over"

(* Both at once: what a runtime finds when it has come up and leaves when  *)
(* it has closed.                                                          *)
RuntimeSafety ==
    /\ TypeOK /\ CloseLeavesNothing /\ UpWithoutStrays
=============================================================================
