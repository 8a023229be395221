---------------------------- MODULE CommandRunner ----------------------------
(***************************************************************************)
(* The eight functions that run a child process within a deadline and an   *)
(* output limit: docker commands (docker-runtime.mjs), the controller's    *)
(* git (git-runtime.mjs), commands of the command line and the publisher's *)
(* git (bimo.mjs), the agent (agent.mjs), the gates of a workspace and of  *)
(* a source snapshot (verify.mjs, source-verify.mjs) and the engine        *)
(* (engine.mjs).                                                           *)
(*                                                                         *)
(* Each is a record of the choices in which they differ; the actions are   *)
(* common.  The child leads a process group and may have one helper, which *)
(* may keep the child's output open, may leave the group and may, like the *)
(* child, ignore SIGTERM.  Signals reach a process some time after they    *)
(* are sent; SIGKILL is not survived.  Process numbers are not reused.     *)
(***************************************************************************)
EXTENDS Integers, FiniteSets

CONSTANT Kinds    \* the runners to look at

(* group:  signals go to the process group and not to the child alone      *)
(* limit:  what too much output leads to                                   *)
(* abort:  whether a caller can abort the command                          *)
(* settle: the event of the child that ends the command                    *)
(* kill:   what the end does to a SIGKILL still due: drop it, leave it, or *)
(*         wait for it                                                     *)
DockerExecute == [group |-> FALSE, limit |-> "kill", abort |-> TRUE,
                  settle |-> "close", kill |-> "drop"]
GitExecute    == [group |-> TRUE, limit |-> "kill", abort |-> FALSE,
                  settle |-> "close", kill |-> "drop"]
CliExecute    == [group |-> FALSE, limit |-> "term", abort |-> TRUE,
                  settle |-> "close", kill |-> "leave"]
PublisherGit  == [group |-> TRUE, limit |-> "kill", abort |-> TRUE,
                  settle |-> "close", kill |-> "drop"]
AgentRun      == [group |-> TRUE, limit |-> "kill", abort |-> FALSE,
                  settle |-> "close", kill |-> "leave"]
VerifyRun     == [group |-> TRUE, limit |-> "kill", abort |-> FALSE,
                  settle |-> "close", kill |-> "leave"]
ExecuteFixed  == [group |-> TRUE, limit |-> "kill", abort |-> FALSE,
                  settle |-> "close", kill |-> "wait"]
RunEngine     == [group |-> FALSE, limit |-> "none", abort |-> FALSE,
                  settle |-> "exit", kill |-> "drop"]

Runner(kind) ==
    CASE kind = "docker" -> DockerExecute    [] kind = "cli" -> CliExecute
      [] kind = "publisher" -> PublisherGit  [] kind = "agent" -> AgentRun
      [] kind = "verify" -> VerifyRun        [] kind = "source" -> ExecuteFixed
      [] kind = "engine" -> RunEngine        [] kind = "git" -> GitExecute

AllKinds == {"docker", "git", "cli", "publisher", "agent", "verify", "source",
             "engine"}
KindsAssumption == Kinds \subseteq AllKinds

Processes == {"child", "helper"}

VARIABLES
    kind,
    alive,       \* the processes that run
    resist,      \* those that ignore SIGTERM
    holds,       \* those that have the output open
    escaped,     \* whether the helper has left the group
    termed,      \* those to which SIGTERM is under way
    code,        \* the child's exit code, once it has one
    timedOut, aborted, exceeded,
    killTimer,   \* the SIGKILL that follows: off, set, or sent
    closing,     \* the end was seen and the SIGKILL is waited for
    result       \* of the promise

world == <<kind, resist, holds, escaped>>
vars == <<kind, alive, resist, holds, escaped, termed, code, timedOut, aborted,
          exceeded, killTimer, closing, result>>

R == Runner(kind)

TypeOK ==
    /\ kind \in Kinds
    /\ alive \in SUBSET Processes /\ resist \in SUBSET Processes
    /\ holds \in SUBSET Processes /\ escaped \in BOOLEAN
    /\ termed \in SUBSET Processes
    /\ code \in {"none", "zero", "other"}
    /\ (code = "none") = ("child" \in alive)
    /\ {timedOut, aborted, exceeded, closing} \subseteq BOOLEAN
    /\ killTimer \in {"off", "set", "sent"}
    /\ result \in {"none", "ok", "failed"}

Init ==
    /\ kind \in Kinds
    /\ alive \in {{}, {"child"}, Processes}    \* nothing: it could not be started
    /\ resist \in SUBSET Processes
    /\ holds \in {{"child"}, Processes}
    /\ escaped \in BOOLEAN
    /\ termed = {}
    /\ code = IF alive = {} THEN "other" ELSE "none"
    /\ timedOut = FALSE /\ aborted = FALSE /\ exceeded = FALSE
    /\ killTimer = "off" /\ closing = FALSE /\ result = "none"

(* Whom a signal of this runner reaches.                                   *)
Targets == IF ~R.group THEN {"child"}
           ELSE IF escaped THEN {"child"} ELSE Processes

-----------------------------------------------------------------------------
(* The processes.                                                          *)

Dies(ps, c) ==
    /\ alive' = alive \ ps
    /\ code' = IF "child" \in ps \cap alive THEN c ELSE code

(* A process ends of itself, or in answer to SIGTERM, with any exit code.  *)
Exits(p) ==
    /\ p \in alive
    /\ \E c \in {"zero", "other"} : Dies({p}, c)
    /\ UNCHANGED <<world, termed, timedOut, aborted, exceeded, killTimer,
                   closing, result>>

Obeys(p) == p \in termed \ resist /\ Exits(p)

-----------------------------------------------------------------------------
(* What stops the command.                                                 *)

Terminate(hard) ==
    /\ termed' = termed \cup (Targets \cap alive)
    /\ killTimer' = IF hard /\ killTimer = "off" THEN "set" ELSE killTimer

Timeout ==
    /\ result = "none" /\ ~closing /\ ~timedOut
    /\ timedOut' = TRUE
    /\ Terminate(TRUE)
    /\ UNCHANGED <<world, alive, code, aborted, exceeded, closing, result>>

Abort ==
    /\ result = "none" /\ ~aborted /\ R.abort
    /\ aborted' = TRUE
    /\ Terminate(TRUE)
    /\ UNCHANGED <<world, alive, code, timedOut, exceeded, closing, result>>

(* More output than allowed, from whoever has the output open.             *)
Exceed ==
    /\ result = "none" /\ ~closing /\ R.limit # "none"
    /\ ~exceeded /\ alive \cap holds # {}
    /\ exceeded' = TRUE
    /\ Terminate(R.limit = "kill")
    /\ UNCHANGED <<world, alive, code, timedOut, aborted, closing, result>>

(* The grace is over.                                                      *)
Kill ==
    /\ killTimer = "set"
    /\ killTimer' = "sent"
    /\ Dies(Targets, "other")
    /\ UNCHANGED <<world, termed, timedOut, aborted, exceeded, closing, result>>

-----------------------------------------------------------------------------
(* The end.                                                                *)

(* "exit" comes when the child is gone, "close" when nobody has its output *)
(* open any more.                                                          *)
EndEvent ==
    /\ "child" \notin alive
    /\ R.settle = "close" => alive \cap holds = {}

(* A command that was stopped has failed, whatever its exit code.  An exit *)
(* code other than zero is a failure to the caller where the runner itself *)
(* returns it.                                                             *)
Verdict == IF timedOut \/ aborted \/ exceeded \/ code # "zero"
           THEN "failed" ELSE "ok"

(* Mutant: an aborted command is given up at once.                         *)
SettleAborted ==
    /\ result = "none" /\ ~closing /\ (EndEvent \/ aborted)
    /\ IF R.kill = "wait" /\ killTimer = "set"
       THEN closing' = TRUE /\ UNCHANGED <<killTimer, result>>
       ELSE /\ result' = Verdict
            /\ killTimer' = IF R.kill = "drop" THEN "off" ELSE killTimer
            /\ UNCHANGED closing
    /\ UNCHANGED <<world, alive, termed, code, timedOut, aborted, exceeded>>

Settle ==
    /\ result = "none" /\ ~closing /\ EndEvent
    /\ IF R.kill = "wait" /\ killTimer = "set"
       THEN closing' = TRUE /\ UNCHANGED <<killTimer, result>>
       ELSE /\ result' = Verdict
            /\ killTimer' = IF R.kill = "drop" THEN "off" ELSE killTimer
            /\ UNCHANGED closing
    /\ UNCHANGED <<world, alive, termed, code, timedOut, aborted, exceeded>>

(* await termination.                                                      *)
SettleAfterKill ==
    /\ closing /\ result = "none" /\ killTimer = "sent"
    /\ result' = Verdict
    /\ UNCHANGED <<world, alive, termed, code, timedOut, aborted, exceeded,
                   killTimer, closing>>

Next ==
    \/ \E p \in Processes : Exits(p) \/ Obeys(p)
    \/ Timeout \/ Abort \/ Exceed \/ Kill \/ Settle \/ SettleAfterKill

(* The timers fire, signals arrive and events are delivered.  No process   *)
(* need end of itself.                                                     *)
Fairness ==
    /\ \A p \in Processes : WF_vars(Obeys(p))
    /\ WF_vars(Timeout) /\ WF_vars(Kill)
    /\ WF_vars(Settle) /\ WF_vars(SettleAfterKill)

Spec == Init /\ [][Next]_vars /\ Fairness

-----------------------------------------------------------------------------
(* A command that ran into its deadline, was aborted or wrote too much is  *)
(* never reported as successful, in whatever order that, the exit of the   *)
(* child and the end of its output come about.                             *)
StoppedIsFailure ==
    result = "ok" => code = "zero" /\ ~timedOut /\ ~aborted /\ ~exceeded

(* When a command is over its child is gone: a cancelled docker or git     *)
(* command cannot change anything later, even if it ignores SIGTERM.       *)
ChildGone == result # "none" => "child" \notin alive

(* README.md: the source verifier "sends SIGKILL to that group even if its *)
(* leader has already exited. Gate completion includes this cleanup        *)
(* margin."  When a stopped gate is over, its group is empty.              *)
GateLeavesNothing ==
    kind = "source" /\ result # "none" /\ (timedOut \/ exceeded)
        => alive \cap Targets = {}

(* A helper that no signal of this runner reaches and that keeps the       *)
(* output open keeps the command from ending.                              *)
HeldOpen == R.settle = "close" /\ "helper" \in (alive \cap holds) \ Targets

(* Unless it is held open that way, every command ends, also if nothing of *)
(* it ends of itself and SIGTERM is ignored; that includes the command     *)
(* line's commands, which too much output only terminates.                 *)
CommandEnds == []<>(result # "none" \/ HeldOpen)

(* All of these at once: what the caller of run and executeFixed may rely  *)
(* on when a command is over.                                              *)
RunnerSafety ==
    /\ TypeOK /\ StoppedIsFailure /\ ChildGone /\ GateLeavesNothing
=============================================================================
