---------------------------- MODULE MCProcesses ----------------------------
(* CommandRunner, ArtifactVerification, CredentialProxy and RunFollow for  *)
(* model checking: what a run asks of single processes, and what reads its *)
(* log.  None of the four sees the state of another, so a behaviour is one *)
(* of either (part), while the other three rest where they begin.          *)
(*                                                                         *)
(* All runners; two files, with two contents of one size of which one has  *)
(* the marker, and a larger one that has it too; one request more than the *)
(* budget has, and one more at once than there are slots; two logs.        *)
EXTENDS CredentialProxy

CONSTANTS
    Kinds,
    Files, Contents, Size, Marked, SmokeFile, MaxBytes, MaxWrites,
    Logs, MaxLine, MaxSize, MaxFaults

VARIABLES
    part,
    src, version, writes, server, stubborn, at, todo, open, scanned, dest,
    mine, late, verified,
    kind, alive, resist, holds, escaped, termed, code, timedOut, cancelled,
    exceeded, killTimer, closing, result,
    made, ends, size, latest, f, shown, faults

Verification == INSTANCE ArtifactVerification WITH result <- verified
Command == INSTANCE CommandRunner WITH aborted <- cancelled
Following == INSTANCE RunFollow WITH Runs <- Logs

ASSUME Command!KindsAssumption

verificationVars == <<src, version, writes, server, stubborn, at, todo, open,
                      scanned, dest, mine, late, verified>>
commandVars == <<kind, alive, resist, holds, escaped, termed, code, timedOut,
                 cancelled, exceeded, killTimer, closing, result>>
followVars == <<made, ends, size, latest, f, shown, faults>>

MCContents == {"marked", "plain", "large"}
MCSize == [c \in MCContents |-> IF c = "large" THEN 2 ELSE 1]
MCMarked == {"marked", "large"}

CommandRests ==
    /\ kind = "docker" /\ alive = Command!Processes /\ resist = {}
    /\ holds = Command!Processes /\ ~escaped
VerificationRests ==
    src = Verification!NoFile /\ ~stubborn /\ ~dest.there
FollowRests == f.kind = "follow" /\ f.asked = Following!Latest

MCInit ==
    /\ part \in {"command", "verification", "proxy", "follow"}
    /\ Init /\ Verification!Init /\ Command!Init /\ Following!Init
    /\ part # "command" => CommandRests
    /\ part # "verification" => VerificationRests
    /\ part # "follow" => FollowRests

MCNext ==
    \/ /\ part = "command" /\ Command!Next
       /\ UNCHANGED <<part, vars, verificationVars, followVars>>
    \/ /\ part = "verification" /\ Verification!Next
       /\ UNCHANGED <<part, vars, commandVars, followVars>>
    \/ /\ part = "proxy" /\ Next
       /\ UNCHANGED <<part, verificationVars, commandVars, followVars>>
    \/ /\ part = "follow" /\ Following!Next
       /\ UNCHANGED <<part, vars, verificationVars, commandVars>>

(* The fairness of the four, of whichever moves.                           *)
MCFairness ==
    /\ \A p \in Command!Processes :
         WF_commandVars(part = "command" /\ Command!Obeys(p))
    /\ WF_commandVars(part = "command" /\ Command!Timeout)
    /\ WF_commandVars(part = "command" /\ Command!Kill)
    /\ WF_commandVars(part = "command" /\ Command!Settle)
    /\ WF_commandVars(part = "command" /\ Command!SettleAfterKill)
    /\ WF_verificationVars(part = "verification" /\ Verification!Verifier)
    /\ WF_verificationVars(part = "verification" /\ Verification!Controller)
    /\ WF_vars(part = "proxy" /\ Exit)
    /\ WF_vars(part = "proxy" /\ proc = "credential" /\ LifetimeOver)
    /\ \A r \in Requests :
         /\ WF_vars(part = "proxy" /\ (BodyRefused(r) \/ Forward(r)))
         /\ WF_vars(/\ part = "proxy"
                    /\ \/ Timeout(r)
                       \/ r \in aborted /\ (Break(r) \/ Drained(r)))
    /\ WF_followVars(part = "follow" /\ Following!Follow)

MCSpec ==
    /\ MCInit
    /\ [][MCNext]_<<part, vars, verificationVars, commandVars, followVars>>
    /\ MCFairness

-----------------------------------------------------------------------------
(* The properties of the instances, of which their modules say more. What  *)
(* verify() leaves when it passes and when it fails.                       *)
VerificationSafety == Verification!VerificationSafety

(* verify() makes no artifact directory after a failure, and changes none  *)
(* that was there before.                                                  *)
ArtifactKept == Verification!ArtifactKept

(* What the end of a command says of its child, and what it leaves of it.  *)
RunnerSafety == Command!RunnerSafety

(* followLogs prints the lines of the log of one run, whole, in order,     *)
(* none twice and none left out.                                           *)
FollowSafety == Following!FollowSafety

(* Nothing hangs. A command ends although its child ignores every request  *)
(* to stop, unless a helper out of reach holds its output open; verify()   *)
(* returns, also with a server that ignores SIGTERM; the proxy gives every *)
(* slot back although the model service never answers, and its process     *)
(* ends; and followLogs prints every completed line some time, unless it   *)
(* is stopped.                                                             *)
ProcessesEnd ==
    /\ part = "command" => Command!CommandEnds
    /\ part = "verification" => Verification!VerificationEnds
    /\ SlotFreed
    /\ part = "proxy" => ProcessEnds
    /\ Following!EveryLineShown
=============================================================================
