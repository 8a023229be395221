----------------------------- MODULE MCWorkflow -----------------------------
(* Workflow and Organizer for model checking: a workflow deployment over   *)
(* every graph of the given roles, and an organizer run of one to three    *)
(* agents.  The two are separate processes that share no file, so a        *)
(* behaviour is one of either (part), while the other rests where it       *)
(* begins.                                                                 *)
EXTENDS Workflow

CONSTANTS Templates

VARIABLES
    part, n, orgPc, agent, raced, chosen, stopped, cancelled, dir, workspace,
    newest, record, orgLog, orgPending, orgFaults

Organizing == INSTANCE Organizer WITH
    pc <- orgPc, interrupted <- stopped, latest <- newest, log <- orgLog,
    pending <- orgPending, faults <- orgFaults

orgVars == <<n, orgPc, agent, raced, chosen, stopped, cancelled, dir,
             workspace, newest, record, orgLog, orgPending, orgFaults>>

(* The graph that a workflow at rest has.                                  *)
Direct == [r \in Roles |-> {"done"}]

MCInit ==
    /\ part \in {"workflow", "organizer"}
    /\ Init /\ Organizing!Init
    /\ part = "workflow" => n = 1
    /\ part = "organizer" => on = Direct

MCNext ==
    \/ part = "workflow" /\ Next /\ UNCHANGED <<part, orgVars>>
    \/ part = "organizer" /\ Organizing!Next /\ UNCHANGED <<part, vars>>

MCSpec ==
    /\ MCInit /\ [][MCNext]_<<part, vars, orgVars>>
    /\ WF_vars(part = "workflow" /\ Step)
    /\ WF_orgVars(part = "organizer" /\ Organizing!Controller)
    /\ WF_orgVars(part = "organizer" /\ Organizing!TimeGoesOn)

-----------------------------------------------------------------------------
(* What holds of the organizer's votes, agents and record (chooseTemplate, *)
(* runOrganizer).                                                          *)
OrganizerSafety == Organizing!OrganizerSafety

(* Once a signal has come, neither controller begins any work: no role,    *)
(* verification or publication, and no agent.                              *)
NothingAfterSignal == NoWorkAfterSignal /\ Organizing!NoAgentAfterSignal

(* Either controller ends: a workflow whatever graph it was given, and the *)
(* organizer although no agent need ever answer.                           *)
ControllersEnd ==
    /\ part = "workflow" => RunEnds
    /\ part = "organizer" => Organizing!RunEnds
=============================================================================
