------------------------------- MODULE MCGit -------------------------------
(* GitIntegration, GitResources, PodContract and Factory for model         *)
(* checking. Commits and trees, what lies in the Git root, the plan that   *)
(* says who may write where, and the workers of an engine factory do not   *)
(* depend on each other's steps, so a behaviour is one of the four (part), *)
(* while the others rest where they begin.                                 *)
(*                                                                         *)
(* engineering-a has two paths, the other slots one each, and one path is  *)
(* nobody's; two runs use the Git root one after the other; a repository   *)
(* has four directories, one inside another, or two that differ by case; a *)
(* factory of two pods, one of which sends to itself, is replaced by one   *)
(* of that pod alone, or the other way round.                              *)
EXTENDS GitIntegration, TLC

CONSTANT Runs, MaxFaults,
         Lower, File, RunBases, Requirements, Criteria, MaxPaths,
         Pods, Requests, Limit, MaxSessions, MaxCommands, MaxKills, NoOne

VARIABLES
    part,
    root, admin, disk, known, lost, at, owned, ready, retain, closes, faults,
    step, tree, roots, required, linked, writers, request,
    state, applied, inbox, processed, terminals, worker, applier, other,
    strays, reverted, commands, kills

Resources == INSTANCE GitResources
Contract == INSTANCE PodContract WITH pc <- step, Trees <- RunBases

contractVars == <<step, tree, roots, required, linked, writers, request>>

resourceVars == <<root, admin, disk, known, lost, at, owned, ready, retain,
                  closes, faults>>

Manifests == {("p" :> "f1") @@ ("q" :> "f1"), ("p" :> "f2")}
To == [r \in Requests |-> "p"]
Destinations == ("p" :> {"p"}) @@ ("q" :> {})

Making == INSTANCE Factory
              WITH journal <- applied, lost <- strays,
                   faults <- kills, MaxFaults <- MaxKills, None <- NoOne

factoryVars == <<state, applied, inbox, processed, terminals, worker, applier,
                 other, strays, reverted, commands, kills>>

MCScope == ("engineering-a" :> {"a1", "a2"}) @@ ("engineering-b" :> {"b"})
             @@ ("qa-tests" :> {"q"})

MCLower == [s \in {"a", "A", "b", "q", "x", "f"} |->
              IF s = "A" THEN "a" ELSE s]
MCRunBases == {{<<"a">>, <<"a", "x">>, <<"b">>, <<"q">>},
               {<<"a">>, <<"A">>, <<"b">>}}

MCInit ==
    /\ part \in {"commits", "resources", "contract", "factory"}
    /\ Init /\ Resources!Init /\ Contract!Init /\ Making!Init
    /\ part # "resources" => root["other"] = Resources!None
    /\ part # "contract" => <<"q">> \in tree

MCNext ==
    \/ part = "commits" /\ Next
        /\ UNCHANGED <<part, resourceVars, contractVars, factoryVars>>
    \/ part = "resources" /\ Resources!Next
        /\ UNCHANGED <<part, vars, contractVars, factoryVars>>
    \/ part = "contract" /\ Contract!Next
        /\ UNCHANGED <<part, vars, resourceVars, factoryVars>>
    \/ part = "factory" /\ Making!Next
        /\ UNCHANGED <<part, vars, resourceVars, contractVars>>

MCSpec ==
    MCInit
    /\ [][MCNext]_<<part, vars, resourceVars, contractVars, factoryVars>>

(* Bound: in a second attempt engineering-a keeps to one of its paths, and *)
(* the last write is not made.                                             *)
OnePathAgain ==
    attempt > 1 =>
        /\ writes < MaxWrites
        /\ \A s \in Slots : worktrees[s] # NoWorktree =>
               worktrees[s].files["a2"] = Old

(* Bound: an inbox is full only before the last command.                   *)
FullBeforeLast ==
    commands = MaxCommands => \A q \in Pods : Len(inbox[q]) < Limit

-----------------------------------------------------------------------------
(* The properties of the instances, of which their modules say more. What  *)
(* the runs that share the Git root (claimGitRoot, close) find and leave   *)
(* there.                                                                  *)
ResourcesSafety == part = "resources" => Resources!ResourcesSafety

(* The claim and the close of a run never remove or replace what another   *)
(* has put into the root, unless it came after they had looked.            *)
OthersKept == Resources!OthersKept

(* What the rest of a run relies on once validateAttemptPlan accepted a    *)
(* plan or validateDependencyRequest a request.                            *)
ContractSafety == part = "contract" => Contract!ContractSafety

(* What holds of the workers of the engine, of their mail and their        *)
(* effects whenever a command or a worker is stopped.                      *)
FactorySafety == part = "factory" => Making!FactorySafety

(* What no step of a command or a worker of the engine does.               *)
FactorySteps == Making!FactorySteps
=============================================================================
