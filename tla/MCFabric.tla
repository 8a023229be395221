------------------------------ MODULE MCFabric ------------------------------
(* Fabric and Pool for model checking: the commands on one agent, of two   *)
(* specifications, which are alike, and of two targets, between which it   *)
(* may move; and the processes that share the warm pool of a Proxmox       *)
(* target. Fabric takes a guest as one resource that is made or not, so a  *)
(* behaviour is one of either (part), while the other rests where it       *)
(* begins.                                                                 *)
EXTENDS Fabric

CONSTANTS Operators, Claimers, Vmids, Size, MaxVersion, PoolCommands, PoolFaults

VARIABLES
    part, template, current, guests, lxc, proc, record, handed, touched,
    strays, contested, commands, poolFaults

Pooling == INSTANCE Pool WITH faults <- poolFaults,
               MaxCommands <- PoolCommands, MaxFaults <- PoolFaults

poolVars == <<template, current, guests, lxc, proc, record, handed, touched,
              strays, contested, commands, poolFaults>>

MCInit == part \in {"fabric", "pool"} /\ Init /\ Pooling!Init

MCNext ==
    \/ part = "fabric" /\ Next /\ UNCHANGED <<part, poolVars>>
    \/ part = "pool" /\ Pooling!Next /\ UNCHANGED <<part, vars>>

MCSpec == MCInit /\ [][MCNext]_<<part, vars, poolVars>>

Symmetry == Permutations(Specs) \cup Permutations(Claimers) \cup Permutations(Operators)

(* Bounds: the last command is not followed into a new generation, and a   *)
(* second fault is one with an agent that is on proxmox only.  After a     *)
(* fault, and with the last command, there is one fill or drain at a time  *)
(* and the template is not replaced; with the last command there is one    *)
(* command on an agent at a time.                                          *)
One(some) == \E q \in some : \A o \in some \ {q} : proc[o].at = "idle"

Followed ==
    /\ n = MaxCommands => p.at \notin {"intent", "create"}
    /\ faults < 2 \/ /\ p.target \in {"proxmox", "none"}
                     /\ \A r \in alive : r.target = "proxmox"
    /\ poolFaults > 0 \/ commands = PoolCommands => template = 1 /\ One(Operators)
    /\ commands = PoolCommands => One(Claimers)

-----------------------------------------------------------------------------

(* "Claimed guests belong to agents and are left alone" (drain): a guest   *)
(* that a claim has returned stays its agent's.                            *)
HandedOutKept == Pooling!HandedOutKept

=============================================================================
