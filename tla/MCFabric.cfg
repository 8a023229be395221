CONSTANTS
    Specs = {s1, s2}
    Targets = {"local", "proxmox"}
    Faults = {"kill", "write", "remove", "exit"}
    Tears = {"part", "whole"}
    MaxCommands = 3
    MaxFaults = 2
    Operators = {o1, o2}
    Claimers = {c1, c2}
    Vmids = {v1, v2}
    Size = 1
    MaxVersion = 2
    PoolCommands = 4
    PoolFaults = 1
SPECIFICATION MCSpec
SYMMETRY Symmetry
CONSTRAINT Followed
INVARIANTS FabricSafety   
CHECK_DEADLOCK FALSE
