CONSTANTS
    Specs = {s1}
    Targets = {"proxmox"}
    Faults = {}
    Tears = {}
    MaxCommands = 3
    MaxFaults = 0
    Operators = {o1}
    Claimers = {c1}
    Vmids = {v1}
    Size = 1
    MaxVersion = 1
    PoolCommands = 3
    PoolFaults = 0
SPECIFICATION MCSpec
INVARIANTS HandedOutKept
CHECK_DEADLOCK FALSE
