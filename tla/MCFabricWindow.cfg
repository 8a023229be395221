CONSTANTS
    Specs = {s1, s2}
    Targets = {"proxmox"}
    Faults = {"kill"}
    Tears = {}
    MaxCommands = 2
    MaxFaults = 1
    Operators = {}
    Claimers = {}
    Vmids = {}
    Size = 0
    MaxVersion = 1
    PoolCommands = 0
    PoolFaults = 0
SPECIFICATION MCSpec
SYMMETRY Symmetry
INVARIANTS EveryResourceOnRecord
CHECK_DEADLOCK FALSE
