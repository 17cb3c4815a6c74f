SPECIFICATION Spec
CONSTANTS
    None = None
    c1 = c1
    c2 = c2
    ReleaseCase <- MCRelease
    WriteCase <- MCWrites
    WorkerCase <- MCWorkers
    Fields = {"f", "g"}
    Servers = {"s1", "s2"}
    Commands = {"cli"}
    MaxSets = 2
    MaxInits = 2
    MaxCrashes = 1
    MaxBytes = 3
    Generations = 3
    MaxEvents = 16
    MaxLogFaults = 2
SYMMETRY ConnSymmetry
INVARIANTS
    SecretsGuarded
    WorkersCounted
    VaultCurrent
    LogKept
CHECK_DEADLOCK FALSE
