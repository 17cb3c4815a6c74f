SPECIFICATION Spec
CONSTANTS
    None = None
    Pids = {pid1, pid2}
    Tools = {"echo"}
    Secretless = {}
    Decls = {"d1"}
    Callers = {"admin"}
    Ops = {"start", "stop"}
    MaxBorn = 1
    MaxSps = 1
    MaxFaults = 0
    MaxCrashes = 0
INVARIANTS StopStays
CHECK_DEADLOCK FALSE
