SPECIFICATION FairSpec
CONSTANTS
    None = None
    pid1 = pid1
    pid2 = pid2
    Connections = {"c1", "c2"}
    Slots = 1
    Requests <- MCRequests
    Allowlist <- MCAllow
    MaxAddrs = 2
    MaxResponse = 2
    MaxChunk = 2
    MaxHeader = 2
    ViewSecrets = {"s1", "s2"}
    MaxWrites = 4
    MaxFails = 2
    Pids = {"p1", "p2", "p3"}
    MaxSpawns = 2
    MaxCrashes = 1
    MaxReuse = 1
    MaxFaults = 1
    Budget = 4
    Callers = {"c"}
    Limit = 2
    Window = 3
    MaxReal = 7
    MaxBack = 2
    Rows = {1, 2}
    Keys = {"k"}
    MaxCalls = 2
INVARIANTS
    OutcomesHonest
    
    EvidenceFresh
PROPERTIES
    NothingAfterExpiry
    WaitsEnd
    Repairs
CHECK_DEADLOCK FALSE
