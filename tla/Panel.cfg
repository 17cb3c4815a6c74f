SPECIFICATION Spec
CONSTANTS
    None = None
    Requests = {"r1", "r2"}
    MaxSessions = 2
    MaxResets = 1
    MaxRevoked = 1
    TTL = 1
    MaxTime = 2
    Ips = {"a", "b"}
    Slots = {1, 2}
    MaxPerIp = 2
    Lockout = 3
    GlobalMax = 3
    GlobalWindow = 3
    LoginTime = 6
    MaxFails = 4
    Handlers = {"h1", "h2"}
    Savers = {"h1"}
    Remover = "w1"
    External = {"d1"}
    Editors = {"admin", "cli"}
    Rotator = "admin"
    Tools = {"t", "u"}
    Effects = {"allow", "deny"}
    MaxEdits = 3
    MaxCatalog = 1
    MaxCrashes = 1
    MaxCommands = 5
    MaxTokens = 5
    JobWorkers = {"w1", "w2"}
    MaxJobs = 3
    MaxVersion = 2
    Catalogs = {"a", "b"}
    Bad = "bad"
    MaxReloads = 2
    MaxStarts = 2
    Pids = {"p1", "p2", "p3"}
    PollPids = {"p1", "p2"}
    MaxSpawns = 3
    MaxPollSpawns = 2
    MaxDeaths = 1
    MaxReuse = 1
    MaxRestarts = 1
    MaxFaults = 1
INVARIANTS
    AccessClosed
    ChangesAnnounced
    ToolFolderKept
    
    BrokerOwned
PROPERTIES
    EditsAsSeen
    CatalogCertified
CHECK_DEADLOCK FALSE
