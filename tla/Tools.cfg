SPECIFICATION Spec
CONSTANTS
    None = None
    pid1 = pid1
    pid2 = pid2
    StopCase <- MCStop
    RecoverCase <- MCRecover
    Launches = {"l1", "l2", "l3"}
    Copiers = {q1, q2}
    MaxCopies = 3
    MaxDeaths = 1
    Reloads = 2
    Snap = Snap
    New = New
    Empty = Empty
SYMMETRY PidSymmetry
INVARIANTS
    ToolsAccountedFor
    
    
    RestoreSafe
    ClaimAtomic
    NamesHold
PROPERTIES
    
    NeverOverwritten
    RevocationWins
CHECK_DEADLOCK FALSE
