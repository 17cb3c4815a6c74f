SPECIFICATION Spec
CONSTANTS
    c1 = c1
    t1 = t1
    t2 = t2
    m1 = m1
    m2 = m2
    k1 = k1
    p1 = p1
    p2 = p2
    r1 = r1
    r2 = r2
    None = None
    Callers = {c1}
    Owner <- MCOwner
    FirstTokens = {t1}
    Tools = {"echo"}
    Actions <- MCActions
    Offers <- MCOffers
    TTL = 1
    Tokens = {t1}
    Policies <- MCAllow
    Manifests = {m1}
    Edits = {}
    BadEnvelope <- MCBadEnvelope
    Keys = {k1}
    Payloads = {p1, p2}
    ReqIds = {r1, r2}
    LockWait = 0
    MaxTime = 0
    MaxFaults = 2
SYMMETRY RequestSymmetry
INVARIANTS LifecycleInv AtMostOnce 
