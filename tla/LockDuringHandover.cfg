\* A lock asked for in the middle of a handover.
SPECIFICATION Spec
CONSTANTS
    p1 = p1
    p2 = p2
    c1 = c1
    c2 = c2
    k1 = k1
    v1 = v1
    Procs <- ProcessesMC
    First <- p1
    NoProc = NoProc
    Clients <- OneClientMC
    NoRequest = NoRequest
    Creds <- CredsMC
    Values <- NoValuesMC
    NoValue = NoValue
    Ops <- LocksMC
    Idle = 1
    Limits <- NoLimitMC
    MaxTime = 0
INVARIANT LockNeverLost
CHECK_DEADLOCK FALSE
