\* Requests of two clients across a handover, without the clock, from an unlock
\* with a bound credential that has no value yet.
SPECIFICATION BoundSpec
CONSTANTS
    p1 = p1
    p2 = p2
    c1 = c1
    c2 = c2
    k1 = k1
    v1 = v1
    Procs <- ProcessesMC
    First <- p1
    NoProc = NoProc
    Clients <- ClientsMC
    NoRequest = NoRequest
    Creds <- CredsMC
    Values <- OneValueMC
    NoValue = NoValue
    Ops <- ChangesMC
    Idle = 1
    Limits <- NoLimitMC
    MaxTime = 0
SYMMETRY Symmetry
INVARIANTS
    NoStrandedSecrets
    HandedOverInFull
    HandoverInv
PROPERTY ServiceSpec
CHECK_DEADLOCK FALSE
