\* One client, the clock and the deadlines, with fairness.
SPECIFICATION FairSpec
CONSTANTS
    p1 = p1
    p2 = p2
    c1 = c1
    c2 = c2
    k1 = k1
    v1 = v1
    Procs <- ProcessesMC
    First <- p1
    NoProc = NoProc
    Clients <- OneClientMC
    NoRequest = NoRequest
    Creds <- CredsMC
    Values <- NoValuesMC
    NoValue = NoValue
    Ops <- ReadsMC
    Idle = 1
    Limits <- LimitsMC
    MaxTime = 2
INVARIANTS
    TypeOK
    ArmedTimer
    UnlockNeverExtended
PROPERTIES
    StoppedIsWiped
    SuccessorServesOrEnds
    UnlockEnds
    CallEnds
CHECK_DEADLOCK FALSE
