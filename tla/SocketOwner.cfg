\* Three vault processes of one vault: two starts and a handover, or three starts.
SPECIFICATION FairSpec
CONSTANTS
    s1 = s1
    s2 = s2
    s3 = s3
    Procs <- ThreeMC
    None = None
    Crashes = TRUE
INVARIANTS
    TypeOK
    Exclusive
    RemovesOwnOnly
PROPERTIES
    OrphanEnds
    WaiterDecides
CHECK_DEADLOCK FALSE
