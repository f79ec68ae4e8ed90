\* Two writers with and without retention, each ended anywhere.
SPECIFICATION Spec
CONSTANTS
    l1 = l1
    l2 = l2
    NoWriter = NoWriter
    Writers <- WritersMC
    Retentions <- RetentionsMC
    MaxDay = 4
    MaxLines = 6
    Failures <- FailuresMC
INVARIANTS
    TypeOK
    Intact
    AckedKept
    NumbersGrow
    DeletionFound
CHECK_DEADLOCK FALSE
