\* A program that ends between the removal of a day file and its marker.
SPECIFICATION Spec
CONSTANTS
    l1 = l1
    l2 = l2
    NoWriter = NoWriter
    Writers <- WritersMC
    Retentions <- RetentionsMC
    MaxDay = 4
    MaxLines = 6
    Failures <- FailuresMC
INVARIANT CutDocumented
CHECK_DEADLOCK FALSE
