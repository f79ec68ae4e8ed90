\* A vault unlocked while an update hands it over.
SPECIFICATION Spec
CONSTANTS
    s1 = s1
    s2 = s2
    s3 = s3
    Procs <- ThreeMC
    None = None
    Crashes = FALSE
INVARIANT SuccessorKeepsSocket
CHECK_DEADLOCK FALSE
