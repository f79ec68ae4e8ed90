\* One program sets, deletes, encrypts, decrypts and renames, killed anywhere;
\* another queues a set, and the configuration is edited beside them, in
\* a transaction and by hand.
SPECIFICATION RenameSpec
CONSTANTS
    f1 = f1
    f2 = f2
    n1 = n1
    n2 = n2
    w1 = w1
    Programs <- ProgramsMC
    Queuers <- QueuersMC
    Names <- NamesMC
    Values <- ValuesMC
    NoValue = NoValue
    NoFile = NoFile
    NoProgram = NoProgram
    OtherProgram = OtherProgram
    NoRevision = NoRevision
    GoesOn = FALSE
    MaxId = 2
    MaxKey = 2
    MaxEdits = 1
    Ops <- AllOpsMC
INVARIANTS
    RenameTypeOK
    SecretKept
    
    Openable
CHECK_DEADLOCK FALSE
