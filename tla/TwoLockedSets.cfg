\* A role set twice while the vault is locked.
SPECIFICATION Spec
CONSTANTS
    f1 = f1
    f2 = f2
    n1 = n1
    w1 = w1
    w2 = w2
    Programs <- OneProgramMC
    Names <- OneNameMC
    Values <- TwoValuesMC
    NoValue = NoValue
    NoFile = NoFile
    MaxId = 3
    MaxKey = 3
    Ops <- QueueOpsMC
INVARIANT LastSetWins
CHECK_DEADLOCK FALSE
