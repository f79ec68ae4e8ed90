\* A program queues a secret while another decrypts the vault.
SPECIFICATION Spec
CONSTANTS
    f1 = f1
    f2 = f2
    n1 = n1
    w1 = w1
    w2 = w2
    Programs <- TwoProgramsMC
    Names <- OneNameMC
    Values <- TwoValuesMC
    NoValue = NoValue
    NoFile = NoFile
    MaxId = 2
    MaxKey = 1
    Ops <- DecryptOpsMC
INVARIANT NothingLeftQueued
CHECK_DEADLOCK FALSE
