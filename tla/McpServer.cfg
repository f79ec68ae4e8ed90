\* Seven clients, one for each script of BudgetsMC: two calls under one id, cancelled;
\* a call that waits for the roots; two sessions; a change of the roots and an
\* update; an update between two requests; three calls at once without a session;
\* and a session whose client has a name too long for the handoff.
SPECIFICATION FairSpec
CONSTANTS
    k1 = k1
    k2 = k2
    k3 = k3
    Keys <- KeysMC
    Budgets <- BudgetsMC
    Hellos <- HellosMC
    MaxChanges = 1
    MaxRounds = 3
    MaxRequests = 3
    Unusable = {2}
    MaxInput = 2
    MaxInFlight = 2
INVARIANTS
    TypeOK
    AnsweredOnce
    SessionKept
    RootsAgree
    NoOldRoots
PROPERTIES
    EveryRequestAnswered
    ServerEnds
CHECK_DEADLOCK FALSE
