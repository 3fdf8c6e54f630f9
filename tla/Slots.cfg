SPECIFICATION FairSpec
CONSTANTS
    a1 = a1
    a2 = a2
    d1 = d1
    Jobs = {f1, f2, d1, d2}
    Accounts = {a1, a2}
    Home <- MCHome
    Dynamic = {d1, d2}
    Eligible <- MCEligible
    Concurrency = 1
    WorkerCount = 2
    CanCrash = TRUE
INVARIANTS
    SlotsExact
    NoLostWakeup
    SubmissionLimit
    DynamicLimit
    OnePlace
PROPERTY BoundJobRuns
CHECK_DEADLOCK FALSE
