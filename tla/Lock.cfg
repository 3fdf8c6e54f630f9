SPECIFICATION FairSpec
CONSTANTS
    Threads = {t1, t2, t3}
    Refs = {r1, r2}
    Entries = {e1, e2, e3}
    NoRef = NoRef
    NoEntry = NoEntry
    NoThread = NoThread
INVARIANT TableExact
PROPERTIES ImplementsMutex LockProgress
