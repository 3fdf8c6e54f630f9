SPECIFICATION Spec
CONSTANTS
    k1 = k1
    k2 = k2
    u1 = u1
    u2 = u2
    t1 = t1
    t2 = t2
    t3 = t3
    Jobs = {j1}
    Requests = {r1, r2}
    Keys = {k1, k2}
    Users = {u1, u2}
    Tokens = {t1, t2, t3}
    Star = {t2}
    Allowed <- MCAllowed
    Management = Management
    ManagementKey = TRUE
    First <- MCFirst
    MaxStores = 2
SYMMETRY RequestSymmetry
INVARIANTS NoOrphan OwnerReaches StoreIsFile
PROPERTIES EditsKept KeyChoiceCurrent TakesEffectAtOnce
CHECK_DEADLOCK FALSE
