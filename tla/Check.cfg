SPECIFICATION FairSpec
CONSTANTS
    j1 = j1
    p1 = p1
    p2 = p2
    f1 = f1
    f2 = f2
    NoJob = NoJob
    Jobs = {j1}
    Files = {f1, f2}
    Procs = {p1, p2}
    Differs = {{}, {f1}}
    Interval = 1
    MaxDelay = 2
    Cooldowns = {2}
    BatchLimit = 1
INVARIANTS AcceptedMatches TurnsApart
PROPERTIES EvidenceKept CooldownHeld GoodIsAccepted
CHECK_DEADLOCK FALSE
