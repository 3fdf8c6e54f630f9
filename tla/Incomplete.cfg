SPECIFICATION Spec
CONSTANTS
    j1 = j1
    u1 = u1
    u2 = u2
    d = d
    k = k
    good = good
    bad = bad
    r1 = r1
    r2 = r2
    None = None
    Jobs = {j1}
    Users = {u1, u2}
    Owner <- MCOwner
    AllKeys = {u2}
    Requests = {r1, r2}
    DatasetChunks = {d}
    KernelChunks = {k}
    Contents = {good, bad}
    Good <- MCGood
    Extracted = 1
    MaxParallelUploads = 2
    MaxParallelUploadsPerUser = 1
    MaxActiveJobs = 1
    MaxActiveJobsPerUser = 1
    AssemblyWorkers = 1
    MaxCrashes = 0
PROPERTY IncompleteStaysResumable
CHECK_DEADLOCK FALSE
