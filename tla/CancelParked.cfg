SPECIFICATION FairSpec
CONSTANTS
    Jobs = {j1}
    d1 = d1
    Datasets <- OneDataset
    DatasetOf <- SameDataset
    RefOf <- OneRef
    WorkerCount = 2
    PriorRun = {}
    CanCrash = FALSE
    ManualRecheck = FALSE
PROPERTY CancelSettles
CHECK_DEADLOCK FALSE
