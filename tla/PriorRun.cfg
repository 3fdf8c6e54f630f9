SPECIFICATION Spec
CONSTANTS
    Jobs = {j1}
    d1 = d1
    Datasets <- OneDataset
    DatasetOf <- SameDataset
    RefOf <- OneRef
    WorkerCount = 2
    PriorRun = {j1}
    CanCrash = TRUE
    ManualRecheck = FALSE
INVARIANT CompleteMeansOwnRun
CHECK_DEADLOCK FALSE
