SPECIFICATION Spec
CONSTANTS
    Jobs = {j1, j2}
    d1 = d1
    Datasets <- OneDataset
    DatasetOf <- SameDataset
    RefOf <- OneRef
    WorkerCount = 2
    PriorRun = {j1, j2}
    CanCrash = FALSE
    ManualRecheck = TRUE
SYMMETRY JobSymmetry
INVARIANTS TrainsOnPublishedData CompleteMeansOwnRun
CHECK_DEADLOCK FALSE
