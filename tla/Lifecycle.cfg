SPECIFICATION FairSpec
CONSTANTS
    Jobs = {j1}
    d1 = d1
    Datasets <- OneDataset
    DatasetOf <- SameDataset
    RefOf <- OneRef
    WorkerCount = 2
    PriorRun = {}
    CanCrash = TRUE
    ManualRecheck = FALSE
INVARIANTS
    TypeOK
    SingleUpload
    SinglePush
    NoSecondUploader
    NoStrandedJob
PROPERTIES
    KeepsContract
    QueuedIsTaken
    CancelEndsSubmission
    ThreadEnds
CHECK_DEADLOCK FALSE
