SPECIFICATION FairSpec
CONSTANTS
    Worker = {w1, w2}
    Job = {j1, j2, j3}
    NoJob = NoJob
    NoWorker = NoWorker
INVARIANTS
    TypeOK
    LockHeldInside
    OnePlacePerJob
PROPERTIES
    ImplementsJobPool
    AwakeWorkerServesQueue
    AnnouncedToSleeperRuns
