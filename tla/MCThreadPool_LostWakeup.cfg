SPECIFICATION FairSpec
CONSTANTS
    Worker = {w1, w2}
    Job = {j1, j2}
    NoJob = NoJob
    NoWorker = NoWorker
PROPERTY AddedJobIsPicked
