SPECIFICATION LiveSpec
CONSTANTS
    w1 = w1
    w2 = w2
    Jobs <- TwoJobs
    Workers <- TwoWorkers
    NoWorker = NoWorker
    NoJob = NoJob
    MaxAttempts = 2
    Verdicts <- TwoVerdicts
    Lethal <- FirstJob
    MaxFaults = 2
    MaxSlow = 2
INVARIANTS
    AttemptsNumbered
    VersionFollowsJob
    WaitingHasAttemptLeft
PROPERTIES
    RecordedByOwner
    ImplementsIngestion
    UploadsEnd
