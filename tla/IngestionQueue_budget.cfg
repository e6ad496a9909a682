SPECIFICATION LiveSpec
CONSTANTS
    w1 = w1
    w2 = w2
    Jobs = {1}
    Workers = {w1}
    NoWorker = NoWorker
    NoJob = NoJob
    MaxAttempts = 2
    Verdicts <- TwoVerdicts
    Lethal <- FirstJob
    MaxFaults = 0
    MaxSlow = 0
PROPERTIES
    RetryBudgetEnds
