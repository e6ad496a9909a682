SPECIFICATION LiveSpec
CONSTANTS
    j1 = j1
    w1 = w1
    w2 = w2
    c1 = c1
    Jobs <- OneJob
    Workers <- OneWorker
    Clients <- OneClient
    NoWorker = NoWorker
    NoJob = NoJob
PROPERTY ResumedAnalysisRuns
