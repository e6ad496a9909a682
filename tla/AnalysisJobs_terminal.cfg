SPECIFICATION Spec
CONSTANTS
    j1 = j1
    w1 = w1
    w2 = w2
    c1 = c1
    Jobs <- OneJob
    Workers <- TwoWorkers
    Clients <- OneClient
    NoWorker = NoWorker
    NoJob = NoJob
PROPERTY TerminalIsFinal
