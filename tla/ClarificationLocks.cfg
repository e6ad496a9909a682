SPECIFICATION LiveSpec
CONSTANTS
    j1 = j1
    j2 = j2
    r1 = r1
    c1 = c1
    e1 = e1
    e2 = e2
    Jobs <- MCJobs
    Responders <- MCResponders
    Cancellers <- MCCancellers
    Expirers <- MCExpirers
    BatchSize = 2
    Nobody = Nobody
INVARIANTS
    ClosedTogether
    DeadlocksArePairs
PROPERTIES
    ImplementsSteps
    SessionsEnd
