SPECIFICATION Spec
CONSTANTS
    Jobs = {j1, j2}
    NoJob = NoJob
    Writers = {w1, w2}
    MaxEvents = 6
    MaxSubmits = 2
    MaxCalls = 2
SYMMETRY MCSymmetry
INVARIANTS
    EventsNumbered
    ShownIsTold
