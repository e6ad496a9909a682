SPECIFICATION Spec
CONSTANTS
    loans2 = loans2
    loans1 = loans1
    group2 = group2
    c1 = c1
    c2 = c2
    c3 = c3
    c4 = c4
    implicit = implicit
    explicit = explicit
    opposed = opposed
    growth = growth
    reverse = reverse
    Keys = {loans2, loans1, group2}
    v1 = v1
    v2 = v2
    Values = {v1, v2}
    Candidates = {c1, c2, c3, c4}
    NoKey = NoKey
    KeysOf <- MCKeysOf
    ValueOf <- MCValueOf
    Reviewers = {r1, r2}
    Calculators = {e1, e2}
    Processes = {r1, r2, e1, e2}
    NoCandidate = NoCandidate
    NoProcess = NoProcess
    Asks = {implicit, explicit, opposed}
    NoAsk = NoAsk
    Formulas = {growth, reverse}
    FormulaOf <- MCFormulaOf
    RolesOf <- MCRolesOf
    Comparable <- MCComparable
    MaxFacts = 3
    MaxRejections = 1
    MaxFaults = 1
    MaxOpen = 2
    MaxRuns = 2
INVARIANTS
    RevisionsFormOneLine
    CalculatedOnce
PROPERTIES
    ImplementsLedger
    InputsCurrentAtCommit
SYMMETRY Symmetry
