SPECIFICATION ExtractionSpec
CONSTANTS
    s1 = s1
    s2 = s2
    s3 = s3
    report = report
    annex = annex
    bank = bank
    q1 = q1
    Sessions = {s1, s2, s3}
    NoSession = NoSession
    Contents = {report, annex}
    Content <- MCContent
    Institutions = {bank}
    Periods = {q1}
    Filing <- MCFiling
    Requests = {r1, r2}
    MaxFaults = 1
    MaxReconciles = 1
    ByHand <- MCByHand
    Labels = {"assets", "note", "both"}
    Figures = {"x", "y"}
    Metrics = {"A", "B", "C"}
    Chunks <- MCChunks
    Aliases <- MCAliases
    DefinitionsOf <- MCDefinitions
    Active = {"A", "B"}
    Reading <- MCReading
    BasisKnown = {s1, s2}
    Replies <- MCReplies
    MaxCandidates = 2
    MaxExtractions = 1
INVARIANTS
    OrphansAreFaults
    CountCoversVersions
    SomeRequestGoesOn
    CandidatesAreSourced
PROPERTIES
    ImplementsStore
SYMMETRY Symmetry
