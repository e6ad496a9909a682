SPECIFICATION AnswerSpec
CONSTANTS
    Institutions = {1, 2}
    Periods = {1, 2}
    Amounts <- MCAmounts
    Candidates <- MCCandidates
    Results <- MCResults
    Ledgers <- MCLedgers
    Queries <- MCQueries
    MaxInstitutions = 2
    MaxPeriods = 2
    PageSize = 2
    MaxChanges = 2
    Years = {2025, 2026}
    RecordKeys <- MCRecordKeys
    Offers <- MCOffers
    Monetary <- MCMonetary
    Prompts <- MCPrompts
    Claims <- MCClaims
INVARIANTS
    FiguresTraceable
    PagesAreOneRanking
    AnswersTheQuestion
