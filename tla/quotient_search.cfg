SPECIFICATION MCSpec
CONSTANTS
    Term = {t1, t2, t3, t4, t5}
    Problems <- MCProblems
    Caps <- MCCaps
INVARIANTS
    StateIsOfThePath
    OutcomeIsRight
    ForgeriesAreRefused
    PruningIsExact
    RankDiscipline
PROPERTIES
    ImplementsPartition
