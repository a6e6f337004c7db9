SPECIFICATION MCSpec
CONSTANTS
    DataTerm <- MCDataTerm
    BoolTerm <- MCBoolTerm
    Apps <- MCApps
    FunOf <- MCFunOf
    ArgsOf <- MCArgsOf
    TrueTerm = 8
    FalseTerm = 9
    MaxEndOffset = 50
    MaxCandidates = 6
    CanonicalDegree = 2
    CanonicalCount = 1
    ManyApps = 5
    MaxFillEdges = 1
    Problems <- MCProblems
INVARIANTS
    CnfIsWellFormed
    NothingIsLost
    NothingIsAdded
    CompletionDecides
    FillIsOrderly
    ArmsAgree
