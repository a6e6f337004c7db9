SPECIFICATION MCSpec
CONSTANTS
    DataTerm <- MCDataTerm
    BoolTerm <- MCBoolTerm
    Apps <- MCApps
    FunOf <- MCFunOf
    ArgsOf <- MCArgsOf
    TrueTerm = 17
    FalseTerm = 18
    MaxEndOffset = 1000000
    CliqueLimit = 1
    SeedLimit = 2
    MaxDomain = 3
    MaxSymmetricDomain = 4
    LexMinDomain = 3
    DiagonalDomain = 3
    DiagonalFunctions = 2
    Problems <- MCProblems
    Configs <- MCConfigs
INVARIANTS
    NoModelIsLost
    TablesAreDecided
    AnalysisIsRight
    AbstractionIsSound
    IntegrationIsAllOrNothing
