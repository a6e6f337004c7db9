SPECIFICATION Spec
CONSTANTS
    a = a
    b = b
    c = c
    tt = tt
    ff = ff
    f = f
    pred = pred
    fa = fa
    ffa = ffa
    fffa = fffa
    pab = pab
    pbc = pbc
    Fun = {f, pred}
    TrueTerm = tt
    FalseTerm = ff
    NumVars = 5
    MaxConflicts = 2
    Term <- PredicateTerms
    Apps <- PredicateApps
    FunOf <- PredicateFunOf
    ArgsOf <- PredicateArgsOf
    AtomTables <- PredicateTables
INVARIANT ConflictsAreRefutations
