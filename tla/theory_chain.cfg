SPECIFICATION Spec
CONSTANTS
    a = a
    b = b
    c = c
    tt = tt
    ff = ff
    f = f
    pred = pred
    fa = fa
    ffa = ffa
    fffa = fffa
    pab = pab
    pbc = pbc
    Fun = {f, pred}
    TrueTerm = tt
    FalseTerm = ff
    NumVars = 5
    MaxConflicts = 2
    Term <- ChainTerms
    Apps <- ChainApps
    FunOf <- ChainFunOf
    ArgsOf <- ChainArgsOf
    AtomTables <- ChainTables
INVARIANTS
    MergesAreEntailed
    ClosureIsComplete
    ProofForest
    ConflictsAreRefutations
    EmptyMeansConsistent
PROPERTY Returns
