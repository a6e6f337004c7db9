SPECIFICATION Spec
CONSTANTS
    a = a
    fa = fa
    ffa = ffa
    q = q
    tt = tt
    ff = ff
    f = f
    Term = {a, fa, ffa, q, tt, ff}
    Fun = {f}
    TrueTerm = tt
    FalseTerm = ff
    NumVars = 5
    Apps <- MCApps
    FunOf <- MCFunOf
    ArgsOf <- MCArgsOf
    Atoms <- MCAtoms
    Cnfs <- MCCnfs
    NodeLimit = 6
INVARIANTS
    NoSolutionIsLost
    PropagationIsComplete
PROPERTIES
    ImplementsDecision
    Answers
