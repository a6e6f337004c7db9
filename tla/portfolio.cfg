SPECIFICATION Spec
CONSTANTS
    s = s
    i1 = i1
    i2 = i2
    trans = trans
    cong1 = cong1
    cong2 = cong2
    cut2 = cut2
    cut12 = cut12
    Assignment = {s, i1, i2}
    Consistent = {s}
    Lemma = {trans, cong1, cong2, cut2, cut12}
    Excludes <- Excluded
    Transitivity = {trans}
    Congruence = {cong1, cong2}
    GroupOf <- Groups
    RefineRounds = 2
    VarisatRounds = 3
INVARIANTS
    UnsupportedNeedsFault
    RoundsAreProductive
PROPERTIES
    ImplementsDecision
    Answers
