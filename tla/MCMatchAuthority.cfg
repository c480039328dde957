SPECIFICATION Spec
CONSTANTS
    i1 = i1
    i2 = i2
    p1 = p1
    p2 = p2
    none = none
    c1 = c1
    c2 = c2
    r1 = r1
    r2 = r2
    Items = {i1}
    Products = {p1, p2}
    NoProduct = none
    MaxCandidates = 1
    Comparers = {c1}
    Reviewers = {r1, r2}
    MaxComparisons = 1
    MaxReviews = 2
INVARIANTS
    HumanDecisionAuthoritative
CHECK_DEADLOCK FALSE
