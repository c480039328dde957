SPECIFICATION Spec
CONSTANTS
    i1 = i1
    i2 = i2
    p1 = p1
    p2 = p2
    none = none
    c1 = c1
    c2 = c2
    r1 = r1
    r2 = r2
    Items = {i1}
    Products = {p1, p2}
    NoProduct = none
    MaxCandidates = 2
    Comparers = {c1}
    Reviewers = {r1, r2}
    MaxComparisons = 2
    MaxReviews = 2
INVARIANTS
    TypeOK
    ReviewedIffDecided
PROPERTIES
    DecidedRowsKept
SYMMETRY Symmetry
CHECK_DEADLOCK FALSE
