\* Two reorders of up to two of three categories.
SPECIFICATION FairSpec
CONSTANTS
    Request = {p1, p2}
    Category = {c1, c2, c3}
    MaxListed = 2
    None = None
INVARIANTS
    TypeOK
    CirclesDisagree
PROPERTIES
    ImplementsOrder
    ReordersEnd
CHECK_DEADLOCK FALSE
