\* Two processes with a cache each, one public request and one writer at a time.
SPECIFICATION FairSpec
CONSTANTS
    Instance = {i1, i2}
    Visitor = {v1}
    Admin = {a1}
    Restaurant = {r1}
    Slug = {s1, s2}
    TTL = 1
    MaxRequest = 1
    MaxVersion = 2
    None = None
INVARIANTS
    BoundedStaleness
    InvalidationEffective
PROPERTY EventuallyFresh
