\* Three requests of three owners about three names that share slugs.
SPECIFICATION FairSpec
CONSTANTS
    casa = casa
    casaBang = casaBang
    casa1 = casa1
    Request = {p1, p2, p3}
    Owner = {o1, o2, o3}
    Id = {i1, i2, i3}
    Name = {casa, casaBang, casa1}
    Base <- MCBase
    None = None
INVARIANTS
    QuietSearchSucceeds
PROPERTY RequestsEnd
CHECK_DEADLOCK FALSE
