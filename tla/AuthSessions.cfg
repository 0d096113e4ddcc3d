\* Two requests at a time, one address typed in two ways, three tokens.
SPECIFICATION Spec
CONSTANTS
    Request = {p1, p2}
    User = {u1, u2}
    Email <- TwoCases
    Lower <- LowerTwoCases
    Token = {t1, t2, t3}
    None = None
    adaLower = adaLower
    adaMixed = adaMixed
SYMMETRY Symmetry
INVARIANTS
    OneAccountPerAddress
    RotatedIsRevoked
    QuietLogoutEnds
PROPERTY ImplementsLifecycle
