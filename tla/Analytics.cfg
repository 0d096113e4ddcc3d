\* Two requests and two scans of two user agents, a restaurant deleted and created anew.
SPECIFICATION Spec
CONSTANTS
    Request = {q1, q2}
    Scan = {s1, s2}
    Restaurant = {r1, r2}
    Agent = {a1, a2}
    Limit = 1
    Day = 2
    MaxTime = 2
    Asked <- Ranges
    None = None
SYMMETRY Symmetry
INVARIANTS
    PartsGrow
    CalmPartsAgree
    DaysAreWhole
    ExportsMeet
CHECK_DEADLOCK FALSE
