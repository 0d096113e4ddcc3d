\* One request at a time creates categories.
SPECIFICATION Spec
CONSTANTS
    Request = {p1}
    User = {u1}
    Restaurant = {r1}
    Category = {c1, c2}
    Dish = {d1}
    Position = {0, 1, 2}
    None = None
INVARIANT PositionAvailable
