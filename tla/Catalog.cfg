\* Two users, two requests at a time, the dishes of both among three categories.
SPECIFICATION Spec
CONSTANTS
    Request = {p1, p2}
    User = {u1, u2}
    Restaurant = {r1, r2}
    Category = {c1, c2, c3}
    Dish = {d1, d2}
    Position = {0}
    None = None
SYMMETRY Symmetry
PROPERTIES
    TenantIsolation
    DeletedStaysDeleted
    OnlyLateDishesLost
    DishStaysInRestaurant
