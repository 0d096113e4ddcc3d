\* Two dishes in three categories, up to three commits during the reading.
SPECIFICATION ReadSpec
CONSTANTS
    Category = {c1, c2, c3}
    Dish = {d1, d2}
    Chunk = 3
    MaxWrites = 3
    Absent = Absent
SYMMETRY Symmetry
INVARIANTS
    ReadTypeOK
    SteadyDishesShown
    DeletedNotShown
CHECK_DEADLOCK FALSE
