\* One walk, four dishes at two positions, two changes.
SPECIFICATION PagesSpec
CONSTANTS
    Walk = {w1}
    Dish = {d1, d2, d3, d4}
    Position = {0, 1}
    PageSize = {1, 2}
    MaxChanges = 2
    Absent = Absent
SYMMETRY Symmetry
INVARIANTS
    PagesTypeOK
    SteadyMissedOnlyWhenShifted
    TwiceOnlyWhenCame
    QuietWalkIsTheList
CHECK_DEADLOCK FALSE
