SPECIFICATION Spec
CONSTANTS
    Mints = {m1, m2, m3, m4, m5, m6}
    Spacing = 3
    MaxDelay = 7
    Window = 5
    PerWindow = 2
    MaxLate = 1
    MaxTime = 14
SYMMETRY MCSymmetry
CHECK_DEADLOCK FALSE
INVARIANTS
    BookingsSpaced
    RateHolds
