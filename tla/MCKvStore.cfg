CONSTANTS
    Runner = {r1, r2}
    Key = {k1, k2}
    Value = {1, 2}
    KeySize = 1
    MaxValue = 2
    MaxTotal = 4
    Temp = 2
    MaxWrites = 3
    MaxCrashes = 1
SPECIFICATION Spec
INVARIANTS TypeOK WithinLimits GuestIsTold WritesAreAtomic
SYMMETRY Symmetry
CHECK_DEADLOCK FALSE
