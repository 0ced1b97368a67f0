CONSTANTS
    Process = {p1, p2, p3}
    MaxStarts = 4
    MaxFaults = 2
SPECIFICATION Spec
INVARIANT TypeOK
PROPERTY WrittenOnce
SYMMETRY Symmetry
CHECK_DEADLOCK FALSE
