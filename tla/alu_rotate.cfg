SPECIFICATION Spec
CONSTANTS
    Bits = 3
    Weight <- MCWeight
    MaxShift = 7
    Accumulated = {0}
INVARIANTS
    RotatesRight
