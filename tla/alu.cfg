SPECIFICATION Spec
CONSTANTS
    Bits = 3
    Weight <- MCWeight
    MaxShift = 7
    Accumulated = {0, 9, 55, 63}
INVARIANTS
    TypeOK
    SignedOrder
    UnsignedOrder
    ShiftsExact
    LongProducts
PROPERTIES
    Chains
