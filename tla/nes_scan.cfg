SPECIFICATION ScanSpec
CONSTANTS
    ButtonCount = 3
    CounterMod = 8
    MaxCount = 6
    TestOffset = 3
INVARIANTS
    ScanFaithful
    CounterStays
