SPECIFICATION Spec
CONSTANTS
    Low = {0}
    High = {8}
    FlagUnit <- MCFlagUnit
    Data <- MCData
    Addresses = {32}
    Offsets <- MCOffsets
    Lists <- MCLists
    StartAddr = 0
    MaxTicks = 3
INVARIANTS TypeOK SavedModeIsOwn ModeNeedsMsr
PROPERTIES BankIsolation UserConfined
CHECK_DEADLOCK FALSE
