SPECIFICATION GpioSpec
CONSTANTS
    ButtonCount = 3
    CounterMod = 8
    MaxCount = 6
    TestOffset = 3
    Watched = {5, 42, 43}
    Selectors = {0, 4, 5}
    Selections = {0, 988412551}
INVARIANTS
    TypeOK
    EdgesFollowGuest
    SelectsOwn
PROPERTIES
    ImplementsPad
    DrivesController
