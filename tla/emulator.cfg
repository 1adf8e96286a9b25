SPECIFICATION Spec
\* The program ends: exited and crashed have no successor.
CHECK_DEADLOCK FALSE
CONSTANTS
    FrameTime = 2
    Cap = 4
    Step = 1
    MaxBack = 2
    MaxJumps = 2
    MaxEvents = 2
INVARIANTS
    TypeOK
    FrameFresh
    EventsHandled
    CleanExit
PROPERTIES
    QuitStops
