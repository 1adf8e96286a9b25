SPECIFICATION Spec
\* The program ends: exited and crashed have no successor.
CHECK_DEADLOCK FALSE
CONSTANTS
    FrameTime = 20
    Cap = 40
    Step = 7
    MaxBack = 1
    MaxJumps = 0
    MaxEvents = 0
PROPERTIES
    RefreshAfter34
