SPECIFICATION Spec
CONSTANTS
    Base = 2
    SizeMod = 20
    AnswerMod = 16
    MemSize = 62
    AddressMod = 78
    Devices = {74}
    Widths = {1, 2}
    Heights = {1, 2, 3}
    Depths = {8, 16, 24, 32, 64}
    Colours <- MCColours
    Channels = {8}
INVARIANTS
    TypeOK
    PixelsInBuffer
    PictureExact
PROPERTIES
    FailureReported
