SPECIFICATION Spec
CONSTANTS
    Base = 8
    AddressSpace = 64
    MemSize = 13
    FbSize = 6
    OtherPorts = {32}
    TimerPorts = {36, 40}
    AUX_ENABLES = 44
    AUX_MU_IO_REG = 56
    AUX_MU_IER_REG = 48
    AUX_MU_LCR_REG = 52
    AUX_MU_LSR_REG = 60
    AUX_MU_BAUD_REG = 28
    Regs = {0, 1, 13, 15}
    Instructions <- InstructionSet
    VfpCount = 2
    Float <- FloatValues
    NaN = {3839}
    Results = {640}
    Pointers <- PointerValues
    Numbers <- NumberValues
    Answers = {4095}
    StackTop = 12
    MaxTicks = 3
INVARIANTS TypeOK ReadsBack OnlyRaggedSpill FloatOrder StatusKept
PROPERTY ImplementsStack
CHECK_DEADLOCK FALSE
