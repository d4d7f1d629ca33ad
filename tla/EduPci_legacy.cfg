CONSTANTS
    a = a
    b = b
    e1 = e1
    Thread = {a, b}
    Eventfd = {e1}
    RING_SIZE = 3
    DMA_SLOTS = 2
    Tag <- MCTag
    Opcode <- MCOpcode
    Operand <- MCOperand
    Result <- MCResult
    PatternEntry <- MCPattern
    Program <- LegacyProgram
    CallerTag = {1}
    CallerOpcode <- ValidOpcode
    CallerOperand = {3, 4}
    OneAtATime = FALSE
    SlowDevice = FALSE
SPECIFICATION LegacySpec
INVARIANTS
    LegacyExclusive
    LegacyFactorialCorrect
PROPERTIES
    EioTakesFault
