CONSTANTS
    a = a
    b = b
    e1 = e1
    Thread = {a, b}
    Eventfd = {e1}
    RING_SIZE = 3
    DMA_SLOTS = 1
    Tag <- MCTag
    Opcode <- MCOpcode
    Operand <- MCOperand
    Result <- MCResult
    PatternEntry <- MCPattern
    Program <- MixedProgram
    CallerTag = {1, 2}
    CallerOpcode <- MixedOpcode
    CallerOperand = {3}
    OneAtATime = FALSE
    SlowDevice = TRUE
SPECIFICATION MixedSpec
INVARIANTS
    TypeOK
PROPERTIES
    CallsReturn
    RingRefined
    CompletionsAreFifo
CHECK_DEADLOCK FALSE
