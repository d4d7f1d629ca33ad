CONSTANTS
    a = a
    b = b
    e1 = e1
    Thread = {a, b}
    Eventfd = {e1}
    RING_SIZE = 3
    DMA_SLOTS = 1
    Tag <- MCTag
    Opcode <- MCOpcode
    Operand <- MCOperand
    Result <- MCResult
    PatternEntry <- MCPattern
    Program <- PipelineClient
    CallerTag = {1, 2}
    CallerOpcode <- ValidOpcode
    CallerOperand = {3}
    OneAtATime = FALSE
    SlowDevice = FALSE
SPECIFICATION Spec
INVARIANTS
    NextSlotFree
