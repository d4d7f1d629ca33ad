CONSTANTS
    a = a
    b = b
    e1 = e1
    Thread = {a, b}
    Eventfd = {e1}
    RING_SIZE = 3
    DMA_SLOTS = 1
    Tag <- MCTag
    Opcode <- MCOpcode
    Operand <- MCOperand
    Result <- MCResult
    PatternEntry <- MCPattern
    Program <- LegacyClient
    CallerTag = {1}
    CallerOpcode <- FactOpcode
    CallerOperand = {3, 4}
    OneAtATime = TRUE
    SlowDevice = FALSE
SPECIFICATION Spec
INVARIANTS
    NoSpuriousTimeout
