CONSTANTS
    a = a
    b = b
    e1 = e1
    Thread = {a, b}
    Eventfd = {e1}
    RING_SIZE = 2
    DMA_SLOTS = 1
    Tag <- MCTag
    Opcode <- MCOpcode
    Operand <- MCOperand
    Result <- MCResult
    PatternEntry <- MCPattern
    Program <- ObjectProgram
    CallerTag = {1, 2}
    CallerOpcode <- ValidOpcode
    CallerOperand = {3, 4}
    Owner = a
    OneAtATime = TRUE
    SlowDevice = FALSE
SPECIFICATION ClientSpec
INVARIANTS
    EchoOK
    OwnerIsQuiet
    NoneStranded
    SleepersAreWoken
PROPERTIES
    EveryCommandAnswered
    WaitGetsOwn
    ZeroCopyInPlace
    AnsweredOnce
    CommandsAdvance
