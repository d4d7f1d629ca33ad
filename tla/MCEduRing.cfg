CONSTANTS
    w1 = w1
    w2 = w2
    RING_SIZE = 3
    Tag       = {0}
    Operand   = {0}
    Result    = {0}
    Opcode    <- MCOpcode
    Writer    = {w1}
    MaxCount  = 3
SPECIFICATION StatsSpec
INVARIANTS
    RingTypeOK
    InflightWithinUsed
    RingCountersAgree
    IrqCountersAgree
PROPERTIES
    CqNeverOverrun
