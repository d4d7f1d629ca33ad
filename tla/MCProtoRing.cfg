CONSTANTS
    RING_ENTRIES = 3
    MAX_PAYLOAD  = 4
    Opcode       = {0, 1}
    Length       = {2, 5}
    Payload      = {p, q}
    ZeroPayload  = zero
    MaxSeqno     = 5
SPECIFICATION Spec
INVARIANTS
    TypeOK
    Accounted
    PendingInOrder
    LogHoldsNewest
    LastIsLogged
PROPERTIES
    CommandsAreFifo
