CONSTANTS
    MAX_PAYLOAD = 2
    BUF_SIZE    = 3
    Opcode      = {0, 1}
    Length      = {0, 1, 4}
    Payload     = {p, q}
    ZeroPayload = zero
SPECIFICATION FairSpec
INVARIANTS
    TypeOK
    CommandIntact
    NothingForgotten
PROPERTIES
    SendSettles
    SendApproaches
