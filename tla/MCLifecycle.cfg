CONSTANTS
    o1 = o1
    o2 = o2
    MaxFiles = 4
    Obj = {o1, o2}
    Fd = {0, 1, 2, 3}
    EventfdId = {0, 1, 2}
SPECIFICATION HandlesSpec
SYMMETRY Objects
INVARIANTS
    NothingLeft
    EntriesHaveDevice
    DescriptorsOwned
    NodePinnedByObjects
    
    SignalsReachNewest
PROPERTIES
    ReleasedOnce
