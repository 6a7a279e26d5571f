SPECIFICATION Spec
CONSTANTS
    Peers = {a, b}
    Burst = 2
    MaxBursts = 2
    MaxErrors = 2
    Garbled = Garbled
INVARIANTS
    OneOperation
    BurstsInOrder
PROPERTIES
    BurstsGoOn
    PeersAreAccepted
    OnlyTheRequestHangs
CHECK_DEADLOCK FALSE
