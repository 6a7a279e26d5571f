SPECIFICATION Spec
CONSTANTS
    Threads = {main, aggregatorThread, serverThread}
    NoThread = NoThread
    Parts = 2
    MaxCalls = 4
SYMMETRY Symmetry
INVARIANTS
    ContentsAreWhole
    NothingIsLost
CHECK_DEADLOCK FALSE
