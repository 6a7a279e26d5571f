SPECIFICATION Spec
CONSTANTS
    Producers = {p1, p2}
    Consumers = {c1, c2}
    Closers = {k1}
    Update = {u1, u2}
    NoThread = NoThread
    MaxPushes = 3
    MaxSpurious = 1
INVARIANTS
    TypeOK
    MutualExclusion
    FIFO
    NoLostWakeup
    DrainedBeforeStop
PROPERTIES
    ImplementsChannel
    ShutdownStops
CHECK_DEADLOCK FALSE
