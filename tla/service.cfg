SPECIFICATION Spec
CONSTANTS
    Streams = {s1, s2}
    Writer = Writer
    NoThread = NoThread
    MaxBooks = 1
    Window = 2
INVARIANTS
    NoTornSnapshot
    BooksInOrder
PROPERTIES
    LatestIsShown
    HandlerReturns
CHECK_DEADLOCK FALSE
