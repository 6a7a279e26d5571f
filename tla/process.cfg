SPECIFICATION Spec
CONSTANTS
    Price = {1}
    Quantity = {0, 1}
    Ticker = {"BTC"}
    Connected = {"BINANCE", "KRAKEN"}
    exchanges <- MCTwo
    Subscribing = {}
    MaxMessages = 2
    MaxEntries = 2
    MaxUpdates = 3
    PERIOD = 1
INVARIANTS
    BookFollowsFeed
    StaleWindow
PROPERTIES
    ImplementsFeed
    EverythingApplied
CHECK_DEADLOCK FALSE
