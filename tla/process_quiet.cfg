SPECIFICATION Spec
CONSTANTS
    Price = {1}
    Quantity = {0, 1}
    Ticker = {"BTC"}
    Connected = {"BINANCE"}
    exchanges <- MCOne
    Subscribing = {}
    MaxMessages = 2
    MaxEntries = 1
    MaxUpdates = 3
    PERIOD = 2
PROPERTY
    EventuallyServed
CHECK_DEADLOCK FALSE
