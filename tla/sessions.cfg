SPECIFICATION SessionSpec
CONSTANTS
    Price = {1}
    Quantity = {1}
    Ticker = {btc}
    Connected = {"BINANCE", "KRAKEN"}
    exchanges <- MCExchanges
    Subscribing = {"KRAKEN"}
    MaxMessages = 2
    MaxEntries = 2
    MaxUpdates = 4
INVARIANTS
    MessagesInOrder
PROPERTIES
    EndedForGood
    SetupEnds
CHECK_DEADLOCK FALSE
