SPECIFICATION Spec
CONSTANTS
    Price = {1, 2, 3}
    Quantity = {0, 1}
    Ticker = {btc}
    Connected = {"BINANCE", "INTERNAL"}
INVARIANTS
    TypeOK
    NoEmptyLevel
    BookIsExact
PROPERTY
    ImplementsTable
