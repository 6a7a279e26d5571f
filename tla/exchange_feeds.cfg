SPECIFICATION FeedsSpec
CONSTANTS
    Price = {1, 2}
    Quantity = {0, 1, 2}
    Ticker = {btc}
    Connected = {"BINANCE", "BITMEX", "BYBIT", "COINBASE", "HYPERLIQUID", "INTERNAL", "KRAKEN", "OKX"}
    Broken = Broken
    Missing = Missing
INVARIANTS
    OwnQuotesOnly
    Mirrored
    NeverWrong
    CurrentLevelsQuoted
CHECK_DEADLOCK FALSE
