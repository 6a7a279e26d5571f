SPECIFICATION Spec
CONSTANTS
    Price = {100, 101, 110}
    Quantity = {5, 10}
    Bps <- MCBps
    rounding <- MCRounding
    Notionals <- MCNotionals
    None = None
INVARIANTS
    ExtremesOfAllTime
    PriceBandsMatch
    NotionalLabelsMatch
    AveragesAreFair
