SPECIFICATION Spec
CONSTANTS
    Text <- MCText
    upper <- MCUpper
    lower <- MCLower
    MaxArguments = 5
    MaxExchanges = 2
INVARIANTS
    ParsedAsRead
    RunsWhenRight
    VerboseIsHeard
CHECK_DEADLOCK FALSE
