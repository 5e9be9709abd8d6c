CONSTANTS
    Kinds = {"ohlc"}
    Selects = {}
    Backend = "mysql"
    MaxRows = 2
    NullLots = {FALSE}
    MarketKnown = FALSE
    OhlcBatch = 1
    MaxFailures = 1
    MaxOutages = 0
SPECIFICATION Spec
INVARIANT NothingLostAtClose
