\* MySql back end, transient errors, every list close() waits on plus one it
\* does not; rows carry a lot size, so no market_info batch is poisoned.
CONSTANTS
    Kinds = {"user_trade", "market_info", "ohlc"}
    Selects = {"market_info_select"}
    Backend = "mysql"
    MaxRows = 2
    NullLots = {FALSE}
    MarketKnown = FALSE
    OhlcBatch = 1
    MaxFailures = 2
    MaxOutages = 0
SPECIFICATION Spec
INVARIANTS TypeOK RowsInOrder
PROPERTIES Delivered CloseReturns
