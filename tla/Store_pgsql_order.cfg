\* PgSql back end: three rows per list, so a batch put back twice can meet
\* a newer row behind it; two transient errors and two outages, so a
\* try_reconnect can fail and the next one succeed after a further outage.
CONSTANTS
    Kinds = {"user_trade", "ohlc"}
    Selects = {"ohlc_select"}
    Backend = "pgsql"
    MaxRows = 3
    NullLots = {FALSE}
    MarketKnown = FALSE
    OhlcBatch = 1
    MaxFailures = 2
    MaxOutages = 2
SPECIFICATION Spec
INVARIANT RowsInOrder
