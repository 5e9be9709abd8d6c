\* Two markets, two stored timeframes, a clock that gives base_time 0
\* (basetime(ts, now) for ticks stamped before the local clock), one
\* session loss and one failed connect.
CONSTANTS
    Markets = {m1, m2}
    Tfs = {1, 2}
    Stamps = {0, 1}
    Prices = {1, 2}
    Volumes = {1}
    BaseTimes = {0}
    MaxTicks = 2
    MaxLosses = 1
    MaxFailures = 1
    None = None
SPECIFICATION Spec
INVARIANTS TypeOK CandleMatchesTicks
