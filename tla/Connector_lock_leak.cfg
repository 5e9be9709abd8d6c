\* One market, one stored timeframe; basetime may return 0 or 2, so a
\* later tick can end the open candle.  The stream and the session loss
\* are bounded, so a thread blocked for ever ends the behaviour: deadlock
\* is not reported as such, the progress property judges it.
CONSTANTS
    Markets = {m1}
    Tfs = {1}
    Stamps = {1}
    Prices = {1}
    Volumes = {1}
    BaseTimes = {0, 2}
    MaxTicks = 2
    MaxLosses = 1
    MaxFailures = 0
    None = None
SPECIFICATION Spec
PROPERTY MainProgress
CHECK_DEADLOCK FALSE
