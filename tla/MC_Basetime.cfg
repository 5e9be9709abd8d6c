\* One model unit is one day: widths 1, 2, 3 days (epoch floor), a week and
\* the nominal month, over the first four months of 1970.
CONSTANTS
    Day = 1
    MonthStarts = {0, 31, 59, 90, 120}
    Horizon = 119
    Timeframes = {1, 2, 3, 7, 30}
INIT Init
NEXT Next
INVARIANT BasetimeIsBucketStart
