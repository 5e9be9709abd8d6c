\* Ticks into weekly candles.  One unit is a day (Day = 1); day 0 is
\* Thursday 1970-01-01, so the Mondays are days -3, 4, 11, 18.  The
\* timestamps give a fold inside a week (1, 3), the last day of a week (3,
\* 10), the Monday that opens the next one (4, 11) and a jump over a week
\* (19); a batch may repeat a timestamp or go back in time.
CONSTANTS
    None = None
    Day = 1
    MonthStarts = {0}
    FromTf = 0
    ToTf = 7
    Timestamps = {1, 3, 4, 10, 11, 19}
    Prices = {1, 2}
    Volumes = {1}
    MaxBatch = 3
SPECIFICATION SpecTicks
INVARIANT TypeOK
INVARIANT AggregationMatchesReference
