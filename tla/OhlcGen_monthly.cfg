\* Ticks into the nominal 30-day month.  One unit is a day; months of 1970
\* start on days 0, 31, 59, 90.  Day 30 is January 31st; days 59 and 60
\* are March 1st and 2nd, inside 30 days of February 1st (day 31).
CONSTANTS
    None = None
    Day = 1
    MonthStarts = {0, 31, 59, 90}
    FromTf = 0
    ToTf = 30
    Timestamps = {5, 30, 40, 59}
    Prices = {1}
    Volumes = {1}
    MaxBatch = 4
SPECIFICATION SpecTicks
INVARIANT AggregationMatchesReference
