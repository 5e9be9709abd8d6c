------------------------------ MODULE Basetime ------------------------------
(***************************************************************************)
(* The bucket-start ("basetime") calculation of OhlcGenerator.basetime     *)
(* (src/connectors/common/ohlcgen.py).  Time is an integer count of model  *)
(* units; Day says how many units make a day, so the code's thresholds     *)
(* 7*24*60*60 and 30*24*60*60 are 7*Day and 30*Day.  The calendar that     *)
(* datetime.utcfromtimestamp consults is given by MonthStarts, the model   *)
(* times at which UTC months begin.                                        *)
(***************************************************************************)
EXTENDS Integers, FiniteSets

CONSTANTS
    Day,          \* model time units per day (86400 when the unit is a second)
    MonthStarts   \* times at which a UTC calendar month starts

\* 1970-01-01, the epoch, is a Thursday: datetime.weekday() numbers it 3.
EpochWeekday == 3

Week == 7 * Day
Month == 30 * Day

ASSUME /\ Day \in Nat \ {0}
       /\ MonthStarts \subseteq Nat
       /\ 0 \in MonthStarts

WeekdayFromEpoch(t) == (t \div Day) % 7
\* datetime.weekday() of the UTC day containing t (Monday = 0).
Weekday(t) == ((t \div Day) + EpochWeekday) % 7

LatestMonthStart(t) ==
    CHOOSE m \in MonthStarts : m <= t /\ \A n \in MonthStarts : n <= t => n <= m

(***************************************************************************)
(* OhlcGenerator.basetime: epoch-aligned floor below a week; midnight of   *)
(* the Monday on or before t for a week; midnight of the first day of the  *)
(* month for the nominal 30-day month.  Other widths return None in the    *)
(* code and are excluded by the callers' supported set.                    *)
(***************************************************************************)
Basetime(t, tf) ==
    CASE tf < Week  -> (t \div tf) * tf
      [] tf = Week  -> (t \div Day) * Day - Weekday(t) * Day
      [] tf = Month -> LatestMonthStart(t)
=============================================================================
