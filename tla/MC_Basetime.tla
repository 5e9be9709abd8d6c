---------------------------- MODULE MC_Basetime ----------------------------
(***************************************************************************)
(* Checks Basetime against a reference definition of a bucket: for every  *)
(* instant t in a bounded window and every supported width tf, the result  *)
(* is the latest bucket boundary at or before t, where the boundaries are  *)
(* the multiples of tf (below a week), the Monday midnights (week) and the *)
(* UTC month starts (month).  The state is just the pair being checked.    *)
(***************************************************************************)
EXTENDS Basetime

CONSTANTS
    Horizon,      \* instants 0..Horizon are checked
    Timeframes    \* the supported widths under test

VARIABLES t, tf
vars == <<t, tf>>

\* The bucket boundaries of width w, stated from the calendar rather than
\* from the arithmetic of Basetime.
IsBoundary(b, w) ==
    CASE w < Week  -> b % w = 0
      [] w = Week  -> b % Day = 0 /\ ((b \div Day) + EpochWeekday) % 7 = 0
      [] w = Month -> b \in MonthStarts

Window == (-Week)..Horizon

RefBasetime(x, w) ==
    CHOOSE b \in Window : /\ IsBoundary(b, w)
                          /\ b <= x
                          /\ \A c \in Window : IsBoundary(c, w) /\ c <= x => c <= b

Init == t \in 0..Horizon /\ tf \in Timeframes

\* Every pair is an initial state; a step moves to the next instant of the
\* window, wrapping round at its end.
Next == t' = (t + 1) % (Horizon + 1) /\ UNCHANGED tf

TypeOK == t \in 0..Horizon /\ tf \in Timeframes

\* Spec 8 "boundary correctness" and "weekly alignment": basetime(t, tf) is
\* the start of the bucket containing t, a Monday for the weekly width and
\* the first of the month for the monthly width (ohlcgen.py basetime).
BasetimeIsBucketStart == Basetime(t, tf) = RefBasetime(t, tf)
=============================================================================
