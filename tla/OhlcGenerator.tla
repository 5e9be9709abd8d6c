---------------------------- MODULE OhlcGenerator ----------------------------
(***************************************************************************)
(* The timeframe aggregator OhlcGenerator (src/connectors/common/          *)
(* ohlcgen.py): one generator folds ticks, or consolidated candles of the  *)
(* finer width FromTf, into candles of width ToTf and hands back a candle  *)
(* each time a sample opens a later bucket.                                *)
(*                                                                         *)
(* The callers drive it through the batch entry points generate_from_ticks *)
(* and generate_from_ohlcs; each step of a batch is one loop iteration     *)
(* calling update_from_tick / update_from_ohlc.  Prices and volumes are    *)
(* small integers: the code only compares, copies and adds them.           *)
(*                                                                         *)
(* Two ghost variables record what the spec says should come out:          *)
(*   emitted  every candle the generator has handed back, in order;        *)
(*   fresh    the inputs the spec (section 4.2) says must be folded: each  *)
(*            consolidated sample newer than every earlier one.            *)
(***************************************************************************)
EXTENDS Basetime, Integers, Sequences, SequencesExt

CONSTANTS
    FromTf,       \* width of the input candles (0 for ticks)
    ToTf,         \* width of the generated candles
    Timestamps,   \* the sample timestamps the feed may produce
    Prices,       \* bid / ofr values
    Volumes,      \* sample volumes
    MaxBatch,     \* bound on the number of samples in one batch
    None          \* Python None

\* __init__ raises ValueError unless FromTf divides ToTf (FromTf = 0 is the
\* tick unit and skips the check); a generator only exists when it holds.
ASSUME /\ FromTf \in Nat /\ ToTf \in Nat \ {0}
       /\ FromTf # 0 => ToTf % FromTf = 0
       /\ Timestamps \subseteq Nat /\ Prices \subseteq Nat /\ Volumes \subseteq Nat
       /\ MaxBatch \in Nat \ {0}

VARIABLES
    ohlc,            \* _ohlc: the open candle or None
    last_timestamp,  \* _last_timestamp
    last_consumed,   \* _last_consumed
    out,             \* to_ohlcs of the running (or last) batch
    batch,           \* which generate_from_* loop is running, or "idle"
    emitted,         \* ghost: every candle handed back so far
    fresh            \* ghost: the samples the spec requires to be folded

vars == <<ohlc, last_timestamp, last_consumed, out, batch, emitted, fresh>>

\* A tick (timestamp, bid, ofr, volume).  A finer candle is modelled with
\* open = high = low = close on each side, plus its "ended" flag.
Ticks == [timestamp : Timestamps, bid : Prices, ofr : Prices, volume : Volumes]
FromOhlcs == [timestamp : Timestamps, bid : Prices, ofr : Prices,
              volume : Volumes, ended : BOOLEAN]

Candle == [timestamp : {Basetime(t, ToTf) : t \in Timestamps},
           bid_open : Prices, bid_high : Prices, bid_low : Prices,
           bid_close : Prices, ofr_open : Prices, ofr_high : Prices,
           ofr_low : Prices, ofr_close : Prices,
           volume : Nat, consolidated : BOOLEAN]

-----------------------------------------------------------------------------
(* update_from_tick, split into the ideas it is made of.                   *)

\* An input at or before the last folded one is "already done".
Stale(s) == s.timestamp <= last_timestamp

ClosesLate(s) == ohlc # None /\ s.timestamp > ohlc.timestamp + ToTf
\* The open candle's bucket has ended when the sample reaches its end.
Closes(s) == ohlc # None /\ s.timestamp >= ohlc.timestamp + ToTf

OpenTimeAtSample(s) == s.timestamp
\* The candle of a sample starts at the sample's basetime.
OpenTime(s) == Basetime(s.timestamp, ToTf)

\* A new candle at the sample's basetime, every price seeded with the
\* sample's (set_bid / set_ofr) and no volume yet.
Opened(s) ==
    [timestamp |-> OpenTime(s),
     bid_open |-> s.bid, bid_high |-> s.bid, bid_low |-> s.bid, bid_close |-> s.bid,
     ofr_open |-> s.ofr, ofr_high |-> s.ofr, ofr_low |-> s.ofr, ofr_close |-> s.ofr,
     volume |-> 0, consolidated |-> FALSE]

\* Merge the sample: volume added, high/low widened, close replaced.
Folded(c, s) ==
    [c EXCEPT !.volume = @ + s.volume,
              !.bid_high = Max({@, s.bid}), !.bid_low = Min({@, s.bid}),
              !.bid_close = s.bid,
              !.ofr_high = Max({@, s.ofr}), !.ofr_low = Min({@, s.ofr}),
              !.ofr_close = s.ofr]

\* The candle update_from_tick returns: the closed one, or None.
Ended(s) ==
    IF ~Stale(s) /\ Closes(s)
    THEN [ohlc EXCEPT !.consolidated = TRUE]
    ELSE None

\* The whole of update_from_tick on the generator's own state.
UpdateFromTick(s) ==
    IF Stale(s)
    THEN UNCHANGED <<ohlc, last_timestamp>>
    ELSE /\ ohlc' = Folded(IF ohlc = None \/ Closes(s) THEN Opened(s) ELSE ohlc, s)
         /\ last_timestamp' = s.timestamp

\* The spec's side: a consolidated sample newer than all earlier ones.
Record(s) ==
    fresh' = IF fresh = <<>> \/ s.timestamp > Last(fresh).timestamp
             THEN Append(fresh, [t \in {"timestamp", "bid", "ofr", "volume"} |-> s[t]])
             ELSE fresh

-----------------------------------------------------------------------------
(* Actions                                                                 *)

Init ==
    /\ ohlc = None
    /\ last_timestamp = 0
    /\ last_consumed = 0
    /\ out = <<>>
    /\ batch = "idle"
    /\ emitted = <<>>
    /\ fresh = <<>>

\* generate_from_ticks / generate_from_ohlcs entry: fresh result list and
\* _last_consumed reset.
GenerateFromTicks ==
    /\ batch = "idle"
    /\ batch' = "ticks"
    /\ out' = <<>>
    /\ last_consumed' = 0
    /\ UNCHANGED <<ohlc, last_timestamp, emitted, fresh>>

GenerateFromOhlcs ==
    /\ batch = "idle"
    /\ batch' = "ohlcs"
    /\ out' = <<>>
    /\ last_consumed' = 0
    /\ UNCHANGED <<ohlc, last_timestamp, emitted, fresh>>

\* One iteration of the generate_from_ticks loop.
TickStep(s) ==
    /\ batch = "ticks"
    /\ last_consumed < MaxBatch
    /\ UpdateFromTick(s)
    /\ out' = IF Ended(s) # None THEN Append(out, Ended(s)) ELSE out
    /\ emitted' = IF Ended(s) # None THEN Append(emitted, Ended(s)) ELSE emitted
    /\ last_consumed' = last_consumed + 1
    /\ Record(s)
    /\ UNCHANGED batch

(***************************************************************************)
(* One iteration of the generate_from_ohlcs loop.  A candle that is not    *)
(* ended is ignored.  For an ended one, line 175 reads the misspelt name   *)
(* from_ohcl: the NameError leaves update_from_ohlc before the timeframe   *)
(* and staleness checks and the fold, and propagates out of the batch      *)
(* loop, so the fold of lines 178-224 is never reached.                    *)
(***************************************************************************)
OhlcStep(c) ==
    /\ batch = "ohlcs"
    /\ last_consumed < MaxBatch
    /\ IF c.ended
       THEN /\ batch' = "idle"
            /\ UNCHANGED last_consumed
            /\ Record(c)
       ELSE /\ last_consumed' = last_consumed + 1
            /\ UNCHANGED <<batch, fresh>>
    /\ UNCHANGED <<ohlc, last_timestamp, out, emitted>>

\* The loop has gone through the caller's list and returns to_ohlcs.
ReturnBatch ==
    /\ batch # "idle"
    /\ batch' = "idle"
    /\ UNCHANGED <<ohlc, last_timestamp, last_consumed, out, emitted, fresh>>

NextTicks ==
    \/ GenerateFromTicks
    \/ \E s \in Ticks : TickStep(s)
    \/ ReturnBatch

NextOhlcs ==
    \/ GenerateFromOhlcs
    \/ \E c \in FromOhlcs : OhlcStep(c)
    \/ ReturnBatch

SpecTicks == Init /\ [][NextTicks]_vars
SpecOhlcs == Init /\ [][NextOhlcs]_vars

-----------------------------------------------------------------------------
(* The reference: what the spec says the candles of the fresh samples are. *)

BucketOf(s) == Basetime(s.timestamp, ToTf)

\* The buckets the fresh samples fall in, in time order.
Buckets == SetToSortSeq({BucketOf(fresh[i]) : i \in DOMAIN fresh}, <)

\* Spec 8 "conservation": open = first, high = max, low = min, close = last,
\* volume = sum over the samples of the bucket.
RefCandle(b, closed) ==
    LET ss == SelectSeq(fresh, LAMBDA s : BucketOf(s) = b)
        side(f) == {ss[i][f] : i \in DOMAIN ss}
    IN [timestamp |-> b,
        bid_open |-> ss[1].bid, bid_high |-> Max(side("bid")),
        bid_low |-> Min(side("bid")), bid_close |-> ss[Len(ss)].bid,
        ofr_open |-> ss[1].ofr, ofr_high |-> Max(side("ofr")),
        ofr_low |-> Min(side("ofr")), ofr_close |-> ss[Len(ss)].ofr,
        volume |-> MapThenSumSet(LAMBDA i : ss[i].volume, DOMAIN ss),
        consolidated |-> closed]

TypeOK ==
    /\ ohlc \in Candle \cup {None}
    /\ last_timestamp \in Nat
    /\ last_consumed \in 0..MaxBatch
    /\ out \in Seq(Candle)
    /\ batch \in {"idle", "ticks", "ohlcs"}
    /\ emitted \in Seq(Candle)

(***************************************************************************)
(* The candles handed back are exactly the reference candles of every      *)
(* bucket but the latest, each once and in time order, and the open candle *)
(* is the reference candle of the latest bucket: no fresh sample is lost,  *)
(* folded twice or filed under another bucket, and stale or duplicate      *)
(* samples change nothing (update_from_tick, ohlcgen.py 104-159; spec 4.2  *)
(* and 8).                                                                 *)
(***************************************************************************)
AggregationMatchesReference ==
    LET bs == Buckets
    IN /\ emitted = [i \in 1..Len(bs) - 1 |-> RefCandle(bs[i], TRUE)]
       /\ ohlc = IF bs = <<>> THEN None ELSE RefCandle(bs[Len(bs)], FALSE)
=============================================================================
