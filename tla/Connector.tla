------------------------------ MODULE Connector ------------------------------
(***************************************************************************)
(* The IG connector (src/connectors/connector.py, connectors/ig/           *)
(* connector.py) as driven by the process: the main thread runs            *)
(* DefaultHandler.start and then the run loop (main.py run, handler        *)
(* run_once, Connector.sync), which (re)connects and runs initial_fetch;   *)
(* the Lightstreamer dispatch thread calls _on_tick_update for each tick   *)
(* update, which fans the tick out to the candle of every timeframe        *)
(* kept for the market (update_ohlc).  Both threads share the connector's  *)
(* reentrant lock self._mutex.                                             *)
(*                                                                         *)
(* Data abstraction: a candle keeps the bid side and the volume (the ofr   *)
(* side is the same code on other fields); timestamps, prices and volumes  *)
(* are small integers.  The rows handed to Database (store_market_info,    *)
(* store_market_trade) are not kept: the Database module models the        *)
(* store.                                                                  *)
(***************************************************************************)
EXTENDS Integers, Sequences, FiniteSets

CONSTANTS
    Markets,     \* _default_instruments: the configured market ids
    Tfs,         \* STORED_TIMEFRAMES (TF_4HOUR, TF_DAY, TF_WEEK) as widths
    Stamps,      \* tick timestamps float(UTM) * 0.001
    Prices,      \* bid values (non-zero)
    Volumes,     \* LTV values
    BaseTimes,   \* the values basetime(ts, time.time()) may return
    MaxTicks,    \* bound on the tick updates the stream delivers
    MaxLosses,   \* bound on the losses of the IG session
    MaxFailures, \* bound on failed connect attempts
    None         \* Python None

ASSUME /\ Tfs \subseteq Nat \ {0} /\ Stamps \subseteq Nat
       /\ Prices \subseteq Nat \ {0} /\ Volumes \subseteq Nat
       /\ BaseTimes \subseteq Nat
       /\ {MaxTicks, MaxLosses, MaxFailures} \subseteq Nat

Threads == {"main", "ls"}
NoOwner == "none"

VARIABLES
    connected,   \* the connected property: session, service and stream up
    session,     \* number of the current LSClient (0: none created yet)
    igSubs,      \* _ig_tick_subscriptions: market -> session it was made on
    watched,     \* _watched_instruments
    lastOhlc,    \* _last_ohlc: market -> timeframe -> candle or None
    markets,     \* the market ids of _markets
    subs,        \* _subscriptions: sub id -> market id
    nextSubId,   \* _next_sub_id
    cached,      \* _cached_tick: market -> last complete (utm, bid, ltv)
    owner,       \* thread holding _mutex, or NoOwner
    depth,       \* recursion count of _mutex
    main,        \* main thread: [pc, todo (markets left), m]
    ls,          \* dispatch thread: [pc, m, tick, todo (timeframes left)]
    fed,         \* ghost: market -> timeframe -> ticks of the open candle
    ticks,       \* number of tick updates delivered
    losses,      \* number of session losses
    failures     \* number of failed connect attempts

vars == <<connected, session, igSubs, watched, lastOhlc, markets, subs,
          nextSubId, cached, owner, depth, main, ls, fed, ticks, losses,
          failures>>

Candle == [ts : Nat, open : Prices, high : Prices, low : Prices,
           close : Prices, volume : Nat, ended : BOOLEAN]
Tick == [ts : Stamps, bid : Prices, volume : Volumes \cup {0}]
\* A Lightstreamer update: a field may come empty.
Update == [utm : Stamps \cup {None}, bid : Prices \cup {None},
           ltv : Volumes \cup {None}]

-----------------------------------------------------------------------------
(* The reentrant lock.                                                     *)

\* lock() returns at once when the lock is free or already held by t.
Free(t) == owner \in {NoOwner, t}

\* A lock() ... unlock() section of t with nothing in it that can raise:
\* the lock is as it was before.
LockSection(t) == UNCHANGED <<owner, depth>>

-----------------------------------------------------------------------------
(* Connector bookkeeping (connector.py).                                   *)

AddSubscriptionSameId(m) ==
    /\ subs' = [i \in DOMAIN subs \cup {nextSubId} |->
                   IF i = nextSubId THEN m ELSE subs[i]]
    /\ UNCHANGED nextSubId

\* add_subscription: _recycled_sub_id is only filled by del_subscription,
\* which nothing reaches (unsubscribe is never called), so every new
\* subscription takes _next_sub_id.
AddSubscription(m) ==
    /\ subs' = [i \in DOMAIN subs \cup {nextSubId} |->
                   IF i = nextSubId THEN m ELSE subs[i]]
    /\ nextSubId' = nextSubId + 1

\* insert_watched_instrument(m, [0]): timeframe 0 is TF_TICK (a _last_tick
\* entry, not modelled); every stored timeframe gets a None candle unless
\* it already has one.
InsertWatched(m) ==
    /\ watched' = watched \cup {m}
    /\ lastOhlc' = IF m \in watched THEN lastOhlc
                   ELSE [lastOhlc EXCEPT ![m] = [tf \in Tfs |-> None]]

\* __update_ohlc: volume added, high/low widened, close replaced (the
\* "if not ohlc[2]" seed never fires: a candle is opened with the bid).
UpdateFields(c, t) ==
    [c EXCEPT !.volume = @ + t.volume,
              !.high = IF t.bid > @ THEN t.bid ELSE @,
              !.low = IF t.bid < @ THEN t.bid ELSE @,
              !.close = t.bid]

\* A new candle [base_time, tf, bid, bid, bid, bid, ..., 0.0, 0.0].
OpenedAt(b, t) ==
    [ts |-> b, open |-> t.bid, high |-> t.bid, low |-> t.bid,
     close |-> t.bid, volume |-> 0, ended |-> FALSE]

\* The candle's bucket has ended for this base_time.
Closes(c, tf, b) == c # None /\ c.ts + tf <= b

FoldsAtOpen(c, t) == t.ts > c.ts
\* The tick is folded into the open candle when not older than it.
Folds(c, t) == t.ts >= c.ts

\* A new candle is opened when there is none or its bucket has ended.
Reopens(c, tf, b) == c = None \/ Closes(c, tf, b)

\* update_ohlc's candle for (tf, base_time b) after tick t: the ended one
\* is replaced by a new one at b, and the tick folded when not older.
\* (The lag branch folds the tick into the ended candle, which is lost:
\* see Fanout.)
NextCandle(c, tf, t, b) ==
    LET cur == IF Reopens(c, tf, b) THEN OpenedAt(b, t) ELSE c
    IN  IF Folds(cur, t) THEN UpdateFields(cur, t) ELSE cur

\* _on_tick_update's tick: an empty field takes the cached value.
Merged(m, u) ==
    [f \in {"utm", "bid", "ltv"} |->
        IF u[f] # None THEN u[f]
        ELSE IF cached[m] # None THEN cached[m][f] ELSE None]

Complete(v) == v.utm # None /\ v.bid # None

\* (float(utm) * 0.001, float(bid), float(ofr), float(ltv or "0"))
AsTick(v) == [ts |-> v.utm, bid |-> v.bid,
              volume |-> IF v.ltv = None THEN 0 ELSE v.ltv]

-----------------------------------------------------------------------------
(* Main thread: DefaultHandler.start, then run() -> run_once -> sync.      *)

\* connect(): a new requests session and IG session; on success a new
\* LSClient replaces (destroys) the previous one.  create_session may
\* raise: the session is reset and the old LSClient is left alone.
Connect(ok) ==
    /\ ok \/ failures < MaxFailures
    /\ connected' = ok
    /\ session' = IF ok THEN session + 1 ELSE session
    /\ failures' = IF ok THEN failures ELSE failures + 1

\* After connect: initial_fetch over the configured markets when
\* connected, else back to the loop (sync sleeps and retries).
AfterConnect(ok) ==
    main' = IF ok THEN [pc |-> "fetch", todo |-> Markets, m |-> None]
            ELSE [pc |-> "loop", todo |-> {}, m |-> None]

Start ==
    /\ main.pc = "start"
    /\ \E ok \in BOOLEAN : Connect(ok) /\ AfterConnect(ok)
    /\ UNCHANGED <<igSubs, watched, lastOhlc, markets, subs, nextSubId,
                   cached, owner, depth, ls, fed, ticks, losses>>

\* Connector.sync: reconnect when not connected.
Sync ==
    /\ main.pc = "loop"
    /\ ~connected
    /\ \E ok \in BOOLEAN : Connect(ok) /\ AfterConnect(ok)
    /\ UNCHANGED <<igSubs, watched, lastOhlc, markets, subs, nextSubId,
                   cached, owner, depth, ls, fed, ticks, losses>>

\* sync while connected: trader.process() is a no-op.
Idle ==
    /\ main.pc = "loop"
    /\ connected
    /\ UNCHANGED vars

\* IGConnector.fetch_market(m): when IG returns the market it is stored
\* under the lock (and handed to store_market_info); else it returns.
FetchMarket(m, found) ==
    /\ main.pc = "fetch"
    /\ m \in main.todo
    /\ found => Free("main")
    /\ markets' = IF found THEN markets \cup {m} ELSE markets
    /\ main' = [main EXCEPT !.pc = "subscribe", !.m = m]
    /\ UNCHANGED <<connected, session, igSubs, watched, lastOhlc, subs,
                   nextSubId, cached, owner, depth, ls, fed, ticks, losses,
                   failures>>

\* _ig_subscribe_tick: a DISTINCT subscription on the current LSClient,
\* its key kept in _ig_tick_subscriptions.
IgSubscribeTick(m) == igSubs' = [igSubs EXCEPT ![m] = session]

\* IGConnector.subscribe_tick(m), all under the lock: a Lightstreamer
\* subscription is made only when the market has no key yet.
SubscribeTick ==
    LET m == main.m
        todo == main.todo \ {m}
    IN
    /\ main.pc = "subscribe"
    /\ Free("main")
    /\ InsertWatched(m)
    /\ IF igSubs[m] = 0 THEN IgSubscribeTick(m) ELSE UNCHANGED igSubs
    /\ AddSubscription(m)
    /\ main' = [pc |-> IF todo = {} THEN "loop" ELSE "fetch",
                 todo |-> todo, m |-> None]
    /\ UNCHANGED <<connected, session, markets, cached, owner, depth, ls,
                   fed, ticks, losses, failures>>

-----------------------------------------------------------------------------
(* Lightstreamer dispatch thread: _on_tick_update.                         *)

\* A tick update for m arrives only on the stream its subscription was
\* made on.  An incomplete update (no UTM or BID, none cached) returns
\* at once; a complete one is cached, then the lock section sets
\* _last_tick and appends MSG_TICK to _events.
TickUpdate(m, u) ==
    LET v == Merged(m, u)
    IN
    /\ ls.pc = "idle"
    /\ connected
    /\ igSubs[m] = session
    /\ ticks < MaxTicks
    /\ ticks' = ticks + 1
    /\ IF Complete(v)
       THEN /\ Free("ls")
            /\ LockSection("ls")
            /\ cached' = [cached EXCEPT ![m] = v]
            /\ ls' = [pc |-> "fanout", m |-> m, tick |-> AsTick(v), todo |-> Tfs]
       ELSE UNCHANGED <<cached, ls, owner, depth>>
    /\ UNCHANGED <<connected, session, igSubs, watched, lastOhlc, markets,
                   subs, nextSubId, main, fed, losses, failures>>

\* The ghost: the ticks routed to the open candle since it was opened.
NextFed(c, f, tf, t, b) == IF Reopens(c, tf, b) THEN <<t>> ELSE Append(f, t)

\* One iteration of the loop over self._last_ohlc[market_id]: lock,
\* update_ohlc(market_id, tf, tick...), unlock.  b is what basetime
\* returned.  When the candle has ended, update_ohlc has already put the
\* new candle in place and then, tf being a stored timeframe, builds the
\* store_market_ohlc row from ended_ohlc.timestamp: a list has no such
\* attribute, the AttributeError leaves the loop before unlock() and is
\* caught at the end of _on_tick_update, so the lock stays taken once
\* more and the tick is not handed to store_market_trade.
Fanout(tf, b) ==
    LET m == ls.m
        t == ls.tick
        c == lastOhlc[m][tf]
    IN
    /\ ls.pc = "fanout"
    /\ tf \in ls.todo
    /\ Free("ls")
    /\ lastOhlc' = [lastOhlc EXCEPT ![m][tf] = NextCandle(c, tf, t, b)]
    /\ fed' = [fed EXCEPT ![m][tf] = NextFed(c, @, tf, t, b)]
    /\ IF Closes(c, tf, b)
       THEN /\ owner' = "ls"
            /\ depth' = depth + 1
            /\ ls' = [pc |-> "idle", m |-> None, tick |-> None, todo |-> {}]
       ELSE /\ LockSection("ls")
            /\ ls' = [ls EXCEPT !.todo = @ \ {tf},
                                 !.pc = IF ls.todo = {tf} THEN "store"
                                                            ELSE "fanout"]
    /\ UNCHANGED <<connected, session, igSubs, watched, markets, subs,
                   nextSubId, cached, main, ticks, losses, failures>>

\* Database.store_market_trade for the tick, and the callback returns.
StoreTrade ==
    /\ ls.pc = "store"
    /\ ls' = [pc |-> "idle", m |-> None, tick |-> None, todo |-> {}]
    /\ UNCHANGED <<connected, session, igSubs, watched, lastOhlc, markets,
                   subs, nextSubId, cached, owner, depth, main, fed, ticks,
                   losses, failures>>

-----------------------------------------------------------------------------
(* Environment                                                             *)

\* The IG session or its stream drops: connected turns false.
SessionLost ==
    /\ connected
    /\ losses < MaxLosses
    /\ connected' = FALSE
    /\ losses' = losses + 1
    /\ UNCHANGED <<session, igSubs, watched, lastOhlc, markets, subs,
                   nextSubId, cached, owner, depth, main, ls, fed, ticks,
                   failures>>

-----------------------------------------------------------------------------

Init ==
    /\ connected = FALSE
    /\ session = 0
    /\ igSubs = [m \in Markets |-> 0]
    /\ watched = {}
    /\ lastOhlc = [m \in Markets |-> [tf \in Tfs |-> None]]
    /\ markets = {}
    /\ subs = [i \in {} |-> None]
    /\ nextSubId = 1
    /\ cached = [m \in Markets |-> None]
    /\ owner = NoOwner
    /\ depth = 0
    /\ main = [pc |-> "start", todo |-> {}, m |-> None]
    /\ ls = [pc |-> "idle", m |-> None, tick |-> None, todo |-> {}]
    /\ fed = [m \in Markets |-> [tf \in Tfs |-> <<>>]]
    /\ ticks = 0
    /\ losses = 0
    /\ failures = 0

MainThread ==
    \/ Start
    \/ Sync
    \/ Idle
    \/ \E m \in Markets, found \in BOOLEAN : FetchMarket(m, found)
    \/ SubscribeTick

DispatchThread ==
    \/ \E m \in Markets, u \in Update : TickUpdate(m, u)
    \/ \E tf \in Tfs, b \in BaseTimes : Fanout(tf, b)
    \/ StoreTrade

Next == MainThread \/ DispatchThread \/ SessionLost

\* Both threads are scheduled: the main loop keeps calling sync, and a
\* callback that has started runs to its end.  The stream, the session
\* losses and the content of IG's answers are not forced.
Fairness ==
    /\ WF_vars(MainThread)
    /\ WF_vars(\E tf \in Tfs, b \in BaseTimes : Fanout(tf, b))
    /\ WF_vars(StoreTrade)

Spec == Init /\ [][Next]_vars /\ Fairness

-----------------------------------------------------------------------------
(* Properties                                                              *)

TypeOK ==
    /\ connected \in BOOLEAN
    /\ igSubs \in [Markets -> Nat]
    /\ watched \subseteq Markets
    /\ lastOhlc \in [Markets -> [Tfs -> Candle \cup {None}]]
    /\ subs \in [DOMAIN subs -> Markets] /\ DOMAIN subs = 1..(nextSubId - 1)
    /\ cached \in [Markets -> Update \cup {None}]
    /\ owner \in Threads \cup {NoOwner} /\ (owner = NoOwner) = (depth = 0)
    /\ main.pc \in {"start", "fetch", "subscribe", "loop"}
    /\ ls.pc \in {"idle", "fanout", "store"}

\* Spec 8 "conservation": open = first, high = max, low = min,
\* close = last, volume = sum over the ticks of the candle.
RECURSIVE SumVolume(_)
SumVolume(s) == IF s = <<>> THEN 0 ELSE Head(s).volume + SumVolume(Tail(s))

Bids(s) == {s[i].bid : i \in DOMAIN s}

RefCandle(s, b) ==
    [ts |-> b, open |-> s[1].bid,
     high |-> CHOOSE x \in Bids(s) : \A y \in Bids(s) : y <= x,
     low |-> CHOOSE x \in Bids(s) : \A y \in Bids(s) : x <= y,
     close |-> s[Len(s)].bid, volume |-> SumVolume(s), ended |-> FALSE]

(***************************************************************************)
(* Fan-out independence (spec 4.3, 8): for every watched market and every  *)
(* kept timeframe, the open candle is the conservation fold of exactly the *)
(* ticks _on_tick_update routed to it since it was opened, whatever the    *)
(* interleaving of ticks, cached fields, reconnects and the order of the   *)
(* timeframes (update_ohlc / __update_ohlc, connector.py 367-425).         *)
(***************************************************************************)
CandleMatchesTicks ==
    \A m \in watched, tf \in Tfs :
        fed[m][tf] # <<>> =>
            lastOhlc[m][tf] = RefCandle(fed[m][tf], lastOhlc[m][tf].ts)

(***************************************************************************)
(* Every (re)connection's initial_fetch completes: the main thread gets    *)
(* the connector lock for fetch_market and subscribe_tick and gets back to *)
(* the run loop (DefaultHandler.start, Connector.sync, initial_fetch).     *)
(***************************************************************************)
MainProgress == main.pc # "loop" ~> main.pc = "loop"

(***************************************************************************)
(* Once initial_fetch is done on a live connection, the tick subscription  *)
(* of every watched market is on the current Lightstreamer session, so its *)
(* ticks can arrive (subscribe_tick, ig/connector.py 163-179).             *)
(***************************************************************************)
SubscribedOnSession ==
    connected /\ main.pc = "loop" => \A m \in watched : igSubs[m] = session
=============================================================================
