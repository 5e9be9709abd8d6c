------------------------------ MODULE Database ------------------------------
(***************************************************************************)
(* The write-behind store: Database (src/connectors/database/database.py)  *)
(* with the flush loop of its MySql / PgSql subclasses (mysql.py,          *)
(* pgsql.py).  Producer threads append rows to per-kind pending lists      *)
(* under the mutex; the "db" thread swaps each list out under the mutex,   *)
(* writes it with the lock released, and on an exception prepends the      *)
(* batch back; close() waits for some lists to drain, then stops and joins *)
(* the thread.  The load_* calls append requests to per-kind select lists *)
(* that the same thread swaps out, queries and answers with notify(), and  *)
(* puts back whole when anything raises.                                   *)
(*                                                                         *)
(* A row is [id, null]: id numbers the rows of a kind in enqueue order,    *)
(* null says (for market_info only) whether field 16 is None.  A commit is *)
(* all-or-nothing: a batch that raises is not committed.  All market_info  *)
(* rows are for one (broker_id, market_id).  A select request is numbered  *)
(* the same way; "stored" holds, for a select list, the requests answered. *)
(***************************************************************************)
EXTENDS Integers, Sequences, SequencesExt

CONSTANTS
    Kinds,        \* the insert lists modelled
    Selects,      \* the select lists modelled
    Backend,      \* "mysql" or "pgsql"
    MaxRows,      \* rows (requests) a producer enqueues per list
    NullLots,     \* possible values of "field 16 is None" for market_info rows
    MarketKnown,  \* the market table already holds the market (earlier run)
    OhlcBatch,    \* the 500-row threshold of the ohlc flush
    MaxFailures,  \* transient write errors the backend may raise
    MaxOutages    \* times the backend may go down

\* The insert and select blocks of each process_* method, in code order:
\* process_userdata inserts then selects assets, user trades, user traders.
AssetBlock == <<"asset", "asset_select">>
UserTradeBlock == <<"user_trade", "user_trade_select">>
UserTraderBlock == <<"user_trader", "user_trader_select">>
ProcessUserdata == AssetBlock \o UserTradeBlock \o UserTraderBlock
ProcessMarket == <<"market_info", "market_info_select", "market_list_select">>
ProcessOhlc == <<"ohlc_select", "ohlc", "liquidation">>

\* One iteration of run(): process_userdata, process_market, process_ohlc.
RunOrder == ProcessUserdata \o ProcessMarket \o ProcessOhlc
SelectLists == {"asset_select", "user_trade_select", "user_trader_select",
                "market_info_select", "market_list_select", "ohlc_select"}
Lists == Kinds \cup Selects
Order == SelectSeq(RunOrder, LAMBDA k : k \in Lists)

\* The lists close() waits on (database.py 178).
Awaited == {"ohlc", "asset", "market_info"}

ASSUME /\ Kinds \subseteq ToSet(RunOrder) \ SelectLists /\ Kinds # {}
       /\ Selects \subseteq SelectLists
       /\ Backend \in {"mysql", "pgsql"}
       /\ NullLots \subseteq BOOLEAN /\ NullLots # {} /\ MarketKnown \in BOOLEAN
       /\ {MaxRows, OhlcBatch, MaxFailures, MaxOutages} \subseteq Nat

VARIABLES
    pending,    \* _pending_<kind>_insert and _pending_<kind>_select
    produced,   \* rows or requests enqueued so far per list
    stored,     \* ids committed (answered) per list, in order
    fl,         \* the db thread: [stage, at] with at an index of Order
    inflight,   \* the batch the db thread holds (mki, mkd, uti, ...)
    ohlcDue,    \* time.time() - _last_ohlc_flush >= 60
    running,    \* _running
    cpc,        \* the main thread in close()
    conn,       \* _db: "live", "dead" (server gone) or "none"
    up,         \* the database server is reachable
    failures,   \* transient errors raised so far
    outages     \* outages so far

vars == <<pending, produced, stored, fl, inflight, ohlcDue, running, cpc,
          conn, up, failures, outages>>

Row == [id : 1..MaxRows, null : BOOLEAN]
Ids(s) == [i \in DOMAIN s |-> s[i].id]

-----------------------------------------------------------------------------
(* Producers: store_market_info, store_market_ohlc, store_market_liquidation,
   store_asset, store_user_trade, store_user_trader.                        *)

\* Appends under the mutex.  store_market_ohlc then, outside the mutex,
\* assigns an empty list to _pending_liquidation_insert (database.py 270).
Store(k, null) ==
    /\ cpc = "running"
    /\ produced[k] < MaxRows
    /\ produced' = [produced EXCEPT ![k] = @ + 1]
    /\ LET appended == [pending EXCEPT ![k] = Append(@, [id |-> produced[k] + 1, null |-> null])]
       IN pending' = IF k = "ohlc" /\ "liquidation" \in Kinds
                     THEN [appended EXCEPT !["liquidation"] = <<>>]
                     ELSE appended
    /\ UNCHANGED <<stored, fl, inflight, ohlcDue, running, cpc, conn, up, failures, outages>>

\* load_market_ohlc, load_market_info, load_assets, ...: the request is
\* appended to its select list under the mutex.
Load(k) ==
    /\ cpc = "running"
    /\ produced[k] < MaxRows
    /\ produced' = [produced EXCEPT ![k] = @ + 1]
    /\ pending' = [pending EXCEPT ![k] = Append(@, [id |-> produced[k] + 1, null |-> FALSE])]
    /\ UNCHANGED <<stored, fl, inflight, ohlcDue, running, cpc, conn, up, failures, outages>>

\* Sixty seconds pass since the last ohlc flush.
TimePasses ==
    /\ ~ohlcDue
    /\ ohlcDue' = TRUE
    /\ UNCHANGED <<pending, produced, stored, fl, inflight, running, cpc, conn, up, failures, outages>>

\* The server goes down, killing the open connection, or comes back.
ServerDown ==
    /\ up /\ outages < MaxOutages
    /\ up' = FALSE /\ outages' = outages + 1
    /\ conn' = IF conn = "live" THEN "dead" ELSE conn
    /\ UNCHANGED <<pending, produced, stored, fl, inflight, ohlcDue, running, cpc, failures>>

ServerUp ==
    /\ ~up /\ up' = TRUE
    /\ UNCHANGED <<pending, produced, stored, fl, inflight, ohlcDue, running, cpc, conn, failures, outages>>
-----------------------------------------------------------------------------
(* The db thread: run() and the insert halves of process_userdata,          *)
(* process_market and process_ohlc.                                         *)

Healthy == conn = "live" /\ up

\* Where the thread goes once the list at index i is done; the DELETE of old
\* ohlcs ends process_ohlc, the last step of an iteration.
AfterKindOverrun(i) == IF i <= Len(Order) THEN [stage |-> "swap", at |-> i + 1]
                                         ELSE [stage |-> "cleanup", at |-> 0]
AfterKind(i) == IF i < Len(Order) THEN [stage |-> "swap", at |-> i + 1]
                                  ELSE [stage |-> "cleanup", at |-> 0]

\* The 60 s / 500 rows gate in front of the ohlc insert.
OhlcGateSizeOnly == Len(pending["ohlc"]) > OhlcBatch
OhlcGate == ohlcDue \/ Len(pending["ohlc"]) > OhlcBatch

\* Rows the INSERT loop writes: pgsql.py indents the INSERT under
\* "if mi[16] is None", so PgSql writes only those market_info rows.
Written(k, r) == k # "market_info" \/ Backend = "mysql" \/ r.null

\* For a row whose field 16 is None the loop first SELECTs the market; with
\* no row found, mi[16] = "1.0" assigns into a tuple and raises TypeError.
HasMarketBefore(b, j) ==
    \/ MarketKnown
    \/ stored["market_info"] # <<>>
    \/ \E i \in 1..j - 1 : Written("market_info", b[i])
Poisoned(k, b) ==
    k = "market_info" /\ \E j \in DOMAIN b : b[j].null /\ ~HasMarketBefore(b, j)

LoopTargetForever == [stage |-> "swap", at |-> 1]
\* while self._running: (database.py 485-492).
LoopTarget == IF running THEN [stage |-> "swap", at |-> 1] ELSE [stage |-> "exited", at |-> 0]

Loop ==
    /\ fl.stage = "top"
    /\ fl' = LoopTarget
    /\ UNCHANGED <<pending, produced, stored, inflight, ohlcDue, running, cpc, conn, up, failures, outages>>

\* Under the mutex: take the list and leave an empty one.  The ohlc list is
\* only taken once the gate opens.  An empty batch skips the write.
Swap ==
    /\ fl.stage = "swap"
    /\ LET k == Order[fl.at] IN
       IF k = "ohlc" /\ ~OhlcGate
       THEN /\ fl' = AfterKind(fl.at)
            /\ UNCHANGED <<pending, inflight>>
       ELSE /\ inflight' = pending[k]
            /\ pending' = [pending EXCEPT ![k] = <<>>]
            /\ fl' = IF pending[k] = <<>> THEN AfterKind(fl.at) ELSE [fl EXCEPT !.stage = "write"]
    /\ UNCHANGED <<produced, stored, ohlcDue, running, cpc, conn, up, failures, outages>>

\* The batch is executed and committed.  An ohlc write, ok or not, sets
\* _last_ohlc_flush.
Commit ==
    /\ fl.stage = "write"
    /\ LET k == Order[fl.at] IN
       /\ k \in Kinds
       /\ Healthy
       /\ ~Poisoned(k, inflight)
       /\ stored' = [stored EXCEPT ![k] = @ \o Ids(SelectSeq(inflight, LAMBDA r : Written(k, r)))]
       /\ ohlcDue' = IF k = "ohlc" THEN FALSE ELSE ohlcDue
    /\ inflight' = <<>>
    /\ fl' = AfterKind(fl.at)
    /\ UNCHANGED <<pending, produced, running, cpc, conn, up, failures, outages>>

(***************************************************************************)
(* The batch raises: the server is gone (OperationalError), the connection *)
(* is None (AttributeError), the TypeError above, or a transient error.    *)
(* MySql logs and puts the batch back at the head of the list.            *)
(* PgSql does the same, first calling try_reconnect on an OperationalError *)
(* (a new connection if the server answers within its retries, else None); *)
(* for the liquidation list its handler names the unimported psycopg2, and *)
(* the NameError ends the thread with the batch.                           *)
(***************************************************************************)
\* try_reconnect: _db = None, then connect attempts for about a minute; the
\* last one that succeeds is kept.
TryReconnect == IF up THEN "live" ELSE "none"

RequeueAtTail(k) == [pending EXCEPT ![k] = @ \o inflight]
\* self._pending_<kind>_insert = batch + self._pending_<kind>_insert
Requeue(k) == [pending EXCEPT ![k] = inflight \o @]

Fail ==
    /\ fl.stage = "write"
    /\ LET k == Order[fl.at]
           transient == Healthy /\ ~Poisoned(k, inflight)
       IN /\ k \in Kinds
          /\ transient => failures < MaxFailures
          /\ failures' = IF transient THEN failures + 1 ELSE failures
          /\ IF Backend = "pgsql" /\ k = "liquidation"
             THEN /\ fl' = [stage |-> "dead", at |-> 0]
                  /\ UNCHANGED <<pending, conn, ohlcDue>>
             ELSE /\ pending' = Requeue(k)
                  /\ conn' = IF Backend = "pgsql" /\ conn = "dead" THEN TryReconnect ELSE conn
                  /\ ohlcDue' = IF k = "ohlc" THEN FALSE ELSE ohlcDue
                  /\ fl' = AfterKind(fl.at)
    /\ inflight' = <<>>
    /\ UNCHANGED <<produced, stored, running, cpc, up, outages>>

(***************************************************************************)
(* A select batch: the loop runs each request's query, builds the answer   *)
(* and calls notify(Signal.SIGNAL_..., ...).  Signal is imported in        *)
(* neither mysql.py nor pgsql.py (nor Candle, used for each ohlc row), so  *)
(* the first request that reaches its answer raises NameError, before     *)
(* notify is called: no request is ever answered.  With the connection     *)
(* gone the query raises first; PgSql then calls try_reconnect.  Either    *)
(* way the whole batch is put back at the head of its list.                *)
(***************************************************************************)
SelectRaises ==
    /\ fl.stage = "write"
    /\ LET k == Order[fl.at] IN
       /\ k \in Selects
       /\ pending' = Requeue(k)
    /\ conn' = IF Backend = "pgsql" /\ conn = "dead" THEN TryReconnect ELSE conn
    /\ inflight' = <<>>
    /\ fl' = AfterKind(fl.at)
    /\ UNCHANGED <<produced, stored, ohlcDue, running, cpc, up, failures, outages>>

\* The DELETE of old ohlcs, when its delay has passed.  Skipped or done, it
\* changes nothing modelled; on an error MySql logs, while PgSql's handler
\* again names psycopg2 and the NameError ends the thread.
Cleanup ==
    /\ fl.stage = "cleanup"
    /\ fl' = [stage |-> "top", at |-> 0]
    /\ UNCHANGED <<pending, produced, stored, inflight, ohlcDue, running, cpc, conn, up, failures, outages>>

CleanupFails ==
    /\ fl.stage = "cleanup"
    /\ Healthy => failures < MaxFailures
    /\ failures' = IF Healthy THEN failures + 1 ELSE failures
    /\ fl' = IF Backend = "pgsql" THEN [stage |-> "dead", at |-> 0] ELSE [stage |-> "top", at |-> 0]
    /\ UNCHANGED <<pending, produced, stored, inflight, ohlcDue, running, cpc, conn, up, outages>>

-----------------------------------------------------------------------------
(* The main thread in Database.terminate() -> close() (database.py 175-199),  *)
(* reached once main.py has stopped and terminated the connector handler.   *)

CloseBegins ==
    /\ cpc = "running"
    /\ cpc' = "draining"
    /\ UNCHANGED <<pending, produced, stored, fl, inflight, ohlcDue, running, conn, up, failures, outages>>

\* One test of the wait loop, under the mutex: while the ohlc, asset or
\* market_info list is not empty, force the ohlc gate and sleep.
Drain ==
    /\ cpc = "draining"
    /\ IF \E k \in Awaited \cap Kinds : pending[k] # <<>>
       THEN /\ ohlcDue' = TRUE
            /\ UNCHANGED cpc
       ELSE /\ cpc' = "stopping"
            /\ UNCHANGED ohlcDue
    /\ UNCHANGED <<pending, produced, stored, fl, inflight, running, conn, up, failures, outages>>

Stop ==
    /\ cpc = "stopping"
    /\ running' = FALSE
    /\ cpc' = "joining"
    /\ UNCHANGED <<pending, produced, stored, fl, inflight, ohlcDue, conn, up, failures, outages>>

\* self._thread.join() returns once run() has returned or raised; the
\* disconnect and the tick flush that follow are outside this module.
Join ==
    /\ cpc = "joining"
    /\ fl.stage \in {"exited", "dead"}
    /\ cpc' = "closed"
    /\ UNCHANGED <<pending, produced, stored, fl, inflight, ohlcDue, running, conn, up, failures, outages>>

\* The process has exited.
Exited ==
    /\ cpc = "closed"
    /\ UNCHANGED vars

-----------------------------------------------------------------------------

\* The state setup() leaves: connected, lists empty, _last_ohlc_flush = 0,
\* _running set and the thread started.
Init ==
    /\ pending = [k \in Lists |-> <<>>]
    /\ produced = [k \in Lists |-> 0]
    /\ stored = [k \in Lists |-> <<>>]
    /\ fl = [stage |-> "top", at |-> 0]
    /\ inflight = <<>>
    /\ ohlcDue = TRUE
    /\ running = TRUE
    /\ cpc = "running"
    /\ conn = "live"
    /\ up = TRUE
    /\ failures = 0
    /\ outages = 0

Producer == \/ \E k \in Kinds, null \in NullLots : Store(k, IF k = "market_info" THEN null ELSE FALSE)
            \/ \E k \in Selects : Load(k)
Flusher == Loop \/ Swap \/ Commit \/ Fail \/ SelectRaises \/ Cleanup \/ CleanupFails
Closer == CloseBegins \/ Drain \/ Stop \/ Join \/ Exited
Environment == TimePasses \/ ServerDown \/ ServerUp

Next == Producer \/ Flusher \/ Closer \/ Environment

(***************************************************************************)
(* The db thread is a dedicated thread that only sleeps 1 ms per loop, the *)
(* main thread's close() runs to completion once begun, the clock advances *)
(* and an outage ends: weak fairness on each.  Nothing forces a producer   *)
(* to store or the program to shut down.                                   *)
(***************************************************************************)
Fairness ==
    /\ WF_vars(Flusher)
    /\ WF_vars(Drain \/ Stop \/ Join)
    /\ WF_vars(TimePasses)
    /\ WF_vars(ServerUp)

Spec == Init /\ [][Next]_vars /\ Fairness

-----------------------------------------------------------------------------

TypeOK ==
    /\ \A k \in Lists : pending[k] \in Seq(Row) /\ stored[k] \in Seq(1..MaxRows)
    /\ produced \in [Lists -> 0..MaxRows]
    /\ fl \in [stage : {"top", "swap", "write", "cleanup"}, at : 0..Len(Order)]
              \cup [stage : {"exited", "dead"}, at : {0}]
    /\ inflight \in Seq(Row)
    /\ {ohlcDue, running, up} \subseteq BOOLEAN
    /\ cpc \in {"running", "draining", "stopping", "joining", "closed"}
    /\ conn \in {"live", "dead", "none"}
    /\ failures \in 0..MaxFailures /\ outages \in 0..MaxOutages

\* The rows of list k the db thread holds right now.
InFlight(k) == IF fl.stage = "write" /\ Order[fl.at] = k THEN inflight ELSE <<>>

\* Committed, then in flight, then pending: each row enqueued so far, once.
Lineup(k) == stored[k] \o Ids(InFlight(k)) \o Ids(pending[k]) = [i \in 1..produced[k] |-> i]

(***************************************************************************)
(* Every row (or select request) a producer enqueued is, at every moment,  *)
(* exactly once either committed (answered), in the db thread's batch, or  *)
(* pending, and commits happen in enqueue order: the swap under the mutex, *)
(* the write or query outside it and the put-back at the head (mki +       *)
(* self._pending_..._insert, mis + self._pending_..._select) never lose,   *)
(* duplicate or reorder rows against concurrent store and load calls,      *)
(* failures and reconnects (database.py 214-333, the process methods of    *)
(* mysql.py / pgsql.py).                                                   *)
(***************************************************************************)
RowsInOrder == \A k \in Lists : Lineup(k)

(***************************************************************************)
(* Until shutdown begins, every row enqueued is eventually committed: the  *)
(* retry loop of the db thread delivers through transient errors, the ohlc *)
(* gate always opens and no batch is retried forever.                      *)
(***************************************************************************)
Delivered ==
    \A k \in Kinds, i \in 1..MaxRows :
        produced[k] >= i ~> (i \in ToSet(stored[k]) \/ cpc # "running")

(***************************************************************************)
(* Every load_* request is eventually answered: its service is notified    *)
(* ("@param service to be notified once done", database.py 284-331), as    *)
(* long as the store runs.                                                 *)
(***************************************************************************)
Answered ==
    \A k \in Selects, i \in 1..MaxRows :
        produced[k] >= i ~> (i \in ToSet(stored[k]) \/ cpc # "running")

\* close() returns: its wait loop ends and the db thread stops and is joined.
CloseReturns == cpc = "draining" ~> cpc = "closed"

\* When close() has returned, every row enqueued has been committed (the
\* spec: no row is lost on shutdown).
NothingLostAtClose ==
    cpc = "closed" => \A k \in Kinds : Len(stored[k]) = produced[k]
=============================================================================
