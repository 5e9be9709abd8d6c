# TLA+ models of the siis-rev connector

This directory holds TLA+ models of the siis-rev connector (`src/connectors`):
its market-data core, its write-behind store and the life of the process from
start to shutdown. They are checked with TLC. Every definition is translated
from the Python source. `PROJECT.json` maps each definition to the lines it
models and lists the runs, mutants, findings and hazards.

## 1. The system

The connector is one Python process (`main.py`) with several threads:

* **Lightstreamer callback thread** (`connectors/ig/connector.py`,
  `_on_tick_update`). For each price update it:
  * builds a tick;
  * takes the connector RLock around `Connector.update_ohlc` for each stored
    timeframe (4h, day, week);
  * then calls `Database.store_market_trade`.
* **main thread, running the handler** (`defaulthandler.py`, `connector.py`,
  `main.py` `application` and `run`):
  * `application` starts the `ConnectorServer` thread, then calls
    `DefaultHandler.start`, which connects and, when connected, runs
    `initial_fetch`: `fetch_market` and `subscribe_tick` for every configured
    market, each under the connector RLock;
  * the run loop calls `Connector.sync`, which reconnects when the IG session
    is down and then runs `initial_fetch` again;
  * a first Ctrl-C in the loop asks for a second one within 2 s; a second one
    leaves the loop;
  * `IGConnector.fetch_market` stores market metadata with
    `Database.store_market_info`.
* **ConnectorServer thread** (`connectorserver.py`). On entry it clears
  `_quit`, spawns `NUM_WORKERS` (2) `StrategyClientWorker` threads and a
  monitor thread, then spins until `_quit` is set. Its workers block in
  `poller.poll()` on a backend socket to which no proxy ever forwards, so only
  `context.term()` wakes them.
* **db thread** (`database/database.py` `Database.run`). It is the
  write-behind flusher of the MySql or PgSql subclass (`mysql.py`,
  `pgsql.py`).
  * Each loop iteration runs `process_userdata`, `process_market`,
    `process_ohlc` and `process_tick`, then sleeps 1 ms.
  * Each `process_*` handles insert lists and select (request) lists. For
    every pending list it does three things:
    * swaps the list out under the mutex;
    * executes the SQL, and for a select notifies the requesting service,
      with the mutex released;
    * on any exception, puts the batch back at the head of the list.
* **main thread at shutdown**. It stops the handler (disconnect), then
  terminates it: `ConnectorServer.terminate` sets `_quit`, joins the server
  thread, closes the sockets and terminates the zmq context. Finally
  `Database.terminate()` → `close()`:
  * waits until the ohlc, asset and market_info lists are empty, forcing the
    ohlc timer each time round;
  * clears `_running`;
  * joins the db thread.

`common/ohlcgen.py` (`OhlcGenerator`) is the timeframe aggregator described by
the spec (§4.2). It folds ticks, or ended candles of a finer timeframe, into
candles of a coarser one. It uses its own `basetime` (§4.1).

How the parts interact:

```
feed ──► Connector.update_ohlc ──► Database.store_market_ohlc ─┐
   └───► Database.store_market_trade (tick log)                ├─► pending lists ─► db thread ─► SQL
IG fetch_market ─► Database.store_market_info ─────────────────┘
OhlcGenerator (library aggregator: generate_from_ticks / generate_from_ohlcs)
```

Only `store_market_info`, `store_market_trade` and `store_market_ohlc` have
callers in this repository. The other `store_*` and all `load_*` methods are
the store's public API.

## 2. Modules

| module | models | source |
|---|---|---|
| `Basetime` | `OhlcGenerator.basetime`: epoch floor below a week, Monday 00:00 UTC for a week, 1st of the month for the 30-day timeframe | `ohlcgen.py` 89-102, `constants.py` |
| `MC_Basetime` | checks `Basetime` against a definition by enumeration: the greatest bucket boundary ≤ t | — |
| `OhlcGenerator` | one generator: `__init__`, the batch loops `generate_from_ticks` / `generate_from_ohlcs`, `update_from_tick`, and `update_from_ohlc` up to its NameError | `ohlcgen.py` 16-176 |
| `MC_OhlcGenerator` | instance of `OhlcGenerator` for TLC | — |
| `Connector` | the IG connector: the main thread's connect / `initial_fetch` / `sync`, `subscribe_tick`, the Lightstreamer thread's `_on_tick_update` and the per-(market, timeframe) candles of `update_ohlc`, all around the connector RLock | `connector.py`, `connectors/ig/connector.py`, `defaulthandler.py` |
| `Database` | the write-behind store: `store_*` and `load_*` producers, the db thread's insert and select paths for both back ends, `try_reconnect`, the retention DELETE, `close()`, and the server as an environment | `database.py`, `mysql.py`, `pgsql.py` |
| `TickLog` | the tick log path: `store_market_trade` on the Lightstreamer thread, `process_tick` on the db thread, `DefaultHandler.stop`'s conditional disconnect, and `close()`'s join and forced flush of every `TickStorage`; `TickStorage` itself from the spec | `database.py`, `connectors/ig/connector.py`, `defaulthandler.py`; spec §4.5 for `tickdb.py` |
| `Lifecycle` | the process from start to exit: `application` / `run` of `main.py` (command line, `Database.create` / `setup`, the handler's construction and `init`) with its Ctrl-C confirmation, `DefaultHandler` start / stop / terminate, the `ConnectorServer` thread, its workers and monitor thread, the zmq context, and `Database.terminate` as one step | `main.py`, `defaulthandler.py`, `connectorserver.py`, `strategyclient.py` |

### OhlcGenerator

State: `ohlc` (`_ohlc`, a candle record or `None`), `last_timestamp`,
`last_consumed`, `out` (the batch's `to_ohlcs`), and `batch` (which
`generate_from_*` loop is running).

Actions:
* `GenerateFromTicks` / `GenerateFromOhlcs` start a batch.
* `TickStep(s)` is one loop iteration: the whole of `update_from_tick` on a
  tick `s`, the append to `to_ohlcs`, and `_last_consumed += 1`.
* `OhlcStep(c)` is one iteration of the candle loop.
  * A candle that is not ended is ignored.
  * An ended one raises NameError at line 175 (`from_ohcl`). This aborts the
    batch.
* `ReturnBatch` ends the loop.

`update_from_tick` is split into one operator per idea:
* `Stale`: the `<=` guard;
* `Closes`: `ts >= ohlc.timestamp + to_tf`;
* `Opened` at `OpenTime` = basetime;
* `Folded`: max/min/close/volume;
* `Ended`.

Two ghost variables hold what the spec says should come out:
* `emitted` is every candle handed back.
* `fresh` is every sample the spec says must be folded: one newer than all
  earlier samples.

The reference `RefCandle` computes a bucket's candle directly from `fresh`:
first, max, min and last price, and the sum of volumes. The prices are small
integers, because the code only compares, copies and adds them.

### Database

State:
* `pending[k]`: `_pending_<k>_insert`.
* `fl` and `inflight`: the db thread's program counter and the batch it holds.
* `ohlcDue`: 60 s elapsed since `_last_ohlc_flush`.
* `running`: `_running`.
* `cpc`: the main thread inside `close()`.
* `conn`: `_db`, which is live, dead (server went away) or None.
* `up`: the server is reachable.
* `stored[k]`: the ids committed, in commit order.

A row is `[id, null]`:
* ids number each kind's rows in enqueue order;
* `null` says whether a market_info row's field 16 (lot size) is None.

Actions:
* `Store(k, null)` is every `store_*` method. For the ohlc kind it includes
  the trailing `_pending_liquidation_insert = []`.
* `Loop` is `while self._running`.
* `Swap` takes a list under the mutex. The ohlc list is only taken when
  `OhlcGate` (60 s or > 500 rows) holds.
* `Commit` is a write that succeeds. PgSql writes only the market_info rows
  whose field 16 is None (`Written`).
* `Fail` is a write that raises. The cause may be an OperationalError, an
  AttributeError on `_db = None`, the TypeError of `mi[16] = "1.0"` on a tuple
  (`Poisoned`), or a transient error. The handler then runs:
  * the batch is put back at the head (`Requeue`);
  * PgSql first calls `TryReconnect`;
  * for the PgSql liquidation list, the handler names the unimported
    `psycopg2` and the thread dies with its batch.
* `Cleanup` / `CleanupFails` model the retention DELETE. A PgSql failure there
  ends the thread for the same reason.
* `CloseBegins`, `Drain`, `Stop`, `Join` and `Exited` model `close()`.
* Environment: `TimePasses`, `ServerDown` and `ServerUp`.

Why the steps can be atomic:
* Each step is one critical section, or one I/O call followed by its handler's
  critical section.
* A put-back under the mutex commutes with producers' appends: either order
  gives `batch ∘ old ∘ new`.
* `store_market_ohlc`'s unlocked clear is merged with its append. The
  flusher's steps on the liquidation list reach the same states whether they
  fall before, between or after the two.

Selects. `Load(k)` is every `load_*` method: a request appended to its
select list. The select halves of `process_*` swap the list like an insert;
`SelectRaises` is what every select does in this repository: the answer
builds a `Signal` (and `Candle`, `Instrument`), names that `mysql.py` and
`pgsql.py` never import, so the NameError puts the whole batch back at the
head. `RunOrder` lists the insert and select blocks in the order the
`process_*` methods run them (`AssetBlock`, `UserTradeBlock`,
`UserTraderBlock`, `ProcessMarket`, `ProcessOhlc`).

Producers stop once `close()` has begun, because `main.py` stops and
terminates the handler before `Database.terminate()`. The pending lists are
unbounded, as spec §4.4 prescribes for an outage; the model bounds rows per
list instead (`MaxRows`).

### Connector

State:
* `owner`, `depth`: the connector RLock `_mutex` (holder and recursion count).
* `main`, `ls`: the program counters of the main thread (`start`, `fetch`,
  `subscribe`, `loop`) and of the Lightstreamer thread (`idle`, `fanout`,
  `store`), with the markets or timeframes still to do.
* `connected`, `session`: the IG session and the number of the current
  `LSClient`; `igSubs[m]`: the session on which the key in
  `_ig_tick_subscriptions` was made.
* `watched`, `lastOhlc`, `subs`, `nextSubId`, `cached`, `markets`: the
  dictionaries of the same names. A candle keeps the bid side and the volume.
* `fed` (ghost): the ticks routed to each open candle since it was opened.

Actions:
* `Start`, `Sync`: `connect()` (success makes a new `LSClient`), then
  `initial_fetch` when connected. `Idle` is the loop while connected.
* `FetchMarket(m, found)`: the lock section of `fetch_market` when IG returns
  the market.
* `SubscribeTick`: `insert_watched_instrument`, `_ig_subscribe_tick` only for
  a market with no key yet, and `add_subscription`, under the lock.
* `TickUpdate(m, u)`: an update on the stream `m` was subscribed on. Empty
  fields are taken from `_cached_tick`; an incomplete tick returns, a
  complete one is cached and the `_last_tick` lock section runs.
* `Fanout(tf, b)`: one lock section around `update_ohlc` for a timeframe, `b`
  being what `basetime(ts, time.time())` returned. If the candle has ended,
  the new one is already in place when the store row reads
  `ended_ohlc.timestamp` on a list: the AttributeError leaves the lock taken
  and ends the callback.
* `StoreTrade`: the tick is handed to `store_market_trade`.
* Environment: `SessionLost`.

`basetime` is imported from `common/utils.py`, which is not in the
repository, and `update_ohlc` passes it the wall clock where the spec's
contract (§4.1) has the timeframe. Its result is therefore the constant set
`BaseTimes`. `{0}` is what the sub-weekly formula gives for every tick
stamped before the local clock: no candle ever ends.

### Lifecycle

State: `main` (the main thread's position in `application` / `run` /
shutdown), `sigCount` and `late` (`sig_int_count`, and whether 2 s have
passed since the first Ctrl-C), `connected`, `srvRunning` / `srvQuit` /
`srv` (the server's `_running`, `_quit` and thread position), `workers` and
`wRunning` (each worker's position and `_running`), `monitor`, `ctx` (the zmq
context: open, terminating, closed), `db` (the store: not created,
created, its thread running, closed) and `connector` (what
`build_connector` returned).

Actions of the main thread:
* `Application`: `install`, logging, the command line and the two
  configuration files, as one step with three ends: the running mode,
  `sys.exit` (`--version`, `--help`, no `--connector`, a replay without
  dates, binarize / fetch without their arguments), or an exception
  (`parse_config` re-raises a missing file; binarize / fetch with their
  arguments call the commented-out `do_binarizer` / `do_fetcher`).
* `DatabaseCreate`, `DatabaseSetup`: `Database.create`, then `setup`, which
  connects (it raises without the driver, and `PgSql.connect` reads
  `config['siis']`, a KeyError for the shipped configuration) and only then
  starts the non-daemon db thread.
* `HandlerNew` (with `BuildConnector`), `HandlerInit`: the handler is built;
  an unknown connector name gives `None`, and `init` then raises
  AttributeError; `ConnectorServer.init` raises when the port is taken.
* `ServerStart`: `ConnectorServer.start` sets `_running` and starts the
  thread.
* `Connect`, `InitialFetch`: `DefaultHandler.start`; the fetch may raise
  (`IGAccount.initial_fetch` names the undefined `rev_currency_market`).
* `RunOnce`: one loop turn. A connected turn resets the Ctrl-C count when 2 s
  have passed; a reconnect whose fetch raises skips the reset.
* `CtrlC`: a signal inside `run()`; `Confirmed` (count > 1) leaves the loop.
* `Interrupted`: a KeyboardInterrupt outside `run()` (anywhere up to
  `handler.start` in the run's cfg) ends `main` without any shutdown.
* `Stop`, `Terminate` (sets `_quit` and joins when the server runs), `Join`,
  `CloseSockets`, `TermReturns` (`context.term()` returns once no worker
  polls), `DbTerminate`.
* Environment: `TimePasses` (the 2 s window closes).

Actions of the server thread: `ServerEntry` (clears `_quit`),
`ServerSpawnsWorker`, `ServerStartsMonitor`, `ServerSeesQuit` (the spin loop
reads `_quit`), `ServerExits` (calls `stop()` on each worker, clearing its `_running`). Each worker: `WorkerRuns` (polls while the context is open),
`WorkerWakes` (ContextTerminated ends it).

### TickLog

State: `main` (running, stopped by `handler.stop`, then inside `close()`:
joining, flushing, closed or crashed), `connected` and `lsAlive` (the IG
session and whether an `LSClient` still delivers), `ls` (the Lightstreamer
thread: idle, or inside `store_market_trade` before or after the mutex),
`received`, `storages` (the keys of `_tick_storages` in insertion order),
`pending` (`_pending_tick_insert`), `buf` (what each `TickStorage` holds
unwritten), `running`, `db` (the db thread in `run()`), `pti`
(`process_tick`'s copy), `it` / `size` (the iteration of `close()` and the
dict's size when it began), `durable` (ticks written), and the ghost `early`
(ticks whose `store()` returned before `close()` began).

Actions:
* Lightstreamer thread: `TickArrives`, `TradeEnqueue` (under the mutex, the
  storage is created on the market's first tick and appended to the pending
  list), `TradeStore` (`tickstorage.store(data)` with the mutex released).
* db thread: `DbLoop`, `ProcessTickTake` (copy and clear under the mutex),
  `ProcessTickFlush` (`flush()` of each storage that has data),
  `ProcessTickDone`.
* main thread: `Stop` (disconnects only when connected), `CloseBegins`,
  `CloseJoins`, `CloseFlushStorage` (`flush(force=True)`), `CloseRaises`
  (the dict changed size during the iteration: RuntimeError),
  `CloseReturns`; the environment's `SessionLost`.

`TickStorage` (`database/tickdb.py`, not in the repository) is modelled from
spec §4.5: `store` buffers, a plain `flush` may write or keep batching, a
forced flush writes all. These four operators are marked spec-modelled.

## 3. Runs

Passing runs:

| run | cfg | properties | shows |
|---|---|---|---|
| basetime | `MC_Basetime.cfg` | `BasetimeIsBucketStart` | basetime is the latest boundary ≤ t for 1/2/3-day, weekly and monthly widths over Jan–Apr 1970 |
| ohlcgen_ticks | `OhlcGen_ticks.cfg` | `TypeOK`, `AggregationMatchesReference` | weekly candles from any sequence of up to 3 ticks per batch, with repeats, late ticks and gaps, equal the reference candles: they open on Monday and close exactly at the next Monday |
| store_mysql | `Store_mysql.cfg` | `TypeOK`, `RowsInOrder`, `Delivered`, `CloseReturns` | MySql with transient errors and a select list: no row lost, duplicated or reordered; every row committed while running; close() returns |
| store_pgsql_order | `Store_pgsql_order.cfg` | `RowsInOrder` | PgSql, three rows per list, through two transient errors and two outages with try_reconnect: no row lost, duplicated or reordered |
| connector_fanout | `Connector_fanout.cfg` | `TypeOK`, `CandleMatchesTicks` | two markets, two timeframes, cached fields, a session loss and a failed connect: each candle is the fold of exactly its ticks |
| lifecycle_shutdown | `Lifecycle.cfg` | `TypeOK`, `ShutdownCompletes` | from the command line on, with every startup failure possible: a confirmed Ctrl-C, once the server thread has entered its loop, ends the process with the store drained, whatever the order of the five threads |
| ticklog_shutdown | `TickLog.cfg` | `TypeOK`, `TicksDurableAtExit` | three markets, four ticks, a session loss the stream may outlive, and the shutdown: every tick stored before `close()` began is written when `close()` returns |

Violation runs (each checks one property that the spec, or the program's own message, states):

| run | property | what TLC finds |
|---|---|---|
| ohlcgen_monthly | `AggregationMatchesReference` | a tick on Jan 31 closes January and opens a second candle stamped Jan 1 |
| store_close_inflight | `NothingLostAtClose` | close() sees the ohlc list empty while the batch is in flight; the write fails, is put back, and the thread exits without it |
| lifecycle_crash | `ProcessEnds` | a handler init that raises after `Database.setup` (6 steps), or a Ctrl-C outside `run()`, leaves the non-daemon db and server threads running: the process never exits |
| connector_lock_leak | `MainProgress` | a tick ends a candle, the AttributeError keeps the RLock; after a session loss the reconnect's `fetch_market` waits for ever |
| connector_resubscribe | `SubscribedOnSession` | after a reconnect the market's tick subscription is still the one of the destroyed `LSClient` |

The properties:

* `AggregationMatchesReference` (OhlcGenerator). The candles handed back are
  the reference candles of every bucket but the latest, in order and each
  once, and the open candle is the latest bucket's reference candle. It is
  broken by:
  * a sample that is lost or folded twice;
  * a sample filed under the wrong bucket;
  * a wrong staleness or close test.
* `RowsInOrder` (Database). `stored ∘ inflight ∘ pending` is exactly
  `1..produced`, for every kind at every moment. This single equation gives
  three properties together: no loss, no duplicate, and enqueue order. It is
  stated across:
  * the producers' appends;
  * the swap;
  * the write with the lock released;
  * the put-back at the head;
  * reconnects.
* `Delivered`: while running, every enqueued row is eventually committed.
* `CloseReturns`: close() eventually returns once begun.
* `NothingLostAtClose`: when close() returns, every enqueued row is committed
  (spec §4.4 "drain-then-stop … no enqueued row is silently lost").
* `CandleMatchesTicks` (Connector): for every watched market and timeframe
  the open candle is the conservation fold (first, max, min, last, sum) of
  exactly the ticks routed to it, whatever the interleaving of the two
  threads and the order of the timeframes (spec §4.3, §8 fan-out
  independence).
* `MainProgress` (violation run): every `initial_fetch` gets the lock it
  needs and returns to the run loop. Only a candle that closes can leave the
  lock held, so it is checked where candles close (`connector_lock_leak`),
  not in `connector_fanout`, whose base time never ends a candle.
* `SubscribedOnSession`: once `initial_fetch` is done on a live connection,
  every watched market is subscribed on the current `LSClient`.
* `TicksDurableAtExit` (TickLog): when `close()` returns, every tick whose
  `store()` returned before `close()` began is durable. It needs the
  Lightstreamer thread's two halves of `store_market_trade`, `process_tick`
  taking the storage between them, and `close()`'s forced flush of every
  storage, including one no longer pending.
* `ShutdownCompletes` (Lifecycle): once the main thread has left the loop
  after a confirmed Ctrl-C, and the server thread has entered `run()`, the
  process eventually exits with the store closed. It needs four threads to
  cooperate: `_quit` seen by the server loop, the join, `context.term()`
  waking the blocked workers, and `Database.terminate`.

Properties written and checked by hand but not given a run of their own
(each is violated by the code; see the findings):
* `Answered` (Database): every `load_*` request is eventually answered.
  TLC refutes it on the first select: the answer raises NameError.
* `ConfirmWithinWindow` (Lifecycle): the loop is left only by a second
  Ctrl-C within 2 s of the first. Violated in 6 steps.
* `ProcessEnds` (Lifecycle, violation run): once `application()` has
  returned, exited or raised, no non-daemon thread is left (`NoThreadLeft`),
  as "Hit CTRL-C twice to terminate" promises. The db thread started by
  `Database.setup`, the server thread and its workers must all stop.
* `ShutdownUnconditional` (Lifecycle): a confirmed stop always ends the
  process. Violated when `stop()` comes before the server thread's entry.

Each property of a passing run has a mutant in `PROJECT.json`: a plausible
code bug (a `<` for a `<=`, put-back at the tail, the ohlc gate without its
timer, an off-by-one in the run order, and so on) that TLC catches.

## 4. Bounds

* **Basetime.** One model unit is one day (`Day = 1`), with the real month
  starts of 1970. The window covers:
  * widths that divide and do not divide a week;
  * a week from a Thursday epoch;
  * months of 31, 28 and 31 days.
* **Ticks.** The passing run aggregates into weekly candles (`ToTf = 7`,
  one unit a day, day 0 a Thursday, so Mondays fall on days 4, 11, 18).
  * The timestamps {1, 3, 4, 10, 11, 19} give: a fold inside a week (1, 3),
    the last day of a week (3, 10), the Monday that opens the next (4, 11),
    and a skipped week (19). A batch may repeat a timestamp or go back.
  * Batches of up to 3 ticks, any number of batches, two prices (so max ≠ min
    can happen).
  * Positive timestamps only, as a live feed gives. Timestamp 0 is dropped by
    the initial `_last_timestamp = 0` (spec scenario B); adding 0 to
    `Timestamps` makes TLC report it.
* **Monthly.** Days 5, 30 (January 31st), 40 and 59 (March 1st), with the
  real 1970 month starts: the least that shows both ways the 30-day close
  test is wrong.
* **Store.**
  * 2 rows per kind is the least that makes a put-back reorderable against a
    newer row; the PgSql run has 3, so a batch put back twice meets a newer
    row behind it.
  * `OhlcBatch = 1` makes the size gate reachable: 2 > 1 stands for 501 > 500.
  * Up to 2 transient errors let one batch fail twice, or two batches fail.
  * Two outages under PgSql: a `try_reconnect` may fail and a later one
    succeed, after a further outage.
  * The kinds are one list close() does not wait on (user_trade) and two it
    does (market_info, ohlc). The other API-only lists (asset, user_trader)
    follow exactly the same code paths.
  * One select list per back end (market_info_select, ohlc_select): every
    select path is the same swap / raise / put-back, so one list shows how
    it interleaves with the inserts around it in `RunOrder`.

* **Lifecycle.** `NUM_WORKERS = 2`, the code's own value: two workers can
  be in different states (one polling, one not yet set up) when the context
  terminates. Both fetch outcomes; Ctrl-C also during startup, so the
  crash paths are reached (`lifecycle_crash` adds Ctrl-C during the
  shutdown). `sig_int_count` never exceeds 2, since the second Ctrl-C
  leaves the loop.
* **TickLog.** Three markets, so callbacks can create storages while
  `close()` iterates and one storage is flushed while two others are
  pending; four ticks, so a market gets a further tick after the db thread
  took its storage. The stream may outlive the session
  (`StreamOutlivesSession = TRUE`, which contains the case where it stops
  with it): 355,038 states.
* **Connector.** Two markets, because the dispatch thread can then run
  between the main thread's lock sections for different markets; two
  timeframes, so a tick's fan-out can be interleaved; stamps {0, 1} and two
  prices, so folds change high, low and close; two tick updates with empty
  fields allowed, so the cache is used; one session loss and one failed
  connect, so both reconnect paths run. The violation runs use one market.

## 5. Fairness

`Database` assumes weak fairness on:
* the db thread (a dedicated thread sleeping 1 ms per loop);
* the steps of close() once begun;
* the clock (`TimePasses`);
* the end of an outage (`ServerUp`).

`Connector` assumes weak fairness on the main thread (the run loop calls
`sync` every millisecond) and on the steps of a tick callback once it has
started. Tick arrival, session losses and IG's answers are not forced.

`Lifecycle` assumes weak fairness on the main thread, the server thread and
each worker thread (the OS schedules every runnable thread) and on the clock.
The user's Ctrl-C is never forced: the shutdown property starts from a
confirmed stop.

`TickLog` assumes weak fairness on the db thread, on the steps of `close()`
and on a tick callback once it has begun. Ticks, the session loss and the
stop are not forced.

Transient errors and outages are bounded, not fair. No fairness makes a
producer store, or the program shut down. The OhlcGenerator and Basetime runs
check safety only.

## 6. Findings

1. **Monthly candles are wrong** (`ohlcgen.py:117`). The close test adds 30
   days to a calendar-month start.
   * January closes on the 31st, and a second January candle is opened.
   * From February on, the close falls after the next month has started.
2. **close() can lose an in-flight batch.** It looks only at the pending lists
   (`database.py:178`). It also does not wait for the user_trade, user_trader
   and liquidation lists.
3. **A crash after `Database.setup` never ends the process**
   (`main.py:465`, `database.py:179`). `handler.init` / `handler.start` are
   outside any try, and a Ctrl-C during the drain escapes too; the db
   thread, non-daemon, keeps the interpreter alive.
4. **A closed candle leaves the connector lock taken** (`connector.py:431`,
   `ig/connector.py:528-530`). `ended_ohlc.timestamp` is read on a list, so
   the ended candle is never stored. After a session loss, the main thread
   blocks for ever in the reconnect's `fetch_market`.
5. **Ticks never resume after a reconnect** (`ig/connector.py:167`).
   `subscribe_tick` reuses the subscription key of the destroyed `LSClient`.
   `initial_subscriptions` is not re-run either.

Also seen while modelling. These are modelled and reproducible, but have no
run of their own:
* A market_info row with lot size None for a market not yet stored is
  retried forever (`mysql.py:241`, `pgsql.py:204`: item assignment on a
  tuple). It blocks later rows and shutdown: with `Kinds = {"market_info"}`
  and `NullLots = {TRUE}`, `CloseReturns` fails.
* Liquidation rows are lost: `store_market_ohlc` resets the liquidation list
  outside the mutex (`database.py:270`). With `Kinds = {"ohlc",
  "liquidation"}` `RowsInOrder` fails in a few steps.
* A tick callback that began before `handler.stop` can create a storage
  while `close()` iterates `_tick_storages.items()` (`database.py:194`): the
  RuntimeError leaves `Database.terminate` with the other storages
  unflushed (TickLog reaches `CloseRaises` in 8 steps).
* A tick stored after its storage was force-flushed is lost
  (`database.py:198`), and `handler.stop` disconnects only a connected
  connector (`defaulthandler.py:47`), so after a session loss a stream that
  outlives it is never stopped.
* `PgSql.connect` reads `config['siis'].get('host')` (`pgsql.py:54`): the
  database configuration has no `siis` key, so setup raises KeyError
  before the thread starts.
* MySql never reconnects (`mysql.py:766`: `try_reconnect` is `pass`), though
  spec §4.4 promises a reconnect with backoff. After one outage, no row is
  committed again.
* PgSql writes only market rows whose lot size is None (`pgsql.py:207`).
* `update_from_ohlc` always raises NameError (`ohlcgen.py:175`,
  `from_ohcl`), so `generate_from_ohlcs` never aggregates ended candles.
* PgSql's db thread dies on any exception in the liquidation insert or the
  retention DELETE (`pgsql.py:792`, `822`), because `psycopg2` is not
  imported.
* A `t = 0` tick is dropped.
* No `load_*` request is ever answered (`mysql.py:353`, `669` and the like):
  `Signal`, `Candle` and `Instrument` are never imported in `mysql.py` /
  `pgsql.py`, so the answer raises NameError and the whole batch is put back
  at the head for ever (`Answered` fails).
* A `stop()` made before the server thread enters `run()` is lost
  (`connectorserver.py:291`: `_quit = False` on entry); `terminate`'s join
  then waits for ever (`ShutdownUnconditional` fails). `ShutdownCompletes`
  shows the shutdown is sound once the thread has entered.
* The 2 s confirmation window is not enforced (`main.py:242`): the reset
  runs only after `run_once` returns, and a failed reconnect skips it, so a
  late second Ctrl-C still exits (`ConfirmWithinWindow` fails).
* A Ctrl-C, or the NameError of `IGAccount.initial_fetch`
  (`ig/account.py:49`, `rev_currency_market`), during `handler.start` leaves
  `application()` without stopping the server or terminating the store; its
  non-daemon threads keep the process alive (finding 3, which also covers
  any raise after `Database.setup`: an unknown connector name, a port in
  use).
* `Database.create` cannot run as shipped: `import_module` is not imported
  (`mysql.py:39`, `pgsql.py:48`) and `database/tickdb.py` is missing.
* See the hazards in `PROJECT.json` for more.

## 7. Not modelled

* **Tick log internals.** `TickStorage` / `TickStreamer`
  (`database/tickdb.py`) are imported but not in the repository: `TickLog`
  takes `store` / `flush` from the spec, and the streamers (replay only) are
  not modelled.
* **Connector server dead code.** `ConnectorServer.process` returns at once,
  so the request dispatch after it is unreachable; the monitor thread only
  prints.
* **Trader and paper trader** (`trader/`). Their slots have no caller in the
  repository, `order.py`, `position.py` and `account.py` are missing, and
  the handlers that exist fail at once (`on_order_deleted` takes the lock
  twice; `on_order_opened`, `on_position_opened` and `on_position_updated`
  read attributes that do not exist), so there is no behaviour to model
  beyond the first exception.
* **Connector parts left out:** `update_from_tick` (no caller),
  `unsubscribe` / `del_subscription` (unreachable: `ConnectorServer.process`
  returns at once), the content of `_events` (never drained), the account and
  trade streams, and the REST payload parsing of `fetch_market`.
* **Connector server messages.** The message classes only serialise; the
  server's `process` returns at once and no proxy is started, so no message
  ever reaches a worker. `Lifecycle` models the threads, not the messages.
* **Code with no behaviour to check:** the DDL of `setup_market_sql`, the
  commented-out blocks of the store and the connector, the option values of
  the command line, logging and the install script (abstracted into
  `Application`). Most of the
  source lines the map does not name are of this kind, so the share of the
  code the models cover cannot grow much further without modelling code
  that never runs.

## 8. Plan

In order of importance:

1. Compose `Connector` with `Database`: the rows the connector hands to
   `store_market_info` / `store_market_trade` become store steps, so the
   lock leak and the store's drain are seen together.
2. Compose `Lifecycle` with `Database`: `DbTerminate` as the whole of
   `close()`. The Ctrl-C during the drain (`database.py:179`) is already
   refuted by `lifecycle_crash`; the composition would show which rows it
   loses.
3. One producer action per `store_*` / `load_*` method of `Database`. The
   liquidation producer needs a passing run without ohlc rows on MySql
   (with ohlc rows, `database.py:270` breaks `RowsInOrder`; on PgSql any
   failure ends the thread), and the run cap leaves none.
4. The tick-log hazards (`database.py:194`, `198`, `defaulthandler.py:47`)
   are reachable in `ticklog_shutdown`'s state space; each would need a
   violation run of its own.
