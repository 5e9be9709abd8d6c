------------------------------ MODULE TickLog ------------------------------
(***************************************************************************)
(* The tick log path of the store (database.py): the Lightstreamer thread  *)
(* hands every tick to store_market_trade, which, under the store mutex,   *)
(* finds or creates the market's TickStorage and appends it to             *)
(* _pending_tick_insert, then, with the mutex released, calls              *)
(* tickstorage.store(data).  The db thread's process_tick takes the        *)
(* pending list under the mutex and flushes each storage that has data.    *)
(* At shutdown the main thread stops the handler (disconnecting the        *)
(* stream only when the session is up), then close() stops and joins the   *)
(* db thread and flushes every storage of _tick_storages with force=True.  *)
(*                                                                         *)
(* TickStorage (database/tickdb.py) is not in the repository; its store,   *)
(* has_data and flush are modelled from the spec's Tick Log (4.5): store   *)
(* buffers, a plain flush may keep batching, a forced flush writes all.    *)
(* The drain of the insert lists that close() waits on first is the        *)
(* Database module's; here it is one step.                                 *)
(***************************************************************************)
EXTENDS Naturals, Sequences, SequencesExt

CONSTANTS
    Markets,               \* markets of the feed
    MaxTicks,              \* ticks the stream delivers in a behaviour
    StreamOutlivesSession  \* the LSClient keeps delivering after the IG
                           \* session is lost (lightstreamer.py is absent)

ASSUME MaxTicks \in Nat /\ StreamOutlivesSession \in BOOLEAN

Ticks == 1..MaxTicks

VARIABLES
    main,       \* the main thread: run loop, stopped, then inside close()
    connected,  \* IGConnector.connected
    lsAlive,    \* an LSClient exists and delivers updates
    ls,         \* the Lightstreamer thread: [pc, m, t]
    received,   \* ticks delivered so far (tick t is the t-th)
    storages,   \* _tick_storages: its keys in insertion order
    pending,    \* _pending_tick_insert: storages, by market
    buf,        \* what each market's TickStorage holds, not yet written
    running,    \* Database._running
    db,         \* the db thread's position in run()
    pti,        \* process_tick's copy of the pending list
    it,         \* close(): index of the next storage of the iteration
    size,       \* close(): len(_tick_storages) when the iteration began
    durable,    \* ticks written by a TickStorage
    early       \* ghost: ticks whose store() returned before close() began

vars == <<main, connected, lsAlive, ls, received, storages, pending, buf,
          running, db, pti, it, size, durable, early>>

Closing == main \notin {"running", "stopped"}

-----------------------------------------------------------------------------
(* TickStorage, from the spec (tickdb.py is not in the repository).        *)

TsStore(m, t) == buf' = [buf EXCEPT ![m] = @ \cup {t}]

TsHasData(m) == buf[m] # {}

\* flush(): writes what it holds, or keeps batching.
TsFlush(m) ==
    \/ /\ durable' = durable \cup buf[m]
       /\ buf' = [buf EXCEPT ![m] = {}]
    \/ UNCHANGED <<durable, buf>>

\* flush(force=True): writes what it holds.
TsFlushForced(m) ==
    /\ durable' = durable \cup buf[m]
    /\ buf' = [buf EXCEPT ![m] = {}]

-----------------------------------------------------------------------------
(* The Lightstreamer thread.                                               *)

\* _on_tick_update for a market, up to its call of store_market_trade (the
\* fan-out under the connector lock is the Connector module's).
TickArrives(m) ==
    /\ ls.pc = "idle"
    /\ lsAlive
    /\ received < MaxTicks
    /\ received' = received + 1
    /\ ls' = [pc |-> "enqueue", m |-> m, t |-> received + 1]
    /\ UNCHANGED <<main, connected, lsAlive, storages, pending, buf, running, db, pti, it, size, durable, early>>

TradeEnqueueData ==
    /\ ls.pc = "enqueue"
    /\ storages' = IF ls.m \in ToSet(storages) THEN storages ELSE Append(storages, ls.m)
    /\ pending' = Append(pending, ls.t)
    /\ ls' = [ls EXCEPT !.pc = "store"]
    /\ UNCHANGED <<main, connected, lsAlive, received, buf, running, db, pti, it, size, durable, early>>

\* store_market_trade under the mutex: the market's storage, created on
\* its first tick, is appended to _pending_tick_insert.
TradeEnqueue ==
    /\ ls.pc = "enqueue"
    /\ storages' = IF ls.m \in ToSet(storages) THEN storages ELSE Append(storages, ls.m)
    /\ pending' = Append(pending, ls.m)
    /\ ls' = [ls EXCEPT !.pc = "store"]
    /\ UNCHANGED <<main, connected, lsAlive, received, buf, running, db, pti, it, size, durable, early>>

\* tickstorage.store(data), after the mutex is released.
TradeStore ==
    /\ ls.pc = "store"
    /\ TsStore(ls.m, ls.t)
    /\ early' = IF Closing THEN early ELSE early \cup {ls.t}
    /\ ls' = [ls EXCEPT !.pc = "idle"]
    /\ UNCHANGED <<main, connected, lsAlive, received, storages, pending, running, db, pti, it, size, durable>>

LsThread == TradeEnqueue \/ TradeStore

-----------------------------------------------------------------------------
(* The db thread: run() and process_tick.                                  *)

\* while self._running: ... process_tick() (the other process_* are the
\* Database module's).
DbLoop ==
    /\ db = "loop"
    /\ db' = IF running THEN "tick" ELSE "exited"
    /\ UNCHANGED <<main, connected, lsAlive, ls, received, storages, pending, buf, running, pti, it, size, durable, early>>

\* pti = copy of _pending_tick_insert, then clear, under the mutex.
ProcessTickTake ==
    /\ db = "tick"
    /\ pti' = pending
    /\ pending' = <<>>
    /\ db' = "flush"
    /\ UNCHANGED <<main, connected, lsAlive, ls, received, storages, buf, running, it, size, durable, early>>

\* for tick_storage in pti: if tick_storage.has_data(): tick_storage.flush()
ProcessTickFlush ==
    /\ db = "flush"
    /\ pti # <<>>
    /\ IF TsHasData(Head(pti)) THEN TsFlush(Head(pti)) ELSE UNCHANGED <<durable, buf>>
    /\ pti' = Tail(pti)
    /\ UNCHANGED <<main, connected, lsAlive, ls, received, storages, pending, running, db, it, size, early>>

ProcessTickDone ==
    /\ db = "flush"
    /\ pti = <<>>
    /\ db' = "loop"
    /\ UNCHANGED <<main, connected, lsAlive, ls, received, storages, pending, buf, running, pti, it, size, durable, early>>

DbThread == DbLoop \/ ProcessTickTake \/ ProcessTickFlush \/ ProcessTickDone

-----------------------------------------------------------------------------
(* The main thread at shutdown, and the session.                           *)

\* IGConnector.disconnect: the LSClient is disconnected and dropped.
Disconnect ==
    /\ lsAlive' = FALSE
    /\ connected' = FALSE

\* DefaultHandler.stop: the connector is disconnected only if connected.
Stop ==
    /\ main = "running"
    /\ IF connected THEN Disconnect ELSE UNCHANGED <<connected, lsAlive>>
    /\ main' = "stopped"
    /\ UNCHANGED <<ls, received, storages, pending, buf, running, db, pti, it, size, durable, early>>

\* The IG session drops; the stream may or may not go on delivering.
SessionLost ==
    /\ main = "running"
    /\ connected
    /\ connected' = FALSE
    /\ lsAlive' \in IF StreamOutlivesSession THEN {lsAlive, FALSE} ELSE {FALSE}
    /\ UNCHANGED <<main, ls, received, storages, pending, buf, running, db, pti, it, size, durable, early>>

\* Database.terminate -> close(): the wait on the insert lists, then
\* _running = False.
CloseBegins ==
    /\ main = "stopped"
    /\ running' = FALSE
    /\ main' = "joining"
    /\ UNCHANGED <<connected, lsAlive, ls, received, storages, pending, buf, db, pti, it, size, durable, early>>

\* self._thread.join() returns; self.disconnect(); the iteration over
\* _tick_storages.items() begins.
CloseJoins ==
    /\ main = "joining"
    /\ db = "exited"
    /\ it' = 1
    /\ size' = Len(storages)
    /\ main' = "flushing"
    /\ UNCHANGED <<connected, lsAlive, ls, received, storages, pending, buf, running, db, pti, durable, early>>

\* One storage of the iteration: flush(force=True), close().
CloseFlushStorage ==
    /\ main = "flushing"
    /\ Len(storages) = size
    /\ it <= size
    /\ TsFlushForced(storages[it])
    /\ it' = it + 1
    /\ UNCHANGED <<main, connected, lsAlive, ls, received, storages, pending, running, db, pti, size, early>>

\* A storage created meanwhile by a tick callback: the dict changed size
\* during iteration, RuntimeError leaves close() and Database.terminate.
CloseRaises ==
    /\ main = "flushing"
    /\ Len(storages) # size
    /\ main' = "crashed"
    /\ UNCHANGED <<connected, lsAlive, ls, received, storages, pending, buf, running, db, pti, it, size, durable, early>>

\* The iteration ends: _tick_storages = {}, _pending_tick_insert = [].
CloseReturns ==
    /\ main = "flushing"
    /\ Len(storages) = size
    /\ it > size
    /\ storages' = <<>>
    /\ pending' = <<>>
    /\ main' = "closed"
    /\ UNCHANGED <<connected, lsAlive, ls, received, buf, running, db, pti, it, size, durable, early>>

MainClose == CloseBegins \/ CloseJoins \/ CloseFlushStorage \/ CloseRaises \/ CloseReturns

-----------------------------------------------------------------------------

\* Database.__init__ (no storage, nothing pending) after setup started the
\* thread; the handler has connected and the stream delivers.
Init ==
    /\ main = "running"
    /\ connected = TRUE
    /\ lsAlive = TRUE
    /\ ls = [pc |-> "idle", m |-> CHOOSE m \in Markets : TRUE, t |-> 0]
    /\ received = 0
    /\ storages = <<>>
    /\ pending = <<>>
    /\ buf = [m \in Markets |-> {}]
    /\ running = TRUE
    /\ db = "loop"
    /\ pti = <<>>
    /\ it = 1
    /\ size = 0
    /\ durable = {}
    /\ early = {}

Next ==
    \/ \E m \in Markets : TickArrives(m)
    \/ LsThread \/ DbThread \/ MainClose
    \/ Stop \/ SessionLost

\* The db thread and the steps of close() are scheduled; a callback that has
\* begun runs to its end.  Ticks, the session and the Ctrl-C that stops the
\* handler are not forced.
Fairness ==
    /\ WF_vars(DbThread)
    /\ WF_vars(MainClose)
    /\ WF_vars(LsThread)

Spec == Init /\ [][Next]_vars /\ Fairness

-----------------------------------------------------------------------------

TypeOK ==
    /\ main \in {"running", "stopped", "joining", "flushing", "closed", "crashed"}
    /\ connected \in BOOLEAN /\ lsAlive \in BOOLEAN
    /\ ls \in [pc : {"idle", "enqueue", "store"}, m : Markets, t : 0..MaxTicks]
    /\ received \in 0..MaxTicks
    /\ storages \in Seq(Markets) /\ pending \in Seq(Markets) /\ pti \in Seq(Markets)
    /\ buf \in [Markets -> SUBSET Ticks]
    /\ running \in BOOLEAN
    /\ db \in {"loop", "tick", "flush", "exited"}
    /\ it \in Nat /\ size \in Nat
    /\ durable \subseteq Ticks /\ early \subseteq Ticks

\* When close() returns, every tick whose store() returned before close()
\* began is written: a tick stored after process_tick took its storage off
\* the pending list (store_market_trade stores with the mutex released)
\* is caught by close()'s forced flush of every storage.
TicksDurableAtExit ==
    main = "closed" => early \subseteq durable
=============================================================================
