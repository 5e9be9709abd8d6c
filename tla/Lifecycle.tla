----------------------------- MODULE Lifecycle -----------------------------
(***************************************************************************)
(* The life of the connector process (main.py application and run, the    *)
(* DefaultHandler, ConnectorServer with its StrategyClientWorker threads   *)
(* and monitor thread, and Database.terminate).                            *)
(*                                                                         *)
(* The main thread parses the command line, creates and sets up the store *)
(* (which starts its db thread) and builds and inits the handler; any of  *)
(* these may end the process (sys.exit) or raise out of application().    *)
(* It then starts the server thread, connects the broker and runs         *)
(* the initial fetch, then loops on run_once until a second Ctrl-C         *)
(* confirms the first; it then stops and terminates the handler and        *)
(* drains the store.  The server thread clears _quit on entry, spawns the  *)
(* workers and the monitor thread, and spins until it sees _quit.  The     *)
(* workers block in poller.poll(): no proxy ever forwards a message to the *)
(* backend socket, so only context.term() wakes them (ContextTerminated).  *)
(* The process exits when main returns and no non-daemon thread is left.   *)
(*                                                                         *)
(* The broker connection and the initial fetch are choices (the broker's   *)
(* answer); the store's drain is one step, its own behaviour being that    *)
(* of the Database module.  Time is the single fact the Ctrl-C logic       *)
(* reads: whether more than 2 s have passed since the first Ctrl-C.        *)
(***************************************************************************)
EXTENDS Naturals

CONSTANTS
    NUM_WORKERS,    \* ConnectorServer.NUM_WORKERS
    FetchOutcomes,  \* what initial_fetch may do: "ok", or "raises" (the
                    \* NameError of IGAccount.initial_fetch, rev_currency_market)
    CtrlCPhases     \* besides the run loop, where a Ctrl-C may land:
                    \* "start" (up to handler.start) and "shutdown" (after run)

ASSUME /\ NUM_WORKERS \in Nat \ {0}
       /\ FetchOutcomes \subseteq {"ok", "raises"} /\ FetchOutcomes # {}
       /\ CtrlCPhases \subseteq {"start", "shutdown"}

Workers == 1..NUM_WORKERS

VARIABLES
    main,        \* main thread position
    sigCount,    \* run(): sig_int_count
    late,        \* time.time() - sig_int_time > 2.0
    connected,   \* the connector's session
    srvRunning,  \* ConnectorServer._running
    srvQuit,     \* ConnectorServer._quit
    srv,         \* server thread position
    workers,     \* StrategyClientWorker thread positions
    wRunning,    \* StrategyClientWorker._running
    monitor,     \* monitor thread position
    ctx,         \* the zmq context
    db,          \* the store: none, created, its thread running, or closed
    connector    \* the handler's connector: unbuilt, built, or None

vars == <<main, sigCount, late, connected, srvRunning, srvQuit, srv,
          workers, wRunning, monitor, ctx, db, connector>>

SetupPcs == {"args", "create", "setup", "handler", "init"}
StartPcs == {"start", "connect", "fetch"}
ShutdownPcs == {"stop", "terminate", "join", "close", "term", "db"}
MainPcs == SetupPcs \cup StartPcs \cup ShutdownPcs \cup {"loop", "bye", "exited", "crashed"}

\* Where a KeyboardInterrupt escapes application(): everywhere but run().
Interruptible ==
    (IF "start" \in CtrlCPhases THEN SetupPcs \cup StartPcs ELSE {})
    \cup (IF "shutdown" \in CtrlCPhases THEN ShutdownPcs ELSE {})

-----------------------------------------------------------------------------
(* Main thread: application() up to handler.start.                        *)

\* install, logging, the command line and the two configuration files.
\* --version, --help, a replay without dates, no --connector, and the
\* binarize and fetch modes without their arguments end in sys.exit; a
\* missing configuration file (parse_config re-raises) and the binarize
\* and fetch modes with their arguments (do_binarizer and do_fetcher are
\* commented out: NameError) raise.  Otherwise the running mode.
Application ==
    /\ main = "args"
    /\ main' \in {"create", "exited", "crashed"}
    /\ UNCHANGED <<sigCount, late, connected, srvRunning, srvQuit, srv, workers, wRunning, monitor, ctx, db, connector>>

\* Database.create: MySql() or PgSql() by the configured type.
DatabaseCreate ==
    /\ main = "create"
    /\ db' = "created"
    /\ main' = "setup"
    /\ UNCHANGED <<sigCount, late, connected, srvRunning, srvQuit, srv, workers, wRunning, monitor, ctx, connector>>

\* Database.setup: connect (DatabaseException without the driver; PgSql
\* reads config['siis'], a KeyError unless the file has that key), the
\* DDL, then _running = True and the db thread starts.
DatabaseSetup ==
    /\ main = "setup"
    /\ \/ /\ db' = "running"
          /\ main' = "handler"
       \/ /\ main' = "crashed"
          /\ UNCHANGED db
    /\ UNCHANGED <<sigCount, late, connected, srvRunning, srvQuit, srv, workers, wRunning, monitor, ctx, connector>>

\* build_connector: None for a name not in options['connectors'], else the
\* class of its classpath, built; import_module or the class may raise.
BuildConnector == {"built", "none"}

\* DefaultHandler(options): the ConnectorServer, then build_connector.
HandlerNew ==
    /\ main = "handler"
    /\ \/ /\ connector' \in BuildConnector
          /\ main' = "init"
       \/ /\ main' = "crashed"
          /\ UNCHANGED connector
    /\ UNCHANGED <<sigCount, late, connected, srvRunning, srvQuit, srv, workers, wRunning, monitor, ctx, db>>

\* handler.init: ConnectorServer.init binds the frontend (ZMQError when the
\* port is taken), then self._connector.init (AttributeError on None).
HandlerInit ==
    /\ main = "init"
    /\ main' \in IF connector = "built" THEN {"start", "crashed"} ELSE {"crashed"}
    /\ UNCHANGED <<sigCount, late, connected, srvRunning, srvQuit, srv, workers, wRunning, monitor, ctx, db, connector>>

-----------------------------------------------------------------------------
(* Main thread: application() from handler.start.                          *)

\* DefaultHandler.start -> ConnectorServer.start: _running, then the
\* thread (start is called once, so "if not self._running" holds).
ServerStart ==
    /\ main = "start"
    /\ srvRunning' = TRUE
    /\ srv' = "started"
    /\ main' = "connect"
    /\ UNCHANGED <<sigCount, late, connected, srvQuit, workers, wRunning, monitor, ctx, db, connector>>

\* self._connector.connect(); initial_fetch only when connected.
Connect ==
    /\ main = "connect"
    /\ connected' \in BOOLEAN
    /\ main' = IF connected' THEN "fetch" ELSE "loop"
    /\ UNCHANGED <<sigCount, late, srvRunning, srvQuit, srv, workers, wRunning, monitor, ctx, db, connector>>

\* initial_fetch and initial_subscriptions; an exception leaves application().
InitialFetch ==
    /\ main = "fetch"
    /\ \E r \in FetchOutcomes : main' = IF r = "ok" THEN "loop" ELSE "crashed"
    /\ UNCHANGED <<sigCount, late, connected, srvRunning, srvQuit, srv, workers, wRunning, monitor, ctx, db, connector>>

\* One turn of run(): run_once (server sync, connector sync), then the
\* reset of sig_int_count once 2 s have passed.  The connector's sync
\* reconnects a lost session and re-runs initial_fetch; an exception there
\* is caught by run() before the reset.
RunOnce ==
    /\ main = "loop"
    /\ \/ /\ connected' \in BOOLEAN
          /\ sigCount' = IF late THEN 0 ELSE sigCount
       \/ /\ ~connected
          /\ "raises" \in FetchOutcomes
          /\ connected' = TRUE
          /\ UNCHANGED sigCount
    /\ UNCHANGED <<main, late, srvRunning, srvQuit, srv, workers, wRunning, monitor, ctx, db, connector>>

\* sig_int_count > 1: the count that leaves the loop.
ConfirmedLate(n) == n > 2
Confirmed(n) == n > 1

\* A Ctrl-C inside run(): the first records sig_int_time, the second breaks.
CtrlC ==
    /\ main = "loop"
    /\ sigCount' = sigCount + 1
    /\ late' = IF sigCount = 0 THEN FALSE ELSE late
    /\ main' = IF Confirmed(sigCount + 1) THEN "stop" ELSE "loop"
    /\ UNCHANGED <<connected, srvRunning, srvQuit, srv, workers, wRunning, monitor, ctx, db, connector>>

\* A Ctrl-C anywhere else raises KeyboardInterrupt out of application().
Interrupted ==
    /\ main \in Interruptible
    /\ main' = "crashed"
    /\ UNCHANGED <<sigCount, late, connected, srvRunning, srvQuit, srv, workers, wRunning, monitor, ctx, db, connector>>

\* Two seconds pass after the first Ctrl-C.
TimePasses ==
    /\ ~late
    /\ late' = TRUE
    /\ UNCHANGED <<main, sigCount, connected, srvRunning, srvQuit, srv, workers, wRunning, monitor, ctx, db, connector>>

\* handler.stop: ConnectorServer.stop sets _quit; disconnect if connected.
Stop ==
    /\ main = "stop"
    /\ srvQuit' = TRUE
    /\ connected' = FALSE
    /\ main' = "terminate"
    /\ UNCHANGED <<sigCount, late, srvRunning, srv, workers, wRunning, monitor, ctx, db, connector>>

\* ConnectorServer.terminate: stop and join only while _running.
Terminate ==
    /\ main = "terminate"
    /\ IF srvRunning
       THEN /\ srvQuit' = TRUE
            /\ main' = "join"
       ELSE /\ UNCHANGED srvQuit
            /\ main' = "close"
    /\ UNCHANGED <<sigCount, late, connected, srvRunning, srv, workers, wRunning, monitor, ctx, db, connector>>

Join ==
    /\ main = "join"
    /\ srv = "done"
    /\ main' = "close"
    /\ UNCHANGED <<sigCount, late, connected, srvRunning, srvQuit, srv, workers, wRunning, monitor, ctx, db, connector>>

\* disable_monitor and close of the monitor, frontend and backend sockets,
\* then context.term(), which wakes every blocked poll with ETERM.
CloseSockets ==
    /\ main = "close"
    /\ monitor' = IF monitor = "polling" THEN "ended" ELSE monitor
    /\ ctx' = "terminating"
    /\ main' = "term"
    /\ UNCHANGED <<sigCount, late, connected, srvRunning, srvQuit, srv, workers, wRunning, db, connector>>

\* context.term() returns once every socket is closed, then
\* connector.terminate (unsubscribe_all, trader.terminate).
TermReturns ==
    /\ main = "term"
    /\ \A w \in Workers : workers[w] # "polling"
    /\ ctx' = "closed"
    /\ main' = "db"
    /\ UNCHANGED <<sigCount, late, connected, srvRunning, srvQuit, srv, workers, wRunning, monitor, db, connector>>

\* Database.terminate: close() drains the store and joins its thread.
DbTerminate ==
    /\ main = "db"
    /\ db' = "closed"
    /\ main' = "bye"
    /\ UNCHANGED <<sigCount, late, connected, srvRunning, srvQuit, srv, workers, wRunning, monitor, ctx, connector>>

-----------------------------------------------------------------------------
(* Server thread: ConnectorServer.run.                                     *)

\* Entry: _quit = False.
ServerEntry ==
    /\ srv = "started"
    /\ srvQuit' = FALSE
    /\ srv' = "spawning"
    /\ UNCHANGED <<main, sigCount, late, connected, srvRunning, workers, wRunning, monitor, ctx, db, connector>>

\* for i in range(NUM_WORKERS): worker.start(), in index order.
ServerSpawnsWorker ==
    /\ srv = "spawning"
    /\ \E w \in Workers :
          /\ workers[w] = "none"
          /\ \A v \in 1..(w - 1) : workers[v] # "none"
          /\ workers' = [workers EXCEPT ![w] = "started"]
    /\ UNCHANGED <<main, sigCount, late, connected, srvRunning, srvQuit, srv, wRunning, monitor, ctx, db, connector>>

\* Then the monitor thread, and the loop.
ServerStartsMonitor ==
    /\ srv = "spawning"
    /\ \A w \in Workers : workers[w] # "none"
    /\ monitor' = "polling"
    /\ srv' = "loop"
    /\ UNCHANGED <<main, sigCount, late, connected, srvRunning, srvQuit, workers, wRunning, ctx, db, connector>>

\* check_exit: "@todo check if req message to process before kill".
CheckExitPending == FALSE
CheckExit == TRUE

\* The loop: process() returns at once; once _quit is seen, check_exit.
ServerSeesQuit ==
    /\ srv = "loop"
    /\ srvRunning
    /\ srvQuit
    /\ CheckExit
    /\ srvRunning' = FALSE
    /\ UNCHANGED <<main, sigCount, late, connected, srvQuit, srv, workers, wRunning, monitor, ctx, db, connector>>

\* After the loop: worker.stop() on each worker, _running = False.
ServerExits ==
    /\ srv = "loop"
    /\ ~srvRunning
    /\ wRunning' = [w \in Workers |-> FALSE]
    /\ srv' = "done"
    /\ UNCHANGED <<main, sigCount, late, connected, srvRunning, srvQuit, workers, monitor, ctx, db, connector>>

\* StrategyClientWorker.run up to the loop: its DEALER socket, connect,
\* the poller, then the test of _running.  On a context already
\* terminating or closed, socket() raises ETERM and the thread ends; a
\* worker already stopped skips the loop and closes its socket.
WorkerRuns(w) ==
    /\ workers[w] = "started"
    /\ workers' = [workers EXCEPT ![w] =
                      IF ctx = "open" /\ wRunning[w] THEN "polling" ELSE "ended"]
    /\ UNCHANGED <<main, sigCount, late, connected, srvRunning, srvQuit, srv, wRunning, monitor, ctx, db, connector>>

\* A worker's poll() returns only when the context terminates; the
\* ContextTerminated exception ends the thread (worker.close() is skipped,
\* the socket is released with the thread's frame).
WorkerWakes(w) ==
    /\ workers[w] = "polling"
    /\ ctx = "terminating"
    /\ workers' = [workers EXCEPT ![w] = "ended"]
    /\ UNCHANGED <<main, sigCount, late, connected, srvRunning, srvQuit, srv, wRunning, monitor, ctx, db, connector>>

WorkerThread(w) == WorkerRuns(w) \/ WorkerWakes(w)

-----------------------------------------------------------------------------

Init ==
    /\ main = "args"
    /\ sigCount = 0
    /\ late = TRUE
    /\ connected = FALSE
    /\ srvRunning = FALSE
    /\ srvQuit = FALSE
    /\ srv = "new"
    /\ workers = [w \in Workers |-> "none"]
    /\ wRunning = [w \in Workers |-> TRUE]
    /\ monitor = "none"
    /\ ctx = "open"
    /\ db = "none"
    /\ connector = "unbuilt"

MainThread ==
    \/ Application \/ DatabaseCreate \/ DatabaseSetup \/ HandlerNew \/ HandlerInit
    \/ ServerStart \/ Connect \/ InitialFetch \/ RunOnce
    \/ Stop \/ Terminate \/ Join \/ CloseSockets \/ TermReturns \/ DbTerminate

ServerThread == ServerEntry \/ ServerSpawnsWorker \/ ServerStartsMonitor
                \/ ServerSeesQuit \/ ServerExits

User == CtrlC \/ Interrupted

Next == MainThread \/ ServerThread \/ (\E w \in Workers : WorkerThread(w))
        \/ User \/ TimePasses

\* Every thread is scheduled (weak fairness of its steps) and time passes;
\* the user's Ctrl-C is never forced.
Fairness ==
    /\ WF_vars(MainThread)
    /\ WF_vars(ServerThread)
    /\ \A w \in Workers : WF_vars(WorkerThread(w))
    /\ WF_vars(TimePasses)

Spec == Init /\ [][Next]_vars /\ Fairness

-----------------------------------------------------------------------------

TypeOK ==
    /\ main \in MainPcs
    /\ sigCount \in 0..2
    /\ late \in BOOLEAN
    /\ connected \in BOOLEAN
    /\ srvRunning \in BOOLEAN
    /\ srvQuit \in BOOLEAN
    /\ srv \in {"new", "started", "spawning", "loop", "done"}
    /\ workers \in [Workers -> {"none", "started", "polling", "ended"}]
    /\ wRunning \in [Workers -> BOOLEAN]
    /\ monitor \in {"none", "polling", "ended"}
    /\ ctx \in {"open", "terminating", "closed"}
    /\ db \in {"none", "created", "running", "closed"}
    /\ connector \in {"unbuilt", "built", "none"}

\* The process is gone: main returned and no non-daemon thread remains.
Exited ==
    /\ main = "bye"
    /\ srv \in {"new", "done"}
    /\ \A w \in Workers : workers[w] \in {"none", "ended"}
    /\ monitor # "polling"

\* No non-daemon thread is left: the server thread never started or has
\* returned, no worker or monitor thread polls, the db thread is not running.
NoThreadLeft ==
    /\ srv \in {"new", "done"}
    /\ \A w \in Workers : workers[w] \in {"none", "ended"}
    /\ monitor # "polling"
    /\ db # "running"

\* "Hit CTRL-C twice to terminate" (application): once application() has
\* returned, called sys.exit or raised (a Ctrl-C outside run(), a failed
\* setup, handler init or initial fetch), the interpreter's wait on the
\* non-daemon threads ends: the server thread, its workers and the db
\* thread of Database.setup all stop.
ProcessEnds ==
    main \in {"bye", "exited", "crashed"} ~> NoThreadLeft

\* A shutdown confirmed by the second Ctrl-C, once the server thread has
\* entered run(), ends the process with the store drained: stop sets
\* _quit, the server loop leaves through check_exit, terminate's join
\* returns, context.term() wakes the workers blocked in poll(), and
\* Database.terminate runs.
ShutdownCompletes ==
    (main = "stop" /\ srv # "started") ~> (Exited /\ db = "closed")

\* run() prints "Confirm with a second CTRL+C within 2 secondes": the loop
\* is left only by a second Ctrl-C that comes within 2 s of the first.
ConfirmWithinWindow ==
    [][main = "loop" /\ main' = "stop" => ~late]_vars

\* Whatever the order of the two threads, ConnectorServer.terminate's join
\* returns: a stop() is never lost to the server thread's entry.
ShutdownUnconditional ==
    main = "stop" ~> Exited
=============================================================================
