\* Two workers, as ConnectorServer.NUM_WORKERS; the initial fetch may
\* raise, and a Ctrl-C may also land during handler.start.
CONSTANTS
    NUM_WORKERS = 2
    FetchOutcomes = {"ok", "raises"}
    CtrlCPhases = {"start"}
SPECIFICATION Spec
INVARIANT TypeOK
PROPERTY ShutdownCompletes
\* The process really stops: after "Bye!" it exits, and after a crash of
\* main it waits at interpreter exit on the non-daemon threads, which spin
\* without changing anything.
CHECK_DEADLOCK FALSE
