\* Two workers; every startup failure, the initial fetch may raise, and a
\* Ctrl-C may land during startup or during the shutdown (the drain of
\* Database.terminate included).
CONSTANTS
    NUM_WORKERS = 2
    FetchOutcomes = {"ok", "raises"}
    CtrlCPhases = {"start", "shutdown"}
SPECIFICATION Spec
PROPERTY ProcessEnds
\* After a crash of main nothing is left to do but the threads' spinning.
CHECK_DEADLOCK FALSE
