\* Three markets, so callbacks can create storages while close() iterates
\* and one storage can be flushed while two others are pending; four ticks,
\* so a market gets a further tick after the db thread took its storage.
\* The stream may outlive the session (lightstreamer.py is absent), which
\* contains the case where it stops with it.
CONSTANTS
    Markets = {m1, m2, m3}
    MaxTicks = 4
    StreamOutlivesSession = TRUE
SPECIFICATION Spec
INVARIANT TypeOK
INVARIANT TicksDurableAtExit
\* The process stops: after close() returns, or raises, nothing is left to do.
CHECK_DEADLOCK FALSE
