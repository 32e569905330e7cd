SPECIFICATION FairSpec
CONSTANTS
    QueueSize = 1
    NoCallback = NoCallback
    Callbacks = {1, 2, 3, 4}
    Workers = {w1, w2}
    Closers = {c1, c2}
    Parent <- FromMentions
INVARIANTS PoolQuiescent ShutdownDrains OvertakenIsHeld
PROPERTIES SentIsExecuted
\* The callbacks and the calls of Shutdown are finite: the system stops.
CHECK_DEADLOCK FALSE
