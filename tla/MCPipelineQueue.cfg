\* Both handlers can hold the RLock while stop waits, the queue can be full, and
\* one worker may panic and leave the other alone; no symmetry: liveness as well.
CONSTANTS
    Producers = {p1, p2}
    Workers = {w1, w2}
    Keys = {k1, k2, k3}
    QueueSize = 1
    MaxPanics = 1
    NoKey = NoKey
SPECIFICATION QueueSpec
INVARIANTS NoSendOnClosed PendingIsInFlight
PROPERTIES RequestsComplete WorkersStop
