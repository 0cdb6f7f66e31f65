\* Two requests, one of which may hang while the other is answered, and two
\* failing operations: the accept loop fails after something else has.
\* The process ends.
CONSTANTS
    Requests = {r1, r2}
    MaxFaults = 2
SPECIFICATION LifecycleSpec
INVARIANTS FailedStartLeavesNothing ExitTellsTheTruth
PROPERTIES ProcessEnds
CHECK_DEADLOCK FALSE
