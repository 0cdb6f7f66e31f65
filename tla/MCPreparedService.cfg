\* Two handlers race for rebuildWorkerRunning, a worker that gives the role up can
\* overlap with its successor, and one request rebuilds beside them; no symmetry:
\* liveness as well.
\* The service may be stopped and then has nothing left to do.
CONSTANTS
    Handlers = {h1, h2}
    Workers = {w1, w2}
    Deleters = {d1}
    MaxChanges = 2
    NoProc = NoProc
SPECIFICATION PreparedSpec
INVARIANTS WorkerDiscipline QuietIsCurrent SourcesReleased
PROPERTIES SnapshotNeverGoesBack SnapshotCatchesUp
CHECK_DEADLOCK FALSE
