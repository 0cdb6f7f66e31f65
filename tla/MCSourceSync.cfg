SPECIFICATION Spec
CONSTANTS
    a = a
    s = s
    Assets <- MCAssets
    Sidecars <- MCSidecars
    Owner <- MCOwner
    MaxEdits = 3
    BadVersions = {2}
    MaxMissed = 1
    MaxFailures = 1
INVARIANTS
    VariantsMatchAssets
    WatchedIsNeverStale
    FullRescanIsExact
PROPERTY
    Converges
