\* Both routes, two artifacts that come or go; no symmetry: liveness.
SPECIFICATION FairSpec
CONSTANTS
    Requests = {r1, r2}
    NumVariants = 1
    NumOthers = 1
    Rerouted = {r1}
    Cacheable = {2, 3, 4}
    maxVariantFallbackAttempts = 1
    MaxChanges = 2
INVARIANTS HeadersMatchBody LoneMissFallsBack
PROPERTIES RequestsEnd
CHECK_DEADLOCK FALSE
