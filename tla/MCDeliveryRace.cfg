\* Two requests, artifacts that are missing from the start, no further changes.
SPECIFICATION Spec
CONSTANTS
    Requests = {r1, r2}
    NumVariants = 2
    NumOthers = 0
    Rerouted = {}
    Cacheable = {}
    maxVariantFallbackAttempts = 3
    MaxChanges = 0
INVARIANTS MissingVariantFallsBack
CHECK_DEADLOCK FALSE
