\* Two requests, one preload and two edits; no symmetry: liveness as well.
SPECIFICATION Spec
CONSTANTS
    Requests = {r1, r2}
    Formats = {"none"}
    SizeOf <- MCSizeOf
    Files <- MCFiles
    maxFileSize = 8192
    baseTTL = 300
    MaxEdits = 2
    MaxPreloads = 1
INVARIANTS StaleOnlyByOverlap PreparedBodyMatchesETag
PROPERTIES StaleGoesAway
CHECK_DEADLOCK FALSE
