SPECIFICATION Spec
CONSTANTS
    Workers = {w1, w2}
    Warmers = {w2}
    Assets = {"page", "photo"}
    Requests <- MCRequests
    Encodings <- MCEncodings
    Compressible = {"page"}
    SourceFormat <- MCSourceFormat
    Supported <- MCSupported
    ConfigFormats <- MCConfigFormats
    ConfigWidths <- MCConfigWidths
    MaxOutputVariants = 2
    SavingPolicy = TRUE
    Picture <- MCPicture
    MaxConcurrentSources = 2
    MaxContent = 2
    MaxRequests = 2
    MaxEvents = 2
    MaxInt = 100
    MaxSourceBytes = 9
    MaxWidth = 20
    MaxHeight = 20
    MaxSourcePixels = 200
    MaxMemoryBytes = 70
INVARIANTS ListedVariantsAreFresh MemoryWithinLimit
PROPERTIES GenerationEnds
CHECK_DEADLOCK FALSE
