\* The limits leave room for three small files; the source can outgrow them.
SPECIFICATION Spec
CONSTANTS
    a = a
    b = b
    va = va
    NoBundle = NoBundle
    NoFile = NoFile
    Assets <- MCAssets
    Variants <- MCVariants
    OwnerOf <- MCOwnerOf
    Below <- MCBelow
    Bodies <- MCBodies
    SizeOf <- MCSizeOf
    Initially <- MCInitially
    Foreign <- MCForeign
    MaxBundleFiles = 3
    MaxExpandedBytes = 3
    MaxFileBytes = 2
    Sizes = {1, 2}
    MaxFaults = 1
    MaxReads = 1
INVARIANTS BatchesAccountForAll PublishedIsWhole ExtractionIsExact ReaderSeesOneBundle
PROPERTIES CompileEnds
CHECK_DEADLOCK FALSE
