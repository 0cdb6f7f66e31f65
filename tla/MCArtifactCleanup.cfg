\* Both namespaces, each with a limit it can exceed; no symmetry: liveness.
SPECIFICATION FairSpec
CONSTANTS
    br = br
    webp = webp
    Paths <- MCPaths
    Namespaces <- MCNamespaces
    NamespaceOf <- MCNamespaceOf
    SizeOf <- MCSizeOf
    MaxAge <- MCMaxAge
    NamespaceMaxBytes <- MCNamespaceMaxBytes
    MaxCacheBytes = 1
    Workers = {w1}
    AgeCap = 2
    MaxPlans = 2
    MaxFaults = 1
INVARIANTS
    LimitsEnforced
    RecentlyUsedStay
PROPERTIES
    DanglingOnlyInRaces
    OrphansReclaimed
