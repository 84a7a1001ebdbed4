CONSTANTS
    Parts = {"upload"}
    Workers = {w1, w2}
    FrontTags = {t1, t2}
    NoTag = NoTag
    FrontManifests = {"image", "plugin", "oci", "list", "ociList", "bareList", "index"}
    Nothing = Nothing
    Apps <- MCApps
    Requests <- MCFrontRequests
    MaxFrontRequests = 2
    MaxFrontFaults = 1
    CacheRepos = {r1, r2}
    Procs = {p1, p2}
    CacheKinds = {"memory", "redis"}
    MaxOps = 3
    MaxCacheFaults = 1
    Payload <- MCPayload
    ChunkLens = {1, 2}
    MaxSessions = 2
    MaxCalls = 5
    MaxNetFaults = 0
    MaxName = 2
    Manifest = {m1, m2}
    NoManifest = NoManifest
    StartTags = {m1}
    PageSizes = {0, 1}
    MaxPulls = 2
    MaxMoves = 2
    MaxPullFaults = 1
    Callers = {c1, c2}
    NoToken = NoToken
    OwnScopes = {"pull", "push", "delete"}
    MinLifetime = 2
    Leeway = 1
    Lifetimes = {0, 1, 3}
    MaxSkew = 1
    MaxNow = 4
    MaxRequests = 2
    MaxAuthFaults = 1
CHECK_DEADLOCK FALSE
SPECIFICATION Spec
INVARIANTS
    OffsetTrue
