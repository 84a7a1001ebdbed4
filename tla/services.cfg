CONSTANTS
    Writer = {w1, w2}
    e1 = e1
    e2 = e2
    Sinks <- SinkOrder
    Plain = {e1}
    IgnoreMediaTypes = {"layer"}
    IgnoreActions = {"delete"}
    Op = {"ManifestPut", "BlobServe"}
    Threshold = 1
    MaxEvents = 2
    MaxFaults = 1
    NoEvent = NoEvent
    MayEnd = TRUE
    Caller = {c1, c2, c3, c4}
    MinLimit = 1
    DefLimit = 3
    Param <- LimitParams
    Check = {"driver", "file"}
    ThresholdOf <- CheckThreshold
    KindOf <- CheckKind
    HistoryLen = 2
CHECK_DEADLOCK FALSE
SPECIFICATION Spec
INVARIANTS
    FlushedByClose
    TokensKept
    TurnedAwayOnStreak
PROPERTIES
    ImplementsChannel
    CloseEnds
    WaiterWoken
    SeesService
