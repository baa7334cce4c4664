SPECIFICATION Spec
CONSTANTS
    Workers = {w1, w2}
    MaxRequests = 4
    MayCrash = TRUE
    StoreBusy = TRUE
    BusRequests = 2
    WatchRequests = 3
    GatewayRequests = 3
    Functions = {f}
    AliasNames = {live}
    Layers = {y}
    NoFunction = NoFunction
    Topics = {n1}
    NoSubscription = NoSubscription
    Buses = {default, b1}
    Default = default
    Rules = {r1, r2}
    TargetIds = {x}
    Patterns <- OnePattern
    Events <- OneEvent
    NoPattern = NoPattern
    NoRule = NoRule
    Missing = Missing
    Timestamps = {0, 1, 2, 3, 4}
    Batches <- TwoBatches
    Nameless = Nameless
    Periods = {1, 2}
    LogGroups = {g}
    LogStreams = {s}
    Alarms = {a}
    NoAlarm = NoAlarm
    ApiNames = {m1}
    Routes <- ThreeRoutes
    Requested <- OnePath
    Parameter = Parameter
    NoRow = NoRow
SYMMETRY Symmetry
CHECK_DEADLOCK FALSE
INVARIANT
    ServicesTypeOK
    RunsOnce
    FanOutComplete
    StandingRouteFound
    RowsHaveOwners
    WindowsAddUp
    HistoryTellsState
PROPERTY
    VersionsImmutable
