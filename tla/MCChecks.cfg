CONSTANTS
    r1 = r1
    r2 = r2
    lan = lan
    Absent = Absent
    Nothing = Nothing
    Scopes = {s1, s2}
    LinkLocal = ll
    Prefixes = {lan, ll}
    Records = {r1, r2}
    EndpointIn <- MCEndpointIn
    Confined = {r1}
    MaxActive = 1
    MaxLifetime = 2
    InspectionTimeout = 1
    PreflightTimeout = 1
    RouteLifetime = 2
    MaxClock = 1
    MaxChanges = 2
    MaxHandled = 3
    MaxRequests <- MCMaxRequests
    MaxSessions <- MCMaxSessions
    Lifetime = 2
    RunInterval = 1
    MaxTime = 3
    MaxMoves = 1
SPECIFICATION MCSpec
CHECK_DEADLOCK FALSE
INVARIANTS
    
    SettingsStayReadable
    ExecutedAsShown
    TruthfulRefusal
PROPERTIES
    ReviewStands
    TicketIsReturned
