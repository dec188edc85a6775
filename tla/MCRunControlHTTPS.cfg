SPECIFICATION FairSpec
CONSTANTS
    None = None
    Kind = "https"
    Callers = {c1, c2}
    Tickets = {t1}
    Selections = {s1, s2}
    RunInterval = 2
    OperationTimeout = 1
    ReviewLifetime = 2
    MaxLag = 1
    MaxTime = 4
INVARIANTS TrailIsReadable
PROPERTIES ReservationIsReleased
