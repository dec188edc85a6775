SPECIFICATION Spec
CONSTANTS
    None = None
    Kind = "gateway"
    Callers = {c1, c2}
    Tickets = {t1, t2}
    Selections = {s1}
    RunInterval = 2
    OperationTimeout = 1
    ReviewLifetime = 2
    MaxLag = 0
    MaxTime = 5
SYMMETRY Symmetry
INVARIANTS ReservationHolds ReportsAreDurable
PROPERTIES ImplementsConsent
