\* Requests of wallets that win tickets, invest them, or are not registered.
CONSTANTS
    None = None
    r1 = r1
    r2 = r2
    w1 = w1
    Requests = {r1, r2}
    Wallets = {w1}
    MaxTickets = 2
    TicketTotal = 1
    Timeline <- MCTimeline
    MaxTime = 2
SYMMETRY ViewSymmetry
SPECIFICATION Spec
CHECK_DEADLOCK FALSE
INVARIANT
    TypeOK
    CachedListIsFinal
    OffersCanBeProved
    OfferedWhileOpen
    SolProjectsNeverKill
