\* A check of what the code says of itself: expected to fail.
CONSTANTS
    None = None
    r1 = r1
    r2 = r2
    w1 = w1
    w2 = w2
    Requests = {r1}
    Wallets = {w1, w2}
    MaxTickets = 1
    TicketTotal = 1
    Timeline <- MCTimeline
    MaxTime = 2
SPECIFICATION Spec
CHECK_DEADLOCK FALSE
INVARIANT
    NotFoundIsAnswered
