\* Two applications of one user to one open project: the handler against
\* the ledger, and whether every application is answered.
CONSTANTS
    r1 = r1
    r2 = r2
    u1 = u1
    early = early
    late = late
    e1 = e1
    NoEmail = NoEmail
    Requests = {r1, r2}
    Users = {u1}
    Projects = {early}
    Emails = {e1}
    OpenAt <- MCOpenAt
    CloseAt <- MCCloseAt
    MaxTime = 0
    MaxAttempts = 2
SPECIFICATION FairSpec
CHECK_DEADLOCK FALSE
PROPERTY
    ImplementsLedger
    Answered
