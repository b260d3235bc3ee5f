\* A check of what the code says of itself: expected to fail.
CONSTANTS
    r1 = r1
    r2 = r2
    u1 = u1
    early = early
    late = late
    e1 = e1
    NoEmail = NoEmail
    Requests = {r1, r2}
    Users = {u1}
    Projects = {early}
    Emails = {e1}
    OpenAt <- MCOpenAt
    CloseAt <- MCCloseAt
    MaxTime = 0
    MaxAttempts = 2
SPECIFICATION Spec
CHECK_DEADLOCK FALSE
INVARIANT
    MailedMeansRegistered
