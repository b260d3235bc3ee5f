\* Two applications of one user, to one project or to two, with two addresses,
\* any order, any failure.
CONSTANTS
    r1 = r1
    r2 = r2
    u1 = u1
    early = early
    late = late
    e1 = e1
    e2 = e2
    NoEmail = NoEmail
    Requests = {r1, r2}
    Users = {u1}
    Projects = {early, late}
    Emails = {e1, e2}
    OpenAt <- MCOpenAt
    CloseAt <- MCCloseAt
    MaxTime = 1
    MaxAttempts = 2
SYMMETRY Interchangeable
SPECIFICATION Spec
CHECK_DEADLOCK FALSE
INVARIANT
    TypeOK
    SnapshotRequested
    RowsAreEarned
    LateApplicationsRefused
    AnswersTrue
PROPERTY
    EmailReplacedOnlyByOverlap
