\* A client loads the lists while projects open, end and are edited; two wallets
\* apply three times for two projects while a page is put together.
CONSTANTS
    Projects <- MCProjects
    timeline <- MCTimeline
    Instants <- MCInstants
    Limits = {0, 1, 2}
    Streams <- MCStreams
    a1 = a1
    a2 = a2
    a3 = a3
    u1 = u1
    u2 = u2
    q1 = q1
    q2 = q2
    v1 = v1
    Guest = Guest
    Applications = {a1, a2, a3}
    Applicants = {u1, u2}
    Offered = {q1, q2}
    Visits = {v1}
SYMMETRY ViewsSymmetry
SPECIFICATION PartsSpec
CHECK_DEADLOCK FALSE
INVARIANT
    TypesOK
    NoneMissed
    PagesCoverList
    ReadersAgree
    ReleasedFollowsSchedule
    ApplicationsAreShown
    CountedOnce
PROPERTY
    ReleasedNeverShrinks
