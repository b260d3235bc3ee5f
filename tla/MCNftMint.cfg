\* One reservation and two runs of its transaction; deliveries of the webhook and two
\* calls of the client against two mints of it, by two wallets.
CONSTANTS
    None = None
    r1 = r1
    w1 = w1
    w2 = w2
    s1 = s1
    s2 = s2
    c1 = c1
    c2 = c2
    Requests = {r1}
    Wallets = {w1, w2}
    Signatures = {s1, s2}
    Syncs = {c1, c2}
    MaxAttempts = 2
SPECIFICATION MCSpec
CHECK_DEADLOCK FALSE
INVARIANT
    TypeOK
    MintsHaveRows
    RecordsMatchChain
    ClaimsAreOfRequester
PROPERTY
    ImplementsLifecycle
    MintsAreRecorded
