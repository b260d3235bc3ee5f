\* A check of what the webhook answers: expected to fail.
CONSTANTS
    None = None
    r1 = r1
    w1 = w1
    w2 = w2
    s1 = s1
    s2 = s2
    c1 = c1
    Requests = {r1}
    Wallets = {w1, w2}
    Signatures = {s1, s2}
    Syncs = {c1}
    MaxAttempts = 1
SPECIFICATION Spec
CHECK_DEADLOCK FALSE
INVARIANT
    SuccessMeansRecorded
