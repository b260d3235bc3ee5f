\* One transaction that the client reports, and its delivery.
CONSTANTS
    None = None
    s1 = s1
    d1 = d1
    Signatures = {s1}
    Deliveries = {d1}
    Batches <- MCBatches
SPECIFICATION Spec
CHECK_DEADLOCK FALSE
INVARIANT
    SyncedMeansRecorded
