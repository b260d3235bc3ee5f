\* Two deliveries of three transactions, alone or together; three requests of two wallets
\* under two networks, tokens that last two instants, and two instants more.
CONSTANTS
    None = None
    s1 = s1
    s2 = s2
    d1 = d1
    d2 = d2
    s3 = s3
    Signatures = {s1, s2, s3}
    Deliveries = {d1, d2}
    Batches <- MCBatches
    w1 = w1
    w2 = w2
    r1 = r1
    r2 = r2
    r3 = r3
    Wallets = {w1, w2}
    Requests = {r1, r2, r3}
    Nobody = Nobody
    solana = solana
    bsc = bsc
    Networks = {solana, bsc}
    p1 = p1
    invest <- MCInvest
    RefreshLife = 2
    LastInstant = 4
SYMMETRY UpsertsSymmetry
SPECIFICATION UpsertsSpec
CHECK_DEADLOCK FALSE
INVARIANT
    TypesOK
    LateDeliveriesAddNothing
    ToldMeansRecorded
    NewestNeverRefused
    PortfolioAgrees
    LateRequestsAddNothing
    SessionsAreEarned
