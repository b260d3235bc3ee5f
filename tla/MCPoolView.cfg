\* Two requests for the holders that overlap in every way, with edits among the lists
\* of two wallets; a call that counts while up to three mints of the two land; a page
\* of the season that does so too, with a public, a private and a coming round.
CONSTANTS
    None = None
    r1 = r1
    r2 = r2
    c1 = c1
    v1 = v1
    w1 = w1
    w2 = w2
    n1 = n1
    n2 = n2
    n3 = n3
    p1 = p1
    p2 = p2
    p3 = p3
    Guest = Guest
    Requests = {r1, r2}
    Calls = {c1}
    Visits = {v1}
    Wallets = {w1, w2}
    Nfts = {n1, n2, n3}
    MaxTime = 2
    pool_supply = 2
    total_mint_per_wallet = 1
    nft_per_user_limit = 2
    Rounds = {p1, p2, p3}
    active_pool = {p1, p2}
    whitelist <- Whitelist
    start_time <- StartTime
SYMMETRY PoolSymmetry
SPECIFICATION PartsSpec
CHECK_DEADLOCK FALSE
INVARIANT
    TypesOK
    UsableEntryIsCurrent
    AnswersWereTrue
    AnswersFit
    PagesFit
PROPERTY
    MintsWithinLimits
