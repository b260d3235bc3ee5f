-------------------------------- MODULE PoolView --------------------------------
(***************************************************************************)
(* The counts of NftService.mintingPool: a wallet asks for a pool of the   *)
(* season and is told whether it can mint.  The answer is put together     *)
(* from two counts of rows, which are read at different moments while      *)
(* mints land and are recorded, and a list of holders, which can be any    *)
(* here: what it is worth is the question of PoolHolders.                  *)
(*                                                                         *)
(* When the query names no pool, the first one of the season is counted    *)
(* and the first one the wallet may see is shown, which is another one     *)
(* when the pools before it are private.                                   *)
(***************************************************************************)
EXTENDS PoolHolders, FiniteSets

CONSTANTS
    Calls,                 \* calls of mintingPool of which the pool is the current_pool
    Nfts,                  \* rows of the season
    pool_supply,           \* of the pool
    total_mint_per_wallet, \* of the pool
    nft_per_user_limit     \* of the season

\* owner_address, whether pool_id is the pool, and whether the row says so already: a
\* mint that has landed is recorded later.
Rows == [owner : Wallets, here : BOOLEAN, recorded : BOOLEAN]

ASSUME ViewAssumption ==
    /\ None \notin Rows /\ None \notin Wallets
    /\ IsFiniteSet(Nfts)
    /\ {pool_supply, total_mint_per_wallet, nft_per_user_limit} \subseteq Nat \ {0}

VARIABLES
    rows,     \* what has become of each row
    asker,    \* the wallet of each request
    how,      \* whether the query named the pool, or it is the first one, or behind
    reads,    \* the reads it waits for
    mine,     \* how many rows of the wallet it found in the pool and in the season
    total,    \* minted_total
    answer,
    could,    \* history: the wallet could mint when the request began
    stale,    \* history: not all mints of the wallet were recorded then, or it minted since
    excused   \* history: the count failed, or the wallet lost a row since

viewvars == <<rows, asker, how, reads, mine, total, answer, could, stale, excused>>

Answers == {"none", "active", "closed", "stranger", "used", "lost"}
Waiting(r) == asker[r] # None /\ answer[r] = "none"

InRows(n) == rows[n] # None
Recorded == {n \in Nfts : InRows(n) /\ rows[n].recorded}
OwnedBy(w, among) == {n \in among : InRows(n) /\ rows[n].owner = w}
Here(among) == {n \in among : InRows(n) /\ rows[n].here}
Pending(w) == OwnedBy(w, Nfts \ Recorded) # {}

\* The conditions on counts of minted rows under which is_active can hold.
Leaves(inPool, byWalletInPool, byWallet) ==
    /\ inPool < pool_supply
    /\ byWalletInPool < total_mint_per_wallet
    /\ byWallet < nft_per_user_limit

\* What they would say of the rows now.
CanMint(w) ==
    Leaves(Cardinality(Here(Recorded)), Cardinality(Here(OwnedBy(w, Recorded))),
           Cardinality(OwnedBy(w, Recorded)))

ViewInit ==
    /\ rows = [n \in Nfts |-> None]
    /\ asker = [r \in Calls |-> None]
    /\ how = [r \in Calls |-> "named"]
    /\ reads = [r \in Calls |-> {}]
    /\ mine = [r \in Calls |-> <<0, 0>>]
    /\ total = [r \in Calls |-> 0]
    /\ answer = [r \in Calls |-> "none"]
    /\ could = [r \in Calls |-> FALSE]
    /\ stale = [r \in Calls |-> FALSE]
    /\ excused = [r \in Calls |-> FALSE]

-----------------------------------------------------------------------------
(* The chain and the rows.                                                   *)

\* A mint of the wallet has landed: what its requests say does not know of it.
Land(n, w, here) ==
    /\ rows[n] = None
    /\ rows' = [rows EXCEPT ![n] = [owner |-> w, here |-> here, recorded |-> FALSE]]
    /\ stale' = [r \in Calls |-> stale[r] \/ asker[r] = w]

\* A wallet that was offered the pool mints once.
Mint(r, n) ==
    /\ answer[r] = "active"
    /\ answer' = [answer EXCEPT ![r] = "used"]
    /\ Land(n, asker[r], TRUE)
    /\ UNCHANGED <<asker, how, reads, mine, total, could, excused>>

\* Mints by other ways: in another pool, or offered by another process.
MintElsewhere(n, w, here) ==
    /\ Land(n, w, here)
    /\ UNCHANGED <<asker, how, reads, mine, total, answer, could, excused>>

\* The webhook writes the row, or the claim, which names the pool it likes.
Record(n, here) ==
    /\ rows[n] # None /\ ~rows[n].recorded
    /\ rows' = [rows EXCEPT ![n].recorded = TRUE, ![n].here = here]
    /\ UNCHANGED <<asker, how, reads, mine, total, answer, could, stale, excused>>

\* A second mint with the row's url is recorded in the place of the first one.
Reassign(n, w) ==
    /\ n \in Recorded /\ w # rows[n].owner
    /\ rows' = [rows EXCEPT ![n].owner = w]
    /\ stale' = [r \in Calls |-> stale[r] \/ asker[r] = w]
    /\ excused' = [r \in Calls |-> excused[r] \/ asker[r] = rows[n].owner]
    /\ UNCHANGED <<asker, how, reads, mine, total, answer, could>>

-----------------------------------------------------------------------------
(* A request.                                                                *)

\* The season is back, the reads of mintingPool begin.
Ask(r, w, asked) ==
    /\ asker[r] = None
    /\ asker' = [asker EXCEPT ![r] = w]
    /\ how' = [how EXCEPT ![r] = asked]
    /\ reads' = [reads EXCEPT ![r] = {"pools", "mine", "total"}]
    /\ could' = [could EXCEPT ![r] = CanMint(w)]
    /\ stale' = [stale EXCEPT ![r] = Pending(w)]
    /\ excused' = [excused EXCEPT ![r] = FALSE]
    /\ UNCHANGED <<rows, mine, total, answer>>

\* listPool answers.  The pools do not change here.
ReadPools(r) ==
    /\ Waiting(r) /\ "pools" \in reads[r]
    /\ reads' = [reads EXCEPT ![r] = @ \ {"pools"}]
    /\ UNCHANGED <<rows, asker, how, mine, total, answer, could, stale, excused>>

\* countNftByWalletOfSeason
ReadMine(r) ==
    LET owned == OwnedBy(asker[r], Recorded)
    IN  /\ Waiting(r) /\ "mine" \in reads[r]
        /\ mine' = [mine EXCEPT ![r] = <<Cardinality(Here(owned)), Cardinality(owned)>>]
        /\ reads' = [reads EXCEPT ![r] = @ \ {"mine"}]
        /\ UNCHANGED <<rows, asker, how, total, answer, could, stale, excused>>

\* Without a pool in the query the count begins when the other reads have ended.
CountBegun(r) ==
    /\ Waiting(r) /\ "total" \in reads[r]
    /\ how[r] = "named" \/ reads[r] = {"total"}

\* countMintedTotal of the pool, or of the one before it.
ReadTotal(r) ==
    /\ CountBegun(r)
    /\ total' = [total EXCEPT ![r] =
                    Cardinality(IF how[r] = "behind" THEN Recorded \ Here(Recorded)
                                                     ELSE Here(Recorded))]
    /\ reads' = [reads EXCEPT ![r] = @ \ {"total"}]
    /\ UNCHANGED <<rows, asker, how, mine, answer, could, stale, excused>>

\* Its error is swallowed, and nothing was minted.
TotalFails(r) ==
    /\ CountBegun(r)
    /\ total' = [total EXCEPT ![r] = 0]
    /\ reads' = [reads EXCEPT ![r] = @ \ {"total"}]
    /\ excused' = [excused EXCEPT ![r] = TRUE]
    /\ UNCHANGED <<rows, asker, how, mine, answer, could, stale>>

\* Variant with a bug: the comparison that excludes the full pool is missing.
ActiveWhenFull(r) == Leaves(total[r] - 1, mine[r][1], mine[r][2])

\* Variant with a bug: the rows of the wallet in the pool alone are looked at.
ActiveInPool(r) == Leaves(total[r], mine[r][1], 0)

\* is_active for a holder.
Active(r) == Leaves(total[r], mine[r][1], mine[r][2])

\* Variant with a bug: the count is not awaited.
AllButCountRead(r) == Waiting(r) /\ reads[r] \subseteq {"total"}

AllRead(r) == Waiting(r) /\ reads[r] = {}

\* current_pool for a list of holders.
Answer(r, given) ==
    /\ AllRead(r)
    /\ answer' = [answer EXCEPT ![r] =
                     CASE asker[r] \notin given -> "stranger"
                       [] asker[r] \in given /\ Active(r) -> "active"
                       [] OTHER -> "closed"]
    /\ mine' = [mine EXCEPT ![r] = <<0, 0>>]
    /\ total' = [total EXCEPT ![r] = 0]
    /\ UNCHANGED <<rows, asker, how, reads, could, stale, excused>>

\* Another read rejects, or the process ends.
Fails(r) ==
    /\ Waiting(r)
    /\ answer' = [answer EXCEPT ![r] = "lost"]
    /\ UNCHANGED <<rows, asker, how, reads, mine, total, could, stale, excused>>

ViewNext ==
    \/ \E n \in Nfts :
          \/ \E r \in Calls : Mint(r, n)
          \/ \E w \in Wallets, here \in BOOLEAN : MintElsewhere(n, w, here)
          \/ \E here \in BOOLEAN : Record(n, here)
          \/ \E w \in Wallets : Reassign(n, w)
    \/ \E r \in Calls :
          \/ \E w \in Wallets, asked \in {"named", "first", "behind"} : Ask(r, w, asked)
          \/ ReadPools(r) \/ ReadMine(r) \/ ReadTotal(r) \/ TotalFails(r)
          \/ \E given \in Lists : Answer(r, given)
          \/ Fails(r)

ViewSpec == ViewInit /\ [][ViewNext]_viewvars

-----------------------------------------------------------------------------
(* Properties.                                                               *)

ViewTypeOK ==
    /\ rows \in [Nfts -> {None} \cup Rows]
    /\ asker \in [Calls -> {None} \cup Wallets]
    /\ how \in [Calls -> {"named", "first", "behind"}]
    /\ reads \in [Calls -> SUBSET {"pools", "mine", "total"}]
    /\ mine \in [Calls -> (0 .. Cardinality(Nfts)) \X (0 .. Cardinality(Nfts))]
    /\ total \in [Calls -> 0 .. Cardinality(Nfts)]
    /\ answer \in [Calls -> Answers]
    /\ could \in [Calls -> BOOLEAN]
    /\ stale \in [Calls -> BOOLEAN]
    /\ excused \in [Calls -> BOOLEAN]
    /\ \A r \in Calls : answer[r] \in {"active", "closed", "used"} => reads[r] = {}

\* A holder is offered the pool only if it could mint when it asked, and is told that
\* it cannot only if it really cannot any more: the two counts, taken at different
\* moments, never add up to what was never true.  Excepted are counts of another pool,
\* counts that failed, and wallets that lost a row to a second mint of it.
AnswersFit ==
    \A r \in Calls :
        how[r] # "behind" /\ ~excused[r] =>
            /\ answer[r] \in {"active", "used"} => could[r]
            /\ answer[r] = "closed" => ~CanMint(asker[r])

\* A wallet that asks when all its mints are recorded, and mints on that answer and
\* nowhere else, stays within the limits of the pool and of the season.
MintsWithinLimits ==
    [][\A r \in Calls, n \in Nfts :
          Mint(r, n) /\ ~stale[r] =>
              LET w == asker[r]
              IN  /\ Cardinality(Here(OwnedBy(w, Nfts)))' <= total_mint_per_wallet
                  /\ Cardinality(OwnedBy(w, Nfts))' <= nft_per_user_limit]_viewvars

=============================================================================
