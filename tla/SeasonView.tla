------------------------------ MODULE SeasonView ------------------------------
(***************************************************************************)
(* The page of the season: SeasonController.activeSeason counts the rows   *)
(* of the season and those of the wallet that looks, if one does, and      *)
(* shows the rounds in the order they begin.  The three reads run side by  *)
(* side, on the rows PoolView changes.                                     *)
(***************************************************************************)
EXTENDS PoolView

CONSTANTS
    Visits,      \* calls of activeSeason
    Guest,       \* a visitor without an access token
    Rounds,      \* the pools of the season
    active_pool, \* those of which is_active_pool holds
    whitelist,   \* pool_private_whitelist of each
    start_time   \* of each, None when it has none

Visitors == Wallets \cup {Guest}

ASSUME SeasonAssumption ==
    /\ None \notin Visitors /\ Guest \notin Wallets
    /\ active_pool \subseteq Rounds
    /\ whitelist \in [Rounds -> SUBSET Wallets]

VARIABLES
    visitor,  \* who looks
    awaited,  \* the reads the page waits for
    counted,  \* minted_total and my_minted_total, as they came back
    begun,    \* history: what they would have been when the reads began
    shown,    \* minting_round_road_map: the place of each round shown
    failed,   \* history: the counts that failed
    robbed    \* history: the wallet lost a row to a second mint of it

pagevars == <<visitor, awaited, counted, begun, shown, failed, robbed>>

Counts == [total : 0 .. Cardinality(Nfts), mine : 0 .. Cardinality(Nfts)]
ReadsOf(w) == IF w = Guest THEN {"total", "rounds"} ELSE {"total", "rounds", "mine"}

\* countMintedTotal with the wallet, or without one, if it does not fail.
MintedTotal(w) ==
    [total |-> Cardinality(Recorded), mine |-> Cardinality(OwnedBy(w, Recorded))]

\* The rounds the page lets a visitor see, and those mintingPool does.
OnRoadMap(w) == {p \in Rounds : whitelist[p] # {} => w \in whitelist[p]}
ListedPools(w) == {p \in active_pool : whitelist[p] # {} => w \in whitelist[p]}

\* a.start_time - b.start_time, where a round without one comes last.
Before(p, q) ==
    start_time[p] # None /\ (start_time[q] = None \/ start_time[p] < start_time[q])

\* How many come before each: rounds that begin together share a place.
RoadMap(w) ==
    [p \in OnRoadMap(w) |-> Cardinality({q \in OnRoadMap(w) : Before(q, p)})]

PageInit ==
    /\ visitor = [v \in Visits |-> None]
    /\ awaited = [v \in Visits |-> {}]
    /\ counted = [v \in Visits |-> [total |-> 0, mine |-> 0]]
    /\ begun = [v \in Visits |-> [total |-> 0, mine |-> 0]]
    /\ shown = [v \in Visits |-> None]
    /\ failed = [v \in Visits |-> {}]
    /\ robbed = [v \in Visits |-> FALSE]

-----------------------------------------------------------------------------
(* The rows, while no call of mintingPool runs.                              *)

RowsChange ==
    \E n \in Nfts :
        \/ /\ \/ \E w \in Wallets, here \in BOOLEAN : MintElsewhere(n, w, here)
              \/ \E here \in BOOLEAN : Record(n, here)
           /\ UNCHANGED pagevars
        \/ /\ \E w \in Wallets : Reassign(n, w)
           /\ robbed' = [v \in Visits |-> robbed[v] \/ visitor[v] = rows[n].owner]
           /\ UNCHANGED <<visitor, awaited, counted, begun, shown, failed>>

-----------------------------------------------------------------------------
(* A page.                                                                   *)

\* The token has been decoded, the season has been read, the other reads begin.
Visit(v, w) ==
    /\ visitor[v] = None
    /\ visitor' = [visitor EXCEPT ![v] = w]
    /\ awaited' = [awaited EXCEPT ![v] = ReadsOf(w)]
    /\ begun' = [begun EXCEPT ![v] = MintedTotal(w)]
    /\ UNCHANGED <<viewvars, counted, shown, failed, robbed>>

\* Variant with a bug: the wallet is passed in the place of the pool, which has no rows.
ReadCountOfPool(v, part) ==
    /\ part \in awaited[v] \cap {"total", "mine"}
    /\ awaited' = [awaited EXCEPT ![v] = @ \ {part}]
    /\ counted' = [counted EXCEPT ![v].total =
                      IF part = "mine" THEN @ ELSE MintedTotal(visitor[v]).total]
    /\ UNCHANGED <<viewvars, visitor, begun, shown, failed, robbed>>

ReadCount(v, part) ==
    /\ part \in awaited[v] \cap {"total", "mine"}
    /\ awaited' = [awaited EXCEPT ![v] = @ \ {part}]
    /\ counted' = [counted EXCEPT ![v] = [@ EXCEPT ![part] = MintedTotal(visitor[v])[part]]]
    /\ UNCHANGED <<viewvars, visitor, begun, shown, failed, robbed>>

\* A count's error is swallowed and counts as no mint.
CountFails(v, part) ==
    /\ part \in awaited[v] \cap {"total", "mine"}
    /\ awaited' = [awaited EXCEPT ![v] = @ \ {part}]
    /\ counted' = [counted EXCEPT ![v] = [@ EXCEPT ![part] = 0]]
    /\ failed' = [failed EXCEPT ![v] = @ \cup {part}]
    /\ UNCHANGED <<viewvars, visitor, begun, shown, robbed>>

\* mintingRoundRoadMap; the rounds do not change here.
ReadRounds(v) ==
    /\ "rounds" \in awaited[v]
    /\ awaited' = [awaited EXCEPT ![v] = @ \ {"rounds"}]
    /\ shown' = [shown EXCEPT ![v] = RoadMap(visitor[v])]
    /\ UNCHANGED <<viewvars, visitor, counted, begun, failed, robbed>>

\* The rounds cannot be read: the page is refused, and no number is shown.  (Where the
\* season cannot be read, no page begins.)
Refused(v) ==
    /\ "rounds" \in awaited[v]
    /\ awaited' = [awaited EXCEPT ![v] = {}]
    /\ failed' = [failed EXCEPT ![v] = {"total", "mine"}]
    /\ UNCHANGED <<viewvars, visitor, counted, begun, shown, robbed>>

PageNext ==
    \/ RowsChange
    \/ \E v \in Visits :
          \/ \E w \in Visitors : Visit(v, w)
          \/ \E part \in {"total", "mine"} : ReadCount(v, part) \/ CountFails(v, part)
          \/ ReadRounds(v)
          \/ Refused(v)

PageSpec == ViewInit /\ PageInit /\ [][PageNext]_<<viewvars, pagevars>>

-----------------------------------------------------------------------------
(* Properties.                                                               *)

PageTypeOK ==
    /\ visitor \in [Visits -> {None} \cup Visitors]
    /\ awaited \in [Visits -> SUBSET {"total", "rounds", "mine"}]
    /\ counted \in [Visits -> Counts]
    /\ begun \in [Visits -> Counts]
    /\ shown \in [Visits -> {None} \cup {RoadMap(w) : w \in Visitors}]
    /\ failed \in [Visits -> SUBSET {"total", "mine"}]
    /\ robbed \in [Visits -> BOOLEAN]

\* The two numbers of a page are counted at different moments.  Each was true at one of
\* them: no less than when the page was asked for and no more than by now, so that the
\* wallet's mints exceed the season's only by mints recorded in between.  Excepted are
\* counts that failed and wallets that lost a row to a second mint of it.  And the page
\* shows at least the pools mintingPool offers the same visitor.
PagesFit ==
    \A v \in Visits :
        LET now == MintedTotal(visitor[v])
        IN  visitor[v] # None =>
              /\ "total" \notin awaited[v] \cup failed[v] =>
                    begun[v].total <= counted[v].total /\ counted[v].total <= now.total
              /\ visitor[v] # Guest /\ "mine" \notin awaited[v] \cup failed[v] /\ ~robbed[v] =>
                    begun[v].mine <= counted[v].mine /\ counted[v].mine <= now.mine
              /\ shown[v] # None => ListedPools(visitor[v]) \subseteq DOMAIN shown[v]

=============================================================================
