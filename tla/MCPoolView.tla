------------------------------- MODULE MCPoolView -------------------------------
(***************************************************************************)
(* mintingPool and the page of the season on a small instance.  What       *)
(* mintingPool does about the holders and what it counts share no state,   *)
(* and the page meets its calls in the rows alone, so each is looked at    *)
(* while the others rest: every property speaks of one of them.            *)
(***************************************************************************)
EXTENDS SeasonView, TLC

\* p1 is public, p2 private to the wallets, p3 is not active yet and has no date.
CONSTANTS p1, p2, p3
Whitelist == [p \in {p1, p2, p3} |-> IF p = p2 THEN Wallets ELSE {}]
StartTime == [p \in {p1, p2, p3} |-> IF p = p3 THEN None ELSE IF p = p2 THEN 1 ELSE 2]

PartsInit == Init /\ ViewInit /\ PageInit

\* Each part before its first step.
HoldersRest ==
    holders = {} /\ clock = 1 /\ modified = 0 /\ \A r \in Requests : step[r] = "idle"
CallsRest == \A r \in Calls : asker[r] = None
CountsRest == CallsRest /\ \A n \in Nfts : rows[n] = None
PagesRest == \A v \in Visits : visitor[v] = None

PartsNext ==
    \/ Next /\ CountsRest /\ PagesRest /\ UNCHANGED <<viewvars, pagevars>>
    \/ ViewNext /\ HoldersRest /\ PagesRest /\ UNCHANGED <<vars, pagevars>>
    \/ PageNext /\ HoldersRest /\ CallsRest /\ UNCHANGED vars

PartsSpec == PartsInit /\ [][PartsNext]_<<vars, viewvars, pagevars>>

TypesOK == TypeOK /\ ViewTypeOK /\ PageTypeOK

PoolSymmetry == Permutations(Requests) \cup Permutations(Wallets)

=============================================================================
