------------------------------- MODULE MCUpserts -------------------------------
(***************************************************************************)
(* The collections that are written by finding first and inserting then:   *)
(* investments, users and referral codes, on a small instance.  Investing  *)
(* and Accounts share no state, so each is looked at while the other       *)
(* rests.                                                                  *)
(***************************************************************************)
EXTENDS MCInvesting, Portfolio, Accounts

LOCAL INSTANCE TLC

\* Two wallets share a project; one of them also has a transaction of no ticket.
CONSTANTS s1, s2, s3, w1, w2, p1
MCInvest ==
    [s \in {s1, s2, s3} |->
        [wallet |-> IF s = s3 THEN w2 ELSE w1, project |-> p1,
         total |-> CASE s = s1 -> 2 [] s = s2 -> 0 [] s = s3 -> 1]]

UpsertsInit == Init /\ AccountsInit

\* Each half before its first step.
InvestingRest == synced = {} /\ \A d \in Deliveries : step[d] = "idle"
AccountsRest == time = 0 /\ \A r \in Requests : at[r] = "idle"

\* Bound: clients, whose reports change no row, report one transaction only.
OneReport == synced' \subseteq {s1}

UpsertsNext ==
    \/ Next /\ OneReport /\ AccountsRest /\ UNCHANGED accounts
    \/ AccountsNext /\ InvestingRest /\ UNCHANGED vars

UpsertsSpec == UpsertsInit /\ [][UpsertsNext]_<<vars, accounts>>

TypesOK == TypeOK /\ AccountsTypeOK

UpsertsSymmetry ==
    Permutations(Deliveries) \cup Permutations(Requests) \cup Permutations(Networks)

=============================================================================
