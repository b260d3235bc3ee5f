---------------------------- MODULE MCInvestingView ----------------------------
(***************************************************************************)
(* InvestingView on small instances: a project that invests at the instant *)
(* 2 and vests at 3, with a snapshot at 1 and no time before registration. *)
(***************************************************************************)
EXTENDS InvestingView, TLC

MCTimeline == [f \in TimelineFields |->
    CASE f = "registration_start_at" -> 0
      [] f \in {"registration_end_at", "snapshot_start_at", "snapshot_end_at"} -> 1
      [] f \in {"investment_start_at", "investment_end_at"} -> 2
      [] f \in {"claim_start_at", "claim_end_at"} -> 3]

ViewSymmetry == Permutations(Requests)

=============================================================================
