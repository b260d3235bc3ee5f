----------------------------- MODULE MCInvesting -----------------------------
(***************************************************************************)
(* Investing on a small instance: any of the transactions alone, or two of *)
(* them, in a delivery.                                                    *)
(***************************************************************************)
EXTENDS Investing

LOCAL INSTANCE TLC

MCBatches == {b \in BoundedSeq(Signatures, 2) : b # <<>> /\ IsInjective(b)}

InvestingSymmetry == Permutations(Signatures) \cup Permutations(Deliveries)

=============================================================================
