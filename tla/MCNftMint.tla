------------------------------ MODULE MCNftMint ------------------------------
(***************************************************************************)
(* NftMint on small instances.  Wallets are interchangeable, so the first  *)
(* one makes every request.                                                *)
(***************************************************************************)
EXTENDS NftMintRefinement

CONSTANTS w1

MCInit == wallet = [r \in Requests |-> w1] /\ Init

MCSpec == MCInit /\ [][Next]_vars /\ Fairness

=============================================================================
