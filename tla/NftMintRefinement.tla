-------------------------- MODULE NftMintRefinement --------------------------
(***************************************************************************)
(* The service of NftMint keeps the promise of MintLifecycle: the stage of *)
(* a reservation is read off its row.                                      *)
(***************************************************************************)
EXTENDS NftMint

stageOf(id) ==
    IF nfts[id] = None THEN "absent"
    ELSE IF nfts[id].signature # None THEN "recorded"
    ELSE IF nfts[id].owner_address # None THEN "claimed"
    ELSE "reserved"

stages == [id \in Ids |-> stageOf(id)]

news == {<<s, chain[s].nft>> : s \in {t \in Signatures : TellsOfMint(t)}}

Lifecycle == INSTANCE MintLifecycle WITH stage <- stages, told <- news

\* However claims, lookups, deliveries, retries and failures interleave, each
\* row goes through the stages of a reservation, once and forwards.
ImplementsLifecycle == Lifecycle!Spec

=============================================================================
