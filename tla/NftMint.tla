-------------------------------- MODULE NftMint --------------------------------
(***************************************************************************)
(* The life of a pass NFT in NftService: generateCNftMetaData reserves a   *)
(* row and publishes its metadata, the wallet mints on chain with the url  *)
(* it was given, and the row learns of the mint in two ways that race: the *)
(* Helius webhook (syncNftFromWebHook) and the call of the client          *)
(* (synNftBySignature), which claims the row for the caller before it      *)
(* looks the transaction up.  Both end in updateKyuPadNftByTx.             *)
(*                                                                         *)
(* The wallets, the chain and Helius are outside the repository: a wallet  *)
(* mints only with a url it was given, possibly several times; a submitted *)
(* transaction lands, fails or is dropped; Helius delivers the events of   *)
(* landed transactions in any order and any number of times, and may tell  *)
(* of a failed one which compressed NFTs it was to mint.  The client names *)
(* any row, any signature and any wallet: its token is only decoded.       *)
(*                                                                         *)
(* The variants with a bug are not part of Next: a property is of use only *)
(* if it fails when such a variant takes the place of the action below it. *)
(***************************************************************************)
EXTENDS Integers

CONSTANTS
    Requests,     \* calls of generateCNftMetaData
    Wallets,      \* wallets
    Signatures,   \* transactions on chain
    Syncs,        \* calls of synNftBySignature
    None,         \* the absent wallet, signature, row, transaction or call
    MaxAttempts   \* bound: runs of the callback within withTransaction's 120 s

VARIABLES
    pc,        \* where each call of generateCNftMetaData stands
    wallet,    \* its request wallet
    attempt,   \* runs of its transaction's callback
    files,     \* metadata files stored, by the row they are named after
    nfts,      \* the kyupadnfts collection
    chain,     \* the transactions the wallets submitted
    delivered, \* webhook deliveries answered with SUCCESS
    dropped,   \* those of them whose write failed
    sync       \* where each call of synNftBySignature stands, and its arguments

vars == <<pc, wallet, attempt, files, nfts, chain, delivered, dropped, sync>>
generation == <<pc, wallet, attempt, files>>
hooks == <<delivered, dropped>>

Attempts == 1 .. MaxAttempts
Ids == Requests \X Attempts

\* The _id of the row the current attempt creates.
Id(r) == <<r, attempt[r]>>

\* nft_address, collection_address and signature are written together: the
\* signature stands for the three.
Rows == [request_wallet : Wallets \cup {None},
         owner_address : Wallets \cup {None},
         signature : Signatures \cup {None}]

\* How a transaction ends: minted, failed and Helius tells of no compressed events, or
\* failed and Helius tells of the events it would have had.
Outcomes == {"minted", "failed", "failedWithEvents"}

\* A transaction, the row its metadata names and its newLeafOwner.
Txs == [status : {"pending"} \cup Outcomes, nft : Ids, owner : Wallets]

Calls == [step : {"claim", "lookup", "record", "done"},
          nft : Ids, owner : Wallets, signature : Signatures]

ASSUME ConstantsAssumption ==
    /\ MaxAttempts \in Nat \ {0}
    /\ None \notin Wallets \cup Signatures \cup Rows \cup Txs \cup Calls

GenerateSteps == {"idle", "creating", "uploading", "commit", "unknown", "issued", "failed"}

Init ==
    /\ pc = [r \in Requests |-> "idle"]
    /\ wallet \in [Requests -> Wallets]
    /\ attempt = [r \in Requests |-> 0]
    /\ files = {}
    /\ nfts = [id \in Ids |-> None]
    /\ chain = [s \in Signatures |-> None]
    /\ delivered = {}
    /\ dropped = {}
    /\ sync = [c \in Syncs |-> None]

-----------------------------------------------------------------------------
(* generateCNftMetaData.                                                     *)

\* Variant with a bug: one run of the callback too many.
CreateUnbounded(r) ==
    /\ pc[r] \in {"idle", "creating"}
    /\ attempt' = [attempt EXCEPT ![r] = @ + 1]
    /\ pc' = [pc EXCEPT ![r] = "uploading"]
    /\ UNCHANGED <<wallet, files, nfts, chain, hooks, sync>>

\* The callback runs and creates a row of its own in the transaction; a
\* transient error makes it run again.
Create(r) ==
    /\ pc[r] \in {"idle", "creating"}
    /\ attempt[r] < MaxAttempts
    /\ attempt' = [attempt EXCEPT ![r] = @ + 1]
    /\ pc' = [pc EXCEPT ![r] = "uploading"]
    /\ UNCHANGED <<wallet, files, nfts, chain, hooks, sync>>

\* uploadCnftMetadata stores the file, whose url names the row.
Upload(r) ==
    /\ pc[r] = "uploading"
    /\ files' = files \cup {Id(r)}
    /\ pc' = [pc EXCEPT ![r] = "commit"]
    /\ UNCHANGED <<wallet, attempt, nfts, chain, hooks, sync>>

Reserved(r) == [request_wallet |-> wallet[r], owner_address |-> None,
                signature |-> None]

\* The commit succeeds, at once or when it is repeated: the url is returned.
Commit(r) ==
    /\ pc[r] \in {"commit", "unknown"}
    /\ nfts' = IF nfts[Id(r)] = None THEN [nfts EXCEPT ![Id(r)] = Reserved(r)] ELSE nfts
    /\ pc' = [pc EXCEPT ![r] = "issued"]
    /\ UNCHANGED <<wallet, attempt, files, chain, hooks, sync>>

\* Variant with a bug: an unknown result is taken for a commit.
CommitUnknownAnswered(r) ==
    /\ pc[r] = "commit"
    /\ nfts' \in {nfts, [nfts EXCEPT ![Id(r)] = Reserved(r)]}
    /\ pc' = [pc EXCEPT ![r] = "issued"]
    /\ UNCHANGED <<wallet, attempt, files, chain, hooks, sync>>

\* The answer to the commit is lost.
CommitUnknown(r) ==
    /\ pc[r] = "commit"
    /\ nfts' \in {nfts, [nfts EXCEPT ![Id(r)] = Reserved(r)]}
    /\ pc' = [pc EXCEPT ![r] = "unknown"]
    /\ UNCHANGED <<wallet, attempt, files, chain, hooks, sync>>

\* A transient error of the insert or of the commit of a transaction that is
\* not committed: the callback runs again, with a row and a file of its own.
Retry(r) ==
    /\ \/ pc[r] = "uploading"
       \/ pc[r] \in {"commit", "unknown"} /\ nfts[Id(r)] = None
    /\ pc' = [pc EXCEPT ![r] = "creating"]
    /\ UNCHANGED <<wallet, attempt, files, nfts, chain, hooks, sync>>

\* No active season, a failed upload or commit, a crash of the process: the
\* caller gets no url.  The file stays, and so does the row when it was
\* committed.
GenerateFails(r) ==
    /\ pc[r] \in {"idle", "creating", "uploading", "commit", "unknown"}
    /\ files' \in {files} \cup (IF pc[r] = "uploading" THEN {files \cup {Id(r)}} ELSE {})
    /\ pc' = [pc EXCEPT ![r] = "failed"]
    /\ UNCHANGED <<wallet, attempt, nfts, chain, hooks, sync>>

-----------------------------------------------------------------------------
(* The chain.                                                                *)

StatusOf(s) == IF chain[s] = None THEN "none" ELSE chain[s].status

\* A wallet submits a mint with the url it was given; a wallet that believes
\* its first transaction lost may submit another one.
Submit(s, r, w) ==
    /\ pc[r] = "issued"
    /\ chain[s] = None
    /\ chain' = [chain EXCEPT ![s] = [status |-> "pending", nft |-> Id(r), owner |-> w]]
    /\ UNCHANGED <<generation, nfts, hooks, sync>>

\* The transaction lands, or it fails; it may also stay pending for good.
Land(s) ==
    /\ StatusOf(s) = "pending"
    /\ \E status \in Outcomes : chain' = [chain EXCEPT ![s].status = status]
    /\ UNCHANGED <<generation, nfts, hooks, sync>>

-----------------------------------------------------------------------------
(* updateKyuPadNftByTx: an update of the row the metadata names, that would  *)
(* insert a row where there is none.  It asks whether the transaction has     *)
(* compressed events, not whether it failed.                                 *)

\* Helius tells of compressed events of the transaction.
TellsOfMint(s) == StatusOf(s) \in {"minted", "failedWithEvents"}

Recorded(s) ==
    LET id == chain[s].nft
        requested == IF nfts[id] = None THEN None ELSE nfts[id].request_wallet
    IN  [nfts EXCEPT ![id] = [request_wallet |-> requested,
                              owner_address |-> chain[s].owner,
                              signature |-> s]]

\* Variant with a bug: transactions without events are recorded too.
UpdateByFailedTx(s) ==
    nfts' = IF StatusOf(s) \in Outcomes THEN Recorded(s) ELSE nfts

\* Variant with a bug: an owned row is not updated.
UpdateUnlessOwned(s) ==
    nfts' = IF /\ TellsOfMint(s)
               /\ nfts[chain[s].nft].owner_address = None
            THEN Recorded(s) ELSE nfts

UpdateKyuPadNftByTx(s) ==
    nfts' = IF TellsOfMint(s) THEN Recorded(s) ELSE nfts

\* A delivery of the webhook: COMPRESSED_NFT_MINT with no transactionError.  That of a
\* failed transaction is logged and changes nothing.
Webhook(s) ==
    /\ StatusOf(s) = "minted"
    /\ UpdateKyuPadNftByTx(s)
    /\ delivered' = delivered \cup {s}
    /\ UNCHANGED <<generation, chain, dropped, sync>>

\* The write of the delivery fails: the error is logged and the answer is
\* SUCCESS all the same.
WebhookFails(s) ==
    /\ StatusOf(s) = "minted"
    /\ delivered' = delivered \cup {s}
    /\ dropped' = dropped \cup {s}
    /\ UNCHANGED <<generation, nfts, chain, sync>>

-----------------------------------------------------------------------------
(* synNftBySignature(id, poolId, signature, owner).                          *)

\* The client names a row, a signature and, by its token, a wallet, each as it likes: a
\* row of another request, a signature not submitted or of a transaction of another row.
StartSync(c, id, s, w) ==
    /\ sync[c] = None
    /\ sync' = [sync EXCEPT ![c] = [step |-> "claim", nft |-> id,
                                    owner |-> w, signature |-> s]]
    /\ UNCHANGED <<generation, nfts, chain, hooks>>

At(c, step) == sync[c] # None /\ sync[c].step = step

Step(c, step) == sync' = [sync EXCEPT ![c].step = step]

\* Variant with a bug: without the filter owner_address: null.
ClaimOwned(c) ==
    LET id == sync[c].nft IN
    /\ At(c, "claim")
    /\ nfts' = IF nfts[id] # None /\ nfts[id].request_wallet = sync[c].owner
               THEN [nfts EXCEPT ![id].owner_address = sync[c].owner] ELSE nfts
    /\ Step(c, "lookup")
    /\ UNCHANGED <<generation, chain, hooks>>

\* Variant with a bug: without the filter request_wallet.
ClaimForAnyone(c) ==
    LET id == sync[c].nft IN
    /\ At(c, "claim")
    /\ nfts' = IF nfts[id] # None /\ nfts[id].owner_address = None
               THEN [nfts EXCEPT ![id].owner_address = sync[c].owner] ELSE nfts
    /\ Step(c, "lookup")
    /\ UNCHANGED <<generation, chain, hooks>>

\* findOneAndUpdate claims the row for the wallet that requested it, when it has
\* no owner yet.  Errors are ignored.
Claim(c) ==
    LET id == sync[c].nft IN
    /\ At(c, "claim")
    /\ \/ /\ nfts[id] # None
          /\ nfts[id].request_wallet = sync[c].owner
          /\ nfts[id].owner_address = None
          /\ nfts' = [nfts EXCEPT ![id].owner_address = sync[c].owner]
       \/ UNCHANGED nfts
    /\ Step(c, "lookup")
    /\ UNCHANGED <<generation, chain, hooks>>

\* getTxInfo: the transaction once it has landed or failed, nothing while it is not
\* there, when Helius is late, and on any error.
Lookup(c) ==
    /\ At(c, "lookup")
    /\ \/ StatusOf(sync[c].signature) \in Outcomes /\ Step(c, "record")
       \/ Step(c, "done")
    /\ UNCHANGED <<generation, nfts, chain, hooks>>

Record(c) ==
    /\ At(c, "record")
    /\ UpdateKyuPadNftByTx(sync[c].signature)
    /\ Step(c, "done")
    /\ UNCHANGED <<generation, chain, hooks>>

\* The write fails, or the process dies before it.
SyncFails(c) ==
    /\ At(c, "claim") \/ At(c, "lookup") \/ At(c, "record")
    /\ Step(c, "done")
    /\ UNCHANGED <<generation, nfts, chain, hooks>>

-----------------------------------------------------------------------------

Generate(r) ==
    \/ Create(r)
    \/ Upload(r)
    \/ Commit(r)
    \/ CommitUnknown(r)
    \/ Retry(r)
    \/ GenerateFails(r)

Synchronise(c) ==
    \/ \E id \in Ids, s \in Signatures, w \in Wallets : StartSync(c, id, s, w)
    \/ Claim(c)
    \/ Lookup(c)
    \/ Record(c)
    \/ SyncFails(c)

Next ==
    \/ \E r \in Requests : Generate(r)
    \/ \E s \in Signatures :
         \/ \E r \in Requests, w \in Wallets : Submit(s, r, w)
         \/ Land(s)
         \/ Webhook(s)
         \/ WebhookFails(s)
    \/ \E c \in Syncs : Synchronise(c)

Spec == Init /\ [][Next]_vars

\* Helius delivers the event of every landed transaction at least once.
FirstDelivery(s) == s \notin delivered /\ (Webhook(s) \/ WebhookFails(s))

Fairness == \A s \in Signatures : WF_vars(FirstDelivery(s))

-----------------------------------------------------------------------------
(* Properties.                                                               *)

TypeOK ==
    /\ pc \in [Requests -> GenerateSteps]
    /\ wallet \in [Requests -> Wallets]
    /\ attempt \in [Requests -> 0 .. MaxAttempts]
    /\ files \subseteq Ids
    /\ nfts \in [Ids -> Rows \cup {None}]
    /\ chain \in [Signatures -> Txs \cup {None}]
    /\ delivered \subseteq Signatures
    /\ dropped \subseteq delivered
    /\ sync \in [Syncs -> Calls \cup {None}]

\* Whatever is submitted on chain names a row that was committed for a request
\* and metadata that was stored: the upsert of updateKyuPadNftByTx never inserts
\* a row, which would have no season and no pool.
MintsHaveRows ==
    \A s \in Signatures :
        chain[s] # None =>
            /\ nfts[chain[s].nft] # None
            /\ nfts[chain[s].nft].request_wallet = wallet[chain[s].nft[1]]
            /\ chain[s].nft \in files

\* What may stand in a row: a transaction that minted, or one that failed, of which
\* Helius tells the events and which a client named, since the webhook skips it.
Recordable(s) ==
    \/ StatusOf(s) = "minted"
    \/ /\ StatusOf(s) = "failedWithEvents"
       /\ \E c \in Syncs : sync[c] # None /\ sync[c].signature = s

\* A recorded row tells what Helius tells of one transaction: its signature is of a
\* transaction with this very row's metadata, and its owner is that transaction's, in
\* whatever order claims, lookups and deliveries were applied and whichever rows and
\* signatures the clients named.  The transaction minted, or it failed and a client
\* named it: the lookup does not ask whether a transaction failed.
RecordsMatchChain ==
    \A id \in Ids : \A s \in Signatures :
        nfts[id] # None /\ nfts[id].signature = s =>
            /\ Recordable(s)
            /\ chain[s].nft = id
            /\ nfts[id].owner_address = chain[s].owner

\* An owner that no transaction backs yet is the wallet that requested the row.
ClaimsAreOfRequester ==
    \A id \in Ids :
        nfts[id] # None /\ nfts[id].signature = None =>
            nfts[id].owner_address \in {None, nfts[id].request_wallet}

IsRecorded(s) ==
    /\ chain[s] # None
    /\ nfts[chain[s].nft] # None
    /\ nfts[chain[s].nft].signature # None

\* Every mint that lands is recorded, unless the write of its delivery failed.
MintsAreRecorded ==
    \A s \in Signatures :
        StatusOf(s) = "minted" ~> s \in dropped \/ IsRecorded(s)

\* The answer of the webhook, status: 'SUCCESS': the delivery was applied.
SuccessMeansRecorded ==
    \A s \in delivered : IsRecorded(s)

=============================================================================
