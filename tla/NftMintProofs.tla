---------------------------- MODULE NftMintProofs ----------------------------
(***************************************************************************)
(* Theorems about NftMint and its refinement of MintLifecycle.             *)
(***************************************************************************)
EXTENDS NftMintRefinement, TLAPS

-----------------------------------------------------------------------------
(* Type correctness.  The _id of a row is well formed once the callback has  *)
(* run.                                                                      *)

Began ==
    \A r \in Requests :
        pc[r] \in {"uploading", "commit", "unknown", "issued"} => attempt[r] \in Attempts

TypeInv == TypeOK /\ Began

\* The types hold at the start.
LEMMA InitType == Init => TypeInv
  <1> SUFFICES ASSUME Init PROVE TypeInv
    OBVIOUS
  <1>1. attempt \in [Requests -> 0 .. MaxAttempts]
    BY ConstantsAssumption DEF Init
  <1> QED
    BY <1>1 DEF Init, TypeInv, TypeOK, Began, GenerateSteps

\* The row of an attempt that has begun has a well-formed _id.
LEMMA IdType ==
    ASSUME TypeInv, NEW r \in Requests,
           pc[r] \in {"uploading", "commit", "unknown", "issued"}
    PROVE  Id(r) \in Ids
  BY DEF TypeInv, Began, Ids, Id

\* A transaction that is there, and its status.
LEMMA TxType ==
    ASSUME TypeInv, NEW s \in Signatures
    PROVE  /\ chain[s] # None => chain[s] \in Txs /\ StatusOf(s) = chain[s].status
           /\ StatusOf(s) \in {"pending"} \cup Outcomes => chain[s] # None
           /\ TellsOfMint(s) \/ Recordable(s) => chain[s] # None
  BY DEF TypeInv, TypeOK, StatusOf, Txs, Outcomes, TellsOfMint, Recordable

\* What updateKyuPadNftByTx writes is a row.
LEMMA UpdateType ==
    ASSUME TypeInv, NEW s \in Signatures, UpdateKyuPadNftByTx(s)
    PROVE  nfts' \in [Ids -> Rows \cup {None}]
  <1>1. CASE TellsOfMint(s)
    <2>1. chain[s] \in Txs
      BY <1>1, TxType
    <2>2. chain[s].nft \in Ids /\ chain[s].owner \in Wallets
      BY <2>1 DEF Txs
    <2>3. nfts[chain[s].nft] # None => nfts[chain[s].nft].request_wallet \in Wallets \cup {None}
      BY <2>2 DEF TypeInv, TypeOK, Rows
    <2>4. nfts' = Recorded(s)
      BY <1>1 DEF UpdateKyuPadNftByTx
    <2> QED
      BY <2>2, <2>3, <2>4 DEF Recorded, TypeInv, TypeOK, Rows
  <1>2. CASE ~TellsOfMint(s)
    BY <1>2 DEF UpdateKyuPadNftByTx, TypeInv, TypeOK
  <1> QED
    BY <1>1, <1>2

\* Every step keeps the types.
LEMMA TypeStep == TypeInv /\ [Next]_vars => TypeInv'
  <1> SUFFICES ASSUME TypeInv, [Next]_vars PROVE TypeInv'
    OBVIOUS
  <1> USE DEF generation, hooks
  <1>t. TypeOK /\ Began
    BY DEF TypeInv
  <1> SUFFICES TypeOK' /\ Began'
    BY DEF TypeInv
  <1>1. CASE UNCHANGED vars
    BY <1>1, <1>t DEF vars, TypeOK, Began
  <1>2. ASSUME NEW r \in Requests, Generate(r) PROVE TypeOK' /\ Began'
    <2>r. Reserved(r) \in Rows
      BY <1>t DEF Reserved, Rows, TypeOK
    <2>1. CASE Create(r)
      <3>1. attempt[r] + 1 \in Attempts
        BY <2>1, <1>t, ConstantsAssumption DEF Create, TypeOK, Attempts
      <3>2. attempt' \in [Requests -> 0 .. MaxAttempts]
        BY <3>1, <2>1, <1>t DEF Create, TypeOK, Attempts
      <3>3. pc' \in [Requests -> GenerateSteps]
        BY <2>1, <1>t DEF Create, TypeOK, GenerateSteps
      <3>4. Began'
        BY <3>1, <2>1, <1>t DEF Create, TypeOK, Began
      <3> QED
        BY <2>1, <1>t, <3>2, <3>3, <3>4 DEF Create, TypeOK
    <2>2. CASE Upload(r)
      BY <2>2, <1>t, IdType DEF Upload, TypeOK, Began, GenerateSteps
    <2>3. CASE Commit(r)
      <3>1. nfts' \in [Ids -> Rows \cup {None}]
        BY <2>3, <1>t, <2>r DEF Commit, TypeOK
      <3> QED
        BY <2>3, <1>t, <3>1 DEF Commit, TypeOK, Began, GenerateSteps
    <2>4. CASE CommitUnknown(r)
      <3>1. nfts' \in [Ids -> Rows \cup {None}]
        BY <2>4, <1>t, <2>r DEF CommitUnknown, TypeOK
      <3> QED
        BY <2>4, <1>t, <3>1 DEF CommitUnknown, TypeOK, Began, GenerateSteps
    <2>5. CASE Retry(r)
      BY <2>5, <1>t DEF Retry, TypeOK, Began, GenerateSteps
    <2>6. CASE GenerateFails(r)
      <3>1. files' \subseteq Ids
        BY <2>6, <1>t, IdType DEF GenerateFails, TypeOK
      <3> QED
        BY <2>6, <1>t, <3>1 DEF GenerateFails, TypeOK, Began, GenerateSteps
    <2> QED
      BY <1>2, <2>1, <2>2, <2>3, <2>4, <2>5, <2>6 DEF Generate
  <1>3. ASSUME NEW s \in Signatures, NEW r \in Requests, NEW w \in Wallets, Submit(s, r, w)
        PROVE  TypeOK' /\ Began'
    <2>1. Id(r) \in Ids
      BY <1>3, IdType DEF Submit
    <2>2. chain' \in [Signatures -> Txs \cup {None}]
      BY <1>3, <1>t, <2>1 DEF Submit, TypeOK, Txs
    <2> QED
      BY <1>3, <1>t, <2>2 DEF Submit, TypeOK, Began
  <1>4. ASSUME NEW s \in Signatures, Land(s) PROVE TypeOK' /\ Began'
    <2>1. chain[s] \in Txs
      BY <1>4, TxType DEF Land
    <2>2. chain' \in [Signatures -> Txs \cup {None}]
      BY <1>4, <1>t, <2>1 DEF Land, TypeOK, Txs, Outcomes
    <2> QED
      BY <1>4, <1>t, <2>2 DEF Land, TypeOK, Began
  <1>5. ASSUME NEW s \in Signatures, Webhook(s) PROVE TypeOK' /\ Began'
    BY <1>5, <1>t, UpdateType DEF Webhook, TypeOK, Began
  <1>6. ASSUME NEW s \in Signatures, WebhookFails(s) PROVE TypeOK' /\ Began'
    BY <1>6, <1>t DEF WebhookFails, TypeOK, Began
  <1>7. ASSUME NEW c \in Syncs, Synchronise(c) PROVE TypeOK' /\ Began'
    <2>c. sync[c] # None => sync[c] \in Calls
      BY <1>t DEF TypeOK
    <2>s. ASSUME sync[c] # None, NEW step \in {"claim", "lookup", "record", "done"},
                 Step(c, step)
          PROVE  sync' \in [Syncs -> Calls \cup {None}]
      BY <2>s, <2>c, <1>t DEF Step, TypeOK, Calls
    <2>1. CASE \E id \in Ids, s \in Signatures, w \in Wallets : StartSync(c, id, s, w)
      <3>1. PICK id \in Ids, s \in Signatures, w \in Wallets : StartSync(c, id, s, w)
        BY <2>1
      <3>2. sync' \in [Syncs -> Calls \cup {None}]
        BY <3>1, <1>t DEF StartSync, TypeOK, Calls
      <3> QED
        BY <3>1, <3>2, <1>t DEF StartSync, TypeOK, Began
    <2>2. CASE Claim(c)
      <3>1. sync[c].owner \in Wallets /\ sync[c].nft \in Ids
        BY <2>2, <2>c DEF Claim, At, Calls
      <3>2. nfts' \in [Ids -> Rows \cup {None}]
        BY <2>2, <3>1, <1>t DEF Claim, TypeOK, Rows
      <3>3. sync' \in [Syncs -> Calls \cup {None}]
        BY <2>2, <2>s DEF Claim, At
      <3> QED
        BY <2>2, <3>2, <3>3, <1>t DEF Claim, TypeOK, Began
    <2>3. CASE Lookup(c)
      <3>1. sync' \in [Syncs -> Calls \cup {None}]
        BY <2>3, <2>s DEF Lookup, At
      <3> QED
        BY <2>3, <3>1, <1>t DEF Lookup, TypeOK, Began
    <2>4. CASE Record(c)
      <3>1. sync' \in [Syncs -> Calls \cup {None}]
        BY <2>4, <2>s DEF Record, At
      <3>2. sync[c].signature \in Signatures
        BY <2>4, <2>c DEF Record, At, Calls
      <3>3. nfts' \in [Ids -> Rows \cup {None}]
        BY <2>4, <3>2, UpdateType DEF Record
      <3> QED
        BY <2>4, <3>1, <3>3, <1>t DEF Record, TypeOK, Began
    <2>5. CASE SyncFails(c)
      <3>1. sync' \in [Syncs -> Calls \cup {None}]
        BY <2>5, <2>s DEF SyncFails, At
      <3> QED
        BY <2>5, <3>1, <1>t DEF SyncFails, TypeOK, Began
    <2> QED
      BY <1>7, <2>1, <2>2, <2>3, <2>4, <2>5 DEF Synchronise
  <1> QED
    BY <1>1, <1>2, <1>3, <1>4, <1>5, <1>6, <1>7 DEF Next

-----------------------------------------------------------------------------
(* Rows.  The row of an attempt is absent until its commit, so a commit       *)
(* never overwrites one; what is minted was issued, and what was issued was   *)
(* committed and has its metadata.                                            *)

Absent(r, a) == a > attempt[r] \/ (a = attempt[r] /\ pc[r] \in {"uploading", "commit"})

RowsInv ==
    /\ \A r \in Requests : \A a \in Attempts : Absent(r, a) => nfts[<<r, a>>] = None
    /\ \A id \in Ids : nfts[id] # None => nfts[id].request_wallet = wallet[id[1]]
    /\ \A r \in Requests :
         /\ pc[r] \in {"commit", "unknown", "issued"} => Id(r) \in files
         /\ pc[r] = "issued" => nfts[Id(r)] # None
    /\ \A s \in Signatures :
         chain[s] # None => nfts[chain[s].nft] # None /\ chain[s].nft \in files

\* A record is of a transaction that tells of the row; before that the owner is
\* the requester or nobody.
RecordsInv == RecordsMatchChain /\ ClaimsAreOfRequester

\* There are no rows and no transactions at the start.
LEMMA InitRows == Init => RowsInv /\ RecordsInv
  BY DEF Init, RowsInv, RecordsInv, RecordsMatchChain, ClaimsAreOfRequester, Ids

\* A row with an owner and a signature is not the absent value.
LEMMA NoneIsNoRow ==
    /\ \A row \in Rows : row # None
    /\ \A w \in Wallets : w # None
    /\ \A s \in Signatures : s # None
    /\ \A tx \in Txs : tx # None
    /\ \A call \in Calls : call # None
  BY ConstantsAssumption

\* What updateKyuPadNftByTx does to the rows: it records a transaction that
\* tells of a mint in its row, or nothing changes.
LEMMA UpdateEffect ==
    ASSUME TypeInv, RowsInv, NEW s \in Signatures, UpdateKyuPadNftByTx(s)
    PROVE  \/ nfts' = nfts
           \/ /\ TellsOfMint(s)
              /\ chain[s] \in Txs
              /\ chain[s].nft \in Ids
              /\ nfts[chain[s].nft] # None
              /\ nfts' = [nfts EXCEPT ![chain[s].nft] =
                            [request_wallet |-> wallet[chain[s].nft[1]],
                             owner_address |-> chain[s].owner,
                             signature |-> s]]
  <1>1. CASE TellsOfMint(s)
    <2>1. chain[s] # None /\ chain[s] \in Txs
      BY <1>1, TxType
    <2>2. chain[s].nft \in Ids
      BY <2>1 DEF Txs
    <2>3. nfts[chain[s].nft] # None /\
          nfts[chain[s].nft].request_wallet = wallet[chain[s].nft[1]]
      BY <2>1, <2>2 DEF RowsInv
    <2>4. nfts' = Recorded(s)
      BY <1>1 DEF UpdateKyuPadNftByTx
    <2> QED
      BY <1>1, <2>1, <2>2, <2>3, <2>4 DEF Recorded
  <1>2. CASE ~TellsOfMint(s)
    BY <1>2 DEF UpdateKyuPadNftByTx
  <1> QED
    BY <1>1, <1>2

\* Every step keeps what is known of the rows.
LEMMA RowsStep == TypeInv /\ RowsInv /\ [Next]_vars => RowsInv'
  <1> SUFFICES ASSUME TypeInv, RowsInv, [Next]_vars PROVE RowsInv'
    OBVIOUS
  <1> USE DEF generation, hooks
  <1>t. TypeOK /\ Began
    BY DEF TypeInv
  <1>a. \A r \in Requests, a \in Attempts : <<r, a>> \in Ids
    BY DEF Ids
  <1>1. CASE UNCHANGED vars
    BY <1>1 DEF vars, RowsInv, Absent, Id
  <1>2. ASSUME NEW r \in Requests, Generate(r) PROVE RowsInv'
    <2>n. attempt[r] \in 0 .. MaxAttempts
      BY <1>t DEF TypeOK
    <2>i. pc[r] \in {"uploading", "commit", "unknown", "issued"} =>
            Id(r) \in Ids /\ attempt[r] \in Attempts
      BY <1>t, IdType DEF Began
    <2>1. CASE Create(r)
      <3>1. \A q \in Requests : \A a \in Attempts : Absent(q, a)' => Absent(q, a)
        BY <2>1, <2>n, <1>t DEF Create, Absent, TypeOK, Attempts
      <3>2. \A q \in Requests :
              pc'[q] \in {"commit", "unknown", "issued"} => pc'[q] = pc[q] /\ Id(q)' = Id(q)
        BY <2>1, <1>t DEF Create, TypeOK, Id
      <3> QED
        BY <2>1, <3>1, <3>2 DEF Create, RowsInv
    <2>2. CASE Upload(r)
      <3>1. \A q \in Requests : \A a \in Attempts : Absent(q, a)' => Absent(q, a)
        BY <2>2, <1>t DEF Upload, Absent, TypeOK
      <3>2. \A q \in Requests : Id(q)' = Id(q)
        BY <2>2 DEF Upload, Id
      <3>3. \A q \in Requests :
              pc'[q] \in {"commit", "unknown", "issued"} =>
                 q = r \/ pc[q] \in {"commit", "unknown", "issued"}
        BY <2>2, <1>t DEF Upload, TypeOK
      <3>4. \A q \in Requests : pc'[q] = "issued" => pc[q] = "issued"
        BY <2>2, <1>t DEF Upload, TypeOK
      <3> QED
        BY <2>2, <3>1, <3>2, <3>3, <3>4 DEF Upload, RowsInv
    <2>3. CASE Commit(r) \/ CommitUnknown(r)
      <3>1. \/ nfts' = nfts
            \/ nfts[Id(r)] = None /\ nfts' = [nfts EXCEPT ![Id(r)] = Reserved(r)]
        <4>1. CASE Commit(r)
          BY <4>1 DEF Commit
        <4>2. CASE CommitUnknown(r)
          <5>1. nfts[Id(r)] = None
            BY <4>2, <2>i DEF CommitUnknown, RowsInv, Absent, Id
          <5> QED
            BY <4>2, <5>1 DEF CommitUnknown
        <4> QED
          BY <2>3, <4>1, <4>2
      <3>2. /\ pc[r] \in {"commit", "unknown"} /\ pc'[r] \in {"unknown", "issued"}
            /\ \A q \in Requests : q # r => pc'[q] = pc[q]
            /\ pc'[r] = "issued" => nfts'[Id(r)] # None
            /\ UNCHANGED <<wallet, attempt, files, chain>>
        <4>1. Reserved(r) \in Rows
          BY <1>t DEF Reserved, Rows, TypeOK
        <4> QED
          BY <2>3, <4>1, <2>i, <1>t, NoneIsNoRow DEF Commit, CommitUnknown, TypeOK
      <3>3. \A q \in Requests : Id(q)' = Id(q)
        BY <3>2 DEF Id
      <3>4. Id(r) \in Ids /\ Id(r)[1] = r /\ Reserved(r).request_wallet = wallet[r]
            /\ Reserved(r) # None
        <4>1. Reserved(r) \in Rows
          BY <1>t DEF Reserved, Rows, TypeOK
        <4> QED
          BY <4>1, <3>2, <2>i, NoneIsNoRow DEF Id, Reserved
      <3>5. \A q \in Requests : \A a \in Attempts :
              Absent(q, a)' => Absent(q, a) /\ <<q, a>> # Id(r)
        BY <3>2, <2>n DEF Absent, Id
      <3>6. \A id \in Ids : \/ nfts'[id] = nfts[id]
                            \/ id = Id(r) /\ nfts'[id] = Reserved(r)
        BY <3>1, <3>4, <1>t DEF TypeOK
      <3>7. \A id \in Ids : nfts[id] # None => nfts'[id] # None
        BY <3>4, <3>6
      <3>8. \A q \in Requests : \A a \in Attempts : Absent(q, a)' => nfts'[<<q, a>>] = None
        BY <3>5, <3>6, <1>a DEF RowsInv
      <3>9. \A id \in Ids : nfts'[id] # None => nfts'[id].request_wallet = wallet[id[1]]
        BY <3>4, <3>6 DEF RowsInv
      <3>10. \A q \in Requests : pc'[q] = "issued" => nfts'[Id(q)] # None
        <4> SUFFICES ASSUME NEW q \in Requests, pc'[q] = "issued" PROVE nfts'[Id(q)] # None
          OBVIOUS
        <4>1. CASE q = r
          BY <4>1, <3>2
        <4>2. CASE q # r
          BY <4>2, <3>2, <3>7, IdType DEF RowsInv
        <4> QED
          BY <4>1, <4>2
      <3>11. \A s \in Signatures : chain[s] # None => nfts'[chain[s].nft] # None
        BY <3>7, TxType DEF RowsInv, Txs
      <3>12. \A q \in Requests : pc'[q] \in {"commit", "unknown", "issued"} => Id(q) \in files
        BY <3>2 DEF RowsInv
      <3> QED
        BY <3>2, <3>3, <3>8, <3>9, <3>10, <3>11, <3>12 DEF RowsInv
    <2>4. CASE Retry(r) \/ GenerateFails(r)
      <3>1. /\ pc[r] # "issued" /\ pc'[r] \in {"creating", "failed"}
            /\ \A q \in Requests : q # r => pc'[q] = pc[q]
            /\ files \subseteq files'
            /\ UNCHANGED <<wallet, attempt, nfts, chain>>
        BY <2>4, <1>t DEF Retry, GenerateFails, TypeOK
      <3>2. \A q \in Requests : \A a \in Attempts : Absent(q, a)' => Absent(q, a)
        BY <3>1 DEF Absent
      <3>3. \A q \in Requests : Id(q)' = Id(q)
        BY <3>1 DEF Id
      <3> QED
        BY <3>1, <3>2, <3>3 DEF RowsInv
    <2> QED
      BY <1>2, <2>1, <2>2, <2>3, <2>4 DEF Generate
  <1>3. ASSUME NEW s \in Signatures, NEW r \in Requests, NEW w \in Wallets, Submit(s, r, w)
        PROVE  RowsInv'
    <2>1. \A t \in Signatures : chain'[t] # None =>
                                   \/ chain[t] # None /\ chain'[t] = chain[t]
                                   \/ chain'[t].nft = Id(r)
      BY <1>3, <1>t DEF Submit, TypeOK
    <2>2. nfts[Id(r)] # None /\ Id(r) \in files
      BY <1>3 DEF Submit, RowsInv
    <2>3. UNCHANGED <<pc, wallet, attempt, files, nfts>>
      BY <1>3 DEF Submit
    <2>4. \A q \in Requests : Id(q)' = Id(q)
      BY <2>3 DEF Id
    <2>5. \A q \in Requests : \A a \in Attempts : Absent(q, a)' <=> Absent(q, a)
      BY <2>3 DEF Absent
    <2> QED
      BY <2>1, <2>2, <2>3, <2>4, <2>5 DEF RowsInv
  <1>4. ASSUME NEW s \in Signatures, Land(s) PROVE RowsInv'
    <2>1. chain[s] \in Txs
      BY <1>4, TxType DEF Land
    <2>2. \A t \in Signatures : chain'[t] # None => chain[t] # None /\ chain'[t].nft = chain[t].nft
      BY <1>4, <2>1, <1>t, NoneIsNoRow DEF Land, TypeOK, Txs
    <2>3. UNCHANGED <<pc, wallet, attempt, files, nfts>>
      BY <1>4 DEF Land
    <2>4. \A q \in Requests : Id(q)' = Id(q)
      BY <2>3 DEF Id
    <2>5. \A q \in Requests : \A a \in Attempts : Absent(q, a)' <=> Absent(q, a)
      BY <2>3 DEF Absent
    <2> QED
      BY <2>2, <2>3, <2>4, <2>5 DEF RowsInv
  <1>5. ASSUME UNCHANGED <<pc, wallet, attempt, files, chain>>,
               \A id \in Ids :
                  /\ nfts'[id] = None <=> nfts[id] = None
                  /\ nfts[id] # None =>
                       \/ nfts'[id].request_wallet = nfts[id].request_wallet
                       \/ nfts'[id].request_wallet = wallet[id[1]]
        PROVE  RowsInv'
    <2>1. \A q \in Requests : Id(q)' = Id(q)
      BY <1>5 DEF Id
    <2>2. \A q \in Requests : \A a \in Attempts : Absent(q, a)' <=> Absent(q, a)
      BY <1>5 DEF Absent
    <2>3. \A q \in Requests : \A a \in Attempts : Absent(q, a)' => nfts'[<<q, a>>] = None
      BY <1>5, <1>a, <2>2 DEF RowsInv
    <2>4. \A q \in Requests : pc[q] = "issued" => nfts'[Id(q)] # None
      BY <1>5, IdType DEF RowsInv
    <2>5. \A s \in Signatures : chain[s] # None => nfts'[chain[s].nft] # None
      BY <1>5, TxType DEF RowsInv, Txs
    <2>6. \A id \in Ids : nfts'[id] # None => nfts'[id].request_wallet = wallet[id[1]]
      BY <1>5 DEF RowsInv
    <2> QED
      BY <1>5, <2>1, <2>3, <2>4, <2>5, <2>6 DEF RowsInv
  <1>u. ASSUME NEW s \in Signatures, UpdateKyuPadNftByTx(s),
               UNCHANGED <<pc, wallet, attempt, files, chain>>
        PROVE  RowsInv'
    <2>1. CASE nfts' = nfts
      BY <2>1, <1>5, <1>u
    <2>2. CASE nfts' # nfts
      <3> DEFINE id == chain[s].nft
                 row == [request_wallet |-> wallet[id[1]],
                         owner_address |-> chain[s].owner, signature |-> s]
      <3>1. /\ chain[s] \in Txs /\ id \in Ids /\ nfts[id] # None
            /\ nfts' = [nfts EXCEPT ![id] = row]
        BY <2>2, <1>u, UpdateEffect
      <3>2. row \in Rows
        BY <3>1, <1>t DEF Rows, Txs, Ids, TypeOK
      <3>3. row # None /\ row.request_wallet = wallet[id[1]]
        BY <3>2, NoneIsNoRow
      <3> HIDE DEF row
      <3>4. \A other \in Ids : nfts'[other] = IF other = id THEN row ELSE nfts[other]
        BY <3>1, <1>t DEF TypeOK
      <3> QED
        BY <3>1, <3>3, <3>4, <1>5, <1>u
    <2> QED
      BY <2>1, <2>2
  <1>6. ASSUME NEW s \in Signatures, Webhook(s) PROVE RowsInv'
    BY <1>6, <1>u DEF Webhook
  <1>7. ASSUME NEW s \in Signatures, WebhookFails(s) PROVE RowsInv'
    BY <1>7, <1>5 DEF WebhookFails
  <1>8. ASSUME NEW c \in Syncs, Synchronise(c) PROVE RowsInv'
    <2>1. CASE Claim(c)
      <3>1. \A id \in Ids :
               /\ nfts'[id] = None <=> nfts[id] = None
               /\ nfts[id] # None => nfts'[id].request_wallet = nfts[id].request_wallet
        <4> SUFFICES ASSUME NEW id \in Ids
                     PROVE  /\ nfts'[id] = None <=> nfts[id] = None
                            /\ nfts[id] # None =>
                                 nfts'[id].request_wallet = nfts[id].request_wallet
          OBVIOUS
        <4>1. CASE nfts'[id] = nfts[id]
          BY <4>1
        <4>2. CASE nfts'[id] # nfts[id]
          <5>1. /\ nfts[id] # None
                /\ nfts'[id] = [nfts[id] EXCEPT !.owner_address = sync[c].owner]
            BY <2>1, <4>2, <1>t DEF Claim, TypeOK
          <5>2. nfts[id] \in Rows /\ sync[c].owner \in Wallets
            BY <2>1, <5>1, <1>t DEF Claim, At, TypeOK, Calls
          <5>3. nfts'[id] \in Rows /\ nfts'[id].request_wallet = nfts[id].request_wallet
            BY <5>1, <5>2 DEF Rows
          <5> QED
            BY <5>1, <5>3, NoneIsNoRow
        <4> QED
          BY <4>1, <4>2
      <3> QED
        BY <2>1, <3>1, <1>5 DEF Claim
    <2>2. CASE Record(c)
      <3>1. sync[c].signature \in Signatures
        BY <2>2, <1>t DEF Record, At, TypeOK, Calls
      <3> QED
        BY <2>2, <3>1, <1>u DEF Record
    <2>3. CASE \/ \E id \in Ids, s \in Signatures, w \in Wallets : StartSync(c, id, s, w)
               \/ Lookup(c) \/ SyncFails(c)
      BY <2>3, <1>5 DEF StartSync, Lookup, SyncFails
    <2> QED
      BY <1>8, <2>1, <2>2, <2>3 DEF Synchronise
  <1> QED
    BY <1>1, <1>2, <1>3, <1>4, <1>6, <1>7, <1>8 DEF Next

\* What a step does to the rows and the transactions, whatever the action: rows
\* are inserted reserved, claimed by their requester while they have no owner,
\* or recorded by a transaction that tells of them; a transaction that has landed or
\* failed stays so.
RowChange ==
    \/ UNCHANGED nfts
    \/ \E r \in Requests :
         /\ Id(r) \in Ids
         /\ nfts[Id(r)] = None
         /\ nfts' = [nfts EXCEPT ![Id(r)] = Reserved(r)]
    \/ \E id \in Ids :
         /\ nfts[id] # None
         /\ nfts[id].owner_address = None
         /\ nfts' = [nfts EXCEPT ![id].owner_address = nfts[id].request_wallet]
         /\ nfts[id].request_wallet \in Wallets
    \/ \E s \in Signatures :
         /\ TellsOfMint(s)
         /\ Recordable(s)
         /\ chain[s] \in Txs
         /\ nfts[chain[s].nft] # None
         /\ nfts' = [nfts EXCEPT ![chain[s].nft] =
                       [request_wallet |-> wallet[chain[s].nft[1]],
                        owner_address |-> chain[s].owner,
                        signature |-> s]]

ChainChange ==
    \/ UNCHANGED chain
    \/ /\ UNCHANGED nfts
       /\ \E s \in Signatures :
            /\ StatusOf(s) \in {"none", "pending"}
            /\ \/ /\ chain[s] = None
                  /\ StatusOf(s)' = "pending"
               \/ /\ chain[s] # None
                  /\ chain[s].nft \in Ids
                  /\ nfts[chain[s].nft] # None
                  /\ StatusOf(s)' \in Outcomes
                  /\ chain'[s].nft = chain[s].nft
            /\ \A t \in Signatures : t # s => chain'[t] = chain[t]

Change == RowChange /\ ChainChange /\ (UNCHANGED nfts \/ UNCHANGED chain)

\* Every step changes rows and transactions in these ways only.
LEMMA ChangeStep == TypeInv /\ RowsInv /\ [Next]_vars => Change
  <1> SUFFICES ASSUME TypeInv, RowsInv, [Next]_vars PROVE Change
    OBVIOUS
  <1> USE DEF generation, hooks
  <1>t. TypeOK /\ Began
    BY DEF TypeInv
  <1>1. CASE UNCHANGED <<nfts, chain>>
    BY <1>1 DEF Change, RowChange, ChainChange
  <1>2. ASSUME NEW r \in Requests, Commit(r) \/ CommitUnknown(r) PROVE Change
    <2>1. Id(r) \in Ids
      BY <1>2, IdType DEF Commit, CommitUnknown
    <2>2. CommitUnknown(r) => nfts[Id(r)] = None
      BY <1>t DEF CommitUnknown, RowsInv, Absent, Id, Began
    <2>3. \/ UNCHANGED nfts
          \/ nfts[Id(r)] = None /\ nfts' = [nfts EXCEPT ![Id(r)] = Reserved(r)]
      <3>1. CASE Commit(r)
        BY <3>1 DEF Commit
      <3>2. CASE CommitUnknown(r)
        BY <3>2, <2>2 DEF CommitUnknown
      <3> QED
        BY <1>2, <3>1, <3>2
    <2>4. UNCHANGED chain
      BY <1>2 DEF Commit, CommitUnknown
    <2> QED
      BY <2>1, <2>3, <2>4 DEF Change, RowChange, ChainChange
  <1>3. ASSUME NEW s \in Signatures, NEW r \in Requests, NEW w \in Wallets, Submit(s, r, w)
        PROVE  Change
    <2> DEFINE tx == [status |-> "pending", nft |-> Id(r), owner |-> w]
    <2>1. tx \in Txs
      BY <1>3, IdType DEF Submit, Txs
    <2>2. chain' = [chain EXCEPT ![s] = tx] /\ chain[s] = None /\ UNCHANGED nfts
      BY <1>3 DEF Submit
    <2>3. StatusOf(s) = "none" /\ StatusOf(s)' = "pending"
      BY <2>1, <2>2, <1>t, NoneIsNoRow DEF StatusOf, TypeOK
    <2>4. \A t \in Signatures : t # s => chain'[t] = chain[t]
      BY <2>2, <1>t DEF TypeOK
    <2> QED
      BY <2>2, <2>3, <2>4 DEF Change, RowChange, ChainChange
  <1>4. ASSUME NEW s \in Signatures, Land(s) PROVE Change
    <2>1. chain[s] \in Txs /\ chain[s] # None
      BY <1>4, TxType DEF Land
    <2>2. PICK status \in Outcomes : chain' = [chain EXCEPT ![s].status = status]
      BY <1>4 DEF Land
    <2>3. chain'[s] = [chain[s] EXCEPT !.status = status]
      BY <2>2, <1>t DEF TypeOK
    <2>4. chain'[s] \in Txs /\ chain'[s].status = status /\ chain'[s].nft = chain[s].nft
      BY <2>1, <2>3 DEF Txs, Outcomes
    <2>5. StatusOf(s)' = status
      BY <2>4, NoneIsNoRow DEF StatusOf
    <2>6. \A t \in Signatures : t # s => chain'[t] = chain[t]
      BY <2>2, <1>t DEF TypeOK
    <2>7. nfts[chain[s].nft] # None /\ chain[s].nft \in Ids
      BY <2>1 DEF RowsInv, Txs
    <2> QED
      BY <1>4, <2>1, <2>4, <2>5, <2>6, <2>7 DEF Land, Change, RowChange, ChainChange
  <1>5. ASSUME NEW s \in Signatures, UpdateKyuPadNftByTx(s), UNCHANGED chain,
               TellsOfMint(s) => Recordable(s)
        PROVE  Change
    <2>1. RowChange
      BY <1>5, UpdateEffect DEF RowChange
    <2> QED
      BY <1>5, <2>1 DEF Change, ChainChange
  <1>6. ASSUME NEW c \in Syncs, Claim(c) PROVE Change
    <2>1. sync[c] \in Calls
      BY <1>6, <1>t DEF Claim, At, TypeOK
    <2>2. RowChange
      BY <1>6, <2>1 DEF Claim, RowChange, Calls
    <2> QED
      BY <1>6, <2>2 DEF Claim, Change, ChainChange
  <1>7. ASSUME NEW c \in Syncs, Record(c) PROVE Change
    <2>1. sync[c] # None /\ sync[c].signature \in Signatures
      BY <1>7, <1>t DEF Record, At, TypeOK, Calls
    <2>2. TellsOfMint(sync[c].signature) => Recordable(sync[c].signature)
      BY <2>1 DEF TellsOfMint, Recordable
    <2> QED
      BY <1>7, <1>5, <2>1, <2>2 DEF Record
  <1>8. ASSUME NEW r \in Requests,
               Create(r) \/ Upload(r) \/ Retry(r) \/ GenerateFails(r)
        PROVE  Change
    BY <1>8, <1>1 DEF Create, Upload, Retry, GenerateFails
  <1>9. ASSUME NEW s \in Signatures, Webhook(s) \/ WebhookFails(s) PROVE Change
    BY <1>9, <1>1, <1>5 DEF Webhook, WebhookFails, Recordable
  <1>10. ASSUME NEW c \in Syncs,
                \/ \E id \in Ids, s \in Signatures, w \in Wallets : StartSync(c, id, s, w)
                \/ Lookup(c) \/ SyncFails(c)
         PROVE  Change
    BY <1>10, <1>1 DEF StartSync, Lookup, SyncFails
  <1>11. CASE UNCHANGED vars
    BY <1>11, <1>1 DEF vars
  <1> QED
    BY <1>2, <1>3, <1>4, <1>6, <1>7, <1>8, <1>9, <1>10, <1>11
       DEF Next, Generate, Synchronise

\* A transaction that has landed or failed stays so, with its row and owner.
LEMMA OutcomeStays ==
    ASSUME TypeInv, Change, NEW s \in Signatures, StatusOf(s) \in Outcomes
    PROVE  chain'[s] = chain[s] /\ StatusOf(s)' = StatusOf(s)
  BY DEF Change, ChainChange, StatusOf, Outcomes

\* A call of the client keeps the signature it names.
LEMMA CallsKept ==
    ASSUME TypeInv, [Next]_vars, NEW c \in Syncs, sync[c] # None
    PROVE  sync'[c] # None /\ sync'[c].signature = sync[c].signature
  <1>t. sync \in [Syncs -> Calls \cup {None}]
    BY DEF TypeInv, TypeOK
  <1>1. CASE sync' = sync
    BY <1>1
  <1>2. ASSUME NEW d \in Syncs, sync[d] # None, NEW step \in {"lookup", "record", "done"},
               Step(d, step)
        PROVE  sync'[c] # None /\ sync'[c].signature = sync[c].signature
    <2>1. sync[c] \in Calls /\ sync[d] \in Calls
      BY <1>t, <1>2
    <2>2. [sync[d] EXCEPT !.step = step] \in Calls
      BY <1>2, <2>1 DEF Calls
    <2>3. sync'[c] = IF c = d THEN [sync[d] EXCEPT !.step = step] ELSE sync[c]
      BY <1>t, <1>2 DEF Step
    <2> QED
      BY <2>1, <2>2, <2>3, NoneIsNoRow DEF Calls
  <1>3. ASSUME NEW d \in Syncs, Synchronise(d)
        PROVE  sync'[c] # None /\ sync'[c].signature = sync[c].signature
    <2>1. CASE \E id \in Ids, s \in Signatures, w \in Wallets : StartSync(d, id, s, w)
      BY <1>t, <2>1 DEF StartSync
    <2>2. CASE Claim(d) \/ Lookup(d) \/ Record(d) \/ SyncFails(d)
      <3>1. sync[d] # None
        BY <2>2 DEF Claim, Lookup, Record, SyncFails, At
      <3>2. \E step \in {"lookup", "record", "done"} : Step(d, step)
        BY <2>2 DEF Claim, Lookup, Record, SyncFails
      <3> QED
        BY <1>2, <3>1, <3>2
    <2> QED
      BY <1>3, <2>1, <2>2 DEF Synchronise
  <1>4. \/ sync' = sync
        \/ \E d \in Syncs : Synchronise(d)
    BY DEF Next, Generate, Create, Upload, Commit, CommitUnknown, Retry, GenerateFails,
           Submit, Land, Webhook, WebhookFails, vars
  <1> QED
    BY <1>1, <1>3, <1>4

\* What may stand in a row may stand there for good.
LEMMA RecordableStays ==
    ASSUME TypeInv, Change, [Next]_vars, NEW s \in Signatures, Recordable(s)
    PROVE  chain'[s] = chain[s] /\ Recordable(s)'
  <1>1. StatusOf(s) \in Outcomes
    BY DEF Recordable, Outcomes
  <1>2. chain'[s] = chain[s] /\ StatusOf(s)' = StatusOf(s)
    BY <1>1, OutcomeStays
  <1>3. \A c \in Syncs : sync[c] # None =>
                             sync'[c] # None /\ sync'[c].signature = sync[c].signature
    BY CallsKept
  <1> QED
    BY <1>2, <1>3 DEF Recordable

-----------------------------------------------------------------------------
(* Records.                                                                  *)

\* Every step keeps the records those of the chain, and the claims those of the
\* requesters.
LEMMA RecordsStep ==
    TypeInv /\ RowsInv /\ RecordsInv /\ [Next]_vars => RecordsInv'
  <1> SUFFICES ASSUME TypeInv, RowsInv, RecordsInv, [Next]_vars PROVE RecordsInv'
    OBVIOUS
  <1>t. TypeOK
    BY DEF TypeInv
  <1>c. Change
    BY ChangeStep
  <1>w. \A id \in Ids : wallet[id[1]] \in Wallets
    BY <1>t DEF TypeOK, Ids
  <1> DEFINE Good(row, id) ==
               /\ \A s \in Signatures :
                    row.signature = s =>
                      Recordable(s) /\ chain[s].nft = id
                        /\ row.owner_address = chain[s].owner
               /\ row.signature = None => row.owner_address \in {None, row.request_wallet}
  <1>g. \A id \in Ids : nfts[id] # None => Good(nfts[id], id)
    BY DEF RecordsInv, RecordsMatchChain, ClaimsAreOfRequester
  <1> SUFFICES ASSUME NEW id \in Ids, nfts'[id] # None PROVE Good(nfts'[id], id)
    <2>1. \A s \in Signatures : Recordable(s) => Recordable(s)' /\ chain'[s] = chain[s]
      BY <1>c, RecordableStays
    <2> QED
      BY <2>1 DEF RecordsInv, RecordsMatchChain, ClaimsAreOfRequester
  <1>1. CASE nfts'[id] = nfts[id]
    BY <1>1, <1>g
  <1>2. CASE nfts'[id] # nfts[id]
    <2>1. CASE \E r \in Requests :
                 /\ Id(r) \in Ids
                 /\ nfts[Id(r)] = None
                 /\ nfts' = [nfts EXCEPT ![Id(r)] = Reserved(r)]
      <3>1. PICK r \in Requests : nfts'[id] = Reserved(r)
        BY <1>2, <2>1, <1>t DEF TypeOK
      <3> QED
        BY <3>1, NoneIsNoRow DEF Reserved
    <2>2. CASE \E i \in Ids :
                 /\ nfts[i] # None
                 /\ nfts[i].owner_address = None
                 /\ nfts' = [nfts EXCEPT ![i].owner_address = nfts[i].request_wallet]
                 /\ nfts[i].request_wallet \in Wallets
      <3>1. /\ nfts[id] # None /\ nfts[id].owner_address = None
            /\ nfts'[id] = [nfts[id] EXCEPT !.owner_address = nfts[id].request_wallet]
        BY <1>2, <2>2, <1>t DEF TypeOK
      <3>2. nfts[id] \in Rows
        BY <3>1, <1>t DEF TypeOK
      <3>3. nfts[id].signature = None
        <4>1. \A s \in Signatures : Recordable(s) => chain[s].owner \in Wallets
          BY TxType DEF Txs
        <4> QED
          BY <1>g, <3>1, <3>2, <4>1, NoneIsNoRow DEF Rows
      <3>4. /\ nfts'[id].signature = None
            /\ nfts'[id].owner_address = nfts'[id].request_wallet
        BY <3>1, <3>2, <3>3 DEF Rows
      <3> QED
        BY <3>4, NoneIsNoRow
    <2>3. CASE \E s \in Signatures :
                 /\ TellsOfMint(s)
                 /\ Recordable(s)
                 /\ chain[s] \in Txs
                 /\ nfts[chain[s].nft] # None
                 /\ nfts' = [nfts EXCEPT ![chain[s].nft] =
                               [request_wallet |-> wallet[chain[s].nft[1]],
                                owner_address |-> chain[s].owner,
                                signature |-> s]]
      <3>1. PICK s \in Signatures :
              /\ Recordable(s)
              /\ chain[s].nft = id
              /\ nfts'[id] = [request_wallet |-> wallet[id[1]],
                              owner_address |-> chain[s].owner, signature |-> s]
        BY <1>2, <2>3, <1>t DEF TypeOK
      <3> QED
        BY <3>1, NoneIsNoRow
    <2> QED
      BY <1>2, <1>c, <2>1, <2>2, <2>3 DEF Change, RowChange
  <1> QED
    BY <1>1, <1>2

-----------------------------------------------------------------------------
(* The invariants.                                                           *)

IInv == TypeInv /\ RowsInv /\ RecordsInv

\* The inductive invariant holds of every reachable state.
THEOREM Inductive == Spec => []IInv
  <1>1. Init => IInv
    BY InitType, InitRows DEF IInv
  <1>2. IInv /\ [Next]_vars => IInv'
    BY TypeStep, RowsStep, RecordsStep DEF IInv
  <1> QED
    BY <1>1, <1>2, PTL DEF Spec

\* The rows, the transactions and the calls keep their types.
THEOREM TypeCorrect == Spec => []TypeOK
  <1>1. IInv => TypeOK
    BY DEF IInv, TypeInv
  <1> QED
    BY <1>1, Inductive, PTL

\* No url is given away before its row is committed and its metadata stored, so
\* the upsert of updateKyuPadNftByTx never inserts.
THEOREM MintsAlwaysHaveRows == Spec => []MintsHaveRows
  <1>1. IInv => MintsHaveRows
    <2> SUFFICES ASSUME IInv, NEW s \in Signatures, chain[s] # None
                 PROVE  /\ nfts[chain[s].nft] # None
                        /\ nfts[chain[s].nft].request_wallet = wallet[chain[s].nft[1]]
                        /\ chain[s].nft \in files
      BY DEF MintsHaveRows
    <2>1. chain[s].nft \in Ids
      BY TxType DEF IInv, Txs
    <2> QED
      BY <2>1 DEF IInv, RowsInv
  <1> QED
    BY <1>1, Inductive, PTL

\* The webhook, the client's calls and their lookups leave in a row only what one
\* transaction that names it says, be it one that failed when a client named it.
THEOREM RecordsAlwaysMatch == Spec => []RecordsMatchChain
  <1>1. IInv => RecordsMatchChain
    BY DEF IInv, RecordsInv
  <1> QED
    BY <1>1, Inductive, PTL

\* The claim of synNftBySignature is only ever the requester's.
THEOREM ClaimsAlwaysOfRequester == Spec => []ClaimsAreOfRequester
  <1>1. IInv => ClaimsAreOfRequester
    BY DEF IInv, RecordsInv
  <1> QED
    BY <1>1, Inductive, PTL

-----------------------------------------------------------------------------
(* The deliveries.                                                           *)

\* A delivery is of a mint, which it has recorded unless its write failed.
Applied ==
    \A s \in delivered : StatusOf(s) = "minted" /\ (s \notin dropped => IsRecorded(s))

\* A row that has a signature keeps one.
LEMMA SignedStays ==
    ASSUME TypeInv, Change, NEW id \in Ids, nfts[id] # None, nfts[id].signature # None
    PROVE  nfts'[id] # None /\ nfts'[id].signature # None
  <1>t. /\ nfts \in [Ids -> Rows \cup {None}]
        /\ wallet \in [Requests -> Wallets]
    BY DEF TypeInv, TypeOK
  <1>1. CASE UNCHANGED nfts
    BY <1>1
  <1>2. ASSUME NEW r \in Requests, Id(r) \in Ids, nfts[Id(r)] = None,
               nfts' = [nfts EXCEPT ![Id(r)] = Reserved(r)]
        PROVE  nfts'[id] = nfts[id]
    BY <1>2, <1>t
  <1>3. ASSUME NEW other \in Ids, nfts[other] # None, nfts[other].request_wallet \in Wallets,
               nfts' = [nfts EXCEPT ![other].owner_address = nfts[other].request_wallet]
        PROVE  nfts'[id] # None /\ nfts'[id].signature = nfts[id].signature
    <2>1. nfts[other] \in Rows
      BY <1>3, <1>t
    <2>2. nfts'[other] \in Rows /\ nfts'[other].signature = nfts[other].signature
      BY <1>3, <1>t, <2>1 DEF Rows
    <2> QED
      BY <1>3, <1>t, <2>2, NoneIsNoRow
  <1>4. ASSUME NEW s \in Signatures, chain[s] \in Txs,
               nfts' = [nfts EXCEPT ![chain[s].nft] =
                          [request_wallet |-> wallet[chain[s].nft[1]],
                           owner_address |-> chain[s].owner,
                           signature |-> s]]
        PROVE  nfts'[id] # None /\ nfts'[id].signature # None
    <2> DEFINE row == [request_wallet |-> wallet[chain[s].nft[1]],
                       owner_address |-> chain[s].owner,
                       signature |-> s]
    <2>1. row \in Rows /\ row.signature = s
      BY <1>4, <1>t DEF Rows, Txs, Ids
    <2>2. nfts'[id] \in {nfts[id], row}
      BY <1>4, <1>t
    <2> HIDE DEF row
    <2> QED
      BY <2>1, <2>2, NoneIsNoRow
  <1> QED
    BY <1>1, <1>2, <1>3, <1>4 DEF Change, RowChange

\* A step of the webhook delivers one transaction; no other step touches the deliveries.
LEMMA AppliedStep == IInv /\ Applied /\ [Next]_vars => Applied'
  <1> SUFFICES ASSUME IInv, Applied, [Next]_vars, NEW s \in delivered'
               PROVE  /\ StatusOf(s)' = "minted"
                      /\ s \notin dropped' => IsRecorded(s)'
    BY DEF Applied
  <1>1. TypeInv /\ RowsInv /\ Change
    BY ChangeStep DEF IInv
  <1>2. delivered \subseteq Signatures
    BY <1>1 DEF TypeInv, TypeOK
  <1>3. CASE s \in delivered
    <2>1. dropped \subseteq dropped'
      BY DEF Next, Generate, Create, Upload, Commit, CommitUnknown, Retry, GenerateFails,
             Submit, Land, Webhook, WebhookFails, Synchronise, StartSync, Claim, Lookup,
             Record, SyncFails, hooks, vars
    <2>2. chain'[s] = chain[s] /\ StatusOf(s)' = "minted"
      BY <1>1, <1>2, <1>3, OutcomeStays DEF Applied, Outcomes
    <2>3. ASSUME IsRecorded(s) PROVE IsRecorded(s)'
      <3>1. chain[s] \in Txs
        BY <1>1, <1>2, <1>3, <2>3, TxType DEF IsRecorded
      <3>2. chain[s].nft \in Ids
        BY <3>1 DEF Txs
      <3> QED
        BY <1>1, <2>2, <2>3, <3>2, SignedStays DEF IsRecorded
    <2> QED
      BY <1>3, <2>1, <2>2, <2>3 DEF Applied
  <1>4. CASE s \notin delivered
    <2>1. PICK t \in Signatures : Webhook(t) \/ WebhookFails(t)
      BY <1>4 DEF Next, Generate, Create, Upload, Commit, CommitUnknown, Retry, GenerateFails,
                  Submit, Land, Synchronise, StartSync, Claim, Lookup, Record, SyncFails,
                  hooks, vars
    <2>2. t = s /\ StatusOf(s) = "minted" /\ chain' = chain
      BY <1>4, <2>1 DEF Webhook, WebhookFails
    <2>3. chain[s] # None /\ chain[s] \in Txs
      BY <1>1, <2>2, TxType DEF Outcomes
    <2>4. chain[s].nft \in Ids
      BY <2>3 DEF Txs
    <2>5. StatusOf(s)' = "minted"
      BY <2>2 DEF StatusOf
    <2>6. CASE WebhookFails(t)
      BY <2>2, <2>5, <2>6 DEF WebhookFails
    <2>7. CASE Webhook(t)
      <3>1. nfts' = Recorded(s)
        BY <2>2, <2>7 DEF Webhook, UpdateKyuPadNftByTx, TellsOfMint
      <3>2. nfts'[chain[s].nft].signature = s
        BY <1>1, <2>4, <3>1 DEF Recorded, TypeInv, TypeOK
      <3>3. nfts'[chain[s].nft] # None
        <4>1. s \in Signatures
          BY <2>1, <2>2
        <4>2. nfts'[chain[s].nft] =
                 [request_wallet |-> IF nfts[chain[s].nft] = None THEN None
                                     ELSE nfts[chain[s].nft].request_wallet,
                  owner_address |-> chain[s].owner, signature |-> s]
          BY <1>1, <2>4, <3>1 DEF Recorded, TypeInv, TypeOK
        <4>3. nfts[chain[s].nft] # None
          BY <1>1, <2>3, <2>4, <4>1 DEF RowsInv
        <4>4. nfts'[chain[s].nft] \in Rows
          <5>1. nfts[chain[s].nft].request_wallet \in Wallets \cup {None}
            BY <1>1, <2>4, <4>3 DEF Rows, TypeInv, TypeOK
          <5>2. chain[s].owner \in Wallets
            BY <2>3 DEF Txs
          <5> QED
            BY <4>1, <4>2, <4>3, <5>1, <5>2 DEF Rows
        <4> QED
          BY <4>4, NoneIsNoRow
      <3> QED
        BY <2>2, <2>3, <2>5, <3>2, <3>3, NoneIsNoRow DEF IsRecorded
    <2> QED
      BY <2>1, <2>6, <2>7
  <1> QED
    BY <1>3, <1>4

\* The safety half of MintsAreRecorded: a mint whose delivery was answered is recorded,
\* for good, unless the write of one of its deliveries failed.  That it is delivered at
\* all is Helius' fairness.
THEOREM DeliveredAreRecorded == Spec => [](\A s \in delivered \ dropped : IsRecorded(s))
  <1>1. Init => Applied
    BY DEF Init, Applied
  <1>2. Applied => \A s \in delivered \ dropped : IsRecorded(s)
    BY DEF Applied
  <1> QED
    BY <1>1, <1>2, Inductive, AppliedStep, PTL DEF Spec

-----------------------------------------------------------------------------
(* The refinement.                                                           *)

\* Nothing is reserved and nothing is told of a mint at the start.
LEMMA InitRefines == Init => Lifecycle!Init
  <1> SUFFICES ASSUME Init PROVE Lifecycle!Init
    OBVIOUS
  <1>1. \A id \in Ids : stageOf(id) = "absent"
    BY DEF Init, stageOf
  <1>2. \A s \in Signatures : ~TellsOfMint(s)
    BY DEF Init, StatusOf, TellsOfMint
  <1> QED
    BY <1>1, <1>2 DEF Lifecycle!Init, stages, news

\* A row that moves from one stage to another moves the abstract reservation.
LEMMA StageChange ==
    ASSUME NEW id \in Ids, NEW st,
           \A other \in Ids : other # id => stageOf(other)' = stageOf(other),
           stageOf(id)' = st
    PROVE  stages' = [stages EXCEPT ![id] = st]
  BY DEF stages

\* Whatever a step does to the rows is a step of the reservations.
LEMMA RowRefines ==
    ASSUME IInv, RowChange, UNCHANGED chain
    PROVE  Lifecycle!Next \/ UNCHANGED Lifecycle!vars
  <1>t. TypeOK
    BY DEF IInv, TypeInv
  <1>m. news' = news
    BY DEF news, TellsOfMint, StatusOf
  <1>s. \A id \in Ids : stages[id] = stageOf(id)
    BY DEF stages
  <1>1. CASE UNCHANGED nfts
    <2>1. stages' = stages
      BY <1>1 DEF stages, stageOf
    <2> QED
      BY <2>1, <1>m DEF Lifecycle!vars
  <1>2. ASSUME NEW r \in Requests, Id(r) \in Ids, nfts[Id(r)] = None,
               nfts' = [nfts EXCEPT ![Id(r)] = Reserved(r)]
        PROVE  Lifecycle!Next
    <2>1. PICK id \in Ids : id = Id(r)
      BY <1>2
    <2>2. nfts' = [nfts EXCEPT ![id] = Reserved(r)] /\ nfts[id] = None
      BY <1>2, <2>1
    <2>3. nfts'[id] # None /\ nfts'[id].signature = None /\ nfts'[id].owner_address = None
      <3>1. Reserved(r) # None
        BY <1>t, NoneIsNoRow DEF Reserved, Rows, TypeOK
      <3>2. nfts'[id] = Reserved(r)
        BY <2>1, <2>2, <1>t DEF TypeOK
      <3> QED
        BY <3>1, <3>2 DEF Reserved
    <2>4. stageOf(id) = "absent"
      BY <2>2 DEF stageOf
    <2>5. stageOf(id)' = "reserved"
      BY <2>3 DEF stageOf
    <2>6. \A other \in Ids : other # id => stageOf(other)' = stageOf(other)
      BY <2>2, <1>t DEF stageOf, TypeOK
    <2>7. stages' = [stages EXCEPT ![id] = "reserved"]
      BY <2>5, <2>6, StageChange
    <2>8. Lifecycle!Reserve(id)
      BY <1>m, <1>s, <2>4, <2>7 DEF Lifecycle!Reserve
    <2> QED
      BY <2>8 DEF Lifecycle!Next
  <1>3. ASSUME NEW id \in Ids, nfts[id] # None, nfts[id].owner_address = None,
               nfts' = [nfts EXCEPT ![id].owner_address = nfts[id].request_wallet],
               nfts[id].request_wallet \in Wallets
        PROVE  Lifecycle!Next
    <2>1. nfts[id] \in Rows
      BY <1>3, <1>t DEF TypeOK
    <2>2. nfts[id].signature = None
      <3>1. \A s \in Signatures : Recordable(s) => chain[s].owner \in Wallets
        BY TxType DEF IInv, Txs
      <3> QED
        BY <1>3, <2>1, <3>1, NoneIsNoRow DEF IInv, RecordsInv, RecordsMatchChain, Rows
    <2>3. stageOf(id) = "reserved"
      BY <1>3, <2>2 DEF stageOf
    <2>4. nfts'[id] = [nfts[id] EXCEPT !.owner_address = nfts[id].request_wallet]
      BY <1>3, <1>t DEF TypeOK
    <2>5. /\ nfts'[id] \in Rows
          /\ nfts'[id].signature = None
          /\ nfts'[id].owner_address = nfts[id].request_wallet
      BY <1>3, <2>1, <2>2, <2>4 DEF Rows
    <2>6. nfts'[id] # None /\ nfts'[id].owner_address # None
      BY <1>3, <2>5, NoneIsNoRow
    <2>7. stageOf(id)' = "claimed"
      BY <2>5, <2>6 DEF stageOf
    <2>8. \A other \in Ids : other # id => stageOf(other)' = stageOf(other)
      BY <1>3, <1>t DEF stageOf, TypeOK
    <2>9. stages' = [stages EXCEPT ![id] = "claimed"]
      BY <2>7, <2>8, StageChange
    <2>10. Lifecycle!Claim(id)
      BY <1>m, <1>s, <2>3, <2>9 DEF Lifecycle!Claim
    <2> QED
      BY <2>10 DEF Lifecycle!Next
  <1>4. ASSUME NEW s \in Signatures, TellsOfMint(s), chain[s] \in Txs,
               nfts[chain[s].nft] # None,
               nfts' = [nfts EXCEPT ![chain[s].nft] =
                          [request_wallet |-> wallet[chain[s].nft[1]],
                           owner_address |-> chain[s].owner,
                           signature |-> s]]
        PROVE  Lifecycle!Next \/ UNCHANGED Lifecycle!vars
    <2>0. PICK id \in Ids : id = chain[s].nft
      BY <1>4 DEF Txs
    <2> DEFINE row == [request_wallet |-> wallet[id[1]],
                       owner_address |-> chain[s].owner, signature |-> s]
    <2>1. row \in Rows /\ nfts' = [nfts EXCEPT ![id] = row]
      BY <1>4, <1>t, <2>0 DEF Txs, Rows, Ids, TypeOK
    <2>2. nfts'[id] = row
      BY <1>t, <2>1 DEF TypeOK
    <2>3. nfts'[id] # None /\ nfts'[id].signature # None
      BY <2>1, <2>2, NoneIsNoRow
    <2>4. stageOf(id)' = "recorded"
      BY <2>3 DEF stageOf
    <2>5. \A other \in Ids : other # id => nfts'[other] = nfts[other]
      BY <2>1, <1>t DEF TypeOK
    <2>6. \A other \in Ids : other # id => stageOf(other)' = stageOf(other)
      BY <2>5 DEF stageOf
    <2>7. stages' = [stages EXCEPT ![id] = "recorded"]
      BY <2>4, <2>6, StageChange
    <2>8. stageOf(id) \in {"reserved", "claimed", "recorded"}
      BY <1>4, <2>0 DEF stageOf
    <2>9. <<s, id>> \in news
      BY <1>4, <2>0 DEF news
    <2>10. CASE stageOf(id) = "recorded"
      <3>1. \A i \in Ids : stageOf(i)' = stageOf(i)
        BY <2>4, <2>6, <2>10
      <3>2. stages' = stages
        BY <3>1 DEF stages
      <3> QED
        BY <3>2, <1>m DEF Lifecycle!vars
    <2>11. CASE stageOf(id) \in {"reserved", "claimed"}
      <3>1. Lifecycle!Record(id)
        BY <2>7, <2>9, <2>11, <1>m, <1>s DEF Lifecycle!Record
      <3> QED
        BY <3>1 DEF Lifecycle!Next
    <2> QED
      BY <2>8, <2>10, <2>11
  <1> QED
    BY <1>1, <1>2, <1>3, <1>4 DEF RowChange

\* A transaction that lands or fails tells, if it does, of a reservation that is there.
LEMMA ChainRefines ==
    ASSUME IInv, ChainChange, UNCHANGED nfts
    PROVE  Lifecycle!Next \/ UNCHANGED Lifecycle!vars
  <1>s. stages' = stages
    BY DEF stages, stageOf
  <1>1. CASE UNCHANGED chain
    BY <1>1, <1>s DEF news, TellsOfMint, StatusOf, Lifecycle!vars
  <1>2. CASE chain' # chain
    <2>1. PICK s \in Signatures :
            /\ StatusOf(s) \in {"none", "pending"}
            /\ \/ /\ chain[s] = None
                  /\ StatusOf(s)' = "pending"
               \/ /\ chain[s] # None
                  /\ chain[s].nft \in Ids
                  /\ nfts[chain[s].nft] # None
                  /\ StatusOf(s)' \in Outcomes
                  /\ chain'[s].nft = chain[s].nft
            /\ \A t \in Signatures : t # s => chain'[t] = chain[t]
      BY <1>2 DEF ChainChange
    <2>2. \A t \in Signatures : t # s => StatusOf(t)' = StatusOf(t)
      BY <2>1 DEF StatusOf
    <2>3. CASE ~TellsOfMint(s)'
      <3>1. news' = news
        BY <2>1, <2>2, <2>3 DEF news, TellsOfMint
      <3> QED
        BY <3>1, <1>s DEF Lifecycle!vars
    <2>4. CASE TellsOfMint(s)'
      <3> DEFINE id == chain[s].nft
      <3>1. id \in Ids /\ nfts[id] # None /\ chain'[s].nft = id
        BY <2>1, <2>4 DEF TellsOfMint
      <3>2. news' = news \cup {<<s, id>>}
        BY <2>1, <2>2, <2>4, <3>1 DEF news, TellsOfMint
      <3>3. \A other \in Ids : <<s, other>> \notin news
        BY <2>1 DEF news, TellsOfMint
      <3>4. stages[id] # "absent"
        BY <3>1 DEF stages, stageOf
      <3>5. Lifecycle!Tell(s, id)
        BY <1>s, <3>2, <3>3, <3>4 DEF Lifecycle!Tell
      <3> QED
        BY <3>1, <3>5 DEF Lifecycle!Next
    <2> QED
      BY <2>3, <2>4
  <1> QED
    BY <1>1, <1>2

\* Minting as it is implemented keeps the promise of the lifecycle, for any
\* number of reservations, transactions, deliveries and calls.
THEOREM Refinement == Spec => ImplementsLifecycle
  <1>1. IInv /\ [Next]_vars => [Lifecycle!Next]_(Lifecycle!vars)
    <2> SUFFICES ASSUME IInv, [Next]_vars
                 PROVE  Lifecycle!Next \/ UNCHANGED Lifecycle!vars
      OBVIOUS
    <2>1. Change
      BY ChangeStep DEF IInv
    <2> QED
      BY <2>1, RowRefines, ChainRefines DEF Change
  <1> QED
    BY <1>1, InitRefines, Inductive, PTL DEF Spec, ImplementsLifecycle, Lifecycle!Spec

=============================================================================
