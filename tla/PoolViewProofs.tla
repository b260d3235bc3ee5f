----------------------------- MODULE PoolViewProofs -----------------------------
(***************************************************************************)
(* Theorems about PoolView and SeasonView: what mintingPool makes of its   *)
(* two counts fits together, and keeps a patient wallet within its limits, *)
(* and the numbers of a season's page were true while it was put together, *)
(* for any number of calls, pages, wallets and rows and any limits.        *)
(***************************************************************************)
EXTENDS MCPoolView, PoolHoldersProofs, FiniteSetTheorems

\* The pool is minted out, and the wallet has minted all it may, as the rows say.
Full == Cardinality(Here(Recorded)) >= pool_supply

AtLimit(w) ==
    \/ Cardinality(Here(OwnedBy(w, Recorded))) >= total_mint_per_wallet
    \/ Cardinality(OwnedBy(w, Recorded)) >= nft_per_user_limit

Limited == {w \in Wallets : AtLimit(w)}
Lagging == {w \in Wallets : Pending(w)}

\* What a call has read says the same of itself.
SawFull(r) == total[r] >= pool_supply

SawLimit(r) ==
    \/ mine[r][1] >= total_mint_per_wallet
    \/ mine[r][2] >= nft_per_user_limit

Counted(r) == "total" \notin reads[r] /\ how[r] # "behind"
Listed(r) == "mine" \notin reads[r]

\* Rows only fill the pool, and the wallet's share of it: what a call may conclude
\* from one of its reads about the rows now, and about those when it began.
Fit(r) ==
    /\ Waiting(r) => could[r] \/ Full \/ asker[r] \in Limited
    /\ Waiting(r) /\ Listed(r) =>
           IF SawLimit(r) THEN asker[r] \in Limited ELSE could[r] \/ Full
    /\ Waiting(r) /\ Counted(r) =>
           IF SawFull(r) THEN Full ELSE could[r] \/ asker[r] \in Limited
    /\ Waiting(r) /\ Listed(r) /\ Counted(r) /\ ~SawLimit(r) /\ ~SawFull(r) => could[r]
    /\ how[r] # "behind" /\ answer[r] \in {"active", "used"} => could[r]
    /\ how[r] # "behind" /\ answer[r] = "closed" => Full \/ asker[r] \in Limited

FitInv == \A r \in Calls : ~excused[r] => Fit(r)

\* A wallet whose mints are recorded, and that has minted nothing since, is no nearer
\* to its limits than the call has seen.
Patient(r) ==
    /\ asker[r] \notin Lagging
    /\ Waiting(r) /\ Listed(r) /\ ~SawLimit(r) => asker[r] \notin Limited
    /\ answer[r] = "active" => asker[r] \notin Limited

StaleInv == \A r \in Calls : ~stale[r] => Patient(r)

\* A call that has not begun has no answer.
BegunInv == \A r \in Calls : answer[r] # "none" => asker[r] # None

IInv == ViewTypeOK /\ BegunInv /\ FitInv /\ StaleInv

-----------------------------------------------------------------------------
(* Counting.                                                                 *)

\* The rows are finitely many.
LEMMA Finite ==
    ASSUME NEW S \in SUBSET Nfts
    PROVE  IsFiniteSet(S) /\ Cardinality(S) \in 0 .. Cardinality(Nfts)
  BY ViewAssumption, FS_Subset, FS_CardinalityType

\* The sets that are counted are sets of rows.
LEMMA CountedAreRows ==
    ASSUME NEW w
    PROVE  /\ Recorded \in SUBSET Nfts
           /\ Here(Recorded) \in SUBSET Nfts
           /\ Recorded \ Here(Recorded) \in SUBSET Nfts
           /\ OwnedBy(w, Recorded) \in SUBSET Nfts
           /\ Here(OwnedBy(w, Recorded)) \in SUBSET Nfts
  BY DEF Recorded, Here, OwnedBy

\* A wallet can mint, as the rows say, when neither it nor the pool is at its limit.
LEMMA CanMintIs ==
    ASSUME NEW w
    PROVE  CanMint(w) <=> ~Full /\ ~AtLimit(w)
  <1>1. /\ Cardinality(Here(Recorded)) \in Int
        /\ Cardinality(Here(OwnedBy(w, Recorded))) \in Int
        /\ Cardinality(OwnedBy(w, Recorded)) \in Int
    BY CountedAreRows, Finite
  <1> QED
    BY <1>1, ViewAssumption DEF CanMint, Leaves, Full, AtLimit

\* A larger set of rows is at least as long.
LEMMA Grows ==
    ASSUME NEW S \in SUBSET Nfts, NEW T \in SUBSET S, NEW k \in Nat, Cardinality(T) >= k
    PROVE  Cardinality(S) >= k
  <1>1. IsFiniteSet(S) /\ T \in SUBSET Nfts
    BY Finite
  <1>2. Cardinality(T) <= Cardinality(S) /\ Cardinality(S) \in Nat /\ Cardinality(T) \in Nat
    BY <1>1, FS_Subset, Finite
  <1> QED
    BY <1>2

-----------------------------------------------------------------------------
(* What happens to the rows.                                                 *)

\* As far as calls can tell, the rows only fill up, but for wallets that lose one, and
\* a wallet only gets nearer to its limits when a mint of its own was not recorded.
Filling ==
    /\ UNCHANGED <<asker, how, reads, mine, total, could>>
    /\ stale' \in [Calls -> BOOLEAN] /\ excused' \in [Calls -> BOOLEAN]
    /\ \A r \in Calls : (stale[r] => stale'[r]) /\ (excused[r] => excused'[r])
    /\ Full => Full'
    /\ \A r \in Calls :
         asker[r] # None =>
            /\ excused'[r] \/ (asker[r] \in Limited => asker[r] \in Limited')
            /\ \/ stale'[r] \/ asker[r] \in Lagging
               \/ (asker[r] \in Limited' => asker[r] \in Limited)
            /\ stale'[r] \/ (asker[r] \in Lagging' => asker[r] \in Lagging)

\* A mint that has landed changes nothing that is counted.
LEMMA LandFills ==
    ASSUME ViewTypeOK, NEW n \in Nfts, NEW w \in Wallets, NEW here \in BOOLEAN,
           Land(n, w, here), UNCHANGED <<asker, how, reads, mine, total, could, excused>>
    PROVE  Filling
  <1> USE DEF ViewTypeOK
  <1>1. rows' \in [Nfts -> {None} \cup Rows] /\ \A m \in Nfts : m # n => rows'[m] = rows[m]
    BY DEF Land, Rows
  <1>2. rows[n] = None /\ rows'[n] = [owner |-> w, here |-> here, recorded |-> FALSE]
    BY DEF Land
  <1>3. rows'[n] # None /\ rows'[n].owner = w /\ ~rows'[n].recorded
    <2>1. rows'[n] \in Rows
      BY <1>2 DEF Rows
    <2>2. rows'[n] # None
      BY <2>1, ViewAssumption
    <2>3. rows'[n].owner = w
      BY <1>2
    <2>4. ~rows'[n].recorded
      BY <1>2
    <2> QED
      BY <2>2, <2>3, <2>4
  <1>4. Recorded' = Recorded
    BY <1>1, <1>2, <1>3 DEF Recorded, InRows
  <1>5. n \notin Recorded
    BY <1>2 DEF Recorded, InRows
  <1>6. Here(Recorded)' = Here(Recorded)
    BY <1>1, <1>4, <1>5 DEF Here, InRows, Recorded
  <1>7. ASSUME NEW v
        PROVE  /\ OwnedBy(v, Recorded)' = OwnedBy(v, Recorded)
               /\ Here(OwnedBy(v, Recorded))' = Here(OwnedBy(v, Recorded))
    BY <1>1, <1>4, <1>5 DEF Here, OwnedBy, InRows, Recorded
  <1>8. Full' = Full /\ \A v : AtLimit(v)' = AtLimit(v)
    BY <1>6, <1>7 DEF Full, AtLimit
  <1>9. ASSUME NEW v, v # w PROVE Pending(v)' => Pending(v)
    BY <1>1, <1>3, <1>4, <1>9 DEF Pending, OwnedBy, InRows
  <1> QED
    BY <1>8, <1>9 DEF Filling, Limited, Lagging, Land

\* Recording a mint adds to the counts, of its owner's share alone.
LEMMA RecordFills ==
    ASSUME ViewTypeOK, NEW n \in Nfts, NEW here \in BOOLEAN, Record(n, here)
    PROVE  Filling
  <1> USE DEF ViewTypeOK
  <1>1. rows[n] \in Rows /\ ~rows[n].recorded
    BY DEF Record
  <1>2. /\ rows' \in [Nfts -> {None} \cup Rows]
        /\ \A m \in Nfts : m # n => rows'[m] = rows[m]
        /\ rows'[n] = [rows[n] EXCEPT !.recorded = TRUE, !.here = here]
    BY <1>1 DEF Record, Rows
  <1>3. rows'[n] \in Rows /\ rows'[n].owner = rows[n].owner /\ rows'[n].recorded
    BY <1>1, <1>2 DEF Rows
  <1>4. n \notin Recorded /\ Recorded' = Recorded \cup {n}
    <2>1. rows'[n] # None
      BY <1>3, ViewAssumption
    <2> QED
      BY <1>1, <1>2, <1>3, <2>1 DEF Recorded, InRows
  <1>5. Here(Recorded) \subseteq Here(Recorded)'
    BY <1>2, <1>4 DEF Here, InRows, Recorded
  <1>6. ASSUME NEW v
        PROVE  /\ OwnedBy(v, Recorded) \subseteq OwnedBy(v, Recorded)'
               /\ Here(OwnedBy(v, Recorded)) \subseteq Here(OwnedBy(v, Recorded))'
    BY <1>2, <1>4 DEF Here, OwnedBy, InRows, Recorded
  <1>7. ASSUME NEW v, v # rows[n].owner
        PROVE  /\ OwnedBy(v, Recorded)' = OwnedBy(v, Recorded)
               /\ Here(OwnedBy(v, Recorded))' = Here(OwnedBy(v, Recorded))
    <2>1. rows'[n].owner # v /\ rows[n].owner # v
      BY <1>3, <1>7
    <2>2. \A m \in Recorded : m # n /\ rows'[m] = rows[m]
      BY <1>2, <1>4 DEF Recorded
    <2>3. OwnedBy(v, Recorded)' = OwnedBy(v, Recorded) /\ n \notin OwnedBy(v, Recorded)
      BY <1>4, <2>1, <2>2 DEF OwnedBy, InRows
    <2> QED
      BY <1>2, <2>3 DEF Here, InRows, OwnedBy, Recorded
  <1>8. /\ Here(Recorded)' \in SUBSET Nfts
        /\ \A v : /\ OwnedBy(v, Recorded)' \in SUBSET Nfts
                  /\ Here(OwnedBy(v, Recorded))' \in SUBSET Nfts
    BY DEF Here, OwnedBy, Recorded
  <1>9. Full => Full'
    BY <1>5, <1>8, Grows, ViewAssumption DEF Full
  <1>10. ASSUME NEW v PROVE AtLimit(v) => AtLimit(v)'
    BY <1>6, <1>8, Grows, ViewAssumption DEF AtLimit
  <1>11. ASSUME NEW v, v # rows[n].owner PROVE AtLimit(v)' => AtLimit(v)
    BY <1>7, <1>11 DEF AtLimit
  <1>12. Pending(rows[n].owner)
    BY <1>1, <1>4, ViewAssumption DEF Pending, OwnedBy, InRows
  <1>13. ASSUME NEW v PROVE Pending(v)' => Pending(v)
    BY <1>2, <1>4 DEF Pending, OwnedBy, InRows
  <1> QED
    BY <1>9, <1>10, <1>11, <1>12, <1>13 DEF Filling, Limited, Lagging, Record

\* A row that gets another owner takes from the one what it gives to the other.
LEMMA ReassignFills ==
    ASSUME ViewTypeOK, NEW n \in Nfts, NEW w \in Wallets, Reassign(n, w)
    PROVE  Filling
  <1> USE DEF ViewTypeOK
  <1>1. rows[n] \in Rows /\ rows[n].recorded
    BY DEF Reassign, Recorded, InRows
  <1>2. /\ rows' \in [Nfts -> {None} \cup Rows]
        /\ \A m \in Nfts : m # n => rows'[m] = rows[m]
        /\ rows'[n] = [rows[n] EXCEPT !.owner = w]
    BY <1>1 DEF Reassign, Rows
  <1>3. /\ rows'[n] \in Rows /\ rows'[n].owner = w
        /\ rows'[n].recorded /\ rows'[n].here = rows[n].here
    BY <1>1, <1>2 DEF Rows
  <1>4. n \in Recorded /\ Recorded' = Recorded
    <2>1. rows[n] # None /\ rows'[n] # None
      BY <1>1, <1>3, ViewAssumption
    <2>2. n \in Recorded
      BY <1>1, <2>1 DEF Recorded, InRows
    <2>3. \A m \in Nfts : m \in Recorded' <=> m \in Recorded
      BY <1>1, <1>2, <1>3, <2>1 DEF Recorded, InRows
    <2> QED
      BY <2>2, <2>3 DEF Recorded
  <1>5. Here(Recorded)' = Here(Recorded)
    BY <1>1, <1>2, <1>3, <1>4, ViewAssumption DEF Here, InRows, Recorded
  <1>6. ASSUME NEW v, v # rows[n].owner
        PROVE  /\ OwnedBy(v, Recorded) \subseteq OwnedBy(v, Recorded)'
               /\ Here(OwnedBy(v, Recorded)) \subseteq Here(OwnedBy(v, Recorded))'
    BY <1>2, <1>4, <1>6 DEF Here, OwnedBy, InRows, Recorded
  <1>7. ASSUME NEW v, v # w
        PROVE  /\ OwnedBy(v, Recorded)' \subseteq OwnedBy(v, Recorded)
               /\ Here(OwnedBy(v, Recorded))' \subseteq Here(OwnedBy(v, Recorded))
    BY <1>2, <1>3, <1>4, <1>7 DEF Here, OwnedBy, InRows, Recorded
  <1>8. \A v : /\ OwnedBy(v, Recorded) \in SUBSET Nfts
               /\ Here(OwnedBy(v, Recorded)) \in SUBSET Nfts
               /\ OwnedBy(v, Recorded)' \in SUBSET Nfts
               /\ Here(OwnedBy(v, Recorded))' \in SUBSET Nfts
    BY DEF Here, OwnedBy, Recorded
  <1>9. Full' = Full
    BY <1>5 DEF Full
  <1>10. ASSUME NEW v, v # rows[n].owner PROVE AtLimit(v) => AtLimit(v)'
    BY <1>6, <1>8, <1>10, Grows, ViewAssumption DEF AtLimit
  <1>11. ASSUME NEW v, v # w PROVE AtLimit(v)' => AtLimit(v)
    BY <1>7, <1>8, <1>11, Grows, ViewAssumption DEF AtLimit
  <1>12. ASSUME NEW v PROVE Pending(v)' => Pending(v)
    BY <1>2, <1>4 DEF Pending, OwnedBy, InRows
  <1> QED
    BY <1>9, <1>10, <1>11, <1>12 DEF Filling, Limited, Lagging, Reassign

-----------------------------------------------------------------------------
(* The invariant.                                                            *)

\* The invariant holds at the start.
LEMMA InitInv == ViewInit => IInv
  <1> SUFFICES ASSUME ViewInit PROVE IInv
    OBVIOUS
  <1>1. Cardinality(Nfts) \in Nat
    BY ViewAssumption, FS_CardinalityType
  <1>2. ViewTypeOK
    BY <1>1 DEF ViewInit, ViewTypeOK, Answers
  <1>3. BegunInv /\ FitInv
    BY DEF ViewInit, BegunInv, FitInv, Fit, Waiting
  <1>4. StaleInv
    BY ViewAssumption DEF ViewInit, StaleInv, Patient, Lagging, Waiting
  <1> QED
    BY <1>2, <1>3, <1>4 DEF IInv

\* Every step keeps the types.
LEMMA TypeStep == IInv /\ [ViewNext]_viewvars => ViewTypeOK'
  <1> SUFFICES ASSUME IInv, [ViewNext]_viewvars PROVE ViewTypeOK'
    OBVIOUS
  <1> USE DEF IInv, ViewTypeOK
  <1>0. \A S \in SUBSET Nfts : Cardinality(S) \in 0 .. Cardinality(Nfts)
    BY Finite
  <1>00. Cardinality(Nfts) \in Nat
    BY ViewAssumption, FS_CardinalityType
  <1>1. ASSUME NEW n \in Nfts, NEW w \in Wallets, NEW here \in BOOLEAN, Land(n, w, here)
        PROVE  rows' \in [Nfts -> {None} \cup Rows] /\ stale' \in [Calls -> BOOLEAN]
    BY <1>1 DEF Land, Rows
  <1>2. ASSUME NEW r \in Calls, NEW n \in Nfts, Mint(r, n) PROVE ViewTypeOK'
    <2>1. asker[r] \in Wallets
      BY <1>2 DEF Mint, BegunInv
    <2> QED
      BY <1>1, <1>2, <2>1 DEF Mint, Answers
  <1>3. ASSUME NEW n \in Nfts, NEW w \in Wallets, NEW here \in BOOLEAN,
               MintElsewhere(n, w, here)
        PROVE  ViewTypeOK'
    BY <1>1, <1>3 DEF MintElsewhere
  <1>4. ASSUME NEW n \in Nfts, NEW here \in BOOLEAN, Record(n, here) PROVE ViewTypeOK'
    BY <1>4 DEF Record, Rows
  <1>5. ASSUME NEW n \in Nfts, NEW w \in Wallets, Reassign(n, w) PROVE ViewTypeOK'
    BY <1>5 DEF Reassign, Rows, Recorded, InRows
  <1>6. ASSUME NEW r \in Calls, NEW w \in Wallets, NEW asked \in {"named", "first", "behind"},
               Ask(r, w, asked)
        PROVE  ViewTypeOK'
    <2>1. CanMint(w) \in BOOLEAN /\ Pending(w) \in BOOLEAN
      BY DEF CanMint, Leaves, Pending
    <2>2. answer[r] = "none"
      BY <1>6 DEF Ask, BegunInv
    <2> QED
      BY <1>6, <2>1, <2>2 DEF Ask
  <1>7. ASSUME NEW r \in Calls, ReadPools(r) PROVE ViewTypeOK'
    BY <1>7 DEF ReadPools, Waiting
  <1>12. ASSUME NEW r \in Calls, TotalFails(r) PROVE ViewTypeOK'
    <2>1. total' \in [Calls -> 0 .. Cardinality(Nfts)] /\ excused' \in [Calls -> BOOLEAN]
      BY <1>12, <1>00 DEF TotalFails
    <2> QED
      BY <1>12, <2>1 DEF TotalFails, CountBegun, Waiting
  <1>13. ASSUME NEW r \in Calls, Fails(r) PROVE ViewTypeOK'
    BY <1>13 DEF Fails, Waiting, Answers
  <1>8. ASSUME NEW r \in Calls, ReadMine(r) PROVE ViewTypeOK'
    <2>1. /\ Cardinality(Here(OwnedBy(asker[r], Recorded))) \in 0 .. Cardinality(Nfts)
          /\ Cardinality(OwnedBy(asker[r], Recorded)) \in 0 .. Cardinality(Nfts)
      BY <1>0, CountedAreRows
    <2> QED
      BY <1>8, <2>1 DEF ReadMine, Waiting
  <1>9. ASSUME NEW r \in Calls, ReadTotal(r) PROVE ViewTypeOK'
    <2>1. /\ Cardinality(Here(Recorded)) \in 0 .. Cardinality(Nfts)
          /\ Cardinality(Recorded \ Here(Recorded)) \in 0 .. Cardinality(Nfts)
      BY <1>0, CountedAreRows
    <2> QED
      BY <1>9, <2>1 DEF ReadTotal, CountBegun, Waiting
  <1>10. ASSUME NEW r \in Calls, NEW given \in Lists, Answer(r, given) PROVE ViewTypeOK'
    BY <1>10, <1>00 DEF Answer, AllRead, Waiting, Answers
  <1>11. CASE UNCHANGED viewvars
    BY <1>11 DEF viewvars
  <1> QED
    BY <1>2, <1>3, <1>4, <1>5, <1>6, <1>7, <1>8, <1>9, <1>10, <1>11,
       <1>12, <1>13 DEF ViewNext

\* Only a wallet that asks gets an answer.
LEMMA BegunStep == IInv /\ [ViewNext]_viewvars => BegunInv'
  <1> SUFFICES ASSUME IInv, [ViewNext]_viewvars PROVE BegunInv'
    OBVIOUS
  <1> USE DEF IInv, BegunInv, ViewTypeOK
  <1>1. ASSUME NEW r \in Calls, NEW n \in Nfts, Mint(r, n) PROVE BegunInv'
    BY <1>1 DEF Mint
  <1>2. ASSUME NEW r \in Calls, NEW w \in Wallets, NEW asked \in {"named", "first", "behind"},
               Ask(r, w, asked)
        PROVE  BegunInv'
    BY <1>2, ViewAssumption DEF Ask
  <1>3. ASSUME NEW r \in Calls,
               \/ ReadPools(r) \/ ReadMine(r) \/ ReadTotal(r) \/ TotalFails(r) \/ Fails(r)
               \/ \E given \in Lists : Answer(r, given)
        PROVE  BegunInv'
    BY <1>3 DEF ReadPools, ReadMine, ReadTotal, TotalFails, Fails, Answer, AllRead,
                CountBegun, Waiting
  <1>4. ASSUME NEW n \in Nfts, NEW w \in Wallets, NEW here \in BOOLEAN,
               MintElsewhere(n, w, here) \/ Record(n, here) \/ Reassign(n, w)
        PROVE  BegunInv'
    BY <1>4 DEF MintElsewhere, Record, Reassign
  <1>5. CASE UNCHANGED viewvars
    BY <1>5 DEF viewvars
  <1>6. ASSUME NEW n \in Nfts, NEW here \in BOOLEAN, Record(n, here) PROVE BegunInv'
    BY <1>6 DEF Record
  <1> QED
    BY <1>1, <1>2, <1>3, <1>4, <1>5, <1>6 DEF ViewNext

\* No answer changes, but that one is used.
AnswersUsed ==
    \A r \in Calls :
        (answer'[r] = answer[r]) \/ (answer[r] = "active" /\ answer'[r] = "used")

\* What the calls have concluded stays true while the rows fill up.
LEMMA FillingKeeps == IInv /\ Filling /\ AnswersUsed => FitInv' /\ StaleInv'
  <1> SUFFICES ASSUME IInv, Filling, AnswersUsed PROVE FitInv' /\ StaleInv'
    OBVIOUS
  <1> USE DEF IInv, Filling, ViewTypeOK, AnswersUsed
  <1>1. ASSUME NEW r \in Calls
        PROVE  /\ Waiting(r)' = Waiting(r) /\ Listed(r)' = Listed(r)
               /\ Counted(r)' = Counted(r) /\ SawFull(r)' = SawFull(r)
               /\ SawLimit(r)' = SawLimit(r)
    BY DEF Waiting, Listed, Counted, SawFull, SawLimit
  <1>2. ASSUME NEW r \in Calls, ~excused'[r] PROVE Fit(r)'
    <2>1. Fit(r)
      BY <1>2 DEF FitInv
    <2>2. CASE asker[r] = None
      BY <2>1, <2>2, <1>1 DEF Fit, Waiting, BegunInv
    <2>3. CASE asker[r] # None
      BY <2>1, <2>3, <1>1, <1>2 DEF Fit
    <2> QED
      BY <2>2, <2>3
  <1>3. ASSUME NEW r \in Calls, ~stale'[r] PROVE Patient(r)'
    <2>1. Patient(r)
      BY <1>3 DEF StaleInv
    <2>2. CASE asker[r] = None
      BY <2>2, ViewAssumption DEF Patient, Waiting, BegunInv, Lagging, Limited
    <2>3. CASE asker[r] # None
      BY <2>1, <2>3, <1>1, <1>3 DEF Patient
    <2> QED
      BY <2>2, <2>3
  <1> QED
    BY <1>2, <1>3 DEF FitInv, StaleInv

\* The rows stay, and so does what the other calls have got.
Alone(r) ==
    /\ rows' = rows
    /\ \A q \in Calls \ {r} :
         /\ asker'[q] = asker[q] /\ how'[q] = how[q] /\ reads'[q] = reads[q]
         /\ mine'[q] = mine[q] /\ total'[q] = total[q] /\ answer'[q] = answer[q]
         /\ could'[q] = could[q] /\ stale'[q] = stale[q] /\ excused'[q] = excused[q]

\* What the rows alone say stays with them.
LEMMA RowsKept ==
    ASSUME rows' = rows
    PROVE  Full' = Full /\ Limited' = Limited /\ Lagging' = Lagging
  BY DEF Full, Limited, Lagging, AtLimit, Pending, Here, OwnedBy, Recorded, InRows

\* A step of one call has to be looked at for that call only.
LEMMA OthersKeep ==
    ASSUME IInv, NEW r \in Calls, Alone(r),
           ~excused'[r] => Fit(r)',
           ~stale'[r] => Patient(r)'
    PROVE  FitInv' /\ StaleInv'
  <1> USE RowsKept DEF Alone
  <1>1. ASSUME NEW q \in Calls \ {r}
        PROVE  /\ Waiting(q)' = Waiting(q) /\ Listed(q)' = Listed(q)
               /\ Counted(q)' = Counted(q) /\ SawFull(q)' = SawFull(q)
               /\ SawLimit(q)' = SawLimit(q)
    BY DEF Waiting, Listed, Counted, SawFull, SawLimit
  <1>2. ASSUME NEW q \in Calls \ {r}, ~excused'[q] PROVE Fit(q)'
    BY <1>1, <1>2 DEF Fit, FitInv, IInv
  <1>3. ASSUME NEW q \in Calls \ {r}, ~stale'[q] PROVE Patient(q)'
    BY <1>1, <1>3 DEF Patient, StaleInv, IInv
  <1> QED
    BY <1>2, <1>3 DEF FitInv, StaleInv

\* A call that begins knows nothing yet.
LEMMA AskStep ==
    ASSUME IInv, NEW r \in Calls, NEW w \in Wallets, NEW asked, Ask(r, w, asked)
    PROVE  FitInv' /\ StaleInv'
  <1> USE DEF IInv, ViewTypeOK
  <1>1. Alone(r)
    BY DEF Ask, Alone
  <1>2. /\ asker'[r] = w /\ reads'[r] = {"pools", "mine", "total"} /\ answer'[r] = "none"
        /\ could'[r] = CanMint(w) /\ stale'[r] = Pending(w)
    BY DEF Ask, BegunInv
  <1>3. CanMint(w) \/ Full \/ w \in Limited
    BY CanMintIs DEF Limited
  <1>4. Fit(r)'
    BY <1>1, <1>2, <1>3, RowsKept DEF Fit, Listed, Counted, Alone
  <1>5. ~stale'[r] => Patient(r)'
    BY <1>1, <1>2, RowsKept DEF Patient, Listed, Lagging, Alone
  <1> QED
    BY <1>1, <1>4, <1>5, OthersKeep

\* The list of the wallet's rows says whether it is at its limit now.
LEMMA ReadMineStep ==
    ASSUME IInv, NEW r \in Calls, ReadMine(r)
    PROVE  FitInv' /\ StaleInv'
  <1> USE DEF IInv, ViewTypeOK
  <1>1. Alone(r)
    BY DEF ReadMine, Alone
  <1>2. /\ asker'[r] = asker[r] /\ how'[r] = how[r] /\ answer'[r] = answer[r]
        /\ could'[r] = could[r] /\ total'[r] = total[r]
        /\ stale'[r] = stale[r] /\ excused'[r] = excused[r]
        /\ reads'[r] = reads[r] \ {"mine"}
        /\ Waiting(r) /\ asker[r] \in Wallets
    BY DEF ReadMine, Waiting
  <1>3. SawLimit(r)' <=> asker[r] \in Limited
    <2>1. mine'[r] = <<Cardinality(Here(OwnedBy(asker[r], Recorded))),
                       Cardinality(OwnedBy(asker[r], Recorded))>>
      BY DEF ReadMine
    <2> QED
      BY <1>2, <2>1 DEF SawLimit, Limited, AtLimit
  <1>4. /\ Waiting(r)' = Waiting(r) /\ Counted(r)' = Counted(r) /\ SawFull(r)' = SawFull(r)
        /\ Full' = Full /\ Limited' = Limited /\ Lagging' = Lagging
    BY <1>1, <1>2, RowsKept DEF Waiting, Counted, SawFull, Alone
  <1>5. ~excused'[r] => Fit(r)'
    BY <1>2, <1>3, <1>4 DEF Fit, FitInv
  <1>6. ~stale'[r] => Patient(r)'
    BY <1>2, <1>3, <1>4 DEF Patient, StaleInv
  <1> QED
    BY <1>1, <1>5, <1>6, OthersKeep

\* The count says whether the pool is minted out now, if it is the pool's.
LEMMA ReadTotalStep ==
    ASSUME IInv, NEW r \in Calls, ReadTotal(r)
    PROVE  FitInv' /\ StaleInv'
  <1> USE DEF IInv, ViewTypeOK
  <1>1. Alone(r)
    BY DEF ReadTotal, Alone
  <1>2. /\ asker'[r] = asker[r] /\ how'[r] = how[r] /\ answer'[r] = answer[r]
        /\ could'[r] = could[r] /\ mine'[r] = mine[r]
        /\ stale'[r] = stale[r] /\ excused'[r] = excused[r]
        /\ reads'[r] = reads[r] \ {"total"}
        /\ Waiting(r)
    BY DEF ReadTotal, CountBegun, Waiting
  <1>3. how[r] # "behind" => (SawFull(r)' <=> Full)
    BY DEF ReadTotal, SawFull, Full
  <1>4. /\ Waiting(r)' = Waiting(r) /\ Listed(r)' = Listed(r) /\ SawLimit(r)' = SawLimit(r)
        /\ Full' = Full /\ Limited' = Limited /\ Lagging' = Lagging
    BY <1>1, <1>2, RowsKept DEF Waiting, Listed, SawLimit, Alone
  <1>5. ~excused'[r] => Fit(r)'
    BY <1>2, <1>3, <1>4 DEF Fit, FitInv, Counted
  <1>6. ~stale'[r] => Patient(r)'
    BY <1>2, <1>4 DEF Patient, StaleInv
  <1> QED
    BY <1>1, <1>5, <1>6, OthersKeep

\* A read that fails tells nothing of the wallet's limits.
LEMMA TotalFailsStep ==
    ASSUME IInv, NEW r \in Calls, TotalFails(r)
    PROVE  FitInv' /\ StaleInv'
  <1> USE DEF IInv, ViewTypeOK
  <1>1. Alone(r)
    BY DEF TotalFails, Alone
  <1>2. /\ asker'[r] = asker[r] /\ answer'[r] = answer[r] /\ mine'[r] = mine[r]
        /\ stale'[r] = stale[r] /\ excused'[r]
        /\ reads'[r] = reads[r] \ {"total"}
    BY DEF TotalFails
  <1>3. /\ Waiting(r)' = Waiting(r) /\ Listed(r)' = Listed(r) /\ SawLimit(r)' = SawLimit(r)
        /\ Limited' = Limited /\ Lagging' = Lagging
    BY <1>1, <1>2, RowsKept DEF Waiting, Listed, SawLimit, Alone
  <1>4. ~stale'[r] => Patient(r)'
    BY <1>2, <1>3 DEF Patient, StaleInv
  <1> QED
    BY <1>1, <1>2, <1>4, OthersKeep

\* The answer is put together from both.
LEMMA AnswerStep ==
    ASSUME IInv, NEW r \in Calls, NEW given, Answer(r, given)
    PROVE  FitInv' /\ StaleInv'
  <1> USE DEF IInv, ViewTypeOK
  <1>1. Alone(r)
    BY DEF Answer, Alone
  <1>2. /\ asker'[r] = asker[r] /\ how'[r] = how[r] /\ could'[r] = could[r]
        /\ stale'[r] = stale[r] /\ excused'[r] = excused[r]
        /\ Waiting(r) /\ Listed(r) /\ (how[r] # "behind" => Counted(r))
    BY DEF Answer, AllRead, Waiting, Listed, Counted
  <1>3. Active(r) <=> ~SawFull(r) /\ ~SawLimit(r)
    <2>1. total[r] \in Int /\ mine[r][1] \in Int /\ mine[r][2] \in Int
      BY ViewAssumption, FS_CardinalityType
    <2> QED
      BY <2>1, ViewAssumption DEF Active, Leaves, SawFull, SawLimit
  <1>4. /\ answer'[r] \in {"stranger", "active", "closed"}
        /\ answer'[r] = "active" => Active(r)
        /\ answer'[r] = "closed" => ~Active(r)
    BY DEF Answer
  <1>5. ~Waiting(r)' /\ Full' = Full /\ Limited' = Limited /\ Lagging' = Lagging
    BY <1>1, <1>4, RowsKept DEF Waiting, Alone
  <1>6. ~excused'[r] => Fit(r)'
    BY <1>2, <1>3, <1>4, <1>5 DEF Fit, FitInv
  <1>7. ~stale'[r] => Patient(r)'
    BY <1>2, <1>3, <1>4, <1>5 DEF Patient, StaleInv
  <1> QED
    BY <1>1, <1>6, <1>7, OthersKeep

\* The two steps of which nothing is concluded.
LEMMA IdleStep ==
    ASSUME IInv, NEW r \in Calls, ReadPools(r) \/ Fails(r)
    PROVE  FitInv' /\ StaleInv'
  <1> USE DEF IInv, ViewTypeOK
  <1>1. Alone(r)
    BY DEF ReadPools, Fails, Alone
  <1>2. /\ asker'[r] = asker[r] /\ how'[r] = how[r] /\ could'[r] = could[r]
        /\ mine'[r] = mine[r] /\ total'[r] = total[r]
        /\ stale'[r] = stale[r] /\ excused'[r] = excused[r]
        /\ reads'[r] \in {reads[r], reads[r] \ {"pools"}}
        /\ answer'[r] \in {answer[r], "lost"}
    BY DEF ReadPools, Fails
  <1>3. /\ Waiting(r)' => Waiting(r)
        /\ Listed(r)' = Listed(r) /\ Counted(r)' = Counted(r)
        /\ SawFull(r)' = SawFull(r) /\ SawLimit(r)' = SawLimit(r)
        /\ Full' = Full /\ Limited' = Limited /\ Lagging' = Lagging
    BY <1>1, <1>2, RowsKept DEF Waiting, Listed, Counted, SawFull, SawLimit, Alone
  <1>4. ~excused'[r] => Fit(r)'
    BY <1>2, <1>3 DEF Fit, FitInv
  <1>5. ~stale'[r] => Patient(r)'
    BY <1>2, <1>3 DEF Patient, StaleInv
  <1> QED
    BY <1>1, <1>4, <1>5, OthersKeep

\* What happens to the rows disturbs no conclusion.
LEMMA RowStep ==
    ASSUME IInv, NEW n \in Nfts,
           \/ \E r \in Calls : Mint(r, n)
           \/ \E w \in Wallets, here \in BOOLEAN : MintElsewhere(n, w, here)
           \/ \E here \in BOOLEAN : Record(n, here)
           \/ \E w \in Wallets : Reassign(n, w)
    PROVE  FitInv' /\ StaleInv'
  <1>1. answer' = answer => AnswersUsed
    BY DEF AnswersUsed
  <1>2. ViewTypeOK /\ BegunInv
    BY DEF IInv
  <1>3. ASSUME NEW r \in Calls, Mint(r, n) PROVE FitInv' /\ StaleInv'
    <2>1. asker[r] \in Wallets
      BY <1>2, <1>3 DEF Mint, BegunInv, ViewTypeOK
    <2>2. Land(n, asker[r], TRUE) /\ UNCHANGED <<asker, how, reads, mine, total, could, excused>>
      BY <1>3 DEF Mint
    <2>3. Filling
      BY <1>2, <2>1, <2>2, LandFills
    <2>4. AnswersUsed
      BY <1>2, <1>3 DEF Mint, ViewTypeOK, AnswersUsed
    <2> QED
      BY <2>3, <2>4, FillingKeeps
  <1>4. ASSUME NEW w \in Wallets, NEW here \in BOOLEAN, MintElsewhere(n, w, here)
        PROVE  FitInv' /\ StaleInv'
    <2>1. /\ Land(n, w, here) /\ answer' = answer
          /\ UNCHANGED <<asker, how, reads, mine, total, could, excused>>
      BY <1>4 DEF MintElsewhere
    <2> QED
      BY <1>1, <1>2, <2>1, LandFills, FillingKeeps
  <1>5. ASSUME NEW here \in BOOLEAN, Record(n, here) PROVE FitInv' /\ StaleInv'
    <2>1. answer' = answer
      BY <1>5 DEF Record
    <2> QED
      BY <1>1, <1>2, <1>5, <2>1, RecordFills, FillingKeeps
  <1>6. ASSUME NEW w \in Wallets, Reassign(n, w) PROVE FitInv' /\ StaleInv'
    <2>1. answer' = answer
      BY <1>6 DEF Reassign
    <2> QED
      BY <1>1, <1>2, <1>6, <2>1, ReassignFills, FillingKeeps
  <1> QED
    BY <1>3, <1>4, <1>5, <1>6

\* No step disturbs them.
LEMMA ConclusionStep == IInv /\ [ViewNext]_viewvars => FitInv' /\ StaleInv'
  <1> SUFFICES ASSUME IInv, [ViewNext]_viewvars PROVE FitInv' /\ StaleInv'
    OBVIOUS
  <1>1. CASE UNCHANGED viewvars
    BY <1>1, RowsKept DEF viewvars, IInv, FitInv, StaleInv, Fit, Patient, Waiting, Listed,
                          Counted, SawFull, SawLimit
  <1>2. CASE ViewNext
    BY <1>2, RowStep, AskStep, ReadMineStep, ReadTotalStep, TotalFailsStep, AnswerStep,
       IdleStep DEF ViewNext
  <1> QED
    BY <1>1, <1>2

-----------------------------------------------------------------------------
(* The theorems.                                                             *)

\* Every reachable state keeps the invariant.
THEOREM Inductive == ViewSpec => []IInv
  <1>1. ViewInit => IInv
    BY InitInv
  <1>2. IInv /\ [ViewNext]_viewvars => IInv'
    BY TypeStep, BegunStep, ConclusionStep DEF IInv
  <1> QED
    BY <1>1, <1>2, PTL DEF ViewSpec

\* The state of the counting has its types: an answer given from the reads comes after
\* all of them.
THEOREM ViewTypeCorrect == ViewSpec => []ViewTypeOK
  <1>1. IInv => ViewTypeOK
    BY DEF IInv
  <1> QED
    BY <1>1, Inductive, PTL

\* An answer of mintingPool fits what was true when it was asked for, when it says that
\* the wallet can mint, and what is true now, when it says that it cannot.
THEOREM AnswersFitAlways == ViewSpec => []AnswersFit
  <1>1. IInv => AnswersFit
    <2> SUFFICES ASSUME IInv, NEW r \in Calls, how[r] # "behind", ~excused[r]
                 PROVE  /\ answer[r] \in {"active", "used"} => could[r]
                        /\ answer[r] = "closed" => ~CanMint(asker[r])
      BY DEF AnswersFit
    <2>1. Fit(r)
      BY DEF IInv, FitInv
    <2>2. answer[r] = "closed" => Full \/ AtLimit(asker[r])
      BY <2>1 DEF Fit, Limited
    <2> QED
      BY <2>1, <2>2, CanMintIs DEF Fit
  <1> QED
    BY <1>1, Inductive, PTL

\* A wallet that asks when its mints are recorded, and mints on that answer only, ends
\* within the limits of the pool and of the season.
THEOREM MintsStayWithinLimits == ViewSpec => MintsWithinLimits
  <1> DEFINE Within ==
        \A r \in Calls, n \in Nfts :
           Mint(r, n) /\ ~stale[r] =>
              LET w == asker[r]
              IN  /\ Cardinality(Here(OwnedBy(w, Nfts)))' <= total_mint_per_wallet
                  /\ Cardinality(OwnedBy(w, Nfts))' <= nft_per_user_limit
  <1>1. ASSUME IInv, NEW r \in Calls, NEW n \in Nfts, Mint(r, n), ~stale[r]
        PROVE  LET w == asker[r]
               IN  /\ Cardinality(Here(OwnedBy(w, Nfts)))' <= total_mint_per_wallet
                   /\ Cardinality(OwnedBy(w, Nfts))' <= nft_per_user_limit
    <2> DEFINE w == asker[r]
    <2> DEFINE own == OwnedBy(w, Recorded)
    <2>1. w \in Wallets
      BY <1>1 DEF Mint, IInv, BegunInv, ViewTypeOK
    <2>2. ~Pending(w) /\ ~AtLimit(w)
      BY <1>1, <2>1 DEF IInv, StaleInv, Patient, Mint, Limited, Lagging
    <2>3. OwnedBy(w, Nfts) = own
      BY <2>2 DEF OwnedBy, Pending, Recorded
    <2>4. asker' = asker /\ rows[n] = None
          /\ rows' = [rows EXCEPT ![n] = [owner |-> w, here |-> TRUE, recorded |-> FALSE]]
      BY <1>1 DEF Mint, Land
    <2>5. rows \in [Nfts -> {None} \cup Rows]
      BY <1>1 DEF IInv, ViewTypeOK
    <2>6. rows'[n] # None /\ rows'[n].owner = w /\ rows'[n].here
      <3>1. rows'[n] = [owner |-> w, here |-> TRUE, recorded |-> FALSE]
        BY <2>4, <2>5
      <3>2. rows'[n] \in Rows
        BY <2>1, <3>1 DEF Rows
      <3>3. rows'[n].owner = w /\ rows'[n].here
        BY <3>1
      <3> QED
        BY <3>2, <3>3, ViewAssumption
    <2>7. OwnedBy(w, Nfts)' = OwnedBy(w, Nfts) \cup {n} /\ n \notin OwnedBy(w, Nfts)
      BY <2>4, <2>5, <2>6 DEF OwnedBy, InRows
    <2>8. Here(OwnedBy(w, Nfts))' = Here(OwnedBy(w, Nfts)) \cup {n}
          /\ n \notin Here(OwnedBy(w, Nfts))
      BY <2>4, <2>5, <2>6, <2>7 DEF Here, OwnedBy, InRows
    <2>9. /\ IsFiniteSet(own) /\ Cardinality(own) \in Nat
          /\ IsFiniteSet(Here(own)) /\ Cardinality(Here(own)) \in Nat
      BY CountedAreRows, Finite, ViewAssumption, FS_CardinalityType
    <2>10. /\ Cardinality(OwnedBy(w, Nfts))' = Cardinality(own) + 1
           /\ Cardinality(Here(OwnedBy(w, Nfts)))' = Cardinality(Here(own)) + 1
      BY <2>3, <2>7, <2>8, <2>9, FS_AddElement
    <2>11. Cardinality(Here(own)) < total_mint_per_wallet
           /\ Cardinality(own) < nft_per_user_limit
      BY <2>2, <2>9, ViewAssumption DEF AtLimit
    <2> QED
      BY <2>9, <2>10, <2>11, ViewAssumption
  <1>2. IInv /\ [ViewNext]_viewvars => [Within]_viewvars
    BY <1>1
  <1>3. ViewSpec => [][Within]_viewvars
    BY <1>2, Inductive, PTL DEF ViewSpec
  <1> QED
    BY <1>3 DEF MintsWithinLimits

-----------------------------------------------------------------------------
(* The page of the season.                                                   *)

\* What a page's counts are now.
Total == Cardinality(Recorded)
Share(w) == Cardinality(OwnedBy(w, Recorded))

\* A page's numbers, and those of its beginning, are bounded by what the rows say now.
Page(v) ==
    /\ begun[v].total <= Total
    /\ ~robbed[v] => begun[v].mine <= Share(visitor[v])
    /\ "total" \notin awaited[v] \cup failed[v] =>
          begun[v].total <= counted[v].total /\ counted[v].total <= Total
    /\ visitor[v] # Guest /\ "mine" \notin awaited[v] \cup failed[v] /\ ~robbed[v] =>
          begun[v].mine <= counted[v].mine /\ counted[v].mine <= Share(visitor[v])
    /\ shown[v] # None => shown[v] = RoadMap(visitor[v])

\* A page that has not begun shows and awaits nothing.
Sound(v) == IF visitor[v] = None THEN shown[v] = None /\ awaited[v] = {} ELSE Page(v)

PageInv == PageTypeOK /\ \A v \in Visits : Sound(v)

\* The counts are those of sets of rows.
LEMMA CountsAre ==
    ASSUME NEW w
    PROVE  /\ Total \in 0 .. Cardinality(Nfts) /\ Share(w) \in 0 .. Cardinality(Nfts)
           /\ MintedTotal(w) \in Counts
           /\ MintedTotal(w).total = Total /\ MintedTotal(w).mine = Share(w)
  <1>1. Total \in 0 .. Cardinality(Nfts) /\ Share(w) \in 0 .. Cardinality(Nfts)
    BY CountedAreRows, Finite DEF Total, Share
  <1> QED
    BY <1>1 DEF MintedTotal, Counts, Total, Share

\* Rows are only added to what is counted, but for the wallet that loses one.
LEMMA CountsGrow ==
    ASSUME ViewTypeOK, NEW n \in Nfts, NEW lost,
           \/ \E w \in Wallets, here \in BOOLEAN : MintElsewhere(n, w, here)
           \/ \E here \in BOOLEAN : Record(n, here)
           \/ lost = rows[n].owner /\ \E w \in Wallets : Reassign(n, w)
    PROVE  /\ Total <= Total'
           /\ \A v : v # lost => Share(v) <= Share(v)'
  <1> USE DEF ViewTypeOK
  <1>1. /\ Recorded \subseteq Recorded'
        /\ \A m \in Recorded : rows'[m].owner = rows[m].owner \/ rows[m].owner = lost
    <2>1. ASSUME NEW w \in Wallets, NEW here \in BOOLEAN, MintElsewhere(n, w, here)
          PROVE  Recorded \subseteq Recorded' /\ \A m \in Recorded : rows'[m] = rows[m]
      BY <2>1 DEF MintElsewhere, Land, Recorded, InRows
    <2>2. ASSUME NEW here \in BOOLEAN, Record(n, here)
          PROVE  Recorded \subseteq Recorded' /\ \A m \in Recorded : rows'[m] = rows[m]
      BY <2>2 DEF Record, Recorded, InRows
    <2>3. ASSUME NEW w \in Wallets, Reassign(n, w), lost = rows[n].owner
          PROVE  /\ Recorded \subseteq Recorded'
                 /\ \A m \in Recorded : rows'[m].owner = rows[m].owner \/ rows[m].owner = lost
      <3>1. rows[n] \in Rows /\ rows[n].recorded
        BY <2>3 DEF Reassign, Recorded, InRows
      <3>2. rows'[n] \in Rows /\ rows'[n].recorded
        BY <2>3, <3>1 DEF Reassign, Rows
      <3>3. \A m \in Nfts : m # n => rows'[m] = rows[m]
        BY <2>3 DEF Reassign
      <3> QED
        BY <2>3, <3>2, <3>3, ViewAssumption DEF Recorded, InRows
    <2> QED
      BY <2>1, <2>2, <2>3
  <1>2. ASSUME NEW v, v # lost PROVE OwnedBy(v, Recorded) \subseteq OwnedBy(v, Recorded)'
    BY <1>1, <1>2 DEF OwnedBy, Recorded, InRows
  <1>3. Recorded' \in SUBSET Nfts /\ \A v : OwnedBy(v, Recorded)' \in SUBSET Nfts
    BY DEF Recorded, OwnedBy
  <1>4. ASSUME NEW S \in SUBSET Nfts, NEW T \in SUBSET S
        PROVE  Cardinality(T) <= Cardinality(S)
    BY Finite, FS_Subset
  <1> QED
    BY <1>1, <1>2, <1>3, <1>4 DEF Total, Share

\* No page has begun at the start.
LEMMA PageInitInv == PageInit => PageInv
  <1> SUFFICES ASSUME PageInit PROVE PageInv
    OBVIOUS
  <1>1. Cardinality(Nfts) \in Nat
    BY ViewAssumption, FS_CardinalityType
  <1> QED
    BY <1>1 DEF PageInit, PageInv, PageTypeOK, Counts, Sound

\* A change of the rows leaves every page within its bounds.
LEMMA RowsChangeStep == ViewTypeOK /\ PageInv /\ RowsChange => PageInv'
  <1> SUFFICES ASSUME ViewTypeOK, PageInv, RowsChange PROVE PageInv'
    OBVIOUS
  <1> USE DEF PageInv, PageTypeOK, Sound
  <1>1. /\ UNCHANGED <<visitor, awaited, counted, begun, shown, failed>>
        /\ robbed' \in [Visits -> BOOLEAN] /\ \A v \in Visits : robbed[v] => robbed'[v]
        /\ Total <= Total'
        /\ \A v \in Visits :
              robbed'[v] \/ visitor[v] = None \/ Share(visitor[v]) <= Share(visitor[v])'
    <2>1. ASSUME NEW n \in Nfts,
                 \/ \E w \in Wallets, here \in BOOLEAN : MintElsewhere(n, w, here)
                 \/ \E here \in BOOLEAN : Record(n, here),
                 UNCHANGED pagevars
          PROVE  /\ UNCHANGED <<visitor, awaited, counted, begun, shown, failed, robbed>>
                 /\ Total <= Total'
                 /\ \A v \in Visits :
                      visitor[v] = None \/ Share(visitor[v]) <= Share(visitor[v])'
      <3>1. /\ Total <= Total'
            /\ \A x : x # None => Share(x) <= Share(x)'
        BY <2>1, CountsGrow
      <3> QED
        BY <2>1, <3>1 DEF pagevars
    <2>2. ASSUME NEW n \in Nfts, \E w \in Wallets : Reassign(n, w),
                 robbed' = [v \in Visits |-> robbed[v] \/ visitor[v] = rows[n].owner],
                 UNCHANGED <<visitor, awaited, counted, begun, shown, failed>>
          PROVE  /\ robbed' \in [Visits -> BOOLEAN] /\ \A v \in Visits : robbed[v] => robbed'[v]
                 /\ Total <= Total'
                 /\ \A v \in Visits : robbed'[v] \/ Share(visitor[v]) <= Share(visitor[v])'
      <3>1. /\ Total <= Total'
            /\ \A x : x # rows[n].owner => Share(x) <= Share(x)'
        BY <2>2, CountsGrow
      <3> QED
        BY <2>2, <3>1
    <2> QED
      BY <2>1, <2>2 DEF RowsChange
  <1>2. Total \in Int /\ Total' \in Int /\ \A x : Share(x) \in Int /\ Share(x)' \in Int
    <2>1. Total \in Int /\ \A x : Share(x) \in Int
      BY CountsAre
    <2>2. Recorded' \in SUBSET Nfts /\ \A x : OwnedBy(x, Recorded)' \in SUBSET Nfts
      BY DEF Recorded, OwnedBy
    <2> QED
      BY <2>1, <2>2, Finite DEF Total, Share
  <1>3. ASSUME NEW v \in Visits, visitor[v] # None PROVE Page(v)'
    <2>1. /\ Page(v)
          /\ begun[v].total \in Int /\ begun[v].mine \in Int
          /\ counted[v].total \in Int /\ counted[v].mine \in Int
      BY <1>3 DEF Counts
    <2>2. RoadMap(visitor[v])' = RoadMap(visitor[v])
      BY <1>1 DEF RoadMap, OnRoadMap, Before
    <2> QED
      BY <1>1, <1>2, <1>3, <2>1, <2>2 DEF Page
  <1> QED
    BY <1>1, <1>3

\* A step of one page leaves the others as they were.
LEMMA Undisturbed ==
    ASSUME NEW u, Sound(u), rows' = rows,
           UNCHANGED <<visitor[u], awaited[u], counted[u], begun[u], shown[u], failed[u],
                       robbed[u]>>
    PROVE  Sound(u)'
  <1>1. RoadMap(visitor[u])' = RoadMap(visitor[u])
    BY DEF RoadMap, OnRoadMap, Before
  <1>2. Share(visitor[u])' = Share(visitor[u])
    BY DEF Share, OwnedBy, Recorded, InRows
  <1>3. Total' = Total
    BY DEF Total, Recorded, InRows
  <1> QED
    BY <1>1, <1>2, <1>3 DEF Sound, Page

\* So does a step of a page.
LEMMA PageStep ==
    ASSUME ViewTypeOK, PageInv, NEW v \in Visits,
           \/ \E w \in Visitors : Visit(v, w)
           \/ \E part \in {"total", "mine"} : ReadCount(v, part) \/ CountFails(v, part)
           \/ ReadRounds(v) \/ Refused(v)
    PROVE  PageInv'
  <1> USE DEF PageInv, PageTypeOK
  <1>1. rows' = rows /\ Total' = Total /\ \A x : Share(x)' = Share(x)
    BY DEF Visit, ReadCount, CountFails, ReadRounds, Refused, viewvars, Total, Share,
           Recorded, OwnedBy, InRows
  <1>2. /\ Total \in 0 .. Cardinality(Nfts) /\ Cardinality(Nfts) \in Nat
        /\ \A x : /\ Share(x) \in 0 .. Cardinality(Nfts)
                  /\ MintedTotal(x) \in Counts
                  /\ MintedTotal(x).total = Total /\ MintedTotal(x).mine = Share(x)
    BY CountsAre, ViewAssumption, FS_CardinalityType
  <1>3. ASSUME NEW w \in Visitors, Visit(v, w) PROVE PageInv'
    <2>1. PageTypeOK'
      BY <1>2, <1>3, SeasonAssumption DEF Visit, ReadsOf
    <2>2. Page(v)'
      BY <1>1, <1>2, <1>3 DEF Visit, Page, ReadsOf, Counts, Sound
    <2>3. ASSUME NEW u \in Visits \ {v} PROVE Sound(u)'
      BY <1>1, <1>3, <2>3, Undisturbed DEF Visit
    <2>4. visitor'[v] # None /\ \A u \in Visits \ {v} : visitor'[u] = visitor[u]
      BY <1>3, SeasonAssumption DEF Visit
    <2> QED
      BY <2>1, <2>2, <2>3, <2>4 DEF Sound
  <1>4. ASSUME NEW part \in {"total", "mine"}, ReadCount(v, part) \/ CountFails(v, part)
        PROVE  PageInv'
    <2>1. /\ part \in awaited[v] /\ visitor[v] # None
          /\ awaited' = [awaited EXCEPT ![v] = @ \ {part}]
          /\ UNCHANGED <<visitor, begun, shown, robbed>>
      BY <1>4 DEF ReadCount, CountFails, Sound
    <2>0. counted[v] \in Counts /\ MintedTotal(visitor[v])[part] \in 0 .. Cardinality(Nfts)
      BY <1>2 DEF Counts
    <2>8. /\ failed' \in [Visits -> SUBSET {"total", "mine"}]
          /\ counted' \in [Visits -> Counts]
      <3>1. ASSUME NEW k \in 0 .. Cardinality(Nfts)
            PROVE  [counted[v] EXCEPT ![part] = k] \in Counts
        BY <2>0, <3>1 DEF Counts
      <3>2. CASE ReadCount(v, part)
        BY <2>0, <3>1, <3>2 DEF ReadCount
      <3>3. CASE CountFails(v, part)
        <4>1. [counted[v] EXCEPT ![part] = 0] \in Counts
          BY <1>2, <3>1
        <4>2. /\ counted' = [counted EXCEPT ![v] = [@ EXCEPT ![part] = 0]]
              /\ failed' = [failed EXCEPT ![v] = @ \cup {part}]
          BY <3>3 DEF CountFails
        <4> QED
          BY <4>1, <4>2
      <3> QED
        BY <1>4, <3>2, <3>3
    <2>9. \A u \in Visits \ {v} : counted'[u] = counted[u] /\ failed'[u] = failed[u]
      BY <1>4 DEF ReadCount, CountFails
    <2>2. \/ part \in failed'[v] /\ failed'[v] = failed[v] \cup {part}
          \/ /\ failed'[v] = failed[v]
             /\ part = "total" => counted'[v].total = Total
             /\ part = "mine" => counted'[v].mine = Share(visitor[v])
      BY <1>2, <1>4 DEF ReadCount, CountFails, Counts
    <2>3. /\ part = "total" => counted'[v].mine = counted[v].mine
          /\ part = "mine" => counted'[v].total = counted[v].total
      BY <1>2, <1>4 DEF ReadCount, CountFails, Counts
    <2>4. PageTypeOK'
      BY <2>1, <2>8
    <2>5. Page(v)'
      <3>1. Page(v) /\ awaited'[v] = awaited[v] \ {part}
        BY <2>1 DEF Sound
      <3>2. RoadMap(visitor[v])' = RoadMap(visitor[v])
        BY <2>1 DEF RoadMap, OnRoadMap, Before
      <3>3. /\ begun[v].total \in Int /\ begun[v].mine \in Int
            /\ counted[v].total \in Int /\ counted[v].mine \in Int
            /\ counted'[v].total \in Int /\ counted'[v].mine \in Int
        <4>1. \A c \in Counts : c.total \in Int /\ c.mine \in Int
          BY <1>2 DEF Counts
        <4>2. begun[v] \in Counts /\ counted[v] \in Counts /\ counted'[v] \in Counts
          BY <2>8
        <4> QED
          BY <4>1, <4>2
      <3> QED
        BY <1>1, <1>2, <2>1, <2>2, <2>3, <3>1, <3>2, <3>3 DEF Page
    <2>6. ASSUME NEW u \in Visits \ {v} PROVE Sound(u)'
      BY <1>1, <2>1, <2>6, <2>9, Undisturbed
    <2> QED
      BY <2>1, <2>4, <2>5, <2>6 DEF Sound
  <1>5. ASSUME ReadRounds(v) \/ Refused(v) PROVE PageInv'
    <2>1. /\ visitor[v] # None /\ UNCHANGED <<visitor, counted, begun, robbed>>
          /\ \A u \in Visits \ {v} :
                awaited'[u] = awaited[u] /\ shown'[u] = shown[u] /\ failed'[u] = failed[u]
      BY <1>5 DEF ReadRounds, Refused, Sound
    <2>2. /\ awaited' \in [Visits -> SUBSET {"total", "rounds", "mine"}]
          /\ failed' \in [Visits -> SUBSET {"total", "mine"}]
      BY <1>5 DEF ReadRounds, Refused
    <2>3. \/ failed'[v] = failed[v] /\ awaited'[v] = awaited[v] \ {"rounds"}
          \/ failed'[v] = {"total", "mine"}
      BY <1>5 DEF ReadRounds, Refused
    <2>4. shown'[v] = RoadMap(visitor[v]) \/ shown' = shown
      <3>1. ASSUME ReadRounds(v) PROVE shown'[v] = RoadMap(visitor[v])
        BY <3>1 DEF ReadRounds
      <3> QED
        BY <1>5, <3>1 DEF Refused
    <2>5. Page(v)'
      <3>1. RoadMap(visitor[v])' = RoadMap(visitor[v])
        BY <2>1 DEF RoadMap, OnRoadMap, Before
      <3> QED
        BY <1>1, <2>1, <2>3, <2>4, <3>1 DEF Page, Sound
    <2>6. ASSUME NEW u \in Visits \ {v} PROVE Sound(u)'
      BY <1>1, <2>1, <2>6, Undisturbed
    <2>7. shown' \in [Visits -> {None} \cup {RoadMap(w) : w \in Visitors}]
      BY <1>5, <2>1 DEF ReadRounds, Refused
    <2> QED
      BY <2>1, <2>2, <2>5, <2>6, <2>7 DEF Sound
  <1> QED
    BY <1>3, <1>4, <1>5

\* Every reachable state of the page keeps both invariants.
THEOREM PageInductive == PageSpec => [](IInv /\ PageInv)
  <1>1. ViewInit /\ PageInit => IInv /\ PageInv
    BY InitInv, PageInitInv
  <1>2. IInv /\ PageInv /\ [PageNext]_<<viewvars, pagevars>> => IInv' /\ PageInv'
    <2> SUFFICES ASSUME IInv, PageInv, [PageNext]_<<viewvars, pagevars>>
                 PROVE  IInv' /\ PageInv'
      OBVIOUS
    <2>1. ViewTypeOK
      BY DEF IInv
    <2>2. [ViewNext]_viewvars
      <3>1. RowsChange => ViewNext
        BY DEF RowsChange, ViewNext
      <3> QED
        BY <3>1 DEF PageNext, Visit, ReadCount, CountFails, ReadRounds, Refused
    <2>3. IInv'
      BY <2>2, TypeStep, BegunStep, ConclusionStep DEF IInv
    <2>4. CASE PageNext
      BY <2>1, <2>3, <2>4, RowsChangeStep, PageStep DEF PageNext
    <2>5. CASE UNCHANGED <<viewvars, pagevars>>
      <3>1. /\ rows' = rows
            /\ UNCHANGED <<visitor, awaited, counted, begun, shown, failed, robbed>>
        BY <2>5 DEF viewvars, pagevars
      <3>2. \A v \in Visits : Sound(v)'
        BY <3>1, Undisturbed DEF PageInv
      <3> QED
        BY <2>3, <3>1, <3>2 DEF PageInv, PageTypeOK
    <2> QED
      BY <2>4, <2>5
  <1> QED
    BY <1>1, <1>2, PTL DEF PageSpec

\* The invariant of the pages says what is promised of them.
LEMMA PagesFitIs == PageInv => PagesFit
  <1> SUFFICES ASSUME PageInv, NEW v \in Visits, visitor[v] # None
               PROVE  LET now == MintedTotal(visitor[v])
                      IN  /\ "total" \notin awaited[v] \cup failed[v] =>
                                /\ begun[v].total <= counted[v].total
                                /\ counted[v].total <= now.total
                          /\ /\ visitor[v] # Guest
                             /\ "mine" \notin awaited[v] \cup failed[v]
                             /\ ~robbed[v]
                             => begun[v].mine <= counted[v].mine /\ counted[v].mine <= now.mine
                          /\ shown[v] # None => ListedPools(visitor[v]) \subseteq DOMAIN shown[v]
    BY DEF PagesFit
  <1>1. Page(v)
    BY DEF PageInv, Sound
  <1>2. ListedPools(visitor[v]) \subseteq DOMAIN RoadMap(visitor[v])
    BY SeasonAssumption DEF ListedPools, RoadMap, OnRoadMap
  <1> QED
    BY <1>1, <1>2, CountsAre DEF Page

\* Each number on the page of the season lies between what it would have been when the
\* page was asked for and what it is now, for a count that did not fail and a wallet
\* that lost no row; and the page leaves out no pool that mintingPool shows.
THEOREM PagesAlwaysFit == PageSpec => []PagesFit
  BY PageInductive, PagesFitIs, PTL

-----------------------------------------------------------------------------
(* Holders, calls and pages at once.                                         *)

all == <<vars, viewvars, pagevars>>

\* In any interleaving: the calls and the pages see the same rows change.
Together ==
    \/ Next /\ UNCHANGED <<viewvars, pagevars>>
    \/ /\ ViewNext
       /\ rows' = rows \/ \E r \in Calls, n \in Nfts : Mint(r, n)
       /\ UNCHANGED <<vars, pagevars>>
    \/ PageNext /\ UNCHANGED vars

TogetherSpec == Init /\ ViewInit /\ PageInit /\ [][Together]_all

\* Each part sees steps of its own, or none.
LEMMA TogetherIsEach == [Together]_all => [Next]_vars /\ [ViewNext]_viewvars
  <1>1. RowsChange => ViewNext
    BY DEF RowsChange, ViewNext
  <1>2. PageNext => [ViewNext]_viewvars
    BY <1>1 DEF PageNext, Visit, ReadCount, CountFails, ReadRounds, Refused
  <1> QED
    BY <1>2 DEF Together, all

\* A mint that lands is not recorded yet, and so changes no count of a page.
LEMMA MintDisturbsNoPage ==
    ASSUME ViewTypeOK, PageInv, NEW r \in Calls, NEW n \in Nfts, Mint(r, n),
           UNCHANGED pagevars
    PROVE  PageInv'
  <1> USE DEF PageInv, PageTypeOK
  <1>1. /\ rows \in [Nfts -> {None} \cup Rows] /\ rows[n] = None
        /\ rows' = [rows EXCEPT ![n] = [owner |-> asker[r], here |-> TRUE, recorded |-> FALSE]]
    BY DEF Mint, Land, ViewTypeOK
  <1>2. ~rows'[n].recorded /\ \A m \in Nfts \ {n} : rows'[m] = rows[m]
    BY <1>1
  <1>3. Recorded' = Recorded /\ n \notin Recorded
    BY <1>1, <1>2 DEF Recorded, InRows
  <1>4. \A x : OwnedBy(x, Recorded)' = OwnedBy(x, Recorded)
    BY <1>2, <1>3 DEF OwnedBy, InRows, Recorded
  <1>5. Total' = Total /\ \A x : Share(x)' = Share(x)
    BY <1>3, <1>4 DEF Total, Share
  <1>6. UNCHANGED <<visitor, awaited, counted, begun, shown, failed, robbed>>
    BY DEF pagevars
  <1>7. ASSUME NEW v \in Visits PROVE Sound(v)'
    <2>1. RoadMap(visitor[v])' = RoadMap(visitor[v])
      BY <1>6 DEF RoadMap, OnRoadMap, Before
    <2> QED
      BY <1>5, <1>6, <2>1 DEF Sound, Page
  <1> QED
    BY <1>6, <1>7

\* The pages keep their invariant whatever the other two do.
LEMMA TogetherKeepsPages == IInv /\ PageInv /\ [Together]_all => PageInv'
  <1> SUFFICES ASSUME IInv, PageInv, [Together]_all PROVE PageInv'
    OBVIOUS
  <1>1. ViewTypeOK
    BY DEF IInv
  <1>2. ASSUME rows' = rows, UNCHANGED pagevars PROVE PageInv'
    <2>1. UNCHANGED <<visitor, awaited, counted, begun, shown, failed, robbed>>
      BY <1>2 DEF pagevars
    <2>2. \A v \in Visits : Sound(v)'
      BY <1>2, <2>1, Undisturbed DEF PageInv
    <2> QED
      BY <2>1, <2>2 DEF PageInv, PageTypeOK
  <1>3. CASE PageNext
    BY <1>1, <1>3, RowsChangeStep, PageStep DEF PageNext
  <1>4. ASSUME NEW r \in Calls, NEW n \in Nfts, Mint(r, n), UNCHANGED pagevars
        PROVE  PageInv'
    BY <1>1, <1>4, MintDisturbsNoPage
  <1>5. CASE UNCHANGED <<viewvars, pagevars>>
    BY <1>2, <1>5 DEF viewvars
  <1> QED
    BY <1>2, <1>3, <1>4, <1>5 DEF Together, all

\* The cache of holders, the calls that count and the pages keep all their promises when
\* they interleave freely, and not only while the others rest.
THEOREM TogetherAllHold ==
    TogetherSpec => /\ [](TypesOK /\ UsableEntryIsCurrent /\ AnswersWereTrue)
                    /\ [](AnswersFit /\ PagesFit)
                    /\ MintsWithinLimits
  <1>1. TogetherSpec => Spec /\ ViewSpec
    BY TogetherIsEach, PTL DEF TogetherSpec, Spec, ViewSpec
  <1>2. TogetherSpec => [](IInv /\ PageInv)
    <2>1. PageInit => PageInv
      BY PageInitInv
    <2> QED
      BY <1>1, <2>1, Inductive, TogetherKeepsPages, PTL DEF TogetherSpec
  <1>3. PageInv => PagesFit /\ PageTypeOK
    BY PagesFitIs DEF PageInv
  <1> QED
    BY <1>1, <1>2, <1>3, TypeCorrect, ViewTypeCorrect, UsableEntryAlwaysCurrent,
       AnswersAlwaysWereTrue, AnswersFitAlways, MintsStayWithinLimits, PTL DEF TypesOK

\* The run's instance, in which each part runs while the others rest, does nothing the
\* three could not do together: with no page begun, a second mint robs nobody.
THEOREM PartsRunTogether == PartsSpec => TogetherSpec
  <1> DEFINE I == TypeOK /\ IInv /\ PageInv
  <1>1. I /\ [PartsNext]_all => [Together]_all
    <2> SUFFICES ASSUME I, PartsNext PROVE Together \/ UNCHANGED all
      BY DEF all
    <2>1. CASE Next /\ UNCHANGED <<viewvars, pagevars>>
      BY <2>1 DEF Together
    <2>2. CASE PageNext /\ UNCHANGED vars
      BY <2>2 DEF Together
    <2>3. CASE ViewNext /\ PagesRest /\ UNCHANGED <<vars, pagevars>>
      <3>1. ASSUME NEW n \in Nfts,
                   \/ \E w \in Wallets, here \in BOOLEAN : MintElsewhere(n, w, here)
                   \/ \E here \in BOOLEAN : Record(n, here)
            PROVE  RowsChange
        BY <2>3, <3>1 DEF RowsChange
      <3>2. ASSUME NEW n \in Nfts, NEW w \in Wallets, Reassign(n, w) PROVE RowsChange
        <4>1. rows[n] \in Rows
          BY <3>2 DEF Reassign, Recorded, InRows, IInv, ViewTypeOK
        <4>2. rows[n].owner # None
          BY <4>1, ViewAssumption DEF Rows
        <4>3. robbed' = robbed /\ robbed \in [Visits -> BOOLEAN]
              /\ UNCHANGED <<visitor, awaited, counted, begun, shown, failed>>
          BY <2>3 DEF pagevars, PageInv, PageTypeOK
        <4>4. robbed' = [v \in Visits |-> robbed[v] \/ visitor[v] = rows[n].owner]
          BY <2>3, <4>2, <4>3 DEF PagesRest
        <4> QED
          BY <3>2, <4>3, <4>4 DEF RowsChange
      <3>3. ASSUME NEW r \in Calls,
                   \/ \E w \in Wallets, asked \in {"named", "first", "behind"} :
                        Ask(r, w, asked)
                   \/ ReadPools(r) \/ ReadMine(r) \/ ReadTotal(r) \/ TotalFails(r)
                   \/ \E given \in Lists : Answer(r, given)
                   \/ Fails(r)
            PROVE  rows' = rows
        BY <3>3 DEF Ask, ReadPools, ReadMine, ReadTotal, TotalFails, Answer, Fails
      <3>4. \/ RowsChange
            \/ rows' = rows
            \/ \E r \in Calls, n \in Nfts : Mint(r, n)
        BY <2>3, <3>1, <3>2, <3>3 DEF ViewNext
      <3> QED
        BY <2>3, <3>4 DEF Together, PageNext
    <2> QED
      BY <2>1, <2>2, <2>3 DEF PartsNext
  <1>2. I /\ [Together]_all => I'
    BY TogetherIsEach, TogetherKeepsPages, HoldersTypeStep, TypeStep, BegunStep,
       ConclusionStep DEF IInv
  <1>3. Init /\ ViewInit /\ PageInit => I
    BY InitType, InitInv, PageInitInv
  <1> QED
    BY <1>1, <1>2, <1>3, PTL DEF PartsSpec, PartsInit, TogetherSpec, all

\* So what holds of the three together holds of it, the types among it.
THEOREM PartsTypesCorrect == PartsSpec => []TypesOK
  BY PartsRunTogether, TogetherAllHold, PTL

=============================================================================
