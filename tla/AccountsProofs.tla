----------------------------- MODULE AccountsProofs -----------------------------
(***************************************************************************)
(* Theorems about Accounts, for any wallets, networks and requests, any     *)
(* life of a token and any bound on the clock; and about Accounts and       *)
(* Investing side by side, as MCUpserts has them.                          *)
(***************************************************************************)
EXTENDS MCUpserts, InvestingProofs

\* The request has inserted something.
Inserted(r) == \E d \in users \cup codes : d.by = r

\* The ids that have a user document, the wallets that have one of some network, and the
\* wallets that have a referral code.
Present == {d.id : d \in users}
Known == {w \in Wallets : \E n \in Networks : <<n, w>> \in Present}
Coded == {d.of : d \in codes}

\* A request has a wallet from when it comes in, a sign-in a network too, and inserts
\* later.
BegunInv ==
    \A r \in Requests :
        /\ at[r] # "idle" => wallet[r] \in Wallets
        /\ at[r] \in {"upsert", "insert"} => network[r] \in Networks
        /\ at[r] = "idle" => ~Inserted(r)

\* What a request found when it came in is there still, and it goes no further than
\* to find it again.
LateInv ==
    \A r \in Requests :
        late[r] =>
            /\ ~Inserted(r) /\ at[r] \notin {"insert", "create"}
            /\ at[r] = "upsert" => UserId(r) \in Present
            /\ at[r] = "find" => wallet[r] \in Coded

\* Whoever is about to get tokens is among the users, of some network.
GrantedInv ==
    /\ \A r \in Requests : at[r] = "sign" => wallet[r] \in Known
    /\ \A t \in tokens : t.sub \in Known

\* No token outlives the wallet's last one.
LifeInv ==
    /\ \A w \in Wallets : served[w] <= time
    /\ \A t \in tokens : t.exp <= served[t.sub] + RefreshLife
    /\ \A r \in Requests : rested[r] < RefreshLife

AccountsInv == AccountsTypeOK /\ BegunInv /\ LateInv /\ GrantedInv /\ LifeInv

-----------------------------------------------------------------------------
(* The steps.                                                                *)

\* The invariant holds at the start.
LEMMA InitInv == AccountsInit => AccountsInv
  BY AccountsAssumption
  DEF AccountsInit, AccountsInv, AccountsTypeOK, BegunInv, LateInv, GrantedInv, LifeInv,
      Inserted, Waits

\* Every step keeps the types.
LEMMA AccountsTypeStep == AccountsInv /\ [AccountsNext]_accounts => AccountsTypeOK'
  <1> SUFFICES ASSUME AccountsInv, [AccountsNext]_accounts PROVE AccountsTypeOK'
    OBVIOUS
  <1> USE AccountsAssumption DEF AccountsInv, AccountsTypeOK, Waits, Wait
  <1>1. CASE Pass
    BY <1>1 DEF Pass
  <1>2. ASSUME NEW r \in Requests, NEW w \in Wallets, NEW n \in Networks,
               VerifySignIn(r, w, n)
        PROVE  AccountsTypeOK'
    <2>1. IsUser(<<n, w>>) \in BOOLEAN
      BY DEF IsUser
    <2> QED
      BY <1>2, <2>1 DEF VerifySignIn, Begin
  <1>3. ASSUME NEW r \in Requests, Upsert(r) PROVE AccountsTypeOK'
    BY <1>3 DEF Upsert
  <1>4. ASSUME NEW r \in Requests, InsertUser(r) \/ UpsertFails(r) PROVE AccountsTypeOK'
    <2>1. at[r] = "insert" => NewUser(r) \in UserDocuments
      BY DEF BegunInv, NewUser, UserId, UserIds, UserDocuments
    <2> QED
      BY <1>4, <2>1 DEF InsertUser, UpsertFails
  <1>5. ASSUME NEW r \in Requests, NEW t \in tokens, Refresh(r, t) PROVE AccountsTypeOK'
    <2>1. t.sub \in Wallets /\ time - served[t.sub] \in 0 .. LastInstant
      BY DEF LifeInv
    <2> QED
      BY <1>5, <2>1 DEF Refresh, Begin
  <1>6. ASSUME NEW r \in Requests, NEW t \in tokens, RefuseRefresh(r, t)
        PROVE  AccountsTypeOK'
    BY <1>6 DEF RefuseRefresh, Begin
  <1>7. ASSUME NEW r \in Requests, NEW w \in Wallets, AskCode(r, w) PROVE AccountsTypeOK'
    <2>1. HasCode(w) \in BOOLEAN
      BY DEF HasCode
    <2> QED
      BY <1>7, <2>1 DEF AskCode, Begin
  <1>8. ASSUME NEW r \in Requests, SignTokens(r) PROVE AccountsTypeOK'
    <2>1. wallet[r] \in Wallets /\ Expiry \in 0 .. LastInstant + RefreshLife
      BY <1>8 DEF SignTokens, BegunInv, Expiry
    <2> QED
      BY <1>8, <2>1 DEF SignTokens
  <1>9. ASSUME NEW r \in Requests, FindCode(r) PROVE AccountsTypeOK'
    BY <1>9 DEF FindCode
  <1>10. ASSUME NEW r \in Requests, CreateCode(r) \/ CodeFails(r) PROVE AccountsTypeOK'
    <2>1. NewCode(r) \in CodeDocuments
      BY <1>10 DEF CreateCode, CodeFails, BegunInv, NewCode, CodeDocuments
    <2> QED
      BY <1>10, <2>1 DEF CreateCode, CodeFails
  <1>11. CASE ProcessEnds
    BY <1>11 DEF ProcessEnds
  <1>12. CASE UNCHANGED accounts
    BY <1>12 DEF accounts
  <1> QED
    BY <1>1, <1>2, <1>3, <1>4, <1>5, <1>6, <1>7, <1>8, <1>9, <1>10, <1>11, <1>12
    DEF AccountsNext

\* Documents are never removed.
LEMMA Grow ==
    AccountsInv /\ [AccountsNext]_accounts =>
        Present \subseteq Present' /\ Known \subseteq Known' /\ Coded \subseteq Coded'
  <1> SUFFICES ASSUME [AccountsNext]_accounts
               PROVE  Present \subseteq Present' /\ Known \subseteq Known' /\ Coded \subseteq Coded'
    OBVIOUS
  <1>1. users \subseteq users' /\ codes \subseteq codes'
    BY DEF AccountsNext, accounts, Pass, VerifySignIn, Upsert, InsertUser, UpsertFails,
       Refresh, RefuseRefresh, AskCode, SignTokens, FindCode, CreateCode, CodeFails,
       ProcessEnds
  <1>2. Present \subseteq Present' /\ Coded \subseteq Coded'
    BY <1>1 DEF Present, Coded
  <1> QED
    BY <1>2 DEF Known

\* A request that comes in has inserted nothing; whatever is inserted, a request that
\* came in before inserts it.
LEMMA BegunStep == AccountsInv /\ [AccountsNext]_accounts => BegunInv'
  <1> SUFFICES ASSUME AccountsInv, [AccountsNext]_accounts PROVE BegunInv'
    OBVIOUS
  <1> USE DEF AccountsInv, AccountsTypeOK, BegunInv, Inserted, Wait
  <1>1. ASSUME NEW r \in Requests, NEW w \in Wallets, NEW for,
               Begin(r, w, for), UNCHANGED <<users, codes>>,
               \/ for \notin {"upsert", "insert"} /\ network' = network
               \/ \E n \in Networks : network' = [network EXCEPT ![r] = n]
        PROVE  BegunInv'
    BY <1>1 DEF Begin
  <1>2. ASSUME NEW r \in Requests, at[r] # "idle", NEW for \in Waits \ {"idle", "upsert"},
               Wait(r, for), for = "insert" => at[r] = "upsert",
               UNCHANGED <<wallet, network>>,
               users' \cup codes' \subseteq users \cup codes \cup {NewUser(r), NewCode(r)}
        PROVE  BegunInv'
    <2>1. NewUser(r).by = r /\ NewCode(r).by = r
      BY DEF NewUser, NewCode
    <2>2. \A q \in Requests : q # r => (Inserted(q)' => Inserted(q))
      BY <1>2, <2>1
    <2>3. at' = [at EXCEPT ![r] = for] /\ for # "idle"
      BY <1>2
    <2> QED
      BY <1>2, <2>2, <2>3
  <1>3. CASE Pass \/ ProcessEnds \/ UNCHANGED accounts
    BY <1>3 DEF Pass, ProcessEnds, Waiting, accounts
  <1>4. ASSUME NEW r \in Requests,
               \/ Upsert(r) \/ InsertUser(r) \/ UpsertFails(r) \/ SignTokens(r)
               \/ FindCode(r) \/ CreateCode(r) \/ CodeFails(r)
        PROVE  BegunInv'
    BY <1>2, <1>4 DEF Upsert, InsertUser, UpsertFails, SignTokens, FindCode, CreateCode,
                      CodeFails, Waits
  <1>5. ASSUME NEW r \in Requests, NEW w \in Wallets, NEW n \in Networks,
               VerifySignIn(r, w, n)
        PROVE  BegunInv'
    BY <1>1, <1>5 DEF VerifySignIn
  <1>6. ASSUME NEW r \in Requests, NEW t \in tokens, Refresh(r, t) \/ RefuseRefresh(r, t)
        PROVE  BegunInv'
    BY <1>1, <1>6 DEF Refresh, RefuseRefresh
  <1>7. ASSUME NEW r \in Requests, NEW w \in Wallets, AskCode(r, w) PROVE BegunInv'
    BY <1>1, <1>7 DEF AskCode
  <1> QED
    BY <1>3, <1>4, <1>5, <1>6, <1>7 DEF AccountsNext

\* A request that came in late finds what was there.
LEMMA LateStep == AccountsInv /\ [AccountsNext]_accounts => LateInv'
  <1> SUFFICES ASSUME AccountsInv, [AccountsNext]_accounts PROVE LateInv'
    OBVIOUS
  <1> USE Grow DEF AccountsInv, AccountsTypeOK, LateInv, Inserted, UserId, Wait
  <1>1. ASSUME NEW r \in Requests, NEW w \in Wallets, NEW n \in Networks,
               VerifySignIn(r, w, n)
        PROVE  LateInv'
    <2>1. IsUser(<<n, w>>) <=> <<n, w>> \in Present
      BY DEF IsUser, Present
    <2>2. ~Inserted(r)
      BY <1>1 DEF VerifySignIn, Begin, BegunInv
    <2>3. late'[r] => <<n, w>> \in Present'
      BY <1>1, <2>1 DEF VerifySignIn, Begin
    <2>4. at'[r] = "upsert" /\ UserId(r)' = <<n, w>>
      BY <1>1 DEF VerifySignIn, Begin
    <2>5. \A q \in Requests \ {r} :
            /\ at'[q] = at[q] /\ late'[q] = late[q] /\ wallet'[q] = wallet[q]
            /\ UserId(q)' = UserId(q)
      BY <1>1 DEF VerifySignIn, Begin
    <2>6. \A q \in Requests : Inserted(q)' <=> Inserted(q)
      BY <1>1 DEF VerifySignIn
    <2> HIDE DEF UserId, Inserted
    <2> QED
      BY <2>2, <2>3, <2>4, <2>5, <2>6
  <1>2. ASSUME NEW r \in Requests, NEW w \in Wallets, AskCode(r, w) PROVE LateInv'
    <2>1. HasCode(w) <=> w \in Coded
      BY DEF HasCode, Coded
    <2> QED
      BY <1>2, <2>1 DEF AskCode, Begin, BegunInv
  <1>3. ASSUME NEW r \in Requests, NEW t \in tokens, Refresh(r, t) \/ RefuseRefresh(r, t)
        PROVE  LateInv'
    BY <1>3 DEF Refresh, RefuseRefresh, Begin
  <1>4. ASSUME NEW r \in Requests, Upsert(r) \/ SignTokens(r) \/ FindCode(r) PROVE LateInv'
    <2>1. IsUser(UserId(r)) <=> UserId(r) \in Present
      BY DEF IsUser, Present
    <2>2. HasCode(wallet[r]) <=> wallet[r] \in Coded
      BY DEF HasCode, Coded
    <2> QED
      BY <1>4, <2>1, <2>2 DEF Upsert, SignTokens, FindCode
  <1>5. ASSUME NEW r \in Requests, InsertUser(r) \/ UpsertFails(r) PROVE LateInv'
    BY <1>5 DEF InsertUser, UpsertFails, NewUser
  <1>6. ASSUME NEW r \in Requests, CreateCode(r) \/ CodeFails(r) PROVE LateInv'
    BY <1>6 DEF CreateCode, CodeFails, NewCode
  <1>7. CASE Pass \/ ProcessEnds \/ UNCHANGED accounts
    BY <1>7 DEF Pass, ProcessEnds, Waiting, accounts
  <1> QED
    BY <1>1, <1>2, <1>3, <1>4, <1>5, <1>6, <1>7 DEF AccountsNext

\* Tokens are given to users only.
LEMMA GrantedStep == AccountsInv /\ [AccountsNext]_accounts => GrantedInv'
  <1> SUFFICES ASSUME AccountsInv, [AccountsNext]_accounts PROVE GrantedInv'
    OBVIOUS
  <1> USE Grow DEF AccountsInv, AccountsTypeOK, GrantedInv, Wait
  <1>1. ASSUME NEW r \in Requests, NEW w \in Wallets, NEW n \in Networks,
               VerifySignIn(r, w, n)
        PROVE  GrantedInv'
    BY <1>1 DEF VerifySignIn, Begin
  <1>2. ASSUME NEW r \in Requests, NEW t \in tokens,
               Refresh(r, t) \/ RefuseRefresh(r, t)
        PROVE  GrantedInv'
    BY <1>2 DEF Refresh, RefuseRefresh, Begin
  <1>3. ASSUME NEW r \in Requests, Upsert(r) \/ UpsertFails(r) PROVE GrantedInv'
    <2>1. CASE Upsert(r)
      <3>1. IsUser(UserId(r)) <=> UserId(r) \in Present
        BY DEF IsUser, Present
      <3>2. UserId(r) \in Present => wallet[r] \in Known
        BY <2>1 DEF Upsert, BegunInv, UserId, Known
      <3> QED
        BY <2>1, <3>1, <3>2 DEF Upsert
    <2>2. CASE UpsertFails(r)
      BY <1>3, <2>2 DEF UpsertFails
    <2> QED
      BY <1>3, <2>1, <2>2
  <1>4. ASSUME NEW r \in Requests, InsertUser(r) PROVE GrantedInv'
    <2>1. NewUser(r) \in users' /\ NewUser(r).id = <<network[r], wallet[r]>>
      BY <1>4 DEF InsertUser, NewUser, UserId
    <2>2. network[r] \in Networks
      BY <1>4 DEF InsertUser, BegunInv
    <2>3. wallet[r] \in Wallets
      BY <1>4 DEF InsertUser, BegunInv
    <2>4. <<network[r], wallet[r]>> \in Present'
      BY <2>1 DEF Present
    <2>5. wallet[r] \in Known'
      BY <2>2, <2>3, <2>4 DEF Known
    <2> QED
      BY <1>4, <2>5 DEF InsertUser
  <1>5. ASSUME NEW r \in Requests, SignTokens(r) PROVE GrantedInv'
    BY <1>5 DEF SignTokens
  <1>6. ASSUME NEW r \in Requests,
               \/ \E w \in Wallets : AskCode(r, w)
               \/ FindCode(r) \/ CreateCode(r) \/ CodeFails(r)
        PROVE  GrantedInv'
    BY <1>6 DEF AskCode, Begin, FindCode, CreateCode, CodeFails
  <1>7. CASE Pass \/ ProcessEnds \/ UNCHANGED accounts
    BY <1>7 DEF Pass, ProcessEnds, Waiting, accounts
  <1> QED
    BY <1>1, <1>2, <1>3, <1>4, <1>5, <1>6, <1>7 DEF AccountsNext

\* A wallet's newest token is the last to expire.
LEMMA LifeStep == AccountsInv /\ [AccountsNext]_accounts => LifeInv'
  <1> SUFFICES ASSUME AccountsInv, [AccountsNext]_accounts PROVE LifeInv'
    OBVIOUS
  <1> USE AccountsAssumption DEF AccountsInv, AccountsTypeOK, LifeInv
  <1>1. CASE Pass
    BY <1>1 DEF Pass
  <1>2. ASSUME NEW r \in Requests, NEW t \in tokens, Refresh(r, t) PROVE LifeInv'
    BY <1>2 DEF Refresh
  <1>3. ASSUME NEW r \in Requests, SignTokens(r) PROVE LifeInv'
    <2>1. wallet[r] \in Wallets
      BY <1>3 DEF SignTokens, BegunInv
    <2>2. \A w \in Wallets : served[w] <= served'[w] /\ served'[w] <= time
      BY <1>3, <2>1 DEF SignTokens
    <2>3. \A t \in tokens' : t.exp <= served'[t.sub] + RefreshLife
      <3> TAKE t \in tokens'
      <3>1. CASE t \in tokens
        BY <2>2, <3>1, t.sub \in Wallets, <1>3 DEF SignTokens
      <3>2. CASE t = [sub |-> wallet[r], exp |-> Expiry]
        BY <1>3, <2>1, <3>2 DEF SignTokens, Expiry
      <3> QED
        BY <1>3, <3>1, <3>2 DEF SignTokens
    <2> QED
      BY <1>3, <2>2, <2>3 DEF SignTokens
  <1>4. ASSUME UNCHANGED <<time, tokens, served, rested>> PROVE LifeInv'
    BY <1>4
  <1>5. ASSUME NEW r \in Requests,
               \/ \E w \in Wallets, n \in Networks : VerifySignIn(r, w, n)
               \/ \E t \in tokens : RefuseRefresh(r, t)
               \/ \E w \in Wallets : AskCode(r, w)
               \/ Upsert(r) \/ InsertUser(r) \/ UpsertFails(r)
               \/ FindCode(r) \/ CreateCode(r) \/ CodeFails(r)
        PROVE  LifeInv'
    BY <1>4, <1>5 DEF VerifySignIn, RefuseRefresh, AskCode, Upsert, InsertUser,
                      UpsertFails, FindCode, CreateCode, CodeFails
  <1>6. CASE ProcessEnds \/ UNCHANGED accounts
    BY <1>4, <1>6 DEF ProcessEnds, accounts
  <1> QED
    BY <1>1, <1>2, <1>3, <1>5, <1>6 DEF AccountsNext

-----------------------------------------------------------------------------
(* The theorems.                                                             *)

\* Every reachable state keeps the invariant.
THEOREM AccountsInductive == AccountsSpec => []AccountsInv
  <1>1. AccountsInv /\ [AccountsNext]_accounts => AccountsInv'
    BY AccountsTypeStep, BegunStep, LateStep, GrantedStep, LifeStep DEF AccountsInv
  <1> QED
    BY InitInv, <1>1, PTL DEF AccountsSpec

\* Documents, tokens and requests have their types.
THEOREM AccountsTypeCorrect == AccountsSpec => []AccountsTypeOK
  <1>1. AccountsInv => AccountsTypeOK
    BY DEF AccountsInv
  <1> QED
    BY <1>1, AccountsInductive, PTL

\* Neither upsert nor generatePreferCode doubles a document that was there when they
\* were asked.
THEOREM LateRequestsAlwaysAddNothing == AccountsSpec => []LateRequestsAddNothing
  <1>1. AccountsInv => LateRequestsAddNothing
    BY DEF AccountsInv, LateInv, Inserted, LateRequestsAddNothing
  <1> QED
    BY <1>1, AccountsInductive, PTL

\* Tokens are had by wallets that signed and have a document of some network, and are
\* renewed only in time.
THEOREM SessionsAlwaysEarned == AccountsSpec => []SessionsAreEarned
  <1>1. AccountsInv => SessionsAreEarned
    BY DEF AccountsInv, GrantedInv, Known, Present, IsUser, LifeInv, SessionsAreEarned
  <1> QED
    BY <1>1, AccountsInductive, PTL

-----------------------------------------------------------------------------
(* Accounts and Investing side by side.                                      *)

\* The run's instance is a behaviour of each, whose variables the other leaves alone, so
\* what is proved of each holds of it.
THEOREM UpsertsAreEach == UpsertsSpec => Spec /\ AccountsSpec
  <1>1. [UpsertsNext]_<<vars, accounts>> => [Next]_vars /\ [AccountsNext]_accounts
    BY DEF UpsertsNext
  <1> QED
    BY <1>1, PTL DEF UpsertsSpec, UpsertsInit, Spec, AccountsSpec

\* The rows, the pushes, the documents and the tokens keep their types in it.
THEOREM UpsertsTypesCorrect == UpsertsSpec => []TypesOK
  BY UpsertsAreEach, TypeCorrect, AccountsTypeCorrect, PTL DEF TypesOK

=============================================================================
