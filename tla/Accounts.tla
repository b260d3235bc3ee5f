-------------------------------- MODULE Accounts --------------------------------
(***************************************************************************)
(* Sign-in, sessions and referral codes.  AuthController keeps no sessions: *)
(* a refresh token is all there is of one.  A sign-in puts a document in   *)
(* `users`, under the network it names and the wallet, and whoever names a *)
(* wallet and asks for its referral code one in `refcodes`, unless they    *)
(* find one already; neither collection has a unique index, so that        *)
(* finding and inserting are two steps.  Tokens name the wallet alone.     *)
(***************************************************************************)
EXTENDS Integers

CONSTANTS
    Wallets,
    Networks,     \* what a sign-in may give as body.network
    Requests,     \* calls of verify, refresh and generate-prefer-code
    Nobody,       \* the wallet, or network, of a call that has none
    RefreshLife,  \* of a refresh token, seven days
    LastInstant   \* bound: the last instant of the clock

ASSUME AccountsAssumption ==
    RefreshLife \in Nat \ {0} /\ LastInstant \in Nat /\ Nobody \notin Wallets

VARIABLES
    time,
    users,    \* the documents of the users; `by` stands for the _id
    codes,    \* the referral codes of wallets, likewise
    tokens,   \* the refresh tokens clients hold
    at,       \* what a request waits for
    wallet,   \* its wallet
    network,  \* of a sign-in, its network
    late,     \* history: what it may insert was there when it came in
    served,   \* history: when the wallet was last given tokens
    rested    \* history: how long before a refresh that was

accounts == <<time, users, codes, tokens, at, wallet, network, late, served, rested>>

\* The id of a user document is `${network}:${publicKey}`.
UserIds == Networks \X Wallets
UserDocuments == [id : UserIds, by : Requests]
CodeDocuments == [of : Wallets, by : Requests]
Waits == {"idle", "upsert", "insert", "sign", "find", "create",
          "done", "refused", "failed", "lost"}
Waiting(r) == at[r] \in {"upsert", "insert", "sign", "find", "create"}

IsUser(id) == \E d \in users : d.id = id

HasCode(w) == \E d \in codes : d.of = w

\* The document a sign-in upserts, and the one it inserts when there is none.
UserId(r) == <<network[r], wallet[r]>>
NewUser(r) == [id |-> UserId(r), by |-> r]
NewCode(r) == [of |-> wallet[r], by |-> r]

AccountsInit ==
    /\ time = 0
    /\ users = {}
    /\ codes = {}
    /\ tokens = {}
    /\ at = [r \in Requests |-> "idle"]
    /\ wallet = [r \in Requests |-> Nobody]
    /\ network = [r \in Requests |-> Nobody]
    /\ late = [r \in Requests |-> FALSE]
    /\ served = [w \in Wallets |-> 0]
    /\ rested = [r \in Requests |-> 0]

Wait(r, for) == at' = [at EXCEPT ![r] = for]

Begin(r, w, for) ==
    /\ at[r] = "idle"
    /\ Wait(r, for)
    /\ wallet' = [wallet EXCEPT ![r] = w]

Pass ==
    /\ time < LastInstant
    /\ time' = time + 1
    /\ UNCHANGED <<users, codes, tokens, at, wallet, network, late, served, rested>>

-----------------------------------------------------------------------------
(* Sign-in.                                                                  *)

\* The wallet has signed the message, which says nothing of the network it comes with:
\* UserService.upsert.
VerifySignIn(r, w, n) ==
    /\ Begin(r, w, "upsert")
    /\ network' = [network EXCEPT ![r] = n]
    /\ late' = [late EXCEPT ![r] = IsUser(<<n, w>>)]
    /\ UNCHANGED <<time, users, codes, tokens, served, rested>>

\* Variant with a bug: a document is made for every sign-in.
UpsertBlindly(r) ==
    /\ at[r] = "upsert"
    /\ Wait(r, "insert")
    /\ UNCHANGED <<time, users, codes, tokens, wallet, network, late, served, rested>>

\* The database finds the document, of which nothing changes, or none.
Upsert(r) ==
    /\ at[r] = "upsert"
    /\ Wait(r, IF IsUser(UserId(r)) THEN "sign" ELSE "insert")
    /\ UNCHANGED <<time, users, codes, tokens, wallet, network, late, served, rested>>

InsertUser(r) ==
    /\ at[r] = "insert"
    /\ users' = users \cup {NewUser(r)}
    /\ Wait(r, "sign")
    /\ UNCHANGED <<time, codes, tokens, wallet, network, late, served, rested>>

\* Variant with a bug: upsert is told not to throw.
UpsertFailsQuietly(r) ==
    /\ at[r] \in {"upsert", "insert"}
    /\ Wait(r, "sign")
    /\ UNCHANGED <<time, users, codes, tokens, wallet, network, late, served, rested>>

\* 'Failed to register user'; the document may be there all the same.
UpsertFails(r) ==
    /\ at[r] \in {"upsert", "insert"}
    /\ \/ UNCHANGED users
       \/ at[r] = "insert" /\ users' = users \cup {NewUser(r)}
    /\ Wait(r, "failed")
    /\ UNCHANGED <<time, codes, tokens, wallet, network, late, served, rested>>

-----------------------------------------------------------------------------
(* Tokens.                                                                   *)

\* A refresh token that has not expired is as good as a signature.
Refresh(r, t) ==
    /\ time < t.exp
    /\ Begin(r, t.sub, "sign")
    /\ rested' = [rested EXCEPT ![r] = time - served[t.sub]]
    /\ UNCHANGED <<time, users, codes, tokens, network, late, served>>

\* 'Invalid refresh token'
RefuseRefresh(r, t) ==
    /\ time >= t.exp
    /\ Begin(r, t.sub, "refused")
    /\ UNCHANGED <<time, users, codes, tokens, network, late, served, rested>>

\* Variant with a bug: expiresIn is a number of milliseconds.
ExpiryInMilliseconds == time + 1000 * RefreshLife

Expiry == time + RefreshLife

\* signAsync, after either: the client gets two new tokens.
SignTokens(r) ==
    /\ at[r] = "sign"
    /\ tokens' = tokens \cup {[sub |-> wallet[r], exp |-> Expiry]}
    /\ served' = [served EXCEPT ![wallet[r]] = time]
    /\ Wait(r, "done")
    /\ UNCHANGED <<time, users, codes, wallet, network, late, rested>>

-----------------------------------------------------------------------------
(* Referral codes.                                                           *)

\* The wallet is what the access token says, which is decoded and not verified: it may
\* be any, with or without a session or a document.
AskCode(r, w) ==
    /\ Begin(r, w, "find")
    /\ late' = [late EXCEPT ![r] = HasCode(w)]
    /\ UNCHANGED <<time, users, codes, tokens, network, served, rested>>

FindCode(r) ==
    /\ at[r] = "find"
    /\ Wait(r, IF HasCode(wallet[r]) THEN "done" ELSE "create")
    /\ UNCHANGED <<time, users, codes, tokens, wallet, network, late, served, rested>>

CreateCode(r) ==
    /\ at[r] = "create"
    /\ codes' = codes \cup {NewCode(r)}
    /\ Wait(r, "done")
    /\ UNCHANGED <<time, users, tokens, wallet, network, late, served, rested>>

CodeFails(r) ==
    /\ at[r] \in {"find", "create"}
    /\ \/ UNCHANGED codes
       \/ at[r] = "create" /\ codes' = codes \cup {NewCode(r)}
    /\ Wait(r, "failed")
    /\ UNCHANGED <<time, users, tokens, wallet, network, late, served, rested>>

\* The process ends: its requests are lost, the tokens are not.
ProcessEnds ==
    /\ at' = [r \in Requests |-> IF Waiting(r) THEN "lost" ELSE at[r]]
    /\ UNCHANGED <<time, users, codes, tokens, wallet, network, late, served, rested>>

AccountsNext ==
    \/ Pass
    \/ \E r \in Requests :
          \/ \E w \in Wallets, n \in Networks : VerifySignIn(r, w, n)
          \/ Upsert(r) \/ InsertUser(r) \/ UpsertFails(r)
          \/ \E t \in tokens : Refresh(r, t) \/ RefuseRefresh(r, t)
          \/ SignTokens(r)
          \/ \E w \in Wallets : AskCode(r, w)
          \/ FindCode(r) \/ CreateCode(r) \/ CodeFails(r)
    \/ ProcessEnds

AccountsSpec == AccountsInit /\ [][AccountsNext]_accounts

-----------------------------------------------------------------------------
(* Properties.                                                               *)

AccountsTypeOK ==
    /\ time \in 0 .. LastInstant
    /\ users \subseteq UserDocuments
    /\ codes \subseteq CodeDocuments
    /\ tokens \subseteq [sub : Wallets, exp : 0 .. LastInstant + RefreshLife]
    /\ at \in [Requests -> Waits]
    /\ wallet \in [Requests -> Wallets \cup {Nobody}]
    /\ network \in [Requests -> Networks \cup {Nobody}]
    /\ late \in [Requests -> BOOLEAN]
    /\ served \in [Wallets -> 0 .. LastInstant]
    /\ rested \in [Requests -> 0 .. LastInstant]

\* A wallet that has a document of the network it signs in with, or a referral code when
\* one is asked for, gets no second one: only requests that overlap leave two.
LateRequestsAddNothing ==
    \A r \in Requests : late[r] => \A d \in users \cup codes : d.by # r

\* A session is had by a sign-in, after which the wallet has a document of some network
\* whatever failed and whatever ended, and is kept by coming back within the life of a
\* token: a wallet that has been away for longer gets no tokens without signing again.
\* Which network the tokens do not tell: the document need not be the one of `solana:`
\* that other routes look for.  Of referral codes nothing of the kind holds.
SessionsAreEarned ==
    /\ \A t \in tokens : \E n \in Networks : IsUser(<<n, t.sub>>)
    /\ \A r \in Requests : rested[r] < RefreshLife

=============================================================================
