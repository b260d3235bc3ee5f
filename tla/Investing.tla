------------------------------- MODULE Investing -------------------------------
(***************************************************************************)
(* Investments in an IDO project: UserProjectService.syncInvestingFromHook *)
(* writes the investments a Helius delivery lists, one upsert after the    *)
(* other in one bulkWrite, and then tells the clients through AppSync; and *)
(* syncInvestingBySignature, by which the client reports its transaction.  *)
(*                                                                         *)
(* All pushes share the one object IDO_ACTION_SCHEMA: a push sets its      *)
(* variables and signs the body as it is, and what it posts, after the     *)
(* await of the signature, is the body as it is by then.  AppSync refuses  *)
(* a body that is not the one that was signed, and the error is swallowed. *)
(*                                                                         *)
(* Helius, AppSync and the chain are outside the repository: Helius        *)
(* delivers transactions in any grouping, any number of times and          *)
(* concurrently.  A delivery without the token, or with no investment in   *)
(* it, changes nothing and is not modelled.                                *)
(*                                                                         *)
(* The variants with a bug are not part of Next: a property is of use only *)
(* if it fails when such a variant takes the place of the action below it. *)
(***************************************************************************)
EXTENDS Sequences, SequencesExt

CONSTANTS
    Signatures,   \* transactions that invest
    Deliveries,   \* calls of syncInvestingFromHook
    Batches,      \* what a delivery may list
    None          \* no variables have been set

ASSUME ConstantsAssumption ==
    /\ Batches \subseteq {b \in Seq(Signatures) : b # <<>> /\ IsInjective(b)}
    /\ None \notin Deliveries \X Signatures

VARIABLES
    step,       \* where each delivery stands
    batch,      \* the transactions it lists
    todo,       \* the upserts of its bulkWrite that are still to be done
    missed,     \* whether the first of them has found no row to update
    rows,       \* rows of investinghistories: signature and inserting delivery
    variables,  \* the push that set IDO_ACTION_SCHEMA.variables last
    pushes,     \* pushes that are signed and not yet posted
    notified,   \* pushes AppSync accepted
    refused,    \* pushes AppSync refused
    known,      \* history: transactions that had a row when a delivery came in
    newest,     \* history: the push that was begun last
    synced      \* transactions syncInvestingBySignature answered SUCCESS for

vars == <<step, batch, todo, missed, rows, variables, pushes, notified, refused,
          known, newest, synced>>
bulk == <<batch, todo, missed, rows, known>>
outcome == <<notified, refused>>

Pushes == Deliveries \X Signatures

Steps == {"idle", "writing", "pushing", "success", "failed", "lost"}

HasRow(s) == \E row \in rows : row[1] = s

\* What is left of a list after its first n transactions.
Rest(b, n) == SubSeq(b, n + 1, Len(b))

PushesOf(d) == {<<d, s>> : s \in ToSet(batch[d])}

Init ==
    /\ step = [d \in Deliveries |-> "idle"]
    /\ batch = [d \in Deliveries |-> <<>>]
    /\ todo = [d \in Deliveries |-> <<>>]
    /\ missed = [d \in Deliveries |-> FALSE]
    /\ rows = {}
    /\ variables = None
    /\ pushes = {}
    /\ notified = {}
    /\ refused = {}
    /\ known = [d \in Deliveries |-> {}]
    /\ newest = None
    /\ synced = {}

-----------------------------------------------------------------------------
(* The writes.                                                               *)

Receive(d, b) ==
    /\ step[d] = "idle"
    /\ step' = [step EXCEPT ![d] = "writing"]
    /\ batch' = [batch EXCEPT ![d] = b]
    /\ todo' = [todo EXCEPT ![d] = b]
    /\ known' = [known EXCEPT ![d] = {s \in Signatures : HasRow(s)}]
    /\ UNCHANGED <<missed, rows, variables, pushes, outcome, newest, synced>>

\* Variant with a bug: the filter names verify_at too and matches no row.
MatchNothing(d) ==
    /\ todo[d] # <<>>
    /\ ~missed[d]
    /\ missed' = [missed EXCEPT ![d] = TRUE]
    /\ UNCHANGED <<step, batch, rows, variables, pushes, outcome, known, newest,
                   synced, todo>>

\* The database looks for a row with the signature: it updates the row, to what
\* the row says already, or goes on to insert one.
Match(d) ==
    /\ todo[d] # <<>>
    /\ ~missed[d]
    /\ IF HasRow(Head(todo[d]))
         THEN todo' = [todo EXCEPT ![d] = Tail(@)] /\ UNCHANGED missed
         ELSE missed' = [missed EXCEPT ![d] = TRUE] /\ UNCHANGED todo
    /\ UNCHANGED <<step, batch, rows, variables, pushes, outcome, known, newest,
                   synced>>

\* It inserts the row: no unique index keeps two deliveries from doing so.
Insert(d) ==
    /\ missed[d]
    /\ rows' = rows \cup {<<Head(todo[d]), d>>}
    /\ todo' = [todo EXCEPT ![d] = Tail(@)]
    /\ missed' = [missed EXCEPT ![d] = FALSE]
    /\ UNCHANGED <<step, batch, variables, pushes, outcome, known, newest, synced>>

\* bulkWrite rejects and so does the delivery.  A database that has only lost
\* its client may go on with the writes.
BulkWriteFails(d) ==
    /\ step[d] = "writing"
    /\ step' = [step EXCEPT ![d] = "failed"]
    /\ UNCHANGED <<bulk, variables, pushes, outcome, newest, synced>>

-----------------------------------------------------------------------------
(* The pushes.                                                               *)

\* Variant with a bug: bulkWrite is not awaited.
StartPushesEarly(d) ==
    /\ step[d] = "writing"
    /\ step' = [step EXCEPT ![d] = "pushing"]
    /\ pushes' = pushes \cup PushesOf(d)
    /\ variables' = <<d, Last(batch[d])>>
    /\ newest' = <<d, Last(batch[d])>>
    /\ UNCHANGED <<bulk, outcome, synced>>

\* All pushes of the delivery are begun: each sets the variables and signs the
\* body, one after the other, before any of them is posted.
StartPushes(d) ==
    /\ step[d] = "writing"
    /\ todo[d] = <<>>
    /\ step' = [step EXCEPT ![d] = "pushing"]
    /\ pushes' = pushes \cup PushesOf(d)
    /\ variables' = <<d, Last(batch[d])>>
    /\ newest' = <<d, Last(batch[d])>>
    /\ UNCHANGED <<bulk, outcome, synced>>

\* Variant with a bug: the variables are cleared when a push is over.
PostAndClear(p) ==
    /\ p \in pushes
    /\ pushes' = pushes \ {p}
    /\ variables' = None
    /\ IF variables = p
         THEN notified' = notified \cup {p} /\ UNCHANGED refused
         ELSE refused' = refused \cup {p} /\ UNCHANGED notified
    /\ UNCHANGED <<step, bulk, newest, synced>>

\* Variant with a bug: a push that is over is tried again.
PostAgain(p) ==
    /\ p \in pushes
    /\ IF variables = p
         THEN notified' = notified \cup {p} /\ UNCHANGED refused
         ELSE refused' = refused \cup {p} /\ UNCHANGED notified
    /\ UNCHANGED <<step, bulk, variables, pushes, newest, synced>>

\* The body is posted as it is now.  Two bodies for one transaction are the same
\* when they were made in the same millisecond.
Post(p) ==
    /\ p \in pushes
    /\ pushes' = pushes \ {p}
    /\ \/ /\ variables = p \/ (variables # None /\ variables[2] = p[2])
          /\ notified' = notified \cup {p}
          /\ UNCHANGED refused
       \/ /\ variables # p
          /\ refused' = refused \cup {p}
          /\ UNCHANGED notified
    /\ UNCHANGED <<step, bulk, variables, newest, synced>>

\* The post does not reach AppSync: the error is swallowed.
PostFails(p) ==
    /\ p \in pushes
    /\ pushes' = pushes \ {p}
    /\ UNCHANGED <<step, bulk, variables, outcome, newest, synced>>

\* The signature cannot be made: the delivery rejects, its other pushes go on.
SignFails(p) ==
    /\ p \in pushes
    /\ pushes' = pushes \ {p}
    /\ step' = [step EXCEPT ![p[1]] = "failed"]
    /\ UNCHANGED <<bulk, variables, outcome, newest, synced>>

\* status: 'SUCCESS'
Answer(d) ==
    /\ step[d] = "pushing"
    /\ pushes \cap PushesOf(d) = {}
    /\ step' = [step EXCEPT ![d] = "success"]
    /\ UNCHANGED <<bulk, variables, pushes, outcome, newest, synced>>

\* The process is started again; the database may go on with the writes.
Crash ==
    /\ step' = [d \in Deliveries |->
                  IF step[d] \in {"writing", "pushing"} THEN "lost" ELSE step[d]]
    /\ pushes' = {}
    /\ variables' = None
    /\ UNCHANGED <<bulk, outcome, newest, synced>>

-----------------------------------------------------------------------------

\* syncInvestingBySignature creates a row without on_chain_total, which the
\* schema requires: the validation fails, the error is swallowed and the
\* controller answers SUCCESS.
SyncBySignature(s) ==
    /\ synced' = synced \cup {s}
    /\ UNCHANGED <<step, bulk, variables, pushes, outcome, newest>>

-----------------------------------------------------------------------------

Deliver(d) ==
    \/ \E b \in Batches : Receive(d, b)
    \/ Match(d)
    \/ Insert(d)
    \/ BulkWriteFails(d)
    \/ StartPushes(d)
    \/ Answer(d)

Push(p) == Post(p) \/ PostFails(p) \/ SignFails(p)

Next ==
    \/ \E d \in Deliveries : Deliver(d)
    \/ \E p \in Pushes : Push(p)
    \/ Crash
    \/ \E s \in Signatures : SyncBySignature(s)

Spec == Init /\ [][Next]_vars

-----------------------------------------------------------------------------
(* Properties.                                                               *)

\* The types; a push is under way, accepted, refused or none of these.
TypeOK ==
    /\ step \in [Deliveries -> Steps]
    /\ batch \in [Deliveries -> Batches \cup {<<>>}]
    /\ todo \in [Deliveries -> Seq(Signatures)]
    /\ \A d \in Deliveries : \E n \in 0 .. Len(batch[d]) : todo[d] = Rest(batch[d], n)
    /\ missed \in [Deliveries -> BOOLEAN]
    /\ rows \subseteq Signatures \X Deliveries
    /\ variables \in Pushes \cup {None}
    /\ pushes \subseteq Pushes
    /\ notified \subseteq Pushes \ pushes
    /\ refused \subseteq Pushes \ (pushes \cup notified)
    /\ known \in [Deliveries -> SUBSET Signatures]
    /\ newest \in Pushes \cup {None}
    /\ synced \subseteq Signatures

\* An investment is counted twice only when deliveries of it overlapped: one
\* that came in when the transaction had a row, a repeated or late one, inserts
\* none, whatever failed or was lost before.
LateDeliveriesAddNothing ==
    \A d \in Deliveries : \A s \in known[d] : <<s, d>> \notin rows

\* The transactions somebody was told of: a client by a push that was accepted, or
\* Helius, which need not deliver them again, by the answer SUCCESS.
Told ==
    {p[2] : p \in notified} \cup
    UNION {ToSet(batch[d]) : d \in {e \in Deliveries : step[e] = "success"}}

\* What anybody is told of has its row, although a bulk write may stop in the middle and
\* pushes are made and refused in any order.
ToldMeansRecorded == \A s \in Told : HasRow(s)

\* The shared body loses pushes only to a push that was begun later: the newest
\* one is never refused, however many were under way when it began.
NewestNeverRefused == newest \notin refused

\* The answer of syncInvestingBySignature, status: 'SUCCESS': the investment is
\* recorded.
SyncedMeansRecorded == \A s \in synced : HasRow(s)

=============================================================================
