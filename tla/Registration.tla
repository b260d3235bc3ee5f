------------------------------ MODULE Registration ------------------------------
(***************************************************************************)
(* UserProjectService.create: an application to an IDO project, from the   *)
(* moment the controller calls it to its answer.  Every await of the code  *)
(* is a point where another application, a crash of the process or the     *)
(* passing of time can intervene; one action stands for the code between   *)
(* two of them.                                                            *)
(*                                                                         *)
(* The transaction is the driver's withTransaction: the row it inserts is  *)
(* visible from the commit on, while the write of the user's address, the  *)
(* snapshot message and the mail take effect at once and outlive an abort. *)
(* Each run of the callback inserts a row with an _id of its own, here     *)
(* <<request, attempt>>.                                                   *)
(*                                                                         *)
(* The variants with a bug are not part of Next: a property is of use only *)
(* if it fails when such a variant takes the place of the action below it. *)
(***************************************************************************)
EXTENDS Integers

CONSTANTS
    Requests,     \* calls of the route that applies to a project
    Users,        \* wallets an access token names; the token is only decoded
    Projects,     \* projects (project_id)
    Emails,       \* addresses
    NoEmail,      \* the absent address
    OpenAt,       \* timeline.registration_start_at, per project
    CloseAt,      \* timeline.registration_end_at, per project
    MaxTime,      \* bound: the last instant of the clock
    MaxAttempts   \* bound: runs of the callback within withTransaction's 120 s

ASSUME ConstantsAssumption ==
    /\ NoEmail \notin Emails
    /\ MaxTime \in Nat
    /\ MaxAttempts \in Nat \ {0}
    /\ OpenAt \in [Projects -> Int]
    /\ CloseAt \in [Projects -> Int]

VARIABLES
    clock,          \* the server's time
    active,         \* whether a project's status is ACTIVE
    email,          \* the email of each user document
    pc,             \* where each request stands
    input,          \* its arguments and currentTime
    unread,         \* the reads of the first Promise.all still outstanding
    joined,         \* what findOne returned: the user had a row already
    saveEmail,      \* whether the user as read calls for storing the address
    attempt,        \* runs of the callback so far
    inserted,       \* whether this attempt's create has returned
    emailWrites,    \* attempts whose write of the address is under way
    before,         \* history: what held when the request came in
    registrations,  \* committed rows of the userprojects collection
    snapshots,      \* rows named by a message on the snapshot queue
    mails           \* rows named as ticket number by a mail that was sent

world == <<clock, active, email>>
reading == <<unread, joined, saveEmail>>
transaction == <<attempt, inserted, emailWrites>>
effects == <<registrations, snapshots, mails>>
vars == <<clock, active, email, pc, input, unread, joined, saveEmail, attempt,
          inserted, emailWrites, before, registrations, snapshots, mails>>

Reads == {"project", "registration", "user"}
Refusals == {"notFound", "closed", "joined"}
Finished == Refusals \cup {"accepted", "unnamed", "failed", "lost"}
InTransaction == {"session", "writing", "mail", "commit", "unknown", "committed"}
States == {"idle", "reading"} \cup InTransaction \cup Finished

Attempts == 1 .. MaxAttempts
Ids == Requests \X Attempts

Inputs == [user_id : Users, project_id : Projects,
           notification_email : Emails \cup {NoEmail}, currentTime : 0 .. MaxTime]

\* The _id of the row the current attempt inserts.
Id(r) == <<r, attempt[r]>>

Pair(in) == <<in.user_id, in.project_id>>

\* The user has a committed row for the project.
IsRegistered(in) == \E id \in registrations : Pair(input[id[1]]) = Pair(in)

InWindow(r) ==
    /\ OpenAt[input[r].project_id] <= input[r].currentTime
    /\ input[r].currentTime <= CloseAt[input[r].project_id]

Init ==
    /\ clock = 0
    /\ active = [p \in Projects |-> TRUE]
    /\ email = [u \in Users |-> NoEmail]
    /\ pc = [r \in Requests |-> "idle"]
    /\ input \in [Requests -> {in \in Inputs : in.currentTime = 0}]
    /\ unread = [r \in Requests |-> Reads]
    /\ joined = [r \in Requests |-> FALSE]
    /\ saveEmail = [r \in Requests |-> FALSE]
    /\ attempt = [r \in Requests |-> 0]
    /\ inserted = [r \in Requests |-> FALSE]
    /\ emailWrites = [r \in Requests |-> {}]
    /\ before = [r \in Requests |-> [registered |-> FALSE, hasEmail |-> FALSE]]
    /\ registrations = {}
    /\ snapshots = {}
    /\ mails = {}

-----------------------------------------------------------------------------
(* The surroundings: time, and the project's status, which is edited        *)
(* directly in the database.                                                *)

Tick ==
    /\ clock < MaxTime
    /\ clock' = clock + 1
    /\ UNCHANGED <<active, email, pc, input, reading, transaction, before, effects>>

Deactivate(p) ==
    /\ active[p]
    /\ active' = [active EXCEPT ![p] = FALSE]
    /\ UNCHANGED <<clock, email, pc, input, reading, transaction, before, effects>>

-----------------------------------------------------------------------------
(* The reads and the checks.                                                *)

\* The access token, which is decoded and not verified, names no wallet: the
\* controller leaves create out and answers CREATED all the same.
AnswerUnnamed(r) ==
    /\ pc[r] = "idle"
    /\ pc' = [pc EXCEPT ![r] = "unnamed"]
    /\ UNCHANGED <<world, input, reading, transaction, before, effects>>

\* The token names a wallet, with or without a user document, and create is called;
\* currentTime is taken before anything is read.
Receive(r) ==
    /\ pc[r] = "idle"
    /\ pc' = [pc EXCEPT ![r] = "reading"]
    /\ input' = [input EXCEPT ![r].currentTime = clock]
    /\ before' = [before EXCEPT ![r] =
                    [registered |-> IsRegistered(input[r]),
                     hasEmail |-> email[input[r].user_id] # NoEmail]]
    /\ UNCHANGED <<world, reading, transaction, effects>>

\* findProjectById; it throws unless the project is ACTIVE.
ReadProject(r) ==
    /\ pc[r] = "reading"
    /\ "project" \in unread[r]
    /\ IF active[input[r].project_id]
         THEN /\ unread' = [unread EXCEPT ![r] = @ \ {"project"}]
              /\ UNCHANGED pc
         ELSE /\ pc' = [pc EXCEPT ![r] = "notFound"]
              /\ UNCHANGED unread
    /\ UNCHANGED <<world, input, joined, saveEmail, transaction, before, effects>>

\* userProjectModel.findOne({user_id, project_id}).
ReadRegistration(r) ==
    /\ pc[r] = "reading"
    /\ "registration" \in unread[r]
    /\ unread' = [unread EXCEPT ![r] = @ \ {"registration"}]
    /\ joined' = [joined EXCEPT ![r] = IsRegistered(input[r])]
    /\ UNCHANGED <<world, pc, input, saveEmail, transaction, before, effects>>

\* Variant with a bug: a stored address does not matter.
ReadUserUnchecked(r) ==
    /\ pc[r] = "reading"
    /\ "user" \in unread[r]
    /\ unread' = [unread EXCEPT ![r] = @ \ {"user"}]
    /\ saveEmail' = [saveEmail EXCEPT ![r] = input[r].notification_email # NoEmail]
    /\ UNCHANGED <<world, pc, input, joined, transaction, before, effects>>

\* findUserByWallet, which answers undefined when the read fails or the wallet has
\* no user document: the address is then not stored.
ReadUser(r) ==
    /\ pc[r] = "reading"
    /\ "user" \in unread[r]
    /\ unread' = [unread EXCEPT ![r] = @ \ {"user"}]
    /\ \E found \in BOOLEAN :
         saveEmail' = [saveEmail EXCEPT ![r] =
                         /\ found
                         /\ email[input[r].user_id] = NoEmail
                         /\ input[r].notification_email # NoEmail]
    /\ UNCHANGED <<world, pc, input, joined, transaction, before, effects>>

\* One of the other reads rejects (a database error, no active season) or the
\* session cannot be started.
ReadFails(r) ==
    /\ pc[r] = "reading"
    /\ pc' = [pc EXCEPT ![r] = "failed"]
    /\ UNCHANGED <<world, input, reading, transaction, before, effects>>

\* 'Registration time invalid'
RefuseClosed(r) ==
    /\ pc[r] = "reading"
    /\ unread[r] = {}
    /\ ~InWindow(r)
    /\ pc' = [pc EXCEPT ![r] = "closed"]
    /\ UNCHANGED <<world, input, reading, transaction, before, effects>>

\* 'You have joined the project'
RefuseJoined(r) ==
    /\ pc[r] = "reading"
    /\ unread[r] = {}
    /\ InWindow(r)
    /\ joined[r]
    /\ pc' = [pc EXCEPT ![r] = "joined"]
    /\ UNCHANGED <<world, input, reading, transaction, before, effects>>

\* Variant with a bug: without the check of userProject.
StartSessionUnchecked(r) ==
    /\ pc[r] = "reading"
    /\ unread[r] = {}
    /\ InWindow(r)
    /\ pc' = [pc EXCEPT ![r] = "session"]
    /\ UNCHANGED <<world, input, reading, transaction, before, effects>>

StartSession(r) ==
    /\ pc[r] = "reading"
    /\ unread[r] = {}
    /\ InWindow(r)
    /\ ~joined[r]
    /\ pc' = [pc EXCEPT ![r] = "session"]
    /\ UNCHANGED <<world, input, reading, transaction, before, effects>>

-----------------------------------------------------------------------------
(* The transaction's callback.                                              *)

\* Variant with a bug: the driver retries for ever.
BeginAttemptUncounted(r) ==
    /\ pc[r] = "session"
    /\ pc' = [pc EXCEPT ![r] = "writing"]
    /\ attempt' = [attempt EXCEPT ![r] = 1]
    /\ inserted' = [inserted EXCEPT ![r] = FALSE]
    /\ emailWrites' = [emailWrites EXCEPT ![r] = IF saveEmail[r] THEN @ \cup {1} ELSE @]
    /\ UNCHANGED <<world, input, reading, before, effects>>

\* Variant with a bug: one run of the callback too many.
BeginAttemptUnbounded(r) ==
    /\ pc[r] = "session"
    /\ pc' = [pc EXCEPT ![r] = "writing"]
    /\ attempt' = [attempt EXCEPT ![r] = @ + 1]
    /\ inserted' = [inserted EXCEPT ![r] = FALSE]
    /\ emailWrites' = [emailWrites EXCEPT ![r] =
                         IF saveEmail[r] THEN @ \cup {attempt[r] + 1} ELSE @]
    /\ UNCHANGED <<world, input, reading, before, effects>>

\* The callback runs: the insert and the write of the address are issued
\* together.  It runs again, with a new _id, after a transient error.
BeginAttempt(r) ==
    /\ pc[r] = "session"
    /\ attempt[r] < MaxAttempts
    /\ pc' = [pc EXCEPT ![r] = "writing"]
    /\ attempt' = [attempt EXCEPT ![r] = @ + 1]
    /\ inserted' = [inserted EXCEPT ![r] = FALSE]
    /\ emailWrites' = [emailWrites EXCEPT ![r] =
                         IF saveEmail[r] THEN @ \cup {attempt[r] + 1} ELSE @]
    /\ UNCHANGED <<world, input, reading, before, effects>>

\* create([input], {session}) returns; the row belongs to the open transaction.
InsertRow(r) ==
    /\ pc[r] = "writing"
    /\ ~inserted[r]
    /\ inserted' = [inserted EXCEPT ![r] = TRUE]
    /\ UNCHANGED <<world, pc, input, reading, attempt, emailWrites, before, effects>>

\* UserService.update ends: outside the session, in its own time, even when the
\* attempt that issued it has been abandoned.  Its errors are swallowed.
SaveEmail(r, a) ==
    /\ a \in emailWrites[r]
    /\ emailWrites' = [emailWrites EXCEPT ![r] = @ \ {a}]
    /\ \/ email' = [email EXCEPT ![input[r].user_id] = input[r].notification_email]
       \/ UNCHANGED email
    /\ UNCHANGED <<clock, active, pc, input, reading, attempt, inserted, before, effects>>

\* The Promise.all of the two writes has resolved.
Written(r) ==
    /\ pc[r] = "writing"
    /\ inserted[r]
    /\ attempt[r] \notin emailWrites[r]

\* createSQS succeeds.
SendSnapshot(r) ==
    /\ Written(r)
    /\ snapshots' = snapshots \cup {Id(r)}
    /\ pc' = [pc EXCEPT ![r] =
                IF input[r].notification_email # NoEmail THEN "mail" ELSE "commit"]
    /\ UNCHANGED <<world, input, reading, transaction, before, registrations, mails>>

\* Variant with a bug: createSQS swallows its error.
SnapshotFailsSilently(r) ==
    /\ Written(r)
    /\ snapshots' \in {snapshots, snapshots \cup {Id(r)}}
    /\ pc' = [pc EXCEPT ![r] = "commit"]
    /\ UNCHANGED <<world, input, reading, transaction, before, registrations, mails>>

\* createSQS rethrows, whether or not the queue took the message: the
\* transaction aborts and the error goes to the caller.
SnapshotFails(r) ==
    /\ Written(r)
    /\ snapshots' \in {snapshots, snapshots \cup {Id(r)}}
    /\ pc' = [pc EXCEPT ![r] = "failed"]
    /\ UNCHANGED <<world, input, reading, transaction, before, registrations, mails>>

\* sendRegisteredEmail: its errors are swallowed.
SendMail(r) ==
    /\ pc[r] = "mail"
    /\ mails' \in {mails, mails \cup {Id(r)}}
    /\ pc' = [pc EXCEPT ![r] = "commit"]
    /\ UNCHANGED <<world, input, reading, transaction, before, registrations, snapshots>>

-----------------------------------------------------------------------------
(* The commit, and what the driver does about errors.                       *)

\* commitTransaction succeeds, at the first try or when it is repeated after an
\* unknown result (repeating a commit has no further effect).
Commit(r) ==
    /\ pc[r] \in {"commit", "unknown"}
    /\ registrations' = registrations \cup {Id(r)}
    /\ pc' = [pc EXCEPT ![r] = "committed"]
    /\ UNCHANGED <<world, input, reading, transaction, before, snapshots, mails>>

\* Variant with a bug: an unknown result is taken for a commit.
CommitUnknownAnswered(r) ==
    /\ pc[r] = "commit"
    /\ registrations' \in {registrations, registrations \cup {Id(r)}}
    /\ pc' = [pc EXCEPT ![r] = "committed"]
    /\ UNCHANGED <<world, input, reading, transaction, before, snapshots, mails>>

\* The answer to the commit is lost: UnknownTransactionCommitResult.
CommitUnknown(r) ==
    /\ pc[r] = "commit"
    /\ registrations' \in {registrations, registrations \cup {Id(r)}}
    /\ pc' = [pc EXCEPT ![r] = "unknown"]
    /\ UNCHANGED <<world, input, reading, transaction, before, snapshots, mails>>

\* Variant with a bug: the callback runs again after any lost answer.
RetryCommitted(r) ==
    /\ \/ pc[r] = "writing" /\ ~inserted[r]
       \/ pc[r] \in {"commit", "unknown"}
    /\ pc' = [pc EXCEPT ![r] = "session"]
    /\ UNCHANGED <<world, input, reading, transaction, before, effects>>

\* A TransientTransactionError of the insert or of the commit: the transaction
\* is aborted and the callback will run again.  A transaction that was
\* committed never answers so.
TransientError(r) ==
    /\ \/ pc[r] = "writing" /\ ~inserted[r]
       \/ pc[r] \in {"commit", "unknown"} /\ Id(r) \notin registrations
    /\ pc' = [pc EXCEPT ![r] = "session"]
    /\ UNCHANGED <<world, input, reading, transaction, before, effects>>

\* Any other error of the database, or withTransaction's time is over: the
\* error goes to the caller.  After an unknown result the row may be there.
TransactionFails(r) ==
    /\ \/ pc[r] = "writing" /\ ~inserted[r]
       \/ pc[r] \in {"session", "commit", "unknown"}
    /\ pc' = [pc EXCEPT ![r] = "failed"]
    /\ UNCHANGED <<world, input, reading, transaction, before, effects>>

\* endSession returns and the controller answers CREATED.
Respond(r) ==
    /\ pc[r] = "committed"
    /\ pc' = [pc EXCEPT ![r] = "accepted"]
    /\ UNCHANGED <<world, input, reading, transaction, before, effects>>

\* The server process dies and is started again: every request under way is
\* lost and its open transaction aborted; a write of an address that is on its
\* way still lands.
Crash ==
    /\ \E r \in Requests : pc[r] \in {"reading"} \cup InTransaction
    /\ pc' = [r \in Requests |->
                IF pc[r] \in {"reading"} \cup InTransaction THEN "lost" ELSE pc[r]]
    /\ UNCHANGED <<world, input, reading, transaction, before, effects>>

-----------------------------------------------------------------------------

ReadStep(r) ==
    \/ ReadProject(r)
    \/ ReadRegistration(r)
    \/ ReadUser(r)
    \/ ReadFails(r)
    \/ RefuseClosed(r)
    \/ RefuseJoined(r)
    \/ StartSession(r)

TransactionStep(r) ==
    \/ BeginAttempt(r)
    \/ InsertRow(r)
    \/ \E a \in Attempts : SaveEmail(r, a)
    \/ SendSnapshot(r)
    \/ SnapshotFails(r)
    \/ SendMail(r)
    \/ Commit(r)
    \/ CommitUnknown(r)
    \/ TransientError(r)
    \/ TransactionFails(r)
    \/ Respond(r)

Next ==
    \/ Tick
    \/ \E p \in Projects : Deactivate(p)
    \/ \E r \in Requests : AnswerUnnamed(r)
    \/ \E r \in Requests : Receive(r) \/ ReadStep(r) \/ TransactionStep(r)
    \/ Crash

Spec == Init /\ [][Next]_vars

\* Every await of a request is eventually answered, by a result or an error:
\* the drivers and the SDK clients have time limits of their own.
Fairness == \A r \in Requests : WF_vars(ReadStep(r)) /\ WF_vars(TransactionStep(r))

FairSpec == Spec /\ Fairness

-----------------------------------------------------------------------------
(* Properties.                                                              *)

TypeOK ==
    /\ clock \in 0 .. MaxTime
    /\ active \in [Projects -> BOOLEAN]
    /\ email \in [Users -> Emails \cup {NoEmail}]
    /\ pc \in [Requests -> States]
    /\ input \in [Requests -> Inputs]
    /\ unread \in [Requests -> SUBSET Reads]
    /\ joined \in [Requests -> BOOLEAN]
    /\ saveEmail \in [Requests -> BOOLEAN]
    /\ attempt \in [Requests -> 0 .. MaxAttempts]
    /\ inserted \in [Requests -> BOOLEAN]
    /\ emailWrites \in [Requests -> SUBSET Attempts]
    /\ before \in [Requests -> [registered : BOOLEAN, hasEmail : BOOLEAN]]
    /\ registrations \subseteq Ids
    /\ snapshots \subseteq Ids
    /\ mails \subseteq Ids

\* The snapshot worker learns of a registration only from the queue: whatever
\* fails, is retried or crashes, no row is ever committed whose own _id has not
\* been put on the queue.
SnapshotRequested == registrations \subseteq snapshots

\* However often the driver runs the callback, or repeats a commit whose result it does
\* not know, an application leaves at most one row, and a row only if it came in between
\* the ends of the project's registration period, both included, however late it commits.
RowsAreEarned ==
    \A id \in registrations :
        LET in == input[id[1]]
        IN  /\ in.currentTime \in OpenAt[in.project_id] .. CloseAt[in.project_id]
            /\ \A other \in registrations : other[1] = id[1] => other = id

\* An application that came in when the user's registration was already
\* committed leaves no row: duplicates need applications that overlap.
LateApplicationsRefused ==
    \A r \in Requests :
        before[r].registered => \A id \in registrations : id[1] # r

\* What a caller with a wallet is told is true: CREATED only with a row of this very
\* application, 'You have joined the project' only with a row of another one.  A
\* caller whose token names no wallet is told CREATED too, and never has a row.
AnswersTrue ==
    \A r \in Requests :
        LET rows == {id \in registrations : id[1] = r}
        IN  /\ pc[r] = "accepted" => rows # {}
            /\ pc[r] = "joined" => IsRegistered(input[r]) /\ rows = {}
            /\ pc[r] = "unnamed" => rows = {}

\* An application replaces a stored address only when the user had none at the
\* time the application came in: an address is lost only to an overlapping one.
EmailReplacedOnlyByOverlap ==
    [][\A u \in Users :
         email[u] # NoEmail /\ email'[u] # email[u] =>
            \E r \in Requests :
                /\ input[r].user_id = u
                /\ input[r].notification_email = email'[u]
                /\ pc[r] # "idle"
                /\ ~before[r].hasEmail]_vars

\* Every application that is taken up is answered, unless the process dies.
Answered == \A r \in Requests : pc[r] = "reading" ~> pc[r] \in Finished

\* What create's own check is for, 'You have joined the project': a user has at
\* most one registration per project.
AtMostOneRegistration ==
    \A id1, id2 \in registrations :
        Pair(input[id1[1]]) = Pair(input[id2[1]]) => id1 = id2

\* What the mail says, "Congratulations! You've Successfully Registered": once
\* its application is over, the ticket number of every mail is a registration.
MailedMeansRegistered ==
    \A id \in mails : pc[id[1]] \in Finished => id \in registrations

=============================================================================
