-------------------------- MODULE RegistrationProofs --------------------------
(***************************************************************************)
(* Theorems about Registration and its refinement of RegistrationLedger.   *)
(***************************************************************************)
EXTENDS RegistrationRefinement, TLAPS

-----------------------------------------------------------------------------
(* Type correctness.  An _id is well formed only because a row is inserted   *)
(* in an attempt that has begun.                                             *)

Began ==
    \A r \in Requests :
        pc[r] \in {"writing", "mail", "commit", "unknown", "committed"} =>
            attempt[r] \in Attempts

TypeInv == TypeOK /\ Began

\* The types hold at the start.
LEMMA InitType == Init => TypeInv
  <1> SUFFICES ASSUME Init PROVE TypeInv
    OBVIOUS
  <1> USE ConstantsAssumption
  <1>1. input \in [Requests -> Inputs]
    BY DEF Init
  <1> QED
    BY <1>1 DEF Init, TypeInv, TypeOK, Began, States, Reads, InTransaction,
                Finished, Refusals

\* Every step keeps the types.
LEMMA TypeStep == TypeInv /\ [Next]_vars => TypeInv'
  <1> SUFFICES ASSUME TypeInv, [Next]_vars PROVE TypeInv'
    OBVIOUS
  <1> USE ConstantsAssumption DEF world, reading, transaction, effects, TypeInv
  <1>1. CASE Tick
    BY <1>1 DEF Tick, TypeOK, Began
  <1>2. CASE \E p \in Projects : Deactivate(p)
    BY <1>2 DEF Deactivate, TypeOK, Began
  <1>3. CASE Crash
    BY <1>3 DEF Crash, TypeOK, Began, States, Finished
  <1>4. CASE UNCHANGED vars
    BY <1>4 DEF vars, TypeOK, Began
  <1>5. ASSUME NEW r \in Requests, Receive(r) \/ ReadStep(r) \/ TransactionStep(r)
        PROVE  TypeInv'
    <2>s. {"idle", "reading", "notFound", "failed", "closed", "joined", "session",
           "writing", "mail", "commit", "committed", "unknown", "accepted"} \subseteq States
      BY DEF States, InTransaction, Finished, Refusals
    <2>i. pc[r] \in {"writing", "mail", "commit", "unknown", "committed"} => Id(r) \in Ids
      BY DEF Began, Id, Ids
    <2>1. CASE Receive(r)
      <3>1. [input[r] EXCEPT !.currentTime = clock] \in Inputs
        BY DEF TypeOK, Inputs
      <3>2. input' \in [Requests -> Inputs]
        BY <2>1, <3>1 DEF Receive, TypeOK
      <3>3. before' \in [Requests -> [registered : BOOLEAN, hasEmail : BOOLEAN]]
        <4>1. IsRegistered(input[r]) \in BOOLEAN
          BY DEF IsRegistered
        <4> QED
          BY <4>1, <2>1 DEF Receive, TypeOK
      <3> QED
        BY <2>1, <2>s, <3>2, <3>3 DEF Receive, TypeOK, Began
    <2>2. CASE ReadProject(r)
      <3>1. UNCHANGED <<clock, active, email, input, joined, saveEmail, attempt, inserted,
                        emailWrites, before, registrations, snapshots, mails>>
        BY <2>2 DEF ReadProject
      <3>2. CASE active[input[r].project_id]
        <4>1. pc' = pc /\ unread' = [unread EXCEPT ![r] = @ \ {"project"}]
          BY <2>2, <3>2 DEF ReadProject
        <4> QED
          BY <3>1, <4>1 DEF TypeOK, Began
      <3>3. CASE ~active[input[r].project_id]
        <4>1. pc' = [pc EXCEPT ![r] = "notFound"] /\ unread' = unread
          BY <2>2, <3>3 DEF ReadProject
        <4> QED
          BY <2>s, <3>1, <4>1 DEF TypeOK, Began
      <3> QED
        BY <3>2, <3>3
    <2>3. CASE ReadRegistration(r)
      <3>1. IsRegistered(input[r]) \in BOOLEAN
        BY DEF IsRegistered
      <3> QED
        BY <2>3, <3>1 DEF ReadRegistration, TypeOK, Began
    <2>4. CASE ReadUser(r)
      <3>1. saveEmail' \in [Requests -> BOOLEAN]
        BY <2>4 DEF ReadUser, TypeOK
      <3> QED
        BY <2>4, <3>1 DEF ReadUser, TypeOK, Began
    <2>5. CASE ReadFails(r)
      BY <2>5, <2>s DEF ReadFails, TypeOK, Began
    <2>6. CASE RefuseClosed(r)
      BY <2>6, <2>s DEF RefuseClosed, TypeOK, Began
    <2>7. CASE RefuseJoined(r)
      BY <2>7, <2>s DEF RefuseJoined, TypeOK, Began
    <2>8. CASE StartSession(r)
      BY <2>8, <2>s DEF StartSession, TypeOK, Began
    <2>9. CASE BeginAttempt(r)
      <3>1. attempt[r] + 1 \in Attempts
        BY <2>9 DEF BeginAttempt, TypeOK, Attempts
      <3>2. attempt' \in [Requests -> 0 .. MaxAttempts] /\ attempt'[r] \in Attempts
        BY <2>9, <3>1 DEF BeginAttempt, TypeOK, Attempts
      <3>3. emailWrites' \in [Requests -> SUBSET Attempts]
        BY <2>9, <3>1 DEF BeginAttempt, TypeOK
      <3> QED
        BY <2>9, <2>s, <3>2, <3>3 DEF BeginAttempt, TypeOK, Began
    <2>10. CASE InsertRow(r)
      BY <2>10, <2>s DEF InsertRow, TypeOK, Began
    <2>11. CASE \E a \in Attempts : SaveEmail(r, a)
      <3>1. PICK a \in Attempts : SaveEmail(r, a)
        BY <2>11
      <3>2. email' \in [Users -> Emails \cup {NoEmail}]
        BY <3>1 DEF SaveEmail, TypeOK, Inputs
      <3> QED
        BY <3>1, <3>2 DEF SaveEmail, TypeOK, Began
    <2>12. CASE SendSnapshot(r)
      BY <2>12, <2>s, <2>i DEF SendSnapshot, TypeOK, Began, Written
    <2>13. CASE SnapshotFails(r)
      BY <2>13, <2>s, <2>i DEF SnapshotFails, TypeOK, Began, Written
    <2>14. CASE SendMail(r)
      BY <2>14, <2>s, <2>i DEF SendMail, TypeOK, Began
    <2>15. CASE Commit(r)
      BY <2>15, <2>s, <2>i DEF Commit, TypeOK, Began
    <2>16. CASE CommitUnknown(r)
      BY <2>16, <2>s, <2>i DEF CommitUnknown, TypeOK, Began
    <2>17. CASE TransientError(r)
      BY <2>17, <2>s DEF TransientError, TypeOK, Began
    <2>18. CASE TransactionFails(r)
      BY <2>18, <2>s DEF TransactionFails, TypeOK, Began
    <2>19. CASE Respond(r)
      BY <2>19, <2>s DEF Respond, TypeOK, Began
    <2> QED
      BY <1>5, <2>1, <2>2, <2>3, <2>4, <2>5, <2>6, <2>7, <2>8, <2>9, <2>10,
         <2>11, <2>12, <2>13, <2>14, <2>15, <2>16, <2>17, <2>18, <2>19 DEF
         ReadStep, TransactionStep
  <1>6. CASE \E r \in Requests : AnswerUnnamed(r)
    BY <1>6 DEF AnswerUnnamed, TypeOK, Began, States, Finished
  <1> QED
    BY <1>1, <1>2, <1>3, <1>4, <1>5, <1>6 DEF Next

-----------------------------------------------------------------------------
(* Rows, messages and attempts.                                              *)

\* A row is of its application's last attempt, and once it is there the callback
\* does not run again; a message is sent before the commit is reached.
RowsInv ==
    /\ registrations \subseteq snapshots
    /\ \A r \in Requests : \A a \in Attempts :
         <<r, a>> \in registrations =>
            /\ a = attempt[r]
            /\ pc[r] \in {"unknown", "committed", "accepted", "failed", "lost"}
    /\ \A r \in Requests :
         /\ pc[r] \in {"mail", "commit", "unknown", "committed"} => Id(r) \in snapshots
         /\ pc[r] \in {"committed", "accepted"} => Id(r) \in registrations

\* No row at the start.
LEMMA InitRows == Init => RowsInv
  BY DEF Init, RowsInv

\* Every step keeps the rows those of the attempts that were committed.
LEMMA RowsStep == TypeInv /\ RowsInv /\ [Next]_vars => RowsInv'
  <1> SUFFICES ASSUME TypeInv, RowsInv, [Next]_vars PROVE RowsInv'
    OBVIOUS
  <1> USE DEF world, reading, transaction, effects, Id
  <1>1. CASE Tick
    BY <1>1 DEF Tick, RowsInv, TypeInv, TypeOK, Began
  <1>2. CASE \E p \in Projects : Deactivate(p)
    BY <1>2 DEF Deactivate, RowsInv, TypeInv, TypeOK, Began
  <1>3. CASE Crash
    BY <1>3 DEF Crash, RowsInv, TypeInv, TypeOK, Began
  <1>4. CASE UNCHANGED vars
    BY <1>4 DEF vars, RowsInv, TypeInv, TypeOK, Began
  <1>5. ASSUME NEW r \in Requests, Receive(r) \/ ReadStep(r) \/ TransactionStep(r)
        PROVE  RowsInv'
    <2>1. CASE Receive(r)
      BY <2>1 DEF Receive, RowsInv, TypeInv, TypeOK, Began
    <2>2. CASE ReadProject(r)
      BY <2>2 DEF ReadProject, RowsInv, TypeInv, TypeOK, Began
    <2>3. CASE ReadRegistration(r)
      BY <2>3 DEF ReadRegistration, RowsInv, TypeInv, TypeOK, Began
    <2>4. CASE ReadUser(r)
      BY <2>4 DEF ReadUser, RowsInv, TypeInv, TypeOK, Began
    <2>5. CASE ReadFails(r)
      BY <2>5 DEF ReadFails, RowsInv, TypeInv, TypeOK, Began
    <2>6. CASE RefuseClosed(r)
      BY <2>6 DEF RefuseClosed, RowsInv, TypeInv, TypeOK, Began
    <2>7. CASE RefuseJoined(r)
      BY <2>7 DEF RefuseJoined, RowsInv, TypeInv, TypeOK, Began
    <2>8. CASE StartSession(r)
      BY <2>8 DEF StartSession, RowsInv, TypeInv, TypeOK, Began
    <2>9. CASE BeginAttempt(r)
      BY <2>9 DEF BeginAttempt, RowsInv, TypeInv, TypeOK, Began
    <2>10. CASE InsertRow(r)
      BY <2>10 DEF InsertRow, RowsInv, TypeInv, TypeOK, Began
    <2>11. CASE \E a \in Attempts : SaveEmail(r, a)
      BY <2>11 DEF SaveEmail, RowsInv, TypeInv, TypeOK, Began
    <2>12. CASE SendSnapshot(r)
      BY <2>12 DEF SendSnapshot, Written, RowsInv, TypeInv, TypeOK, Began
    <2>13. CASE SnapshotFails(r)
      BY <2>13 DEF SnapshotFails, Written, RowsInv, TypeInv, TypeOK, Began
    <2>14. CASE SendMail(r)
      BY <2>14 DEF SendMail, RowsInv, TypeInv, TypeOK, Began
    <2>15. CASE Commit(r)
      BY <2>15 DEF Commit, RowsInv, TypeInv, TypeOK, Began
    <2>16. CASE CommitUnknown(r)
      BY <2>16 DEF CommitUnknown, RowsInv, TypeInv, TypeOK, Began
    <2>17. CASE TransientError(r)
      BY <2>17 DEF TransientError, RowsInv, TypeInv, TypeOK, Began
    <2>18. CASE TransactionFails(r)
      BY <2>18 DEF TransactionFails, RowsInv, TypeInv, TypeOK, Began
    <2>19. CASE Respond(r)
      BY <2>19 DEF Respond, RowsInv, TypeInv, TypeOK, Began
    <2> QED
      BY <1>5, <2>1, <2>2, <2>3, <2>4, <2>5, <2>6, <2>7, <2>8, <2>9, <2>10,
         <2>11, <2>12, <2>13, <2>14, <2>15, <2>16, <2>17, <2>18, <2>19 DEF
         ReadStep, TransactionStep
  <1>6. CASE \E r \in Requests : AnswerUnnamed(r)
    BY <1>6 DEF AnswerUnnamed, RowsInv, TypeInv, TypeOK, Began
  <1> QED
    BY <1>1, <1>2, <1>3, <1>4, <1>5, <1>6 DEF Next

-----------------------------------------------------------------------------
(* The registration period.                                                  *)

\* The check made before the session starts holds for good: currentTime is
\* taken once, and the ends of the period are not read again.
WindowInv ==
    /\ \A r \in Requests : pc[r] \in InTransaction => InWindow(r)
    /\ \A r \in Requests : \A a \in Attempts :
         <<r, a>> \in registrations => InWindow(r)

\* No application has passed the check of the period at the start.
LEMMA InitWindow == Init => WindowInv
  BY DEF Init, WindowInv, InTransaction

\* No step lets an application past the check of the period that came in outside it.
LEMMA WindowStep == TypeInv /\ RowsInv /\ WindowInv /\ [Next]_vars => WindowInv'
  <1> SUFFICES ASSUME TypeInv, RowsInv, WindowInv, [Next]_vars PROVE WindowInv'
    OBVIOUS
  <1> USE DEF world, reading, transaction, effects, Id, InWindow, InTransaction
  <1>1. CASE Tick
    BY <1>1 DEF Tick, WindowInv, TypeInv, TypeOK, Began
  <1>2. CASE \E p \in Projects : Deactivate(p)
    BY <1>2 DEF Deactivate, WindowInv, TypeInv, TypeOK, Began
  <1>3. CASE Crash
    BY <1>3 DEF Crash, WindowInv, TypeInv, TypeOK, Began
  <1>4. CASE UNCHANGED vars
    BY <1>4 DEF vars, WindowInv, TypeInv, TypeOK, Began
  <1>5. ASSUME NEW r \in Requests, Receive(r) \/ ReadStep(r) \/ TransactionStep(r)
        PROVE  WindowInv'
    <2>1. CASE Receive(r)
      BY <2>1 DEF Receive, WindowInv, RowsInv, TypeInv, TypeOK, Began
    <2>2. CASE ReadProject(r)
      BY <2>2 DEF ReadProject, WindowInv, TypeInv, TypeOK, Began
    <2>3. CASE ReadRegistration(r)
      BY <2>3 DEF ReadRegistration, WindowInv, TypeInv, TypeOK, Began
    <2>4. CASE ReadUser(r)
      BY <2>4 DEF ReadUser, WindowInv, TypeInv, TypeOK, Began
    <2>5. CASE ReadFails(r)
      BY <2>5 DEF ReadFails, WindowInv, TypeInv, TypeOK, Began
    <2>6. CASE RefuseClosed(r)
      BY <2>6 DEF RefuseClosed, WindowInv, TypeInv, TypeOK, Began
    <2>7. CASE RefuseJoined(r)
      BY <2>7 DEF RefuseJoined, WindowInv, TypeInv, TypeOK, Began
    <2>8. CASE StartSession(r)
      BY <2>8 DEF StartSession, WindowInv, TypeInv, TypeOK, Began
    <2>9. CASE BeginAttempt(r)
      BY <2>9 DEF BeginAttempt, WindowInv, TypeInv, TypeOK, Began
    <2>10. CASE InsertRow(r)
      BY <2>10 DEF InsertRow, WindowInv, TypeInv, TypeOK, Began
    <2>11. CASE \E a \in Attempts : SaveEmail(r, a)
      BY <2>11 DEF SaveEmail, WindowInv, TypeInv, TypeOK, Began
    <2>12. CASE SendSnapshot(r)
      BY <2>12 DEF SendSnapshot, Written, WindowInv, TypeInv, TypeOK, Began
    <2>13. CASE SnapshotFails(r)
      BY <2>13 DEF SnapshotFails, Written, WindowInv, TypeInv, TypeOK, Began
    <2>14. CASE SendMail(r)
      BY <2>14 DEF SendMail, WindowInv, TypeInv, TypeOK, Began
    <2>15. CASE Commit(r)
      BY <2>15 DEF Commit, WindowInv, TypeInv, TypeOK, Began
    <2>16. CASE CommitUnknown(r)
      BY <2>16 DEF CommitUnknown, WindowInv, TypeInv, TypeOK, Began
    <2>17. CASE TransientError(r)
      BY <2>17 DEF TransientError, WindowInv, TypeInv, TypeOK, Began
    <2>18. CASE TransactionFails(r)
      BY <2>18 DEF TransactionFails, WindowInv, TypeInv, TypeOK, Began
    <2>19. CASE Respond(r)
      BY <2>19 DEF Respond, WindowInv, TypeInv, TypeOK, Began
    <2> QED
      BY <1>5, <2>1, <2>2, <2>3, <2>4, <2>5, <2>6, <2>7, <2>8, <2>9, <2>10,
         <2>11, <2>12, <2>13, <2>14, <2>15, <2>16, <2>17, <2>18, <2>19 DEF
         ReadStep, TransactionStep
  <1>6. CASE \E r \in Requests : AnswerUnnamed(r)
    BY <1>6 DEF AnswerUnnamed, WindowInv, TypeInv, TypeOK, Began
  <1> QED
    BY <1>1, <1>2, <1>3, <1>4, <1>5, <1>6 DEF Next

-----------------------------------------------------------------------------
(* What is known of a pair only grows.                                       *)

\* Rows are never removed, and what an application asks for never changes.
Growth ==
    /\ registrations \subseteq registrations'
    /\ \A r \in Requests : Pair(input[r])' = Pair(input[r])

\* Rows are never removed, and a request that has come in keeps its arguments.
LEMMA GrowthStep == TypeInv /\ [Next]_vars => Growth
  <1> SUFFICES ASSUME TypeInv, [Next]_vars PROVE Growth
    OBVIOUS
  <1> USE DEF world, reading, transaction, effects
  <1>1. CASE Tick
    BY <1>1 DEF Tick, Growth, TypeInv, TypeOK
  <1>2. CASE \E p \in Projects : Deactivate(p)
    BY <1>2 DEF Deactivate, Growth, TypeInv, TypeOK
  <1>3. CASE Crash
    BY <1>3 DEF Crash, Growth, TypeInv, TypeOK
  <1>4. CASE UNCHANGED vars
    BY <1>4 DEF vars, Growth, TypeInv, TypeOK
  <1>5. ASSUME NEW r \in Requests, Receive(r) \/ ReadStep(r) \/ TransactionStep(r)
        PROVE  Growth
    <2>1. CASE Receive(r)
      <3>1. \A q \in Requests : /\ input'[q].user_id = input[q].user_id
                                /\ input'[q].project_id = input[q].project_id
        BY <2>1 DEF Receive, TypeInv, TypeOK, Inputs
      <3> QED
        BY <2>1, <3>1 DEF Receive, Growth, Pair
    <2>2. CASE ReadProject(r)
      BY <2>2 DEF ReadProject, Growth, TypeInv, TypeOK
    <2>3. CASE ReadRegistration(r)
      BY <2>3 DEF ReadRegistration, Growth, TypeInv, TypeOK
    <2>4. CASE ReadUser(r)
      BY <2>4 DEF ReadUser, Growth, TypeInv, TypeOK
    <2>5. CASE ReadFails(r)
      BY <2>5 DEF ReadFails, Growth, TypeInv, TypeOK
    <2>6. CASE RefuseClosed(r)
      BY <2>6 DEF RefuseClosed, Growth, TypeInv, TypeOK
    <2>7. CASE RefuseJoined(r)
      BY <2>7 DEF RefuseJoined, Growth, TypeInv, TypeOK
    <2>8. CASE StartSession(r)
      BY <2>8 DEF StartSession, Growth, TypeInv, TypeOK
    <2>9. CASE BeginAttempt(r)
      BY <2>9 DEF BeginAttempt, Growth, TypeInv, TypeOK
    <2>10. CASE InsertRow(r)
      BY <2>10 DEF InsertRow, Growth, TypeInv, TypeOK
    <2>11. CASE \E a \in Attempts : SaveEmail(r, a)
      BY <2>11 DEF SaveEmail, Growth, TypeInv, TypeOK
    <2>12. CASE SendSnapshot(r)
      BY <2>12 DEF SendSnapshot, Written, Growth, TypeInv, TypeOK
    <2>13. CASE SnapshotFails(r)
      BY <2>13 DEF SnapshotFails, Written, Growth, TypeInv, TypeOK
    <2>14. CASE SendMail(r)
      BY <2>14 DEF SendMail, Growth, TypeInv, TypeOK
    <2>15. CASE Commit(r)
      BY <2>15 DEF Commit, Growth, TypeInv, TypeOK
    <2>16. CASE CommitUnknown(r)
      BY <2>16 DEF CommitUnknown, Growth, TypeInv, TypeOK
    <2>17. CASE TransientError(r)
      BY <2>17 DEF TransientError, Growth, TypeInv, TypeOK
    <2>18. CASE TransactionFails(r)
      BY <2>18 DEF TransactionFails, Growth, TypeInv, TypeOK
    <2>19. CASE Respond(r)
      BY <2>19 DEF Respond, Growth, TypeInv, TypeOK
    <2> QED
      BY <1>5, <2>1, <2>2, <2>3, <2>4, <2>5, <2>6, <2>7, <2>8, <2>9, <2>10,
         <2>11, <2>12, <2>13, <2>14, <2>15, <2>16, <2>17, <2>18, <2>19 DEF
         ReadStep, TransactionStep
  <1>6. CASE \E r \in Requests : AnswerUnnamed(r)
    BY <1>6 DEF AnswerUnnamed, Growth, TypeInv, TypeOK
  <1> QED
    BY <1>1, <1>2, <1>3, <1>4, <1>5, <1>6 DEF Next

\* Once a user is registered for a project, so it stays.
LEMMA RegisteredStays ==
    ASSUME TypeInv, Growth, NEW r \in Requests, IsRegistered(input[r])
    PROVE  IsRegistered(input[r])'
  <1>1. PICK id \in registrations : Pair(input[id[1]]) = Pair(input[r])
    BY DEF IsRegistered
  <1>2. id[1] \in Requests
    BY <1>1 DEF TypeInv, TypeOK, Ids
  <1>3. /\ id \in registrations'
        /\ Pair(input[id[1]])' = Pair(input[r])'
    BY <1>1, <1>2 DEF Growth
  <1> QED
    BY <1>3 DEF IsRegistered

-----------------------------------------------------------------------------
(* Late applications.                                                        *)

\* A request that will leave no row and has left none.
Barred(r) ==
    /\ pc[r] \notin InTransaction \cup {"accepted"}
    /\ \A a \in Attempts : <<r, a>> \notin registrations

\* The read of the registration cannot miss a row that was committed when the
\* application came in, so a late application never reaches the transaction.
LateInv ==
    \A r \in Requests :
        /\ pc[r] = "idle" => /\ unread[r] = Reads
                             /\ ~joined[r]
                             /\ ~before[r].registered
        /\ pc[r] = "joined" => joined[r]
        /\ joined[r] => Barred(r) /\ IsRegistered(input[r])
        /\ before[r].registered =>
             /\ Barred(r)
             /\ IsRegistered(input[r])
             /\ "registration" \notin unread[r] => joined[r]

\* No application is late at the start.
LEMMA InitLate == Init => LateInv
  <1> SUFFICES ASSUME Init, NEW r \in Requests PROVE LateInv!(r)
    BY DEF LateInv
  <1> QED
    BY DEF Init

\* A late application keeps away from the transaction.
LEMMA LateStep == TypeInv /\ RowsInv /\ LateInv /\ [Next]_vars => LateInv'
  <1> SUFFICES ASSUME TypeInv, RowsInv, LateInv, [Next]_vars PROVE LateInv'
    OBVIOUS
  <1> USE DEF world, reading, transaction, effects, Id, InTransaction, Barred
  <1>g. \A q \in Requests : IsRegistered(input[q]) => IsRegistered(input[q])'
    BY GrowthStep, RegisteredStays
  <1>1. CASE Tick
    BY <1>1, <1>g DEF Tick, LateInv, RowsInv, Reads, TypeInv, TypeOK, Began
  <1>2. CASE \E p \in Projects : Deactivate(p)
    BY <1>2, <1>g DEF Deactivate, LateInv, RowsInv, Reads, TypeInv, TypeOK, Began
  <1>3. CASE Crash
    BY <1>3, <1>g DEF Crash, LateInv, RowsInv, Reads, TypeInv, TypeOK, Began
  <1>4. CASE UNCHANGED vars
    BY <1>4, <1>g DEF vars, LateInv, RowsInv, Reads, TypeInv, TypeOK, Began
  <1>5. ASSUME NEW r \in Requests, Receive(r) \/ ReadStep(r) \/ TransactionStep(r)
        PROVE  LateInv'
    <2>1. CASE Receive(r)
      BY <2>1, <1>g DEF Receive, LateInv, RowsInv, Reads, TypeInv, TypeOK, Began
    <2>2. CASE ReadProject(r)
      BY <2>2, <1>g DEF ReadProject, LateInv, RowsInv, Reads, TypeInv, TypeOK, Began
    <2>3. CASE ReadRegistration(r)
      BY <2>3, <1>g DEF ReadRegistration, LateInv, RowsInv, Reads, TypeInv,
         TypeOK, Began
    <2>4. CASE ReadUser(r)
      BY <2>4, <1>g DEF ReadUser, LateInv, RowsInv, Reads, TypeInv, TypeOK, Began
    <2>5. CASE ReadFails(r)
      BY <2>5, <1>g DEF ReadFails, LateInv, RowsInv, Reads, TypeInv, TypeOK, Began
    <2>6. CASE RefuseClosed(r)
      BY <2>6, <1>g DEF RefuseClosed, LateInv, RowsInv, Reads, TypeInv, TypeOK, Began
    <2>7. CASE RefuseJoined(r)
      BY <2>7, <1>g DEF RefuseJoined, LateInv, RowsInv, Reads, TypeInv, TypeOK, Began
    <2>8. CASE StartSession(r)
      BY <2>8, <1>g DEF StartSession, LateInv, RowsInv, Reads, TypeInv, TypeOK, Began
    <2>9. CASE BeginAttempt(r)
      BY <2>9, <1>g DEF BeginAttempt, LateInv, RowsInv, Reads, TypeInv, TypeOK, Began
    <2>10. CASE InsertRow(r)
      BY <2>10, <1>g DEF InsertRow, LateInv, RowsInv, Reads, TypeInv, TypeOK, Began
    <2>11. CASE \E a \in Attempts : SaveEmail(r, a)
      BY <2>11, <1>g DEF SaveEmail, LateInv, RowsInv, Reads, TypeInv, TypeOK, Began
    <2>12. CASE SendSnapshot(r)
      BY <2>12, <1>g DEF SendSnapshot, Written, LateInv, RowsInv, Reads,
         TypeInv, TypeOK, Began
    <2>13. CASE SnapshotFails(r)
      BY <2>13, <1>g DEF SnapshotFails, Written, LateInv, RowsInv, Reads,
         TypeInv, TypeOK, Began
    <2>14. CASE SendMail(r)
      BY <2>14, <1>g DEF SendMail, LateInv, RowsInv, Reads, TypeInv, TypeOK, Began
    <2>15. CASE Commit(r)
      BY <2>15, <1>g DEF Commit, LateInv, RowsInv, Reads, TypeInv, TypeOK, Began
    <2>16. CASE CommitUnknown(r)
      BY <2>16, <1>g DEF CommitUnknown, LateInv, RowsInv, Reads, TypeInv, TypeOK, Began
    <2>17. CASE TransientError(r)
      BY <2>17, <1>g DEF TransientError, LateInv, RowsInv, Reads, TypeInv, TypeOK, Began
    <2>18. CASE TransactionFails(r)
      BY <2>18, <1>g DEF TransactionFails, LateInv, RowsInv, Reads, TypeInv,
         TypeOK, Began
    <2>19. CASE Respond(r)
      BY <2>19, <1>g DEF Respond, LateInv, RowsInv, Reads, TypeInv, TypeOK, Began
    <2> QED
      BY <1>5, <2>1, <2>2, <2>3, <2>4, <2>5, <2>6, <2>7, <2>8, <2>9, <2>10,
         <2>11, <2>12, <2>13, <2>14, <2>15, <2>16, <2>17, <2>18, <2>19 DEF
         ReadStep, TransactionStep
  <1>6. CASE \E r \in Requests : AnswerUnnamed(r)
    BY <1>6, <1>g DEF AnswerUnnamed, LateInv, RowsInv, Reads, TypeInv, TypeOK, Began
  <1> QED
    BY <1>1, <1>2, <1>3, <1>4, <1>5, <1>6 DEF Next

-----------------------------------------------------------------------------
(* The user's address.                                                       *)

\* Only an application that came in when no address was stored writes one.
EmailInv ==
    \A r \in Requests :
        /\ pc[r] = "idle" => ~before[r].hasEmail /\ ~saveEmail[r]
        /\ before[r].hasEmail => email[input[r].user_id] # NoEmail
        /\ saveEmail[r] => /\ ~before[r].hasEmail
                           /\ input[r].notification_email # NoEmail
        /\ emailWrites[r] # {} => saveEmail[r] /\ pc[r] \notin {"idle", "reading"}

\* No write of an address is under way at the start.
LEMMA InitEmail == Init => EmailInv
  <1> SUFFICES ASSUME Init, NEW r \in Requests PROVE EmailInv!(r)
    BY DEF EmailInv
  <1> QED
    BY DEF Init

\* Every step keeps what is known of the writes of addresses.
LEMMA EmailStep == TypeInv /\ EmailInv /\ [Next]_vars => EmailInv'
  <1> SUFFICES ASSUME TypeInv, EmailInv, [Next]_vars PROVE EmailInv'
    OBVIOUS
  <1> USE DEF world, reading, transaction, effects
  <1>1. CASE Tick
    BY <1>1 DEF Tick, EmailInv, TypeInv, TypeOK, Inputs
  <1>2. CASE \E p \in Projects : Deactivate(p)
    BY <1>2 DEF Deactivate, EmailInv, TypeInv, TypeOK, Inputs
  <1>3. CASE Crash
    BY <1>3 DEF Crash, EmailInv, TypeInv, TypeOK, Inputs
  <1>4. CASE UNCHANGED vars
    BY <1>4 DEF vars, EmailInv, TypeInv, TypeOK, Inputs
  <1>5. ASSUME NEW r \in Requests, Receive(r) \/ ReadStep(r) \/ TransactionStep(r)
        PROVE  EmailInv'
    <2>1. CASE Receive(r)
      <3>1. \A q \in Requests :
              /\ input'[q].user_id = input[q].user_id
              /\ input'[q].notification_email = input[q].notification_email
        <4>1. input' = [input EXCEPT ![r] = [input[r] EXCEPT !.currentTime = clock]]
          BY <2>1 DEF Receive
        <4>2. input \in [Requests -> Inputs]
          BY DEF TypeInv, TypeOK
        <4> QED
          BY <4>1, <4>2 DEF Inputs
      <3>2. /\ pc'[r] = "reading"
            /\ before'[r].hasEmail <=> (email[input[r].user_id] # NoEmail)
            /\ \A q \in Requests \ {r} : pc'[q] = pc[q] /\ before'[q] = before[q]
            /\ UNCHANGED <<email, saveEmail, emailWrites>>
        <4>1. before \in [Requests -> [registered : BOOLEAN, hasEmail : BOOLEAN]]
          BY DEF TypeInv, TypeOK
        <4>2. before' = [before EXCEPT ![r] =
                           [registered |-> IsRegistered(input[r]),
                            hasEmail |-> email[input[r].user_id] # NoEmail]]
          BY <2>1 DEF Receive
        <4>3. before'[r].hasEmail <=> (email[input[r].user_id] # NoEmail)
          BY <4>1, <4>2
        <4>4. \A q \in Requests \ {r} : before'[q] = before[q]
          BY <4>1, <4>2
        <4> QED
          BY <2>1, <4>3, <4>4 DEF Receive, TypeInv, TypeOK
      <3>3. pc[r] = "idle"
        BY <2>1 DEF Receive
      <3> QED
        BY <3>1, <3>2, <3>3 DEF EmailInv
    <2>2. CASE ReadProject(r)
      BY <2>2 DEF ReadProject, EmailInv, TypeInv, TypeOK, Inputs
    <2>3. CASE ReadRegistration(r)
      BY <2>3 DEF ReadRegistration, EmailInv, TypeInv, TypeOK, Inputs
    <2>4. CASE ReadUser(r)
      <3>1. PICK found \in BOOLEAN :
              saveEmail' = [saveEmail EXCEPT ![r] =
                              /\ found
                              /\ email[input[r].user_id] = NoEmail
                              /\ input[r].notification_email # NoEmail]
        BY <2>4 DEF ReadUser
      <3>2. saveEmail'[r] => /\ email[input[r].user_id] = NoEmail
                            /\ input[r].notification_email # NoEmail
        BY <3>1 DEF TypeInv, TypeOK
      <3>3. \A q \in Requests \ {r} : saveEmail'[q] = saveEmail[q]
        BY <3>1 DEF TypeInv, TypeOK
      <3>4. UNCHANGED <<email, pc, input, emailWrites, before>> /\ pc[r] = "reading"
        BY <2>4 DEF ReadUser
      <3> QED
        BY <3>2, <3>3, <3>4 DEF EmailInv
    <2>5. CASE ReadFails(r)
      BY <2>5 DEF ReadFails, EmailInv, TypeInv, TypeOK, Inputs
    <2>6. CASE RefuseClosed(r)
      BY <2>6 DEF RefuseClosed, EmailInv, TypeInv, TypeOK, Inputs
    <2>7. CASE RefuseJoined(r)
      BY <2>7 DEF RefuseJoined, EmailInv, TypeInv, TypeOK, Inputs
    <2>8. CASE StartSession(r)
      BY <2>8 DEF StartSession, EmailInv, TypeInv, TypeOK, Inputs
    <2>9. CASE BeginAttempt(r)
      BY <2>9 DEF BeginAttempt, EmailInv, TypeInv, TypeOK, Inputs
    <2>10. CASE InsertRow(r)
      BY <2>10 DEF InsertRow, EmailInv, TypeInv, TypeOK, Inputs
    <2>11. CASE \E a \in Attempts : SaveEmail(r, a)
      BY <2>11 DEF SaveEmail, EmailInv, TypeInv, TypeOK, Inputs
    <2>12. CASE SendSnapshot(r)
      BY <2>12 DEF SendSnapshot, Written, EmailInv, TypeInv, TypeOK, Inputs
    <2>13. CASE SnapshotFails(r)
      BY <2>13 DEF SnapshotFails, Written, EmailInv, TypeInv, TypeOK, Inputs
    <2>14. CASE SendMail(r)
      BY <2>14 DEF SendMail, EmailInv, TypeInv, TypeOK, Inputs
    <2>15. CASE Commit(r)
      BY <2>15 DEF Commit, EmailInv, TypeInv, TypeOK, Inputs
    <2>16. CASE CommitUnknown(r)
      BY <2>16 DEF CommitUnknown, EmailInv, TypeInv, TypeOK, Inputs
    <2>17. CASE TransientError(r)
      BY <2>17 DEF TransientError, EmailInv, TypeInv, TypeOK, Inputs
    <2>18. CASE TransactionFails(r)
      BY <2>18 DEF TransactionFails, EmailInv, TypeInv, TypeOK, Inputs
    <2>19. CASE Respond(r)
      BY <2>19 DEF Respond, EmailInv, TypeInv, TypeOK, Inputs
    <2> QED
      BY <1>5, <2>1, <2>2, <2>3, <2>4, <2>5, <2>6, <2>7, <2>8, <2>9, <2>10,
         <2>11, <2>12, <2>13, <2>14, <2>15, <2>16, <2>17, <2>18, <2>19 DEF
         ReadStep, TransactionStep
  <1>6. CASE \E r \in Requests : AnswerUnnamed(r)
    BY <1>6 DEF AnswerUnnamed, EmailInv, TypeInv, TypeOK, Inputs
  <1> QED
    BY <1>1, <1>2, <1>3, <1>4, <1>5, <1>6 DEF Next

-----------------------------------------------------------------------------
(* The theorems.                                                             *)

IInv == TypeInv /\ RowsInv /\ WindowInv /\ LateInv /\ EmailInv

\* The inductive invariant holds at the start.
LEMMA InitIInv == Init => IInv
  BY InitType, InitRows, InitWindow, InitLate, InitEmail DEF IInv

\* Every step keeps the inductive invariant.
LEMMA StepIInv == IInv /\ [Next]_vars => IInv'
  BY TypeStep, RowsStep, WindowStep, LateStep, EmailStep DEF IInv

\* The inductive invariant holds of every reachable state: everything below
\* follows from it.
THEOREM Inductive == Spec => []IInv
  BY InitIInv, StepIInv, PTL DEF Spec

\* The collections, the queue and the handler's local state keep their types.
THEOREM TypeCorrect == Spec => []TypeOK
  <1>1. IInv => TypeOK
    BY DEF IInv, TypeInv
  <1> QED
    BY <1>1, Inductive, PTL

\* No row of create is committed without its message on the snapshot queue.
THEOREM SnapshotAlwaysRequested == Spec => []SnapshotRequested
  <1>1. IInv => SnapshotRequested
    BY DEF IInv, RowsInv, SnapshotRequested
  <1> QED
    BY <1>1, Inductive, PTL

\* The rows of an application are of its last attempt, so there is at most one, and it
\* only got so far because it came in within the registration period.
THEOREM RowsAlwaysEarned == Spec => []RowsAreEarned
  <1>1. ASSUME IInv PROVE RowsAreEarned
    <2> SUFFICES ASSUME NEW id \in registrations
                 PROVE  /\ input[id[1]].currentTime \in
                             OpenAt[input[id[1]].project_id] .. CloseAt[input[id[1]].project_id]
                        /\ \A other \in registrations : other[1] = id[1] => other = id
      BY DEF RowsAreEarned
    <2>1. id = <<id[1], id[2]>> /\ id[1] \in Requests /\ id[2] \in Attempts
      BY <1>1 DEF IInv, TypeInv, TypeOK, Ids
    <2>2. InWindow(id[1])
      BY <1>1, <2>1 DEF IInv, WindowInv
    <2>3. /\ input[id[1]].currentTime \in Int
          /\ OpenAt[input[id[1]].project_id] \in Int
          /\ CloseAt[input[id[1]].project_id] \in Int
      BY <1>1, <2>1, ConstantsAssumption DEF IInv, TypeInv, TypeOK, Inputs
    <2>4. ASSUME NEW other \in registrations, other[1] = id[1] PROVE other = id
      <3>1. other = <<other[1], other[2]>> /\ other[2] \in Attempts
        BY <1>1 DEF IInv, TypeInv, TypeOK, Ids
      <3>2. id[2] = attempt[id[1]] /\ other[2] = attempt[id[1]]
        BY <1>1, <2>1, <2>4, <3>1 DEF IInv, RowsInv
      <3> QED
        BY <2>1, <2>4, <3>1, <3>2
    <2> QED
      BY <2>2, <2>3, <2>4 DEF InWindow
  <1> QED
    BY <1>1, Inductive, PTL

\* The check-then-insert of create keeps out every application that does not
\* overlap with the one that registered.
THEOREM LateAlwaysRefused == Spec => []LateApplicationsRefused
  <1>1. ASSUME IInv PROVE LateApplicationsRefused
    <2> SUFFICES ASSUME NEW r \in Requests, before[r].registered,
                        NEW id \in registrations, id[1] = r
                 PROVE  FALSE
      BY DEF LateApplicationsRefused
    <2>1. id = <<r, id[2]>> /\ id[2] \in Attempts
      BY <1>1 DEF IInv, TypeInv, TypeOK, Ids
    <2> QED
      BY <1>1, <2>1 DEF IInv, LateInv, Barred
  <1> QED
    BY <1>1, Inductive, PTL

\* 'You have joined the project' is only said when it is true, and CREATED too unless
\* the caller's token names no wallet: then it is said and there is no row.
THEOREM AnswersAlwaysTrue == Spec => []AnswersTrue
  <1>1. ASSUME IInv PROVE AnswersTrue
    <2> SUFFICES ASSUME NEW r \in Requests
                 PROVE  /\ pc[r] = "accepted" => {id \in registrations : id[1] = r} # {}
                        /\ pc[r] = "joined" => /\ IsRegistered(input[r])
                                               /\ {id \in registrations : id[1] = r} = {}
                        /\ pc[r] = "unnamed" => {id \in registrations : id[1] = r} = {}
      BY DEF AnswersTrue
    <2>1. ASSUME pc[r] = "accepted" PROVE \E id \in registrations : id[1] = r
      BY <1>1, <2>1 DEF IInv, RowsInv, Id
    <2>2. ASSUME pc[r] = "joined" PROVE IsRegistered(input[r])
      BY <1>1, <2>2 DEF IInv, LateInv
    <2>3. ASSUME pc[r] \in {"joined", "unnamed"}, NEW id \in registrations, id[1] = r
          PROVE  FALSE
      <3>1. id = <<r, id[2]>> /\ id[2] \in Attempts
        BY <1>1, <2>3 DEF IInv, TypeInv, TypeOK, Ids
      <3> QED
        BY <1>1, <2>3, <3>1 DEF IInv, RowsInv
    <2> QED
      BY <2>1, <2>2, <2>3
  <1> QED
    BY <1>1, Inductive, PTL

\* An address that was stored when an application came in is not replaced by it.
THEOREM EmailKept == Spec => EmailReplacedOnlyByOverlap
  <1> DEFINE Kept ==
        \A u \in Users :
          email[u] # NoEmail /\ email'[u] # email[u] =>
            \E r \in Requests : /\ input[r].user_id = u
                                /\ input[r].notification_email = email'[u]
                                /\ pc[r] # "idle"
                                /\ ~before[r].hasEmail
  <1>1. ASSUME IInv, [Next]_vars PROVE [Kept]_vars
    <2> USE DEF world, reading, transaction, effects
    <2>1. ASSUME email' = email PROVE Kept
      BY <2>1
    <2>2. ASSUME NEW r \in Requests, NEW a \in Attempts, SaveEmail(r, a) PROVE Kept
      <3>1. /\ pc[r] # "idle"
            /\ ~before[r].hasEmail
        BY <1>1, <2>2 DEF SaveEmail, IInv, EmailInv
      <3>2. input[r].user_id \in Users
        BY <1>1 DEF IInv, TypeInv, TypeOK, Inputs
      <3>3. \A u \in Users : email'[u] # email[u] =>
               u = input[r].user_id /\ email'[u] = input[r].notification_email
        BY <1>1, <2>2, <3>2 DEF SaveEmail, IInv, TypeInv, TypeOK
      <3> QED
        BY <3>1, <3>3
    <2>3. CASE UNCHANGED vars
      BY <2>3
    <2>4. CASE Next
      <3>1. \/ email' = email
            \/ \E r \in Requests, a \in Attempts : SaveEmail(r, a)
        BY <2>4 DEF Next, Tick, Deactivate, Crash, AnswerUnnamed, Receive, ReadStep, TransactionStep,
           ReadProject, ReadRegistration, ReadUser, ReadFails, RefuseClosed, RefuseJoined,
           StartSession, BeginAttempt, InsertRow, SendSnapshot, SnapshotFails, SendMail,
           Commit, CommitUnknown, TransientError, TransactionFails, Respond
      <3> QED
        BY <2>1, <2>2, <3>1
    <2> QED
      BY <1>1, <2>3, <2>4
  <1>2. Spec => [][Kept]_vars
    BY <1>1, Inductive, PTL DEF Spec
  <1> QED
    BY <1>2 DEF EmailReplacedOnlyByOverlap

-----------------------------------------------------------------------------
(* The refinement.                                                           *)

\* An application has a row exactly when its last attempt was committed.
LEMMA RowIsCurrent ==
    ASSUME IInv, NEW r \in Requests
    PROVE  HasRow(r) <=> Id(r) \in registrations
  <1>1. ASSUME NEW id \in registrations, id[1] = r PROVE Id(r) \in registrations
    <2>1. id = <<r, id[2]>> /\ id[2] \in Attempts
      BY <1>1 DEF IInv, TypeInv, TypeOK, Ids
    <2>2. id[2] = attempt[r]
      BY <1>1, <2>1 DEF IInv, RowsInv
    <2> QED
      BY <1>1, <2>1, <2>2 DEF Id
  <1>2. Id(r) \in registrations => HasRow(r)
    BY DEF HasRow, Id
  <1> QED
    BY <1>1, <1>2 DEF HasRow

\* The ledger counts a user as registered exactly when create would find the row.
LEMMA RegisteredInLedger ==
    ASSUME NEW in PROVE IsRegistered(in) <=> Pair(in) \in ledgerRegistered
  BY DEF IsRegistered, ledgerRegistered

\* The status of an application, by where it stands.
LEMMA StatusValues ==
    ASSUME NEW r \in Requests, pc[r] \in States
    PROVE  /\ ledgerStatus[r] = StatusOf(r)
           /\ pc[r] \in {"idle", "unnamed"} => StatusOf(r) = "absent"
           /\ pc[r] = "accepted" => StatusOf(r) = "accepted"
           /\ pc[r] = "joined" => StatusOf(r) = "joined"
           /\ pc[r] \in {"notFound", "closed", "failed", "lost"} => StatusOf(r) = "failed"
           /\ pc[r] \in {"reading"} \cup InTransaction =>
                /\ HasRow(r) => StatusOf(r) = "entered"
                /\ ~HasRow(r) /\ before[r].registered => StatusOf(r) = "late"
                /\ ~HasRow(r) /\ ~before[r].registered => StatusOf(r) = "pending"
  <1>1. ledgerStatus[r] = StatusOf(r)
    BY DEF ledgerStatus
  <1>2. CASE pc[r] \in {"idle", "unnamed", "accepted", "joined", "notFound", "closed",
                        "failed", "lost"}
    BY <1>1, <1>2 DEF StatusOf, InTransaction
  <1>3. CASE pc[r] \in {"reading"} \cup InTransaction
    BY <1>1, <1>3 DEF StatusOf, InTransaction
  <1> QED
    BY <1>1, <1>2, <1>3 DEF States, Finished, Refusals

\* A row changes the ledger's set by the pair of its application, and no step
\* changes what applications want.
LEMMA LedgerSets ==
    ASSUME IInv, Growth, registrations' \subseteq Ids
    PROVE  /\ ledgerWants' = ledgerWants
           /\ registrations' = registrations => ledgerRegistered' = ledgerRegistered
           /\ \A r \in Requests :
                registrations' = registrations \cup {Id(r)} =>
                   ledgerRegistered' = ledgerRegistered \cup {ledgerWants[r]}
  <1>1. \A r \in Requests : Pair(input[r])' = Pair(input[r])
    BY DEF Growth
  <1>2. ledgerWants' = ledgerWants
    BY <1>1 DEF ledgerWants
  <1>3. \A id \in registrations : id[1] \in Requests
    BY DEF IInv, TypeInv, TypeOK, Ids
  <1>4. \A id \in registrations : Pair(input[id[1]])' = Pair(input[id[1]])
    BY <1>1, <1>3
  <1>5. ASSUME registrations' = registrations PROVE ledgerRegistered' = ledgerRegistered
    BY <1>4, <1>5 DEF ledgerRegistered
  <1>6. ASSUME NEW r \in Requests, registrations' = registrations \cup {Id(r)}
        PROVE  ledgerRegistered' = ledgerRegistered \cup {ledgerWants[r]}
    <2>1. Id(r)[1] = r
      BY DEF Id
    <2>2. Pair(input[r])' = ledgerWants[r]
      BY <1>1 DEF ledgerWants
    <2> QED
      BY <1>4, <1>6, <2>1, <2>2 DEF ledgerRegistered
  <1> QED
    BY <1>2, <1>5, <1>6

\* A step of one application leaves the status of the others alone.
LEMMA OnlyOneMoves ==
    ASSUME IInv, NEW r \in Requests, Receive(r) \/ ReadStep(r) \/ TransactionStep(r)
    PROVE  /\ ledgerStatus' = [ledgerStatus EXCEPT ![r] = StatusOf(r)']
           /\ registrations' = registrations \/ registrations' = registrations \cup {Id(r)}
  <1> USE DEF world, reading, transaction, effects
  <1>1. registrations' = registrations \/ registrations' = registrations \cup {Id(r)}
    BY DEF Receive, ReadStep, TransactionStep, ReadProject, ReadRegistration, ReadUser,
       ReadFails, RefuseClosed, RefuseJoined, StartSession, BeginAttempt, InsertRow,
       SaveEmail, SendSnapshot, SnapshotFails, SendMail, Commit, CommitUnknown,
       TransientError, TransactionFails, Respond
  <1>2. \A q \in Requests \ {r} : pc'[q] = pc[q]
    BY DEF Receive, ReadStep, TransactionStep, ReadProject, ReadRegistration, ReadUser,
       ReadFails, RefuseClosed, RefuseJoined, StartSession, BeginAttempt, InsertRow,
       SaveEmail, SendSnapshot, SnapshotFails, SendMail, Commit, CommitUnknown,
       TransientError, TransactionFails, Respond, IInv, TypeInv, TypeOK
  <1>3. \A q \in Requests \ {r} : before'[q] = before[q]
    <2>1. CASE Receive(r)
      BY <2>1 DEF Receive, IInv, TypeInv, TypeOK
    <2>2. CASE ReadStep(r) \/ TransactionStep(r)
      BY <2>2 DEF ReadStep, TransactionStep, ReadProject, ReadRegistration, ReadUser,
         ReadFails, RefuseClosed, RefuseJoined, StartSession, BeginAttempt, InsertRow,
         SaveEmail, SendSnapshot, SnapshotFails, SendMail, Commit, CommitUnknown,
         TransientError, TransactionFails, Respond
    <2> QED
      BY <2>1, <2>2
  <1>4. \A q \in Requests \ {r} : HasRow(q)' <=> HasRow(q)
    BY <1>1 DEF HasRow, Id
  <1>5. \A q \in Requests \ {r} : StatusOf(q)' = StatusOf(q)
    BY <1>2, <1>3, <1>4 DEF StatusOf
  <1> QED
    BY <1>1, <1>5 DEF ledgerStatus

\* Every step of a request is a step of the ledger, or a stutter.
LEMMA RequestRefines ==
    ASSUME IInv, IInv', NEW r \in Requests,
           Receive(r) \/ ReadStep(r) \/ TransactionStep(r)
    PROVE  Ledger!Next \/ UNCHANGED Ledger!vars
  <1> USE DEF world, reading, transaction, effects
  <1> DEFINE Active == {"reading"} \cup InTransaction
  <1>t. pc[r] \in States /\ registrations' \subseteq Ids
    BY DEF IInv, TypeInv, TypeOK
  <1>g. Growth
    BY GrowthStep DEF IInv, Next
  <1>w. ledgerWants' = ledgerWants /\ ledgerWants[r] = Pair(input[r])
    BY <1>t, <1>g, LedgerSets DEF ledgerWants
  <1>m. ledgerStatus' = [ledgerStatus EXCEPT ![r] = StatusOf(r)']
    BY OnlyOneMoves
  <1>v. /\ ledgerStatus[r] = StatusOf(r)
        /\ pc[r] \in Active => StatusOf(r) \in {"pending", "late", "entered"}
    BY <1>t, StatusValues
  <1>same. ASSUME registrations' = registrations
           PROVE  ledgerRegistered' = ledgerRegistered /\ (HasRow(r)' <=> HasRow(r))
    BY <1>t, <1>g, <1>same, LedgerSets DEF HasRow
  <1>stutter. ASSUME registrations' = registrations, StatusOf(r)' = StatusOf(r)
              PROVE  UNCHANGED Ledger!vars
    BY <1>m, <1>v, <1>w, <1>same, <1>stutter DEF Ledger!vars, ledgerStatus
  <1>active. ASSUME registrations' = registrations, before' = before,
                    pc[r] \in Active, pc'[r] \in Active
             PROVE  UNCHANGED Ledger!vars
    <2>1. StatusOf(r)' = StatusOf(r)
      BY <1>active, <1>same DEF StatusOf, InTransaction
    <2> QED
      BY <1>active, <1>stutter, <2>1
  <1>fail. ASSUME registrations' = registrations, pc[r] \in Active,
                  pc'[r] \in {"notFound", "closed", "failed"}
           PROVE  Ledger!Next
    <2>1. StatusOf(r)' = "failed"
      BY <1>fail DEF StatusOf, InTransaction
    <2>2. ledgerStatus' = [q \in Requests |-> IF q \in {r} THEN "failed" ELSE ledgerStatus[q]]
      BY <1>m, <2>1 DEF ledgerStatus
    <2>3. \A q \in {r} : ledgerStatus[q] \in {"pending", "late", "entered"}
      BY <1>v, <1>fail
    <2>4. Ledger!Fail({r})
      BY <1>w, <1>same, <1>fail, <2>2, <2>3 DEF Ledger!Fail
    <2> QED
      BY <2>4 DEF Ledger!Next
  <1>enter. ASSUME registrations' = registrations \cup {Id(r)}, Id(r) \notin registrations,
                   pc[r] \in {"commit", "unknown"}, pc'[r] \in {"unknown", "committed"}
            PROVE  Ledger!Next
    <2>1. ~HasRow(r)
      BY <1>enter, RowIsCurrent
    <2>2. ~before[r].registered
      BY <1>enter DEF IInv, LateInv, Barred, InTransaction
    <2>3. ledgerStatus[r] = "pending"
      BY <1>t, <1>v, <1>enter, <2>1, <2>2, StatusValues DEF InTransaction
    <2>4. HasRow(r)'
      BY <1>enter DEF HasRow, Id
    <2>5. StatusOf(r)' = "entered"
      BY <1>enter, <2>4 DEF StatusOf, InTransaction
    <2>6. ledgerRegistered' = ledgerRegistered \cup {ledgerWants[r]}
      BY <1>t, <1>g, <1>enter, LedgerSets
    <2>7. Ledger!Enter(r)
      BY <1>m, <1>w, <2>3, <2>5, <2>6 DEF Ledger!Enter
    <2> QED
      BY <2>7 DEF Ledger!Next
  <1>1. CASE Receive(r)
    <2>1. pc[r] = "idle" /\ pc'[r] = "reading" /\ registrations' = registrations
      BY <1>1 DEF Receive, IInv, TypeInv, TypeOK
    <2>2. ~HasRow(r)'
      BY <2>1, <1>same, RowIsCurrent DEF IInv, RowsInv, TypeInv, TypeOK, Id, Ids
    <2>3. before'[r].registered <=> IsRegistered(input[r])
      <3>1. before \in [Requests -> [registered : BOOLEAN, hasEmail : BOOLEAN]]
        BY DEF IInv, TypeInv, TypeOK
      <3> QED
        BY <1>1, <3>1 DEF Receive
    <2>4. before'[r].registered <=> ledgerWants[r] \in ledgerRegistered
      BY <1>w, <2>3, RegisteredInLedger
    <2>5. StatusOf(r)' = IF ledgerWants[r] \in ledgerRegistered THEN "late" ELSE "pending"
      BY <2>1, <2>2, <2>4 DEF StatusOf, InTransaction
    <2>6. ledgerStatus[r] = "absent"
      BY <1>t, <2>1, StatusValues
    <2>7. Ledger!Ask(r)
      BY <1>m, <1>w, <1>same, <2>1, <2>5, <2>6 DEF Ledger!Ask
    <2> QED
      BY <2>7 DEF Ledger!Next
  <1>2. CASE ReadProject(r)
    <2>1. CASE active[input[r].project_id]
      BY <1>2, <1>active, <2>1 DEF ReadProject
    <2>2. CASE ~active[input[r].project_id]
      <3>1. pc'[r] = "notFound"
        BY <1>2, <2>2 DEF ReadProject, IInv, TypeInv, TypeOK
      <3> QED
        BY <1>2, <1>fail, <3>1 DEF ReadProject
    <2> QED
      BY <2>1, <2>2
  <1>3. CASE ReadRegistration(r) \/ ReadUser(r)
    BY <1>3, <1>active DEF ReadRegistration, ReadUser
  <1>4. CASE ReadFails(r) \/ RefuseClosed(r)
    BY <1>4, <1>fail DEF ReadFails, RefuseClosed, IInv, TypeInv, TypeOK
  <1>5. CASE RefuseJoined(r)
    <2>1. pc[r] = "reading" /\ pc'[r] = "joined" /\ registrations' = registrations
      BY <1>5 DEF RefuseJoined, IInv, TypeInv, TypeOK
    <2>2. ~HasRow(r)
      BY <2>1, RowIsCurrent DEF IInv, RowsInv, TypeInv, TypeOK, Id, Ids
    <2>3. ledgerStatus[r] \in {"pending", "late"}
      BY <1>t, <2>1, <2>2, StatusValues
    <2>4. ledgerWants[r] \in ledgerRegistered
      BY <1>5, <1>w, RegisteredInLedger DEF RefuseJoined, IInv, LateInv
    <2>5. StatusOf(r)' = "joined"
      BY <2>1 DEF StatusOf, InTransaction
    <2>6. Ledger!AnswerJoined(r)
      BY <1>m, <1>w, <1>same, <2>1, <2>3, <2>4, <2>5 DEF Ledger!AnswerJoined
    <2> QED
      BY <2>6 DEF Ledger!Next
  <1>6. CASE StartSession(r) \/ BeginAttempt(r) \/ InsertRow(r) \/ TransientError(r)
    BY <1>6, <1>active DEF StartSession, BeginAttempt, InsertRow, TransientError,
       InTransaction, IInv, TypeInv, TypeOK
  <1>7. CASE \E a \in Attempts : SaveEmail(r, a)
    <2>1. UNCHANGED <<pc, before, registrations>>
      BY <1>7 DEF SaveEmail
    <2>2. StatusOf(r)' = StatusOf(r)
      BY <1>same, <2>1 DEF StatusOf
    <2> QED
      BY <1>stutter, <2>1, <2>2
  <1>8. CASE SendSnapshot(r) \/ SendMail(r)
    BY <1>8, <1>active DEF SendSnapshot, SendMail, Written, InTransaction,
       IInv, TypeInv, TypeOK
  <1>9. CASE SnapshotFails(r) \/ TransactionFails(r)
    BY <1>9, <1>fail DEF SnapshotFails, TransactionFails, Written, InTransaction,
       IInv, TypeInv, TypeOK
  <1>10. CASE Commit(r) \/ CommitUnknown(r)
    <2>1. /\ pc[r] \in {"commit", "unknown"}
          /\ pc'[r] \in {"unknown", "committed"}
          /\ before' = before
      BY <1>10 DEF Commit, CommitUnknown, IInv, TypeInv, TypeOK
    <2>2. CASE registrations' = registrations
      BY <1>active, <2>1, <2>2 DEF InTransaction
    <2>3. CASE registrations' # registrations
      <3>1. registrations' = registrations \cup {Id(r)}
        BY <2>3, OnlyOneMoves
      <3>2. Id(r) \notin registrations
        BY <2>3, <3>1
      <3> QED
        BY <1>enter, <2>1, <3>1, <3>2
    <2> QED
      BY <2>2, <2>3
  <1>11. CASE Respond(r)
    <2>1. pc[r] = "committed" /\ pc'[r] = "accepted" /\ registrations' = registrations
      BY <1>11 DEF Respond, IInv, TypeInv, TypeOK
    <2>2. HasRow(r)
      BY <2>1, RowIsCurrent DEF IInv, RowsInv
    <2>3. ledgerStatus[r] = "entered"
      BY <1>t, <1>v, <2>1, <2>2, StatusValues DEF InTransaction
    <2>4. StatusOf(r)' = "accepted"
      BY <2>1 DEF StatusOf, InTransaction
    <2>5. Ledger!Accept(r)
      BY <1>m, <1>w, <1>same, <2>1, <2>3, <2>4 DEF Ledger!Accept
    <2> QED
      BY <2>5 DEF Ledger!Next
  <1> QED
    BY <1>1, <1>2, <1>3, <1>4, <1>5, <1>6, <1>7, <1>8, <1>9, <1>10, <1>11
       DEF ReadStep, TransactionStep

\* A crash is the failure of every request that was under way.
LEMMA CrashRefines == IInv /\ Crash => Ledger!Next
  <1> SUFFICES ASSUME IInv, Crash PROVE Ledger!Next
    OBVIOUS
  <1> USE DEF world, reading, transaction, effects
  <1> DEFINE Active == {"reading"} \cup InTransaction
             S == {r \in Requests : pc[r] \in Active}
  <1>1. /\ pc' = [r \in Requests |-> IF pc[r] \in Active THEN "lost" ELSE pc[r]]
        /\ UNCHANGED <<input, before, registrations>>
    BY DEF Crash
  <1>2. \A r \in S : ledgerStatus[r] \in {"pending", "late", "entered"}
    BY StatusValues DEF IInv, TypeInv, TypeOK
  <1>3. \A r \in Requests : StatusOf(r)' = IF r \in S THEN "failed" ELSE ledgerStatus[r]
    <2> SUFFICES ASSUME NEW r \in Requests
                 PROVE  StatusOf(r)' = IF r \in S THEN "failed" ELSE ledgerStatus[r]
      OBVIOUS
    <2>1. CASE r \in S
      <3>1. pc'[r] = "lost"
        BY <1>1, <2>1
      <3>2. StatusOf(r)' = "failed"
        BY <3>1 DEF StatusOf, InTransaction
      <3> QED
        BY <2>1, <3>2
    <2>2. CASE r \notin S
      <3>1. pc'[r] = pc[r] /\ before'[r] = before[r] /\ (HasRow(r)' <=> HasRow(r))
        BY <1>1, <2>2 DEF HasRow
      <3>2. StatusOf(r)' = StatusOf(r)
        BY <3>1 DEF StatusOf
      <3> QED
        BY <2>2, <3>2 DEF ledgerStatus
    <2> QED
      BY <2>1, <2>2
  <1>4. UNCHANGED <<ledgerWants, ledgerRegistered>>
    BY <1>1 DEF ledgerWants, ledgerRegistered
  <1>5. Ledger!Fail(S)
    BY <1>2, <1>3, <1>4 DEF Ledger!Fail, ledgerStatus
  <1> QED
    BY <1>5 DEF Ledger!Next

\* The surroundings leave the ledger as it is.
LEMMA WorldRefines ==
    ASSUME UNCHANGED <<pc, input, before, registrations>>
    PROVE  UNCHANGED Ledger!vars
  <1>1. \A r \in Requests : StatusOf(r)' = StatusOf(r)
    BY DEF StatusOf, HasRow
  <1> QED
    BY <1>1 DEF Ledger!vars, ledgerStatus, ledgerWants, ledgerRegistered

\* A request without a wallet is absent from the ledger, before its answer and after.
LEMMA UnnamedRefines ==
    ASSUME IInv, NEW r \in Requests, AnswerUnnamed(r)
    PROVE  UNCHANGED Ledger!vars
  <1>1. /\ pc[r] = "idle" /\ pc'[r] = "unnamed"
        /\ \A q \in Requests \ {r} : pc'[q] = pc[q]
        /\ UNCHANGED <<input, before, registrations>>
    BY DEF AnswerUnnamed, effects, IInv, TypeInv, TypeOK
  <1>2. \A q \in Requests : StatusOf(q)' = StatusOf(q)
    <2>1. StatusOf(r) = "absent" /\ StatusOf(r)' = "absent"
      BY <1>1 DEF StatusOf, InTransaction
    <2>2. ASSUME NEW q \in Requests \ {r} PROVE StatusOf(q)' = StatusOf(q)
      BY <1>1, <2>2 DEF StatusOf, HasRow
    <2> QED
      BY <2>1, <2>2
  <1> QED
    BY <1>1, <1>2 DEF Ledger!vars, ledgerStatus, ledgerWants, ledgerRegistered

\* The initial states map to initial states of the ledger.
LEMMA InitRefines == Init => Ledger!Init
  <1> SUFFICES ASSUME Init PROVE Ledger!Init
    OBVIOUS
  <1>1. \A r \in Requests : pc[r] = "idle"
    BY DEF Init
  <1>2. \A r \in Requests : StatusOf(r) = "absent"
    BY <1>1 DEF StatusOf, InTransaction
  <1>3. \A r \in Requests : Pair(input[r]) \in Users \X Projects
    BY DEF Init, Inputs, Pair
  <1>4. ledgerRegistered = {}
    BY DEF Init, ledgerRegistered
  <1> QED
    BY <1>2, <1>3, <1>4 DEF Ledger!Init, ledgerStatus, ledgerWants

\* The handler, with its reads, retries and crashes, is the ledger.
THEOREM Refinement == Spec => ImplementsLedger
  <1>1. IInv /\ IInv' /\ [Next]_vars => [Ledger!Next]_(Ledger!vars)
    <2> SUFFICES ASSUME IInv, IInv', [Next]_vars
                 PROVE  Ledger!Next \/ UNCHANGED Ledger!vars
      OBVIOUS
    <2>1. CASE Tick \/ (\E p \in Projects : Deactivate(p)) \/ UNCHANGED vars
      BY <2>1, WorldRefines DEF Tick, Deactivate, vars, effects
    <2>2. CASE Crash
      BY <2>2, CrashRefines
    <2>3. CASE \E r \in Requests : Receive(r) \/ ReadStep(r) \/ TransactionStep(r)
      BY <2>3, RequestRefines
    <2>4. CASE \E r \in Requests : AnswerUnnamed(r)
      BY <2>4, UnnamedRefines
    <2> QED
      BY <2>1, <2>2, <2>3, <2>4 DEF Next
  <1> QED
    BY <1>1, InitRefines, Inductive, PTL DEF Spec, ImplementsLedger, Ledger!Spec

=============================================================================
