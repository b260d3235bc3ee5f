--------------------------- MODULE PoolHoldersProofs ---------------------------
(***************************************************************************)
(* Theorems about PoolHolders: the cache of holders is wrong only in       *)
(* entries read before an edit and stamped after it, for any number of     *)
(* requests, wallets and instants.                                         *)
(***************************************************************************)
EXTENDS PoolHolders, TLAPS

\* The types hold at the start.
LEMMA InitType == Init => TypeOK
  BY ConstantsAssumption DEF Init, TypeOK, Times, Steps, Lists

\* Every step keeps the types.
LEMMA HoldersTypeStep == TypeOK /\ [Next]_vars => TypeOK'
  <1> SUFFICES ASSUME TypeOK, [Next]_vars PROVE TypeOK'
    OBVIOUS
  <1> USE ConstantsAssumption DEF TypeOK, Times, history
  <1>1. CASE Tick
    BY <1>1 DEF Tick
  <1>2. ASSUME NEW new \in Lists, Edit(new) PROVE TypeOK'
    BY <1>2 DEF Edit
  <1>3. ASSUME NEW r \in Requests, ListPool(r) PROVE TypeOK'
    BY <1>3 DEF ListPool, Steps
  <1>4. ASSUME NEW r \in Requests, Hit(r) PROVE TypeOK'
    BY <1>4 DEF Hit, Usable, Entries, Steps
  <1>5. ASSUME NEW r \in Requests, Miss(r) PROVE TypeOK'
    BY <1>5 DEF Miss, Steps
  <1>6. ASSUME NEW r \in Requests, Fetch(r) PROVE TypeOK'
    BY <1>6 DEF Fetch, Steps
  <1>7. ASSUME NEW r \in Requests, Store(r) PROVE TypeOK'
    BY <1>7 DEF Store, Entries, Steps
  <1>8. CASE Restart
    BY <1>8 DEF Restart, Steps
  <1>9. CASE UNCHANGED vars
    BY <1>9 DEF vars
  <1>10. ASSUME NEW r \in Requests, FetchFails(r) PROVE TypeOK'
    BY <1>10 DEF FetchFails, Steps
  <1> QED
    BY <1>1, <1>2, <1>3, <1>4, <1>5, <1>6, <1>7, <1>8, <1>9, <1>10 DEF Next

-----------------------------------------------------------------------------
(* What the instants of edits, stamps and reads have to do with each other.  *)

TimesInv ==
    /\ modified <= clock
    /\ cache # None => cache.last_update_time <= clock
    /\ \A r \in Requests : Running(r) => seen[r] <= modified

\* No edit and no stamp lies in the future at the start.
LEMMA InitTimes == Init => TimesInv
  BY DEF Init, TimesInv, Running

\* Every step keeps stamps and edits in the past, and edits after what was read.
LEMMA TimesStep == TypeOK /\ TimesInv /\ [Next]_vars => TimesInv'
  <1> SUFFICES ASSUME TypeOK, TimesInv, [Next]_vars PROVE TimesInv'
    OBVIOUS
  <1> USE ConstantsAssumption DEF TypeOK, TimesInv, Times, history, Running
  <1>1. CASE Tick
    BY <1>1 DEF Tick, Entries
  <1>2. ASSUME NEW new \in Lists, Edit(new) PROVE TimesInv'
    BY <1>2 DEF Edit
  <1>3. ASSUME NEW r \in Requests, ListPool(r) PROVE TimesInv'
    BY <1>3 DEF ListPool
  <1>4. ASSUME NEW r \in Requests, Hit(r) \/ Miss(r) \/ Fetch(r) PROVE TimesInv'
    BY <1>4 DEF Hit, Miss, Fetch
  <1>5. ASSUME NEW r \in Requests, Store(r) PROVE TimesInv'
    BY <1>5 DEF Store
  <1>6. CASE Restart
    BY <1>6 DEF Restart
  <1>7. CASE UNCHANGED vars
    BY <1>7 DEF vars
  <1>10. ASSUME NEW r \in Requests, FetchFails(r) PROVE TimesInv'
    BY <1>10 DEF FetchFails
  <1> QED
    BY <1>1, <1>2, <1>3, <1>4, <1>5, <1>6, <1>7, <1>10 DEF Next

-----------------------------------------------------------------------------
(* What a request knows of the holders.                                      *)

ListsInv ==
    /\ UsableEntryIsCurrent
    /\ AnswersWereTrue
    /\ \A r \in Requests :
         /\ Running(r) => holders \in during[r]
         /\ step[r] = "fetched" => /\ edited[r] \/ list[r] = holders
                                   /\ list[r] \in during[r]
         /\ step[r] = "listed" /\ cache # None /\ seen[r] < cache.last_update_time =>
                cache.torn \/ cache.holders \in during[r]

\* No request has got anything at the start.
LEMMA InitLists == Init => ListsInv
  BY DEF Init, ListsInv, UsableEntryIsCurrent, AnswersWereTrue, Running

\* Every step keeps the entry current or torn, and the lists of the requests
\* among those the pool had.
LEMMA ListsStep == TypeOK /\ TimesInv /\ ListsInv /\ [Next]_vars => ListsInv'
  <1> SUFFICES ASSUME TypeOK, TimesInv, ListsInv, [Next]_vars PROVE ListsInv'
    OBVIOUS
  <1> USE ConstantsAssumption DEF TypeOK, ListsInv, UsableEntryIsCurrent,
          AnswersWereTrue, Times, history, Running
  <1>1. CASE Tick
    BY <1>1 DEF Tick
  <1>2. ASSUME NEW new \in Lists, Edit(new) PROVE ListsInv'
    <2>1. UsableEntryIsCurrent'
      BY <1>2 DEF Edit, TimesInv, Entries
    <2>2. \A r \in Requests : Running(r) => during'[r] = during[r] \cup {new}
      BY <1>2 DEF Edit
    <2>3. \A r \in Requests : during[r] \subseteq during'[r]
      BY <1>2 DEF Edit
    <2> QED
      BY <1>2, <2>1, <2>2, <2>3 DEF Edit
  <1>3. ASSUME NEW r \in Requests, ListPool(r) PROVE ListsInv'
    BY <1>3 DEF ListPool
  <1>4. ASSUME NEW r \in Requests, Hit(r) PROVE ListsInv'
    BY <1>4 DEF Hit, Usable
  <1>5. ASSUME NEW r \in Requests, Miss(r) PROVE ListsInv'
    BY <1>5 DEF Miss
  <1>6. ASSUME NEW r \in Requests, Fetch(r) PROVE ListsInv'
    BY <1>6 DEF Fetch
  <1>7. ASSUME NEW r \in Requests, Store(r) PROVE ListsInv'
    <2>1. /\ cache' # None
          /\ cache'.holders = list[r]
          /\ cache'.torn = edited[r]
      <3>1. cache' \in Entries
        BY <1>7 DEF Store, Entries
      <3> QED
        BY <1>7, <3>1 DEF Store
    <2>2. UsableEntryIsCurrent'
      BY <1>7, <2>1 DEF Store
    <2>3. \A q \in Requests : step'[q] = "listed" => step[q] = "listed"
      BY <1>7 DEF Store
    <2>4. AnswersWereTrue'
      BY <1>7 DEF Store
    <2> QED
      BY <1>7, <2>1, <2>2, <2>3, <2>4 DEF Store
  <1>8. CASE Restart
    BY <1>8 DEF Restart
  <1>9. CASE UNCHANGED vars
    BY <1>9 DEF vars
  <1>10. ASSUME NEW r \in Requests, FetchFails(r) PROVE ListsInv'
    BY <1>10 DEF FetchFails
  <1> QED
    BY <1>1, <1>2, <1>3, <1>4, <1>5, <1>6, <1>7, <1>8, <1>9, <1>10 DEF Next

-----------------------------------------------------------------------------
(* The theorems.                                                             *)

HoldersInv == TypeOK /\ TimesInv /\ ListsInv

\* The inductive invariant holds of every reachable state.
THEOREM HoldersInductive == Spec => []HoldersInv
  <1>1. Init => HoldersInv
    BY InitType, InitTimes, InitLists DEF HoldersInv
  <1>2. HoldersInv /\ [Next]_vars => HoldersInv'
    BY HoldersTypeStep, TimesStep, ListsStep DEF HoldersInv
  <1> QED
    BY <1>1, <1>2, PTL DEF Spec

\* The entry and the local state of mintingPool keep their types.
THEOREM TypeCorrect == Spec => []TypeOK
  <1>1. HoldersInv => TypeOK
    BY DEF HoldersInv
  <1> QED
    BY <1>1, HoldersInductive, PTL

\* The comparison of modify_holder_time with last_update_time lets only torn
\* entries hide an edit.
THEOREM UsableEntryAlwaysCurrent == Spec => []UsableEntryIsCurrent
  <1>1. HoldersInv => UsableEntryIsCurrent
    BY DEF HoldersInv, ListsInv
  <1> QED
    BY <1>1, HoldersInductive, PTL

\* mintingPool answers with holders of the time of the request, whatever fills
\* and restarts race with it.
THEOREM AnswersAlwaysWereTrue == Spec => []AnswersWereTrue
  <1>1. HoldersInv => AnswersWereTrue
    BY DEF HoldersInv, ListsInv
  <1> QED
    BY <1>1, HoldersInductive, PTL

=============================================================================
