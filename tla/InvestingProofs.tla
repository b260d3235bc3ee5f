---------------------------- MODULE InvestingProofs ----------------------------
(***************************************************************************)
(* Theorems about Investing: what the deliveries of the webhook write,     *)
(* answer and push, for any number of them, any transactions and lists;    *)
(* and about Portfolio: what is summed up of it.                           *)
(***************************************************************************)
EXTENDS Portfolio, SequenceTheorems, FiniteSetTheorems, WellFoundedInduction, TLAPS

\* A delivery lists transactions, and at least one.
LEMMA BatchType ==
    ASSUME NEW b \in Batches
    PROVE  b \in Seq(Signatures) /\ b # <<>> /\ Len(b) \in Nat \ {0}
           /\ \A i \in 1 .. Len(b) : b[i] \in Signatures
  <1>1. b \in Seq(Signatures) /\ b # <<>>
    BY ConstantsAssumption
  <1>2. Len(b) \in Nat /\ Len(b) # 0
    BY <1>1, EmptySeq, LenProperties
  <1> QED
    BY <1>1, <1>2, ElementOfSeq

\* The first of what is left of a list is the next transaction of the list.
LEMMA RestType ==
    ASSUME NEW b \in Seq(Signatures), NEW n \in 0 .. Len(b), Rest(b, n) # <<>>
    PROVE  /\ n + 1 \in 1 .. Len(b)
           /\ Head(Rest(b, n)) = b[n + 1]
           /\ Tail(Rest(b, n)) = Rest(b, n + 1)
  <1>1. Len(b) \in Nat
    BY LenProperties
  <1>2. n # Len(b)
    <2> SUFFICES ASSUME n = Len(b) PROVE FALSE
      OBVIOUS
    <2> QED
      BY <1>1, SubSeqEmpty, n + 1 \in Int DEF Rest
  <1>3. n + 1 \in 1 .. Len(b) /\ Len(b) \in n + 1 .. Len(b)
    BY <1>1, <1>2
  <1> QED
    BY <1>3, HeadTailOfSubSeq DEF Rest

-----------------------------------------------------------------------------
(* The types.  The transactions a delivery has dealt with have rows.         *)

Dealt(d) ==
    \E n \in 0 .. Len(batch[d]) :
        /\ todo[d] = Rest(batch[d], n)
        /\ \A i \in 1 .. n : HasRow(batch[d][i])

TypeInv ==
    /\ TypeOK
    /\ \A d \in Deliveries : Dealt(d)
    /\ \A d \in Deliveries : missed[d] => todo[d] # <<>>
    /\ \A d \in Deliveries : step[d] \in {"writing", "pushing"} => batch[d] # <<>>
    /\ \A p \in pushes \cup notified \cup refused : step[p[1]] \notin {"idle", "writing"}

\* The list of a delivery is a sequence of transactions, and what is pushed last
\* is one of them.
LEMMA ListType ==
    ASSUME TypeOK, NEW d \in Deliveries
    PROVE  /\ batch[d] \in Seq(Signatures)
           /\ Len(batch[d]) \in Nat
           /\ ToSet(batch[d]) = {batch[d][i] : i \in 1 .. Len(batch[d])}
           /\ ToSet(batch[d]) \subseteq Signatures
           /\ batch[d] # <<>> => Last(batch[d]) \in ToSet(batch[d])
  <1>1. batch[d] \in Seq(Signatures)
    <2>1. CASE batch[d] = <<>>
      BY <2>1, EmptySeq
    <2>2. CASE batch[d] \in Batches
      BY <2>2, BatchType
    <2> QED
      BY <2>1, <2>2 DEF TypeOK
  <1>2. Len(batch[d]) \in Nat /\ DOMAIN batch[d] = 1 .. Len(batch[d])
    BY <1>1, LenProperties
  <1>3. ToSet(batch[d]) = {batch[d][i] : i \in 1 .. Len(batch[d])}
    BY <1>2 DEF ToSet
  <1>4. ToSet(batch[d]) \subseteq Signatures
    BY <1>1, <1>3, ElementOfSeq
  <1>5. batch[d] # <<>> => Last(batch[d]) \in ToSet(batch[d])
    <2> SUFFICES ASSUME batch[d] # <<>> PROVE batch[d][Len(batch[d])] \in ToSet(batch[d])
      BY DEF Last
    <2>1. Len(batch[d]) # 0
      BY <1>1, EmptySeq
    <2> QED
      BY <2>1, <1>2, <1>3
  <1> QED
    BY <1>1, <1>2, <1>3, <1>4, <1>5

\* A delivery that leaves its list alone has dealt with as much as before: rows
\* are never removed.
LEMMA DealtKept ==
    ASSUME NEW d \in Deliveries, Dealt(d), batch'[d] = batch[d], todo'[d] = todo[d],
           rows \subseteq rows'
    PROVE  Dealt(d)'
  BY DEF Dealt, HasRow

\* What a delivery does not do to its own list nobody else does.
LEMMA DealtUnchanged ==
    ASSUME \A d \in Deliveries : Dealt(d), UNCHANGED <<batch, todo>>, rows \subseteq rows'
    PROVE  \A d \in Deliveries : Dealt(d)'
  BY DealtKept

\* The pushes of a delivery that has finished its writes.
LEMMA PushesType ==
    ASSUME TypeInv, NEW d \in Deliveries, step[d] = "writing"
    PROVE  /\ PushesOf(d) \subseteq Pushes
           /\ <<d, Last(batch[d])>> \in PushesOf(d)
           /\ PushesOf(d) \cap (pushes \cup notified \cup refused) = {}
           /\ \A p \in PushesOf(d) : p[1] = d
  BY ListType DEF TypeInv, PushesOf, Pushes

\* There is nothing at the start.
LEMMA InitType == Init => TypeInv
  <1> SUFFICES ASSUME Init PROVE TypeInv
    OBVIOUS
  <1>1. \A d \in Deliveries : Dealt(d)
    <2> SUFFICES ASSUME NEW d \in Deliveries PROVE Dealt(d)
      OBVIOUS
    <2>1. batch[d] = <<>> /\ todo[d] = <<>> /\ Len(batch[d]) = 0
      BY EmptySeq DEF Init
    <2>2. Rest(batch[d], 0) = <<>>
      BY <2>1, SubSeqEmpty DEF Rest
    <2> QED
      BY <2>1, <2>2 DEF Dealt
  <1>2. TypeOK
    BY <1>1, EmptySeq DEF Init, TypeOK, Steps, Dealt
  <1> QED
    BY <1>1, <1>2 DEF Init, TypeInv

\* Every step keeps the types, and a row for every transaction dealt with.
LEMMA TypeStep == TypeInv /\ [Next]_vars => TypeInv'
  <1> SUFFICES ASSUME TypeInv, [Next]_vars PROVE TypeInv'
    OBVIOUS
  <1> USE DEF bulk, outcome
  <1>t. TypeOK
    BY DEF TypeInv
  <1>1. ASSUME NEW d \in Deliveries, NEW b \in Batches, Receive(d, b) PROVE TypeInv'
    <2>1. b \in Seq(Signatures) /\ b # <<>> /\ Len(b) \in Nat
      BY BatchType
    <2>2. Rest(b, 0) = b
      BY <2>1, SubSeqFull DEF Rest
    <2>3. Dealt(d)'
      <3>1. batch'[d] = b /\ todo'[d] = b
        BY <1>1, <1>t DEF Receive, TypeOK
      <3> QED
        BY <2>1, <2>2, <3>1 DEF Dealt
    <2>4. \A e \in Deliveries : Dealt(e)'
      <3> SUFFICES ASSUME NEW e \in Deliveries, e # d PROVE Dealt(e)'
        BY <2>3
      <3>1. batch'[e] = batch[e] /\ todo'[e] = todo[e] /\ rows' = rows
        BY <1>1, <1>t DEF Receive, TypeOK
      <3> QED
        BY <3>1, DealtKept DEF TypeInv
    <2>5. TypeOK'
      BY <1>1, <1>t, <2>1, <2>4 DEF Receive, TypeOK, Steps, Dealt, HasRow
    <2>6. \A e \in Deliveries : missed'[e] => todo'[e] # <<>>
      BY <1>1, <1>t, <2>1 DEF Receive, TypeInv, TypeOK
    <2>7. \A e \in Deliveries : step'[e] \in {"writing", "pushing"} => batch'[e] # <<>>
      BY <1>1, <1>t, <2>1 DEF Receive, TypeInv, TypeOK
    <2>8. \A p \in (pushes \cup notified \cup refused)' : step'[p[1]] \notin {"idle", "writing"}
      BY <1>1, <1>t DEF Receive, TypeInv, TypeOK, Pushes
    <2> QED
      BY <2>4, <2>5, <2>6, <2>7, <2>8 DEF TypeInv
  <1>2. ASSUME NEW d \in Deliveries, Match(d) PROVE TypeInv'
    <2>1. CASE HasRow(Head(todo[d]))
      <3>1. PICK n \in 0 .. Len(batch[d]) :
              /\ todo[d] = Rest(batch[d], n)
              /\ \A i \in 1 .. n : HasRow(batch[d][i])
        BY DEF TypeInv, Dealt
      <3>2. /\ n + 1 \in 1 .. Len(batch[d])
            /\ Head(todo[d]) = batch[d][n + 1]
            /\ Tail(todo[d]) = Rest(batch[d], n + 1)
        BY <1>2, <1>t, <3>1, RestType, ListType DEF Match
      <3>3. /\ todo'[d] = Rest(batch[d], n + 1)
            /\ \A e \in Deliveries : e # d => todo'[e] = todo[e]
            /\ UNCHANGED <<step, batch, missed, rows, variables, pushes, notified,
                           refused, known, newest, synced>>
            /\ todo' = [todo EXCEPT ![d] = Tail(todo[d])]
        BY <1>2, <1>t, <2>1, <3>2 DEF Match, TypeOK
      <3>4. \A i \in 1 .. n + 1 : HasRow(batch[d][i])
        BY <2>1, <3>1, <3>2
      <3>5. Dealt(d)'
        <4>1. \A i \in 1 .. n + 1 : HasRow(batch[d][i])'
          BY <3>3, <3>4 DEF HasRow
        <4> QED
          BY <3>2, <3>3, <4>1 DEF Dealt
      <3>6. \A e \in Deliveries : Dealt(e)'
        <4> SUFFICES ASSUME NEW e \in Deliveries, e # d PROVE Dealt(e)'
          BY <3>5
        <4> QED
          BY <3>3, DealtKept DEF TypeInv
      <3>7. Tail(todo[d]) \in Seq(Signatures)
        BY <1>2, <1>t, HeadTailProperties DEF Match, TypeOK
      <3>8. TypeOK'
        BY <1>t, <3>3, <3>6, <3>7 DEF TypeOK, Dealt
      <3> QED
        BY <1>2, <3>3, <3>6, <3>8 DEF TypeInv, Match
    <2>2. CASE ~HasRow(Head(todo[d]))
      <3>1. /\ missed' = [missed EXCEPT ![d] = TRUE]
            /\ UNCHANGED <<step, batch, todo, rows, variables, pushes, notified,
                           refused, known, newest, synced>>
        BY <1>2, <2>2 DEF Match
      <3>2. \A e \in Deliveries : Dealt(e)'
        BY <3>1, DealtUnchanged DEF TypeInv
      <3>3. TypeOK'
        BY <1>t, <3>1, <3>2 DEF TypeOK, Dealt
      <3> QED
        BY <1>2, <1>t, <3>1, <3>2, <3>3 DEF TypeInv, TypeOK, Match
    <2> QED
      BY <2>1, <2>2
  <1>3. ASSUME NEW d \in Deliveries, Insert(d) PROVE TypeInv'
    <2>0. todo[d] # <<>>
      BY <1>3 DEF Insert, TypeInv
    <2>1. PICK n \in 0 .. Len(batch[d]) :
            /\ todo[d] = Rest(batch[d], n)
            /\ \A i \in 1 .. n : HasRow(batch[d][i])
      BY DEF TypeInv, Dealt
    <2>2. /\ n + 1 \in 1 .. Len(batch[d])
          /\ Head(todo[d]) = batch[d][n + 1]
          /\ Tail(todo[d]) = Rest(batch[d], n + 1)
      BY <1>t, <2>0, <2>1, RestType, ListType
    <2>3. Head(todo[d]) \in Signatures /\ Tail(todo[d]) \in Seq(Signatures)
      BY <1>t, <2>0, HeadTailProperties DEF TypeOK
    <2>4. /\ todo' = [todo EXCEPT ![d] = Tail(todo[d])]
          /\ missed' = [missed EXCEPT ![d] = FALSE]
          /\ rows' = rows \cup {<<Head(todo[d]), d>>}
          /\ UNCHANGED <<step, batch, variables, pushes, notified, refused, known,
                         newest, synced>>
      BY <1>3 DEF Insert
    <2>5. Dealt(d)'
      <3>1. todo'[d] = Rest(batch[d], n + 1)
        BY <1>t, <2>2, <2>4 DEF TypeOK
      <3>2. HasRow(batch[d][n + 1])'
        <4>1. <<batch[d][n + 1], d>> \in rows' /\ batch' = batch
          BY <2>2, <2>4
        <4>2. <<batch[d][n + 1], d>>[1] = batch[d][n + 1]
          OBVIOUS
        <4> QED
          BY <4>1, <4>2 DEF HasRow
      <3>3. \A i \in 1 .. n : HasRow(batch[d][i])'
        BY <2>1, <2>4 DEF HasRow
      <3>4. \A i \in 1 .. n + 1 : HasRow(batch[d][i])'
        <4> SUFFICES ASSUME NEW i \in 1 .. n + 1 PROVE HasRow(batch[d][i])'
          BY <2>4
        <4>1. i \in 1 .. n \/ i = n + 1
          BY <2>2
        <4> QED
          BY <4>1, <3>2, <3>3
      <3> QED
        BY <2>2, <2>4, <3>1, <3>4 DEF Dealt
    <2>6. \A e \in Deliveries : Dealt(e)'
      <3> SUFFICES ASSUME NEW e \in Deliveries, e # d PROVE Dealt(e)'
        BY <2>5
      <3>1. todo'[e] = todo[e]
        BY <1>t, <2>4 DEF TypeOK
      <3> QED
        BY <2>4, <3>1, DealtKept DEF TypeInv
    <2>7. TypeOK'
      BY <1>t, <2>3, <2>4, <2>6 DEF TypeOK, Dealt
    <2>8. \A e \in Deliveries : missed'[e] => todo'[e] # <<>>
      BY <1>t, <2>4 DEF TypeInv, TypeOK
    <2> QED
      BY <2>4, <2>6, <2>7, <2>8 DEF TypeInv
  <1>4. ASSUME NEW d \in Deliveries, BulkWriteFails(d) \/ Answer(d) PROVE TypeInv'
    <2>1. \A e \in Deliveries : Dealt(e)'
      BY <1>4, DealtUnchanged DEF TypeInv, BulkWriteFails, Answer
    <2>2. TypeOK'
      BY <1>4, <1>t, <2>1 DEF TypeOK, Dealt, BulkWriteFails, Answer, Steps
    <2> QED
      BY <1>4, <1>t, <2>1, <2>2 DEF TypeInv, TypeOK, BulkWriteFails, Answer, Pushes
  <1>5. ASSUME NEW d \in Deliveries, StartPushes(d) PROVE TypeInv'
    <2>0. step[d] = "writing" /\ batch[d] # <<>>
      BY <1>5 DEF StartPushes, TypeInv
    <2>1. /\ PushesOf(d) \subseteq Pushes
          /\ <<d, Last(batch[d])>> \in Pushes
          /\ PushesOf(d) \cap (pushes \cup notified \cup refused) = {}
          /\ \A p \in PushesOf(d) : p[1] = d
      BY <2>0, PushesType
    <2>2. \A e \in Deliveries : Dealt(e)'
      BY <1>5, DealtUnchanged DEF TypeInv, StartPushes
    <2>3. TypeOK'
      BY <1>5, <1>t, <2>1, <2>2 DEF TypeOK, Dealt, StartPushes, Steps
    <2> QED
      BY <1>5, <1>t, <2>1, <2>2, <2>3 DEF TypeInv, TypeOK, StartPushes, Pushes
  <1>6. ASSUME NEW p \in Pushes, Post(p) \/ PostFails(p) PROVE TypeInv'
    <2>1. \A e \in Deliveries : Dealt(e)'
      BY <1>6, DealtUnchanged DEF TypeInv, Post, PostFails
    <2>2. TypeOK'
      BY <1>6, <1>t, <2>1 DEF TypeOK, Dealt, Post, PostFails
    <2> QED
      BY <1>6, <2>1, <2>2 DEF TypeInv, Post, PostFails
  <1>7. ASSUME NEW p \in Pushes, SignFails(p) PROVE TypeInv'
    <2>1. \A e \in Deliveries : Dealt(e)'
      BY <1>7, DealtUnchanged DEF TypeInv, SignFails
    <2>2. TypeOK'
      BY <1>7, <1>t, <2>1 DEF TypeOK, Dealt, SignFails, Steps, Pushes
    <2> QED
      BY <1>7, <1>t, <2>1, <2>2 DEF TypeInv, TypeOK, SignFails, Pushes
  <1>8. CASE Crash
    <2>1. \A e \in Deliveries : Dealt(e)'
      BY <1>8, DealtUnchanged DEF TypeInv, Crash
    <2>2. TypeOK'
      BY <1>8, <1>t, <2>1 DEF TypeOK, Dealt, Crash, Steps
    <2> QED
      BY <1>8, <1>t, <2>1, <2>2 DEF TypeInv, TypeOK, Crash, Pushes
  <1>9. ASSUME NEW s \in Signatures, SyncBySignature(s) PROVE TypeInv'
    <2>1. \A e \in Deliveries : Dealt(e)'
      BY <1>9, DealtUnchanged DEF TypeInv, SyncBySignature
    <2>2. TypeOK'
      BY <1>9, <1>t, <2>1 DEF TypeOK, Dealt, SyncBySignature
    <2> QED
      BY <1>9, <2>1, <2>2 DEF TypeInv, SyncBySignature
  <1>10. CASE UNCHANGED vars
    <2>1. \A e \in Deliveries : Dealt(e)'
      BY <1>10, DealtUnchanged DEF TypeInv, vars
    <2>2. TypeOK'
      BY <1>10, <1>t, <2>1 DEF TypeOK, Dealt, vars
    <2> QED
      BY <1>10, <2>1, <2>2 DEF TypeInv, vars
  <1> QED
    BY <1>1, <1>2, <1>3, <1>4, <1>5, <1>6, <1>7, <1>8, <1>9, <1>10
       DEF Next, Deliver, Push

-----------------------------------------------------------------------------
(* The writes.  A delivery remembers the rows it found when it came in; the  *)
(* transaction it is about to insert is not one of them.                     *)

KnownInv ==
    \A d \in Deliveries :
        /\ \A s \in known[d] : HasRow(s) /\ <<s, d>> \notin rows
        /\ missed[d] => Head(todo[d]) \notin known[d]
        /\ step[d] = "idle" => /\ todo[d] = <<>>
                               /\ \A s \in Signatures : <<s, d>> \notin rows

\* There are no rows at the start.
LEMMA InitKnown == Init => KnownInv
  BY DEF Init, KnownInv

\* A delivery that inserts has found no row, so none was there when it came in.
LEMMA KnownStep == TypeInv /\ KnownInv /\ [Next]_vars => KnownInv'
  <1> SUFFICES ASSUME TypeInv, KnownInv, [Next]_vars PROVE KnownInv'
    OBVIOUS
  <1> USE DEF bulk, outcome
  <1>t. TypeOK
    BY DEF TypeInv
  <1>r. ASSUME rows \subseteq rows' PROVE \A s : HasRow(s) => HasRow(s)'
    BY <1>r DEF HasRow
  <1>1. ASSUME NEW d \in Deliveries, NEW b \in Batches, Receive(d, b) PROVE KnownInv'
    <2> SUFFICES ASSUME NEW e \in Deliveries PROVE KnownInv!(e)'
      BY DEF KnownInv
    <2>1. rows' = rows /\ missed' = missed
      BY <1>1 DEF Receive
    <2>2. CASE e = d
      <3>1. known'[d] = {s \in Signatures : HasRow(s)} /\ step'[d] = "writing"
        BY <1>1, <1>t DEF Receive, TypeOK
      <3>2. ~missed[d]
        BY <1>1 DEF Receive, KnownInv, TypeInv
      <3>3. \A s \in Signatures : <<s, d>> \notin rows
        BY <1>1 DEF Receive, KnownInv
      <3> QED
        BY <2>1, <2>2, <3>1, <3>2, <3>3, <1>r
    <2>3. CASE e # d
      <3>1. known'[e] = known[e] /\ step'[e] = step[e] /\ todo'[e] = todo[e]
        BY <1>1, <1>t, <2>3 DEF Receive, TypeOK
      <3> QED
        BY <2>1, <3>1, <1>r DEF KnownInv
    <2> QED
      BY <2>2, <2>3
  <1>2. ASSUME NEW d \in Deliveries, Match(d) PROVE KnownInv'
    <2> SUFFICES ASSUME NEW e \in Deliveries PROVE KnownInv!(e)'
      BY DEF KnownInv
    <2>1. UNCHANGED <<rows, known, step>>
      BY <1>2 DEF Match
    <2>2. step[d] # "idle"
      BY <1>2 DEF Match, KnownInv
    <2>3. missed'[e] => Head(todo'[e]) \notin known[e]
      <3>1. CASE e # d
        BY <1>2, <1>t, <3>1 DEF Match, TypeOK, KnownInv
      <3>2. CASE e = d /\ HasRow(Head(todo[d]))
        BY <1>2, <3>2 DEF Match
      <3>3. CASE e = d /\ ~HasRow(Head(todo[d]))
        BY <1>2, <3>3 DEF Match, KnownInv
      <3> QED
        BY <3>1, <3>2, <3>3
    <2>4. e # d => todo'[e] = todo[e]
      BY <1>2, <1>t DEF Match, TypeOK
    <2> QED
      BY <2>1, <2>2, <2>3, <2>4, <1>r DEF KnownInv
  <1>3. ASSUME NEW d \in Deliveries, Insert(d) PROVE KnownInv'
    <2> SUFFICES ASSUME NEW e \in Deliveries PROVE KnownInv!(e)'
      BY DEF KnownInv
    <2>0. todo[d] # <<>> /\ step[d] # "idle"
      BY <1>3 DEF Insert, TypeInv, KnownInv
    <2>1. /\ UNCHANGED <<known, step>>
          /\ rows' = rows \cup {<<Head(todo[d]), d>>}
          /\ Head(todo[d]) \notin known[d]
      BY <1>3 DEF Insert, KnownInv
    <2>2. CASE e = d
      BY <1>3, <1>t, <1>r, <2>0, <2>1, <2>2 DEF Insert, TypeOK, KnownInv
    <2>3. CASE e # d
      <3>1. missed'[e] = missed[e] /\ todo'[e] = todo[e]
        BY <1>3, <1>t, <2>3 DEF Insert, TypeOK
      <3>2. \A s : <<s, e>> \in rows' => <<s, e>> \in rows
        BY <2>1, <2>3
      <3> QED
        BY <2>1, <3>1, <3>2, <1>r DEF KnownInv
    <2> QED
      BY <2>2, <2>3
  <1>4. ASSUME NEW d \in Deliveries, BulkWriteFails(d) \/ StartPushes(d) \/ Answer(d)
        PROVE  KnownInv'
    BY <1>4, <1>t DEF BulkWriteFails, StartPushes, Answer, KnownInv, HasRow, TypeOK
  <1>5. ASSUME NEW p \in Pushes, Push(p) PROVE KnownInv'
    BY <1>5, <1>t DEF Push, Post, PostFails, SignFails, KnownInv, HasRow, TypeOK, Pushes
  <1>6. CASE Crash
    BY <1>6, <1>t DEF Crash, KnownInv, HasRow, TypeOK
  <1>7. ASSUME NEW s \in Signatures, SyncBySignature(s) PROVE KnownInv'
    BY <1>7 DEF SyncBySignature, KnownInv, HasRow
  <1>8. CASE UNCHANGED vars
    BY <1>8 DEF vars, KnownInv, HasRow
  <1> QED
    BY <1>1, <1>2, <1>3, <1>4, <1>5, <1>6, <1>7, <1>8 DEF Next, Deliver

-----------------------------------------------------------------------------
(* The pushes.                                                               *)

\* What a delivery has no writes left for has rows.
LEMMA AllDealt ==
    ASSUME TypeInv, NEW d \in Deliveries, todo[d] = <<>>
    PROVE  \A s \in ToSet(batch[d]) : HasRow(s)
  <1>1. PICK n \in 0 .. Len(batch[d]) :
          /\ todo[d] = Rest(batch[d], n)
          /\ \A i \in 1 .. n : HasRow(batch[d][i])
    BY DEF TypeInv, Dealt
  <1>2. /\ batch[d] \in Seq(Signatures) /\ Len(batch[d]) \in Nat
        /\ ToSet(batch[d]) = {batch[d][i] : i \in 1 .. Len(batch[d])}
    BY ListType DEF TypeInv
  <1>3. n = Len(batch[d])
    <2> SUFFICES ASSUME n # Len(batch[d]) PROVE FALSE
      OBVIOUS
    <2>1. \A i \in n + 1 .. Len(batch[d]) : batch[d][i] \in Signatures
      BY <1>2, ElementOfSeq
    <2>2. Len(Rest(batch[d], n)) = Len(batch[d]) - n
      <3>1. n + 1 \in Int /\ Len(batch[d]) \in Int /\ n + 1 <= Len(batch[d])
        BY <1>2
      <3>2. Len(SubSeq(batch[d], n + 1, Len(batch[d]))) = Len(batch[d]) - (n + 1) + 1
        BY <2>1, <3>1, SubSeqProperties
      <3> QED
        BY <1>2, <3>2 DEF Rest
    <2>3. Len(todo[d]) = 0
      BY EmptySeq
    <2> QED
      BY <1>1, <1>2, <2>2, <2>3
  <1> QED
    BY <1>1, <1>2, <1>3

\* The pushes that have begun tell of rows, and the last of them is alone in the
\* shared body until another begins.
PushInv ==
    /\ \A p \in pushes \cup notified : HasRow(p[2])
    /\ \A d \in Deliveries :
         step[d] \in {"pushing", "success"} => \A s \in ToSet(batch[d]) : HasRow(s)
    /\ newest \in pushes => variables = newest
    /\ newest \notin refused

\* No push has begun at the start.
LEMMA InitPush == Init => PushInv
  BY DEF Init, PushInv

\* Pushes begin after the writes of their delivery, and only a later one takes
\* the body from a push.
LEMMA PushStep == TypeInv /\ KnownInv /\ PushInv /\ [Next]_vars => PushInv'
  <1> SUFFICES ASSUME TypeInv, KnownInv, PushInv, [Next]_vars PROVE PushInv'
    OBVIOUS
  <1> USE DEF bulk, outcome
  <1>t. TypeOK
    BY DEF TypeInv
  <1>1. ASSUME NEW d \in Deliveries, NEW b \in Batches, Receive(d, b) PROVE PushInv'
    <2>1. \A e \in Deliveries : e # d => batch'[e] = batch[e] /\ step'[e] = step[e]
      BY <1>1, <1>t DEF Receive, TypeOK
    <2>2. step'[d] = "writing"
      BY <1>1, <1>t DEF Receive, TypeOK
    <2> QED
      BY <1>1, <2>1, <2>2 DEF Receive, PushInv, HasRow
  <1>2. ASSUME NEW d \in Deliveries, Match(d) \/ Insert(d) PROVE PushInv'
    <2>1. /\ UNCHANGED <<step, batch, variables, pushes, notified, refused, newest>>
          /\ rows \subseteq rows'
      BY <1>2 DEF Match, Insert
    <2> QED
      BY <2>1 DEF PushInv, HasRow
  <1>3. ASSUME NEW d \in Deliveries, BulkWriteFails(d) PROVE PushInv'
    BY <1>3, <1>t DEF BulkWriteFails, PushInv, HasRow, TypeOK
  <1>4. ASSUME NEW d \in Deliveries, StartPushes(d) PROVE PushInv'
    <2>1. /\ PushesOf(d) \subseteq Pushes
          /\ <<d, Last(batch[d])>> \in PushesOf(d)
          /\ PushesOf(d) \cap (pushes \cup notified \cup refused) = {}
      BY <1>4, PushesType DEF StartPushes
    <2>2. \A s \in ToSet(batch[d]) : HasRow(s)
      BY <1>4, AllDealt DEF StartPushes
    <2>3. \A p \in PushesOf(d) : HasRow(p[2])
      BY <2>2 DEF PushesOf
    <2>4. newest' = <<d, Last(batch[d])>> /\ variables' = newest' /\ newest' \notin refused'
      BY <1>4, <2>1 DEF StartPushes
    <2>5. \A p \in (pushes \cup notified)' : HasRow(p[2])'
      BY <1>4, <2>3 DEF StartPushes, PushInv, HasRow
    <2>6. \A e \in Deliveries : step'[e] \in {"pushing", "success"} =>
            \A s \in ToSet(batch[e]) : HasRow(s)
      BY <1>4, <1>t, <2>2 DEF StartPushes, PushInv, TypeOK
    <2>7. rows' = rows /\ batch' = batch
      BY <1>4 DEF StartPushes
    <2> QED
      BY <2>4, <2>5, <2>6, <2>7 DEF PushInv, HasRow
  <1>5. ASSUME NEW d \in Deliveries, Answer(d) PROVE PushInv'
    BY <1>5, <1>t DEF Answer, PushInv, HasRow, TypeOK
  <1>6. ASSUME NEW p \in Pushes, Post(p) PROVE PushInv'
    BY <1>6 DEF Post, PushInv, HasRow
  <1>7. ASSUME NEW p \in Pushes, PostFails(p) \/ SignFails(p) PROVE PushInv'
    BY <1>7, <1>t DEF PostFails, SignFails, PushInv, HasRow, TypeOK, Pushes
  <1>8. CASE Crash
    BY <1>8, <1>t DEF Crash, PushInv, HasRow, TypeOK
  <1>9. ASSUME NEW s \in Signatures, SyncBySignature(s) PROVE PushInv'
    BY <1>9 DEF SyncBySignature, PushInv, HasRow
  <1>10. CASE UNCHANGED vars
    BY <1>10 DEF vars, PushInv, HasRow
  <1> QED
    BY <1>1, <1>2, <1>3, <1>4, <1>5, <1>6, <1>7, <1>8, <1>9, <1>10
       DEF Next, Deliver, Push

-----------------------------------------------------------------------------
(* The theorems.                                                             *)

IInv == TypeInv /\ KnownInv /\ PushInv

\* The inductive invariant holds of every reachable state.
THEOREM Inductive == Spec => []IInv
  <1>1. Init => IInv
    BY InitType, InitKnown, InitPush DEF IInv
  <1>2. IInv /\ [Next]_vars => IInv'
    BY TypeStep, KnownStep, PushStep DEF IInv
  <1> QED
    BY <1>1, <1>2, PTL DEF Spec

\* The bulk writes, the rows and the pushes keep their types; a push is over
\* once.
THEOREM TypeCorrect == Spec => []TypeOK
  <1>1. IInv => TypeOK
    BY DEF IInv, TypeInv
  <1> QED
    BY <1>1, Inductive, PTL

\* The upserts of bulkWrite count an investment twice only for deliveries that
\* overlap.
THEOREM LateAlwaysAddNothing == Spec => []LateDeliveriesAddNothing
  <1>1. IInv => LateDeliveriesAddNothing
    BY DEF IInv, KnownInv, LateDeliveriesAddNothing
  <1> QED
    BY <1>1, Inductive, PTL

\* Nobody is told of an investment, by a push or by an answer, that has no row.
THEOREM ToldAlwaysRecorded == Spec => []ToldMeansRecorded
  <1>1. IInv => ToldMeansRecorded
    <2> SUFFICES ASSUME IInv, NEW s \in Told PROVE HasRow(s)
      BY DEF ToldMeansRecorded
    <2>1. CASE \E p \in notified : s = p[2]
      BY <2>1 DEF IInv, PushInv
    <2>2. CASE \E d \in Deliveries : step[d] = "success" /\ s \in ToSet(batch[d])
      BY <2>2 DEF IInv, PushInv
    <2> QED
      BY <2>1, <2>2 DEF Told
  <1> QED
    BY <1>1, Inductive, PTL

\* IDO_ACTION_SCHEMA loses a push only to one begun later.
THEOREM NewestAlwaysPasses == Spec => []NewestNeverRefused
  <1>1. IInv => NewestNeverRefused
    BY DEF IInv, PushInv, NewestNeverRefused
  <1> QED
    BY <1>1, Inductive, PTL

-----------------------------------------------------------------------------
(* Sums over finite sets.  The induction is by a smallest counterexample.    *)

\* Among subsets of a finite set one has no other within it: what holds of a set
\* when it holds of all smaller ones holds of every finite set.
LEMMA SmallestSet ==
    ASSUME NEW S, IsFiniteSet(S), NEW F, F \subseteq SUBSET S, F # {}
    PROVE  \E M \in F : \A U \in F : U \subseteq M => U = M
  <1>1. IsWellFoundedOn(StrictSubsetOrdering(S), FiniteSubsetsOf(S))
    BY FS_StrictSubsetOrderingWellFounded
  <1>2. FiniteSubsetsOf(S) = SUBSET S
    BY FS_FiniteSubsetsOfFinite
  <1>3. \E M \in F : \A U \in F : ~(<<U, M>> \in StrictSubsetOrdering(S))
    BY <1>1, <1>2, WFMin
  <1> QED
    BY <1>3 DEF StrictSubsetOrdering

\* The element a sum takes next.
Taken(s) == CHOOSE x \in s : TRUE

\* The function a sum over S is computed by.
SumsOver(f, S, h) ==
    h = [s \in SUBSET S |-> IF s = {} THEN 0 ELSE f[Taken(s)] + h[s \ {Taken(s)}]]

LEMMA SumIs ==
    ASSUME NEW f, NEW S
    PROVE  SumFunctionOnSet(f, S) = (CHOOSE h : SumsOver(f, S, h))[S]
  BY Zenon DEF SumFunctionOnSet, FoldFunctionOnSet, MapThenFoldSet, SumsOver, Taken

LEMMA TakenIs == ASSUME NEW s, s # {} PROVE Taken(s) \in s
  BY DEF Taken

\* Two such functions agree on the finite sets both are defined for.
LEMMA SumsAgree ==
    ASSUME NEW f, NEW A, NEW B, NEW g, NEW h, SumsOver(f, A, g), SumsOver(f, B, h),
           NEW S, IsFiniteSet(S), S \subseteq A, S \subseteq B
    PROVE  g[S] = h[S]
  <1> DEFINE F == {T \in SUBSET S : g[T] # h[T]}
  <1>1. SUFFICES ASSUME F # {} PROVE FALSE
    OBVIOUS
  <1>2. PICK M \in F : \A U \in F : U \subseteq M => U = M
    <2> F \subseteq SUBSET S
      OBVIOUS
    <2> HIDE DEF F
    <2> QED
      BY <1>1, SmallestSet
  <1>3. \A T \in SUBSET S : /\ g[T] = IF T = {} THEN 0 ELSE f[Taken(T)] + g[T \ {Taken(T)}]
                            /\ h[T] = IF T = {} THEN 0 ELSE f[Taken(T)] + h[T \ {Taken(T)}]
    BY DEF SumsOver
  <1>4. CASE M = {}
    BY <1>2, <1>3, <1>4
  <1>5. CASE M # {}
    <2>1. Taken(M) \in M
      BY <1>5, TakenIs
    <2>2. g[M \ {Taken(M)}] = h[M \ {Taken(M)}]
      BY <1>2, <2>1
    <2> QED
      BY <1>2, <1>3, <1>5, <2>2
  <1> QED
    BY <1>4, <1>5

\* There is one for every finite set.
LEMMA SumsExist ==
    ASSUME NEW f, NEW S, IsFiniteSet(S)
    PROVE  \E h : SumsOver(f, S, h)
  <1> DEFINE F == {T \in SUBSET S : ~\E h : SumsOver(f, T, h)}
  <1>1. SUFFICES ASSUME F # {} PROVE FALSE
    OBVIOUS
  <1>2. PICK M \in F : \A U \in F : U \subseteq M => U = M
    <2> F \subseteq SUBSET S
      OBVIOUS
    <2> HIDE DEF F
    <2> QED
      BY <1>1, SmallestSet
  <1> DEFINE G(t) == CHOOSE h : SumsOver(f, t, h)
             Others(s) == s \ {Taken(s)}
             k == [s \in SUBSET M |-> IF s = {} THEN 0 ELSE f[Taken(s)] + G(Others(s))[Others(s)]]
  <1>3. \A t \in SUBSET M : t # M => SumsOver(f, t, G(t))
    BY <1>2
  <1> HIDE DEF G
  <1>4. ASSUME NEW s \in SUBSET M, s # {} PROVE k[Others(s)] = G(Others(s))[Others(s)]
    <2> DEFINE t == Others(s)
    <2>1. t \in SUBSET M /\ t # M
      BY <1>4, TakenIs
    <2>2. G(t) = [u \in SUBSET t |-> IF u = {} THEN 0 ELSE f[Taken(u)] + G(t)[Others(u)]]
      BY <1>3, <2>1 DEF SumsOver
    <2>3. G(t)[t] = IF t = {} THEN 0 ELSE f[Taken(t)] + G(t)[Others(t)]
      BY <2>2
    <2>4. CASE t = {}
      BY <2>1, <2>3, <2>4
    <2>5. CASE t # {}
      <3>1. Taken(t) \in t
        BY <2>5, TakenIs
      <3>2. Others(t) \in SUBSET t /\ Others(t) \in SUBSET M /\ Others(t) # M
        BY <2>1
      <3>3. SumsOver(f, t, G(t)) /\ SumsOver(f, Others(t), G(Others(t)))
        BY <1>3, <2>1, <3>2
      <3>4. IsFiniteSet(Others(t))
        BY <1>2, <3>2, FS_Subset
      <3>5. G(t)[Others(t)] = G(Others(t))[Others(t)]
        <4> HIDE DEF t, Others
        <4> QED
          BY <3>2, <3>3, <3>4, SumsAgree
      <3>6. k[t] = f[Taken(t)] + G(Others(t))[Others(t)]
        BY <2>1, <2>5
      <3> QED
        BY <2>3, <2>5, <3>5, <3>6
    <2> QED
      BY <2>4, <2>5
  <1>5. SumsOver(f, M, k)
    <2>1. k = [s \in SUBSET M |-> IF s = {} THEN 0 ELSE f[Taken(s)] + k[Others(s)]]
      <3>1. \A s \in SUBSET M :
               (IF s = {} THEN 0 ELSE f[Taken(s)] + G(Others(s))[Others(s)])
               = (IF s = {} THEN 0 ELSE f[Taken(s)] + k[Others(s)])
        BY <1>4
      <3>2. k = [s \in SUBSET M |-> IF s = {} THEN 0 ELSE f[Taken(s)] + G(Others(s))[Others(s)]]
        OBVIOUS
      <3> HIDE DEF k
      <3> QED
        BY <3>1, <3>2
    <2> HIDE DEF k
    <2> QED
      BY <2>1 DEF SumsOver
  <1> QED
    BY <1>2, <1>5

\* A sum is nothing over no elements, and else what is added to the sum of the rest.
LEMMA SumUnfolds ==
    ASSUME NEW f, NEW S, IsFiniteSet(S)
    PROVE  SumFunctionOnSet(f, S) =
             IF S = {} THEN 0
             ELSE f[Taken(S)] + SumFunctionOnSet(f, S \ {Taken(S)})
  <1> DEFINE G(t) == CHOOSE h : SumsOver(f, t, h)
             R == S \ {Taken(S)}
  <1>1. SumsOver(f, S, G(S))
    BY SumsExist
  <1>2. IsFiniteSet(R)
    BY FS_Subset
  <1>3. SumsOver(f, R, G(R))
    BY <1>2, SumsExist
  <1>4. SumFunctionOnSet(f, S) = G(S)[S] /\ SumFunctionOnSet(f, R) = G(R)[R]
    BY SumIs
  <1> HIDE DEF G
  <1>5. G(S)[R] = G(R)[R]
    BY <1>1, <1>2, <1>3, SumsAgree
  <1>6. G(S)[S] = IF S = {} THEN 0 ELSE f[Taken(S)] + G(S)[R]
    BY <1>1 DEF SumsOver
  <1> QED
    BY <1>4, <1>5, <1>6

LEMMA SumEmpty == ASSUME NEW f PROVE SumFunctionOnSet(f, {}) = 0
  BY SumUnfolds, FS_EmptySet

\* It is an integer, and a natural number, when all it adds up are.
LEMMA SumType ==
    ASSUME NEW f, NEW S, IsFiniteSet(S)
    PROVE  /\ (\A x \in S : f[x] \in Int) => SumFunctionOnSet(f, S) \in Int
           /\ (\A x \in S : f[x] \in Nat) => SumFunctionOnSet(f, S) \in Nat
  <1>1. ASSUME NEW N, N \in {Int, Nat}, \A x \in S : f[x] \in N
        PROVE  SumFunctionOnSet(f, S) \in N
    <2> DEFINE F == {T \in SUBSET S : SumFunctionOnSet(f, T) \notin N}
    <2>1. SUFFICES ASSUME F # {} PROVE FALSE
      OBVIOUS
    <2>2. PICK M \in F : \A U \in F : U \subseteq M => U = M
      <3> F \subseteq SUBSET S
        OBVIOUS
      <3> HIDE DEF F
      <3> QED
        BY <2>1, SmallestSet
    <2>3. IsFiniteSet(M)
      BY <2>2, FS_Subset
    <2>4. CASE M = {}
      BY <1>1, <2>2, <2>4, SumEmpty
    <2>5. CASE M # {}
      <3>1. Taken(M) \in M
        BY <2>5, TakenIs
      <3>2. SumFunctionOnSet(f, M \ {Taken(M)}) \in N
        BY <2>2, <3>1
      <3>3. f[Taken(M)] \in N
        BY <1>1, <2>2, <3>1
      <3>4. f[Taken(M)] + SumFunctionOnSet(f, M \ {Taken(M)}) \in N
        BY <1>1, <3>2, <3>3
      <3>5. SumFunctionOnSet(f, M) = f[Taken(M)] + SumFunctionOnSet(f, M \ {Taken(M)})
        BY <2>3, <2>5, SumUnfolds
      <3> QED
        BY <2>2, <3>4, <3>5
    <2> QED
      BY <2>4, <2>5
  <1> QED
    BY <1>1

\* The order does not matter: any element may be taken first.
LEMMA SumTakes ==
    ASSUME NEW f, NEW S, IsFiniteSet(S), \A x \in S : f[x] \in Int, NEW y \in S
    PROVE  SumFunctionOnSet(f, S) = f[y] + SumFunctionOnSet(f, S \ {y})
  <1> DEFINE Sum(T) == SumFunctionOnSet(f, T)
             F == {T \in SUBSET S : \E x \in T : Sum(T) # f[x] + Sum(T \ {x})}
  <1>1. SUFFICES ASSUME F # {} PROVE FALSE
    OBVIOUS
  <1>2. PICK M \in F : \A U \in F : U \subseteq M => U = M
    <2> F \subseteq SUBSET S
      OBVIOUS
    <2> HIDE DEF F
    <2> QED
      BY <1>1, SmallestSet
  <1>3. PICK x \in M : Sum(M) # f[x] + Sum(M \ {x})
    BY <1>2
  <1> DEFINE c == Taken(M)
  <1>4. c \in M
    BY <1>3, TakenIs
  <1>5. Sum(M) = f[c] + Sum(M \ {c})
    <2>1. IsFiniteSet(M)
      BY <1>2, FS_Subset
    <2> QED
      BY <1>3, <2>1, SumUnfolds
  <1>6. c # x
    BY <1>3, <1>5
  <1>7. Sum(M \ {c}) = f[x] + Sum((M \ {c}) \ {x})
    <2>1. M \ {c} \notin F
      <3> HIDE DEF F, Sum, c
      <3> QED
        BY <1>2, <1>4
    <2>2. M \ {c} \in SUBSET S /\ x \in M \ {c}
      BY <1>2, <1>6
    <2> HIDE DEF Sum, c
    <2> QED
      BY <2>1, <2>2
  <1>8. Sum(M \ {x}) = f[c] + Sum((M \ {c}) \ {x})
    <2>1. M \ {x} \notin F
      <3> HIDE DEF F, Sum
      <3> QED
        BY <1>2, <1>3
    <2>2. M \ {x} \in SUBSET S /\ c \in M \ {x} /\ (M \ {x}) \ {c} = (M \ {c}) \ {x}
      BY <1>2, <1>4, <1>6
    <2> HIDE DEF Sum, c
    <2> QED
      BY <2>1, <2>2
  <1>10. f[c] \in Int /\ f[x] \in Int /\ Sum((M \ {c}) \ {x}) \in Int
    <2>1. IsFiniteSet((M \ {c}) \ {x})
      BY <1>2, FS_Subset
    <2>2. \A z \in (M \ {c}) \ {x} : f[z] \in Int
      BY <1>2
    <2>3. Sum((M \ {c}) \ {x}) \in Int
      BY <2>1, <2>2, SumType
    <2> QED
      BY <1>2, <1>3, <1>4, <2>3
  <1> HIDE DEF Sum, c
  <1> QED
    BY <1>3, <1>5, <1>7, <1>8, <1>10

\* What holds of the empty set, and of a set when it holds of the set without any one
\* element, holds of every finite set.
LEMMA FiniteSetsOneByOne ==
    ASSUME NEW S, IsFiniteSet(S), NEW G, {} \in G,
           \A M \in SUBSET S : M # {} /\ (\A x \in M : M \ {x} \in G) => M \in G
    PROVE  S \in G
  <1> DEFINE F == {T \in SUBSET S : T \notin G}
  <1>1. SUFFICES ASSUME F # {} PROVE FALSE
    OBVIOUS
  <1>2. PICK M \in F : \A U \in F : U \subseteq M => U = M
    <2> F \subseteq SUBSET S
      OBVIOUS
    <2> HIDE DEF F
    <2> QED
      BY <1>1, SmallestSet
  <1>3. \A x \in M : M \ {x} \in G
    BY <1>2
  <1> QED
    BY <1>2, <1>3

\* Functions that agree on a set have the same sum over it.
LEMMA SumSame ==
    ASSUME NEW f, NEW g, NEW S, IsFiniteSet(S), \A x \in S : f[x] = g[x]
    PROVE  SumFunctionOnSet(f, S) = SumFunctionOnSet(g, S)
  <1> DEFINE G == {T \in SUBSET S : SumFunctionOnSet(f, T) = SumFunctionOnSet(g, T)}
  <1>1. {} \in G
    BY SumEmpty
  <1>2. ASSUME NEW M \in SUBSET S, M # {}, \A x \in M : M \ {x} \in G PROVE M \in G
    <2>1. IsFiniteSet(M) /\ Taken(M) \in M
      BY <1>2, FS_Subset, TakenIs
    <2>2. SumFunctionOnSet(f, M \ {Taken(M)}) = SumFunctionOnSet(g, M \ {Taken(M)})
      BY <1>2, <2>1
    <2> QED
      BY <1>2, <2>1, <2>2, SumUnfolds
  <1> HIDE DEF G
  <1>3. S \in G
    BY <1>1, <1>2, FiniteSetsOneByOne
  <1> QED
    BY <1>3 DEF G

\* The sum over a set in two parts is the sum of the sums over each.
LEMMA SumInTwo ==
    ASSUME NEW f, NEW S, NEW T, IsFiniteSet(S), IsFiniteSet(T), S \cap T = {},
           \A x \in S \cup T : f[x] \in Int
    PROVE  SumFunctionOnSet(f, S \cup T) = SumFunctionOnSet(f, S) + SumFunctionOnSet(f, T)
  <1> DEFINE Sum(U) == SumFunctionOnSet(f, U)
             G == {U \in SUBSET S : Sum(U \cup T) = Sum(U) + Sum(T)}
  <1>1. Sum(T) \in Int
    BY SumType
  <1>2. {} \in G
    <2>1. {} \cup T = T
      OBVIOUS
    <2> QED
      BY <1>1, <2>1, SumEmpty
  <1>3. ASSUME NEW M \in SUBSET S, M # {}, \A x \in M : M \ {x} \in G PROVE M \in G
    <2>1. PICK x \in M : TRUE
      BY <1>3
    <2>2. Sum((M \ {x}) \cup T) = Sum(M \ {x}) + Sum(T)
      BY <1>3
    <2>3. IsFiniteSet(M) /\ IsFiniteSet(M \ {x}) /\ IsFiniteSet(M \cup T)
      BY FS_Subset, FS_Union
    <2>4. (M \cup T) \ {x} = (M \ {x}) \cup T
      OBVIOUS
    <2>5. Sum(M \cup T) = f[x] + Sum((M \ {x}) \cup T)
      BY <2>3, <2>4, SumTakes
    <2>6. Sum(M) = f[x] + Sum(M \ {x})
      BY <2>3, SumTakes
    <2>7. Sum(M \ {x}) \in Int /\ f[x] \in Int
      BY <2>3, SumType
    <2>8. Sum(M \cup T) = Sum(M) + Sum(T)
      <3> HIDE DEF Sum
      <3> QED
        BY <1>1, <2>2, <2>5, <2>6, <2>7
    <2> QED
      BY <2>8
  <1>4. S \in G
    <2> HIDE DEF G
    <2> QED
      BY <1>2, <1>3, FiniteSetsOneByOne
  <1> QED
    BY <1>4

\* A sum of natural numbers is no less than that over a part.
LEMMA SumOfPart ==
    ASSUME NEW f, NEW S, IsFiniteSet(S), \A x \in S : f[x] \in Nat, NEW T \in SUBSET S
    PROVE  SumFunctionOnSet(f, T) <= SumFunctionOnSet(f, S)
  <1> DEFINE R == S \ T
  <1>1. IsFiniteSet(T) /\ IsFiniteSet(R)
    BY FS_Subset
  <1>2. S = T \cup R /\ T \cap R = {}
    OBVIOUS
  <1>3. (\A x \in T : f[x] \in Nat) /\ (\A x \in R : f[x] \in Nat)
    OBVIOUS
  <1> HIDE DEF R
  <1>4. \A x \in T \cup R : f[x] \in Int
    BY <1>3
  <1>5. SumFunctionOnSet(f, T \cup R) = SumFunctionOnSet(f, T) + SumFunctionOnSet(f, R)
    BY <1>1, <1>2, <1>4, SumInTwo
  <1>6. SumFunctionOnSet(f, T) \in Nat /\ SumFunctionOnSet(f, R) \in Nat
    BY <1>1, <1>3, SumType
  <1>7. SumFunctionOnSet(f, S) = SumFunctionOnSet(f, T) + SumFunctionOnSet(f, R)
    BY <1>2, <1>5
  <1> QED
    BY <1>6, <1>7

\* Each element that stands for one of its own in another set, of the same value,
\* adds no more than that set.
LEMMA SumOfOthers ==
    ASSUME NEW f, NEW A, IsFiniteSet(A), NEW g, NEW B, IsFiniteSet(B),
           \A b \in B : g[b] \in Nat,
           NEW r \in [A -> B],
           \A x, y \in A : r[x] = r[y] => x = y,
           \A x \in A : f[x] = g[r[x]]
    PROVE  SumFunctionOnSet(f, A) <= SumFunctionOnSet(g, B)
  <1> DEFINE Image(T) == {r[x] : x \in T}
             G == {T \in SUBSET A : SumFunctionOnSet(f, T) = SumFunctionOnSet(g, Image(T))}
  <1>0. \A T \in SUBSET A : Image(T) \in SUBSET B /\ IsFiniteSet(Image(T)) /\ IsFiniteSet(T)
    <2>1. \A T \in SUBSET A : Image(T) \in SUBSET B
      OBVIOUS
    <2> HIDE DEF Image
    <2> QED
      BY <2>1, FS_Subset
  <1>1. {} \in G
    <2>1. Image({}) = {}
      OBVIOUS
    <2> HIDE DEF Image
    <2> QED
      BY <2>1, SumEmpty
  <1>2. ASSUME NEW M \in SUBSET A, M # {}, \A x \in M : M \ {x} \in G PROVE M \in G
    <2>1. PICK x \in M : TRUE
      BY <1>2
    <2>2. Image(M \ {x}) = Image(M) \ {r[x]} /\ r[x] \in Image(M)
      OBVIOUS
    <2>3. SumFunctionOnSet(f, M \ {x}) = SumFunctionOnSet(g, Image(M \ {x}))
      BY <1>2
    <2>4. /\ \A y \in M : f[y] \in Int
          /\ \A b \in Image(M) : g[b] \in Int
      OBVIOUS
    <2> HIDE DEF Image, G
    <2>5. SumFunctionOnSet(f, M) = f[x] + SumFunctionOnSet(f, M \ {x})
      BY <1>0, <2>4, SumTakes
    <2>6. SumFunctionOnSet(g, Image(M)) = g[r[x]] + SumFunctionOnSet(g, Image(M) \ {r[x]})
      BY <1>0, <2>2, <2>4, SumTakes
    <2>7. SumFunctionOnSet(f, M) = SumFunctionOnSet(g, Image(M))
      BY <2>2, <2>3, <2>5, <2>6
    <2> QED
      BY <2>7 DEF G
  <1>3. A \in G
    <2> HIDE DEF G
    <2> QED
      BY <1>1, <1>2, FiniteSetsOneByOne
  <1>4. Image(A) \in SUBSET B
    OBVIOUS
  <1>5. SumFunctionOnSet(g, Image(A)) <= SumFunctionOnSet(g, B)
    <2> HIDE DEF Image
    <2> QED
      BY <1>4, SumOfPart
  <1> QED
    BY <1>3, <1>5

Group(B, h, w) == {b \in B : h[b] = w}

\* A sum may be made in groups, and the groups added up.
LEMMA SumInGroups ==
    ASSUME NEW g, NEW B, IsFiniteSet(B), \A b \in B : g[b] \in Int,
           NEW W, IsFiniteSet(W), NEW h, \A b \in B : h[b] \in W,
           NEW k, \A w \in W : k[w] = SumFunctionOnSet(g, Group(B, h, w))
    PROVE  SumFunctionOnSet(k, W) = SumFunctionOnSet(g, B)
  <1> DEFINE Of(T) == {b \in B : h[b] \in T}
             One(w) == Group(B, h, w)
             G == {T \in SUBSET W : SumFunctionOnSet(k, T) = SumFunctionOnSet(g, Of(T))}
  <1>0. /\ \A T : IsFiniteSet(Of(T)) /\ \A b \in Of(T) : g[b] \in Int
        /\ \A w : IsFiniteSet(One(w)) /\ \A b \in One(w) : g[b] \in Int
    <2>1. /\ \A T : Of(T) \in SUBSET B
          /\ \A w : One(w) \in SUBSET B
      BY DEF Group
    <2> HIDE DEF Of, One
    <2> QED
      BY <2>1, FS_Subset
  <1>1. {} \in G
    <2>1. Of({}) = {}
      OBVIOUS
    <2> HIDE DEF Of
    <2> QED
      BY <2>1, SumEmpty
  <1>2. ASSUME NEW M \in SUBSET W, M # {}, \A w \in M : M \ {w} \in G PROVE M \in G
    <2>1. PICK w \in M : TRUE
      BY <1>2
    <2>2. Of(M) = One(w) \cup Of(M \ {w}) /\ One(w) \cap Of(M \ {w}) = {}
      BY DEF Group
    <2>3. SumFunctionOnSet(k, M \ {w}) = SumFunctionOnSet(g, Of(M \ {w}))
      BY <1>2
    <2>4. \A v \in M : k[v] = SumFunctionOnSet(g, One(v))
      OBVIOUS
    <2> HIDE DEF Of, One, G
    <2>5. \A v \in M : k[v] \in Int
      BY <1>0, <2>4, SumType
    <2>6. IsFiniteSet(M)
      BY FS_Subset
    <2>7. SumFunctionOnSet(k, M) = k[w] + SumFunctionOnSet(k, M \ {w})
      BY <2>5, <2>6, SumTakes
    <2>8. \A b \in One(w) \cup Of(M \ {w}) : g[b] \in Int
      BY <1>0
    <2>9. SumFunctionOnSet(g, Of(M))
            = SumFunctionOnSet(g, One(w)) + SumFunctionOnSet(g, Of(M \ {w}))
      <3>1. IsFiniteSet(One(w)) /\ IsFiniteSet(Of(M \ {w}))
        BY <1>0
      <3>2. SumFunctionOnSet(g, One(w) \cup Of(M \ {w}))
              = SumFunctionOnSet(g, One(w)) + SumFunctionOnSet(g, Of(M \ {w}))
        BY <2>2, <2>8, <3>1, SumInTwo
      <3> QED
        BY <2>2, <3>2
    <2>10. SumFunctionOnSet(k, M) = SumFunctionOnSet(g, Of(M))
      BY <2>3, <2>4, <2>7, <2>9
    <2> QED
      BY <2>10 DEF G
  <1>3. W \in G
    <2> HIDE DEF G
    <2> QED
      BY <1>1, <1>2, FiniteSetsOneByOne
  <1>4. Of(W) = B
    OBVIOUS
  <1> QED
    BY <1>3, <1>4

-----------------------------------------------------------------------------
(* The portfolio.                                                            *)

\* Only an insert adds a row, one at a time.
LEMMA RowsFinite == Spec => []IsFiniteSet(rows)
  <1>1. Init => IsFiniteSet(rows)
    BY FS_EmptySet DEF Init
  <1>2. IsFiniteSet(rows) /\ [Next]_vars => IsFiniteSet(rows)'
    <2> SUFFICES ASSUME IsFiniteSet(rows), [Next]_vars PROVE IsFiniteSet(rows')
      OBVIOUS
    <2>1. rows' = rows \/ \E d \in Deliveries : rows' = rows \cup {<<Head(todo[d]), d>>}
      BY DEF Next, Deliver, Push, Receive, Match, Insert, BulkWriteFails, StartPushes,
             Answer, Post, PostFails, SignFails, Crash, SyncBySignature, vars, bulk
    <2> QED
      BY <2>1, FS_AddElement
  <1> QED
    BY <1>1, <1>2, PTL DEF Spec

\* The total of every row, as a function.
Totals == [row \in rows |-> TotalOf(row)]

LEMMA TotalsType ==
    ASSUME TypeOK
    PROVE  /\ \A row \in rows : row[1] \in Signatures /\ Totals[row] = invest[row[1]].total
           /\ \A row \in rows : Totals[row] \in Nat /\ Totals[row] \in Int
  BY PortfolioAssumption DEF TypeOK, Totals, TotalOf

LEMMA SumOfIs ==
    ASSUME TypeOK, IsFiniteSet(rows), NEW among \in SUBSET rows
    PROVE  SumOf(among) = SumFunctionOnSet(Totals, among)
  <1> DEFINE f == [row \in among |-> TotalOf(row)]
  <1>1. SumOf(among) = SumFunctionOnSet(f, among)
    BY DEF SumOf, SumFunction
  <1>2. IsFiniteSet(among)
    BY FS_Subset
  <1>3. \A row \in among : f[row] = Totals[row]
    BY DEF Totals
  <1> HIDE DEF f
  <1> QED
    BY <1>1, <1>2, <1>3, SumSame

\* myInvested sums up the wallet's rows of a project, and says nothing when there are none.
LEMMA InvestedIs ==
    ASSUME TypeOK, IsFiniteSet(rows), NEW w, NEW p
    PROVE  Invested(w, p) = SumFunctionOnSet(Totals, RowsIn(p, RowsOf(w)))
  <1> DEFINE own == RowsIn(p, RowsOf(w))
  <1>1. own \in SUBSET rows
    BY DEF RowsIn, RowsOf
  <1>2. p \in DOMAIN MyInvested(w) <=> own # {}
    BY DEF MyInvested, RowsIn
  <1>3. CASE own = {}
    BY <1>2, <1>3, SumEmpty DEF Invested
  <1>4. CASE own # {}
    <2>1. Invested(w, p) = SumOf(own)
      BY <1>2, <1>4 DEF Invested, MyInvested
    <2> QED
      BY <1>1, <2>1, SumOfIs
  <1> QED
    BY <1>3, <1>4

\* The tickets used are the same sum.
LEMMA UsedIs ==
    ASSUME TypeOK, IsFiniteSet(rows), NEW w, NEW p
    PROVE  \/ UsedTicket(w, p) = Invested(w, p)
           \/ \E row \in RowsIn(p, RowsOf(w)) : TotalOf(row) = 0
  <1>1. RowsIn(p, RowsOf(w)) \in SUBSET rows
    BY DEF RowsIn, RowsOf
  <1> QED
    BY <1>1, SumOfIs, InvestedIs DEF UsedTicket

\* Each transaction a wallet was told of has a row of its own among those summed up.
LEMMA ToldIsInvested ==
    ASSUME TypeOK, IsFiniteSet(rows), ToldMeansRecorded, NEW w, NEW p
    PROVE  SumFunction([s \in ToldBy(w, p) |-> invest[s].total]) <= Invested(w, p)
  <1> DEFINE own == RowsIn(p, RowsOf(w))
             f == [s \in ToldBy(w, p) |-> invest[s].total]
             r == [s \in ToldBy(w, p) |-> CHOOSE row \in rows : row[1] = s]
  <1>1. \A s \in ToldBy(w, p) : \E row \in rows : row[1] = s
    BY DEF ToldBy, ToldMeansRecorded, HasRow
  <1>2. \A s \in ToldBy(w, p) : r[s] \in rows /\ r[s][1] = s
    BY <1>1
  <1> HIDE DEF r
  <1>3. \A s \in ToldBy(w, p) : r[s] \in own
    BY <1>2 DEF ToldBy, RowsIn, RowsOf
  <1>4. r \in [ToldBy(w, p) -> own]
    BY <1>3 DEF r
  <1>5. \A x, y \in ToldBy(w, p) : r[x] = r[y] => x = y
    BY <1>2
  <1>6. own \in SUBSET rows /\ IsFiniteSet(own)
    <2>1. own \in SUBSET rows
      BY DEF RowsIn, RowsOf
    <2> HIDE DEF own
    <2> QED
      BY <2>1, FS_Subset
  <1>7. \A row \in own : Totals[row] \in Nat
    BY <1>6, TotalsType
  <1>8. \A s \in ToldBy(w, p) : f[s] = Totals[r[s]]
    BY <1>2, TotalsType
  <1>9. IsFiniteSet(ToldBy(w, p))
    <2>1. r \in Injection(ToldBy(w, p), own)
      BY <1>4, <1>5 DEF Injection, IsInjective
    <2> HIDE DEF own
    <2> QED
      BY <1>6, <2>1, FS_Injection
  <1>10. SumFunction(f) = SumFunctionOnSet(f, ToldBy(w, p))
    BY DEF SumFunction
  <1>11. Invested(w, p) = SumFunctionOnSet(Totals, own)
    BY InvestedIs
  <1> HIDE DEF f, own
  <1>12. SumFunctionOnSet(f, ToldBy(w, p)) <= SumFunctionOnSet(Totals, own)
    BY <1>4, <1>5, <1>6, <1>7, <1>8, <1>9, SumOfOthers
  <1> QED
    BY <1>10, <1>11, <1>12 DEF f

\* What the project has sold is what its investors have invested: each row is one
\* wallet's.
LEMMA SoldIsInvested ==
    ASSUME TypeOK, IsFiniteSet(rows), NEW p
    PROVE  SumFunction([w \in Investors |-> Invested(w, p)]) = AllUsedTicket(p)
  <1> DEFINE B == RowsIn(p, rows)
             k == [w \in Investors |-> Invested(w, p)]
             h == [row \in B |-> invest[row[1]].wallet]
  <1>1. B \in SUBSET rows /\ IsFiniteSet(B)
    <2>1. B \in SUBSET rows
      BY DEF RowsIn
    <2> HIDE DEF B
    <2> QED
      BY <2>1, FS_Subset
  <1>2. \A row \in B : Totals[row] \in Int
    BY <1>1, TotalsType
  <1>3. \A row \in B : h[row] \in Investors
    BY <1>1, TotalsType DEF Investors
  <1>4. \A w : RowsIn(p, RowsOf(w)) = Group(B, h, w)
    BY DEF RowsIn, RowsOf, Group
  <1>5. \A w \in Investors : k[w] = SumFunctionOnSet(Totals, Group(B, h, w))
    BY <1>4, InvestedIs
  <1>6. IsFiniteSet(Investors)
    <2> DEFINE wallet == [s \in Signatures |-> invest[s].wallet]
    <2>1. wallet \in Surjection(Signatures, Investors)
      BY DEF Surjection, Investors
    <2> QED
      BY <2>1, PortfolioAssumption, FS_Surjection
  <1>7. SumFunction(k) = SumFunctionOnSet(k, Investors)
    BY DEF SumFunction
  <1>8. AllUsedTicket(p) = SumFunctionOnSet(Totals, B)
    BY <1>1, SumOfIs DEF AllUsedTicket
  <1> HIDE DEF B, k, h
  <1>9. SumFunctionOnSet(k, Investors) = SumFunctionOnSet(Totals, B)
    BY <1>1, <1>2, <1>3, <1>5, <1>6, SumInGroups
  <1> QED
    BY <1>7, <1>8, <1>9 DEF k

\* What a wallet sees, what its offers are made from and what the project has sold add up,
\* for any wallets, projects and totals, and whatever was delivered twice or in part.
THEOREM PortfolioAlwaysAgrees == Spec => []PortfolioAgrees
  <1>1. TypeOK /\ ToldMeansRecorded /\ IsFiniteSet(rows) => PortfolioAgrees
    BY UsedIs, ToldIsInvested, SoldIsInvested DEF PortfolioAgrees
  <1> QED
    BY <1>1, TypeCorrect, ToldAlwaysRecorded, RowsFinite, PTL

=============================================================================
