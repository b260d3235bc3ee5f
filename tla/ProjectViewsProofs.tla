--------------------------- MODULE ProjectViewsProofs ---------------------------
(***************************************************************************)
(* Theorems about the lists of ProjectViews, what it says of a timeline    *)
(* and of a stream, and the pages of ParticipationViews.                   *)
(***************************************************************************)
EXTENDS MCProjectViews, FiniteSetTheorems, TLAPS

-----------------------------------------------------------------------------
(* The lists.                                                                *)

Start(p) == timeline[p]["registration_start_at"]
End(p) == timeline[p]["investment_end_at"]

\* A project that has been active all the while and has not been shown has gone on: it
\* has begun once upcoming is answered, and ended once furture is too.
ListsInv ==
    /\ TypeOK
    /\ answered = 1 => \A p \in steady : p \in shown \/ Start(p) <= clock
    /\ answered = 2 => \A p \in steady : p \in shown \/ End(p) < clock
    /\ NoneMissed

\* What every state of the lists and every timeline is made of.
LEMMA InstantsAreIntegers ==
    /\ Instants \subseteq Int
    /\ \A p \in Projects : Start(p) \in Int /\ End(p) \in Int
  <1>1. ASSUME NEW p \in Projects PROVE Start(p) \in Int /\ End(p) \in Int
    <2>1. timeline[p] \in [TimelineFields -> Int]
      BY ConstantsAssumption
    <2>2. {"registration_start_at", "investment_end_at"} \subseteq TimelineFields
      BY DEF TimelineFields
    <2> QED
      BY <2>1, <2>2 DEF Start, End
  <1> QED
    BY <1>1, ConstantsAssumption

\* No list has been asked for at the start.
LEMMA ListsStart == Init => ListsInv
  BY DEF Init, ListsInv, TypeOK, NoneMissed

\* Every step keeps the invariant of the lists.
LEMMA ListsStep == ListsInv /\ [Next]_vars => ListsInv'
  <1> SUFFICES ASSUME ListsInv, [Next]_vars PROVE ListsInv'
    OBVIOUS
  <1> USE InstantsAreIntegers
  <1>c. clock \in Int /\ \A p \in steady : Start(p) \in Int /\ End(p) \in Int
    BY DEF ListsInv, TypeOK
  <1>1. CASE \E now \in Instants : Tick(now)
    <2>1. PICK now \in Instants : Tick(now)
      BY <1>1
    <2>2. clock' \in Int /\ clock < clock'
      BY <2>1 DEF Tick
    <2>3. \A p \in steady : /\ Start(p) <= clock => Start(p) <= clock'
                            /\ End(p) < clock => End(p) < clock'
      BY <1>c, <2>2
    <2> QED
      BY <2>1, <2>3 DEF Tick, ListsInv, TypeOK, NoneMissed, Start, End
  <1>2. CASE \E p \in Projects : Edit(p)
    <2>1. PICK p \in Projects : Edit(p)
      BY <1>2
    <2>2. steady' \subseteq steady /\ steady' \subseteq active' /\ active' \subseteq Projects
      BY <2>1 DEF Edit, ListsInv, TypeOK
    <2> QED
      BY <2>1, <2>2 DEF Edit, ListsInv, TypeOK, NoneMissed, Start, End
  <1>3. CASE ListUpcoming
    <2>1. \A p \in steady : p \in shown' \/ Start(p) <= clock
      BY <1>3, <1>c DEF ListUpcoming, Upcoming, InUpcoming, ListsInv, TypeOK, Start
    <2>2. shown' \subseteq Projects
      BY <1>3 DEF ListUpcoming, Upcoming, ListsInv, TypeOK
    <2> QED
      BY <1>3, <2>1, <2>2 DEF ListUpcoming, ListsInv, TypeOK, NoneMissed, Start, End
  <1>4. CASE \E later \in Instants : ListFurture(later)
    <2>1. PICK later \in Instants : ListFurture(later)
      BY <1>4
    <2>2. later \in Int /\ clock' = later /\ shown' = shown \cup Furture(later)
      BY <2>1 DEF ListFurture
    <2>3. ASSUME NEW p \in steady PROVE p \in shown' \/ End(p) < later
      <3>1. p \in shown \/ Start(p) <= clock
        BY <2>1 DEF ListFurture, ListsInv
      <3>2. Start(p) <= clock /\ End(p) >= later => p \in Furture(later)
        BY DEF Furture, InFurture, Start, End, ListsInv, TypeOK
      <3> QED
        BY <1>c, <2>2, <3>1, <3>2
    <2>4. shown' \subseteq Projects
      BY <2>2 DEF Furture, ListsInv, TypeOK
    <2> QED
      BY <2>1, <2>2, <2>3, <2>4 DEF ListFurture, ListsInv, TypeOK, NoneMissed, Start, End
  <1>5. CASE ListSuccess
    <2>1. ASSUME NEW p \in steady PROVE p \in shown'
      <3>1. p \in shown \/ End(p) < clock
        BY <1>5 DEF ListSuccess, ListsInv
      <3>2. End(p) < clock => p \in Success
        BY DEF Success, InSuccess, End, ListsInv, TypeOK
      <3> QED
        BY <1>5, <3>1, <3>2 DEF ListSuccess
    <2>2. shown' \subseteq Projects
      BY <1>5 DEF ListSuccess, Success, ListsInv, TypeOK
    <2> QED
      BY <1>5, <2>1, <2>2 DEF ListSuccess, ListsInv, TypeOK, NoneMissed, Start, End
  <1>6. CASE Reload
    BY <1>6 DEF Reload, ListsInv, TypeOK, NoneMissed, Start, End
  <1>7. CASE UNCHANGED vars
    BY <1>7 DEF vars, ListsInv, TypeOK, NoneMissed, Start, End
  <1> QED
    BY <1>1, <1>2, <1>3, <1>4, <1>5, <1>6, <1>7 DEF Next

\* The inductive invariant holds of every reachable state of the lists.
THEOREM ListsInductive == Spec => []ListsInv
  BY ListsStart, ListsStep, PTL DEF Spec

\* The clock, the projects and what the client has been shown keep their types.
THEOREM TypeCorrect == Spec => []TypeOK
  <1>1. ListsInv => TypeOK
    BY DEF ListsInv
  <1> QED
    BY <1>1, ListsInductive, PTL

\* Whatever the timelines, and however time passes between the three answers, a client
\* that has asked for all of them has seen every project that stayed active.
THEOREM NoneIsMissed == Spec => []NoneMissed
  <1>1. ListsInv => NoneMissed
    BY DEF ListsInv
  <1> QED
    BY <1>1, ListsInductive, PTL

-----------------------------------------------------------------------------
(* The readers of a timeline.                                                *)

\* The last of the conditions that hold.
LEMMA LastReached ==
    ASSUME NEW S, S \subseteq 1 .. 5, S # {}
    PROVE  Max(S) \in S /\ \A i \in S : i <= Max(S)
  <1>1. \E x \in S : \A y \in S : x >= y
    <2>1. CASE 5 \in S
      BY <2>1
    <2>2. CASE 5 \notin S /\ 4 \in S
      BY <2>2
    <2>3. CASE 5 \notin S /\ 4 \notin S /\ 3 \in S
      BY <2>3
    <2>4. CASE 5 \notin S /\ 4 \notin S /\ 3 \notin S /\ 2 \in S
      BY <2>4
    <2>5. CASE S = {1}
      BY <2>5
    <2>6. \A i \in S : i \in {1, 2, 3, 4, 5}
      OBVIOUS
    <2>7. 5 \in S \/ 4 \in S \/ 3 \in S \/ 2 \in S \/ S = {1}
      BY <2>6
    <2> QED
      BY <2>1, <2>2, <2>3, <2>4, <2>5, <2>7
  <1>2. Max(S) \in S /\ \A y \in S : Max(S) >= y
    BY <1>1 DEF Max
  <1> QED
    BY <1>2

\* Where the instants of a timeline are in order, its status says between which of them
\* the clock stands.
LEMMA StatusTells ==
    ASSUME NEW t \in [TimelineFields -> Int], Ordered(t), NEW now \in Int
    PROVE  /\ t["registration_start_at"] > now <=> ProgressStatus(t, now) = "up_coming"
           /\ t["registration_start_at"] <= now /\ now < t["snapshot_start_at"] =>
                  ProgressStatus(t, now) = "registration"
           /\ t["registration_start_at"] <= now /\ now < t["claim_start_at"] =>
                  ProgressStatus(t, now) \in {"registration", "snapshotting", "investing"}
           /\ t["claim_start_at"] <= now => ProgressStatus(t, now) \in {"vesting", "finished"}
  <1> DEFINE from == t["registration_start_at"]
             snapshot == t["snapshot_start_at"]
             investment == t["investment_start_at"]
             claim == t["claim_start_at"]
             end == t["claim_end_at"]
  <1>1. /\ from \in Int /\ snapshot \in Int /\ investment \in Int /\ claim \in Int /\ end \in Int
        /\ from < snapshot /\ snapshot <= investment /\ investment < claim /\ claim <= end
    BY DEF Ordered, TimelineFields
  <1>2. Reached(t, now) \subseteq 1 .. 5
    BY DEF Reached
  <1>3. /\ 1 \in Reached(t, now) <=> from <= now
        /\ 2 \in Reached(t, now) <=> snapshot <= now
        /\ 3 \in Reached(t, now) <=> investment <= now
        /\ 4 \in Reached(t, now) <=> claim <= now
        /\ 5 \in Reached(t, now) <=> end <= now
    BY DEF Reached, StatusFrom
  <1>4. /\ StatusName[1] = "up_coming" /\ StatusName[2] = "registration"
        /\ StatusName[3] = "snapshotting" /\ StatusName[4] = "investing"
        /\ StatusName[5] = "vesting" /\ StatusName[6] = "finished"
    BY DEF StatusName
  <1>5. CASE from > now
    <2>1. Reached(t, now) = {}
      <3>1. \A i \in 1 .. 5 : i \in {1, 2, 3, 4, 5}
        OBVIOUS
      <3>2. \A i \in {1, 2, 3, 4, 5} : i \notin Reached(t, now)
        BY <1>1, <1>3, <1>5
      <3> QED
        BY <1>2, <3>1, <3>2
    <2>2. ProgressStatus(t, now) = "up_coming"
      BY <1>4, <2>1 DEF ProgressStatus, Progress
    <2> QED
      BY <1>1, <1>5, <2>2
  <1>6. CASE from <= now
    <2> DEFINE last == Max(Reached(t, now))
    <2>1. /\ last \in Reached(t, now) /\ \A i \in Reached(t, now) : i <= last
          /\ ProgressStatus(t, now) = StatusName[last + 1]
      BY <1>2, <1>3, <1>6, LastReached DEF ProgressStatus, Progress
    <2>2. last \in 1 .. 5
      BY <1>2, <2>1
    <2>3. now < snapshot => last = 1
      BY <1>1, <1>3, <2>1, <2>2
    <2>4. now < claim => last \in {1, 2, 3}
      BY <1>1, <1>3, <2>1, <2>2
    <2>5. claim <= now => last \in {4, 5}
      BY <1>1, <1>3, <2>1, <2>2
    <2>6. ProgressStatus(t, now) # "up_coming"
      <3>1. last + 1 \in {2, 3, 4, 5, 6}
        BY <2>2
      <3> QED
        BY <1>4, <2>1, <3>1
    <2>7. now < snapshot => ProgressStatus(t, now) = "registration"
      BY <1>4, <2>1, <2>3
    <2>8. now < claim => ProgressStatus(t, now) \in {"registration", "snapshotting", "investing"}
      <3>1. ASSUME last \in {1, 2, 3} PROVE last + 1 \in {2, 3, 4}
        BY <3>1
      <3> QED
        BY <1>4, <2>1, <2>4, <3>1
    <2>9. claim <= now => ProgressStatus(t, now) \in {"vesting", "finished"}
      <3>1. ASSUME last \in {4, 5} PROVE last + 1 \in {5, 6}
        BY <3>1
      <3> QED
        BY <1>4, <2>1, <2>5, <3>1
    <2> QED
      BY <1>1, <1>6, <2>6, <2>7, <2>8, <2>9
  <1> QED
    BY <1>1, <1>5, <1>6

\* A pool is only active when the project can be claimed.
LEMMA PoolNeedsClaim ==
    ASSUME NEW streams, NEW claimable, NEW now,
           NEW pool \in VestingPool(streams, claimable, now), pool.is_active
    PROVE  claimable
  <1>1. PICK s : pool = [stream |-> s, is_active |-> Available(s, now) > 0 /\ claimable]
    BY Zenon DEF VestingPool
  <1> DEFINE paid == Available(s, now) > 0
  <1>2. pool = [stream |-> s, is_active |-> paid /\ claimable]
    BY <1>1
  <1> HIDE DEF paid
  <1>3. pool.is_active = (paid /\ claimable)
    BY <1>2
  <1> QED
    BY <1>3

\* The readers of a timeline never contradict one another, whatever its instants are, as
\* long as they are in order and periods do not touch.
THEOREM ReadersAlwaysAgree == Spec => []ReadersAgree
  <1>1. ASSUME TypeOK PROVE ReadersAgree
    <2> SUFFICES
          ASSUME NEW p \in Projects, NEW vested \in BOOLEAN, Ordered(timeline[p])
          PROVE  LET t == timeline[p]
                     progress == ProgressStatus(t, clock)
                     over == progress \in {"vesting", "finished"}
                     claimable == Claimable(t, vested, clock)
                 IN  /\ InUpcoming(t, clock) <=> progress = "up_coming"
                     /\ Accepts(t, clock) => progress = "registration"
                     /\ InFurture(t, clock, clock) =>
                            progress \in {"registration", "snapshotting", "investing"}
                     /\ claimable => over /\ InSuccess(t, clock)
                     /\ \A tickets \in 0 .. 1 :
                            ParticipationStatus(t, tickets, clock) = "ended" =>
                                InSuccess(t, clock) /\ tickets = 0
                     /\ over \/ \A streams \in Streams :
                            \A pool \in VestingPool(streams, claimable, clock) : ~pool.is_active
      BY DEF ReadersAgree
    <2> DEFINE t == timeline[p]
               progress == ProgressStatus(t, clock)
               over == progress \in {"vesting", "finished"}
               claimable == Claimable(t, vested, clock)
    <2>1. t \in [TimelineFields -> Int] /\ clock \in Int
      BY <1>1, ConstantsAssumption DEF TypeOK
    <2>2. /\ t["registration_start_at"] > clock <=> progress = "up_coming"
          /\ t["registration_start_at"] <= clock /\ clock < t["snapshot_start_at"] =>
                 progress = "registration"
          /\ t["registration_start_at"] <= clock /\ clock < t["claim_start_at"] =>
                 progress \in {"registration", "snapshotting", "investing"}
          /\ t["claim_start_at"] <= clock => over
      BY <2>1, StatusTells
    <2>3. /\ \A f \in TimelineFields : t[f] \in Int
          /\ t["registration_end_at"] < t["snapshot_start_at"]
          /\ t["investment_end_at"] < t["claim_start_at"]
      BY <2>1 DEF Ordered
    <2>4. {"registration_start_at", "registration_end_at", "snapshot_start_at",
           "investment_end_at", "claim_start_at"} \subseteq TimelineFields
      BY DEF TimelineFields
    <2>5. InUpcoming(t, clock) <=> progress = "up_coming"
      BY <2>2 DEF InUpcoming
    <2>6. Accepts(t, clock) => progress = "registration"
      BY <2>1, <2>2, <2>3, <2>4 DEF Accepts
    <2>7. InFurture(t, clock, clock) =>
              progress \in {"registration", "snapshotting", "investing"}
      BY <2>1, <2>2, <2>3, <2>4 DEF InFurture
    <2>8. claimable => over /\ InSuccess(t, clock)
      BY <2>1, <2>2, <2>3, <2>4 DEF Claimable, InSuccess
    <2>9. ASSUME NEW tickets \in 0 .. 1, ParticipationStatus(t, tickets, clock) = "ended"
          PROVE  InSuccess(t, clock) /\ tickets = 0
      <3>1. tickets = 0 /\ clock > t["investment_end_at"]
        BY <2>9 DEF ParticipationStatus
      <3> QED
        BY <2>1, <2>3, <2>4, <3>1 DEF InSuccess
    <2>10. ASSUME NEW streams \in Streams, NEW pool \in VestingPool(streams, claimable, clock),
                  pool.is_active
           PROVE  over
      <3>1. claimable
        BY <2>10, PoolNeedsClaim
      <3> QED
        BY <2>8, <3>1
    <2> QED
      BY <2>5, <2>6, <2>7, <2>8, <2>9, <2>10
  <1>2. TypeOK => ReadersAgree
    BY <1>1
  <1> QED
    BY <1>2, TypeCorrect, PTL

-----------------------------------------------------------------------------
(* What a stream has released.                                               *)

\* Rounding up: the quotient times the divisor reaches the dividend, and no less would.
LEMMA CeilDivBounds ==
    ASSUME NEW a \in Int, NEW b \in Nat \ {0}
    PROVE  /\ CeilDiv(a, b) \in Int
           /\ b * (CeilDiv(a, b) - 1) < a
           /\ a <= b * CeilDiv(a, b)
  <1> DEFINE q == (a + b - 1) \div b
  <1>1. q \in Int /\ b * q <= a + b - 1 /\ a + b - 1 < b * q + b
    OBVIOUS
  <1> HIDE DEF q
  <1>2. b * (q - 1) = b * q - b
    BY <1>1
  <1>3. CeilDiv(a, b) = q
    BY DEF CeilDiv, q
  <1> QED
    BY <1>1, <1>2, <1>3

LEMMA LessByProduct ==
    ASSUME NEW x \in Int, NEW y \in Int, NEW b \in Nat \ {0}, b * x < b * y
    PROVE  x < y
  OBVIOUS

\* There is no other such quotient.
LEMMA CeilDivIs ==
    ASSUME NEW a \in Int, NEW b \in Nat \ {0}, NEW q \in Int,
           b * (q - 1) < a, a <= b * q
    PROVE  CeilDiv(a, b) = q
  <1> DEFINE c == CeilDiv(a, b)
  <1>1. c \in Int /\ b * (c - 1) < a /\ a <= b * c
    BY CeilDivBounds
  <1> HIDE DEF c
  <1>2. b * (q - 1) < b * c /\ b * (c - 1) < b * q
    BY <1>1
  <1>3. q - 1 < c /\ c - 1 < q
    BY <1>1, <1>2, LessByProduct
  <1>4. c = q
    BY <1>1, <1>3
  <1> QED
    BY <1>4 DEF c

\* More never makes fewer periods.
LEMMA CeilDivGrows ==
    ASSUME NEW a \in Int, NEW c \in Int, NEW b \in Nat \ {0}, a <= c
    PROVE  CeilDiv(a, b) <= CeilDiv(c, b)
  <1> DEFINE p == CeilDiv(a, b)
             q == CeilDiv(c, b)
  <1>1. p \in Int /\ q \in Int /\ b * (p - 1) < a /\ c <= b * q
    BY CeilDivBounds
  <1> HIDE DEF p, q
  <1>2. b * (p - 1) < b * q
    BY <1>1
  <1>3. p - 1 < q
    BY <1>1, <1>2, LessByProduct
  <1>4. p <= q
    BY <1>1, <1>3
  <1> QED
    BY <1>4 DEF p, q

\* What the fields of a stream are.
LEMMA StreamIs ==
    ASSUME NEW s \in AllStreams
    PROVE  /\ s["start"] \in Nat /\ s["end"] \in Nat /\ s["cliff"] \in Nat
           /\ s["period"] \in Nat \ {0} /\ s["amount_per_period"] \in Nat \ {0}
           /\ s["total_amount"] \in Nat /\ s["cliff_amount"] \in Nat
  <1>1. s \in [StreamFields -> Nat] /\ s["period"] > 0 /\ s["amount_per_period"] > 0
    BY ConstantsAssumption
  <1> QED
    BY <1>1 DEF StreamFields

\* The range only grows: what is added at the end is not negative.
LEMMA RangeGrows ==
    ASSUME NEW s \in AllStreams, NEW now \in Int, NEW later \in Int, now <= later
    PROVE  /\ ReleaseRange(s, now) \in Int /\ ReleaseRange(s, later) \in Int
           /\ ReleaseRange(s, now) <= ReleaseRange(s, later)
  <1> DEFINE end == 1000 * s["end"]
             first == 1000 * (s["start"] + s["period"])
             amount == s["amount_per_period"]
  <1>1. end \in Int /\ first \in Int /\ amount \in Nat
    BY StreamIs
  <1>2. \A t : ReleaseRange(s, t) = (IF t < end THEN t ELSE end + amount) - first
    BY DEF ReleaseRange
  <1> HIDE DEF end, first, amount
  <1> QED
    BY <1>1, <1>2

\* The number of periods released is a natural number and only grows.
LEMMA RatioGrows ==
    ASSUME NEW s \in AllStreams, NEW now \in Int, NEW later \in Int, now <= later
    PROVE  /\ ReleasedRatio(s, now) \in Nat /\ ReleasedRatio(s, later) \in Nat
           /\ ReleasedRatio(s, now) <= ReleasedRatio(s, later)
  <1>1. CASE IsCliff(s)
    BY <1>1 DEF ReleasedRatio
  <1>2. CASE ~IsCliff(s)
    <2> DEFINE a == ReleaseRange(s, now)
               c == ReleaseRange(s, later)
               b == 1000 * s["period"]
    <2>1. a \in Int /\ c \in Int /\ a <= c
      BY RangeGrows
    <2>2. b \in Nat \ {0}
      BY StreamIs
    <2>3. /\ ReleasedRatio(s, now) = IF a < 0 THEN 0 ELSE CeilDiv(a, b)
          /\ ReleasedRatio(s, later) = IF c < 0 THEN 0 ELSE CeilDiv(c, b)
      BY <1>2 DEF ReleasedRatio
    <2> HIDE DEF a, b, c
    <2>4. CeilDiv(0, b) = 0
      BY <2>2, CeilDivIs, b * (0 - 1) < 0, 0 <= b * 0
    <2>5. ASSUME NEW x \in Int, x >= 0 PROVE CeilDiv(x, b) \in Nat
      <3>1. CeilDiv(0, b) <= CeilDiv(x, b)
        BY <2>2, <2>5, CeilDivGrows
      <3> QED
        BY <2>2, <2>4, <3>1, CeilDivBounds
    <2>7. CeilDiv(a, b) <= CeilDiv(c, b)
      BY <2>1, <2>2, CeilDivGrows
    <2> QED
      BY <2>1, <2>3, <2>5, <2>7
  <1> QED
    BY <1>1, <1>2

\* What a stream has released only grows.
LEMMA ReleasedGrows ==
    ASSUME NEW s \in AllStreams, NEW now \in Int, NEW later \in Int, now <= later
    PROVE  Released(s, later) >= Released(s, now)
  <1> DEFINE r == ReleasedRatio(s, now)
             q == ReleasedRatio(s, later)
             amount == s["amount_per_period"]
             cliff == s["cliff_amount"]
             at == 1000 * s["cliff"]
  <1>1. r \in Nat /\ q \in Nat /\ r <= q
    BY RatioGrows
  <1>2. amount \in Nat /\ cliff \in Nat /\ at \in Nat
    BY StreamIs
  <1>3. /\ Released(s, now) = r * amount + (IF now >= at THEN cliff ELSE 0)
        /\ Released(s, later) = q * amount + (IF later >= at THEN cliff ELSE 0)
    BY DEF Released
  <1> HIDE DEF r, q, amount, cliff, at
  <1>4. r * amount <= q * amount /\ r * amount \in Int /\ q * amount \in Int
    BY <1>1, <1>2
  <1> QED
    BY <1>2, <1>3, <1>4

\* The clock is one of the instants, and never goes back.
LEMMA ClockAdvances ==
    ASSUME clock \in Instants, [Next]_vars
    PROVE  clock \in Int /\ clock' \in Instants /\ clock' \in Int /\ clock <= clock'
  <1>1. Instants \subseteq Int
    BY ConstantsAssumption
  <1>2. clock' \in Instants /\ clock <= clock'
    BY <1>1 DEF Next, Tick, Edit, ListUpcoming, ListFurture, ListSuccess, Reload, vars
  <1> QED
    BY <1>1, <1>2

\* As time goes on, what a stream has released never shrinks, whatever its amounts,
\* period and end are, its end included.
THEOREM ReleasedOnlyGrows == Spec => ReleasedNeverShrinks
  <1>1. Init => clock \in Instants
    BY DEF Init
  <1>2. clock \in Instants /\ [Next]_vars => (clock \in Instants)'
    BY ClockAdvances
  <1>3. clock \in Instants /\ [Next]_vars =>
            [\A s \in AllStreams : Released(s, clock') >= Released(s, clock)]_vars
    BY ClockAdvances, ReleasedGrows
  <1> QED
    BY <1>1, <1>2, <1>3, PTL DEF Spec, ReleasedNeverShrinks
-----------------------------------------------------------------------------
(* The schedule of a linear stream, in milliseconds: it has N entries, the first one at
   first, the others a period after one another.                                       *)

\* The terms of a schedule: how many entries, how long a period is, when the first pays.
Entries(s) == (s["total_amount"] - s["cliff_amount"]) \div s["amount_per_period"]
Lasts(s) == 1000 * s["period"]
First(s) == 1000 * (s["start"] + s["period"])

\* The last entry pays when the stream ends.
LEMMA ScheduleIs ==
    ASSUME NEW s \in AllStreams, ~IsCliff(s), HasSchedule(s)
    PROVE  /\ Entries(s) \in Nat /\ Lasts(s) \in Nat \ {0} /\ First(s) \in Nat
           /\ 1000 * s["end"] = First(s) + Lasts(s) * (Entries(s) - 1)
           /\ PeriodTimes(s) = [i \in 1 .. Entries(s) |-> First(s) + Lasts(s) * (i - 1)]
  <1> DEFINE owed == s["total_amount"] - s["cliff_amount"]
             amount == s["amount_per_period"]
             n == owed \div amount
             start == s["start"]
             period == s["period"]
             end == s["end"]
  <1>1. owed \in Nat /\ amount \in Nat \ {0} /\ owed % amount = 0
    BY StreamIs DEF HasSchedule
  <1>2. start \in Nat /\ period \in Nat \ {0} /\ end \in Nat
    BY StreamIs
  <1>3. end = start + period * CeilDiv(owed, amount)
    BY StreamsAssumption
  <1>4. /\ Entries(s) = n /\ Lasts(s) = 1000 * period /\ First(s) = 1000 * (start + period)
        /\ PeriodTimes(s) = [i \in 1 .. n |-> 1000 * (start + i * period)]
    BY DEF Entries, Lasts, First, PeriodTimes
  <1> HIDE DEF owed, start, period, end
  <1>5. n \in Nat /\ owed = amount * n
    BY <1>1
  <1> HIDE DEF amount, n
  <1>6. CeilDiv(owed, amount) = n
    <2>1. amount * (n - 1) < owed /\ owed <= amount * n
      BY <1>1, <1>5
    <2> QED
      BY <1>1, <1>5, <2>1, CeilDivIs
  <1>7. 1000 * end = 1000 * (start + period) + 1000 * period * (n - 1)
    BY <1>2, <1>3, <1>5, <1>6
  <1>8. \A i \in 1 .. n : 1000 * (start + i * period)
                              = 1000 * (start + period) + 1000 * period * (i - 1)
    BY <1>2, <1>5
  <1>9. Entries(s) \in Nat /\ Lasts(s) \in Nat \ {0} /\ First(s) \in Nat
    BY <1>2, <1>4, <1>5
  <1>10. 1000 * s["end"] = First(s) + Lasts(s) * (Entries(s) - 1)
    BY <1>4, <1>7 DEF end
  <1>11. PeriodTimes(s) = [i \in 1 .. Entries(s) |-> First(s) + Lasts(s) * (i - 1)]
    BY <1>4, <1>8
  <1> QED
    BY <1>9, <1>10, <1>11

\* The entries that are over are as many as the periods that count as released.
LEMMA EntriesOver ==
    ASSUME NEW s \in AllStreams, ~IsCliff(s), HasSchedule(s),
           s["amount_per_period"] <= 1000 * s["period"], NEW now \in Int
    PROVE  LET times == PeriodTimes(s)
               over == {i \in DOMAIN times : times[i] < now \/ now >= 1000 * s["end"]}
           IN  Cardinality(over) = ReleasedRatio(s, now)
  <1> DEFINE n == Entries(s)
             period == Lasts(s)
             first == First(s)
             end == 1000 * s["end"]
             amount == s["amount_per_period"]
             range == ReleaseRange(s, now)
             ratio == ReleasedRatio(s, now)
             over == {i \in 1 .. n : first + period * (i - 1) < now \/ now >= end}
  <1>1. n \in Nat /\ period \in Nat \ {0} /\ first \in Nat /\ end = first + period * (n - 1)
    BY ScheduleIs
  <1>2. amount \in Nat \ {0} /\ amount <= period
    BY StreamIs DEF Lasts
  <1>3. range = (IF now < end THEN now ELSE end + amount) - first
    BY DEF ReleaseRange, First
  <1>4. ratio = IF range < 0 THEN 0 ELSE CeilDiv(range, period)
    BY DEF ReleasedRatio, Lasts
  <1>5. {i \in DOMAIN PeriodTimes(s) : PeriodTimes(s)[i] < now \/ now >= 1000 * s["end"]} = over
    BY ScheduleIs
  <1> SUFFICES Cardinality(over) = ratio
    BY <1>5
  <1>6. \A k \in Nat : Cardinality(1 .. k) = k
    BY FS_Interval
  <1> HIDE DEF n, period, first, end, amount, range, ratio, over
  <1>7. CASE now >= end
    <2>1. over = 1 .. n
      BY <1>7 DEF over
    <2>2. range = period * (n - 1) + amount
      BY <1>1, <1>2, <1>3, <1>7
    <2>3. CASE n = 0
      <3>1. range <= 0 /\ range \in Int
        BY <1>1, <1>2, <2>2, <2>3
      <3>2. CeilDiv(0, period) = 0
        BY <1>1, CeilDivIs, period * (0 - 1) < 0, 0 <= period * 0
      <3>3. ratio = 0
        BY <1>4, <3>1, <3>2
      <3> QED
        BY <1>1, <1>6, <2>1, <2>3, <3>3
    <2>4. CASE n > 0
      <3>1. range \in Int /\ period * (n - 1) < range /\ range <= period * n /\ range > 0
        BY <1>1, <1>2, <2>2, <2>4
      <3>2. CeilDiv(range, period) = n
        BY <1>1, <3>1, CeilDivIs
      <3> QED
        BY <1>1, <1>4, <1>6, <2>1, <3>1, <3>2
    <2> QED
      BY <1>1, <2>3, <2>4
  <1>8. CASE now < end
    <2>1. range = now - first /\ range \in Int
      BY <1>1, <1>3, <1>8
    <2>2. CASE range < 0
      <3>1. \A i \in 1 .. n : first <= first + period * (i - 1)
        BY <1>1
      <3>2. over = 1 .. 0
        BY <1>1, <1>8, <2>1, <2>2, <3>1 DEF over
      <3> QED
        BY <1>4, <1>6, <2>2, <3>2
    <2>3. CASE range >= 0
      <3> DEFINE q == CeilDiv(range, period)
      <3>1. q \in Int /\ period * (q - 1) < range /\ range <= period * q
        BY <1>1, <2>1, CeilDivBounds
      <3> HIDE DEF q
      <3>2. q \in Nat
        <4>1. period * (0 - 1) < 0 /\ 0 <= period * q /\ period * q \in Int
          BY <1>1, <2>1, <2>3, <3>1
        <4>2. 0 - 1 < q
          BY <1>1, <3>1, <4>1, LessByProduct
        <4> QED
          BY <3>1, <4>2
      <3>3. q <= n
        <4>1. period * (q - 1) < period * (n - 1)
          BY <1>1, <1>8, <2>1, <3>1
        <4>2. q - 1 < n - 1
          BY <1>1, <3>1, <4>1, LessByProduct
        <4> QED
          BY <1>1, <3>1, <4>2
      <3>4. ASSUME NEW i \in 1 .. n PROVE first + period * (i - 1) < now <=> i <= q
        <4>1. ASSUME first + period * (i - 1) < now PROVE i <= q
          <5>1. period * (i - 1) < period * q
            BY <1>1, <2>1, <3>1, <4>1
          <5>2. i - 1 < q
            BY <1>1, <3>1, <5>1, LessByProduct
          <5> QED
            BY <3>1, <5>2
        <4>2. ASSUME i <= q PROVE first + period * (i - 1) < now
          <5>1. period * (i - 1) <= period * (q - 1)
            BY <1>1, <3>1, <4>2
          <5> QED
            BY <1>1, <2>1, <3>1, <5>1
        <4> QED
          BY <4>1, <4>2
      <3>5. over = 1 .. q
        BY <1>1, <1>8, <3>2, <3>3, <3>4 DEF over
      <3> QED
        BY <1>4, <1>6, <2>1, <2>3, <3>2, <3>5 DEF q
    <2> QED
      BY <2>1, <2>2, <2>3
  <1> QED
    BY <1>1, <1>7, <1>8

\* What a stream has released is what its own schedule says, whatever its amounts and its
\* period are, as long as it ends with its last payment and pays no more than 1000 tokens
\* for each second of a period.
THEOREM ReleasedAlwaysFollows == Spec => []ReleasedFollowsSchedule
  <1>1. ASSUME clock \in Instants PROVE ReleasedFollowsSchedule
    <2>1. clock \in Int
      BY <1>1, ConstantsAssumption
    <2> QED
      BY <2>1, EntriesOver DEF ReleasedFollowsSchedule, Released
  <1>2. Init => clock \in Instants
    BY DEF Init
  <1>3. clock \in Instants /\ [Next]_vars => (clock \in Instants)'
    BY ClockAdvances
  <1> QED
    BY <1>1, <1>2, <1>3, PTL DEF Spec

-----------------------------------------------------------------------------
(* The pages.                                                                *)

\* How many of a list come before one of it.
Place(kind, list, p) == Cardinality({q \in list : SortKey(kind, q) < SortKey(kind, p)})

\* In a list without ties, the places are 0, 1, ... and each is taken once.
LEMMA PlacesAreTaken ==
    ASSUME NEW kind, NEW list \in SUBSET Projects,
           \A p, q \in list : SortKey(kind, p) = SortKey(kind, q) => p = q
    PROVE  /\ IsFiniteSet(list) /\ Cardinality(list) \in Nat
           /\ \A p \in list : Place(kind, list, p) \in 0 .. Cardinality(list) - 1
           /\ \A k \in 0 .. Cardinality(list) - 1 : \E p \in list : Place(kind, list, p) = k
  <1> DEFINE n == Cardinality(list)
             Key(p) == SortKey(kind, p)
             Earlier(p) == {q \in list : Key(q) < Key(p)}
             place == [p \in list |-> Cardinality(Earlier(p))]
  <1>1. \A p \in list : Key(p) \in Int
    <2>1. ASSUME NEW p \in list
          PROVE  timeline[p]["investment_end_at"] \in Int /\ timeline[p]["registration_start_at"] \in Int
      BY InstantsAreIntegers DEF Start, End
    <2> QED
      BY <2>1 DEF SortKey
  <1>2. IsFiniteSet(list) /\ n \in Nat
    BY ConstantsAssumption, FS_Subset, FS_CardinalityType
  <1> HIDE DEF Key
  <1>3. \A p \in list : IsFiniteSet(Earlier(p)) /\ Cardinality(Earlier(p)) \in Nat
    BY <1>2, FS_Subset, FS_CardinalityType
  <1>4. ASSUME NEW p \in list PROVE place[p] \in 0 .. n - 1
    <2>1. Earlier(p) \in SUBSET list /\ Earlier(p) # list
      BY <1>1
    <2>2. Cardinality(Earlier(p)) <= n /\ Cardinality(Earlier(p)) # n
      BY <1>2, <2>1, FS_Subset
    <2> QED
      BY <1>2, <1>3, <2>2
  <1>5. ASSUME NEW p \in list, NEW q \in list, Key(p) < Key(q) PROVE place[p] # place[q]
    <2>1. Earlier(p) \in SUBSET Earlier(q) /\ Earlier(p) # Earlier(q)
      BY <1>1, <1>5
    <2>2. Cardinality(Earlier(p)) # Cardinality(Earlier(q))
      BY <1>3, <2>1, FS_Subset
    <2> QED
      BY <2>2
  <1>6. place \in Injection(list, 0 .. n - 1)
    <2>1. \A p, q \in list : Key(p) = Key(q) => p = q
      BY DEF Key
    <2>2. ASSUME NEW p \in list, NEW q \in list, p # q PROVE place[p] # place[q]
      <3>1. Key(p) < Key(q) \/ Key(q) < Key(p)
        BY <1>1, <2>1, <2>2
      <3> QED
        BY <1>5, <3>1
    <2>3. place \in [list -> 0 .. n - 1]
      BY <1>4
    <2> HIDE DEF place
    <2> QED
      BY <2>2, <2>3 DEF Injection, IsInjective
  <1>7. IsFiniteSet(0 .. n - 1) /\ Cardinality(0 .. n - 1) = n
    BY <1>2, FS_Interval
  <1>8. place \in Surjection(list, 0 .. n - 1)
    BY <1>6, <1>7, FS_Injection
  <1>9. \A p \in list : Place(kind, list, p) = place[p]
    BY DEF Place, Key
  <1> HIDE DEF place
  <1> QED
    BY <1>2, <1>4, <1>8, <1>9 DEF Surjection

\* A page is made of the places from its first to the one before the next page's.
LEMMA PageOf ==
    ASSUME NEW kind, NEW list \in SUBSET Projects, NEW limit \in Nat, NEW i \in Nat,
           NEW p \in list, Place(kind, list, p) \in Nat
    PROVE  p \in Page(kind, list, limit, i) <=>
               /\ PerPage(limit) * (i - 1) <= Place(kind, list, p)
               /\ Place(kind, list, p) < PerPage(limit) * i
  <1> DEFINE first == PerPage(limit) * (i - 1)
             next == PerPage(limit) * i
  <1>1. first \in Int /\ next \in Int
    BY DEF PerPage
  <1>2. p \in Page(kind, list, limit, i) <=> Place(kind, list, p) \in first .. next - 1
    BY DEF Page, Place
  <1> HIDE DEF first, next
  <1>3. p \in Page(kind, list, limit, i) <=>
            first <= Place(kind, list, p) /\ Place(kind, list, p) < next
    BY <1>1, <1>2
  <1> QED
    BY <1>3 DEF first, next

\* The pages up to the total: each project is on one, on one only, and none is empty.
LEMMA PagesCover ==
    ASSUME NEW kind, NEW list \in SUBSET Projects, NEW limit \in Nat,
           \A p, q \in list : SortKey(kind, p) = SortKey(kind, q) => p = q
    PROVE  LET total == Total(kind, list, limit)
           IN  /\ total \in Int
               /\ \A p \in list : \E i \in 1 .. total : p \in Page(kind, list, limit, i)
               /\ \A i, j \in 1 .. total : i # j =>
                      Page(kind, list, limit, i) \cap Page(kind, list, limit, j) = {}
               /\ \/ kind = "furture" /\ limit = 0
                  \/ \A i \in 1 .. total : Page(kind, list, limit, i) # {}
  <1> DEFINE n == Cardinality(list)
             many == PerPage(limit)
             total == Total(kind, list, limit)
             Has(i) == Page(kind, list, limit, i)
             At(p) == Place(kind, list, p)
             Bare == kind = "furture" /\ limit = 0
  <1>1. n \in Nat /\ many \in Nat \ {0}
    BY PlacesAreTaken DEF PerPage
  <1>2. /\ \A p \in list : At(p) \in 0 .. n - 1
        /\ \A k \in 0 .. n - 1 : \E p \in list : At(p) = k
    BY PlacesAreTaken
  <1>3. ASSUME NEW i \in Nat, NEW p \in list
        PROVE  p \in Has(i) <=> many * (i - 1) <= At(p) /\ At(p) < many * i
    <2>1. At(p) \in Nat
      BY <1>1, <1>2
    <2> QED
      BY <2>1, PageOf
  <1>4. \A i \in Nat : Has(i) \subseteq list
    BY DEF Page
  <1>5. total = IF Bare THEN CeilDiv(n, 1) ELSE CeilDiv(n, many)
    BY DEF Total
  <1> HIDE DEF n, many, total, Has, At, Bare
  <1>6. total \in Int /\ n <= many * total /\ (Bare \/ many * (total - 1) < n)
    <2>1. CeilDiv(n, many) \in Int /\ n <= many * CeilDiv(n, many)
                                   /\ many * (CeilDiv(n, many) - 1) < n
      BY <1>1, CeilDivBounds
    <2>2. CeilDiv(n, 1) = n
      BY <1>1, CeilDivIs
    <2>3. n <= many * n
      BY <1>1
    <2> QED
      BY <1>1, <1>5, <2>1, <2>2, <2>3
  <1>7. ASSUME NEW p \in list PROVE \E i \in 1 .. total : p \in Has(i)
    <2> DEFINE i == (At(p) \div many) + 1
    <2>1. At(p) \in Nat /\ At(p) < n
      BY <1>1, <1>2
    <2>2. i \in Int /\ many * (i - 1) <= At(p) /\ At(p) < many * (i - 1) + many
      BY <1>1, <2>1
    <2> HIDE DEF i
    <2>3. At(p) < many * i
      BY <1>1, <2>2
    <2>4. many * 0 < many * i /\ many * (i - 1) < many * total
      BY <1>1, <1>6, <2>1, <2>2, <2>3
    <2>5. 0 < i /\ i - 1 < total
      BY <1>1, <1>6, <2>2, <2>4, LessByProduct
    <2>6. i \in 1 .. total /\ i \in Nat
      BY <1>6, <2>2, <2>5
    <2> QED
      BY <1>3, <2>2, <2>3, <2>6
  <1>8. ASSUME NEW i \in 1 .. total, NEW j \in 1 .. total, i < j
        PROVE  Has(i) \cap Has(j) = {}
    <2>1. i \in Nat /\ j \in Nat /\ many * i <= many * (j - 1)
      BY <1>1, <1>6, <1>8
    <2>2. ASSUME NEW p \in Has(i) \cap Has(j) PROVE FALSE
      <3>1. p \in list /\ At(p) \in Nat
        BY <1>1, <1>2, <1>4, <2>1, <2>2
      <3>2. At(p) < many * i /\ many * (j - 1) <= At(p)
        BY <1>3, <2>1, <2>2, <3>1
      <3> QED
        BY <1>1, <2>1, <3>1, <3>2
    <2> QED
      BY <2>2
  <1>9. ASSUME NEW i \in 1 .. total, ~Bare PROVE Has(i) # {}
    <2>1. i \in Nat /\ many * (i - 1) <= many * (total - 1) /\ many * (i - 1) \in Nat
      BY <1>1, <1>6
    <2>2. many * (i - 1) \in 0 .. n - 1
      BY <1>1, <1>6, <1>9, <2>1
    <2>3. PICK p \in list : At(p) = many * (i - 1)
      BY <1>2, <2>2
    <2>4. many * (i - 1) < many * i
      BY <1>1, <2>1
    <2>5. p \in Has(i)
      BY <1>3, <2>1, <2>3, <2>4
    <2> QED
      BY <2>5
  <1>10. \A i, j \in 1 .. total : i # j => Has(i) \cap Has(j) = {}
    <2>1. \A i, j \in 1 .. total : i # j => i < j \/ j < i
      BY <1>6
    <2> QED
      BY <1>8, <2>1
  <1> QED
    BY <1>6, <1>7, <1>9, <1>10 DEF total, Has, Bare

\* The pages a list tells of show each of its projects on just one of them, for any
\* number of projects, any limits and any instants, as long as no two have the same key.
THEOREM PagesAlwaysCover == Spec => []PagesCoverList
  <1>1. ASSUME TypeOK PROVE PagesCoverList
    <2> DEFINE List(kind) == CASE kind = "upcoming" -> Upcoming
                               [] kind = "furture" -> Furture(clock)
                               [] kind = "success" -> Success
    <2> SUFFICES ASSUME NEW kind \in {"upcoming", "furture", "success"}, NEW limit \in Limits,
                        \A p, q \in List(kind) : SortKey(kind, p) = SortKey(kind, q) => p = q
                 PROVE  LET pages == [i \in 1 .. Total(kind, List(kind), limit) |->
                                         Page(kind, List(kind), limit, i)]
                        IN  /\ UNION {pages[i] : i \in DOMAIN pages} = List(kind)
                            /\ \A i, j \in DOMAIN pages : i # j => pages[i] \cap pages[j] = {}
                            /\ \/ kind = "furture" /\ limit = 0
                               \/ {} \notin {pages[i] : i \in DOMAIN pages}
      BY Zenon DEF PagesCoverList
    <2> DEFINE list == List(kind)
    <2>0. list \in SUBSET Projects
      <3>1. /\ Upcoming \in SUBSET Projects /\ Furture(clock) \in SUBSET Projects
            /\ Success \in SUBSET Projects
        BY <1>1 DEF TypeOK, Upcoming, Furture, Success
      <3> QED
        BY <3>1
    <2> HIDE DEF List
    <2> DEFINE total == Total(kind, list, limit)
               Has(i) == Page(kind, list, limit, i)
               pages == [i \in 1 .. total |-> Has(i)]
    <2>1. limit \in Nat
      BY ConstantsAssumption
    <2>2. /\ \A p \in list : \E i \in 1 .. total : p \in Has(i)
          /\ \A i, j \in 1 .. total : i # j => Has(i) \cap Has(j) = {}
          /\ (kind = "furture" /\ limit = 0) \/ \A i \in 1 .. total : Has(i) # {}
      BY <2>0, <2>1, PagesCover
    <2>3. \A i \in 1 .. total : Has(i) \subseteq list
      BY DEF Page
    <2> HIDE DEF total, Has
    <2>4. DOMAIN pages = 1 .. total /\ \A i \in 1 .. total : pages[i] = Has(i)
      OBVIOUS
    <2> HIDE DEF pages
    <2>5. UNION {pages[i] : i \in DOMAIN pages} = list
      BY <2>2, <2>3, <2>4
    <2>6. \A i, j \in DOMAIN pages : i # j => pages[i] \cap pages[j] = {}
      BY <2>2, <2>4
    <2>7. (kind = "furture" /\ limit = 0) \/ {} \notin {pages[i] : i \in DOMAIN pages}
      BY <2>2, <2>4
    <2> QED
      BY <2>5, <2>6, <2>7 DEF pages, total, Has
  <1>2. TypeOK => PagesCoverList
    BY <1>1
  <1> QED
    BY <1>2, TypeCorrect, PTL

-----------------------------------------------------------------------------
(* What is shown of applications.                                            *)

\* An application that may still leave a row, or has left one.
MayCount(a) == status[a] = "pending" \/ a \in userprojects

\* The reads a visit makes, of those that it has made.
Made(v, part) ==
    /\ reply[v] \in {"none", "shown"}
    /\ part \in Reads \ due[v]
    /\ part = "own" => visitor[v] # Guest \/ project[v] = "all"
    /\ part = "summed" => project[v] = "all" \/ ~lost[v]

\* What a read found lies between the rows there were when the visit began and those
\* there are; who had been told that it has joined had a row by then.
VisitInv(v) ==
    /\ \A pair \in told[v] : \E a \in before[v] : wants[a] = pair
    /\ reply[v] = "idle" => due[v] = {} /\ ~lost[v]
    /\ \A part \in Reads :
         /\ found[v][part] \subseteq userprojects
         /\ Made(v, part) =>
               /\ Sought(v, part, before[v]) \subseteq found[v][part]
               /\ found[v][part] \subseteq Sought(v, part, userprojects)
    /\ reply[v] = "shown" => due[v] = {}

\* Two rows of a pair were both pending once, and only a registered pair is said to be.
ApplyInv ==
    /\ \A a \in Applications : status[a] \in {"entered", "accepted", "joined"} =>
                                   wants[a] \in registered
    /\ \A a, b \in Applications :
         a # b /\ wants[a] = wants[b] /\ MayCount(a) /\ MayCount(b) => wants[a] \in overlaps

ViewsInv == ViewsTypeOK /\ ApplyInv /\ \A v \in Visits : VisitInv(v)

\* Nothing has been applied for at the start, and nothing shown.
LEMMA ViewsStart == ViewsInit => ViewsInv
  BY DEF ViewsInit, Ledger!Init, ViewsInv, ViewsTypeOK, Ledger!Statuses, Pairs, Reads,
         ApplyInv, VisitInv, Made, MayCount, Sought, Of, For

\* Applications leave the visits alone.
LEMMA VisitsUndisturbed ==
    ASSUME ViewsInv, UNCHANGED visits, wants' = wants, userprojects \subseteq userprojects',
           NEW v \in Visits
    PROVE  VisitInv(v)'
  <1>1. VisitInv(v)
    BY DEF ViewsInv
  <1>2. /\ UNCHANGED <<visitor[v], project[v], due[v], found[v], lost[v], reply[v],
                       before[v], told[v]>>
    BY DEF visits
  <1>3. ASSUME NEW part \in Reads PROVE /\ Made(v, part)' = Made(v, part)
                                        /\ Sought(v, part, before[v])' = Sought(v, part, before[v])
                                        /\ Sought(v, part, userprojects) \subseteq
                                               Sought(v, part, userprojects)'
    BY <1>2 DEF Made, Sought, Of, For, visits
  <1> QED
    BY <1>1, <1>2, <1>3 DEF VisitInv

\* Every application keeps the invariant.
LEMMA ApplyingStep ==
    ASSUME ViewsInv, NEW a \in Applications, Apply(a) \/ InsertRow(a) \/ Conclude(a)
    PROVE  ViewsInv'
  <1> USE DEF ledger, applying
  <1>t. /\ status \in [Applications -> Ledger!Statuses]
        /\ wants \in [Applications -> Pairs]
        /\ registered = {wants[b] : b \in userprojects}
        /\ userprojects \subseteq Applications
        /\ overlaps \subseteq Pairs
    BY DEF ViewsInv, ViewsTypeOK
  <1>s. \A word \in {"pending", "late", "entered", "accepted", "joined", "failed"} :
            word \in Ledger!Statuses
    BY DEF Ledger!Statuses
  <1>1. CASE Apply(a)
    <2>1. /\ status[a] = "absent"
          /\ status' = [status EXCEPT ![a] =
                            IF wants[a] \in registered THEN "late" ELSE "pending"]
          /\ UNCHANGED <<wants, registered, userprojects, visits>>
      BY <1>1 DEF Apply, Ledger!Ask
    <2>2. \A b \in Applications : status[b] = "pending" /\ wants[b] = wants[a] =>
                                      wants[a] \in overlaps'
      BY <1>1 DEF Apply
    <2>3. overlaps \subseteq overlaps' /\ overlaps' \subseteq Pairs
      BY <1>1, <1>t DEF Apply
    <2>4. ApplyInv'
      <3>1. ASSUME NEW b \in Applications, NEW c \in Applications, b # c,
                   wants[b] = wants[c], MayCount(b)', MayCount(c)'
            PROVE  wants[b] \in overlaps'
        <4>1. \A d \in Applications : d # a => (MayCount(d)' <=> MayCount(d))
          BY <2>1, <1>t DEF MayCount
        <4>2. CASE MayCount(b) /\ MayCount(c)
          BY <3>1, <4>2, <2>3 DEF ViewsInv, ApplyInv
        <4>3. CASE b = a /\ ~MayCount(a)
          <5>1. status'[a] = "pending" /\ wants[a] \notin registered
            BY <2>1, <3>1, <4>3, <1>t DEF MayCount
          <5>2. MayCount(c) /\ c \notin userprojects
            BY <3>1, <4>1, <4>3, <5>1, <1>t
          <5> QED
            BY <2>2, <3>1, <4>3, <5>2 DEF MayCount
        <4>4. CASE c = a /\ ~MayCount(a)
          <5>1. status'[a] = "pending" /\ wants[a] \notin registered
            BY <2>1, <3>1, <4>4, <1>t DEF MayCount
          <5>2. MayCount(b) /\ b \notin userprojects
            BY <3>1, <4>1, <4>4, <5>1, <1>t
          <5> QED
            BY <2>2, <3>1, <4>4, <5>2 DEF MayCount
        <4> QED
          BY <3>1, <4>1, <4>2, <4>3, <4>4
      <3>2. \A b \in Applications : status'[b] \in {"entered", "accepted", "joined"} =>
                                        wants[b] \in registered
        BY <2>1, <1>t DEF ViewsInv, ApplyInv
      <3> QED
        BY <2>1, <3>1, <3>2 DEF ApplyInv
    <2>5. ViewsTypeOK'
      BY <1>s, <2>1, <2>3 DEF ViewsInv, ViewsTypeOK, visits
    <2> QED
      BY <2>1, <2>4, <2>5, VisitsUndisturbed DEF ViewsInv
  <1>2. CASE InsertRow(a)
    <2>1. /\ status[a] = "pending"
          /\ status' = [status EXCEPT ![a] = "entered"]
          /\ registered' = registered \cup {wants[a]}
          /\ userprojects' = userprojects \cup {a}
          /\ UNCHANGED <<wants, overlaps, visits>>
      BY <1>2 DEF InsertRow, Ledger!Enter
    <2>2. \A b \in Applications : MayCount(b)' => MayCount(b)
      BY <2>1, <1>t DEF MayCount
    <2>3. ApplyInv'
      BY <2>1, <2>2, <1>t DEF ViewsInv, ApplyInv
    <2>4. ViewsTypeOK'
      <3>1. registered' = {wants'[b] : b \in userprojects'}
        BY <2>1, <1>t
      <3> QED
        BY <1>s, <2>1, <3>1 DEF ViewsInv, ViewsTypeOK, visits
    <2> QED
      BY <2>1, <2>3, <2>4, VisitsUndisturbed DEF ViewsInv
  <1>3. CASE Conclude(a)
    <2>1. /\ UNCHANGED <<wants, registered, userprojects, overlaps, visits>>
          /\ status' \in [Applications -> Ledger!Statuses]
          /\ \A b \in Applications :
                /\ status'[b] = "pending" => status[b] = "pending"
                /\ status'[b] \in {"entered", "accepted", "joined"} =>
                       \/ status[b] \in {"entered", "accepted", "joined"}
                       \/ wants[b] \in registered
      <3>1. CASE Ledger!Accept(a)
        BY <1>3, <3>1, <1>t, <1>s DEF Conclude, Ledger!Accept
      <3>2. CASE Ledger!AnswerJoined(a)
        BY <1>3, <3>2, <1>t, <1>s DEF Conclude, Ledger!AnswerJoined
      <3>3. CASE Ledger!Fail({a})
        BY <1>3, <3>3, <1>t, <1>s DEF Conclude, Ledger!Fail
      <3> QED
        BY <1>3, <3>1, <3>2, <3>3 DEF Conclude
    <2>2. \A b \in Applications : MayCount(b)' => MayCount(b)
      BY <2>1 DEF MayCount
    <2>3. ApplyInv'
      BY <2>1, <2>2 DEF ViewsInv, ApplyInv
    <2>4. ViewsTypeOK'
      BY <2>1 DEF ViewsInv, ViewsTypeOK, visits
    <2> QED
      BY <2>1, <2>3, <2>4, VisitsUndisturbed DEF ViewsInv
  <1> QED
    BY <1>1, <1>2, <1>3

\* Every step of a visit keeps the invariant.
LEMMA VisitingStep ==
    ASSUME ViewsInv, UNCHANGED applying, NEW v \in Visits,
           \/ \E w \in Applicants \cup {Guest}, p \in Offered \cup {"all"} : Visit(v, w, p)
           \/ \E part \in Reads : Read(v, part)
           \/ SumFails(v) \/ AssetsFail(v) \/ Show(v) \/ Refuse(v)
    PROVE  ViewsInv'
  <1> USE DEF ledger, applying
  <1>t. /\ visitor \in [Visits -> Applicants \cup {Guest}]
        /\ project \in [Visits -> Offered \cup {"all"}]
        /\ due \in [Visits -> SUBSET Reads]
        /\ found \in [Visits -> [Reads -> SUBSET Applications]]
        /\ lost \in [Visits -> BOOLEAN]
        /\ reply \in [Visits -> {"idle", "none", "shown", "refused"}]
        /\ before \in [Visits -> SUBSET userprojects]
        /\ told \in [Visits -> SUBSET registered]
        /\ registered = {wants[b] : b \in userprojects}
        /\ userprojects \subseteq Applications
    BY DEF ViewsInv, ViewsTypeOK
  <1>i. VisitInv(v)
    BY DEF ViewsInv
  <1>a. ApplyInv'
    <2>1. \A b \in Applications : MayCount(b)' = MayCount(b)
      BY DEF MayCount
    <2> QED
      BY <2>1 DEF ViewsInv, ApplyInv
  <1>o. ASSUME NEW u \in Visits, u # v,
               UNCHANGED <<visitor[u], project[u], due[u], found[u], lost[u], reply[u],
                           before[u], told[u]>>
        PROVE  VisitInv(u)'
    <2>1. VisitInv(u)
      BY DEF ViewsInv
    <2>2. ASSUME NEW part \in Reads
          PROVE  /\ Made(u, part)' = Made(u, part)
                 /\ Sought(u, part, before[u])' = Sought(u, part, before[u])
                 /\ Sought(u, part, userprojects)' = Sought(u, part, userprojects)
      BY <1>o DEF Made, Sought, Of, For
    <2> QED
      BY <1>o, <2>1, <2>2 DEF VisitInv
  <1>1. ASSUME NEW w \in Applicants \cup {Guest}, NEW p \in Offered \cup {"all"}, Visit(v, w, p)
        PROVE  ViewsInv'
    <2>1. Answered \subseteq Applications /\ {wants[b] : b \in Answered} \subseteq registered
      BY DEF Answered, ViewsInv, ApplyInv
    <2>2. VisitInv(v)'
      <3>1. \A pair \in told'[v] : \E b \in before'[v] : wants'[b] = pair
        BY <1>1, <1>t, <2>1 DEF Visit
      <3>2. \A part \in Reads : ~Made(v, part)'
        BY <1>1, <1>t DEF Visit, Made, Reads
      <3>3. reply'[v] = "none" /\ UNCHANGED <<found, userprojects>>
        BY <1>1, <1>t DEF Visit
      <3> QED
        BY <1>i, <3>1, <3>2, <3>3 DEF VisitInv
    <2>3. \A u \in Visits : u # v => VisitInv(u)'
      BY <1>1, <1>o, <1>t DEF Visit
    <2>4. ViewsTypeOK'
      <3>1. told' \in [Visits -> SUBSET registered]
        BY <1>1, <1>t, <2>1 DEF Visit
      <3>2. before' \in [Visits -> SUBSET userprojects]
        BY <1>1, <1>t DEF Visit
      <3>3. /\ visitor' \in [Visits -> Applicants \cup {Guest}]
            /\ project' \in [Visits -> Offered \cup {"all"}]
            /\ reply' \in [Visits -> {"idle", "none", "shown", "refused"}]
        BY <1>1, <1>t DEF Visit
      <3>4. due' \in [Visits -> SUBSET Reads]
        BY <1>1, <1>t DEF Visit, Reads
      <3>5. UNCHANGED <<status, wants, registered, userprojects, overlaps, found, lost>>
        BY <1>1 DEF Visit
      <3> QED
        BY <3>1, <3>2, <3>3, <3>4, <3>5 DEF ViewsInv, ViewsTypeOK
    <2> QED
      BY <1>a, <2>2, <2>3, <2>4 DEF ViewsInv
  <1>2. ASSUME NEW part \in Reads, Read(v, part) PROVE ViewsInv'
    <2>1. /\ part \in due[v]
          /\ due' = [due EXCEPT ![v] = @ \ {part}]
          /\ found' = [found EXCEPT ![v] = [@ EXCEPT ![part] = Sought(v, part, userprojects)]]
          /\ UNCHANGED <<visitor, project, lost, reply, before, told>>
      BY <1>2 DEF Read
    <2>2. Sought(v, part, userprojects) \subseteq userprojects
      BY DEF Sought, Of, For
    <2>3. ASSUME NEW other \in Reads
          PROVE  /\ Sought(v, other, before[v])' = Sought(v, other, before[v])
                 /\ Sought(v, other, userprojects)' = Sought(v, other, userprojects)
                 /\ Sought(v, other, before[v]) \subseteq Sought(v, other, userprojects)
                 /\ other # part /\ Made(v, other)' => Made(v, other)
                 /\ found'[v][other] = IF other = part THEN Sought(v, part, userprojects)
                                                       ELSE found[v][other]
      BY <1>t, <2>1 DEF Made, Sought, Of, For
    <2>4. VisitInv(v)'
      BY <1>i, <1>t, <2>1, <2>2, <2>3 DEF VisitInv
    <2>5. \A u \in Visits : u # v => VisitInv(u)'
      BY <2>1, <1>o, <1>t
    <2>6. ViewsTypeOK'
      <3>1. found' \in [Visits -> [Reads -> SUBSET Applications]]
        BY <1>t, <2>1, <2>2
      <3> QED
        BY <2>1, <3>1 DEF ViewsInv, ViewsTypeOK
    <2> QED
      BY <1>a, <2>4, <2>5, <2>6 DEF ViewsInv
  <1>3. ASSUME SumFails(v) \/ AssetsFail(v) \/ Show(v) \/ Refuse(v) PROVE ViewsInv'
    <2>1. /\ UNCHANGED <<visitor, project, found, before, told>>
          /\ \A u \in Visits : u # v => UNCHANGED <<due[u], lost[u], reply[u]>>
          /\ reply' \in [Visits -> {"idle", "none", "shown", "refused"}]
          /\ due' \in [Visits -> SUBSET Reads]
          /\ lost' \in [Visits -> BOOLEAN]
      BY <1>3, <1>t DEF SumFails, AssetsFail, Show, Refuse
    <2>2. ASSUME NEW part \in Reads
          PROVE  /\ Sought(v, part, before[v])' = Sought(v, part, before[v])
                 /\ Sought(v, part, userprojects)' = Sought(v, part, userprojects)
                 /\ Made(v, part)' => Made(v, part)
      <3>1. /\ Sought(v, part, before[v])' = Sought(v, part, before[v])
            /\ Sought(v, part, userprojects)' = Sought(v, part, userprojects)
        BY <2>1 DEF Sought, Of, For
      <3>2. Made(v, part)' => Made(v, part)
        <4>1. CASE SumFails(v)
          BY <4>1, <1>t DEF SumFails, Made
        <4>2. CASE AssetsFail(v)
          BY <4>2, <1>t DEF AssetsFail, Made
        <4>3. CASE Show(v)
          BY <4>3, <1>t DEF Show, Made
        <4>4. CASE Refuse(v)
          BY <4>4, <1>t DEF Refuse, Made
        <4> QED
          BY <1>3, <4>1, <4>2, <4>3, <4>4
      <3> QED
        BY <3>1, <3>2
    <2>3. /\ reply'[v] = "shown" => due'[v] = {}
          /\ reply'[v] = "idle" => due'[v] = {} /\ ~lost'[v]
      BY <1>3, <1>i, <1>t DEF SumFails, AssetsFail, Show, Refuse, VisitInv
    <2>4. VisitInv(v)'
      BY <1>i, <2>1, <2>2, <2>3 DEF VisitInv
    <2>5. \A u \in Visits : u # v => VisitInv(u)'
      BY <2>1, <1>o
    <2>6. ViewsTypeOK'
      BY <2>1 DEF ViewsInv, ViewsTypeOK
    <2> QED
      BY <1>a, <2>4, <2>5, <2>6 DEF ViewsInv
  <1> QED
    BY <1>1, <1>2, <1>3

\* Every step keeps the invariant.
LEMMA ViewsStep == ViewsInv /\ [ViewsNext]_viewsvars => ViewsInv'
  <1> SUFFICES ASSUME ViewsInv, [ViewsNext]_viewsvars PROVE ViewsInv'
    OBVIOUS
  <1>1. ASSUME NEW a \in Applications, Apply(a) \/ InsertRow(a) \/ Conclude(a) PROVE ViewsInv'
    BY <1>1, ApplyingStep
  <1>2. ASSUME NEW v \in Visits,
               \/ \E w \in Applicants \cup {Guest}, p \in Offered \cup {"all"} : Visit(v, w, p)
               \/ \E part \in Reads : Read(v, part)
               \/ SumFails(v) \/ AssetsFail(v) \/ Show(v) \/ Refuse(v)
        PROVE  ViewsInv'
    <2>1. UNCHANGED applying
      BY <1>2 DEF Visit, Read, SumFails, AssetsFail, Show, Refuse
    <2> QED
      BY <1>2, <2>1, VisitingStep
  <1>3. CASE UNCHANGED viewsvars
    <2>1. \A v \in Visits : VisitInv(v)'
      BY <1>3, VisitsUndisturbed DEF viewsvars, applying, ledger
    <2>2. \A a \in Applications : MayCount(a)' = MayCount(a)
      BY <1>3 DEF viewsvars, applying, ledger, MayCount
    <2> QED
      BY <1>3, <2>1, <2>2 DEF viewsvars, applying, ledger, visits, ViewsInv, ViewsTypeOK,
                              ApplyInv
  <1> QED
    BY <1>1, <1>2, <1>3 DEF ViewsNext

\* The inductive invariant holds of every reachable state.
THEOREM ViewsInductive == ViewsSpec => []ViewsInv
  BY ViewsStart, ViewsStep, PTL DEF ViewsSpec

\* What a page shows of applications was so while it was put together, and is no less than
\* the wallet had been told, for any number of applications and visits.
THEOREM AlwaysShown == ViewsSpec => []ApplicationsAreShown
  <1>1. ASSUME ViewsInv, NEW v \in Visits, reply[v] = "shown"
        PROVE  LET w == visitor[v]
                   p == project[v]
               IN  /\ \A q \in Offered :
                         (p \in {q, "all"} /\ w # Guest) =>
                             /\ <<w, q>> \in told[v] => q \in MyRegistered(v)
                             /\ q \in MyRegistered(v) => <<w, q>> \in registered
                   /\ p # "all" /\ ~lost[v] =>
                         /\ Participants(v) >= Cardinality(For(p, before[v]))
                         /\ Participants(v) <= Cardinality(For(p, userprojects))
                         /\ <<w, p>> \in told[v] => IsApplied(v) /\ Participants(v) > 0
    <2> DEFINE w == visitor[v]
               p == project[v]
    <2>t. /\ registered = {wants[b] : b \in userprojects}
          /\ userprojects \subseteq Applications /\ before[v] \subseteq userprojects
          /\ told[v] \subseteq registered
          /\ w \in Applicants \cup {Guest} /\ p \in Offered \cup {"all"}
          /\ wants \in [Applications -> Pairs]
          /\ found[v] \in [Reads -> SUBSET Applications]
      BY <1>1 DEF ViewsInv, ViewsTypeOK
    <2>i. VisitInv(v)
      BY <1>1 DEF ViewsInv
    <2>b. ASSUME NEW q, <<w, q>> \in told[v]
          PROVE  w # Guest /\ \E a \in before[v] : wants[a] = <<w, q>>
      <3>1. \E a \in before[v] : wants[a] = <<w, q>>
        BY <2>i, <2>b DEF VisitInv
      <3>2. <<w, q>> \in Pairs
        BY <3>1, <2>t
      <3> QED
        BY <3>1, <3>2, ViewsAssumption DEF Pairs
    <2>o. ASSUME w # Guest
          PROVE  /\ Sought(v, "own", before[v]) \subseteq found[v]["own"]
                 /\ found[v]["own"] \subseteq Sought(v, "own", userprojects)
      <3>1. Made(v, "own")
        BY <1>1, <2>o, <2>i DEF Made, Reads, VisitInv
      <3> QED
        BY <3>1, <2>i DEF VisitInv, Reads
    <2>1. ASSUME NEW q \in Offered, p \in {q, "all"}, w # Guest, <<w, q>> \in told[v]
          PROVE  q \in MyRegistered(v)
      <3>1. PICK a \in before[v] : wants[a] = <<w, q>>
        BY <2>1, <2>b
      <3>2. a \in Sought(v, "own", before[v])
        BY <2>1, <3>1 DEF Sought, Of, For
      <3> QED
        BY <2>1, <2>o, <3>1, <3>2 DEF MyRegistered
    <2>2. ASSUME NEW q \in Offered, p \in {q, "all"}, w # Guest, q \in MyRegistered(v)
          PROVE  <<w, q>> \in registered
      <3>1. PICK a \in found[v]["own"] : wants[a][2] = q
        BY <2>2 DEF MyRegistered
      <3>2. a \in userprojects /\ wants[a][1] = w
        BY <2>2, <2>o DEF Sought, Of, For
      <3>3. wants[a] = <<w, q>>
        BY <3>1, <3>2, <2>t DEF Pairs
      <3> QED
        BY <3>2, <3>3, <2>t
    <2>3. ASSUME p # "all", ~lost[v]
          PROVE  /\ Participants(v) >= Cardinality(For(p, before[v]))
                 /\ Participants(v) <= Cardinality(For(p, userprojects))
                 /\ <<w, p>> \in told[v] => IsApplied(v) /\ Participants(v) > 0
      <3>1. Made(v, "summed")
        BY <1>1, <2>3, <2>i DEF Made, Reads, VisitInv
      <3>2. /\ For(p, before[v]) \subseteq found[v]["summed"]
            /\ found[v]["summed"] \subseteq For(p, userprojects)
        BY <2>3, <2>i, <3>1 DEF VisitInv, Sought, Reads
      <3>3. IsFiniteSet(For(p, userprojects)) /\ IsFiniteSet(found[v]["summed"])
        <4>1. For(p, userprojects) \subseteq Applications
          BY <2>t DEF For
        <4> QED
          BY <3>2, <4>1, FS_Subset, ViewsAssumption
      <3>4. /\ Cardinality(For(p, before[v])) <= Cardinality(found[v]["summed"])
            /\ Cardinality(found[v]["summed"]) <= Cardinality(For(p, userprojects))
        BY <3>2, <3>3, FS_Subset
      <3>5. /\ Cardinality(found[v]["summed"]) \in Nat
            /\ Cardinality(found[v]["summed"]) = 0 <=> found[v]["summed"] = {}
        BY <3>3, FS_CardinalityType, FS_EmptySet
      <3>6. IsFiniteSet(For(p, before[v])) /\ Cardinality(For(p, before[v])) \in Nat
        BY <3>2, <3>3, FS_Subset, FS_CardinalityType
      <3>7. Cardinality(For(p, userprojects)) \in Nat
        BY <3>3, FS_CardinalityType
      <3>8. ASSUME <<w, p>> \in told[v] PROVE IsApplied(v) /\ Participants(v) > 0
        <4>1. PICK a \in before[v] : wants[a] = <<w, p>>
          BY <2>b, <3>8
        <4>2. w # Guest
          BY <2>b, <3>8
        <4>3. a \in Sought(v, "own", before[v]) /\ a \in For(p, before[v])
          BY <4>1 DEF Sought, Of, For
        <4>4. a \in found[v]["own"] /\ a \in found[v]["summed"]
          BY <2>o, <3>2, <4>2, <4>3
        <4>5. Cardinality(found[v]["summed"]) # 0
          BY <3>5, <4>4
        <4> QED
          BY <3>5, <4>4, <4>5 DEF IsApplied, Participants
      <3> QED
        BY <3>4, <3>5, <3>6, <3>7, <3>8 DEF Participants
    <2> QED
      BY <2>1, <2>2, <2>3
  <1>2. ViewsInv => ApplicationsAreShown
    BY <1>1 DEF ApplicationsAreShown
  <1> QED
    BY <1>2, ViewsInductive, PTL

\* Two rows of one wallet for one project, both counted, are of applications that were
\* under way together.
THEOREM AlwaysCountedOnce == ViewsSpec => []CountedOnce
  <1>1. ASSUME ViewsInv PROVE CountedOnce
    <2>1. \A v \in Visits : found[v]["summed"] \subseteq userprojects
      BY <1>1 DEF ViewsInv, VisitInv, Reads
    <2>2. \A a \in userprojects : a \in Applications /\ MayCount(a)
      BY <1>1 DEF ViewsInv, ViewsTypeOK, MayCount
    <2> QED
      BY <1>1, <2>1, <2>2 DEF CountedOnce, ViewsInv, ApplyInv
  <1> QED
    BY <1>1, ViewsInductive, PTL

-----------------------------------------------------------------------------
(* What is applied to, and the two modules side by side.                     *)

\* Seen without the rows and the pages, applications do what the ledger promises, and
\* nothing else: what a page shows of them it shows of any implementation of the ledger.
THEOREM AppliesAsTheLedger == ViewsSpec => Ledger!Spec
  <1>1. ViewsInit => Ledger!Init
    BY DEF ViewsInit
  <1>2. [ViewsNext]_viewsvars => [Ledger!Next]_(Ledger!vars)
    <2> SUFFICES ASSUME [ViewsNext]_viewsvars PROVE [Ledger!Next]_(Ledger!vars)
      OBVIOUS
    <2>1. ASSUME NEW a \in Applications, Apply(a) PROVE Ledger!Next
      BY <2>1 DEF Apply, Ledger!Next
    <2>2. ASSUME NEW a \in Applications, InsertRow(a) PROVE Ledger!Next
      BY <2>2 DEF InsertRow, Ledger!Next
    <2>3. ASSUME NEW a \in Applications, Conclude(a) PROVE Ledger!Next
      <3>1. {a} \in SUBSET Applications
        OBVIOUS
      <3> QED
        BY <2>3, <3>1 DEF Conclude, Ledger!Next
    <2>4. ASSUME NEW v \in Visits,
                 \/ \E w \in Applicants \cup {Guest}, p \in Offered \cup {"all"} : Visit(v, w, p)
                 \/ \E part \in Reads : Read(v, part)
                 \/ SumFails(v) \/ AssetsFail(v) \/ Show(v) \/ Refuse(v)
          PROVE  UNCHANGED ledger
      BY <2>4 DEF Visit, Read, SumFails, AssetsFail, Show, Refuse, applying
    <2>5. CASE UNCHANGED viewsvars
      BY <2>5 DEF viewsvars, applying, ledger, Ledger!vars
    <2> QED
      BY <2>1, <2>2, <2>3, <2>4, <2>5 DEF ViewsNext, ledger, Ledger!vars
  <1> QED
    BY <1>1, <1>2, PTL DEF ViewsSpec, Ledger!Spec

\* The run's instance is a behaviour of both modules.
THEOREM PartsAreEach == PartsSpec => Spec /\ ViewsSpec
  <1>1. [PartsNext]_<<vars, viewsvars>> => [Next]_vars /\ [ViewsNext]_viewsvars
    BY DEF PartsNext
  <1> QED
    BY <1>1, PTL DEF PartsSpec, PartsInit, Spec, ViewsSpec

\* Lists, rows and pages keep their types in it.
THEOREM PartsTypesCorrect == PartsSpec => []TypesOK
  <1>1. ViewsInv => ViewsTypeOK
    BY DEF ViewsInv
  <1> QED
    BY <1>1, PartsAreEach, TypeCorrect, ViewsInductive, PTL DEF TypesOK

=============================================================================
