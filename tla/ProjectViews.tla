------------------------------ MODULE ProjectViews ------------------------------
(***************************************************************************)
(* What ProjectService shows of projects and vesting as time goes on: the  *)
(* three lists with their pages, a client that loads one after the other,  *)
(* the status of participations, claims and vesting pools.                 *)
(***************************************************************************)
EXTENDS ProjectTimeline, Vesting

CONSTANTS
    Projects,
    timeline,   \* timeline of each project
    Instants,   \* the milliseconds at which anything is looked at
    Limits,     \* limit of a query, 0 when it is missing
    Streams     \* sequences of incoming streams a wallet can have

AllStreams == UNION {{streams[i] : i \in DOMAIN streams} : streams \in Streams}

ASSUME ConstantsAssumption ==
    /\ IsFiniteSet(Projects)
    /\ Instants \subseteq Int /\ IsFiniteSet(Instants) /\ Instants # {}
    /\ timeline \in [Projects -> [TimelineFields -> Int]]
    /\ Limits \subseteq Nat
    /\ \A s \in AllStreams :
          s \in [StreamFields -> Nat] /\ s["period"] > 0 /\ s["amount_per_period"] > 0

\* StreamFlow lets a stream end with the last payment of its schedule.
ASSUME StreamsAssumption ==
    \A s \in AllStreams :
        ~IsCliff(s) /\ HasSchedule(s) =>
            s["end"] = s["start"] + s["period"]
                         * CeilDiv(s["total_amount"] - s["cliff_amount"], s["amount_per_period"])

VARIABLES
    clock,      \* milliseconds
    active,     \* projects whose status is active
    answered,   \* how many of the lists the client has got: upcoming, furture, success
    shown,      \* the projects it was shown in them
    steady      \* history: those that have been active since it began

vars == <<clock, active, answered, shown, steady>>

Init ==
    /\ clock \in Instants
    /\ active \in SUBSET Projects
    /\ answered = 0
    /\ shown = {}
    /\ steady = active

Tick(now) ==
    /\ now > clock
    /\ clock' = now
    /\ UNCHANGED <<active, answered, shown, steady>>

\* An operator publishes or withdraws a project.
Edit(p) ==
    /\ active' = IF p \in active THEN active \ {p} ELSE active \cup {p}
    /\ steady' = steady \ {p}
    /\ UNCHANGED <<clock, answered, shown>>

Upcoming == {p \in active : InUpcoming(timeline[p], clock)}
Furture(later) == {p \in active : InFurture(timeline[p], clock, later)}
Success == {p \in active : InSuccess(timeline[p], clock)}

ListUpcoming ==
    /\ answered = 0
    /\ answered' = 1
    /\ shown' = Upcoming
    /\ UNCHANGED <<clock, active, steady>>

\* The clock may go on between the two readings.
ListFurture(later) ==
    /\ answered = 1
    /\ later >= clock
    /\ clock' = later
    /\ answered' = 2
    /\ shown' = shown \cup Furture(later)
    /\ UNCHANGED <<active, steady>>

\* Variant with a bug: a list that was answered counts again.
ListSuccessAgain ==
    /\ answered \in {2, 3}
    /\ answered' = answered + 1
    /\ shown' = shown \cup Success
    /\ UNCHANGED <<clock, active, steady>>

ListSuccess ==
    /\ answered = 2
    /\ answered' = 3
    /\ shown' = shown \cup Success
    /\ UNCHANGED <<clock, active, steady>>

\* The client begins anew.
Reload ==
    /\ answered = 3
    /\ answered' = 0
    /\ shown' = {}
    /\ steady' = active
    /\ UNCHANGED <<clock, active>>

Next ==
    \/ \E now \in Instants : Tick(now)
    \/ \E p \in Projects : Edit(p)
    \/ ListUpcoming \/ (\E later \in Instants : ListFurture(later)) \/ ListSuccess
    \/ Reload

Spec == Init /\ [][Next]_vars

-----------------------------------------------------------------------------
(* The pages of a list.                                                      *)

\* What a list is sorted by: newest ends first in the list of successes.
SortKey(kind, p) ==
    IF kind = "success" THEN -timeline[p]["investment_end_at"]
                        ELSE timeline[p]["registration_start_at"]

PerPage(limit) == IF limit = 0 THEN 3 ELSE limit

\* Variant with a bug: as many as there are pages are skipped.
PageSkippingOwn(kind, list, limit, page) ==
    {p \in list :
        Cardinality({q \in list : SortKey(kind, q) < SortKey(kind, p)})
            \in PerPage(limit) * page .. PerPage(limit) * (page + 1) - 1}

\* $sort, $skip and $limit: the projects with so many before them.
Page(kind, list, limit, page) ==
    {p \in list :
        Cardinality({q \in list : SortKey(kind, q) < SortKey(kind, p)})
            \in PerPage(limit) * (page - 1) .. PerPage(limit) * page - 1}

\* pagination.total; furture takes a missing limit for 1.  There is none (NaN) for a
\* list without projects.
Total(kind, list, limit) ==
    CeilDiv(Cardinality(list),
            IF limit = 0 /\ kind = "furture" THEN 1 ELSE PerPage(limit))

-----------------------------------------------------------------------------
(* Properties.                                                               *)

TypeOK ==
    /\ clock \in Instants
    /\ active \subseteq Projects
    /\ answered \in 0 .. 3
    /\ shown \subseteq Projects
    /\ steady \subseteq active
    /\ answered = 0 => shown = {}

\* A client that has asked for upcoming, furture and success, in this order, has seen
\* every project that was active all the while, however long it waited between.
NoneMissed == answered = 3 => steady \subseteq shown

\* The pages of a list up to the total it tells show each of its projects on just one
\* page; pages without projects are only told of in furture, without a limit.
PagesCoverList ==
    \A kind \in {"upcoming", "furture", "success"}, limit \in Limits :
        LET list == CASE kind = "upcoming" -> Upcoming
                      [] kind = "furture" -> Furture(clock)
                      [] kind = "success" -> Success
            pages == [i \in 1 .. Total(kind, list, limit) |-> Page(kind, list, limit, i)]
        IN  (\A p, q \in list : SortKey(kind, p) = SortKey(kind, q) => p = q) =>
                /\ UNION {pages[i] : i \in DOMAIN pages} = list
                /\ \A i, j \in DOMAIN pages : i # j => pages[i] \cap pages[j] = {}
                /\ (kind = "furture" /\ limit = 0) \/ {} \notin {pages[i] : i \in DOMAIN pages}

\* The instants are in their order, and periods do not touch.
Ordered(t) ==
    /\ t["registration_start_at"] <= t["registration_end_at"]
    /\ t["registration_end_at"] < t["snapshot_start_at"]
    /\ t["snapshot_start_at"] <= t["investment_start_at"]
    /\ t["investment_start_at"] <= t["investment_end_at"]
    /\ t["investment_end_at"] < t["claim_start_at"]
    /\ t["claim_start_at"] <= t["claim_end_at"]

\* The parts of the program that read a timeline say the same: a project is upcoming
\* in its list and its status, is applied to while its status is registration, is
\* claimed, or has a vesting pool that can be, only when it is vesting or finished,
\* and ends for those without tickets when it gets to the list of successes.
ReadersAgree ==
    \A p \in Projects, vested \in BOOLEAN :
        LET t == timeline[p]
            status == ProgressStatus(t, clock)
            over == status \in {"vesting", "finished"}
            claimable == Claimable(t, vested, clock)
        IN  Ordered(t) =>
                /\ InUpcoming(t, clock) <=> status = "up_coming"
                /\ Accepts(t, clock) => status = "registration"
                /\ InFurture(t, clock, clock) =>
                       status \in {"registration", "snapshotting", "investing"}
                /\ claimable => over /\ InSuccess(t, clock)
                /\ \A tickets \in 0 .. 1 :
                       ParticipationStatus(t, tickets, clock) = "ended" =>
                           InSuccess(t, clock) /\ tickets = 0
                /\ over \/ \A streams \in Streams :
                       \A pool \in VestingPool(streams, claimable, clock) : ~pool.is_active

\* The amount a stream has released is the sum of the entries of its own schedule that
\* are over, the cliff's from its instant on, the last one when the stream ends.
\* Exempt are streams that pay more than 1000 tokens for each second of a period, for
\* which the amount that is added to the milliseconds makes up a period of its own.
ReleasedFollowsSchedule ==
    \A s \in AllStreams :
        ~IsCliff(s) /\ HasSchedule(s) /\ s["amount_per_period"] <= 1000 * s["period"] =>
            LET times == PeriodTimes(s)
                over == {i \in DOMAIN times : times[i] < clock \/ clock >= 1000 * s["end"]}
            IN  Released(s, clock) =
                    Cardinality(over) * s["amount_per_period"]
                        + (IF clock >= 1000 * s["cliff"] THEN s["cliff_amount"] ELSE 0)

\* As time goes on, what a stream has released never shrinks, not at its end either.
ReleasedNeverShrinks ==
    [][\A s \in AllStreams : Released(s, clock') >= Released(s, clock)]_vars

=============================================================================
