----------------------------- MODULE MCProjectViews -----------------------------
(***************************************************************************)
(* ProjectViews on four projects that open one after the other and overlap *)
(* in every way, one of them with periods that touch; beside it            *)
(* ParticipationViews, on projects of its own.  The two share no state, so *)
(* each is looked at while the other rests.                                *)
(***************************************************************************)
EXTENDS ProjectViews, ParticipationViews, TLC

CONSTANTS a1, a2, a3, u1, u2, q1, q2, v1

MCProjects == 1 .. 4

\* Project p opens a second after project p - 1; each lasts seven seconds, but the
\* last, which does everything at once.
MCTimeline == [p \in MCProjects |-> [f \in TimelineFields |->
    1000 * p + (IF p = 4 THEN 0 ELSE
        CASE f = "registration_start_at" -> 0
          [] f = "registration_end_at" -> 1000
          [] f = "snapshot_start_at" -> 1001
          [] f = "snapshot_end_at" -> 2000
          [] f = "investment_start_at" -> 2000
          [] f = "investment_end_at" -> 3000
          [] f = "claim_start_at" -> 3001
          [] f = "claim_end_at" -> 4000)]]

\* A stream from the second 1 on, as its sender makes it: the end follows from the
\* amounts.
Stream(period, amount, total, cliffAmount, withdrawn) ==
    [f \in StreamFields |->
        CASE f \in {"start", "cliff"} -> 1
          [] f = "end" -> 1 + period * CeilDiv(total - cliffAmount, amount)
          [] f = "period" -> period
          [] f = "amount_per_period" -> amount
          [] f = "total_amount" -> total
          [] f = "cliff_amount" -> cliffAmount
          [] f = "withdrawn_amount" -> withdrawn]

MCStreams ==
    {<<Stream(1, 5, 6, 1, withdrawn), linear>> :
        withdrawn \in {0, 6},
        linear \in {Stream(2, 1, 4, 0, 1), Stream(3, 2, 5, 1, 0), Stream(3, 2, 4, 1, 0),
                     Stream(2, 2000, 4000, 0, 0), Stream(2, 4000, 12000, 0, 0)}}

MCInstants == {0, 1000, 1001, 2001, 3000, 4000, 4001, 5001, 7000, 8000, 13001}

PartsInit == Init /\ ViewsInit

\* Each part before its first step; the lists with nothing to show.
ListsRest == clock = 13001 /\ active = {} /\ answered = 0
ParticipationsRest ==
    /\ \A a, b \in Applications : status[a] = "absent" /\ wants[a] = wants[b]
    /\ \A v \in Visits : reply[v] = "idle"

PartsNext ==
    \/ Next /\ ParticipationsRest /\ UNCHANGED viewsvars
    \/ ViewsNext /\ ListsRest /\ UNCHANGED vars

PartsSpec == PartsInit /\ [][PartsNext]_<<vars, viewsvars>>

TypesOK == TypeOK /\ ViewsTypeOK

ViewsSymmetry ==
    Permutations(Applications) \cup Permutations(Applicants) \cup Permutations(Offered)

=============================================================================
