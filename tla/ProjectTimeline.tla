---------------------------- MODULE ProjectTimeline ----------------------------
(***************************************************************************)
(* What the instants of a project's timeline mean to the parts that read   *)
(* it: the progress shown with the project, the three lists of projects,   *)
(* and the status of a user's participation.  Every reader compares with   *)
(* other fields, and with other ends included.                             *)
(***************************************************************************)
EXTENDS Integers, FiniteSetsExt

\* The fields of Timeline that are read, in the order operators fill them in;
\* nothing in the code makes them grow.
TimelineFields ==
    {"registration_start_at", "registration_end_at", "snapshot_start_at",
     "snapshot_end_at", "investment_start_at", "investment_end_at",
     "claim_start_at", "claim_end_at"}

\* The statuses in the order getProjectProgressStatus looks at them, each with the
\* field from which it holds.
StatusName ==
    <<"up_coming", "registration", "snapshotting", "investing", "vesting", "finished">>

StatusFrom ==
    <<"registration_start_at", "snapshot_start_at", "investment_start_at",
      "claim_start_at", "claim_end_at">>

\* The conditions that hold now; each overwrites what the ones before it said.
Reached(timeline, now) == {i \in 1 .. 5 : timeline[StatusFrom[i]] <= now}

\* How far a project has got: the place of its status in StatusName.
Progress(timeline, now) ==
    IF Reached(timeline, now) = {} THEN 1 ELSE Max(Reached(timeline, now)) + 1

ProgressStatus(timeline, now) == StatusName[Progress(timeline, now)]

\* The ends of the registration period belong to it.
Accepts(timeline, now) ==
    /\ timeline["registration_start_at"] <= now
    /\ now <= timeline["registration_end_at"]

\* The three lists.  listFurture reads the clock twice.
InUpcoming(timeline, now) == timeline["registration_start_at"] > now

\* Variant with a bug: the last instant of the investment does not belong to it.
InFurtureBeforeEnd(timeline, now, later) ==
    /\ timeline["registration_start_at"] <= now
    /\ timeline["investment_end_at"] > later

InFurture(timeline, now, later) ==
    /\ timeline["registration_start_at"] <= now
    /\ timeline["investment_end_at"] >= later

InSuccess(timeline, now) == timeline["investment_end_at"] < now

\* The status of a participation with a number of tickets.
ParticipationStatus(timeline, tickets, now) ==
    CASE tickets > 0 -> "won"
      [] tickets = 0 /\ now > timeline["investment_end_at"] -> "ended"
      [] OTHER -> "ongoing"

\* Variant with a bug: the investment's end opens the claim.
ClaimableAfterInvestment(timeline, vested, now) ==
    vested /\ timeline["investment_end_at"] <= now

\* claim_available, and the project's part of a vesting pool's is_active: vested says
\* that p_user_status is PROJECT_VESTING_SETTING_SUCCESSFUL.
Claimable(timeline, vested, now) == vested /\ timeline["claim_start_at"] <= now

=============================================================================
