-------------------------- MODULE RegistrationLedger --------------------------
(***************************************************************************)
(* What applying to a project promises, without reads, transactions or     *)
(* messages: a set of registrations that only grows, to which an           *)
(* application adds its pair of user and project once, at a single instant *)
(* between being asked and being answered.  An application asked when its  *)
(* pair is registered already adds nothing; two that overlap may both      *)
(* enter, because the check is not part of the instant.                    *)
(***************************************************************************)
CONSTANTS
    Requests,   \* applications
    Pairs       \* pairs of user and project

VARIABLES
    status,     \* how far each application has got
    wants,      \* the pair it asks to register
    registered  \* the registered pairs

vars == <<status, wants, registered>>

Statuses == {"absent", "pending", "late", "entered", "accepted", "joined", "failed"}

Init ==
    /\ status = [r \in Requests |-> "absent"]
    /\ wants \in [Requests -> Pairs]
    /\ registered = {}

\* The application is asked: it is late when its pair is registered already.
Ask(r) ==
    /\ status[r] = "absent"
    /\ status' = [status EXCEPT ![r] =
                    IF wants[r] \in registered THEN "late" ELSE "pending"]
    /\ UNCHANGED <<wants, registered>>

\* Its one effect.
Enter(r) ==
    /\ status[r] = "pending"
    /\ status' = [status EXCEPT ![r] = "entered"]
    /\ registered' = registered \cup {wants[r]}
    /\ UNCHANGED wants

Accept(r) ==
    /\ status[r] = "entered"
    /\ status' = [status EXCEPT ![r] = "accepted"]
    /\ UNCHANGED <<wants, registered>>

\* 'You have joined the project' is said only of a registered pair.
AnswerJoined(r) ==
    /\ status[r] \in {"pending", "late"}
    /\ wants[r] \in registered
    /\ status' = [status EXCEPT ![r] = "joined"]
    /\ UNCHANGED <<wants, registered>>

\* Applications end without a registration, or without news of it.
Fail(S) ==
    /\ \A r \in S : status[r] \in {"pending", "late", "entered"}
    /\ status' = [r \in Requests |-> IF r \in S THEN "failed" ELSE status[r]]
    /\ UNCHANGED <<wants, registered>>

Next ==
    \/ \E r \in Requests : Ask(r) \/ Enter(r) \/ Accept(r) \/ AnswerJoined(r)
    \/ \E S \in SUBSET Requests : Fail(S)

Spec == Init /\ [][Next]_vars

=============================================================================
