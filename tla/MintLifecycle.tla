---------------------------- MODULE MintLifecycle ----------------------------
(***************************************************************************)
(* What the minting service promises of a reservation, whatever order its  *)
(* news arrives in: it is reserved before anything is told of it, it may   *)
(* be claimed by its requester in between, it is recorded only when a      *)
(* transaction tells of its mint (the service does not promise that the    *)
(* transaction succeeded), and it never goes back.                         *)
(***************************************************************************)
CONSTANTS
    Ids,         \* reservations
    Signatures   \* transactions

VARIABLES
    stage,   \* how far each reservation has got
    told     \* the transactions whose events tell of a mint, with the reservation

vars == <<stage, told>>

Stages == {"absent", "reserved", "claimed", "recorded"}

Init ==
    /\ stage = [id \in Ids |-> "absent"]
    /\ told = {}

Reserve(id) ==
    /\ stage[id] = "absent"
    /\ stage' = [stage EXCEPT ![id] = "reserved"]
    /\ UNCHANGED told

\* A transaction tells of the mint of a reservation that is there, whatever is known
\* of it so far.
Tell(s, id) ==
    /\ stage[id] # "absent"
    /\ \A other \in Ids : <<s, other>> \notin told
    /\ told' = told \cup {<<s, id>>}
    /\ UNCHANGED stage

Claim(id) ==
    /\ stage[id] = "reserved"
    /\ stage' = [stage EXCEPT ![id] = "claimed"]
    /\ UNCHANGED told

Record(id) ==
    /\ stage[id] \in {"reserved", "claimed"}
    /\ \E s \in Signatures : <<s, id>> \in told
    /\ stage' = [stage EXCEPT ![id] = "recorded"]
    /\ UNCHANGED told

Next ==
    \E id \in Ids :
        \/ Reserve(id)
        \/ Claim(id)
        \/ Record(id)
        \/ \E s \in Signatures : Tell(s, id)

Spec == Init /\ [][Next]_vars

=============================================================================
