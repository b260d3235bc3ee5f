------------------------ MODULE RegistrationRefinement ------------------------
(***************************************************************************)
(* The handler of Registration implements the promise of                   *)
(* RegistrationLedger: its commit is the ledger's instant, its refusals,   *)
(* errors and crashes are the ledger's failures, and everything else it    *)
(* does leaves the ledger as it is.  A request without a wallet, answered   *)
(* CREATED with create left out, never comes to the ledger.                *)
(***************************************************************************)
EXTENDS Registration

HasRow(r) == \E id \in registrations : id[1] = r

StatusOf(r) ==
    CASE pc[r] \in {"idle", "unnamed"} -> "absent"
      [] pc[r] = "accepted" -> "accepted"
      [] pc[r] = "joined" -> "joined"
      [] pc[r] \in {"notFound", "closed", "failed", "lost"} -> "failed"
      [] pc[r] \in {"reading"} \cup InTransaction ->
           IF HasRow(r) THEN "entered"
           ELSE IF before[r].registered THEN "late" ELSE "pending"

ledgerStatus == [r \in Requests |-> StatusOf(r)]

ledgerWants == [r \in Requests |-> Pair(input[r])]

ledgerRegistered == {Pair(input[id[1]]) : id \in registrations}

Ledger == INSTANCE RegistrationLedger
            WITH Pairs <- Users \X Projects,
                 status <- ledgerStatus,
                 wants <- ledgerWants,
                 registered <- ledgerRegistered

\* Seen from outside, apply behaves as the ledger: each application has one
\* effect, at one instant between call and answer, and none when it came late.
ImplementsLedger == Ledger!Spec

=============================================================================
