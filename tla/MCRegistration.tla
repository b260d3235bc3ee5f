---------------------------- MODULE MCRegistration ----------------------------
(***************************************************************************)
(* Registration on small instances: instants from 0, an early project that *)
(* takes registrations at 0 only and a late one that takes them at 1 only, *)
(* so that an application can come too early, too late, or in time.        *)
(***************************************************************************)
EXTENDS RegistrationRefinement, TLC

CONSTANTS early, late

MCOpenAt == [p \in Projects |-> IF p = early THEN 0 ELSE 1]
MCCloseAt == MCOpenAt

Interchangeable == Permutations(Requests) \cup Permutations(Emails)

=============================================================================
