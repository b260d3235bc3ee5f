--------------------------- MODULE ParticipationViews ---------------------------
(***************************************************************************)
(* What wallets are shown of their applications while others apply: the    *)
(* page of a project (ProjectService.detail) and the wallet's own projects *)
(* (myParticipation).  Both read the rows of userprojects twice, side by   *)
(* side: one read tells whether, or where, the wallet applied, the other   *)
(* is summed up.                                                           *)
(*                                                                         *)
(* Applications do what RegistrationLedger allows; here each also leaves a *)
(* row, since it is rows that are counted.                                 *)
(***************************************************************************)
EXTENDS Integers, FiniteSets

CONSTANTS
    Applications,  \* calls of create
    Applicants,    \* wallets
    Offered,       \* projects
    Visits,        \* calls of detail and of myParticipation
    Guest          \* a visitor without an access token

Pairs == Applicants \X Offered

ASSUME ViewsAssumption ==
    IsFiniteSet(Applications) /\ Guest \notin Applicants /\ "all" \notin Offered

VARIABLES
    status,      \* of RegistrationLedger, for each application
    wants,
    registered,
    userprojects,  \* the applications of which there is a row
    overlaps,    \* history: pairs applied for again while an application was pending
    visitor,     \* whose visit it is
    project,     \* of which project, or "all" of them for myParticipation
    due,         \* the reads it waits for
    found,       \* the rows each of its reads found
    lost,        \* the sums it could not make
    reply,       \* idle, none, shown, refused
    before,      \* history: the rows there were when the visit began
    told         \* history: the pairs of which an application had been answered by then

ledger == <<status, wants, registered>>
applying == <<ledger, userprojects, overlaps>>
visits == <<visitor, project, due, found, lost, reply, before, told>>
viewsvars == <<applying, visits>>

Ledger == INSTANCE RegistrationLedger WITH Requests <- Applications

Reads == {"own", "summed"}

\* The applications of which there is a row, for a wallet or a project alone.
Of(w, among) == {a \in among : wants[a][1] = w}
For(p, among) == {a \in among : p = "all" \/ wants[a][2] = p}

\* What each read of a visit is about: a project's page counts the rows of everybody,
\* the wallet's own projects are shown with the assets of its rows.
Sought(v, part, among) ==
    IF part = "own" \/ project[v] = "all" THEN For(project[v], Of(visitor[v], among))
                                          ELSE For(project[v], among)

ViewsInit ==
    /\ Ledger!Init
    /\ userprojects = {}
    /\ overlaps = {}
    /\ visitor = [v \in Visits |-> Guest]
    /\ project = [v \in Visits |-> "all"]
    /\ due = [v \in Visits |-> {}]
    /\ found = [v \in Visits |-> [part \in Reads |-> {}]]
    /\ lost = [v \in Visits |-> FALSE]
    /\ reply = [v \in Visits |-> "idle"]
    /\ before = [v \in Visits |-> {}]
    /\ told = [v \in Visits |-> {}]

-----------------------------------------------------------------------------
(* Applications.                                                             *)

Apply(a) ==
    /\ Ledger!Ask(a)
    /\ overlaps' = IF \E b \in Applications : status[b] = "pending" /\ wants[b] = wants[a]
                     THEN overlaps \cup {wants[a]} ELSE overlaps
    /\ UNCHANGED <<userprojects, visits>>

\* Variant with a bug: an application that found a registration goes on.
InsertAnyway(a) ==
    /\ status[a] \in {"pending", "late"}
    /\ status' = [status EXCEPT ![a] = "entered"]
    /\ registered' = registered \cup {wants[a]}
    /\ userprojects' = userprojects \cup {a}
    /\ UNCHANGED <<wants, overlaps, visits>>

InsertRow(a) ==
    /\ Ledger!Enter(a)
    /\ userprojects' = userprojects \cup {a}
    /\ UNCHANGED <<overlaps, visits>>

Conclude(a) ==
    /\ Ledger!Accept(a) \/ Ledger!AnswerJoined(a) \/ Ledger!Fail({a})
    /\ UNCHANGED <<userprojects, overlaps, visits>>

-----------------------------------------------------------------------------
(* Visits.                                                                   *)

\* Applications whose wallet has been told that it has joined.
Answered == {a \in Applications : status[a] \in {"accepted", "joined"}}

\* A visit begins.  detail goes on to its reads when the project, and the currency it is
\* sold for, have been read; without a wallet it makes only the sum.
Visit(v, w, p) ==
    /\ reply[v] = "idle"
    /\ reply' = [reply EXCEPT ![v] = "none"]
    /\ visitor' = [visitor EXCEPT ![v] = w]
    /\ project' = [project EXCEPT ![v] = p]
    /\ due' = [due EXCEPT ![v] = IF w = Guest /\ p # "all" THEN {"summed"} ELSE Reads]
    /\ before' = [before EXCEPT ![v] = userprojects]
    /\ told' = [told EXCEPT ![v] = {wants[a] : a \in Answered}]
    /\ UNCHANGED <<applying, found, lost>>

\* Variant with a bug: the wallet is left out of the query.
ReadEverybody(v, part) ==
    /\ part \in due[v]
    /\ due' = [due EXCEPT ![v] = @ \ {part}]
    /\ found' = [found EXCEPT ![v][part] = For(project[v], userprojects)]
    /\ UNCHANGED <<applying, visitor, project, lost, reply, before, told>>

Read(v, part) ==
    /\ part \in due[v]
    /\ due' = [due EXCEPT ![v] = @ \ {part}]
    /\ found' = [found EXCEPT ![v][part] = Sought(v, part, userprojects)]
    /\ UNCHANGED <<applying, visitor, project, lost, reply, before, told>>

\* aggregateUsersProjectAssets swallows its error and tells nothing.
SumFails(v) ==
    /\ "summed" \in due[v] /\ project[v] # "all"
    /\ due' = [due EXCEPT ![v] = @ \ {"summed"}]
    /\ lost' = [lost EXCEPT ![v] = TRUE]
    /\ UNCHANGED <<applying, visitor, project, found, reply, before, told>>

\* projectUserAssets cannot read the collections of the wallet's NFTs, and swallows that
\* too; but what it logs is taken from the first row.
AssetsFail(v) ==
    /\ project[v] = "all" /\ reply[v] = "none" /\ due[v] = {} /\ ~lost[v]
    /\ found[v]["summed"] # {}
    /\ lost' = [lost EXCEPT ![v] = TRUE]
    /\ UNCHANGED <<applying, visitor, project, due, found, reply, before, told>>

Show(v) ==
    /\ reply[v] = "none" /\ due[v] = {}
    /\ reply' = [reply EXCEPT ![v] = "shown"]
    /\ UNCHANGED <<applying, visitor, project, due, found, lost, before, told>>

\* Another read fails, or the collections do for a wallet without a row, or the process
\* ends.
Refuse(v) ==
    /\ reply[v] = "none"
    /\ reply' = [reply EXCEPT ![v] = "refused"]
    /\ due' = [due EXCEPT ![v] = {}]
    /\ UNCHANGED <<applying, visitor, project, found, lost, before, told>>

ViewsNext ==
    \/ \E a \in Applications : Apply(a) \/ InsertRow(a) \/ Conclude(a)
    \/ \E v \in Visits :
          \/ \E w \in Applicants \cup {Guest}, p \in Offered \cup {"all"} : Visit(v, w, p)
          \/ \E part \in Reads : Read(v, part)
          \/ SumFails(v) \/ AssetsFail(v) \/ Show(v) \/ Refuse(v)

ViewsSpec == ViewsInit /\ [][ViewsNext]_viewsvars

-----------------------------------------------------------------------------
(* Properties.                                                               *)

\* is_applied, my_registered, and participants of users_assets.
IsApplied(v) == found[v]["own"] # {}
MyRegistered(v) == {wants[a][2] : a \in found[v]["own"]}
Participants(v) == Cardinality(found[v]["summed"])

ViewsTypeOK ==
    /\ status \in [Applications -> Ledger!Statuses]
    /\ wants \in [Applications -> Pairs]
    /\ registered = {wants[a] : a \in userprojects}
    /\ userprojects \subseteq Applications
    /\ overlaps \subseteq Pairs
    /\ visitor \in [Visits -> Applicants \cup {Guest}]
    /\ project \in [Visits -> Offered \cup {"all"}]
    /\ due \in [Visits -> SUBSET Reads]
    /\ found \in [Visits -> [Reads -> SUBSET Applications]]
    /\ lost \in [Visits -> BOOLEAN]
    /\ reply \in [Visits -> {"idle", "none", "shown", "refused"}]
    /\ before \in [Visits -> SUBSET userprojects]
    /\ told \in [Visits -> SUBSET registered]

\* A wallet that was told, before it looked, that it has joined a project, sees that it
\* has, on the project's page and among its own; it sees nothing it has not joined.  The
\* number of participants is one the project had while the page was put together, and
\* counts the wallet unless it has joined since it asked for the page.
ApplicationsAreShown ==
    \A v \in Visits :
        reply[v] = "shown" =>
            LET w == visitor[v]
                p == project[v]
            IN  /\ \A q \in Offered :
                      (p \in {q, "all"} /\ w # Guest) =>
                          /\ <<w, q>> \in told[v] => q \in MyRegistered(v)
                          /\ q \in MyRegistered(v) => <<w, q>> \in registered
                /\ p # "all" /\ ~lost[v] =>
                      /\ Participants(v) >= Cardinality(For(p, before[v]))
                      /\ Participants(v) <= Cardinality(For(p, userprojects))
                      /\ <<w, p>> \in told[v] => IsApplied(v) /\ Participants(v) > 0

\* A participant, or the assets of a wallet, count twice only when two applications of
\* the wallet for the project were under way together.
CountedOnce ==
    \A v \in Visits : \A a, b \in found[v]["summed"] :
        a # b /\ wants[a] = wants[b] => wants[a] \in overlaps

=============================================================================
