----------------------------- MODULE InvestingView -----------------------------
(***************************************************************************)
(* What a wallet is shown of one project: projectRegistrationInfo and,     *)
(* while the project is investing, userProjectInvestingInfo, which says    *)
(* whether the wallet can invest and gives it the Merkle proof it needs.   *)
(*                                                                         *)
(* Three aggregations and one lookup are started, then the currency is     *)
(* looked up if it is not SOL, and only then is anything attached to the   *)
(* promises of the first four.  A promise that is rejected with nothing    *)
(* attached ends a Node 20 process; the container is started again.        *)
(*                                                                         *)
(* The whitelist is cached in the process and nothing removes the entry.   *)
(*                                                                         *)
(* The draw of the winners, the publication of the whitelist and the       *)
(* settling of the project are done in the database by others; investing   *)
(* is done on chain and comes back as rows (module Investing), a row for   *)
(* each ticket here.                                                       *)
(***************************************************************************)
EXTENDS ProjectTimeline, FiniteSets

CONSTANTS
    Wallets,      \* wallets that may be registered
    Requests,     \* calls of projectRegistrationInfo
    MaxTickets,   \* bound: tickets a wallet can win
    TicketTotal,  \* info.ticket_total of the project
    Timeline,     \* its timeline
    MaxTime,      \* bound: the last instant a request can come in
    None          \* no registration, no whitelist, no cache entry, no answer

Times == 0 .. MaxTime
Tickets == 1 .. MaxTickets

\* Whitelists: each wallet at most once, with its number of tickets.
Lists == {list \in SUBSET (Wallets \X Tickets) :
            \A one, other \in list : one[1] = other[1] => one = other}

Answers == [is_active : BOOLEAN, is_invested : BOOLEAN]

ASSUME ConstantsAssumption ==
    /\ IsFiniteSet(Wallets) /\ None \notin Wallets
    /\ MaxTickets \in Nat \ {0}
    /\ TicketTotal \in Nat \ {0}
    /\ MaxTime \in Nat
    /\ Timeline \in [TimelineFields -> Int]
    /\ None \notin Int /\ None \notin Answers /\ \A list \in Lists : list # None

VARIABLES
    sol,        \* whether price.currency is SOL, or missing
    won,        \* total_ticket of each wallet's registration
    whitelist,  \* the whitelist of projectinvestinginfos
    settled,    \* p_user_status: PROJECT_INVESTMENT_SETTING_SUCCESSFUL
    rows,       \* verified rows of investinghistories: wallet, ticket, copy
    cache,      \* global['project-hd-<id>'].whitelist
    step,       \* where each request stands
    wallet,     \* its wallet
    saw,        \* what it has read so far; forgotten with the request
    answer,     \* the investment_info it was answered with
    revised,    \* history: the whitelist changed after the settling
    open        \* history: the wallet could invest at some instant of the request

database == <<won, whitelist, settled, rows, revised>>
vars == <<sol, database, cache, step, wallet, saw, answer, open>>

\* Ends of a request whose rejected promise ends the process: by an error of the
\* database, by what was found of the tickets, or by a whitelist not there.
Deaths == {"byError", "byTickets", "byInfo"}

Steps == {"idle", "project", "registration", "assets", "token", "all", "orphaned",
          "answered", "rejected", "lost"} \cup Deaths

TicketParts == {"mine", "winners", "invested"}
Parts == TicketParts \cup {"info"}

Running(r) == step[r] \in {"project", "registration", "assets", "token", "all"}

\* The wallet has used fewer tickets, by the rows of its investments, than it won.
Left(w) == won[w] # None /\ won[w] > Cardinality({row \in rows : row[1] = w})

\* All tickets of the project are used, by the same count.
SoldOut == Cardinality(rows) = TicketTotal

\* The wallet could invest now.
Open(w) == Left(w) /\ ~SoldOut

\* Whether each running request has lived through such an instant, after a step.
Witness ==
    open' = [r \in Requests |-> open[r] \/ (Running(r) /\ Open(wallet[r])')]

Blank == [settled |-> FALSE, parts |-> {}, won |-> None, left |-> FALSE,
          winner |-> FALSE, soldOut |-> FALSE, list |-> None]

\* Requests that are over keep nothing.
Forget(over) ==
    /\ saw' = [r \in Requests |-> IF r \in over THEN Blank ELSE saw[r]]
    /\ open' = [r \in Requests |-> r \notin over /\ open[r]]

Init ==
    /\ sol \in BOOLEAN
    /\ won \in [Wallets -> {None, 0}]
    /\ whitelist = None
    /\ settled = FALSE
    /\ rows = {}
    /\ cache = None
    /\ step = [r \in Requests |-> "idle"]
    /\ wallet = [r \in Requests |-> None]
    /\ saw = [r \in Requests |-> Blank]
    /\ answer = [r \in Requests |-> None]
    /\ revised = FALSE
    /\ open = [r \in Requests |-> FALSE]

-----------------------------------------------------------------------------
(* The world outside the handler.                                            *)

requests == <<cache, step, wallet, saw, answer>>

\* The winners are drawn among the registered, and the whitelist that says so is
\* published.
Publish(draw) ==
    /\ ~settled
    /\ \A w \in Wallets : draw[w] = None <=> won[w] = None
    /\ won' = draw
    /\ whitelist' = {ticket \in Wallets \X Tickets : draw[ticket[1]] = ticket[2]}
    /\ UNCHANGED <<sol, settled, rows, revised, requests>>
    /\ Witness

Settle ==
    /\ whitelist # None
    /\ ~settled
    /\ settled' = TRUE
    /\ UNCHANGED <<sol, won, whitelist, rows, revised, requests, open>>

\* The whitelist is changed after the settling, once.
Revise(list) ==
    /\ settled /\ ~revised
    /\ list # whitelist
    /\ whitelist' = list
    /\ revised' = TRUE
    /\ UNCHANGED <<sol, won, settled, rows, requests, open>>

\* A wallet invests a ticket it has won, and deliveries that overlap may leave a
\* second row for it.
Invest(w, n, copies) ==
    /\ settled
    /\ won[w] # None /\ n <= won[w]
    /\ <<w, n, 1>> \notin rows /\ \A m \in 1 .. n - 1 : <<w, m, 1>> \in rows
    /\ Cardinality({row \in rows : row[3] = 1}) < TicketTotal
    /\ rows' = rows \cup {<<w, n, copy>> : copy \in 1 .. copies}
    /\ UNCHANGED <<sol, won, whitelist, settled, revised, requests>>
    /\ Witness

-----------------------------------------------------------------------------
(* projectRegistrationInfo.                                                  *)

Receive(r, w) ==
    /\ step[r] = "idle"
    /\ step' = [step EXCEPT ![r] = "project"]
    /\ wallet' = [wallet EXCEPT ![r] = w]
    /\ open' = [open EXCEPT ![r] = Open(w)]
    /\ UNCHANGED <<sol, database, cache, saw, answer>>

\* Variant with a bug: SOL is looked up as a token too.
FirstWaitForToken(status) ==
    CASE status = "registration" -> "registration"
      [] status = "snapshotting" -> "assets"
      [] status = "investing" -> "token"
      [] OTHER -> "answered"

\* Where the branch of a status first waits.
FirstWait(status) ==
    CASE status = "registration" -> "registration"
      [] status = "snapshotting" -> "assets"
      [] status = "investing" /\ sol -> "all"
      [] status = "investing" /\ ~sol -> "token"
      [] OTHER -> "answered"

\* findProjectBySlug is back; the four reads of an investing project are begun.
ReadProject(r, now) ==
    /\ step[r] = "project"
    /\ step' = [step EXCEPT ![r] = FirstWait(ProgressStatus(Timeline, now))]
    /\ saw' = [saw EXCEPT ![r].settled = settled /\ step'[r] \in {"token", "all"}]
    /\ UNCHANGED <<sol, database, cache, wallet, answer, open>>

\* 'Registration info not found'; otherwise the user's assets are shown, whether
\* or not their collections can be read.
ReadRegistration(r) ==
    /\ step[r] = "registration"
    /\ step' = [step EXCEPT ![r] = IF won[wallet[r]] = None THEN "rejected" ELSE "answered"]
    /\ UNCHANGED <<sol, database, cache, wallet, saw, answer, open>>

\* The sum of the users' assets, or zeros if it cannot be read.
ReadAssets(r) ==
    /\ step[r] = "assets"
    /\ step' = [step EXCEPT ![r] = "answered"]
    /\ UNCHANGED <<sol, database, cache, wallet, saw, answer, open>>

\* Any other await of the request comes back with an error, or the project is not
\* there.
ReadFails(r) ==
    /\ step[r] \in {"project", "registration"}
    /\ step' = [step EXCEPT ![r] = "rejected"]
    /\ UNCHANGED <<sol, database, cache, wallet, saw, answer, open>>

-----------------------------------------------------------------------------
(* userProjectInvestingInfo.                                                 *)

\* What a request has seen after one more read of the database.
Seen(r, part) ==
    LET seen == [saw[r] EXCEPT !.parts = @ \cup {part}]
    IN  CASE part = "mine" ->
                [seen EXCEPT !.won = won[wallet[r]], !.left = Left(wallet[r])]
          [] part = "winners" ->
                [seen EXCEPT !.winner = \E w \in Wallets : won[w] \notin {None, 0}]
          [] part = "invested" -> [seen EXCEPT !.soldOut = SoldOut]
          [] part = "info" -> [seen EXCEPT !.list = whitelist]

\* aggregateUsersProjectTicket rejects once it has its three results, when the
\* wallet is not registered or nobody has won (the group of no rows has no
\* winners to read); findByProjectId when there is no whitelist.
Rejects(seen) ==
    \/ TicketParts \subseteq seen.parts /\ (seen.won = None \/ ~seen.winner)
    \/ "info" \in seen.parts /\ seen.list = None

\* The process ends with an unhandled rejection: every request under way is lost
\* and the cache with it.
Dies(r, death) ==
    /\ step' = [q \in Requests |->
                  CASE q = r -> death
                    [] q # r /\ Running(q) -> "lost"
                    [] q # r /\ step[q] = "orphaned" -> "rejected"
                    [] OTHER -> step[q]]
    /\ cache' = None
    /\ Forget({q \in Requests : Running(q) \/ step[q] = "orphaned"})

\* A promise of the request is rejected: Promise.all passes it on to the caller
\* if it is there already.
Reject(r, death) ==
    IF step[r] = "all"
      THEN /\ step' = [step EXCEPT ![r] = "rejected"]
           /\ Forget({r})
           /\ UNCHANGED cache
      ELSE Dies(r, death)

Waits(r, part) == step[r] \in {"token", "all", "orphaned"} /\ part \notin saw[r].parts

PartBack(r, part) ==
    /\ Waits(r, part)
    /\ IF Rejects(Seen(r, part))
         THEN Reject(r, IF part = "info" THEN "byInfo" ELSE "byTickets")
         ELSE /\ saw' = [saw EXCEPT ![r] = Seen(r, part)]
              /\ UNCHANGED <<step, cache, open>>
    /\ UNCHANGED <<sol, database, wallet, answer>>

PartFails(r, part) ==
    /\ Waits(r, part)
    /\ Reject(r, "byError")
    /\ UNCHANGED <<sol, database, wallet, answer>>

\* findTokens is back with the currency, and Promise.all is attached.
TokenFound(r) ==
    /\ step[r] = "token"
    /\ step' = [step EXCEPT ![r] = "all"]
    /\ UNCHANGED <<sol, database, cache, wallet, saw, answer, open>>

\* 'Currency not found', or an error: the request is answered, but its promises
\* are still there and nobody's.
TokenFails(r) ==
    /\ step[r] = "token"
    /\ step' = [step EXCEPT ![r] = "orphaned"]
    /\ UNCHANGED <<sol, database, cache, wallet, saw, answer, open>>

\* Variant with a bug: p_user_status is not looked at.
TicketsLeftUnsettled(seen) == seen.left

\* Variant with a bug: p_user_status is looked at when the other reads are back.
TicketsLeftNow(seen) == settled /\ seen.left

\* The project has been settled, and the wallet has not used all it has won.
TicketsLeft(seen) == seen.settled /\ seen.left

\* The whitelist that is used, and left in the cache if the wallet has tickets.
ListFor(seen) == IF cache \in {None, {}} THEN seen.list ELSE cache

\* Variant with a bug: a project that has sold all its tickets is not closed.
AnswerForSoldOut(w, seen) ==
    [is_active |-> TicketsLeft(seen) /\ <<w, seen.won>> \in ListFor(seen),
     is_invested |-> seen.settled /\ ~TicketsLeft(seen)]

\* investment_info: the wallet can invest if the whitelist says that it has won as
\* many tickets, and is given its proof then.  A project whose tickets are all sold
\* is not active, whatever was said before.
AnswerFor(w, seen) ==
    [is_active |-> /\ TicketsLeft(seen)
                   /\ <<w, seen.won>> \in ListFor(seen)
                   /\ ~seen.soldOut,
     is_invested |-> seen.settled /\ ~TicketsLeft(seen)]

Answer(r) ==
    /\ step[r] = "all"
    /\ saw[r].parts = Parts
    /\ answer' = [answer EXCEPT ![r] = AnswerFor(wallet[r], saw[r])]
    /\ cache' = IF TicketsLeft(saw[r]) THEN ListFor(saw[r]) ELSE cache
    /\ step' = [step EXCEPT ![r] = "answered"]
    /\ saw' = [saw EXCEPT ![r] = Blank]
    /\ UNCHANGED <<sol, database, wallet, open>>

\* Variant with a bug: requests that have been answered are lost too.
RestartForAll ==
    /\ step' = [r \in Requests |-> IF step[r] = "idle" THEN "idle" ELSE "lost"]
    /\ cache' = None
    /\ Forget(Requests)
    /\ UNCHANGED <<sol, database, wallet, answer>>

\* The process ends for another reason, and is started again.
Restart ==
    /\ step' = [r \in Requests |->
                  CASE Running(r) -> "lost"
                    [] step[r] = "orphaned" -> "rejected"
                    [] OTHER -> step[r]]
    /\ cache' = None
    /\ Forget({r \in Requests : Running(r) \/ step[r] = "orphaned"})
    /\ UNCHANGED <<sol, database, wallet, answer>>

-----------------------------------------------------------------------------

World ==
    \/ \E draw \in [Wallets -> {None} \cup 0 .. MaxTickets] : Publish(draw)
    \/ Settle
    \/ \E list \in Lists : Revise(list)
    \/ \E w \in Wallets, n \in Tickets, copies \in 1 .. 2 : Invest(w, n, copies)

Handle(r) ==
    \/ \E w \in Wallets : Receive(r, w)
    \/ \E now \in Times : ReadProject(r, now)
    \/ ReadRegistration(r) \/ ReadAssets(r) \/ ReadFails(r)
    \/ \E part \in Parts : PartBack(r, part) \/ PartFails(r, part)
    \/ TokenFound(r) \/ TokenFails(r)
    \/ Answer(r)

Next ==
    \/ World
    \/ \E r \in Requests : Handle(r)
    \/ Restart

Spec == Init /\ [][Next]_vars

-----------------------------------------------------------------------------
(* Properties.                                                               *)

Sights == [settled : BOOLEAN, parts : SUBSET Parts, won : {None} \cup 0 .. MaxTickets,
           left : BOOLEAN, winner : BOOLEAN, soldOut : BOOLEAN, list : {None} \cup Lists]

\* The types; a request that is still waiting has no answer.
TypeOK ==
    /\ sol \in BOOLEAN
    /\ won \in [Wallets -> {None} \cup 0 .. MaxTickets]
    /\ whitelist \in {None} \cup Lists
    /\ settled \in BOOLEAN
    /\ rows \subseteq Wallets \X Tickets \X (1 .. 2)
    /\ cache \in {None} \cup Lists
    /\ step \in [Requests -> Steps]
    /\ wallet \in [Requests -> Wallets \cup {None}]
    /\ saw \in [Requests -> Sights]
    /\ answer \in [Requests -> Answers \cup {None}]
    /\ revised \in BOOLEAN
    /\ open \in [Requests -> BOOLEAN]
    /\ \A r \in Requests : /\ wallet[r] = None <=> step[r] = "idle"
                           /\ answer[r] # None => step[r] = "answered"

\* The cache is never emptied and never compared with anything, and yet, if the
\* whitelist is not changed after the settling, an entry is the final one: what
\* a request read before the settling is not kept.
CachedListIsFinal == cache \notin {None, {}} => revised \/ cache = whitelist

\* A wallet that is told it can invest has a proof for the published whitelist,
\* with as many tickets as it has won, unless the list changed after the settling.
OffersCanBeProved ==
    \A r \in Requests :
        answer[r] # None /\ answer[r].is_active =>
            revised \/ <<wallet[r], won[wallet[r]]>> \in whitelist

\* A wallet that is told it can invest had a ticket left, and the project had one,
\* at one and the same instant of its request, although the two are read apart.
\* Exempt are projects with a doubled row: their count can step over the total,
\* and is then not equal to it any more.
OfferedWhileOpen ==
    \A r \in Requests :
        answer[r] # None /\ answer[r].is_active =>
            open[r] \/ \E row \in rows : row[3] = 2

\* In a project sold for SOL no read that fails, and no wallet or project that is
\* not as expected, ends the process.
SolProjectsNeverKill == \A r \in Requests : step[r] \in Deaths => ~sol

\* NotFoundException('User project not found'): a wallet that is not registered
\* is answered so, and does not end the process.
NotFoundIsAnswered ==
    \A r \in Requests : step[r] = "byTickets" => won[wallet[r]] # None

=============================================================================
