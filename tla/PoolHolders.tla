------------------------------ MODULE PoolHolders ------------------------------
(***************************************************************************)
(* The cache of a pool's holders in NftService.mintingPool: an entry of    *)
(* the process's global object, used while its last_update_time is later   *)
(* than the modify_holder_time that listPool read at the beginning of the  *)
(* request, and filled again otherwise.  The holders are edited directly   *)
(* in the database, which sets modify_holder_time.                         *)
(*                                                                         *)
(* A fill stamps its entry when the answer of the database is back, so an  *)
(* edit that comes between that read and the stamp is older than the       *)
(* entry: the old list then looks current until the next edit.  Such an    *)
(* entry is called torn here; the properties say that nothing else can     *)
(* make the cache wrong.                                                   *)
(***************************************************************************)
EXTENDS Integers

CONSTANTS
    Requests,   \* calls of mintingPool for one pool
    Wallets,    \* wallets that can be holders
    None,       \* no cache entry
    MaxTime     \* bound: the last instant of the clock

Lists == SUBSET Wallets
Times == 1 .. MaxTime
Entries == [last_update_time : Times, holders : Lists, torn : BOOLEAN]

ASSUME ConstantsAssumption == MaxTime \in Nat \ {0} /\ None \notin Entries

VARIABLES
    clock,      \* milliseconds
    holders,    \* the pool's holders in the database
    modified,   \* its modify_holder_time
    cache,      \* global['pool-hd-<id>']
    step,       \* where each request stands
    seen,       \* the modify_holder_time it read
    list,       \* the holders it has got
    edited,     \* history: an edit came since the request read the holders
    fromTorn,   \* history: it took its list from a torn entry
    during      \* history: the lists the pool had since it read the pool

vars == <<clock, holders, modified, cache, step, seen, list, edited, fromTorn, during>>
history == <<edited, fromTorn, during>>

Steps == {"idle", "listed", "fetching", "fetched", "done", "lost"}

Running(r) == step[r] \in {"listed", "fetching", "fetched"}

\* The pool was last edited before time began (2001-01-01 when it never was).
Init ==
    /\ clock = 1
    /\ holders \in Lists
    /\ modified = 0
    /\ cache = None
    /\ step = [r \in Requests |-> "idle"]
    /\ seen = [r \in Requests |-> 0]
    /\ list = [r \in Requests |-> {}]
    /\ edited = [r \in Requests |-> FALSE]
    /\ fromTorn = [r \in Requests |-> FALSE]
    /\ during = [r \in Requests |-> {}]

Tick ==
    /\ clock < MaxTime
    /\ clock' = clock + 1
    /\ UNCHANGED <<holders, modified, cache, step, seen, list, history>>

\* The holders are edited, and with them modify_holder_time.
Edit(new) ==
    /\ new # holders
    /\ holders' = new
    /\ modified' = clock
    /\ edited' = [r \in Requests |-> edited[r] \/ step[r] = "fetched"]
    /\ during' = [r \in Requests |->
                    IF Running(r) THEN during[r] \cup {new} ELSE during[r]]
    /\ UNCHANGED <<clock, cache, step, seen, list, fromTorn>>

\* listPool reads the pool without its holders; the counts are read meanwhile.
ListPool(r) ==
    /\ step[r] = "idle"
    /\ step' = [step EXCEPT ![r] = "listed"]
    /\ seen' = [seen EXCEPT ![r] = modified]
    /\ during' = [during EXCEPT ![r] = {holders}]
    /\ UNCHANGED <<clock, holders, modified, cache, list, edited, fromTorn>>

\* Variant with a bug: an entry of the very instant of an edit is used.
UsableAtEdit(r) ==
    /\ cache # None
    /\ cache.holders # {}
    /\ seen[r] <= cache.last_update_time

\* The entry can be used: it is there, not empty, and later than the edit read.
Usable(r) ==
    /\ cache # None
    /\ cache.holders # {}
    /\ seen[r] < cache.last_update_time

Hit(r) ==
    /\ step[r] = "listed"
    /\ Usable(r)
    /\ list' = [list EXCEPT ![r] = cache.holders]
    /\ fromTorn' = [fromTorn EXCEPT ![r] = cache.torn]
    /\ step' = [step EXCEPT ![r] = "done"]
    /\ UNCHANGED <<clock, holders, modified, cache, seen, edited, during>>

Miss(r) ==
    /\ step[r] = "listed"
    /\ ~Usable(r)
    /\ step' = [step EXCEPT ![r] = "fetching"]
    /\ UNCHANGED <<clock, holders, modified, cache, seen, list, history>>

\* The database reads the holders for getHoldersOfPool.
Fetch(r) ==
    /\ step[r] = "fetching"
    /\ list' = [list EXCEPT ![r] = holders]
    /\ edited' = [edited EXCEPT ![r] = FALSE]
    /\ step' = [step EXCEPT ![r] = "fetched"]
    /\ UNCHANGED <<clock, holders, modified, cache, seen, fromTorn, during>>

\* getHoldersOfPool rejects.
FetchFails(r) ==
    /\ step[r] = "fetching"
    /\ step' = [step EXCEPT ![r] = "lost"]
    /\ UNCHANGED <<clock, holders, modified, cache, seen, list, history>>

\* Variant with a bug: the entry is stamped ahead of time.
StoreAhead(r) ==
    /\ step[r] = "fetched"
    /\ cache' = [last_update_time |-> clock + 1, holders |-> list[r], torn |-> edited[r]]
    /\ step' = [step EXCEPT ![r] = "done"]
    /\ UNCHANGED <<clock, holders, modified, seen, list, history>>

\* Its answer is back: the entry is replaced, whatever it is by now.
Store(r) ==
    /\ step[r] = "fetched"
    /\ cache' = [last_update_time |-> clock, holders |-> list[r], torn |-> edited[r]]
    /\ step' = [step EXCEPT ![r] = "done"]
    /\ UNCHANGED <<clock, holders, modified, seen, list, history>>

\* The process is started again: requests and cache are lost.
Restart ==
    /\ cache' = None
    /\ step' = [r \in Requests |-> IF Running(r) THEN "lost" ELSE step[r]]
    /\ UNCHANGED <<clock, holders, modified, seen, list, history>>

Next ==
    \/ Tick
    \/ \E new \in Lists : Edit(new)
    \/ \E r \in Requests :
          \/ ListPool(r) \/ Hit(r) \/ Miss(r)
          \/ Fetch(r) \/ FetchFails(r) \/ Store(r)
    \/ Restart

Spec == Init /\ [][Next]_vars

-----------------------------------------------------------------------------
(* Properties.                                                               *)

TypeOK ==
    /\ clock \in Times
    /\ holders \in Lists
    /\ modified \in 0 .. MaxTime
    /\ cache \in Entries \cup {None}
    /\ step \in [Requests -> Steps]
    /\ seen \in [Requests -> 0 .. MaxTime]
    /\ list \in [Requests -> Lists]
    /\ edited \in [Requests -> BOOLEAN]
    /\ fromTorn \in [Requests -> BOOLEAN]
    /\ during \in [Requests -> SUBSET Lists]

\* An entry that would be used by a request that begins now holds the pool's
\* present holders, unless an edit came between its read and its stamp.
UsableEntryIsCurrent ==
    cache # None /\ modified < cache.last_update_time =>
        cache.torn \/ cache.holders = holders

\* Whatever else runs, a request is answered with a list of holders the pool
\* had while the request was running, unless it came from a torn entry.
AnswersWereTrue ==
    \A r \in Requests :
        step[r] = "done" => fromTorn[r] \/ list[r] \in during[r]

=============================================================================
