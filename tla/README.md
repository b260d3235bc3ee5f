# A verification project for kyupad-backend

kyupad-backend is the NestJS server of a Solana launchpad. Users sign in with a
wallet, reserve and mint pass NFTs, apply to IDO projects within a registration
period, invest when they win tickets, and claim vested tokens. The server keeps
its state in MongoDB, sends messages to SQS (snapshots), SES (mails) and AppSync
(pushes to browsers), stores metadata in S3, and is told of transactions on
chain by the webhooks of Helius. The repository's tests only cover
the health and root routes; these modules are written from the code in `src/`. Paths below are relative to the
repository.

Everything interesting happens between the `await`s: the process is one thread,
but any other request, webhook or crash can come in wherever a handler waits,
and MongoDB has no unique index on anything the handlers check first. One action
of a module is the code from one await to the next.

## 1. Inventory

| Part | Source | State | Operations | Hard because | Correct when |
|---|---|---|---|---|---|
| IDO registration | `services/user-project` `create` | rows of `userprojects`, messages on the snapshot queue, mails | apply | check and insert are apart; two stores and two services in one transaction callback that may run again; crash before the answer | a row never lacks its snapshot message; one row per application; a late application adds none; a caller with a wallet is told the truth; rows lie in the period |
| User documents | `services/user` | `users` (email) | upsert, find, update | written outside the transaction from a value read before it | an address is replaced only by an overlapping application |
| Pass NFTs | `services/nft` `generateCNftMetaData`, `synNftBySignature`, `syncNftFromWebHook`, `updateKyuPadNftByTx` | rows of `kyupadnfts`, metadata files | reserve, claim, record | webhook, claim and lookup race; deliveries repeat; the write is an upsert | a mint names a committed row; a record is what Helius tells of one transaction; rows only go forwards |
| Minting pool view | `services/nft` `mintingPool`, `listPool` | a holders cache in the process | read | cache filled by racing requests, compared with a stamp; rows counted by several queries while mints land | answers were true while the request ran; limits are kept |
| Referral codes | `services/nft` `generatePreferCode` | `refcodes` | find or create | check-then-create without an index | one code per wallet |
| Investments | `services/user-project` `syncInvestingFromHook`, `syncInvestingBySignature` | `investinghistories` | record, report | deliveries repeat and overlap; a bulk write stops half-way | late deliveries add nothing; SUCCESS is true; pushes follow rows |
| Investing view | `services/user-project` `userProjectInvestingInfo`, `aggregateUsersProjectTicket` | a whitelist cache in the process | read | promises started and not awaited; cache without invalidation; double counts | an offer is of tickets wallet and project had, and can be proved; a cached list is final |
| AppSync push | `services/aws/appsync`, the two `*.appsyncschema.ts` | one shared request body per kind of push | push | the body is replaced between signing and posting | the newest push goes through |
| Projects, timeline, portfolio | `services/project` | none of its own (`projects` is edited in the database) | lists, `getProjectProgressStatus`, `myInvested`, `projectUserAssets`, `myParticipation` | lists, statuses and claims compare the clock each in its own way; lists change between two answers | a project is missed by no list; what is shown of a project agrees; applications and investments are shown as they were told |
| Vesting | `services/project` `myVesting`, `services/streamflow` | none | `incomingStreamsOfOwner` | units, rounding, array lengths | what is released follows the stream's schedule and never shrinks |
| Sign-in and sessions | `usecases/auth` | tokens, `users` | signin-data, verify, refresh | a refresh token has no server-side state; the document is of a network the tokens do not name; most routes decode a token without verifying it | a session ends when its tokens do |
| Seasons | `services/season`, `usecases/season` | `seasons` (edited in the database) | `activeSeason`, read and page | may reject; the page counts side by side while mints land | callers fail without effect; the counts are true |
| Outgoing calls | `services/aws/*`, `services/api`, `services/helius` | none | SQS, SES, S3, HTTP | some rethrow, some swallow | as each caller needs |
| Health, ping, root; bootstrap; helpers; DTO types | `modules`, `main.ts`, `helpers`, `usecases/*.response.ts` | none | | | not modelled: no state of their own |

Interactions: `create` calls projects, seasons, users, SQS and SES; the two
webhooks enter through `CommonController` and end in the NFT service and the
investments, which push through AppSync; a push makes browsers ask for the views
again; `mintingPool` and the investing view read what the webhooks wrote.
Projects, seasons, pools and their holders are edited directly in the database by
operators, and `docker-compose.yml` restarts a process that dies.

The hazards that follow from this are listed in `PROJECT.json`, each at its line,
with the properties that would notice it going wrong.

## 2. Modules and plan

| Module | Content | State |
|---|---|---|
| `Registration` | `create`, read by read, with the driver's transaction | done |
| `RegistrationLedger` | abstract: a set of registered pairs that only grows | done |
| `RegistrationRefinement` | the mapping of the first to the second | done |
| `RegistrationProofs` | theorems | done |
| `NftMint` | reservation, chain, webhook, claim | done |
| `MintLifecycle`, `NftMintRefinement` | abstract: absent, reserved, claimed, recorded; and the mapping | done |
| `NftMintProofs` | theorems | done |
| `PoolHolders`, `PoolHoldersProofs` | the holder cache of `mintingPool`; theorems | done |
| `Investing`, `InvestingProofs` | the webhook's bulk write, the pushes over the shared body, the client's report; theorems | done |
| `MC*` | instances for TLC and symmetry | done |
| `ProjectTimeline` | what the instants of a timeline mean: the statuses and their order | done |
| `InvestingView`, `InvestingViewProofs` | `projectRegistrationInfo`: tickets, the whitelist cache, promises that are not awaited; the rows are those `Investing` writes; theorems | done |
| `Vesting`, `ProjectViews` | the StreamFlow arithmetic and the choice of `myVesting`; the lists with their pages, and what they say as time goes on | done |
| `PoolView`, `PoolViewProofs` | the counts of `mintingPool`, `is_active`, the limits of pool and season; theorems, also of the cache, the counts and the pages together | done |
| `Accounts`, `AccountsProofs` | `upsert`, `generatePreferCode`, the life of refresh tokens; theorems, also of their run beside `Investing` | done |
| `SeasonView` | the page of the season: its two counts and its road map, on the rows of `PoolView`; theorem in `PoolViewProofs` | done |
| `Portfolio` | the three sums made of the rows of `Investing`, with their duplicates; theorem in `InvestingProofs` | done |
| `ParticipationViews` | the page of a project and the wallet's own projects, put together while wallets apply to an instance of `RegistrationLedger` | done |
| `ProjectViewsProofs` | theorems about the lists and their pages, the readers of a timeline, vesting, and the two pages of participations | done |

What could still be added is small: `investedOfUser` once the repository writes `pda_account`, and the
pushes of the NFT service over their own body.

The order follows the damage an error does: registrations and mints first, what
money and tickets depend on next, views and pure functions last. Recursion is
written as folds or functions so that every state module can be proved about.

## 3. How the modules correspond to the code

### Registration

`pc[r]` is where one call of `create` stands: `reading` is the `Promise.all` of
four reads, whose outstanding members are in `unread` and end in any order;
`session` to `committed` are the steps of `withTransaction`; the rest are the
answers. `input[r]` is the argument with `currentTime`, which the code takes
before the first await (`Receive`). The controller only decodes the access token: `users` are
the wallets a token may name, with or without a document, and a token that names none
skips `create` and is answered CREATED (`AnswerUnnamed`, a `pc` of its own, `unnamed`). `joined` and `saveEmail` are what the reads
found and what the code decides from them later, when the world may have moved
on. `project_oid`, `season` and the contents of messages are not kept.

The transaction is MongoDB's: an insert is visible from the commit on. The
driver's `withTransaction` runs the callback again after a transient error
(`TransientError`, `BeginAttempt`) and repeats a commit whose answer was lost
(`CommitUnknown`, `Commit`). Each run of the callback inserts a row with a new
`_id`, here `<<request, attempt>>`. What the callback does outside the session
survives an abort: `SaveEmail` (`userModel.updateOne`, which is not given the
session and may land after its attempt has been abandoned), `SendSnapshot` and
`SendMail`. `createSQS` rethrows its error and so aborts; `update`, `sendRegisteredEmail`
and `findUserByWallet` swallow theirs. `Crash` loses every request under way.

`before` is history: what held when the request came in, kept only so that the
properties can speak of it.

### NftMint

`Create` to `GenerateFails` are `generateCNftMetaData`, again a transaction that
may run more than once; `files` are the metadata objects in S3, whose names hold
the `_id` of the row. `Submit` and `Land` are the chain: a wallet mints with the
url it was given, possibly twice, possibly for another owner (`newLeafOwner`).
`Webhook` is a delivery whose write succeeds, `WebhookFails` one whose write
fails: the code logs the error and answers `SUCCESS` all the same. `StartSync`,
`Claim`, `Lookup`, `Record` are `synNftBySignature` and its three awaits. The row, the
signature and the wallet of `StartSync` are any: the first two are the body's, and the token is only
decoded. Both ways end in `UpdateKyuPadNftByTx`, an `updateOne` with `upsert: true`, so
`Recorded` inserts a row (with no `request_wallet`) when there is none. It asks only
whether the transaction has compressed events (`TellsOfMint`). That a transaction did not fail is asked by
the webhook alone, so a failed one that Helius tells the events of (`failedWithEvents`) is
recorded when a client names it; that Helius ever tells so of a failed one is its own matter, and the
model allows both (`Outcomes`).
`nft_address`, `collection_address` and `signature` are written by one update and
`signature` stands for them. `pool_id` is set to the pool the client names by the
claim; nothing here depends on it. A delivery of the webhook with a wrong token or with a
`transactionError` changes nothing and is left out. `Recordable` belongs to the property and to no code.

### PoolHolders

One pool and the requests for it: `ListPool` reads `modify_holder_time`, `Hit`
uses the entry, `Miss`, `Fetch`, `Store` fill it. The database's read (`Fetch`)
and the return of its answer (`Store`) are two steps, because an edit can come
between them; the read may also reject (`FetchFails`). `torn` marks an entry that was read before an edit and stamped
after it. Operators edit `holders` and `modify_holder_time` together (`Edit`);
that both are set by one write is an assumption, as the code for it is not in
the repository. The entry of a restarted process is gone.

### PoolView

The other half of `mintingPool`, of which `PoolHolders` is one: here the list of
holders is arbitrary (`Answer`), so that what is said of the counts does not depend on
the cache. `Calls` are the calls for one pool, `rows` the season's rows of
`kyupadnfts`, of which a call counts the recorded ones: in the pool
(`countMintedTotal`, `ReadTotal`) and of its wallet in the pool and in the season
(`countNftByWalletOfSeason`, `ReadMine`). `how` is how the call came by the pool:
named in the query; the first of the season; or `behind`, when the first
pools are private, the wallet is not on their lists, and so the pool that is shown is not
the one that is counted (`pools[0]` is taken before the filter). A count that fails
is taken for none minted (`TotalFails`), as the code does. `Record` gives the row
the pool the claim names, which the client chooses; `Reassign` is a second mint with
the url of a row, which `NftMint` shows to replace the first. `MintElsewhere` is
every mint the calls here did not offer. Calls without a wallet are told that nothing
is active and are left out, as is the Merkle proof. `could`, `stale` and `excused` are history.

### SeasonView

The page of the season, on the rows of `PoolView`. `Visit` is the moment the three reads
of `activeSeason` are begun; a visitor without an access token (`Guest`) begins two.
`ReadCount` is `countMintedTotal` without and with the wallet, `CountFails` its error,
which it swallows and answers with 0, and `ReadRounds` the road map. The
comparison that sorts rounds without a date last is kept as `Before`, and a round's place
as the number of those before it, so that rounds with one date share a place:
`Array.sort` leaves them in the order of the database. `OnRoadMap` is the filter of the
controller, `ListedPools` the one of `mintingPool`. Rounds do not change while a page is
read. `begun`, `failed` and `robbed` are history.

### Investing

`Receive` is the webhook with the transactions of the delivery that invest;
`Match` and `Insert` are one upsert of the ordered `bulkWrite`. MongoDB finds and
inserts in two steps, and no unique index on `signature` makes the second one
fail. After `BulkWriteFails` the database may still go on with the list.
`StartPushes` begins every push of the delivery: each replaces
`IDO_ACTION_SCHEMA.variables` and signs, all before the first is posted. `Post`
posts the object as it is by then, and AppSync refuses a body other than the
signed one; the refusal is swallowed in `AppsyncService.query`. Two pushes of the
same investment can have the same body when they are made in one millisecond,
hence the choice in `Post`. `SyncBySignature` is the client's report; it leaves
out `on_chain_total`, which the schema requires, so its insert always fails.

### Portfolio

No state of its own: the three sums of the rows of `Investing`. `MyInvested` is the
aggregation of `myInvested`, `UsedTicket` the `reduce` of
`aggregateUsersProjectTicket`, with what JavaScript makes of a missing
`on_chain_total`, and `AllUsedTicket` the `$sum` over the project. The three leave out
`NOT_VERIFY`, which no row of the webhook has. `invest` is what the log of each transaction says.
`PortfolioAgrees` has the sums at one instant: what two queries see at different
ones is the matter of `InvestingView`. `ToldBy`, what clients were told a wallet has invested in a
project, belongs to the property and to no code.

### Accounts

Three routes over one set of wallets. `VerifySignIn` begins where the signature has been found
genuine (any other is refused without effect), for the wallet that signed and any network, of which the
signed message says nothing. A document's id is the network and the wallet (`UserId`), the tokens name the
wallet alone. `Upsert`, `InsertUser` are
`UserService.upsert`, whose `findOneAndUpdate` the database does in two steps for want of a
unique index; `SignTokens` hands out the tokens, after a sign-in and after a
refresh. `Refresh` and `RefuseRefresh` are the two outcomes of `verifyAsync`.
`AskCode`, `FindCode`, `CreateCode` are `generatePreferCode`, for any wallet at all: the route
decodes the access token and does not verify it. A write whose answer
is lost may have been done (`UpsertFails`, `CodeFails`). Tokens are held by clients
and survive `ProcessEnds`. Only refresh tokens are kept in the model: they are the ones that are
verified here; what an access token says is an input of the routes that decode it. `by` stands for the `_id` of a
document, `late`, `served` and `rested` are history.

### ProjectTimeline and InvestingView

`ProjectTimeline` gives `getProjectProgressStatus` as the furthest of the five
comparisons that hold, since each overwrites the ones before it, whatever the order of the
instants is.

`InvestingView` is `projectRegistrationInfo`. `step[r]` is what the request
waits for: the project, then, by the status of the project, the registration, the
users' assets, or the reads of an investing project, of which `saw[r].parts`
are back. `settled` is copied when the project is read, because the handler keeps the
project it has read. The four reads are begun together; in the step `token` the
handler waits for `findTokens` and nothing is attached to their promises yet, in
`all` it waits for them, and in `orphaned` it has failed ('Currency not found')
and left them behind. `Reject` therefore has two effects: the request is
refused in `all`, and the process dies otherwise, which is what Node does with an
unhandled rejection by default. `Deaths` records which read it was.
`Rejects` has the condition that the three results of
`aggregateUsersProjectTicket` are looked at together, and that `winners` of an
empty group cannot be read. `cache` is the whitelist of `global['project-hd-…']`;
an empty list counts as none, as in the code. Prices, wordings and the encryption
of the proof are left out.

External and assumed: `Publish` draws the tickets and publishes the whitelist that
says so, as often as operators like until `Settle` sets `p_user_status`; after
that the draw is final, and the whitelist may be changed once (`Revise`).
`Invest` is one ticket invested on chain and its row; `copies` is two when
deliveries overlap, as `Investing` shows they may. The clock is an
input of `ReadProject`: nothing else depends on it, and the timeline an operator
moves backwards is covered too. `open` and `revised` are history and only serve the
properties.

### Vesting and ProjectViews

`Vesting` is arithmetic: `Released` is the amount `incomingStreamsOfOwner` computes
for a stream from the clock, `PeriodTimes` the entries of the schedule `myVesting`
makes of it, `VestingPool` what it shows. A stream is seconds, the clock
milliseconds, as in the code. Amounts are whole tokens; the
division by a token's decimals is left out, and with it the fractions a floating
point quotient could have. `HasSchedule` is the condition under which `Array` takes
the length it is given; otherwise `myVesting` throws. How a stream's end follows from its amounts
is StreamFlow's and assumed of the streams by name, `StreamsAssumption` in `ProjectViews`.

`ProjectViews` has a clock, the projects that are active, and a client that asks
for the lists `upcoming`, `furture` and `success` in this order. A list's two dates are computed when it
is asked for, the database looks at `status` a moment later; the step `ListFurture` has both
readings of the clock, and an edit in between would only take the project out of
`steady`, the projects the property speaks of. `Page` is `$sort`, `$skip` and
`$limit` as the projects with so many before them, which is exact when no two have
the same key (projects with equal keys may change places between two pages, and
MongoDB promises nothing for them). The `$lookup` of the currency is left out: it repeats a project whose
currency has two documents in `fungibletokens`, whose addresses operators keep apart.
`Total` keeps the difference of the three routes: `furture` without a limit counts
pages of one, though the service makes pages of three.

### ParticipationViews

`detail` and `myParticipation` read `userprojects` twice, side by side: `own` is the
`findOne` of the wallet's row, or the aggregation of its rows with their projects;
`summed` is `aggregateUsersProjectAssets`, or the `find` whose rows go to
`projectUserAssets`. `Visit` is the moment both are begun, `Read` the answer of one of
them. `SumFails` is the error `aggregateUsersProjectAssets` swallows: the page comes
without the numbers. `AssetsFail` is the one `projectUserAssets` swallows, which its
handler can only log when there is a row to take the wallet from; for a wallet without
one the handler itself throws, and the request is refused (`Refuse`).
Applications are those of `RegistrationLedger`, which `Registration` implements, so that
what is said here holds of the real handler: `Apply`, `InsertRow` and `Conclude` are its
actions, `InsertRow` also keeps the row, because rows are counted. `before`, `told` and
`overlaps` are history.

### Variants with a bug

Beside some actions stands a variant "with a bug": the action with a check
dropped, a bound off by one, an error swallowed. They are not part of `Next`.
Putting one in the place of its action makes the property it is paired with in
`PROJECT.json` fail, which shows that the property depends on that line of code.

## 4. Runs

| Run | Instance | What it shows |
|---|---|---|
| `registration` | 2 applications, 1 user, 2 projects with different periods, 2 addresses, 2 instants, 2 runs of the callback; 6.9 million states | types, `SnapshotRequested`, `RowsAreEarned`, `LateApplicationsRefused`, `AnswersTrue`, `EmailReplacedOnlyByOverlap` |
| `registration_ledger` | 2 applications, 1 user, 1 open project, 2 runs of the callback, fairness; 0.7 million states | `ImplementsLedger`; `Answered`: every application that is taken up is answered or lost with the process |
| `registration_duplicate` | 2 applications | expected to fail, see below |
| `registration_mail` | 2 applications | expected to fail, see below |
| `nft` | 1 reservation whose transaction may run twice, 2 mints of it, which may fail, 2 calls of clients that name any row, signature and wallet, 2 wallets; 0.9 million states | types, `MintsHaveRows`, `RecordsMatchChain`, `ClaimsAreOfRequester`, `ImplementsLifecycle`, `MintsAreRecorded` |
| `nft_success` | 1 reservation, 2 mints, 1 call | expected to fail, see below |
| `pool_view` | the cache: 2 requests, 2 wallets, 2 instants; the counts: 1 call, 3 rows, a pool of 2, 1 mint per wallet in it and 2 in the season; 1 page of the season, with a public, a private and a coming round; 1.15 million states | types of the three, `UsableEntryIsCurrent`, `AnswersWereTrue`, `AnswersFit`, `PagesFit`, `MintsWithinLimits` |
| `upserts` | investments: 2 deliveries, 3 transactions of 2, 0 and 1 tickets by 2 wallets, up to 2 in a delivery; accounts: 3 requests, 2 wallets, 2 networks, 5 instants, tokens that last 2; 0.9 million states | types of both, `LateDeliveriesAddNothing`, `ToldMeansRecorded`, `NewestNeverRefused`, `PortfolioAgrees`, `LateRequestsAddNothing`, `SessionsAreEarned` |
| `investing_sync` | 1 delivery, 1 transaction | expected to fail, see below |
| `investing_view` | 2 requests of 1 wallet, up to 2 tickets won, 1 ticket sold by the project, SOL or a token; 4.2 million states | types, `CachedListIsFinal`, `OffersCanBeProved`, `OfferedWhileOpen`, `SolProjectsNeverKill` |
| `investing_view_notfound` | 1 request, 2 wallets | expected to fail, see below |
| `project_views` | 4 projects, 11 instants, 10 pairs of streams, limits missing, 1 and 2; 3 applications of 2 wallets to 2 projects and 1 page; 0.5 million states | types of both, `NoneMissed`, `PagesCoverList`, `ReadersAgree`, `ReleasedFollowsSchedule`, `ReleasedNeverShrinks`, `ApplicationsAreShown`, `CountedOnce` |

Why the bounds are enough. Two applications of one user are the smallest number
that overlap, and every pairwise property fails with two if it can fail; users
meet only in a shared project, which no property joins, so one user is enough.
Two runs of the callback are needed for a retry, and a third adds only another
repetition of the second. Two instants and two
projects that open at different instants let an application come too early, in
time and too late. In `NftMint`, two transactions on one reservation are the
smallest race between two truths about one row, and two wallets distinguish the
requester from everyone else. `MCSpec` of `MCNftMint` names the requester (`w1`): the two wallets
are otherwise alike, so the other choice would only rename every state. In `PoolHolders`, two instants, after the one of the last edit before, allow an edit
before, at and after a stamp, and two requests allow either order of two fills.
`PartsSpec` of `MCPoolView` lets `PoolHolders`, the calls of `PoolView` or the page of `SeasonView` run while
the others rest: the first shares no state with the rest, and calls and pages meet only in the rows, which are free to change
in either. That nothing is lost by it is proved: `TogetherAllHold` has the same properties for the three
interleaving freely. One call is enough for the counts: calls meet only in the rows, and
`MintElsewhere` and `Record` do to a call whatever another one could; three rows exceed
every limit. In `Investing`, two deliveries overlap in every way, and lists of two
transactions show a bulk write that stops half-way and pushes that overwrite one
another. `UpsertsSpec` takes `Investing` and `Accounts` side by side in the same way. `OneReport` lets clients report one transaction only, since reports change no row. Of the three transactions two are one wallet's, one of them without a ticket, and all are in one
project, so that sums differ from counts and wallets from the total. In `Accounts`, three requests are two that
overlap and one that comes before or after them, or a sign-in, a refresh and another one; two networks let a wallet
have a document of one and sign in with the other; five
instants let a token of two expire and be renewed. In `InvestingView`, two requests fill the cache in either order and one can
end the process under the other; a wallet that wins two tickets in a project that
sells one is the smallest case in which the wallet and the project run out apart, and
other wallets matter to a request only by the total, which this one exhausts too. In `ProjectViews`, the four projects
open one after the other and overlap, one of them has all its instants in one, four are one more than a page
holds by default, and the instants are the ends of the periods and their next milliseconds; the streams divide evenly
or not, have a cliff or none, and pay as much as, or more than, `ReleaseRange` can bear. In `ParticipationViews`, three applications are two that overlap and one by another wallet or for another project; pages
meet only in the rows, so one is enough. Its projects are other ones than those of `ProjectViews`, whose edits and times its reads do not depend on (`PartsSpec` of `MCProjectViews`).
The bounds are named in the modules: `MaxTime`, `MaxAttempts`,
`MaxTickets`, `LastInstant`, `Batches`, `OneReport`. The proofs (section 6) do not depend on them being small.

`CHECK_DEADLOCK FALSE` is set throughout: the clock ends at its bound and every
request ends in an answer, after which nothing needs to happen.

Symmetry is used only where no liveness property is checked, and only over
values that no constant singles out.

Fairness. `Registration!Fairness` asks that each request that is waiting gets an
answer to one of its awaits, be it an error: the MongoDB driver, the SQS and the
SES client have time limits, and `withTransaction` gives up after 120 seconds
(`MaxAttempts`). Nothing is asked of requests that have not begun, of the clock,
of operators or of crashes. Note that both a read and the transaction are asked
of each request separately, because a write of an address that is still under way
is not a step of the reads. `NftMint!Fairness` asks only that Helius delivers each
landed transaction's event at least once, which its webhooks do until they are
answered; nothing is asked of wallets, clients or the chain.

## 5. What the failing runs found

Each run marked "expected to fail" states what the code says of itself and TLC
shows how it does not hold.

- `AtMostOneRegistration`: `create` answers a second application with 'You have
  joined the project'. Two that overlap both find no row and both insert. The
  promise that does hold is `LateApplicationsRefused`, and `RegistrationLedger`
  states it exactly: duplicates need applications that overlap.
- `MailedMeansRegistered`: the mail of success is sent inside the transaction. A
  commit that fails after it leaves a mail with a ticket number that is not a
  registration; a second run of the callback sends a second mail.
- `SuccessMeansRecorded` (`NftMint`): the webhook answers `SUCCESS` when the write
  of a mint has failed, so Helius does not deliver it again. `MintsAreRecorded` is
  what holds: a mint is recorded unless the write of its delivery failed.
- `NotFoundIsAnswered`: a wallet that is not registered is to be refused with 'User
  project not found'. In a project sold for a token the refusal can come while
  the handler waits for the currency, when nothing handles it: the process ends
  with every request under way. `SolProjectsNeverKill` is what holds.
- `SyncedMeansRecorded`: `syncInvestingBySignature` never stores anything, because
  the document lacks a field the schema requires, and reports success.

Nine weaknesses are part of the properties that hold rather than findings, as
nothing in the repository promises otherwise: an address replaced by an
overlapping application (`EmailReplacedOnlyByOverlap`), and a cache entry stamped
after an edit it did not see, which looks current until the next edit
(`UsableEntryIsCurrent` excepts exactly these). So are two of `mintingPool`, excepted
by `AnswersFit`: the count of another pool than the one shown, and the count that failed
and is taken for zero. `CountedOnce` excepts wallets whose applications overlapped, which count twice
among the participants, and `PortfolioAgrees` those with a transaction of no ticket, whose used tickets become none.
`AnswersTrue` says of a caller whose token names no wallet that it is told CREATED and has no row;
`RecordsMatchChain` allows a failed transaction in a row when a client named it; and
`SessionsAreEarned` promises a session a document of some network only, so other routes may
not find it under `solana:`, and promises nothing of referral codes, which any wallet a token names is given.

## 6. Proofs

TLAPS checks the eight proof modules completely, for any number of requests, users,
projects, wallets, transactions, deliveries and calls, any periods and any `MaxAttempts` and
`MaxTime`. The assumptions are those of each module, and TLC evaluates them in the runs:

- `ConstantsAssumption`, `ViewAssumption`, `AccountsAssumption`, `SeasonAssumption`: bounds are naturals, periods and timelines are
  integers, projects, applications, rows, instants and the wallets of a project are finitely many, a
  delivery lists each of its transactions once and lists at least one, and the absent value is
  not one of the others;
- `PortfolioAssumption`: transactions are finitely many, and the log of each names a wallet, a project and
  a number of tickets;
- `StreamsAssumption`: a stream that has a schedule and no cliff ends with its last payment. This is
  StreamFlow's, and the only one about what another program computes.

`RegistrationProofs`. None of the properties is inductive alone: that a committed
row has its message, for instance, depends on `pc` being at the commit only after
`SendSnapshot`, and on the `_id` being of the present attempt. The inductive
invariant `IInv` has these parts:

- `TypeInv`: the types, and that an attempt has begun when one is under way;
- `RowsInv`: a row of an attempt exists only if that attempt is the latest and has
  reached its commit; there, its message is on the queue; an application past its
  commit has its row;
- `WindowInv`: an application past its checks, and one that has a row, came in
  within the period;
- `LateInv`: an application that came in late, or has read a registration, never
  gets as far as a transaction, and the registration it met is still there;
- `EmailInv`: a write of an address is under way only for a request that came in
  when there was none, because addresses are replaced and never removed.

`Inductive` proves `Spec => []IInv` with one lemma per part and one step per
action; each property is a corollary. `EmailKept` proves the action property from
the same invariant. `Refinement` shows that `Init` maps to the ledger's, and that
every step under `IInv` is a step of the ledger or leaves it unchanged: a commit is
`Enter`, unless the lost answer had entered already. To the ledger an application of an unnamed caller is one that
never came (`UnnamedRefines`).

`NftMintProofs`. `IInv` is `TypeInv`, `RowsInv` (the row of an attempt is absent
until its commit, so a commit overwrites nothing; what was issued has its row and
file; what is on chain was issued) and `RecordsInv`, what recorded and claimed rows hold. That a recorded
transaction stays `Recordable` needs that an outcome is final (`OutcomeStays`) and that a call
keeps what it was asked (`CallsKept`). `ChangeStep` reduces every
action to a few effects: a row is reserved, claimed or recorded, a transaction is
submitted or decided, or neither changes. The refinement of `MintLifecycle` is
proved about these effects instead of the actions.
`DeliveredAreRecorded` is the safety half of `MintsAreRecorded`: a delivery that was answered has been applied
(`Applied`) or its write failed, and a row once recorded stays so (`SignedStays`). The other half, that Helius
delivers, is the fairness TLC checks with.

`PoolHoldersProofs`. `UsableEntryIsCurrent` and `AnswersWereTrue` need to know what
the requests on their way to `Store` hold. `TimesInv` says that edits and stamps are
not in the future and that a request read `modify_holder_time` no later than the last
edit; `ListsInv` that a fetched list is the present one unless an edit came after the
read (`edited`), and that an entry a request is about to use is torn or holds a list
that was valid during the request.

`PoolViewProofs`. `FitInv` says what a call may conclude from one read: rows only fill
the pool and the wallet's share of it (`Filling`, with the library's facts on
cardinalities), so a limit it has seen reached is reached still, and one it has not
seen reached was not reached when the call began; whichever count comes second,
the two together tell of the beginning. `StaleInv` is about a wallet with nothing unrecorded,
whose share grows with its own mints only. The steps of a call disturb no other call (`OthersKeep`),
and those of the rows are reduced to `Filling`.
`PageInv` says that each number of a page lies between what was recorded when it was begun and what is now
(`CountsGrow`: no row leaves a count, but for the wallet that loses one to a second mint).
`Together` is the cache, the calls and the page interleaving freely, over the same rows: a row that changes beside
a page is one that a call of the model minted, or one the page's own specification changes, which also keeps
the account of who lost a row to a second mint. `MintDisturbsNoPage` is the one
thing left to show, as a mint is not recorded when it lands; all properties follow (`TogetherAllHold`), and
the run's instance, in which two parts rest, implements it (`PartsRunTogether`).

`InvestingProofs`. `TypeInv` contains `Dealt`: what a delivery has left of its list is
a rest of the list, and everything before it has a row. With `todo` empty this gives
`ToldMeansRecorded` for Helius, and with `PushInv` for clients. `KnownInv`: a transaction that had
a row when the delivery came in has it still, and is never the one about to be
inserted. `PushInv`: pushes only tell of rows, and while the newest push is under way
the shared body is its own.

The theorem about `Portfolio` is in the same module. The sums are the folds of the community modules, over sets of
rows, and the first section proves what is needed of them. A fold is a recursive function over
sets that takes some element first, so it must be shown that there is such a function (`SumsExist`), and that
any element may be taken (`SumTakes`). Both, and whatever else is said of all finite sets, go by a smallest
counterexample: the strict subsets of a finite set are well-founded (`SmallestSet`), so a claim that holds of the
empty set, and of a set when it holds of the set without any one element, holds of all (`FiniteSetsOneByOne`). The
claim is given as the set of the sets it holds of, not as an operator, which the provers could not instantiate. From there:
the sum in two parts (`SumInTwo`), over a part (`SumOfPart`), of others that stand for its elements (`SumOfOthers`),
in groups (`SumInGroups`). Then `PortfolioAlwaysAgrees` needs no invariant of its own: each transaction that was told has a
row (`ToldMeansRecorded`), of its own, so what was told is a sum of others that is no more than
`Invested`; and what the project has sold is the sum of what its wallets have invested, in groups. What JavaScript
makes of a transaction without a ticket is in `UsedIs`.

`AccountsProofs`. `LateInv` says how far a request that came in late gets: it finds again
what it found, since nothing is removed. `GrantedInv` adds to the wallets with a token
those that are about to be given one, which have a document of some network as well, and `LifeInv` that no token outlives the newest
of its wallet, from which the bound on the time between two uses follows. `UpsertsAreEach` says that the run, in which
`Investing` and `Accounts` stand side by side, is a behaviour of each, so every theorem about one of them holds of the run.

`InvestingViewProofs`. `StepEffect` reduces the actions of a request to a few effects:
it moves on, sees a part, answers, or is lost. `FinalInv`: what a request of a settled
project has read is final, as the draw and the settling find no such request, so
the cache and the offers are final too. `OpenInv` carries the argument about the
two reads of tickets: a wallet seen with tickets left was open then unless
everything was sold, which lasts; a project seen with tickets left was open then
unless the wallet had used its own, which lasts too; so whichever read comes
second finds what the first one left. `InvestUses` is the counting behind it, with
the library's facts on cardinalities.

`ProjectViewsProofs`. For the lists, `ListsInv` says where a project is that stayed active
and has not been shown: it has begun once `upcoming` is answered and ended once
`furture` is, so `success` shows it; nothing is assumed of its timeline. `ReadersAgree` holds in every typed state: `StatusTells` reads from the
furthest comparison that holds (`LastReached`) where the clock is among the
instants, and the other readers are compared with that; it needs the timeline to be in order
(`Ordered`), as the property says. For the pages, `ApplyInv` ties the rows to the ledger, and says that two applications
for one pair of which each is pending or has a row were under way together once (`overlaps`); `VisitInv` says
that each read, whenever it was made, found no less than there was when the page was begun and
no more than there is now. Rows only grow, so both parts of a page, though of different
moments, show what the wallet had been told by the time it asked. `AppliesAsTheLedger` shows that the applications
are those of `RegistrationLedger` and nothing else, and `Refinement` of `RegistrationProofs` that the handler implements it.

For vesting, lemmas about `\div` and rounding up come first, because the solver does not multiply
variables: a quotient is characterised by the two products it lies between, and only those are used after. `ReleasedOnlyGrows`
is that the span of which the periods are counted grows with the clock, at the stream's end too, where an amount is added to it,
and a quotient rounded up with what is divided. `ReleasedAlwaysFollows` compares the amount computed from
the clock with the entries of the schedule whose time has come: `EntriesOver` finds as many of them as there are
periods passed, and all of them from the end on, which is where `StreamsAssumption` enters, and where an amount
of more than 1000 tokens a second, which the property exempts, would count as one more.

For the pages, the place of a project is the number of those before it. In a finite list without equal keys
no two have the same place and all are below the length, so the places are exactly the numbers below it, by the
library's facts on cardinalities; and each number lies on one page, which `total` and `limit` count.

Only model-checked are the two liveness properties, `Answered` and `MintsAreRecorded`: liveness is beyond the
prover here, as is ENABLED. Induction over sets is done as said under `InvestingProofs`; the
theorems of the library that take an operator cannot be used, and modules that declare RECURSIVE operators cannot hold
theorems, so none do.

## 7. What is not modelled

Outside the repository and marked external: wallets, the chain, Helius, AppSync's
verdict on a signature, the operators' edits, the clock. Not modelled: routing,
validation, formatting, mail layout, logging and configuration, which keep no
state; deliveries without the webhook's token, which return at once; the pushes of
the NFT service, which run through the same `AppsyncService.query` over a body of
their own as those of `Investing` do; and `generateInvestOffChainId`, which has no
caller since its route was commented out, and whose insert would lack a required field.
Further:

- the Merkle trees of `helpers/merkle-tree.helper.ts`: the root that the proofs they give must match is
  published outside the repository, and `getMerkleRootString`, `getMerkleTree` and
  `getMerkleProof2` have no caller. `OffersCanBeProved` says the part that is this
  program's, that the wallet is on the list that was published;
- `investedOfUser`, which finds investments by a `pda_account` no code here writes;
- `total_assets` and what is behind `projectUserAssets`: the snapshot job writes them,
  from which the code here only adds up and formats;
- in `VestingPool`, the refusals of `myVesting` for a project or stream that is not there, and the
  RangeError of a number of periods that is no length (`HasSchedule` fails): the model shows a pool where the code
  answers with an error, which `ReadersAgree`, of what a pool must not say, can only make harder;
- in `InvestingView`, a wallet's second registration row, which overlapping applications may leave: the code
  takes the first the database returns, and the tickets of one row are kept;
- the time limit of `ApiService`, whose expiry is one of the failures its callers see.
