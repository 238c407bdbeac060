# Verification of the application template

TLA+ models of the parts of this repository in which processes, requests, retries
and crashes meet: the durable event log and its consumer, the Redis client, the
periodic loops and their shutdown, migrations, mail in both directions, the four
ways money comes in, accounts and teams, files and imports, the web client, and
the operator's scripts. TLC checks each on a small instance; TLAPS proves some of
the results for every instance.

Paths are relative to the repository root. `M.tla` is a specification, `*_*.cfg` is
one question asked of it. `Accounts`, `Edge`, `Ingest`, `Mail`, `Money` and `Platform`
each compose the specifications of one area, give TLC its values, and hold the theorems
of the area's components; in `Edge`, by far the largest, the lemmas of a part stand
right after its INSTANCE. The theorems of `Mailing` are at its own end, those of
`EventDelivery` in `EventDeliveryProofs.tla`; `MCEventDelivery` has its values.
Definitions marked "Mutant of X" are wrong variants of X that each break a
property: they show that the property depends on that line of the code.

## 1. Inventory

The application is a Deno server (`main.ts`, `app.ts`) deployed as several
identical pods over one Postgres database and, optionally, one Redis; a Svelte
client in `web/`; shell and Deno scripts in `scripts/`. Nothing elects a leader:
pods meet in rows (`FOR UPDATE SKIP LOCKED`, conditional updates, unique indexes)
and in best-effort Redis locks.

| Component | State | Operations | Meets | What is hard |
|---|---|---|---|---|
| Event log, `src/lib/events.ts` | `events`, `event_subscriptions`, `event_deliveries`, `event_handler_receipts` | publish, claim, release, reserve a key, run, complete, fail, replay, requeue stale, sweep | callers' transactions, consumer, webhooks | writes that commit after their caller gave up; a claim taken for stale while its handler runs; equal keys on two pods |
| Event consumer, `src/jobs/event-consumer.ts` | timer, flags, lock | start, wake, tick, drain, stop | event log, Redis, shutdown | wake and stop racing a tick between two awaits |
| Redis client, `src/lib/redis.ts` | one connection and its WATCH marks, deferred releases, a subscriber, counters | acquire, refresh, release; subscribe; rateLimit | every locked loop and limited route | a TTL that lapses in use; commands that time out after they were run; INCR without its EXPIRE |
| Periodic loops, `src/jobs/`, shutdown in `main.ts` | timers, locks | boot, tick, stop | Redis lock, pool | a loop that dies; a tick that outlives the pool |
| Migration runner, `db/_runner.ts` | `schema_migrations`, the schema | boot, apply, retry | all pods at boot | several pods at once without a lock; a pod that dies between statement and ledger row |
| Email outbox, `src/services/email-outbox.service.ts` | `email_outbox` | enqueue, cancel, deliver | job runner, SMTP | crash between send and write; outcome writes conditioned on the id alone |
| Inbound email, `src/services/inbound-email/` | `inbound_emails` | capture, extract, retry | reaper, LLM | parallel captures; a batch read without a claim; a poison row before the others |
| Mailing, `src/services/mailing/` | campaigns, recipients, contacts, suppressions, preferences | send, schedule, pause, resume, cancel, unsubscribe, provider reports | outbox, transport | an opt-out racing a send; cancel racing the runner |
| Transport and digest, `src/services/{email-transport,expiration-digest}.ts` | capture mailbox, settings | send, digest | senders of every kind | settings that change between gates; one failing recipient |
| Scheduled jobs, `src/services/scheduled-jobs.service.ts`, `src/jobs/cron.ts` | `scheduled_jobs` | create, update, delete, run due | job runner, admin routes | a timestamp as a lock; edits that race a run; missed fires |
| Credits, `src/services/credit.service.ts`, `src/api/middleware/monetize.ts`, `src/mcp/` | balances, ledger | grant, debit, refund | metered routes and tools | racing debits; debit, work and refund as three steps |
| Purchases, `src/services/product.service.ts`, `src/api/routes/billing/` | `purchases`, customer ids | checkout, webhook handlers | Stripe | events duplicated, reordered, in parallel |
| Hosted payments, `src/services/chipp-*.ts` | mirrors of entitlements and donations | push, pull, switch of mode | Chipp, event bus | pushes and pulls in any order |
| Machine payments, `src/services/mpp.service.ts`, `src/mcp/mpp.ts` | deposit addresses per process | challenge, pay, paid call | routes, tools | an address forgotten between payment and call |
| Sign-in and sessions, `src/api/routes/auth/`, `src/api/middleware/auth.ts` | codes, users, cutoffs, tokens | send, guess, confirm, touch, logout-all, verify | email, platform | attempts at their limit under parallel guesses; whole seconds against instants |
| Teams, `src/services/invite.service.ts`, `src/api/routes/{org,invite}/` | invites, memberships, roles | invite, accept, change role, transfer, leave | auth | write from an old read; the last owner |
| MCP OAuth, keys, portal, agent tools | codes, token pairs, links, keys | approve, exchange, rotate, revoke, call a tool | MCP server | single use under parallel exchange; rotation racing logout |
| Files, `src/services/{uploaded-file,storage*}` | rows, objects, content types | upload, review, link, download, delete | bucket or disk | row and object out of step; unreviewed bytes |
| Imports, `src/services/import/`, `src/services/mailing/hygiene.ts` | sessions, records | parse, map, normalize, screen, preview, commit | files, mailing, web client | a commit that times out and lands; two commits at once; a cell lost or changed in silence; a resolver that does not answer |
| Site forms; event inbox and webhooks | submissions; events, hooks, secrets | post; accept, deliver, rotate | event bus, mail | replays after the retention; rotation in use |
| Web client, `web/src/` | query cache, stores, forms, idle timers | fetch, invalidate, switch tenant, sign in and out, page forms | API | answers that land after the page, user or tenant changed; tabs |
| Observability trail | queue, journal | record, flush, collect, rotate | client, server | a queue at its limit; a flush that never comes |
| Development routes, `src/api/routes/dev/`, `web/src/lib/devpanel/` | the database, snapshot files, the last state pushed | login, seed, reset, snapshot, restore; push, read | the whole app | a snapshot torn by writes; pushes that overtake each other |
| Design page, `web/src/routes/Design.svelte`, `src/services/design.service.ts` | `design.json`, the page's copy | load, edit, apply a preset, save, reset | development routes, agents | edits while a request is under way |
| Scripts, `scripts/` | machine, tenants, clones | setup, dev, provision, deprovision, eject, apply, check types | git, database, cloud | one command of many failing; a second run after a failed one |

What makes each correct is the list of properties in section 4. `PROJECT.json`
lists the hazards at the line where they bite.

## 2. Plan

Done: all modules of section 3, and the theorems of section 6. Next:

1. Theorems for what is only model-checked: the scripts (`SuccessIsEarned`).
2. `ClaimTiming`: the arithmetic of `staleClaimFloorMs` against the writes of a
   batch, and the ends of paid periods in `Purchases`.

## 3. Modules

A step is the code between two awaits (or one statement, where another process
can come between two). A handler that reads and later writes is in `requests` (or
`task`, `pending`, `calls`) in between, with what it read; `requests` is a bag where
two equal requests in flight are a race of their own (two clicks, two guesses). There are no backoff
times: what could be due is due. Faults are counted and may strike at any step.

**Background work** (`MCEventDelivery`, `Platform`)

- `EventDelivery`: one subscription of the log. `status`, `attempts`, `claimedBy`
  are columns of `event_deliveries`, `receipt` is `event_handler_receipts` by
  key, `task[c][d]` is where consumer `c` is in `processDelivery(d)`. A database
  write raced against `withTimeout` commits, fails, or commits after its caller
  gave up, and a handler that timed out may still end. `reserveIdempotencyKey` is a step
  for each of its four READ COMMITTED statements, since another transaction can come
  between any two. The release of a delivery whose handler is not registered
  (`events.ts:1065`) is not there: the consumer claims only what `runnableHandlers`
  lists (`event-consumer.ts:374`), which is `Runnable`. A row that a live process holds goes stale only as a fault (a paused
  process), because `staleClaimFloorMs` keeps the threshold above what a batch
  takes. `AtLeastOnce` is what the log promises without that machinery;
  `KeepsPromise` says that the ledger implements it.
- `EventConsumer`: the loop turn by turn. Timeouts the code no longer remembers
  are counted in `stray`, and two tick bodies are represented, so that a second
  loop would show.
- `RedisLock`: `acquireLock`, `refreshLock`, `releaseLock` command by command on
  one connection per process. `RedisClient`: `redisSubscribe` with its redial, and
  `rateLimit` with INCR and EXPIRE apart.
- `BackgroundLoops`: the four other loops, an interval in which each armed timer
  fires once, and `shutdown()` stage by stage.
- `Migrations`: pods that boot at once; files in and out of a transaction, the
  ledger row, a read-only primary, retries. Its scanner section is
  `splitStatements` on bounded scripts.

**Mail** (`Mail`, `Edge`; `Mailing` is run as it is)

- `EmailOutbox`: rows, passes that claim a batch and work through it, outcome
  writes conditioned on the id alone.
- `Inbound`: parallel captures of one message, the reaper's tick and its lock, the
  credits backoff, retries after `RetryAfter`; and of `services/llm/` what the
  reaper meets, the client's answers and errors (`Reply`, external, and `LlmRequestError`).
- `Mailing`: contacts, suppression, preferences, the sender's health, the gate, and
  campaigns with their warm-up batches. `cancelCampaign` is cut inside its
  transaction, where each statement has its own snapshot.
- `Transport`: the gates of one send, the capture mailbox, the fallback sender, and
  the digest's walk. `SiteForms`: a post, its two limits, the transaction that
  stores and announces it.

**Money** (`Money`)

- `CreditLedger`: grants by external reference, the conditional debit, metered
  calls. `Purchases`: checkout with `ensureStripeCustomer`, Stripe (external), the
  webhook handlers statement by statement; `oneByOne` chooses, once per behaviour,
  a Stripe that tells events in order. `HostedPayments`: sales with numbered
  states, pushed and pulled. `Mpp`: challenge, deposit addresses per process, paid
  call.

**Accounts** (`Accounts`)

- `SignIn` (the `otps` table shared by sign-in and change of address), `Sessions`
  (issue times in whole seconds, the cutoff in finer time), `Team`, `McpOAuth`
  (`era` counts logout-all cutoffs), `Credentials` (portal links, keys, agent
  tokens and the tools they reach).

**Files** (`Ingest`): `Files`, with the local driver's two files per object;
`Imports`, whose pure part comes first (CSV text to a grid, headings to fields,
cells to values, addresses screened, rows to creates and updates) and its sessions
after. Texts are sequences of characters, an address its local part, its tag and the
labels of its domain; of the tables of misspelt domains the model has one entry of each
kind.

**Edges** (`Edge`)

- `ScheduledJobs`, with a discrete clock; a cron expression is the set of times at
  which it fires. `Relay`: the signed inbox, webhooks, and the address check.
- `WebClient` (query cache, tenant switch), `IdleTimeout` (two tabs),
  `SignInPage`, `SettingsPage`, `ImportWizard`, `StaffPages`: what a page shows
  against what the server holds, with calls in flight. `Overlap` says whether a
  second request may be sent while one is under way; the runs have it FALSE and
  section 7 says what it adds. `Breadcrumbs`: the trail from hook to journal,
  with the limits of either side as constants.
- `DevRoutes`: tables with foreign keys, a snapshot read table by table while the app
  writes, restores; and the panel's pushes, with the page's clock. `DesignPage`:
  `design.json`, the page's copies of it, a load and a save in flight.
- `Tenants`, `Retrofit`, `TypeCheck`, `DevStack`: scripts command by command; each
  may fail, and `set -e`, traps, `exit` and dry run are as in the shell.

The areas' modules compose components that share no row: a behaviour is about one
of them (`focus`) and the others rest. Where components do meet, the meeting is in
their actions: `EventConsumer`'s run step stands for `EventDelivery`'s
`processDelivery`, the loops' lock is `RedisLock`'s reduced to a holder that can
be lost, `BackgroundLoops`' runner tick for the passes of `ScheduledJobs`,
`EmailOutbox` and `Mailing`, an outbox row of `Mailing` for one of `EmailOutbox`.

## 4. Runs

| Run | Instance | Checks | States |
|---|---|---|---|
| `EventDelivery_faults` | 2 deliveries with one key, 2 pods, batches of 1, 2 attempts, 2 faults, 1 operator or retention step | `KeyMutex` (two live runs under one key only if one reservation fell between the SELECT and the DELETE of a takeover); `BudgetRespected` (waiting rows have an attempt left, dead ones used all); `DoneMeansHandled`; `PeerRunKept` (no other consumer's write lands on a live run); `KeepsPromise` (implements `AtLeastOnce`) | 1 471 995 |
| `EventDelivery_settles` | 2 deliveries with one key that only one pod runs, one of them parked behind the other or in its batch; a webhook that only the other pod runs; batches of 2, 1 fault | `Settles` (while the subscription is active no delivery is open for ever) | 149 453 |
| `Platform_processes` | 2 pods; 1 lock name, 2 calls at a time on a connection, 3 tokens, 1 timeout, 2 lapses; the runner with the digest or the reaper, or alone; 2 deliveries; 3 limited callers; migrations of 2 and 3 files, one without a transaction; scripts to a bounded length | `LoopsHold` (`LoopsGoOn`, `OneGoesOn`, `RunnerDrained`, `OnePodAtATime`, `OneLoop`, `NoLostWake`); `SharedStateHolds` (`SchemaMatchesLedger`, `SplitsBack`, `WindowIsBounded`); `PeerLockUntouched`; `ProcessesRecover` (`ListensAgain`, `EveryPodComesUp`, `Drains`) | 600 062 |
| `Mail_rows` | 2 rows, 2 runners, 2 attempts, 1 crash, 1 pause; 2 inbound emails, one that always fails, 2 pods | `NothingTwice` (`OnceWithoutFaults`, `AppliedOnce`); `OutcomeIsEarned`; `SettledIsFinal`; `MailMovesOn` (`EveryRowSettles`, `EmailsAreTried`) | 196 965 |
| `Mailing_campaigns` | 2 addresses (one imported, one of an app user), 1 campaign, batches of 1 and 2, 2 requests, 1 report | `OptOutHolds`; `CampaignEnds` | 369 536 |
| `Mailing_cancel` | 1 address | `CancelStops` is violated, section 7 | |
| `Money_payments` | 2 organizations, 3 payments, 4 metered calls, 2 faults; a sale of either mode, 2 webhook workers, 3 changes; 2 hosted sales; 2 paying callers, 2 pods | `NeverNegative`; `Conserved`; `ChargedForWork`; `RowsFollowStripe` (`EntitlementIsEarned`, `AgreesInOrder`, `NewestStateShows`); `PaidOnceInTime`; `PaymentsStand` (`CheckoutRevivesNothing`, `PaymentsAreRecorded`) | 511 057 |
| `Accounts_requests` | 2 requests at a time; 2 addresses, 2 codes; 3 tokens; 3 people in 2 organizations, 2 invites; 2 approvals, 3 pairs, 2 logouts; 2 links | `CodesHold` (`GuessesBounded`, `CodeSignsInOnce`); `SessionsHold` (`LogoutAllHolds`, `VerificationStaysReadOnly`); `TeamHolds` (`InviteAdmitsOnce`, `OneOwner`); `AssistantsHold` (`OneChainPerApproval`, `LogoutDisconnects`); `RotationRetires` | 1 652 714 |
| `Ingest_files` | 2 users of one organization, one a reviewer; 2 bodies, 1 fault; 2 import sessions, 2 attempts; CSV texts and headings to a bounded size, full names of up to 4 characters, dates at the ends of months and centuries, lists of 3 addresses under every answer of the resolver | `FilesHold` (`RowsKeepTheirBytes`, `NothingLeftBehind`, `StrangersSeeReviewedBytes`); `ImportsHold` (`StatusTellsTheTruth`, `ReimportUpdates`); `SheetsReadBack` (`ReadsBack`, `RowIsHonest`, `DateStands`, `ScreensFairly`); `ProposalIsSound` | 1 306 876 |
| `Edge_surfaces` | 2 jobs, one on a recurring expression or on a single date, 2 pods, batches of 1, which fit in the stale lock, and of 2, which outlast it, clock to 4, 1 crash, 1 edit; the other instances are in `Edge` | `NeverDoubleRun`; `CatchUpOnce`; `TabFollowsItsSession` (`NothingLandsLate`, `AutomaticLogoff`); `PagesShowWhatHolds` (`CommitsWhatWasShown`, `ShowsTheServer`, `UserIsTheCookies`, `ReasonsBelong`, `DetailIsTheLocations`, `SavedIsTheFiles`); `TrailIsKept` (`QueueIsWatched`, `JournalIsATrail`, `ChangesAreSeen`); `WebhooksHold` (`ReplayNeverReinserts`, `DoneWasTaken`, the address check against the ranges it must refuse); `MessagesGoOut` (`CriticalIsNeverSilent`, `DigestCoversTheRest`, `StoredIsAnnounced`); `SuccessIsEarned` (`SuccessIsWhole`, `PatchedOnce`, `DoneLeavesNothingOut`, `GreenMeansChecked`, `NoServerIsLeft`, `ServersFindTheirSchema`, `QuietSnapshotsRestore`); `DryRunTouchesNothing` | 2 508 192 |
| `WebClient_signin` | 2 users, 1 query | `ShowsOwnTenant` is violated, section 7 | |
| `StaffPages_list` | 2 emails | `ListIsShown` is violated, section 7 | |

A property in parentheses is stated, with its comment, in its component's module;
the area's module conjoins them. Every property has a mutant, and most conjuncts
one of their own.

Deadlock is not checked: every behaviour ends when its bounds are used up, and
the programs may rest (no row due, no request).

**Why the bounds are enough.** The races are between two processes, requests or
tabs over one row, key or page, so two of each exhibit them; a third would repeat
one of the two roles (three people in `Team`, because a transfer needs an owner, a
member and somebody who acts on one of them). Faults are bounded in number, not in
place. Two faults in the event log and a replay allow a late write or a pause, and a
takeover with another between its statements, in one behaviour; two attempts include a
retry and the last one. One timeout in
`RedisLock` is what the code promises to survive: a release is deferred once. In
`ScheduledJobs` the clock runs long enough for a claim, a stale lock and a second
pass. The scripts run up to three times, so a failed run is followed by one that
succeeds and one that finds everything done. Three tables in a chain of references,
listed by name with the child first, are what a restore in the wrong order fails on. Two sales share nothing but the
organization's customer. The pure functions (CSV, statements, headings, addresses)
branch on a few special characters and on neighbours at a distance of at most
three, and the bounded inputs contain every such pattern.

Symmetry is used in safety runs only, over pods, addresses, people and rows, where
all of a kind are alike.

## 5. Fairness

- `EventDelivery`: each awaited step ends (its timer fires), the loop never dies
  and claims the rows that have been due longest, so a row that is claimable again
  and again is in some batch in the end (strong fairness); each tick runs the
  stale requeue. That the loop goes on is `EventConsumer`'s `Drains`.
- `Platform`: the subscriber redials, a failover ends, a pod's boot goes on,
  timers fire, awaits settle, and the lock of a dead holder lapses.
- `Mail`: runners tick and claim the oldest rows first (strong fairness), awaits
  settle; the reaper's steps go on, its orphaned lock lapses, a backoff ends.
- `Mailing`: the runner's passes and the outbox go on; what a person does
  (pause, resume, cancel) is not fair.
- `Money`: requests end, and Stripe repeats a checkout event until it is
  answered with 200.
- `StaffPages`: a fetch that was sent is answered.

Faults are never fair.

## 6. Proofs

Each theorem holds for all values of the constants that satisfy the assumption its
module states (`KeysAssumption`, `RunnableAssumption`, `BoundsAssumption`,
`LedgerAssumption`, `OutboxAssumption`, ...: kinds, and that bounds are numbers),
which TLC evaluates in every run. Each rests on an invariant that TLC checked
first, since what one wants to know is seldom inductive.

| Theorem | States | Argument |
|---|---|---|
| `EventDeliveryProofs` `TypeCorrect` | `[]TypeOK` | `EffectType`, `GoToTask`, `FinishTask` type the shared effects once; then one step per action |
| `DoneRowsWereHandled` | `[]DoneMeansHandled` | a row becomes done through a pending write, a late write or another delivery's receipt: `HandledInv` adds that each is backed by a handler that succeeded |
| `OneRunPerKey` | `[]KeyMutex` | `KeyInv`: a live run owns its key's receipt, and nobody is about to delete it (`Judging`), unless its reservation was `overtaken`; an absent receipt has no owner, an owner belongs to the receipt's event. `KeepsKeyInv` leaves only the actions that touch a receipt, a claim or a task |
| `AttemptsStayInBudget` | `[]BudgetRespected` | `BudgetInv` adds that an absent row has no attempts. `RowWriters` says which actions write a row at all, `EffectBudget` what a write does to it: releases give the attempt back, crashes and timeouts do not |
| `PeerRunsAreKept` | `PeerRunKept`, an action property | `EffectFenced`: a write changes its row only under its own claim and attempt |
| `LedgerKeepsPromise` | `KeepsPromise`: `Spec` implements `AtLeastOnce!Spec` | `Phase` maps columns and receipts to the abstract phase; `WorkInv` says that nobody works on a row that is not there, and `EffectMoves` that every write moves a phase as the abstract step does or not at all. The refinement is of safety; its liveness is `Settles` |
| `Mailing` `GateKnowsOptOuts`, `OptOutsHold` | `[]OptOutInv`, `OptOutHolds` | `OptOutInv`: each opt-out somebody was answered is in a table that the gate reads, unless he opted in again. `ListsKeepOptOut` and `CampaignsKeepOptOut` take the actions in two groups; `Counted` says that what was sent is counted |
| `Mail` `OutboxTypeCorrect`, `InboundTypeCorrect` | `[]TypeOK` of `EmailOutbox`; `[]TypeOK` of `Inbound`, and `HandsInv`: a tick holds emails exactly while it works | |
| `OutcomesAreEarned` | `[]OutcomeIsEarned` | `OutcomeInv`: an outcome a pass still holds is true of its row too |
| `SettledRowsStay` | `SettledIsFinal`, an action property | `LockInv`: until a pass is paused, a row of a batch is being sent and is in no other batch |
| `AcceptedOnce` | `[]OnceWithoutFaults` | `OnceInv`: until a fault, a row being sent is in a batch, and a message that was accepted is recorded or about to be |
| `ReadersAreAlone`, `DataIsAppliedOnce` | `[]InboundInv`, `[]AppliedOnce` of `Inbound` | `InboundInv`: until a lock lapses one process reads the inbox and holds the lock, and what it has still to do is what it read and nobody has applied |
| `NothingIsDoneTwice` | `[]NothingTwice` | `Projections`: `Safely`, the run's specification without its fairness, implements both directions' |
| `Platform` `LockTypeCorrect` | `[]TypeOK` of `RedisLock` | |
| `PeerLocksUntouched` | `PeerLockUntouched`, an action property | `WatchInv`: from its WATCH on a call's name is marked, so a clean connection at EXEC means that the token it compared is still there, unless another call of the process has cleared the marks (`crossed`) |
| `LoopsAreKept` | `[]` of `OnePodAtATime`, `RunnerDrained`, `LoopsGoOn` and `OneGoesOn` | `LoopInv`, for each process and loop: a process that is up has stopped no loop and has a timer or a tick of each, or a reaper that was refused; a stopped loop has no timer, the runner is stopped before the pool is closed and idle after, and, Redis well, who works holds the lock. `KeptOn`: while nothing has failed some process's loop goes on, since the lock that a reaper is refused is held by one that works (`HolderGoesOn`) |
| `ConsumersAreKept` | `[]OneLoop`, `[]NoLostWake` | `ConsumerInv`: a process that is up has a timer or one body and forgets no timer; `tickInFlight` and `wakeRequested` say what the body will do when it ends. `BodiesCount` counts the bodies after a change of one, `TickBegins` and `TickEnds` are the two places where that happens |
| `SchemasMatch` | `[]SchemaMatchesLedger` | `MigrationsInv`: of each file (`FileRecorded`), it has run as the ledger says and only after those before it; of each pod (`PodRecorded`), the files of its image it does not hold as pending are recorded, and a bare file it is at has run as far as it says. `FirstIsLeast`, by the well-foundedness of `<`, says that files are taken in order |
| `WindowsAreBounded` | `[]WindowIsBounded` | `WindowInv`: who is let through was counted, the caller who made the key counts before it is answered, and the key cannot expire until it is |
| `LoopsHoldTogether`, `SharedStateKept` | `[]LoopsHold`; `SharedStateHolds`, the scanner's scripts apart | `Projections`: `Safely`, the run's specification without its fairness, implements the components' |
| `Edge` `JobsTypeCorrect` | `[]TypeOK` of `ScheduledJobs` | |
| `MissedFiresRunOnce` | `[]CatchUpOnce` | `CatchUpInv`: the last run of a job was not after now, and an enabled job that no update has revived waits for a fire after the clock of that run |
| `PodsNeverDoubleRun` | `[]NeverDoubleRun` | `HoldInv`: a pass is within the time its own batch may take (`InTime`), and the rows of its batch carry its lock (`Holds`), but for jobs in `long`; so no other row of a live batch is stale |
| `TabsFollowTheirSessions` | `[]TabFollowsItsSession` | `CacheInv`: entries and their data are of the present context, a request answers with data of its own, and an entry in flight has exactly one request that may still fill it. `TimerInv`: what a tab's timer has left and the time nobody has been active are a session's time at most, and a timer below the warning has warned |
| `DryRunsTouchNothing` | `DryRunTouchesNothing`, an action property | `DryInv`: a dry run never comes to DROP ROLE, the one command that asks no more; then one case per command |
| `NobodyIsLeftUntold` | `[]MessagesGoOut` | `SendInv`: a message on its way has reached nobody yet. `DigestInv`: the organizations scanned are those before the one at hand, of which the recipients before the one at hand were tried; of the others each was tried or the failure noted. `AnnounceInv`: a post comes to its recipients past the checks of its form and is stored at the end |
| `WebhooksAreSafe` | `[]WebhooksHold` | `RelayInv`: while a request that was taken could still be verified, the row it made is there and not old enough to be swept. For the addresses of the run, `AddressesAreJudged`; it rests on lemmas about every IPv4 address (`BlocksAreCompared`, `JudgedByBlocks`) and every IPv6 address (`MappedAlike`, `AbbreviatedAlike`) |
| `TrailStaysWhole` | `[]TrailIsKept` | `TrailInv`: crumbs leave the queue in the order of their recording (`InOrder`); a batch under way and the lines written share none, and no crumb is written twice (`Apart`); a queue that is not empty has its timer (`Timed`); each request served has its two lines (`Answered`). `PanelInv`: a change not seen in time is carried by a push under way, or the next heartbeat that will carry it is near enough |
| `PagesShowWhatTheyShould` | `[]PagesShowWhatHolds` | one invariant per page. `WizardInv`: one request is under way, for the page that sent it and its session, and a preview on screen is of what is saved. `SettingsInv`: a change is under way alone; a copy that is not the server's is about to be fetched, or an answer is there that patches it to what the server holds. `SignInInv`: one request at a time sets the cookie or asks for it; a claim that is over has used the invite, so a preview asked for meanwhile claims nothing. `PagesInv`: a reason travels with the file it was written about, and each visit has a number that its page's request carries. `DesignInv`: the baseline is the file's, or a request is under way that will make it so |
| `Accounts` `SignInTypeCorrect`, `CodesAreKept` | `[]TypeOK` of `SignIn`; `[]CodesHold` | `CodesInv`: a row's attempts count at least the guesses compared with its code, unless the count was written back; a row that is there has signed nobody in; a code still to come has no history |
| `SessionsAreKept` | `[]SessionsHold` | `SessionsInv`: what each token and each request in progress says of its issue and of the cutoff it passed (`TokenOK`, `SessionRequestOK`); a request that mints is the only one for its platform token, and there are no more verification tokens than platform tokens that were turned into one |
| `TeamsAreKept` | `[]TeamHolds` | `TeamInv` = `OwnersInv` (an owner has an organization; one that no stale write has hit has one owner) and `InvitesInv` (a claim that was won is held by one request, for an invite that has admitted nobody yet) |
| `AssistantsAreKept` | `[]AssistantsHold` | `ChainsInv`: of the requests between the two transactions of a redemption or a rotation and the pairs that work, an approval has one at most; before its code is used it has none |
| `RotationIsKept` | `[]RotationRetires` | `LinksInv`: the links a request saw are those of its person and record until it retires them, and dead afterwards; `LinksLast`: links are never deleted, given away or revived |
| `AccountsAreKept` | `[]` of the five together | `Projections`: the composition implements each component's specification |
| `Money` `LedgerTypeCorrect`, `BalanceNeverNegative` | `[]TypeOK`, `[]NeverNegative` | the guard of the conditional debit, and positive amounts |
| `CreditsAreConserved` | `[]Conserved` | `ConservedInv`: balances are grants less charges plus refunds, counted as the number of single credits (`Total`), so that a sum becomes a cardinality and `OneMore` takes the place of an induction over organizations |
| `OnlyWorkIsCharged` | `[]ChargedForWork` | `ChargeInv`: without faults a charge belongs to a call that runs, is about to be refunded, or is done |
| `CallersPayOnce` | `[]PaidOnceInTime` | `MachinesInv`: what a caller in time was offered, or holds paid, is known to the process that asked it, however many addresses are made in between |
| `MirrorsCatchUp` | `[]NewestStateShows` of `HostedPayments` | `HostedInv`: the mirror has the newest state of a sale, or its push is still under way, or it was counted as missed |
| `SalesTypeCorrect`, `SalesFollowStripe` | `[]TypeOK`, `[](EntitlementIsEarned /\ AgreesInOrder)` of `Purchases` | `HandleDoes` gives what any statement of a handler can do to its row (`GoesOn`, `Ends500`, `Ends200`). `EarnedInv`: Stripe tells only what has happened. `OrderInv`: told one by one, the row has what Stripe has or the event that says so is pending; a request's event has none before it, and nobody else works on its sale |
| `LateCheckoutsReviveNothing` | `CheckoutRevivesNothing`, an action property | from `HandleDoes` and the types |
| `RowsAreStripes`, `MoneyIsKept` | `[]RowsFollowStripe`; with `NeverNegative`, `Conserved`, `ChargedForWork` and `PaidOnceInTime` | `Projections`: `Safely`, the run's specification without its fairness, implements the four components' |
| `Ingest` `FilesAreKept` | `[]FilesHold` | `FilesInv`: an upload that is being stored is alone, since no row, request, link or reader knows its key (`Alone`); a request knows what it has done of its own (`HandlerOK`); a row's object is its upload's (`FileOK`); a managed key holds its upload or nothing and, without a fault, something only while a row or a request answers for it (`ObjectOK`); a link or a reader was somebody who might read (`LinkOK`, `ReaderOK`). `OthersKept` says that a step is nothing to the other requests, one lemma each takes a put, an end, an erase, an insert, a decision and a link |
| `ImportsCommitOnce`, `StatusIsTrue` | a session that no two requests were in writes its rows once at most, and what it wrote is committed once it is quiet; `[]StatusTellsTheTruth`, given `Importable` | `ImportsInv`: such a session has one request at most, which found it open, and it is imported from the end of its transaction on and only then (`SessionOK`) |
| `FilesAndImportsAreKept` | both, of the composition | `Projections` |
| `ProposalsAreSound`, `ProposalStaysSound` | `Sound` of any proposal, whatever the headings hit; `[]ProposalIsSound` | `Partial`: after each pass a field has one column and an ambiguous column none. `PassKeeps`: a pass gives a field to the one column that asks for it and takes nothing back |

Some theorems have a hypothesis besides the module's assumption, and each says
something of the code:

- `Importable` (`StatusIsTrue`, `FilesAndImportsAreKept`): whatever the table holds, the
  sheet has a row to write, as it has when its first row is valid. A commit with
  nothing to write is stored as committed without a transaction, and its status is then
  as true as it can be: `ImportsInv` has that case as `MayBeEmpty`, without hypothesis.
- `Blank \notin Field`, and for the run's samples the two fields they use: what stands
  for no field is no field.

`Min` of a finite set of times is taken with CHOOSE; that it is in the set
(`LeastOfFinite`) is proved by the well-foundedness of strict inclusion.

Only model-checked: liveness and all that depends on fairness or ENABLED; the pure
functions on texts, sheets and dates (`SheetsReadBack`, the scanner's `SplitsBack`),
which would need induction over data; `ReimportUpdates`, which holds of the sheets of the run
and not of all (rows that reach one record by different tuples, section 7);
`SuccessIsEarned`, which ranges over five modules of one script or development
route each and whose races are between two of them, so that the instances of the run
have them all. `PagesShowWhatTheyShould` is about pages with one request under way
(`Overlap = FALSE`), as the run is; with two it is false of three of them (section 7).
In every area the composition that the run checks is proved as well (`AccountsAreKept`,
`MoneyIsKept`, `FilesAndImportsAreKept`, `LoopsHoldTogether`, `SharedStateKept`,
`NothingIsDoneTwice`, and in `Edge` each theorem from `TabsFollowTheirSessions` on is
about the composition itself); the event log, the mailing and the scheduled jobs are
alone in theirs.

`Edge` assumes of its constants what the code has:

- `TimeoutAssumption`: the warning comes within a session's time. The code warns
  5 minutes before the end (`WARNING_BEFORE_TIMEOUT_MS`) of a session of 4 hours or of 30 days.
- `HookAssumption`: a signature is accepted on either side of its time for a tolerance
  of minutes, an event is swept after days, so twice the one is within the other. A
  retention below it would let a replay of a swept event in again.
- `TrailAssumption`: the first crumbs of a page do not fill a batch, which in the code
  holds 50 (`BATCH_SIZE_CAP`); times and thresholds that are not zero.
- `SendAssumption`: the digest walks lists of organizations and of members;
  `ClientAssumption`, `FormsAssumption`, `PanelAssumption`, `ScriptAssumption`: bounds and
  times are numbers.
- `WizardAssumption`, `TeamAssumption`, `DesignAssumption`: bounds are numbers, the
  settings are looked at by a member, presets are designs, and the one that a reset
  goes back to is among them.

The proof of `NobodyIsLeftUntold` corrected the model in two places that the instances
of the run, where every organization has somebody, had not shown: a digest passes an
organization without recipients by, and a message that failed to the last recipient of
an organization is noted as a failure before the walk goes on. That of
`PagesShowWhatTheyShould` corrected another: a dev login opens the app as soon as the
session is read (`handleDevLogin` awaits `checkAuth` and pushes), where the model had it
open in a later step, with a request of the next page able to come between; with
three mounts no behaviour of the run is long enough to show it.

What the theorems of the other areas assume is as modest: a
session and a verification last at least one tick, platform tokens are finitely many, no
two organizations have one founder (who founds one by signing up), some process runs,
each hosted sale is test or live, the mark of a free lock is no process, a limit lets
somebody through, callers are finitely many, a user has an organization, the mark of
what is not there is no user, organization or content, and bounds are numbers. Two of their statements except
what a race outside them has already broken, as the properties do in the runs: `OneOwner`
an organization whose owner was hit by a write from an older read, `PaidOnceInTime` a
caller who came back late or to another process; both races are in section 7.

## 7. Divergences

What a comment, migration or test says and the code does not do. Three have a run:

- `Mailing_cancel`. `cancelCampaign` says "Released but not delivered yet: stop
  those too." The runner starts a scheduled campaign between the cancel's
  statements: the rows it queues are in neither statement's snapshot and go out
  after the cancel.
- `WebClient_signin`. The context switch says that "a remounted page can never read
  the previous tenant's data out of a module-level cache". A sign-in that no
  logout precedes (after a 401, or by the claim of an invite) runs no switch.
- `StaffPages_list`. "keep it fresh in the background": nothing drawn while the
  list of inbound emails loads reads `.data`, and only such a read arms the fetch,
  so the list stays a skeleton.

The others are stated at the end of their modules, with a comment that quotes the
source, and are refuted when they replace the properties of a cfg for the module
(with the constants of section 4 unless said otherwise):

| Property | What happens |
|---|---|
| `EventDelivery!ExactlyOneRuns` (`events.ts:949-952`: "exactly one gets the row") | a pod reserves late, when its row was requeued as stale; a peer with the same key judges that reservation an orphan; the first row is claimed again, takes its own reservation over and runs; the DELETE of the peer, which names the key alone, takes the fresh reservation away, and both handlers run |
| `EventDelivery!CompletedKeyNeverRerun` (`20260922172721_events.sql:22-24`) | requeue, fail and release delete a delivery's receipts even when completed; a replayed row whose claim goes stale runs its handler again |
| `RedisLock!NeverTouched` (`redis.ts:198-199`) | a refresh and the release of one process are in flight together, and the end of the first clears the WATCH of the second; the key lapses and a peer takes it; the EXEC of the release deletes the peer's lock |
| `RedisLock!FailsOpen` | a SET that times out answers false |
| `RedisClient!CloseEnds`, `WindowEnds` | `close()` during SUBSCRIBE finds nothing to close; a process that dies between INCR and EXPIRE leaves a window that never ends |
| `BackgroundLoops!LoopNeverDies` (`inbound-email-reaper.ts:42`) | a reaper's tick that loses the lock returns (line 176) before the `setTimeout` at its end; once a process has ended or Redis has failed, no process's reaper may be left |
| `BackgroundLoops!NoTickRacesTeardown`, `OneDigestPerInterval` | a digest tick is not awaited before the pool closes; its lock is released with the tick, and the second pod sends too |
| `EmailOutbox!AtMostOnce` (`email-outbox.service.ts:2`) | crash between the send and its write |
| `Inbound!NoRetryForEver`, `ExtractedIsFinal` | a row that always fails is taken again after every retry time; a process let in by a lapsed lock writes failed over extracted |
| `Mailing!CancelledIsFinal`, `PreferencesKeepOptOut` | a resume that read the row before the cancel writes scheduled over it; a PATCH of the preferences writes an opt-out back on |
| `Transport!FailureStaysWithItsAddress` | the recipients after a failing address in its organization are passed over |
| `ScheduledJobs!PodsNeverShare` (`main.ts:167-168`, "several pods never double-run") | a pass stamps its whole batch and runs it one job at a time: 20 jobs of up to 60 s outlive the 15 minutes of `STALE_JOB_LOCK_MS`, and another process claims the last of them. Refuted in the run's instance; `NeverDoubleRun` says what does hold |
| `ScheduledJobs!RunsOnce`, `TightestCadence`, `NextFollowsCron` | an update that read the job before its last run ended enables it with the fire already run (2 edits); only the next two fires are measured; a run in flight writes the old cron's next fire |
| `Purchases!EventIsApplied`, `RefundSticks`, `OneCustomer` (2 sales) | an UPDATE that misses and an INSERT that gives way answer 200; a refund before the purchase matches no row; read, create and write are three steps |
| `CreditLedger!NeverPaysForNothing`, `PaymentsGrantCredits` (`FairSpec`) | a refund that fails is logged, a crash refunds nothing; no webhook handler calls `grant` |
| `Mpp!PaidOnce` (the code's own note on replicas) | another process, or the same one later, does not know the deposit address |
| `SignIn!AttemptsOnlyGrow`, `OneCodePerAddress` | email-change/confirm reads and writes back the count; two first sends leave two codes or delete a mailed one |
| `Sessions!RevokedAtOnce` | tokens issued earlier in the same second still pass |
| `Team!OrgKeepsOwner` | a role change, removal or leave that read its target before a transfer leaves no owner |
| `McpOAuth!NoChainOutlivesLogout` | a rotation that revoked the old pair before the cutoff inserts the new one after it |
| `Credentials!OneLiveLink`, `PortalViewersSeeSafeTools` | two issues retire, then insert one link each; a viewer whose last link ended has no binding left |
| `Files!TypeBelongsToBytes` | two PUTs to one raw key mix bytes and type |
| `Imports!LabelsDiffer`, `OneWritePerRecord`, `FailedMeansNothingLanded`, `CommittedIsFinal` | a column called "A (2)" after two called "A"; rows that reach one record by different tuples; a commit that timed out lands; a mapping read before the commit reopens the session |
| `Relay!RetriesNeverDuplicate` | a retry after the retention window creates the event again |
| `WebClient!StoreStaysReset`, `FreshShowsWrites` | a request sent before the switch fills the store; a refetch joins a fetch answered before the write |
| `IdleTimeout!WarnedInTime`, `DestroyStops` | activity inside the throttle restarts the timers and not the token; `forceLogout` leaves its listeners |
| `ImportWizard!CommitsWhatWasShown`, `SettingsPage!ShowsTheServer`, `SignInPage!UserIsTheCookies`, each with `Overlap = TRUE` | answers of two requests under way cross |
| `SettingsPage!CodeForShownAddress`, `SignInPage!CodeWentWhereShown`, `OnlyOwnInvite` | the address is edited while the code is requested; the claim of an invite does not wait for a choice |
| `StaffPages!LastDecisionStands`, `LinksWork` | one `busyId` for all rows; links are signed for 15 minutes at load |
| `DevStack!SignalStops` (`dev.sh:110`), `EndsWithAnyChild` (`:368`) | the handler returns and the script goes on to start the servers; `wait` waits for all |
| `Tenants!FailureIsRolledBack` (`provision.sh:207`), `RollbackTouchesItsOwn`, `EjectHandsOver` | `exit 1` runs no ERR trap; what was found is taken for its own; a transfer that failed is only warned of |
| `Retrofit!NothingSilentlyHalf` (`apply-observability-to-clones.sh:27`) | the sentinel is in the import moved in first, so the run after a failed one skips the hook |
| `DevRoutes!EverySnapshotRestores` ("matches the snapshot moment exactly") | the tables are read one after the other: a row inserted between two reads is in the file without the row it refers to, and the restore is refused |
| `DevRoutes!ChangesAreSeen` with `Heartbeat + Latency` ("any change is visible to the dev panel within 5s") | pushes overtake each other: an older one that arrives last hides the change until the next heartbeat |
| `DesignPage!SavedIsTheFiles` with `Overlap = TRUE` | what was edited while a save or the first load was under way is taken for saved when it lands |
| `TypeCheck!NoLitter` | exits inside the `try` skip its `finally` |

Each has a weaker form that holds and is checked in section 4.

## 8. Not modelled

- Within modelled components: backoff times, the fan-out of one event to several
  subscriptions, `job_history` rows, plan tiers and the ends of paid periods, the
  product catalogue, `redis.ts`'s read-through cache, spreadsheets (CSV is), numbers
  and choices of an import, OAuth client registration, profile and organization settings,
  templates and wording.
- Hazards seen and left without a property: the floor of the stale-claim time
  counts one status write per round (`event-consumer.ts:180`); a SET that times out
  may have been applied, so the lock is nobody's until its TTL (`redis.ts:245`); a
  row reclaimed as stale is sent whatever its attempts
  (`email-outbox.service.ts:230`); the minimum interval is measured between two
  fires (`cron.ts:66`); two checkouts create two customers
  (`product.service.ts:329`); credits paid for are granted by nothing
  (`billing/index.ts:540`); the history row of a crashed run stays running
  (`scheduled-jobs.service.ts:227`). Some of them are the divergences of section 7.
- The remote model itself and documents search (text ranking); of the LLM client
  `Inbound` has the answers and errors the reaper acts on;
  the landing site and server rendering (content and layout), monitoring.
