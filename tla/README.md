# SufBot: verification project

SufBot is a Discord bot with a web dashboard, an HTTP API, a background worker
and paid per-guild subscriptions. This directory holds TLA+ models of its core
logic, the TLC configurations that check them on small instances, and theorems
about them that TLAPS checks for every instance. Paths below are relative to
`src/`.

Contents: [inventory](#inventory) · [modules](#modules) ·
[how the model corresponds to the code](#how-the-model-corresponds-to-the-code) ·
[runs](#runs) · [fairness](#fairness) · [theorems](#theorems) ·
[what the checks found](#what-the-checks-found) ·
[what is not modelled](#what-is-not-modelled) · [plan](#plan)

## Inventory

Four processes share a PostgreSQL database (Prisma), a Redis server and BullMQ
queues: the bot (`apps/bot`), the API (`apps/api`), the dashboard (`apps/web`)
and the worker (`apps/worker`). Packages under `packages/` hold the logic.
Every handler is asynchronous TypeScript: control can pass to another request,
job or process at every `await`, and any process can die between two of them.

### Billing

| component | state it keeps | operations | what must hold |
|---|---|---|---|
| Subscription state machine (`packages/billing/src/state-machine.ts`) | none; a table | `canTransitionSubscription`, `subscriptionGrantsPremium` | statuses move along the table; premium only where the row earns it |
| Reconciliation (`reconciliation.ts`) | `GuildSubscription`, `PaymentTransaction`, `GuildEntitlement`, `Guild.billingEntitlementVersion`, audit rows | `applyState`: one transaction, guarded by the row version, the provider's time and the table | no lost update; older provider state never wins; entitlements agree with the row |
| Webhook ingestion (`provider-events.ts`, `apps/api/src/routes/billing-webhooks.ts`) | `BillingProviderEvent` ledger | record or find the event, mark it PROCESSING, bind the checkout, load, apply, follow-up writes, mark FAILED | each event takes effect once; an acknowledged event is reconciled; a crash leaves nothing stuck |
| Checkout (`checkout.ts`, `plan.ts`, `risk.ts`) | `CheckoutSession` and a PENDING subscription; plan, risk blocks | `createCheckout` (guards, transaction, provider call, second write or undo), status poll | a failed or expired checkout grants nothing and does not undo a payment; a guild is sold one subscription at a time |
| Worker billing jobs (`apps/worker/src/index.ts`) | `BackgroundJobRecord`, delayed jobs | expire-entitlement, cleanup-expired-checkouts, reconcile, retry | a purchase ends once its period is over and not earlier |
| Staff actions (`apps/web/app/actions/billing-admin.ts`) | promotional entitlements, risk blocks | suspend, grant, revoke, block | a stale form changes nothing |
| Management (`management.ts`) | none of its own | authoritative reconciliation, cancel, resume | reconciliation restores the provider's state, decides on the current row, does not prolong a grace period |
| Entitlement service (`entitlements.ts`) | cached snapshot per guild | list, load, invalidate | a committed change of a guild's rows is not undone by an old entry |
| Adapters (`providers/stripe.ts`, `providers/paytr.ts`) | none | verify, normalize, retrieve, `getCapabilities`, `createCheckout` | what a webhook means depends on when the subscription is retrieved |

The billing parts interact through the rows of one purchase. Webhook requests,
the checkout request, the status poll, the worker and the staff form each read a
row, await something, and write; nothing but row versions and the conditions of
`updateMany` keeps them apart. Providers deliver at least once, in any order,
and possibly twice at the same time. This is the hardest part of the system and
the first one modelled.

### Guild features

| component | state it keeps | operations | what must hold |
|---|---|---|---|
| Distributed cache (`packages/cache/src/index.ts`) | process-local map, Redis entries, in-flight loads | getOrLoad, invalidate, publish/subscribe, claimOnce | an invalidated value is not served for longer than its TTL; one claim wins |
| Captcha store (`packages/onboarding/src/captcha.ts`) and verification interactions (`apps/bot/src/verification-interactions.ts`) | challenge, failure counter, lock and cooldown in Redis; verification record in the database | create, verify, consume, record failure, finish | a challenge is solved at most once; wrong answers are bounded; a verified member gets the roles |
| Onboarding journal (`packages/onboarding/src/event-journal.ts`) and service (`apps/bot/src/onboarding-service.ts`) | event rows PENDING / PROCESSING / SUCCEEDED / SKIPPED / FAILED | claim, complete, fail, stale takeover; the worker's daily deletion of old rows | one delivery per event; a failure, a restart or a deleted row costs one repetition at most |
| Onboarding configuration (`packages/onboarding/src/repository.ts`) | version and verification health NOT_CONFIGURED / PENDING / HEALTHY / PARTIAL / BROKEN | update, begin, complete, fail, resource deleted | no edit is lost; a PENDING row belongs to one setup, is not edited and does not stay; a HEALTHY one has the resources it names |
| Guild status (`apps/bot/src/guild-status.ts`, `packages/discord/src/index.ts`) | installation and permission rows, runtime status and heartbeat with a TTL | refresh, remove, shutdown, resolve | what is shown is not older than a TTL and becomes true |
| Guild configuration (`packages/database/src/guild-repository.ts`) | settings and module rows with versions | updateSettings, updateModule | no lost update |
| Access (`packages/auth`, `apps/web/lib`, `apps/api/src/authentication.ts`) | sessions, OAuth credential, access grants, API keys | live access check, token renewal, grant sync | nobody passes on rights lost long ago; users stay signed in |
| Handlers (`apps/web/app/actions`, `apps/api/src/routes`, `apps/bot/src/commands`) | claimed idempotency keys, cooldowns | forms, API calls, commands | a form is stored once for each time its key is free |
| Permissions (`packages/permissions/src/index.ts`) | none | role and command decisions | a command runs with the rights and the cooldown it asks for |
| Signed internal requests (`packages/auth/src/internal-signature.ts`) | claimed nonces in Redis | verify | a request is accepted once |
| Command registration, OAuth, start-up, rendering, configuration | external I/O and data | | out of scope |

The verification setup crosses four of these: the dashboard or the API writes
the PENDING row and queues a job, the bot claims it in the journal, changes the
guild through Discord and completes the row, while administrators save sections
and resources are deleted.

A member's onboarding crosses the gateway's handlers, the panel with its captchas,
the journal and the worker. They share the member's row, the member's roles at
Discord and the queue; none of them holds a lock over an await.

A request about a guild passes session, token renewal, a fetch of the user's
guilds, the sync of grants and an idempotency claim, each of which another
request of the user may be in as well, before it reaches the settings, a
checkout or a refresh of the bot's status.

Every component is listed in `PROJECT.json` with its status, and every hazard
with its line.

## Modules

Five systems share no state and are checked apart: the purchase, the entitlement
cache, the verification setup, a member's onboarding, and the guild with its
requests.

| module | contents |
|---|---|
| `SubscriptionStates` | pure: statuses, transition table, when a row grants premium |
| `BillingStore` | the rows of one purchase, and `applyState` |
| `ProviderEvents` | webhook ingestion, one set of steps per delivery in flight |
| `ProviderReconciliation` | authoritative reconciliation: read the row, ask the provider, apply its answer |
| `StripeAdapter`, `PaytrAdapter` | what a webhook, a callback and a retrieved subscription become |
| `CheckoutJobs` | the checkout request, the status poll, the worker's jobs, the staff form, time |
| `Billing` | the composition, its invariants, action properties and liveness |
| `SubscriptionLifecycle` | the abstract specification: what one subscription promises |
| `MCBilling` | scenarios for TLC: webhooks, put through the adapters |
| `BillingProofs` | theorems about `Billing` |
| `DistributedCache` | the read-through cache for one key: processes, Redis, loads, invalidations |
| `EntitlementService` | the version-checked read on it, its writers, and the unchecked read of other segments |
| `MCEntitlementService` | an instance for TLC |
| `EntitlementProofs` | theorems about `EntitlementService` |
| `OnboardingRepository` | a guild's configuration row: what its transactions check and write |
| `OnboardingJournal` | claims of jobs by idempotency key, with takeover, and the deletion of old rows |
| `VerificationSetup` | administrators, API, the bot's worker, deletions and restarts around one row; its properties |
| `MCVerificationSetup` | symmetry for TLC |
| `VerificationSetupProofs` | theorems about `VerificationSetup` |
| `Captcha` | the captcha store's Redis commands and scripts for one member |
| `CaptchaChallenge` | the abstract specification of a challenge |
| `MemberOnboarding` | a member's row, roles and jobs; the gateway's handlers and the moderators' commands |
| `VerificationInteractions` | the panel's buttons, modals and choices, await by await |
| `VerificationPanel` | the panel with the captcha store; its properties and the refinement |
| `OnboardingDeliveries` | the worker's jobs: messages, roles, evaluations, migration, on the journal |
| `OnboardingMembers` | all of a member's onboarding, with restarts; its properties |
| `MCVerificationPanel`, `MCOnboardingMembers` | configurations of the guild for TLC |
| `VerificationPanelProofs` | theorems about `VerificationPanel`, the refinement among them |
| `OnboardingMembersProofs` | theorems about `OnboardingMembers` |
| `GuildInstallation` | the bot process and its presence in one guild |
| `RequestRoutes` | pure: the steps of every form, API route, staff form and configuration command |
| `GuildRequests` | those steps: sessions, tokens, grants, claims, settings and modules |
| `GuildPurchases` | the steps of a checkout, up to the provider's session, and of staff's blocks |
| `GuildDashboard` | the composition of these four |
| `MCGuildDashboard` | scenarios for TLC |
| `RequestRouteProofs` | what the lists of steps of `RequestRoutes` have in common |
| `GuildProofs` | the parts of the inductive invariant of `GuildDashboard`; every step as a move along a route |
| `GuildTheorems` | theorems about `GuildDashboard` |

`ProviderEvents`, `ProviderReconciliation` and `CheckoutJobs` extend
`BillingStore`, which extends `SubscriptionStates`; `Billing` extends the three
and interleaves them, and maps onto `SubscriptionLifecycle` by
`INSTANCE ... WITH`. `VerificationSetup` and `OnboardingDeliveries` instantiate
`OnboardingJournal`, the one with its requests as the keys, the other with the
jobs' keys. `VerificationPanel` maps onto `CaptchaChallenge`. Everything else
composes by `EXTENDS`, in the order of the table.

## How the model corresponds to the code

**One purchase.** The model follows one guild's purchase from the moment
`createCheckout` has committed its rows. Rows that are always written together are
one record: `sub` is the `GuildSubscription` row (status, version, payment status,
period and grace ends, `providerUpdatedAt`, `providerStateVersion`, and whether
`providerSubscriptionId` is bound), `entitlement` the set of `GuildEntitlement`
rows it owns, `checkout` the `CheckoutSession`. The ledger, payload hashes and
payments are functions of the event id, which is their unique key.

**Atomicity.** A database transaction is one step, and so is a single query.
Everything between two awaits that can be told apart by another actor is a step
of its own. A delivery `d` has a program counter `pc[d]` with the stages of
`ingestWebhook` and `#process`:

| `pc` | code about to run |
|---|---|
| `mark` | set the ledger row to PROCESSING (`provider-events.ts:152`) |
| `bind` | the binding transaction, or the lookup by provider id (386-463) |
| `load` | read the bound subscription (450) |
| `apply` | amount check, the switch over event types, `applyState` (157-332), or the partial-refund transaction (466-526) |
| `checkout` | the follow-up write of the checkout session (333-353) |
| `enqueue` | the jobs enqueued after it, whose errors are swallowed (354-384) |
| `fail` | the catch block (132-148) |

`seen[d]` is the snapshot loaded at `load`; `Apply` uses it and not the row as
it stands. `Fault(d)` is any awaited call throwing, also after the database has
committed. `Crash(d)` is the process dying, or the catch block failing too.

**applyState.** `ApplyState(u)` has the four checks of the code in its guard
(`CanApply`) and every row the transaction writes in its primed variables:
subscription, payment upsert, entitlements granted or revoked at `u.now`, the
guild's entitlement version, audit row, ledger row.

**Normal forms.** The adapters turn a webhook into a normalized event. For
Stripe that retrieves the subscription at each delivery, for PayTR it uses the
time of receipt, so one event id may have several normal forms. `StripeEvents`
and `PaytrEvents` are the sets of forms of a webhook; a set is empty when the
adapter throws. The constant `Normalized` is the set of forms that occur; a
delivery picks any of them. `MCBilling` computes it from webhooks and from the
states in which the subscription is retrieved; no scenario writes a normal form
by hand. `EventsAssumption` says what the proofs need of it. A late
`invoice.payment_failed` of a subscription that is active again becomes an
"activated" event that collected nothing, which the amount check refuses.

**Authoritative reconciliation.** A reconciliation `r` has three steps, which
are the stretches of `#reconcileAuthoritative` between its awaits:
`ReconcileStart` reads the row (`management.ts:245`), `Retrieve` takes the
provider's answer and computes the update from it and from the row that was
read (250-265), `ReconcileApply` runs `applyState` (266-285). It returns early
when nothing changed (`NothingChanged`), throws when an active subscription has
an unpaid invoice and the row may carry premium (`ReconcileAmbiguous`), when
applyState refuses (`ReconcileRefused`), and whenever a call fails
(`ReconcileFails`). `due` is the expire-entitlement job it is run for: on Stripe
that job reconciles instead of expiring (`index.ts:352`). The API, the command
line and the reconcile-subscription job start one at any time (`due` is
`Undefined`); the API's `claimOnce` and rate limit only make that rarer.
`Snapshots` is the set of answers the provider may give. Its `stateVersion`
stands for the string `status:canceled_at:period end`; `Unretrieved` stands for
NULL and for the event ids that a webhook writes in the same column, which are
never equal to such a string. The version tells whether a cancellation is
scheduled, so the comparison of `cancelAtPeriodEnd` is covered by it.

**Other actors.** `CheckoutJobs` has the tail of `createCheckout`
(`StoreProviderSession`, `ProviderFailed`, `CreateDies`), the status poll
(`PollRead`, `PollWrite`), the cleanup job (`CleanupList` outside and
`CleanupExpires` inside the transaction), the expire-entitlement job
(`ExpiryStart`, `ExpiryObsolete`, `ExpiryApply`, `ExpiryFails`) with the queue's
deduplication (`expiryDone`), the staff form (`OpenForm`, `Suspend`,
`CloseForm`) and `Tick`. The page that offers the suspension form keeps the
version it showed, so the form is a stale read held by a human.

**Time.** A natural number of coarse units. `Never` is 0, a NULL date column.
The checkout is created at time 1 and expires later than that; the provider's
answer to `createCheckout` comes within one unit (`Tick` waits for it), because
the call has a timeout of seconds and the checkout lives for at least half an
hour.

**Left out** of these components: the customer mapping rows, notification and
e-mail jobs, the INITIAL/RENEWAL label of a payment, amounts as numbers (an
event's amount matches the plan, mismatches or is absent).

### Entitlement cache

**One key.** `local[p]` is a process's entry, `shared` the one in Redis, both
with the ticks they have left; `inflight[p]` is the promise that the calls of
`getOrLoad` in `p` share; `call[r]` and `reader[r]` are the places of a reader in
`getOrLoad` and in `listGuildEntitlements`. Every Redis command may fail, which
the code treats as a miss or ignores. A publish deletes locally, deletes in
Redis and announces; the message reaches any subset of the subscribers.

**The check.** `ReadVersion` reads the guild's version; a snapshot that is
`Outdated` is invalidated and looked up once more, and the second one is believed
only with the same version. `of` in a snapshot is auxiliary: the version the
guild had when the rows were read, which the code does not know; so is `calm`.
`ReadIsCurrent` compares versions: a read returns no rows older than the version
it has found. The end of an entitlement changes no version, so about the end
there is only `CalmReadIsExact`, of reads that nothing disturbs.
`checked` is FALSE for the other segments of the cache (guild configuration,
onboarding configuration), which are read without a check.

**Writers.** A commit of the subscription's entitlements, or staff's grant or
revocation of a promotion, increments the version in its transaction; then the
process publishes.

### Verification setup

**One guild, several requests.** A request `q` is an administrator who has a
page open (`Open`: the page's hidden `expectedVersion`) and saves a section or
asks for a setup. `api[q]` is where the API handler is; `pending[q]` is the
version its PENDING row got, which the job carries as `pendingVersion`. The
section contents are represented by `config.edited`, the version that last
changed them: two equal numbers are equal contents.

**Transactions.** Prisma's transactions run at PostgreSQL's default READ
COMMITTED, so each is a read step and a write step: `Submit` and `CommitEdit`,
`CommitBegin` or `Conflict`; `Undo` and `CommitUndo`; `Complete` and `Commit`;
`Fail` and `FailWrite`; `Notice` and `NoticeWrite`. Only `#update` and
`beginVerificationSetup` repeat the version in the write (`SameRow`).

**The job.** `job[q]` is BullMQ's view of it, `run[q]` the place in `#process`
and `#setupVerification`:

| `run` | code about to run |
|---|---|
| `claim` | `OnboardingEventJournal.claim` (`onboarding-service.ts:813`) |
| `check` | guild, permissions and version (1264-1342); a mismatch of the version is thrown without `failVerificationSetup` |
| `setup` | channel, roles and overwrites (1355-1390) |
| `panel` | the message with the button (1391-1422) |
| `complete`, `commit` | `completeVerificationSetup` (1423-1452), read and write |
| `record` | the journal, migration job and status refresh after it (1453-1475) |
| `fail`, `failWrite` | `failVerificationSetup` in the catch block or before a refusal |
| `leave` | `journal.fail` and the rethrow (858-865), or `#skip` |

Roles and channels are one resource per setup: what matters is that a setup
chooses or creates something, that it may be gone later, and that the row names
it. A row that `claim` has just created and one it has not are both claimable,
so they are one value (`NONE`). A throw queues the job again until `MaxAttempts`;
a return completes it. A crash drops every run and handler; BullMQ gives a
stalled job out again, once. A run that outlives its lock while its process is
alive is left out: the worker renews the lock. So is the deletion of the setup's
journal row, which is younger than the history the configured plans keep (seven
days at least; the schema would admit none).

**Switches.** `Faults` lets any call fail, also after it took effect. `StaleReads`
lets the cached read of `check` be behind. `Deletable` names the resources that
may disappear. A dry run changes no row and is left out.

### A member's onboarding

**Redis.** Each command or script of `captcha.ts` is one step of `Captcha`: the
admission script, the MULTI that replaces a challenge, the scripts that consume,
fail and append a choice. `challenge[c]` is the hash with the attempts left and
the choices made; the challenge, lock, failure and cooldown keys may expire.

**Interactions.** `inter[s].at` names the await an interaction stands at:
`admit`, `previous`, `store`, `created` for a start; `read`, `append`, `verify`,
`consume`, `fail` for an answer; `record`, `write` and `queue` for what follows.
`#recordResult` is a transaction at READ COMMITTED, so it is two steps: `ReadRow`
reads the member's row and computes `screened` from it, `Record` writes that back.
The job is queued after it.

**Jobs.** A key such as `<< "roles", "JOIN", 1 >>` is the job's idempotency key
and its BullMQ identity; `job[k]` is BullMQ's view (a restart stalls a job once,
a failure queues it again up to `MaxAttempts`), `run[k]` the run of `#process`,
`journal[k]` the event's row. `Forgotten` names kinds of job that BullMQ removes
from its history within the run, so that the same key may be queued again.
`Outlived` names kinds of job whose journal rows the worker's daily cleanup may
delete within the run (`CleanupEvents`, once per key); `complete` and `fail` throw
when the row is gone (`RowGone`).
`handler[h]` is one handler of the gateway's member events or one moderator's
command, with a step for every await. `run[k].todo` is the set of roles that are
still to be tried; `#assignRoles` goes through them in the order of `RoleOrder`,
which `NextRole` follows.

The reads with which a job's preparation begins are one step (`Load`), though the
code awaits several: none of them writes, and the awaits after them, up to each
message, role and row, are steps of their own.

**Settings** are a record of the switches of `GuildOnboardingConfig` that decide
something; an administrator may change them while jobs are queued.

### A guild and its requests

**Presence.** `member` is the truth at Discord, `known` the client's cache, `bot`
the phase of the process between login and exit. `refreshGuild` is a run with two
writes, `StoreInstalled` (the database) and `WriteStatus` (Redis, with its TTL);
what it reads before the first is one step, `BeginRefresh`, since only the answer
it ends with decides. `removeGuild` is the other pair. `Resolved` is what the
dashboard and the API make of status, heartbeat and row. A `Tick` is one period of
the heartbeat's timer (15 s).

**Requests.** `RequestRoutes` lists for every handler the steps it takes, in the
order of its awaits; `request[q].todo` is what is left of the list, and each
step is an action of `GuildRequests` or `GuildPurchases` that goes on or ends
the request. So the order of the guards is data that can be read next to the
code: a form of `actions/guild.ts` claims its idempotency key before it checks
the session, one of `actions/onboarding.ts` after it; the commands of the bot
check the rights Discord sent with the interaction and then the cooldown.
`Load` and `Commit` are the two halves of a READ COMMITTED transaction. A claimed
key is free again after `KeyTime` periods (`RequestsAge`), as everything else with
a TTL; `turn[key]` counts how often it was, and `stored[key]` has the turn in which
each stored change was claimed. Both are auxiliary.

**Purchases.** `sales` are the subscriptions of one guild with their checkout
sessions. `Create` is the transaction of `createCheckout`, refused by the unique
index `GuildSubscription_one_effective_per_guild`; `Sell` the provider's answer;
`Record` and `Undo` the two writes that may follow. Everything `Billing` says
about one purchase afterwards is one step here (`Settle`). In it the customer's
payment and its webhook are one: a payment that is under way when cleanup expires
the sale is left out, and would be refused, since EXPIRED has no way out
(`state-machine.ts:20`).

**Limits** are the scenarios: which requests come, through which doors, how
often the membership, the user's rights or a process change. Each initial state
picks one, and the runs check all of them.

## Runs

Bounds are in the configuration files, as constants: how many events,
interactions, jobs, requests, failures and restarts there are, and how far time
goes.

| run | instance | checks |
|---|---|---|
| `purchase` | Stripe; two concurrent deliveries, three in total, of the events of a purchase; faults, one crash, poll, cleanup | `TypeOK`, `EntitlementBacked`, `ProcessedWasApplied`, `AuditIsHistory`, `NoStaleOverwrite` |
| `life` | Stripe; five deliveries, one at a time and without failures: activation, wrong amount, renewal, failure, cancellation, deletion, partial and full refund, dispute won and lost, staff suspension | `PremiumWasPaid`, `AppliedAtMostOnce`, `ImplementsLifecycle` |
| `reconcile` | Stripe; two concurrent reconciliations, three in total, next to two deliveries, with faults | `GraceIsNotProlonged`, `DecidedOnCurrentStatus` |
| `settles` | PayTR with fairness; redelivered callbacks race with one another and with the expiry job, no fault and no crash | `ExpiryRespectsRenewal`, `EventSettles`, `PaidPeriodEnds` |
| `acknowledged` | PayTR with a crash: expected to fail, see below | `AcknowledgedMeansReconciled` |
| `cache` | bot and API, one writer; two readers in the bot, or one while an entitlement is prolonged or taken away (`Starts`); every Redis failure, lost and late messages, evictions, restarts; fairness | `TypeOK`, `ReadIsCurrent`, `CalmReadIsExact`, `EventuallyCurrent` |
| `setup_faults` | two requests, one attempt and one restart of the bot, failing calls, stale cache, deletions | `TypeOK`, `ExclusiveSetup`, `EditsRefusedWhilePending`, `EditsOnWhatWasSeen`, `PendingIsUnfinished` |
| `setup_settles` | two requests, two attempts, deletions, fairness, no failing call | `PendingHasOwner`, `OthersSetupSurvives`, `SetupSettles` |
| `panel` | two overlapping interactions of one member, two challenges of two choices, all keys expire | `OpenChallenges`, `FailuresBounded`, `ImplementsChallenge` |
| `members` | captcha, screening, a moderator, welcomes, goodbyes, roles, tests and a migration in eight settings, with two runs of the worker, a failure or a restart, a changed configuration, forgotten jobs and deleted journal rows | `VerifiedWasEarned`, `SentOnce`, `WelcomedWhenVerified`, `OwedRoleIsGiven` |
| `screening_lost` | captcha and screening of one member, no failure: expected to fail, see below | `ScreeningIsKept` |
| `guild` | the bot's presence, two overlapping requests at a time and purchases, in the scenarios of `MCGuildDashboard`; fairness | `TypeOK`, `OnlineIsRecent`, `AccessIsRecent`, `SubmittedOnce`, `SettingsTrailIsHistory`, `CredentialSurvives`, `OneSale`, `PresenceSettles` |

*Why the bounds are enough.* Nearly every race in this code is between two
writers of one row or key, so two of a kind in flight, next to the timer, the
worker or a restart, show each of them.

- Billing: a third delivery in total is needed for "processed, then delivered
  again while another event is applied". Longer histories matter only for the
  order of event types, which `life` explores. A third reconciliation is a
  repetition after two that overlapped.
- Setup: two requests are enough for one setup or edit to meet another; the third
  party of every race is the gateway, a restart or a retry of the same job.
  `OthersSetupSurvives` is stated for behaviours without a deletion and checked
  where no queue call fails, because the unconditional updates of completion and
  failure can otherwise overwrite what came between.
- Panel: two starts, two answers, or one of each; a challenge that replaces
  another needs two. With two attempts, one wrong answer leaves the challenge
  open and the next one locks it.
- Members: a member who joined once; rejoining would multiply the keys without a
  new pair of writers, since every job names its join. The kind of job that BullMQ
  forgets and whose rows are deleted (`Forgotten`, `Outlived`) is the welcome in a
  channel, which a joining member's handler and several evaluations queue; a row
  is deleted once, which is enough to come before, during and after a run. A claim
  ages once its run is gone: BullMQ gives a job to a second run only when it has
  given up the first.
- Cache: times to live of one tick, so that entries outlive a read in some
  behaviours and expire within it in others; two versions, so that there is one
  old and one new. The safety properties are also proved without bounds.
- Guild: the scenarios keep what cannot interfere apart (rights, updates,
  renewals, purchases, presence), and combine what does: settings through the
  API and the bot, a refresh asked of a bot that starts, blocks while somebody
  buys. A key stays claimed for one period, so that a form may come back within it
  and after it. `Busy`, `Cooldown`, the TTLs and `Freshness` are scaled down to two or
  three periods, in the order of their size.

Where a configuration says `CHECK_DEADLOCK FALSE`, the model stops when its
bounds are exhausted, and an idle system with nothing to deliver stops
legitimately. `RequestSymmetry`, `ReconcilerSymmetry` and `Symmetry` permute
interchangeable requests, reconciliations and interactions in safety runs; no
liveness run uses symmetry.

Every safety property of the passing runs but three is also proved, without any
bound (see [theorems](#theorems)); there the runs show that the interesting states
are reached. The three are `AppliedAtMostOnce`, `PendingHasOwner` and
`OwedRoleIsGiven`, which hold only where nothing fails or overlaps, and are checked
there. The liveness properties are checked by the runs alone.

## Fairness

No formula makes a customer pay, a provider deliver, an administrator act, a
call fail or a process die. What is assumed weakly fair, and why:

| module | assumed | because |
|---|---|---|
| `Billing` | steps of a delivery that has begun; time; the expiry job | Node's event loop resumes a handler whose awaited call settled; BullMQ delivers a due job |
| `EntitlementService` | `Tick`, the steps of a read and of a load that have begun | the same; nothing is assumed of publishers and messages, so `EventuallyCurrent` rests on the TTL alone |
| `VerificationSetup` | the API's handler, the worker with a queued job, deletion events | the same |
| `GuildDashboard` | the bot's start, deliveries of the gateway, its timer, each write of a refresh or a removal, its shutdown; a fetch arrives or is aborted by its timeout; time | the event loop and timers of a process that is there; starting the bot is nobody's duty |

`EventSettles` and `PaidPeriodEnds` need an instance without faults and crashes:
with them the code loses the job or leaves the row. `SetupSettles` needs neither
calls that fail nor restarts, for the reasons below. `OwedRoleIsGiven` needs no
fairness: it says what is true once everything that was begun has ended, which
`OnboardingMembers` does not promise to happen. `PresenceSettles` and
`EventuallyCurrent` hold whatever has failed before.

## Theorems

`BillingProofs` proves, for every set of events, any number of concurrent
deliveries and reconciliations and any bounds, from the assumptions named in
the modules (`StoreAssumption`, `EventsAssumption`, `SnapshotsAssumption`,
`BoundsAssumption`):

| theorem | property |
|---|---|
| `TypeCorrect` | `[]TypeOK` |
| `AuditTrailIsHistory` | `[]AuditIsHistory` |
| `ProviderTimeGrows` | `NoStaleOverwrite` |
| `EntitlementsAreBacked` | `[]EntitlementBacked` |
| `SnapshotInvariant`, `DecisionsAreCurrent` | `DecidedOnCurrentStatus` |
| `GraceNotProlonged` | `GraceIsNotProlonged` |
| `PremiumIsPaid` | `[]PremiumWasPaid` |
| `BillingImplementsLifecycle` | `ImplementsLifecycle` |
| `ProcessedEventsWereApplied` | `[]ProcessedWasApplied` |
| `RenewalsAreRespected` | `ExpiryRespectsRenewal` |

*The argument.* Type correctness is one lemma per actor; `EventUpdateType` shows
that whatever event meets whatever loaded row, `#process` builds a well-formed
update. Then `Writers` reduces the twenty-odd actions to the few that touch the
subscription: `applyState` on behalf of a delivery, a reconciliation, the worker
or staff, the
undo of a failed checkout, and the cleanup. `ApplyStateEffect` and
`OtherWrites` say what these do, column by column. On top of that:

- `AuditIsHistory` is not inductive. `AuditEndsAtRow` is added: an audit row at
  the current version ended in the current status. It holds because every
  writer of the status increments the version.
- `EntitlementBacked` would be broken by the undo of a failed checkout, which
  writes CANCELLED without looking at the row. `SessionInv` shows that it finds
  PENDING: before the provider session is stored no delivery, form or job can
  exist, and the checkout has not expired yet.
- `DecidedOnCurrentStatus` rests on `SnapshotsAreOld` and `ReconcilersAreOld`:
  what a delivery or a reconciliation read differs from the row only if the
  versions differ. `ReconcilersAreOld` also says what a computed update is: dated
  by the version that was read, active only with a paid invoice, and different
  from the row that was read.
- `GraceIsNotProlonged` follows: a reconciliation that is applied found the row
  it had read, and what it writes differs from it in status or in the
  provider's version; an event forgets the retrieved version.
- `PremiumWasPaid` rests on `PaidWasConfirmed`: ACTIVE, PAST_DUE, GRACE_PERIOD,
  SUSPENDED and DISPUTED are entered from each other or through ACTIVE, and
  ACTIVE only by an event that confirms a payment or by a retrieved subscription
  whose invoice is paid. It needs `SnapshotsAreOld`,
  since an event that leaves the status alone writes the status it *loaded*.
- The refinement puts these together: every step of `Next` is a move along the
  table or a stutter.
- `ProcessedWasApplied` is inductive. Only deliveries write the ledger, and the
  two steps that write PROCESSED write the audit row or the refunded payment in
  the same transaction; nobody takes either back.
- `ExpiryRespectsRenewal` rests on `ExpiryIsDue`: the job starts only at the end
  of the period that it has read, and while the version is the one it read, so is
  the period's end. Every renewal increments the version.

`VerificationSetupProofs` proves, for any number of requests, attempts, restarts
and resources, with every call failing or not (`SetupAssumption`):

| theorem | property |
|---|---|
| `TypeCorrect` | `[]TypeOK` |
| `VersionsHold` | `[]VersionInvariant` |
| `SetupIsExclusive` | `[]ExclusiveSetup` |
| `PendingIsNotEdited` | `EditsRefusedWhilePending` |
| `NoUpdateIsLost` | `EditsOnWhatWasSeen` |
| `SetupsOfOthersSurvive`, if no call fails | `OthersSetupSurvives` |
| `PendingIsNeverFinished` | `[]PendingIsUnfinished` |

*The argument.* The first three properties are not inductive: they speak of the
moment of a write, and the check was made earlier. `VersionInvariant` carries
the check over: while the version a request expects is still the row's, the
contents are the ones it saw, and if its transaction has passed the check, no
setup is in progress. It is kept because each of the six writers increments the
version (`WritesWrite`), so after a write no request expects the row's version;
every other step leaves the row alone (`StepKinds`). The same fact makes the
versions of two PENDING rows differ (`PendingIsOwn`).

The last two theorems are about runs that end a setup. `completeVerificationSetup`
and `failVerificationSetup` check the owner and write without repeating the check.
`WritersOwn` carries it from the check to the write: a run that would end another
setup, or one that has ended, must have lost its own in between, and besides the
undo of a submission that failed only the handler of a deletion ends a setup it
does not own (`NobodyOwnsThen`). For `PendingIsUnfinished`, `FinishedInv` adds
where a run can be that has nothing to end any more: a run settles its row as done
or skipped only after the configuration was completed, failed, or found to be
another's, and what was ended is never PENDING for the same request again, since
its version is gone. No call that fails and no restart disturbs that, so the
theorem has no hypothesis. That the owner of a PENDING row is still to *run* is
another matter, which a restart falsifies; `PendingHasOwner` is checked without
one.

`EntitlementProofs` proves, for any number of processes, readers, writers,
messages and versions and any times to live (`CacheAssumption`,
`ServiceAssumption`):

| theorem | property |
|---|---|
| `TypeCorrect` | `[]TypeOK` |
| `ReadsAreCurrent` | `[]ReadIsCurrent` |
| `CalmReadsAreExact` | `[]CalmReadIsExact` |

*The argument.* `ReadIsCurrent` compares the rows behind a snapshot with the
version its reader wanted, and only the last check of the read relates them.
The invariant says what a snapshot is worth on its way through the caches:
its rows are at least as new as the version it carries (`Fresh`). A load makes
such a snapshot because it reads the version before the rows, which `LoadHolds`
keeps while the load is between the two; entries, messages, restarts and failing
commands only copy or drop it (`Kept`). A reader who believes a snapshot has
found in it the version it read itself. The opposite order of the two queries
would break the invariant, and is the mutant of the run.

`CalmReadIsExact` asks for more: earlier failures may have left old entries in the
caches, and the read that nothing disturbs must not return one. `TruthsHold` says
what entries can be: one with the rows of the current version says what the guild
is entitled to, or that it is entitled to nothing any more, which a clock that
only advances keeps true. `CalmHolds` follows the read: it meets no load but its
own, and what it invalidated is gone when it looks a second time, so that it loads
what is there.

`VerificationPanelProofs` proves, for any number of interactions, challenges,
choices, attempts, joins and commands (`CaptchaAssumption`, `MemberAssumption`):

| theorem | property |
|---|---|
| `OpenChallengesBounded` | `[]OpenChallenges` |
| `FailuresStayBounded` | `[]FailuresBounded` |
| `ChallengeImplemented` | `ImplementsChallenge` |

*The argument.* A start reads the current challenge and replaces it two commands
later. `IntersHold` says that it is alone meanwhile: the admission set the
cooldown, which nobody is admitted under and which outlives both commands. So
what it replaces is the current challenge, unless an invalidation deleted the
current one in between; then a challenge may stay open that `active` does not
name. `OrphansBounded` counts those against the invalidations that are past
their deletion (`Dropped`), each of which runs once because joins and commands
are numbered (`CountsHold`). `BudgetsHold` carries the failures a start has read
to the moment when its challenge gets what is left of the attempts; wrong
answers to the challenge it replaces may come in between, which is why the bound
has a second budget. The refinement needs one fact more, that a consumed
challenge is never open again (`CaptchaHolds`); then it goes step by step: a
`Store` issues, a consumption solves, and lockout, invalidation and expiry lose.

`OnboardingMembersProofs` proves, for any configurations and bounds, any number
of jobs at a time, interactions, restarts and failures, from no assumption on
the constants:

| theorem | property |
|---|---|
| `VerifiedIsEarned` | `[]VerifiedWasEarned` |
| `MessagesAreSentOnce` | `[]SentOnce` |
| `WelcomesAreEarned` | `[]WelcomedWhenVerified` |

*The argument.* What happened to the member only grows (`EarnedGrows`), so a
snapshot of it stays true however late it is used. The invariant follows it from
where it happens to where it counts: an interaction with a result has consumed a
challenge and a handler of an update belongs to a screening, so the row says no
more than what happened (`RowHolds`); an evaluation that was satisfied by the row
gives roles and queues welcomes (`VerifiedHolds`, `WelcomesHold`). The third
theorem also needs that nobody else queues a welcome for a verification
(`HandlerKeys`). For `SentOnce`, `SentHolds` is an account: every
message but the one its row stands for (`Delivered`) was paid for by a failure, a
restart or a deletion, and a run whose row was deleted under it before it has sent
anything (`Pending`) may still spend that deletion. `RunsHold` keeps a key's runs
apart. All
steps of the worker reduce to `DeliveryKeeps`, those of everybody else to
`OutsideKeeps`.

`RequestRouteProofs`, `GuildProofs` and `GuildTheorems` prove, for any number of
requests, keys and refreshes, any lifetimes and any limits
(`InstallationAssumption`, `RequestsAssumption`, `PurchasesAssumption`):

| theorem | property |
|---|---|
| `TypeCorrect` | `[]TypeOK` |
| `OnlineIsRecentAlways` | `[]OnlineIsRecent` |
| `AccessIsRecentAlways` | `[]AccessIsRecent` |
| `SubmittedOnceAlways` | `[]SubmittedOnce` |
| `SettingsTrailAlways` | `[]SettingsTrailIsHistory` |
| `CredentialSurvivesAlways` | `[]CredentialSurvives` |
| `OneSaleAlways` | `[]OneSale` |

*The argument.* A request is a list of steps that grows shorter, so what the
invariant knows of it is which steps are left. `RoutesSound` shows, route by
route, the order every handler keeps (`Ordered`), and each action is a move
along the list (`Moves`, `Kin`). The rest is one part of the invariant for each
property, about the requests between two steps:

- `StatusHolds` and `RefreshHolds`: the age of what a refresh saw and the time a
  status has left add up to no more than `StatusTtl` and the run time of a
  refresh.
- `RightsHold`: the same sum for a list of guilds that is fetched, received and
  kept as a grant, whose time since the rights were lost and time left never
  exceed `Longest`.
- `KeysHold`: whoever has claimed a key in one of its turns and has still to commit
  (`Stores`) is the only one in that turn, and nothing that was claimed in it is
  stored yet. A key that becomes free has another turn (`Taken`), so a request that
  outlives its claim does not meet the next one in its own. The forms claim before
  they commit, and commit once.
- `TokensHold`: a renewed token that is about to be kept is usable, and where
  tokens rotate nobody else knows it, so nobody else uses it up.
- `SalesHold`: whoever has created a sale and has not handed it over (`Sells`) is
  alone, and the sale is PENDING; the unique index refuses the next one.
- The trail's length is the version of the settings, since `Commit` repeats the
  version in its condition.

Only model-checked: the liveness properties `EventSettles`, `PaidPeriodEnds`,
`SetupSettles`, `EventuallyCurrent` and `PresenceSettles`, which depend on fairness,
hence on ENABLED, which the prover does not handle; and `AppliedAtMostOnce`,
`PendingHasOwner` and `OwedRoleIsGiven`. A theorem about these would have to assume
away the overlaps, failures and restarts that break them.

## What the checks found

Two documented promises are refuted by a run each.

*Reconcile, then reply OK* (`docs/paytr.md`). A repeated callback is answered OK
while the ledger row says PROCESSING. If the process that set it died, the row
stays PROCESSING and every later repetition is answered OK (`acknowledged`,
`AcknowledgedMeansReconciled`).

*A completed screening is persisted* (`docs/onboarding.md:24-25`). `#recordResult`
reads the member's row, computes from it and from Discord's member whether the
screening is completed, and upserts the row with that in a later await
(`verification-interactions.ts:459-517`). A screening that
`handleMemberUpdate` commits in between is written back to not completed
(`screening_lost`, `ScreeningIsKept`). Where the guild asks for both, it may be that neither of
the two evaluations finds the condition met, and the member stays without the role.

Others became visible while the code was modelled, and the models contain the
steps that lead there. Properties are stated so that they speak of what the code
does keep.

Billing:

- Nothing claims a ledger row between the lookup and the update to PROCESSING.
  Two deliveries that both saw RECEIVED or FAILED apply the event one after the
  other (`docs/stripe.md` says events are deduplicated). The second application
  is idempotent on the row apart from the version, the audit trail and the
  entitlement version; `AppliedAtMostOnce` is checked with one delivery at a time.
- An entitlement whose end has passed may still be returned: the second snapshot is
  believed on its version alone (`entitlements.ts:114`), and the old entry is there
  again when its deletion in Redis failed or another read put it back.
  `docs/premium-entitlements.md:12` says that cache failures never grant access;
  here they prolong it until the entries have expired.
- `invoice.paid` is matched by an id which only `checkout.session.completed`
  binds, and is dated by the invoice. Paid a moment before the session was
  completed, it is first refused as unmapped and then as older.
- A retrieved subscription that was never cancelled is dated by its creation,
  which precedes every webhook that was applied. `applyState` refuses the answer
  as older, so reconciliation does not restore a suspended subscription
  (`docs/billing-operations.md` says it does).
- A failed checkout leaves a CANCELLED subscription, which counts as effective;
  the guild cannot check out again until somebody changes the row
  (`GuildPurchases.Undo` and `Effective`).
- `cancelAtPeriodEnd` and `resume` build the idempotency key from `id:key`
  (`management.ts:116-145`), and the key builder (`security.ts:30`) refuses a
  colon: both throw before the provider is called.
- The jobs that sweep stale subscriptions, and retry-provider-event, have no
  producer in the repository.

Guild features:

- A bot that restarts during a setup gets the job again as soon as BullMQ sees it
  stalled, but the claim of the dead run is younger than the 120 s of `claim`;
  `#process` returns and the job is completed. The row stays PENDING, and every
  edit and every setup is refused (`docs/onboarding-operations.md` says that
  PENDING means an exclusive job owns the configuration).
- A resource that is deleted after a setup resolved it and before the setup
  stored its id goes unnoticed, and the row becomes HEALTHY
  (`docs/verification.md` says a deleted one marks the health BROKEN).
- `updateModule` checks the version and upserts without it, so two updates of one
  version both commit (`docs/architecture.md:128` promises a conflict). The
  settings are updated on the condition of the version, and only they are held
  to `SettingsTrailIsHistory`.
- Step 6 of `docs/discord-oauth.md:54` checks the bot's installation before a
  change; the actions on settings and onboarding never do. Only the checkout
  has the step `installed`.
- Invalidations reach the bot only; no other process subscribes
  (`docs/architecture.md:112` speaks of every process).
- The member's verification is recorded before the role job is queued. If the bot
  dies in between, the next start is refused as already verified.
- A message that was sent when the journal could not be written is sent again by the
  retry (`onboarding-service.ts:905-920`); `docs/threat-model.md:67` says that retries
  cannot repeat an effect of one idempotency key. A job that is queued again
  under a key whose row the worker has deleted is delivered again as well. `SentOnce`
  counts both.
- Only the change of `pending` from true to false queues an evaluation
  (`onboarding-service.ts:599`, as `docs/autoroles.md:12` says). A member who joins
  without a screening gets none, and under SCREENING_ONLY or EITHER stays without
  the role until something else, such as a captcha or a moderator, queues one;
  `OwedRoleIsGiven` speaks of captchas alone.
- An idempotency key is kept for ten minutes (`actions/guild.ts:32`). A form that
  names no version, as that of a command's override, is stored again when it is
  submitted after that; a form that names one is refused by it.
- Two starts that overlap an invalidation of a leaving member may leave one
  challenge more open than the store intends (`OpenChallenges` says how many).

## What is not modelled

See the components with status `not_modelled` or `partly` in `PROJECT.json`.

- Rendering, templates, message building, welcome cards and configuration parsing
  are data. Signature and HMAC verification are functions of the input: the
  adapters have their outcome as a field.
- Of the bot's commands, those that concern its configuration are modelled, and the
  moderators' verify and unverify as far as they act on a member. Diagnostics and
  platform administration read and report.
- The API's signed internal requests: the nonce claim (`internal-signature.ts`), and
  the invalidation they publish without having written anything.
- The durable job record: what a worker skips because a record says COMPLETED is
  modelled for the expiry job (`expiryDone`) only.
- The cache's other keys, except as what evicts this one, and the bulk listings of
  the dashboard.
- What happens to guilds, members and purchases other than the one a module is
  about; they appear as limits that are used up and locks that are taken.

## Plan

Done, in this order: `Billing` with its refinement and proofs;
`ProviderReconciliation`; `VerificationSetup` with its proofs; a member's
onboarding (`Captcha` to `OnboardingMembers`) with its proofs; the adapters;
`DistributedCache` and `EntitlementService` with their proofs; the guild's
presence, requests and purchases with theirs.

Left, in the order of what it
would add:

1. The durable job record with its fire-and-forget failure update, and the
   listing of stale subscriptions, around the worker's jobs.
2. The commands of the bot that are left, on the permissions' rules.
3. Proofs about what the models are built from: the adapters' events are among
   those `EventsAssumption` admits, and `OnboardingMembers` keeps the type of its
   variables.
