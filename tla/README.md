# WCTM, specified in TLA+

WCTM connects WooCommerce stores with Telegram. WooCommerce posts webhooks to a
NestJS backend, which stores them, projects them into a database of orders and
stock, and tells the people of a tenant about them through a Telegram bot; the
bot's users read orders and change them through the backend. PostgreSQL (over
Prisma) holds everything that lasts, and one BullMQ queue named `operations`
holds the jobs.

This directory holds TLA+ modules of the parts of the backend where order,
concurrency and failure matter, TLC configurations that check them on small
instances, and theorems that TLAPS checks for every instance. Paths below are
relative to the repository; `b/` stands for `backend/src/`.

## 1. Inventory

| Component | State | Operations | What makes it correct |
|---|---|---|---|
| Operations queue, `b/queue/queue-runtime.service.ts` | BullMQ jobs (id, state, attempts, lock) | add under a deterministic id, fetch, retry, fail, stalled check, retention, `failed` listener | an id has one job while it is retained; three attempts; a dead letter for each exhausted job |
| Webhook ingestion, `b/webhooks/` | `WebhookEvent` rows | authenticate, persist or find, enqueue, mark QUEUED | a 200 means the event is on its way; redeliveries change nothing |
| Webhook processor, `b/queue/woocommerce-webhook.processor.ts` | status, lease and attempt count of the events | claim, project, schedule, complete, release, fail, dead-letter | one live worker per event; COMPLETED means done; every event settles |
| Order projection, `b/orders/` | `Order` rows | project, reconcile by one fetch, delete, restore | an Order never goes back; deletions are the store's |
| Order notifications, `b/queue/order-notification.*` | `TelegramOrderNotificationDelivery` rows | schedule, claim, revalidate, POST, persist, dead-letter | one message at most; a verdict for every record; verdicts are true |
| Delivery to the bot, `b/telegram/telegram-delivery.client.ts`, `telegram-bot/src/internal-delivery.server.ts` | none | POST with a timeout, `sendMessage` | the outcome reported is not better than the one known |
| Inventory projection, `b/inventory/` | `InventoryItem` rows with incidents | project, reconcile, delete, bootstrap pages, signal | no regression; each level alerts once per incident |
| Inventory notifications, `b/queue/inventory-notification.*` | captured recipients, delivery rows | capture once, enqueue, deliver | recipients are those of the incident's policy; one message at most |
| Inventory bootstrap, `b/queue/inventory-bootstrap.*` | cursor, revision and lease of the `Store` | one page per job, advance, enqueue the next | it ends, in READY or FAILED, and never on a stale lease |
| Orders in Telegram, `b/telegram/telegram-order.service.ts` | callback references, status writes, note actions | list, detail, refresh, status write, notes | a confirmed write has one effect and one audit entry |
| Telegram linking, `b/telegram/telegram-linking.service.ts` | accounts, chat authorizations, link tokens | issue, redeem, unlink | a token links once; an unlinked chat gets nothing; an identity has one user |
| Telegram settings, `b/telegram/telegram-settings.service.ts` | the `Store`'s settings, references, audit entries | summary, typed values, desired changes | a reference changes its own store, once; the audit log explains the settings |
| Lists, search, report, `b/telegram/`, `b/inventory/telegram-inventory.service.ts` | references to pages and rows | page forth and back, open a card, search, report a day | no row is skipped or opened for another; a report counts its day |
| Store registration, `b/store/` | tokens, plugin secret, webhook credentials | issue, register, confirm, rotate | a token registers once; a healthy store's webhooks are the current ones |
| Memberships, users, tenants | roles | add, change, remove | a tenant keeps an owner |
| Entitlements | plan, status, expiry | resolve, assert, manage | nothing leaves an inactive tenant |
| Accounts and rate limiters | users, Redis windows | register, log in | limits hold; a dead Redis refuses |
| Tenant isolation | none | scope each query | no row of another tenant |
| Privacy and pilot operations, `b/privacy/`, `scripts/ops/` | the rows of a store or account, the erasure ledger and its archive, backups | disconnect, export, scrub, erase, restore, replay | what is erased stays erased, also over a restored backup |
| Encryption, key rotation | key ids in rows | encrypt, decrypt, rotate | every row stays readable |
| WooCommerce client | none | requests with retries and a total timeout | bounded time, classified errors |
| Telegram bot, `telegram-bot/src/` | recent update ids, dialogues | handle updates, call the backend | an update has its effect once |
| WordPress plugin, `wp-content/plugins/` | its credential, webhook secret, webhooks | connect, install, confirm, uninstall | it holds what the backend authenticates with |

How they interact: ingestion, schedulers and the bootstrap add jobs to the
queue; its worker calls the processor of the job's name; the webhook processor
calls a projection and then a scheduler; notification processors read the
projected rows and the policies, and POST to the bot; the bot calls the
backend's internal endpoints, whose refreshes and status writes use the same
projection as the webhooks. They share the database, where `updateMany` with a
condition is the only lock.

What is hard: each `await` lets another request, job or process in; a process
may die between any two of them; BullMQ hands a job to a second worker while
the first still runs (a stall); leases lapse under live workers; webhooks come
in any order and more than once; modification times have a resolution of one
second; a POST may succeed after its sender has given up. `PROJECT.json` lists
each of these under `hazards`, at its line.

## 2. Modules

```
OperationsQueue        the life of a BullMQ job, as functions on job records
  |- WebhookPipeline        delivery -> event -> job -> settled event
  |- OrderDelivery          projected event -> record -> job -> message
  |    |- NotificationPromise (abstract; both deliveries implement it)
  |    |- InventoryDelivery      incident -> captured recipients -> message
  |- InventoryBootstrap     the first scan of a catalogue, page by page
OrderProjection        store -> events -> Order
InventoryProjection    store -> events and pages -> items, incidents, deliveries
OrderStatusWrite       reference -> claim -> write -> PUT -> recorded outcome
OrderNotes             reference -> preview -> claim -> POST -> recorded outcome
NotificationPolicy     the settings of a store and whom they tell of low stock
  |- InventoryDelivery
  |- TelegramSettings       summary -> reference -> change -> audit entry
BotUpdates             updates as the bot passes them to the backend
  |- TelegramLinking        tokens, accounts, redeem, unlink
NumbersInOrder         a finite set of numbers as a sequence
  |- InventoryBootstrap     (the pages of a catalogue)
  |- TelegramLists          pages, cards and the way back
DailyReport            the bounds of a local day
StoreRegistration      owner, plugin and store until the store is healthy
Memberships            owners and administrators of a tenant
ErasureLedger          erasures, backups, restores and replays
```

The MC modules give instances of them:

| MC module | Of |
|---|---|
| `MCWebhookPipeline`, `MCOrderDelivery`, `MCOrderProjection`, `MCOrderStatusWrite`, `MCInventoryProjection`, `MCStoreRegistration` | the module of the same name |
| `MCInventoryAlerts` | InventoryDelivery, InventoryBootstrap |
| `MCTelegram` | OrderProjection, TelegramSettings, OrderNotes, DailyReport |
| `MCTenancy` | Memberships, TelegramLinking, StoreRegistration, ErasureLedger, TelegramLists |

The last three hold modules that share no state. `focus` in the initial state
says which of them a behaviour is about, so that their states add up and do not
multiply.

The modules are legs of one path. WebhookPipeline treats `Project` and
`Schedule` as one step each, a commit. OrderProjection and InventoryProjection
open the first: their projectors are the workers that WebhookPipeline lets work
on one event (two, once a lease has lapsed) and the Telegram operations that
refresh. OrderDelivery and InventoryDelivery open the second. OrderStatusWrite
and OrderNotes are the way back, from a tap in Telegram to the store.
StoreRegistration, TelegramLinking and Memberships decide who is at either end
of the path, and TelegramSettings who is told of what.

### OperationsQueue

A job is a record: state, attempts made, stalls, owner of its lock, and whether
BullMQ has marked it for a deferred failure. `Added` does nothing while a job
of the same id is retained, completed and failed ones included, which is what
deterministic job ids rely on. `Retried` counts an attempt and fails the job at
`MaxAttempts`. A job that stalls more than `MaxStalls` times fails without
running. What BullMQ does is not in the repository; these functions say what
the code in `queue-runtime.service.ts` assumes of it and are marked external
where no line of the repository stands behind them.

### WebhookPipeline

| TLA+ | Code |
|---|---|
| `status`, `startedAt`, `claims` | `WebhookEvent.status`, `processingStartedAt`, `processingAttemptCount` |
| `lapsed` | how many of the claims are older than the 30 s lease |
| `ResolveStore`, `PersistOrFind`, `Enqueue`, `MarkQueued`, `RequestFails` | the awaits of `receive` |
| `Claim`, `Resolve`, `Load`, `Project`, `Schedule`, `Complete` | the awaits of `process` and `resolveUnclaimed` |
| `ReleaseForRetry`, `FailClaimed` | the updates of the same names, fenced by `claimedAt` |
| `MarkFailed`, `MarkFailedFault` | the detached `failed` listener and its database update |
| `Stall`, `LeaseLapses`, `Crash`, `DbFault` | a lost lock, a late worker, a dead process, a call that throws |
| `Disconnect` | `PilotDataService.disconnect` |

Time is order only: claims are numbered, and `lapsed` moves over them. The
fence in the code compares millisecond timestamps, here claim numbers; two
claims in the same millisecond are not modelled. Product events take the same
path as those of orders.

### OrderDelivery and NotificationPromise

| TLA+ | Code |
|---|---|
| `state`, `attempts` | `TelegramOrderNotificationDelivery.state`, `attemptCount` (numbering the `lastAttemptAt` fences) |
| `Select`, `Upsert`, `EnqueueJob`, `ScheduleFails` | `OrderNotificationScheduler.schedule` |
| `Claim`, `Resolve` | the claiming `updateMany`, `resolveUnclaimed` |
| `Check`, `Prepare`, `Recheck` | the three looks at policy before the POST; the second throws where the others conclude |
| `Send`, `GiveUp`, `BotDelivers`, `BotRefuses` | the POST, its timeout, what the bot does with it |
| `PersistDelivered` | the update fenced by `lastAttemptAt` |
| `PersistRetryable`, `PersistTerminal`, `PersistAmbiguous` | `persistState`, which any IN_FLIGHT record satisfies |
| `MarkFailed` | `markFailed`: RETRYABLE_FAILURE only |
| `EntitlementChanges`, `AuthorizationLost` | the operator and the clock; unlinking, lost roles, settings, a deleted Order |

A POST is an element of `posts`, so that it outlives the worker that made it.
NotificationPromise says what a record promises to its reader, whatever
delivers it: a message at most, a verdict that never changes, `delivered` only
with a message, `failed` only without one, for ever; only `unknown` leaves it
open. Records come into being one at a time, as those of an Order, or several
in one commit, as those of an alert. `KeepsPromise` is the refinement under
`VerdictOf`; both deliveries are proved to implement it.

Assumption: a 429 or 5xx answer of Telegram means that no message was sent,
which is how `internal-delivery.server.ts:152-166` reads it. If Telegram sent
one nevertheless, a second would follow.

### OrderProjection

| TLA+ | Code |
|---|---|
| `row` | the `Order`: revision shown, `wcModifiedAt`, `remoteDeletedAt` |
| `remote`, `Revise`, `Trash` | the order in WooCommerce |
| `inbox`, `completed`, `failed` | the `WebhookEvent` rows by status |
| `Take` | `project`, up to its transaction or its fetch |
| `Fetch`, `FetchFails` | `reconcile` |
| `ReadRow`, `Apply`, `Delete` | the transactions of `applyProjection` and `projectDeletion` |
| `Decide` | `decideOrderProjection` |
| `Unmoved`, `Conflict` | `optimisticOrderWhere`, serializability, the unique key, `withProjectionTransaction` |
| `BeginRefresh` | `TelegramOrderService.refresh` |

The data of a snapshot is its revision number: two snapshots have one
fingerprint exactly when they have one revision, time and deletion mark. A
snapshot may be unreadable (no valid modification time, malformed fields) and
is then reconciled; one without an order id ends in a terminal failure before
any effect and is left out. A fetch of an order in the trash answers 404, which
the code treats as terminal. `receivedAt` is only looked at by deletions, so
that only they draw from the clock.

### InventoryProjection

| TLA+ | Code |
|---|---|
| `row` | the `InventoryItem`: time, stock, deletion mark, class, incident generation, per level the event that raised its alert and whether its recipients are captured |
| `remote`, `Revise`, `Trash` | products and variations in WooCommerce |
| `Emits`, `HasArrived` | webhooks, which may arrive in another order than they were made in; `receivedAt` |
| `Take`, `holders` | the claim of an event, by a second worker, too, once the lease of the first has lapsed (`WebhookPipeline` has the claim in detail); whose claim is still the current one |
| `Look`, `Probe` | `projectDeletion` up to its decision: which deletions are doubted (`Doubtful`) and asked for, and which are asked for in vain (`AsksInVain`: a product as one of its own variations) |
| `Reconcile` | `reconcile`, one authoritative read |
| `Apply`, `Remove` | the transactions of `applyProjection` and `projectDeletion` |
| `ReadPage` | a page of the bootstrap, applied as a baseline that raises no alert |
| `Capture`, `Enqueue`, `Complete` | the scheduler after a signal, up to the COMPLETED event |
| `MoveThreshold` | the rebaselining of items by `telegram-settings.service.ts` |
| `Fails`, `FailsForGood` | an error, a crash, or a conflict for the last time: the job starts over, or its event ends FAILED |
| `orphaned` | history: events a worker without the claim was to send an alert for when it ended in an error |

`applyProjection` is one serializable transaction with an optimistic condition,
hence one step; OrderProjection shows what its retries do. Stock is one of four
levels, which is what the thresholds tell apart. An event is named by the
position of its arrival, since `receivedAt` decides nothing else. What an
overtaken worker projects and schedules counts, as in the code; only its verdict
on the event is void, since the updates of `process` are fenced by the claim.

### InventoryDelivery and NotificationPolicy

| TLA+ | Code |
|---|---|
| `policy`, `Settings`, `Applied`, `Tells` | the `Store`'s settings with `inventoryNotificationPolicyVersion`; `applyDesiredAction`, `applyInput`; the conditions on recipients |
| `ChooseRecipients`, `CaptureRecipients`, `ListRecords`, `NextRecord`, `AlertScheduleFails` | the awaits of `InventoryNotificationScheduler` |
| `record` | what a delivery row was made under: policy version, source event, link |
| `SameLink`, `SamePolicy`, `SameIncident` | the conditions of the processor and of `prepareNotification` |
| `AlertAttempts`, `AlertConcludes`, `AlertUnclaimed`, `AlertMarkFailed`, `AlertFaults` | the actions of OrderDelivery on these records: the two processors have the same protocol |
| `ChangePolicy`, `Unlink`, `LinkAgain`, `StockLeaves`, `StockReturns` | merchants and stock |

`void` is history: since its recipients were chosen, the alert's policy or
incident has been another; the recipient was not linked when he was captured,
or has been unlinked since. The scheduler chooses members by their settings and
looks at their links when it captures them, so that a link made anew between the
two is the one the alert is sent under. Timestamps that are compared
(`updatedAt > createdAt`) are a counter of links.

### InventoryBootstrap

| TLA+ | Code |
|---|---|
| `sync`, `rev`, `progress`, `lease` | `inventorySyncState`, `inventoryBootstrapRevision`, the progress, `inventoryBootstrapLeaseAt` |
| `ReadState`, `StartScan`, `ReadRevision`, `EnqueueRevision`, `AskAgain` | `ensureInitialized` of the scheduler |
| `EnqueueRevisionFails`, `RequestFails` | its `catch`, whether the job was added or not; an error elsewhere, or the end of the process |
| `TakeJob`, `ClaimRevision`, `ResolveRevision`, `LoadProgress`, `ScanPage`, `AdvanceProgress`, `ReloadStore`, `EnqueueNext` | the awaits of `process` |
| `UnitFails`, `ReleaseLease` | errors inside the `try` (`releaseLease`, then retried or unrecoverable) and outside it (plain errors, retried) |
| `BootMarkFailed`, `MarkFailedFails` | `markFailed`, of a revision that is still the store's; its error, which `handleFailed` only logs |
| `JobStalls`, `WorkerDies`, `LeaseRunsOut`, `Vanish` | the queue, a crash, the clock, a product that disappears |

Job *n* is the job of revision *n*; a worker is at "follow" after it has
advanced the progress, and at "next" when it found its own revision over. Pages
are read by offset, and an item is covered once a page that contains it was
projected. `lost` is history: the revisions whose job nobody is left to add, or
whose failure nobody is left to record, because that was answered with an error
or the process died while there was no job. A revision leaves it when its job is
added.

### OrderStatusWrite

| TLA+ | Code |
|---|---|
| `allowed`, `claimed` | `allowedTargetStatuses`, `claimedTargetStatus` of a STATUS_WRITE reference |
| `writes` | `TelegramOrderStatusWrite`, unique by reference and target; `open` is a row without a result |
| `audits` | `AuditLog` rows with the action `telegram.order.status.updated` |
| `IssueReference` | `transitions` |
| `Open`, `LookUp`, `FetchLive`, `Reconcile`, `Claim`, `CreateWrite`, `Dispatch`, `ReconcileReply` | the awaits of `updateStatus` |
| `FetchAgain`, `ReconcileLost`, `LostForGood` | `reconcileLostWrite` |
| `Confirm`, `Record` | `completeStatusWrite`, `completeFailure` |
| `StoreAnswers`, `StoreRefuses`, `TimesOut` | what becomes of the PUT, `writeWithTotalTimeout` |
| `WebhookProjected`, `Projected` | the projections by webhooks and by `reconcileAuthoritativeOrder` |

`history` is the order in WooCommerce, revision by revision with its author, so
that the properties can say who changed what and when; `claimedAt` is a history
variable as well. A PUT is an element of `puts` and may reach the store after
its request timed out or died. The projected Order only matters for the targets
it offers and for its deletion mark, so that its projection is coarse here: it
moves forward, without the ties of one second that OrderProjection explores.
One order is modelled, since nothing in `updateStatus` relates two of them.

### OrderNotes

| TLA+ | Code |
|---|---|
| `note` | the `TelegramCallbackReference`: purpose, `noteBody`, `noteContentFingerprint`, `noteClaimedAt`, `expiresAt` |
| `action`, `old` | the `TelegramOrderNoteAction`, and whether its minute is over |
| `PrepareReads`, `Prepares`, `PrepareLooks` | `prepareNote` |
| `CancelReads`, `Withdraws` | `cancelNote` |
| `ConfirmReads`, `Fetches`, `Claims`, `Posts`, `Succeeds`, `Concludes` | `confirmNote` |
| `Replays`, `CallsAmbiguous`, `Completes` | `noteActionReplay`, `completeNoteAction` |
| `StoreCreates`, `StoreRefuses`, `TimesOut` | what becomes of the POST |

A fingerprint is the text it was made of. References share nothing, and the
module is about one. An HTTP error status is taken to mean that the store has
not created the note, as the code takes it.

### TelegramSettings

| TLA+ | Code |
|---|---|
| `settings`, `journal` | of each owner, a `Store` or the `Tenant`, its settings and its `AuditLog` entries `telegram.settings.updated` |
| `Owner`, `Permitted` | whose a setting is: language and timezone are the tenant's; `loadStore` and the recipient's membership |
| `token` | `TelegramSettingsReference` records, for one desired change or one typed value |
| `context`, `role`, `editing`, `staff`, `ContextChanges` | account, chat, membership, entitlement and store, which others change |
| `Resolves`, `CheckReference`, `ApplyDesiredAction`, `ApplyInput`, `BuildSummary`, `Breaks` | the requests of the bot, await by await |
| `ErasesIdentity`, `erased` | `eraseIdentityInTransaction` of an operator, who has stopped the application: the member's recipients go, without an entry |
| `Purges`, `purged` | the retention of audit entries, of 365 days (`scripts/ops/postgres-retention.sql`) |

The stores are those of one tenant, of which one is active at most; a reference
belongs to one of them. `erased` and `purged` are history: which owners' logs
cannot tell everything.

### TelegramLists and DailyReport

| TLA+ | Code |
|---|---|
| `Records`, `RowsShown`, `HasNext`, `HasPrevious`, `NextPage`, `PreviousPage` | the queries and references of the three lists: orders from a boundary, stock and search results by offset |
| `page`, `card`, `tap` | what the chat shows, the request under way |
| `dateInZone`, the bisection in DailyReport | `dateInZone`, `tenantDayBounds` |
| `Reports`, `OrderComes` | `report`, an order |
| `ShowsCard`, `ShowsResult`, `OpensCard` | a row of a list; `select` of a search result, whose order `openProjectedDetail` looks up in the store of a second context |

Rows are places in the order of the list; those of two stores have the same
numbers, so that a mix-up would show. A zone is an offset that changes once.

### BotUpdates and TelegramLinking

| TLA+ | Code |
|---|---|
| `sent`, `confirmed`, `tried`, `Polls`, `Restarts` | Telegram's updates, grammY's long polling |
| `seen`, `Remembered`, `Accepts` | `UpdateDeduplicator.accept` |
| `waiting`, `wire`, `Replies`, `Serves` | a request of `internal-backend.client.ts`, its timeout, the backend that serves it later |
| `account` | `TelegramAccount` and `TelegramChatAuthorization`, with the last update ids of redeem and unlink |
| `linkToken`, `IssueToken`, `TokenExpires` | `TelegramLinkToken` |
| `Redeem`, `Unlink`, `Conflicts`, `Redeemed` | `redeemInTransaction`, the unlink transaction |

### StoreRegistration

| TLA+ | Code |
|---|---|
| `shop` | the `Store`: registration token, plugin secret, webhook credentials, status, `lastHealthyAt` |
| `FinalizeReads`, `FinalizeWrites` | `finalize`, before and after `testConnection` |
| `ConfirmReads`, `WebhooksVerified`, `ConfirmWrites` | `confirmPluginConnection` |
| `ProvisionReads`, `ProvisionWrites` | `provisionWebhookCredentials` and the rotation |
| `IssueRegistrationToken`, `SoftDelete`, `DisconnectShop` | the owner, `PilotDataService.disconnect` |
| `plugin`, `hooks`, `Connects`, `Persisted`, `Installs`, `ConfirmsHealth`, `PluginGivesUp`, `Uninstalls` | `wc-telegram-connector.php` |

Secrets are numbered as they are drawn. `told` is the last credential the
plugin was answered, whether it kept it or not.

### Memberships

| TLA+ | Code |
|---|---|
| `Guard` | the tenant context guard, the roles of the controller and the first refusals |
| `Looks`, `Adds` | `addMembership`: look, then create or revive |
| `Reads`, `Commits`, `Undisturbed` | the serializable transactions of `updateMembershipRole` and `removeMembership` |
| `Audits`, `SoftDeletesTenant` | the audit entry afterwards; the tenant's deletion |

### ErasureLedger

| TLA+ | Code |
|---|---|
| `Prepares`, `Archives`, `Erases` | the steps of `pilot-data.cli.ts` under `pilot-privacy.sh`: ledger entry, archive, erasure |
| `Stops`, `Resumes`, `BacksUp`, `Restores` | the operator's scripts |
| `Replays`, `ReplayStops`, `ReplayEnds` | the replay on a restored database, entry by entry |
| `Joins`, `Acts`, `Leaves`, `Opens`, `Disconnects` | what fills the database in between |
| `AuditExpires`, `TenantAuditExpires` | the retention of the audit entries that prove an erasure |

## 3. Runs

| Run | Instance | Shows |
|---|---|---|
| `webhook_safety` | 1 event, 2 requests, 2 workers, 1 database fault, stalls under live workers | `OneLiveProjector`, `CompletedHasEffect`, `AckedIsPublished`, `SettledIsFinal` |
| `webhook_crash` | 2 crashes, no database fault, locks hold | `CompletedJobSettled`: no job completes before its event is settled |
| `webhook_live` | 2 events, 1 worker, no faults, fair | `AckedSettles`, `FailedJobDeadLettered` |
| `webhook_db_fault` | 1 database fault | `CompletedJobSettled` fails |
| `order_race` | 2 projectors, 2 revisions, refreshes, unreadable snapshots, any order, crashes | `NeverOlder`, `CompletedIsCovered` |
| `delivery` | 1 recipient, 2 workers, 3 attempts, 2 faults, 1 lapse, 1 unlink, 1 failed scheduling, stalls under live workers, fair | `AtMostOneMessage`, `KeepsPromise`; `EveryRecordConcludes` for the records that nothing disturbs |
| `inventory` | a product and its variation, 2 projectors, 2 revisions, pages, thresholds, lapsing leases, events that overtake one another, 2 rare things | `LiveItemNeverOlder`, `RowsCatchUp`, `IncidentIsNew`, `AlertReachesQueue` |
| `alerts` | delivery: 2 events, 2 workers, 2 changes of policy, 1 unlink and relink, 1 fault, locks hold; bootstrap: a product with variations, pages of one, 2 workers, 2 faults, 1 product that vanishes, 6 revisions, 1 requester | `NoRevival`; `ReadyIsComplete`, `SyncingIsAttended` |
| `status_write` | 2 requests, 2 references, 1 change by the merchant, 1 crash, late PUTs | `SingleEffect`, `VerdictsAreTrue`, `RecordedOnce` |
| `telegram` | orders: 1 projector, 4 revisions that may share a second, in order; settings: 2 stores of a tenant, 2 references, 2 requests, 3 entries each, 2 things done meanwhile; notes: 3 requests on one reference, 2 texts; report: zones from -12 to +14 hours with one change | `CurrentWhenCompleted`, `DeletionAtRest`; `SettingsAreExplained`; `SentAsConfirmed`, `NoteEndsAreTrue`; `ReportIsOfItsDay` |
| `tenancy` | memberships: 2 users, 2 calls; linking: 2 identities, 2 users, 2 tokens, 3 updates of which 2 are remembered, 1 restart; registration: 2 requests, 2 tokens, 2 keys; erasure: 2 tenants that share a person, 1 store, 2 entries, 1 backup, 1 disaster; lists: 5 places, pages of 2, at most 4 rows within reach | `OwnerRemains`, `OwnersAreForOwners`; `RedeemedOnce`, `OnlyUnlinkReleases`; `CredentialsStand`, `HealthIsThePlugins`; `ErasedStaysErased`, `ReplayConverges`, `OthersKeepTheirUser`; `ListsAgree` |
| `register_lost` | 2 requests, 2 tokens | `AnsweredIsConnected` fails |

`MCTypeOK` is the type invariant of the modules an MC module joins, with what
their types say of two pieces of state: an identity has one user, a claimed
note has an action. Some properties have parts with names of their own:

| Property | Parts |
|---|---|
| `RowsCatchUp` | `CompletedIsProjected`: a COMPLETED event of an item that no mark of deletion was due for has reached its row. `Converged`: once all events are COMPLETED, the rows of live items are what the store has, deletions without a date excepted |
| `AlertReachesQueue` | `AlertIsCaptured`, `AlertIsQueued`: the two commits after the one that raises an alert, for events that raised one, unless a worker is still to do it, or the event is `orphaned` |
| `CredentialsStand` | `TokenRegistersOnce`, `PluginKeyStands` |
| `SettingsAreExplained` | `OwnStoreOnly`, `InputUsedOnce`, `JournalExplains` |
| `SentAsConfirmed` | `PostedAsPreviewed`, `CancelledIsUnsent` |
| `NoteEndsAreTrue` | `NoteOutcomesAreTrue`, `NoteBodiesErased` |
| `ListsAgree` | `TapOpensItsRow`, `PagesContinue`, `ListsEnd`, `BackIsWhereItWas` |

Each property of a passing run has a mutant in its module, a plausible bug
(a dropped fence, a lease kept on release, a swallowed conflict, an offset that
is not carried over) under which TLC finds it violated.

**Bounds.** `MaxAttempts` is 3 in the code; 2 still has a first, a retried and an
exhausted attempt, and 3 is used where the violation needs the time between them.
`MaxStalls` is BullMQ's default, 1. Two workers suffice for every race over one
row, since the row remembers one claim and the second worker meets every step of
the first. Two requests are a delivery and a redelivery, or two taps. Two
revisions give an older and a newer event; three give a deletion between two
living revisions, four a fetch that is ahead of them.
`PROJECTION_TRANSACTION_ATTEMPTS` is 3 in the code and 2 in `order_race`: one
retry and one exhaustion. In `inventory` the failures, pages, moved thresholds,
lapsed leases, malformed payloads and events that others overtake draw on one
budget, `MaxRare`, of which two meet in one behaviour; an event may arrive one
place late (`MaxAhead`). Two revisions and the deletion of a product with its
variation do not bring about finding 22, which takes a third. In `status_write`
two requests on two references meet on one reference, with one target or two, or
on two references of one order; one change by the merchant falls between any two
steps. A page of one in the bootstrap has every page boundary there is; six
revisions are a scan that fails and is started over. The bot remembers two of
three updates, so that the oldest is forgotten while it may still be repeated.
Two entries of the ledger are one before and one after the backup. Pages of two
in a list of five places with four in reach have a full page, a last one and a
limit. `inventory` was also run with one projector and three rare things, or
three revisions and one, and with two projectors, three revisions and none;
findings 11 and 18 come from such runs, the first with four revisions of one
product. What a proof needs beyond a run's properties (the inductive invariants
of section 5) was model-checked on instances of the same size before it was
proved. The proofs hold for all values. The runs switch deadlock checking off
because the systems rest: a finite number of deliveries, faults or revisions ends
with nothing to do.

**Locks.** `LocksHold = TRUE` lets only dead workers' jobs stall (and in the
pipeline, only after the lease), the normal case. FALSE lets any job stall at
any time. Safety of the pipeline and of order deliveries is checked under
FALSE; `alerts` has the locks hold, since its records obey the same protocol
and its question is another one.

**Two workers.** `Worker` has concurrency 1, so that two workers are two backend
processes, or one process and the job it stalled on. Refreshes run in the same
process as the webhooks.

**Fairness.** `FairSpec` assumes weak fairness of each request's and each
worker's next step and of the listeners: Node's event loop runs them, the POST
is bounded by `deliveryTimeoutMs` (`GiveUp`), a waiting job is fetched as long
as a worker runs. Lapsing leases are weakly fair, being the clock. Crashes,
faults, stalls, the bot's answer and the tenant's decisions are not fair.
`webhook_live` has no faults; `delivery` has them, and `EveryRecordConcludes`
speaks of the records they spare. Alerts share the delivery protocol and have
no liveness run of their own; of the bootstrap it is checked that somebody is
at work (`SyncingIsAttended`), which is what fairness would need.

## 4. Where code and documents differ

With a run:

1. **A live lease completes the retry** (`webhook_db_fault`). A database error
   after the claim leaves the lease; the retry, seconds later, takes it for a
   live worker and completes the job. The event stays PROCESSING for ever.
   D-018 promises at-least-once processing (`docs/DECISIONS.md:433`).
2. **A lost answer to a registration** (`register_lost`). The answer to the
   reissued token carries no webhook secret, because the store has one, and the
   plugin rejects an answer it cannot complete, after the backend has replaced
   the credential. `docs/HANDOFF.md:418` promises that reissuing recovers.

Met while modelling, each a behaviour the modules have and a reason for a
condition in a property:

3. **IN_FLIGHT after the last attempt.** The second of the three looks at the
   entitlement throws where the others conclude. When it does so in the last
   attempt, the job fails and `markFailed`, which looks at RETRYABLE_FAILURE
   only, leaves the record IN_FLIGHT (`order-notification.processor.ts:285`,
   `telegram-order.service.ts:435`; D-023, `docs/DECISIONS.md:676`,
   `docs/HANDOFF.md:653`). A crash in the last attempt does the same.
4. **Buried under a live worker.** A job that is taken for stalled twice fails
   without running; if its worker lives on and ends in RETRYABLE_FAILURE, no
   job is left to retry.
5. **Older deletions.** The deletion of an earlier revision marks a restored,
   later one (`order-projection.service.ts:249`, `docs/PHASE_BREAKDOWN.md:239`).
   Where revisions share a second this can last: a reconciliation stores a
   revision ahead of its events, the deletion before it marks the Order, and the
   restoration, older than the row, is ignored (`:99`), although a restoration
   should clear the mark (`docs/DECISIONS.md:427-428`). A refresh or an unreadable
   snapshot may be ahead in the same way; and one that was fetched before the
   deletion and is applied after it clears the mark. Hence `DistinctSeconds` and
   events in order in `DeletionAtRest`, which is model-checked only: it says what
   the marks are when nothing comes out of order, and nothing of the cases above.
6. **Stale fetches of one second.** An authoritative fetch of equal time
   overwrites a newer revision (`:224`, `docs/PHASE_BREAKDOWN.md:239-240`);
   `CurrentWhenCompleted` is checked with one projector and events in order.
7. **Failed without a dead letter.** A crash between BullMQ's failed state and
   the detached `failed` listener loses the FAILED state of an event
   (`FailedJobDeadLettered` is checked without crashes).
8. **A write without its audit entry.** A status write whose Order is marked
   deleted before it is recorded ends as DELETED, without the audit entry of
   D-021 (`docs/DECISIONS.md:592`), although the PUT was applied.
9. **Stock tracking that returns.** An item whose stock stops being tracked is
   marked as deleted; an update that tracks it again keeps the mark, and with it
   HEALTHY, until a restoration or the bootstrap clears it
   (`inventory-projection.service.ts:571-602`; compare the meaning of the levels
   in `docs/HANDOFF.md:939-945`).
10. **A lost escalation.** A crash leaves the records of an OUT_OF_STOCK alert
    without jobs; the item goes to LOW_STOCK and to OUT_OF_STOCK again in the same
    incident. The alert is now the second event's, the records are the first's
    and stand in the way of new ones, and neither retry enqueues them
    (`inventory-notification.scheduler.ts:119`; `docs/DECISIONS.md:829` promises
    restart recovery).
11. **Stale pages and probes.** A page of the bootstrap, or the 404 of a probe,
    may be older than a row it clears or marks (`docs/DECISIONS.md:787`); hence
    `LiveItemNeverOlder` is about live rows, and `Converged` about dated events.
    A row they take back may lie behind a COMPLETED event, although older events
    are not to regress a newer projection (`docs/DECISIONS.md:788-789`); hence
    `EverMarked` in `CompletedIsProjected`. So may a row that a restoration takes
    back: with two projectors, the restoration is fetched, a later revision is
    projected and COMPLETED, and the fetched one then clears the mark and stores
    the older stock. It stays until the next event (two projectors, and four
    revisions or three and a deletion without a date); hence `IsRestored` in
    `Converged`, which wants the restoration to be the present revision.
12. **The scan of a changing catalogue.** A product that vanishes moves those
    behind it to earlier pages, and they are skipped; three retries of a leased
    revision end before the lease does, and the scan is FAILED while its worker
    goes on; a failed job that BullMQ retains blocks the same revision.
13. **An unlink redelivered after a relink.** The update id of an unlink is only
    recognised while the account is unlinked, so that the same update, served
    again after a relink, unlinks again (`telegram-linking.service.ts:170-176`;
    `docs/DECISIONS.md:472` calls it idempotent by update id).
14. **A person of two tenants.** A user erased from two tenants, one after the
    other, is never anonymised, since the membership erased first still counts
    (`pilot-account.service.ts:603`,
    `docs/privacy/PPR2_DATA_PROTECTION.md:121-126`).
15. **Notes.** The outcomes of `confirmNote` are not fenced against the AMBIGUOUS
    of a replay; an entitlement that lapses after the claim ends a note as
    AMBIGUOUS although nothing was posted.
16. **Lists by offset** may skip or repeat a row when rows before it change;
    `PagesContinue` is about lists that did not.
17. **Days a zone skips.** Where the change of offset skips a civil day, the
    report of the day before ends in an error.
18. **A retry that escalates.** An event raises a LOW_STOCK alert and its job
    dies before the recipients are captured; the retry fetches a stock of zero
    and raises OUT_OF_STOCK under the same event. If it dies too, the next retry
    replays the first alert only (`inventory-projection.service.ts:701`), and
    nobody is told of the second (`docs/DECISIONS.md:829`). A retry that fetches a
    partial recovery, to a level the incident has alerted before, raises nothing
    either (`nextIncident`, `:640-655`). Hence the last condition of `Raised`.
19. **Linked again before the capture.** A recipient who unlinks and links again
    after he was chosen and before his delivery is captured is captured under the
    new link and told (`inventory-notification.scheduler.ts:76-116`); the
    revalidation compares the link with the captured one only
    (`docs/DECISIONS.md` D-025 speaks of deliveries already captured). Hence
    `void` looks at the link from the capture on.
20. **A search result of another store.** `select` validates its reference in one
    context, and `openProjectedDetail` resolves the context again and looks the
    bare order number up in the store of then
    (`telegram-search-report.service.ts:341-388`,
    `telegram-order.service.ts:746-806`). A chat that moves to another store in
    between is shown that store's order of the same number; it is the chat's own
    store by then. Hence the second case of `TapOpensItsRow`.
21. **Settings without an entry.** The erasure of a person takes him from the
    recipients of a store without an audit entry and without a new policy version
    (`pilot-account.service.ts:637-639`), and entries are purged after 365 days
    (`scripts/ops/postgres-retention.sql:101-111`), so that the log explains what
    is left of it. The timezone and the language are the tenant's: the forms of
    each of its stores change them (`telegram-settings.service.ts:242-271`).
22. **A live product taken for deleted.** A `product.deleted` without a date, or
    of the second of a stored row, is doubted and asked for. If the product has
    stored variations, `projectDeletion` takes the parent of one of them, the
    product itself, and asks for `/products/{id}/variations/{id}`; the 404
    confirms any deletion (`inventory-projection.service.ts:366-376`), although a
    malformed deletion is to use "the minimum safely identified WooCommerce item
    read" (`docs/DECISIONS.md:787-788`). When that deletion comes after the
    restoration, the live product and its variations are marked, and no older
    event brings them back: that takes another restoration or a page of the
    bootstrap. Hence only dated deletions in `Converged`.
23. **An alert of an overtaken worker.** A worker whose lease has lapsed goes on
    beside the one that claimed its event after it. If it fetches a worse level
    than the other saw, raises its alert after the other has completed the event,
    and then dies or fails to capture the recipients, no retry is left to replay
    it (`woocommerce-webhook.processor.ts:184-238`; `docs/DECISIONS.md:829`).
    Hence `orphaned`.
24. **SYNCING without a job.** After the advance, an error of the database or of
    Redis is caught as an error of the page: `releaseLease` and `markFailed` ask
    for the old revision and change nothing, and the job is buried
    (`inventory-bootstrap.processor.ts:111-140`). The store stays SYNCING until
    somebody opens the stock or the settings. The same happens when `markFailed`
    fails, which is only logged (`queue-runtime.service.ts:344-352`); then the
    failed job keeps the id of its revision, and asking again adds nothing until
    the queue's retention has removed it. The `catch` of `ensureInitialized` also
    takes an error of the update after a successful `enqueue` for a refusal, and
    drops the lease of a worker that may have begun
    (`inventory-bootstrap.scheduler.ts:152-194`). Hence `lost` in
    `SyncingIsAttended`.

## 5. Proofs

TLAPS checks the theorems of eight modules for every value of the constants
under the named ASSUMEs of the specifications.

*WebhookPipelineProofs.* `TypeCorrect` first. `LeaseExcludes` needs that a
holder's claim number is at most the event's and that two holders of one event
have different claims, so that one of them has lapsed. `CompletionIsEarned` and
`SettledStays` rest on the fence: a holder whose claim is current finds the
event PROCESSING, and it is past `Project` and `Schedule` when it completes;
the invariant adds that projected and scheduled effects stay.
`AckMeansPublished` needs the history the status implies: an event that is
neither absent nor RECEIVED has a job or is settled. Two theorems carry
assumptions on the faults. `CompletionsSettle` assumes that locks hold and no
database call fails, and allows crashes: then one worker at most holds a job
(`LockInv`), the claim it holds is the event's (`HolderInv`), and a live claim
has an active job, whose worker is the claimer, so that whoever comes to an event
it does not hold finds no live claim (`LiveJobInv`). `FailuresAreDeadLettered`
assumes no crash and no database fault, and allows stalls: between BullMQ's
failed state and the listener's write the event is the listener's to settle.

*OrderDeliveryProofs.* `TypeCorrect`; then `MessagesAtMostOnce` from an
invariant that ties the POSTs under way to claims: a worker before its POST
holds the newest claim of an IN_FLIGHT record unless the record was given up,
an IN_FLIGHT or AMBIGUOUS record accounts for the single POST, and a claimable
one has neither message nor POST. `DeliveryKeepsPromise` is the refinement
proof, one lemma per action: each step is a step of NotificationPromise or
leaves verdicts and messages alone.

*OrderStatusWriteProofs.* `StatusReferencesAreSingleEffect`,
`RecordedVerdictsAreTrue` and `OutcomesAreFinal` come from one inductive
invariant, `StatusInv`. `ClaimInv`: whoever is past the claim works for the
claimed target, and its last snapshot is no older than the claim. `OwnerInv`:
a write without a result has one owner, and only the claimed target has a write
at all. `SentInv`: what is in the store or on its way there came from an owner,
and an owner about to send finds nothing of its reference. `VerdictInv`: the
verdict about to be recorded is true already. SingleEffect alone is not
inductive, since a second PUT is only excluded by who owns the write. The
theorems hold for any number of requests, references, changes and crashes.

*TelegramProofs* is about what is read and done in Telegram, and the Orders
there. Its type theorems come together in `TelegramTypeCorrect`, the invariant of
the MC module.

- Notes: `NotesAreSentAsConfirmed` and `NotesEndTruly` from `NotesInv`: one
  request posts at most, the one whose claim created the action; it carries the
  text that was previewed when it claimed, and what it sent is on the wire or in
  the store; a reference that is claimed is not cancelled, and no text is put in
  a reference that has its outcome. That outcomes are true needs all of it,
  because a replay or a late answer concludes for another request.
- Settings: `JournalsExplainSettings` from `SettingsInv`, whose heart is what one
  entry does to the explanation of each setting (`Explains`): the last entry
  about a setting says what it is, each says what the one before it left, and, in
  a log nothing was purged from, the first begins at the default and a setting no
  entry is about is the default (`LogGrows`). A log without its oldest entry
  explains as much, but for the beginning (`LogShrinks`), and an erasure changes
  the recipients only.
- Orders: `OrderNeverOlder`: a write happens only on the row that was read, and
  only when the decision found the snapshot no older. `CompletedStaysCovered`
  needs `CoverInv`: events are in the store's past, a projector's candidate is at
  least as recent as its event, unless it is about to fetch, and a projector that
  is about to finish has left a row as recent as its event.
  `DistinctSecondsAreCurrent` assumes that no two revisions share a second, and
  nothing on the order of events: then whatever was seen of the store is older
  than its present revision in number and in time, or is that revision
  (`SeenInv`), so that a row as recent as the present revision's event is that
  revision.
- Lists: `ListsAlwaysAgree` from `ListsInv`, for any page size and any lists. The
  rows a page shows are those at consecutive places of its list (`Window`). A
  reference by which a list can be read is `Grounded` in it: its boundary is a
  row of the list, and its offset counts no more rows than are before it.
  `Leads`, `Returns` and `Turns` say of each reference on the page, on a card or
  in a request under way which page it came from. Then the page after a
  reference begins where its own ends (`NextContinues`), the page before ends
  where it begins (`PreviousContinues`), and a page without a next one shows the
  last row (`NothingAfter`). Orders are only ever added, so that a reference
  stays grounded while the list grows (`GroundStays`).

*TenancyProofs* is about who may do what to a store. `TenancyTypeCorrect` is the
invariant of the MC module, from the type theorem of each module below.

- Memberships: `AnOwnerRemains` rests on what a transaction has read: a request
  about to take an owner away has counted two, and `Undisturbed`, which is what a
  serializable isolation promises, says that they are still there when it
  commits. `OwnersChangeOwners` needs that an ADMIN let in by the guard never
  comes to write an owner's membership, whatever it has become since the guard.
- Registration: `CredentialsAlwaysStand` and `HealthComesOfThePlugin`.
  `TokenInv`: the tokens that registered are in order and at most the present
  one, and less while it is not consumed. `VisitInv`: a registration that is
  about to draw webhook credentials under a token that is still open meets a
  plugin that has none. `SecretInv`: the credential of an active store is that of
  the last registration. `DrawnInv`, for the types: nobody holds a credential
  that was not drawn, and a registration that draws no webhook credentials, as
  the store had some, still finds them when it writes.
- Linking: `RedemptionsHappenOnce` from `EffectInv` (a redemption that took
  effect has consumed its token), `IdentityStays`, and `IdentitiesAreExclusive`:
  no two live identities have one user. They hold for any number of updates,
  repetitions and restarts of the bot, under `IdentityAssumption`: "no account"
  is none, and "unlink" is not a token. `RepeatInv`, for the types: of one update
  no more requests are under way than bots have been started, and the
  deduplicator remembers no more than its limit.
- Erasure: `WhatIsErasedStaysErased`, `ReplaysConverge` and `OthersKeepTheirUsers`
  from `ErasureInv`. What an erasure may do to a database is stated once
  (`Alters`), and with it what that leaves alone: an entry that is skipped stays
  so, one that is gone stays so. The invariant then says that what is executed is
  archived, and what is archived is in the ledger; that while the application is
  up or stopped every executed entry is gone; that a replay of a restored backup
  skips every entry it has passed, and in the end all of them. A backup that is
  restored may lack every erasure: only the replay brings the second back.

*InventoryProjectionProofs.* `TypeCorrect`, `LiveRowsOnlyAdvance` and
`IncidentsAreNew` from `RowsIInv`; they hold whatever the times, the faults, the
number of projectors and how many of them work on one event. Part of it is that
the current claim of an event is one worker's at most (`HoldersInv`), and that
each worker has an event that is there, or a page (`ProjectorsInv`).
`CompletedEventsAreProjected` adds `ProgressIInv`: an event that a projector is
about to complete is covered by its row, unless the mark of a deletion was due.
`RowsConverge` assumes that no two revisions share a second and needs
`ConvergeIInv`, which adds two things. `EventsAgree`: events of an item with the
same time have the same stock, and the deletion of an item that is in the store
again is older than the item. `RestoredInv`: a restoration that is the present
revision, and whose deletions came with their dates, leaves a live row of its
time once it is projected. `AlertsAreCaptured` and, while the entitlement lasts
(`Lapses = FALSE`), `AlertsReachTheQueue` follow an alert from the row through
the capture to the queue (`AlertInv`): once the event is COMPLETED, or the worker
with its claim has projected it, the alert is captured and queued, or some worker
has its signal, or the event is orphaned (`IsSeenTo`); until then whoever
projects the event raises it or raises it again. One lemma says for each kind of
step what becomes of it: projecting raises or replays (`RaisedSignals`,
`AppliedSignals`), what is owed passes on to the capture and the queue
(`OwedMoves`), what is queued stays (`QueuedStays`), and a worker that gives up
leaves an open event or an orphaned one (`GivenUp`). Without distinct seconds a
second event may take the alert over between two commits of the first.

*InventoryAlertsProofs.* For InventoryDelivery, `AlertTypeCorrect`;
`AlertsKeepPromise` and `AlertsAtMostOnce`, the refinement of NotificationPromise
for the second time: the worker, the listener and the bot are those of
OrderDelivery and so are their lemmas, while records come several at once and an
attempt looks once more; `NothingIsRevived` from `VoidInv`: an alert whose
occasion has gone is behind in the version of its policy, in its link or in its
incident, which are the three things an attempt compares. For
InventoryBootstrap, `BootTypeCorrect`, `ScansAreComplete` and
`SyncingStoresAreAttended` from `BootInv`. `CoverInv`: whatever is behind a
progress was projected, be it the one in the database, the one a worker goes by,
however late, or the one it is about to write; each page leads from such a
progress to such a progress, which needs that the elements of a finite set of
numbers have the places 1, 2, ... (`Places`) and that a page that is not full is
the last (`LastPage`). `AttendInv` and `RevisionInv`: unless the
current revision is lost, its job is there, its failure is about to be recorded,
or it is absent and somebody is about to add it, which no earlier job of that
id can prevent; nobody is ahead of the current revision.

*NumbersInOrderProofs* has the lemmas of a finite set of numbers taken in order:
its elements have the places 1, 2, ... (`Places`), each its own (`SamePlace`),
`Sorted` has each element at its place (`SortedIs`), and the numbers after or
before one of them are the rest of that sequence (`SortedAfter`,
`SortedBefore`). The pages of a catalogue, the lists and the bot's deduplicator
rest on them.

Only model-checked: liveness and fairness, which are out of this prover's reach;
`DeletionAtRest`; `CurrentWhenCompleted`, `RowsCatchUp` and `AlertReachesQueue`
under the times and lapses their theorems exclude; and `ReportIsOfItsDay`, whose
bisection is a recursive function. No module declares a RECURSIVE operator, and
no theorem rests on an induction over data.

## 6. Not modelled, and the plan

Parts of the code without a module, and why:

- *Key rotation* (`scripts/ops/`, the rotation CLI) runs with the application
  stopped; a rotation that breaks off is started again and skips what is done.
  Encryption itself is a library call.
- *Account authentication*: password hashing and JWT are library calls. Of the
  limiters, the window is a Redis script, a counter with an expiry.
- *Creating and updating a store, `testConnection`*: one row and one request
  each. Two concurrent updates of a store's keys may store a pair that was not
  validated together.
- *Exports and the historical scrub*: reads, and an operator's script over rows
  that no worker changes any more, except for the fingerprint of an Order (a
  hazard without a property).
- *The retry loop of a WooCommerce read*: its callers see its result or an
  error, which is how the modules have it.
- *The bot's dialogue, its texts and localization*; ranking of search results
  and sums per currency; rendering.
- *Static pages, logging, configuration, health probes, deployment
  configuration*: no state to verify.
- *Tenant scoping of queries*: each query is sequential and carries the tenant;
  the modules have one tenant, except Memberships, TelegramLists and
  ErasureLedger, where two meet; TelegramSettings has the stores of one.

What would come next:

1. The alerts with liveness of their own, and the bootstrap under fairness.
2. The historical scrub beside a worker that projects the same Order, and key
   rotation beside a writer that should not be there.
