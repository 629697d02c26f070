# Mindwtr: TLA+ models, checks and proofs

Mindwtr is a local-first GTD application. Every device keeps the whole database; devices
meet through one remote document (a file in a WebDAV or Dropbox folder, or a document on
the self-hosted cloud server) that any of them may rewrite. What can lose a user's data is
not one function but the way several of them interleave: the store keeps being edited and
saved while a sync run reads, merges and writes; peers write the same document; requests
fail after they have taken effect; processes die; clocks disagree; a phone suspends the
application between any two steps. This project models that part of the program: syncing,
and the durability of everything the user has been told is done.

Paths below are relative to the repository; `core/` is `packages/core/src/`.

## 1. Inventory

| Part | State | Operations | What makes it correct |
|---|---|---|---|
| Sync orchestrator, `core/sync-orchestrator.ts` | cycle in flight, queued follow-up and its argument, one timer, minimum delay | `run`, `requestFollowUp`, `requestFollowUpAfter`, `clearFollowUp`, `reset`, the `.finally` of a cycle, the timer | a requested follow-up never starts early and always runs |
| Sync cycle mutex, `core/sync-cycle.ts` | one promise per process | `executeSyncCycle` | one cycle at a time, first come first served |
| Remote mutation fence, `core/sync-remote-fence.ts`, `-providers.ts` | a lease file at the provider; per holder: lease id, heartbeat, lost error, operation queue | acquire, heartbeat renewal, `assertHeld`, release | while a provider mutation can land, nobody else may mutate; a dead holder does not block for ever |
| Entity merge, `core/sync.ts`, `sync-signatures.ts` | none (pure) | `mergeEntitiesWithStats` | symmetric; no later change lost; deletions stay; all devices converge |
| Documents: merge, repair, purge, `core/sync.ts`, `sync-tombstones.ts`, `sync-normalization.ts`, with the GTD rules of the store | rows of projects, sections, tasks with tombstones | move, delete, restore, purge, archive, reactivate; merge, repair, purge, validate; load migrations | a merged document is never refused, nothing purged comes back, an archive can be reactivated, rewriting ends |
| Sync run, `core/sync-run.ts` with `performSyncCycle` | local snapshot and its stamp, remote fingerprint, recorded fast-sync state, pending-write marker with retry time | flush, local read, fast checks, remote read, merge, local write, remote write, recording, finalisation, error path | edits made at any moment survive; nothing of a peer is overwritten; everything is published in the end |
| Save queue of the store, `core/store.ts`, `store-settings.ts` | rows in memory, queued snapshots, rows on their way, ordinals, failure banner | edits, flush, retry, `fetchData` | every unsaved edit is on its way or reported; storage and store never go back |
| Request receipts, `core/native-request-receipts.ts`, `WriteJournal.kt` | receipts, remembered requests, write-ahead journal | call, save, retry, settle, replay | at most once, answered only when durable |
| Mobile storage, `apps/mobile/lib/storage-adapter.ts` | SQLite, JSON backup, ahead marker, quarantine, save queue, backup writer | save, load, open, recover, back up | an acknowledged save survives any single device failure the code knows |
| Pending captures, `core/pending-captures.ts` | queue directory, WAV files, command records | drain: store write, save, record, delete | nothing lost, nothing applied twice, newest command wins |
| Auto-sync controller, `core/auto-sync-controller.ts`, `mobile-sync-triggers.ts` | debounce, throttle, cool-down, periodic timers, app state | edits, focus, suspend, resume, requests, results | edits are synced, failures are paced |
| Sync configuration, `core/sync-configuration-transaction.ts`, `mobile-…` | stored keys, credentials, tokens, config cache | commit, read-back, rollback; a run's cached reads | only a proven setup is active; the user is told the truth |
| Cloud server, `apps/cloud/src` | documents, per-key chains, OS locks, parsed cache, audio files | admission, GET, PUT, REST, capture, orphan collection | acknowledged writes stay, refused ones never land, a capture makes one task |
| Calendar, `core/calendar-push-*.ts` | device calendars and events, notes on disk, promises, map of events | push, recolor, delete, recreate; full and partial runs | one calendar, nobody else's touched, events follow tasks |
| Attachments, encryption | files, keys | transfers, enrolment | not modelled, section 6 |
| Recurrence, quick-add, importers, view models, user interfaces | none or presentation | parsing, date arithmetic, rendering | table-driven unit tests |

How they interact: a store mutation moves `lastDataChangeAt`, queues a save and nudges the
auto-sync controller, which calls the orchestrator; the orchestrator starts a run; the run
flushes the save queue, takes the cycle mutex around read, merge and write, holds the fence
while it may change remote files, and calls back into the store (`applyDataToStore`,
`finalizeSuccess`) and into the orchestrator. On phones the save queue writes through the
storage adapter with its two copies; requests of the native hosts and the capture queue
enter the store and wait for its saves; the calendar push watches the store.

The hard behaviours are the interleavings at every `await`, the ageing of what was read
before one, lost answers to calls that took effect, crashes between two writes, clocks that
differ, and the coalescing of triggers. `PROJECT.json` lists them under "hazards", each at
its line.

## 2. Modules

| Module | Models | Extends / composes |
|---|---|---|
| `SyncOrchestrator` | the orchestrator | |
| `FifoLock` | abstract: a first-come first-served lock | |
| `SyncCycleMutex` | the promise chain | implements `FifoLock` |
| `SyncCycles` | cycles of the orchestrator that go through the mutex | `SyncOrchestrator`, `SyncCycleMutex` |
| `RemoteFence` | the lease protocol and its provider | |
| `SyncExclusionProofs` | theorems of the orchestrator, the mutex, both together and the fence | `SyncCycles`, `RemoteFence` |
| `EntityMerge` | the choice between two versions of an entity | |
| `SyncReplicas`, `SyncReplicasProofs` | devices that edit and sync one entity | `EntityMerge` |
| `DocumentMerge` | merge, repair, purge and validation of documents | `EntityMerge` |
| `DocumentReplicas` | devices that change and sync documents | `DocumentMerge` |
| `SyncRun`, `SyncRunProofs` | a run among store, disk, remote, peers, its theorems | |
| `SaveQueue`, `StoreReload`, `SaveQueueProofs` | the save queue; `fetchData` beside it; their theorems | `StoreReload` extends `SaveQueue` |
| `RequestReceipts` | receipts, remembered requests, Android's journal | the queue of `SaveQueue`, seen from above |
| `MobileStorage`, `DeviceProofs` | SQLite and JSON backup of the React Native app; the theorems of a device: its storage and its controller | |
| `PendingCaptures`, `PendingCapturesProofs` | the drain of queued captures and commands, its theorems | |
| `AutoSync`, `MobileTriggers` | the controller; the mobile triggers around it (theorems in `DeviceProofs`) | `MobileTriggers` extends `AutoSync` |
| `SyncConfiguration`, `ConfiguredSync`, `SyncConfigurationProofs` | the configuration transaction; sync runs that read beside it; the theorem | `ConfiguredSync` extends it |
| `CloudServer`, `CloudServerProofs` | the server's processes, their theorems | |
| `MindwtrCalendar`, `CalendarPush` | the app's calendar; the push of tasks into it | |
| `MC...` | constants for TLC, and machines checked side by side | the modules of that run |

**SyncOrchestrator.** Variables are those of the closure plus the promises themselves, since
`reset()` forgets a cycle without stopping it. A promise settles in one step and its
`.finally` callback runs in a later one, so other microtasks may call `run()` in between.
`mandated` is a history variable: how long the follow-up still has to be held back.

**SyncCycleMutex, SyncCycles.** A caller takes the current promise as its `previous`,
installs its own, and waits; `finally` resets the chain only if nobody has extended it.
`order` is a history variable; the invariant says that the promises alone encode it. In
`SyncCycles` the callers are the orchestrator's cycles: after a `reset()` only the mutex
keeps two of them apart.

**RemoteFence.** The provider holds one record and a version; writes and removes carry the
version they expect. A request is an element of `network` until it is served: the client may
give up on it and it may still land. A read is served at one instant and received at another;
the client charges the whole round trip. `mutation` is the provider request a caller sends
right after `assertHeld`, and that lands within the request timeout or not at all. A record
that does not parse is a failing read.

**EntityMerge, SyncReplicas.** A version keeps its timestamps, revision, revising device and
content as numbers; only their order matters to the code. `SyncReplicas` lets devices with
fixed clock differences edit, delete and restore one entity and sync it in any order;
`buried` is history, the latest deletion that has reached the remote document, forgotten when a
user who has seen it restores the entity.

**DocumentMerge, DocumentReplicas.** A document is a project, one section of it and a task
that may sit in either; the status of the project, the title of the section (lost when an
archive is compacted) and the task's container and closedness are what merges compare. One
clock is common to all devices, a device syncs at least every `MaxOffline` units, and
`2 * MaxOffline < Retention` (the code's 90 days against how long a device may stay away).
`users` picks the operations of a behaviour, and which devices run a client of 1.3.0 or
before, modelled from what comments in the code say of it. The definition `Once` only makes
TLC evaluate a document once. Left out: areas, people, attachments, saved filters,
completing and reopening by hand.

**SyncRun.** Each step runs up to the next `await`. A document is the set of changes it
holds, so that merging is union; what matters is which document *replaces* which. `store`,
`disk` and `unsaved` are the in-memory state, what is persisted and the newest queued save;
`fast` is the recorded pair of fingerprints by which automatic runs skip; a mark is the
`pendingRemoteWrite...` triple of the settings. The backend of a behaviour is WebDAV/Dropbox
(conditional PUT under the fence, which is assumed to keep peers out as `RemoteFence` proves)
or the self-hosted cloud (no fence, the server merges a PUT).

**SaveQueue, StoreReload.** An edit is written at once as a row when nothing is queued,
otherwise as a snapshot; both draw ordinals from one counter. Storage keeps the higher
revision of a row. Writes complete in any order. `stateAt` remembers what each ordinal
covered. `StoreReload` adds `fetchData`: flush, read, compare the stamp, replace.

**RequestReceipts.** The queue is reduced to the newest queued snapshot, the one being
written and the rows on their way. `Journaled` is the Android host, which sends one request
at a time; other hosts send several. Stamps are never reused; a commit and its bookkeeping
are one step. Left out: receipt-only commits and prerequisites (iOS commands), the 30-day
pruning, refusals for a different payload, journal files that cannot be deleted.

**MobileStorage.** A cell of a document is a row (kept by revision) or a setting (last write
wins). `Exposures` says which device calls may fail in a behaviour. Microtasks of the backup
writer go before other work (`WriterTurn`). Left out: a backup that is too large or damaged
for good (the code abandons it), the one-time reconcile and first migration, the preloaded
startup snapshot, queries, widgets and the web build. What is promised depends on the device:
SQLite may refuse any write, and the process may die at any step. Beyond that, saves wait for
the reload and acknowledged rows survive if SQLite never fails to open or to take a recovered
document, or else the marker and the backup can always be read at a launch and the calendar is
not in use (`OpensInOrder`), and the backup can be read and written in between
(`BackupHolds`). Settings survive too, and a load serves everything acknowledged, if SQLite can
be read (`SqliteReadable`); otherwise an older backup may be loaded, which a row withstands by
its revision and a setting does not. Section 4 shows that each condition is needed.

**PendingCaptures.** Items are numbered in the order of their file names; `tap` is when the
user acted. `applied`, `overruled` and `missed` are history. With `editsWait` the host is the
native one of `apps/android-native`: a drain is one call of the engine, journaled (`entry`)
until it owes nothing; `host` is what the process knows of it. The user's edit is checked on
the UI thread (`Ask`: no failed drain on record) and then waits for the engine (`asked`,
`EditTask`), so that a drain may fail, its failure be put on record (`HostGoesOn`), replayed
and cleared in between. `Overruled` says which commands such an edit overrules for good: those
that had their effect before an edit the host let go on with no failed drain on record, unless
the latest drain could not look at their file. The host may also refuse an edit because its row
has changed; the model lets it pass. `NewestWins` is about behaviours whose record writes
succeed. Left out: Pomodoro items, commands without a time, the 14-day pruning of records,
invalid audio paths, sync runs during a drain, iOS widget completions, a journal entry that
cannot be deleted, a widget's check-off whose file is published again because the widget could
not note the first time (`CheckoffStore.sweep`), the Watch's own side of a delivery.

**AutoSync, MobileTriggers.** Timers hold what is left of them, `asked` and `carried` are
history (how long a backend asked to be left alone; edits a cycle took with it). A cycle that
has settled is only known to be in flight still: its start has been used by then. The mobile
triggers add app states, the payload fingerprint (`seen`) and deduplication. A resume takes the
request made in the background and makes it again before the application counts as active, so
with a cycle in flight it is only remembered again, and the cycle's end drops its follow-up.

**SyncConfiguration, ConfiguredSync.** A stored value is the number of the transaction that
wrote it, 0 when unset; a setup is proven when a probe saw exactly its values. Every call of
the device store may fail with or without its effect, and the process may die at any step.
A run reads the store also for a key it has cached, as an entry of the cache is good for 30
seconds. `overlapped` belongs to the latest run; `overtaken` and `late` are history too: a read
of the store that was overtaken by a write of its key, and the keys such a read has cached.
Left out: the desktop's native promotion journal. `OutcomeIsTrue` lets a password be removed
that belonged to no server.

**CloudServer.** A document is a set of requests and a trail; the identity of a file is a
stamp no file had before; `busy` is the event loop of a process. A write fails before or after
its rename, a crash drops the process's locks, cache and chains. Captures of a behaviour are
retries of one capture id. Left out: authentication, rate limits, a replaced storage root,
capture tokens, the calendar feed, direct attachment uploads, the validated-file and metadata
caches, repair of legacy attachments, lock shards shared by two keys.

**MindwtrCalendar, CalendarPush.** One step per call of the device or its storage, which may
fail with or without effect or be the last before the app dies. `goal` is what the user last
asked for; users remove a calendar by hand only between operations. In `CalendarPush` a task
is a version and whether it belongs into the calendar; `orphans` are events whose creation was
cut short before they were recorded, which the code cannot find again. A recolor's `answer` is
the colour it stored, or `None` if it rejected or, on iOS, answered false with nothing stored.
Left out: event
fields, permissions, providers that show a calendar late, renaming, macOS.

## 3. Runs

A run whose name covers two machines picks one of them in its initial state (`machine`), and
a `site`, `use`, `phone`, `on`, `users` or `exposure` picks the scenario: which operations,
failures and bounds a behaviour has. So one run asks the questions of one subsystem.

| Run | Instance | Properties |
|---|---|---|
| `sync_cycles` | 3 cycles, 1 argument, pacing {0,1}, requested delays {1,2}, resets | `OrchestratorInv`, `MutexInv`, `MandatedDelayKept`, `FollowUpEventuallyRuns`, `ImplementsFifoLock` |
| `fence` | 2 devices, clock to 4, TTL 5, heartbeat 1 (abandoned after 3), horizon 2, request timeout 1, 2 requests under way | `FenceInv`, `MutationsExclusive`, `TakenOnlyWhenLapsed`, `RemovesOnlyOwnRecord` |
| `replicas` | one entity: 2 devices one window apart, 4 changes, clock to 3; documents: 2 devices, 2 changes, clock to 4, retention 3, four sets of habits, one with an old client | `MergeSymmetric`, `ChangesSurvive`, `DocumentsInv`, `Converges`, `ArchiveSectionsStay`, `RewritesEnd` |
| `sync_run` | both backends, 2 edits, 1 peer write, 1 failure, 1 crash | `RunInv`, `NothingOverwritten`, `ChangesArrive` |
| `run_window` | fenced, 1 edit | `StoreKeepsEdits`: violated, section 4 |
| `store` | queue: 2 tasks, 3 edits, cap 2, 2 attempts, a reload; receipts: 3 requests on 2 rows, four hosts, up to 2 failures and 1 crash | `QueueInv`, `ReceiptsInv`, `NothingGoesBack`, `SavedOrReported`, `RepliesStand`, `JournalEmpties` |
| `auto_sync` | desktop and mobile, cool-downs up to 1, a backend's wish 0 or 2, heartbeat 2, interval stretched to 2 after a long cycle on mobile | `ControllerInv`, `EditsSynced` |
| `mobile_storage` | 1 row, 1 setting, 3 edits, 1 crash, four exposures | `StorageInv`, `NoSaveBeforeReload` |
| `configuration` | 2 transactions over 3 initial setups and 6 candidates (a kept password stands for a kept token too), with 2 failed calls or crashes, or with 2 sync runs | `TransactionInv`, `SyncUsesStored` |
| `captures` | up to 3 items for 1 task, up to 2 failures, 1 crash, 1 edit; four uses | `CapturesInv`, `ReplayWritesNothing`, `EventuallyTaken` |
| `cloud` | 2 processes, 3 requests, 2 namespaces; four sites, up to 2 failures or crashes | `ServerInv`, `CapturesOnce` |
| `calendar` | 3 operations at once, or 2 with 2 failures; 2 tasks, 2 calendars, up to 2 failures and 2 edits | `CalendarInv`, `OperationsSettle`, `PushInv`, `FullRunRepairs`, `Mirrors` |

What they show:

* `sync_cycles`: a queued follow-up runs and not before the delay its cycle asked for, the
  timer and the queue agree, and the promise chain implements a fair lock.
* `fence`: no two devices have a provider mutation under way, a lease is taken over only when
  lapsed, a release removes only its own record, with late and lost requests and crashes.
* `replicas`: a merge does not depend on the side; `ChangesSurvive` (a change made on top of
  the remote document wins whatever the clock says; a buried version stays buried until a user
  who has seen the deletion restores it); copies
  converge; a merged document is never refused, so a device never gets stuck
  (`SyncNeverRefused`); a purged tombstone leaves no older version to come back; an archive
  keeps the sections its reactivation restores; repairs and purges do not answer each other.
* `sync_run`: no write removes a peer's change, no edit leaves the store outside the last
  window of a fenced run, the recorded fingerprints never hide a change (with a fence), edits
  are published (without one) and peers' changes arrive (with one).
* `store`: every unsaved edit is carried by the queue or reported, a generation reported as
  saved is on disk, retried snapshots and reloads take nothing back; a receipt proves its
  data, a reply waits for its commit, no replay writes twice, the journal empties.
* `auto_sync`: no automatic run before the backend's wish or the cool-down has passed, the
  retry of a failure stays armed, and if edits stop all of them are published.
* `mobile_storage`: what a save reported as done is in SQLite or in the copy the next launch
  prefers, and a quarantined store saves nothing before it has reloaded.
* `configuration`: whatever call fails, an active backend is one a probe has seen, the reported
  outcome is true, one failure is undone, and a run that no transaction overlaps uses what is
  stored, whatever ran before it, except for a value that an overtaken read has left in the
  cache (section 4).
* `captures`: no item is lost, late commands do not overrule newer ones, a recording outlives
  its queue file, a replay writes nothing over an edit that the host let through between two
  drains, and the queue empties.
* `cloud`: acknowledged changes stay, refused and timed-out requests never land, conditional
  edits saw all earlier ones, reads are true, the namespace cap holds over processes, queues
  move on, and a capture sent three times makes one task with its recording.
* `calendar`: one calendar per install through failures and deaths, other calendars untouched,
  a picked colour shown (iOS), no circular wait, repeated operations finish; no event out of
  reach, one clean full run repairs everything, edits reach the calendar.

A property that joins several facts (`...Inv`, `NothingGoesBack` and the like) is a
conjunction of named definitions, each with its own comment; `PROJECT.json` lists a mutation
of the code's model for each of them.

**Bounds.** The orchestrator and the mutex are finite without bounds. In `fence` three writes
are an acquisition, a renewal and a take-over; two requests under way are a stray one and a
live one; the clock reaches the moment after abandonment. Two devices suffice for every pair
of sides of a merge; changes fall inside and outside the ambiguity window. Documents have two
changes because each is followed by every order of syncs, loads and purges until the
tombstones of both have expired. One failure and one crash per run of `sync_run` reach every
window; back-off runs out within the clock. In `store` the cap and the attempts are both
reached. Receipts need two requests on one row for staleness and a third for the journal's
order; `limit` 1 makes eviction happen. In `mobile_storage` the third edit is the one made
after a recovery. In `configuration` two faults are one in the transaction and one in its
rollback. In `auto_sync` a wish of 2 outlasts every cool-down, and 2 is the length of a cycle
that stretches the minimum interval. In `captures` the second failure is that of a replay. Deadlock checking is off where bounded edits, clocks or calls run out.

**Fairness.** Cycles settle (every request has a timeout), promise callbacks run, timers run
down and fire. Every device goes on syncing. The event loop makes the next step of a run,
saves are answered, the host sends its journal again after a boot and on the retry the user is
offered, the application is opened again, drains go on and a failed one is tried again (a
`WorkManager` job with back-off). For `EditsSynced` strong fairness
says that the backend is reachable, the gates pass and a sync succeeds again and again, that a
task is not edited for ever on the desktop, and that a phone's application is left and resumed.
In `calendar` a user repeats an operation that was cut short. Failures, crashes, edits and
manual runs are never forced, and bounded. The fence, the server, the mobile storage and the
configuration have safety properties only.

## 4. Findings

**The last window of a run** (`run_window`, `core/sync-run.ts:1930`). Between the last
freshness check and `finalizeSuccess` a fenced run awaits a read of the fence; an edit made
during it is replaced in the store by the merged document and the follow-up is cleared. The
edit is still in the save queue, so a restart may bring it back; a second edit's snapshot
replaces it there, and then it is lost. ADR 0009 says that a local change aborts the run.
Without a fence the await is absent.

The models also show the following, outside what the runs above check; each is reached with
the constants named. A definition marked "a claim the code does not keep" states it.

| Where | What | Reached with |
|---|---|---|
| `core/sync.ts:576` | Three devices need not converge: delete against live is decided by revision inside the ambiguity window and by time outside, live versions by revision alone, which is a cycle over three versions. | `SyncReplicas`, 3 devices, `Ahead` 0, `MaxTime` 2, `MaxRev` 3: `Converges` |
| `core/sync.ts:576` | With more than two devices a buried version can come back without any clock drift: inside its window a deletion is beaten by a higher revision, which is then beaten by an older live version of a still higher one. | `SyncReplicas`, 4 devices, `Ahead` 0, `AmbiguousWindow` 1: `BuriedStaysBuried` |
| `core/sync-run.ts:1378` | Without a fence the fingerprint is asked for after the read it is recorded for; a peer's write in between is recorded as synced. | `SyncRun`, `{"cloud"}`, 1 peer write: `RecordProvesRemote` without `Fenced` |
| `core/sync.ts:1554` | The retry time of a cycle that changed nothing locally is stored without the marker that makes the next cycle look at it. | `SyncRun`, 1 edit, 1 failure: `BackoffRespected` |
| `core/sync-run.ts:1158` | The follow-up requested because the server merged an upload is cleared by the finalisation of the same run. | `SyncRun`, `{"cloud"}`, 1 edit, 1 peer write: `ServerMergePulled` |
| `core/store-settings.ts:551` | After the last attempt to save failed, a reload replaces the store although the banner says to keep the app open. | `StoreReload`: `UnsavedStaysInStore` |
| `core/auto-sync-controller.ts:375` | A user's request queued behind a cycle is replaced by an automatic one and meets the cool-down. | `AutoSync`: `UserRunNotHeldBack` |
| `core/auto-sync-controller.ts:328` | A successful manual run clears the timer of an edit it did not include; the edit waits for the next trigger. | `AutoSync`: `RecoveryIncludesPending` |
| `core/auto-sync-controller.ts:359` | The end of a background cycle forgets the request the next foreground should run, also one that a resume (`core/mobile-sync-triggers.ts:258`) has just made while that cycle was in flight. | `MobileTriggers`: `RememberedUntilRun` |
| `apps/mobile/lib/storage-adapter.ts:1319` | A recovery that SQLite refuses lets a save through before the reload. | exposure `{"launchRead", "recoveryWrite"}`: `NoSaveBeforeReload` without `OpensInOrder` |
| `…storage-adapter.ts:219` | A marker that cannot be read at launch is mirrored as set without being stored; if SQLite then fails to open, the backup takes a save without a marker and the next launch ignores it. | exposure `{"launchRead", "open"}`: `AcknowledgedSurvives` without `OpensInOrder` |
| `…storage-adapter.ts:1152` | One failed read of the backup while it is ahead serves SQLite without quarantine. | exposure `{"backupRead"}`: `LoadsAcknowledged` without `BackupHolds` |
| `…storage-adapter.ts:606` | The failure of a backup write is reported to another flush, and a save reports success. | exposure `{"backupWrite"}`: `AcknowledgedSurvives` without `BackupHolds` |
| `…storage-adapter.ts:875` | The calendar's helpers recover the backup beside a save that is writing it. | exposure `{"open", "calendar"}`: `AcknowledgedSurvives` without `OpensInOrder` |
| `core/sync.ts:1384` | Sections count as purged by a peer because this device purged its copy of the remote document. | `DocumentReplicas`: `PeerPurgeFollowsPeer` |
| `core/mobile-sync-configuration-transaction.ts:229` | Dropbox tokens are put back under a backend that could not be switched off. | 3 faults: `ActiveIsProven` |
| `core/sync-configuration-transaction.ts:589` | "Left disabled" is reported also when switching off failed. | 3 faults: `DisabledMeansOff` |
| `core/mobile-sync-configuration-transaction.ts:212` | Rolling back from iCloud stores `cloudkit` whatever it is given. | candidate `"icloud"` over `"dropbox"`: `OneFaultIsUndone` |
| `core/mobile-sync-service.ts:1170` | A run beside a transaction can use the new address with the old password. | `ConfiguredSync`: `SyncUsesProven` |
| `core/mobile-sync-service.ts:706` | A run's read that a transaction's write has overtaken is cached after the transaction cleared the cache; a later run that overlaps nothing works with the old value for up to 30 seconds. | `ConfiguredSync`: `SyncUsesLatest` |
| `apps/mobile/lib/pending-captures.ts:148` | In the React Native app edits do not wait for an unfinished drain: a reopened task is checked off again. | `Overruled` without `EditsWait` and `host = "open"`, commands with `editsWait` FALSE: `ReplayWritesNothing` |
| `…/pilot/StartOrder.kt:49` | Android, against "until its replay, a reopen would be undone by that item's retry" (`InboxViewModel.kt:1861`): a drain's failure is put on record after the engine is free again; an edit that was let through before, and waits for the engine, is undone by the retry. | `Overruled` without `host = "open"`: `ReplayWritesNothing` |
| `…/pilot/ProcessCoreHost.kt:337` | Android: a replay that cannot read the queue file or the record of commands owes nothing, so the failure is cleared; an edit let through before the next drain is undone by it. | `Overruled` without `\ missed`: `ReplayWritesNothing` |
| `core/native-request-receipts.ts:412, 537` | A sync writes a pending request's data without its receipt; with two requests at once a save confirms the other too. | a journaled host with a sync and a failure; two requests without a journal |
| `apps/cloud/src/server-data-cache.ts:112` | A REST read at one process caches the old document under the new file's identity; its next write loses an acknowledged change. | site with 2 processes and `"list"`: `AcknowledgedStays` |
| `core/calendar-push-service.ts:648` | Android: a push run and a recolor both recover a creation, and a second calendar is made. | recolorings with failures: `OneCalendar` |
| `core/calendar-push-service.ts:1041` | iOS: two recolorings with a push run asked for between them wait for each other. | 2 colours and 3 calls: `NoCircularWait` |
| `core/calendar-push-service.ts:702` | iOS: a deletion cut short after the calendar is gone never finishes. | `DeletionFinishes` without `Os = "android"` |
| `core/calendar-push-service.ts:1010` | Android: a push run creates the calendar in the old colour while a recolor stores the new one. | `PickedColorShown` without `Os = "ios"` |

## 5. Proofs

All theorems hold for every value of the constants that satisfies the named assumptions;
TLC evaluates these assumptions in the runs.

* **Orchestrator** (`OrchestratorCorrect`, `DelayKept`), for any sets of promises, arguments
  and delays. `OrchestratorInv` joins types, "a timer implies a queued request and no cycle in
  flight", "the tracked cycle is live" and the bookkeeping of the mandated delay. The last part
  is what makes `DelayKept` provable: the delay is found again first in the minimum delay and
  then in the timer.
* **Cycles** (`CyclesCorrect`): both machines composed, where a promise of the orchestrator is
  a caller of the mutex, keep both invariants, the mandated delay and the steps of the lock,
  because each step of the composition is a step of one and a step or a stutter of the other.
* **Mutex** (`MutexCorrect`, `RefinesFifoLock`), for any set of callers. Mutual exclusion is
  not inductive: `ChainSpellsOrder` says that each caller's `previous` is the caller before it
  in order of arrival, hence only the oldest can be inside. The refinement theorem covers the
  initial state and the steps; the fairness of the lock stays with TLC.
* **Fence** (`FenceCorrect`, `MutationsAreFenced`, `MutationsExclude`, `TakeoverIsJustified`,
  `ReleaseIsPeerSafe`), for any set of devices, heartbeats and time constants with
  `RequestTimeout < Horizon < TTL <= MaxTTL` and heartbeats below the TTL. The argument:
  `Secured(l, d)`, "until d the file names lease l and stays good until d", holds for every
  record a client has read as its own and for every open mutation. It survives the only two
  ways in which the file changes: `WriteInv` says that a write that can still succeed meets an
  absent, foreign or lapsed record or extends its own lease (a renewal never shortens a
  deadline because the advertised heartbeat only grows within a lease); `RemoveInv` says that
  a remove that can still succeed meets its own record when nobody relies on it any more. The
  bounds on versions, leases and requests appear in guards only and are arbitrary.
* **Merge** (`MergeIsSymmetric`, `ReplicasMergeSymmetrically`, `LiveMergeAssociative`).
  Symmetry is proved rule by rule for all versions, unparsable and clamped timestamps
  included, and lifted to every reachable state. Associativity is proved on live versions
  with revisions and plausible stamps: there the winner is the maximum of a total order, which
  is why edits alone converge. It fails once deletions join (section 4).

* **Causal changes** (`CausalChangesWin`), for any number of devices, under `ClocksAgree`: no
  two clocks are further apart than the ambiguity window. `CausalInv` says that stamps lie in
  the past of the device that gave them, and that a local version differs from the remote one
  it was made from by a higher revision, given by its own device, and by a stamp that is at
  most a window older. Without the assumption a slow clock loses its user's edit.
* **Deletions** (`ChangesOfTwoSurvive`), for two devices under `ClocksAgree`, with a window no
  longer than the tolerated skew (30 seconds and 5 minutes, `sync-types.ts:83,87`), for any
  number of changes. `StandingInv` adds to `CausalInv` that a device stamps its own versions in
  order (`OwnStampsInOrder`), that the writer of the remote version has it as its base
  (`WriterHasRead`), that a device whose base is out of date has been left behind by a successor
  of the same writer (`OvertakenByWriter`), and that a live version from before the window of
  the latest deletion still meets that deletion in the remote document
  (`OutdatedMeetDeletion`). This needs `Pair`, at most two devices: with more of them such a
  version can meet a third device's (section 4).
* **Save queue** (`SaveQueueSafe`, `QueueSafe`, `NothingTakenBack`), for any tasks, callers of
  flush, cap and attempts. `NothingUnaccounted` is not inductive by itself. `Bookkeeping` adds
  that each save carries the store as it was when its ordinal was drawn, that ordinals grow
  along the queue and beyond everything saved or being saved, and that what the store has and
  a save has not is carried by a later one (`LaterEditsCarried`); then a snapshot may be
  dropped by the cap, covered by a newer one or given up without losing track of an edit.
  Beside a reload, `ReadingIsQuiet` says that under a read whose stamp still matches no row
  is on its way and every snapshot equals the store, so that the store loses nothing unstored
  to it. Both parts of `NothingGoesBack` follow.
* **Sync run** (`RunSafe`, `NothingLost`), for any backends, back-off and number of edits,
  peer writes, failures and crashes. `RunInv` goes along the places of a run: a snapshot
  whose stamp is still current holds the whole store and what was last synced
  (`SnapshotHolds`); a merged document covers both, is on disk from the local write on, and
  under the fence still meets the remote document it was merged with (`MergeHolds`); after the
  upload it covers the remote document whoever wrote it (`UploadHolds`). So every replacement
  is by a larger document, and the recorded fingerprint hides nothing. The retry time is only
  typed as an integer.
* **Configuration** (`TransactionSafe`), for any number of transactions, failed calls and
  crashes, beside sync runs. `TransactionInv` follows a transaction: the snapshot is true or a
  read has failed; what is not marked as touched is as it was; the calls still to be made are
  the only ones that keep the stored values from being the candidate's (or, in a rollback, the
  previous ones); at which steps the flag is off; a rollback is due to a failure and nothing
  is left undone without a second. `Supported` excludes what section 4 shows to fail: iCloud,
  and more than two faults when Dropbox tokens may have to be put back. The instance that TLC
  checks satisfies it.
* **Configuration reads** (`SyncReadsStored`), for any candidates, transactions and sync runs,
  overlapping ones before it included: while no call has failed, a run that no transaction
  overlaps works with the stored values, except for keys in `late`, the one way in which the
  cache goes stale (section 4). `SyncInv` says that every other cached value is the stored
  one, that a read of the store which no write has overtaken has the stored value, what a
  transaction between its writes leaves in the cache, and how far a run has read. Runs beside
  a transaction are exempt, and runs after a failed call stay outside the theorem.
* **Auto-sync** (`DesktopPaced`, `MobilePaced`), for any intervals, cool-downs, delays asked for
  and numbers of edits, on the desktop and with the mobile triggers. `PaceInv` joins
  the ranges of the timers, "the cool-down covers what the backend asked for" (`PacingInv`), and
  `Consistent`: while a cool-down lasts the throttle timer is armed for its end, an automatic
  cycle that has begun leaves nothing to wait for, and a user's follow-up never arms the timer.
  That doubling never shortens a cool-down is a lemma about powers of two.

* **Cloud server** (`QueuesSafe`, `ServerSafe`, `CapturesSafe`), for any number of processes,
  namespaces, requests, crashes and failing writes, and any cap. In layers: `Exclusion` and
  `Queues` say that a process runs one callback, a lock has one holder, and every request that
  waits has its one link; `Course` says how far a request can be. From them follow
  `NobodyStranded` and, with `Admitted` (nobody is between the check of the cap and the
  creation but the holder of the admission lock), `NamespaceCap`: that is `QueuesSafe`. The
  rest is about documents: a cached document with the file's identity is the file's
  (`CachesTrue`, as a published file has an identity no cache has seen), what a request has
  loaded stays the stored document until it writes (`BaseCurrent`), so the only change of a
  document is the addition of its writer; `Landing` ties an answer to what has landed, and
  `Reading` what a reader knew to what it reads. `ServerSafe` and `CapturesSafe` assume
  `ReadsAlone`: a server that serves REST reads, which take no lock, is the only process of its
  data directory. Without it the theorem is false (section 4, `server-data-cache.ts:112`);
  `QueuesSafe` does not need it. The sites that TLC checks satisfy it.

* **Captures** (`CapturesCorrect`, `ReplaysWriteNothing`), for any number of files, taps, tasks,
  deliveries in any order, failed calls and deaths of the process. `CapturesBase` carries
  `NothingIsLost`: the drain works through distinct queued files (`WorksThroughQueue`), disk
  holds the store of an earlier moment (`DiskFollows`), a record of a task names a command
  whose effect is on disk (`RecordsProve`), and the item at the head has been stored, saved and
  remembered exactly as far as the drain's place says (`HeadProgresses`). The record is why a
  skipped command counts as done. For `NewestWins`, `CommandsRule` says of memory and disk
  alike that a task with a record is done, or put off by a command no older than the record;
  then the newest command can only have been overtaken by itself or by a completion. As taps
  differ, `id` and time of a record name the same command. `ReplaysWriteNothing` has no
  assumption. Its invariant, `EditsFindSettled`, follows the native host: while a drain runs
  that owes nothing so far, every applied command is recorded, gone, still among the drain's
  entries, or passed over; so when a drain ends that owes nothing, and as long as no drain is
  journaled, an edit finds each command settled or passed over. That an open host has no
  journaled drain is part of it, and fails for a host that is only about to record the failure,
  which is the first of the two gaps of section 4.

* **Mobile storage** (`StorageCorrect`, `QuarantineHolds`), for any rows, settings, kinds of
  devices and numbers of edits and crashes. `StorageIInv` is in three layers. Of every device:
  the shapes of store, queue and writer's chain (`StoreShape`, `QueueShape`, `Calls`: of all the
  calls of the backup's writer at most one is that of a save, the save that flushes). Under
  `OpensInOrder`: where a save may be while SQLite is open, closed or quarantined (`Course`),
  which is `QuarantineHolds`. Under `BackupHolds`: the marker and its mirror agree (`Modes`),
  the queued snapshots grow towards the store (`Ordered`), the backup of a save that flushes is
  pending, being written or there (`InFlush`, `BackupComes`). Then whatever is acknowledged is
  in SQLite while the marker is off (`Durable`), and each copy that may still be written or
  loaded covers it together with SQLite (`BackupCovers`, `StoreCovers`). Where SQLite is
  readable the copies have it by themselves (`StoreHasAll`, `BackupHasAll`), which settings need.

Only model-checked: all liveness, which the prover does not handle; `SyncUsesStored` after a
failed call; and the modules that have no proof module in the table of section 2, from
`DocumentMerge` to `CalendarPush`.

## 6. Not modelled, and the plan

Not modelled: user interfaces, view models, importers, parsing and date arithmetic (pure
functions over unbounded text, covered by tables of tests); cryptography and the enrolment of
devices; attachment transfers; the SQL layer and row codecs; settings merge; the phases of a
run for attachments, calendars and activation probes; the mobile service's read-check,
document lane and background limits; the desktop's external-file watching, promotion journal
and macOS calendar.

Next, in order of importance:

1. Proofs: the request receipts, the documents and the calendar push.
2. Attachments: the order in which blobs and the metadata that refers to them are published
   and cleaned up.
3. The mobile service's document lane, as another implementation of `FifoLock`.
4. `SyncRun` over `SaveQueue` instead of an atomic save.

## 7. Running

`tlc -config RemoteFence.cfg MCRemoteFence` and likewise for the other configurations;
`tlapm SyncRunProofs.tla` and likewise for the other proof modules. A definition whose
comment begins "Mutation of" is a deliberately wrong variant, used to see that a property
notices it; no specification uses one.
