# TLA+ models of the Realm object store

This directory models the object store: the life of a sync session and its
callbacks, users and their requests, pending actions on Realm files, the
delivery of change notifications and the change sets they carry, collections of
results, the cache of open Realms, and the schema of a file. The modules are translated from the code
under `src/src/`; TLC checks them on small instances and TLAPS proves the most
important properties for every value of the constants. `PROJECT.json` maps each
definition to the lines it models.

## 1. The system

The object store is the layer between the storage engine (transactions,
queries; in another repository), the sync client (also in another repository)
and the language bindings. Its parts, what each keeps and what is hard about it:

| Component | State | Operations | Hard behaviour, and what makes it correct |
|---|---|---|---|
| `SyncSession` (`sync/sync_session.cpp`) | `m_state`, `m_session`, death count, map of completion callbacks, weak external reference | revive, close, log out, shut down, wait for upload or download, handle error, refresh tokens, resync | Releases `m_state_mutex` inside `advance_state(inactive)` while the sync client calls back on its own thread. A dying session stops when, and only when, its changes are uploaded; every wait is answered once and honestly. |
| `SyncManager` sessions | `m_sessions` under `m_session_mutex` | `get_session`, `get_existing_session`, `unregister_session` | Creation, revival and unregistration race with the dropping of the last reference. One session per path. |
| `SyncManager` users, `SyncUser`, metadata, file actions | users, current user, tokens, persisted rows | configure, log in, log out, switch, remove, run file actions | Several locks; state in memory and on disk; a crash between two steps of a file action. |
| `App` | user, request in flight | log in, link, refresh token and retry | Retry after a refresh, log-out during a request. |
| `SyncProgressNotifier`, `ConnectionChangeNotifier` | list of callbacks, progress snapshot, iteration index | register, unregister, update, invoke | Callbacks run outside the lock and change the list. |
| `AsyncOpenTask` | session, coordinator | start, cancel | Cancellation against a late completion: whoever takes the session first has the coordinator. |
| `RealmCoordinator`, notifiers | `m_new_notifiers`, `m_notifiers`, the transactions they are pinned to, `m_notifier_skip_version` | register, clean up, run, hand over, package | One worker for all Realms of a file; the mutex is released while notifiers run. Every change is reported exactly once, to everyone who did not ask to skip it. |
| `RealmCoordinator`, Realm cache | coordinator per path, config, open file, weak Realm references, cached schema | open, freeze, bind, unregister | Expiry of a Realm or a coordinator against its lookup and its destructor. One coordinator per path, one set of settings, one cached Realm per scheduler. |
| `Realm` | transaction, read version, schema | begin, commit, cancel, refresh, notify, migrate | Blocks on the worker; calls back into the application. |
| `CollectionNotifier` | list of callbacks, accumulated changes, changes to deliver, `m_callback_index`, `m_callback_count` | add, remove, suppress, add changes, package, before and after advance | A callback may add and remove callbacks under the loop that calls it. |
| Results, List and Object notifiers | previous rows, change set | run, hand over | What changed between two versions. |
| `CollectionChangeBuilder`, `IndexSet`, deep change checker, transaction log handler | none that outlives a call | merge, calculate, shift, search | Index arithmetic. |
| `Schema`, `ObjectStore` | schema, schema version | compare, verify, apply, migrate | One function of the old and the new schema per schema mode. |
| Schedulers, external commit helpers | a queued notify | notify, wake | Notifications are coalesced, never lost. |

Interactions: a `Realm` holds an external reference to its `SyncSession` and
tells it of commits. The sync client calls the session's completion handlers,
progress and connection listeners on one event loop thread. A commit wakes the
commit helper of every process, which calls `RealmCoordinator::on_change` on the
worker thread; that runs the notifiers and posts a `notify` to the scheduler of
each Realm; the Realm's thread packages the notifiers, advances and calls the
callbacks. `begin_transaction` and `refresh` wait for the worker.

`PROJECT.json` lists every component with its status, and under `hazards` the
places where the code could go wrong in a way a test would hardly reach.

## 2. The modules

| Module | Models | Used by |
|---|---|---|
| `SyncSession` | one session, its registry entry and its sync client | `MCSyncSession`, `SyncSessionProofs` |
| `SyncSessionProofs` | theorems about it | |
| `ConnectionNotifier`, `ProgressNotifier` | the two lists of callbacks of a session | `MCClient`, their proofs |
| `ConnectionNotifierProofs`, `ProgressNotifierProofs` | theorems about them | |
| `SyncUsers` | users in memory and in the metadata Realm, tokens, the current user | `App` |
| `App` | the requests of an app over `SyncUsers`, and the death of the process | `MCUsers`, `MCClient` |
| `FileActions` | the file of one Realm and the pending action on it | `MCClient`, `FileActionsProofs` |
| `FileActionsProofs` | theorems about it | |
| `Notifications` | coordinator, worker, notifiers and transactions of the Realms of one file | `MCNotifications`, `NotificationsProofs` |
| `NotificationsProofs` | theorems about it | |
| `NotifierCallbacks` | the callback list of one notifier | `MCComponents`, `NotifierCallbacksProofs` |
| `NotifierCallbacksProofs` | theorems about it | |
| `IndexOps` | shifting of positions, on plain sets | the next five |
| `IndexSetSpec` | what `IndexSet` promises: the abstract specification | `IndexSet` |
| `IndexSet` | the chunked ranges of `index_set.cpp` | `MCComponents` |
| `ChangeBuilder` | `CollectionChangeBuilder`: record, merge, calculate | `ChangeSets`, `ObjectChanges` |
| `ChangeSets` | the changes of a list or of a query's rows over several transactions | `MCComponents` |
| `ObjectChanges` | `IncrementalChangeInfo`, the transaction log observer, list and object notifiers | `MCComponents` |
| `DeepChanges` | `DeepChangeChecker` | `MCComponents` |
| `Results` | one `Results` with its notifier | `MCComponents`, `ResultsProofs` |
| `ResultsProofs` | theorem about it | |
| `Schema` | schemas, their comparison and validation | `ObjectStore` |
| `ObjectStore` | verifying and applying schema changes | `SchemaUpdates` |
| `RealmCache` | the coordinators and cached Realms of one path, references to unbound Realms, `AsyncOpenTask` | `MCRealmCache`, `MCClient` |
| `SchemaUpdates` | two Realms and another process that update the schema of one file, with the coordinator's cache | `MCSchema`, `MCClient`, `SchemaUpdatesProofs` |

`MCClient` and `MCComponents` put several components in one instance. The
components in them share no state, so a behaviour picks one (`part`) and the
others rest; that is exactly the union of their behaviours.

### SyncSession

One `SyncSession` object from its creation to its destruction. `state`,
`session`, `deaths`, `callbacks`, `extRef` and `registered` are `m_state`,
`m_session` (numbered; 0 is null), `m_death_count`, `m_completion_callbacks`
(the id under which each wait is registered), the external reference and the
entry of `m_sessions`.

A critical section of `m_state_mutex` is one action. `advance_state(inactive)`
unlocks in its middle, unregisters the session from the manager and then calls
the waits; what a thread has left to do after an unlock is its program counter
`pc[t]` and, for a caller that goes on afterwards (`update_configuration`,
`handle_error`, `shutdown_and_wait`), `then[t]`. So `Deactivate`,
`UnregisterSession` and `CompleteWaits` are the three parts of
`Inactive::enter_state`, and any other thread runs in between.
`SyncManager::m_session_mutex` is the variable `registryLock`, because
`get_session` holds it over calls that take the other mutex.

The sync client is external. It is modelled from its use: it uploads what was
committed and passed on (`Upload`), it holds the waiters registered with each
`sync::Session` (`waiters`), calls one when its condition holds or, when its
session is destroyed, with `operation_aborted`, in any order; it reports
connection changes and errors (`HandleEvent`). All of that is on one thread,
`SyncThread`. Errors are grouped by what `handle_error` does with them
(`ErrorKinds`); their wording is left out.

Assertions are not assumed. A failed `REALM_ASSERT` sets `failed` and ends the
behaviour; the properties say what holds up to it.

### Notifications

The Realms of one file, each with its thread, and one worker. A critical section
of `m_notifier_mutex` is one action; between them the worker is at `wpc` and a
Realm's thread at `rpc[r]`. The worker's actions are the stretches of
`run_async_notifiers` between two unlocks: choose the notifiers and the version,
run them at the skip version, hand over, run them at the newest version, hand
over. The Realm's are the steps of `begin_transaction`, `commit_write`,
`cancel_transaction`, `refresh` and `notify`, with the wait for the notifiers as
a guard.

A change set is the set of versions whose changes it covers, and every commit is
taken to change every observed collection; so a lost or repeated change is a
missing or repeated number. `reported`, `skipped`, `since` and `bare` are history
variables: what a callback was told, what it asked not to be told, the version
its first call was at, and the notifiers that ran while they had no callback.

What an application does is a constant, `Programs`: which calls each Realm makes
and who owns which collection. `Init` chooses one, so that one run covers several
applications.

### NotifierCallbacks

The list that `Notifications` abstracts to one callback: `list` is `m_callbacks`,
`index`, `count` and `have` are `m_callback_index`, `m_callback_count` (both
`size_t`, with `SizeMax` the largest, `npos`) and `m_have_callbacks`. The loop
`for_each_callback` passes silently over callbacks with nothing to be told and
releases `m_callback_mutex` to call one, so a step of the loop (`CallNext`) goes
from one call to the next. While a callback runs, it may add and remove any
callback, other threads may remove one, and the worker may add changes.
`accumulated`, `toDeliver`, `initial` and `skipNext` are the members of each
callback. `given`, `told`, `due` and `extra` are history: the changes a callback
was there for, those it was told, the callbacks the loop still has to call, and
whether one was called that was not due.

### ConnectionNotifier and ProgressNotifier

Both call callbacks outside the lock. In `ConnectionNotifier` a change is made, and
numbered, under `m_state_mutex`; what the thread has left to do is its `stage`: read
the state to tell, enter `invoke_callbacks`, be inside a callback. A turn of the loop
is a step (`InvokeCallbacks`, `CallbackReturned`), and while a callback runs any
callback is added or removed and the other thread may iterate with the same
`position` and `total`. `heard` is the calls each callback got, with the number of the
change and the state; `overtaken` records that an iteration began before an earlier
change was told. In `ProgressNotifier` the calls an update or a registration has
collected wait in `queue` and `firstCalls` and are made one by one.

### SyncUsers, App, FileActions

`mem` is what dies with the process: the `SyncUser` objects, `m_users` and the
current user; `disk` is the metadata Realm. Each method that writes to disk is a
function from both to a list of writes, and `App` lets the process die between any
two of them and start again. Tokens are empty or not; a session is none, live or
waiting. `net` is the requests sent; replies come in any order, succeed or fail,
and a reply to a request of an expired token refreshes it and sends the request
again. `late` records a reply that changed a user logged out meanwhile.

In `FileActions` a file is the number of its last content. Recording an action,
running it at once or at the next start, moving, copying and deleting are separate
steps that a death can separate.

### IndexSet, ChangeBuilder, ChangeSets, ObjectChanges, DeepChanges

`IndexSet` is the ranges of `ChunkedRangeVector` in chunks of `MaxSize` with the
cached begin, end and count of each. `add_shifted_by` builds its result with the
counts the code's builder gives; where they are wrong (`miscounted`) no further call is
made. A call is a step that records its name,
argument and result in `call`, so that the refinement (`ImplementsSet`) is about
results as well as contents. `ChangeBuilder` is functions on change sets of plain
sets: what `IndexSet` was shown to implement. `ChangeSets` applies operations on a
list, or runs of a query, over several transactions, and compares what is recorded
with the rows. `ObjectChanges` is the transaction log read from the version of the
oldest notifier on, one `infos` entry per version a notifier was added at.
`DeepChanges` asks about the objects of a table in every order, over every graph of
its bounds.

### Results

One `Results` of a table, a list of links or a list of values: its mode, update
policy, ordering, view and indices; the versions of the file, the version read, a
write transaction (`draft`) and a frozen Realm (`pinned`); and its notifier, with
what it has computed for which version and delivered.

### RealmCache

One path: `registry` is its entry in `s_coordinators_per_path`, `coords` the
coordinators made for it with their config, the settings the file was opened with and
`m_weak_realm_notifiers`, `instances` the Realms with the strong references to each.
`refs` are references of threads and of a `ThreadSafeReference`; a Realm or
coordinator nobody refers to has expired at once, and its destructor is a later step
(`Destructor`, `DestroyCoordinator`). A critical section of `m_realm_mutex` is one
step, except that a lookup that has found a Realm (`FindCached`) holds the mutex
(`locked`) and a reference of its own while other threads go on; it then returns the
Realm, passes over it or throws (`ReturnCached`, `PassOver`, `SchemaMismatch`).
`update_schema` comes after the unlock and may throw. The settings `set_config`
compares are one value. `Init` chooses which operations an application uses.

### Schema, ObjectStore, SchemaUpdates

A schema is a function from type names to properties; a column key is a name and
the transaction that made it, so that a column dropped and made again has another
key. `ApplySchemaChanges` does what the schema mode allows, runs the migration (a
member of `Migrations`) and throws or returns the new group. `SchemaUpdates` has the
critical sections of `update_schema`: decide, wait for the write lock, promote and
decide again, apply, commit, cache. Other Realms read, refresh, write and update in
between, and another process updates the file. `doubt` and `broken` record the
situations of section 5 in which the properties are known to fail.

## 3. What is checked

Every passing run finishes without error; every property has a mutant, a
plausible bug in one definition, that TLC shows to violate it.

| Run | Instance | What it shows |
|---|---|---|
| `session_use` | two threads, one upload wait, `AfterChangesUploaded`; get, drop, log out, wait, commit | A session that was told to die has a handler of its current death (`DyingHasHandler`); that handler stops it only when all commits are uploaded (`UploadedBeforeStop`), and does in the end (`DyingEnds`). An upload wait is told of success only if everything committed before it was asked is uploaded (`UploadWaitHonest`), and is answered (`WaitAnswered`). |
| `session_restart` | two threads, one download wait, `Immediately`; every call that restarts a session, every class of error | No wait is dropped (`WaitNotLost`), and one in a running session has a handler that will find it (`WaitsArmed`). |
| `session_resync` | automatic recovery, a server address that is rejected | No wait is called twice (`WaitCalledAtMostOnce`), also while `handle_error` has the callbacks aside. |
| `notifications_observe` | two Realms, two notifiers, three versions; three applications | The worker's assertions hold; the notifiers of a Realm are at one version when they are packaged; nothing is missed, nothing is reported twice, and `suppress_next` finds nothing accumulated. |
| `notifications_live` | one Realm, one notifier, four versions, everything but `suppress_next` | `begin_transaction` and `refresh` do not wait forever, and every commit is reported in the end to a callback that is still there. |
| `client` | an anonymous and an e-mail user, four calls, two requests, a death | A completed log-in or log-out survives a death (`LoginSurvives`, `LogoutSurvives`). |
| | one file, two deaths | What is to be backed up is in the file or whole in a copy (`BackupKept`); an action never deletes a Realm made after it was recorded (`NewRealmKept`). |
| | two Realms, another process, three versions, five schema modes | The cached schema is that of every version of its range (`CacheAppliesToRange`); a Realm finds the columns of its schema in the version it reads (`SchemaFitsFile`). |
| | two connection callbacks, three changes, two threads; two progress callbacks, two reports | Callbacks that stay hear every change once, and in order unless a change was overtaken between the two mutexes (`HeardInOrder`); at rest, the last state told is the connection state, with the same exception (`LastStateTold`). A callback that is not streaming is told one amount, measured by a report that knows its commits, and once that it is done (`MeasuredOnce`). |
| | two threads and the client's, three opening calls, two Realms, two settings; live and frozen, or live and asynchronous | The open Realms of a path agree in their settings (`SettingsAgree`); a reference can be bound where it is resolved (`ReferenceBinds`); a task answers once, and not after a cancel that came first (`AnsweredOnce`). |
| `components` | chunks of 2 ranges, indexes to 6 | `IndexSet` implements sets (`ImplementsSet`) and passes its own `verify()` after every call, but for the counts `add_shifted_by` may leave wrong (`ChunksVerified`). |
| | lists of up to 4 rows, queries of 3, 3 operations | Reported changes lead from the old rows to the new ones (`ChangesReplay`), modifications are at the right rows (`ModificationsKept`), and the KVO account of a list with one move names every position that changed (`KvoExplainsOneMove`). |
| | two notifiers, three log entries | Notifiers added at different versions are told everything (`CompleteUnlessMet`). |
| | three objects and one of another table | The deep search says modified exactly if a modified object is in reach (`AnswersAreReachability`). |
| | two versions and a write transaction | A `Results` shows what its source contains (`ShowsCurrent`); a snapshot keeps its rows (`SnapshotKept`). |
| | two callbacks of a notifier, two changes | The loops call exactly the packaged callbacks that are left, in bounds and once each (`OnlyDueCalled`, `AllDueCalled`); no change is passed over (`NothingPassedOver`); `m_have_callbacks` is exact (`HaveIsCached`). |

Five runs show a disagreement between the code and what its comments, assertions or
tests say. Each is a finding in `PROJECT.json`:

- `resync_loses_wait` (`sync_session.cpp:376`): during an automatic resync
  `handle_error` moves the callbacks aside and swaps them back after the lock was
  released. A wait registered in between is destroyed and never called.
- `skip_lost` (`realm_coordinator.cpp:1009`): a write transaction that begins
  between the two handovers of one worker run has its `suppress_next` consumed by
  the second handover.
- `removed_is_current` (`sync_manager.cpp:425`): a user that was removed and logs in
  again is not made current, because `set_current_user` finds the removed object.
- `schema_cache_assert` (`realm_coordinator.cpp:564`): a Realm that commits between
  another one's `update_schema` and the caching of its schema comes from a version
  the cache does not know of, and its next advance fails the assertion. The update
  must leave the tables as they are: of one that changes them the other Realm is told.
- `index_set_miscount` (`index_set.cpp:244`): `add_shifted_by` leaves a chunk whose
  count is 1 although it holds more, which `verify()` asserts cannot be. Chunks of 4, as
  in debug builds.

### Bounds

- Two application threads and the sync client's suffice for the races of
  `SyncSession`: each of them is between one call and one that overtakes it at an
  unlock. `MaxSessions` and `MaxDeaths` are 2 where the question is what an object
  of the previous session or death can still do; `MaxCommits` is 1: a wait or a
  death needs one commit that is not yet uploaded.
- Three versions let a commit arrive during the worker's run for the previous
  one. `notifications_live` has a fourth. Two notifiers are needed for one to be
  new while the other is not, and two Realms for a commit by somebody else.
- Two callbacks of a notifier let one go before, at or after the place of the loop, or
  come in the middle of it; two changes let one accumulate on another. The
  theorems are for any number. Tokens are not reused, so `MaxTokens` also bounds how
  often a callback is added. `SizeMax` is 7 and only has to exceed every length.
- Two keys let one user be anonymous, three objects let an identity have a removed, a
  logged-out and a logged-in one; four calls and two requests in flight are what the
  findings and the mutants need, and one death can fall between any two writes.
- Chunks of two ranges and indexes to 6 give up to three chunks; the code's chunks
  have 4 ranges in debug builds. `MaxSize` must be even, as chunks are split in half.
- Four rows and three operations contain every pair of overlapping operations and a
  third that follows them; `PathLength` 3 with three objects in a cycle exceeds the
  depth in every way that 4 does with four.
- Three transactions let a schema be made, changed by one Realm and met by another.
  The Realms are symmetric. Larger instances (four versions, four schemas) were
  simulated without a violation.
- Three calls that open a Realm let one Realm be in its destructor, one be open and a
  third be asked for (with other settings: it is refused, so two Realms will do); two coordinators let one be in its destructor while the next is in
  use. The threads are symmetric. Two waits of a task let the second find it answered.
- Deadlock checking is off: an application may stop making calls, and the bounds
  end every behaviour.

### Fairness

- `Worker`: the commit helper's thread runs until the coordinator is destroyed.
- `Proceed(r)`: a Realm's scheduler runs what is posted to it, and a thread inside
  `begin_transaction` or `refresh` goes on when its condition variable is notified.
- `EndWrite(r)`: the application ends the write transactions it begins. Without
  this a refresh is still not blocked, but other writers are.
- `Continue(t)`: a thread inside a call of `SyncSession` goes on. Strong for
  `UnregisterSession`, which waits for a mutex that others take and release.
- `HandleEvent`, `Upload`: the event loop of the sync client runs and, connected,
  uploads. Strong for `Handler`, since a death that is revived and repeated
  disables and enables its handler.

Application calls and errors have no fairness.

## 4. What is proved

Each theorem holds for every value of the constants that satisfies the named
assumptions of the module (any threads, waits, callbacks, Realms, versions and
bounds), and all but `TypeCorrect` and `SessionMatches` (of `SessionMatchesState`) state a
property that a run checks on a small instance. For each
component the property itself is not inductive; below is the invariant that is, and
what it adds. Every one of them was checked with TLC before it was proved.

The assumptions are what the code gives: `BoundsAssumption` of `NotifierCallbacks`
says that a `size_t` holds more than the callbacks ever added, `RealmsAssumption`,
`VersionAssumption` and `ProgramsAssumption` of `Notifications` that the programs are
programs of the modelled calls, `WatchesAssumption` of `ProgressNotifier` that a callback is for
upload or download and streaming or not, `NumbersAssumption` and `ModesAssumption` of
`SchemaUpdates` that a schema version is not `NotVersioned` (which
`realm_coordinator.cpp:143` refuses) and a mode is one of the five modelled; the others that bounds are natural numbers
and that names for "none" are not names of anything.

**SyncSession.** `TypeCorrect` is inductive by itself. The others rest on:

- `DeathInv`: `m_session` follows `m_state`, a dying session has a handler with
  its own death count, a handler with that count waits for all that was committed,
  and no handler has a higher one. `SessionMatches`, `DyingIsWatched` and
  `StopsUploaded` follow. `DyingHasHandler` alone is not inductive: it does not say
  that the handler of the current death waits for the current commits.
- `FireInv` and `PlaceInv`: a wait that is asked for and not called is in at most
  one place, the map, the local map of `handle_error` or the hands of one thread,
  and a thread has waits in hand only on its way to calling them.
  `CalledAtMostOnce` follows, in every resync mode.
- `KeptInv` and `ArmedInv`: in `Manual` mode nothing is moved aside, so a wait stays
  in the map until a thread takes it to call it, and in a running session it has a
  handler with its current id. `NothingLost` and `EveryWaitArmed` follow. In the
  other modes `resync_loses_wait` shows the first to be false.

- `HonestInv`: a handler of an upload wait has a target no lower than what was
  committed when the wait was asked for, and a thread that is about to report success
  found that much uploaded. `UploadsAreHonest` follows, for every set of errors without
  the one that refreshes a token: see `sync_session.cpp:277` in section 5.

**NotifierCallbacks.**

- `LoopInv`: outside a loop the index is `npos`, inside it is before the end of the
  list. So a loop in the middle of the list implies that there are callbacks, which
  is why `add_callback` need not set `m_have_callbacks` there
  (`HaveCallbacksIsCached`), and removals cannot take the index out of range.
- `DueInv`: tokens increase along the list, so the first `m_callback_count`
  callbacks are the packaged ones that are left and those added since come after
  them; what is due is what lies among them behind the index. `OnlyDue` and `AllDue`
  follow.
- `DataInv`: what a callback was given is accumulated, to be delivered or told, and
  in the last loop whoever has something to be delivered is due.
  `NothingIsPassedOver` follows.

The last three are stated, like their properties, up to the removal of a callback
added during the same delivery (section 5).

**Notifications** (`NotificationsProofs`). The invariants are built up in three layers.

- `Struct`: `LockInv` (the Realm in a write transaction is the one that holds the
  lock, and nobody reads beyond the newest version),
  `WorkerInv` (where the worker is, which notifiers it has taken and which versions its
  two transactions are at), `PlaceInv` (what the place of a notifier, `m_new_notifiers`,
  `m_notifiers` or none, says about whether it has run and at which version) and `VersionInv` (how the version of a notifier
  that has run, of its package, of its Realm and of the skip transaction are ordered).
  Together with `TypeOK` this gives `AssertionsNeverFail`, which is not inductive on its
  own because an assertion compares versions chosen several unlocks earlier, and
  `PackagesHaveOneVersion`.
- `DataInv`: what a callback has accumulated or packaged is above everything it was
  told and not above the version its notifier has run at. `ChangesReportedOnce` follows.
  These theorems hold for every program.
- `HearInv` and `SkipInv`: what a run finds begins where the one before ended, for
  every notifier that had its callback before it first ran, and a `skip_next` that is set
  belongs to the one commit whose version is the skip version. `NothingIsMissed` and
  `SkipsFindNothing` follow for programs with `SkipsAlone`: an application
  that uses `suppress_next` gives every notifier a callback that stays and commits what
  it begins. Without that both are false: `cancel_transaction` leaves
  `skip_next` set, and a Realm that writes while one of its notifiers has no callback
  replaces a skip version that was not taken up (section 5). The programs of
  `notifications_observe` satisfy it. For an application that does not use
  `suppress_next`, `NothingIsMissed` has no further hypothesis.

**FileActions.** `FileInv`: the Realm is at one place at most, what is to be backed up is
in the file the record names until it is whole in a copy, and while the process runs the
file a record names exists. It is stated of a state `[files, copies, record]`, so that
it is shown of every state between two writes, where the process may die.
`BackupsAreKept` and `NewRealmsAreKept` follow.

**ConnectionNotifier.** `CnInv` has two layers, beside `TokenInv` (tokens are not
reused) and `PendingInv` (a change is told by the thread that made it, and nobody has
heard of it before its iteration). While nothing is disturbed (`Undisturbed`), one thread iterates
at most, the callbacks counted by `total` are the ones that were registered when it began
and are left, they are the first in the list, and those up to `position` have heard
of the change while the others have not. While no change was overtaken either (`Ordered`),
whoever iterates tells the earliest change that is not told, and a callback
that was ever called has heard of every later change that is done.
`ToldInv` says that what is told of the newest change is the connection state, whether
it was read before or after the unlock. `ChangesAreHeardInOrder` and
`LastStateIsTold` follow, for any number of threads, callbacks and changes. The only
assumption is that one of the threads is the client's: that changes of the listener follow each
other on one thread.

**ProgressNotifier.** `PnInv`: a callback has one package at most; every call to it that
was made or is due, from a report or from its registration, names the amount its package
captured; and a call that says all is done is the only one of its kind and has ended
the package. `ProgressIsMeasuredOnce` follows. It has to speak of the calls due as
well as those made: they are made in any order after the mutex is released.

**Results.** `SnapshotInv`: only a list of values is in mode `List` (`ModeInv`), and a
snapshot of objects is a table view that, computed of the content it was taken at, has the
rows that were shown then (`ViewInv`). The property speaks of the rows `get()` would
give, which depend on the mode, the policy and the notifier; the invariant reduces them to
the view. What a query finds is never opened, so `SnapshotsAreKept` does not depend
on how the storage engine filters, sorts or drops duplicates.

**SchemaUpdates** (`SchemaUpdatesProofs`). The property speaks of the cache alone; what
keeps it right is in the Realms, for `advance_schema_cache` extends the range to the
versions a Realm says it came from and went to, without looking at the file. `SchemaInv`
has four parts:

- `FileInv`: a file that has tables keeps some, one that has a version keeps having one,
  and there are no tables without a version;
- `CacheInv`: the range is one of committed versions, the schema is that of each of them,
  and the file is versioned;
- `RealmInv`: the layout of the file is steady between the version whose schema the Realm
  knows and the one it reads, unless the handler told it of a change, and between the end
  of the cached range and the version it knows. The second is what makes it safe that a
  Realm hands its version to a cache that another Realm has filled or cleared since;
- `PhaseInv`: a Realm in the middle of `update_schema` reads a version, and what it is about
  to commit is versioned and not emptied.

`cache_schema` ignores empty and unversioned schemas, so the cache stays behind on a file
without tables: that is why emptiness is in the invariant, and why `ApplyOutcome` shows of
`apply_schema_changes`, mode by mode, that it empties no file. It does if the migration
function deletes the last type and the schema given has none. `CacheAppliesToItsRange`
has the hypothesis `DeletionsKeepATable`, that a migration that deletes a type goes with
schemas that have one; without it TLC finds the cache wrong (section 5). That a layout is
the same over a stretch if no step changes it is an induction along the versions; it is
done with the least version that differs (`SteadyIsConstant`).

Only model-checked:

- liveness (`DyingEnds`, `WaitAnswered`, `WaitsEnd`, `ChangesReported`): fairness is out
  of the prover's reach;
- what the recursive functions of `IndexSet`, `ChangeBuilder`, `ObjectChanges` and
  `DeepChanges` compute for every input, and the refinement of `IndexSetSpec`: that needs
  induction over data;
- the properties of `App`: removing a user and restarting go through the rows of the
  metadata Realm with folds, and what a fold leaves of each needs induction over data;
- `ShowsCurrent` of `Results`: a table or a list that is not turned into a view yet shows
  what a view without filter and ordering would, which is a fact about filtering, sorting
  and folding sequences, again by induction;
- `SchemaFitsFile` of `SchemaUpdates`: it compares the attributes of columns and not
  only their keys, so it needs that a key determines the column over all versions, through
  every visitor of `ObjectStore` and every kind of change (see section 7).

## 5. What the models found without a run of its own

- `sync_manager.cpp:593`: `log_out` makes the session inactive and unlocks; the
  drop of the last reference then unregisters it as well, and whoever comes second
  fails `REALM_ASSERT(it != m_sessions.end())`. In the model this is
  `failed = "unregister_session"`.
- `sync_session.cpp:511`, `:530`: `handle_error` reads `m_state` without the lock;
  a log-out before it advances makes `advance_state` fail its assertion at `:668`.
- `sync_session.cpp:717-720`: `unregister` checks the state, unlocks and
  unregisters; a revival in between leaves an active session that the manager does
  not know.
- `sync_session.cpp:644`: a connection listener that waits for `m_state_mutex`
  while the session goes inactive leaves it Connected.
- `sync_manager.cpp:569`: if `create_sync_session` throws inside `get_session`, the
  external reference is destroyed with `m_session_mutex` held and takes it again.
- `sync_session.cpp:277`: the refresh of a user whose refresh token has expired
  completes pending waits with the code of the refresh, which may be success.
  `UploadWaitHonest` is therefore checked without that error.
- `shared_realm.cpp:664`: `cancel_transaction` leaves `skip_next` set, so the next
  change of somebody else is dropped. No application of `notifications_observe` both
  suppresses and cancels.
- `results_notifier.cpp:111`: a notifier that runs without a callback moves its
  rows on without reporting. A callback added before the handover starts from the
  wrong version; `NothingMissed` and `SkipFindsNothing` leave such notifiers
  (`bare`) out.
- `collection_notifier.cpp:239`: `remove_callback` decrements `m_callback_count`
  also for a callback added after packaging, which was not counted. The last
  packaged callback is then skipped and its changes are overwritten by the next
  package, or the count wraps to `npos` and the loop leaves the list. The comment
  at `collection_notifier.hpp:238` says that the count is of the callbacks present
  when packaged that are still present. `freshGone` records the case, and the
  properties are stated up to it.
- `sync_session.cpp:889`: `get_session` revives a dying session before it takes the
  external reference. A reference dropped in between does not see the resurrection
  (`ReferencedSessionActive` fails) and closes the session that is handed out.
- `realm_coordinator.cpp:705`: the one `m_notifier_skip_version` is overwritten by the
  commit of a Realm that did not wait for its notifiers, and a change nobody asked to
  skip is dropped. No application of `notifications_observe` has a Realm that reads a
  collection without observing it and writes.
- `sync_session.cpp:1018`: two threads that call the connection callbacks at once share
  the index, so callbacks hear of changes twice, out of order or not at all. And as in
  `collection_notifier.cpp`, removing a callback that was added during the iteration
  lowers a count that did not include it: the last one is passed over, or the count
  goes below zero and the loop leaves the list. `disturbed` records both.
- `sync_session.cpp:651`, `:236`: a connection change is made under `m_state_mutex`,
  which is released before `invoke_callbacks` takes `m_callback_mutex`. Between the two
  another thread can make the next change and tell it in full: callbacks then hear the
  changes in the wrong order, with no two iterations overlapping, and the last state
  they were told is not the session's. `overtaken` records it; `HeardInOrder` keeps
  order out of that case, and `LastStateTold` leaves it out.
- `realm_coordinator.cpp:154`, `:427`: when all Realms have expired `set_config` takes a
  new config, but if the coordinator still lives, because the last Realm is in its
  destructor or an `AsyncOpenTask` holds it, the file stays open and `open_db` returns:
  the new Realm uses a file opened with the settings of the one before (in the model,
  `db` differs from the config's settings). `create_sync_session` likewise keeps the session
  it has.
- `realm_coordinator.cpp:233`: as long as an unversioned Realm comes first in the
  cache, every call makes another Realm.
- `realm_coordinator.cpp:230`: the lookup in the cache takes a strong reference to the
  Realm it finds and, if that is not versioned or has another schema, drops it with
  `m_realm_mutex` held. A frozen Realm is shared by all threads: when another thread
  drops its reference in between, this one is the last, and the destructor locks the
  mutex the thread holds. `weak_realm_notifier.hpp:35` says weak references are kept to
  avoid just that. In the model the thread is `"stuck"`.
- `realm_coordinator.cpp:260`: `get_realm` asserts that a frozen Realm found in the cache
  reads the version asked for. If nobody has read it yet, `m_group` is null: two
  `freeze()` in a row of a cached Realm are enough. In the model `"version"` is in
  `violated`.

Users and files:

- `remove_user` of an anonymous user makes its row anew and makes it current; its loop
  asks again for a list that gets shorter and passes over rows of one identity.
- A log-in after a removal and a death brings the user back Removed: the constructor
  does not persist the state. A death in the middle of `log_out` brings the user back
  LoggedOut, with its tokens, and current. A late reply changes a user that logged out
  or in again meanwhile (`late`).
- An unreadable answer to the location request is handed to the handler of the request.
- A death in the middle of `File::copy` leaves part of a copy and the action pending
  for good. `path_for_realm` looks for the bare name of the legacy hashed file.

Collections:

- `index_set.cpp:300`: `count` with a start in the middle of a chunk leaves out a range at
  the beginning of the next chunk that reaches the end of the counted range
  (`{0, 2 | 4, 6, 8}.count(2, 5)` is 1), although `index_set.hpp:144` says it counts the
  indices in the given range. `IndexSetSpec` asks for the exact count only from 0.
- `transact_log_handler.cpp:160-170`: with several moves (1,2,3,4 to 4,2,1,3) a
  position that changed is missed (`KvoExplains` fails).
- `collection_change_builder.cpp` compares with the end of the wrong row range
  when it looks for the longest match; the result is still correct, not minimal.
- `object_changeset.cpp:120`: merging keeps rows inserted and then deleted, although
  the comment at `:111` says they are dropped. This and a table dropped, made again, or
  an object changed and then deleted are the four cases in `met`. `remove_object`
  passes over the list swapped into the place of the one it removed.
- `collection_notifier.cpp:66`: a table that links only to itself is not searched.
- `ListResultsNotifier` reads `modifications_new`, which is empty there: sorted lists
  never report modifications.
- A snapshot of a list of values stays live (`results.hpp:137`), and a second snapshot
  fails an assertion (`results.cpp:366`). Freezing a sorted list of links that was not
  used drops its order. `Results::sort` of a list of links (`results.cpp:841-843`) moves the
  descriptor into an ordering it does not use and hands the moved-from one on: the
  earlier ordering is dropped and, if the storage engine's `append_sort` takes the
  descriptor over, so is the new one; the model has both outcomes. Both cases are
  `lostSort`. `clear()` with a limit or distinct leaves rows.
  `has_changed()` is used up by whoever asks first (`askedElsewhere`). `limit` and
  `filter` of a list of values use an empty query; `filter` after `distinct` filters
  first; `Results(realm, view, ordering)` never applies its ordering.

Schemas:

- An `update_schema` that throws leaves `m_new_schema` behind, and the next update or
  caching uses it at a later version (`"leftover"`).
- A file that a migration empties can end up inside the cached range. `update_schema`
  clears the cache in its write transaction, but a Realm opened between that write and
  the commit caches the schema of the version before; the empty schema committed next is
  not cached, for `cache_schema` ignores it, and the next transaction of that other Realm
  extends the cached range to the emptied version (with a target and a migration that
  delete the last type, TLC finds `CacheAppliesToRange` violated; hence
  `DeletionsKeepATable` in the theorem).
- `Realm::begin_read` throws for an invalid change made elsewhere after it has moved on,
  so the next access goes on with stale column keys (`"thrown"`). An update that fails
  leaves a Realm that was reading at a version its schema may not fit (`"promoted"`).
  The schema change handler copies keys of a table made by somebody else without
  looking at the types (`"named"`).
- A schema version raised by another process is not noticed by open Realms. A table that
  was removed passes `read_schema_from_group_if_needed`, which compares without
  removals. `set_schema_subset` accepts tables the file does not have.
- Changing the type of a primary key without a migration function loses the primary key
  (`shared_realm.cpp:397`); changing nullability and index at once uses the old column
  key for the index. Additive mode updates indexes for every version, although
  `shared_realm.hpp` says only for a greater one. The union of two valid additive schemas
  may contain a loop of embedded types.

- `m_async_error` of the coordinator is never assigned, so `deliver_error` and the
  branches for it cannot be reached; they are not modelled.

## 6. What is not modelled

File paths and their encoding, encryption keys, multiplexing and the wording of
errors in sync sessions; several sessions in one manager; shared-pointer counts (an
object lives as long as somebody is in a call of it or holds an external reference).
In `Notifications`: what has changed (only at which version), calls made from inside
a callback, invalidation, compaction and closing of a Realm. In `App`: the contents
of requests and replies, profiles and custom data; locks inside `SyncUser` are taken
as held over a step. In `SchemaUpdates`: updates from inside a write transaction,
Immutable mode, initialization functions, aliases, the data of rows. In `Results`:
aggregates, queries other than one fixed condition, dictionaries of descriptors longer
than `MaxDescriptors`. In `RealmCache`: several paths, configs that `set_config` refuses by
themselves, schema versions, compaction, the `get_realm` without a config, and `clear_cache`,
which is for tests only. References to lists, results and objects (`ThreadSafeReference`)
are the storage engine's imports. `Subscribable`, BSON, HTTP transport, service clients, platform utilities and
the loops of the platforms' schedulers keep no state of their own or are I/O;
`PROJECT.json` gives the reason for each.

## 7. Plan

1. Done: the modules of section 2 and their runs, the refinement of `IndexSet`, and
   the proofs of section 4.
2. Proof left: `SchemaFitsFile` of `SchemaUpdates`, from `SchemaInv` and an invariant that
   relates the keys of a Realm's schema to columns of the version it knows; and that a
   column key, being the name and version a column was added with, is never given to
   another column.
3. Proofs left: the properties of `RealmCache`, from an invariant that relates the
   registered entries of a coordinator to the Realms that hold it.
