# Comicollect: a verification of its synchronization, sessions, app state and prototype

Comicollect keeps a comic collection in a SQLite database on each device and lets
the devices of one account meet on a small server. Every device works offline; *sync
v2* makes the collections agree later. The account behind them is signed in with rotating
refresh tokens. Beside the app the repository keeps an interactive prototype of its
redesign. This directory holds TLA+ modules translated
from the code (paths below are relative to the repository), TLC configurations that
model-check them on small instances, and TLAPS proofs that hold for every instance.

    tlc -workers 2 -config MCSyncExchange.cfg MCSyncProtocol      # one model
    tlapm Sessions_proof.tla                                      # one proof

## 1. The system

| Part | State it keeps | Operations | Where |
|---|---|---|---|
| Server copy authority | `v2_entities` | canonicalize and record one mutation | `server/comicollect_server.py` `_canonicalize_group`, `_normalize_copy_authority`, `_record_group` |
| Server sync v2 store | server id, change groups, receipts, cached responses, activation | `sync_v2`, `_prune_request_cache`, `server_id` | same file, `Store` |
| Server v1 endpoint, bootstrap | `comics` (flat rows), internal groups in the v2 log | `sync`, `_bootstrap_v1`, `_refresh_v1_projection` | same file |
| Device database | entries, copies, barcode mappings, outbox, entity versions, `sync_state` | `upsert`, `saveCopy`, `saveBarcodeMapping`, `prepareSyncV2`, `applySyncV2`, `resetSyncV2Binding` | `app/lib/data/local_database.dart` |
| Device transport and sync service | the exchange in flight | `exchange`, `_validateExchange`, `_syncV2` loop, error mapping | `app/lib/data/sync_v2_transport.dart`, `sync_service.dart` |
| v1 fallback and cutover | fallback marker and legacy cursor in `sync_state`, a cursor in the preferences | `prepareV1Fallback`, `completeV1Fallback`, `promotePendingV1FallbackToV2` | `local_database.dart`, `sync_service.dart` |
| Sync scheduling, app controller | running flags, timers, the list on the screens, preferences, operations under way | `sync`, `synchronize`, `schedule`, `save`, `updatePreferences`, `quiesce` | `app/lib/services/sync_coordinator.dart`, `app_controller.dart`, `app/app_runtime.dart` |
| Runtime switching | the shown runtime, its error, the account being opened, a generation | `_reconcileRuntime`, `_replaceRuntime`, guest and logout | `app/lib/app/comicollect_app.dart`, `app_runtime_factory.dart` |
| Tenant store | LRU of open stores, blocked accounts, reserved bytes | `sync`, `erase`, capacity reservation | `server/comicollect_backend/tenant_store.py` |
| Session server | password hash, sessions, refresh and access tokens | login in three transactions, `rotate_refresh`, prunings, logout, password reset | `server/comicollect_backend/auth_repository.py`, `auth_schema.py`, `auth_service.py` |
| Client sessions | secure store, session in memory, access token, the refresh in flight, the controller's state | `restore`, `login`, `accessToken`, `_refresh`, `logout`, `updateAccount` | `app/lib/data/auth/auth_repository.dart`, `services/auth/auth_session_controller.dart` |
| Account actions | one-time tokens | verify e-mail, reset password, delete account | `account_action_service.py` |
| Prototype, personal app | route, overrides of issues, local state of a screen | one screen each: lists, issue, edit, scan and review, batch, import, ... | `prototype/figma-style/cc-redesign-*.jsx`, `cc-screens-redesign.jsx`, `cc-scan-review.jsx` |
| Prototype, enterprise app | route, local state of a screen | inventory, positions, loans, members, receiving | `prototype/figma-style/cc-enterprise*.jsx` |
| Rate limiter, HTTP layers, backup, catalog and scanner, app UI | see `PROJECT.json` | | |

How they interact. A user's save changes the device's rows and appends *mutations* to
its outbox in one SQLite transaction. `SyncCoordinator` starts `SyncService.sync` from
timers and after saves, one at a time. A sync repeats *exchanges*: `prepareSyncV2`
(a transaction) takes the oldest unacknowledged mutations that fit, the transport posts
them with the device's cursor and server pin, `Store.sync_v2` (one transaction under a
lock) records them and answers with acknowledgements and one page of the change log,
`_validateExchange` checks the answer, and `applySyncV2` (another transaction) applies
it. Between these steps users write, answers are lost, the app dies, other devices
exchange, and a request whose sender timed out may still be delivered.

Each exchange asks the client's `AuthRepository` for an access token. When it has none it
refreshes: it writes a request id next to the refresh token in the secure store, sends
both, and stores the pair that comes back. All callers share one refresh; logout waits
for it. The server consumes the refresh token and answers the same token and id with the
same pair again, but takes another id for a stolen token and revokes the session.

The controller of an opened collection shows a list it keeps in memory. A save changes the
list, then the database, then asks for a synchronization; a synchronization that succeeds
replaces the list. Whose collection is open follows the session: when its state changes,
the app closes the runtime of one account, which waits for the controller's work, and
opens that of another, while further changes of the session overtake it.

The prototype is one React component, `RApp`, that shows the screen its route names and
gives it handlers. Screens share overrides of the issues' fields through `useStore`;
routes carry the issue, and the route to go back to, as values.

What is hard, and what correctness means:

* *Retries.* A response can be lost after its commit; the same mutations return in other
  batches, with older cursors, under other request ids. Each must be recorded once and
  acknowledged at the one revision that carries it, and no honest retry may be refused.
* *Pages.* Acknowledgements point beyond the page. The device must keep such a mutation
  until its cursor passes it, and must let it protect its rows exactly that long.
* *Concurrent edits.* A page prepared for one state of the device is applied to another;
  a queued edit must not be overwritten, and a settled row must equal the server's.
* *Deletion.* An entry is deleted from what its device saw; a copy another device
  shelved meanwhile must bring the entry back with the server's user fields, also when
  the deletion is split over several mutations.
* *Server identity.* A database may vanish and be replaced; devices are rebound by hand
  and export everything again.
* *Two protocols.* A new app falls back to v1 at an old server, whose flat rows cannot
  say everything and let the later timestamp win; the server is upgraded, or another device
  activates v2, at any point of that.
* *Liveness.* Everything queued is eventually uploaded and every device catches up.
* *Rotation.* Both sides keep durable state that must agree over lost answers, retries,
  late requests, restarts and failing writes. A thief is told from an honest client by a
  request id alone, so the client must never use two for one token.
* *Proof of a password.* A login checks the password, perhaps rehashes it, and inserts a
  session, in three transactions; a reset may come between.
* *Awaits.* The app has one thread, but every await lets the others in: lists, preferences
  and identities read before it are used after it, and everything must come to rest before
  a database closes.
* *Copies in routes.* Every screen of the prototype works on values taken earlier.

`PROJECT.json` lists the hazards line by line with the properties that cover them.

## 2. The modules

```
CopyAuthority             pure: canonicalization of one mutation
 |- EntityTable           v2_entities
 |   |- SyncServer        Store.sync_v2 as an action   <- SyncServer_proof
 |       |- SyncEndpoint  the server and any requests  <- SyncEndpoint_proof
 |- LocalCollection       pure: what a device transaction does to rows
     |- SyncProtocol      = SyncServer + LocalCollection: devices, wire, server
         |- SyncProperties    what it promises; implements SharedHistory
             |                                         <- SyncProtocol_proof, ReplicaAgreement_proof
             |- LegacyFallback    v1, its fallback on the device, and the cutover to v2

TenantStore               one server process, many accounts <- TenantStore_proof

AuthServer                the tables of one account    <- Sessions_proof
 |- ClientSessions        = AuthServer + one installation's repository, controller
 |   |                                                 <- Sessions_proof
     |- AccountUpdates    = ClientSessions + updateAccount

AppController             one opened collection, its timers and its closing <- App_proof
AppRuntimes               which collection is shown, and to whom            <- App_proof

PrototypeStore            the issues and useStore
 |- Prototype             RApp, with PrototypeEnterprise (EApp) as an instance
 |                                                     <- App_proof

FoldLeftTheorems          what FoldLeft computes, for the proofs
```

**CopyAuthority.** A collection is a partial function from entity keys (issues key
entries, copies key copy rows, barcodes key mappings) to data. `CanonicalEntry` is the
rule of `_normalize_copy_authority`: active copies decide `owned`, `duplicate` and
`wanted`; a deletion that leaves an active copy gives way to the stored entry.
`MovesCopy` is the refusal of `_canonicalize_group` that depends on what other clients have
done. Ratings, notes, conditions and prices are one value from `Values`; timestamps, issue
hints and the `custom_issue` register, which no rule about entries and copies reads, are
left out, and with them the refusal of an unknown issue that comes without a hint
(`comicollect_server.py:649-656`): the app sends one with every entry, copy and mapping.

**EntityTable** is the table alone: `RecordMutation` folds a group's changes into it.

**SyncServer** is `Store`. A change group's revision is its place in `log`; `receipts`,
`cache`, `activated` and `serverId` are the other tables. `Verdict` follows the order of
the checks in `sync_v2`; `Commit` is the rest of the transaction: fresh mutations are
canonicalized one after the other against the entities the earlier ones left, logged and
receipted, then the page is cut and the response cached and pruned. A payload hash is
the payload. Byte limits are a page shorter than `PageLimit`, chosen freely, and a cache
pruned to any shorter suffix, chosen freely. Two refusals by size are therefore left out,
`mutation_too_large` (`comicollect_server.py:581-586`) and `change_group_too_large`
(`480-485`), of groups of five megabytes and more. The `applied`/`duplicate` word of an
acknowledgement is left out: a device compares it only if a mutation it already holds an
acknowledgement for is acknowledged again, and no batch contains such a mutation. `RecordInternalGroup` is what the v1
endpoint and the bootstrap append.

**SyncEndpoint** lets clients send any of a set of requests in any order, any number of
times, and remembers the last answer.

**LocalCollection** has the device's pure parts: `UpsertComic` (a flat comic becomes an
entry, a primary copy, a second one or tombstones), `SaveCopyRow`, `WireDifference`
(what is enqueued, without entries of which only derived flags changed), `Chunks` and
`InWireOrder` (the limit per mutation, tombstones of entries last), `FullSnapshot`, and
the application of remote rows.

**SyncProtocol** has one action per transaction or network step: `SaveComic`,
`SaveCopy`, `SaveBarcode`, `Prepare`, `Serve`, `Apply`, `Reject`, `GiveUp` (timeout,
broken connection or death of the app; the request may stay on its way), `ServeStray`
(it arrives after all), `ConfirmRebind` and
`Rebind` (the check that nothing synchronizes, and the transaction after an await), `LoseDatabase`. `Accepted` is both layers of checks,
`ValidExchange` of the transport and `ApplicablePage` of `applySyncV2`. A crash needs no
action of its own: everything outside the database is the request and the response that
`GiveUp` drops.

**LegacyFallback** adds to `SyncProtocol` what its steps do to v1 in the same transaction
(the time of each row, `stamp`; the server's flat rows, `comics`) and the steps of v1: `MarkFallback`
(`prepareV1Fallback`: the marker, the chosen rows), `ServeV1` (`Store.sync`), `CompleteFallback`
(merge, `Unconfirmed` rest of the outbox, cursor, then the preferences unless the app dies),
`Promote`, `PrepareV2` (`prepareSyncV2`, which at first stages what is not in `CleanKeys`),
`UpgradeServer` (`_bootstrap_v1`), `Elsewhere` (another device saves, by v1 or v2).
`LegacyChanges` and `ProjectedComic` are the two conversions between a flat row and entities.
`edits` is a history variable, with the last edit of each row and whether v1 has `settled`
it: the server has read a row that carries it, or a later row has replaced it on the device.
The old server is today's without the v2 route. Clocks agree and move rarely; the group
ids that hash a row are the row. `sync()` reads the preferences' cursor at its start and the
model when it is used: only a rebind could come in between, and it is refused then but for
the await that `ConfirmRebind` has. A rebind is confirmed here before the server's upgrade
and carried out before the device is pinned; later ones are `SyncProtocol`'s. Mutation ids
that never left the device are used again, so that staging can repeat for ever.

**TenantStore** is the production server's registry of stores, thread by thread: entering
an account, looking for its database, reserving capacity, opening a `Store`, working,
releasing and leaving, and on the other side blocking, draining and unlinking. A step is
one section under a lock or one step outside both. `SyncServer` is what `Work` does
inside. Which store the cache evicts is left open; a transaction is assumed to grow the
files by no more than its reservation, as the code does, and nothing else is assumed to
fill the disk. Opening may fail after it has created files.

**SharedHistory** is the abstract promise: one history, which each queued mutation joins
once, and a queue a mutation leaves exactly when its device has seen it there.

**AuthServer** is one account in the server's database. A pair (refresh token, access
token) is a number in the order of issue; hashing and encryption of tokens are therefore
left out, except that the key derived from token and request id is what `by` stands for.
Time is a flag `late` per row which `Lapse` sets: an access token first, then its refresh
token, then the session. `last_seen_at` is the number of the session's latest pair.
`PruneStale`, `PruneExpired`, `PruneFamily` and `MakeRoom` are the functions of
`auth_schema.py`; how many ended sessions are retained is left open (`gone`). `Verdict` is
`rotate_refresh` in the order of its checks, `Written` what each answer commits. A login
is three transactions: `VerifyPassword`, `Rehash`, `OpenSession` or `RefuseLogin`.
`SetStatus` (`set_account_status`) has no caller outside the tests; it is an action of
`ServerSpec`, for which the theorems hold, and no step of the composition: what
`LiveSessionsAreProved` says of suspended accounts is proved (`SessionsAreProved`) but not
met by the run `sessions`.

**ClientSessions** adds one installation. `store` survives a restart, `mem`, `access` and
`task` do not. `task` is the single flight `_refreshing` or a login: `mark` (write the
request id), `wait`, `accept` (write the pair), `clear`; `out` is how far `logout` is and
`gate` is the controller's state. An action reaches from one await to the next. A write of
the secure store may fail having been done or not; `CrashWith` restarts the app at any
point; `GiveUp` drops an answer and leaves the request in `stray`, from which `Straggle`
delivers it any number of times. Client and server share a clock. Other installations log
in (`Elsewhere`) but do not refresh: a token is known to its installation only.

**AccountUpdates** adds `updateAccount`, which section 5 shows to break the rotation.

**AppController** is `AppController` with its `SyncCoordinator`, from the end of a
successful startup to the end of `AppRuntime.close`. An operation is a record in `ops`
that says what it awaits: `Save` shows the rows and asks for the write, `Write` or
`WriteFails` is the database's answer, `AfterWrite` what follows. `tasks` are the calls of
`_synchronize`: `Page` (a row changes), `ServiceSucceeds` or `ServiceFails`, `LoadForSync`,
`Release` (the coordinator's `whenComplete`), `Return`. There is room for two, so that
having one is a result. The database package carries requests out in the order in which
they were made, which is `queue`. Preferences are two: `autoSync`, which matters here, and
another; saving one may fail. `lastSyncAt`, which is only shown, is left out. `closing` is
the await at which `quiesce` is. A row is one value per issue.

**AppRuntimes** is the state of the app's root widget. `call[g]` is the call of
`_replaceRuntime` with generation `g` and where it waits; `runtime` names the call that
created what is shown. The session's states are an account, `out`, `submitting` and
`restoring`; each notification reconciles at once (`Becomes`). `PreviousClosed` and
`CloseFails` are the end of the work `AppController` drains (`CloseReturns` there is the
fairness here). The package's `openDatabase` returns the database that is open
already to whoever opens the same path: `handle` maps runtimes to native databases. That
`LocalDatabase.close` itself fails (`app_runtime.dart:20`) is assumed not to happen: a
database it left open would stay open.

**PrototypeStore, Prototype, PrototypeEnterprise.** A route is the code's object. One
action is one screen, its disjuncts are the handlers `RApp` gives the screen (`NavBar` is
the bottom bar, `Enterprise` the other app); `Mounted` is the local state a screen starts
with, which it keeps while the route's name stays. `Back` is the `onBack` of every screen.
`ov` holds the overrides; `GetIssue` is `getIssue`, which lays them over the issue as the
screen has it. Left out: typed texts and choices no handler reads, timers that only flash
a message, the look (`setTweak`), and buttons without a handler. What the screens do not
do is in the model as it is in the code: saving a batch or a manual entry changes no
issue, "Ukloni iz kolekcije" only goes back, and the enterprise app has no way back to the
choice of mode.

## 3. What the runs check

Two devices, one issue and its two migrated copies suffice for every conflict the rules
know (a second active copy, a copy the deleter did not see); rules never relate two
issues. In `exchange` a user saves two of the issue with a rating, deletes it, or shelves or
buries either copy. `MaxChanges = 2` stands for 500: a deletion with two copies is three changes and
is split. `PageLimit = 1` makes every second group lie beyond a page, `BatchLimit = 2`
and `MaxUpload = 3` make batches end by number and by size. Two writes, each split
once, need four mutation ids per device; `SharesOneHistory`, whose mutations are these,
would report a fifth. Deadlock is checked in the runs of the synchronization, of
`TenantStore` and of the prototype: a device can always start or finish an exchange, a
thread can always go on, every screen has a handler. The session runs may stop, because
the bounds on pairs, request ids and expiries are used up, and so may those of the app:
a closed runtime has nothing left to do, and replacements are bounded.

Sessions: this installation and one other, of which the account may keep one signed in
(`MaxActive = 1`, so every login of one replaces the other's session); three pairs and two
request ids make two rotations after a login, so that a retry can meet a token whose
replacement is consumed; one expiry, one restart or failed write, one stray request (which
may arrive again and again), one password reset. App: one row, two operations and
room for two synchronizations let any two of save, scan, reload, preference, reset, timer
and closing overlap. `MaxEvents = 2` bounds the calls, further pages and failing requests
together: two calls, or one with a page or a failing request. Six replacements of
runtimes are two accounts and the guest, left and entered again. Prototype: two issues that are
neighbours and of different states, two patches, three scans, so that one issue is scanned
twice; a batch range of up to three numbers with a limit of two shown.

Fallback: one device, an issue that it shared with the old server at time 1 and may have
edited at 2, or nothing if it is newly installed; one write after the app's upgrade, of a flat
comic, of a third copy (which v1 cannot express) or of a barcode (nor that); one write of
another device; two times, so that either write may be the later one; one lost exchange
or one rebind (`MaxTroubles = 1`). The clock stops once the device is pinned to v2, and the
old edit that is yet to be synchronized counts as a write.

| Run | What it shows |
|---|---|
| `sync_endpoint` | Eleven requests, honest and not, in any order, with eviction, legacy groups and replacement: `RecordedOnce`, `ReceiptsMatchLog`, `EntitiesReplayLog` (the table is what a reader of the log builds), `SurvivorKeepsUserFields`, `AnswerIsHistory` (also for cached answers), `HistoryIsAppendOnly`; and of the table after every request: flags agree with copies (`DerivedFlagsAgree`), only an emptied shelf loses its entry (`ObservedRemove`). |
| `exchange` | Two writes anywhere, one exchange lost at any point and perhaps delivered late: `ExchangesSucceed`, `ReplicaAgrees`, `UserFieldsAgree`, `PendingEditVisible`, `DeletionIsObservedRemove`. |
| `rebind` | The server's database is replaced, both devices are rebound at any time and export again (with a barcode mapping): `ReplicaAgrees` with the server followed. One write, so that two rebinds fit. |
| `converges` | The system implements `SharedHistory`, and under fairness outboxes empty and all collections equal the server's, after finitely many writes and losses. |
| `cutover` | Every order of fallback, death, late request, rebind, upgrade of the server and activation by another device: `NoEditIsLost` (what the user wrote is in the history, was read by the server from a flat row, waits in the outbox, will be staged, or was replaced by a later row), and under fairness device and server converge on v2. |
| `tenants` | Two threads, either of which may work and one of which may erase, in two accounts: `NoWorkDuringErasure`, `StoresHaveDatabases`, `ErasedStaysErased`, `LimitsRespected`, and `EraseReturns` under fairness. With two erasing threads the first and the third would not hold (section 5). Sizes are units of a reservation; the account limit of 3 and the host's 4 are both reached. |
| `sessions` | The client against the server with every fault above: `HonestSessionKept` (its session is never revoked as a replay), `LeftForGood` (nothing puts credentials back after a logout), `RotationIsAChain`, `LiveSessionsAreProved`, `SessionLimits`, and `LogoutReturns` under fairness. |
| `app` | Everything that may overlap in an opened collection: `OneSynchronization`, `ClosedIsDrained` (nothing is left when the database closes), `NoPhantoms` (a failed save leaves nothing in the list). Under fairness closing ends (`CloseReturns`), and while synchronization stays on the list comes back to the database's rows again and again (`ListCatchesUp`). |
| `runtimes` | Sessions change in any order while openings are slow, fail or are overtaken: `OthersAreNotShown`, `NothingLeftOpen`, and under fairness `SignedInSeesCollection`. |
| `prototype` | All ways through all screens: `ShownIssueIsCurrent`, `DoneIsOwned`, `BackLeadsOut`. |
| `rebind_same_server`, `session_update` | Violations, section 5. |

Nine more configurations are no regular runs. Each has TLC refute one property by what
the code does, with a counterexample of a few steps (section 5):

| Configuration | Module | Property refuted |
|---|---|---|
| `MCSyncFlags.cfg` | `MCSyncProtocol` | `LocalDerivedFlags` |
| `MCLegacyCopies.cfg` | `MCLegacyFallback` | `NoEditIsLost` |
| `MCTenantErase.cfg` | `MCTenantStore` | `ErasedStaysErased` |
| `MCSessionRetry.cfg` | `MCClientSessions` | `RetryRecovers` |
| `MCAppLostEdit.cfg` | `MCAppController` | `SavedIsShown` |
| `MCAppPreferences.cfg` | `MCAppController` | `PreferencesAgree` |
| `MCAppShared.cfg` | `MCAppRuntimes` | `ShownIsOpen` |
| `MCAppStuck.cfg` | `MCAppRuntimes` | `SignedOutSeesLogin` |
| `MCAppShownOut.cfg` | `MCAppRuntimes` | `SignedOutSeesNone` |

*Fairness.* Each device takes a step of `Exchange` (`Prepare`, `Serve`, `Apply`,
`Reject`) again and again; every such step changes its request or its answer, which is the
subscript. One of them is always enabled, so this is weak fairness of
the step that is due. `SyncCoordinator` justifies it: a periodic timer, one after saves
and a continuation timer while work is pending start the sync again; an
exchange ends by itself or by the transport's timeout, which is `GiveUp`, bounded by
`MaxLosses` because a network that fails forever converges to nothing. Users, `Rebind`
and stray requests get no fairness. `LegacyFairSpec` says the same of the device's exchange
(`ExchangeMoves`: a step that changes it and does not give it up) and that the server is
upgraded some day, without which there is no v2 to converge on. In `TenantStore` a thread that has entered an
account, or begun an erasure, goes on (weak fairness per thread); nobody has to call.
In `ClientSessions`, `FairSpec` lets the event loop run what is ready and a request time
out (`ClientStep`, weak fairness); nothing is assumed of the network, the server or the
user. `ConnectedSpec` adds, for `RetryRecovers` only, that the sync asks again and that
answers get through again and again (strong fairness of `Connected`).

In `AppController` every await ends (`OpStep`, `TaskStep`, `CloseStep`, weak fairness):
requests of the server have time limits, the others are local. The timer repeats (weak
fairness of `Tick`), and the server is not out of reach for ever (strong fairness of
`ServiceSucceeds`, used by `ListCatchesUp` only). In `AppRuntimes` the calls of
`_replaceRuntime` go on, for the same reason and because closing ends; the session and the
user owe nothing.

`CacheLimit = 0` in the protocol: request ids are fresh UUIDs and a retry gets a new one,
so the request cache cannot hit between these parties. `SyncEndpoint` has the cache.

Every property of a passing run has a mutant in `PROJECT.json`: a plausible bug in one
mapped definition that makes TLC refute it.

## 4. What is proved

Assumptions are the named ones of the modules: `CollectionAssumption` (key spaces are
disjoint), `LocalAssumption` (keys are finite; a migrated copy belongs to its issue and
copies have an order; a mutation holds at least one change), `ServerAssumption` of
`SyncServer` (internal ids are mutation ids; limits are naturals), `EndpointAssumption`
(requests passed `validate_v2_request`, legacy groups are collections),
`ProtocolAssumption` (inputs are flat comics, copies and issues; batches hold something;
the request cache cannot hit), `ServerAssumption` of `AuthServer` (limits and bounds are
naturals, the limits positive), `ClientAssumption` (the installation is one of them; what it
generates as request ids are request ids; bounds are naturals), `RuntimesAssumption` (the
guest and nobody are no accounts), `StoreAssumption` (there is an issue, and each has its
number) and `PrototypeAssumption` (what is scanned are issues; forms start with what may be
entered). The theorems about `AppController` need none.

*FoldLeftTheorems.* A fold applies its operator to what the fold of the elements before
gives (`FoldOfNone`, `FoldOfNext`), and does not care what lies beyond the end
(`FoldOfSame`). The fold of the community module is a recursive function on subsets of
`1..n`; that it exists and that two of them agree is an induction over a set of naturals,
by the least element of its complement (`NatLessThanWellFounded`, `WFMin`). The operator is
a constant of the module, and a module instantiates it with the one it folds, so that no
theorem takes an operator for a parameter.

*SyncServer_proof.* Of the table alone, for any issues, copies, barcodes and values:
`EntitiesType`, `DerivedFlags`, `ObservedRemoveHolds`. `DerivedFlagsAgree` is inductive
together with the type because canonicalization touches every issue whose copies a
mutation touches (`TouchedIssueGetsCanonicalEntry`) and no other
(`UntouchedIssueKeepsRows`), and does not change copies (`CanonicalizationKeepsCopies`). Of
the transaction: a commit continues the log at fresh positions (`CommitGrows`), a page of a
log is a page of every continuation of it (`PagesPersist`), and the table after a commit is
what folding its groups one after the other gives (`CommitReplays`), since each is
canonicalized against what the ones before it left. Of the history, group by group:
what a group carries (`LogCarries`, `CopiesAsSent`), that a replayed row is that of the
latest group with its key (`ReplayedLatest`), and that a deletion not recorded as one lost
to a copy on the shelf (`LostToCopy`). The lemmas about sequences (`RowsInOrder` rests on
`PlacesInOrder`) are here too.

*SyncEndpoint_proof.* For any requests, page and cache limits and number of database
replacements: `EndpointType`, `MutationsRecordedOnce`, `ReceiptsNameTheirGroups`,
`AnswersAreHistory`, `HistoryGrows`, `TableReplaysLog`, `SurvivorsKeepUserFields`,
`FlagsAgreeWithCopies`, `NoCopyIsHidden`, all from `Invariance`. The inductive invariant is
`TypeOK /\ HistorySound /\ CacheIsHistory /\ AnswersRequest /\ AnswerIsHistory`. `HistorySound` is
about the server's tables only and is used again below: its types, `RecordedOnce`,
`ReceiptsMatchLog`, and `HistoryReplays`, that the table is the fold of the log and that
each receipt's payload, canonicalized against the entities before its revision, is the group
there (`ReceiptsAreCanonical`, from which a surviving entry has the server's user
fields). `CacheIsHistory` is needed because a replayed answer was computed at an earlier
log. `RecordedOnce` and `ReceiptsMatchLog` support each other: the refusal of a fresh id that
is already in the log is what keeps internal groups apart from client mutations.

*SyncProtocol_proof.* For any number of devices, any keys and inputs, and every bound:
`ProtocolType` (the type invariant of the devices), `HistoryOfDevices` (what `SyncEndpoint`
promises of the log holds when the requests come from devices),
`ImplementsSharedHistory`: the protocol implements `SharedHistory`, and `PendingEditsShow`
(`PendingEditVisible`). The last two are for devices that stay with one database
(`OneServer`: no rebind, no replacement), as the run `converges` is; all are for protocols
in which every id a device generates is a mutation id (`FreshIds`; ids are UUIDs, of which devices do not run out. The finite `MutationIds` of the
runs stand for the ids that are ever generated there).

The invariant for types (`Typed`) needs what a transaction does to rows and queue: that
`UpsertComic`, `SaveCopyRow` and the merge of a page map collections to collections, that
`Chunks` cuts any difference into uploadable groups that together are the difference
(another fold), and that a batch is part of the queue in its order. It says that ids
ascend along a queue, that a request on its way is one the server's validation lets
through, and contains `HistorySound`, which every commit keeps (`CommitKeepsHistory`).
`Pinned` is what the refinement rests on, for each device:

* `SentAreKnown`: what is on its way, also in a request given up, is queued or recorded;
* `AcksAreHistory`: an acknowledgement points at the group that carries the mutation;
* `PastIsGone`: what the cursor has passed is not queued, so that nothing is passed twice;
* `ExposedIsNext`: an unacknowledged mutation that the server has, or may get from a late
  request, is in the next batch, and in the one on its way. Therefore a page that is applied
  acknowledges all of them, and what stays in the queue is not in the part of the history
  that the device has seen. It holds because a batch is the oldest part of the queue and
  does not shrink while nothing in it is acknowledged;
* `PageKnown`: an answer under way is a page of the log as it is now, though others have
  committed since (`PagesPersist`).

The mapping is that of `SyncProperties`: the history is the mutations of the log, a queue its
ids, what is seen the cursor. A save or a staging queues fresh ids, a commit publishes the
fresh ids of a request in their order, an application passes the page, and everything
else is invisible (`StepIsMapped`).

`PendingEditsShow` needs two more invariants. `Ordered`: a device's mutations stand in the
log and in every request on its way in the order in which it queued them. A batch leaves out
nothing older that could still be fresh (`BatchInOrder`), and a commit records in the order
of the request (`CommitInOrder`). Therefore, when the latest mutation of a row leaves
the queue, earlier ones of that row have left it too, and no older value becomes the latest
again. `PendingShown` is the property for values and user fields: the mutations of a write
are parts of the rows it leaves (`Adds`) and cover every difference (`Covers`), so that a
write that queues nothing for a row leaves what is shown; a page never applies a key that a
queued mutation newer than the page protects (`ProtectedIsKept`); and recomputed
flags leave the user fields of an entry alone (`FlagsSayTheSame`).

*ReplicaAgreement_proof* goes on from there. `ReplicasAgree` (`ReplicaAgrees`), `UserFieldsKept` (`UserFieldsAgree`) and
`ExchangesDoSucceed` (`ExchangesSucceed`) need, beside `FreshIds` and `OneServer`, that
copies have homes (`CopiesHaveHomes`): a copy belongs to one issue for good, and no copy a
user saves is on the shelf and deleted at once. The first holds because the id of a copy is a
UUID or derived from its issue (`migratedCopyId`) and `saveCopy` refuses to move one
(`sync_outbox_test.dart:548`). The second is how `_upsertComic` computes `active`, as owned
and not deleted (`local_database.dart:1952-1995`); `saveCopy`, which only
`collection_repository.dart:33` and tests call, stores what it is given, while
`_applyRemoteCopy` normalizes (`:1435`), so that of a copy that is both, device and server
would disagree. The runs assert it
of their inputs (`EditsHaveHomes`). The invariant `Agreed` says of each device:

* `Agrees`: its rows are those of the table at its cursor (`EntitiesAt`), up to what its
  queue says: a row of no queued key is the same, an entry of no queued key has the same
  user fields, and the same flags unless a copy of it is queued. A write keeps it because it
  queues every row it changes except an entry of which only derived flags changed, and
  those changed with a queued copy or are again the flags of the copies (`Tells`,
  `DerivedAlready`). A page keeps it because, up to its end, a row that no queued mutation
  protects is that of its latest group or, if none has it, the one before (`Brought`, by
  induction over the groups of the page); the versions never exceed the cursor
  (`VersionsBy`), so no group is skipped as old; and the flags that the page
  recomputes are those of the table, which at every revision has the flags of its copies
  (`FlagsOfHistory`).
* `SentAs`: what is queued is what was asked, and what is recorded, under the same id; a
  queued row that a page acknowledges is therefore the recorded one.
* `TidyAt`: every copy, in rows, queue and requests, is at home and not active when deleted.

`Succeeding` adds what an exchange is about: a request is about the cursor and the
queue of its device (`Current`), an answer is a page that either brings a group or is the last
one, behind everything acknowledged so far (`Answered`). Every check of the transport and of
`applySyncV2` follows (`AnswersAreAccepted`), and the server finds nothing to refuse,
since tidy rows never ask to move a copy (`TidyMovesNothing`, `RequestsAreFine`).

`DeletionsAreObservedRemoves` (`DeletionIsObservedRemove`) has the same assumptions. That a
recorded deletion comes back only for a copy on the shelf is the server's
(`LostToCopy`); that another device told of that copy needs what this device said of it
before, also in mutations no longer queued. The invariant `Observing` says of each device:

* `Accounted` and `Gapless`: every mutation it generated is queued or at or before its
  cursor, and the log holds them without a gap. Otherwise a tombstone of a copy could be
  skipped and the deletion that follows it recorded.
* `Recalls`: what it said in each mutation, queued or recorded, is fixed from the moment it is
  queued.
* `Observant`: when a mutation deletes an entry, a copy that it or an earlier one last
  told to be on the shelf of that entry is one another device tells of, by the revision the
  deletion is recorded at, or in the log so far.
* Before the first page no deleted entry has a copy on the shelf (`Bare`), since a full export
  stages deletions made long ago.

A write keeps `Observant` because it buries what it deletes: the rows it leaves have no copy on
the shelf of the entry, and each copy taken off is in its mutations, not behind the entry's
tombstone however the limit on changes splits them (`Buries`, `BuriedLast`). What its rows
had of a copy is what it last said, or another device has told of it (`ShelfAsSaid`, from
`PendingShown` while that is queued and from `Agreed` after). `LatestIsLast` takes this to
the log: the latest group before a deletion that tells of a copy is another device's, or the
last that its own device said of it.

*TenantStore_proof.* For any number of accounts and threads, when at most one thread
erases (`OneEraser`, without which section 5 shows the properties false): `TenantType`,
`OperationsExcludeErasure`, `StoresKeepDatabases`, `ErasureIsFinal`. The inductive
invariant adds that the counter equals the number of threads inside (`ActiveCounts`),
that an erasure keeps its account blocked to its end, that the store is out of the cache
and the database is gone before its sidecars, and that erased accounts are blocked: a
failing erasure may lift the block only because a file is still there.
`CapacityIsRespected` (`LimitsRespected`) needs no such hypothesis, only
`TenantAssumption`: it has an invariant of its own, `CapacityInv`: the two tables under the
capacity lock are what threads hold, account by account and in all (`TablesCountHeld`); only
a thread between its reservation and its release holds any (`HoldsWhileInside`); and what is
allocated together with what operations may still allocate is within both limits
(`WithinLimits`). A reservation is granted against the tables, which count at least what may
still be allocated (`EntitledIsHeld`); from there every step in an account gives up what it
allocates (`QuietStep`). The sums are the community modules' `MapThenSumSet`, which takes
elements off in the order of `CHOOSE`: that the order does not matter (`SumOfOne`) and what
sums follow from it (`SumOfChanged`, `SumIsMonotonic`, `SumOfSubset`) is an induction over the
size of a subset (`SubsetInduction`).

*Sessions_proof: AuthServer.* For any installations, request ids, limits and bounds: `ServerTyped`,
`RotationNeverForks`, `SessionsAreProved`, `SessionsAreLimited`. The inductive invariant
`Inv` says of the tables (`Sound`) what the properties say and that pairs and sessions are
numbered in order of issue (`Numbered`: a token not yet issued is nowhere, and no session
was seen later than the last pair) and that no two live sessions were seen last at the
same time (`SeenApart`). The last is why ranking by `last_seen_at` leaves room for exactly
one more session (`LatestFit`, by the least element of the ranks). Every pruning and
revocation only ends sessions and drops tokens (`Fewer`), which keeps all of the invariant
but one part (`FewerStaysSane`): that a consumed token has its answer (`Answers`). Each
pruning keeps that for its own reason, shown by `Thinned` from what it spares. A rotation
suspends it: the token consumed before loses its answer when its replacement is consumed,
and `prune_token_family` removes it in the same transaction (`RotationKeeps`).

*Sessions_proof: ClientSessions.* For any number of requests, lost answers, failed writes and
restarts of one installation among any others: `SessionsTyped`, `HonestyIsRewarded`
(`HonestSessionKept`), `NobodyReturns` (`LeftForGood`), and `SessionsServed`, that the server
keeps its promises towards such a client. The inductive invariant `Joint` adds to `Inv` that
no session was ended as a replay (`Honest`), that a replacement is newer than what it
replaces (`Forward`), and what the client holds (`ClientInv`):

* `Course` says what runs when: the gate of the controller, the task of the repository and the
  logout exclude and imply each other. From it and `Gone` (nothing is stored, in memory or in
  progress after a logout) follows `LeftForGood`.
* `Known` are the refreshes that were sent and may still arrive, and those that consumed a
  token the server still remembers. There is one request id for one token (`OneRequest`), the
  one stored beside the token wherever that is still held (`Marked`, and `Same` for the store
  and the memory when a write failed between them). It is stored before it is sent, so that
  a restart or a failed write in between costs an id but never makes two of one token.
* `Ascending`: tokens are held and asked about in the order they were issued, so that an answer
  never brings back a token about which somebody else might have asked (`AtTask`).

Of the server it needs that a transaction which answers no refresh consumes no token and ends
no session as a replay (`Calm`; pruning and revocation only take away). A refresh
from `Known` that arrives, however late, is then not a replay: a consumed token was consumed
under the same id, and a session is ended for another id only (`RotateHonest`,
`SentHonest`). `AccountUpdates` breaks `Marked`, which is the fourth finding below.

*App_proof: AppController.* For any issues, number of operations and tasks, and bounds:
`OneAtATime`, `ClosingDrains`, `NothingPhantom`. `OneSynchronization` is inductive once tasks
are known to be at a place of their course (`TasksTyped`). What closing has waited for must
stay so (`StagesHold`): after the first stage nothing starts a synchronization because it no
longer is accepted, after the second no task is left to set a continuation, after the third
no operation to ask for either. A step that starts a synchronization at most is treated once
(`SyncInv`), one of a task once (`TaskInv`). `NoPhantoms` has an invariant of its own
(`ListInv`): every list on its way to the screens, of a load or of a synchronization, has
only rows that the database held when it was read, and every other row that is shown is
that of a save that has still to be carried out (`Explained`). The first failure may break
that, but only by leaving a load on its way (`Restoring`), which shows such a list and thus
explains everything, whatever was saved since.

*App_proof: AppRuntimes.* For any accounts and number of replacements: `RuntimesTyped`,
`CollectionsArePrivate`, `DatabasesAreClosed`. The inductive invariant is `TypeOK` with
`LatestIsPresent`, that the latest replacement is for whoever is present (so what it
creates may be shown; it does not hold of somebody signed out, which is the third finding
on runtimes), and `DatabasesAreHeld`, that every runtime with a database is shown, in the
making, to be discarded, or about to be closed by a call.

*App_proof: Prototype.* For any issues, series, scans and number of patches: `IssuesAreCurrent`
(`ShownIssueIsCurrent`), `ReviewedAreOwned` (`DoneIsOwned`), `NobodyIsLost` (`BackLeadsOut`). The
inductive invariant is `Prototyped`: the route is one of those there are (`IsRoute`), and what it
carries of issues `Fits` the store, that is, spread with the store's overrides it is the
issue of the store. This is kept by any patch because spreading is associative
(`SpreadAssociates`): what a screen has of an issue takes a patch as the issue itself does
(`PatchedFits`); that an override is not applied twice (`SpreadTwice`) lets a screen pass on an
issue it has already spread. An editor returns to the route of an issue and that to a list,
none of them to another issue, which bounds the way back (`AllLeadOut`). Of the review the
invariant says besides that what is done is owned; saving owns what it saves and disowns
nothing (`SavedPatches`).

The type invariants of the modules with a proof are proved where a theorem needs them and
are not repeated in the runs; those of `SyncProperties`, `AppController` and `Prototype`
hold and can be added to their configurations.

Only model-checked: `NoEditIsLost`, which relates rows, time stamps and requests of both
protocols across the cutover and has not been taken on; `ReplicaAgrees` of devices
that are rebound (`rebind`), since the theorem is for devices that stay; and liveness. The
prover cannot be given liveness and `ENABLED`. What a fold computes it can
(`FoldLeftTheorems`); an operator declared `RECURSIVE` it cannot, and there is none.

## 5. Disagreements between code and documentation

1. **Rebinding to the same server** (`rebind_same_server`). `resetSyncV2Binding` keeps
   mutations the server may already have committed, so that they "can be safely
   retried" (`local_database.dart:632-635`). If the response of such a mutation was lost
   and the user confirms a rebind to the *same* server, the pull-only baseline moves the
   cursor past its revision; uploaded again, it is acknowledged as a duplicate at a
   revision below the cursor, and `_validateExchange` rejects that answer
   (`sync_v2_transport.dart:193`) at every later sync. `docs/sync-v2.md:143-145` promises
   that a lost response is safe. Hence `ExchangesSucceed` holds for pinned devices
   (`exchange`) and is no property of `rebind`.
2. **Derived flags on a device** (`MCSyncFlags.cfg`). `applySyncV2` recomputes flags only of
   issues whose copies the page changed, so a remote entry applied while a local copy
   edit waits contradicts the device's own active copies until a later page, although
   `docs/sync-v2.md:58-59` and the comment at `local_database.dart:146-148` call active
   copies authoritative.

3. **Two erasures of one account** (`MCTenantErase.cfg`). `_blocked_accounts` is a set; the
   failure of one erasure (`tenant_store.py:146-150`) lifts the block under another that
   is unlinking and then returns successfully, although it should "block future work"
   (`tenant_store.py:127`). `erase_account` has no caller in production yet.
4. **Account data forgets the request id** (`session_update`). `updateAccount` stores
   `stored.copyWith(account: account)`, and `copyWith` (`auth_session.dart:35-41`) takes
   the request id from its parameter only, so it becomes null. When the answer of a forced
   refresh is lost and the e-mail address is confirmed with the access token that is still
   valid, the retry takes a new id and the server revokes the honest session as a replay.
   The comment promises to store the data "without changing the refresh credential"
   (`auth_repository.dart:121-122`).
5. **A late retry is answered with an expired access token** (`MCSessionRetry.cfg`).
   `rotate_refresh` answers a retry with the original pair as long as its refresh token is
   good; `_accept` rejects the pair when its access token has expired, and keeps the
   request id, so every later retry fails alike. `auth_repository.dart:70-72` says to
   "retry refresh when connectivity recovers".

6. **A saved edit disappears from the list** (`MCAppLostEdit.cfg`). `_synchronize` shows the
   list its coordinator loaded earlier (`app_controller.dart:342`); a save in between is
   written but no longer shown until the next synchronization or reload, and its own
   `sync()` did nothing because one was under way. `app_controller_test.dart:175-177`
   expects the edit after a save and a synchronization.
7. **Overlapping preferences** (`MCAppPreferences.cfg`). `_updatePreferences` puts back all
   preferences as they were before its await (`app_controller.dart:399`), so that another
   update is undone in memory, though saved; the test at `app_controller_test.dart:463`
   expects what was set to be in effect.
8. **A collection whose database is closed** (`MCAppShared.cfg`). The call that closes the
   old runtime is awaited by nobody else. When the same account (or the guest) comes back
   while it drains, both have one native database, and the old one's `close`
   (`app_runtime.dart:20`) closes it under the new one, although draining is to protect "this
   runtime's database" (`app_controller.dart:470-471`).
9. **No way back from an error** (`MCAppStuck.cfg`). After a failed opening there is no
   runtime and none being opened, so the logout from the error replaces nothing
   (`comicollect_app.dart:68`) and the error stays, its two buttons without effect.
   `auth_ui_runtime_test.dart:153-154` expects the login and no error after a logout.
10. **Shown to somebody signed out** (`MCAppShownOut.cfg`). A reconciliation overtaken by a
   logout and a login to the same account resets `_openingAccountId` of the newer one
   (`comicollect_app.dart:65`); the next logout finds nothing to replace and the collection
   is shown when it is open. The test at `auth_ui_runtime_test.dart:104` says "logout
   cancels a pending account runtime creation".

11. **A first copy given away before the cutover** (`MCLegacyCopies.cfg`). A flat row says
   "owned, no duplicate" and has the details of the remaining copy, which the server takes
   for the first one (`_v1_changes`). After a fallback the device's own first copy, off the
   shelf, is older than the v1 cursor and of a legacy identity, so `_seedLegacyCutover`
   (`local_database.dart:898-911`) leaves it to the baseline: the server's first copy, on
   the shelf, replaces it, and the second, which really remains, is buried. When that one has
   details of its own, it is staged and both end up on the shelf. The comment at
   `local_database.dart:281-283` promises to keep "every genuinely local change".

Smaller ones in the prototype, which the model has as the code is: the last comment line
of `cc-scan-review.jsx:8` says all scans end up in the collection, but one that was jumped
over does not; the same issue scanned twice gets the grade of its later scan; search, home
and the series' counts show the initial data, although "all routes use the shared store"
(`cc-redesign-app.jsx:3`); `cc-redesign-4.jsx:227` says the mode can be changed by logging
out, and the enterprise app has no way to.

## 6. Not modelled, and the plan

Not modelled by decision: HTTP routing and parsing, schema migrations, backup files,
e-mail, configuration, password hashing, catalog, scanner and the app's UI. They are I/O
or pure conversion, or keep no state that others share. Of the prototype: the panel of the
design tool, components that only render, and screens of an earlier version that the page
loads and no longer shows.

`SyncProtocol` takes from `AppController` that a device has one exchange in flight (`Idle`;
`OneSynchronization` there) and that it is repeated (the fairness of `converges`;
`ListCatchesUp` there); the two are not composed. `AppController` leaves out a failing
startup, which shows an error and a button to start again, barcode links and the catalog. A
form that was opened before a synchronization saves what it read then; the last writer of an
entity wins by design, so that no property of the code is at stake, and what such a save
does to copies is `SaveComic` of `SyncProtocol` with any value.

Left to do, in this order:

1. Restore of a server from a backup: a rollback of the log that keeps `serverId`.
2. One-time action tokens and the rate limiter.
3. Proofs: `NoEditIsLost`.
