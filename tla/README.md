# A TLA+ model of contentkit

Contentkit is a Go library with two services. It keeps a tenant's content: a
catalog of items and editions, the entities they belong to, media folders in
S3, keyword search, publication and signals. PostgreSQL holds the records, S3
the media, ClickHouse the signals, River (a job queue in PostgreSQL) the
background work. Several processes run the same code against the same database
and bucket.

The specifications here cover the parts whose correctness depends on the order
in which independent actors take their steps:

| modules | models |
|---|---|
| `ManifestJournal` | the commit journal of one media folder, its conditional PUTs, recovery, keys and quota |
| `ManifestStore` | what that journal promises: one object edited atomically, at most once |
| `ManifestJournalProofs` | machine-checked proofs about `ManifestJournal` |
| `MediaCleanup`, `MediaCleanupProofs` | deleting a folder's bytes for good: obligations, sweeps, purges, retirements, late writes, and proofs about it |
| `Release`, `ReleaseProofs` | publishing one edition: requests, frozen plans, copies, activation, withdrawal, and proofs about it |
| `Erasure`, `ErasureProofs` | deleting, restoring and erasing editions and their gateway fences, and proofs about it |
| `AccountErasure`, `AccountErasureProofs` | the anonymisation of an account across three stores, restores and restarts, and proofs about it |
| `UploadLimiter` | reserving, charging and expiring the uploads of one quota owner |
| `PgLock`, `KeyLock` | the advisory locks of `internal/pglock`, and what the rest of the program believes of a lock |
| `PgLockProofs` | proofs that `PgLock` is safe and implements `KeyLock` |
| `RerunQueue` | coalescing jobs and their follow-ups (`mediastore/river.go`) |
| `UploadsAndJobsProofs` | proofs about `UploadLimiter` and `RerunQueue` |
| `SearchQueue`, `SearchQueueProofs` | the search sync: dirty rows, deferred renames, backfill, and proofs about it |
| `MCManifestJournal`, `MCPgLock`, `MCUploadLimiter` | small instances for TLC; the other modules take their instances from the `.cfg` alone |

`PROJECT.json` maps every definition to the lines it translates and lists runs,
hazards, findings and theorems. Each run has its `.cfg`; the other `.cfg` files
are counterexample configurations (see Findings).

How the modules meet: `ManifestJournal` uses a lock as `KeyLock` describes it,
which `PgLock` implements. It implements `ManifestStore`, whose atomic edits are
the single steps by which `MediaCleanup`, `Release` and `Erasure` change a
manifest. What `MediaCleanup` keeps because a manifest names it, `Release` keeps
because a delivery pins it; what it deletes for good is `bytes` in `Erasure`.
`UploadLimiter` adds to the charges of `ManifestJournal` what is reserved before
them, over all folders of an owner. The jobs of `Release` and the syncs owed by jobs in `Erasure` are retried as in
`RerunQueue`.

## Inventory

What each component keeps, does, and must get right. "Hard" names what a unit
test reaches badly.

**Media commit journal** (`internal/mediastore`: `journal.go`, `manifests.go`,
`allocations.go`). State: rows of `content_media_commits` and
`content_media_allocations`, the manifest object. Operations: begin, prepare,
PUT, settle, finish, freeze, recover; allocate and drop keys. Calls the
limiter inside its transactions, enqueues the ingest job, runs under the folder
lock. Hard: the lock's session ends under its holder, responses of PUTs and
commits are lost, a PUT lands late, callers repeat, processes die. Correct
when no edit is lost or doubled, the journal's outcome is S3's, the charge is
what the manifest holds, and admitted work is finished. *`ManifestJournal`.*

**Media lifecycle** (`lifecycle.go`, `jobs.go`): purge, reset, retirement
intents, roots. Interacts with the journal and, through `RetireItemsTx`, with
the item owner's own transaction. Hard: it writes a root without the folder's
lock; deletions are repeated after a crash. *Against the journal in
`ManifestJournal`, against cleanup in `MediaCleanup`; `Regenerate` is not
modelled.*

**Cleanup, fences, erasure** (`cleanup.go`, `fence.go`, `erasure.go`,
`sweep.go`): obligations to delete a folder's keys, by revision; objects that
tell the gateway not to serve a folder. Hard: an obligation grows while it is
worked, writes land after the deletion, a fence is replaced while it is read.
*`MediaCleanup`, `Erasure`.*

**Upload limiter** (`limiter.go`): usage, reservations and a rate window per
owner. Hard: presigns of one uploader or one owner interleave by statement, expiry
beside settlement, the clamp at zero. Correct when reservations and bytes fit
the quota together and room comes back. *`UploadLimiter`; settlement with the
journal's recoveries in `ManifestJournal`.*

**Uploads and placement** (`upload.go`, `place.go`): clients and the worker that
commit keys into the manifest. *The kinds `commit` and `record` of
`ManifestJournal`.*

**Locks** (`internal/pglock`, `mediastore/lock.go`). State: one shared session
per process, the keys held on it, connections of waiters. Hard: re-entrant
locks shared by goroutines, sessions replaced under their holders, a failed
unlock, waiters. *`PgLock`, completely.*

**Coalescing jobs** (`mediastore/river.go`, `workqueue`, `media/worker`): the
rule by which a change reaches a job that reads its inputs after it. Hard:
coalescing with a job that is already running, failed attempts, dead workers.
*`RerunQueue`, for one family of equal jobs.*

**Search sync** (`internal/worker`, `catalogstore/facets.go`,
`search/documents.go`). State: dirty rows with revisions, deferred rows of
renamed entities, a backfill cursor, published documents. Hard: documents are
built outside any transaction, ticks overlap, renames are expanded later.
*`SearchQueue`, for the catalog source.*

**Release and publication** (`internal/versionstore`, `mediastore/delivery.go`):
requests, frozen plans, delivery copies, the release readers get. Hard: a
request is superseded while its job copies; copies belong to plans that never
become a release; a job fails between two stores. *`Release`, for an edition
with one file.*

**Catalog store** (`internal/catalogstore`): items and editions with a soft
deletion, a retention and an irreversible erasure. Hard: rows are restored,
added or imported between the claim of an erasure and the removal of the rows.
*`Erasure` and `Release`; the rest is single transactions and queries.*

**Account lifecycle** (root package), **signals** (`signalstore`) and
**content** (`contentstore`): an account is anonymised in stores no transaction
spans, one of which may be restored from a backup. Hard: calls stop between
stores and run twice, inserts land after the fence they read. *`AccountErasure`;
preference sync, projections and the content store's own features are not
modelled.*

**Entity, channel, discovery, URL and import stores**: single transactions and
queries; what they mark for search is in `SearchQueue`, the searches recorded by
discovery in `AccountErasure`. **Entitlements, access, URLs, layout**: pure
functions. **HTTP API, gateway, gate, adapters, S3 client, image and video
processing, SDK**: wiring, I/O and encoding. *Not modelled.*

## Runs

| run | question | instance | distinct states |
|---|---|---|---|
| `Edits` | do two clients and the placing worker ever lose, double, miscount or misreport an edit? | 2 goroutines, 3 operations, 2 keys, 1 fault | 341,576 |
| `Purge` | does a purge release the quota, does only its own reset reopen its tombstone, and is admitted work applied in the end? | upload, purge, reset; 1 fault, fair | 224,282 |
| `Keys` | does a manifest ever name a retired or foreign key? | a new folder; allocate, commit, expire, sweep, drop, retire; 1 fault | 379,217 |
| `Locks` | does the shared session behave as a lock per key? | 3 goroutines, 2 processes, 2 keys, 3 sessions, 1 fault, fair | 115,466 |
| `Reruns` | does every change reach a job that reads it? | 2 clients, 3 changes, 1 pass, 1 fault, fair | 101,091 |
| `Search` | is a stale document still queued, and current in the end? | 2 ticks, 1 document, 2 edits, 1 fault, fair | 496,481 |
| `Cleanup` | is everything retired deleted, and nothing else? | 1 key or name, 2 lifetimes, 2 operations, 1 sweep, 1 caller, 1 fault, fair | 808,090 |
| `Release` | do readers get what was accepted, and only that? | 3 writes or uploads or faults, 8 requests, 1 worker, fair | 247,025 |
| `Erase` | is what is claimed gone for good, and its fence? | 2 editions, 4 writes, 1 sync, 1 purge pass, 1 fault, fair | 257,056 |
| `Account` | is an anonymised account unlinked in every store? | 2 calls, 1 contribution, 1 signal, 1 restore, 1 fault, fair | 1,019,208 |
| `Limits` | do reservations fit quota and rate, and does room come back? | 3 limited uploads of 2 uploaders, 1 exempt, 2 hours a day, fair | 81,935 |
| `RetireWedge` | *violation*, see Findings | first commit and a retirement | |

## ManifestJournal

A folder's manifest is one S3 object. A mutation owns a row:

    open -> prepared -> (frozen) -> applied | absent

`prepared` holds the exact bytes of the PUT, admitted together with the quota
charge and the ingest job in one transaction *before* the PUT is sent. Whoever
takes the folder's lock next freezes a leftover row and completes it: it checks
that the keys are still owned, reads the manifest, and then knows that the PUT
landed, or repeats it under the same ETag.

*State.* `manifest` and `late` are S3: the object with its ETag, and PUTs whose
sender gave up but which may still arrive. `row`, `alloc`, `used`, `jobs` and
`retired` are the database. `lock` is the folder's lock as `KeyLock` describes
it: a holder can lose it without being told. `pc` and `task` are the
goroutines. `acked`, `landed` and `faults` are history.

*Actions.* One step is one transaction or one storage request. `Start`,
`RunJob`: a caller takes the lock. `Freeze`, `CheckOwned`, `Compare`, `Settle`,
`Finish`, `FinishAbsent`, `Outcome`: `recoverAttemptLocked` and `finishCommit`.
`Begin`, `Read`, `CheckEdit`, `Prepare`: `editOperation` and `try`.
`CheckCleanup`, `PrepareCleanup`: `cleanup`, which allocates and drops keys.
`PutOk`, `PutRefused`, `PutUnknown`, `Land`, `Drop`: the conditional PUT and its
ends. `StartRetire`, `CaptureRoot`, `PutRoot`, `ClaimRetirement`:
`RetireItemsTx` and `ensureIncarnation`. `Crash`, `LoseLock`, `Expire`: what
happens to the code.

*What an operation does* is the constant `Work`: a kind (commit, record,
expire, alloc, drop, purge, reset, retire) and the keys it adds and drops.
Uploads are keys and count one unit each.

*Left out.* The published projection, mirrors and path hooks of `finish`; the
manifest cache; size bounds and `Full`; manifests that cannot be parsed;
several folders; the attempt number of cleanup rows; the bound on recovery's
repetitions (a fault-free recovery repeats once); the contents of a manifest
beyond its keys, incarnation and tombstone.

*Abstraction.* `ManifestStore` has no processes, leases, attempts or requests:
an operation edits the current content once and is then answered.
`Linearizable` maps the manifest's body to `content`, the operations whose
bodies landed to `done` and the callers told of success to `answered`; an
edit takes effect when its PUT lands, whoever sent it. It is proved, step by
step, as are all invariants of the runs (see *Proofs*); only the liveness
property `AdmittedSettles` is not.

`Edits`, `Purge`, `Keys` and `RetireWedge` are its runs.

*Bounds.* The lock admits one rightful holder, so the hard cases need two
goroutines: the one that lost the lock and the one that has it; a third
repeats the second. Every operation can be repeated, recovered and overtaken;
three operations give an edit before, beside and after another. A fault is a
crash, a lost lock session, a lost response of S3 or a lost acknowledgement of
a commit; each alone leads into recovery. With two, recovery is itself interrupted;
`Edits` passes with `MaxFaults = 2` as well (2,919,695 states, too long for a
regular run), and the theorems hold for any number. Two keys are what one edit needs to replace one by another.
Attempts count only failures, which the faults bound.

*Fairness* (`FairSpec`, only in `Purge`): a goroutine goes on (`WF Step(p)`)
and the queue runs a queued ingest job when the lock is free. Nothing is
assumed of faults except that there is a last one. Calls have deadlines and
River works its jobs until they succeed; a job that is discarded after its last
attempt is outside the model, it needs more failures than the bound allows.

## UploadLimiter

The limits of one quota owner, whose uploads lie in many folders. A presign
reserves in one transaction of several statements, READ COMMITTED, which the
model keeps apart: two presigns may each read what the other has not committed.
Only the row locks order them, the uploader's hour and the owner's usage.

*State.* `rates` are the counters by uploader and age in hours, `used` the
owner's usage, `res` what is left of each reservation, `tx` the statement each
presign has reached, whether an hour began since its `now()`, and the usage it
read. `upload` is what became of the upload.

*Actions.* `Begin`, `CountFile`, `CountDay`, `LockUsage`, `Admit`: `Reserve` with
`rate`; a refusal rolls everything back. `Release`: a presign that fails later,
or `Abort`. `Prepare`, `Finish`, `Delete`: what the journal charges, settles and
refunds. `Tick`: an hour passes; reservations expire, counters get older.

*Properties.* `LimitsOK` (proved) is the type invariant, which bounds the files of an hour,
and `ReservedFit`: usage and reservations fit the quota together, so that a
commit that reserved is not refused, unless an upload was charged that had not
reserved as much (`overtaken`: exempt, expired, aborted, or below the least
charge). `RoomReturns`: a client that asks again is presigned once the owner's
usage leaves room. `DayHolds` does not hold, see Findings.

*Bounds.* Two presigns of one uploader contend for an hour, a third of another
uploader only for the quota, the exempt one passes both by; the quota holds two
of them. A day of two hours has a counter that counts, one that is about to
expire and one that is gone; a reservation lives one hour.

*Fairness.* `SF` for the two statements that wait for a row: PostgreSQL grants
row locks in order. Hours pass and clients repeat a refused presign. Nobody has to
commit, abort or delete. No transaction lasts longer than an hour.

*Left out.* Limits that are off, uploads without a quota owner, several owners,
a presign repeated under the same key (keys are random), the host's callbacks.

## PgLock and KeyLock

`session` in `pglock.go` takes every free key on one connection per process;
only a key somebody holds is waited for on a connection of its own. `Try`,
`TryFails`: `tryLock` under the session's mutex. `Queue`, `Grant`, `GiveUp`,
`Close`: a waiter. `Release`, `ReleaseFails`, `KeepAlive`: the shared session.
`Reap`, `Kill`, `Crash`: the server and the process. PostgreSQL's advisory locks
(re-entrant, bound to a session) are modelled from how they are used.

`KeyLock` is what callers believe: at most one holder, which may lose its key
unannounced. `ManifestJournal`'s `lock` is one key of it. `ImplementsKeyLock`
is checked with `holder` as the goroutine whose session the server still has.

`Locks`: three goroutines of two processes, so that a process
shares its session and another competes; two keys, so that a session that ends
takes a key nobody asked about; three sessions, one per process and one to wait
on or to replace; one fault. It shows `LocksOK`
(`Exclusion`; every live holder's key is locked exactly once, `HoldersLocked`;
the shared session keeps no key nobody holds, `NothingLeaked`), the refinement,
and `WaitersServed`.

*Fairness.* Holders release (`defer`), a waiter sends its query, and a query on
a dead connection fails. The server ends sessions nobody uses
(`idle_session_timeout`, pglock.go:53-60). `SF Grant`: PostgreSQL grants a
queued lock in order, so a waiter whose key becomes free again and again is
granted; weak fairness would let others overtake it for ever.

## RerunQueue

One family of equal jobs. Inputs are a version number, jobs are numbered by
insertion. `Change`, `Insert`, `LoseClient`: a client that changes inputs and
then calls `InsertOnce`, one insert at a time. `ChangeTx`: the same inside the
change's transaction, where the loop over running jobs ends behind one job or
none (`EndsBehind`). `Fetch`, `Wait`, `Start`, `Read`, `Apply`, `Continue`,
`Complete`: a worker; `Fail`, `Report`, `LoseWorker`, `Rescue`: failed attempts
and dead workers. `Report` is a failure reported while the job goes on.

`Reruns`: two clients, three changes, one pass that leaves
work to a next one, one fault. Three changes are the least with which a change
meets a running job that has a waiting follow-up. `JobsOK` (proved): a change
whose `InsertOnce` returned is applied, or a job that will read it is pending.
`ChangesApplied` needs fairness: River fetches jobs, workers go on, and the
rescuer finds the rows of dead ones. `NoOverlap` does not hold, see Findings.

*Left out.* Discarded and cancelled jobs, priorities.

## SearchQueue

One language of one edition is one document. `Edit` is a transaction that
changes a record and marks it; `OpenRename` and `CommitRename` are a rename,
whose statement decides what to queue before its transaction commits. A tick is
`ReadDeferred`, `Expand`, `ReadDirty`, `Build`, `Publish`, `Ack`,
`ReadBackfill`, `Backfill`; it fails anywhere (`Fail`, `FailBackfill`).
Revisions come from a sequence and are only compared for equality with what a
row or a tick holds, so the least unused number stands for the next.

`Search`: two ticks, one document whose backfill is unfinished
and which a rename still has to reach, two more edits or renames, one fault.
`QueueOK`: a document that is not what its record makes of it is still
queued, as a dirty row or before the cursor of a rename or the backfill.
`NeverOlder`: a stale build never replaces a newer one. `EventuallyCurrent`:
once editors rest, documents are current. One document is enough for most of
this: every statement names its document, and the only things documents share
are the two cursors, which stand before or after a given one. With two
documents and one edit the same properties hold as well (1,766,918 states).
`StaleIsQueued`, the part of `QueueOK` that says so, fails for two other kinds of
edits, which `Search` leaves out; see Findings. Without them `QueueOK` and
`NeverOlder` are proved.

*Fairness.* A transaction ends; a tick goes on or fails, and the periodic sync
starts the next one.

*Left out.* Entity documents, invalid documents, batches of several kinds and
languages (a batch holds one row, so batches interleave more than the code's),
row locks inside a transaction that marks.

## MediaCleanup

An edit never deletes an object. It names the exact keys it stops using in its
journal row, and the folder's row in `content_media_cleanup` keeps that
operation as an obligation: its targets are deleted at once, and again after the
last write that could still land (`LateUploadWindow`). A pass reads the row,
works outside any transaction, and moves or removes the row only at the revision
it read.

*State.* `objects` is the bucket, `age` how long ago the last write of a key was
sent (it may land, again and again, while it is young). `manifest`, `alloc`,
`op`, `intent` and `erasing` are the folder's records; `cleanup` its row. A `pass`
has the obligations it read (`ops`) and the one it is carrying out (`now`). The
row's revision is a random UUID that is only compared, so it is modelled as the
set of passes that still hold it. `ahead` is another folder that is due and
always fails: a pass takes the earliest due folder, so the row's place in the
queue matters. There is no clock; every deadline is what is left of it, and
`Tick` lets one unit pass. `minimumLateUploadWindow` exceeds the longest
write by an hour, here one tick, which one repeated deletion does not outlast.

*Actions.* `Allocate`, `Adopt`, `Reserve`, `Ready`, `Drop`: edits, one step each
because they hold the folder lock (`ManifestJournal` shows why that is enough).
`RetireItem`: an intent. `Read`, `Sweep`, `Tombstone`, `Repeat`, `Measure`,
`Close`: `PurgeRetired` with `cleanupFolder`, `retireFolder`, `repeatDeletion`.
`Call`, `Tombstone`, `Repeat`, `Reset`: `Jobs.Purge` and `Jobs.Erase`. `Fail`,
`Crash`, `Lands`: what goes wrong.

*Properties* (the first two are proved). `CleanupOK` is the type invariant and `Obligated`: while a retired
object exists or may still appear, the row names an operation that lists it.
`OwnedStay`: a repeated deletion of an earlier lifetime takes nothing a later one
owns. `GarbageDeleted` and `RetirementCompletes`: what is retired goes, what is
committed is carried out.

*Bounds.* One key and one name are used in turn (`MaxUsed` bounds them
together): what one pass does to two keys it does to one after another. Two
operations give a second that arrives while the first is worked; two lifetimes
let a public name be retired by the first and published by the second. One
sweep and one caller already work the same folder beside each other, with one
of them stopped by the fault.

*Fairness.* The sweep is a periodic job, so a pass goes on and the next one
starts (`WF Work(p)`), and time passes. Clients, late writes and faults owe
nothing.

*Left out.* Several folders but for `ahead`; mirrors; `SweepOrphans`.

## Release

Publishing one edition. A catalog write or a manifest edit commits an intent: a
request, of which one is current, and a job. The job freezes a plan, copies the
file to the area the plan wants (internal, private, public), makes the plan the
edition's release, and withdraws the deliveries before it.

*State.* `cat` is the catalog row, `media` the manifest with its deliveries
(adopted, then ready) and the withdrawn entries it still lists,
`req` the requests, `release` and `released` what readers get, `jobs` the queue,
`lock` the source lock, `run` the workers, `fence` the gateway's deletion fence.
A blob is a revision, an area and the delivery that copied it. A plan has the
fingerprint the code compares (`fp`). A date is "now" or "later" than `opened`.
Request identities are UUIDs nobody guesses; a number is used again only when no
row, plan, job, worker, blob or delivery knows it, so that eight suffice.

*Actions.* `Publish`, `Unpublish`, `Update`, `Delete`, `Restore`: catalog writes
with their intent (`SchedulePublication`). `Upload`, `Processed`,
`ItemCommitted`: the manifest and its callbacks. `Take`, `LockSource`, `Drain`,
`Prepare`, `PreparePromotion`, `Promote`, `MarkReady`, `Activate`,
`WithdrawPromotion`, `RemoveWithdrawn`, `FinishRetirement`:
`publicationWorker.Work` with `runRelease`. A promotion and a withdrawal are two
edits of the manifest each, with the deletion of files between them: the first
adopts the copies or marks the entry withdrawn, the second marks the delivery
ready or removes the entry, and a job may stop between the two. `Fail` records
the failure in the row and the job is retried, `Crash` does not record it.
`LoseLock`: the source lock ends with its session; the run does not notice and
goes on, so that at any step it may find its delivery withdrawn or its row gone.

*Properties.* `ReleaseOK` (proved) is the type invariant and `ServedStays`: the
bytes of the release stay, whatever is withdrawn or replaced. `ReadersCatchUp`: again and again, the release is what
the catalog and the manifest ask for. `NothingLeft`: copies of superseded plans
go as well, and no withdrawal stops halfway. `FenceFollows`: an edition readers have had is fenced in the end.

*Bounds.* Three writes supersede a request twice, once while its plan is frozen
and once before. With one worker a job meets what others have left behind, and
that is what the liveness properties are about, since the source lock serialises
the jobs of an edition. A run that lost its lock works beside others: for safety
any number of workers is covered by the proof, and TLC agrees for two (1,188,210
states). `ReadersCatchUp` then fails, see `LockLost` under Findings.

*Fairness.* Workers go on, processing finishes, callbacks arrive and scheduled
dates come. The writer's own fence sync is not fair: it is lost with the writer.

*Left out.* Chapters and segments, several files and renditions, access plans
beyond free or not, previews, progress reports, retention of old requests. A kind
that comes to require an upload the release lacks (release_work.go:332-336), after
which the release is withdrawn instead of kept: here the one file, once
processed, is there for good.

## Erasure

The editions of one item, their soft deletion and their end. Catalog rows
decide, fences follow. A sync reads a fence and writes it while it holds the
rows `FOR SHARE`, which is why catalog writes wait for it (`Unlocked`); a purge
commits a claim, erases storage without any lock, and removes the rows that are
still eligible.

*State.* `item` and `ver` are rows, with `old` once the retention has passed and
`auto` for a parent deleted because its last edition was. `claims` are journal
rows with `effects.erasure`, `fence` and `bytes` the bucket, `own` and `due` the
syncs that writers and publication jobs owe. A fence is an empty object, so its
ETag says that there is one and not which: `Matches`.

*Actions.* `DeleteItem`, `RestoreItem`, `DeleteVersion`, `RestoreVersion`,
`AddVersion`: catalog transactions. `BeginSync`, `EndSync`, `FailSync`:
`SyncFences`. `ClaimItem`, `ClaimVersion`, `LookErasure`, `PutErasure`,
`EraseBytes`, `FailErase`, `Remove`, `Crash`: `PurgeDeleted`. `Expire`: a
retention passes. `Import` is only in `ImportSpec`, see Findings.

*Properties.* `ClaimedStaysDeleted`, `GoneIsErased`, `ErasureStays` (proved, see
below), `FencesSettle` and `ClaimedGoes`.

*Bounds.* Two editions are what the parent's rules need: one whose deletion
leaves another, and the last. Four writes delete both, restore one and delete it
again. Both fence protocols meet with one sync and one purge pass; what several
do to each other is proved for any number.

*Fairness.* Jobs are retried, purge passes are scheduled again, time passes.
Authors may stop.

*Left out.* Several items; the deletion of a fence is assumed not to arrive
after its response timed out and the rows changed again.

## AccountErasure

`AnonymizeAccount` ends in three stores: the account store (intents and
receipts, which are never restored), the application's catalog, and the signal
plane with its ledger of erased subjects. Every call may stop between two steps,
is repeated, and may run beside another; `New` refuses a catalog that a restore
took back behind an erasure, and a replay repairs it.

*State.* `intent`, `receipt`: the account store. `catalog`, `backup`: the
application's rows and what a restore brings back. `ledger`, `rows`, `copies`,
`flight`: the signal plane, with inserts that read the ledger before the fence.
`elsewhere`: inbox, providers, avatar. `gone`, `due`: AuthKit and the host's
event reader. `up`, `replayed`: the engine. `sent`, `kept` are history.

*Actions.* `Anonymize` (intent, state and key), `Content`, `Private`, `Fence`,
`Copy`, `Delete`, `Count`, `EraseSearches`, `EraseAvatars`, `CompleteErasure`,
`Finish` are the steps of a call in the order of the code. `Contribute`, `Send`,
`Land`, `Search`, `KeepSearch`: the account. `New`, `NewForErasureReplay`,
`CloseRecovery`, `Deliver`, `Replay`: engine and operator. `Restart`, `Restore`,
`Fail`: faults.

*Properties.* `StartChecked` and `ContributionsKept` are proved (see *Proofs*).
`StartChecked`: an engine that serves shows nothing of an account
with a receipt, and refuses to start only after a restore. `ContributionsKept`:
no signal that landed before the fence is lost, and all of them stay one anonymous
person's. `PurgeCompletes`: an account that is purged is unlinked everywhere in the
end, and stays so.

*Bounds.* Two calls overlap at every pair of steps; one contribution and one
signal each meet the fence from either side; a backup of any moment may come
back; `maxErasurePasses` is two, so that a pass finds a late row and gives up.

*Fairness.* The event reader does not pass an event before a call succeeded, an
interrupted replay is repeated, operators open the engine, statements end.

*Where the model stops.* `createPreparedTx` (write.go:283) inserts `created_by`
without the subject's lock, and `SetAccountHidden` may mark an account again
after its erasure; neither is a contribution here. A row that lands between a
pass's copy and its delete is deleted without a copy; it landed after the fence,
so `ContributionsKept` does not claim it. A restore in the middle of an
anonymisation brings an older key back or none, hence `restores = 0` in two of
its parts. Only one application and one account.

## Proofs

`ManifestJournalProofs` proves, for every set of goroutines, operations and
keys, every workload, quota and number of faults, that the specification `Spec`
implies `TypeOK`, `OutcomeHonest`, `AckDurable`, `JobOwnsCommit` and the action
property `LandsOnce`. It rests on the assumptions of `ManifestJournal`: the
workload is a function from operations to kinds and keys, names differ, bounds
are naturals, and operations and keys are finite sets.

None of these is inductive. `OutcomeHonest` says that an operation recorded
absent never reached S3 and never will, which depends on requests in flight, on
what stopped goroutines still intend to send, and on whose row is frozen. The
strengthening `IInv` consists of

- `OnePending`: a folder has one unsettled row;
- `RowsShaped`: only an unsettled edit's row holds bytes, under its own receipt;
- `RequestsFenced`: a PUT in flight, or about to be sent by a goroutine, is
  stale (its ETag was replaced) or is the exact PUT of the row that admitted it;
- `LandedOwned`: what landed is recorded applied, or is the unsettled row's;
- `ProcessOK(p)`: what a goroutine may rely on at each point, in particular
  that one about to give a row up holds it only while the row never held bytes;
- `AckDurable` and that queued jobs belong to commits.

So the next body to land is the unsettled row's own; that row is given up only
while it never held bytes; what lands is settled as applied and what is absent
stays out. One lemma per group of actions shows that `IInv` is kept; the
theorems `Invariance`, `TypeCorrect`, `OutcomesHonest`, `AnswersLast`,
`JobsOwnCommits` and `AtMostOnce` state the results.

*Keys.* `RefsOwned` (theorem `OwnedRefs`: the manifest names no key that is
retired, unallocated or another incarnation's) says nothing of the body that is
about to land. The strengthening `OInv`, proved on top of `IInv`, has

- `Versions`: an ETag names one body, so a goroutine whose ETag is current has
  read what the manifest holds;
- `RowOwned(o)`: an admitted row of the current version owns the keys of its
  bytes, its bytes are the operation's edit of the manifest (`Edits`), and it
  retires only allocated keys that neither its bytes nor the manifest name;
- `TaskOwned(p)`: the same of a plan until `prepare` admits it, and, where a
  goroutine settles, that the operation landed or is a cleanup's.

Prepare checks ownership in the transaction that makes the row the folder's only
unsettled one. From then on a key can only be retired by settling that row, so
its bytes still own their keys when they land, however late and whoever sends
them. One case escapes this: `ensureIncarnation` replaces an absent manifest
without a row. The invariant has it as `RootWon`; the admitted PUT is then stale
and never lands.

*Refinement.* `Refinement` states `Spec => Linearizable`. Every step is an
`Edit`, an `Answer` or a stutter of `ManifestStore`: a PUT that lands is an
`Edit`, because `OInv` says that the row's bytes are the edit of exactly the
manifest they replace, and `LandsOnce` that its operation had not landed; an
acknowledgement is an `Answer`, because an applied row of an operation whose
answer is stable has landed; nothing else changes the manifest.

*Recovery.* `AdmittedFinish` proves `AdmittedCanFinish` (recovery can settle every
admitted mutation) for a folder that has a manifest (`Seeded`) and whose keys
never expire (`Temp = {}`); `UnexpiredFinish` proves the same of every row whose
keys have not expired, with `Seeded` alone. Neither hypothesis can go: without a
manifest a retirement's root overtakes the first commit (`RetireWedge`), and an
expired key fails the check of recovery (see Findings).

*Quota.* `ExactUsage` and `ReleasedByDeletion` prove `UsageExact` and
`DeletionReleases` for a workload that is `Balanced`: it has no `expire`, and each
`record` adds as many keys as it drops, all of its own. The first excludes
exactly the sweep of the finding `ExpireQuota`. The second is what place.go does:
the worker allocates a blob with a fresh UUID in its name (place.go:166,
allocations.go:88) for each staged upload and replaces the upload by it. The theorem
needs it since only commits and purges settle a change of usage (upload.go:560,
lifecycle.go:127). The strengthening
`CInv` adds that a row and a plan of the current version charge the difference
between their bytes and the manifest (`RowCharged`, `PlanCharged`), that a
tombstone is empty, and `Added`: what the manifest names was added by an operation
that landed, so a placed blob cannot be there before the operation that places it.

`ErasureProofs` proves, for every set of editions, syncs and purge passes, every
number of writes and faults, that `Spec` of `Erasure` implies `TypeOK`,
`ClaimedStaysDeleted`, `GoneIsErased` and `ErasureStays`, from the assumption
that `First` is an edition and `None` is not. `ErasureStays` needs more than it
says: a sync removes a fence it saw as a deletion's, and one may have become
permanent since. The strengthening `IInv` adds

- `Claimed`: a claimed edition is not readable, also not through its parent;
- `ErasedClaimed`: a permanent fence stands only over a claim;
- `SyncsHold`: a sync works on rows that exist, and holds them;
- `Passes`: a pass has claimed its targets, has fenced and erased those no longer
  listed, and, if the item is still expired, lists every edition of it;
- `GoneEmpty`: a removed item has no editions.

Every step is of one of three classes, each with a lemma that says what such a
step may change (`Rewritten`: a catalog write; `Synced`: a sync; `Purged`: a
purge pass) and one that such a step keeps `IInv`. A sync that removes a fence
belongs to a readable edition, which is not claimed, so the fence it removes is
not permanent. A pass that removes an item has erased every edition: one that
was added since would have revived the item, and its deletion is then younger
than the pass's cutoff.

`PgLockProofs` proves, for every set of processes, goroutines, keys, sessions and
every number of faults, that `Spec` of `PgLock` implies `LocksOK` and
`ImplementsKeyLock`, from the assumptions that every goroutine has a process and
that `None` is none of the others. `LocksOK` alone does not say why a grant is
not re-entrant. The strengthening `IInv` adds

- `Table`: the server keeps locks only for sessions it has;
- `ConnsOwn`: no two processes use one session;
- `Clients`: a waiter's session is its own and holds nothing, a holder's session
  is its own, or its process uses it and `held` has the key, or it is forgotten;
- `SharedOnce`: goroutines that share a session hold different keys on it.

`NothingLeaked` then says that a key `held` does not name is not locked on the
session in use, so `Try` takes it only while nobody has it (`TakesFree`). For the
refinement, a step either takes one such key (`Takes`) or lets nobody hold more
than before (`Gives`), which are the two steps of `KeyLock`.

`AccountErasureProofs` proves, for every set of calls, contributions and signals
and every number of passes, restores and faults, that `Spec` of `AccountErasure`
implies `TypeOK`, `StartChecked` and `ContributionsKept`, from the assumptions
that there is at least one pass and that `None` is not a number. `StartChecked`
speaks of what an engine shows; why it holds lies in how far each call got and in
which stores a restore can take back. The strengthening `IInv` adds

- `CatalogOK`, of the catalog and of the backup: what is fenced is not
  attributed, and what is purged is fenced;
- `Calls`: at each step of a call, the steps before it are done in the catalog
  that is there now, since a restore ends every call;
- `Receipted`: with a receipt, everything outside the catalog is done, and an
  engine that serves has the fence;
- `Unrestored`: without a restore there is one key at most and no store is behind;
- `Landed`: every signal that landed before the fence is there or was moved to
  a key that was issued.

A restore may break `catalog.erased # "none"` under a receipt only while the
engine is closed, and `New` opens it only if `checkErasureReplay` finds the
catalog purged, which by `CatalogOK` has its fence. A delete takes away only
rows that were copied, or that landed after the fence: the fence was there when
the copy began.

`MediaCleanupProofs` proves, for every set of sweepers, callers, keys and names,
every number of edits, lifetimes and faults and every length of the windows, that
`Spec` of `MediaCleanup` implies `CleanupOK` and `OwnedStay`. It assumes what the
code's constants provide (an object may land for less time than a deletion is
repeated, `Late > Landing`) and that passes and callers, keys and names are
different things. What the row must say depends on what every pass that may still
replace the row believes. The strengthening `IInv` adds

- `Recorded`: of everything retired that exists or may appear, the row names an
  operation whose window outlasts the last write of it (`Timely`);
- `Seen`: while a staged key is unreferenced, there is a row;
- `Readers`: a pass that holds the row and would remove it has, for everything
  retired, an operation it has not dealt with, or one it will measure as open;
- `Lifetimes`, `Owned`, `Settled`, `Passes`: only the purge resets its tombstone,
  once; what the manifest names is live; operations and passes are well-formed.

Every step that retires something (`Settle`, with which all of them end) records
an operation that is young enough and takes the row from all passes, whose
answer then counts for nothing. Every other step retires nothing (`Quiet`, `Calm`
and their lemmas), and only has to keep what a pass relies on. A pass finds the
window over only if it deleted after the last write could land, since a unit of
time that passes between its deletion and its measurement is remembered (`lag`).

`UploadsAndJobsProofs` proves, for every set of uploads, sizes and uploaders and
every quota, rate and life of a reservation, that `LimiterSpec` of `UploadLimiter`
implies `LimitsOK`, from the assumptions that sizes and bounds are naturals and
uploads a finite set. The strengthening `LimiterInv` adds

- `UsedIsCharged`: the usage is the sum of what is prepared or stored, so that
  the code's `greatest(0, ...)` never cuts a refund (theorem `UsageIsCharged`);
- `HoursHeld`: one presign at a time holds an uploader's hour, and its count
  still fits when it commits;
- `UsageHeld`: one presign at a time holds the usage, and what it read is true.

A sum over uploads is the number of their bytes, taken as pairs of an upload and
a number, so that what the sums need are facts about finite sets (`SumAdd`,
`SumSubset`).

The same module proves, for every set of clients, any number of changes,
passes and faults, that `Spec` of `RerunQueue` implies `JobsOK`. The strengthening
adds `CallsOK` (a job is inserting its next run exactly while it is passing),
`ReadOK` (nobody has read or announced what is not there) and `Paid`: each job was
paid for by a change or a pass and each insert in progress holds its own payment.
The last shows that an insert always finds a free row of the model's table. The
theorem `FollowUpsEnd` says that inside a transaction the loop of `InsertOnce` ends:
a follow-up is inserted after the job it follows (`Ordered`), so the chain it
walks has an end.

`SearchQueueProofs` proves, for every set of ticks, number of documents, edits and
faults, that `Spec` of `SearchQueue` implies `QueueOK` and `NeverOlder`, under the
hypothesis `Marking`: no edit removes a language, and an item does not join a
renamed entity through a child. These are exactly the edits of the findings
`SearchLanguage` and `SearchRename`, without which TLC refutes `QueueOK`; every
other kind of edit is there. The strengthening `IInv` has

- `Covered`: a document is right, or marked, or before the cursor of the rename
  or of the backfill;
- `BuildOK(t)`: a tick whose row still has the revision it read has built from the
  record that is there now, but for a name the rename will still bring;
- `PageOK(t)`: what a page of the backfill leaves out is known or comes later;
- `Titles`, `Silent`, `Present`: titles only grow; nothing shows an entity whose
  rename leaves no row; no document lacks its language.

That a fresh revision differs from all that are held is a lemma
(`SpareRevision`): there are more of them than rows and ticks.

`ReleaseProofs` proves, for every set of workers and of requests and any number of
writes, replacements and faults, that `Spec` of `Release` implies `ReleaseOK`. It
assumes only that `None`, numbers and copies have different names. The source
lock is not among the premises: `LoseLock` is a step, and nothing in the invariant
says that the holder of the lock is alone. The strengthening `IInv` consists of

- `OneCurrent`: at most one request is current;
- `Served`: the release has a ready delivery, made by its own request, whose
  destinations hold everything the release shows;
- `Frozen(i)`: whatever a plan or a result of a row will withdraw belongs to
  requests that are not current; a retiring row does not withdraw the release;
  the delivery of a current request is that of its frozen plan;
- `Runner(w)`: the same of the plan a run holds in memory, at each step, however
  long ago it read it: what it still withdraws is neither current nor the release,
  and while its request is current it copies and activates that request's plan.

A plan names the deliveries there were when it was frozen. The requests they
belong to were superseded by then (a current request without a plan has no
delivery), and a superseded request never becomes current again: a step carries every row over,
and only a number that no row, run, job, delivery or blob knows becomes current
(`Carried`, `Unknown`, `AcceptCarried`, `CarryKeeps`). The release moves to the
current request alone. So what a late run withdraws is neither the release nor
will it become one. Two action properties state these facts of every step:
`WithdrawsOld` (theorem `WithdrawalsAreOld`: the delivery that goes is neither that
of the release nor of a current request) and `SwapsToCurrent` (theorem
`SwapsAreCurrent`: the release moves only to the current request, which is
delivered and ready). Identities are UUIDs and the model's numbers are reused, so `Named` has to
count what plans withdraw: a reused number could otherwise be withdrawn by a plan
older than its request, and the invariant would not be inductive.

*Only model-checked.*

- Liveness, which the prover cannot do: `AdmittedSettles`, `WaitersServed`,
  `ChangesApplied`, `EventuallyCurrent`, `GarbageDeleted`, `RetirementCompletes`,
  `ReadersCatchUp`, `NothingLeft`, `FenceFollows`, `FencesSettle`, `ClaimedGoes`,
  `PurgeCompletes`, `RoomReturns`.
- `UsageExact`, `DeletionReleases` and `AdmittedCanFinish` for workloads that the
  hypotheses of their theorems exclude: sweeps, folders without a manifest, keys
  that expire. Findings shows how each of the three can make them false.

## Findings

The run `RetireWedge` shows behaviour that contradicts the repository's own
words: `ensureIncarnation` writes a root without lock and row. Between a first
edit's prepare and its PUT the root wins, and recovery refuses the admitted row
for ever, with its charge and everything behind it.

The configurations below are kept beside the runs. TLC finds a violation with
each of them: `tlc -config X.cfg M`, with the module of the table.

| configuration | module | what its counterexample shows |
|---|---|---|
| `ExpireQuota` | `MCManifestJournal` | `expireStaged` (sweep.go:122) removes a committed upload from the manifest without a settlement. The later deletion refunds what the manifest then holds (lifecycle.go:123-127), so the charge stays; README.md:401-404 of the repository says that deleting an item releases it. |
| `RerunOverlap` | `RerunQueue` | river.go:43-44 says that jobs for the same inputs do not overlap. A follow-up only waits for the job it names: while it is fetched and has not yet snoozed, a second one finds it not running and works beside the first job. |
| `SearchLanguage` | `SearchQueue` | `mark` (facets.go:149) finds documents by present languages and documents. An edit that removes a language between the build and the publication of its first document marks nothing, so the document appears and stays. |
| `SearchRename` | `SearchQueue` | A membership locks the entity it names (memberships.go:51) and not that entity's ancestors. An item that joins a child while the ancestor's rename is open keeps the old name; facets.go:182-184 says every edition showing a renamed entity is queued. |
| `FenceLost` | `Release` | fences.go:18-19 says that the publication job of the same write syncs the fence again. A write on a draft with nothing begun schedules no job (release_work.go:141-143), so a writer that stops after deleting such a draft leaves it unfenced. Nothing of it was ever served, which is why `FenceFollows` asks for editions readers have had. |
| `LockLost` | `Release` | release_work.go:1000-1001 says that under the source lock no other run is active. A run whose lock ended with its session goes on beside the next. Its `Promote` may still adopt its copies after a newer request has frozen a plan of the file before: `PreparePromotion` then finds a source that nothing retains (delivery.go:124-221) and fails at every retry, and readers keep the previous release until another write or upload makes a new intent. The bytes they are served stay (`ReleaseOK`). |
| `RestoreRepublishes` | `Release` | `Unpublish` keeps `published_at` (write.go:569), and `restoreRows` publishes whatever has one (write.go:639). An edition that was published, unpublished, deleted and restored is public again; docs/api/routes.md:108 and write.go:579-580 speak of restoring it as it was. |
| `ImportRevives` | `Erasure` | `writeImport` (import.go:371-384) writes the record's state without asking `CheckRestorableTx`, as versionstore/lifecycle.go:85 has every restore do. An import can make an edition readable whose erasure is claimed. |
| `SignalRestore` | `AccountErasure` | `AnonymizeAccount` returns at once when the catalog says purged (account_lifecycle.go:48), so the replay after a restore of ClickHouse from a backup older than the fence records nothing in the ledger. docs/restore.md:20-26 says that erasures never roll back. |
| `DayLimit` | `MCUploadLimiter` | limiter.go:122-123 says that the hour row lock serializes one uploader's presigns. Two presigns on both sides of an hour lock different rows and each sums the counters without the other's, so together they exceed the bytes of a day. |

Two more observations have no configuration. A staged key under `temp/` that
passes its seven days after its commit was prepared fails recovery's check
(manifests.go:758-763) at every later attempt, so the row blocks the folder as
in `RetireWedge`; with `Temp = {k1}`, `Edits` violates `AdmittedCanFinish` this
way, and for that reason the run keeps its keys from expiring. And the case
that journal.go:243 describes, of a prepared operation that recovery made
absent and refunded, cannot occur: recovery only gives up a row that never held
bytes (`OutcomeHonest` and `RowsShaped`).

## Not modelled

- *About half of the source lines*: the browser SDK with its generated client,
  SQL and generated Go. They hold no protocol.
- *Single transactions of the content, entity, channel, discovery and catalog
  stores* (posts, comments, polls, reactions, feeds, counts, merges, queries):
  their correctness is the SQL of one statement, which a model would repeat.
- *`purge.go`, `EraseSubjects` and `EnforceErasures`*: the same ledger, copy and
  delete steps as in `AccountErasure` for whole tenants, without an anonymous key.
- *Preference sync* (`hub/preferences.go`): the receiving service orders pages by
  revision, and it is not part of this repository.
- *Image and video processing, gateway, tokens, HTTP, adapters*: encoding, I/O
  and pure checks.
- *The row locks inside a transaction that marks documents* (`facets.go:227`): a
  transaction is one step of `SearchQueue`, so its deadlocks cannot show.

## What may follow

Models: entity
documents in `SearchQueue`, releases of chapters and segments.
