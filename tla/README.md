# Verification of nauto-console-backend

TLA+ specifications of the parts of this backend whose correctness depends on the order in which
requests, workers, timers and failures meet; TLC configurations that check them on small instances; and
proofs, checked by TLAPS, that hold for every instance. The reference is the code under `src/src`;
`PROJECT.json` names for every definition the lines it stands for.

## 1. The system

A NestJS application (clean architecture: `presentation` → `application` commands and queries → `core`
services and entities → `infrastructure`), with PostgreSQL behind Prisma, Redis, BullMQ queues and an object
store (MinIO or S3). Processes run as API, as worker or as both (`queues/queue.module.ts`).

### Components

| Component | State it keeps | Operations | Where it is hard | What makes it correct | Here |
|---|---|---|---|---|---|
| Folder locks: `PathConcurrencyService`, `FolderLockService` | Redis: lock key and descendant counter per path, each with a TTL | acquire, release, refresh (Lua scripts), `withFolderLock`, `withMultipleFolderLocks` | counters shared by sessions, expiry instead of release, dead holders, several locks one by one | a folder is never locked with an ancestor; nobody releases another's lock; keys of the dead go away; no circular waits | **modelled, proved** |
| Multipart uploads, quota, slots: `MultipartUploadService`, `FileQuotaService`, `ConcurrencyService` | `File` rows, multipart sessions, objects, Redis counters of slots and reserved bytes, locks per user, quota and file | initiate, part URL, complete, abort, heartbeat, admin clear, cleanup of stale uploads | locks that end before the transaction, compensation after failures, two releases of one slot, worker and client on one record | objects have records and records have objects; live uploads keep their bytes and slots; deleted stays deleted; what was abandoned goes away | **modelled**; rows, objects, sessions and reserved bytes proved |
| Bulk imports: start/cancel commands, BullMQ jobs, `BulkProcessingService`, `ProductCatalogProcessor`, event handlers | request rows, status of the file, jobs in Redis, products | create, start, cancel, attempt, retry, stalled job, failed handler, cleanup of the file | whole rows written back from stale copies, retries, crashes, handlers that run beside the next attempt, a stream that never settles | no page imported twice; the file erased only when every row was gone through; a completed import accounts for every row and stays completed; the file is released; imports end | **modelled** (partly: no reports, no deletion of requests); safety proved |
| File, user and quota locks: `FileLockService` | Redis key with an owner's value and TTL | `withFileLock`, `withUserLock`, `withQuotaLock`, `withMultipleFileLocks` | expiry under a stalled holder; a lost answer to SET; the heartbeat starts only when all keys are taken and ignores its answers | mutual exclusion while the key lives; compare-and-delete; sorted acquisition | **modelled, proved** |
| File and folder operations: `FileOperationsService`, delete/create folder commands | `File` rows and objects | move, rename, delete, visibility, target apps | record and object change in two steps; lists read before the locks; entity transitions without guard | record and object agree after every failure, but for named accidents | **modelled, proved** (partly: one file at a time) |
| Accounts: `AuthService`, `SessionService`, `UserService`, the auth and user commands | the user row, sessions, refresh tokens, reset links, codes | login, refresh, logout, password, address, verification, reset, activation, ban, roles, deletion | count-then-insert, check-then-act, whole rows written back, two lock orders | a refresh token and a reset link work once; the limit of sessions; a ban stands | **modelled, proved** (partly: no registration, no second factor, no expiry by date but of bans) |
| Email queue: `UserService`, `BaseEventBus`, `GenericEventProcessor`, the handlers of auth mails | user rows, BullMQ jobs with stored progress, messages sent | registration, publish, attempt, retry, stall, notes in the row | the job is queued before the commit; two sends and two notes in one handler; a run that lost its lock goes on | a message is sent again only after a run that ended badly; the row tells how it went; jobs end | **modelled** (welcome messages); safety proved |
| Users, roles, companies: `UserService`, `CompanyService`, the authorization services, the auth, user and company commands | rows of users and companies, claims in tokens | roles, activation, ban, deletion, registration, joining, leaving, switching, creation, closing and opening of companies | guards look at claims, handlers at rows; two orders of roles; lists read before they are used; whole rows written back | claims are those of the row; nobody acts for a closed company; nobody changes who is above him | **modelled, proved** (partly: no rows of roles and permissions, no tenants by host) |
| Product catalogue: `ProductMediaService`, `ProductCatalogService` | rows of products, media and files; objects | create, update and delete media, save and delete products | clear-then-set at READ COMMITTED; rows, objects and products deleted one after the other without a transaction | one favourite per product and type; no object without a row; a deletion that answers is complete | **modelled, proved** (partly: without the columns of a product) |
| Queue infrastructure: event bus, base processor, registry, health checker | BullMQ jobs; health snapshot | publish, cancelJob, process, retry window | health measured at intervals; failures classified | `cancelJob` and retries: in BulkProcessing and EmailQueue | in part, in those two |
| Bot tokens, throttler, maintenance of counters, storage drivers, schedules, reminder queues, AI configuration, campaigns, audit logs, cache, health, configuration, controllers | rows, counters in memory | CRUD handlers, one transaction each | little interleaving; the reminder queues live in SQL functions; the cache of bot tokens is wired to nothing | validation | not modelled (reasons in `PROJECT.json`) |

### How they interact

* The storage controller wraps *initiate* and *complete* in one interactive Prisma transaction; *abort* runs a
  transaction of its own; *heartbeat*, *clear* and the cleanup worker run in none. The Redis counters, the locks and the
  object store are outside of every transaction. Locks are released **inside** the controller's transaction: the next
  holder of a lock may act before the previous holder's rows are visible. Most of what is hard in this code follows
  from that, in uploads and in imports.
* The bulk controller wraps create, start, cancel and delete the same way; `start` adds the BullMQ job inside the transaction.
* The worker, its processor and the handler of `failed` events read a request row, change the copy and write every
  column back. They take no lock.
* Operations on files (move, rename, delete, the end of an upload, the start of an import) take the file lock.
* A registration publishes the welcome job inside of its transaction too. Workers use connections of their own and see committed rows.
* Tokens carry the roles and the company their user had when they were issued; guards decide on them without the database, except
  for the activity of the user, and most handlers read the row again.
* Media are created and updated in a transaction; the deletion of media and products runs in none and takes the file lock for each file.
* The folder locks are a service that the core module provides and exports. At this commit no handler calls it: the
  operations on folders lock the files they have listed, one by one. `PathLock` therefore models the service against any callers.

## 2. Modules

| Module | Models |
|---|---|
| `FolderPath` | the path algebra: `normalize`, `ancestorsOf`, the comparator of `normalizeAndCollapse` (operators only) |
| `PathLock` | the Lua scripts in Redis and the sessions of `FolderLockService` |
| `FolderMutex` | abstract specification: who owns which folder, with no keys, counters or time |
| `PathLockProofs` | theorems about `PathLock` |
| `RedisCounters` | the scripts of `ConcurrencyService` on one counter (operators only) |
| `Upload` | uploads of one user: rows, transactions, store, counters, locks and the cleanup worker |
| `BulkProcessing` | imports of one file: requests, file, jobs, worker, event handlers |
| `FileLock` | the locks of `FileLockService` (file, user, quota): owner's value and TTL per key, sessions that take several |
| `FileOperations` | move, rename, delete, visibility and target apps of files: rows, transactions, store, and `FileLock` below them |
| `FileOperationsProofs` | theorems about both |
| `Accounts` | the account of one user under concurrent requests: user row, sessions, tokens, links and codes, PostgreSQL's row locks |
| `EmailQueue` | welcome messages: registration, BullMQ jobs, workers, the handler with its stored progress, the status columns |
| `Hierarchy` | who may do what to whom: the decisions of the authorization services (operators only) |
| `Organization` | users, roles and companies under concurrent requests, with the claims of their tokens |
| `Catalogue` | products, media, files and objects under concurrent requests and failures of the store |
| `UploadProofs`, `BulkProcessingProofs`, `AccountsProofs`, `EmailQueueProofs`, `OrganizationProofs`, `CatalogueProofs` | theorems about the module of that name |
| `MCPathLock`, `MCUpload`, `MCBulkProcessing`, `MCFileOperations`, `MCAccounts`, `MCEmailQueue`, `MCOrganization`, `MCCatalogue` | the instances TLC checks |

Operators called *Faulty* stand beside the definition they vary. They are plausible mistakes in it, used to
confirm that a property fails when the code is wrong; no specification uses them.

### PathLock

`lock`/`lockTtl` are the lock keys, `desc`/`descTtl` the counters. `AcquireLua`, `ReleaseLua` and `RefreshLua` are the three
scripts, each one atomic step. A session is a caller of the lock service: `Begin` is the call with its collapsed set of folders,
`Acquire`/`GiveUp` the attempts of `tryWithBackoff` (an attempt that fails and is retried changes nothing), `StartWork`,
`Refresh`, `EndWork`, `Release` and `Return` the heartbeat, the operation and the `finally` block. `AcquireFails` and
`ReleaseFails` are commands that fail or time out (`commandTimeout` is 20 seconds): a lock may have been granted that nobody knows the token of. `Crash` kills the
process, `Tick` lets Redis's time pass. TTLs are counted in ticks downwards, so the state stays finite; a session that loses its
lock goes on, as in the code, which never looks at the result of a refresh.

### Upload

Rows are what is committed; `req[p].write` is the row an open transaction has written, invisible to others and
locking its row (`RowFree`, `PathFree`). READ COMMITTED needs no more here. Some detail is left out because it changes nothing that is checked:

* `PENDING` rows are never committed (save and the update to `UPLOADING` are in one transaction); `generatePartUrl` changes no state;
* the validation before the locks is weaker than the check under the quota lock, which `Reserve` models;
* the compensations under `Promise.allSettled` are one step (`Refund`): they touch different keys;
* an upsert over a file that is already uploaded is not modelled (`validateDuplicatePathUpload` refuses it without the upsert option).

Time is the age of a row: 0 live, 1 refused by `isUploadExpired` (14 minutes), 2 ready for the worker (15 minutes).
`Expiry` says when the counters' two hours may pass: `"quiet"` when nothing is uploading, `"stale"` also over uploads
that the worker failed to remove, `"long"` also under an upload that heartbeats keep alive. With `StatErrorMeansAbsent`
the store is the MinIO driver, whose `objectExists` answers false to every error.

`ConcurrencyService` swallows every error of Redis, and its callers do not look at the answers. With `redis` in `Faults` every such call may do nothing: a release of
a slot or of a reservation (`Outcomes`), the script that reserves (`AddReservation`: the upload is let through with nothing reserved, and `unrecorded` remembers
it), the read of the reservations (`ReservedReads`: 0). A `tryAcquireSlot` whose answer is lost refuses the upload and may have taken the slot. `QuotaLockStrays` is a `SET` of the quota
lock whose answer is lost or a release that fails: a key that nobody holds, until its TTL ends; for the other two locks that only refuses calls, which clients need not
make, and `ClearNext` has that refusal. No lock is lost while it is held: outages of Redis are shorter than the TTL of a lock.

`checkAndReserveQuota` says that an upload it allows has its reservation recorded (`file-quota.service.ts` 46) and catches an error of `addReservation` in order to
fail closed (70). `adjustCounterWithTtl` never throws (`concurrency.service.ts` 278-289), so neither is so: the catch is dead, and an upload without a reservation goes on. Its completion or abort then gives
back bytes that others have reserved. What remains true, and is checked and proved, is that this costs the others no more bytes than were not recorded.

### BulkProcessing

Process *j* is the handler of job *j*'s failed event, which BullMQ runs beside the next attempt. `Chunks` pages of products stand for the
rows of the file; the rows of a page are treated alike. A row that is not valid or whose upsert throws is counted as failed and passed over
(`product-catalog.processor.ts` 399-403, `excel-streaming.service.ts` 344-367), also when the error is one of Redis; one that throws after the upsert is both there and counted. So a page is `here`, `fails` or both:
`imported` counts the former, `bad` the latter, and `Logs` writes `bad` into the column `failed` of the request. What `logRow` adds to that column before is written over by `setLogs` and left out. `run[w].seen` is the copy of the request that a worker carries and writes back. `Faults` chooses what may go wrong:
`storage`, `archive` (a ZIP that breaks off), `stream` (the connection breaks, whose error nobody listens to: `w_hung`),
`queue`, `tx` (rollback after the handler returned), `crash`, `early` (the worker is faster than the commit). Rows that were
parsed before an archive or a stream broke go on being imported in the background (`tail`): `main.ts` swallows uncaught
errors and rejections, so the process does not end.

Merged or abstracted: setting the logs and marking the Excel phase completed; the loop over media pages (a page warns or not);
reading and marking the file `ERASING`; the two steps of the cleanup job. A retry waits until the handler of the
previous attempt is done, since its back-off is ten seconds. One worker slot is modelled: `BULK_PROCESSING_CONCURRENCY` defaults to 1.

### FileLock and FileOperations

`slot`/`slotTtl` are the Redis keys with their owner's value, `taken[s]` what session *s* believes to hold. `BeginLock` sorts the keys,
`GetLock`/`MissLock` are the attempts (a `SET` whose answer was lost leaves the key to its TTL), `Heartbeat` refreshes and ignores
the answer, `LeaveLocked`, `DropLock` and `EndCall` are the `finally` blocks. `FileOperations` EXTENDS it and moves a session through the
statements of one operation: `step` is the next one. `row` is what is committed, `draft` what the session's transaction wrote; writes wait for
row locks and for the unique index on the object key, as in PostgreSQL. `object` is what the store holds at a key: the file whose bytes they are.

The object can be lost. `cause` records every accident that can do it, and nothing else does:

| Accident | In the code |
|---|---|
| `lockLost` | the key ran out under a holder whose process or Redis was stalled; nobody looks at the heartbeat's answer |
| `uncommitted` | the lock is released before the controller's transaction commits, so the next operation reads the old row |
| `stale` | `updateFileTargetApps` reads the row before it locks, and writes every column back |
| `timeout`, `rollback` | the transaction is rolled back after the store was changed |
| `stat` | the MinIO driver takes any error for "no such object" |
| `purge` | a deletion by path finds no row and deletes the object without a lock: the row is being moved, or the query failed, which `DeleteUserFile` takes for no row (`delete-user-file.command.ts` 71-84) |

Left out: who may do what (`FileAccessControlService`), the `overwrite` flag, which no caller sets, and the other columns of a file.

### Accounts

`Program` gives every command its statements in order; an action is what a statement does in PostgreSQL at READ COMMITTED. `rows` is what is
committed; `draft`, `ins` and `del` are what a request's transaction has written. A statement that meets a row another transaction has written
waits (`Wait`), with the rows it had found (`aim`): rows that were committed meanwhile are missed. A row that refers to the user cannot be inserted
beside a change of the user's key, and a circle of waiting transactions is ended by the failure of one of them (`FailVictim`). `UpdateUser` is
`UserRepository.update`: all columns of the entity that was read, and the rows of the roles deleted and inserted again, so that an update that waited
for another one finds rows it did not delete and fails.

Refresh tokens and sessions have one number: a token names the session it was issued with, as the column `refreshToken` does. `heirs` records which
session was born from which token and which password from which link. `cause` records two races the properties name: `stale`, a user written
back as it was read before another request changed it, and `missed`, the `deleteMany` of a login, verification or refresh that a refresh token escaped,
because it was committed while the statement waited. `CachedById` are the commands whose second `findById` may be answered by the cache of the command (100 ms).

What the model shows besides its properties: the last writer of the row wins, so a login that overlaps a ban ends it; nobody revokes the
sessions of a user who is banned or deactivated through the profile, or whose password an administrator changes; a temporary ban that has run out
leaves an account that can be neither activated nor unbanned; a changed address keeps the flag of the old one, so that it never gets a code.

### EmailQueue

One registration has one job. `request[u]` is the request of the controller, whose transaction makes the row visible (`Commit`) or not (`Abort`)
after the job was published. A run of a worker goes through the statements of `AuthEmailUserCreatedHandler`: `FirstStep` looks at the progress
a former attempt stored, then mail, note, text, note, `StoreProgress`, `Complete`. `holder` is BullMQ's lock: `Stall` takes it from a
run that may still be alive (its event loop was busy), and BullMQ then refuses the last word of that run, but nothing it did before. `ReadUser` and
`SaveUser` are another request that writes the whole user row back. Faults are counted, since with enough of them nothing is left to be claimed:
`lost`, `refused` and `upset` record what they did and are what the properties exempt.

### Hierarchy and Organization

`Hierarchy` has the two orders of roles side by side, as the code has: `Level` (`hierarchyLevel` of the seed, with ties) and `Place`
(`ROLE_HIERARCHY_ORDER`). A request of `Organization` reads and decides in one step, and writes in another (`Commit`) or not at all (`Fail`). It is
one step, because the transaction starts with the update of the user's row and so holds it until the end; `Accounts` has the
statements one by one. `cause` records what the properties name: `stale`, a row written back as it was read before somebody
changed it; `missed`, a member that the closing of a company did not list; `profile`, a user made active by an edit of the profile, which signs
nobody out; `unseen`, a user of a closed company whose sign-in did not look at it.

There are three ways to sign in. `Login` looks at the activity and the company; an error of the look at the company counts as a success (`validateCompanyActive`, 366-376). It must be an error outside of the
database, since a failed statement aborts the transaction and so is `Fail`. `VerifyEmail` and `VerifyOtp` look at neither the company nor the activity nor a ban. The codes are not modelled: any user may have one. A
login with an unverified address sends one, and root can have one sent to anybody; nothing in the repository dispatches `GenerateOtpCommand`, so the codes of the second factor come from outside.

`@Roles` of `PUT users/:id` names every role (`user.controller.ts` 303-350). `EditProfile` has root, admin and manager only, because the same guard asks for the permission `user:write`,
which the seed gives to these three (`prisma/seed-role-permissions-map.ts` 15, 53, 72); with another assignment of permissions more roles could edit their own profile.

### Catalogue

`req` holds both kinds of requests. A saving one is a transaction: `aim` are the favourites its `updateMany` saw when it began, `held` the rows it has written and
locked, `row` what it will commit; the other request waits for `held` and then looks at its own `aim` again, but not for favourites
that are new. A deletion has no transaction; its places are the statements of `deleteProductMedia` and `deleteFile`, `left` the media still to do.
`raced`, `accident` and `unlisted` record the races and accidents the properties name. Locks are granted at once and `ON DELETE CASCADE` is part
of the delete; so PostgreSQL's deadlocks, in which it fails one of two requests, appear as the failures of the write or of the store.

## 3. Hard behaviours and the properties that are for them

The complete list, with lines, is under `hazards` in `PROJECT.json`. The properties:

* **PathLock** — `HierarchicalExclusion`, `CounterCoversLocks` (a counter counts and outlives the locks below it),
  `CounterExactUntilExpiry`, `NoForeignRelease`, `StrictAcquiresAlone`, `ImplementsFolderMutex` (refinement),
  `NoWaitCycle`, `DeadLocksFreed`, `CountersDrain`.
* **Upload** — `NoOrphanObject`, `UploadedIsStored`, `LiveBytesReserved`, `LiveUploadsHaveSlots`, `DeletedStaysDeleted`,
  `AbandonedUploadsRemoved`, `CountersDrain`. `LiveUploadsHaveSlots` does not hold (`upload_double_release`).
* **BulkProcessing** — `ImportedOnce`, `ErasedOnlyAfterImport`, `CompletedCountsAllRows`, `CompletedStands`, `FileReleased`,
  `ImportEnds`. Completed does not mean imported: a row that fails is counted and the file is erased all the same, so the two properties
  claim that every row is either there or shown as failed.
* **FileOperations** — `NeverLeftCopying`, `ServedWithoutAccident`, `NoForeignBytes`, `OnlyOwnerUnlocks`,
  `ImplementsFileMutex` (refinement: keys implement `FolderMutex` with no path above another).
* **Accounts** — `RefreshOnce`, `ResetOnce`, `SessionLimit`, `BanStands`, `CirclesNeedDisorder` (which commands can wait for each other).
* **EmailQueue** — `DuplicatesArePaidFor`, `OutcomeIsVisible`, `RegisteredIsSettled` (liveness).
* **Organization** — `ClaimsAreCurrent`, `ClosedIsQuiet` (nobody below root acts for a closed company, but for the three races and the sign-ins
  without a look at the company), `AuthorityIsGiven`.
* **Catalogue** — `FavoritesNeedRace`, `ObjectsHaveFiles`, `DeletionIsComplete`.

Every module has a type invariant. `TypeOK` is proved for every module (section 5) and so in no run. Several properties say "unless": they name, as history, the races and
accidents that break them. What they claim is that nothing else does, and section 4 lists what the exemptions mean in practice.

## 4. Runs

| Run | Instance | Result |
|---|---|---|
| `path_lock` | 3 sessions, folders a, a/b, a/b/c, a/x, requests {a, a/b/c} (which collapses), {a/b/c} and {a/b, a/x}, strict and not, TTL 2 | all safety properties hold, and `PathLock` implements `FolderMutex` |
| `path_lock_live` | 2 sessions, requests of one depth, fairness | no circular wait; keys of the dead and counters of a quiet subtree go away |
| `upload` | 2 uploads on different paths, 2 requests and the worker, failures of store, transaction, Redis and process (3,336,902 states) | rows, objects and reservations stay consistent, but for the bytes that Redis failed to record |
| `upload_live` | one client with administrator's clear, worker, fairness, no failures | abandoned uploads are removed, counters return to 0 |
| `upload_double_release` | completions that fail | **slots violated**: `abortUpload` and `finally` both release |
| `bulk` | 1 request of two pages, 1 job with 3 attempts, 2 interchangeable clients, start and cancel, every failure (2,921,976 states) | no page twice, the file erased only when every page is imported or counted as failed |
| `bulk_live` | 2 requests of one page for one file, 2 jobs with 2 attempts, failures of store, archive and queue, fairness (159,026 states) | completed imports account for every page and stand, imports end, the file is released |
| `file_ops` | 2 files, 2 folders, 2 names, 2 requests at a time out of 3, every operation, failures of queries, store, driver, transaction, clock and process (1,442,470 states) | a file keeps its object unless an accident happened; one accident never serves foreign bytes; the locks implement a mutex |
| `accounts` | 2 requests at a time out of 3, 17 commands, 2 addresses, 2 sessions allowed | tokens and links work once, sessions keep their limit, bans stand, deadlocks need two orders |
| `email_queue` | 2 registrations of one address, 2 workers, 2 attempts, 1 stall allowed, 2 faults, fairness | messages are repeated only after a run that ended badly, the row tells the outcome, jobs end |
| `organization` | root, an admin and a manager of a company with a subsidiary, an address not registered; 2 requests at a time out of 3, 21 commands (623,243 states) | claims are current, closed companies are quiet, nobody reaches above himself |
| `catalogue` | 2 products with 3 media, one file shown with both, a free video; 2 requests at a time out of 3, failures of store, driver and process | second favourites, orphans and incomplete deletions need the races and accidents that are named |

`upload_double_release` states what the comment "Always release slot (idempotent)" says; `findings` quotes it. The
counterexample is short, and was followed through the code.

### Why the bounds are enough

* Three sessions and four paths give a folder with two branches, a grandchild and a third party: the smallest tree where one
  session's expiry or release can disturb another's counter while a third asks for the ancestor. `MaxDesc = 3` is above the
  number of locks below a path; counters above it come only from locks that expired without release, and the
  proofs do not depend on it. TTL 2 lets a lock be refreshed, or not, before it ends.
* Two uploads and two requests, with the worker, give every pair of operations on one record, and an operation on one beside an
  operation on the other; the counters are shared by the user and nothing crosses users. An attempt loses its reservation once, and a failed read (0) is taken only while the
  counter is below the quota: both keep the counter finite. The theorem has any number of attempts and any quota.
* Two pages tell an import that did nothing, part and everything; `bulk_live` has one, which is there, failed, both or still to come;
  the theorem on `CompletedCountsAllRows` has any number. Three attempts are the default. Two jobs of two requests are what one job can
  do to another's file; more jobs repeat it. One job in `bulk` keeps every failure in reach, including two stalls.

* Two files and four places: each operation can meet its own file, the other file's place and a free place. Three requests are two that race and
  one that comes after. After two accidents, or one lost lock with another, nothing is claimed and nothing explored (`Explored`).
* Two requests at a time are every race of two commands; the third comes between or after, and meets what they have left. Two sessions make a limit that
  can be full, have room, and lose its oldest. With three
  requests at once and four in all the limit of sessions can be exceeded after `missed`, which `SessionLimit` exempts; the theorem has no bound.
* Two registrations of one address are one that commits and one that fails. Two attempts, one stall and two faults give every way to end a job, and a
  run beside the run that took its job over.
* Four users are one per level that matters and one without a row; a third company would only repeat the subsidiary. Three requests are two that
  race and one after them.
* A file shown with two products is the smallest case in which a deletion reaches into another product, a spare medium one that grows while it is deleted. Two
  photos and a video tell types apart. Four requests without the video were checked as well (619,182 states).

### Fairness

* Time passes (`Tick`, `Age`, expiry): Redis and the clock do not stop.
* A request or handler that has not died runs its next callback (weak fairness of each process). Clients owe nothing: no
  fairness on starting an operation.
* The cleanup worker is a repeated job: weak fairness of its steps.
* BullMQ hands every waiting job to a free worker, first in first out, so a job that can be picked again and again is
  picked: strong fairness of `Pick` and `Cleanup`, which compete for the worker. Delayed jobs are promoted, stalled ones found.
* Registrations end, workers take jobs and run their next statement, and BullMQ finds stalled jobs: weak fairness of `Finish`, `Take`, `Handle`
  and `Stall` (`stalledInterval` repeats).
* `Accounts`, `FileOperations`, `Organization` and `Catalogue` have safety properties only, and no fairness.
* No fairness of faults, and none of lock acquisition: `FileLockService` and the folder locks are not fair, and nothing checked says they are.

`CHECK_DEADLOCK FALSE`: these systems may come to rest when clients send nothing and all jobs have ended. `Catalogue` says when it rests
(`Rest`), and TLC checks that its requests wait for each other in no other state.

### Settings that matter: what does not hold

The following fail under settings that no passing run uses. They are known limits of the code, recorded as notes of the hazards:

* With a rollback of a started request (`tx`) and a second start, or with a cancel, `CompletedStands` fails: a stale copy overwrites `COMPLETED`.
* Cancelling a waiting job leaves the file `PROCESSING` (`FileReleased`); so does a worker faster than the commit, together with a store failure.
* A broken connection hangs the worker for ever, and a crash between a second stall and its handler leaves the request `PROCESSING` (`ImportEnds`).
* Cancelled requests can be imported: `CANCELLED` is written over by the `PROCESSING` of a worker that read the row before.
* After a crash of the upload worker between abort in the store and deletion, the row stays `UPLOADING` and every later pass skips it (`AbandonedUploadsRemoved`).
* A cancelled attempt throws `JobCancelledException`, which BullMQ retries like any other error; `handleJobFailure` then fails what was
  `CANCELLED`.
* `start` waits up to 60 seconds for the file lock, in a transaction that lives for five.
* A heartbeat that waits for the row lock of a completion turns the `UPLOADED` record into `UPLOADING` again.
* With `StatErrorMeansAbsent` an unreachable store lets an abort delete the record of an object that exists (`NoOrphanObject`).
* With `Expiry = "long"` the shared reservation runs out under an upload that heartbeats keep alive (`LiveBytesReserved`), with `"stale"` under one that
  the worker failed to remove. With `StatErrorMeansAbsent` an abort can refund what a completion has given back already, and so take the bytes of another upload.
* Requests for folders of different depths can wait for each other in a circle until both time out: {a/b, a/x} and {a/x, a/b/c}
  (`NoWaitCycle` is checked for one depth; `WaitsEnd` in section 5 says how far it goes). A path `/` has no segments, so it conflicts with nothing.
* A failed completion releases its slot twice; every retry of it releases one more. A completion gives its quota reservation back before its bytes are committed, so that the quota can be exceeded, and two
  initiates for one path leave a multipart session that nobody knows.
* Two starts of one import before the first commits give two jobs.
* An import completes, and the only copy of its rows is erased, although rows failed for a passing reason (a timeout, Redis): only their number and the log remain.
* An upload is let through without a reservation when Redis fails (`LiveBytesReserved` counts it), against `file-quota.service.ts` 46 and 70.
* Users who are inactive, banned or of a closed company are signed in by the code of their address or of the second factor. The guards turn away
  the inactive; somebody registered as active into a closed company can act (`ClosedIsQuiet` names it).
* The welcome message, with its password, is sent although the registration was rolled back; the answer of a provider that refuses a message is not looked
  at, so the row says `SENT`.
* A login or refresh whose `deleteMany` waited for another one leaves the refresh token that one has issued: two tokens are then valid together, two refreshes
  with them wait for each other, and with three requests at once the limit of sessions can be exceeded (`SessionLimit`).
* The last active root user can be locked out by closing the company he has switched into. Parents of companies can form a circle
  (`setParentCompany`, `company.entity.ts` 464, does not look for one). Opening a company activates members who had been deactivated one by one.
  `assignRoleToUser` makes part of its checks only for a token with a company (`user.service.ts` 645).
* Two requests that set a favourite at the same time leave two, against the comment in `prisma/schema.prisma` 820, and an edit of a description can bring a cleared favourite
  back. Overlapping creations make two media of one file and product.
* Deleting a medium deletes its file and with it the media of other products. When the object could not be deleted, the next DELETE finds no row and answers OK.
  A medium that is added while its product is deleted goes with it, and its file stays. Products are written whole, so that an edit brings a deleted one
  back, and the switch of visibility drops the metadata, which it does not copy.

## 5. Proofs

Each module has one inductive invariant, or a few in layers, that TLC checked on the instances of section 4 before it was proved. The assumptions
on the constants are the named ones of the modules, which TLC evaluates; no theorem bounds the number of files, users, requests, workers or attempts.

### PathLock

For every tree of paths, every set of sessions and requests, and any bound `MaxDesc`:

| Theorem | Assumption | States |
|---|---|---|
| `TypeCorrect` | | `Spec => []TypeOK` |
| `OnlyOwnerReleases` | | `Spec => NoForeignRelease`, for any mix of TTLs |
| `CountersCover` | `UniformTtl` | `Spec => []CounterCoversLocks` |
| `CountersExact` | `UniformTtl` | `Spec => []CounterExactUntilExpiry` |
| `Exclusion` | `UniformTtl` | `Spec => []HierarchicalExclusion` |
| `StrictIsAlone` | `UniformTtl` | `Spec => StrictAcquiresAlone` |
| `RefinesFolderMutex` | `UniformTtl` | `Spec => ImplementsFolderMutex` |
| `WaitsEnd` | `RankIsTotal`, `RequestsApart` | `Spec => []NoWaitCycle` |

`UniformTtl` says that all callers pass one TTL. It is needed: with TTLs 1 and 3 TLC finds a folder locked below a locked ancestor, because `EXPIRE` gives the
counter the newest lock's TTL.
The other assumptions are named in `PathLock`: the ancestor relation is finite, irreflexive and transitive, TTLs are positive.

Exclusion is not inductive. A descendant's lock does not by itself keep the ancestor from being taken, since the script looks only at
the ancestor's counter. The invariant `IndInv` adds what the script relies on: the counter of a path is at least the number of
live locks below it and lives at least as long as each of them (`CounterCoversLocks`); a key exists exactly while it has time left
(`KeysHaveTtl`); and no lock has more time left than any TTL a caller passes (`TtlBounded`), which makes the `EXPIRE` of a new lock
safe for the older ones. The proof has a lemma per script (`AcquireKeeps`, `ReleaseKeeps`, `RefreshKeeps`, `TickKeeps`); the
counting rests on the cardinality theorems of the library. The refinement maps `owner` to `lock`: every grant is a `Take`, because
a counter of 0 means that no lock lives below; releases and expiry are `Free`; everything else stutters.

`WaitsEnd` is about the comment that locking in one order avoids deadlocks (`folder-lock.service.ts` 180). That holds when no two sessions with several
folders have one folder below a folder of the other (`RequestsApart`), and when the order distinguishes all paths (`RankIsTotal`; the comparator does). In a
circle of waiting sessions, the one that waits for the last path in the order would have to be waited for by a session that wants a later one. Where
`RequestsApart` fails so does the property, with {a/b, a/x} and {a/x, a/b/c} for example.

### FileLock and FileOperations

For any files, folders, names, sessions, operations and faults, with no further assumption:

| Theorem | States |
|---|---|
| `TypeCorrect` | `Spec => []TypeOK` |
| `OperationsUseLocks` | `Spec => LockSpec`: whatever the operations do, they use the lock service as it is meant |
| `LocksImplementMutex` | `Spec => ImplementsFileMutex`, through `OperationsUseLocks` and the invariant that a key exists exactly while it has time left |
| `OwnersUnlock` | `Spec => OnlyOwnerUnlocks`: a key goes by its time or by the session that set it |
| `RowsNeverLeftCopying` | `Spec => []NeverLeftCopying` |
| `ServedFromItsRow` | `Spec => []ServedWithoutAccident` |
| `KeysServeTheirFile` | `Spec => []NoForeignBytes` |

The last three come from `RowsInv`, in four layers. `Database`: a row has one writer at a time, two files share no key, committed or not, and what is committed is
`UPLOADED`; this rests on PostgreSQL alone, whatever happens to the locks. `Calls`: where a call is in the lock service tells which keys it believes to
hold. `Sheltered`: while no lock was lost, nothing was read stale and no transaction timed out, a session between lock and unlock owns the key, its copy is the row and
nobody else writes it. `Bytes`: without an accident each file is `Fine` (its object is at the key of its row, or on the way there at the step that says so);
after one, all files but one. Served bytes are not inductive without the middle layers, since a copy that is older than the row would send the bytes to
a key the row has left.

### Upload

For any attempts, paths, requests, bytes and failures:

| Theorem | Assumption | States |
|---|---|---|
| `TypeCorrect` | | `Spec => []TypeOK` |
| `UploadedHasObject` | | `Spec => []UploadedIsStored` |
| `DeletedIsFinal` | | `Spec => DeletedStaysDeleted` |
| `ObjectsHaveRecords` | `OwnPath`, `~StatErrorMeansAbsent` | `Spec => []NoOrphanObject` |
| `SessionsRecordedOnce` | | `Spec => []RecordsStandForSessions`: no two records name one session, a record says uploaded of a completed session only |
| `LiveBytesKept` | `Expiry = "quiet"`, `~StatErrorMeansAbsent` | `Spec => []LiveBytesReserved`: the bytes of the live uploads are at most the counter and the bytes Redis failed to record |

`Inv` says of a row and of every copy a request carries that its session was opened and its object is there if it says so; `RequestOK` says for each program
position what the request has read and locked, `Apart` that two requests do not have one attempt at the same time where a lock forbids it.
`DeletedIsFinal` needs that a copy never outlives its right to insert. `ObjectsHaveRecords` has an invariant of its own, `OwnInv`: an object is there exactly while its session is
completed, and then its record is there, and each request knows only of records it may still delete. Both assumptions are needed. With two attempts for one path a second initiate overtakes the commit of the first, because the
lock ends before the transaction, and the record of a stored object is replaced; with `StatErrorMeansAbsent` an abort takes an error for absence.

`LiveBytesKept` says that nobody gives back what another still needs, although records, copies of records, lists of the worker and of the administrator,
and requests under way all name sessions. Attempts may share paths here. The argument has three parts.

1. *Every session has a place* (`Housed`): an id and a path, `H` and `L`, under which any record and any copy of it stands (`Good(H, L)`). The functions
   are not part of the state, they only have to exist: a session that is not opened yet may be given any place, and `Store`, where the
   upsert decides about the id, gives it the one it keeps. `Good` also says whom a session belongs to: what an initiate opens
   nobody else has (`Alone`), what is completed is completed under the lock of the file, and who refunds has deleted the record. It holds for all settings, and
   `SessionsRecordedOnce` follows from it.
2. *Who accounts for the bytes* (`Claimed`): the sessions that are in a record and not completed, or that a request has reserved, is about to give back
   or may still bring into a record. Every step `Settles`: it claims nothing new; or it reserves what it adds, or records that Redis did not; or it gives back a session that
   nobody else claims; or the counter runs out and nothing was claimed. Hence `ClaimInv`: the sizes of what is claimed add up to the counter and what is `unrecorded` at most.
3. *Live uploads are claimed*, each for a session of its own, so their bytes are a part of that sum.

The sums need no induction: `Sum` is the choice of a function that satisfies the recursive equation on all subsets, and its laws (`SumBegins`, `SumGrows`,
`SumStands` and others) follow because among the sets that violate a law there is a least one. Both assumptions are needed: TLC violates
`LiveBytesReserved` with `"stale"` and `"long"`, where the counter runs out under an upload, and with `StatErrorMeansAbsent`, where an abort refunds
what a completion has given back. Before the proof TLC checked `Inv`, `Housed` and `ClaimInv` on two attempts for one path
with sizes 1 and 2, two requests, the worker and all faults but those of Redis (3,055,192 states),
and with those alone (2,693,694 states).

### BulkProcessing

For any requests, jobs, commands, workers, attempts, pages and faults:

| Theorem | Assumption | States |
|---|---|---|
| `TypeCorrect` | | `Spec => []TypeOK` |
| `PagesImportedOnce` | `[]StartsInOrder` | `Spec => []ImportedOnce` |
| `FileErasedAfterImport` | `[]StartsInOrder` | `Spec => ErasedOnlyAfterImport` |
| `CompletedIsWhole` | `[]StartsInOrder`, no cancel | `Spec => []CompletedCountsAllRows`: every page of a completed request is imported or counted as failed |
| `CompletedIsFinal` | `[]StartsInOrder`, no cancel | `Spec => CompletedStands` |
| `OneStartIsInOrder` | one job | `Spec => []StartsInOrder` |

A page is imported once because a request leaves `PENDING` once: only the attempt that read it `PENDING` imports, and only the start that read it `PENDING` lets
it go. `StartsInOrder` says that the jobs of one request do not overlap and that a request whose start has read it `PENDING` gets no other job; two overlapping starts, and a start
that is rolled back after it queued its job, really import twice (section 4). That the hypothesis is met by a file that is started once is a theorem.
`Inv` relates the copy of every attempt, handler and background row to the row and to the pages (`CopyOK`); `PlainInv` adds, without cancels, that what
is written back over a `COMPLETED` row does not exist. Two mistakes of the model came out of this proof: rows imported in the background did not wait for the row's lock, and two cases of
one `CASE` overlapped.

### Accounts

For any requests at a time and in all, any addresses, commands and limit of sessions, from `AccountsAssumption` alone:

| Theorem | States |
|---|---|
| `TypeCorrect` | `Spec => []TypeOK` |
| `TokenRefreshesOnce` | `Spec => []RefreshOnce` |
| `LinkResetsOnce` | `Spec => []ResetOnce` |
| `LimitKept` | `Spec => []SessionLimit` |
| `BansStand` | `Spec => BanStands` |
| `CirclesHaveCause` | `Spec => []CirclesNeedDisorder` |

A table (`Lines`) reads the programs of the commands once. `Effect` then says of every action which of nine kinds of steps it is, so that each invariant
looks at what a step does to rows and not at the command it belongs to. The invariant `AllInv` has layers:

* `Base`: no row is deleted by two transactions, no token or link is inserted by two, one of them at most has written the user; what a statement waits for is what it
  aimed at, and at each place of a program (`Shape`) is known what was deleted and inserted before.
* `TokensInv`: nobody has inserted the token that a refresh has found, the refresh holds it from the claim on, and an exchanged token is gone for good.
* `SecretsInv`, `ResettingInv`: every change of the password has a hash of its own, so a reset that overtakes another use of its link either finds the link marked or has
  read a password that nobody writes any more; to write then is what `stale` records.
* `BansInv`: a draft that is not stale keeps the ban.
* `SessionsInv`: whoever has deleted the refresh tokens is the only one who issues a session until it ends, and what it has counted stays an upper bound.
* `OneToken`, `KeysInv`: without `missed` one refresh token is valid, and a change of the user's key is never beside rows that refer to it. With them a statement in the
  common order (`Rank`: user, links, tokens, rows that refer to the user, sessions) waits only for a transaction that stands later, so that a circle would have no last one.

The proofs corrected the model and two properties. `SessionLimit` had exempted `missed` only for a limit of one session, and `CirclesNeedDisorder` had not
exempted it; both are false with more requests than the run has, and TLC gave the counterexamples. A cascading delete had aimed at the rows it found before it
waited, and the marks of links and codes had aimed at rows by what they were before; PostgreSQL evaluates the first again and finds the second by id.

### EmailQueue

For any registrations, workers, attempts, stalls and faults:

| Theorem | States |
|---|---|
| `TypeCorrect` | `Spec => []TypeOK` |
| `DuplicatesPaid` | `Spec => []DuplicatesArePaidFor` |
| `OutcomeVisible` | `Spec => []OutcomeIsVisible` |

`PaidInv` counts credits: messages sent and runs that will still send it are at most one more than the runs that ended badly, except while a job waits with its
progress not stored. `RowInv` says for each place of a run what the row already tells and who may still overwrite it; it is what makes the exemptions
the property reads from `upset` enough.

### Hierarchy and Organization

For any users, companies, trees of companies and requests:

| Theorem | States |
|---|---|
| `TypeCorrect` | `Spec => []TypeOK` |
| `RowsAreSound` | `Spec => []RowsOK`: nothing is left of deleted users, nobody active is banned, everybody's company exists |
| `ClaimsStayCurrent` | `Spec => []ClaimsAreCurrent` |
| `ClosedStaysQuiet` | `Spec => []ClosedIsQuiet` |
| `AuthorityIsKept` | `Spec => AuthorityIsGiven` |

`Inv` adds `RequestOK`: what a request is about to write differs from the rows only where it decided so, or `cause` records the race. Lemmas on `Hierarchy`
compare the two orders of roles. `AuthorityIsGiven` speaks of the step in which a request decides; what it writes later is what it decided.

### Catalogue

For any products, files, media and requests:

| Theorem | States |
|---|---|
| `TypeCorrect` | `Spec => []TypeOK` |
| `ReferencesHold` | `Spec => []References`: a medium has its product and its file, a file its object until it is deleted |
| `DeletionsAreComplete` | `Spec => []DeletionIsComplete` |
| `ObjectsKeepFiles` | `Spec => []ObjectsHaveFiles` |
| `FavoritesAreRaced` | `Spec => []FavoritesNeedRace` |

`Inv` says that a transaction holds rows that are there, that a deletion has dealt with all media it no longer has to do, and that who is at the statements of `deleteFile` has
the lock of the file. `FavoriteInv` adds that a transaction that sets a favourite has cleared the others, or read its row as the favourite, and that what it
clears are all there are unless `saw` says it was told of a newer one.

### Only model-checked

* All liveness: `DeadLocksFreed`, `CountersDrain`, `AbandonedUploadsRemoved`, `FileReleased`, `ImportEnds`, `RegisteredIsSettled`. The prover has neither `ENABLED` nor
  fairness.
* Nothing else: every invariant of the passing runs, and every action property, is the statement of a theorem.

## 6. Not modelled, and why

`PROJECT.json` gives the reason for every component. Inside of modelled components: validation of inputs,
names and paths as strings, tiers beyond their two limits, URLs, logs and reports; download and storing of media; deletion of bulk requests;
dry runs; `handleJobStalled` (BullMQ passes an id where the listener expects a job, so it throws before it changes anything); a worker
that is stalled without having died, so that two executions of one job overlap.

## 7. Plan

In order of weight:

1. `Upload`: an abstract specification (a file is absent, uploading or stored; bytes are accounted for until then).
2. `BulkProcessing`: overlapping executions of a stalled job, deletion of requests.
3. `Catalogue`: media made by an import, and the columns of a product with the rule that its visibility stands while an import runs.
4. Optional: the health checker of the queues, the assignment of AI personas, the throttler.

Runs to come: one safety run per new module with two or three actors, one with fairness where something must end. Runs that only
document a known violation give way when room is needed.
