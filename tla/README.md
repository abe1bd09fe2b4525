# Verification of the document service

TLA+ models of the service in `src/`, TLC configurations that check them on
small instances, and TLAPS proofs of the main safety properties for every
instance. The program is a Go HTTP service: users upload JSON documents and
files, share, list, download and delete them. Metadata live in PostgreSQL, file
contents in a directory, responses in a process-local cache.

| Run from this directory | |
|---|---|
| `tlc -workers 2 -config DocumentStore_safety.cfg MCDocumentStore` | model-checks one run |
| `tlapm DocumentStoreProofs.tla` | checks the proofs of one module |

`PROJECT.json` lists every run, the code lines each definition translates, the
theorems, the findings and the hazards.

## 1. Inventory

### Components

| Component | Code (under `src/internal`) | State | Operations | Talks to |
|---|---|---|---|---|
| Upload | `document/upload.go`, `httptransport/upload_handler.go` | none of its own | validate, Put, Create, compensate | blob storage, metadata, cache |
| Delete | `document/delete.go`, `httptransport/delete_handler.go` | none of its own | transaction, invalidate, remove blob, confirm | metadata, cache, blob storage, outbox |
| Read | `document/read.go`, `httptransport/read_handler.go` | none of its own | metadata, open, stream, capture | metadata, blob storage, cache |
| List | `document/list.go`, `httptransport/list_handler.go` | none of its own | filter, limit, order | metadata, cache |
| Cleanup worker | `document/cleanup_worker.go` | claimed batch | claim, remove, complete, retry | outbox, blob storage |
| Metadata repository | `repository/postgres` | tables `documents`, `document_grants`, `blob_cleanup_tasks`, `users`, `sessions` | transactions | PostgreSQL |
| Blob storage | `blob/filesystem.go` | files by storage key | Put (temporary file, sync, link), Open, Delete | file system |
| Response cache | `httptransport/response_cache.go` | epoch, loads under way | look up, join or lead a load, store, invalidate | memory cache, list |
| Memory cache | `cache/cache.go` | LRU list, index, byte count | Get, Set, Delete, Invalidate, Close | - |
| Request lifecycle | `httptransport/handler.go`, `response.go` | response state, buffer, `streamMu` | run handler, deadline, panic, finish | net/http, every handler |
| Authentication | `auth/service.go`, `repository/postgres/sessions.go`, `users.go` | sessions, users | register, authenticate, authorise, log out | metadata repository |
| Migrations | `repository/postgres/migrate.go` | `schema_migrations`, advisory lock | up, down | PostgreSQL |
| Start and shutdown | `cmd/server/main.go` | worker, listener, pools | start, signal, stop | everything |
| Configuration, observability, domain types, `cmd/stacktest` | | | | |

### How they interact, and what is hard

- **Two stores without a common transaction.** A file is a row and a blob. An
  upload writes the blob first and the row second, and takes the blob back when
  the row cannot be written. A delete removes the row together with the insertion
  of an outbox task, and the blob afterwards; the worker repeats what the delete
  could not finish. Hard: every call may fail, COMMIT may take effect and be
  reported as failed, the process may die between any two calls, leases end while
  their holder is still at work, and several workers run.
  *Correct* means: an acknowledged upload lasts until it is deleted; nothing that
  can be read is removed; what was deleted is removed in the end.
- **A cache beside the database.** A write commits, advances an epoch that is
  part of every list key, invalidates by tag and only then answers. A list
  request computes its key, looks it up, and joins or leads a load. Hard: the load
  of an old version is stored after the invalidation; a late request joins an old
  load; users and methods share loads. *Correct* means: an acknowledged write is
  in every list asked for afterwards, and a list goes only to whom it belongs.
- **A bounded LRU** shared by all requests. *Correct* means: the byte count is
  exact, the bounds hold, the least recently used go first.
- **A response with three actors**: the handler's goroutine, the goroutine of
  net/http and the deadline, with a lock-free state word, a buffer and a mutex.
  Hard: a handler that is still running after its request was answered, a
  deadline exactly at the end, a panic, a stream that has begun. *Correct* means:
  one response per request, never a mixture, and every request ends.
- **A download that outlives its reasons.** It copies a blob to the client and to a
  capture, while the deadline closes the blob under a blocked read and a delete
  removes document, entry and blob. Hard: what may enter the cache, and when.
  *Correct* means: only whole bodies are cached, a deleted document stays deleted,
  nothing is left open, and every download ends.
- **Sessions**: random tokens that may collide, requests whose clock is read before
  their statement runs, statements that take effect and report an error, and
  timestamps coarser than the clock. *Correct* means: a token is good for its owner
  from its hand-out to its expiry or logout, and for nobody else.
- **Migrations**: several runs on sessions that outlive their clients, under one
  advisory lock. *Correct* means: the ledger tells the schema, nothing is applied
  twice, success is true, and the lock comes back.
- **Leases**: workers of several instances share the outbox by leases that are
  measured on clocks of their own. Hard: a slow claim, a clock that is behind, a
  removal that overruns its deadline, durations at the end of their range. *Correct*
  means: a lease lasts as long as its batch unless something of that kind happened,
  and a retry backs off by its doubling delay.
- **Start and shutdown**: a signal stops the worker, closes the listener, waits for
  requests as long as the grace period lasts, then for the worker and the pool.
  Handlers that outlived their deadline are waited for by nobody. *Correct* means: an
  exit in time owes no answer, the pool is closed last, every shutdown ends, and
  whatever cuts off a `Put`, power included, no part of a blob has its name.
- **Lists**: a filter is read three times (handler, service, SQL), in spellings that
  the cache key must not tell apart. *Correct* means: a list shows what a read would
  give, in order, and the cache gives everybody what the database would.

The hazards, each at its line, are in `PROJECT.json`.

## 2. Modules

| Module | What it is | Code |
|---|---|---|
| `DocumentLifecycle` | abstract: what the service promises about one document (none, stored, live, doomed, gone) | - |
| `DocumentStore` | detailed: row, outbox, blobs, upload, delete and read requests, workers, crashes | `document/*.go`, `repository/postgres/{documents,blob_cleanup,postgres}.go`, `blob/filesystem.go` |
| `DocumentStoreProofs` | theorems about it | |
| `ResponseCache` | list requests through epoch, key, tag and singleflight | `httptransport/{response_cache,list_handler}.go` |
| `DocumentList` | filter, visibility, order, limit and cache key of a list | `document/list.go`, `httptransport/list_handler.go`, `repository/postgres/documents.go` |
| `CleanupLease` | cleanup workers with clocks, deadlines, leases and backoffs | `document/cleanup_worker.go`, `repository/postgres/blob_cleanup.go` |
| `CleanupLeaseProofs` | theorems about it | |
| `FileStorage` | the directory: the steps of Put, Delete, power failure | `blob/filesystem.go` |
| `Server` | extends it by one instance: run, worker, uploads, signal, kill | `cmd/server/main.go`, `document/upload.go`, `repository/postgres/postgres.go` |
| `ServerProofs` | theorems about both | |
| `ResponseLifecycle` | one request: handler, server goroutine, deadline | `httptransport/handler.go` |
| `ResponseLifecycleProofs` | theorems about it | |
| `MemoryCache` | the bounded LRU with tags and expiry | `cache/cache.go` |
| `CacheProofs` | theorems about `ResponseCache` and `MemoryCache` | |
| `FileDownload` | GET and HEAD of one file, its cache entries, a delete | `httptransport/read_handler.go` |
| `FileDownloadProofs` | theorems about it | |
| `Sessions` | registration, authentication, authorisation, logout | `auth/service.go`, `repository/postgres/{sessions,users}.go` |
| `Migrations` | runs of MigrateUp and MigrateDown | `repository/postgres/migrate.go`, `cmd/migrate/main.go` |
| `RepositoryProofs` | theorems about `Sessions`, `Migrations` and `DocumentList` | |
| `Inductions` | induction and recursion, for the proofs | - |
| `MC*` | what TLC runs, with symmetry sets where needed | |

Where one module of proofs extends several models, names that would clash carry the
model's name: `CacheInit`, `MigrationsNext`, `ListSpec`.

### DocumentStore

`row[d]` is the row of a document (absent, present, deleted), `tasks` the keys in
the outbox and `due` those whose `next_attempt_at` has come, `blobs` the files of
the directory. `upload`, `deleteStep`, `readStep` and `workStep` are program
counters of requests and workers; a step of the model is one call on one of the
two stores, because only there other actors can come between.

- *Upload*: `PutBlob`, then `CreateDocument` or `CreateFails`, then `TakeBack` on
  failure (also for a file one byte too long), then `AnswerUpload`. Put publishes
  by one hard link, so it is one step. `CreateFails` with `AmbiguousCommit`
  commits the row and still returns an error.
- *Delete*: `DeleteDocument` is the transaction (row and task together),
  `DeleteBlob`, `ConfirmDelete`. The post-commit work runs under a context of its
  own, so only a crash interrupts it.
- *Read*: `ReadMetadata`, `GetDocument`, `OpenBlob`: the handler authorises
  through the metadata once, the service looks at them again and opens the blob.
- *Worker*: `Claim` leases a batch (its answer may be lost), `RemoveBlob`,
  `CompleteTask` or `RetryTask`; `TaskBecomesDue` is the end of a lease or of a
  backoff, at any time: this includes leases shorter than the work.
- `Crash` stops all requests and workers between any two steps.

A document, its id and its storage key are one: each upload draws random ones.

### ResponseCache

`version` counts committed writes and stands for the content of the database; a
list is known by its requester and the version it was read from. A write is
`Commit`, `AdvanceEpoch`, `Invalidate`, `Acknowledge`. A request is `Start` (the
key takes the epoch), `LookUp`, `Join`, `Receive` or `Abandon` (its context ends
first). A load is `CheckAgain`, `Load`, `Store`, `Deliver`, run once for all who
follow, with the method and the requester of its leader. `Vanish` stands for
expiry and eviction. `writeVersion`, `writeEpoch` and `seen` are history.

### DocumentList

`documents` is the table, chosen at the start and left alone: that lists are fresh is
`ResponseCache`'s subject, what is in them this module's. A request is answered by
`Refuse` (the handler's and the service's checks, `ValidQuery`), `Miss` (the query,
and the entry it leaves) or `Hit`. `Selected` is the WHERE clause, `Before` the
ORDER BY, `Listed` the LIMIT; `Matches` is `buildDocumentFilter`. Texts are members of
a set; what they stand for as an id or a time is given by the functions `IdOf` and
`TimeOf`. The table has whole seconds, as its column does (`created_at timestamptz(0)`,
`000001_initial.up.sql:33`); a text may name a finer time, in ticks, which is cut off.
The key of the cache (`ListCacheKey`) holds the normalised value; the epoch stands
still here.

### CleanupLease

The outbox seen by the clock: `wait[k]` is what is left until `next_attempt_at`,
`timer[w]` what is left of an operation or a pause, `age[w]` how long ago, by the
database's clock, the worker read its own. `Tick` lets time pass for all of them;
nothing else does. A batch is `BeginBatch` (the clock is read), `Claim`, then for each
task `StartTask`, `RemoveEnds`, and `CompleteTask` or `RetryTask`; each may fail, and a
statement that reports an error may have taken effect. `Stop`, `Restart` and `Crash` are
the end and the return of an instance. Durations are signed integers that wrap around at
`MaxDuration` (`Wrap`), so that the saturation of the lease and of the backoff is what
is checked. A claim takes any of `BatchSizes`: a superset of what instances with
configurations of their own do. `disturbed` is history: for each worker, the tasks of
its last batch whose lease was shortened (slow claim, clock behind, overrun, stall) or
overwritten by a late worker; its next claim starts over.

### FileStorage and Server

`putStep`, `temporary`, `content` and `entry` are one call of `Put`: the temporary
file, what of its content is on disk, and the name the hard link gives it, which is
durable only after the operating system has written the directory
(`FlushDirectory`). `LosePower` leaves of each what was durable. `Server` adds `run`
(`main`, from `Signal` over `ShutdownReturns` or `GraceEnds`, `StopWorker`, `ClosePool`
to `Exit`), the worker as far as `run` waits for it, and the handlers of uploads with
their contexts and connections. A handler runs on after its deadline was answered
for. `Kill` and `PowerFails` are possible at any step. The instance does not start
again: recovery is in `DocumentStore`.

### ResponseLifecycle

`state`, `status`, `wroteHeader`, `body` and `streamMu` are the fields of
`observedResponse`. The handler is *any* sequence of at most `MaxWrites` writes
with `WriteHeader` and the start of streaming in between; each call is as many
steps as it has accesses other goroutines can interfere with. `wire` is what
reached the client. `asked` is history: the response the handler asked for.
Headers other than the status are left out. `WriteHeader` never finds a streaming
response without a header, because `startStreaming` sets it, so that branch has
no action.

### MemoryCache

`lru` is the list from most to least recently used, `bytes` the running count.
`Set` is two steps: `Measure` before the mutex and `Insert` under it; every other
operation is one critical section. Sizes are small numbers for the metadata and
for the body. The sum over the list (`TotalSize`) and the sublist a condition selects
(`Select`) are recursive functions, which can be reasoned about. `recency` is history,
kept without looking at `lru`.

### FileDownload

One file, any number of GET and HEAD requests, one delete. The metadata tell `Chunks`
chunks; the blob has `length`, one of `Lengths`, which may be less or more. A
request is `Start`, `GetMetadata` (access is checked before the cache is asked),
`ComputeKey`, `LookUp`; then a HEAD keeps a metadata-only entry (`KeepMetadata`), and
a GET opens the blob, copies it chunk by chunk to the client and to the capture,
waits for its closer and stores what it captured if that is everything. The capture
(`boundedCapture`) has room for what the metadata tell and remembers in `overflow` that
more came; `KeepIf` has the three checks of `read_handler.go:153` as its condition. An
entry of the cache holds the headers, with or without the body. The closer
is the goroutine of `closeReaderOnCancellation`; `EndRead` is the return of a read,
from an open blob or from one that was closed under it. `CleanUp` is the worker,
which may be faster than the delete request. `tooLate` is history.

### Sessions

`users` and `sessions` are the tables; a token stands for its digest and an account
for the registration that made it. The clock is `time`; the database keeps times
in units of `Precision` and `created_at` in seconds (`Timestamp`, `CreatedAt`). Every
request reads the clock in one step and executes its statement in a later one, and
a statement may take effect and report an error. An authentication draws a token
up to `MaxTokenAttempts` times. `known` and `over` are history: what had been
answered about the token when an authorisation began.

### Migrations

A run is a session of the database and its client: `step` is the statement the
session has to execute, `client` whether anyone still waits for it. `Deadline` and
`Crash` take the client away at any statement; the session may still carry that
statement out, a COMMIT included, and then `EndSession` rolls back and frees the
lock. `pending` is what a transaction has changed and not committed, `promised`
is history. Versions are 1, 2, and so on, and a run knows those up to its `release`:
releases only add versions. Scripts are not idempotent (`CREATE TABLE`), so one that
meets its own changes could only fail.

## 3. Runs

| Run | Question | Bounds |
|---|---|---|
| `store_safety` | Are acknowledged uploads durable, deletes final, cleanups harmless, and is the outbox complete, when anything fails? | a file and a JSON document, 2 deletes, 1 read, 2 workers with batches of 2, 2 crashes, lying COMMITs |
| `store_live` | If COMMITs are reported truthfully, do the stores implement `DocumentLifecycle`, reclamation of all deleted files included? | 2 files that compete for batches of one, 2 deletes, 1 worker, 1 crash |
| `cleanup` | Are two workers at one task only when a lease of theirs was cut short or overwritten, and does a retry back off as promised? | 2 workers, 2 tasks, batches of 2 or 4, operations of 1, delays of 1 to 3 in durations up to 3, clocks 1 behind, 1 stop or crash |
| `server` | Are blobs whole and there, is nobody owed an answer, is the pool closed last, and does a shutdown end? | 2 uploads, the worker, 1 signal, a kill or a power failure at any step |
| `cache` | Is an acknowledged write in every later list, is every list private, is a GET answered without its list only when a HEAD led its load, and does every request end? | 1 write and 2 requests of 2 users, one with a list too large to cache; or 3 requests of that one and no write |
| `cache_head` | (violation) Is a GET never answered without its list? | 3 requests of one user, whose list is too large |
| `response` | Is there one response per request, whole when completed, and an end to every request? | handlers of up to 3 writes |
| `response_panic` | (violation) Is a panic always reported as 500, or as a timeout? | handlers of up to 2 writes |
| `download` | Are cached bodies whole, deleted documents gone, blobs closed, and downloads finished? | metadata of 2 chunks, a blob of 1, 2 or 3, GET or HEAD, 1 delete; 2 requests, at a time when the blob has 2 chunks, otherwise one after the other |
| `sessions` | Is a token good for its owner only, and not after its logout or expiry, nor refused before, and does one logout of it succeed at most? | 2 logins, 2 registrations, 2 authentications with 2 tokens, 1 authorisation, 2 logouts, a clock from 0 to 2 and timestamps of 2 |
| `repository` | Does the ledger tell the schema, is nothing applied twice, is success true, and does the lock come back? | 3 runs at a time, up and down, 2 releases |
| | Is a list from the cache the database's, and does a list show what a read would, in order? | 2 users and an unknown login, up to 2 documents, 2 names, 2 seconds, 7 texts, limit 1 |
| `memory` | Is the byte count exact, do the bounds hold, is eviction by recency? | 3 keys, 2 tags, 2 concurrent Sets, 2 items, 5 bytes |

*Why the bounds are enough.* Documents share nothing but the batch of a worker and its
turn, so two of them show every interaction; two deletes and two workers give each
document two competitors for its blob and task; the second crash meets the recovery from
the first. In `cleanup` two tasks make a batch whose second task waits for the first,
two workers are a holder and a competitor, and durations up to 3 make the doubling of a
delay meet its maximum and the width at once. With a batch size of 4 the product of the
lease is 4 where durations end at 3, so that the lease saturates, while the two tasks a
claim can find take less than that. Two uploads give a shutdown one that is answered and
one that hangs. Two documents show every order of two and every limit between them, and
the texts are chosen so that a name looks like an id or a truth value. One write of the
list cache can come between any two steps of a load; two requests give a leader and a
follower. A GET without its list needs a third (one load stores an entry, a HEAD that
missed it leads another, a GET joins that), of the same user and without a write, which
would change the key: the third request of `cache` comes under these conditions only
(`Bound` of `MCResponseCache`), and the requests of `cache_head` are just these. Three
writes of a handler give one before, one at and one after any point. Two items and five
bytes let one insertion evict one or two entries by either bound. Two chunks give a body
that is partly copied, a blob of one or three is shorter or longer than its metadata
tell (one request after the other shows what of it is kept and served), and two requests
give an entry of one for the other. Two tokens give a collision and a second draw; a
clock of three values around a timestamp of two gives a session that ends between two
times the database cannot tell apart. Three runs of a migration are one that is cut off,
its successor and a competitor, and two versions, as many as the repository has, show an
order and a gap. The safety properties of the passing runs do not depend on these bounds
at all: they are proved for every value of the constants (that of the leases under an
assumption that the run satisfies, see Proofs). Most type invariants are proved only;
those of `ResponseLifecycle` and `MemoryCache` are in a run too, because a mistake in
the code can break them.

`CHECK_DEADLOCK FALSE` is set where the system may come to rest: all requests of
the instance done and no task left, or the response sent. `repository` has no such
state and keeps the deadlock check. It runs two models side by side that have no state in
common: each moves while the other rests in its initial state, which loses nothing, since
no property reads both.

*Mutants.* Each property is violated by at least one mutated definition (`PROJECT.json`,
"mutants"): compensation of a cancelled but committed upload, a retry that drops its
task, an outbox entry outside the transaction, an ignored removal error, a cache that is
invalidated without a new epoch, a key without its requester, a missing unlock, a
missing second look at the state, bytes of a replaced entry left counted, a GET answered
from whatever the cache has, a body kept without a look at its length, at the overflow
of its capture or at the error of its copy, an upsert instead of an insert, a ledger
written outside the transaction, a lease of one operation, a product that wraps around,
a delay doubled without a look at what that gives, a link before the sync, a pool closed
before the worker is done, and others.

### Fairness

- `DocumentStore` (`CleanupFairness`): a worker polls for ever
  (`cleanup_worker.go:59`) and time passes, so a lease or a backoff ends. The claim
  orders tasks by `next_attempt_at` and `id` (`blob_cleanup.go:24-27`), so a due
  task is not overlooked for ever: strong fairness of the claim of each task. The
  two stores are not broken for ever: an operation attempted without end succeeds
  in the end. Upload, delete and read requests have no fairness at all.
- `ResponseCache`: goroutines are scheduled, and a load ends because the deadline
  of its leader's context bounds it. No client has to come or to leave.
- `ResponseLifecycle`: the deadline passes (`HTTP_PROCESSING_TIMEOUT` is always
  set by the configuration), `serveHTTP` is scheduled, and a write to the
  connection under `streamMu` ends, because the server has a `WriteTimeout`
  (`main.go:127`). The handler itself has no fairness: it may hang.
- `FileDownload`: goroutines are scheduled, their calls to the database and the
  connection end with the context or the `WriteTimeout`, and the deadline passes. A
  read of an open blob may block for ever; one of a closed blob returns.
- `Server`: `run` goes on and the grace period ends; a removal of the worker returns,
  and a transaction ends with its context. No signal and no connection has to come,
  and a handler may hang for ever.
- `CleanupLease`, `MemoryCache`, `Sessions` and `DocumentList` have none: they have safety
  properties only, and that a task is carried out in the end is part of `store_live`.
- `Migrations`: the context of a run ends (`cmd/migrate/main.go:27`), PostgreSQL
  executes the unlock it was sent, and it ends the session of a client that is gone.
  No statement has to succeed, and a waiting run need not get the lock.

## 4. Proofs

TLAPS proves, for every value of the constants:

- `DocumentStoreProofs`: type correctness, `AcknowledgedUploadIsDurable`,
  `DeletedBlobHasTask`, `CleanupOnlyTouchesDeleted`, `AcknowledgedDeleteIsFinal`,
  `BrokenReadIsExplained`, `RemovalFollowsDeletion`, and `VisibleFileHasBlob`
  under the assumption that COMMITs are reported truthfully; and that every
  behaviour is one of `DocumentLifecycle` as far as safety goes
  (`StoreRefinesLifecycle`).
- `CacheProofs`, of `ResponseCache`: type correctness, `AcknowledgedWritesAreSeen`,
  `EntriesMatchTheirEpoch`, `AnswersStayPrivate`, `BodylessGetIsExplained`; of
  `MemoryCache`: `CacheTypeOK` (the bounds), `BytesAreExact`, `BodyIsKeptAsPromised`, and
  the action property `EvictsLeastRecentlyUsed`.
- `ResponseLifecycleProofs`: type correctness, `WireIsOneResponse`, `ReportIsTrue`, and the
  action property `NoWriteAfterEnd`.
- `CleanupLeaseProofs`: type correctness; the action property `RetriesBackOff`; and, under
  the assumption `BatchFits` (the time of any batch one claim can find is a duration; the
  product of the timeout and the size of a batch need not be, so that a lease may
  saturate), `SharedTaskIsExplained` and that an undisturbed lease lasts for what its worker
  still has to do (`LeaseInv`).
- `ServerProofs`: type correctness, `PublishedBlobIsWhole`, `CommittedBlobIsThere`,
  `DrainedExitOwesNothing`, `PoolOutlivesItsUsers`.
- `FileDownloadProofs`: type correctness, `BodiesAreWhole`, `NothingIsLeftOpen`,
  `DeletedStaysDeleted`.
- `RepositoryProofs`, of `Sessions`: type correctness, `NothingIsTakenOver` (accounts and
  tokens), `LoggedOutStaysOut`, `OneLogoutSucceeds`, `TokenLastsItsTime` (no longer than its
  expiry, no shorter than its lifetime but for the rounding); of `Migrations`: type
  correctness, `LedgerTellsTheSchema`, `NoScriptMeetsItsOwnChanges`, `SuccessMeansMigrated`;
  of `DocumentList`: type correctness, `AnswerIsOwnList`, `ListAgreesWithRead`.
- `Inductions` states no property: induction over numbers and sequences, and that a
  recursion over them has one solution.

The assumptions are those named in the modules (`ConstantsAssumption`,
`CacheAssumption`, `SizesAssumption`, `WritesAssumption`, `ListAssumption`,
`LeaseAssumption`, `DownloadAssumption`, `SessionsAssumption`, `MigrationsAssumption`):
files are documents, a batch has at least one task, durations, precisions, the bounds of
the cache and numbers of versions are positive, and the null values are not members of
the sets they stand outside of. A handler writes fewer than 500 chunks: chunks are known
by their numbers, which are to differ from the codes that stand for the bodies of the
errors.

*DocumentStore.* The properties are not inductive. `DeletedBlobHasTask` needs to
know that whoever completes a task has removed its blob (`WorkerInv`,
`DeleterInv`), and that nobody publishes the blob of a deleted document again
(`UploadInv`: an upload that may still Put has no row). `AcknowledgedUploadIsDurable`
needs that a visible file has its blob unless *its own* upload took it back after a
COMMIT it believed failed (`FileInv`), and that such an upload is never
acknowledged. `BrokenReadIsExplained` needs that a read past its first look names
a document that has had a row (`ReaderInv`). `Inv` is the conjunction; one step per
action shows that each keeps it. The refinement shows for each action that it
moves the phase of one document along the diagram or leaves it, and that a crash
moves none.

*ResponseCache.* Call a version *fresh* for an epoch if it contains every write
that advanced the epoch up to there. A write advances the epoch after its commit,
so the current version is fresh for the current epoch, and a list loaded under a
key computed earlier is fresh for that key's epoch. Freshness of an old epoch is
never lost, since a new write gets a new epoch. So entries, results and answers
are fresh for the epoch of their key (`EntryInv`, `FlightInv`, `AnswerInv`), and a
request that starts after an acknowledgement has a key whose epoch covers that
write (`AskInv`). No step of the argument needs the invalidation: the epoch alone
gives freshness, and the tag only frees memory.

A follower has its leader's result; a result without its list comes from a load that
accepted such an entry, which only a HEAD's does (`MethodInv`).

*MemoryCache.* The byte count changes with every item that comes or goes, so the proof is
one of sums: `TotalSize` of a concatenation is the sum of its parts, and a list is split
by what `Select` keeps and what it leaves out (`SelectSplitsSize`). A list is in the order
of the last uses of its keys, and a key has one last use (`OrderInv`); so its keys are
distinct, and a prefix of the list holds what was used later than the rest, which is what
eviction leaves. What is about to be inserted fits by itself (`SettingInv`), so eviction
never has to go as far as the new item.

*ResponseLifecycle.* The state word and the progress of the two goroutines determine who
may write to the response (`OwnerInv`). As long as the handler owns it, wire and buffer
hold a beginning of what it asked for, in order (`NumberedInv`), and all of it until
something was refused for the deadline (`LengthInv`, `StatusInv`). A streaming response has
sent its status and buffers nothing; one that timed out has sent the 503 and nothing else
(`WireInv`). The answer to a panic starts from an empty buffer (`ErrorInv`). `EndInv` is
what follows for a response that was completed.

*DocumentList.* Two queries with one key select the same documents (`KeyTellsList`): the
key has the requester, and a value enters the selection only through what the key has of
it. An entry is the list of some query with its key (`EntryInv`). `Before` is a strict
total order (`BeforeIsTotalOrder`), and the number of documents ahead of one grows along
it (`LaterHasMoreAhead`). So the documents with fewer than *limit* ahead of them are at
most *limit*, and just as many when any is left out (`ListIsWithinLimit`,
`LimitIsUsedUp`).

*CleanupLease.* What a worker still needs is the rest of its operation and one
operation for each further task it holds (`Remaining`). An undisturbed lease is at
least that long (`LeaseInv`): it starts as the time of a whole batch, and every step
that takes time from the lease takes as much from the operation. A claim finds only
leases that have ended, whose undisturbed holders therefore need nothing more: they
are at their last task and out of time (`OutOfTime`), and so they stay until they let
it go. The delay of a retry is the recursion of the code's loop; by induction it is the
first delay times a power of two, or the greatest delay (`DelayDoubles`), because the
doubling stops before it could wrap around. A retry that moves its task finds it in the
hands of a worker that claimed it at least once (`TypeInv`), and moves it by that delay.

*Inductions.* A theorem about all predicates cannot be applied to a particular one by the
provers used here, but one about all sets can: induction says that a set of numbers with 0
and with the successors of its members has them all. Its use names the set of the numbers
of which the claim holds. In the same way a recursive function is known to satisfy its
equation once a function with that equation is shown to exist (`RecursionExists`); its
step is given as a function of the number and of the value before.

*Server.* A name in the directory has a synced content (`StorageInv`); a handler that
has reached the transaction has published its blob, and nothing takes it away after
the row (`HandlerInv`). `ConnectionInv` says what a client has got, and that `run`
leaves by `drained` only when no connection is open.

*FileDownload.* What a copy has read it has sent, and captured as long as there was room,
which ends with `overflow`; a copy that ended without an error has sent the whole blob
(`CopyInv`). So a capture that did not overflow and is as long as the metadata say is the
blob, and only then are the two lengths the same. The blob is open, or closed
once, and by the time of the return both goroutines are through with it
(`ClosingInv`). A request that begins after the delete never gets past the metadata
(`LateInv`).

*Sessions.* No statement removes a session, changes its account or its expiry, or
takes a revocation back (`SessionsAreKept`). So a token handed out still has the
session asked for (`GrantInv`), a revoked one has a logout with its token
(`RevokeInv`, `LogoutInv`), and what an authorisation found when its statement ran
still holds (`CheckInv`). The lifetime follows from that and from lemmas about
`Timestamp`: cutting off is monotone and loses less than one unit.

*Migrations.* Whoever is behind the lock statement holds the lock, also when its
client is gone (`LockInv`). So between a run's look at the ledger and its COMMIT
nobody else commits: the version it applies is the first that is missing, or the
newest that is there (`TargetInv`), and its transaction holds both the script and
the ledger row (`PendingInv`).

*Only model-checked*: the liveness properties (`EveryRequestEnds`, `RequestEnds`,
`DownloadEnds`, `LockIsReleased`, `ShutdownEnds`) and the fairness part of
`ImplementsLifecycle`, which need reasoning about `ENABLED` that the prover does not
have.

## 5. Where the code and its documents disagree

`response_panic` is a run that TLC must find violated: a deadline between the last look
at the clock and the answer to a panic gives an empty 200, against
`handler_test.go:151-163`. `cache_head` is another: of three requests for a list too large
to cache, a GET stores the entry without its list, a HEAD that had missed it leads the next
load and finds it there, and a GET that joined receives 200 without a body, against
`cache.go:16-17`: "It may satisfy HEAD, never GET." That it happens no other way is
`BodylessGetIsExplained`.

In two more places the models have what a document excludes. The properties say
exactly when it happens, and so that it happens no other way:

1. An upload whose COMMIT takes effect and is reported as failed removes the blob of a
   visible document (`upload.go:153-158`, `postgres.go:170-172`), against
   `delete.go:12-15`: "never accessible metadata that points at a missing blob". The
   document answers 500 until it is deleted (`BrokenReadIsExplained`;
   `VisibleFilesHaveBlobs` is proved for COMMITs that are reported truthfully).
2. A read overtaken by a delete between metadata and blob answers 500, against
   `TestConcurrentGETDeleteHasOnlyLinearizableOutcomes` (`delete_concurrency_test.go:20`;
   `BrokenReadIsExplained`).

And one is a limit of a promise: "The lease covers the worst-case duration of the
complete claimed batch" (`cleanup_worker.go:86-87`) holds on the worker's clock. The
lease starts before the claim, so the time of the claim and a clock that is behind
shorten it, and a removal of a file has no deadline (`SharedTaskIsExplained`). What
follows is a repeated removal, which is harmless (`AcknowledgedDeleteIsFinal`).

## 6. Not modelled

- Validation, parsing and formatting of requests and responses (the list filter
  excepted), and routing: sequential code without shared state.
- A read or delete that is refused for want of a grant is one failing step; who may
  read is in `DocumentList`.
- How the grantees of a new document are found, and the classification of errors of
  PostgreSQL.
- A statement that takes effect only after its client has seen the error and gone on
  (`CleanupLease`, `DocumentStore`: it takes effect before the error or never).
- A worker's clock that is ahead of the database's: it only lengthens leases.
- A batch that one claim can find and whose own time is more than the greatest duration: no
  lease can cover it, and no configuration comes near (292 years).
- Errors of the final write of a response to its connection: `finish` hands the status and
  the buffered body over at once.
- Collisions of the random keys of `Put`, which fail with an error.
- The instance that starts after a power failure; blobs and temporary files left over
  stay, and nothing in the code looks for them.
- JSON documents in the read handler: they are loaded once for all who ask, like
  lists (`ResponseCache`), under a key with the document's version.
- Several instances of the service with a cache each: the code promises nothing
  across them beyond the TTL.
- Clocks of several processes: `Sessions` has one that only advances.
- The rules for logins and passwords, the administrator's token and the hashing.
- The construction of the components at start, configuration (sequential parsing of
  environment variables), observability (nothing depends on it), and the stack test, a
  client of the running service.

## 7. Plan

Done: every component with concurrency, failures or clocks, and the proofs of all safety
properties of the runs. Next, in this order:

1. An abstract specification of sessions (usable exactly from hand-out to expiry or
   logout) that `Sessions` implements, with the proof that it does.
2. The refinement of `DocumentStore`'s atomic `PutBlob` by the steps of `FileStorage`.
3. The lookup of grantees in `CreateDocument`, with registrations beside it.
