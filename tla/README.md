# Verification of pip_shortener

A URL shortener in Go (`src/cmd/shortener`): HTTP and gRPC servers that create
short links, redirect, list and delete them, over one of three repositories
(memory, files, PostgreSQL). This directory holds TLA+ models of its core, TLC
runs on small instances, and TLAPS proofs for all instances.

    tlc -workers 2 -config requests_memory.cfg MCShortenRequests    # one run
    tlapm ShortenRequestsProofs.tla                                 # one proof module

`PROJECT.json` lists the runs, the code lines each definition stands for, the
hazards, and for each property a mutant of the code that breaks it. The mutants
are operators with the comment `Mutant:` beside the definition they change;
nothing else uses them.

## 1. The system

| Component | Code | State | Operations | Hard behaviour |
|---|---|---|---|---|
| in-memory repository | `internal/repository/memory.go` | four maps under one RWMutex | `PutIfAbsent`, `PutBatchIfAbsent`, `GetByOriginal`, `Get*`, `AddUserURLs`, `ListUserURLs`, `MarkDeleted`, `Delete`, `Stats` | two indexes that must tell one story |
| shortening service | `internal/service/shortener.go` (`Shorten*`, `generateBatchID`, `addUserURLs`) | none of its own: a request's locals | single and batch shortening | check-then-act over several repository calls, id collisions, failing calls, batch items lost to others |
| asynchronous deletion | `shortener.go` (`EnqueueDelete`, `StartDeleteWorker`) | channel `deleteCh`, the worker's `pending` and `count` | enqueue, collect, flush on count and on ticks, drain on cancellation | full channel, failing flush, cancellation racing tasks |
| file repository | `internal/repository/file.go` | the memory repository and three JSON files | the same, each followed by a save | saves without a lock on one `path.tmp`, rollbacks, kill and restart |
| PostgreSQL repository | `internal/repository/postgres.go`, `migrations/` | two tables | the same, one statement each | errors reported as "not found", errors after the effect |
| audit | `internal/audit` | bounded queue, observers | notify, file append, HTTP with retries, close | full queue, dropped events, requests that arrive late or twice, `Close` racing handlers |
| lifecycle | `cmd/shortener/main.go` | what is open, what is deferred, both servers, one 5 s budget | start, serve, signal, shutdown, kill, start again | a step of the start that fails, late handlers, a budget used up by the first server, the order of closing |
| authentication | `handler/middleware/auth.go`, `internal/auth`, `grpcserver/auth.go` | the clients' signed cookies | issue, verify | first calls in parallel, lost answers, an empty, malformed or outdated cookie |
| configuration | `internal/config` | none: `Parse` is a function of environment, flags and file | `Parse` | what counts as given in each source |
| handlers | `internal/handler`, `internal/grpcserver` | none | parse, call the service, answer | which calls, in which order |
| gzip and logging middleware, object pool, linter | `middleware/{gzip,logger}.go`, `internal/pool`, `cmd/linter`, `cmd/reset` | none shared | pure functions and tools | not modelled, see section 5 |

How they interact. A handler runs in its own goroutine and calls the service;
the service calls the repository once or several times and holds nothing
between two calls. `DELETE /api/user/urls` only puts a task into `deleteCh`; the
single worker goroutine takes it from there and calls `MarkDeleted`. Handlers
and worker share nothing but the channel and the repository. `run()` opens the
audit, the store and the listener and starts the worker, each with a deferred
closing; on a signal or the failure of a server it shuts both servers down, then
closes in reverse order, the worker being cancelled and waited for before the
database is closed. Over HTTP every call passes the authentication middleware,
which may give the client a new id; over gRPC the methods read the same token.

What makes each part correct:

- repository: the map by id and the map by URL are inverse to each other;
- shortening: an answer is stored, under the right URL, and listed for the user
  who asked; a URL is created once; links never move; users are linked to
  existing links only; every request ends;
- deletion: what was answered 202 is not lost while the service runs and is
  carried out; only owners delete; the worker stops when told to;
- files: what was acknowledged is in the file, and the next start can read it;
- audit: the file lists what was queued, once and in order; the endpoint gets every
  event once and in its turn, save for those of which a post failed, and none more
  often than it is tried; `Close` returns with the queue empty and the file closed
  after its last line;
- lifecycle: whatever fails, what was opened is closed, the store after its users;
  a shutdown ends, and exit status 0 means that no call was cut off and no accepted
  deletion left in the channel;
- authentication: nobody acts for an id that was given to another client;
- configuration: each setting comes from the first source, in the documented
  order, that gives it.

## 2. The modules

| Module | Models | |
|---|---|---|
| `MemoryRepository` | the store: variables `data`, `original`, `user`, `known`, `deleted`, and the repository's methods as actions and state functions | extended by all below |
| `UrlText` | `normalizeURL`, `validateURL` on the parts of a URL they tell apart | used by `MCShortenRequests` |
| `ShortenRequests` | single and batch requests, one step per repository call | extends `MemoryRepository` |
| `DeleteWorker` | `EnqueueDelete`, the channel, the worker | extends `MemoryRepository` |
| `Shortener` | requests and delete worker over one store, with the shutdown | extends the two |
| `ShortLinks` | the abstract service: a URL gets a link once, users own links, owners remove them | implemented by `Shortener` |
| `FileRepository` | operations, saves system call by system call, rollbacks, kill and restart | extends `MemoryRepository` |
| `DurableStore` | the abstract store: a file changes in one step, and a start finds what was saved | implemented by `FileRepository` |
| `Audit` | the notifier: handlers, bounded queue, delivery goroutine with both observers, `Close` | stands alone |
| `Config` | `Parse`, and the documented order of the sources as its reference | extended by `Lifecycle` |
| `Lifecycle` | `run()`: start, servers and the calls in progress, shutdown, exit, kill, next start | extends `Config` |
| `Sessions` | cookies and tokens: the HTTP middleware, the gRPC metadata, the secret | |
| `Process` | the process with its clients: every call is authenticated, a restart may change the secret | extends `Lifecycle` and `Sessions` |
| `ShortenRequestsProofs`, `DeleteWorkerProofs`, `ShortenerProofs`, `FileRepositoryProofs`, `FileFaultsProofs`, `AuditProofs`, `LifecycleProofs`, `ProcessProofs` | theorems | extend the modules they are about |
| `MC...` | small instances for TLC | |

**MemoryRepository.** Each method holds the mutex from start to end, so each is
one step. Absent keys of `data` and `original` are `NoUrl` and `NoId`; `known`
is the key set of the Go map `user`, which `Stats` counts and which keeps users
whose set has become empty. `PutBatchIfAbsent` takes the items in any order: the
URLs of a batch differ, and its ids too (`BatchIdsDistinct`, checked and proved).

**ShortenRequests.** `pc[r]` is the repository call a request makes next. For a single
request `lookup`, `put` (up to `Tries` draws), `recheck` and `link` are
`ShortenWithExistingContext`, `shortenWithUniqueID` and `addUserURLs`. For a batch
`item`, `lookupItem`, `generate`, `putBatch`, `verify`, `reget` and `link` are
`ShortenBatchContext`. A drawn id is any id: the random generator may repeat itself.
With `Faults` the repository is PostgreSQL, whose `Get` and `GetByOriginal` report every
error as "not found" and whose writes may fail with or without having taken effect.
Drawing an id never fails: the length is a positive constant, and `crypto/rand.Read` of
the Go version in `go.mod` returns no error; the error returns at `shortener.go:376-379`
and `403-406` are not reachable. The verification loop takes the items of `toCreate` in
any order, which is more than the slice order of the code; its iterations do not depend
on each other.

**DeleteWorker.** A task is the set of ids with blanks dropped and their number
with repetitions, which is what `count` grows by. `select` picks at random among
its ready cases: each is an action. A flush visits the users of `pending` in the
map's random order, one `MarkDeleted` per step. `accepted` and `owed` are history
variables: what was answered 202, and that part of it whose sender was linked to
the id at that time (`MarkDeleted` silently passes by the others). `MaxLate`
counts handlers that are still running when the worker is cancelled, which only
a timed-out HTTP shutdown allows. `OthersLink` is what the handlers of
`ShortenRequests` do to the store as far as the worker can tell.

**Shortener.** Interleaves both. The worker is cancelled only when no request is
in progress, as `run()` does after both servers have shut down.

**FileRepository.** A directory entry names an inode, an open file holds one, so
that a rename or a truncation by another writer has the effect it has on a POSIX
file system. A text is the set of entries it lists, or garbled: half-written, or
a shorter text over a longer one. A link is preceded by `LookUp`, in which the service
finds the records it will link; `AddUserURLs` does not look again, so the put of another
writer may have been rolled back by then. `RenameErrs` and `RemoveErrs` are the failures
after a save has been written. `Restart` is a kill of the process at any point
followed by `NewFileRepository`; what was written stays written (the code does not
call fsync, and a loss of power is not modelled). A new `path.tmp` gets an inode that
has neither a name nor an opener; `Inodes` has two elements more than there are
writers, so that there always is one (proved). `RefinesDurableStore` maps the maps of
memory and the texts under `path` to `DurableStore`, in which a save is one step.

**Audit.** `notifyAudit` puts an event into the channel and never waits: queued, refused
(`ErrQueueFull`, logged), or a panic on a closed channel. The goroutine of
`Notifier.run` takes one event at a time through the file observer and then the HTTP
observer, both being configured. A post fails with an answer of 300 and more, when the
endpoint has the event, or because the client gave up on its timeout or at the end of
the two seconds an event has (`http.go:62-65`). Such a request counts as `underway`: the
endpoint may have taken it, may take it at any later step (`ReceivesLate`), after the
next attempt, the next event or the end of `Close`, or never. The two seconds
(`expired`) may pass at any moment, also during the write. With `Late` handlers may
still be running when `run()` calls `Close`, which happens when the HTTP shutdown has
used up its time.

**Config.** A string setting is empty or named after the source it comes from, which
is all that precedence can tell apart. `CanSay` lists what each source may say of a
setting, with the quirks of the code: an empty variable or flag counts as given, an
empty entry of the file does not; an `ENABLE_HTTPS` that is no truth value is passed
over; the path of the file in the environment replaces the flag's even when it
names nothing readable. `Effective` is the reference: the first source in the
order of the documentation that says something.

**Lifecycle.** `step` is where `run()` is, from `parse` to `exited`; `deferred` are the
deferred calls that will run when it returns, and `closes` runs them last in, first
out. Each step of the start has an action for its failure, guarded by what makes the
step do anything (`cfg`). The calls in progress stand for the handlers: a call of
`DELETE /api/user/urls` may put a task into the channel; `EndCall` is never forced,
so a handler may last longer than the five seconds, which `Expire` ends once for
both servers. `grpcSrv.Stop` leaves the handlers it cuts off running. Of the worker
only what `run()` waits for is kept: a flush carries out any part of `pending` and fails
for the rest, the last one too, whose rest goes with the worker (`refused`) without
`run()` hearing of it. `Kill` ends the process at any step.

**Sessions.** `Auth` has the three ways of the middleware: `welcomes` a client without a
cookie with a new id, `passes` one whose cookie is empty or malformed through without an
id, and `verifies` a signed one. The clients in `Marred` may come with an empty or
malformed cookie, which stand for one another: both are served without an id and kept. A
signature is a record of the id and the key; it verifies under this key only. A new id
is named after the call it is drawn for, so two draws differ. `Answer` may lose the
answer with its cookie. `Rekey` is the start of a process with a new secret or one used
before.

**Process.** `Begin` composes `BeginCall` with `Identify`, `Delete` is open to calls with an
id only, and a `Restart` reads the secret again.

## 3. The runs

| Run | Instance | Shows |
|---|---|---|
| `requests_memory` | 2 singles, 1 batch of up to 2, 2 URLs from 4 raw ones, 3 ids, memory | `IndexesAgree`, `AnswersStored`, `CreatedOnce`, `AnsweredListed`, `BatchIdsDistinct`, `LostToAnother`, `LinksNeverMove` |
| `requests_postgres` | 1 single, 1 batch, 2 ids, every call may fail, fair | `AnswersStored`, `LinksResolve`, and every request ends (`RequestsEnd`) |
| `delete_worker` | 2 users, 1 id, channel of 2, batch size 2, failing flushes, one late handler, fair | `AcceptedNotLost`, `DeletedByOwner`, `CountCoversPending`, `AcceptedGetsDone`, `WorkerStops` |
| `shortener` | 1 single, 1 batch, 2 users, channel of 1, no failures | implements `ShortLinks` (`RefinesShortLinks`), `DeletedExist`, and a shutdown that leaves nothing accepted undone (`StoppedDone`) |
| `file_crash` | 1 writer, failing writes, kill at any system call | `AcknowledgedOnDisk`, `StartsAgain`, `FilesFollowMemory`, and implements `DurableStore` (`RefinesDurableStore`) |
| `file_concurrent` | 2 writers, 3 ids and URLs, failing writes and renames | `IndexesAgree`, `AcknowledgedInMemory`: rollbacks take back only their own |
| `audit` | 3 events, queue of 1, 2 attempts, failing writes and posts, requests that arrive late, late handlers, fair | `FileFollowsQueue`, `EndpointReceipts`, `WritesToOpenFile`, `NothingLeftBehind`, `CloseReturns`, `QueuedGetsWritten` |
| `process` | 2 HTTP calls and 1 gRPC call of 2 clients, one of which may have an empty or malformed cookie, failing flushes, 2 starts, any of `MCSources` at the first | `ByPriority`, `ReleasedAtExit`, `StoreOpenWhileUsed`, `CleanExit`, `ActsForOwnId`, and every shutdown ends (`ShutsDown`) |
| `delete_shutdown` | failing flushes | **violated** `StoppedDone` |
| `file_lost` | 2 writers, no failure, no crash | **violated** `AcknowledgedOnDisk` |
| `audit_late` | as `audit` | **violated** `NeverPanics` |
| `process_cookie` | as `process`, with one client | **violated** `AlwaysIdentified` |

### Findings

*Deletions lost at shutdown* (`delete_shutdown`). `README.md:407-411` says that the
deletion queue is completed on shutdown. The last flush tries `MarkDeleted` once
per user; what fails stays in a local map, and the worker returns. The process exits
with status 0 all the same, which is why `CleanExit` makes an exception for deletions
the store has refused in the last flush.

*An acknowledged URL missing from the file* (`file_lost`). Two handlers save
concurrently under the one name `path.tmp`, and `file.go:294-299` has no lock around
copy, write and rename. In the shortest case, ten steps, the first has written
`path.tmp` when the second opens it, which truncates it; the first renames the emptied
file to `path` and is acknowledged. A stop at this point loses all URLs. Without a stop
the second writes its text into what is `path` by now, has no `path.tmp` to rename,
removes `path` (`file.go:303`) and fails. Other schedules, not the one TLC prints, rename
an older copy of the maps over a newer one, which loses a URL until the next save.

*A panic in a late handler* (`audit_late`). `audit.go:26` says that `ErrQueueFull` is
what an event that cannot be queued gives. After `Close` the send on the closed
channel panics. `net/http` recovers from it, and the client, whose link is stored,
gets no answer.

*A client without an id for ever* (`process_cookie`). `README.md:258` says that without a
correct cookie the server creates a new user id and returns a cookie. The middleware
does so only when the request has no cookie of that name (`auth.go:68-71`). An empty
value (`auth.go:49-54`) and one that does not verify (`auth.go:56-65`) are served without
an id and without a `Set-Cookie`. TLC finds the first call of a client that comes with
an empty or malformed cookie; a restart with another `COOKIE_SECRET` does the same to
every client that holds a cookie. The client keeps what it has (`BlankStaysBlank`): what
it shortens is linked to nobody and `/api/user/urls` answers 401.

### Bounds, and why they are enough

- `Tries` is 1 or 2 (10 in the code): one collision that is retried and one that
  ends the draws; more tries repeat the first.
- `MaxItems` = 2: an item that repeats an earlier one, two items to create, an
  item that is known beside one that is not, a refused one after a good one.
- Three requests on two URLs: two rivals for one URL, with a third request that
  takes an id both draw.
- `QueueCap`, `BatchSize` = 1 or 2 (1024 and 128): a full channel, a flush by
  count and one by tick, a flush with more tasks waiting. `MaxDelete` = 2: a list
  with a repetition or a blank id. Two users: one flushed and one that fails.
- `MaxBatch` = 2: a batch stored in part. `Inodes`: one for each writer that has
  a file open and the two directory entries, so a new file always finds a free one.
- Three events and `QueueSize` = 1 (1024): one event in delivery, one queued, one
  refused or late. `RetryCount` = 2 (3): one attempt that is repeated and the last one;
  a third repeats the first. Two requests of one event and one of another can be
  underway at once, in any order with the receipts of the third.
- `MaxBoots` = 2: a start from every configuration of the run, and a second one with
  the store in memory (`LaterSources`), which is what cookies of an earlier process
  need. The configurations (`MCSources`) have a database, an audit file and HTTPS, so
  that every step of the start can fail, and in it all that the sources can say about
  one string setting and about `EnableHTTPS`. Settings do not influence one another in
  `Parse`; the theorem covers all of them together.
- Two HTTP calls and one gRPC call: one that ends and one that outlives the
  shutdown, on either server; two clients, one of which uses both protocols, and in
  `process_cookie` one client that calls again with its cookie. One of the clients may
  come with an empty or malformed cookie (`Marred`), the other does not.
- Symmetry is used over ids, URLs, users, requests or writers only in runs that
  check no liveness; no definition tells the elements of these sets apart.

`CHECK_DEADLOCK FALSE` is set where the system stops: requests are finite in
number and end, the worker stops, and a start that is refused ends the process.

### Fairness, and why the code justifies it

- `ReqFairness`: weak fairness of each request's steps. A handler is a goroutine,
  and no repository call blocks for ever. Arrivals are not fair: clients need
  not come.
- `DelFairness`: weak fairness of the worker, one goroutine with a ticker; strong
  fairness of `SeeDone`, because Go's `select` picks among ready cases at random
  and so does not pass the cancellation by for ever, and of `FlushUser`, because
  `AcceptedGetsDone` can hold only for a store that sometimes succeeds. Nothing is
  assumed of handlers or of the cancellation.
- `AuditFairSpec`: weak fairness of the goroutine, whose posts have a client timeout
  and so do not hang, and of the end of `Close`. That the two seconds of an event
  pass is not assumed: the retries alone end a delivery.
- `Process`: weak fairness of `Shutdown` and `Worker`, goroutines whose calls to the
  store return, and of `Expire`, a timer. Handlers need not return, servers need not
  come up, and nobody need send a signal.

## 4. The theorems

Every theorem holds for all values of the constants under the named `ASSUME`s, which say
only that the sentinels are outside the sets, that the bounds are positive numbers and
that writers are finite in number: any number of requests, ids, URLs, users, any
capacities, and `Faults` and `MarkFails` either way.

**ShortenRequests** (`ShortenRequestsProofs`). None of the properties is inductive:
that an answer is right depends on how far the request has come. The inductive
invariant `ReqInv` adds for each request what it knows (`RequestOK`): for a URL in
`asked[r]` that is not in `fresh[r]` the id is stored under it (`LearnedOK`); an id
in `fresh` is only drawn, not verified, and they differ from one another
(`FreshOK`); at the stages that answer, `fresh` is empty (`StageOK`); and a
request that was told "created" has its URL in the store (`CreatedOK`), which is why
nobody can be told so again. The argument has two halves. The store only grows
(`Grows`, `PutStep`, `PutBatchStep`, `LinkStep`), so what other requests know stays
true (`OthersKeep`). The step of the request itself either learns nothing
(`ControlStep`), reads an id from the index (`LearnStep`), or is one of four
with a proof of their own: the creating insert, the draw of a batch id, the
verification, and the link. Theorems: `TypesAlwaysOK`, `IndexesAlwaysAgree`,
`AnswersAlwaysStored`, `AlwaysCreatedOnce`, `LinksAlwaysResolve`,
`AnsweredAlwaysListed`, `BatchIdsAlwaysDistinct`, and the action property
`LinksStayPut`.

That a request ends needs fairness, but that no race makes it run for ever does not:
`effort(r)` is a natural number that bounds the calls and draws still ahead of
request `r`. `EveryStepCounts` says that each step of `r` lowers it and no step of
anyone raises it once `r` has arrived. What the draws of an item use up is charged to
the item (`perItem`), and an item that is generated pays for its own verification, two
calls at most. `EffortAlwaysBounded`: it never exceeds
`MaxItems * (Tries + 6) + 4`. With the scheduler serving each goroutine this is the
liveness property `RequestsEnd`, whose last, temporal step is left to TLC.

**DeleteWorker** (`DeleteWorkerProofs`). `DelInv` adds to the properties that tasks
and pending ids belong to users who were answered 202 for them, that what is owed
is still linked to its user, and `FlushOK`: in a flush, `remaining` = 0 means that
the users already visited have nothing pending. This last conjunct carries
`CountCoversPending` over the end of a flush, where `count` is set to `remaining`;
it rests on the cardinality of finite sets being 0 only for the empty one, hence
the finiteness of pending sets in the invariant. Theorems: `DelTypesAlwaysOK`,
`AcceptedNeverLost`, `AlwaysDeletedByOwner`, `CountAlwaysCoversPending`.

`StoppedDone` needs two assumptions, that marking does not fail and that no handler
outlives the servers (`MaxLate = 0`): `ShutdownCompletesDeletions` states them, and
`DrainedInv` adds that the channel is and stays empty once the drain has ended, and that
a flush that cannot fail leaves nothing pending of the users it has visited. Run
`delete_shutdown` shows that the first cannot be dropped.

`AlwaysLostToAnother` is about `ShortenRequests` without failing calls: a batch item
that is not found under its generated id lost it, or its URL, to another request, and
a request fails only with its draws used up or after such a loss of its id.
`TriedInv` adds that after `putBatch` each item is stored or one of its two keys was
taken, and stays taken; `FailedOK` keeps for a request that has failed why it did.

**Shortener** (`ShortenerProofs`). `ServiceInv` is `ReqInv /\ DelInv`. The parts share
the store, so each has to bear the steps of the other: the requests only let the store
grow, which leaves the worker's invariant alone (`WorkerUndisturbed`), and the worker
only adds to `deleted`, which the requests never read. `ImplementsShortLinks` is the
refinement: an insert is an `Assign` of one URL, a batch insert one of several, a link
is `Own`, the flush of a user `Remove`, and everything else stutters.
`ServiceShutdownCompletes` carries `StoppedDone` over to the service, whose shutdown
allows no late handler.

**FileRepository** (`FileRepositoryProofs`, `FileFaultsProofs`). The code keeps its
promises under different assumptions, so the theorems assume different things.

*Whatever happens*: any number of writers, failing writes and renames, crashes.
`FaultInv` says that a text the URL file may come to have lists each id and each URL
once (`TextsFit`), and so does every copy that is being written (`SnapsFit`). Saves mix
in one file only by one overwriting the other or by garbling it, and a start refuses a
garbled file, so `IndexesStayInverse`: no id ever stands for two URLs.
`FileTypesAlwaysOK` rests on the pigeonhole `FreeInode`; `StartsLoadTheFiles` is the
action property that a start loads the files and nothing else.

*Without crashes*: `RollbacksTakeTheirOwn`, no acknowledged record leaves memory. Its
invariant `WritersInv` says that what a writer has made and not yet saved is stored,
held by no other writer and not acknowledged.

*One writer at a time*: `AlwaysStartsAgain`, even if renames fail, since a text that was
not written to its end never gets the name `path` (`ReadableOK`).

*One writer, and renames that succeed*: `CrashesLoseNothing`, everything acknowledged is
on disk after failing writes and crashes at any system call; `FilesAlwaysFollowMemory`;
`AcknowledgedReadableAgain`, acknowledged URLs are in memory too, whatever crashed;
`StartsFindEveryLinksUrl`, the ids in the users' file and among the deletions are in the
URL file, so no start finds a link without a URL. `LoneInv` relates the stages of a save
to the inodes (`path.tmp` never is the inode of `path`, and holds all of memory when it
is renamed), the URL file to memory (memory without what is being put), and links and
deletions to the URL file, which is why a rollback never touches a link.
`ImplementsDurableStore` puts them together: the rename is the one step of a save in
which the file changes, what comes before it is a stutter, and a rollback takes back
only what no file has.

That renames succeed cannot be dropped: after a failed one the code removes the good
file (`file.go:303`). `file_lost` shows why one writer cannot be dropped either.

**Audit** (`AuditProofs`). `ControlInv`, the states of goroutine, channel and `Close`
together, gives `AuditTypesAlwaysOK`, `AlwaysWritesToOpenFile` and `NothingEverLeftBehind`.
`OrderInv` places everything in the history of accepted events: the channel holds the
last of them (`QueueOK`), the event in delivery is the one before (`EventOK`), what was
received or is underway comes no later (`ReceivedOK`), the receipts and the requests
underway of the event in delivery are together no more than its failed attempts
(`CountOK`), and an event without a failed post has been received once, behind no later
one, as soon as it is done with (`ExactOK`). Hence `EndpointAlwaysServed`, for any
capacity and number of retries and however late requests arrive.

`LinesOK` places the lines of the file in the same history: each accepted event the file
observer is through with has a line or a failed write, and lines come in the order of
the queue. With `QueueOK` this gives `FileAlwaysFollowsQueue`, about the lines, the event
in hand and the channel joined together (`ListedInOrder`, `ListedAre`).
That a handler which is not late finds the channel open is a fact about `run()` and not
about the audit: `AuditOutlivesCalls`, below.

`left` counts what the goroutine can still do before it ends. `EveryRunStepCounts`: each
of its steps lowers it, and after `Close` has closed the channel nothing raises it.
`CloseWaitsBounded`: it never exceeds `(QueueSize + 1) * (2 * RetryCount + 2)`. This is
the part of `CloseReturns` that needs no fairness.

**Lifecycle and Process** (`LifecycleProofs`, `ProcessProofs`). `ParsesByPriority`: by
cases on the first source that says something. `LifeInv`: what is open is deferred
(`OwnedOK`), the worker is stopped once it is no longer deferred (`WorkerOK`), no server
and no call exists before `serve` (`StartOK`), and after the shutdown of a server
without an error none of its calls is in progress (`IdleOK`); it gives
`AlwaysReleasedAtExit`, `StoreAlwaysOpenWhileUsed`, `ExitsClean`, whose flushes may fail
for any user, and `AuditOutlivesCalls`, the other side of the finding `audit_late`: as
long as the five seconds have not passed, the audit closes after the last call has
ended. Every step of `Process` is one of `Lifecycle` (`RunsLifecycle`), so all four hold
of the process with its clients. `AlwaysActsForOwnId`: every signed token a client has,
or is about to get, names an id drawn in a call of this client (`SessionInv`). Two
theorems are the other side of the finding `process_cookie`. A client with an empty or
malformed cookie is never given another (`BlankStaysBlank`). And if no start brings
another secret (`[][secret' = secret]_vars`), every signed cookie a client has or is
about to get verifies, through kills, restarts and lost answers, so only clients with an
empty or malformed cookie are without an id (`NamelessUnderOneSecret`).
`ProcessParsesByPriority` carries `ParsesByPriority` over to the process.

**Only model-checked.** Every invariant, action property and refinement of the passing
runs is proved; liveness under fairness (`RequestsEnd`, `AcceptedGetsDone`, `WorkerStops`,
`CloseReturns`, `QueuedGetsWritten`, `ShutsDown`) is out of the prover's reach and stays
with TLC. The measures above prove the part of `RequestsEnd` and `CloseReturns` that does
not depend on the scheduler. The URL normalisation of `UrlText` is checked by the runs of
`MCShortenRequests` only.

## 5. Not modelled, and why

- Parsing of requests, encoding of answers, logging, gzip: no state outlives a
  request.
- HMAC signatures, random generators, JSON, the file system and PostgreSQL are
  external and modelled by what the code relies on.
- Deadlocks of PostgreSQL between multi-row statements, connections, migrations.
- `ctx` cancellation of a single request: a call that fails because of it is one
  of the failures of `Faults`.
- Syntax of flags, of truth values and of the JSON file: `Config` starts where a source
  gives a setting or does not. A flag that does not parse ends the program.
- Generated code, the object pool and the reset generator (unused by the service), and
  the linter, a build tool that shares no state with it.

## 6. Plan

Built in this order: `MemoryRepository`, `ShortenRequests`, `DeleteWorker`, `Shortener`
with `ShortLinks`, `FileRepository` with `DurableStore`, `Audit`, `Config`, `Lifecycle`,
`Sessions`, `Process`, and the proofs of all of them. What would come next:

1. The request handlers over the file store: `FileRepository` has a record that is
   visible before its save, linked by another request and rolled back (`file.go:73`), but
   not what that request answers.
2. The loss of the file after a failed second rename (`file.go:303`) as a run of its own.
3. A measure like `effort` for the shutdown of `Lifecycle` and for the delete worker.
4. The audit's `Close` inside `Process`, in place of the single step that closes it there.
