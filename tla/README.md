# Verification of the UFO observation command backend

TLA+ models of the Go backend in `src/`, the TLC configurations that check them
on small instances, and TLAPS proofs of their main properties for instances of
every size. `PROJECT.json` maps every definition to the lines it models.

## The system

The server (`src/cmd/server`) migrates its PostgreSQL database, serves an HTTP
API and runs background workers. Its parts, the state they keep, and what makes
them correct:

| Part | State | Operations | What can go wrong |
|---|---|---|---|
| Recovery workflow (`service`, `repository`, `domain`, `worker/reconcile.go`) | rows of missions, buoys, recovery jobs, dive windows, reports, incidents, audit events | one transaction per request; a periodic expiry of overdue jobs | checks on unlocked reads that are stale at the write; bulk updates that pass the version check by; a window that strands or shares a job; a verdict that is undone |
| Telemetry streams (`telemetry/stream.go`) | streams in memory under one mutex, a channel that is closed at each change | Open, Append, Snapshot, Finalize, AwaitComplete | lost wakeups; sealing something other than what was checksummed and audited; losing an acknowledged segment |
| Migrations (`db/migrate.go`) | `schema_migrations`, the schema, an advisory lock | Migrate at the start of every server | a script that runs twice or out of order; a server that serves an old schema; a lock nobody frees |
| Idempotent requests (`service/idempotency*.go`, `repository/idempotency.go`) | `idempotency_keys` | lookup, create, put | creating twice; a replay of something that was not created, or for another body |
| Leases (`arrayops/runtime.go`, `worker/lease.go`, `telemetry/coordination.go`) | owner, deadline and, fenced, a token | Acquire, Renew, Release; Acquire, Commit | callers' clocks are read before the mutex is taken, so times arrive out of order; an overtaken holder goes on |
| Telemetry coordination (`telemetry/coordination.go`, `telemetry/runtime.go`) | subscribers, tokens of a limiter, counters | Publish, Subscribe, Deliver, Limiter, DecodeBatch, Capacity | Publish blocks with the mutex in hand; a channel is closed during a send; an event that is dropped or persisted twice; a cancelled worker that goes on; a token or a resource that a failure keeps |
| Array operations (`arrayops`, `service/acoustic_control.go`) | missions, sessions, bundles, buoys, callbacks, responses in memory; goroutines that collect results | approve, dispatch, promote, authenticate, change a role, log out, enrol, download | read-modify-write across two critical sections; jobs with one key that overlap; a lane that is oversubscribed |
| Assignments (`service/assignment.go`, `repository/assignment*.go`) | rows of assignments | create, advance by version, activate when due | a bulk activation against a client's change; two assignments of one slot |
| Server lifecycle and retries (`cmd/server/main.go`, `worker/*.go`, `repository/transaction_policy.go`, `db/lock.go`) | worker goroutines and their error channel, the pool; attempts and delays | start, retry, shut down | a shutdown that waits for a worker that waits to report; an error that hides another; a transaction that is repeated although it took effect |
| Console (`console`, `httpapi/console_handlers.go`) | users, sessions, work orders, three tables with soft deletion, a log | login, logout, CRUD, moves of orders, pages | statements without a transaction: what was checked by the first is old at the next |
| Audit, operators, queries, HTTP, configuration | rows that are read, single-row writes | | nothing that takes more than one step |

Requests reach the workflow through `httpapi`, each handler calling the service
once; the service opens a transaction (`Postgres.InTx`) and the reconciler
writes the same rows from a goroutine of its own. Telemetry streams, array
operations and leases are shared memory between goroutines. Migrations and the
idempotency table are shared between server processes. `IdempotentCreate` and
`ReplayOr` are called by no handler yet; they are modelled as the helpers that
their tests use. In the same way nothing calls `CreateRecoveryJobsBulk`,
`VerifyActivation`, `RunWithPolicy`, `RunWithRetry`, `WaitForDatabase` and the
methods of `AcousticControl` and `TelemetryControl` but their tests.

## Modules

| Module | Models | Run |
|---|---|---|
| `Lifecycle` | the status machines of `domain/status.go` and `domain/intervention.go` | (used by `RecoveryWorkflow`) |
| `RecoveryWorkflow`, `MCRecoveryWorkflow`, `RecoveryWorkflowProofs` | the recovery workflow | `workflow_*` |
| `TelemetryStream`, `MCTelemetryStream`, `TelemetryStreamProofs` | `telemetry.Manager` with its callers | `telemetry` |
| `CaptureSpec` | what a capture promises: segments are added once, and it is sealed once, as a whole | refined by `TelemetryStream` |
| `Migrations`, `MigrationsProofs` | `db.Migrate` in several servers | `server` |
| `Idempotency`, `MCIdempotency`, `IdempotencyProofs` | `IdempotentCreate`, `ReplayOr` | `idempotency*` |
| `Leases` | `arrayops.Lease`, `worker.Lease`, `telemetry.FenceLease` | `array_ops` |
| `AcousticControl` | `service.AcousticControl` on `arrayops.Store` | `array_ops` |
| `ArrayWorkers` | `CollectResults`, `RunSteps`, `OnceStep`, `RunDownload`, `Capacity` | `array_ops` |
| `Broadcast`, `MCBroadcast`, `BroadcastProofs` | `telemetry.Broadcaster`, `RunWorker`, `Deliver`, `WaitRetry` | `broadcast` |
| `Console`, `MCConsole`, `ConsoleProofs` | the console's handlers and store | `console*` |
| `Assignments` | assignments, their requests and their worker | `server` |
| `Server` | `run()` of `cmd/server` and the loops of `worker` | `server` |
| `Retry` | `RunWithRetry`, `RunWithPolicy`, `WaitForDatabase` | `server` |
| `TelemetryRuntime` | `Limiter.Run`, `DecodeBatch`, `ResourceTracker`, `Decode` | `server` |
| `Activations` | the chain of hand-offs of a job and `VerifyActivation` | `idempotency` |

`MCArrayOps`, `MCServer` and `MCIdempotency` each put together modules that
share no state, and `ArrayOpsProofs`, `ServerProofs`, `MigrationsProofs` and
`IdempotencyProofs` have the proofs about them, each for the part's own
specification. A behaviour is of one part, chosen at the start, and the other
parts stand still: what could happen in them at the same time does not touch
the part that moves, so nothing is lost, and the states add up instead of
multiplying.

A definition that begins with "mutant:" in its comment is a plausible mistake in
the definition below it. It is not part of the specification; it shows that the
property would notice. A property that is a conjunction has a mutant for each
part that matters, and sometimes more.

### RecoveryWorkflow

Rows are functions from their ids to a status and a version; an `absent` row is
one that was not inserted. Statements run at READ COMMITTED. Where a
transaction reads rows without locking them and writes later, the model has two
steps: `BeginAdvance`, `BeginMove`, `BeginDiveWindow`, `BeginCancel` and
`BeginSubmit` remember in `tx` what was read, and the corresponding `Commit...`
writes, with the WHERE clauses of its statements evaluated on the rows as they
are then (which is what PostgreSQL does when it had to wait for a row). Other
requests lock what they read (`FOR UPDATE`) or decide in the WHERE clause, and
are one step. `Rollback` is any failure after the reads: a conflict, a
deadlock, a cancelled context. `MarkExpiredRecoveryJobs` is one pass of the
reconciler over a batch of at most `ReconcileLimit` jobs, with its audit events.

A version that a client sends is the one it was shown, or at most `MaxLead`
larger. `Disciplined` says whether clients ask for hand-offs and reviews only
from a status that permits them: the code does not check that, so what depends
on it is stated separately. Both are assumptions on clients, not on the code.

`CreateRecoveryJobsBulk` creates all its jobs or none in one transaction, and
writes a single audit event, for the mission of its first request.

Left out: the operators a request names, notes and measured
values, link validation of ids that the foreign keys repeat.

### TelemetryStream and CaptureSpec

Every method holds the manager's mutex and is one step; `AwaitComplete` gives
it up to wait for the channel it took, so a round of it is a step. The channel
is the number of closings there were before it. A sealer takes a `Snapshot`,
computes the checksum from it, and calls `Finalize` some time later, while
others append; the audit callback may fail after it has written its record, and
a sealer that gives none (`audit == nil`, as several tests do) seals without an
audit: `unaudited` records for which streams, and `SealedIntact` asks for the
audit of the others only.
Two payloads of the instance are chosen so that different segments assemble to
the same bytes. A digest is what the caller says it is, as in the code.

### Migrations

A server is between two statements of `applyMigration` at `begin`, `locked`,
`read` and `ran`. `Fail` stops it there; the transaction it leaves behind keeps
the advisory lock until PostgreSQL notices (`RollbackOrphan`, external).

### Idempotency

A call is at its lookup, its create or its put, each a transaction of its own.
`Fail` is an error at any point, `PutAnswerLost` an answer that nobody gets. A
retry is another request with the same key and body. `NewRecord` refuses an
empty key when `create()` has taken effect, so such a call always gets an error
and leaves no record (`KeylessRefused`), and what it created stays.

### Activations

The rows that `activation` and `accept` add to `mooring_events`. A caller is
shown the job (`Look`), sends its request with a time of its own or leaves the
time to the server (`Receive`), and the transaction comes later (`HandOff`).
The code compares `from_operator` with nothing; that a caller names the one who
held the job when it looked is an assumption on callers. `ListActivation` is
the set of orders in which the query may return the rows, since ids are random.

### Leases

`ReadClock` is the caller's `time.Now()`, any time before the method gets the
mutex. `fenced` chooses between the two kinds. Goroutines may share an owner;
`until` is the deadline that each was last told, and `held` its last token. The
leases without a token know owners only, so of two goroutines of one owner one
may acquire, renew or release what the other holds. `touched` records to whom
that has happened since it was told its deadline, and `HoldersHold` is about
everybody else.

### AcousticControl and ArrayWorkers

Each method of `arrayops.Store` is one critical section and one step. `ChangeRole`
and `EnrollBuoy` make two, and `ApproveSurveyMission` puts a copy back that its
caller got earlier; `call` keeps what they carry over. Two weaknesses show in
the statements of the properties: a `Logout` in the middle of a `ChangeRole` is
undone, so `LogoutFinal` is about the others, and an approval with an old copy
takes a mission back, so `EndedOnce` counts those (`regressed`). The bundle that
the model keeps with a buoy is a history of its enrolment: the stored
`arrayops.Buoy` has none. A bundle whose buoy is refused stays in the store.

In `ArrayWorkers` a job is a goroutine of `CollectResults`. `Look` and `Mark` are
the two critical sections of `OnceStep.Run`, with the download between them.

### Console

No handler opens a transaction: the session's check, the write or the query,
and the log entry or the count are steps of their own. A row of each kind
stands for its table. The log is the set of its entries, without those of
logins; an entry that could not be written is dropped with its error, and `lost`
records of what. Users are disabled, and
sessions expire, at any time; a user's role does not change, as no handler does it.

### Assignments

An insert or an update and the commit with its audit entry are two steps, and
the row is locked in between. `ActivateDue` is one statement with
`FOR UPDATE SKIP LOCKED`, with a time read before it.

### Server and Retry

`Server` has `run()` statement by statement, each worker's loop, and requests
that need a connection. The two timeouts may come at any time or never.
`ClosePool` waits until every connection is given back, whatever the timeouts
say, as `pgxpool.Pool.Close` does. The three workers return an error only for a
missing dependency; the model lets them fail at any call.

In `Retry` one of the three loops runs, with any arguments up to the bounds. An
attempt may fail after it took effect, without saying so.

### TelemetryRuntime

Calls of `Limiter.Run` around `DecodeBatch`. `Guarded` batches decode with
`telemetry.Decode`, which recovers; a panic of another function leaves its
resource open, because `release()` is not deferred, and `OpenExact` counts it.

### Broadcast

`Publish` takes the mutex, then sends to the subscribers one by one (`Send` into
a buffer, `HandOver` to a worker that waits), in any order as Go's `range` over
a map does, and cannot go on while a channel has no room; `mutex` is free again
only when it returns. Subscribing and unsubscribing take the mutex for one step.
An event is its number. A subscriber runs `RunWorker` over its channel with
`Deliver` as the handler. No code of the repository puts the two together yet
(`TelemetryControl` offers them one by one); it is what their signatures fit.
The sink is external: each call of it succeeds or fails. `joined`, `taken`,
`persisted` and `late` record what happened and are read by no action, except
that `Persist` takes the payload from the end of `taken`.

## Runs

Every run's bounds are in its `.cfg`. Deadlock is checked except where the
system may stop: when the bounded versions or failures are used up.

| Run | Instance | Shows |
|---|---|---|
| `workflow_windows` | 1 expiring job, 2 windows, 2 clients, versions to 4 for hand-offs, from the empty database, disciplined clients | `TypeOK`, and `WorkflowInv`, the invariant of the proofs: windows do not share a job (`OneLiveWindow`), a job in progress has its window (`InProgressHasWindow`), a verdict agrees with its job (`VerdictMatchesJob`), and what these rest on |
| `workflow_batch` | 2 jobs, one expiring, in 1 window, 1 client that asks for anything, fair reconciler, from the state where both jobs are accepted | `CompletedWindowSettled`; `AuditTrail`, with batches: every rejected, verified, cancelled and completed row has its audit event; and `ExpiredSettled` |
| `workflow_quota` | 3 jobs of a buoy that needs 2 installs, created singly or in bulk, 2 clients that ask for anything; without incidents (a constraint, as they touch neither jobs nor counts) | `InstallsExact`, `CheckedMovesLegal` |
| `workflow_handoffs` | | `JobTransitionsLegal` is violated |
| `telemetry` | 1 stream of up to 3 segments, 2 digests, 2 waiters, 2 sealers | with an audit callback or without: what is sealed is complete and, with one, audited as it was sealed (`SealedIntact`), no wakeup is lost (`NoLostWakeup`), waiters return (`WaitersReturn`), and `CaptureSpec` is implemented (`ImplementsCapture`), so acknowledged segments stay |
| `idempotency` | a request, three retries of it, one with another body, one without a key | `IdempotencyInv`: answers come from creates of the same request, replays agree, nothing is created after a success, no record and no success comes of a request without a key; `VerifiesChain`, for 2 callers who hand a job to 2 operators, 3 times: a chain in order is verified (`ChainVerified`), and what is verified names the holder (`VerifiedHolder`) |
| `idempotency_once` | | `CreatedOnce` is violated |
| `broadcast` | 2 publishers, a worker without a buffer and one with a buffer of 1, 2 attempts, 3 events, cancellations and failures at any time | `BroadcastInv`: channels carry consecutive events, no send meets a closed channel, sinks persist each event once, a cancelled worker takes at most one more event; it returns (`CancelledReturns`), and `Publish` is blocked by a worker that has stopped and by nothing else (`PublishBlocksOnly`) |
| `array_ops` | leases: 2 goroutines of one owner and 1 of another, 3 tokens, 5 ticks; the store: 3 concurrent calls, 1 mission, 1 session, 2 bundles and buoys; 3 jobs, two with one key, limits of 1 and 3 | `LeaseInv`: who has a lease has it until the deadline it was told, and tokens are not shared; commits follow the tokens (`CommitsInOrder`); `LogoutFinal`, `EndedOnce`; `StoreKeeps`: enrolments have their bundle, the first callback stays; `ResultsTrue`: no send meets a closed channel, all results are collected, nil is backed by a download; nobody executes after it (`OnceAnswered`), a lane keeps to its limits (`LaneShares`), and collecting ends (`CollectReturns`) |
| `console` | 2 requests, 2 users with a session each, up to 4 orders (3 where they are moved), pages of 1 and 2 | only requests that were let in go on (`InFlightOnly`); one wins each race, orders follow their path, the log is true, and it leaves out no deletion or move but those whose entry failed (`RacesSettled`); totals and pages fit together, and a client that reads all pages has seen all orders (`PagesAgree`) |
| `console_log` | | `DispatchAudited` is violated |
| `server` | 2 clients, 2 assignments of one buoy over 3 times; 2 workers, 2 requests, 2 connections; up to 4 attempts and delays of up to 5; 3 batches of 2 inputs, 2 at a time; 3 servers that migrate, the repository's 3 migrations, 2 failures | assignments make legal moves (`LegalMoves`) that their versions account for, no slot is given twice (`AssignmentsSound`), what is due is activated (`DueLeaves`); `run()` returns nil only when nothing was cut off and otherwise the error that stopped it (`ExitTold`), its workers report and stop (`WorkersStop`), and it returns (`Returns`); a repeated transaction takes effect once, with at most one attempt after a cancellation (`RepeatsSafely`), and delays double up to their bound (`DelaysGrow`); limited calls return (`RunsReturn`) and leave open what a panic leaves open and nothing else (`OpenExact`); each migration is applied once and in order and nobody serves too early (`MigrationInv`), and in the end all servers serve (`AllServe`) |

The bounds are the smallest at which the cases in question happen: two windows
to share a job, two jobs for a batch that settles one and leaves the other, two
clients because every race of the workflow is between one transaction's reads
and another's writes, three jobs for two places in a quota, three servers so that
one can wait while another fails with the lock. Statuses reach their last one
within the bounds on versions, and the proofs do not have the bounds.

### Findings

* `workflow_handoffs`: `ActivationRecoveryJob` and `AcceptRecoveryJob` compare
  the version and nothing else, so an archived or expired job can be handed off
  again; `ActivationChecked` and `AcceptChecked` look at the request only.
  `SPEC_FREEZE.md` says that job transitions validate the current state.
* `idempotency_once`: two calls with one key both create, because the key is
  claimed only after the create.
* `console_log`: a work order is moved in one statement and the log entry is
  written in another, whose error `recordConsoleOperation` ignores, so a command
  may be dispatched that no entry tells of. `SPEC_FREEZE.md` says that command
  dispatch and audit writes use transactions with rollback on failure.

Some more that no text of the repository contradicts, and that properties and
comments state as they are: a stream is sealed without an audit when its sealer
gives no callback; a request without a key is refused after its create; a job is completed although its mission was closed
after the unlocked read of it (`service.go:313`); `ChangeRole` can undo a logout;
an approval can take a dispatched mission back; a refused enrolment leaves its
bundle; a decoder that panics and does not recover leaves its resource open; after one job of a window is
reported on and another expires, the window can neither be completed nor
cancelled; a page of orders that share their time of creation can miss one;
`run()` can wait for a connection longer than its timeouts.

Also a report can be inserted for a window that was cancelled after
`validateSignalRecoveryReportTarget` looked; `VerdictMatchesJob` and
`CompletedWindowSettled` hold nevertheless, because the review compares again.

### Fairness

* `RecoveryWorkflow`: weak fairness of the reconciler for each expired job.
  `Periodic.Run` goes on as long as the server does, and a row that a pass
  skips because it is locked is found by a later one. Clients owe nothing.
* `TelemetryStream`: weak fairness of a waiter's wakeup once its channel is
  closed; the Go scheduler runs a goroutine that can run. Nobody is assumed to
  append, seal or cancel.
* `Migrations`: weak fairness of each server's steps, of its restart, and of
  the database noticing a lost session. Failures are bounded, since a server
  that always fails never serves.
* `ArrayWorkers`: weak fairness of every goroutine's step. Downloads return, as
  their timeout makes them; nobody is assumed to cancel.
* `Assignments`: weak fairness of commits and of the worker's pass; clients
  need not begin anything.
* `Server`: weak fairness of `run()`, of each worker's loop and of requests that
  have a connection; strong fairness of getting one, since the pool serves who
  waits in turn. No timeout is assumed to come: `Returns` holds without.
* `TelemetryRuntime`: weak fairness of each call, and strong fairness of getting a
  token, since senders on a channel are served in turn. Decoders return.
* `Broadcast`: weak fairness of the sends, of `Publish` returning, and of each
  worker: goroutines that can run do, calls of the sink return, timers fire.
  Nobody is assumed to publish, cancel or unsubscribe, so `Publish` may wait for
  ever for a worker that has returned; `PublishBlocksOnly` says that this is the
  only way.

## Proofs

Each `...Proofs` module extends the module it is about. The assumptions are the
named `ASSUME`s of the modules, which TLC evaluates in the runs, and the
hypotheses in a theorem's statement. Every invariant named below was checked by
TLC on the instance of its run before it was proved.

| Theorem | Statement | Argument |
|---|---|---|
| `TypeCorrect` | `TypeOK` of the workflow | by the actions; the lemmas say what `MoveJob`, `MoveJobs`, `Begin`, `End` and `WriteAudit` return |
| `VersionsGrow` | `VersionedWrites` (proved only: no run needs it) | every action writes a row through one of the helpers that raise its version; no assumption on clients |
| `ChecksHold` | `MaxLead = 0` implies `CheckedMovesLegal` | `FreshReads`: an open transaction's version is at most the row's, and equal only while the row is as it was read. A client that invents a larger version breaks it |
| `InstallsCounted` | `MaxLead = 0` implies `InstallsExact` | `CompletedPast`: a job that was completed is not queued again, so by `FreshReads` no open transaction completes it again; the completions of a buoy are a finite set to which each adds one |
| `WindowsSettle` | `CompletedWindowSettled` | `ReportsBelong`: a report, or a submission on its way, is for a job of its window; items do not change after a window is created |
| `TrailComplete` | `AuditTrail`, for any clients | an action that writes a verdict or ends a window writes its audit event in the same transaction, and events are never removed |
| `WorkflowInvariant`, `WindowsAndVerdicts` | for disciplined clients and `MaxLead = 0`, `WorkflowInv` and the properties in it | `OneLiveWindow` needs that a live window's jobs are past `accepted` (`LiveItems`), which needs that a cancellation gives back exactly the jobs in progress (`SnapshotCovers`), and both need that reports belong to windows |
| `StreamTypes`, `WakeupsKept`, `StreamSafe` | types, `NoLostWakeup`, `SnapshotFresh`, `AckedStored`, `SealedIntact` | a version counts the segments, so equal versions mean equal segments; a waiter's channel is the current one unless it was closed; a record is sealed after the audit it was given, unless it was given none |
| `Implements` | `TelemetryStream` implements `CaptureSpec` | each step is an `AddSegment`, a `Seal`, or leaves the capture alone |
| `MigrationInvariant`, `MigrationsSafe` | `MigrationInv` and, from it, `AppliedInOrder`, `ServingUpToDate` | only the holder of the lock is past `begin`, so what it has read about its version is still so |
| `IdempotencyInvariant`, `ReplaysSound` | `IdempotencyInv` and, from it, `AnswersCreated`, `ReplaysAgree`, `AnsweredOnce` | the first record stays, and a success leaves one, which has a key |
| `ChainsVerified` | `VerifiesChain` | see below |
| `LeaseInvariant`, `HoldersSafe`, `TakeoverLate` | `LeaseInv` and, from it, `HoldersHold`, `NoEarlyTakeover` | `LeaseInv`: a caller's time is never ahead of the clock, and a deadline that somebody was told is the lease's unless another goroutine of its owner has touched the lease since |
| `TokensUnique`, `CommitsFenced` | `TokenUnique`, `CommitsInOrder` | `TokensGiven`: a token is given once and held by one goroutine; a commit has the last one |
| `LogoutsFinal`, `MissionsEndOnce`, `StoreKept` | `LogoutFinal`, `EndedOnce`, `StoreKeeps` | `ControlInv`: a session that was closed is revoked in the store and in every copy that a `ChangeRole` carries (`ClosedRevoked`); a mission and its copies are at version 1 while it runs and at 2 once it has ended, and what ended again was taken back for it (`MissionsVersioned`); a bundle is in the store before its buoy (`BundlesPut`) |
| `ResultsComplete`, `LanesShared`, `AnsweredOnce` | `ResultsTrue`, `LaneShares`, `OnceAnswered` | `WorkersInv`: the wait group counts the goroutines that run, so the channel is closed after the last send, and what was sent is in the channel or received (`Collecting`); a key is marked after its download and before anybody is told nil (`Answering`); the n-th place of a lane was given to a caller with a limit of at least n (`LanesFilled`) |
| `BroadcastInvariant`, `BroadcastSafe` | `BroadcastInv` and, from it, `NoGaps`, `SendsOpen`, `PersistedInOrder`, `OneLate` | a subscriber is behind by one event exactly while the current `Publish` has not sent to it; a worker has persisted what it took up to the event in its hands; the map changes only while nobody publishes |
| `AssignmentsSafe`, `MovesLegal` | `AssignmentsSound`, `LegalMoves` | `AssignmentsInv`: a row that an open transaction changed is as the transaction found it (`LocksHold`), so its audit entry is new at the commit and adds one (`AuditFits`); a slot is taken by a row or by one open insert (`SlotsTaken`) |
| `ExitsTold`, `WorkersReport` | `ExitTold`, `WorkersStop` | `ServerInv`: each error in the channel is of a worker that has returned, so there is room for the others' (`ErrorsReported`), and a worker that began a call after the cancellation looks at the context before the next (`LateStops`); each stage of `run()` says what the stages before it waited for (`StagesPassed`) |
| `RetriesSafe`, `DelaysBounded` | `RepeatsSafely`, `DelaysGrow` | `RetryInv`: while the loop goes on no attempt that may not be repeated took effect (`NotYet`); what was waited is what `Delay` gives (`DelaysWaited`), and `Delay` doubles while that stays below the largest, and is bounded, since a least attempt at which it were not has a bounded one before it |
| `ResourcesReleased` | `OpenExact` | `LimiterInv`: tokens taken are the calls that hold one (`TokensHeld`), and a step moves one call in or out of the finite sets that are counted |
| `ConsoleSafe`, `SessionsEnd`, `RacesEnd`, `PagesFit` | `ConsoleInv` and, from it, `InFlightOnly`, `RacesSettled`, `PagesAgree` | see below |

`VerifiesChain` quantifies over the orders in which the query may return rows of
one time. When all times differ there is one such order: of two increasing
orders a least index at which they differ cannot exist (`UpwardsOnly`), which is
the induction that the provers allow. When times are equal a returned order is
any walk along the hand-offs. Both it and the chain as it was written use each
row once, so an operator gets the job as many times more than it gives it away
in the one as in the other, and both therefore end with the same operator
(`TrailsEndAlike`). `HandOffsInv` says that the rows are such a walk which ends with
the holder (`Chained`), and that a caller names who held the job at the version
it was shown (`Informed`).

The console has no transactions, so nothing a request has read need be true when
it goes on. What `ConsoleInv` rests on is that tables go forward: a row that was
deleted, an order's version that was passed and a race that was won stay so
(`WonForGood`), and orders are only added. A page that was read is therefore a
piece of what is there later (`PageRead`), a total that is counted later is no
smaller, and new orders, which come first, only move the others down to pages
that the client has yet to read (`Swept`). That the log leaves nothing out
(`LogTold`) follows step by step: who wins goes on to write its entry, and from
there the entry is in the log or the failure in `lost` (`ToldStep`). `MCConsole` lets certain operations meet, to keep the run small; the
theorems are for `Spec`, where all of them do.

The assumptions are on constants only and say what the code or the model's
reading of it fixes: that a value that stands for nothing is no row, owner, call
or body (`NoneAssumption`, `StoreAssumption`, `HandOffsAssumption`), that there is
a script and a lock that nobody has is no server's (`MigrationAssumption`), that there
are finitely many goroutines at a time (`PartsAssumption`, `WorkersAssumption`),
that limits and bounds are naturals, and that the two work orders which the
migration inserts fit under `MaxOrders` (`ConsoleAssumption`). None fixes a size.

Only model-checked, because TLAPS reaches neither fairness nor `ENABLED`:
`ExpiredSettled`, `WaitersReturn`, `AllServe`, `PublishBlocksOnly`,
`CancelledReturns`, `CollectReturns`, `DueLeaves`, `Returns` and `RunsReturn`. The
three violations are TLC's counterexamples. The other properties
of the passing runs, all of them safety, are proved.

## Not modelled, and the plan

What is left: safety halves of the liveness properties that have one (that no
goroutine of `Broadcast`, `ArrayWorkers` and `Server` is ever blocked for good,
stated without `ENABLED`), and theorems about `CaptureSpec` itself that its
implementations inherit.

Not modelled, because no state is changed or nothing decides by it: queries,
filters, exports, summaries and the dashboard; HTTP decoding, encoding and
middleware; configuration; the audit hash chain, which the server does not use;
metrics, health flags and logs of the workers; `AdvisoryLock`, which nothing calls.
Registration of operators and changes of their roles are single statements on
single rows, and so are the console's reports, which only grow. A segment's
digest is taken from its sender: `TelemetryStream` assumes that it determines the
payload. SQL's semantics are those of READ COMMITTED as `RecoveryWorkflow`,
`Assignments` and `Console` use them, and no more.
