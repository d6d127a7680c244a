# TLA+ models of BitBench

BitBench is a web service that benchmarks lossless compressors. A user uploads
files and selects compressors; the backend cuts the request into tasks, runs
them against one budget of CPU workers, averages the rows they produce and
shows the result. Its repository carries the `impeccable` skill
(`.opencode/skills/impeccable`): a helper for coding agents that work on the
frontends, with a live mode, in which browser, helper process, agents and source
files are kept in step, and a hook that checks edits. This directory holds
models of the core logic of both, the TLC runs that check them and the theorems
TLAPS proves about them.

Run `tlc -config <X>.cfg MC<Module>` for a model-checking run and
`tlapm <Module>.tla` for the proofs.

## 1. The system

The backend, `src/backend/internal/...`:

| Component | Source | State | Operations | Hard part | Correct when |
| --- | --- | --- | --- | --- | --- |
| Task scheduler | `worker/benchmark_runner.go`, `repository/benchmark_task_repository.go`, `repository/benchmark_repository.go` | rows of `benchmarks`, `benchmark_tasks`, `benchmark_results`; an atomic counter of worker units; one goroutine per running task | ResetRunning, finalizeStranded, dispatch/ClaimNext, processTask, handleTaskError, finalize | goroutines, an HTTP handler and a restart interleave between SQL statements; errors are ignored | budget never exceeded, a task runs once at a time, results published whole and only for `ready`, everything ends |
| Benchmark creation | `service/benchmark_service.go` | `DATA_DIR/<id>`, the same tables | CreateBenchmark | three stores written one after another with rollback | inputs exist while tasks may run, nothing left behind by a failed request |
| Administration | `handler/admin.go` | the same | cancel, delete, batch delete, users and groups | runs at any point of a benchmark's life | a cancelled benchmark stays so; permissions of professors |
| Compressor packages | `service/compressor_service.go`, `repository/compressor_package_repository.go`, `handler/compressor_packages.go` | `compressor_packages`, `COMPRESSOR_DIR/<id>` | UploadPackage, Build, markFailed, Replace, DeletePackage | a build runs in the background while the package is replaced or deleted | a `ready` package has the workspace that was verified |
| Docker runner | `runner/docker.go` | containers, an image cache | EnsurePlatform, Run | timeouts, throttling, a container that outlives the call | every container is removed, a timeout is reported as one |
| Task execution | `worker/exec.go`, `worker/custom.go`, `worker/memory_runner.go` | a task directory, a workspace quota | runBuiltinTask, runCustomTask, attachMemoryResults | retries, a binary shared by all tasks | one row per instance, failures attributed to the task |
| Results | `worker/parser.go` | none | parseCSV, AverageRows | missing values, weights | the average is over the rows that have the value |
| Instances and specs | `compressor/*.go` | none | ParseInstances, Canonicalize, labels, ParseSpec, archive extraction | uniqueness of labels, defaults | equal configurations are recognised, labels are distinct |
| Sequence files | `seqfile/normalize.go` | output files | NormalizeFile (bin, csv, zip, tar) | header detection, name collisions | one `.bin` per column or member |
| Presets, history | `service/preset_service.go`, `repository/preset_repository.go` | `benchmark_presets`, `benchmark_config_history` | Create, Update, Delete, RecordHistory | upsert and trim are two statements | history bounded, visibility by owner and group |
| Sessions | `service/auth_service.go`, `middleware/auth.go`, `model/token.go` | tokens, a Redis blocklist | Login, Logout, ChangePassword, JWTAuth, ResolveUser | blocklist entries expire; Redis may fail | a logged-out token is refused until it expires, as far as Redis answers |
| Rate limiter | `middleware/ratelimit.go` | Redis counters | Wrap | INCR and EXPIRE are two commands | at most the limit per window, no client locked out for ever |
| Migrations | `config/migrations.go` | `_migrations` | RunMigrations, Seed | apply and record are two steps | each migration applied once |
| Frontends, compression suite, scripts | `src/frontend`, `src/admin-frontend`, `src/compression`, `src/scripts` | | | | not modelled |

Its components meet in the database and in `DATA_DIR`: handlers insert benchmark
and task rows; the scheduler polls them every second (or when a goroutine
ends), claims tasks and spawns goroutines; goroutines write rows and files;
administrators change both. A restart drops all goroutines and keeps rows and
files.

The skill, `src/.opencode/skills/impeccable/scripts/...`:

| Component | Source | State | Operations | Hard part | Correct when |
| --- | --- | --- | --- | --- | --- |
| Event queue | `live-server.mjs`, `live-poll.mjs` | pending events with leases, parked polls, a timer | enqueue, lease, acknowledge, expire, restore | an agent dies with an event; the helper restarts | no event is lost or queued twice, no poll parked beside an event |
| Live session | `live-browser.js`, `live-server.mjs`, `live/session-store.mjs`, `live-poll.mjs`, `live/completion.mjs` | the tab's bar and timers, a journal on disk, the block in the source | Go, variants, accept, discard, cleanup, steer, resume | requests, an event stream and hot reload cross each other; reloads, restarts | what the bar confirms is in the source; the bar moves on |
| Staged copy edits | `live/manual-edits-buffer.mjs`, `live/manual-apply.mjs`, `live-commit-manual-edits.mjs`, `live/manual-edit-routes.mjs`, `live-browser.js` | a buffer, a transaction with a snapshot, the source | save, Apply in chunks, verify, repair, roll back, discard | the agent is slow, wrong or dead; late answers; restart in the middle | the source is what the user was told, no edit is lost |
| Variant blocks | `live-wrap.mjs`, `live-insert.mjs`, `live-accept.mjs` | lines of a source file | wrap, insert, accept, discard, cleanup of CSS | blocks of several sessions nest; HTML and JSX differ; staged edits | only an accept changes the page |
| Design hook | `hook.mjs`, `hook-lib.mjs`, `hook-before-edit.mjs`, `hook-admin.mjs` | a cache and a configuration per project | scan after an edit, gate before one, commands | processes share the cache without a lock and are killed after five seconds | an agent is told of each finding once, and never blocked for ever |
| Detector, Svelte previews, installers | `detector/`, `live/svelte-component.mjs`, ... | | | | not modelled |

The tab posts events to the helper; agents poll them, run the scripts that edit
the source, and reply; the helper broadcasts what happened to the tab, which
also sees the source through hot reload. The buffer of copy edits is read by the
scripts that wrap and accept. The hook runs beside all this, once per edit.

The list of hazards, each at the line where it bites, with the property that
covers it, is in `PROJECT.json`.

## 2. Modules

| Module | What it is |
| --- | --- |
| `BenchmarkScheduler` | the task scheduler with benchmark creation and administration: database, files, scheduler loop, goroutines, crashes, failing statements |
| `BenchmarkLifecycle` | abstract: what the owner of a benchmark sees (status and results) |
| `MCBenchmarkScheduler` | constants for TLC |
| `BenchmarkSchedulerProofs` | theorems about the scheduler: budget, ownership, inputs |
| `BenchmarkLifecycleProofs` | theorems about what the owner sees: results, progress, refinement of `BenchmarkLifecycle` |
| `CompressorPackages` | upload, build, replacement and deletion of compressor packages |
| `MCCompressorPackages` | constants for TLC |
| `CompressorPackagesProofs` | theorems about packages |
| `LiveQueue` | the event queue of the live-mode helper, on its own: any browser, any agents |
| `LiveSession` | a session from end to end; it extends `LiveQueue`, composes its actions with tab, journal, agents and source, and implements it (proved) |
| `MCLiveSession` | constants and the constraint for TLC |
| `LiveQueueProofs` | theorem about the queue |
| `LiveSessionProofs` | theorems about the session: it implements the queue, what is requested is queued, what is confirmed is written |
| `ManualEdits`, `MCManualEdits` | staged copy edits and their Apply |
| `ManualEditsProofs` | theorems about what an Apply leaves in the source and in the buffer |
| `VariantMarkers`, `MCVariantMarkers` | the blocks in a source file |
| `VariantMarkersProofs` | theorem about the blocks: the file parses, a session that is over leaves nothing |
| `EditHook`, `MCEditHook` | the design hook and its cache |
| `EditHookProofs` | theorems about what the hook tells, counts and denies |

### BenchmarkScheduler

*State.* `status`, `progress`, `results` are columns of `benchmarks` and the
rows of `benchmark_results` (a result is the set of tasks it averages); `task`
and `rows` are the status column of `benchmark_tasks` and whether its `result`
has a row; `created` orders benchmarks as `created_at` does. `files` is the
directory of a benchmark: absent, with its inputs, or re-created without them.
`phase`, `stranded`, `sweeping` and `candidate` are the local state of
`BenchmarkRunner.Run`; `running` is its atomic counter; `pc` and `outcome` are
the local state of every task's goroutine. `request` and `deleting` are HTTP
handlers that are half way.

*Actions.* One action is one SQL statement, one transaction that holds the
benchmark's row lock, or one step on the file system. `ClaimNext` is two
actions, because the candidate is selected before the lock is taken
(`PickCandidate`, then `ClaimTask` or `LoseCandidate`). `finalize` is one
(`CommitFinalize`), because `SELECT ... FOR UPDATE` keeps every other writer of
the benchmark row out and the insertion of its tasks waits for the foreign key;
the removal of the directory comes after the commit and is a step of its own
(`Cleanup`, `SweepFiles`). `processTask` and `handleTaskError` are the steps of
`pc`. `StatementFails` is a statement of a goroutine that returns an error: the
code logs or ignores it and goes on as `AfterError` says.

*Abstractions.*
- `runTask` after the check of its input is one step with every outcome
  (`RunTask`): rows, no rows, an error, a timeout. Retries are inside.
- The one-second ticker and the `wake` channel mean that `dispatch` may be
  retried at any time; they are not state.
- `UpdateProgressFromTasks` is one atomic statement. Under READ COMMITTED it may
  count rows an instant before it gets the row lock; the value is then
  overwritten by the finalize that follows in the same goroutine.
- A cancel that slips between the two tables of `CreateBatch` ends in the same
  state as one that ran before it (`InsertTasks` after `AdminCancel`).
- The priority of a group is constant; `created` stands for `created_at`.
- A graceful shutdown is a crash: contexts are cancelled and the process exits.
- A commit whose answer is lost, and containers that outlive the backend, are
  not modelled.

*Bounds.* `MaxCrashes` and `MaxFaults` bound restarts and failing statements;
nothing else is cut.

### BenchmarkLifecycle

The specification a user could be given: `Submit`, `Start`, `Publish`, `Fail`,
`Cancel`, `Remove`. Results appear in the step that makes a benchmark `ready`
and never otherwise; a benchmark that ended does not start again; a `ready` one
is final. It allows `Fail` of an ended benchmark because the code does that (see
the findings).

### CompressorPackages

*State.* `rows` is the table `compressor_packages`, by id; a row keeps its name,
owner, group, status, the archive it was last uploaded with (spec and checksum)
and `built_path`. An upload is named by the id of the workspace it creates
(`workID`), which is also the id of the row if it creates one. `workspace` is
`COMPRESSOR_DIR/<workID>`. `upload`, `target` and `stale` are the local state of
`UploadPackage` (where it is, `pkg.ID`, `existing.BuiltPath`); `build` and `seen`
that of the goroutine that runs `Build`; `deletion` and `victim` that of
`DeletePackage`. `usage` is a history variable: whether a request ever began on
a name on which another request or a build was under way.

*Actions.* One SQL statement or one step on the file system each, in the order
of the code: the archive is stored, the spec checked, the name looked up, the
old workspace removed, the row replaced or inserted, and `cleanup()` on every
error path; the build reads the row, runs the container, looks at the
entrypoint, and writes the status. `UpdateRow` is `UPDATE ... WHERE id`: without
a row it does nothing and is no error.

*Abstractions.* Everything that makes an archive unacceptable is one choice
(`CheckSpec`); so is everything a build container may do (`RunBuild`): build the
entrypoint, end with exit code 0 without it, fail, time out. A workspace that
was removed while its build runs stays removed: that Docker may create an empty
working directory again is not modelled. `Qualified` says whose entrypoint
contains a slash, because `verifyEntrypoint` looks at no other. Names are equal
or not: `spec.yaml` accepts lower case only, so `LOWER(name)` changes nothing.
The parts of a package that only a benchmark reads are left out.

*Bounds.* `MaxCrashes` and `MaxFaults`, as above.

### LiveQueue and LiveSession

*State.* `pendingEvents`, `pendingPolls` and `leaseTimer` are fields of `state`
in `live-server.mjs`; an entry has its event, its lease (none, live, expired) and
its place. `journal` is what the journal of a session rebuilds to; `source` and
`dom` are the session's block on disk and as the tab last got it; `stream` and
`inbox` are the tab's event stream; `bar`, `current`, `accepting`, `finishing`,
`arrived` and the timers are variables of `live-browser.js`; `calls` are its
requests under way or answered; `job` is what an agent does with its event.

*Actions.* The helper is one Node process, so a request handler or a timer
callback is one action, whole; so is a callback of the tab, and a run of a
script. A request is sent, arrives and is answered in three steps, and each may
fail (`RequestFails`, `ResponseLost`). The queue keeps no clock: a lease ends by
an action (`LeaseExpires`), and the timer that waits for it is armed, due or off.

*Abstractions.* What a variant looks like, picking, drawing, parameters,
screenshots as files. The order of the queue is a number per entry.

*Bounds.* `MaxFaults`, of the kinds `FaultKinds`; `MaxDecisions` (accepts and
discards), `MaxRevision` (checkpoints), and in `LiveSessionFaults` the constraint
`MostlyApart`: session and steer message are followed together up to the first
decision or fault only, as they meet nowhere but in the queue.

### ManualEdits

*State.* `source` has, per edit, the version its place in the source shows;
`broken` are files that fail the checks after an Apply; `buffer` and
`transaction` are the two JSON files; `commit` and `event` are the local state
of `commitManualEdits` and of the apply event it waits for, chunks and repair
attempts included; `agent` is what the agent works on; `locked`, `kept`,
`offered`, `disabled` are the tab's controls and `mail` the message it has yet to
handle. `applied` is history: the text that the Applies so far have left, as the
user was told. Where an edit was reported as failed that text may be a wrong one:
`findUnappliedEntrySourceChanges` looks for the text asked for only, so another
text that the agent left in a file it reported stays when the Apply ends
(`Overlooked`).

*Actions.* A request handler together with the continuations it sets off is one
action: `Reply` runs `ChunkDone`, `Verify`, `Repair` or `Return`, whichever the
code reaches. `Timeout` is the timer of `pushApplyEventAndWait`; `ReplyLate` is
an answer to an event that is over: `rollbackTimedOutReply` restores the files
as they were when that event was dispatched, whatever has become of the Apply
since (`Undo`). The agent gives a place any text (`EditEntry`), breaks and mends
files, reports what it likes, and works on after a timeout. `Restart` drops what
is in memory and rolls the transaction back.

*Abstractions.* One page, one tab, one agent at a time, one operation per edit.
Whether an edit is shown by the source is a fact; the search for evidence of it
is left out, and so are the runners other than the chat agent.

*Bounds.* `MaxVersion`; the constraint `OneHasMoreTexts`: the place of one of the
two edits gets wrong texts, and a second text to save, the other only the text it
had and the one asked for; and the constraint `Trusted`, which cuts two things.
`SettledSource` and `RollbackTarget` say nothing of what follows them:

- `stray`: the agent changed the source where neither a check of the helper nor a
  snapshot reaches: after a later chunk or a repair has timed out, or its helper
  was restarted; during a repair, in an entry that does not count as applied or a
  file that was not reported; in a file the transaction does not have. Or an
  agent whose first event timed out dies, meets a restart or a new Apply with
  work its late answer would have undone.
- `undone`: a late answer to a later chunk or to an attempt to repair has come.
  Nobody but the helper changes the source there, and it may be wrong:
  `rollbackTimedOutReply` restores a snapshot that was right when the event was
  dispatched and is not any more. `LateAnswer` runs without the constraints and
  finds that `ToldStays` does not hold: an edit that "Keep fixing" has reported
  as applied leaves the source (`AppliedStays`). With "Roll back" in place of
  "Keep fixing" the same answer puts the changes of the Apply back
  (`RolledBackStays`).

A late answer to the *first* event of an Apply is in both properties. `Late` is the
time until it comes: what the agent does meanwhile is undone by it, and
`SettledSource` speaks of the source when no answer is outstanding.

### VariantMarkers

*State.* A file is a sequence of lines; a line is a tag, a text, a comment or
blank, and has an indentation, the session that it belongs to, and what it is
there for. `staged` are texts with a copy edit.

*Actions.* `Wrap`, `Insert`, `Accept` and `Discard` are one run of a script,
which reads the file and writes it whole. The agent writes the variants
(`WriteVariants`) and folds the CSS in (`Carbonize`).

*Abstractions.* An element has its tag on a line of its own, or is a text on one
line. The file and the element to wrap are found: any that `findElement` can
start at. Attributes and CSS text are left out; Svelte sessions work on other
files.

*Bounds.* A session is wrapped once; nothing else is cut.

### EditHook

*State.* `content` is what the detector finds in a file; `cache` and `config` are
the project's two JSON files; `hook` is the local state of the processes, with
their copy of the cache (`snap`). `told`, `repeated`, `denied`, `made` and
`serial` are history.

*Actions.* `StartHook` reads cache and configuration, `Scan` scans one file,
`Truncate` and `Persist` are the two steps of `writeFileSync`, `Answer` writes to
the agent. `CheckWrite` and `AnswerWrite` are the gate for Cursor. `Configure`
and `Reset` are the commands of `hook-admin.mjs`. Faults are a kill at any step
(`Killed`), a detector that throws, and a cache that cannot be written.

*Abstractions.* What the detector finds is free, with every edit. Among answers
without a new finding the code chooses an acknowledgement, a notice or silence:
these tell nothing new and are left out. Patches have at most as many files as a
hook scans, and findings stay below the limits of one answer.

*Bounds.* `MaxEdits`, and `MaxUpsets` for commands and faults together.

## 3. Runs

The scheduler's instance has benchmark `b1` with tasks `t1`, `t2` of one worker
and `b2` with task `t3` of two workers and a higher priority. That is the
smallest instance with siblings (concurrent finalize, cancelled siblings), a
choice between benchmarks, and a task that must wait for units of another. A
budget of 3 lets any two but not all three run; a budget of 2 makes `t3` wait
for both.

| Run | Checks | Shows |
| --- | --- | --- |
| `SchedulerFaults` | `SchedulerInvariant`, `TypeOK`, `BudgetRespected`, `TaskOwnership`, `InputsOutliveTasks`, `ResultsIffReady`, `PublishesEveryTask` | a cancel of `b1`, a delete of `b2`, one restart and one ignored error at any point break neither budget nor ownership nor inputs; without the error results are whole, and shown exactly when the benchmark is `ready` |
| `SchedulerLive` | `EveryBenchmarkEnds`, `NoneStaysInProgress`, `SettledProgress`, `EndedRunLeavesNoFiles`, refinement of `BenchmarkLifecycle` | everything ends, a restart included; without it the last goroutine always finalizes and cleans up, and leaves the progress at 100% |
| `CancelOverwritten` | `CancelledIsFinal` violated | cancelled, then a running task fails: `failed` |

`PublishesEveryTask` and `ResultsIffReady` are stated for runs in which no
statement failed. With one they do not hold: a task whose benchmark could not be
loaded is cancelled and left out of the average (`benchmark_runner.go:162`), and
a status is written after its transaction was rolled back.

Files go at the end of a run that nobody disturbs (`EndedRunLeavesNoFiles`).
They stay after a cancel that meets no running task, and after a restart
between finalize's commit and the removal of the directory: recovery looks at
benchmarks that are `in_progress` only.

The packages' instance has one name, two uploads by a phd student, one by a
professor of the group she moves to in between, and two deletions, by the
professor and by an administrator. Three uploads are the least for a
replacement to meet a name that was deleted and taken by another user; one name
is enough because nothing but the name and the owner relates two packages.

| Run | Checks | Shows |
| --- | --- | --- |
| `PackagesOverlap` | `TypeOK`, `RowOwnsPath`, `OnlyManagersRemove`, `BuildingHasWorkspace`, `SerialUseIsSafe`, `BuildEnds` | every order of the steps, one restart and one failing statement |

`SerialUseIsSafe`: as long as no request begins while another request or a build
of that name is under way, a ready package runs the archive it was last uploaded
with. The interface does not enforce that order, and without it the build of a
replaced upload can end last and set its removed workspace `ready`. `BuildEnds`
is stated for runs without a restart or a failing statement.

The live session's instance is one session and one steer message, with one
agent that may die and be followed by another. One session is enough for what
the properties say of a session; the queue's part for any number is proved.

| Run | Checks | Shows |
| --- | --- | --- |
| `LiveSessionFaults` | `TypeOK`, `QueueInvariant`, `PendingIsQueued`, `ConfirmedIsWritten`, refinement of `LiveQueue` | any two faults: restart of the helper, lost request, response or stream, reload, end of a lease, death of an agent |
| `LiveSessionLive` | `EventsAreHandled`, `BarMovesOn` | two decisions with one fault: events are dealt with, and a bar that is told of it moves on |
| `LiveReplayLost` | `UnacknowledgedIsDurable` violated | the answer to a generate arrives after the accept and takes it out of the journal |
| `ManualEdits` | `TypeOK`, `SettledSource`, `RollbackTarget`, `NoEditLost`, `CommitEnds` | two edits in two files, sent in two chunks, two repair attempts, any number of "Keep fixing" and of late answers |
| `LateAnswer` | `ToldStays` violated | a late answer to a repair takes out an edit that "Keep fixing" has verified and reported as applied |
| `VariantMarkers` | `TypeOK`, `IndentRestored`, `OneChild`, `OnlyAcceptChanges`, `AcceptIsExact`, `EditLeavesWithItsText` | an element with two children, two sessions with two variants each, one inside or beside the other, in HTML and JSX |
| `StagedEditInSource` | `EditsStayStaged` violated | a discard leaves in the source the copy edits the wrap had put into its copy |
| `EditHook` | `TypeOK`, `CountedWasMade`, `ExactOneByOne`, `NothingIsKept` | two processes, two sessions and one behind the gate, a component and its stylesheet, three edits, room for two sessions in the cache, a threshold of one |

Two chunks are the least for one to fail after another succeeded; two processes
for an overlap; three sessions with room for two for an eviction; three edits
with a threshold of one for a file to be edited, and a write denied, too often.
`AcceptIsExact` and `OnlyAcceptChanges` leave out blocks that hold a variant, or
for an insert an original, of another session: `extractVariant` looks for a
number and `extractOriginal` for an attribute, and would take the inner one.
`NothingIsKept` leaves out runs with a fault: a hook that is killed between
`persistCache` and its answer has remembered what it never told.

Deadlock is not checked except in `ManualEdits`: when every benchmark has ended,
every request was answered, every session is over or the bounds are reached, the
system rightly has nothing to do.

*Fairness.* The scheduler loop is woken by its ticker, goroutines run until they
return (`BENCH_TIMEOUT_SECONDS` bounds `runTask`, the build timeout `Build`), and
a handler that was called returns: weak fairness of `Scheduler`, of every
`Goroutine`, of `CreateBenchmark` after its first step, of `AdminDeleteRow`, and
of `UploadPackage`, `Build` and `DeletePackage` once they began. Users,
administrators, crashes and faults are never forced.

In `LiveSession` the timers and callbacks of the tab, arriving requests, the
reconnecting stream, the helper's start, its timer and the agents' loop are
fair; a lease that nobody works under ends. The user decides as he likes. In
`ManualEdits` only `Timeout` is fair: agent and user may do nothing for ever.

Every property has a mutant in `PROJECT.json`: an operator in the module, marked
`Mutant`, which replaces the real one by a plausible bug that violates it.

## 4. Proofs

`BenchmarkSchedulerProofs` proves for every set of benchmarks and tasks, every
budget, and any bound on crashes and faults:

- `TypeCorrect`: `TypeOK` is invariant.
- `OwnershipSafe`: `TaskOwnership`. It is not inductive alone: that a claimed
  row has no goroutine yet needs that tasks appear only with a request that has
  no goroutines (`BeforeSubmission`), that recovery precedes every claim
  (`RecoveryFirst`), that a row never outlives its benchmark
  (`TasksHaveBenchmark`), and that only a row already gone is abandoned
  (`AbandonedRowIsGone`); together `RowInvariant`.
- `BudgetSafe`: `BudgetRespected`, with `CandidateFits`: the units that were
  free when the candidate was picked are still free when it is claimed, because
  goroutines only give units back. A sum of costs is written as the size of a
  set of units, so that adding a task (`CostOfOneMore`) is a fact about
  cardinalities and needs no induction.
- `InputsSafe`: `InputsOutliveTasks`, with `RowsGoBeforeFiles` (a directory is
  removed only after finalize dropped the rows) and `InputsComeFirst`.

`SchedulerInvariant` is the conjunction of all these parts and of
`LifecycleInvariant` and `ProgressInvariant` below; the run `SchedulerFaults`
checks it with TLC. The proofs assume `ShapeAssumption` (the types of the
constants, finitely many tasks) and `BudgetAssumption` (the budget is at least
1, as `NewBenchmarkRunner` enforces, and no task costs more than it, as
`resolveInstances` does), which TLC evaluates in every run.

`BenchmarkLifecycleProofs` goes on, from the same assumptions, to what the owner
of a benchmark sees. A statement that fails can separate a task's row from its
goroutine or a status from its results, so the invariant is
`LifecycleInvariant`: while none has failed, `Undisturbed`. It says that the
tasks of a benchmark have all a row or none (`AllRowsOrNone`), that a row's
status follows its goroutine's step (`RowFollowsGoroutine`), that a queued row
has no goroutine (`QueuedIsIdle`), that a row is cancelled only behind an ended
benchmark (`CancelledRowsHaveEnded`), that nothing of a ready benchmark is left
to do (`ReadyIsOver`, `ReadyHasResults`), and what a request under way has not
inserted yet (`NotYetInserted`).

- `ResultsComeWithReady`: `ResultsIffReady`; `PublishesAll`:
  `PublishesEveryTask`, an action property.
- `LifecycleImplemented`: `Spec /\ []NoFaultSoFar => ImplementsLifecycle`. Every
  step maps to one of `Submit`, `Start`, `Publish`, `Fail`, `Cancel`, `Remove`,
  or leaves status and results alone; there is one `Refine...` lemma per action
  that touches them. Cancellations, deletions and restarts are among the steps.
- `ProgressSettles`: `SettledProgress`, for runs without a crash or a failing
  statement. An ended benchmark below 100% has a goroutine that has its
  finalize before it (`SomebodyFinishes`); that holds on because a goroutine
  that drains the queue, or none at all, is behind every row left queued
  (`QueuedIsLeft`).
- `SchedulerSafe`: `SchedulerInvariant` as a whole.

`CompressorPackagesProofs` proves for every set of uploads, users, names and
deletions, from `PackagesAssumption` (the types of the constants):

- `WorkspaceOwnership`: `RowOwnsPath`. The owner of a name is checked on a row
  that may be deleted, and its name taken by another user, before the request
  goes on. The inductive invariant `PackagesInv` therefore speaks of what every
  request, build and deletion carries with it: an id that is never reused
  (`RequestsInv`, `BuildsInv`), and paths of the same package. An `UPDATE` by
  that id meets the row it means or none (`UpdateKeepsRows`).
- `RemovalIsAuthorized`: `OnlyManagersRemove`, from the same invariant; the path
  a deletion carries is one its actor could remove when it was read
  (`VictimsInv`).
- `PackagesTypeCorrect`: `TypeOK`, with the relation of status and path.
- `BuildsHaveWorkspaces`: `BuildingHasWorkspace`, for runs without a restart or
  a failing statement. A workspace is removed under the path a request or a
  deletion remembers, so the invariant says that a path stays with the id it was
  accepted for (`HeldBy`, for every row, request, build and deletion that
  carries it), and that a request's own archive stays unpacked until it is
  accepted (`OwnWorkspace`).
- `SerialUse`: `SerialUseIsSafe`, for the same runs, from `SerialInv`: while
  every name was used in order, at most one upload or build is under way for
  it, and none beside a deletion (`OneByOne`), a build has read the row as it
  still is (`BuildIsCurrent`), and a ready row has the workspace of its archive
  (`ReadyHasWorkspace`).

`LiveQueueProofs` proves `QueueSafe`: the queue keeps `QueueTypeOK` and
`QueueInvariant` for any ids, any pollers and any number of restarts, from
`QueueAssumption`. Every handler ends in `FlushPendingPolls`, which gives as
many events to parked polls as there are of both; `FlushIsSafe` proves it once,
from a good queue (finite, totally ordered, one entry per event), and every
handler is then a lemma that its queue is good.

`LiveSessionProofs` proves for every number of sessions, steer messages,
agents, faults and decisions, from `SessionAssumption` and `QueueAssumption`,
with the inductive invariant `SessionInv` (one part each for queue, helper,
journal, calls, messages, agent, source and tab):

- `SessionImplementsQueue`: `Spec => QueueSpec`. A step of the session takes at
  most one step of the queue. What has to be shown is that an operation of the
  queue is called with its arguments right: an event of the journal that is
  restored at a start, or one that a stale page posts. So
  `SessionQueueIsSafe`: the queue of a session has `QueueInvariant`.
- `RequestsAreQueued`: `PendingIsQueued`. It is part of the invariant; what the
  queue's operations keep (`KeptNext`) and where their entries come from
  (`DrawnNext`) are lemmas about the queue, and every step is of one of a few
  kinds (`StepKinds`): it posts an event, answers one, hands some out, or leaves
  queue and journal alone.
- `ConfirmedIsInSource`: `ConfirmedIsWritten`. The invariant follows the accept
  from the script's write, through the agent's reply and the message in the
  stream, to the tab's timer: each of these carries a session whose accepted
  variant is in the source already.
- `SessionTypeCorrect`: `TypeOK`.

`ManualEditsProofs` proves for every finite set of edits, any files, versions,
chunk size and attempts, from `EditsAssumption`, with the inductive invariant
`EditsInv`. What an agent may reply makes many cases; a lemma per case shows
that every reply and every timeout has one `Outcome`: the Apply is rolled back,
ends with edits that the source shows, is repaired, or goes on to its next
chunk. Each outcome is then shown once to keep the invariant.

- `SourceSettles`: `SettledSource`; `RollbackRestores`: `RollbackTarget`. Both
  hold until one of the two things that `Trusted` cuts has happened (`stray`,
  `undone`, above), and so does the part of the invariant they rest on,
  `TrustedInv`: the snapshot of the transaction has the applied text of every
  edit in its files, a file outside it shows what is applied (`TargetInv`); what
  an Apply has written so far is of its batch, and a repair's is of what counts
  as applied, or a text nobody looks for (`ProgressInv`, `AsTold`). For an agent
  that works on after its first event has timed out, the Apply gets no further
  than that event (`FirstInv`), what its answer will restore is what is applied,
  and elsewhere it has changed nothing (`LateInv`); so its answer makes the
  source what the user was told (`LateIsUndone`).
- `NothingLost`: `NoEditLost`, an action property, of every step.
- `EditsTypeCorrect`: `TypeOK`.

`EditHookProofs` proves for every set of sessions, files, findings and
processes, from `HookAssumption` (the types of the constants, limits of at least
one), with the inductive invariant `HookInv`:

- `HookTypeCorrect`: `TypeOK`. A process may hold a cache with more sessions
  than fit, so the invariant asks of it only that each is there once (`Snaps`),
  and `EvictedKept` restores the rest when it is written.
- `HookKeepsNothing`: `NothingIsKept`. It is not enough to speak of the answer:
  what the cache, or a copy of it that a process holds, knows for a session must
  be *promised* to it, by having been told, by an answer on its way, or by the
  answer of the process that holds the copy (`Promises`). `StepKeeps` reduces
  each action to what it does to the copy and the answer of one process.
- `HookCountsEdits`: `CountedWasMade`. Inductive is that any count, on disk or
  in a copy, together with the processes that have still to count their edit
  (`Pending`) is at most the edits made (`Counting`).
- `HookExact`: `ExactOneByOne`. It speaks of the sessions of which nothing was
  ever forgotten (`serial`): not by hooks that overlap, nor by a kill, a reset or
  an eviction. While there is one, at most one process holds the cache. The
  invariant `OneByOne` speaks of the cache as the next process will read it
  (`Latest`: the copy of the process that holds it, or the file): what a session
  was told or is owed is known there and owed once (`TellsOnce`), and the denials
  it got or is about to get are within the threshold and within the count there
  (`DeniesSeldom`).

`VariantMarkersProofs` proves for every file, any sessions, any number of variants
and any nesting of blocks, from `MarkersAssumption`:

- `MarkersTypeCorrect`: `TypeOK`, whose last two parts are what counts: the
  `<div>`s of the file nest, and a line of a block is there only while its
  session is open or its CSS is to be folded in. They are not inductive: an
  accept cuts the file from one line to another, both found by looking for
  attributes, and what it cuts may hold other blocks, or lie in one. So the
  invariant `IInv` says how the lines of every session lie (`Structured`). A
  session has no line, or its lines are one frame (`Frame`): a `<div>`, the marks
  before and after it, and some of its children, all of them but for empty lines
  in a block that is open (`Standing`, with the comments inside of the `<div>` in
  JSX and outside in HTML). A `<div>` is spoken of by the depth at its lines
  (`Elem`, `Balanced`).
- The argument: of two frames, or a frame and an element, one is before, after
  or around the other, or inside a child of it (`FramesApart`, `InteriorApart`).
  Every action is an `Edit`: it replaces some balanced lines by others, of which a
  part is kept as it was but for its place, and brings lines of one session
  only. What an accept or a discard finds is shown to be such a part
  (`OriginalPiece`, `VariantPiece`), of whosesoever block it is. An edit then
  moves the frame of any other session whole, makes it longer between two of its
  children or inside one, or removes all of it (`OthersCarried`, `OthersStand`),
  and the lines of its own session are a frame again or gone (`WrapperBlock`,
  `CarbonBegun`, `SwapGone`).

Only model-checked: of `VariantMarkers`, `IndentRestored`, `OneChild`,
`OnlyAcceptChanges`, `AcceptIsExact` and `EditLeavesWithItsText`, which need besides
the frames what becomes of every line inside them; and liveness, which is out of
the prover's reach:
`EveryBenchmarkEnds`, `NoneStaysInProgress`, `EndedRunLeavesNoFiles`,
`BuildEnds`, `EventsAreHandled`, `BarMovesOn`, `CommitEnds`. The violated
properties are refuted by their runs.

## 5. Not modelled

- *Task execution, Docker runner*: what a container does is one choice of
  `RunTask` and of `RunBuild`; retries, quotas and the memory harness are left.
- *Results, instances and specs, sequence files*: pure functions over text and
  numbers, whose unit tests reach what a model over small inputs would.
- *Presets and history, sessions, users and groups, rate limiter, migrations,
  email*: one or two statements per request around a database or Redis; the
  scheduler and the packages, where requests overlap for long, come first.
- *Frontends*: they show what the REST interface answers and keep no state that
  another component relies on.
- *Detector, Svelte previews, installers of the skill*: rules over one text,
  generated components, manifests.
- *In the browser part of live mode*: picking, drawing, styling, parameters.

## 6. Plan

1. Task execution: retries, timeouts, containers, and the package a custom task
   finds when it runs.
2. Presets and history, the rate limiter, the blocklist of sessions.
3. Proofs: what an accept, a discard or a wrap does to every line inside a block
   (`OnlyAcceptChanges`, `AcceptIsExact`, `OneChild`); what holds of the scheduler
   once a statement has failed.
