------------------------- MODULE BenchmarkScheduler -------------------------
(***************************************************************************)
(* The benchmark task scheduler of the backend: benchmark rows and task    *)
(* rows in PostgreSQL, the uploaded files under DATA_DIR, the scheduler    *)
(* loop that claims tasks against one budget of worker units, and the      *)
(* goroutine of every claimed task.                                        *)
(*                                                                         *)
(* One action is one SQL statement, one transaction, or one step on the    *)
(* file system; everything between two of them is local to one goroutine.  *)
(* PostgreSQL runs at READ COMMITTED: a transaction is one action here     *)
(* only where it holds the benchmark row lock (FOR UPDATE), which every    *)
(* other writer of that row, the foreign key check of an inserted task     *)
(* included, has to wait for.                                              *)
(***************************************************************************)
EXTENDS Integers, FiniteSets, Sequences

CONSTANTS
    Benchmarks,     \* ids of the benchmarks users may create
    Tasks,          \* ids of their tasks
    BenchmarkOf,    \* the benchmark a task belongs to
    SeqNo,          \* a task's number within its benchmark (column seq)
    Workers,        \* a task's cost in worker units (column workers)
    Priority,       \* priority of the group of a benchmark's owner
    Budget,         \* MAX_PARALLELISM: worker units of the scheduler
    NoTask,         \* "ClaimNext has no candidate"
    Outcomes,       \* how runTask may end
    Cancellable,    \* benchmarks an administrator may cancel
    Deletable,      \* benchmarks an administrator may delete
    MaxCrashes,     \* bound: restarts of the backend
    MaxFaults       \* bound: database statements that return an error

ASSUME ShapeAssumption ==
    /\ IsFiniteSet(Tasks)
    /\ NoTask \notin Tasks
    /\ BenchmarkOf \in [Tasks -> Benchmarks]
    /\ SeqNo \in [Tasks -> Nat]
    /\ Priority \in [Benchmarks -> Nat]
    /\ Outcomes \subseteq {"rows", "no_rows", "failed", "timed_out"}
    /\ Cancellable \subseteq Benchmarks
    /\ Deletable \subseteq Benchmarks
    /\ MaxCrashes \in Nat
    /\ MaxFaults \in Nat

\* NewBenchmarkRunner raises a budget below one to one; resolveInstances
\* refuses a package that needs more workers than MAX_PARALLELISM.
ASSUME BudgetAssumption ==
    /\ Budget \in Nat \ {0}
    /\ Workers \in [Tasks -> 1..Budget]

VARIABLES
    \* --- the database ---
    status,         \* benchmarks.status, "none" where there is no row
    progress,       \* benchmarks.progress
    task,           \* benchmark_tasks.status, "none" where there is no row
    rows,           \* tasks whose result column holds at least one row
    results,        \* tasks whose rows were averaged into benchmark_results
    created,        \* benchmarks in the order of their tasks' created_at
    \* --- DATA_DIR ---
    files,          \* a benchmark's directory: "absent", "inputs", "bare"
    \* --- the backend process ---
    phase,          \* where BenchmarkRunner.Run is
    stranded,       \* ids finalizeStranded has still to finalize
    sweeping,       \* what finalizeStranded has still to do after its transaction
    candidate,      \* the task ClaimNext selected and has not locked yet
    running,        \* the atomic counter of running worker units
    pc,             \* where a task's goroutine is; "idle" if it has none
    outcome,        \* how its runTask ended
    request,        \* where the CreateBenchmark call of a benchmark is
    deleting,       \* AdminDeleteBenchmark calls between files and row
    \* --- bounds ---
    crashes, faults

database == <<status, progress, task, rows, results, created>>
runner == <<phase, stranded, sweeping, candidate, running, pc, outcome>>
handlers == <<request, deleting>>
bounds == <<crashes, faults>>
vars == <<database, files, runner, handlers, bounds>>

Terminal == {"ready", "failed", "timed_out", "cancelled"}
Claimable == {"queued", "in_progress"}
BenchmarkStatus == Terminal \cup Claimable \cup {"none"}
TaskStatus == {"none", "queued", "running", "done", "failed", "cancelled"}
Phase == {"reset", "recover", "sweep", "dispatch"}
Step == {"idle", "load", "abandon", "discard", "stat", "run", "complete",
         "progress", "fail", "mark", "drain", "finalize", "persist",
         "cleanup", "exit"}
AnyOutcome == {"rows", "no_rows", "failed", "timed_out"}
Request == {"new", "stored", "inserted", "rollback", "unstore", "done"}

TypeOK ==
    /\ status \in [Benchmarks -> BenchmarkStatus]
    /\ progress \in [Benchmarks -> 0..100]
    /\ task \in [Tasks -> TaskStatus]
    /\ rows \in SUBSET Tasks
    /\ results \in [Benchmarks -> SUBSET Tasks]
    /\ created \in Seq(Benchmarks)
    /\ files \in [Benchmarks -> {"absent", "inputs", "bare"}]
    /\ phase \in Phase
    /\ stranded \in SUBSET Benchmarks
    /\ sweeping \in SUBSET (Benchmarks \X {"cleanup", "persist"})
    /\ candidate \in Tasks \cup {NoTask}
    /\ running \in Int
    /\ pc \in [Tasks -> Step]
    /\ outcome \in [Tasks -> AnyOutcome]
    /\ request \in [Benchmarks -> Request]
    /\ deleting \in SUBSET Benchmarks
    /\ crashes \in 0..MaxCrashes
    /\ faults \in 0..MaxFaults

Init ==
    /\ status = [b \in Benchmarks |-> "none"]
    /\ progress = [b \in Benchmarks |-> 0]
    /\ task = [t \in Tasks |-> "none"]
    /\ rows = {}
    /\ results = [b \in Benchmarks |-> {}]
    /\ created = <<>>
    /\ files = [b \in Benchmarks |-> "absent"]
    /\ phase = "reset"
    /\ stranded = {}
    /\ sweeping = {}
    /\ candidate = NoTask
    /\ running = 0
    /\ pc = [t \in Tasks |-> "idle"]
    /\ outcome = [t \in Tasks |-> "failed"]
    /\ request = [b \in Benchmarks |-> "new"]
    /\ deleting = {}
    /\ crashes = 0
    /\ faults = 0

-----------------------------------------------------------------------------
(* Queries *)

TasksOf(b) == {t \in Tasks : BenchmarkOf[t] = b}

InStatus(b, S) == {t \in TasksOf(b) : task[t] \in S}

Pending(b) == InStatus(b, {"queued", "running"})

\* Worker units are counted one by one, so that a sum of costs is the size of
\* a set of units.
Units(S) == {u \in S \X (1..Budget) : u[2] <= Workers[u[1]]}

Cost(S) == Cardinality(Units(S))

Goroutines == {t \in Tasks : pc[t] # "idle"}

\* Mutant: cancelled and failed rows count as ended, not as tasks.
PercentageOfTheRest(b) ==
    LET total == Cardinality(InStatus(b, {"queued", "running", "done"}))
        ended == Cardinality(InStatus(b, {"done", "failed", "cancelled"}))
    IN IF total = 0 THEN 0 ELSE (ended * 100) \div total

\* UpdateProgressFromTasks: 0 when the benchmark has no task rows.
Percentage(b) ==
    LET total == Cardinality(InStatus(b, TaskStatus \ {"none"}))
        ended == Cardinality(InStatus(b, {"done", "failed", "cancelled"}))
    IN IF total = 0 THEN 0 ELSE (ended * 100) \div total

\* The rows that a deleted benchmark takes with it (ON DELETE CASCADE).
DeleteBenchmarkRow(b) ==
    /\ status' = [status EXCEPT ![b] = "none"]
    /\ progress' = [progress EXCEPT ![b] = 0]
    /\ task' = [t \in Tasks |-> IF t \in TasksOf(b) THEN "none" ELSE task[t]]
    /\ rows' = rows \ TasksOf(b)
    /\ results' = [results EXCEPT ![b] = {}]
    /\ UNCHANGED created

\* A statement that returns an error, within the bound.
Fault ==
    /\ faults < MaxFaults
    /\ faults' = faults + 1
    /\ UNCHANGED crashes

-----------------------------------------------------------------------------
(* Creating a benchmark (BenchmarkService.CreateBenchmark) *)

\* Sources stored and normalized to .bin files under DATA_DIR/<id>.
StoreUpload(b) ==
    /\ request[b] = "new"
    /\ request' = [request EXCEPT ![b] = "stored"]
    /\ files' = [files EXCEPT ![b] = "inputs"]
    /\ UNCHANGED <<database, runner, deleting, bounds>>

\* Normalization, or the INSERT of the benchmark, fails: nothing was inserted.
RejectUpload(b) ==
    /\ request[b] = "stored"
    /\ request' = [request EXCEPT ![b] = "done"]
    /\ files' = [files EXCEPT ![b] = "absent"]
    /\ UNCHANGED <<database, runner, deleting, bounds>>

InsertBenchmark(b) ==
    /\ request[b] = "stored"
    /\ request' = [request EXCEPT ![b] = "inserted"]
    /\ status' = [status EXCEPT ![b] = "queued"]
    /\ UNCHANGED <<progress, task, rows, results, created, files, runner,
                   deleting, bounds>>

\* CreateBatch, a transaction of its own: the benchmark row is already
\* visible, and may have been cancelled.
InsertTasks(b) ==
    /\ request[b] = "inserted"
    /\ status[b] # "none"
    /\ request' = [request EXCEPT ![b] = "done"]
    /\ task' = [t \in Tasks |-> IF t \in TasksOf(b) THEN "queued" ELSE task[t]]
    /\ created' = Append(created, b)
    /\ UNCHANGED <<status, progress, rows, results, files, runner, deleting,
                   bounds>>

\* CreateBatch fails: the benchmark was deleted (foreign key), or an error.
InsertTasksFails(b) ==
    /\ request[b] = "inserted"
    /\ \/ status[b] = "none" /\ UNCHANGED bounds
       \/ Fault
    /\ request' = [request EXCEPT ![b] = "rollback"]
    /\ UNCHANGED <<database, files, runner, deleting>>

\* The benchmark row is deleted again, with the request's context: a client
\* that went away fails this statement too, and the error is ignored.
UndoInsert(b) ==
    /\ request[b] = "rollback"
    /\ \/ DeleteBenchmarkRow(b) /\ UNCHANGED bounds
       \/ UNCHANGED database /\ Fault
    /\ request' = [request EXCEPT ![b] = "unstore"]
    /\ UNCHANGED <<files, runner, deleting>>

UndoUpload(b) ==
    /\ request[b] = "unstore"
    /\ request' = [request EXCEPT ![b] = "done"]
    /\ files' = [files EXCEPT ![b] = "absent"]
    /\ UNCHANGED <<database, runner, deleting, bounds>>

CreateBenchmark(b) ==
    \/ InsertBenchmark(b) \/ RejectUpload(b)
    \/ InsertTasks(b) \/ InsertTasksFails(b)
    \/ UndoInsert(b) \/ UndoUpload(b)

-----------------------------------------------------------------------------
(* Administrators *)

\* One transaction on the benchmark row and its queued tasks; nothing else.
AdminCancel(b) ==
    /\ b \in Cancellable
    /\ status[b] \in Claimable
    /\ status' = [status EXCEPT ![b] = "cancelled"]
    /\ progress' = [progress EXCEPT ![b] = 100]
    /\ task' = [t \in Tasks |-> IF t \in InStatus(b, {"queued"})
                                THEN "cancelled" ELSE task[t]]
    /\ UNCHANGED <<rows, results, created, files, runner, handlers, bounds>>

AdminDeleteFiles(b) ==
    /\ b \in Deletable \ deleting
    /\ status[b] # "none"
    /\ files' = [files EXCEPT ![b] = "absent"]
    /\ deleting' = deleting \cup {b}
    /\ UNCHANGED <<database, runner, request, bounds>>

AdminDeleteRow(b) ==
    /\ b \in deleting
    /\ deleting' = deleting \ {b}
    /\ DeleteBenchmarkRow(b)
    /\ UNCHANGED <<files, runner, request, bounds>>

-----------------------------------------------------------------------------
(* finalize: one transaction under the benchmark row lock *)

\* No row, or a task is still queued or running: the transaction rolls back.
NothingToFinalize(b) == status[b] = "none" \/ Pending(b) # {}

\* Mutant: finalize leaves the percentage where the last task left it.
EndWithoutProgress(b) ==
    /\ ~NothingToFinalize(b)
    /\ task' = [t \in Tasks |-> IF t \in TasksOf(b) THEN "none" ELSE task[t]]
    /\ rows' = rows \ TasksOf(b)
    /\ UNCHANGED <<progress, created>>

\* What every committing branch does besides setting the status.
EndBenchmark(b) ==
    /\ ~NothingToFinalize(b)
    /\ progress' = [progress EXCEPT ![b] = 100]
    /\ task' = [t \in Tasks |-> IF t \in TasksOf(b) THEN "none" ELSE task[t]]
    /\ rows' = rows \ TasksOf(b)
    /\ UNCHANGED created

DropTasks(b) ==
    /\ status[b] \in Terminal
    /\ EndBenchmark(b)
    /\ UNCHANGED <<status, results>>

\* Mutants: the check for an empty average, or for a failed task, is missing.
HasNoTaskDone(b) == \/ InStatus(b, {"failed"}) # {}
                    \/ InStatus(b, {"done"}) = {}

HasNoRow(b) == InStatus(b, {"done"}) \cap rows = {}

\* A failed task, or no task done, or no result row in any of them.
HasNoResult(b) ==
    \/ InStatus(b, {"failed"}) # {}
    \/ InStatus(b, {"done"}) \cap rows = {}

FailBenchmark(b) ==
    /\ status[b] \in Claimable
    /\ HasNoResult(b)
    /\ EndBenchmark(b)
    /\ status' = [status EXCEPT ![b] = "failed"]
    /\ UNCHANGED results

PublishResults(b) ==
    /\ status[b] \in Claimable
    /\ ~HasNoResult(b)
    /\ EndBenchmark(b)
    /\ status' = [status EXCEPT ![b] = "ready"]
    /\ results' = [results EXCEPT ![b] = InStatus(b, {"done"}) \cap rows]

\* InsertTx of an averaged row may fail: the transaction is rolled back and the
\* benchmark is marked failed by a statement of its own.
InsertMayFail(b) ==
    /\ ~NothingToFinalize(b)
    /\ status[b] \in Claimable
    /\ ~HasNoResult(b)

CommitFinalize(b) == DropTasks(b) \/ FailBenchmark(b) \/ PublishResults(b)

-----------------------------------------------------------------------------
(* The scheduler loop (BenchmarkRunner.Run) *)

\* Mutant: tasks found running at startup are left alone.
ResetNothing ==
    /\ phase = "reset"
    /\ phase' = "recover"
    /\ UNCHANGED <<database, files, stranded, sweeping, candidate, running, pc,
                   outcome, handlers, bounds>>

ResetRunning ==
    /\ phase = "reset"
    /\ phase' = "recover"
    /\ \/ /\ task' = [t \in Tasks |-> IF task[t] = "running"
                                      THEN "queued" ELSE task[t]]
          /\ UNCHANGED bounds
       \/ UNCHANGED task /\ Fault
    /\ UNCHANGED <<status, progress, rows, results, created, files, stranded,
                   sweeping, candidate, running, pc, outcome, handlers>>

\* Mutant: only benchmarks that were never claimed are looked at.
ListUnclaimed ==
    /\ phase = "recover"
    /\ phase' = "sweep"
    /\ stranded' = {b \in Benchmarks : status[b] = "queued" /\ Pending(b) = {}}
    /\ UNCHANGED <<database, files, sweeping, candidate, running, pc, outcome,
                   handlers, bounds>>

ListStranded ==
    /\ phase = "recover"
    /\ phase' = "sweep"
    /\ \/ /\ stranded' = {b \in Benchmarks : /\ status[b] = "in_progress"
                                             /\ Pending(b) = {}}
          /\ UNCHANGED bounds
       \/ UNCHANGED stranded /\ Fault
    /\ UNCHANGED <<database, files, sweeping, candidate, running, pc, outcome,
                   handlers>>

FinalizeStranded(b) ==
    /\ b \in stranded
    /\ sweeping = {}
    /\ stranded' = stranded \ {b}
    /\ \/ /\ CommitFinalize(b)
          /\ sweeping' = {<<b, "cleanup">>}
          /\ UNCHANGED bounds
       \/ /\ NothingToFinalize(b)
          /\ UNCHANGED <<database, sweeping, bounds>>
       \/ /\ Fault
          /\ \/ UNCHANGED sweeping
             \/ InsertMayFail(b) /\ sweeping' = {<<b, "persist">>}
          /\ UNCHANGED database
    /\ UNCHANGED <<files, phase, candidate, running, pc, outcome, handlers>>

SweepFiles(b) ==
    /\ <<b, "cleanup">> \in sweeping
    /\ sweeping' = {}
    /\ files' = [files EXCEPT ![b] = "absent"]
    /\ UNCHANGED <<database, phase, stranded, candidate, running, pc, outcome,
                   handlers, bounds>>

SweepPersistError(b) ==
    /\ <<b, "persist">> \in sweeping
    /\ sweeping' = {}
    /\ status' = IF status[b] = "none" THEN status
                 ELSE [status EXCEPT ![b] = "failed"]
    /\ UNCHANGED <<progress, task, rows, results, created, files, phase,
                   stranded, candidate, running, pc, outcome, handlers, bounds>>

StartDispatching ==
    /\ phase = "sweep"
    /\ stranded = {}
    /\ sweeping = {}
    /\ phase' = "dispatch"
    /\ UNCHANGED <<database, files, stranded, sweeping, candidate, running, pc,
                   outcome, handlers, bounds>>

\* --- ClaimNext: the ORDER BY of the candidate query ---

Share(b) == Cost(InStatus(b, {"running"}))

CreatedAt(b) == CHOOSE i \in DOMAIN created : created[i] = b

SortKey(t) ==
    LET b == BenchmarkOf[t]
    IN <<-Priority[b], Share(b), CreatedAt(b), SeqNo[t]>>

Precedes(k, l) ==
    \E i \in 1..4 : k[i] < l[i] /\ \A j \in 1..(i - 1) : k[j] = l[j]

Fitting(free) ==
    {t \in Tasks : /\ task[t] = "queued"
                   /\ status[BenchmarkOf[t]] \in Claimable
                   /\ Workers[t] <= free}

\* Mutant: the budget is compared with one task, not with what is left of it.
PickWithinBudget(t) ==
    /\ phase = "dispatch"
    /\ candidate = NoTask
    /\ t \in Fitting(Budget)
    /\ candidate' = t
    /\ UNCHANGED <<database, files, phase, stranded, sweeping, running, pc,
                   outcome, handlers, bounds>>

\* The candidate is read without a lock.
PickCandidate(t) ==
    /\ phase = "dispatch"
    /\ candidate = NoTask
    /\ t \in Fitting(Budget - running)
    /\ \A u \in Fitting(Budget - running) : ~Precedes(SortKey(u), SortKey(t))
    /\ candidate' = t
    /\ UNCHANGED <<database, files, phase, stranded, sweeping, running, pc,
                   outcome, handlers, bounds>>

\* Mutant: the benchmark's status is not read again under its lock.
ClaimUnchecked(t) ==
    /\ candidate = t
    /\ task[t] = "queued"
    /\ task' = [task EXCEPT ![t] = "running"]
    /\ status' = [status EXCEPT ![BenchmarkOf[t]] = "in_progress"]
    /\ candidate' = NoTask
    /\ running' = running + Workers[t]
    /\ pc' = [pc EXCEPT ![t] = "load"]
    /\ UNCHANGED <<progress, rows, results, created, files, phase, stranded,
                   sweeping, outcome, handlers, bounds>>

\* The rest of ClaimNext, under the benchmark row lock, and the goroutine that
\* dispatch spawns for the claimed task.
ClaimTask(t) ==
    /\ candidate = t
    /\ status[BenchmarkOf[t]] \in Claimable
    /\ task[t] = "queued"
    /\ task' = [task EXCEPT ![t] = "running"]
    /\ status' = [status EXCEPT ![BenchmarkOf[t]] = "in_progress"]
    /\ candidate' = NoTask
    /\ running' = running + Workers[t]
    /\ pc' = [pc EXCEPT ![t] = "load"]
    /\ UNCHANGED <<progress, rows, results, created, files, phase, stranded,
                   sweeping, outcome, handlers, bounds>>

\* The candidate was cancelled or deleted meanwhile, or a statement failed:
\* dispatch returns, and the one-second ticker calls it again.
LoseCandidate(t) ==
    /\ candidate = t
    /\ \/ status[BenchmarkOf[t]] \notin Claimable /\ UNCHANGED bounds
       \/ task[t] # "queued" /\ UNCHANGED bounds
       \/ Fault
    /\ candidate' = NoTask
    /\ UNCHANGED <<database, files, phase, stranded, sweeping, running, pc,
                   outcome, handlers>>

Scheduler ==
    \/ ResetRunning \/ ListStranded \/ StartDispatching
    \/ \E b \in Benchmarks : \/ FinalizeStranded(b) \/ SweepFiles(b)
                             \/ SweepPersistError(b)
    \/ \E t \in Tasks : PickCandidate(t) \/ ClaimTask(t) \/ LoseCandidate(t)

-----------------------------------------------------------------------------
(* The goroutine of a claimed task (processTask, handleTaskError) *)

Goto(t, step) == pc' = [pc EXCEPT ![t] = step]

\* A step of t's goroutine leaves the scheduler loop and the handlers alone.
LocalStep ==
    UNCHANGED <<phase, stranded, sweeping, candidate, running, handlers>>

LoadBenchmark(t) ==
    /\ pc[t] = "load"
    /\ Goto(t, CASE status[BenchmarkOf[t]] = "none" -> "abandon"
                 [] status[BenchmarkOf[t]] = "cancelled" -> "discard"
                 [] OTHER -> "stat")
    /\ LocalStep
    /\ UNCHANGED <<database, files, outcome, bounds>>

\* Mutant: only a queued row is cancelled.
CancelIfQueued(t) ==
    /\ pc[t] \in {"abandon", "discard"}
    /\ task' = IF task[t] = "queued"
               THEN [task EXCEPT ![t] = "cancelled"] ELSE task
    /\ Goto(t, IF pc[t] = "abandon" THEN "exit" ELSE "finalize")
    /\ LocalStep
    /\ UNCHANGED <<status, progress, rows, results, created, files, outcome,
                   bounds>>

\* taskRepo.Cancel: without finalize when the benchmark could not be loaded,
\* followed by finalize when it was found cancelled.
CancelTask(t) ==
    /\ pc[t] \in {"abandon", "discard"}
    /\ task' = IF task[t] \in {"queued", "running"}
               THEN [task EXCEPT ![t] = "cancelled"] ELSE task
    /\ Goto(t, IF pc[t] = "abandon" THEN "exit" ELSE "finalize")
    /\ LocalStep
    /\ UNCHANGED <<status, progress, rows, results, created, files, outcome,
                   bounds>>

\* runTask begins: the input must still be there.
StatInput(t) ==
    /\ pc[t] = "stat"
    /\ \/ files[BenchmarkOf[t]] = "inputs" /\ Goto(t, "run")
       \/ files[BenchmarkOf[t]] # "inputs" /\ Goto(t, "fail")
    /\ outcome' = [outcome EXCEPT ![t] = "failed"]
    /\ LocalStep
    /\ UNCHANGED <<database, files, bounds>>

\* The rest of runTask, retries included. MkdirAll of the task's directories
\* brings back a benchmark directory that was deleted since StatInput.
RunTask(t) ==
    /\ pc[t] = "run"
    /\ \E o \in Outcomes :
          /\ outcome' = [outcome EXCEPT ![t] = o]
          /\ Goto(t, IF o \in {"rows", "no_rows"} THEN "complete" ELSE "fail")
    /\ \/ UNCHANGED files
       \/ /\ files[BenchmarkOf[t]] = "absent"
          /\ files' = [files EXCEPT ![BenchmarkOf[t]] = "bare"]
    /\ LocalStep
    /\ UNCHANGED <<database, bounds>>

\* An UPDATE of the task's row, if the row is still there.
SetTask(t, new) == task' = IF task[t] = "none" THEN task
                           ELSE [task EXCEPT ![t] = new]

CompleteTask(t) ==
    /\ pc[t] = "complete"
    /\ SetTask(t, "done")
    /\ rows' = IF task[t] # "none" /\ outcome[t] = "rows"
               THEN rows \cup {t} ELSE rows
    /\ Goto(t, "progress")
    /\ LocalStep
    /\ UNCHANGED <<status, progress, results, created, files, outcome, bounds>>

UpdateProgress(t) ==
    LET b == BenchmarkOf[t] IN
    /\ pc[t] = "progress"
    /\ progress' = IF status[b] = "none" THEN progress
                   ELSE [progress EXCEPT ![b] = Percentage(b)]
    /\ Goto(t, "finalize")
    /\ LocalStep
    /\ UNCHANGED <<status, task, rows, results, created, files, outcome,
                   bounds>>

FailTask(t) ==
    /\ pc[t] = "fail"
    /\ SetTask(t, "failed")
    /\ Goto(t, "mark")
    /\ LocalStep
    /\ UNCHANGED <<status, progress, rows, results, created, files, outcome,
                   bounds>>

\* UpdateStatus, whatever the status was: by handleTaskError ("mark"), or by
\* finalize when a result row could not be inserted ("persist").
MarkBenchmark(t) ==
    LET b == BenchmarkOf[t] IN
    /\ pc[t] \in {"mark", "persist"}
    /\ status' = IF status[b] = "none" THEN status
                 ELSE [status EXCEPT ![b] =
                          IF pc[t] = "mark" /\ outcome[t] = "timed_out"
                          THEN "timed_out" ELSE "failed"]
    /\ Goto(t, IF pc[t] = "mark" THEN "drain" ELSE "exit")
    /\ LocalStep
    /\ UNCHANGED <<progress, task, rows, results, created, files, outcome,
                   bounds>>

\* Mutant: a task that failed leaves finalize to nobody.
CancelSiblingsOnly(t) ==
    /\ pc[t] = "drain"
    /\ task' = [u \in Tasks |->
                   IF u \in InStatus(BenchmarkOf[t], {"queued"})
                   THEN "cancelled" ELSE task[u]]
    /\ Goto(t, "exit")
    /\ LocalStep
    /\ UNCHANGED <<status, progress, rows, results, created, files, outcome,
                   bounds>>

\* CancelQueuedForBenchmark
CancelSiblings(t) ==
    /\ pc[t] = "drain"
    /\ task' = [u \in Tasks |->
                   IF u \in InStatus(BenchmarkOf[t], {"queued"})
                   THEN "cancelled" ELSE task[u]]
    /\ Goto(t, "finalize")
    /\ LocalStep
    /\ UNCHANGED <<status, progress, rows, results, created, files, outcome,
                   bounds>>

\* Mutant: every goroutine removes the directory, not only the last one.
FinalizeAndCleanup(t) ==
    LET b == BenchmarkOf[t] IN
    /\ pc[t] = "finalize"
    /\ \/ CommitFinalize(b)
       \/ NothingToFinalize(b) /\ UNCHANGED database
    /\ Goto(t, "cleanup")
    /\ LocalStep
    /\ UNCHANGED <<files, outcome, bounds>>

Finalize(t) ==
    LET b == BenchmarkOf[t] IN
    /\ pc[t] = "finalize"
    /\ \/ CommitFinalize(b) /\ Goto(t, "cleanup")
       \/ NothingToFinalize(b) /\ Goto(t, "exit") /\ UNCHANGED database
    /\ LocalStep
    /\ UNCHANGED <<files, outcome, bounds>>

Cleanup(t) ==
    /\ pc[t] = "cleanup"
    /\ files' = [files EXCEPT ![BenchmarkOf[t]] = "absent"]
    /\ Goto(t, "exit")
    /\ LocalStep
    /\ UNCHANGED <<database, outcome, bounds>>

\* Mutant: the worker units are not returned.
ExitKeepingUnits(t) ==
    /\ pc[t] = "exit"
    /\ Goto(t, "idle")
    /\ outcome' = [outcome EXCEPT ![t] = "failed"]
    /\ UNCHANGED <<database, files, phase, stranded, sweeping, candidate,
                   running, handlers, bounds>>

\* The deferred function of dispatch.
Exit(t) ==
    /\ pc[t] = "exit"
    /\ Goto(t, "idle")
    /\ running' = running - Workers[t]
    /\ outcome' = [outcome EXCEPT ![t] = "failed"]
    /\ UNCHANGED <<database, files, phase, stranded, sweeping, candidate,
                   handlers, bounds>>

Goroutine(t) ==
    \/ LoadBenchmark(t) \/ CancelTask(t) \/ StatInput(t) \/ RunTask(t)
    \/ CompleteTask(t) \/ UpdateProgress(t)
    \/ FailTask(t) \/ MarkBenchmark(t) \/ CancelSiblings(t)
    \/ Finalize(t) \/ Cleanup(t) \/ Exit(t)

\* Where the goroutine goes on after a statement that returned an error.
AfterError == [load |-> "abandon", abandon |-> "exit", discard |-> "finalize",
               complete |-> "progress", progress |-> "finalize",
               fail |-> "mark", mark |-> "drain", drain |-> "finalize",
               finalize |-> "exit", persist |-> "exit"]

StatementFails(t) ==
    /\ pc[t] \in DOMAIN AfterError
    /\ Fault
    /\ \/ Goto(t, AfterError[pc[t]])
       \/ /\ pc[t] = "finalize"
          /\ InsertMayFail(BenchmarkOf[t])
          /\ Goto(t, "persist")
    /\ LocalStep
    /\ UNCHANGED <<database, files, outcome>>

-----------------------------------------------------------------------------
(* The backend dies and is started again: what the process held is gone.   *)

Crash ==
    /\ crashes < MaxCrashes
    /\ crashes' = crashes + 1
    /\ phase' = "reset"
    /\ stranded' = {}
    /\ sweeping' = {}
    /\ candidate' = NoTask
    /\ running' = 0
    /\ pc' = [t \in Tasks |-> "idle"]
    /\ outcome' = [t \in Tasks |-> "failed"]
    /\ request' = [b \in Benchmarks |->
                      IF request[b] = "new" THEN "new" ELSE "done"]
    /\ deleting' = {}
    /\ UNCHANGED <<database, files, faults>>

Next ==
    \/ \E b \in Benchmarks :
          \/ StoreUpload(b) \/ CreateBenchmark(b)
          \/ AdminCancel(b) \/ AdminDeleteFiles(b) \/ AdminDeleteRow(b)
    \/ Scheduler
    \/ \E t \in Tasks : Goroutine(t) \/ StatementFails(t)
    \/ Crash

Spec == Init /\ [][Next]_vars

\* Handlers that were called run to their end, the scheduler loop is woken by
\* its ticker, and every goroutine goes on: runTask is bounded by
\* BENCH_TIMEOUT_SECONDS. Users, administrators, faults and crashes owe nothing.
Fairness ==
    /\ WF_vars(Scheduler)
    /\ \A t \in Tasks : WF_vars(Goroutine(t))
    /\ \A b \in Benchmarks : WF_vars(CreateBenchmark(b))
    /\ \A b \in Benchmarks : WF_vars(AdminDeleteRow(b))

FairSpec == Spec /\ Fairness

-----------------------------------------------------------------------------
(* Safety *)

\* The worker units the counter shows are those of the live goroutines, and
\* they never exceed the budget, whatever was cancelled, deleted, lost or
\* crashed meanwhile (BenchmarkRunner.dispatch and its deferred decrement).
BudgetRespected ==
    /\ running = Cost(Goroutines)
    /\ Cost(Goroutines) <= Budget

\* Where a goroutine is while its task row still says "running".
OwnsRow == {"load", "discard", "stat", "run", "complete", "fail"}

\* A queued row has no goroutine, so no claim starts a task twice; and once
\* the startup reset is over a row says "running" only while a goroutine is
\* going to end it (ClaimNext, ResetRunning, Complete, Fail, Cancel).
TaskOwnership ==
    \A t \in Tasks :
        /\ task[t] = "queued" => pc[t] = "idle"
        /\ task[t] = "running" /\ phase # "reset" /\ faults = 0
              => pc[t] \in OwnsRow

\* While a task may still run, its input is on disk: no finalize of a sibling,
\* no failed request and no restart removes it. Only an administrator's delete
\* may (finalize removes files after the task rows are gone).
InputsOutliveTasks ==
    \A b \in Benchmarks \ Deletable :
        Pending(b) # {} => files[b] = "inputs"

\* A benchmark shows results exactly when it is ready: none of one that
\* failed, timed out or was cancelled while its tasks ran, and no ready one
\* without (finalize against AdminCancel and handleTaskError of a sibling).
ResultsIffReady ==
    faults = 0 => \A b \in Benchmarks : status[b] = "ready" <=> results[b] # {}

\* Without a crash or a failing statement, an ended benchmark on which no
\* goroutine works any more shows 100%: the late UpdateProgress of a sibling
\* does not stay behind the last finalize.
SettledProgress ==
    crashes = 0 /\ faults = 0 =>
        \A b \in Benchmarks :
            (status[b] \in Terminal /\ TasksOf(b) \cap Goroutines = {})
                => progress[b] = 100

\* The published average covers every task: nothing is published while a task
\* of the benchmark failed, was cancelled, or has not run (finalize).
PublishesEveryTask ==
    [][\A b \in Benchmarks :
          faults = 0 /\ status[b] # "ready" /\ status'[b] = "ready" =>
              /\ \A t \in TasksOf(b) : task[t] = "done"
              /\ results'[b] = TasksOf(b) \cap rows]_vars

\* A cancelled benchmark stays cancelled until it is deleted: whatever its
\* running tasks do afterwards is discarded (BenchmarkRepository.Cancel).
CancelledIsFinal ==
    [][\A b \in Benchmarks :
          status[b] = "cancelled" => status'[b] \in {"cancelled", "none"}]_vars

-----------------------------------------------------------------------------
(* Liveness *)

\* A benchmark with a task to run ends, whatever is claimed before it, and
\* whether or not the backend is restarted in between (dispatch, ResetRunning,
\* finalizeStranded).
EveryBenchmarkEnds ==
    \A b \in Benchmarks :
        (Pending(b) # {}) ~> (status[b] \in Terminal \cup {"none"})

\* A benchmark stranded by a crash between its last task and finalize is
\* completed by finalizeStranded.
NoneStaysInProgress ==
    \A b \in Benchmarks :
        (status[b] = "in_progress") ~> (status[b] \in Terminal \cup {"none"})

\* Without a crash, the uploads of a benchmark that ran to its end, well or
\* badly, and that nobody deletes, are removed (the last goroutine's finalize
\* and cleanupWorkdir).
EndedRunLeavesNoFiles ==
    \A b \in Benchmarks \ Deletable :
        (status[b] \in {"ready", "failed", "timed_out"})
            ~> \/ files[b] = "absent" /\ InStatus(b, {"none"}) = TasksOf(b)
               \/ crashes > 0

-----------------------------------------------------------------------------
(* Refinement *)

Lifecycle == INSTANCE BenchmarkLifecycle WITH Payloads <- Tasks

\* What an owner sees of a benchmark changes only as BenchmarkLifecycle allows,
\* while no database statement fails: it starts once, ends, shows results
\* together with "ready", and is never overwritten after that.
ImplementsLifecycle == Lifecycle!Spec

-----------------------------------------------------------------------------
(* The inductive invariant behind the safety properties and the refinement *)

NoTaskRows(b) == \A t \in TasksOf(b) : task[t] = "none"

\* Until its request is over, a benchmark has no task rows and no goroutine.
BeforeSubmission ==
    \A b \in Benchmarks : request[b] # "done" =>
        /\ NoTaskRows(b)
        /\ status[b] # "in_progress"
        /\ \A t \in TasksOf(b) : pc[t] = "idle"

\* The foreign key of benchmark_tasks.
TasksHaveBenchmark ==
    \A b \in Benchmarks : status[b] = "none" => NoTaskRows(b)

\* Startup recovery is over before the first claim.
RecoveryFirst ==
    phase # "dispatch" =>
        /\ candidate = NoTask
        /\ \A t \in Tasks : pc[t] = "idle"

\* The free budget read before the claim is still free when it commits.
CandidateFits == candidate # NoTask => running + Workers[candidate] <= Budget

\* Only a task whose row is gone is abandoned, unless loading failed.
AbandonedRowIsGone ==
    \A t \in Tasks : pc[t] = "abandon" /\ faults = 0 => task[t] = "none"

\* A directory is removed after finalize has dropped the task rows.
RowsGoBeforeFiles ==
    /\ \A t \in Tasks : pc[t] = "cleanup" => NoTaskRows(BenchmarkOf[t])
    /\ \A b \in Benchmarks : <<b, "cleanup">> \in sweeping =>
           request[b] = "done" /\ NoTaskRows(b)
    /\ \A b \in stranded : request[b] = "done"

\* The inputs are stored before anything of the benchmark is inserted.
InputsComeFirst ==
    \A b \in Benchmarks \ Deletable :
        request[b] \in {"stored", "inserted"} => files[b] = "inputs"

\* A benchmark has a row for each of its tasks, or no task row at all.
AllRowsOrNone ==
    \A b \in Benchmarks :
        NoTaskRows(b) \/ \A t \in TasksOf(b) : task[t] # "none"

\* What a task row says while its goroutine is on the way, unless the row was
\* deleted under it.
RowFollowsGoroutine ==
    \A t \in Tasks :
        /\ pc[t] \in OwnsRow => task[t] \in {"running", "none"}
        /\ pc[t] = "progress" => task[t] \in {"done", "none"}
        /\ pc[t] \in {"mark", "drain"} => task[t] \in {"failed", "none"}
        /\ pc[t] = "abandon" =>
               task[t] = "none" /\ status[BenchmarkOf[t]] = "none"
        /\ pc[t] # "persist"

\* No goroutine, and no startup recovery, ends a benchmark that no claim has
\* started.
QueuedIsIdle ==
    \A b \in Benchmarks : status[b] = "queued" =>
        b \notin stranded /\ \A t \in TasksOf(b) : pc[t] = "idle"

Ended == {"failed", "timed_out", "cancelled", "none"}

\* A task is cancelled after its benchmark has ended otherwise than "ready".
CancelledRowsHaveEnded ==
    \A t \in Tasks : task[t] = "cancelled" \/ pc[t] \in {"discard", "drain"}
                        => status[BenchmarkOf[t]] \in Ended

\* Nothing of a ready benchmark is left to do, but to find that out.
ReadyIsOver ==
    \A b \in Benchmarks : status[b] = "ready" =>
        /\ request[b] = "done"
        /\ NoTaskRows(b)
        /\ \A t \in TasksOf(b) :
               pc[t] \in {"idle", "progress", "finalize", "cleanup", "exit"}

\* The row is inserted by the request, after the upload is stored.
NotYetInserted ==
    \A b \in Benchmarks : request[b] \in {"new", "stored"} => status[b] = "none"

ReadyHasResults ==
    \A b \in Benchmarks : status[b] = "ready" <=> results[b] # {}

\* ResultsIffReady without its guard, and all that keeps it true.
Undisturbed ==
    /\ AllRowsOrNone
    /\ RowFollowsGoroutine
    /\ \A b \in Benchmarks : <<b, "persist">> \notin sweeping
    /\ QueuedIsIdle
    /\ CancelledRowsHaveEnded
    /\ ReadyIsOver
    /\ NotYetInserted
    /\ ReadyHasResults

\* What the refinement and ResultsIffReady rest on: while no statement failed,
\* a task row, its goroutine and the status of its benchmark agree.
LifecycleInvariant == faults = 0 => Undisturbed

\* Where a goroutine is that has a finalize before it.
Working == {"load", "discard", "stat", "run", "complete", "progress", "fail",
            "mark", "drain", "finalize"}

\* An ended benchmark shows 100%, or a finalize that sets it is still to come.
SomebodyFinishes(b) ==
    status[b] \in Terminal =>
        progress[b] = 100 \/ \E t \in TasksOf(b) : pc[t] \in Working

\* A task still queued behind an ended benchmark is about to be cancelled, or
\* was inserted too late to be claimed.
QueuedIsLeft(b) ==
    status[b] \in Terminal /\ InStatus(b, {"queued"}) # {} =>
        \/ \E t \in TasksOf(b) : pc[t] = "drain"
        \/ \A t \in TasksOf(b) : pc[t] = "idle"

ProgressInvariant ==
    crashes = 0 /\ faults = 0 =>
        \A b \in Benchmarks : SomebodyFinishes(b) /\ QueuedIsLeft(b)

\* All of the above, with the three invariants themselves: no restart, fault,
\* cancellation or deletion takes the scheduler out of it.
SchedulerInvariant ==
    /\ BeforeSubmission
    /\ TasksHaveBenchmark
    /\ RecoveryFirst
    /\ CandidateFits
    /\ BudgetRespected
    /\ AbandonedRowIsGone
    /\ TaskOwnership
    /\ RowsGoBeforeFiles
    /\ InputsComeFirst
    /\ InputsOutliveTasks
    /\ LifecycleInvariant
    /\ ProgressInvariant
=============================================================================
