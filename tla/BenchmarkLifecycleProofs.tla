---------------------- MODULE BenchmarkLifecycleProofs ----------------------
(***************************************************************************)
(* What an owner sees of a benchmark while no database statement fails:    *)
(* BenchmarkScheduler implements BenchmarkLifecycle, results come and go   *)
(* with "ready", and an ended benchmark shows 100%.                        *)
(***************************************************************************)
EXTENDS BenchmarkSchedulerProofs

-----------------------------------------------------------------------------
(* The inductive invariant                                                 *)

\* Once a statement has failed, one has failed.
LEMMA FaultsOnlyGrow ==
    TypeOK /\ [Next]_vars /\ faults' = 0 => faults = 0 /\ ~Fault
<1> SUFFICES ASSUME TypeOK, [Next]_vars, faults' = 0 PROVE faults = 0 /\ ~Fault
  OBVIOUS
<1>1. faults \in Nat BY ShapeAssumption DEF TypeOK
<1>2. UNCHANGED faults \/ Fault
  BY DEF Next, StoreUpload, CreateBenchmark, InsertBenchmark, RejectUpload,
     InsertTasks, InsertTasksFails, UndoInsert, UndoUpload, AdminCancel,
     AdminDeleteFiles, AdminDeleteRow, Scheduler, ResetRunning, ListStranded,
     StartDispatching, FinalizeStranded, SweepFiles, SweepPersistError,
     PickCandidate, ClaimTask, LoseCandidate, Goroutine, LoadBenchmark,
     CancelTask, StatInput, RunTask, CompleteTask, UpdateProgress, FailTask,
     MarkBenchmark, CancelSiblings, Finalize, Cleanup, Exit, StatementFails,
     Crash, vars, bounds
<1> QED BY <1>1, <1>2 DEF Fault

LEMMA UndisturbedInit == Init => Undisturbed
BY DEF Init, Undisturbed, AllRowsOrNone, RowFollowsGoroutine, QueuedIsIdle,
   CancelledRowsHaveEnded, ReadyIsOver, NotYetInserted, ReadyHasResults,
   NoTaskRows, TasksOf, OwnsRow


LEMMA RowsKept ==
    ASSUME AllRowsOrNone,
           \A t \in Tasks : task'[t] = "none" <=> task[t] = "none"
    PROVE  AllRowsOrNone'
BY DEF AllRowsOrNone, NoTaskRows, TasksOf

\* A request or the scheduler loop moves on; rows and goroutines stay.
LEMMA UndisturbedLoop ==
    ASSUME TypeOK, Undisturbed,
           UNCHANGED <<status, results, task, pc>>,
           \A b \in Benchmarks :
               /\ request[b] = "done" => request'[b] = "done"
               /\ request'[b] \in {"new", "stored"}
                     => request[b] \in {"new", "stored"}
               /\ b \in stranded' => b \in stranded \/ status[b] # "queued"
               /\ <<b, "persist">> \notin sweeping'
    PROVE  Undisturbed'
<1> USE DEF Undisturbed, NoTaskRows, TasksOf
<1>1. AllRowsOrNone' BY DEF AllRowsOrNone
<1>2. RowFollowsGoroutine' BY DEF RowFollowsGoroutine
<1>3. QueuedIsIdle' BY DEF QueuedIsIdle
<1>4. CancelledRowsHaveEnded' BY DEF CancelledRowsHaveEnded
<1>5. ReadyIsOver' BY DEF ReadyIsOver
<1>6. NotYetInserted' BY DEF NotYetInserted
<1>7. ReadyHasResults' BY DEF ReadyHasResults
<1> QED BY <1>1, <1>2, <1>3, <1>4, <1>5, <1>6, <1>7

\* The row of a benchmark is deleted, and its task rows with it.
LEMMA UndisturbedDelete ==
    ASSUME TypeOK, RowInvariant, Undisturbed, NEW b \in Benchmarks,
           DeleteBenchmarkRow(b), UNCHANGED runner,
           \A c \in Benchmarks : request'[c] # request[c]
                                    => request'[c] \notin {"new", "stored"}
                                       /\ request[c] # "done"
    PROVE  Undisturbed'
<1> USE ShapeAssumption
    DEF TypeOK, Undisturbed, NoTaskRows, TasksOf, DeleteBenchmarkRow, runner
<1>1. AllRowsOrNone' BY DEF AllRowsOrNone
<1>2. RowFollowsGoroutine' BY DEF RowFollowsGoroutine
<1>3. QueuedIsIdle' BY DEF QueuedIsIdle
<1>4. CancelledRowsHaveEnded' BY DEF CancelledRowsHaveEnded, Ended
<1>5. ReadyIsOver' BY DEF ReadyIsOver
<1>6. NotYetInserted' BY DEF NotYetInserted
<1>7. ReadyHasResults' BY DEF ReadyHasResults
<1> QED BY <1>1, <1>2, <1>3, <1>4, <1>5, <1>6, <1>7

LEMMA UndisturbedHandlers ==
    ASSUME TypeOK, RowInvariant, FilesInvariant, Undisturbed, ~Fault,
           NEW b \in Benchmarks,
           \/ StoreUpload(b) \/ CreateBenchmark(b)
           \/ AdminCancel(b) \/ AdminDeleteFiles(b) \/ AdminDeleteRow(b)
    PROVE  Undisturbed'
<1>w. \A c \in Benchmarks : <<c, "persist">> \notin sweeping
  BY DEF Undisturbed
<1> USE <1>w DEF database, runner, handlers
<1>1. CASE StoreUpload(b) BY <1>1, UndisturbedLoop DEF StoreUpload, TypeOK
<1>2. CASE InsertBenchmark(b)
  <2>1. request[b] = "stored" BY <1>2 DEF InsertBenchmark
  <2>2. NoTaskRows(b) /\ \A t \in TasksOf(b) : pc[t] = "idle"
    BY <2>1 DEF RowInvariant, BeforeSubmission
  <2>3. b \notin stranded BY <2>1 DEF FilesInvariant, RowsGoBeforeFiles
  <2>4. status[b] = "none" BY <2>1 DEF Undisturbed, NotYetInserted
  <2> USE <1>2, <2>1, <2>2, <2>3, <2>4
      DEF InsertBenchmark, TypeOK, Undisturbed, NoTaskRows, TasksOf
  <2>5. AllRowsOrNone' BY DEF AllRowsOrNone
  <2>6. RowFollowsGoroutine' BY DEF RowFollowsGoroutine
  <2>7. QueuedIsIdle' BY DEF QueuedIsIdle
  <2>8. CancelledRowsHaveEnded' BY DEF CancelledRowsHaveEnded
  <2>9. ReadyIsOver' BY DEF ReadyIsOver
  <2>10. NotYetInserted' BY DEF NotYetInserted
  <2>11. ReadyHasResults' BY DEF ReadyHasResults
  <2> QED BY <2>5, <2>6, <2>7, <2>8, <2>9, <2>10, <2>11
<1>3. CASE RejectUpload(b) BY <1>3, UndisturbedLoop DEF RejectUpload, TypeOK
<1>4. CASE InsertTasks(b)
  <2>1. request[b] = "inserted" BY <1>4 DEF InsertTasks
  <2>2. NoTaskRows(b) /\ \A t \in TasksOf(b) : pc[t] = "idle"
    BY <2>1 DEF RowInvariant, BeforeSubmission
  <2>3. status[b] # "ready" BY <2>1 DEF Undisturbed, ReadyIsOver
  <2> USE <1>4, <2>1, <2>2, <2>3
      DEF InsertTasks, TypeOK, Undisturbed, NoTaskRows, TasksOf, runner
  <2>5. AllRowsOrNone' BY DEF AllRowsOrNone
  <2>6. RowFollowsGoroutine' BY DEF RowFollowsGoroutine, OwnsRow
  <2>7. QueuedIsIdle' BY DEF QueuedIsIdle
  <2>8. CancelledRowsHaveEnded' BY DEF CancelledRowsHaveEnded
  <2>9. ReadyIsOver' BY ShapeAssumption DEF ReadyIsOver
  <2>10. NotYetInserted' BY DEF NotYetInserted
  <2>11. ReadyHasResults' BY DEF ReadyHasResults
  <2> QED BY <2>5, <2>6, <2>7, <2>8, <2>9, <2>10, <2>11
<1>5. CASE InsertTasksFails(b)
  BY <1>5, UndisturbedLoop DEF InsertTasksFails, TypeOK
<1>6. CASE UndoInsert(b)
  <2>1. request[b] = "rollback" /\ request' = [request EXCEPT ![b] = "unstore"]
        /\ DeleteBenchmarkRow(b) /\ UNCHANGED runner
    BY <1>6 DEF UndoInsert
  <2> QED BY <2>1, UndisturbedDelete DEF TypeOK
<1>7. CASE UndoUpload(b) BY <1>7, UndisturbedLoop DEF UndoUpload, TypeOK
<1>8. CASE AdminCancel(b)
  <2>1. \A t \in Tasks : \/ task'[t] = task[t]
                         \/ /\ t \in TasksOf(b) /\ task[t] = "queued"
                            /\ task'[t] = "cancelled" /\ pc[t] = "idle"
    BY <1>8 DEF AdminCancel, InStatus, RowInvariant, TaskOwnership, TasksOf
  <2>2. status[b] \in Claimable /\ status' = [status EXCEPT ![b] = "cancelled"]
        /\ UNCHANGED <<results, runner, request>>
    BY <1>8 DEF AdminCancel
  <2> USE <2>1, <2>2, ShapeAssumption
      DEF TypeOK, Undisturbed, NoTaskRows, TasksOf, Claimable
  <2>3. \A t \in Tasks : task'[t] = "none" <=> task[t] = "none" BY <2>1
  <2>5. AllRowsOrNone' BY <2>3, RowsKept
  <2>6. RowFollowsGoroutine' BY DEF RowFollowsGoroutine, OwnsRow
  <2>7. QueuedIsIdle' BY DEF QueuedIsIdle
  <2>8. CancelledRowsHaveEnded' BY DEF CancelledRowsHaveEnded, Ended
  <2>9. ReadyIsOver' BY DEF ReadyIsOver
  <2>10. NotYetInserted' BY DEF NotYetInserted
  <2>11. ReadyHasResults' BY DEF ReadyHasResults
  <2> QED BY <2>5, <2>6, <2>7, <2>8, <2>9, <2>10, <2>11
<1>9. CASE AdminDeleteFiles(b)
  BY <1>9, UndisturbedLoop DEF AdminDeleteFiles, TypeOK
<1>10. CASE AdminDeleteRow(b)
  BY <1>10, UndisturbedDelete DEF AdminDeleteRow
<1> QED BY <1>1, <1>2, <1>3, <1>4, <1>5, <1>6, <1>7, <1>8, <1>9, <1>10
        DEF CreateBenchmark

-----------------------------------------------------------------------------
(* finalize *)

\* Where a goroutine of a benchmark is that has ended without it.
NothingLeft == {"idle", "progress", "finalize", "cleanup", "exit"}

\* finalize publishes only when every task of the benchmark is done, and then
\* none of its goroutines can touch its status any more.
LEMMA PublishEffect ==
    ASSUME TypeOK, RowInvariant, Undisturbed, NEW b \in Benchmarks,
           PublishResults(b)
    PROVE  /\ request[b] = "done"
           /\ \A t \in TasksOf(b) : task[t] = "done" /\ pc[t] \in NothingLeft
           /\ results'[b] = TasksOf(b) \cap rows
           /\ results'[b] # {}
<1> USE DEF TasksOf
<1>1. /\ status[b] \in {"queued", "in_progress"}
      /\ \A t \in TasksOf(b) : task[t] \notin {"queued", "running", "failed"}
      /\ InStatus(b, {"done"}) \cap rows # {}
      /\ results'[b] = InStatus(b, {"done"}) \cap rows
  BY DEF TypeOK, PublishResults, EndBenchmark, NothingToFinalize, Pending,
     InStatus, HasNoResult, Claimable
<1>2. \A t \in TasksOf(b) : task[t] # "cancelled"
  BY <1>1 DEF Undisturbed, CancelledRowsHaveEnded, Ended
<1>3. PICK u \in TasksOf(b) : task[u] = "done" BY <1>1 DEF InStatus
<1>4. \A t \in TasksOf(b) : task[t] # "none"
  BY <1>3 DEF Undisturbed, AllRowsOrNone, NoTaskRows
<1>5. \A t \in TasksOf(b) : task[t] = "done"
  BY <1>1, <1>2, <1>4 DEF TypeOK, TaskStatus
<1>6. ASSUME NEW t \in TasksOf(b) PROVE pc[t] \in NothingLeft
  <2>1. pc[t] \in Step /\ task[t] = "done" BY <1>5 DEF TypeOK
  <2> QED BY <2>1
          DEF Undisturbed, RowFollowsGoroutine, OwnsRow, Step, NothingLeft
<1>7. request[b] = "done"
  BY <1>3 DEF RowInvariant, BeforeSubmission, NoTaskRows
<1>8. InStatus(b, {"done"}) = TasksOf(b) BY <1>5 DEF InStatus
<1> QED BY <1>1, <1>5, <1>6, <1>7, <1>8

\* The commit of finalize, by the last goroutine or by the startup recovery.
LEMMA UndisturbedCommit ==
    ASSUME TypeOK, RowInvariant, Undisturbed, NEW b \in Benchmarks,
           CommitFinalize(b), UNCHANGED request, stranded' \subseteq stranded,
           \A c \in Benchmarks : <<c, "persist">> \notin sweeping',
           \A t \in Tasks : \/ pc'[t] = pc[t]
                            \/ pc[t] = "finalize" /\ pc'[t] = "cleanup"
    PROVE  Undisturbed'
<1>1. task' = [t \in Tasks |-> IF t \in TasksOf(b) THEN "none" ELSE task[t]]
  BY CommitEffect
<1>2. /\ \A c \in Benchmarks \ {b} : status'[c] = status[c]
                                     /\ results'[c] = results[c]
      /\ \/ /\ status'[b] = status[b] /\ results'[b] = results[b]
            /\ status[b] \in Terminal
         \/ /\ status'[b] = "failed" /\ results'[b] = results[b]
            /\ status[b] \in Claimable
         \/ /\ status'[b] = "ready" /\ results'[b] # {}
            /\ request[b] = "done" /\ status[b] \in Claimable
            /\ \A t \in TasksOf(b) : pc[t] \in NothingLeft
  <2>1. CASE DropTasks(b) BY <2>1 DEF DropTasks
  <2>2. CASE FailBenchmark(b) BY <2>2 DEF FailBenchmark, TypeOK
  <2>3. CASE PublishResults(b)
    <3>1. status' = [status EXCEPT ![b] = "ready"]
          /\ \E R : results' = [results EXCEPT ![b] = R]
          /\ status[b] \in Claimable
      BY <2>3 DEF PublishResults
    <3> QED BY <2>3, <3>1, PublishEffect DEF TypeOK
  <2> QED BY <2>1, <2>2, <2>3 DEF CommitFinalize
<1> USE <1>1, <1>2, ShapeAssumption
    DEF Undisturbed, NoTaskRows, TasksOf, Terminal, Claimable
<1>3. AllRowsOrNone' BY DEF AllRowsOrNone
<1>r. \A t \in Tasks : /\ task'[t] \in {"none", task[t]}
                        /\ pc'[t] # "cleanup" => pc'[t] = pc[t]
  OBVIOUS
<1>s. \A c \in Benchmarks : status[c] = "none" => status'[c] = "none"
  OBVIOUS
<1>4. RowFollowsGoroutine'
  <2>1. ASSUME NEW t \in Tasks, pc'[t] # "cleanup"
        PROVE  /\ task'[t] \in {"none", task[t]}
               /\ pc'[t] = pc[t]
               /\ status[BenchmarkOf[t]] = "none"
                     => status'[BenchmarkOf[t]] = "none"
    BY <2>1, <1>r, <1>s
  <2> QED BY <2>1 DEF RowFollowsGoroutine, OwnsRow
<1>5. QueuedIsIdle' BY DEF QueuedIsIdle
<1>6. CancelledRowsHaveEnded'
  <2>1. ASSUME NEW t \in Tasks,
               task'[t] = "cancelled" \/ pc'[t] \in {"discard", "drain"}
        PROVE  status'[BenchmarkOf[t]] \in Ended
    <3>1. status[BenchmarkOf[t]] \in Ended
      BY <2>1, <1>r DEF CancelledRowsHaveEnded
    <3>2. CASE BenchmarkOf[t] # b BY <3>1, <3>2
    <3>3. CASE BenchmarkOf[t] = b
      BY <2>1, <3>1, <3>3, <1>r DEF Ended, NothingLeft
    <3> QED BY <3>2, <3>3
  <2> QED BY <2>1 DEF CancelledRowsHaveEnded
<1>7. ReadyIsOver' BY DEF ReadyIsOver, NothingLeft
<1>8. NotYetInserted' BY DEF NotYetInserted
<1>9. ReadyHasResults' BY DEF ReadyHasResults
<1> QED BY <1>3, <1>4, <1>5, <1>6, <1>7, <1>8, <1>9

-----------------------------------------------------------------------------
(* The scheduler loop and the goroutines                                   *)

LEMMA UndisturbedClaim ==
    ASSUME TypeOK, RowInvariant, Undisturbed, NEW t \in Tasks, ClaimTask(t)
    PROVE  Undisturbed'
<1> DEFINE b == BenchmarkOf[t]
<1>b. b \in Benchmarks BY ShapeAssumption
<1>1. /\ status' = [status EXCEPT ![b] = "in_progress"]
      /\ task' = [task EXCEPT ![t] = "running"]
      /\ pc' = [pc EXCEPT ![t] = "load"]
      /\ task[t] = "queued" /\ status[b] \in {"queued", "in_progress"}
      /\ UNCHANGED <<stranded, sweeping, results, request>>
  BY DEF ClaimTask, handlers, Claimable
<1>2. \A u \in Tasks : task'[u] = "none" <=> task[u] = "none"
  BY <1>1 DEF TypeOK
<1>3. request[b] = "done"
  BY <1>1, <1>b DEF RowInvariant, BeforeSubmission, NoTaskRows, TasksOf
<1>4. AllRowsOrNone' BY <1>2, RowsKept DEF Undisturbed
<1> USE <1>b, <1>1, <1>3, ShapeAssumption
    DEF TypeOK, Undisturbed, NoTaskRows, TasksOf
<1>5. RowFollowsGoroutine' BY DEF RowFollowsGoroutine, OwnsRow
<1>6. QueuedIsIdle' BY DEF QueuedIsIdle
<1>7. CancelledRowsHaveEnded' BY DEF CancelledRowsHaveEnded, Ended
<1>8. ReadyIsOver' BY DEF ReadyIsOver
<1>9. NotYetInserted' BY DEF NotYetInserted
<1>10. ReadyHasResults' BY DEF ReadyHasResults
<1> QED BY <1>4, <1>5, <1>6, <1>7, <1>8, <1>9, <1>10

LEMMA UndisturbedScheduler ==
    ASSUME TypeOK, RowInvariant, Undisturbed, ~Fault, Scheduler
    PROVE  Undisturbed'
<1>w. \A c \in Benchmarks : <<c, "persist">> \notin sweeping
  BY DEF Undisturbed
<1> USE <1>w DEF database, handlers, bounds
<1>1. CASE ResetRunning
  <2>1. /\ task' = [t \in Tasks |-> IF task[t] = "running"
                                    THEN "queued" ELSE task[t]]
        /\ UNCHANGED <<status, results, stranded, sweeping, pc, request>>
        /\ phase = "reset"
    BY <1>1 DEF ResetRunning
  <2>2. \A t \in Tasks : pc[t] = "idle"
    BY <2>1 DEF RowInvariant, RecoveryFirst
  <2>3. \A t \in Tasks : /\ task'[t] = "none" <=> task[t] = "none"
                         /\ task'[t] = "cancelled" <=> task[t] = "cancelled"
    BY <2>1
  <2>4. AllRowsOrNone' BY <2>3, RowsKept DEF Undisturbed
  <2> HIDE <2>1
  <2>u. UNCHANGED <<status, results, stranded, sweeping, pc, request>> BY <2>1
  <2> USE <2>2, <2>u DEF Undisturbed, NoTaskRows, TasksOf
  <2>5. RowFollowsGoroutine' BY DEF RowFollowsGoroutine, OwnsRow
  <2>6. QueuedIsIdle' BY DEF QueuedIsIdle
  <2>7. CancelledRowsHaveEnded' BY <2>3 DEF CancelledRowsHaveEnded
  <2>8. ReadyIsOver' BY <2>3 DEF ReadyIsOver
  <2>9. NotYetInserted' BY DEF NotYetInserted
  <2>10. ReadyHasResults' BY DEF ReadyHasResults
  <2> QED BY <2>4, <2>5, <2>6, <2>7, <2>8, <2>9, <2>10
<1>2. CASE ListStranded BY <1>2, UndisturbedLoop DEF ListStranded
<1>3. CASE StartDispatching BY <1>3, UndisturbedLoop DEF StartDispatching
<1>4. ASSUME NEW b \in Benchmarks, FinalizeStranded(b) PROVE Undisturbed'
  <2>1. CASE CommitFinalize(b) /\ sweeping' = {<<b, "cleanup">>}
    <3>1. UNCHANGED <<pc, request>> /\ stranded' \subseteq stranded
      BY <1>4 DEF FinalizeStranded
    <3> QED BY <2>1, <3>1, UndisturbedCommit
  <2>2. CASE UNCHANGED <<database, sweeping>>
    BY <1>4, <2>2, UndisturbedLoop DEF FinalizeStranded
  <2> QED BY <1>4, <2>1, <2>2 DEF FinalizeStranded
<1>5. ASSUME NEW b \in Benchmarks, SweepFiles(b) PROVE Undisturbed'
  BY <1>5, UndisturbedLoop DEF SweepFiles
<1>6. ASSUME NEW b \in Benchmarks, SweepPersistError(b) PROVE Undisturbed'
  BY <1>6 DEF SweepPersistError
<1>7. ASSUME NEW t \in Tasks, PickCandidate(t) PROVE Undisturbed'
  BY <1>7, UndisturbedLoop DEF PickCandidate
<1>8. ASSUME NEW t \in Tasks, ClaimTask(t) PROVE Undisturbed'
  BY <1>8, UndisturbedClaim
<1>9. ASSUME NEW t \in Tasks, LoseCandidate(t) PROVE Undisturbed'
  BY <1>9, UndisturbedLoop DEF LoseCandidate
<1> QED BY <1>1, <1>2, <1>3, <1>4, <1>5, <1>6, <1>7, <1>8, <1>9 DEF Scheduler

\* A goroutine moves from one of its steps to the next, and may end its own
\* row and the queued rows of its benchmark; the benchmark's status stays.
LEMMA UndisturbedMove ==
    ASSUME TypeOK, RowInvariant, Undisturbed, NEW t \in Tasks,
           UNCHANGED <<status, results, request, stranded, sweeping>>,
           pc[t] # "idle",
           \A u \in Tasks \ {t} :
               /\ pc'[u] = pc[u]
               /\ \/ task'[u] = task[u]
                  \/ /\ task[u] = "queued" /\ task'[u] = "cancelled"
                     /\ status[BenchmarkOf[u]] \in Ended,
           task'[t] = "none" <=> task[t] = "none",
           pc'[t] \in OwnsRow => task'[t] \in {"running", "none"},
           pc'[t] = "progress" => task'[t] \in {"done", "none"},
           pc'[t] \in {"mark", "drain"} => task'[t] \in {"failed", "none"},
           pc'[t] = "abandon" => task'[t] = "none"
                                 /\ status[BenchmarkOf[t]] = "none",
           pc'[t] # "persist",
           task'[t] = "cancelled" \/ pc'[t] \in {"discard", "drain"}
               => status[BenchmarkOf[t]] \in Ended,
           status[BenchmarkOf[t]] = "ready" => pc'[t] \in NothingLeft
    PROVE  Undisturbed'
<1> DEFINE b == BenchmarkOf[t]
<1>b. b \in Benchmarks BY ShapeAssumption
<1>1. \A u \in Tasks : task'[u] = "none" <=> task[u] = "none" OBVIOUS
<1>2. AllRowsOrNone' BY <1>1, RowsKept DEF Undisturbed
<1>3. status[b] # "queued"
  BY <1>b DEF Undisturbed, QueuedIsIdle, TasksOf
<1> USE <1>b, <1>3 DEF Undisturbed, NoTaskRows, TasksOf
<1>5. RowFollowsGoroutine'
  <2>1. ASSUME NEW u \in Tasks \ {t}, pc[u] # "idle"
        PROVE  task'[u] = task[u]
    BY <2>1 DEF RowInvariant, TaskOwnership
  <2>2. ASSUME NEW u \in Tasks \ {t}
        PROVE  /\ pc[u] # "idle" => task'[u] = task[u]
               /\ pc'[u] = pc[u]
               /\ status'[BenchmarkOf[u]] = status[BenchmarkOf[u]]
    BY <2>1
  <2>3. UNCHANGED status OBVIOUS
  <2> QED BY <2>2, <2>3 DEF RowFollowsGoroutine, OwnsRow
<1>6. QueuedIsIdle' BY DEF QueuedIsIdle
<1>7. CancelledRowsHaveEnded' BY DEF CancelledRowsHaveEnded
<1>8. ReadyIsOver' BY DEF ReadyIsOver, NothingLeft
<1>9. NotYetInserted' BY DEF NotYetInserted
<1>10. ReadyHasResults' BY DEF ReadyHasResults
<1> QED BY <1>2, <1>5, <1>6, <1>7, <1>8, <1>9, <1>10

\* A failed task overwrites the status of a benchmark that is not ready.
LEMMA UndisturbedMark ==
    ASSUME TypeOK, Undisturbed, NEW t \in Tasks, MarkBenchmark(t)
    PROVE  Undisturbed'
<1> DEFINE b == BenchmarkOf[t]
<1>b. b \in Benchmarks /\ t \in TasksOf(b) BY ShapeAssumption DEF TasksOf
<1>1. pc[t] = "mark"
  BY DEF MarkBenchmark, Undisturbed, RowFollowsGoroutine
<1>2. /\ pc' = [pc EXCEPT ![t] = "drain"]
      /\ UNCHANGED <<task, results, request, stranded, sweeping>>
  BY <1>1 DEF MarkBenchmark, Goto, LocalStep, handlers
<1>3. status[b] \notin {"queued", "ready"}
  BY <1>1, <1>b DEF Undisturbed, QueuedIsIdle, ReadyIsOver
<1>4. /\ \A c \in Benchmarks \ {b} : status'[c] = status[c]
      /\ status'[b] \in {"none", "failed", "timed_out"}
      /\ status'[b] = "none" <=> status[b] = "none"
  BY <1>1, <1>b DEF MarkBenchmark, TypeOK
<1>5. AllRowsOrNone' BY <1>2, RowsKept DEF Undisturbed
<1> USE <1>b, <1>1, <1>2, <1>3, <1>4, ShapeAssumption
    DEF TypeOK, Undisturbed, NoTaskRows, TasksOf
<1>6. RowFollowsGoroutine'
  <2>1. ASSUME NEW u \in Tasks
        PROVE  /\ task'[u] = task[u]
               /\ u = t => pc'[u] = "drain"
               /\ u # t => pc'[u] = pc[u]
               /\ status[BenchmarkOf[u]] = "none"
                     => status'[BenchmarkOf[u]] = "none"
    BY <2>1
  <2>2. task[t] \in {"failed", "none"} BY DEF RowFollowsGoroutine
  <2> QED BY <2>1, <2>2 DEF RowFollowsGoroutine, OwnsRow
<1>7. QueuedIsIdle' BY DEF QueuedIsIdle
<1>8. CancelledRowsHaveEnded'
  <2>1. ASSUME NEW u \in Tasks
        PROVE  /\ task'[u] = task[u]
               /\ BenchmarkOf[u] = b => status'[BenchmarkOf[u]] \in Ended
               /\ BenchmarkOf[u] # b =>
                      /\ pc'[u] = pc[u]
                      /\ status'[BenchmarkOf[u]] = status[BenchmarkOf[u]]
    BY <2>1 DEF Ended
  <2> QED BY <2>1 DEF CancelledRowsHaveEnded
<1>9. ReadyIsOver' BY DEF ReadyIsOver
<1>10. NotYetInserted' BY DEF NotYetInserted
<1>11. ReadyHasResults' BY DEF ReadyHasResults
<1> QED BY <1>5, <1>6, <1>7, <1>8, <1>9, <1>10, <1>11

LEMMA UndisturbedGoroutine ==
    ASSUME TypeOK, RowInvariant, Undisturbed, ~Fault, NEW t \in Tasks,
           Goroutine(t) \/ StatementFails(t)
    PROVE  Undisturbed'
<1> DEFINE b == BenchmarkOf[t]
<1>b. b \in Benchmarks /\ t \in TasksOf(b) BY ShapeAssumption DEF TasksOf
<1>s. UNCHANGED <<stranded, sweeping, request>>
  BY DEF Goroutine, LoadBenchmark, CancelTask, StatInput, RunTask,
     CompleteTask, UpdateProgress, FailTask, MarkBenchmark, CancelSiblings,
     Finalize, Cleanup, Exit, StatementFails, LocalStep, handlers
<1>r. /\ pc[t] \in OwnsRow => task[t] \in {"running", "none"}
      /\ pc[t] = "abandon" => task[t] = "none"
      /\ pc[t] = "drain" => task[t] \in {"failed", "none"}
      /\ pc[t] # "persist"
      /\ pc[t] \in {"discard", "drain"} => status[b] \in Ended
      /\ task[t] = "cancelled" => status[b] \in Ended
      /\ status[b] = "ready" => pc[t] \in NothingLeft \/ pc[t] = "idle"
  BY <1>b
  DEF Undisturbed, RowFollowsGoroutine, CancelledRowsHaveEnded, ReadyIsOver,
      NothingLeft
<1>o. status[b] = "none" => task[t] = "none"
  BY <1>b DEF RowInvariant, TasksHaveBenchmark, NoTaskRows
<1>p. pc \in [Tasks -> Step] /\ task \in [Tasks -> TaskStatus] BY DEF TypeOK
<1>1. CASE LoadBenchmark(t)
  <2>1. /\ pc[t] = "load" /\ UNCHANGED <<status, results, task>>
        /\ \E s \in {"abandon", "discard", "stat"} :
              /\ pc' = [pc EXCEPT ![t] = s]
              /\ s = "abandon" => status[b] = "none"
              /\ s = "discard" => status[b] = "cancelled"
    BY <1>1 DEF LoadBenchmark, Goto, database
  <2> QED BY <1>s, <1>r, <1>o, <1>p, <2>1, UndisturbedMove
          DEF OwnsRow, NothingLeft, Ended
<1>2. CASE CancelTask(t)
  <2>1. /\ pc[t] \in {"abandon", "discard"} /\ UNCHANGED <<status, results>>
        /\ pc' = [pc EXCEPT ![t] = IF pc[t] = "abandon" THEN "exit"
                                                         ELSE "finalize"]
        /\ task' = IF task[t] \in {"queued", "running"}
                   THEN [task EXCEPT ![t] = "cancelled"] ELSE task
    BY <1>2 DEF CancelTask, Goto
  <2>2. pc[t] # "idle" /\ pc'[t] \in {"exit", "finalize"} BY <1>p, <2>1
  <2>3. \A u \in Tasks \ {t} : pc'[u] = pc[u] /\ task'[u] = task[u]
    BY <1>p, <2>1
  <2>4. /\ task'[t] = "none" <=> task[t] = "none"
        /\ task'[t] = "cancelled" => status[b] \in Ended
    BY <1>p, <1>r, <2>1
  <2> QED BY <1>s, <2>1, <2>2, <2>3, <2>4, UndisturbedMove
          DEF OwnsRow, NothingLeft
<1>3. CASE StatInput(t)
  <2>1. /\ pc[t] = "stat" /\ UNCHANGED <<status, results, task>>
        /\ \E s \in {"run", "fail"} : pc' = [pc EXCEPT ![t] = s]
    BY <1>3 DEF StatInput, Goto, database
  <2> QED BY <1>s, <1>r, <1>p, <2>1, UndisturbedMove
          DEF OwnsRow, NothingLeft
<1>4. CASE RunTask(t)
  <2>1. /\ pc[t] = "run" /\ UNCHANGED <<status, results, task>>
        /\ \E s \in {"complete", "fail"} : pc' = [pc EXCEPT ![t] = s]
    BY <1>4 DEF RunTask, Goto, database
  <2> QED BY <1>s, <1>r, <1>p, <2>1, UndisturbedMove
          DEF OwnsRow, NothingLeft
<1>5. CASE CompleteTask(t)
  <2>1. /\ pc[t] = "complete" /\ UNCHANGED <<status, results>>
        /\ pc' = [pc EXCEPT ![t] = "progress"] /\ SetTask(t, "done")
    BY <1>5 DEF CompleteTask, Goto
  <2>2. /\ \A u \in Tasks \ {t} : task'[u] = task[u]
        /\ task'[t] \in {"done", "none"}
        /\ task'[t] = "none" <=> task[t] = "none"
    BY <1>p, <2>1 DEF SetTask
  <2> QED BY <1>s, <1>r, <1>p, <2>1, <2>2, UndisturbedMove
          DEF OwnsRow, NothingLeft
<1>6. CASE UpdateProgress(t)
  <2>1. /\ pc[t] = "progress" /\ UNCHANGED <<status, results, task>>
        /\ pc' = [pc EXCEPT ![t] = "finalize"]
    BY <1>6 DEF UpdateProgress, Goto
  <2> QED BY <1>s, <1>r, <1>p, <2>1, UndisturbedMove
          DEF OwnsRow, NothingLeft
<1>7. CASE FailTask(t)
  <2>1. /\ pc[t] = "fail" /\ UNCHANGED <<status, results>>
        /\ pc' = [pc EXCEPT ![t] = "mark"] /\ SetTask(t, "failed")
    BY <1>7 DEF FailTask, Goto
  <2>2. /\ \A u \in Tasks \ {t} : task'[u] = task[u]
        /\ task'[t] \in {"failed", "none"}
        /\ task'[t] = "none" <=> task[t] = "none"
    BY <1>p, <2>1 DEF SetTask
  <2> QED BY <1>s, <1>r, <1>p, <2>1, <2>2, UndisturbedMove
          DEF OwnsRow, NothingLeft
<1>8. CASE MarkBenchmark(t) BY <1>8, UndisturbedMark
<1>9. CASE CancelSiblings(t)
  <2>1. /\ pc[t] = "drain" /\ UNCHANGED <<status, results>>
        /\ pc' = [pc EXCEPT ![t] = "finalize"]
        /\ \A u \in Tasks : \/ task'[u] = task[u]
                            \/ /\ task[u] = "queued" /\ task'[u] = "cancelled"
                               /\ BenchmarkOf[u] = b
    BY <1>9 DEF CancelSiblings, Goto, InStatus, TasksOf
  <2>2. status[b] \in Ended BY <1>r, <2>1
  <2>3. task'[t] = task[t] BY <1>r, <2>1
  <2> QED BY <1>s, <1>r, <1>p, <2>1, <2>2, <2>3, UndisturbedMove
          DEF OwnsRow, NothingLeft
<1>10. CASE Finalize(t)
  <2>1. CASE CommitFinalize(b) /\ pc' = [pc EXCEPT ![t] = "cleanup"]
    <3>1. pc[t] = "finalize" BY <1>10 DEF Finalize
    <3>2. \A c \in Benchmarks : <<c, "persist">> \notin sweeping'
      BY <1>s DEF Undisturbed
    <3>3. \A u \in Tasks : \/ pc'[u] = pc[u]
                           \/ pc[u] = "finalize" /\ pc'[u] = "cleanup"
      BY <1>p, <2>1, <3>1
    <3> QED BY <1>b, <1>s, <2>1, <3>2, <3>3, UndisturbedCommit
  <2>2. CASE UNCHANGED database /\ pc' = [pc EXCEPT ![t] = "exit"]
    <3>1. pc[t] = "finalize" /\ UNCHANGED <<status, results, task>>
      BY <1>10, <2>2 DEF Finalize, database
    <3> QED BY <1>s, <1>r, <1>p, <2>2, <3>1, UndisturbedMove
            DEF OwnsRow, NothingLeft
  <2> QED BY <1>10, <2>1, <2>2 DEF Finalize, Goto
<1>11. CASE Cleanup(t)
  <2>1. /\ pc[t] = "cleanup" /\ UNCHANGED <<status, results, task>>
        /\ pc' = [pc EXCEPT ![t] = "exit"]
    BY <1>11 DEF Cleanup, Goto, database
  <2> QED BY <1>s, <1>r, <1>p, <2>1, UndisturbedMove
          DEF OwnsRow, NothingLeft
<1>12. CASE Exit(t)
  <2>1. /\ pc[t] = "exit" /\ UNCHANGED <<status, results, task>>
        /\ pc' = [pc EXCEPT ![t] = "idle"]
    BY <1>12 DEF Exit, Goto, database
  <2> QED BY <1>s, <1>r, <1>p, <2>1, UndisturbedMove
          DEF OwnsRow, NothingLeft
<1>13. CASE StatementFails(t) BY <1>13 DEF StatementFails
<1> QED BY <1>1, <1>2, <1>3, <1>4, <1>5, <1>6, <1>7, <1>8, <1>9, <1>10, <1>11,
           <1>12, <1>13 DEF Goroutine

LEMMA LifecycleStep ==
    TypeOK /\ RowInvariant /\ FilesInvariant /\ LifecycleInvariant
        /\ [Next]_vars => LifecycleInvariant'
<1> SUFFICES ASSUME TypeOK, RowInvariant, FilesInvariant, LifecycleInvariant,
                    [Next]_vars, faults' = 0
             PROVE  Undisturbed'
  BY DEF LifecycleInvariant
<1>u. Undisturbed /\ ~Fault BY FaultsOnlyGrow DEF LifecycleInvariant
<1>1. CASE Crash
  <2>1. /\ UNCHANGED <<status, results, task>> /\ stranded' = {}
        /\ sweeping' = {} /\ \A t \in Tasks : pc'[t] = "idle"
        /\ \A b \in Benchmarks : \/ request'[b] = request[b]
                                 \/ request'[b] = "done"
    BY <1>1 DEF Crash, database
  <2> USE <1>u, <2>1 DEF Undisturbed, NoTaskRows, TasksOf
  <2>2. AllRowsOrNone' BY DEF AllRowsOrNone
  <2>3. RowFollowsGoroutine' BY DEF RowFollowsGoroutine, OwnsRow
  <2>4. QueuedIsIdle' BY DEF QueuedIsIdle
  <2>5. CancelledRowsHaveEnded' BY DEF CancelledRowsHaveEnded
  <2>6. ReadyIsOver' BY DEF ReadyIsOver
  <2>7. NotYetInserted' BY DEF NotYetInserted
  <2>8. ReadyHasResults' BY DEF ReadyHasResults
  <2> QED BY <2>2, <2>3, <2>4, <2>5, <2>6, <2>7, <2>8
<1>2. CASE UNCHANGED vars
  <2>1. UNCHANGED <<status, results, task, pc, request, stranded, sweeping>>
    BY <1>2 DEF vars, database, runner, handlers
  <2>2. \A c \in Benchmarks : <<c, "persist">> \notin sweeping'
    BY <1>u, <2>1 DEF Undisturbed
  <2> QED BY <1>u, <2>1, <2>2, UndisturbedLoop
<1> QED BY <1>u, <1>1, <1>2, UndisturbedHandlers, UndisturbedScheduler,
           UndisturbedGoroutine DEF Next

\* No run without a failing statement leaves the states LifecycleInvariant
\* describes, whatever is cancelled, deleted or restarted on the way.
THEOREM LifecycleSafe == Spec => []LifecycleInvariant
<1>1. Init => LifecycleInvariant BY UndisturbedInit DEF LifecycleInvariant
<1> QED BY <1>1, TypeInit, TypeStep, RowInit, RowStep, FilesInit, FilesStep,
        LifecycleStep, PTL DEF Spec

\* Results are shown exactly with the status "ready": none of a benchmark that
\* failed, timed out or was cancelled while its tasks ran, and no ready one
\* without (finalize, AdminCancel, handleTaskError).
THEOREM ResultsComeWithReady == Spec => []ResultsIffReady
<1>1. LifecycleInvariant => ResultsIffReady
  BY DEF LifecycleInvariant, Undisturbed, ReadyHasResults, ResultsIffReady
<1> QED BY <1>1, LifecycleSafe, PTL

-----------------------------------------------------------------------------
(* Publishing                                                              *)

LEMMA OnlyFinalizePublishes ==
    ASSUME TypeOK, Next, NEW b \in Benchmarks,
           status[b] # "ready", status'[b] = "ready"
    PROVE  PublishResults(b)
<1>1. ASSUME NEW c \in Benchmarks, CommitFinalize(c) PROVE PublishResults(b)
  <2>1. ~DropTasks(c) BY DEF DropTasks
  <2>2. ~FailBenchmark(c) BY DEF FailBenchmark, TypeOK
  <2>3. CASE PublishResults(c)
    <3>1. c = b BY <2>3 DEF PublishResults, TypeOK
    <3> QED BY <2>3, <3>1
  <2> QED BY <1>1, <2>1, <2>2, <2>3 DEF CommitFinalize
<1>2. ASSUME NEW c \in Benchmarks,
             \/ StoreUpload(c) \/ CreateBenchmark(c)
             \/ AdminCancel(c) \/ AdminDeleteFiles(c) \/ AdminDeleteRow(c)
      PROVE  FALSE
  BY <1>2
  DEF TypeOK, StoreUpload, CreateBenchmark, InsertBenchmark, RejectUpload,
      InsertTasks, InsertTasksFails, UndoInsert, UndoUpload, AdminCancel,
      AdminDeleteFiles, AdminDeleteRow, DeleteBenchmarkRow, database
<1>3. CASE Scheduler
  <2>1. ASSUME NEW c \in Benchmarks, FinalizeStranded(c)
        PROVE  PublishResults(b)
    BY <2>1, <1>1 DEF FinalizeStranded, database
  <2>2. ASSUME NEW t \in Tasks, ClaimTask(t) PROVE FALSE
    BY <2>2 DEF ClaimTask, TypeOK
  <2>3. ASSUME NEW c \in Benchmarks, SweepPersistError(c) PROVE FALSE
    BY <2>3 DEF SweepPersistError, TypeOK
  <2> QED BY <1>3, <2>1, <2>2, <2>3
          DEF Scheduler, ResetRunning, ListStranded, StartDispatching,
              SweepFiles, PickCandidate, LoseCandidate, database
<1>4. ASSUME NEW t \in Tasks, Goroutine(t) \/ StatementFails(t)
      PROVE  PublishResults(b)
  <2>1. CASE Finalize(t)
    BY <1>1, <2>1, ShapeAssumption DEF Finalize, database
  <2>2. ~MarkBenchmark(t) BY DEF MarkBenchmark, TypeOK
  <2> QED BY <1>4, <2>1, <2>2
          DEF Goroutine, LoadBenchmark, CancelTask, StatInput, RunTask,
              CompleteTask, UpdateProgress, FailTask, CancelSiblings, Cleanup,
              Exit, StatementFails, database
<1>5. ~Crash BY DEF Crash, database
<1> QED BY <1>2, <1>3, <1>4, <1>5 DEF Next

\* The published average covers every task: nothing is published while a task
\* of the benchmark failed, was cancelled, or has not run (finalize).
THEOREM PublishesAll == Spec => PublishesEveryTask
<1>1. TypeOK /\ RowInvariant /\ LifecycleInvariant /\ [Next]_vars
        => [\A b \in Benchmarks :
               faults = 0 /\ status[b] # "ready" /\ status'[b] = "ready" =>
                   /\ \A t \in TasksOf(b) : task[t] = "done"
                   /\ results'[b] = TasksOf(b) \cap rows]_vars
  <2> SUFFICES ASSUME TypeOK, RowInvariant, LifecycleInvariant, Next,
                      NEW b \in Benchmarks, faults = 0,
                      status[b] # "ready", status'[b] = "ready"
               PROVE  /\ \A t \in TasksOf(b) : task[t] = "done"
                      /\ results'[b] = TasksOf(b) \cap rows
    OBVIOUS
  <2> QED BY OnlyFinalizePublishes, PublishEffect DEF LifecycleInvariant
<1> QED BY <1>1, TypeInit, TypeStep, RowInit, RowStep, LifecycleSafe,
        PTL DEF Spec, PublishesEveryTask

-----------------------------------------------------------------------------
(* Refinement                                                              *)

LEMMA RefineCommit ==
    ASSUME TypeOK, RowInvariant, Undisturbed, NEW b \in Benchmarks,
           CommitFinalize(b), status[b] # "queued"
    PROVE  Lifecycle!Next \/ UNCHANGED <<status, results>>
<1>1. CASE DropTasks(b) BY <1>1 DEF DropTasks
<1>2. CASE FailBenchmark(b)
  <2>1. Lifecycle!Fail(b)
    BY <1>2 DEF FailBenchmark, Claimable, Lifecycle!Fail
  <2> QED BY <2>1 DEF Lifecycle!Next
<1>3. CASE PublishResults(b)
  <2> DEFINE P == InStatus(b, {"done"}) \cap rows
  <2>1. /\ status[b] = "in_progress"
        /\ status' = [status EXCEPT ![b] = "ready"]
        /\ results' = [results EXCEPT ![b] = P]
        /\ P # {}
    BY <1>3 DEF PublishResults, HasNoResult, Claimable
  <2>2. P \in SUBSET Tasks BY DEF TypeOK
  <2>3. Lifecycle!Publish(b) BY <2>1, <2>2 DEF Lifecycle!Publish
  <2> QED BY <2>3 DEF Lifecycle!Next
<1> QED BY <1>1, <1>2, <1>3 DEF CommitFinalize

LEMMA RefineHandlers ==
    ASSUME TypeOK, Undisturbed, ~Fault, NEW b \in Benchmarks,
           \/ StoreUpload(b) \/ CreateBenchmark(b)
           \/ AdminCancel(b) \/ AdminDeleteFiles(b) \/ AdminDeleteRow(b)
    PROVE  Lifecycle!Next \/ UNCHANGED <<status, results>>
<1>1. CASE InsertBenchmark(b)
  <2>1. status[b] = "none"
    BY <1>1 DEF InsertBenchmark, Undisturbed, NotYetInserted
  <2>2. Lifecycle!Submit(b)
    BY <1>1, <2>1 DEF InsertBenchmark, Lifecycle!Submit
  <2> QED BY <2>2 DEF Lifecycle!Next
<1>2. CASE AdminCancel(b)
  <2>1. Lifecycle!Cancel(b)
    BY <1>2 DEF AdminCancel, Claimable, Lifecycle!Cancel
  <2> QED BY <2>1 DEF Lifecycle!Next
<1>3. CASE DeleteBenchmarkRow(b)
  <2>1. Lifecycle!Remove(b)
    BY <1>3 DEF DeleteBenchmarkRow, Lifecycle!Remove
  <2> QED BY <2>1 DEF Lifecycle!Next
<1> QED BY <1>1, <1>2, <1>3
        DEF StoreUpload, CreateBenchmark, RejectUpload, InsertTasks,
            InsertTasksFails, UndoInsert, UndoUpload, AdminDeleteFiles,
            AdminDeleteRow, database

LEMMA RefineScheduler ==
    ASSUME TypeOK, RowInvariant, Undisturbed, ~Fault, Scheduler
    PROVE  Lifecycle!Next \/ UNCHANGED <<status, results>>
<1>1. ASSUME NEW b \in Benchmarks, FinalizeStranded(b)
      PROVE  Lifecycle!Next \/ UNCHANGED <<status, results>>
  <2>1. status[b] # "queued"
    BY <1>1 DEF FinalizeStranded, Undisturbed, QueuedIsIdle
  <2> QED BY <1>1, <2>1, RefineCommit DEF FinalizeStranded, database
<1>2. ASSUME NEW b \in Benchmarks, SweepPersistError(b) PROVE FALSE
  BY <1>2 DEF SweepPersistError, Undisturbed
<1>3. ASSUME NEW t \in Tasks, ClaimTask(t)
      PROVE  Lifecycle!Next \/ UNCHANGED <<status, results>>
  <2> DEFINE b == BenchmarkOf[t]
  <2>1. /\ status' = [status EXCEPT ![b] = "in_progress"]
        /\ status[b] \in {"queued", "in_progress"} /\ UNCHANGED results
        /\ b \in Benchmarks /\ status \in [Benchmarks -> BenchmarkStatus]
    BY <1>3, ShapeAssumption DEF ClaimTask, Claimable, TypeOK
  <2>2. CASE status[b] = "queued"
    <3>1. Lifecycle!Start(b) BY <2>1, <2>2 DEF Lifecycle!Start
    <3> QED BY <2>1, <3>1 DEF Lifecycle!Next
  <2>3. CASE status[b] = "in_progress" BY <2>1, <2>3
  <2> QED BY <2>1, <2>2, <2>3
<1> QED BY <1>1, <1>2, <1>3
        DEF Scheduler, ResetRunning, ListStranded, StartDispatching,
            SweepFiles, PickCandidate, LoseCandidate, database

LEMMA RefineGoroutine ==
    ASSUME TypeOK, RowInvariant, Undisturbed, ~Fault, NEW t \in Tasks,
           Goroutine(t) \/ StatementFails(t)
    PROVE  Lifecycle!Next \/ UNCHANGED <<status, results>>
<1> DEFINE b == BenchmarkOf[t]
<1>b. b \in Benchmarks /\ t \in TasksOf(b) BY ShapeAssumption DEF TasksOf
<1>1. CASE Finalize(t)
  <2>1. status[b] # "queued"
    BY <1>b, <1>1 DEF Finalize, Undisturbed, QueuedIsIdle
  <2> QED BY <1>b, <1>1, <2>1, RefineCommit DEF Finalize, database
<1>2. CASE MarkBenchmark(t)
  <2>1. pc[t] = "mark"
    BY <1>2 DEF MarkBenchmark, Undisturbed, RowFollowsGoroutine
  <2>2. status[b] \notin {"queued", "ready"}
    BY <2>1, <1>b DEF Undisturbed, QueuedIsIdle, ReadyIsOver
  <2>3. CASE status[b] = "none" BY <1>2, <2>3 DEF MarkBenchmark
  <2>4. CASE status[b] # "none"
    <3>1. status[b] \in {"in_progress", "failed", "timed_out", "cancelled"}
      BY <1>b, <2>2, <2>4 DEF TypeOK, BenchmarkStatus, Terminal, Claimable
    <3>2. /\ \E s \in {"failed", "timed_out"} :
                status' = [status EXCEPT ![b] = s]
          /\ UNCHANGED results
      BY <1>2, <2>4 DEF MarkBenchmark
    <3>3. Lifecycle!Fail(b) BY <3>1, <3>2 DEF Lifecycle!Fail
    <3> QED BY <1>b, <3>3 DEF Lifecycle!Next
  <2> QED BY <2>3, <2>4
<1> QED BY <1>1, <1>2
        DEF Goroutine, LoadBenchmark, CancelTask, StatInput, RunTask,
            CompleteTask, UpdateProgress, FailTask, CancelSiblings, Cleanup,
            Exit, StatementFails, database

\* No statement has failed yet: as an assumption on a whole behaviour, none
\* ever does.
NoFaultSoFar == faults = 0

\* Every step of the scheduler, its goroutines and the request handlers is a
\* step of the lifecycle, or leaves what the owner sees alone.
LEMMA RefineStep ==
    TypeOK /\ RowInvariant /\ LifecycleInvariant /\ [Next]_vars
        /\ NoFaultSoFar' => [Lifecycle!Next]_(Lifecycle!vars)
<1> SUFFICES ASSUME TypeOK, RowInvariant, LifecycleInvariant, [Next]_vars,
                    faults' = 0
             PROVE  Lifecycle!Next \/ UNCHANGED <<status, results>>
  BY DEF Lifecycle!vars, NoFaultSoFar
<1>u. Undisturbed /\ ~Fault BY FaultsOnlyGrow DEF LifecycleInvariant
<1>1. CASE Crash BY <1>1 DEF Crash, database
<1>2. CASE UNCHANGED vars BY <1>2 DEF vars, database
<1> QED BY <1>u, <1>1, <1>2, RefineHandlers, RefineScheduler, RefineGoroutine
        DEF Next

\* While no database statement fails, an owner sees the lifecycle: a benchmark
\* starts once, ends, shows results together with "ready", and stays ready.
THEOREM LifecycleImplemented ==
    Spec /\ []NoFaultSoFar => ImplementsLifecycle
<1>1. Init => Lifecycle!Init BY DEF Init, Lifecycle!Init
<1> QED BY <1>1, RefineStep, TypeInit, TypeStep, RowInit, RowStep,
        LifecycleSafe, PTL DEF Spec, ImplementsLifecycle, Lifecycle!Spec

-----------------------------------------------------------------------------
(* The progress bar                                                        *)

ProgressKept(b) == SomebodyFinishes(b) /\ QueuedIsLeft(b)

LEMMA CrashesOnlyGrow ==
    TypeOK /\ [Next]_vars /\ crashes' = 0 => crashes = 0 /\ ~Crash
<1> SUFFICES ASSUME TypeOK, [Next]_vars, crashes' = 0
             PROVE  crashes = 0 /\ ~Crash
  OBVIOUS
<1>1. crashes \in Nat BY ShapeAssumption DEF TypeOK
<1>2. (UNCHANGED crashes /\ ~Crash) \/ crashes' = crashes + 1
  BY DEF Next, StoreUpload, CreateBenchmark, InsertBenchmark, RejectUpload,
     InsertTasks, InsertTasksFails, UndoInsert, UndoUpload, AdminCancel,
     AdminDeleteFiles, AdminDeleteRow, Scheduler, ResetRunning, ListStranded,
     StartDispatching, FinalizeStranded, SweepFiles, SweepPersistError,
     PickCandidate, ClaimTask, LoseCandidate, Goroutine, LoadBenchmark,
     CancelTask, StatInput, RunTask, CompleteTask, UpdateProgress, FailTask,
     MarkBenchmark, CancelSiblings, Finalize, Cleanup, Exit, StatementFails,
     Crash, vars, bounds, Fault
<1> QED BY <1>1, <1>2

\* Of a benchmark that a step does not concern, nothing changes here.
LEMMA ProgressFrame ==
    ASSUME NEW b \in Benchmarks, ProgressKept(b),
           status'[b] = status[b], progress'[b] = progress[b],
           \A t \in TasksOf(b) :
               /\ pc[t] \in Working => pc'[t] \in Working
               /\ pc[t] = "drain" => pc'[t] = "drain"
               /\ pc[t] = "idle" => pc'[t] = "idle"
               /\ task'[t] = "queued" => task[t] = "queued"
    PROVE  ProgressKept(b)'
<1>1. SomebodyFinishes(b)' BY DEF ProgressKept, SomebodyFinishes, TasksOf
<1>2. QueuedIsLeft(b)' BY DEF ProgressKept, QueuedIsLeft, InStatus, TasksOf
<1> QED BY <1>1, <1>2 DEF ProgressKept

\* A benchmark with no ended status, or at 100% with no queued row.
LEMMA ProgressSettled ==
    ASSUME NEW b \in Benchmarks,
           \/ status'[b] \notin Terminal
           \/ /\ progress'[b] = 100
              /\ \A t \in TasksOf(b) : task'[t] # "queued"
    PROVE  ProgressKept(b)'
BY DEF ProgressKept, SomebodyFinishes, QueuedIsLeft, InStatus, TasksOf

LEMMA ProgressCommit ==
    ASSUME TypeOK, NEW b \in Benchmarks, NEW c \in Benchmarks,
           CommitFinalize(b), ProgressKept(c),
           \A t \in TasksOf(c) : pc'[t] = pc[t] \/ c = b
    PROVE  ProgressKept(c)'
<1>1. /\ progress' = [progress EXCEPT ![b] = 100]
      /\ task' = [t \in Tasks |-> IF t \in TasksOf(b) THEN "none" ELSE task[t]]
      /\ \E s : status' = [status EXCEPT ![b] = s]
  <2>1. status = [status EXCEPT ![b] = status[b]] BY DEF TypeOK
  <2> QED BY <2>1 DEF CommitFinalize, DropTasks, FailBenchmark, PublishResults,
          EndBenchmark
<1>2. CASE c = b
  <2>1. progress'[c] = 100 /\ \A t \in TasksOf(c) : task'[t] # "queued"
    BY <1>1, <1>2 DEF TypeOK, TasksOf
  <2> QED BY <2>1, ProgressSettled
<1>3. CASE c # b
  <2>1. /\ status'[c] = status[c] /\ progress'[c] = progress[c]
        /\ \A t \in TasksOf(c) : task'[t] = task[t] /\ pc'[t] = pc[t]
    BY <1>1, <1>3 DEF TypeOK, TasksOf
  <2> QED BY <2>1, ProgressFrame
<1> QED BY <1>2, <1>3

LEMMA ProgressHandlers ==
    ASSUME TypeOK, RowInvariant, NEW b \in Benchmarks, NEW c \in Benchmarks,
           ProgressKept(c), ~Fault,
           \/ StoreUpload(b) \/ CreateBenchmark(b)
           \/ AdminCancel(b) \/ AdminDeleteFiles(b) \/ AdminDeleteRow(b)
    PROVE  ProgressKept(c)'
<1>1. CASE UNCHANGED <<status, progress, task, pc>>
  BY <1>1, ProgressFrame
<1>2. CASE InsertBenchmark(b)
  <2>1. /\ c # b => status'[c] = status[c]
        /\ c = b => status'[c] \notin Terminal
        /\ UNCHANGED <<progress, task, pc>>
    BY <1>2 DEF InsertBenchmark, TypeOK, Terminal, runner
  <2> QED BY <2>1, ProgressFrame, ProgressSettled
<1>3. CASE InsertTasks(b)
  <2>1. UNCHANGED <<status, progress, pc>> BY <1>3 DEF InsertTasks, runner
  <2>2. CASE c = b
    <3>1. \A t \in TasksOf(b) : pc[t] = "idle"
      BY <1>3 DEF InsertTasks, RowInvariant, BeforeSubmission
    <3> QED BY <2>1, <2>2, <3>1
            DEF ProgressKept, SomebodyFinishes, QueuedIsLeft, Working, TasksOf
  <2>3. CASE c # b
    <3>1. \A t \in TasksOf(c) : task'[t] = task[t]
      BY <1>3, <2>3 DEF InsertTasks, TasksOf
    <3> QED BY <2>1, <3>1, ProgressFrame
  <2> QED BY <2>2, <2>3
<1>4. CASE DeleteBenchmarkRow(b) /\ UNCHANGED pc
  <2>1. CASE c = b
    <3>1. status'[c] \notin Terminal
      BY <1>4, <2>1 DEF DeleteBenchmarkRow, TypeOK, Terminal
    <3> QED BY <3>1, ProgressSettled
  <2>2. CASE c # b
    <3>1. /\ status'[c] = status[c] /\ progress'[c] = progress[c]
          /\ \A t \in TasksOf(c) : task'[t] = task[t] /\ pc'[t] = pc[t]
      BY <1>4, <2>2 DEF DeleteBenchmarkRow, TypeOK, TasksOf
    <3> QED BY <3>1, ProgressFrame
  <2> QED BY <2>1, <2>2
<1>5. CASE AdminCancel(b)
  <2>1. CASE c = b
    <3>1. /\ progress'[c] = 100
          /\ \A t \in TasksOf(c) : task'[t] # "queued"
      BY <1>5, <2>1 DEF AdminCancel, TypeOK, InStatus, TasksOf
    <3> QED BY <3>1, ProgressSettled
  <2>2. CASE c # b
    <3>1. /\ status'[c] = status[c] /\ progress'[c] = progress[c]
          /\ \A t \in TasksOf(c) : task'[t] = task[t] /\ pc'[t] = pc[t]
      BY <1>5, <2>2 DEF AdminCancel, TypeOK, InStatus, TasksOf, runner
    <3> QED BY <3>1, ProgressFrame
  <2> QED BY <2>1, <2>2
<1> QED BY <1>1, <1>2, <1>3, <1>4, <1>5
        DEF StoreUpload, CreateBenchmark, RejectUpload, InsertTasksFails,
            UndoInsert, UndoUpload, AdminDeleteFiles, AdminDeleteRow,
            database, runner

LEMMA ProgressScheduler ==
    ASSUME TypeOK, RowInvariant, Undisturbed, NEW c \in Benchmarks,
           ProgressKept(c), ~Fault, Scheduler
    PROVE  ProgressKept(c)'
<1>1. CASE UNCHANGED <<status, progress, task, pc>>
  BY <1>1, ProgressFrame
<1>2. CASE ResetRunning
  <2>1. UNCHANGED <<status, progress, pc>> /\ phase = "reset"
    BY <1>2 DEF ResetRunning
  <2>2. \A t \in Tasks : pc[t] = "idle"
    BY <2>1 DEF RowInvariant, RecoveryFirst
  <2> QED BY <2>1, <2>2
          DEF ProgressKept, SomebodyFinishes, QueuedIsLeft, Working, TasksOf
<1>3. ASSUME NEW b \in Benchmarks, CommitFinalize(b), UNCHANGED pc
      PROVE  ProgressKept(c)'
  BY <1>3, ProgressCommit
<1>4. ASSUME NEW b \in Benchmarks, SweepPersistError(b) PROVE FALSE
  BY <1>4 DEF SweepPersistError, Undisturbed
<1>5. ASSUME NEW t \in Tasks, ClaimTask(t) PROVE ProgressKept(c)'
  <2>1. CASE c = BenchmarkOf[t]
    <3>1. status'[c] \notin Terminal
      BY <1>5, <2>1 DEF ClaimTask, TypeOK, Terminal
    <3> QED BY <3>1, ProgressSettled
  <2>2. CASE c # BenchmarkOf[t]
    <3>1. /\ status'[c] = status[c] /\ progress'[c] = progress[c]
          /\ \A u \in TasksOf(c) : task'[u] = task[u] /\ pc'[u] = pc[u]
      BY <1>5, <2>2 DEF ClaimTask, TypeOK, TasksOf
    <3> QED BY <3>1, ProgressFrame
  <2> QED BY <2>1, <2>2
<1> QED BY <1>1, <1>2, <1>3, <1>4, <1>5
        DEF Scheduler, ListStranded, StartDispatching, FinalizeStranded,
            SweepFiles, PickCandidate, LoseCandidate, database

\* A goroutine that goes on towards a finalize, or had nothing to finish.
LEMMA ProgressMove ==
    ASSUME TypeOK, NEW t \in Tasks, NEW c \in Benchmarks, ProgressKept(c),
           UNCHANGED status, pc[t] # "idle",
           \A u \in Tasks \ {t} : pc'[u] = pc[u],
           \A u \in Tasks : task'[u] = "queued" => task[u] = "queued",
           c # BenchmarkOf[t] => progress'[c] = progress[c],
           pc'[t] \in Working \/ (UNCHANGED progress /\ pc[t] \notin Working),
           pc[t] = "drain" =>
               \A u \in TasksOf(BenchmarkOf[t]) : task'[u] # "queued"
    PROVE  ProgressKept(c)'
<1>1. CASE c # BenchmarkOf[t]
  <2>1. t \notin TasksOf(c) BY <1>1 DEF TasksOf
  <2> QED BY <1>1, <2>1, ProgressFrame DEF TasksOf
<1>2. CASE c = BenchmarkOf[t]
  <2>1. t \in TasksOf(c) /\ TasksOf(c) \subseteq Tasks BY <1>2 DEF TasksOf
  <2>2. SomebodyFinishes(c)'
    <3>1. CASE pc'[t] \in Working
      BY <2>1, <3>1 DEF SomebodyFinishes, TasksOf
    <3>2. CASE UNCHANGED progress /\ pc[t] \notin Working
      BY <2>1, <3>2 DEF ProgressKept, SomebodyFinishes, TasksOf
    <3> QED BY <3>1, <3>2
  <2>3. QueuedIsLeft(c)'
    <3>1. CASE pc[t] = "drain"
      BY <1>2, <3>1 DEF QueuedIsLeft, InStatus, TasksOf
    <3>2. CASE pc[t] # "drain"
      BY <2>1, <3>2 DEF ProgressKept, QueuedIsLeft, InStatus, TasksOf
    <3> QED BY <3>1, <3>2
  <2> QED BY <2>2, <2>3 DEF ProgressKept
<1> QED BY <1>1, <1>2

LEMMA ProgressFinalize ==
    ASSUME TypeOK, RowInvariant, NEW t \in Tasks, NEW c \in Benchmarks,
           ProgressKept(c), Finalize(t), faults = 0
    PROVE  ProgressKept(c)'
<1> DEFINE b == BenchmarkOf[t]
<1>b. b \in Benchmarks /\ t \in TasksOf(b) BY ShapeAssumption DEF TasksOf
<1>p. pc[t] = "finalize" /\ \A u \in Tasks \ {t} : pc'[u] = pc[u]
  BY DEF Finalize, Goto, TypeOK
<1>1. CASE CommitFinalize(b)
  <2>1. \A u \in TasksOf(c) : pc'[u] = pc[u] \/ c = b BY <1>p DEF TasksOf
  <2> QED BY <1>b, <1>1, <2>1, ProgressCommit
<1>2. CASE NothingToFinalize(b) /\ UNCHANGED database
  <2>1. UNCHANGED <<status, progress, task>> BY <1>2 DEF database
  <2>2. CASE c # b
    <3>1. t \notin TasksOf(c) BY <2>2 DEF TasksOf
    <3> QED BY <1>p, <2>1, <3>1, ProgressFrame DEF TasksOf
  <2>3. CASE c = b /\ status[b] \notin Terminal
    BY <2>1, <2>3, ProgressSettled
  <2>4. CASE c = b /\ status[b] \in Terminal
    <3>1. PICK u \in TasksOf(b) : task[u] \in {"queued", "running"}
      BY <1>2, <2>4
      DEF NothingToFinalize, Pending, InStatus, Terminal
    <3>2. CASE task[u] = "running"
      <4>1. phase = "dispatch"
        BY <1>p DEF RowInvariant, RecoveryFirst
      <4>2. pc[u] \in OwnsRow /\ u \in Tasks
        BY <3>1, <3>2, <4>1 DEF RowInvariant, TaskOwnership, TasksOf
      <4>3. pc'[u] \in Working
        BY <1>p, <4>2 DEF OwnsRow, Working
      <4>4. SomebodyFinishes(c)'
        BY <2>4, <3>1, <4>3 DEF SomebodyFinishes, TasksOf
      <4>5. QueuedIsLeft(c)'
        BY <1>b, <1>p, <2>1, <2>4
        DEF ProgressKept, QueuedIsLeft, InStatus, TasksOf
      <4> QED BY <4>4, <4>5 DEF ProgressKept
    <3>3. CASE task[u] = "queued"
      <4>1. PICK w \in TasksOf(b) : pc[w] = "drain"
        BY <1>b, <1>p, <2>4, <3>1, <3>3
        DEF ProgressKept, QueuedIsLeft, InStatus
      <4>2. pc'[w] = "drain" BY <1>p, <4>1 DEF TasksOf
      <4> QED BY <2>4, <4>1, <4>2
              DEF ProgressKept, SomebodyFinishes, QueuedIsLeft, Working,
                  TasksOf
    <3> QED BY <3>1, <3>2, <3>3
  <2> QED BY <2>2, <2>3, <2>4
<1> QED BY <1>1, <1>2 DEF Finalize

LEMMA ProgressGoroutine ==
    ASSUME TypeOK, RowInvariant, Undisturbed, NEW t \in Tasks,
           NEW c \in Benchmarks, ProgressKept(c), ~Fault, faults = 0,
           Goroutine(t) \/ StatementFails(t)
    PROVE  ProgressKept(c)'
<1>b. BenchmarkOf[t] \in Benchmarks BY ShapeAssumption
<1>p. pc \in [Tasks -> Step] BY DEF TypeOK
<1>1. CASE MarkBenchmark(t)
  <2>1. pc[t] = "mark"
    BY <1>1 DEF MarkBenchmark, Undisturbed, RowFollowsGoroutine
  <2>2. /\ pc' = [pc EXCEPT ![t] = "drain"] /\ UNCHANGED <<progress, task>>
        /\ c # BenchmarkOf[t] => status'[c] = status[c]
    BY <1>1, <1>b, <2>1 DEF MarkBenchmark, Goto, TypeOK
  <2>3. CASE c = BenchmarkOf[t]
    <3>1. t \in TasksOf(c) /\ pc'[t] = "drain"
      BY <1>p, <2>2, <2>3 DEF TasksOf
    <3> QED BY <3>1
            DEF ProgressKept, SomebodyFinishes, QueuedIsLeft, Working, TasksOf
  <2>4. CASE c # BenchmarkOf[t]
    <3>1. \A u \in TasksOf(c) : pc'[u] = pc[u]
      BY <1>p, <2>2, <2>4 DEF TasksOf
    <3> QED BY <2>2, <2>4, <3>1, ProgressFrame
  <2> QED BY <2>3, <2>4
<1>2. CASE Finalize(t) BY <1>2, ProgressFinalize
<1>3. CASE CancelSiblings(t)
  <2>1. /\ pc[t] = "drain" /\ pc' = [pc EXCEPT ![t] = "finalize"]
        /\ UNCHANGED <<status, progress>>
        /\ task' = [u \in Tasks |->
                       IF u \in InStatus(BenchmarkOf[t], {"queued"})
                       THEN "cancelled" ELSE task[u]]
    BY <1>3 DEF CancelSiblings, Goto
  <2>2. \A u \in TasksOf(BenchmarkOf[t]) : task'[u] # "queued"
    BY <2>1 DEF InStatus, TasksOf
  <2>3. \A u \in Tasks : task'[u] = "queued" => task[u] = "queued" BY <2>1
  <2>4. /\ \A u \in Tasks \ {t} : pc'[u] = pc[u]
        /\ pc'[t] \in Working /\ pc[t] # "idle"
    BY <1>p, <2>1 DEF Working
  <2> QED BY <2>1, <2>2, <2>3, <2>4, ProgressMove
<1>4. CASE UpdateProgress(t)
  <2>1. /\ pc[t] = "progress" /\ pc' = [pc EXCEPT ![t] = "finalize"]
        /\ UNCHANGED <<status, task>>
        /\ c # BenchmarkOf[t] => progress'[c] = progress[c]
    BY <1>4 DEF UpdateProgress, Goto, TypeOK
  <2>2. /\ \A u \in Tasks \ {t} : pc'[u] = pc[u]
        /\ pc'[t] \in Working /\ pc[t] \notin {"idle", "drain"}
    BY <1>p, <2>1 DEF Working
  <2> QED BY <2>1, <2>2, ProgressMove
<1>l. CASE LoadBenchmark(t)
  <2>1. /\ pc[t] = "load" /\ UNCHANGED <<status, progress, task>>
        /\ \A u \in Tasks \ {t} : pc'[u] = pc[u]
        /\ pc'[t] \in Working \/ status[BenchmarkOf[t]] = "none"
    BY <1>l, <1>p DEF LoadBenchmark, Goto, Working, database
  <2>2. CASE pc'[t] \in Working BY <2>1, <2>2, ProgressMove
  <2>3. CASE c = BenchmarkOf[t] /\ status[c] = "none"
    BY <2>1, <2>3, ProgressSettled DEF Terminal
  <2>4. CASE c # BenchmarkOf[t]
    <3>1. \A u \in TasksOf(c) : pc'[u] = pc[u] BY <2>1, <2>4 DEF TasksOf
    <3> QED BY <2>1, <3>1, ProgressFrame
  <2> QED BY <2>1, <2>2, <2>3, <2>4
<1>5. CASE \/ CancelTask(t) \/ StatInput(t) \/ RunTask(t) \/ CompleteTask(t)
           \/ FailTask(t) \/ Cleanup(t) \/ Exit(t)
  <2>1. UNCHANGED <<status, progress>>
    BY <1>5 DEF CancelTask, StatInput, RunTask, CompleteTask, FailTask,
       Cleanup, Exit, database
  <2>2. /\ \E s : pc' = [pc EXCEPT ![t] = s]
        /\ pc[t] \notin {"idle", "drain"}
    BY <1>5 DEF CancelTask, StatInput, RunTask, CompleteTask, FailTask,
       Cleanup, Exit, Goto
  <2>3. \A u \in Tasks : task'[u] = "queued" => task[u] = "queued"
    <3>1. CASE CompleteTask(t) \/ FailTask(t)
      BY <3>1, SetTaskEffect DEF CompleteTask, FailTask
    <3>2. CASE CancelTask(t) BY <3>2 DEF CancelTask, TypeOK
    <3> QED BY <1>5, <3>1, <3>2
            DEF StatInput, RunTask, Cleanup, Exit, database
  <2>4. pc'[t] \in Working \/ pc[t] \notin Working
    BY <1>5, <1>p
    DEF CancelTask, StatInput, RunTask, CompleteTask, FailTask, Cleanup, Exit,
        Goto, Working
  <2>5. \A u \in Tasks \ {t} : pc'[u] = pc[u] BY <1>p, <2>2
  <2> QED BY <2>1, <2>2, <2>3, <2>4, <2>5, ProgressMove
<1>6. CASE StatementFails(t) BY <1>6 DEF StatementFails
<1> QED BY <1>1, <1>2, <1>3, <1>4, <1>l, <1>5, <1>6 DEF Goroutine

LEMMA ProgressInit == Init => ProgressInvariant
BY DEF Init, ProgressInvariant, SomebodyFinishes, QueuedIsLeft, Terminal

LEMMA ProgressStep ==
    TypeOK /\ RowInvariant /\ LifecycleInvariant /\ ProgressInvariant
        /\ [Next]_vars => ProgressInvariant'
<1> SUFFICES ASSUME TypeOK, RowInvariant, LifecycleInvariant,
                    ProgressInvariant, [Next]_vars, crashes' = 0, faults' = 0,
                    NEW c \in Benchmarks
             PROVE  ProgressKept(c)'
  BY DEF ProgressInvariant, ProgressKept
<1>u. /\ Undisturbed /\ ~Fault /\ faults = 0 /\ ~Crash
      /\ ProgressKept(c)
  BY FaultsOnlyGrow, CrashesOnlyGrow
  DEF LifecycleInvariant, ProgressInvariant, ProgressKept
<1>1. CASE UNCHANGED vars
  <2>1. UNCHANGED <<status, progress, task, pc>>
    BY <1>1 DEF vars, database, runner
  <2> QED BY <1>u, <2>1, ProgressFrame
<1> QED BY <1>u, <1>1, ProgressHandlers, ProgressScheduler, ProgressGoroutine
        DEF Next

\* Without a crash and without a failing statement, an ended benchmark on
\* which no goroutine works any more shows 100%: the late UpdateProgress of a
\* task does not stay behind the finalize of its sibling.
THEOREM ProgressSettles == Spec => []SettledProgress
<1>1. ProgressInvariant => SettledProgress
  <2> SUFFICES ASSUME ProgressInvariant, faults = 0, crashes = 0,
                      NEW b \in Benchmarks, status[b] \in Terminal,
                      TasksOf(b) \cap Goroutines = {}
               PROVE  progress[b] = 100
    BY DEF SettledProgress
  <2>1. \A t \in TasksOf(b) : pc[t] = "idle"
    BY DEF Goroutines, TasksOf
  <2> QED BY <2>1 DEF ProgressInvariant, SomebodyFinishes, Working
<1> QED BY <1>1, TypeInit, TypeStep, RowInit, RowStep, LifecycleSafe,
        ProgressInit, ProgressStep, PTL DEF Spec

-----------------------------------------------------------------------------
(* The inductive invariant as a whole                                      *)

\* The invariant that the runs check is one that no step leaves.
THEOREM SchedulerSafe == Spec => []SchedulerInvariant
<1>1. RowInvariant /\ BudgetInvariant /\ FilesInvariant /\ LifecycleInvariant
        /\ ProgressInvariant => SchedulerInvariant
  BY DEF RowInvariant, BudgetInvariant, FilesInvariant, SchedulerInvariant
<1> QED BY <1>1, TypeInit, TypeStep, RowInit, RowStep, BudgetInit, BudgetStep,
        FilesInit, FilesStep, LifecycleSafe, ProgressInit, ProgressStep,
        PTL DEF Spec
=============================================================================
