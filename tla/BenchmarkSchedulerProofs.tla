---------------------- MODULE BenchmarkSchedulerProofs ----------------------
(***************************************************************************)
(* Theorems about BenchmarkScheduler, for every set of benchmarks and      *)
(* tasks, every budget and every bound on crashes and faults.              *)
(***************************************************************************)
EXTENDS BenchmarkScheduler, FiniteSetTheorems, TLAPS

-----------------------------------------------------------------------------
(* The cost of a set of tasks, and the percentage of ended tasks, in any state. *)

LEMMA UnitsFinite ==
    ASSUME NEW S \in SUBSET Tasks
    PROVE  IsFiniteSet(Units(S)) /\ Cost(S) \in Nat
<1>1. IsFiniteSet(S) BY FS_Subset, ShapeAssumption
<1>2. IsFiniteSet(1..Budget) BY FS_Interval, BudgetAssumption
<1>3. IsFiniteSet(S \X (1..Budget)) BY <1>1, <1>2, FS_Product
<1>4. Units(S) \subseteq S \X (1..Budget) BY DEF Units
<1>5. IsFiniteSet(Units(S)) BY <1>3, <1>4, FS_Subset
<1> QED BY <1>5, FS_CardinalityType DEF Cost

\* No task, no cost.
LEMMA CostOfNone == Cost({}) = 0
<1>1. Units({}) = {} BY DEF Units
<1> QED BY <1>1, FS_EmptySet DEF Cost

\* A task adds exactly its workers to the cost of a set it is not in.
LEMMA CostOfOneMore ==
    ASSUME NEW S \in SUBSET Tasks, NEW t \in Tasks, t \notin S
    PROVE  Cost(S \cup {t}) = Cost(S) + Workers[t]
<1> DEFINE own == {t} \X (1..Workers[t])
<1>1. Workers[t] \in 1..Budget /\ Budget \in Nat BY BudgetAssumption
<1>2. Units(S \cup {t}) = Units(S) \cup own
  <2>1. \A i : i \in 1..Workers[t] <=> i \in 1..Budget /\ i <= Workers[t]
    BY <1>1
  <2> QED BY <2>1 DEF Units
<1>3. Units(S) \cap own = {} BY DEF Units
<1>4. IsFiniteSet(own) /\ Cardinality(own) = Workers[t]
  <2>1. IsFiniteSet({t}) /\ Cardinality({t}) = 1 BY FS_Singleton
  <2>2. IsFiniteSet(1..Workers[t]) /\ Cardinality(1..Workers[t]) = Workers[t]
    BY <1>1, FS_Interval
  <2>3. IsFiniteSet(own) /\ Cardinality(own) = 1 * Workers[t]
    BY <2>1, <2>2, FS_Product
  <2> QED BY <2>3, <1>1
<1>5. IsFiniteSet(Units(S)) /\ Cardinality(Units(S)) \in Nat
  BY UnitsFinite DEF Cost
<1>6. Cardinality(Units(S) \cup own)
         = Cardinality(Units(S)) + Cardinality(own) - Cardinality({})
  BY <1>3, <1>4, <1>5, FS_Union
<1>7. Cardinality({}) = 0 BY FS_EmptySet
<1>8. Cardinality(Units(S) \cup own) = Cardinality(Units(S)) + Workers[t]
  <2> HIDE DEF own
  <2> QED BY <1>1, <1>4, <1>5, <1>6, <1>7
<1> QED BY <1>2, <1>8 DEF Cost

\* Ended tasks, in percent of all tasks of a benchmark.
LEMMA PercentageType ==
    ASSUME NEW b \in Benchmarks, task \in [Tasks -> TaskStatus]
    PROVE  Percentage(b) \in 0..100
<1> DEFINE all == InStatus(b, TaskStatus \ {"none"})
           ended == InStatus(b, {"done", "failed", "cancelled"})
           m == Cardinality(ended)
           n == Cardinality(all)
<1>1. ended \subseteq all BY DEF InStatus, TaskStatus
<1>2. IsFiniteSet(all)
  <2>1. all \subseteq Tasks BY DEF InStatus, TasksOf
  <2> QED BY <2>1, FS_Subset, ShapeAssumption
<1>3. m \in Nat /\ n \in Nat /\ m <= n
  BY <1>1, <1>2, FS_Subset, FS_CardinalityType
<1>4. CASE n = 0 BY <1>4 DEF Percentage
<1>5. CASE n # 0
  <2> HIDE DEF m, n
  <2>1. m * 100 <= n * 100 /\ m * 100 >= 0 /\ n > 0 BY <1>3, <1>5
  <2>2. (m * 100) \div n \in 0..100 BY <2>1, <1>3, <1>5
  <2> USE DEF m, n
  <2>3. Percentage(b) = (m * 100) \div n BY <1>5 DEF Percentage
  <2> QED BY <2>2, <2>3
<1> QED BY <1>4, <1>5

-----------------------------------------------------------------------------
(* Type correctness *)

LEMMA TypeInit == Init => TypeOK
BY ShapeAssumption DEF Init, TypeOK, BenchmarkStatus, Terminal, Claimable,
   TaskStatus, Phase, Step, Request, AnyOutcome

LEMMA TypeFault ==
    ASSUME TypeOK, Fault
    PROVE  crashes' \in 0..MaxCrashes /\ faults' \in 0..MaxFaults
<1>1. MaxFaults \in Nat BY ShapeAssumption
<1> QED BY <1>1 DEF TypeOK, Fault

\* The statements of a request and of the administrators keep the types.
LEMMA TypeHandlers ==
    ASSUME TypeOK, NEW b \in Benchmarks,
           \/ StoreUpload(b) \/ CreateBenchmark(b)
           \/ AdminCancel(b) \/ AdminDeleteFiles(b) \/ AdminDeleteRow(b)
    PROVE  TypeOK'
<1> USE DEF TypeOK, BenchmarkStatus, Terminal, Claimable, TaskStatus, Request,
        database, runner, handlers, bounds
<1>1. CASE StoreUpload(b) BY <1>1 DEF StoreUpload
<1>2. CASE InsertBenchmark(b) BY <1>2 DEF InsertBenchmark
<1>3. CASE RejectUpload(b) BY <1>3 DEF RejectUpload
<1>4. CASE InsertTasks(b) BY <1>4 DEF InsertTasks
<1>5. CASE InsertTasksFails(b)
  <2>1. crashes' \in 0..MaxCrashes /\ faults' \in 0..MaxFaults
    BY <1>5, TypeFault DEF InsertTasksFails
  <2> QED BY <1>5, <2>1 DEF InsertTasksFails
<1>6. CASE UndoInsert(b)
  <2>1. crashes' \in 0..MaxCrashes /\ faults' \in 0..MaxFaults
    BY <1>6, TypeFault DEF UndoInsert
  <2>2. CASE DeleteBenchmarkRow(b)
    BY <1>6, <2>1, <2>2 DEF UndoInsert, DeleteBenchmarkRow
  <2>3. CASE UNCHANGED database BY <1>6, <2>1, <2>3 DEF UndoInsert
  <2> QED BY <1>6, <2>2, <2>3 DEF UndoInsert
<1>7. CASE UndoUpload(b) BY <1>7 DEF UndoUpload
<1>8. CASE AdminCancel(b) BY <1>8 DEF AdminCancel
<1>9. CASE AdminDeleteFiles(b) BY <1>9 DEF AdminDeleteFiles
<1>10. CASE AdminDeleteRow(b) BY <1>10 DEF AdminDeleteRow, DeleteBenchmarkRow
<1> QED BY <1>1, <1>2, <1>3, <1>4, <1>5, <1>6, <1>7, <1>8, <1>9, <1>10
        DEF CreateBenchmark

\* finalize keeps the types of the tables.
LEMMA TypeCommit ==
    ASSUME TypeOK, NEW b \in Benchmarks, CommitFinalize(b)
    PROVE  /\ status' \in [Benchmarks -> BenchmarkStatus]
           /\ progress' \in [Benchmarks -> 0..100]
           /\ task' \in [Tasks -> TaskStatus]
           /\ rows' \in SUBSET Tasks
           /\ results' \in [Benchmarks -> SUBSET Tasks]
           /\ created' \in Seq(Benchmarks)
<1> USE DEF TypeOK, BenchmarkStatus, Terminal, Claimable, TaskStatus,
        EndBenchmark
<1>1. CASE DropTasks(b) BY <1>1 DEF DropTasks
<1>2. CASE FailBenchmark(b) BY <1>2 DEF FailBenchmark
<1>3. CASE PublishResults(b) BY <1>3 DEF PublishResults, InStatus, TasksOf
<1> QED BY <1>1, <1>2, <1>3 DEF CommitFinalize

LEMMA TypeScheduler ==
    ASSUME TypeOK, Scheduler
    PROVE  TypeOK'
<1> USE ShapeAssumption, BudgetAssumption
    DEF TypeOK, Phase, handlers, bounds
<1>1. CASE ResetRunning BY <1>1, TypeFault DEF ResetRunning, TaskStatus
<1>2. CASE ListStranded BY <1>2, TypeFault DEF ListStranded, database
<1>3. CASE StartDispatching BY <1>3 DEF StartDispatching, database
<1>4. ASSUME NEW b \in Benchmarks, FinalizeStranded(b) PROVE TypeOK'
  <2>1. sweeping' \in SUBSET (Benchmarks \X {"cleanup", "persist"})
    BY <1>4 DEF FinalizeStranded
  <2>2. crashes' \in 0..MaxCrashes /\ faults' \in 0..MaxFaults
    BY <1>4, TypeFault DEF FinalizeStranded
  <2>3. stranded' \in SUBSET Benchmarks BY <1>4 DEF FinalizeStranded
  <2>4. CASE CommitFinalize(b)
    BY <1>4, <2>1, <2>2, <2>3, <2>4, TypeCommit DEF FinalizeStranded
  <2>5. CASE UNCHANGED database
    BY <1>4, <2>1, <2>2, <2>3, <2>5 DEF FinalizeStranded, database
  <2> QED BY <1>4, <2>4, <2>5 DEF FinalizeStranded
<1>5. ASSUME NEW b \in Benchmarks, SweepFiles(b) PROVE TypeOK'
  BY <1>5 DEF SweepFiles, database
<1>6. ASSUME NEW b \in Benchmarks, SweepPersistError(b) PROVE TypeOK'
  BY <1>6 DEF SweepPersistError, BenchmarkStatus, Terminal
<1>7. ASSUME NEW t \in Tasks, PickCandidate(t) PROVE TypeOK'
  BY <1>7 DEF PickCandidate, database
<1>8. ASSUME NEW t \in Tasks, ClaimTask(t) PROVE TypeOK'
  BY <1>8 DEF ClaimTask, BenchmarkStatus, Claimable, TaskStatus, Step
<1>9. ASSUME NEW t \in Tasks, LoseCandidate(t) PROVE TypeOK'
  BY <1>9, TypeFault DEF LoseCandidate, database
<1> QED BY <1>1, <1>2, <1>3, <1>4, <1>5, <1>6, <1>7, <1>8, <1>9 DEF Scheduler

LEMMA TypeGoroutine ==
    ASSUME TypeOK, NEW t \in Tasks, Goroutine(t) \/ StatementFails(t)
    PROVE  TypeOK'
<1> DEFINE b == BenchmarkOf[t]
<1>b. b \in Benchmarks BY ShapeAssumption
<1> USE <1>b DEF TypeOK, Step, LocalStep, Goto, handlers, bounds
<1>1. CASE LoadBenchmark(t) BY <1>1 DEF LoadBenchmark, database
<1>2. CASE CancelTask(t) BY <1>2 DEF CancelTask, TaskStatus
<1>3. CASE StatInput(t) BY <1>3 DEF StatInput, database, AnyOutcome
<1>4. CASE RunTask(t)
  <2>1. Outcomes \subseteq AnyOutcome BY ShapeAssumption DEF AnyOutcome
  <2>2. outcome' \in [Tasks -> AnyOutcome] BY <1>4, <2>1 DEF RunTask
  <2>3. pc' \in [Tasks -> Step] BY <1>4 DEF RunTask
  <2>4. files' \in [Benchmarks -> {"absent", "inputs", "bare"}]
    BY <1>4 DEF RunTask
  <2> QED BY <1>4, <2>2, <2>3, <2>4 DEF RunTask, database
<1>5. CASE CompleteTask(t) BY <1>5 DEF CompleteTask, SetTask, TaskStatus
<1>6. CASE UpdateProgress(t)
  BY <1>6, PercentageType DEF UpdateProgress
<1>7. CASE FailTask(t) BY <1>7 DEF FailTask, SetTask, TaskStatus
<1>8. CASE MarkBenchmark(t)
  BY <1>8 DEF MarkBenchmark, BenchmarkStatus, Terminal, AnyOutcome
<1>9. CASE CancelSiblings(t) BY <1>9 DEF CancelSiblings, TaskStatus
<1>10. CASE Finalize(t)
  <2>1. CASE CommitFinalize(b) /\ Goto(t, "cleanup")
    BY <1>10, <2>1, TypeCommit DEF Finalize
  <2>2. CASE UNCHANGED database BY <1>10, <2>2 DEF Finalize, database
  <2> QED BY <1>10, <2>1, <2>2 DEF Finalize
<1>11. CASE Cleanup(t) BY <1>11 DEF Cleanup, database
<1>12. CASE Exit(t)
  <2>1. running' \in Int BY <1>12, BudgetAssumption DEF Exit
  <2> QED BY <1>12, <2>1 DEF Exit, database, AnyOutcome
<1>13. CASE StatementFails(t)
  <2>1. pc' \in [Tasks -> Step] BY <1>13 DEF StatementFails, AfterError
  <2>2. Fault BY <1>13 DEF StatementFails
  <2>3. crashes' \in 0..MaxCrashes /\ faults' \in 0..MaxFaults
    BY <2>2, TypeFault
  <2>4. UNCHANGED <<database, files, outcome>> /\ LocalStep
    BY <1>13 DEF StatementFails
  <2> QED BY <2>1, <2>3, <2>4 DEF database
<1> QED BY <1>1, <1>2, <1>3, <1>4, <1>5, <1>6, <1>7, <1>8, <1>9, <1>10, <1>11,
           <1>12, <1>13 DEF Goroutine

LEMMA TypeStep == TypeOK /\ [Next]_vars => TypeOK'
<1> SUFFICES ASSUME TypeOK, [Next]_vars PROVE TypeOK' OBVIOUS
<1>1. CASE Crash
  BY <1>1, ShapeAssumption
  DEF Crash, TypeOK, Phase, Step, Request, AnyOutcome, database
<1>2. CASE UNCHANGED vars
  BY <1>2 DEF vars, TypeOK, database, runner, handlers, bounds
<1> QED BY <1>1, <1>2, TypeHandlers, TypeScheduler, TypeGoroutine DEF Next

\* Every state of the scheduler has the declared types.
THEOREM TypeCorrect == Spec => []TypeOK
<1> QED BY TypeInit, TypeStep, PTL DEF Spec

-----------------------------------------------------------------------------
(* Rows and goroutines *)

RowInvariant ==
    /\ BeforeSubmission
    /\ TasksHaveBenchmark
    /\ RecoveryFirst
    /\ AbandonedRowIsGone
    /\ TaskOwnership

LEMMA RowInit == Init => RowInvariant
BY DEF Init, RowInvariant, BeforeSubmission, TasksHaveBenchmark,
   RecoveryFirst, AbandonedRowIsGone, TaskOwnership, NoTaskRows, TasksOf

\* Deleting a benchmark row takes its task rows along.
LEMMA RowDelete ==
    ASSUME TypeOK, RowInvariant, NEW b \in Benchmarks, DeleteBenchmarkRow(b),
           UNCHANGED <<phase, candidate, pc>>, faults' \in {faults, faults + 1},
           \A c \in Benchmarks : request'[c] # "done" => request[c] # "done"
    PROVE  RowInvariant'
BY DEF TypeOK, RowInvariant, BeforeSubmission, TasksHaveBenchmark,
   RecoveryFirst, AbandonedRowIsGone, TaskOwnership, NoTaskRows, TasksOf,
   DeleteBenchmarkRow

LEMMA RowHandlers ==
    ASSUME TypeOK, RowInvariant, NEW b \in Benchmarks,
           \/ StoreUpload(b) \/ CreateBenchmark(b)
           \/ AdminCancel(b) \/ AdminDeleteFiles(b) \/ AdminDeleteRow(b)
    PROVE  RowInvariant'
<1> USE DEF TypeOK, RowInvariant, BeforeSubmission, TasksHaveBenchmark,
        RecoveryFirst, AbandonedRowIsGone, TaskOwnership, NoTaskRows, TasksOf,
        database, runner, handlers, bounds
<1>1. CASE StoreUpload(b) BY <1>1 DEF StoreUpload
<1>2. CASE InsertBenchmark(b) BY <1>2 DEF InsertBenchmark
<1>3. CASE RejectUpload(b) BY <1>3 DEF RejectUpload
<1>4. CASE InsertTasks(b) BY <1>4 DEF InsertTasks
<1>5. CASE InsertTasksFails(b) BY <1>5 DEF InsertTasksFails, Fault
<1>6. CASE UndoInsert(b)
  <2>1. CASE DeleteBenchmarkRow(b)
    <3>1. UNCHANGED <<phase, candidate, pc>> BY <1>6 DEF UndoInsert
    <3>2. faults' \in {faults, faults + 1} BY <1>6 DEF UndoInsert, Fault
    <3>3. \A c \in Benchmarks : request'[c] # "done" => request[c] # "done"
      BY <1>6 DEF UndoInsert
    <3> QED BY <2>1, <3>1, <3>2, <3>3, RowDelete
  <2>2. CASE UNCHANGED database /\ Fault
    BY <1>6, <2>2 DEF UndoInsert, Fault
  <2> QED BY <1>6, <2>1, <2>2 DEF UndoInsert
<1>7. CASE UndoUpload(b) BY <1>7 DEF UndoUpload
<1>8. CASE AdminCancel(b) BY <1>8 DEF AdminCancel, InStatus, Claimable
<1>9. CASE AdminDeleteFiles(b) BY <1>9 DEF AdminDeleteFiles
<1>10. CASE AdminDeleteRow(b)
  BY <1>10, RowDelete DEF AdminDeleteRow
<1> QED BY <1>1, <1>2, <1>3, <1>4, <1>5, <1>6, <1>7, <1>8, <1>9, <1>10
        DEF CreateBenchmark

\* finalize only ever removes task rows, and never revives a benchmark.
LEMMA CommitEffect ==
    ASSUME TypeOK, NEW b \in Benchmarks, CommitFinalize(b)
    PROVE  /\ task' = [t \in Tasks |->
                          IF t \in TasksOf(b) THEN "none" ELSE task[t]]
           /\ \A c \in Benchmarks : /\ status'[c] = "none" => status[c] = "none"
                                    /\ status'[c] = "in_progress"
                                          => status[c] = "in_progress"
BY DEF TypeOK, CommitFinalize, DropTasks, FailBenchmark, PublishResults,
   EndBenchmark

LEMMA RowScheduler ==
    ASSUME TypeOK, RowInvariant, Scheduler
    PROVE  RowInvariant'
<1> USE ShapeAssumption
    DEF TypeOK, RowInvariant, BeforeSubmission, TasksHaveBenchmark,
        RecoveryFirst, AbandonedRowIsGone, TaskOwnership, NoTaskRows, TasksOf,
        database, handlers, bounds
<1>1. CASE ResetRunning BY <1>1 DEF ResetRunning, Fault
<1>2. CASE ListStranded BY <1>2 DEF ListStranded, Fault
<1>3. CASE StartDispatching BY <1>3 DEF StartDispatching
<1>4. ASSUME NEW b \in Benchmarks, FinalizeStranded(b) PROVE RowInvariant'
  <2>1. CASE CommitFinalize(b) /\ UNCHANGED bounds
    BY <1>4, <2>1, CommitEffect DEF FinalizeStranded
  <2>2. CASE UNCHANGED database
    BY <1>4, <2>2 DEF FinalizeStranded, Fault
  <2> QED BY <1>4, <2>1, <2>2 DEF FinalizeStranded
<1>5. ASSUME NEW b \in Benchmarks, SweepFiles(b) PROVE RowInvariant'
  BY <1>5 DEF SweepFiles
<1>6. ASSUME NEW b \in Benchmarks, SweepPersistError(b) PROVE RowInvariant'
  BY <1>6 DEF SweepPersistError
<1>7. ASSUME NEW t \in Tasks, PickCandidate(t) PROVE RowInvariant'
  BY <1>7 DEF PickCandidate
<1>8. ASSUME NEW t \in Tasks, ClaimTask(t) PROVE RowInvariant'
  BY <1>8 DEF ClaimTask, OwnsRow, Claimable
<1>9. ASSUME NEW t \in Tasks, LoseCandidate(t) PROVE RowInvariant'
  BY <1>9 DEF LoseCandidate, Fault
<1> QED BY <1>1, <1>2, <1>3, <1>4, <1>5, <1>6, <1>7, <1>8, <1>9 DEF Scheduler

LEMMA RowGoroutine ==
    ASSUME TypeOK, RowInvariant, NEW t \in Tasks,
           Goroutine(t) \/ StatementFails(t)
    PROVE  RowInvariant'
<1> DEFINE b == BenchmarkOf[t]
<1>b. b \in Benchmarks BY ShapeAssumption
<1>p. pc[t] # "idle" /\ request[b] = "done" /\ phase = "dispatch"
  <2>1. pc[t] # "idle"
    BY DEF Goroutine, LoadBenchmark, CancelTask, StatInput, RunTask,
       CompleteTask, UpdateProgress, FailTask, MarkBenchmark, CancelSiblings,
       Finalize, Cleanup, Exit, StatementFails, AfterError
  <2> QED BY <1>b, <2>1 DEF RowInvariant, BeforeSubmission, RecoveryFirst,
          TasksOf, TypeOK
<1> USE <1>b, <1>p, ShapeAssumption
    DEF TypeOK, RowInvariant, BeforeSubmission, TasksHaveBenchmark,
        RecoveryFirst, AbandonedRowIsGone, TaskOwnership, NoTaskRows, TasksOf,
        OwnsRow, LocalStep, Goto, database, handlers, bounds
<1>1. CASE LoadBenchmark(t) BY <1>1 DEF LoadBenchmark
<1>2. CASE CancelTask(t) BY <1>2 DEF CancelTask
<1>3. CASE StatInput(t)
  <2>1. \/ pc' = [pc EXCEPT ![t] = "run"]
        \/ pc' = [pc EXCEPT ![t] = "fail"]
    BY <1>3 DEF StatInput
  <2>2. UNCHANGED <<database, bounds>> /\ LocalStep BY <1>3 DEF StatInput
  <2>3. pc[t] = "stat" BY <1>3 DEF StatInput
  <2>4. CASE pc' = [pc EXCEPT ![t] = "run"] BY <2>2, <2>3, <2>4
  <2>5. CASE pc' = [pc EXCEPT ![t] = "fail"] BY <2>2, <2>3, <2>5
  <2> QED BY <2>1, <2>4, <2>5
<1>4. CASE RunTask(t) BY <1>4 DEF RunTask
<1>5. CASE CompleteTask(t) BY <1>5 DEF CompleteTask, SetTask
<1>6. CASE UpdateProgress(t) BY <1>6 DEF UpdateProgress
<1>7. CASE FailTask(t) BY <1>7 DEF FailTask, SetTask
<1>8. CASE MarkBenchmark(t) BY <1>8 DEF MarkBenchmark
<1>9. CASE CancelSiblings(t) BY <1>9 DEF CancelSiblings, InStatus
<1>10. CASE Finalize(t)
  <2>1. CASE CommitFinalize(b) /\ Goto(t, "cleanup")
    BY <1>10, <2>1, CommitEffect DEF Finalize
  <2>2. CASE UNCHANGED database /\ Goto(t, "exit")
    BY <1>10, <2>2 DEF Finalize
  <2> QED BY <1>10, <2>1, <2>2 DEF Finalize
<1>11. CASE Cleanup(t) BY <1>11 DEF Cleanup
<1>12. CASE Exit(t) BY <1>12 DEF Exit
<1>13. CASE StatementFails(t) BY <1>13 DEF StatementFails, AfterError, Fault
<1> QED BY <1>1, <1>2, <1>3, <1>4, <1>5, <1>6, <1>7, <1>8, <1>9, <1>10, <1>11,
           <1>12, <1>13 DEF Goroutine

LEMMA RowStep == TypeOK /\ RowInvariant /\ [Next]_vars => RowInvariant'
<1> SUFFICES ASSUME TypeOK, RowInvariant, [Next]_vars PROVE RowInvariant'
  OBVIOUS
<1> USE DEF RowInvariant, BeforeSubmission, TasksHaveBenchmark, RecoveryFirst,
        AbandonedRowIsGone, TaskOwnership, NoTaskRows, TasksOf
<1>1. CASE Crash BY <1>1, ShapeAssumption DEF Crash, database, TypeOK
<1>2. CASE UNCHANGED vars
  BY <1>2 DEF vars, database, runner, handlers, bounds
<1> QED BY <1>1, <1>2, RowHandlers, RowScheduler, RowGoroutine DEF Next

\* A task row is owned by one goroutine at most, and by one whenever it says
\* that the task is running.
THEOREM OwnershipSafe == Spec => []TaskOwnership
<1>1. RowInvariant => TaskOwnership BY DEF RowInvariant
<1> QED BY <1>1, TypeInit, TypeStep, RowInit, RowStep, PTL DEF Spec

-----------------------------------------------------------------------------
(* The budget of worker units *)

BudgetInvariant == CandidateFits /\ BudgetRespected

LEMMA BudgetInit == Init => BudgetInvariant
<1> SUFFICES ASSUME Init PROVE BudgetInvariant OBVIOUS
<1>1. Goroutines = {} BY DEF Init, Goroutines
<1> QED BY <1>1, CostOfNone, BudgetAssumption
        DEF Init, BudgetInvariant, CandidateFits, BudgetRespected

\* A step that starts no goroutine, ends none, and selects no candidate.
LEMMA BudgetUntouched ==
    ASSUME BudgetInvariant, running' = running, Goroutines' = Goroutines,
           candidate' \in {candidate, NoTask}
    PROVE  BudgetInvariant'
BY DEF BudgetInvariant, CandidateFits, BudgetRespected, Cost, Units

\* ClaimTask spends what CandidateFits promised it.
LEMMA BudgetClaim ==
    ASSUME TypeOK, RowInvariant, BudgetInvariant, NEW t \in Tasks, ClaimTask(t)
    PROVE  BudgetInvariant'
<1>1. t # NoTask /\ candidate = t /\ candidate' = NoTask
  BY ShapeAssumption DEF ClaimTask
<1>2. running + Workers[t] <= Budget
  BY <1>1 DEF BudgetInvariant, CandidateFits
<1>3. t \notin Goroutines
  BY DEF RowInvariant, TaskOwnership, Goroutines, ClaimTask
<1>4. Goroutines' = Goroutines \cup {t}
  BY DEF Goroutines, ClaimTask, TypeOK
<1>5. Cost(Goroutines \cup {t}) = Cost(Goroutines) + Workers[t]
  BY <1>3, CostOfOneMore DEF Goroutines
<1>6. running' = running + Workers[t] BY DEF ClaimTask
<1>7. Cost(Goroutines)' = Cost(Goroutines \cup {t})
  BY <1>4 DEF Cost, Units
<1> QED BY <1>1, <1>2, <1>5, <1>6, <1>7
        DEF BudgetInvariant, CandidateFits, BudgetRespected

\* The deferred decrement returns what the goroutine took.
LEMMA BudgetExit ==
    ASSUME TypeOK, BudgetInvariant, NEW t \in Tasks, Exit(t)
    PROVE  BudgetInvariant'
<1> DEFINE S == Goroutines \ {t}
<1>1. t \in Goroutines /\ Goroutines = S \cup {t} BY DEF Exit, Goroutines
<1>2. Goroutines' = S BY DEF Exit, Goroutines, Goto, TypeOK
<1>3. S \in SUBSET Tasks /\ t \notin S BY DEF Goroutines
<1>4. Cost(S \cup {t}) = Cost(S) + Workers[t] /\ Cost(S) \in Nat
  BY <1>3, CostOfOneMore, UnitsFinite
<1>5. Cost(Goroutines)' = Cost(S) BY <1>2 DEF Cost, Units
<1>6. running' = running - Workers[t] /\ candidate' = candidate BY DEF Exit
<1>7. Workers[t] \in Nat /\ Budget \in Nat BY BudgetAssumption
<1>8. candidate # NoTask => Workers[candidate] \in Nat
  <2>1. candidate \in Tasks \cup {NoTask} BY DEF TypeOK
  <2> QED BY <2>1, BudgetAssumption
<1>9. running = Cost(S) + Workers[t] /\ Cost(S) + Workers[t] <= Budget
  BY <1>1, <1>4 DEF BudgetInvariant, BudgetRespected
<1>10. CandidateFits'
  <2>1. running' = Cost(S) BY <1>4, <1>6, <1>7, <1>9
  <2>2. CandidateFits BY DEF BudgetInvariant
  <2> SUFFICES ASSUME candidate # NoTask
               PROVE  Cost(S) + Workers[candidate] <= Budget
    BY <1>6, <2>1 DEF CandidateFits
  <2>3. Cost(S) + Workers[t] + Workers[candidate] <= Budget
    BY <1>9, <2>2 DEF CandidateFits
  <2> HIDE DEF S
  <2> QED BY <1>4, <1>7, <1>8, <2>3
<1>11. BudgetRespected'
  BY <1>4, <1>5, <1>6, <1>7, <1>9 DEF BudgetRespected
<1> QED BY <1>10, <1>11 DEF BudgetInvariant

LEMMA BudgetStep ==
    TypeOK /\ RowInvariant /\ BudgetInvariant /\ [Next]_vars
        => BudgetInvariant'
<1> SUFFICES ASSUME TypeOK, RowInvariant, BudgetInvariant, [Next]_vars
             PROVE  BudgetInvariant'
  OBVIOUS
<1>1. CASE Crash
  <2>1. Goroutines' = {} /\ running' = 0 /\ candidate' = NoTask
    BY <1>1 DEF Crash, Goroutines
  <2>2. Cost(Goroutines)' = Cost({}) BY <2>1 DEF Cost, Units
  <2> QED BY <2>1, <2>2, CostOfNone, BudgetAssumption
          DEF BudgetInvariant, CandidateFits, BudgetRespected
<1>2. CASE UNCHANGED vars
  BY <1>2, BudgetUntouched DEF vars, runner, Goroutines
<1>3. ASSUME NEW b \in Benchmarks,
             \/ StoreUpload(b) \/ CreateBenchmark(b)
             \/ AdminCancel(b) \/ AdminDeleteFiles(b) \/ AdminDeleteRow(b)
      PROVE  BudgetInvariant'
  <2>1. UNCHANGED runner
    BY <1>3 DEF StoreUpload, CreateBenchmark, InsertBenchmark, RejectUpload,
       InsertTasks, InsertTasksFails, UndoInsert, UndoUpload, AdminCancel,
       AdminDeleteFiles, AdminDeleteRow
  <2> QED BY <2>1, BudgetUntouched DEF runner, Goroutines
<1>4. CASE Scheduler
  <2>1. ASSUME NEW t \in Tasks, PickCandidate(t) PROVE BudgetInvariant'
    <3>1. Workers[t] <= Budget - running BY <2>1 DEF PickCandidate, Fitting
    <3>2. running' = running /\ Goroutines' = Goroutines /\ candidate' = t
      BY <2>1 DEF PickCandidate, Goroutines
    <3>3. Budget \in Nat /\ Workers[t] \in Nat /\ running \in Int
      BY BudgetAssumption DEF TypeOK
    <3>4. CandidateFits' BY <3>1, <3>2, <3>3 DEF CandidateFits
    <3>5. BudgetRespected'
      BY <3>2 DEF BudgetInvariant, BudgetRespected, Cost, Units
    <3> QED BY <3>4, <3>5 DEF BudgetInvariant
  <2>2. ASSUME NEW t \in Tasks, LoseCandidate(t) PROVE BudgetInvariant'
    BY <2>2, BudgetUntouched DEF LoseCandidate, Goroutines
  <2>3. ASSUME \/ ResetRunning \/ ListStranded \/ StartDispatching
               \/ \E b \in Benchmarks : \/ FinalizeStranded(b) \/ SweepFiles(b)
                                        \/ SweepPersistError(b)
        PROVE  BudgetInvariant'
    <3>1. UNCHANGED <<running, pc, candidate>>
      BY <2>3 DEF ResetRunning, ListStranded, StartDispatching,
         FinalizeStranded, SweepFiles, SweepPersistError
    <3> QED BY <3>1, BudgetUntouched DEF Goroutines
  <2> QED BY <1>4, <2>1, <2>2, <2>3, BudgetClaim DEF Scheduler
<1>5. ASSUME NEW t \in Tasks, Goroutine(t) \/ StatementFails(t), ~Exit(t)
      PROVE  BudgetInvariant'
  <2>1. UNCHANGED <<running, candidate>>
    BY <1>5 DEF Goroutine, LoadBenchmark, CancelTask, StatInput, RunTask,
       CompleteTask, UpdateProgress, FailTask, MarkBenchmark, CancelSiblings,
       Finalize, Cleanup, StatementFails, LocalStep
  <2>2. PICK s \in Step \ {"idle"} : pc' = [pc EXCEPT ![t] = s]
    BY <1>5 DEF Goroutine, LoadBenchmark, CancelTask, StatInput, RunTask,
       CompleteTask, UpdateProgress, FailTask, MarkBenchmark, CancelSiblings,
       Finalize, Cleanup, StatementFails, AfterError, Goto, Step
  <2>3. pc[t] # "idle"
    BY <1>5 DEF Goroutine, LoadBenchmark, CancelTask, StatInput, RunTask,
       CompleteTask, UpdateProgress, FailTask, MarkBenchmark, CancelSiblings,
       Finalize, Cleanup, StatementFails, AfterError
  <2>4. Goroutines' = Goroutines BY <2>2, <2>3 DEF Goroutines, TypeOK
  <2> QED BY <2>1, <2>4, BudgetUntouched
<1> QED BY <1>1, <1>2, <1>3, <1>4, <1>5, BudgetExit DEF Next

\* The worker units in use are counted exactly, and never exceed the budget.
THEOREM BudgetSafe == Spec => []BudgetRespected
<1>1. BudgetInvariant => BudgetRespected BY DEF BudgetInvariant
<1> QED BY <1>1, TypeInit, TypeStep, RowInit, RowStep, BudgetInit, BudgetStep,
        PTL DEF Spec

-----------------------------------------------------------------------------
(* The inputs of tasks that may still run *)

FilesInvariant == RowsGoBeforeFiles /\ InputsComeFirst /\ InputsOutliveTasks

LEMMA FilesInit == Init => FilesInvariant
BY DEF Init, FilesInvariant, RowsGoBeforeFiles, InputsComeFirst,
   InputsOutliveTasks, Pending, InStatus, TasksOf

\* A step that makes no task pending, removes no file, and begins no removal.
LEMMA FilesUntouched ==
    ASSUME FilesInvariant,
           \A t \in Tasks :
               /\ task[t] = "none" => task'[t] = "none"
               /\ task'[t] \in {"queued", "running"}
                     => task[t] \in {"queued", "running"}
               /\ pc'[t] = "cleanup" => pc[t] = "cleanup",
           \A b \in Benchmarks :
               /\ files[b] = "inputs" => files'[b] = "inputs"
               /\ <<b, "cleanup">> \in sweeping' => <<b, "cleanup">> \in sweeping
               /\ request[b] = "done" => request'[b] = "done"
               /\ request'[b] \in {"stored", "inserted"}
                     => request[b] \in {"stored", "inserted"},
           stranded' \subseteq stranded, stranded \subseteq Benchmarks
    PROVE  FilesInvariant'
<1>b. BenchmarkOf \in [Tasks -> Benchmarks] /\ Deletable \subseteq Benchmarks
  BY ShapeAssumption
<1> USE <1>b DEF FilesInvariant, NoTaskRows, TasksOf
<1>1. RowsGoBeforeFiles' BY DEF RowsGoBeforeFiles
<1>2. InputsComeFirst' BY DEF InputsComeFirst
<1>3. InputsOutliveTasks' BY DEF InputsOutliveTasks, Pending, InStatus
<1> QED BY <1>1, <1>2, <1>3

\* A directory may go once its benchmark has no task rows and no open request.
LEMMA FilesRemoved ==
    ASSUME TypeOK, FilesInvariant, NEW b \in Benchmarks,
           files' = [files EXCEPT ![b] = "absent"], task' = task,
           NoTaskRows(b) \/ b \in Deletable, request'[b] = "done" \/ b \in Deletable,
           \A c \in Benchmarks :
               /\ request[c] = "done" => request'[c] = "done"
               /\ request'[c] \in {"stored", "inserted"}
                     => request[c] \in {"stored", "inserted"},
           \A t \in Tasks : pc'[t] = "cleanup" => pc[t] = "cleanup",
           sweeping' \subseteq sweeping, stranded' = stranded
    PROVE  FilesInvariant'
<1>b. BenchmarkOf \in [Tasks -> Benchmarks] /\ Deletable \subseteq Benchmarks
  BY ShapeAssumption
<1> USE <1>b DEF FilesInvariant, NoTaskRows, TasksOf, TypeOK
<1>1. RowsGoBeforeFiles' BY DEF RowsGoBeforeFiles
<1>2. InputsComeFirst' BY DEF InputsComeFirst
<1>3. InputsOutliveTasks' BY DEF InputsOutliveTasks, Pending, InStatus
<1> QED BY <1>1, <1>2, <1>3

LEMMA FilesHandlers ==
    ASSUME TypeOK, RowInvariant, FilesInvariant, NEW b \in Benchmarks,
           \/ StoreUpload(b) \/ CreateBenchmark(b)
           \/ AdminCancel(b) \/ AdminDeleteFiles(b) \/ AdminDeleteRow(b)
    PROVE  FilesInvariant'
<1> USE DEF TypeOK, database, runner, handlers, bounds
<1>1. CASE StoreUpload(b)
  <2> USE <1>1, ShapeAssumption
      DEF StoreUpload, FilesInvariant, NoTaskRows, TasksOf
  <2>1. RowsGoBeforeFiles' BY DEF RowsGoBeforeFiles
  <2>2. InputsComeFirst' BY DEF InputsComeFirst
  <2>3. InputsOutliveTasks' BY DEF InputsOutliveTasks, Pending, InStatus
  <2> QED BY <2>1, <2>2, <2>3
<1>2. CASE InsertBenchmark(b)
  BY <1>2, FilesUntouched DEF InsertBenchmark
<1>3. CASE RejectUpload(b)
  <2>1. NoTaskRows(b)
    BY <1>3 DEF RejectUpload, RowInvariant, BeforeSubmission
  <2> QED BY <1>3, <2>1, FilesRemoved DEF RejectUpload
<1>4. CASE InsertTasks(b)
  <2>1. \A t \in TasksOf(b) : pc[t] = "idle"
    BY <1>4 DEF InsertTasks, RowInvariant, BeforeSubmission
  <2> USE <1>4, ShapeAssumption
      DEF InsertTasks, FilesInvariant, NoTaskRows, TasksOf
  <2>2. RowsGoBeforeFiles' BY <2>1 DEF RowsGoBeforeFiles
  <2>3. InputsComeFirst' BY DEF InputsComeFirst
  <2>4. InputsOutliveTasks'
    BY DEF InputsOutliveTasks, InputsComeFirst, Pending, InStatus
  <2> QED BY <2>2, <2>3, <2>4
<1>5. CASE InsertTasksFails(b)
  BY <1>5, FilesUntouched DEF InsertTasksFails
<1>6. CASE UndoInsert(b)
  <2>1. \A t \in Tasks : task'[t] = "none" \/ task'[t] = task[t]
    BY <1>6 DEF UndoInsert, DeleteBenchmarkRow
  <2>2. UNCHANGED <<files, runner>> BY <1>6 DEF UndoInsert
  <2>3. request[b] = "rollback" /\ request' = [request EXCEPT ![b] = "unstore"]
    BY <1>6 DEF UndoInsert
  <2> QED BY <2>1, <2>2, <2>3, FilesUntouched
<1>7. CASE UndoUpload(b)
  <2>1. NoTaskRows(b)
    BY <1>7 DEF UndoUpload, RowInvariant, BeforeSubmission
  <2> QED BY <1>7, <2>1, FilesRemoved DEF UndoUpload
<1>8. CASE AdminCancel(b)
  BY <1>8, FilesUntouched DEF AdminCancel, InStatus
<1>9. CASE AdminDeleteFiles(b)
  BY <1>9, FilesRemoved DEF AdminDeleteFiles
<1>10. CASE AdminDeleteRow(b)
  BY <1>10, FilesUntouched DEF AdminDeleteRow, DeleteBenchmarkRow
<1> QED BY <1>1, <1>2, <1>3, <1>4, <1>5, <1>6, <1>7, <1>8, <1>9, <1>10
        DEF CreateBenchmark

LEMMA FilesScheduler ==
    ASSUME TypeOK, RowInvariant, FilesInvariant, Scheduler
    PROVE  FilesInvariant'
<1> USE ShapeAssumption DEF TypeOK, database, handlers, bounds
<1>1. CASE ResetRunning BY <1>1, FilesUntouched DEF ResetRunning
<1>2. CASE ListStranded
  <2>1. \A b \in stranded' : b \in stranded \/ status[b] = "in_progress"
    BY <1>2 DEF ListStranded
  <2>2. \A b \in stranded' : request[b] = "done"
    BY <1>2, <2>1
    DEF RowInvariant, BeforeSubmission, FilesInvariant, RowsGoBeforeFiles,
        ListStranded
  <2> USE <1>2 DEF ListStranded, FilesInvariant, NoTaskRows, TasksOf
  <2>3. RowsGoBeforeFiles' BY <2>2 DEF RowsGoBeforeFiles
  <2>4. InputsComeFirst' BY DEF InputsComeFirst
  <2>5. InputsOutliveTasks' BY DEF InputsOutliveTasks, Pending, InStatus
  <2> QED BY <2>3, <2>4, <2>5
<1>3. CASE StartDispatching BY <1>3, FilesUntouched DEF StartDispatching
<1>4. ASSUME NEW b \in Benchmarks, FinalizeStranded(b) PROVE FilesInvariant'
  <2>1. stranded' \subseteq stranded /\ b \in stranded
        /\ UNCHANGED <<files, pc, request>>
    BY <1>4 DEF FinalizeStranded
  <2>2. CASE CommitFinalize(b) /\ sweeping' = {<<b, "cleanup">>}
    <3>1. task' = [t \in Tasks |-> IF t \in TasksOf(b) THEN "none" ELSE task[t]]
      BY <2>2, CommitEffect
    <3> USE <2>1, <2>2, <3>1 DEF FilesInvariant, NoTaskRows, TasksOf
    <3>2. RowsGoBeforeFiles' BY DEF RowsGoBeforeFiles
    <3>3. InputsComeFirst' BY DEF InputsComeFirst
    <3>4. InputsOutliveTasks' BY DEF InputsOutliveTasks, Pending, InStatus
    <3> QED BY <3>2, <3>3, <3>4
  <2>3. CASE UNCHANGED database
            /\ (sweeping' = sweeping \/ sweeping' = {<<b, "persist">>})
    BY <2>1, <2>3, FilesUntouched
  <2> QED BY <1>4, <2>2, <2>3 DEF FinalizeStranded
<1>5. ASSUME NEW b \in Benchmarks, SweepFiles(b) PROVE FilesInvariant'
  <2>1. request[b] = "done" /\ NoTaskRows(b)
    BY <1>5 DEF SweepFiles, FilesInvariant, RowsGoBeforeFiles
  <2> QED BY <1>5, <2>1, FilesRemoved DEF SweepFiles
<1>6. ASSUME NEW b \in Benchmarks, SweepPersistError(b) PROVE FilesInvariant'
  BY <1>6, FilesUntouched DEF SweepPersistError
<1>7. ASSUME NEW t \in Tasks, PickCandidate(t) PROVE FilesInvariant'
  BY <1>7, FilesUntouched DEF PickCandidate
<1>8. ASSUME NEW t \in Tasks, ClaimTask(t) PROVE FilesInvariant'
  BY <1>8, FilesUntouched DEF ClaimTask
<1>9. ASSUME NEW t \in Tasks, LoseCandidate(t) PROVE FilesInvariant'
  BY <1>9, FilesUntouched DEF LoseCandidate
<1> QED BY <1>1, <1>2, <1>3, <1>4, <1>5, <1>6, <1>7, <1>8, <1>9 DEF Scheduler

LEMMA SetTaskEffect ==
    ASSUME TypeOK, NEW t \in Tasks, NEW new, SetTask(t, new)
    PROVE  \A u \in Tasks : \/ task'[u] = task[u]
                            \/ task[u] # "none" /\ task'[u] = new
<1>1. CASE task[t] = "none"
  <2>1. task' = task BY <1>1 DEF SetTask
  <2> QED BY <2>1
<1>2. CASE task[t] # "none"
  <2>1. task' = [task EXCEPT ![t] = new] BY <1>2 DEF SetTask
  <2>2. task \in [Tasks -> TaskStatus] BY DEF TypeOK
  <2> QED BY <1>2, <2>1, <2>2
<1> QED BY <1>1, <1>2

LEMMA FilesGoroutine ==
    ASSUME TypeOK, RowInvariant, FilesInvariant, NEW t \in Tasks,
           Goroutine(t) \/ StatementFails(t)
    PROVE  FilesInvariant'
<1> DEFINE b == BenchmarkOf[t]
<1>b. b \in Benchmarks BY ShapeAssumption
<1>s. UNCHANGED <<stranded, sweeping, request>>
  BY DEF Goroutine, LoadBenchmark, CancelTask, StatInput, RunTask,
     CompleteTask, UpdateProgress, FailTask, MarkBenchmark, CancelSiblings,
     Finalize, Cleanup, Exit, StatementFails, LocalStep, handlers
<1> USE <1>b, <1>s DEF TypeOK, Goto, database
<1>1. CASE LoadBenchmark(t) BY <1>1, FilesUntouched DEF LoadBenchmark
<1>2. CASE CancelTask(t) BY <1>2, FilesUntouched DEF CancelTask
<1>3. CASE StatInput(t)
  <2>1. \A u \in Tasks : pc'[u] = "cleanup" => pc[u] = "cleanup"
    BY <1>3 DEF StatInput
  <2> QED BY <1>3, <2>1, FilesUntouched DEF StatInput
<1>4. CASE RunTask(t)
  <2>1. \A u \in Tasks : pc'[u] = "cleanup" => pc[u] = "cleanup"
    BY <1>4 DEF RunTask
  <2>2. \A c \in Benchmarks : files[c] = "inputs" => files'[c] = "inputs"
    BY <1>4 DEF RunTask
  <2> QED BY <1>4, <2>1, <2>2, FilesUntouched DEF RunTask
<1>5. CASE CompleteTask(t)
  <2>1. pc[t] = "complete" /\ UNCHANGED files BY <1>5 DEF CompleteTask
  <2>2. \A u \in Tasks : pc'[u] = "cleanup" => pc[u] = "cleanup"
    BY <1>5 DEF CompleteTask
  <2>3. \A u \in Tasks : \/ task'[u] = task[u]
                         \/ task[u] # "none" /\ task'[u] = "done"
    BY <1>5, SetTaskEffect DEF CompleteTask
  <2> QED BY <2>1, <2>2, <2>3, FilesUntouched
<1>6. CASE UpdateProgress(t) BY <1>6, FilesUntouched DEF UpdateProgress
<1>7. CASE FailTask(t)
  <2>1. UNCHANGED files BY <1>7 DEF FailTask
  <2>2. \A u \in Tasks : pc'[u] = "cleanup" => pc[u] = "cleanup"
    BY <1>7 DEF FailTask
  <2>3. \A u \in Tasks : \/ task'[u] = task[u]
                         \/ task[u] # "none" /\ task'[u] = "failed"
    BY <1>7, SetTaskEffect DEF FailTask
  <2> QED BY <2>1, <2>2, <2>3, FilesUntouched
<1>8. CASE MarkBenchmark(t) BY <1>8, FilesUntouched DEF MarkBenchmark
<1>9. CASE CancelSiblings(t)
  BY <1>9, FilesUntouched DEF CancelSiblings, InStatus
<1>10. CASE Finalize(t)
  <2>1. CASE CommitFinalize(b) /\ Goto(t, "cleanup")
    <3>1. task' = [u \in Tasks |-> IF u \in TasksOf(b) THEN "none" ELSE task[u]]
      BY <2>1, CommitEffect
    <3>2. UNCHANGED files BY <1>10 DEF Finalize
    <3> USE <2>1, <3>1, <3>2, ShapeAssumption
        DEF FilesInvariant, NoTaskRows, TasksOf
    <3>3. RowsGoBeforeFiles' BY DEF RowsGoBeforeFiles
    <3>4. InputsComeFirst' BY DEF InputsComeFirst
    <3>5. InputsOutliveTasks' BY DEF InputsOutliveTasks, Pending, InStatus
    <3> QED BY <3>3, <3>4, <3>5
  <2>2. CASE UNCHANGED database /\ Goto(t, "exit")
    BY <1>10, <2>2, FilesUntouched DEF Finalize
  <2> QED BY <1>10, <2>1, <2>2 DEF Finalize
<1>11. CASE Cleanup(t)
  <2>1. NoTaskRows(b)
    BY <1>11 DEF Cleanup, FilesInvariant, RowsGoBeforeFiles
  <2>2. request[b] = "done"
    BY <1>11 DEF Cleanup, RowInvariant, BeforeSubmission, TasksOf
  <2> QED BY <1>11, <2>1, <2>2, FilesRemoved DEF Cleanup
<1>12. CASE Exit(t) BY <1>12, FilesUntouched DEF Exit
<1>13. CASE StatementFails(t)
  BY <1>13, FilesUntouched DEF StatementFails, AfterError
<1> QED BY <1>1, <1>2, <1>3, <1>4, <1>5, <1>6, <1>7, <1>8, <1>9, <1>10, <1>11,
           <1>12, <1>13 DEF Goroutine

LEMMA FilesStep ==
    TypeOK /\ RowInvariant /\ FilesInvariant /\ [Next]_vars => FilesInvariant'
<1> SUFFICES ASSUME TypeOK, RowInvariant, FilesInvariant, [Next]_vars
             PROVE  FilesInvariant'
  OBVIOUS
<1>1. CASE Crash
  <2>1. \A b \in Benchmarks : /\ request[b] = "done" => request'[b] = "done"
                              /\ request'[b] \in {"new", "done"}
    BY <1>1 DEF Crash
  <2>2. UNCHANGED <<task, files>> /\ stranded' = {} /\ sweeping' = {}
        /\ \A t \in Tasks : pc'[t] = "idle"
    BY <1>1 DEF Crash, database
  <2> QED BY <2>1, <2>2, FilesUntouched DEF TypeOK
<1>2. CASE UNCHANGED vars
  BY <1>2, FilesUntouched
  DEF vars, database, runner, handlers, bounds, TypeOK
<1> QED BY <1>1, <1>2, FilesHandlers, FilesScheduler, FilesGoroutine DEF Next

\* The inputs of a benchmark with a task that may still run are on disk.
THEOREM InputsSafe == Spec => []InputsOutliveTasks
<1>1. FilesInvariant => InputsOutliveTasks BY DEF FilesInvariant
<1> QED BY <1>1, TypeInit, TypeStep, RowInit, RowStep, FilesInit, FilesStep,
        PTL DEF Spec
=============================================================================
