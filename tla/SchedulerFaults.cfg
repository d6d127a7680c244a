CONSTANTS
    b1 = b1
    b2 = b2
    t1 = t1
    t2 = t2
    t3 = t3
    NoTask = NoTask
    Benchmarks <- MCBenchmarks
    Tasks <- MCTasks
    BenchmarkOf <- MCBenchmarkOf
    SeqNo <- MCSeqNo
    Workers <- MCWorkers
    Priority <- MCPriority
    Budget = 3
    Outcomes = {"rows", "no_rows", "failed"}
    Cancellable = {b1}
    Deletable = {b2}
    MaxCrashes = 1
    MaxFaults = 1
SPECIFICATION Spec
CHECK_DEADLOCK FALSE
INVARIANT SchedulerInvariant
INVARIANT TypeOK
INVARIANT BudgetRespected
INVARIANT TaskOwnership
INVARIANT InputsOutliveTasks
INVARIANT ResultsIffReady
PROPERTY PublishesEveryTask
