CONSTANTS
    b1 = b1
    b2 = b2
    t1 = t1
    t2 = t2
    t3 = t3
    NoTask = NoTask
    Benchmarks <- MCBenchmarks
    Tasks <- MCTasks
    BenchmarkOf <- MCBenchmarkOf
    SeqNo <- MCSeqNo
    Workers <- MCWorkers
    Priority <- MCPriority
    Budget = 2
    Outcomes = {"rows", "timed_out"}
    Cancellable = {b1}
    Deletable = {b2}
    MaxCrashes = 1
    MaxFaults = 0
SPECIFICATION FairSpec
CHECK_DEADLOCK FALSE
INVARIANT SettledProgress
PROPERTY ImplementsLifecycle
PROPERTY EveryBenchmarkEnds
PROPERTY NoneStaysInProgress
PROPERTY EndedRunLeavesNoFiles
