CONSTANTS
    b1 = b1
    b2 = b2
    t1 = t1
    t2 = t2
    t3 = t3
    NoTask = NoTask
    Benchmarks <- MCBenchmarks
    Tasks <- MCTasks
    BenchmarkOf <- MCBenchmarkOf
    SeqNo <- MCSeqNo
    Workers <- MCWorkers
    Priority <- MCPriority
    Budget = 3
    Outcomes = {"rows", "failed"}
    Cancellable = {b1}
    Deletable = {}
    MaxCrashes = 0
    MaxFaults = 0
SPECIFICATION Spec
CHECK_DEADLOCK FALSE
PROPERTIES
    CancelledIsFinal
