----------------------- MODULE MCBenchmarkScheduler -----------------------
(***************************************************************************)
(* Small instances of BenchmarkScheduler. b1 has two tasks, b2 has one; b2 *)
(* belongs to a group of higher priority.                                  *)
(***************************************************************************)
EXTENDS BenchmarkScheduler, TLC

CONSTANTS b1, b2, t1, t2, t3

MCBenchmarks == {b1, b2}
MCTasks == {t1, t2, t3}
MCBenchmarkOf == (t1 :> b1) @@ (t2 :> b1) @@ (t3 :> b2)
MCSeqNo == (t1 :> 1) @@ (t2 :> 2) @@ (t3 :> 1)
MCWorkers == (t1 :> 1) @@ (t2 :> 1) @@ (t3 :> 2)
MCPriority == (b1 :> 0) @@ (b2 :> 1)
=============================================================================
