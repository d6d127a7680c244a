------------------------- MODULE BenchmarkLifecycle -------------------------
(***************************************************************************)
(* What a benchmark looks like to its owner: the status its page shows and *)
(* the results behind it.  The scheduler, its tasks, the files, restarts   *)
(* and the budget are hidden; BenchmarkScheduler implements this module.   *)
(*                                                                         *)
(* A benchmark that failed, timed out or was cancelled never runs again,   *)
(* but its status may still be overwritten by the failure of a task that   *)
(* was running at that moment.  A ready benchmark is final.                *)
(***************************************************************************)
CONSTANTS Benchmarks, Payloads

VARIABLES status, results

vars == <<status, results>>

Init ==
    /\ status = [b \in Benchmarks |-> "none"]
    /\ results = [b \in Benchmarks |-> {}]

Submit(b) ==
    /\ status[b] = "none"
    /\ status' = [status EXCEPT ![b] = "queued"]
    /\ UNCHANGED results

Start(b) ==
    /\ status[b] = "queued"
    /\ status' = [status EXCEPT ![b] = "in_progress"]
    /\ UNCHANGED results

\* Status and results change together.
Publish(b) ==
    /\ status[b] = "in_progress"
    /\ status' = [status EXCEPT ![b] = "ready"]
    /\ \E P \in SUBSET Payloads :
          P # {} /\ results' = [results EXCEPT ![b] = P]

Fail(b) ==
    /\ status[b] \in {"in_progress", "failed", "timed_out", "cancelled"}
    /\ \E s \in {"failed", "timed_out"} :
          status' = [status EXCEPT ![b] = s]
    /\ UNCHANGED results

Cancel(b) ==
    /\ status[b] \in {"queued", "in_progress"}
    /\ status' = [status EXCEPT ![b] = "cancelled"]
    /\ UNCHANGED results

Remove(b) ==
    /\ status' = [status EXCEPT ![b] = "none"]
    /\ results' = [results EXCEPT ![b] = {}]

Next == \E b \in Benchmarks :
            Submit(b) \/ Start(b) \/ Publish(b) \/ Fail(b) \/ Cancel(b)
                \/ Remove(b)

Spec == Init /\ [][Next]_vars
=============================================================================
