----------------------------- MODULE MCEditHook -----------------------------
(* A component with a stylesheet, two agents that edit and one on Cursor. *)
EXTENDS EditHook, TLC

CONSTANTS s1, s2, g1, p1, p2

AllSessions == {s1, s2, g1}
Cursor == {g1}
ComponentAndStyle == {"a", "c"}
Imports == [f \in ComponentAndStyle |-> IF f = "a" THEN {"c"} ELSE {}]
SingleFiles == {{"a"}, {"c"}}
TwoProcesses == {p1, p2}
Alike == Permutations(TwoProcesses) \union Permutations({s1, s2})
=============================================================================
