-------------------------- MODULE MCVariantMarkers --------------------------
(* One element with two children. *)
EXTENDS VariantMarkers

CONSTANTS s1, s2

TwoChildren == <<Open("user", NoId, 0, 0), Text("a", 2), Text("b", 2), Shut(0)>>

TwoSessions == {s1, s2}
=============================================================================
