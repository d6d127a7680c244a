---------------------------- MODULE MCManualEdits ----------------------------
(* Two edits in two files for TLC.  An edit is named for its file, and by a *)
(* number: how many texts its place has besides the first.                  *)
EXTENDS ManualEdits

TwoFiles == [e \in Entries |-> e]

\* Bound: only the place of the second edit gets a wrong text, and only for it the
\* user goes on to save another one.
OneHasMoreTexts == \A e \in Entries : {buffer[e], source[e]} \subseteq 0..e

\* Bound: two things are not followed further: work of the agent that neither a
\* check of the helper nor a snapshot covers (stray), and the late answer to a
\* later chunk or to an attempt to repair (undone).  The properties say nothing
\* of what comes after; the run of ToldStays goes on.
Trusted == ~stray /\ ~undone
=============================================================================
