---------------------------- MODULE MCLiveSession ----------------------------
(* Constants and the state constraint of the runs of LiveSession. *)
EXTENDS LiveSession, TLC

MCTypes == {"generate", "accept", "discard", "steer"}

\* Bounds: a session and a steer message are followed together only up to the
\* first decision or fault, and a checkpoint in flight only up to a fault.
Untouched(i) == journal[i] = Blank /\ \A c \in calls : c.id # i
MostlyApart ==
    /\ faults > 0 => \A c \in calls : c.type # "checkpoint"
    /\ \/ \A m \in Steers : Untouched(m)
       \/ \A s \in Sessions : Untouched(s)
       \/ faults + decisions = 0
=============================================================================
