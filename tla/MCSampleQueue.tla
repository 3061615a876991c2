--------------------------- MODULE MCSampleQueue ---------------------------
(* Instance of SampleQueue for TLC: more threads on each side than the    *)
(* gateway has (one and one), so that wakeups can go to the wrong thread. *)
EXTENDS SampleQueue

CONSTANTS p1, p2, c1, c2, s1, s2

MCProducers == {p1, p2}
MCConsumers == {c1, c2}
MCSample == {s1, s2}
=============================================================================
