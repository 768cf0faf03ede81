---------------------------- MODULE MCTaskBoard ----------------------------
(* Instances of TaskBoard for TLC.                                         *)
EXTENDS TaskBoard

CONSTANTS c1, t1, k1

\* A note is named after the word it opens with.
Captions == [n \in Notes |-> n]
=============================================================================
