----------------------------- MODULE MCHarness -----------------------------
(* Instances of Harness for TLC.                                           *)
EXTENDS Harness, TLC

CONSTANTS h1, h2, once, e1, e2, v1

\* The hubs run the same loop.
Alike == Permutations(Hubs)
=============================================================================
