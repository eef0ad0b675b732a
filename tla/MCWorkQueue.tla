----------------------------- MODULE MCWorkQueue -----------------------------
(* A small instance of WorkQueue for TLC. *)
EXTENDS WorkQueue, TLC

CONSTANTS w1, w2, c1, laneA, laneB, key, nokey, job

MCWorkers == {w1, w2}
MCSymmetry == Permutations(MCWorkers) \cup Permutations({laneA, laneB})
==============================================================================
