------------------------------ MODULE MCJobQueue -------------------------------
(* Instances of JobQueue for TLC. *)
EXTENDS JobQueue, TLC

\* Jobs and workers are interchangeable in the runs that check no liveness.
Symmetry == Permutations(Jobs) \cup Permutations(Workers)
================================================================================
