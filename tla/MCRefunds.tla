------------------------------- MODULE MCRefunds -------------------------------
(* Instances of Refunds for TLC. *)
EXTENDS Refunds, TLC

\* Provider refunds and workers are interchangeable.
Symmetry == Permutations(ProviderRefunds) \cup Permutations(Submitters)
================================================================================
