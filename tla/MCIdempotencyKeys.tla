--------------------------- MODULE MCIdempotencyKeys ---------------------------
(* Instances of IdempotencyKeys for TLC. *)
EXTENDS IdempotencyKeys, TLC

\* Requests and bodies are interchangeable.
Symmetry == Permutations(Requests) \cup Permutations(Bodies)
================================================================================
