--------------------------------- MODULE Sums ----------------------------------
(***************************************************************************)
(* Sums of amounts over finite sets, for the books of payments and refunds. *)
(* Amounts are whole kobo, so that a sum can count them one by one: this    *)
(* needs no recursion, and the theorems on finite sets apply to it.         *)
(***************************************************************************)
EXTENDS Naturals, FiniteSets

\* Every unit of f[x], for every x of S.
Units(f, S) == UNION {{x} \X (1..f[x]) : x \in S}

SumOver(f, S) == Cardinality(Units(f, S))
================================================================================
