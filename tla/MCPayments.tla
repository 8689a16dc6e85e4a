------------------------------- MODULE MCPayments ------------------------------
(* Instances of Payments for TLC; the runs give every constant a value. *)
EXTENDS Payments, TLC
================================================================================
