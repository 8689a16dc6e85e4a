---------------------------- MODULE MCEventDelivery ----------------------------
(* Instance of EventDelivery for TLC: one event with two targets, one with one. *)
EXTENDS EventDelivery, TLC

MCEvents == 1..2
MCTargets == (1 :> {"notify", "index"}) @@ (2 :> {"index"})
================================================================================
