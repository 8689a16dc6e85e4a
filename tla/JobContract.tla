------------------------------ MODULE JobContract ------------------------------
(***************************************************************************)
(* What the durable queue of packages/db/src/jobs.ts promises the code that *)
(* enqueues work, without workers, claims or locks: a job is open until it  *)
(* is done or buried, its handler's effect is committed only while it is    *)
(* open, it is done only after the effect was committed, and done is final. *)
(* Only an administrator reopens a buried job.                              *)
(***************************************************************************)
EXTENDS Naturals

CONSTANT Jobs

VARIABLES state,    \* state of each job
          effects   \* how often the handler of each job committed its work

vars == <<state, effects>>

Init ==
  /\ state = [j \in Jobs |-> "absent"]
  /\ effects = [j \in Jobs |-> 0]

Submit(j) ==
  /\ state[j] = "absent"
  /\ state' = [state EXCEPT ![j] = "open"]
  /\ UNCHANGED effects

Work(j) ==
  /\ state[j] = "open"
  /\ effects' = [effects EXCEPT ![j] = @ + 1]
  /\ UNCHANGED state

Finish(j) ==
  /\ state[j] = "open" /\ effects[j] > 0
  /\ state' = [state EXCEPT ![j] = "done"]
  /\ UNCHANGED effects

Bury(j) ==
  /\ state[j] = "open"
  /\ state' = [state EXCEPT ![j] = "buried"]
  /\ UNCHANGED effects

Reopen(j) ==
  /\ state[j] = "buried"
  /\ state' = [state EXCEPT ![j] = "open"]
  /\ UNCHANGED effects

Next == \E j \in Jobs : Submit(j) \/ Work(j) \/ Finish(j) \/ Bury(j) \/ Reopen(j)

Spec == Init /\ [][Next]_vars
================================================================================
