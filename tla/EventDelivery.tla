----------------------------- MODULE EventDelivery -----------------------------
(***************************************************************************)
(* The path from a business transaction to the effect of a job: the relay   *)
(* of Outbox composed with the queue as JobContract describes it.  JobQueue *)
(* implements that contract (Jobs_proofs), so a statement made here         *)
(* holds of the relay over the real queue.  A relay transaction that        *)
(* commits submits the jobs of every event it publishes in one step.        *)
(***************************************************************************)
EXTENDS Outbox

CONSTANTS
  MaxEffects,  \* bound: how often the handler of one job commits
  MaxReopens   \* bound: retries of buried jobs by an administrator

VARIABLES state, handled, reopens

Queue == INSTANCE JobContract WITH Jobs <- JobsOf(Events), effects <- handled

deliveryVars == <<outboxVars, state, handled, reopens>>

DeliveryInit == OutboxInit /\ Queue!Init /\ reopens = 0

\* A step of the outbox; the jobs it commits are open from then on.
Relay ==
  /\ OutboxNext
  /\ state' = [k \in JobsOf(Events) |->
                 IF k \in queued' \ queued THEN "open" ELSE state[k]]
  /\ UNCHANGED <<handled, reopens>>

Run(k) ==
  /\ \/ handled[k] < MaxEffects /\ Queue!Work(k)
     \/ Queue!Finish(k)
     \/ Queue!Bury(k)
  /\ UNCHANGED <<outboxVars, reopens>>

Reopen(k) ==
  /\ Queue!Reopen(k)
  /\ reopens < MaxReopens /\ reopens' = reopens + 1
  /\ UNCHANGED outboxVars

DeliveryNext == Relay \/ \E k \in JobsOf(Events) : Run(k) \/ Reopen(k)

\* Of the queue only what JobQueue's liveness gives: an open job settles.
DeliveryFairness ==
  /\ \A e \in Events : WF_deliveryVars(EndBusiness(e) /\ Relay)
  /\ \A r \in Relays : /\ WF_deliveryVars(ClaimBatch(r) /\ Relay)
                       /\ WF_deliveryVars((RouteEvent(r) \/ CommitRelay(r)) /\ Relay)
  /\ \A k \in JobsOf(Events) : WF_deliveryVars(Run(k))

DeliverySpec == DeliveryInit /\ [][DeliveryNext]_deliveryVars /\ DeliveryFairness

--------------------------------------------------------------------------------
(* Properties *)

\* A committed event reaches every one of its handlers: each of its jobs is done
\* or in the dead-letter state, or the event is stuck for an operator.
EventDelivered ==
  \A e \in Events :
    row[e] = "live" ~> \/ Stuck(e)
                       \/ \A k \in JobsOf({e}) : state[k] \in {"done", "buried"}
================================================================================
