-------------------------------- MODULE Outbox ---------------------------------
(***************************************************************************)
(* The transactional outbox: business transactions append rows to           *)
(* outbox_events (appendOutbox, packages/db/src/jobs.ts) and the relay of   *)
(* every worker turns committed rows into jobs (apps/worker/src/outbox.ts). *)
(*                                                                          *)
(* A relay works in one transaction: it locks a batch with FOR UPDATE SKIP  *)
(* LOCKED, routes event after event, each in its own savepoint, and commits *)
(* the jobs, the published marks and the failure counts together.  Row ids  *)
(* are taken at the insert, so rows may commit in another order than their  *)
(* ids.                                                                     *)
(***************************************************************************)
EXTENDS Naturals, FiniteSets

CONSTANTS
  Events,       \* ids of outbox rows (a bigserial)
  TargetsOf,    \* the job types each event is routed to
  Relays,       \* relay loops, one per worker
  BatchSize,    \* rows a relay claims at once (50)
  MaxRouting,   \* OUTBOX_MAX_ATTEMPTS (20)
  MaxAborts,    \* bound: relay transactions that are rolled back
  MaxRequeues   \* bound: requeues by an administrator

ASSUME OutboxAssumption ==
  /\ Events \subseteq Nat
  /\ BatchSize \in Nat \ {0} /\ MaxRouting \in Nat \ {0}
  /\ MaxAborts \in Nat /\ MaxRequeues \in Nat

VARIABLES
  row,     \* "none", "open" (inserted, not committed), "live", "lost", "published"
  tries,   \* outbox_events.attempts
  queued,  \* committed rows of `jobs`, by dedupe key <<event, target>>
  batch,   \* what each relay's transaction has claimed and not yet routed
  routed,  \* what it has routed: published when it commits
  failed,  \* what failed in its savepoint: counted when it commits
  open,    \* whether the relay is inside a transaction
  aborts, requeues

relayVars == <<batch, routed, failed, open>>
outboxVars == <<row, tries, queued, relayVars, aborts, requeues>>

OutboxTypeOK ==
  /\ row \in [Events -> {"none", "open", "live", "lost", "published"}]
  /\ tries \in [Events -> Nat]
  /\ queued \subseteq UNION {{e} \X TargetsOf[e] : e \in Events}
  /\ batch \in [Relays -> SUBSET Events]
  /\ routed \in [Relays -> SUBSET Events]
  /\ failed \in [Relays -> SUBSET Events]
  /\ open \in [Relays -> BOOLEAN]
  /\ aborts \in 0..MaxAborts /\ requeues \in 0..MaxRequeues

OutboxInit ==
  /\ row = [e \in Events |-> "none"]
  /\ tries = [e \in Events |-> 0]
  /\ queued = {}
  /\ batch = [r \in Relays |-> {}]
  /\ routed = [r \in Relays |-> {}]
  /\ failed = [r \in Relays |-> {}]
  /\ open = [r \in Relays |-> FALSE]
  /\ aborts = 0 /\ requeues = 0

--------------------------------------------------------------------------------
\* Rows a relay's open transaction has locked.
Held(r) == batch[r] \cup routed[r] \cup failed[r]
Locked == UNION {Held(r) : r \in Relays}

\* The dedupe keys of the jobs of a set of events.
JobsOf(E) == UNION {{e} \X TargetsOf[e] : e \in E}

\* Events the claim's WHERE clause admits, and the first n of a set by id.
Claimable_AfterLastPublished ==
  {e \in Events : /\ row[e] = "live" /\ tries[e] < MaxRouting /\ e \notin Locked
                  /\ \A f \in Events : row[f] = "published" => f < e}
Claimable ==
  {e \in Events : row[e] = "live" /\ tries[e] < MaxRouting /\ e \notin Locked}
First(S, n) == {e \in S : Cardinality({f \in S : f < e}) < n}

\* appendOutbox inside a business transaction, which then commits or rolls back.
AppendOutbox(e) ==
  /\ row[e] = "none"
  /\ row' = [row EXCEPT ![e] = "open"]
  /\ UNCHANGED <<tries, queued, relayVars, aborts, requeues>>

EndBusiness(e) ==
  /\ row[e] = "open"
  /\ \E outcome \in {"live", "lost"} : row' = [row EXCEPT ![e] = outcome]
  /\ UNCHANGED <<tries, queued, relayVars, aborts, requeues>>

\* claimOutboxBatch.  An empty batch commits at once and changes nothing.
ClaimBatch(r) ==
  /\ ~ open[r] /\ Claimable # {}
  /\ open' = [open EXCEPT ![r] = TRUE]
  /\ batch' = [batch EXCEPT ![r] = First(Claimable, BatchSize)]
  /\ UNCHANGED <<row, tries, queued, routed, failed, aborts, requeues>>

\* One turn of relayOutboxEvents, in id order: the savepoint of the event is
\* released, or rolled back with every job it enqueued.
RouteEvent(r) ==
  \E e \in batch[r] :
    /\ \A f \in batch[r] : e <= f
    /\ batch' = [batch EXCEPT ![r] = @ \ {e}]
    /\ \/ routed' = [routed EXCEPT ![r] = @ \cup {e}] /\ UNCHANGED failed
       \/ failed' = [failed EXCEPT ![r] = @ \cup {e}] /\ UNCHANGED routed
    /\ UNCHANGED <<row, tries, queued, open, aborts, requeues>>

Release(r) ==
  /\ open' = [open EXCEPT ![r] = FALSE]
  /\ batch' = [batch EXCEPT ![r] = {}]
  /\ routed' = [routed EXCEPT ![r] = {}]
  /\ failed' = [failed EXCEPT ![r] = {}]

\* markOutboxPublished and the commit of jobs, marks and counts together.
CommitRelay_NoSavepoint(r) ==
  /\ open[r] /\ batch[r] = {}
  /\ row' = [e \in Events |-> IF e \in routed[r] THEN "published" ELSE row[e]]
  /\ tries' = [e \in Events |-> IF e \in failed[r] THEN tries[e] + 1 ELSE tries[e]]
  /\ \E partial \in SUBSET JobsOf(failed[r]) : queued' = queued \cup JobsOf(routed[r]) \cup partial
  /\ Release(r)
  /\ UNCHANGED <<aborts, requeues>>

CommitRelay(r) ==
  /\ open[r] /\ batch[r] = {}
  /\ row' = [e \in Events |-> IF e \in routed[r] THEN "published" ELSE row[e]]
  /\ tries' = [e \in Events |-> IF e \in failed[r] THEN tries[e] + 1 ELSE tries[e]]
  /\ queued' = queued \cup JobsOf(routed[r])
  /\ Release(r)
  /\ UNCHANGED <<aborts, requeues>>

\* The connection or the process is lost: everything is rolled back.
AbortRelay(r) ==
  /\ open[r]
  /\ aborts < MaxAborts /\ aborts' = aborts + 1
  /\ Release(r)
  /\ UNCHANGED <<row, tries, queued, requeues>>

\* requeueOutboxEvent: waits for the row's lock and refuses a published row.
RequeueOutboxEvent(e) ==
  /\ row[e] = "live" /\ e \notin Locked
  /\ tries' = [tries EXCEPT ![e] = 0]
  /\ requeues < MaxRequeues /\ requeues' = requeues + 1
  /\ UNCHANGED <<row, queued, relayVars, aborts>>

OutboxNext ==
  \/ \E e \in Events : AppendOutbox(e) \/ EndBusiness(e) \/ RequeueOutboxEvent(e)
  \/ \E r \in Relays : ClaimBatch(r) \/ RouteEvent(r) \/ CommitRelay(r) \/ AbortRelay(r)

OutboxSpec == OutboxInit /\ [][OutboxNext]_outboxVars

--------------------------------------------------------------------------------
(* Properties *)

\* "A job exists if and only if the change committed" (jobs.ts:8-9), through the
\* relay: a published event has a job for each of its targets, and an event that
\* is rolled back, waiting or failed has none, whatever savepoints and relay
\* transactions were undone on the way.
JobsIffPublished ==
  \A e \in Events : IF row[e] = "published"
                      THEN JobsOf({e}) \subseteq queued
                      ELSE JobsOf({e}) \cap queued = {}

\* Two relays never work on the same event.
RelaysDisjoint ==
  \A r1, r2 \in Relays : r1 # r2 => Held(r1) \cap Held(r2) = {}

\* An event at the routing maximum waits for an operator.
Stuck(e) == row[e] = "live" /\ tries[e] >= MaxRouting
================================================================================
