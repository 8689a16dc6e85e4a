------------------------------- MODULE JobQueue --------------------------------
(***************************************************************************)
(* The durable job queue: the `jobs` table (packages/db/src/jobs.ts), the  *)
(* runners that claim and execute its rows (apps/worker/src/runner.ts), the *)
(* stale-lock reaper (apps/worker/src/scheduler.ts), the shutdown of a      *)
(* worker process (apps/worker/src/main.ts) and the administrator's retry   *)
(* (apps/web/src/server/admin/operations/jobs.ts).                          *)
(*                                                                          *)
(* Every action is one database transaction or one step of a worker between *)
(* two awaits.  Time is abstracted: a pending job may be claimed at any     *)
(* moment after its back-off, and a lock is stale when its worker is gone   *)
(* or, with SlowHandlers, whenever a handler outlives the reaper's cutoff.  *)
(***************************************************************************)
EXTENDS Naturals, FiniteSets

CONSTANTS
  Jobs,          \* dedupe keys, each of at most one row of `jobs`
  Workers,       \* worker processes
  None,          \* locked_by of an unlocked row
  MaxAttempts,   \* max_attempts of every job
  Concurrency,   \* WORKER_CONCURRENCY
  SlowHandlers,  \* may a handler run longer than the reaper's 15 minutes?
  MaxFaults,     \* bound: crashes, shutdowns and slow handlers together
  MaxRetries     \* bound: administrator retries

ASSUME QueueAssumption ==
  /\ IsFiniteSet(Jobs) /\ None \notin Workers
  /\ MaxAttempts \in Nat \ {0}
  /\ Concurrency \in Nat \ {0}
  /\ SlowHandlers \in BOOLEAN
  /\ MaxFaults \in Nat /\ MaxRetries \in Nat

VARIABLES
  status,     \* jobs.status; "absent" when there is no row
  attempts,   \* jobs.attempts
  lockedBy,   \* jobs.locked_by
  lastError,  \* jobs.last_error, by kind
  claims,     \* how often the row was claimed: stands for the instant locked_at
  effects,    \* history: how often a handler of the job committed its work
  execs,      \* executions in flight: JobRunner.inFlight of every worker
  mode,       \* "up", "stopping" (stop() awaits) or "down"
  tick,       \* capacity a tick read before it awaits claimJobs; 0 outside
  awaited,    \* the executions stop() awaits
  faults, retries

jobVars    == <<status, attempts, lockedBy, lastError>>
workerVars == <<mode, tick, awaited>>
vars == <<jobVars, claims, effects, execs, workerVars, faults, retries>>

JobStatus == {"absent", "pending", "running", "succeeded", "dead"}
ErrorKind == {"none", "released", "retryable", "fatal"}
Phase     == {"handling", "committed", "retryable", "fatal"}
Execution == [job : Jobs, claim : Nat \ {0}, worker : Workers,
              attempts : Nat \ {0}, phase : Phase]

TypeOK ==
  /\ status \in [Jobs -> JobStatus]
  /\ attempts \in [Jobs -> Nat]
  /\ lockedBy \in [Jobs -> Workers \cup {None}]
  /\ lastError \in [Jobs -> ErrorKind]
  /\ claims \in [Jobs -> Nat]
  /\ effects \in [Jobs -> Nat]
  /\ execs \subseteq Execution
  /\ mode \in [Workers -> {"up", "stopping", "down"}]
  /\ tick \in [Workers -> 0..Concurrency]
  /\ awaited \in [Workers -> SUBSET (Jobs \X Nat)]
  /\ faults \in 0..MaxFaults
  /\ retries \in 0..MaxRetries

--------------------------------------------------------------------------------
\* Ids of executions, and the ones a worker has in flight.
Id(e) == <<e.job, e.claim>>
InFlight(w) == {e \in execs : e.worker = w}

\* The set of due rows a claim may take when it asks for n: the UPDATE takes n
\* of them, or all when there are fewer.
Pending == {j \in Jobs : status[j] = "pending"}
Batches(n) == {S \in SUBSET Pending :
                 \/ Cardinality(S) = n
                 \/ S = Pending /\ Cardinality(S) < n}

\* The row a claim returns: the copy the execution keeps and later fails with.
Claimed(j, w) == [job |-> j, claim |-> claims[j] + 1, worker |-> w,
                  attempts |-> attempts[j] + 1, phase |-> "handling"]

\* A lock older than the cutoff: its worker is gone, or its handler is slow.
Abandoned(j) == ~ \E e \in execs : e.job = j /\ e.claim = claims[j]
LockIsStale_NoCutoff(j) == TRUE
LockIsStale_NotOfDeadWorkers(j) == SlowHandlers /\ ~Abandoned(j)
LockIsStale(j) == SlowHandlers \/ Abandoned(j)

Init ==
  /\ status = [j \in Jobs |-> "absent"]
  /\ attempts = [j \in Jobs |-> 0]
  /\ lockedBy = [j \in Jobs |-> None]
  /\ lastError = [j \in Jobs |-> "none"]
  /\ claims = [j \in Jobs |-> 0]
  /\ effects = [j \in Jobs |-> 0]
  /\ execs = {}
  /\ mode = [w \in Workers |-> "down"]
  /\ tick = [w \in Workers |-> 0]
  /\ awaited = [w \in Workers |-> {}]
  /\ faults = 0 /\ retries = 0

\* enqueueJob: INSERT ... ON CONFLICT (dedupe_key) DO NOTHING.
Enqueue(j) ==
  /\ status[j] = "absent"
  /\ status' = [status EXCEPT ![j] = "pending"]
  /\ UNCHANGED <<attempts, lockedBy, lastError, claims, effects, execs,
                 workerVars, faults, retries>>

\* JobRunner.tick up to its await: the capacity is read here and used later.
ReadCapacity(w) ==
  /\ mode[w] = "up" /\ tick[w] = 0
  /\ Cardinality(InFlight(w)) < Concurrency
  /\ tick' = [tick EXCEPT ![w] = Concurrency - Cardinality(InFlight(w))]
  /\ UNCHANGED <<jobVars, claims, effects, execs, mode, awaited, faults, retries>>

\* claimJobs and the rest of the tick: it executes what it claimed even when
\* stop() was called while it awaited.
ClaimJobs(w) ==
  /\ mode[w] # "down" /\ tick[w] > 0
  /\ \E S \in Batches(tick[w]) :
       /\ status' = [j \in Jobs |-> IF j \in S THEN "running" ELSE status[j]]
       /\ attempts' = [j \in Jobs |-> IF j \in S THEN attempts[j] + 1 ELSE attempts[j]]
       /\ lockedBy' = [j \in Jobs |-> IF j \in S THEN w ELSE lockedBy[j]]
       /\ claims' = [j \in Jobs |-> IF j \in S THEN claims[j] + 1 ELSE claims[j]]
       /\ execs' = execs \cup {Claimed(j, w) : j \in S}
  /\ tick' = [tick EXCEPT ![w] = 0]
  /\ UNCHANGED <<lastError, effects, mode, awaited, faults, retries>>

\* The handler commits its domain transaction.
HandlerCommits(e) ==
  /\ e.phase = "handling"
  /\ effects' = [effects EXCEPT ![e.job] = @ + 1]
  /\ execs' = (execs \ {e}) \cup {[e EXCEPT !.phase = "committed"]}
  /\ UNCHANGED <<jobVars, claims, workerVars, faults, retries>>

\* The handler throws before or after it committed, there is no handler for the
\* type (fatal), or the transaction of completeJob fails (retryable).
HandlerThrows(e) ==
  /\ e.phase \in {"handling", "committed"}
  /\ \E kind \in {"retryable", "fatal"} :
       execs' = (execs \ {e}) \cup {[e EXCEPT !.phase = kind]}
  /\ UNCHANGED <<jobVars, claims, effects, workerVars, faults, retries>>

CompleteJob_BeforeCommit(e) ==
  /\ e.phase \in {"handling", "committed"}
  /\ status' = [status EXCEPT ![e.job] = "succeeded"]
  /\ lockedBy' = [lockedBy EXCEPT ![e.job] = None]
  /\ lastError' = [lastError EXCEPT ![e.job] = "none"]
  /\ execs' = execs \ {e}
  /\ UNCHANGED <<attempts, claims, effects, workerVars, faults, retries>>

\* completeJob: by id only; neither the lock nor the status is compared.
CompleteJob(e) ==
  /\ e.phase = "committed"
  /\ status' = [status EXCEPT ![e.job] = "succeeded"]
  /\ lockedBy' = [lockedBy EXCEPT ![e.job] = None]
  /\ lastError' = [lastError EXCEPT ![e.job] = "none"]
  /\ execs' = execs \ {e}
  /\ UNCHANGED <<attempts, claims, effects, workerVars, faults, retries>>

\* failJob: decides on the attempts of the claimed copy, updates by id only.
CanRetry(e) == e.phase = "retryable" /\ e.attempts < MaxAttempts
FailJob(e) ==
  /\ e.phase \in {"retryable", "fatal"}
  /\ status' = [status EXCEPT ![e.job] = IF CanRetry(e) THEN "pending" ELSE "dead"]
  /\ lockedBy' = [lockedBy EXCEPT ![e.job] = None]
  /\ lastError' = [lastError EXCEPT ![e.job] = e.phase]
  /\ execs' = execs \ {e}
  /\ UNCHANGED <<attempts, claims, effects, workerVars, faults, retries>>

\* reapStaleJobs: every running row whose lock is older than the cutoff goes
\* back to pending; its attempts are kept and not compared with the maximum.
ReapStaleJobs(S) ==
  /\ \A j \in S : status[j] = "running" /\ LockIsStale(j)
  /\ status' = [j \in Jobs |-> IF j \in S THEN "pending" ELSE status[j]]
  /\ lockedBy' = [j \in Jobs |-> IF j \in S THEN None ELSE lockedBy[j]]
  /\ lastError' = [j \in Jobs |-> IF j \in S THEN "released" ELSE lastError[j]]
  /\ IF \A j \in S : Abandoned(j)
       THEN faults' = faults
       ELSE faults < MaxFaults /\ faults' = faults + 1
  /\ UNCHANGED <<attempts, claims, effects, execs, workerVars, retries>>

\* retryDeadJob, from the administrator's Jobs & Outbox page.
RetryDeadJob(j) ==
  /\ status[j] = "dead"
  /\ status' = [status EXCEPT ![j] = "pending"]
  /\ attempts' = [attempts EXCEPT ![j] = 0]
  /\ lastError' = [lastError EXCEPT ![j] = "none"]
  /\ retries < MaxRetries /\ retries' = retries + 1
  /\ UNCHANGED <<lockedBy, claims, effects, execs, workerVars, faults>>

\* A worker process starts (restart: unless-stopped).
Start(w) ==
  /\ mode[w] = "down"
  /\ mode' = [mode EXCEPT ![w] = "up"]
  /\ UNCHANGED <<jobVars, claims, effects, execs, tick, awaited, faults, retries>>

\* JobRunner.stop: no further tick; awaits the executions in flight right now.
Stop(w) ==
  /\ mode[w] = "up"
  /\ mode' = [mode EXCEPT ![w] = "stopping"]
  /\ awaited' = [awaited EXCEPT ![w] = {Id(e) : e \in InFlight(w)}]
  /\ faults < MaxFaults /\ faults' = faults + 1
  /\ UNCHANGED <<jobVars, claims, effects, execs, tick, retries>>

\* The process is gone, with whatever it still had in flight.
Gone(w) ==
  /\ mode' = [mode EXCEPT ![w] = "down"]
  /\ tick' = [tick EXCEPT ![w] = 0]
  /\ awaited' = [awaited EXCEPT ![w] = {}]
  /\ execs' = execs \ InFlight(w)
  /\ UNCHANGED <<jobVars, claims, effects, retries>>

\* shutdown: stop() resolved, process.exit(0).
Exit(w) ==
  /\ mode[w] = "stopping"
  /\ \A e \in InFlight(w) : Id(e) \notin awaited[w]
  /\ Gone(w)
  /\ UNCHANGED faults

\* The process dies: kill, out of memory, or failJob's own transaction fails and
\* the rejection of execute() is unhandled.
Crash(w) ==
  /\ mode[w] # "down"
  /\ faults < MaxFaults /\ faults' = faults + 1
  /\ Gone(w)

Execute(e) == HandlerCommits(e) \/ HandlerThrows(e) \/ CompleteJob(e) \/ FailJob(e)

Next ==
  \/ \E j \in Jobs : Enqueue(j) \/ RetryDeadJob(j)
  \/ \E S \in SUBSET Jobs \ {{}} : ReapStaleJobs(S)
  \/ \E w \in Workers : \/ Start(w) \/ ReadCapacity(w) \/ ClaimJobs(w)
                        \/ Stop(w) \/ Exit(w) \/ Crash(w)
  \/ \E e \in execs : Execute(e)

Spec == Init /\ [][Next]_vars

\* Timers fire, awaits resolve, the container is restarted, and no handler hangs
\* for ever; nothing forces an enqueue, an administrator or a fault.
Fairness ==
  /\ WF_vars(\E S \in SUBSET Jobs \ {{}} : ReapStaleJobs(S))
  /\ \A w \in Workers :
       /\ WF_vars(Start(w)) /\ WF_vars(ReadCapacity(w))
       /\ WF_vars(ClaimJobs(w)) /\ WF_vars(Exit(w))
       /\ WF_vars(\E e \in InFlight(w) : Execute(e))

FairSpec == Spec /\ Fairness

--------------------------------------------------------------------------------
(* Properties *)

\* A worker never has more executions in flight than its concurrency, although
\* tick reads the capacity before it awaits the claim (runner.ts:89-101).
CapacityRespected == \A w \in Workers : Cardinality(InFlight(w)) <= Concurrency

\* A job is marked succeeded only after a handler of it committed its work,
\* whatever crashes, stale locks and late workers did in between.
SuccessNeedsWork == \A j \in Jobs : status[j] = "succeeded" => effects[j] > 0

\* While no handler outlives the reaper's cutoff, a job has one execution at a
\* time, over all workers and restarts: the lock is a lease.
LeaseExclusive ==
  ~ SlowHandlers => \A e1, e2 \in execs : e1.job = e2.job => e1 = e2

\* While no handler outlives the cutoff, a job in the dead-letter state used up
\* its attempts or failed for good.
DeadIsDeserved ==
  \A j \in Jobs : status[j] = "dead" =>
    lastError[j] = "fatal" \/ (lastError[j] = "retryable" /\ attempts[j] >= MaxAttempts)

\* Every pending job is eventually done or in the dead-letter state: no order of
\* claims, crashes, shutdowns and back-offs loses it.
EveryJobSettles ==
  \A j \in Jobs : status[j] = "pending" ~> status[j] \in {"succeeded", "dead"}

\* The queue implements its contract while no handler outlives the cutoff.
ContractState ==
  [j \in Jobs |-> CASE status[j] = "absent" -> "absent"
                    [] status[j] \in {"pending", "running"} -> "open"
                    [] status[j] = "succeeded" -> "done"
                    [] status[j] = "dead" -> "buried"]
Contract == INSTANCE JobContract WITH state <- ContractState, effects <- effects
ContractSpec == Contract!Spec
================================================================================
