------------------------------ MODULE Jobs_proofs ------------------------------
(***************************************************************************)
(* Proofs about JobQueue, Outbox and EventDelivery, for any jobs, workers,  *)
(* events, targets and relays.                                              *)
(*                                                                          *)
(* The queue: while no handler outlives the reaper's cutoff, an execution   *)
(* in flight is the holder of its job's current claim: every row with an    *)
(* execution is running and carries the claim number the execution started  *)
(* from, and no row has two.                                                *)
(*                                                                          *)
(* The outbox: what a relay holds is committed and unpublished, and no two  *)
(* relays hold the same row: so the rows a relay publishes have no job yet  *)
(* and get all of theirs, and nothing else gets one.                        *)
(***************************************************************************)
EXTENDS JobQueue, EventDelivery, FiniteSetTheorems, TLAPS

(* The queue *)

\* An execution holds the current claim of its job.
LockHeld ==
  ~ SlowHandlers =>
    \A e \in execs : status[e.job] = "running" /\ claims[e.job] = e.claim

\* A handler that returned has committed its work.
CommittedWorked ==
  \A e \in execs : e.phase = "committed" => effects[e.job] > 0

Inv ==
  /\ TypeOK /\ IsFiniteSet(execs)
  /\ LockHeld /\ LeaseExclusive
  /\ CommittedWorked /\ SuccessNeedsWork

--------------------------------------------------------------------------------
\* The executions in flight of a worker are finitely many.
LEMMA InFlightFinite ==
  ASSUME IsFiniteSet(execs), NEW w \in Workers
  PROVE  IsFiniteSet(InFlight(w)) /\ Cardinality(InFlight(w)) \in Nat
<1>1. InFlight(w) \subseteq execs
  BY DEF InFlight
<1>2. IsFiniteSet(InFlight(w))
  BY <1>1, FS_Subset
<1> QED
  BY <1>2, FS_CardinalityType

\* A claim starts one execution for each row it takes, and no other.
LEMMA ClaimedFinite ==
  ASSUME NEW w \in Workers, NEW S \in SUBSET Jobs
  PROVE  IsFiniteSet({Claimed(j, w) : j \in S})
<1>1. IsFiniteSet(S)
  BY FS_Subset, QueueAssumption
<1> DEFINE f == [j \in S |-> Claimed(j, w)]
           T == {Claimed(j, w) : j \in S}
<1>2. f \in Surjection(S, T)
  BY DEF Surjection
<1> QED
  BY <1>1, <1>2, FS_Surjection

LEMMA ClaimedType ==
  ASSUME TypeOK, NEW w \in Workers, NEW j \in Jobs
  PROVE  /\ Claimed(j, w) \in Execution
         /\ Claimed(j, w).job = j
         /\ Claimed(j, w).claim = claims[j] + 1
         /\ Claimed(j, w).phase = "handling"
BY DEF TypeOK, Claimed, Execution, Phase

\* Replacing an execution by one of another phase keeps its job and claim.
LEMMA PhaseType ==
  ASSUME NEW e \in Execution, NEW p \in Phase
  PROVE  /\ [e EXCEPT !.phase = p] \in Execution
         /\ [e EXCEPT !.phase = p].job = e.job
         /\ [e EXCEPT !.phase = p].claim = e.claim
         /\ [e EXCEPT !.phase = p].phase = p
BY DEF Execution

--------------------------------------------------------------------------------
LEMMA InitInv == Init => Inv
<1> SUFFICES ASSUME Init PROVE Inv
  OBVIOUS
<1>1. TypeOK
  BY QueueAssumption DEF Init, TypeOK, JobStatus, ErrorKind
<1>2. IsFiniteSet(execs)
  BY FS_EmptySet DEF Init
<1> QED
  BY <1>1, <1>2 DEF Init, Inv, LockHeld, LeaseExclusive, CommittedWorked, SuccessNeedsWork

\* One step per action.
LEMMA NextInv == Inv /\ [Next]_vars => Inv'
<1> SUFFICES ASSUME Inv, [Next]_vars PROVE Inv'
  OBVIOUS
<1> USE DEF Inv, jobVars, workerVars
<1>1. ASSUME NEW j \in Jobs, Enqueue(j) PROVE Inv'
  <2>1. TypeOK'
    BY <1>1 DEF Enqueue, TypeOK, JobStatus
  <2>2. LockHeld' /\ LeaseExclusive'
    BY <1>1 DEF Enqueue, TypeOK, LockHeld, LeaseExclusive, Execution
  <2>3. CommittedWorked' /\ SuccessNeedsWork' /\ IsFiniteSet(execs)'
    BY <1>1 DEF Enqueue, TypeOK, CommittedWorked, SuccessNeedsWork
  <2> QED
    BY <2>1, <2>2, <2>3
<1>2. ASSUME NEW j \in Jobs, RetryDeadJob(j) PROVE Inv'
  <2>1. TypeOK'
    BY <1>2, QueueAssumption DEF RetryDeadJob, TypeOK, JobStatus, ErrorKind
  <2>2. LockHeld' /\ LeaseExclusive'
    BY <1>2 DEF RetryDeadJob, TypeOK, LockHeld, LeaseExclusive, Execution
  <2>3. CommittedWorked' /\ SuccessNeedsWork' /\ IsFiniteSet(execs)'
    BY <1>2 DEF RetryDeadJob, TypeOK, CommittedWorked, SuccessNeedsWork
  <2> QED
    BY <2>1, <2>2, <2>3
<1>3. ASSUME NEW S \in SUBSET Jobs, ReapStaleJobs(S) PROVE Inv'
  <2>1. TypeOK'
    <3>1. faults' \in 0..MaxFaults
      BY <1>3, QueueAssumption DEF ReapStaleJobs, TypeOK
    <3> QED
      BY <1>3, <3>1 DEF ReapStaleJobs, TypeOK, JobStatus, ErrorKind
  <2>2. LockHeld' /\ LeaseExclusive'
    BY <1>3 DEF ReapStaleJobs, LockIsStale, Abandoned, TypeOK, LockHeld, LeaseExclusive, Execution
  <2>3. CommittedWorked' /\ SuccessNeedsWork' /\ IsFiniteSet(execs)'
    BY <1>3 DEF ReapStaleJobs, TypeOK, CommittedWorked, SuccessNeedsWork
  <2> QED
    BY <2>1, <2>2, <2>3
<1>4. ASSUME NEW w \in Workers, ReadCapacity(w) PROVE Inv'
  <2>1. Cardinality(InFlight(w)) \in Nat
    BY InFlightFinite
  <2>2. TypeOK'
    BY <1>4, <2>1, QueueAssumption DEF ReadCapacity, TypeOK
  <2>3. LockHeld' /\ LeaseExclusive'
    BY <1>4 DEF ReadCapacity, LockHeld, LeaseExclusive
  <2>4. CommittedWorked' /\ SuccessNeedsWork' /\ IsFiniteSet(execs)'
    BY <1>4 DEF ReadCapacity, CommittedWorked, SuccessNeedsWork
  <2> QED
    BY <2>2, <2>3, <2>4
<1>5. ASSUME NEW w \in Workers, ClaimJobs(w) PROVE Inv'
  <2>1. PICK S \in Batches(tick[w]) :
          /\ status' = [j \in Jobs |-> IF j \in S THEN "running" ELSE status[j]]
          /\ attempts' = [j \in Jobs |-> IF j \in S THEN attempts[j] + 1 ELSE attempts[j]]
          /\ lockedBy' = [j \in Jobs |-> IF j \in S THEN w ELSE lockedBy[j]]
          /\ claims' = [j \in Jobs |-> IF j \in S THEN claims[j] + 1 ELSE claims[j]]
          /\ execs' = execs \cup {Claimed(j, w) : j \in S}
    BY <1>5 DEF ClaimJobs
  <2>2. S \subseteq Jobs /\ \A j \in S : status[j] = "pending"
    BY <2>1 DEF Batches, Pending
  <2>3. \A j \in S : /\ Claimed(j, w) \in Execution
                     /\ Claimed(j, w).job = j
                     /\ Claimed(j, w).claim = claims[j] + 1
                     /\ Claimed(j, w).phase = "handling"
    BY <2>2, ClaimedType
  <2>4. TypeOK'
    <3>1. execs' \subseteq Execution
      BY <2>1, <2>3 DEF TypeOK
    <3> QED
      BY <1>5, <2>1, <2>2, <3>1, QueueAssumption DEF ClaimJobs, TypeOK, JobStatus
  <2>5. ASSUME ~ SlowHandlers, NEW e \in execs PROVE e.job \in Jobs /\ e.job \notin S
    BY <2>2, <2>5 DEF LockHeld, TypeOK, Execution
  <2>6. LockHeld'
    BY <2>1, <2>2, <2>3, <2>5 DEF LockHeld, TypeOK, Execution
  <2>7. LeaseExclusive'
    <3> SUFFICES ASSUME ~ SlowHandlers, NEW e1 \in execs', NEW e2 \in execs', e1.job = e2.job
                 PROVE  e1 = e2
      BY DEF LeaseExclusive
    <3>1. CASE e1 \in execs /\ e2 \in execs
      BY <3>1 DEF LeaseExclusive
    <3>2. CASE e1 \notin execs \/ e2 \notin execs
      BY <2>1, <2>3, <2>5, <3>2
    <3> QED
      BY <3>1, <3>2
  <2>8. CommittedWorked' /\ SuccessNeedsWork'
    BY <1>5, <2>1, <2>2, <2>3 DEF ClaimJobs, CommittedWorked, SuccessNeedsWork, TypeOK
  <2>9. IsFiniteSet(execs)'
    BY <2>1, <2>2, ClaimedFinite, FS_Union
  <2> QED
    BY <2>4, <2>6, <2>7, <2>8, <2>9
<1>6. ASSUME NEW w \in Workers, Start(w) \/ Stop(w) PROVE Inv'
  <2>1. {Id(e) : e \in InFlight(w)} \subseteq Jobs \X Nat
    BY DEF Id, InFlight, TypeOK, Execution
  <2>2. TypeOK'
    BY <1>6, <2>1, QueueAssumption DEF Start, Stop, TypeOK
  <2>3. LockHeld' /\ LeaseExclusive'
    BY <1>6 DEF Start, Stop, LockHeld, LeaseExclusive
  <2>4. CommittedWorked' /\ SuccessNeedsWork' /\ IsFiniteSet(execs)'
    BY <1>6 DEF Start, Stop, CommittedWorked, SuccessNeedsWork
  <2> QED
    BY <2>2, <2>3, <2>4
<1>7. ASSUME NEW w \in Workers, Exit(w) \/ Crash(w) PROVE Inv'
  <2>1. Gone(w) /\ execs' \subseteq execs
    BY <1>7 DEF Exit, Crash, Gone
  <2>2. TypeOK'
    BY <1>7, <2>1, QueueAssumption DEF Exit, Crash, Gone, TypeOK
  <2>3. LockHeld' /\ LeaseExclusive'
    BY <2>1 DEF Gone, LockHeld, LeaseExclusive
  <2>4. CommittedWorked' /\ SuccessNeedsWork'
    BY <2>1 DEF Gone, CommittedWorked, SuccessNeedsWork
  <2>5. IsFiniteSet(execs)'
    BY <2>1, FS_Subset
  <2> QED
    BY <2>2, <2>3, <2>4, <2>5
<1>8. ASSUME NEW e \in execs, NEW p \in Phase,
             execs' = (execs \ {e}) \cup {[e EXCEPT !.phase = p]},
             effects' = IF p = "committed" THEN [effects EXCEPT ![e.job] = @ + 1] ELSE effects,
             UNCHANGED <<jobVars, claims, workerVars, faults, retries>>
      PROVE  Inv'
  <2> DEFINE d == [e EXCEPT !.phase = p]
  <2>1. e \in Execution /\ d \in Execution /\ d.job = e.job /\ d.claim = e.claim /\ d.phase = p
    BY PhaseType DEF TypeOK
  <2>2. e.job \in Jobs
    BY <2>1 DEF Execution
  <2> HIDE DEF d
  <2>3. execs' = (execs \ {e}) \cup {d}
    BY <1>8 DEF d
  <2>4. TypeOK'
    BY <1>8, <2>1, <2>2, <2>3 DEF TypeOK
  <2>5. LockHeld'
    BY <1>8, <2>1, <2>3 DEF LockHeld
  <2>6. LeaseExclusive'
    BY <1>8, <2>1, <2>3 DEF LeaseExclusive
  <2>7. \A j \in Jobs : effects'[j] >= effects[j]
    BY <1>8, <2>2 DEF TypeOK
  <2>8. p = "committed" => effects'[e.job] > 0
    BY <1>8, <2>2 DEF TypeOK
  <2>9. CommittedWorked' /\ SuccessNeedsWork'
    BY <1>8, <2>1, <2>3, <2>4, <2>7, <2>8 DEF CommittedWorked, SuccessNeedsWork, TypeOK, Execution
  <2>10. IsFiniteSet(execs)'
    BY <2>3, FS_AddElement, FS_RemoveElement
  <2> QED
    BY <2>4, <2>5, <2>6, <2>9, <2>10
<1>9. ASSUME NEW e \in execs, CompleteJob(e) \/ FailJob(e) PROVE Inv'
  <2>1. e \in Execution /\ e.job \in Jobs /\ execs' = execs \ {e}
    BY <1>9 DEF TypeOK, Execution, CompleteJob, FailJob
  <2>2. TypeOK'
    BY <1>9, <2>1 DEF CompleteJob, FailJob, CanRetry, TypeOK, JobStatus, ErrorKind
  <2>3. LeaseExclusive'
    BY <2>1 DEF LeaseExclusive
  <2>4. LockHeld'
    BY <1>9, <2>1 DEF LockHeld, LeaseExclusive, CompleteJob, FailJob, TypeOK, Execution
  <2>5. CommittedWorked'
    BY <1>9, <2>1 DEF CommittedWorked, CompleteJob, FailJob
  <2>6. SuccessNeedsWork'
    BY <1>9, <2>1 DEF CommittedWorked, SuccessNeedsWork, CompleteJob, FailJob, CanRetry, TypeOK
  <2>7. IsFiniteSet(execs)'
    BY <2>1, FS_RemoveElement
  <2> QED
    BY <2>2, <2>3, <2>4, <2>5, <2>6, <2>7
<1>10. ASSUME NEW e \in execs, Execute(e) PROVE Inv'
  <2>1. CASE HandlerCommits(e)
    BY <2>1, <1>8 DEF HandlerCommits, Phase
  <2>2. CASE HandlerThrows(e)
    BY <2>2, <1>8 DEF HandlerThrows, Phase
  <2> QED
    BY <1>10, <2>1, <2>2, <1>9 DEF Execute
<1>11. CASE UNCHANGED vars
  BY <1>11 DEF vars, TypeOK, LockHeld, LeaseExclusive, CommittedWorked, SuccessNeedsWork
<1> QED
  BY <1>1, <1>2, <1>3, <1>4, <1>5, <1>6, <1>7, <1>10, <1>11 DEF Next

\* Every variable of the queue keeps its type, and the inductive invariant holds.
THEOREM Invariance == Spec => []Inv
BY InitInv, NextInv, PTL DEF Spec

\* With no handler slower than the reaper's cutoff, no job ever has two
\* executions: the property LeaseExclusive that the run jobqueue_leases checks.
THEOREM OneExecutionPerJob == Spec => [](TypeOK /\ LeaseExclusive)
<1>1. Inv => TypeOK /\ LeaseExclusive
  BY DEF Inv
<1> QED
  BY <1>1, Invariance, PTL

\* Whatever late workers do, a job is marked succeeded only after its work was
\* committed: the property SuccessNeedsWork of the run jobqueue_slow.
THEOREM SuccessIsEarned == Spec => []SuccessNeedsWork
<1>1. Inv => SuccessNeedsWork
  BY DEF Inv
<1> QED
  BY <1>1, Invariance, PTL

--------------------------------------------------------------------------------
(* Capacity and the dead-letter state *)

\* What a worker has in flight and what it is about to ask for fit its slots.
Fits ==
  \A w \in Workers :
    /\ Cardinality(InFlight(w)) <= Concurrency
    /\ tick[w] > 0 => Cardinality(InFlight(w)) + tick[w] <= Concurrency

LEMMA SizeOfUnion ==
  ASSUME NEW S, NEW T, IsFiniteSet(S), IsFiniteSet(T)
  PROVE  Cardinality(S \cup T) \in Nat /\ Cardinality(S \cup T) <= Cardinality(S) + Cardinality(T)
<1>1. IsFiniteSet(S \cup T) /\ IsFiniteSet(S \cap T)
  BY FS_Union, FS_Subset
<1>2. Cardinality(S \cup T) = Cardinality(S) + Cardinality(T) - Cardinality(S \cap T)
  BY FS_Union
<1>3. /\ Cardinality(S) \in Nat /\ Cardinality(T) \in Nat
      /\ Cardinality(S \cup T) \in Nat /\ Cardinality(S \cap T) \in Nat
  BY <1>1, FS_CardinalityType
<1> QED
  BY <1>2, <1>3

LEMMA SizeOfReplacement ==
  ASSUME NEW S, IsFiniteSet(S), NEW e \in S, NEW d
  PROVE  /\ Cardinality((S \ {e}) \cup {d}) \in Nat
         /\ Cardinality((S \ {e}) \cup {d}) <= Cardinality(S)
<1> DEFINE R == S \ {e}
<1>1. IsFiniteSet(R) /\ Cardinality(R) = Cardinality(S) - 1
  BY FS_RemoveElement
<1>2. Cardinality(S) \in Nat /\ Cardinality(R) \in Nat
  BY <1>1, FS_CardinalityType
<1> HIDE DEF R
<1>3. Cardinality(R \cup {d}) = IF d \in R THEN Cardinality(R) ELSE Cardinality(R) + 1
  BY <1>1, FS_AddElement
<1>4. Cardinality(R \cup {d}) \in Nat /\ Cardinality(R \cup {d}) <= Cardinality(S)
  BY <1>1, <1>2, <1>3
<1> QED
  BY <1>4 DEF R

\* A step that starts no execution and no tick.
LEMMA FewerInFlight ==
  ASSUME Inv, Fits, TypeOK',
         \A w \in Workers : InFlight(w)' \subseteq InFlight(w) /\ tick'[w] \in {0, tick[w]}
  PROVE  Fits'
<1>1. ASSUME NEW w \in Workers
      PROVE  /\ Cardinality(InFlight(w)) \in Nat /\ Cardinality(InFlight(w)') \in Nat
             /\ Cardinality(InFlight(w)') <= Cardinality(InFlight(w))
  <2>1. IsFiniteSet(InFlight(w)) /\ Cardinality(InFlight(w)) \in Nat
    BY InFlightFinite DEF Inv
  <2> QED
    BY <2>1, FS_Subset, FS_CardinalityType
<1>2. Concurrency \in Nat
  BY QueueAssumption
<1> QED
  BY <1>1, <1>2 DEF Fits, Inv, TypeOK

LEMMA FitsStep == Inv /\ Inv' /\ Fits /\ [Next]_vars => Fits'
<1> SUFFICES ASSUME Inv, Inv', Fits, [Next]_vars PROVE Fits'
  OBVIOUS
<1> USE DEF jobVars, workerVars
<1>0. TypeOK /\ TypeOK' /\ IsFiniteSet(execs) /\ IsFiniteSet(execs')
  BY DEF Inv
<1>1. CASE UNCHANGED <<execs, tick>>
  BY <1>0, <1>1, FewerInFlight DEF InFlight
<1>2. ASSUME NEW w \in Workers, ReadCapacity(w) PROVE Fits'
  <2>1. Cardinality(InFlight(w)) \in Nat /\ Concurrency \in Nat
    BY <1>0, InFlightFinite, QueueAssumption
  <2>2. \A v \in Workers : InFlight(v)' = InFlight(v)
    BY <1>2 DEF ReadCapacity, InFlight
  <2>3. \A v \in Workers : tick'[v] = IF v = w THEN Concurrency - Cardinality(InFlight(w)) ELSE tick[v]
    BY <1>0, <1>2 DEF ReadCapacity, TypeOK
  <2> QED
    BY <1>2, <2>1, <2>2, <2>3 DEF Fits, ReadCapacity
<1>3. ASSUME NEW w \in Workers, ClaimJobs(w) PROVE Fits'
  <2>1. PICK S \in Batches(tick[w]) : execs' = execs \cup {Claimed(j, w) : j \in S}
    BY <1>3 DEF ClaimJobs
  <2>2. S \in SUBSET Jobs /\ IsFiniteSet(S) /\ Cardinality(S) <= tick[w] /\ tick[w] \in Nat
    <3>1. S \in SUBSET Jobs /\ tick[w] \in Nat
      BY <1>0, QueueAssumption DEF Batches, Pending, TypeOK
    <3>2. IsFiniteSet(S) /\ Cardinality(S) \in Nat
      BY <3>1, FS_Subset, FS_CardinalityType, QueueAssumption
    <3> QED
      BY <3>1, <3>2 DEF Batches
  <2> DEFINE T == {Claimed(j, w) : j \in S}
  <2>3. IsFiniteSet(T) /\ Cardinality(T) <= Cardinality(S)
    <3> DEFINE f == [j \in S |-> Claimed(j, w)]
    <3>1. f \in Surjection(S, T)
      BY DEF Surjection
    <3> QED
      BY <2>2, <3>1, FS_Surjection
  <2>4. InFlight(w)' = InFlight(w) \cup T
    BY <2>1 DEF InFlight, Claimed
  <2>5. \A v \in Workers : v # w => InFlight(v)' = InFlight(v)
    BY <2>1 DEF InFlight, Claimed
  <2>6. IsFiniteSet(InFlight(w)) /\ Cardinality(InFlight(w)) \in Nat
    BY <1>0, InFlightFinite
  <2> HIDE DEF T
  <2>7. /\ Cardinality(InFlight(w) \cup T) \in Nat
        /\ Cardinality(InFlight(w) \cup T) <= Cardinality(InFlight(w)) + Cardinality(T)
    BY <2>3, <2>6, SizeOfUnion
  <2>8. Cardinality(S) \in Nat /\ Cardinality(T) \in Nat /\ Concurrency \in Nat
    BY <2>2, <2>3, FS_CardinalityType, QueueAssumption
  <2>9. Cardinality(InFlight(w)') <= Concurrency
    BY <1>3, <2>2, <2>3, <2>4, <2>6, <2>7, <2>8 DEF Fits, ClaimJobs
  <2>10. \A v \in Workers : tick'[v] = IF v = w THEN 0 ELSE tick[v]
    BY <1>0, <1>3 DEF ClaimJobs, TypeOK
  <2> QED
    BY <2>5, <2>9, <2>10 DEF Fits
<1>4. ASSUME NEW w \in Workers, Exit(w) \/ Crash(w) PROVE Fits'
  <2>1. execs' \subseteq execs /\ tick' = [tick EXCEPT ![w] = 0]
    BY <1>4 DEF Exit, Crash, Gone
  <2>2. \A v \in Workers : InFlight(v)' \subseteq InFlight(v) /\ tick'[v] \in {0, tick[v]}
    BY <1>0, <2>1 DEF InFlight, TypeOK
  <2> QED
    BY <1>0, <2>2, FewerInFlight
<1>5. ASSUME NEW e \in execs, CompleteJob(e) \/ FailJob(e) PROVE Fits'
  <2>1. execs' \subseteq execs /\ tick' = tick
    BY <1>5 DEF CompleteJob, FailJob
  <2> QED
    BY <1>0, <2>1, FewerInFlight DEF InFlight
<1>6. ASSUME NEW e \in execs, HandlerCommits(e) \/ HandlerThrows(e) PROVE Fits'
  <2>1. PICK p \in Phase : execs' = (execs \ {e}) \cup {[e EXCEPT !.phase = p]}
    BY <1>6 DEF HandlerCommits, HandlerThrows, Phase
  <2> DEFINE d == [e EXCEPT !.phase = p]
  <2>2. e \in Execution /\ d.worker = e.worker /\ tick' = tick
    BY <1>0, <1>6 DEF TypeOK, Execution, HandlerCommits, HandlerThrows
  <2> HIDE DEF d
  <2>3. execs' = (execs \ {e}) \cup {d}
    BY <2>1 DEF d
  <2>4. ASSUME NEW w \in Workers
        PROVE  Cardinality(InFlight(w)') <= Cardinality(InFlight(w))
               /\ Cardinality(InFlight(w)') \in Nat /\ Cardinality(InFlight(w)) \in Nat
    <3>1. IsFiniteSet(InFlight(w)) /\ Cardinality(InFlight(w)) \in Nat
      BY <1>0, InFlightFinite
    <3>2. CASE w # e.worker
      <4>1. InFlight(w)' = InFlight(w)
        BY <2>2, <2>3, <3>2 DEF InFlight
      <4>2. Cardinality(InFlight(w)') = Cardinality(InFlight(w))
        BY <4>1
      <4> QED
        BY <3>1, <4>2
    <3>3. CASE w = e.worker
      <4>1. InFlight(w)' = (InFlight(w) \ {e}) \cup {d} /\ e \in InFlight(w)
        BY <2>2, <2>3, <3>3 DEF InFlight
      <4>2. /\ Cardinality((InFlight(w) \ {e}) \cup {d}) \in Nat
            /\ Cardinality((InFlight(w) \ {e}) \cup {d}) <= Cardinality(InFlight(w))
        BY <3>1, <4>1, SizeOfReplacement
      <4> QED
        BY <3>1, <4>1, <4>2
    <3> QED
      BY <3>2, <3>3
  <2>5. Concurrency \in Nat
    BY QueueAssumption
  <2> QED
    BY <1>0, <2>2, <2>4, <2>5 DEF Fits, TypeOK
<1>7. ASSUME NEW e \in execs, Execute(e) PROVE Fits'
  BY <1>5, <1>6, <1>7 DEF Execute
<1>8. ASSUME \/ \E j \in Jobs : Enqueue(j) \/ RetryDeadJob(j)
             \/ \E S \in SUBSET Jobs \ {{}} : ReapStaleJobs(S)
             \/ \E w \in Workers : Start(w) \/ Stop(w)
             \/ UNCHANGED vars
      PROVE  Fits'
  BY <1>1, <1>8 DEF Enqueue, RetryDeadJob, ReapStaleJobs, Start, Stop, vars
<1> QED
  BY <1>2, <1>3, <1>4, <1>7, <1>8 DEF Next

\* No worker ever has more executions in flight than its concurrency, although
\* tick reads the capacity before it awaits the claim (runner.ts:89-101).
THEOREM CapacityIsRespected == Spec => []CapacityRespected
<1>1. Init => Fits
  <2> SUFFICES ASSUME Init PROVE Fits
    OBVIOUS
  <2>1. \A w \in Workers : InFlight(w) = {} /\ tick[w] = 0
    BY DEF Init, InFlight
  <2> QED
    BY <2>1, FS_EmptySet, QueueAssumption DEF Fits
<1>2. Fits => CapacityRespected
  BY DEF Fits, CapacityRespected
<1> QED
  BY <1>1, <1>2, FitsStep, Invariance, PTL DEF Spec

\* While no handler outlives the cutoff, the copy an execution decides on has the
\* attempts of the row.
OwnAttempts == \A e \in execs : attempts[e.job] = e.attempts

LEMMA DeservedStep ==
  ASSUME ~ SlowHandlers
  PROVE  Inv /\ OwnAttempts /\ DeadIsDeserved /\ [Next]_vars => OwnAttempts' /\ DeadIsDeserved'
<1> SUFFICES ASSUME Inv, OwnAttempts, DeadIsDeserved, [Next]_vars
             PROVE  OwnAttempts' /\ DeadIsDeserved'
  OBVIOUS
<1> USE DEF jobVars, workerVars
<1>0. TypeOK /\ LeaseExclusive /\ \A e \in execs : e \in Execution /\ e.job \in Jobs /\ status[e.job] = "running"
  BY DEF Inv, LockHeld, TypeOK, Execution
<1>1. ASSUME NEW j \in Jobs, Enqueue(j) \/ RetryDeadJob(j) PROVE OwnAttempts' /\ DeadIsDeserved'
  BY <1>0, <1>1 DEF Enqueue, RetryDeadJob, OwnAttempts, DeadIsDeserved, TypeOK
<1>2. ASSUME NEW S \in SUBSET Jobs, ReapStaleJobs(S) PROVE OwnAttempts' /\ DeadIsDeserved'
  BY <1>0, <1>2 DEF ReapStaleJobs, OwnAttempts, DeadIsDeserved, TypeOK
<1>3. ASSUME NEW w \in Workers, ClaimJobs(w) PROVE OwnAttempts' /\ DeadIsDeserved'
  <2>1. PICK S \in Batches(tick[w]) :
          /\ status' = [j \in Jobs |-> IF j \in S THEN "running" ELSE status[j]]
          /\ attempts' = [j \in Jobs |-> IF j \in S THEN attempts[j] + 1 ELSE attempts[j]]
          /\ execs' = execs \cup {Claimed(j, w) : j \in S}
    BY <1>3 DEF ClaimJobs
  <2>2. S \subseteq Jobs /\ \A j \in S : status[j] = "pending"
    BY <2>1 DEF Batches, Pending
  <2>3. OwnAttempts'
    BY <1>0, <2>1, <2>2 DEF OwnAttempts, Claimed
  <2>4. DeadIsDeserved'
    BY <1>0, <1>3, <2>1, <2>2 DEF DeadIsDeserved, ClaimJobs, TypeOK
  <2> QED
    BY <2>3, <2>4
<1>4. ASSUME NEW w \in Workers, Start(w) \/ Stop(w) \/ ReadCapacity(w) \/ Exit(w) \/ Crash(w)
      PROVE  OwnAttempts' /\ DeadIsDeserved'
  <2>1. execs' \subseteq execs /\ UNCHANGED jobVars
    BY <1>4 DEF Start, Stop, ReadCapacity, Exit, Crash, Gone
  <2> QED
    BY <2>1 DEF OwnAttempts, DeadIsDeserved
<1>5. ASSUME NEW e \in execs, HandlerCommits(e) \/ HandlerThrows(e) PROVE OwnAttempts' /\ DeadIsDeserved'
  <2>1. PICK p \in Phase : execs' = (execs \ {e}) \cup {[e EXCEPT !.phase = p]}
    BY <1>5 DEF HandlerCommits, HandlerThrows, Phase
  <2>2. [e EXCEPT !.phase = p].job = e.job /\ [e EXCEPT !.phase = p].attempts = e.attempts
    BY <1>0 DEF Execution
  <2>3. UNCHANGED jobVars
    BY <1>5 DEF HandlerCommits, HandlerThrows
  <2> QED
    BY <2>1, <2>2, <2>3 DEF OwnAttempts, DeadIsDeserved
<1>6. ASSUME NEW e \in execs, CompleteJob(e) \/ FailJob(e) PROVE OwnAttempts' /\ DeadIsDeserved'
  <2>1. OwnAttempts'
    BY <1>6 DEF OwnAttempts, CompleteJob, FailJob
  <2>2. e.attempts \in Nat /\ e.attempts = attempts[e.job] /\ MaxAttempts \in Nat
    BY <1>0, QueueAssumption DEF OwnAttempts, Execution
  <2>3. DeadIsDeserved'
    BY <1>0, <1>6, <2>2 DEF DeadIsDeserved, CompleteJob, FailJob, CanRetry, TypeOK
  <2> QED
    BY <2>1, <2>3
<1>7. CASE UNCHANGED vars
  BY <1>7 DEF vars, OwnAttempts, DeadIsDeserved
<1> QED
  BY <1>1, <1>2, <1>3, <1>4, <1>5, <1>6, <1>7 DEF Next, Execute

\* While no handler outlives the cutoff, a job in the dead-letter state used up
\* its attempts or failed for good (jobs.ts, failJob).
THEOREM DeadForAReason == ASSUME ~ SlowHandlers PROVE Spec => []DeadIsDeserved
<1>1. Init => OwnAttempts /\ DeadIsDeserved
  BY DEF Init, OwnAttempts, DeadIsDeserved
<1> QED
  BY <1>1, DeservedStep, Invariance, PTL DEF Spec

--------------------------------------------------------------------------------
\* What the contract sees of one job, and when it sees no change.
LEMMA StateOfJob ==
  ASSUME TypeOK, NEW j \in Jobs
  PROVE  /\ status[j] = "absent" => ContractState[j] = "absent"
         /\ status[j] \in {"pending", "running"} => ContractState[j] = "open"
         /\ status[j] = "succeeded" => ContractState[j] = "done"
         /\ status[j] = "dead" => ContractState[j] = "buried"
BY DEF ContractState, TypeOK, JobStatus

LEMMA SameState ==
  ASSUME TypeOK, TypeOK',
         \A j \in Jobs : \/ status'[j] = status[j]
                         \/ {status[j], status'[j]} \subseteq {"pending", "running"}
  PROVE  ContractState' = ContractState
BY DEF ContractState, TypeOK, JobStatus

\* A change of one row's status is the contract's change of one job.
LEMMA OneJob ==
  ASSUME TypeOK, NEW j \in Jobs, NEW v \in JobStatus \ {"absent", "running"},
         status' = [status EXCEPT ![j] = v]
  PROVE  ContractState' = [ContractState EXCEPT ![j] =
           CASE v = "pending" -> "open" [] v = "succeeded" -> "done" [] v = "dead" -> "buried"]
BY DEF ContractState, TypeOK, JobStatus

LEMMA StepImplements ==
  ASSUME ~ SlowHandlers, Inv, Inv', [Next]_vars
  PROVE  [Contract!Next]_(Contract!vars)
<1> USE DEF jobVars, workerVars, Contract!vars
<1>1. TypeOK /\ TypeOK'
  BY DEF Inv
<1>2. ASSUME NEW j \in Jobs, Enqueue(j) PROVE Contract!Next
  <2>1. Contract!Submit(j)
    BY <1>1, <1>2, StateOfJob, OneJob DEF Enqueue, Contract!Submit, JobStatus
  <2> QED
    BY <2>1 DEF Contract!Next
<1>3. ASSUME NEW j \in Jobs, RetryDeadJob(j) PROVE Contract!Next
  <2>1. Contract!Reopen(j)
    BY <1>1, <1>3, StateOfJob, OneJob DEF RetryDeadJob, Contract!Reopen, JobStatus
  <2> QED
    BY <2>1 DEF Contract!Next
<1>4. ASSUME NEW S \in SUBSET Jobs, ReapStaleJobs(S) PROVE UNCHANGED Contract!vars
  <2>1. ContractState' = ContractState
    BY <1>1, <1>4, SameState DEF ReapStaleJobs, TypeOK
  <2> QED
    BY <1>4, <2>1 DEF ReapStaleJobs
<1>5. ASSUME NEW w \in Workers, ClaimJobs(w) PROVE UNCHANGED Contract!vars
  <2>1. \A j \in Jobs : \/ status'[j] = status[j]
                        \/ {status[j], status'[j]} \subseteq {"pending", "running"}
    BY <1>1, <1>5 DEF ClaimJobs, Batches, Pending, TypeOK
  <2>2. ContractState' = ContractState
    BY <1>1, <2>1, SameState
  <2> QED
    BY <1>5, <2>2 DEF ClaimJobs
<1>6. ASSUME NEW e \in execs, HandlerCommits(e) PROVE Contract!Next
  <2>1. e.job \in Jobs /\ status[e.job] = "running"
    BY <1>1 DEF Inv, LockHeld, TypeOK, Execution
  <2>2. ContractState' = ContractState
    BY <1>1, <1>6, SameState DEF HandlerCommits
  <2>3. Contract!Work(e.job)
    BY <1>1, <1>6, <2>1, <2>2, StateOfJob DEF HandlerCommits, Contract!Work
  <2> QED
    BY <2>1, <2>3 DEF Contract!Next
<1>7. ASSUME NEW e \in execs, CompleteJob(e) PROVE Contract!Next
  <2>1. e.job \in Jobs /\ status[e.job] = "running" /\ effects[e.job] > 0
    BY <1>1, <1>7 DEF CompleteJob, Inv, LockHeld, CommittedWorked, TypeOK, Execution
  <2>2. Contract!Finish(e.job)
    BY <1>1, <1>7, <2>1, StateOfJob, OneJob DEF CompleteJob, Contract!Finish, JobStatus
  <2> QED
    BY <2>1, <2>2 DEF Contract!Next
<1>8. ASSUME NEW e \in execs, FailJob(e) PROVE [Contract!Next]_(Contract!vars)
  <2>1. e.job \in Jobs /\ status[e.job] = "running"
    BY <1>1 DEF Inv, LockHeld, TypeOK, Execution
  <2>2. CASE CanRetry(e)
    <3>1. ContractState' = ContractState
      BY <1>1, <1>8, <2>1, <2>2, SameState DEF FailJob, TypeOK
    <3> QED
      BY <1>8, <3>1 DEF FailJob
  <2>3. CASE ~ CanRetry(e)
    <3>1. Contract!Bury(e.job)
      BY <1>1, <1>8, <2>1, <2>3, StateOfJob, OneJob DEF FailJob, Contract!Bury, JobStatus
    <3> QED
      BY <2>1, <3>1 DEF Contract!Next
  <2> QED
    BY <2>2, <2>3
<1>9. ASSUME UNCHANGED <<status, effects>> PROVE UNCHANGED Contract!vars
  BY <1>1, <1>9, SameState
<1>10. ASSUME NEW w \in Workers,
              Start(w) \/ ReadCapacity(w) \/ Stop(w) \/ Exit(w) \/ Crash(w)
       PROVE  UNCHANGED Contract!vars
  BY <1>9, <1>10 DEF Start, ReadCapacity, Stop, Exit, Crash, Gone
<1>11. ASSUME NEW e \in execs, HandlerThrows(e) PROVE UNCHANGED Contract!vars
  BY <1>9, <1>11 DEF HandlerThrows
<1>12. CASE UNCHANGED vars
  BY <1>9, <1>12 DEF vars
<1> QED
  BY <1>2, <1>3, <1>4, <1>5, <1>6, <1>7, <1>8, <1>10, <1>11, <1>12 DEF Next, Execute

\* While no handler outlives the reaper's cutoff, the queue with its workers,
\* locks, crashes and shutdowns implements JobContract: done is final, follows
\* the work, and only an administrator reopens a dead job.
THEOREM QueueImplementsContract == ASSUME ~ SlowHandlers PROVE Spec => ContractSpec
<1>1. Init => Contract!Init
  BY DEF Init, Contract!Init, ContractState
<1>2. Inv /\ Inv' /\ [Next]_vars => [Contract!Next]_(Contract!vars)
  BY StepImplements
<1> QED
  BY <1>1, <1>2, Invariance, PTL DEF Spec, ContractSpec, Contract!Spec

--------------------------------------------------------------------------------
(* The outbox *)

\* A relay's transaction works on committed rows that are not published.
HeldLive == \A r \in Relays : \A e \in Held(r) : row[e] = "live"

\* A relay holds rows only inside a transaction.
HeldInside == \A r \in Relays : ~ open[r] => Held(r) = {}

OutboxInv == OutboxTypeOK /\ HeldLive /\ HeldInside /\ RelaysDisjoint /\ JobsIffPublished

--------------------------------------------------------------------------------
LEMMA JobsOfType == ASSUME NEW E \in SUBSET Events PROVE JobsOf(E) \subseteq JobsOf(Events)
BY DEF JobsOf

\* Each job belongs to one event.
LEMMA JobsOfOne ==
  ASSUME NEW E \in SUBSET Events, NEW e \in Events
  PROVE  /\ e \in E => JobsOf({e}) \subseteq JobsOf(E)
         /\ e \notin E => JobsOf({e}) \cap JobsOf(E) = {}
BY DEF JobsOf

LEMMA HeldType == ASSUME OutboxTypeOK, NEW r \in Relays PROVE Held(r) \subseteq Events
BY DEF OutboxTypeOK, Held

LEMMA OutboxInitInv == OutboxInit => OutboxInv
BY OutboxAssumption
   DEF OutboxInit, OutboxInv, OutboxTypeOK, HeldLive, HeldInside, RelaysDisjoint, Held, JobsIffPublished, JobsOf

\* A step that neither takes rows, nor publishes, nor undoes a commit.
LEMMA HeldShrinks ==
  ASSUME OutboxInv, OutboxTypeOK', UNCHANGED queued,
         \A r \in Relays : Held(r)' \subseteq Held(r) /\ open'[r] = open[r],
         \A e \in Events : row'[e] = row[e] \/ (row[e] \in {"none", "open"} /\ row'[e] # "published")
  PROVE  OutboxInv'
<1>1. HeldLive'
  <2> SUFFICES ASSUME NEW r \in Relays, NEW e \in Held(r)' PROVE row'[e] = "live"
    BY DEF HeldLive
  <2>1. e \in Events /\ row[e] = "live"
    BY HeldType DEF OutboxInv, HeldLive
  <2> QED
    BY <2>1
<1>2. HeldInside' /\ RelaysDisjoint'
  BY DEF OutboxInv, HeldInside, RelaysDisjoint
<1>3. JobsIffPublished'
  BY DEF OutboxInv, JobsIffPublished, JobsOf
<1> QED
  BY <1>1, <1>2, <1>3 DEF OutboxInv

LEMMA OutboxNextInv == OutboxInv /\ [OutboxNext]_outboxVars => OutboxInv'
<1> SUFFICES ASSUME OutboxInv, [OutboxNext]_outboxVars PROVE OutboxInv'
  OBVIOUS
<1> USE DEF relayVars
<1>1. OutboxTypeOK
  BY DEF OutboxInv
<1>2. ASSUME NEW e \in Events, AppendOutbox(e) \/ EndBusiness(e) PROVE OutboxInv'
  <2>1. OutboxTypeOK'
    BY <1>1, <1>2 DEF AppendOutbox, EndBusiness, OutboxTypeOK
  <2>2. \A f \in Events : row'[f] = row[f] \/ (row[f] \in {"none", "open"} /\ row'[f] # "published")
    BY <1>1, <1>2 DEF AppendOutbox, EndBusiness, OutboxTypeOK
  <2> QED
    BY <1>2, <2>1, <2>2, HeldShrinks DEF AppendOutbox, EndBusiness, Held
<1>3. ASSUME NEW e \in Events, RequeueOutboxEvent(e) PROVE OutboxInv'
  <2>1. OutboxTypeOK'
    BY <1>1, <1>3, OutboxAssumption DEF RequeueOutboxEvent, OutboxTypeOK
  <2> QED
    BY <1>3, <2>1, HeldShrinks DEF RequeueOutboxEvent, Held
<1>4. ASSUME NEW r \in Relays, ClaimBatch(r) PROVE OutboxInv'
  <2> DEFINE B == First(Claimable, BatchSize)
  <2>1. B \subseteq Events /\ \A e \in B : row[e] = "live" /\ e \notin Locked
    BY DEF First, Claimable
  <2> HIDE DEF B
  <2>2. batch' = [batch EXCEPT ![r] = B] /\ open' = [open EXCEPT ![r] = TRUE]
        /\ UNCHANGED <<row, tries, queued, routed, failed, aborts, requeues>> /\ ~ open[r]
    BY <1>4 DEF ClaimBatch, B
  <2>3. OutboxTypeOK'
    BY <1>1, <2>1, <2>2 DEF OutboxTypeOK
  <2>4. Held(r)' = B /\ \A s \in Relays \ {r} : Held(s)' = Held(s)
    BY <1>1, <2>2 DEF Held, HeldInside, OutboxInv, OutboxTypeOK
  <2>5. HeldLive'
    BY <2>1, <2>2, <2>4 DEF OutboxInv, HeldLive
  <2>6. HeldInside'
    BY <1>1, <2>2, <2>4 DEF OutboxInv, HeldInside, OutboxTypeOK
  <2>7. \A s \in Relays : B \cap Held(s) = {}
    BY <2>1 DEF Locked
  <2>8. RelaysDisjoint'
    BY <2>4, <2>7 DEF OutboxInv, RelaysDisjoint
  <2>9. JobsIffPublished'
    BY <2>2 DEF OutboxInv, JobsIffPublished, JobsOf
  <2> QED
    BY <2>3, <2>5, <2>6, <2>8, <2>9 DEF OutboxInv
<1>5. ASSUME NEW r \in Relays, RouteEvent(r) PROVE OutboxInv'
  <2>1. PICK e \in batch[r] :
          /\ batch' = [batch EXCEPT ![r] = @ \ {e}]
          /\ \/ routed' = [routed EXCEPT ![r] = @ \cup {e}] /\ UNCHANGED failed
             \/ failed' = [failed EXCEPT ![r] = @ \cup {e}] /\ UNCHANGED routed
          /\ UNCHANGED <<row, tries, queued, open, aborts, requeues>>
    BY <1>5 DEF RouteEvent
  <2>2. OutboxTypeOK'
    BY <1>1, <2>1 DEF OutboxTypeOK
  <2>3. \A s \in Relays : Held(s)' \subseteq Held(s)
    BY <1>1, <2>1 DEF Held, OutboxTypeOK
  <2> QED
    BY <2>1, <2>2, <2>3, HeldShrinks
<1>6. ASSUME NEW r \in Relays, Release(r)
      PROVE  /\ Held(r)' = {} /\ \A s \in Relays \ {r} : Held(s)' = Held(s)
             /\ batch' \in [Relays -> SUBSET Events] /\ routed' \in [Relays -> SUBSET Events]
             /\ failed' \in [Relays -> SUBSET Events] /\ open' \in [Relays -> BOOLEAN]
             /\ \A s \in Relays : ~ open[s] => ~ open'[s]
             /\ \A s \in Relays \ {r} : open'[s] = open[s]
  BY <1>1, <1>6 DEF Release, Held, OutboxTypeOK
<1>7. ASSUME NEW r \in Relays, AbortRelay(r) PROVE OutboxInv'
  <2>1. OutboxTypeOK'
    BY <1>1, <1>6, <1>7, OutboxAssumption DEF AbortRelay, OutboxTypeOK
  <2>2. HeldLive' /\ HeldInside' /\ RelaysDisjoint'
    BY <1>6, <1>7 DEF AbortRelay, OutboxInv, HeldLive, HeldInside, RelaysDisjoint
  <2>3. JobsIffPublished'
    BY <1>7 DEF AbortRelay, OutboxInv, JobsIffPublished, JobsOf
  <2> QED
    BY <2>1, <2>2, <2>3 DEF OutboxInv
<1>8. ASSUME NEW r \in Relays, CommitRelay(r) PROVE OutboxInv'
  <2> DEFINE R == routed[r]
  <2>1. R \subseteq Held(r) /\ R \subseteq Events
    BY <1>1 DEF Held, OutboxTypeOK
  <2>2. /\ row' = [e \in Events |-> IF e \in R THEN "published" ELSE row[e]]
        /\ queued' = queued \cup JobsOf(R)
        /\ Release(r)
    BY <1>8 DEF CommitRelay
  <2> HIDE DEF R
  <2>3. OutboxTypeOK'
    <3>1. queued' \subseteq JobsOf(Events)
      BY <1>1, <2>1, <2>2, JobsOfType DEF OutboxTypeOK, JobsOf
    <3> QED
      BY <1>1, <1>6, <1>8, <2>2, <3>1 DEF CommitRelay, OutboxTypeOK, JobsOf
  <2>4. HeldLive'
    <3> SUFFICES ASSUME NEW s \in Relays, NEW e \in Held(s)' PROVE row'[e] = "live"
      BY DEF HeldLive
    <3>1. s # r /\ e \in Held(s)
      BY <1>6, <2>2
    <3>2. e \notin R /\ e \in Events /\ row[e] = "live"
      BY <1>1, <2>1, <3>1, HeldType DEF OutboxInv, RelaysDisjoint, HeldLive
    <3> QED
      BY <2>2, <3>2
  <2>5. HeldInside' /\ RelaysDisjoint'
    BY <1>6, <2>2 DEF OutboxInv, HeldInside, RelaysDisjoint
  <2>6. JobsIffPublished'
    <3> SUFFICES ASSUME NEW e \in Events
                 PROVE  IF row'[e] = "published" THEN JobsOf({e}) \subseteq queued'
                                                 ELSE JobsOf({e}) \cap queued' = {}
      BY DEF JobsIffPublished, JobsOf
    <3>1. CASE e \in R
      BY <2>1, <2>2, <3>1, JobsOfOne
    <3>2. CASE e \notin R
      <4>1. row'[e] = row[e] /\ JobsOf({e}) \cap JobsOf(R) = {}
        BY <2>1, <2>2, <3>2, JobsOfOne
      <4>2. IF row[e] = "published" THEN JobsOf({e}) \subseteq queued
                                    ELSE JobsOf({e}) \cap queued = {}
        BY DEF OutboxInv, JobsIffPublished
      <4> QED
        BY <2>2, <4>1, <4>2
    <3> QED
      BY <3>1, <3>2
  <2> QED
    BY <2>3, <2>4, <2>5, <2>6 DEF OutboxInv
<1>9. CASE UNCHANGED outboxVars
  BY <1>1, <1>9, HeldShrinks DEF outboxVars, OutboxTypeOK, Held
<1> QED
  BY <1>2, <1>3, <1>4, <1>5, <1>7, <1>8, <1>9 DEF OutboxNext

THEOREM OutboxInvariance == OutboxSpec => []OutboxInv
BY OutboxInitInv, OutboxNextInv, PTL DEF OutboxSpec

\* Every variable of the outbox keeps its type.
THEOREM OutboxTypes == OutboxSpec => []OutboxTypeOK
<1>1. OutboxInv => OutboxTypeOK
  BY DEF OutboxInv
<1> QED
  BY <1>1, OutboxInvariance, PTL

\* A job exists if and only if the change committed and its event was published,
\* for any number of relays and any order of commits, aborts and failures.
THEOREM JobIffCommitted == OutboxSpec => []JobsIffPublished
<1>1. OutboxInv => JobsIffPublished
  BY DEF OutboxInv
<1> QED
  BY <1>1, OutboxInvariance, PTL

\* No two relays ever hold the same event.
THEOREM RelaysNeverShare == OutboxSpec => []RelaysDisjoint
<1>1. OutboxInv => RelaysDisjoint
  BY DEF OutboxInv
<1> QED
  BY <1>1, OutboxInvariance, PTL

--------------------------------------------------------------------------------
(* The outbox and the queue together *)

\* A job is known to the queue from the commit of the relay that published its
\* event, and its handler has worked only if the queue knows it.
InStep ==
  /\ state \in [JobsOf(Events) -> {"absent", "open", "done", "buried"}]
  /\ handled \in [JobsOf(Events) -> Nat]
  /\ \A k \in JobsOf(Events) : state[k] = "absent" <=> k \notin queued
  /\ \A k \in JobsOf(Events) : handled[k] > 0 => k \in queued

LEMMA RelayInStep ==
  ASSUME OutboxInv, OutboxInv', InStep, Relay
  PROVE  InStep'
<1>1. queued \subseteq queued'
  BY DEF Relay, OutboxNext, AppendOutbox, EndBusiness, RequeueOutboxEvent, ClaimBatch, RouteEvent,
     CommitRelay, AbortRelay
<1>2. state' = [k \in JobsOf(Events) |-> IF k \in queued' \ queued THEN "open" ELSE state[k]]
      /\ handled' = handled
  BY DEF Relay
<1>3. ASSUME NEW k \in JobsOf(Events)
      PROVE  /\ state'[k] \in {"absent", "open", "done", "buried"}
             /\ state'[k] = "absent" <=> k \notin queued'
             /\ handled'[k] > 0 => k \in queued'
  BY <1>1, <1>2 DEF InStep
<1> QED
  BY <1>2, <1>3 DEF InStep

LEMMA QueueInStep ==
  ASSUME InStep, NEW k \in JobsOf(Events), Run(k) \/ Reopen(k)
  PROVE  InStep'
<1>1. UNCHANGED queued
  BY DEF Run, Reopen, outboxVars
<1>2. CASE Queue!Work(k)
  BY <1>1, <1>2 DEF InStep, Queue!Work
<1>3. CASE Queue!Finish(k) \/ Queue!Bury(k) \/ Queue!Reopen(k)
  BY <1>1, <1>3 DEF InStep, Queue!Finish, Queue!Bury, Queue!Reopen
<1> QED
  BY <1>2, <1>3 DEF Run, Reopen

LEMMA DeliveryInvariance == DeliverySpec => [](OutboxInv /\ InStep)
<1>1. DeliveryInit => OutboxInv /\ InStep
  <2> SUFFICES ASSUME DeliveryInit PROVE InStep
    BY OutboxInitInv DEF DeliveryInit
  <2> QED
    BY DEF DeliveryInit, OutboxInit, Queue!Init, InStep
<1>2. OutboxInv /\ InStep /\ [DeliveryNext]_deliveryVars => (OutboxInv /\ InStep)'
  <2> SUFFICES ASSUME OutboxInv, InStep, [DeliveryNext]_deliveryVars PROVE OutboxInv' /\ InStep'
    OBVIOUS
  <2>1. [OutboxNext]_outboxVars
    BY DEF DeliveryNext, Relay, Run, Reopen, deliveryVars
  <2>2. OutboxInv'
    BY <2>1, OutboxNextInv
  <2>3. CASE UNCHANGED deliveryVars
    <3>1. row' = row /\ queued' = queued /\ state' = state /\ handled' = handled
      BY <2>3 DEF deliveryVars, outboxVars
    <3> QED
      BY <2>2, <3>1 DEF InStep
  <2> QED
    BY <2>2, <2>3, RelayInStep, QueueInStep DEF DeliveryNext
<1> QED
  BY <1>1, <1>2, PTL DEF DeliverySpec

\* The composition with the queue changes nothing of the outbox: events have
\* their jobs exactly when they are published (jobs.ts, the transactional outbox).
THEOREM JobIffCommittedInDelivery == DeliverySpec => []JobsIffPublished
<1>1. OutboxInv => JobsIffPublished
  BY DEF OutboxInv
<1> QED
  BY <1>1, DeliveryInvariance, PTL

\* No handler ever works for an event whose business transaction was rolled back
\* or is still open, nor before the relay's transaction has committed.
THEOREM EffectsNeedPublication ==
  DeliverySpec => [](\A e \in Events : \A k \in JobsOf({e}) : handled[k] > 0 => row[e] = "published")
<1>1. ASSUME OutboxInv, InStep, NEW e \in Events, NEW k \in JobsOf({e}), handled[k] > 0
      PROVE  row[e] = "published"
  <2>1. k \in JobsOf(Events)
    BY JobsOfType
  <2>2. k \in queued
    BY <1>1, <2>1 DEF InStep
  <2> QED
    BY <1>1, <2>2 DEF OutboxInv, JobsIffPublished
<1>2. OutboxInv /\ InStep
        => \A e \in Events : \A k \in JobsOf({e}) : handled[k] > 0 => row[e] = "published"
  BY <1>1
<1> QED
  BY <1>2, DeliveryInvariance, PTL

================================================================================
