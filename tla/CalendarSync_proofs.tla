-------------------------- MODULE CalendarSync_proofs --------------------------
(***************************************************************************)
(* Proofs about CalendarSync, for any workers, times, request ids and bound *)
(* on disturbances.  OneId: the only request id an event is ever derived    *)
(* from is that of the booking, because a worker that knows of no event     *)
(* keeps it.  Undisturbed: while no change overtakes a job, every worker    *)
(* works for the appointment as it is, so what it was answered, and what it *)
(* records, is right.  PushInv: while nothing crosses a push, what it holds *)
(* of the event is the event as it is.                                      *)
(***************************************************************************)
EXTENDS CalendarSync, TLAPS

First(q) == q \in {None, FirstRequest}
Exists == event[FirstRequest].state # "absent"

OneIdOf(w) ==
  /\ First(worker[w].event) /\ (worker[w].event # None => Exists)
  /\ worker[w].step = "started" => worker[w].delete
  /\ worker[w].event = None /\ ~worker[w].delete /\ worker[w].step \in {"loaded", "again"}
       => worker[w].request = FirstRequest
  /\ worker[w].step = "answered" /\ ~worker[w].delete => worker[w].event # None
  /\ worker[w].step = "refused" => worker[w].event # None
  /\ worker[w].step \notin {"idle", "started"} => worker[w].request # None

OneId ==
  /\ First(sync.event) /\ (sync.event # None => Exists)
  /\ sync.event = None => sync.request = FirstRequest
  /\ \A q \in Requests : /\ event[q] # NoEvent => q = FirstRequest
                         /\ event[q].state = "absent" <=> event[q] = NoEvent
  /\ \A w \in Workers : OneIdOf(w)

\* The event as the appointment wants it, or no event that is alive.
Right == event[FirstRequest].state = "alive" /\ event[FirstRequest].time = appt.time
Gone == event[FirstRequest].state # "alive"

\* A worker that works for the appointment as it is.
Follows(w) ==
  worker[w].step # "idle" =>
    /\ worker[w].delete = ~appt.active
    /\ worker[w].step # "started" /\ ~worker[w].delete =>
         /\ worker[w].time = appt.time
         /\ worker[w].event = None => ~Exists \/ Right
    /\ worker[w].step = "answered" => IF worker[w].delete THEN Gone ELSE Right

\* What is recorded, and what is left to do.
Recorded ==
  /\ \A j \in jobs : j.kind = "cancel" => ~appt.active
  /\ appt.active => /\ event[FirstRequest].state # "deleted"
                    /\ sync.event = None => ~Exists \/ Right
                    /\ jobs # {} \/ (sync.event # None /\ Right)
  /\ ~appt.active => Gone \/ (sync.event # None /\ jobs # {})

Undisturbed == ~overtaken /\ ~edited => Recorded /\ \A w \in Workers : Follows(w)

Inv == TypeOK /\ OneId /\ Undisturbed

--------------------------------------------------------------------------------
(* Types *)

LEMMA TypesStart == Init => TypeOK
<1> SUFFICES ASSUME Init PROVE TypeOK
  OBVIOUS
<1>1. NoEvent \in Events
  BY DEF NoEvent, Events
<1>2. Idle \in WorkerRecords
  BY DEF Idle, WorkerRecords, Steps
<1>3. PushIdle \in PushRecords
  BY <1>1 DEF PushIdle, PushRecords
<1>4. jobs \subseteq Job /\ enqueued \in Nat
  BY DEF Init, Job
<1>5. appt \in [active : BOOLEAN, time : Times,
                status : {"pending", "synced", "failed", "conflict", "cancelled"}]
      /\ sync \in [event : Requests \cup {None}, etag : Nat, request : Requests]
  BY CalendarAssumption DEF Init
<1>6. disturbances \in 0..MaxDisturbances
  BY CalendarAssumption DEF Init
<1> QED
  BY <1>1, <1>2, <1>3, <1>4, <1>5, <1>6 DEF Init, TypeOK

\* A worker's record with another step is one.
LEMMA StepTypes ==
  ASSUME TypeOK, NEW w \in Workers, NEW s \in Steps
  PROVE  [worker EXCEPT ![w].step = s] \in [Workers -> WorkerRecords]
<1> worker[w] \in WorkerRecords
  BY DEF TypeOK
<1> [worker[w] EXCEPT !.step = s] \in WorkerRecords
  BY DEF WorkerRecords
<1> worker \in [Workers -> WorkerRecords]
  BY DEF TypeOK
<1> QED
  BY Zenon

LEMMA IdleTypes ==
  ASSUME TypeOK, NEW w \in Workers
  PROVE  [worker EXCEPT ![w] = Idle] \in [Workers -> WorkerRecords]
<1> Idle \in WorkerRecords
  BY DEF Idle, WorkerRecords, Steps
<1> QED
  BY DEF TypeOK

LEMMA RequestTypes ==
  ASSUME TypeOK, NEW j \in jobs, NEW q \in NewRequest(j)
  PROVE  q \in Requests
BY DEF NewRequest, TypeOK

LEMMA LoadedTypes ==
  ASSUME TypeOK, NEW j \in Job, NEW d \in BOOLEAN, NEW q \in Requests
  PROVE  Loaded(j, d, q) \in WorkerRecords
BY DEF Loaded, WorkerRecords, TypeOK, Steps

\* What a call leaves behind is an event of the calendar.
LEMMA CallTypes ==
  ASSUME TypeOK, OneId, NEW w \in Workers, Call(w)
  PROVE  event' \in [Requests -> Events] /\ worker' \in [Workers -> WorkerRecords]
<1> worker \in [Workers -> WorkerRecords] /\ event \in [Requests -> Events]
  BY DEF TypeOK
<1>1. CASE Created(w)
  <2>1. worker[w].request = FirstRequest /\ worker[w].request \in Requests
    BY <1>1, CalendarAssumption DEF Call, Created, OneId, OneIdOf
  <2>2. worker[w].time \in Times \cup {None}
    BY DEF WorkerRecords
  <2>3. [state |-> "alive", time |-> worker[w].time, etag |-> 1] \in Events
    BY <2>2 DEF Events
  <2>4. event' \in [Requests -> Events]
    BY <1>1, <2>1, <2>3 DEF Created
  <2>5. event'[worker[w].request].etag \in Nat
    BY <2>1, <2>4 DEF Events
  <2>6. [worker[w] EXCEPT !.step = "answered", !.event = worker[w].request,
                          !.etag = event'[worker[w].request].etag] \in WorkerRecords
    BY <2>1, <2>5 DEF WorkerRecords, Steps
  <2>7. worker' = [worker EXCEPT ![w] = [worker[w] EXCEPT !.step = "answered",
             !.event = worker[w].request, !.etag = event'[worker[w].request].etag]]
    BY <1>1 DEF Created
  <2> QED
    BY <2>4, <2>6, <2>7
<1>2. CASE Changed(w)
  <2> DEFINE q == worker[w].event
             e == event[q]
             n == IF worker[w].delete /\ e.state = "deleted" THEN e ELSE Touched(e, Written(w, e))
  <2>1. q \in Requests /\ e \in Events
    BY <1>2 DEF Changed, WorkerRecords
  <2>2. worker[w].time \in Times \cup {None}
    BY DEF WorkerRecords
  <2>3. Written(w, e) \in Events
    BY <2>1, <2>2 DEF Written, Events
  <2>4. e.etag + 1 \in Nat
    BY <2>1 DEF Events
  <2>5. Touched(e, Written(w, e)) \in Events
    BY <2>3, <2>4 DEF Touched, Events
  <2>6. n \in Events /\ n.etag \in Nat
    BY <2>1, <2>5 DEF Events
  <2>7. event' = [event EXCEPT ![q] = n]
        /\ worker' = [worker EXCEPT ![w] = [worker[w] EXCEPT !.step = "answered", !.etag = n.etag]]
    BY <1>2 DEF Changed
  <2> HIDE DEF n
  <2>8. [worker[w] EXCEPT !.step = "answered", !.etag = n.etag] \in WorkerRecords
    BY <2>6 DEF WorkerRecords, Steps
  <2> QED
    BY <2>1, <2>6, <2>7, <2>8
<1> QED
  BY <1>1, <1>2 DEF Call

LEMMA TypesStep == TypeOK /\ OneId /\ [Next]_vars => TypeOK'
<1> SUFFICES ASSUME TypeOK, OneId, [Next]_vars PROVE TypeOK'
  OBVIOUS
<1> USE DEF counters, history
<1> appt \in [active : BOOLEAN, time : Times,
              status : {"pending", "synced", "failed", "conflict", "cancelled"}]
  BY DEF TypeOK
<1>d. ASSUME Disturbance PROVE disturbances' \in 0..MaxDisturbances
  BY <1>d, CalendarAssumption DEF Disturbance, TypeOK
<1>e. ASSUME NEW k \in {"sync", "cancel"}, NEW r \in BOOLEAN, Enqueue(k, r)
      PROVE  enqueued' \in Nat /\ jobs' \subseteq Job
  BY <1>e DEF Enqueue, TypeOK, Job
<1>b. (overtaken \/ Running # {} \/ Unrecorded) \in BOOLEAN /\ (crossed \/ push # PushIdle) \in BOOLEAN
  OBVIOUS
<1>1. ASSUME NEW t \in Times, Reschedule(t) PROVE TypeOK'
  BY <1>1, <1>d, <1>e, <1>b DEF Reschedule, ChangesUnderway, TypeOK
<1>2. CASE Cancel
  <2>1. enqueued' \in Nat /\ jobs' \subseteq Job
    BY <1>2, <1>e DEF Cancel, TypeOK
  <2> QED
    BY <1>2, <2>1, <1>b DEF Cancel, ChangesUnderway, TypeOK
<1>3. ASSUME NEW c \in BOOLEAN, RetrySync(c) PROVE TypeOK'
  BY <1>3, <1>d, <1>e, <1>b DEF RetrySync, TypeOK
<1>4. ASSUME NEW w \in Workers, NEW j \in jobs, Take(w, j) PROVE TypeOK'
  <2>j. j \in Job
    BY DEF TypeOK
  <2>1. [Idle EXCEPT !.step = "started", !.job = j, !.delete = TRUE] \in WorkerRecords
    BY <2>j DEF Idle, WorkerRecords, Steps
  <2>2. \A q \in NewRequest(j) : Loaded(j, j.kind = "cancel", q) \in WorkerRecords
    BY <2>j, RequestTypes, LoadedTypes
  <2>3. worker' \in [Workers -> WorkerRecords]
    <3> worker \in [Workers -> WorkerRecords]
      BY DEF TypeOK
    <3> QED
      BY <1>4, <2>1, <2>2 DEF Take
  <2> QED
    BY <1>4, <2>3, <1>b DEF Take, Beside, TypeOK
<1>5. ASSUME NEW w \in Workers, LoadForDeletion(w) PROVE TypeOK'
  <2>1. worker' \in [Workers -> WorkerRecords]
    <3> worker \in [Workers -> WorkerRecords]
      BY DEF TypeOK
    <3>1. worker[w] \in WorkerRecords
      OBVIOUS
    <3>2. Loaded(worker[w].job, TRUE, sync.request) \in WorkerRecords
      <4>1. worker[w].job \in Job \cup {None}
        BY <3>1 DEF WorkerRecords
      <4> QED
        BY <4>1 DEF Loaded, WorkerRecords, TypeOK, Steps
    <3> QED
      BY <1>5, <3>2 DEF LoadForDeletion
  <2> QED
    <3>1. crossed' \in BOOLEAN
      BY <1>5, <1>b DEF LoadForDeletion, Beside
    <3>2. UNCHANGED <<appt, sync, event, jobs, push, unseen, enqueued, disturbances, edited, overtaken>>
      BY <1>5 DEF LoadForDeletion
    <3> QED
      BY <2>1, <3>1, <3>2 DEF TypeOK
<1>6. ASSUME NEW w \in Workers, Call(w) PROVE TypeOK'
  <2>1. (unseen \/ event' # event) \in BOOLEAN
    OBVIOUS
  <2> QED
    BY <1>6, <2>1, CallTypes, <1>b DEF Call, Beside, TypeOK
<1>7. ASSUME NEW w \in Workers, EtagRefused(w) PROVE TypeOK'
  <2>1. PICK s \in {"refused", "failing"} : worker' = [worker EXCEPT ![w].step = s]
    BY <1>7 DEF EtagRefused
  <2>2. worker' \in [Workers -> WorkerRecords]
    BY <2>1, StepTypes DEF Steps
  <2> QED
    BY <1>7, <2>2, <1>b DEF EtagRefused, Beside, TypeOK
<1>8. ASSUME NEW w \in Workers, ReadAgain(w) PROVE TypeOK'
  <2>1. worker' \in [Workers -> WorkerRecords]
    <3> worker \in [Workers -> WorkerRecords] /\ worker[w] \in WorkerRecords
      BY DEF TypeOK
    <3>1. ASSUME worker[w].event \in Requests PROVE event[worker[w].event].etag \in Nat
      BY <3>1 DEF TypeOK, Events
    <3>2. event[worker[w].event].etag \in Nat
      BY <1>8, <3>1 DEF ReadAgain, WorkerRecords, OneId, OneIdOf
    <3>3. [worker[w] EXCEPT !.step = "again", !.etag = event[worker[w].event].etag] \in WorkerRecords
      BY <3>2 DEF WorkerRecords, Steps
    <3> QED
      BY <1>8, <3>3 DEF ReadAgain
  <2> QED
    BY <1>8, <2>1, <1>b DEF ReadAgain, Beside, TypeOK
<1>9. ASSUME NEW w \in Workers, Persist(w) PROVE TypeOK'
  <2>1. sync' \in [event : Requests \cup {None}, etag : Nat, request : Requests]
    <3>1. worker[w] \in WorkerRecords
      BY DEF TypeOK
    <3>2. worker[w].request # None
      BY <1>9 DEF Persist, OneId, OneIdOf
    <3> QED
      BY <1>9, <3>1, <3>2 DEF Persist, WorkerRecords
  <2>2. worker' \in [Workers -> WorkerRecords] /\ jobs' \subseteq Job
    BY <1>9, IdleTypes DEF Persist, Done, TypeOK
  <2> QED
    BY <1>9, <2>1, <2>2, <1>b DEF Persist, Done, Beside, TypeOK
<1>10. ASSUME NEW w \in Workers, MarkCancelled(w) PROVE TypeOK'
  <2>2. worker' \in [Workers -> WorkerRecords] /\ jobs' \subseteq Job
    BY <1>10, IdleTypes DEF MarkCancelled, Done, TypeOK
  <2> QED
    BY <1>10, <2>2, <1>b DEF MarkCancelled, Done, Beside, TypeOK
<1>11. ASSUME NEW w \in Workers, RecordFailure(w) PROVE TypeOK'
  BY <1>11, IdleTypes, <1>b DEF RecordFailure, Beside, TypeOK
<1>12. ASSUME NEW w \in Workers, Fails(w) PROVE TypeOK'
  <2>1. worker' \in [Workers -> WorkerRecords]
    BY <1>12, StepTypes DEF Fails, Steps
  <2> QED
    BY <1>12, <2>1, <1>b, <1>d DEF Fails, Beside, TypeOK
<1>13. ASSUME NEW w \in Workers, Crash(w) PROVE TypeOK'
  BY <1>13, IdleTypes, <1>b, <1>d DEF Crash, Beside, TypeOK
<1>14. ASSUME NEW q \in Requests, NEW t \in Times \cup {None}, OrganiserEdits(q, t) PROVE TypeOK'
  <2> DEFINE e == event[q]
  <2>1. e \in Events /\ e.etag + 1 \in Nat
    BY DEF TypeOK, Events
  <2>2. Touched(e, [e EXCEPT !.state = "deleted"]) \in Events
        /\ (t # None => Touched(e, [e EXCEPT !.time = t]) \in Events)
    BY <2>1 DEF Touched, Events
  <2>3. event' \in [Requests -> Events]
    BY <1>14, <2>2 DEF OrganiserEdits, TypeOK
  <2> QED
    BY <1>14, <2>3, <1>b, <1>d DEF OrganiserEdits, TypeOK
<1>15. ASSUME NEW q \in Requests, ListChanges(q) PROVE TypeOK'
  <2>1. event[q] \in Events
    BY DEF TypeOK
  <2>2. push' \in PushRecords
    BY <1>15, <2>1 DEF ListChanges, PushIdle, PushRecords
  <2>3. (crossed \/ Running # {}) \in BOOLEAN
    OBVIOUS
  <2> QED
    <3>1. crossed' \in BOOLEAN /\ unseen' \in BOOLEAN
      BY <1>15, <2>3 DEF ListChanges
    <3>2. UNCHANGED <<appt, sync, event, jobs, worker, enqueued, disturbances, edited, overtaken>>
      BY <1>15 DEF ListChanges
    <3> QED
      BY <2>2, <3>1, <3>2 DEF TypeOK
<1>16. CASE Compare
  <2>1. (crossed \/ Unrecorded) \in BOOLEAN /\ Drift(push.seen) \in BOOLEAN
    BY DEF Drift, TypeOK
  <2>2. PushIdle \in PushRecords
    BY DEF PushIdle, PushRecords, NoEvent, Events
  <2> QED
    BY <1>16, <2>1, <2>2 DEF Compare, TypeOK, PushRecords
<1>17. CASE WriteConflict
  <2>1. push.seen.etag \in Nat
    BY DEF TypeOK, PushRecords, Events
  <2>2. PushIdle \in PushRecords
    BY DEF PushIdle, PushRecords, NoEvent, Events
  <2> QED
    BY <1>17, <2>1, <2>2 DEF WriteConflict, TypeOK
<1>18. CASE UNCHANGED vars
  BY <1>18 DEF vars, TypeOK
<1> QED
  BY <1>1, <1>2, <1>3, <1>4, <1>5, <1>6, <1>7, <1>8, <1>9, <1>10, <1>11, <1>12, <1>13,
     <1>14, <1>15, <1>16, <1>17, <1>18 DEF Next, WorkerStep

--------------------------------------------------------------------------------
(* Steps of one worker that change nothing but what it knows *)

\* The worker of a step, and the others.
OthersKeep(w) == \A v \in Workers \ {w} : worker'[v] = worker[v]

LEMMA OneIdOfWorker ==
  ASSUME OneId, NEW w \in Workers, OthersKeep(w), UNCHANGED <<sync, event>>, OneIdOf(w)'
  PROVE  OneId'
BY DEF OneId, OneIdOf, OthersKeep, Exists

LEMMA UndisturbedOfWorker ==
  ASSUME Undisturbed, NEW w \in Workers, OthersKeep(w),
         UNCHANGED <<appt, sync, event, jobs, overtaken, edited>>,
         ~overtaken /\ ~edited /\ Recorded /\ Follows(w) => Follows(w)'
  PROVE  Undisturbed'
<1> SUFFICES ASSUME ~overtaken, ~edited PROVE Recorded' /\ \A v \in Workers : Follows(v)'
  BY DEF Undisturbed
<1>1. Recorded /\ \A v \in Workers : Follows(v)
  BY DEF Undisturbed
<1>2. Recorded'
  BY <1>1 DEF Recorded, Exists, Right, Gone
<1>3. ASSUME NEW v \in Workers \ {w} PROVE Follows(v)'
  BY <1>1, <1>3 DEF OthersKeep, Follows, Exists, Right, Gone
<1> QED
  BY <1>1, <1>2, <1>3

LEMMA TakeSteps ==
  ASSUME TypeOK, OneId, Undisturbed, NEW w \in Workers, NEW j \in jobs, Take(w, j)
  PROVE  OneId' /\ Undisturbed'
<1> USE CalendarAssumption
<1>1. UNCHANGED <<appt, sync, event, jobs, overtaken, edited>>
  BY DEF Take
<1>2. OthersKeep(w)
  BY DEF Take, TypeOK, OthersKeep
<1>3. CASE j.kind = "sync" /\ ~appt.active
  <2>1. worker'[w] = [Idle EXCEPT !.step = "started", !.job = j, !.delete = TRUE]
    BY <1>3 DEF Take, TypeOK
  <2>2. worker'[w].step = "started" /\ worker'[w].delete = TRUE /\ worker'[w].event = None
    BY <2>1 DEF Idle
  <2>3. OneIdOf(w)'
    BY <2>2, <1>1 DEF OneIdOf, First
  <2>4. Follows(w)'
    BY <1>1, <1>3, <2>2 DEF Follows
  <2> QED
    BY <1>1, <1>2, <2>3, <2>4, OneIdOfWorker, UndisturbedOfWorker
<1>4. CASE ~(j.kind = "sync" /\ ~appt.active)
  <2>1. PICK q \in NewRequest(j) : worker'[w] = Loaded(j, j.kind = "cancel", q)
    BY <1>4 DEF Take, TypeOK
  <2>2. q \in Requests /\ (sync.event = None => q = sync.request)
    BY <2>1, RequestTypes DEF NewRequest
  <2>3. /\ worker'[w].step = IF j.kind = "cancel" /\ sync.event = None THEN "answered" ELSE "loaded"
        /\ worker'[w].delete = (j.kind = "cancel") /\ worker'[w].time = appt.time
        /\ worker'[w].event = sync.event /\ worker'[w].request = q
    BY <2>1 DEF Loaded
  <2>4. OneIdOf(w)'
    BY <1>1, <2>2, <2>3 DEF OneId, OneIdOf, Exists, First
  <2>5. ASSUME ~overtaken, ~edited, Recorded PROVE Follows(w)'
    <3>1. (j.kind = "cancel") = ~appt.active
      BY <1>4, <2>5 DEF Recorded, TypeOK, Job
    <3> QED
      BY <1>1, <2>3, <2>5, <3>1 DEF Recorded, Follows, Exists, Right, Gone
  <2> QED
    BY <1>1, <1>2, <2>4, <2>5, OneIdOfWorker, UndisturbedOfWorker
<1> QED
  BY <1>3, <1>4

LEMMA LoadForDeletionSteps ==
  ASSUME TypeOK, OneId, Undisturbed, NEW w \in Workers, LoadForDeletion(w)
  PROVE  OneId' /\ Undisturbed'
<1> USE CalendarAssumption
<1>1. UNCHANGED <<appt, sync, event, jobs, overtaken, edited>> /\ worker[w].step = "started"
  BY DEF LoadForDeletion
<1>2. OthersKeep(w)
  BY DEF LoadForDeletion, TypeOK, OthersKeep
<1>3. worker'[w] = Loaded(worker[w].job, TRUE, sync.request)
  BY DEF LoadForDeletion, TypeOK
<1>4. /\ worker'[w].step = IF sync.event = None THEN "answered" ELSE "loaded"
      /\ worker'[w].delete = TRUE
      /\ worker'[w].event = sync.event /\ worker'[w].request = sync.request
  BY <1>3 DEF Loaded
<1>5. sync.request # None
  BY DEF TypeOK
<1>6. OneIdOf(w)'
  BY <1>1, <1>4, <1>5 DEF OneId, OneIdOf, Exists, First
<1>7. ASSUME ~overtaken, ~edited, Recorded, Follows(w) PROVE Follows(w)'
  <2>1. ~appt.active
    BY <1>1, <1>7 DEF Follows, OneId, OneIdOf, TypeOK
  <2> QED
    BY <1>1, <1>4, <1>7, <2>1 DEF Recorded, Follows, Exists, Right, Gone
<1> QED
  BY <1>1, <1>2, <1>6, <1>7, OneIdOfWorker, UndisturbedOfWorker

\* Refusals, reading again and failures move the step only; none invents an answer.
LEMMA TurnEffect ==
  ASSUME TypeOK, OneId, NEW w \in Workers, EtagRefused(w) \/ ReadAgain(w) \/ Fails(w)
  PROVE  /\ UNCHANGED <<appt, sync, event, jobs, push, unseen, overtaken, edited>> /\ OthersKeep(w)
         /\ worker[w].step \notin {"idle", "started"}
         /\ worker'[w].step \in {"refused", "again", "failing"}
         /\ worker'[w].step \in {"refused", "again"} => worker[w].event # None
         /\ worker'[w].job = worker[w].job
         /\ worker'[w].delete = worker[w].delete /\ worker'[w].time = worker[w].time
         /\ worker'[w].event = worker[w].event /\ worker'[w].request = worker[w].request
<1> worker \in [Workers -> WorkerRecords] /\ worker[w] \in WorkerRecords
  BY DEF TypeOK
<1>1. UNCHANGED <<appt, sync, event, jobs, push, unseen, overtaken, edited>> /\ OthersKeep(w)
  BY DEF EtagRefused, ReadAgain, Fails, OthersKeep
<1>2. CASE EtagRefused(w)
  <2>1. PICK s \in {"refused", "failing"} : worker'[w] = [worker[w] EXCEPT !.step = s]
    BY <1>2 DEF EtagRefused
  <2> QED
    BY <1>1, <1>2, <2>1 DEF EtagRefused, WorkerRecords
<1>3. CASE ReadAgain(w)
  <2>1. worker'[w] = [worker[w] EXCEPT !.step = "again", !.etag = event[worker[w].event].etag]
    BY <1>3 DEF ReadAgain
  <2>2. worker[w].step = "refused" /\ worker[w].event # None
    BY <1>3 DEF ReadAgain, OneId, OneIdOf
  <2> QED
    BY <1>1, <2>1, <2>2 DEF WorkerRecords
<1>4. CASE Fails(w)
  <2>1. worker'[w] = [worker[w] EXCEPT !.step = "failing"]
    BY <1>4 DEF Fails
  <2> QED
    BY <1>1, <1>4, <2>1 DEF Fails, WorkerRecords
<1> QED
  BY <1>2, <1>3, <1>4

LEMMA TurnSteps ==
  ASSUME TypeOK, OneId, Undisturbed, NEW w \in Workers, EtagRefused(w) \/ ReadAgain(w) \/ Fails(w)
  PROVE  OneId' /\ Undisturbed'
<1>1. UNCHANGED <<appt, sync, event, jobs, overtaken, edited>>
  BY TurnEffect
<1>2. OthersKeep(w)
  BY TurnEffect
<1>3. /\ worker[w].step \notin {"idle", "started"}
      /\ worker'[w].step \in {"refused", "again", "failing"}
      /\ worker'[w].step \in {"refused", "again"} => worker[w].event # None
      /\ worker'[w].delete = worker[w].delete /\ worker'[w].time = worker[w].time
      /\ worker'[w].event = worker[w].event /\ worker'[w].request = worker[w].request
  BY TurnEffect
<1>4. OneIdOf(w)'
  BY <1>1, <1>3 DEF OneId, OneIdOf, Exists, First
<1>5. Follows(w) => Follows(w)'
  BY <1>1, <1>3 DEF Follows, Exists, Right, Gone
<1> QED
  BY <1>1, <1>2, <1>4, <1>5, OneIdOfWorker, UndisturbedOfWorker

LEMMA IdleSteps ==
  ASSUME TypeOK, OneId, Undisturbed, NEW w \in Workers, RecordFailure(w) \/ Crash(w)
  PROVE  OneId' /\ Undisturbed'
<1>1. /\ UNCHANGED <<sync, event, jobs, overtaken, edited>>
      /\ appt'.active = appt.active /\ appt'.time = appt.time
  BY DEF RecordFailure, Crash, TypeOK
<1>2. OthersKeep(w) /\ worker'[w] = Idle
  BY DEF RecordFailure, Crash, TypeOK, OthersKeep
<1>3. worker'[w].step = "idle" /\ worker'[w].delete = FALSE /\ worker'[w].event = None
  BY <1>2 DEF Idle
<1>4. OneIdOf(w)'
  BY <1>3 DEF OneIdOf, First
<1>5. OneId'
  BY <1>1, <1>2, <1>4, OneIdOfWorker
<1>6. Undisturbed'
  <2> SUFFICES ASSUME ~overtaken, ~edited PROVE Recorded' /\ \A v \in Workers : Follows(v)'
    BY <1>1 DEF Undisturbed
  <2>1. Recorded /\ \A v \in Workers : Follows(v)
    BY DEF Undisturbed
  <2>2. Recorded'
    BY <1>1, <2>1 DEF Recorded, Exists, Right, Gone
  <2>3. ASSUME NEW v \in Workers PROVE Follows(v)'
    BY <1>1, <1>2, <1>3, <2>1, <2>3 DEF OthersKeep, Follows, Exists, Right, Gone
  <2> QED
    BY <2>2, <2>3
<1> QED
  BY <1>5, <1>6

--------------------------------------------------------------------------------
(* Calls to the calendar, and what is recorded of them *)

\* A call touches one event, the one of the booking; afterwards the worker knows of it.
LEMMA CallEffect ==
  ASSUME TypeOK, OneId, NEW w \in Workers, Call(w)
  PROVE  /\ UNCHANGED <<appt, sync, jobs, overtaken, edited>> /\ OthersKeep(w)
         /\ worker[w].step \in {"loaded", "again"} /\ worker'[w].step = "answered"
         /\ worker'[w].job = worker[w].job
         /\ worker'[w].delete = worker[w].delete /\ worker'[w].time = worker[w].time
         /\ worker'[w].event = FirstRequest /\ worker'[w].request # None
         /\ \A q \in Requests : q # FirstRequest => event'[q] = event[q]
         /\ \/ /\ worker[w].event = None /\ ~worker[w].delete
               /\ event[FirstRequest] = NoEvent
               /\ event'[FirstRequest].state = "alive"
               /\ event'[FirstRequest].time = worker[w].time
            \/ /\ worker[w].event = None /\ ~worker[w].delete
               /\ event[FirstRequest] # NoEvent
               /\ event'[FirstRequest] = event[FirstRequest]
            \/ /\ worker[w].event = FirstRequest /\ worker[w].delete
               /\ event'[FirstRequest].state = "deleted"
            \/ /\ worker[w].event = FirstRequest /\ ~worker[w].delete
               /\ event'[FirstRequest].state = event[FirstRequest].state
               /\ event'[FirstRequest].time = worker[w].time
<1> USE CalendarAssumption
<1>t. worker \in [Workers -> WorkerRecords] /\ worker[w] \in WorkerRecords
      /\ event \in [Requests -> Events] /\ event[FirstRequest] \in Events
  BY DEF TypeOK
<1>0. UNCHANGED <<appt, sync, jobs, overtaken, edited>> /\ worker[w].step \in {"loaded", "again"}
  BY DEF Call
<1>r. worker[w].request # None
  BY <1>0 DEF OneId, OneIdOf
<1>1. CASE Created(w)
  <2>1. worker[w].request = FirstRequest /\ worker[w].event = None /\ ~worker[w].delete
    BY <1>0, <1>1 DEF Created, OneId, OneIdOf
  <2>2. worker' = [worker EXCEPT ![w] = [worker[w] EXCEPT !.step = "answered",
             !.event = FirstRequest, !.etag = event'[FirstRequest].etag]]
    BY <1>1, <2>1 DEF Created
  <2>3. event' = IF event[FirstRequest] = NoEvent
                   THEN [event EXCEPT ![FirstRequest] = [state |-> "alive", time |-> worker[w].time, etag |-> 1]]
                   ELSE event
    BY <1>1, <2>1 DEF Created
  <2>4. OthersKeep(w)
    BY <1>t, <2>2 DEF OthersKeep
  <2>5. worker'[w] = [worker[w] EXCEPT !.step = "answered", !.event = FirstRequest,
                                       !.etag = event'[FirstRequest].etag]
    BY <1>t, <2>2
  <2>6. /\ worker'[w].step = "answered" /\ worker'[w].event = FirstRequest
        /\ worker'[w].job = worker[w].job
        /\ worker'[w].delete = worker[w].delete /\ worker'[w].time = worker[w].time
        /\ worker'[w].request = worker[w].request
    BY <1>t, <2>5 DEF WorkerRecords
  <2> QED
    BY <1>0, <1>t, <1>r, <2>1, <2>3, <2>4, <2>6
<1>2. CASE Changed(w)
  <2> DEFINE e == event[FirstRequest]
             n == IF worker[w].delete /\ e.state = "deleted" THEN e ELSE Touched(e, Written(w, e))
  <2>1. worker[w].event = FirstRequest
    BY <1>2 DEF Changed, OneId, OneIdOf, First
  <2>2. event' = [event EXCEPT ![FirstRequest] = n]
        /\ worker' = [worker EXCEPT ![w] = [worker[w] EXCEPT !.step = "answered", !.etag = n.etag]]
    BY <1>2, <2>1 DEF Changed
  <2>3. worker[w].delete => n.state = "deleted"
    BY <1>t DEF Touched, Written, Events
  <2>4. ~worker[w].delete => n.state = e.state /\ n.time = worker[w].time
    BY <1>t DEF Touched, Written, Events
  <2> HIDE DEF n
  <2>5. OthersKeep(w)
    BY <1>t, <2>2 DEF OthersKeep
  <2>6. worker'[w] = [worker[w] EXCEPT !.step = "answered", !.etag = n.etag]
    BY <1>t, <2>2
  <2>7. /\ worker'[w].step = "answered" /\ worker'[w].event = FirstRequest
        /\ worker'[w].job = worker[w].job
        /\ worker'[w].delete = worker[w].delete /\ worker'[w].time = worker[w].time
        /\ worker'[w].request = worker[w].request
    BY <1>t, <2>1, <2>6 DEF WorkerRecords
  <2>8. event'[FirstRequest] = n /\ \A q \in Requests : q # FirstRequest => event'[q] = event[q]
    BY <1>t, <2>2
  <2> QED
    BY <1>0, <1>r, <2>1, <2>3, <2>4, <2>5, <2>7, <2>8
<1> QED
  BY <1>1, <1>2 DEF Call

LEMMA CallSteps ==
  ASSUME TypeOK, OneId, Undisturbed, NEW w \in Workers, Call(w)
  PROVE  OneId' /\ Undisturbed'
<1> USE CalendarAssumption
<1>t. event \in [Requests -> Events] /\ event[FirstRequest] \in Events
      /\ event' \in [Requests -> Events] /\ event'[FirstRequest] \in Events
  BY CallTypes DEF TypeOK
<1>a. event[FirstRequest].state = "absent" <=> event[FirstRequest] = NoEvent
  BY DEF OneId
<1>n. NoEvent.state = "absent" /\ NoEvent.etag = 0
  BY DEF NoEvent
<1>u. /\ UNCHANGED <<appt, sync, jobs, overtaken, edited>> /\ OthersKeep(w)
      /\ worker[w].step \in {"loaded", "again"} /\ worker'[w].step = "answered"
      /\ worker'[w].delete = worker[w].delete /\ worker'[w].time = worker[w].time
      /\ worker'[w].event = FirstRequest /\ worker'[w].request # None
      /\ \A q \in Requests : q # FirstRequest => event'[q] = event[q]
  BY CallEffect
<1>e. \/ worker[w].event = None /\ ~worker[w].delete /\ event[FirstRequest] = NoEvent
         /\ event'[FirstRequest].state = "alive" /\ event'[FirstRequest].time = worker[w].time
      \/ worker[w].event = None /\ ~worker[w].delete /\ event[FirstRequest] # NoEvent
         /\ event'[FirstRequest] = event[FirstRequest]
      \/ worker[w].event = FirstRequest /\ worker[w].delete /\ event'[FirstRequest].state = "deleted"
      \/ worker[w].event = FirstRequest /\ ~worker[w].delete
         /\ event'[FirstRequest].state = event[FirstRequest].state
         /\ event'[FirstRequest].time = worker[w].time
  BY CallEffect
<1>x. worker[w].event = FirstRequest => event[FirstRequest].state # "absent"
  BY DEF OneId, OneIdOf, Exists
<1>1. ASSUME NEW q \in Requests
      PROVE  /\ event'[q] # NoEvent => q = FirstRequest
             /\ event'[q].state = "absent" <=> event'[q] = NoEvent
  <2>1. CASE q # FirstRequest
    BY <2>1, <1>u DEF OneId
  <2>2. CASE q = FirstRequest
    <3>2. CASE event'[q] = event[q]
      BY <3>2, <1>a, <2>2
    <3>3. CASE event'[q].state # "absent"
      BY <3>3, <1>n, <2>2
    <3> QED
      <4>1. event'[FirstRequest] = event[FirstRequest] \/ event'[FirstRequest].state # "absent"
        BY <1>x, <1>e
      <4> QED
        BY <2>2, <3>2, <3>3, <4>1
  <2> QED
    BY <2>1, <2>2
<1>2. Exists'
  BY <1>a, <1>x, <1>e DEF Exists
<1>2a. OneIdOf(w)'
  BY <1>2, <1>u DEF OneId, OneIdOf, First
<1>3. OneId'
  BY <1>1, <1>2, <1>2a, <1>u DEF OneId, OneIdOf, OthersKeep
<1>4. ASSUME ~overtaken, ~edited PROVE Recorded' /\ \A v \in Workers : Follows(v)'
  <2>1. Recorded /\ \A v \in Workers : Follows(v)
    BY <1>4 DEF Undisturbed
  <2>2. worker[w].delete = ~appt.active /\ appt.active \in BOOLEAN
    BY <2>1, <1>u DEF Follows, TypeOK
  <2>3. CASE appt.active
    \* Whether created, found or updated, the event is at the appointment's time.
    <3>1. ~worker[w].delete /\ worker[w].time = appt.time
      BY <2>1, <2>2, <2>3, <1>u DEF Follows
    <3>2. worker[w].event = None => ~Exists \/ Right
      BY <2>1, <3>1, <1>u DEF Follows
    <3>3. event[FirstRequest].state # "deleted" /\ event[FirstRequest].state \in {"absent", "alive", "deleted"}
      BY <2>1, <2>3, <1>t DEF Recorded, Events
    <3>5. event'[FirstRequest].state = "alive" /\ event'[FirstRequest].time = appt.time
      BY <3>1, <3>2, <3>3, <1>x, <1>a, <1>e DEF Exists, Right
    <3>6. Right' /\ appt' = appt
      BY <3>5, <1>u DEF Right
    <3>7. Recorded'
      BY <2>1, <2>3, <3>5, <3>6, <1>u DEF Recorded
    <3>8. Follows(w)'
      BY <2>2, <3>1, <3>6, <2>3, <1>u DEF Follows
    <3>9. ASSUME NEW v \in Workers, v # w PROVE Follows(v)'
      <4>1. worker'[v] = worker[v]
        BY <3>9, <1>u DEF OthersKeep
      <4>2. Follows(v) /\ (worker[v].step # "idle" => ~worker[v].delete)
        BY <2>1, <2>3 DEF Follows
      <4> QED
        BY <3>6, <4>1, <4>2 DEF Follows
    <3> QED
      BY <3>7, <3>8, <3>9
  <2>4. CASE ~appt.active
    <3>1. worker[w].delete
      BY <2>2, <2>4
    <3>2. Gone' /\ appt' = appt
      BY <3>1, <1>u, <1>e DEF Gone
    <3>3. Recorded'
      BY <2>4, <3>2, <1>u DEF Recorded
    <3>4. ASSUME NEW v \in Workers PROVE Follows(v)'
      <4>1. worker'[v].step # "idle" => worker'[v].delete = TRUE
        <5>1. CASE v = w
          BY <3>1, <5>1, <2>2, <2>4, <1>u
        <5>2. CASE v # w
          BY <5>2, <2>1, <2>4, <1>u DEF OthersKeep, Follows
        <5> QED
          BY <5>1, <5>2
      <4> QED
        BY <2>4, <3>2, <4>1 DEF Follows
    <3> QED
      BY <3>3, <3>4
  <2> QED
    BY <2>2, <2>3, <2>4
<1> QED
  BY <1>3, <1>4, <1>u DEF Undisturbed

LEMMA PersistSteps ==
  ASSUME TypeOK, OneId, Undisturbed, NEW w \in Workers, Persist(w)
  PROVE  OneId' /\ Undisturbed'
<1> USE CalendarAssumption
<1>1. /\ UNCHANGED <<event, overtaken, edited>> /\ jobs' \subseteq jobs
      /\ appt'.active = appt.active /\ appt'.time = appt.time
      /\ sync'.event = worker[w].event
      /\ worker[w].step = "answered" /\ ~worker[w].delete
  BY DEF Persist, Done, TypeOK
<1>2. OthersKeep(w) /\ worker'[w] = Idle
  BY DEF Persist, Done, TypeOK, OthersKeep
<1>3. worker'[w].step = "idle" /\ worker'[w].delete = FALSE /\ worker'[w].event = None
  BY <1>2 DEF Idle
<1>4. worker[w].event = FirstRequest /\ Exists
  BY <1>1 DEF OneId, OneIdOf, First
<1>5. OneId'
  <2>1. OneIdOf(w)'
    BY <1>3 DEF OneIdOf, First
  <2>2. ASSUME NEW v \in Workers, v # w PROVE OneIdOf(v)'
    BY <2>2, <1>1, <1>2 DEF OneId, OneIdOf, OthersKeep, Exists
  <2> QED
    BY <2>1, <2>2, <1>1, <1>4 DEF OneId, First, Exists
<1>6. Undisturbed'
  <2> SUFFICES ASSUME ~overtaken, ~edited PROVE Recorded' /\ \A v \in Workers : Follows(v)'
    BY <1>1 DEF Undisturbed
  <2>1. Recorded /\ \A v \in Workers : Follows(v)
    BY DEF Undisturbed
  <2>2. appt.active /\ Right
    BY <1>1, <2>1 DEF Follows, TypeOK
  <2>3. Recorded'
    BY <1>1, <1>4, <2>1, <2>2 DEF Recorded, Exists, Right, Gone
  <2>4. ASSUME NEW v \in Workers PROVE Follows(v)'
    BY <1>1, <1>2, <1>3, <2>1, <2>4 DEF OthersKeep, Follows, Exists, Right, Gone
  <2> QED
    BY <2>3, <2>4
<1> QED
  BY <1>5, <1>6

LEMMA MarkCancelledSteps ==
  ASSUME TypeOK, OneId, Undisturbed, NEW w \in Workers, MarkCancelled(w)
  PROVE  OneId' /\ Undisturbed'
<1>1. /\ UNCHANGED <<sync, event, overtaken, edited>> /\ jobs' \subseteq jobs
      /\ appt'.active = appt.active /\ appt'.time = appt.time
      /\ worker[w].step = "answered" /\ worker[w].delete
  BY DEF MarkCancelled, Done, TypeOK
<1>2. OthersKeep(w) /\ worker'[w] = Idle
  BY DEF MarkCancelled, Done, TypeOK, OthersKeep
<1>3. worker'[w].step = "idle" /\ worker'[w].delete = FALSE /\ worker'[w].event = None
  BY <1>2 DEF Idle
<1>4. OneIdOf(w)'
  BY <1>3 DEF OneIdOf, First
<1>5. OneId'
  BY <1>1, <1>2, <1>4, OneIdOfWorker
<1>6. Undisturbed'
  <2> SUFFICES ASSUME ~overtaken, ~edited PROVE Recorded' /\ \A v \in Workers : Follows(v)'
    BY <1>1 DEF Undisturbed
  <2>1. Recorded /\ \A v \in Workers : Follows(v)
    BY DEF Undisturbed
  <2>2. ~appt.active /\ Gone
    BY <1>1, <2>1 DEF Follows, TypeOK
  <2>3. Recorded'
    BY <1>1, <2>1, <2>2 DEF Recorded, Gone
  <2>4. ASSUME NEW v \in Workers PROVE Follows(v)'
    BY <1>1, <1>2, <1>3, <2>1, <2>4 DEF OthersKeep, Follows, Exists, Right, Gone
  <2> QED
    BY <2>3, <2>4
<1> QED
  BY <1>5, <1>6

--------------------------------------------------------------------------------
(* The web application, the organiser and the push *)

\* A change that overtakes nobody leaves nothing to disturb: no worker runs, and
\* no event waits to be recorded.
LEMMA ChangeSteps ==
  ASSUME TypeOK, OneId, Undisturbed, Cancel \/ \E t \in Times : Reschedule(t)
  PROVE  OneId' /\ Undisturbed'
<1> USE CalendarAssumption
<1>1. UNCHANGED <<sync, event, worker, edited>> /\ appt.active
      /\ overtaken' = (overtaken \/ Running # {} \/ Unrecorded)
  BY DEF Cancel, Reschedule, ChangesUnderway
<1>2. OneId'
  BY <1>1 DEF OneId, OneIdOf, Exists, First
<1>3. Undisturbed'
  <2> SUFFICES ASSUME ~overtaken', ~edited PROVE Recorded' /\ \A v \in Workers : Follows(v)'
    BY <1>1 DEF Undisturbed
  <2>1. ~overtaken /\ Running = {} /\ ~Unrecorded
    BY <1>1
  <2>2. Recorded
    BY <2>1 DEF Undisturbed
  <2>3. \A v \in Workers : Follows(v)'
    BY <1>1, <2>1 DEF Running, Follows
  <2>4. sync.event = None => event[FirstRequest] = NoEvent /\ event[FirstRequest].state = "absent"
    BY <2>1 DEF Unrecorded, NoEvent
  <2>5. CASE Cancel
    <3>1. appt'.active = FALSE
      BY <2>5 DEF Cancel, TypeOK
    <3>2. sync.event # None => jobs' # {}
      BY <2>5 DEF Cancel, Enqueue
    <3> QED
      BY <1>1, <2>3, <2>4, <3>1, <3>2 DEF Recorded, Gone
  <2>6. CASE \E t \in Times : Reschedule(t)
    <3>1. appt'.active = TRUE
      BY <1>1, <2>6 DEF Reschedule, TypeOK
    <3>2. jobs' = jobs \cup {[n |-> enqueued + 1, kind |-> "sync", retry |-> FALSE]}
      BY <2>6 DEF Reschedule, Enqueue
    <3>3. \A j \in jobs' : j.kind # "cancel"
      BY <1>1, <2>2, <3>2 DEF Recorded
    <3> QED
      BY <1>1, <2>2, <2>3, <2>4, <3>1, <3>2, <3>3 DEF Recorded, Exists
  <2> QED
    BY <2>5, <2>6
<1> QED
  BY <1>2, <1>3

LEMMA RetrySteps ==
  ASSUME TypeOK, OneId, Undisturbed, NEW c \in BOOLEAN, RetrySync(c)
  PROVE  OneId' /\ Undisturbed'
<1>1. UNCHANGED <<sync, event, worker, edited, overtaken>> /\ appt.active
      /\ appt'.active = appt.active /\ appt'.time = appt.time
      /\ jobs' = jobs \cup {[n |-> enqueued + 1, kind |-> "sync", retry |-> c]}
  BY DEF RetrySync, Enqueue, TypeOK
<1>2. OneId'
  BY <1>1 DEF OneId, OneIdOf, Exists, First
<1>3. Recorded => Recorded'
  BY <1>1 DEF Recorded, Exists, Right
<1>4. ASSUME NEW v \in Workers, Follows(v) PROVE Follows(v)'
  BY <1>1, <1>4 DEF Follows, Exists, Right, Gone
<1> QED
  BY <1>1, <1>2, <1>3, <1>4 DEF Undisturbed

LEMMA EditSteps ==
  ASSUME TypeOK, OneId, NEW q \in Requests, NEW t \in Times \cup {None}, OrganiserEdits(q, t)
  PROVE  OneId' /\ Undisturbed'
<1> USE CalendarAssumption
<1>1. edited' /\ UNCHANGED <<sync, worker>> /\ event[q].state = "alive" /\ q = FirstRequest
  BY DEF OrganiserEdits, OneId, NoEvent
<1>2. event'[q].state # "absent" /\ \A r \in Requests : r # q => event'[r] = event[r]
  <2> event \in [Requests -> Events] /\ event[q] \in Events
    BY DEF TypeOK
  <2>1. event'[q] = IF t = None THEN Touched(event[q], [event[q] EXCEPT !.state = "deleted"])
                                ELSE Touched(event[q], [event[q] EXCEPT !.time = t])
    BY DEF OrganiserEdits
  <2>2. event'[q].state # "absent"
    BY <1>1, <2>1 DEF Touched, Events
  <2> QED
    BY <2>2 DEF OrganiserEdits
<1>3. NoEvent.state = "absent"
  BY DEF NoEvent
<1>4. OneId'
  BY <1>1, <1>2, <1>3 DEF OneId, OneIdOf, Exists, First
<1> QED
  BY <1>1, <1>4 DEF Undisturbed

LEMMA PushSteps ==
  ASSUME TypeOK, OneId, Undisturbed,
         Compare \/ WriteConflict \/ (\E q \in Requests : ListChanges(q)) \/ UNCHANGED vars
  PROVE  OneId' /\ Undisturbed'
<1>1. /\ UNCHANGED <<event, jobs, worker, overtaken, edited>>
      /\ appt'.active = appt.active /\ appt'.time = appt.time
      /\ sync'.event = sync.event /\ sync'.request = sync.request
  BY DEF Compare, WriteConflict, ListChanges, vars, history, TypeOK
<1>2. OneId'
  BY <1>1 DEF OneId, OneIdOf, Exists, First
<1>3. Recorded => Recorded'
  BY <1>1 DEF Recorded, Exists, Right, Gone
<1>4. ASSUME NEW v \in Workers, Follows(v) PROVE Follows(v)'
  BY <1>1, <1>4 DEF Follows, Exists, Right, Gone
<1> QED
  BY <1>1, <1>2, <1>3, <1>4 DEF Undisturbed

LEMMA InvStart == Init => Inv
<1> SUFFICES ASSUME Init PROVE Inv
  OBVIOUS
<1> USE CalendarAssumption
<1>1. \A q \in Requests : event[q] = NoEvent /\ event[q].state = "absent"
  BY DEF Init, NoEvent
<1>2. \A w \in Workers : worker[w].step = "idle" /\ worker[w].event = None /\ worker[w].delete = FALSE
  BY DEF Init, Idle
<1>3. sync.event = None /\ sync.request = FirstRequest /\ appt.active = TRUE
      /\ jobs = {[n |-> 1, kind |-> "sync", retry |-> FALSE]}
  BY DEF Init
<1>4. OneId
  BY <1>1, <1>2, <1>3 DEF OneId, OneIdOf, First
<1>5. Undisturbed
  BY <1>1, <1>2, <1>3 DEF Undisturbed, Recorded, Follows, Exists
<1> QED
  BY <1>4, <1>5, TypesStart DEF Inv

LEMMA InvStep == Inv /\ [Next]_vars => Inv'
<1> SUFFICES ASSUME TypeOK, OneId, Undisturbed, [Next]_vars PROVE OneId' /\ Undisturbed'
  BY TypesStep DEF Inv
<1> QED
  BY TakeSteps, LoadForDeletionSteps, TurnSteps, IdleSteps, CallSteps, PersistSteps,
     MarkCancelledSteps, ChangeSteps, RetrySteps, EditSteps, PushSteps DEF Next, WorkerStep

LEMMA InvHolds == Spec => []Inv
BY InvStart, InvStep, PTL DEF Spec

--------------------------------------------------------------------------------
(* The push                                                                     *)
(*                                                                              *)
(* While no push is crossed, what it listed is still so when it writes, and     *)
(* what changed since is marked unseen: an event that was looked at stays as it *)
(* was until a worker is answered, who then shows the appointment as synced.    *)

\* A job that runs is not done, and no other worker runs it.
Owned ==
  /\ \A w \in Running : worker[w].job \in jobs
  /\ \A v, w \in Running : worker[v].job = worker[w].job => v = w

\* Before it is cancelled, an appointment's jobs only ever record an event.
OnlySyncs ==
  appt.active =>
    /\ \A j \in jobs : j.kind = "sync"
    /\ \A w \in Running : ~worker[w].delete
    /\ jobs = {} => sync.event # None

\* What the push holds is the event as it is.
Current ==
  push.step # "idle" =>
    /\ Running = {} /\ push.item = FirstRequest /\ Exists /\ push.seen = event[FirstRequest]
    /\ push.step = "compared" => /\ sync.event = FirstRequest
                                 /\ push.conflict = Drift(event[FirstRequest])

\* An event that was looked at was on record; no job has been answered since.
Noticed ==
  ~unseen /\ Exists /\ push.step # "listed" =>
    /\ sync.event = FirstRequest
    /\ \A w \in Running : worker[w].event # None /\ worker[w].step # "answered"
    /\ push.step = "idle" /\ Drift(event[FirstRequest]) => appt.status = "conflict" \/ jobs # {}

Blamed == appt.status = "conflict" => edited \/ overtaken \/ jobs # {}

Watched == appt.active /\ ~crossed => Current /\ Noticed /\ Blamed

PushInv == (push.step = "idle" => push = PushIdle) /\ Owned /\ OnlySyncs /\ Watched

LEMMA TakeEffect ==
  ASSUME TypeOK, NEW w \in Workers, NEW j \in jobs, Take(w, j)
  PROVE  /\ UNCHANGED <<appt, sync, event, jobs, push, unseen, overtaken, edited>> /\ OthersKeep(w)
         /\ worker'[w].step # "idle" /\ worker'[w].job = j
         /\ \A v \in Workers : worker[v].job # j
         /\ appt.active /\ j.kind = "sync" =>
              /\ worker'[w].step = "loaded" /\ ~worker'[w].delete
              /\ worker'[w].event = sync.event
<1>1. UNCHANGED <<appt, sync, event, jobs, push, unseen, overtaken, edited>> /\ OthersKeep(w)
      /\ \A v \in Workers : worker[v].job # j
  BY DEF Take, OthersKeep, TypeOK
<1>2. CASE j.kind = "sync" /\ ~appt.active
  <2>1. worker'[w] = [Idle EXCEPT !.step = "started", !.job = j, !.delete = TRUE]
    BY <1>2 DEF Take, TypeOK
  <2> QED
    BY <1>1, <1>2, <2>1 DEF Idle
<1>3. CASE ~(j.kind = "sync" /\ ~appt.active)
  <2>1. PICK q \in NewRequest(j) : worker'[w] = Loaded(j, j.kind = "cancel", q)
    BY <1>3 DEF Take, TypeOK
  <2>2. /\ worker'[w].step = IF j.kind = "cancel" /\ sync.event = None THEN "answered" ELSE "loaded"
        /\ worker'[w].delete = (j.kind = "cancel") /\ worker'[w].event = sync.event
        /\ worker'[w].job = j
    BY <2>1 DEF Loaded
  <2>3. worker'[w].step # "idle"
    BY <2>2
  <2>4. j.kind = "sync" => worker'[w].step = "loaded" /\ ~worker'[w].delete
    BY <2>2
  <2> QED
    BY <1>1, <2>2, <2>3, <2>4
<1> QED
  BY <1>2, <1>3

LEMMA DeletionEffect ==
  ASSUME TypeOK, OneId, NEW w \in Workers, LoadForDeletion(w)
  PROVE  /\ UNCHANGED <<appt, sync, event, jobs, push, unseen, overtaken, edited>> /\ OthersKeep(w)
         /\ worker[w].step # "idle" /\ worker[w].delete
         /\ worker'[w].job = worker[w].job
<1>1. worker'[w] = Loaded(worker[w].job, TRUE, sync.request)
  BY DEF LoadForDeletion, TypeOK
<1> QED
  BY <1>1 DEF LoadForDeletion, Loaded, OthersKeep, TypeOK, OneId, OneIdOf

\* The end of a job, and the end of an attempt of it.
LEMMA EndEffect ==
  ASSUME TypeOK, NEW w \in Workers,
         Persist(w) \/ MarkCancelled(w) \/ RecordFailure(w) \/ Crash(w)
  PROVE  /\ UNCHANGED <<event, push, unseen, overtaken, edited>> /\ OthersKeep(w)
         /\ worker[w].step # "idle" /\ worker'[w].step = "idle"
         /\ appt'.active = appt.active /\ appt'.time = appt.time
BY DEF Persist, MarkCancelled, RecordFailure, Crash, Done, Idle, OthersKeep, TypeOK

\* A call that leaves the events as they are finds one that was created before.
LEMMA CallSeen ==
  ASSUME TypeOK, OneId, NEW w \in Workers, Call(w), ~worker[w].delete, event' = event
  PROVE  worker[w].event = None /\ Exists
<1> USE CalendarAssumption
<1>1. event \in [Requests -> Events] /\ NoEvent.state = "absent"
  BY DEF TypeOK, NoEvent
<1>2. CASE worker[w].event = None
  BY <1>1, <1>2, CallEffect DEF OneId, Exists
<1>3. CASE worker[w].event # None
  <2> DEFINE e == event[FirstRequest]
             n == Touched(e, [e EXCEPT !.time = worker[w].time])
  <2>1. worker[w].event = FirstRequest
    BY <1>3 DEF OneId, OneIdOf, First
  <2>2. event' = [event EXCEPT ![FirstRequest] = n]
    BY <1>3, <2>1 DEF Call, Created, Changed, Written
  <2>3. e \in Events /\ n.etag = e.etag + 1
    BY <1>1 DEF Touched, Events
  <2>4. n # e
    BY <2>3 DEF Events
  <2> QED
    BY <1>1, <2>2, <2>4
<1> QED
  BY <1>2, <1>3

(* Jobs and who runs them *)

LEMMA OwnedOfWorker ==
  ASSUME Owned, NEW w \in Workers, OthersKeep(w), jobs' = jobs,
         \/ worker'[w].step = "idle"
         \/ worker[w].step # "idle" /\ worker'[w].job = worker[w].job
         \/ worker'[w].job \in jobs /\ \A v \in Workers : worker[v].job # worker'[w].job
  PROVE  Owned'
BY DEF Owned, OthersKeep, Running

LEMMA OwnedOfDone ==
  ASSUME Owned, NEW w \in Workers, OthersKeep(w), jobs' = jobs \ {worker[w].job},
         worker[w].step # "idle", worker'[w].step = "idle"
  PROVE  Owned'
BY DEF Owned, OthersKeep, Running

LEMMA JobsOfWorker ==
  ASSUME TypeOK, OneId, Owned, OnlySyncs, NEW w \in Workers,
         WorkerStep(w) \/ Fails(w) \/ Crash(w)
  PROVE  Owned' /\ OnlySyncs'
<1>1. ASSUME NEW j \in jobs, Take(w, j) PROVE Owned' /\ OnlySyncs'
  <2>1. Owned'
    BY <1>1, TakeEffect, OwnedOfWorker
  <2>2. appt.active => j.kind = "sync"
    BY DEF OnlySyncs
  <2> QED
    BY <1>1, <2>1, <2>2, TakeEffect DEF OnlySyncs, OthersKeep, Running
<1>2. CASE LoadForDeletion(w)
  <2>1. Owned'
    BY <1>2, DeletionEffect, OwnedOfWorker
  <2>2. ~appt.active
    BY <1>2, DeletionEffect DEF OnlySyncs, Running
  <2> QED
    BY <1>2, <2>1, <2>2, DeletionEffect DEF OnlySyncs
<1>3. CASE Call(w)
  <2>1. Owned'
    BY <1>3, CallEffect, OwnedOfWorker
  <2> QED
    BY <1>3, <2>1, CallEffect DEF OnlySyncs, OthersKeep, Running
<1>4. CASE EtagRefused(w) \/ ReadAgain(w) \/ Fails(w)
  <2>1. Owned'
    BY <1>4, TurnEffect, OwnedOfWorker
  <2> QED
    BY <1>4, <2>1, TurnEffect DEF OnlySyncs, OthersKeep, Running
<1>5. CASE RecordFailure(w) \/ Crash(w)
  <2>1. UNCHANGED <<sync, jobs>>
    BY <1>5 DEF RecordFailure, Crash
  <2>2. Owned'
    BY <1>5, <2>1, EndEffect, OwnedOfWorker
  <2> QED
    BY <1>5, <2>1, <2>2, EndEffect DEF OnlySyncs, OthersKeep, Running
<1>6. CASE Persist(w) \/ MarkCancelled(w)
  <2>1. jobs' = jobs \ {worker[w].job}
    BY <1>6 DEF Persist, MarkCancelled, Done
  <2>2. Owned'
    BY <1>6, <2>1, EndEffect, OwnedOfDone
  <2>3. appt.active => sync'.event # None
    <3>1. appt.active => ~worker[w].delete
      BY <1>6, EndEffect DEF OnlySyncs, Running
    <3> QED
      BY <1>6, <3>1 DEF Persist, MarkCancelled, OneId, OneIdOf
  <2> QED
    BY <1>6, <2>1, <2>2, <2>3, EndEffect DEF OnlySyncs, OthersKeep, Running
<1> QED
  BY <1>1, <1>2, <1>3, <1>4, <1>5, <1>6 DEF WorkerStep

LEMMA JobsKept ==
  ASSUME TypeOK, OneId, Owned, OnlySyncs, [Next]_vars
  PROVE  Owned' /\ OnlySyncs'
<1>1. CASE \/ \E t \in Times : Reschedule(t)
           \/ \E conference \in BOOLEAN : RetrySync(conference)
  <2>1. PICK r \in BOOLEAN : jobs' = jobs \cup {[n |-> enqueued + 1, kind |-> "sync", retry |-> r]}
    BY <1>1 DEF Reschedule, RetrySync, Enqueue
  <2>2. UNCHANGED <<sync, worker>> /\ appt.active
    BY <1>1 DEF Reschedule, RetrySync
  <2> QED
    BY <2>1, <2>2 DEF Owned, OnlySyncs, Running
<1>2. CASE Cancel
  <2>1. worker' = worker /\ jobs \subseteq jobs' /\ ~appt'.active
    BY <1>2 DEF Cancel, Enqueue, TypeOK
  <2> QED
    BY <2>1 DEF Owned, OnlySyncs, Running
<1>3. CASE \/ \E q \in Requests, t \in Times \cup {None} : OrganiserEdits(q, t)
           \/ \E q \in Requests : ListChanges(q)
           \/ Compare \/ WriteConflict \/ UNCHANGED vars
  <2>1. UNCHANGED <<worker, jobs>> /\ sync'.event = sync.event /\ appt'.active = appt.active
    BY <1>3 DEF OrganiserEdits, ListChanges, Compare, WriteConflict, vars, TypeOK
  <2> QED
    BY <2>1 DEF Owned, OnlySyncs, Running
<1> QED
  BY <1>1, <1>2, <1>3, JobsOfWorker DEF Next

(* What the push looked at *)

\* Whatever happens beside a push crosses it.
LEMMA BesidePush ==
  ASSUME push.step = "idle" => push = PushIdle, [Next]_vars, ~crossed',
         ~(Compare \/ WriteConflict \/ \E q \in Requests : ListChanges(q))
  PROVE  ~crossed /\ (UNCHANGED vars \/ push = PushIdle) /\ push' = push
<1>1. CASE UNCHANGED vars
  BY <1>1 DEF vars, history
<1>2. ASSUME crossed' = (crossed \/ push # PushIdle), push' = push
      PROVE  ~crossed /\ push = PushIdle /\ push' = push
  BY <1>2
<1>3. ASSUME NEW w \in Workers, WorkerStep(w) \/ Fails(w) \/ Crash(w)
      PROVE  crossed' = (crossed \/ push # PushIdle) /\ push' = push
  BY <1>3 DEF WorkerStep, Take, LoadForDeletion, Call, EtagRefused, ReadAgain, Persist, MarkCancelled,
     RecordFailure, Fails, Crash, Beside
<1>4. CASE \/ \E t \in Times : Reschedule(t)
           \/ Cancel
           \/ \E conference \in BOOLEAN : RetrySync(conference)
           \/ \E q \in Requests, t \in Times \cup {None} : OrganiserEdits(q, t)
  <2>1. crossed' = (crossed \/ push # PushIdle) /\ push' = push
    BY <1>4 DEF Reschedule, Cancel, ChangesUnderway, RetrySync, OrganiserEdits
  <2> QED
    BY <1>2, <2>1
<1> QED
  BY <1>1, <1>2, <1>3, <1>4 DEF Next

LEMMA WatchedOfWorker ==
  ASSUME TypeOK, OneId, Owned, OnlySyncs, appt.active, Noticed, Blamed, push = PushIdle, push' = push,
         NEW w \in Workers, WorkerStep(w) \/ Fails(w) \/ Crash(w)
  PROVE  Noticed' /\ Blamed'
<1> USE CalendarAssumption
<1>0. push.step = "idle"
  BY DEF PushIdle
<1>1. ASSUME NEW j \in jobs, Take(w, j) PROVE Noticed' /\ Blamed'
  <2>1. worker'[w].step = "loaded" /\ worker'[w].event = sync.event
    BY <1>1, TakeEffect DEF OnlySyncs
  <2> QED
    BY <1>0, <1>1, <2>1, TakeEffect DEF Noticed, Blamed, OthersKeep, Running, Exists, Drift
<1>2. CASE LoadForDeletion(w)
  BY <1>2, DeletionEffect DEF OnlySyncs, Running
<1>3. CASE Call(w)
  <2>1. ~worker[w].delete /\ worker[w].step # "idle"
    BY <1>3, CallEffect DEF OnlySyncs, Running
  <2>2. unseen' = (unseen \/ event' # event) /\ UNCHANGED <<appt, jobs, overtaken, edited>>
    BY <1>3, CallEffect DEF Call
  <2>3. unseen'
    <3>1. CASE event' = event
      BY <1>0, <1>3, <2>1, <2>2, <3>1, CallSeen DEF Noticed, Running
    <3> QED
      BY <2>2, <3>1
  <2> QED
    BY <2>2, <2>3 DEF Noticed, Blamed
<1>4. CASE EtagRefused(w) \/ ReadAgain(w) \/ Fails(w)
  <2>1. UNCHANGED <<appt, sync, event, jobs, unseen, overtaken, edited>> /\ OthersKeep(w)
        /\ worker[w].step # "idle" /\ worker'[w].event = worker[w].event
        /\ worker'[w].step # "answered"
    BY <1>4, TurnEffect
  <2> QED
    BY <1>0, <2>1 DEF Noticed, Blamed, OthersKeep, Running, Exists, Drift
<1>5. CASE RecordFailure(w) \/ Crash(w)
  <2>1. UNCHANGED <<sync, jobs, event, unseen, overtaken, edited>> /\ OthersKeep(w)
        /\ worker'[w].step = "idle" /\ appt'.active = appt.active /\ appt'.time = appt.time
        /\ (appt'.status = "failed" \/ appt' = appt)
    BY <1>5, EndEffect DEF RecordFailure, Crash, TypeOK
  <2>2. jobs # {}
    BY <1>5, EndEffect DEF Owned, Running
  <2> QED
    BY <1>0, <2>1, <2>2 DEF Noticed, Blamed, OthersKeep, Running, Exists, Drift
<1>6. CASE Persist(w)
  <2>1. worker[w].step = "answered" /\ w \in Running /\ Exists
    BY <1>6 DEF Persist, Running, OneId, OneIdOf
  <2>2. unseen /\ unseen' = unseen
    BY <1>0, <1>6, <2>1 DEF Noticed, Persist
  <2>3. appt'.status = "synced"
    BY <1>6 DEF Persist, TypeOK
  <2> QED
    BY <2>2, <2>3 DEF Noticed, Blamed
<1>7. CASE MarkCancelled(w)
  BY <1>7 DEF MarkCancelled, OnlySyncs, Running
<1> QED
  BY <1>1, <1>2, <1>3, <1>4, <1>5, <1>6, <1>7 DEF WorkerStep

LEMMA WatchedOfPush ==
  ASSUME TypeOK, OneId, Undisturbed, Watched, appt.active, ~crossed',
         Compare \/ WriteConflict \/ \E q \in Requests : ListChanges(q)
  PROVE  Current' /\ Noticed' /\ Blamed'
<1> USE CalendarAssumption
<1>1. /\ ~crossed /\ Current /\ Noticed /\ Blamed
      /\ UNCHANGED <<event, jobs, worker, overtaken, edited>>
      /\ appt'.active = appt.active /\ appt'.time = appt.time
      /\ sync'.event = sync.event
  BY DEF Compare, WriteConflict, ListChanges, Watched, history, TypeOK
<1>2. Running' = Running /\ Exists' = Exists /\ Drift(event[FirstRequest])' = Drift(event[FirstRequest])
  BY <1>1 DEF Running, Exists, Drift
<1>3. ASSUME NEW q \in Requests, ListChanges(q) PROVE Current' /\ Noticed' /\ Blamed'
  <2>1. q = FirstRequest /\ Exists /\ Running = {} /\ appt' = appt
    BY <1>3 DEF ListChanges, OneId, Exists
  <2>2. push'.step = "listed" /\ push'.item = q /\ push'.seen = event[q]
    BY <1>3 DEF ListChanges, PushIdle
  <2> QED
    BY <1>1, <1>2, <2>1, <2>2 DEF Current, Noticed, Blamed
<1>4. CASE Compare
  <2>1. push.step = "listed" /\ push.item = FirstRequest /\ Exists /\ Running = {}
        /\ push.seen = event[FirstRequest] /\ appt' = appt /\ unseen' = unseen
    BY <1>1, <1>4 DEF Compare, Current
  <2>2. ~Unrecorded
    BY <1>4 DEF Compare
  <2>3. event[FirstRequest] # NoEvent
    BY <2>1 DEF Exists, NoEvent
  <2>4. sync.event = FirstRequest
    BY <2>2, <2>3 DEF Unrecorded, OneId, First
  <2>5. push' = [push EXCEPT !.step = "compared", !.conflict = Drift(push.seen)]
    BY <1>4, <2>1, <2>4 DEF Compare
  <2>6. push'.step = "compared" /\ push'.item = FirstRequest /\ push'.seen = event[FirstRequest]
        /\ push'.conflict = Drift(event[FirstRequest])
    BY <2>1, <2>5 DEF TypeOK, PushRecords
  <2> QED
    BY <1>1, <1>2, <2>1, <2>4, <2>6 DEF Current, Noticed, Blamed
<1>5. CASE WriteConflict
  <2>1. push.step = "compared" /\ Running = {} /\ sync.event = FirstRequest
        /\ push.conflict = Drift(event[FirstRequest]) /\ unseen' = unseen
    BY <1>1, <1>5 DEF WriteConflict, Current
  <2>2. push'.step = "idle"
    BY <1>5 DEF WriteConflict, PushIdle
  <2>3. appt'.status = IF Drift(event[FirstRequest]) THEN "conflict" ELSE appt.status
    BY <1>5, <2>1 DEF WriteConflict, TypeOK
  <2>4. Drift(event[FirstRequest]) => edited \/ overtaken \/ jobs # {}
    BY DEF Undisturbed, Recorded, Right, Drift
  <2> QED
    BY <1>1, <1>2, <2>1, <2>2, <2>3, <2>4 DEF Current, Noticed, Blamed
<1> QED
  BY <1>3, <1>4, <1>5

LEMMA PushInvStep ==
  ASSUME Inv, PushInv, [Next]_vars
  PROVE  PushInv'
<1>1. TypeOK /\ OneId /\ Undisturbed /\ Owned /\ OnlySyncs /\ Watched
      /\ (push.step = "idle" => push = PushIdle)
  BY DEF Inv, PushInv
<1>2. Owned' /\ OnlySyncs'
  BY <1>1, JobsKept
<1>3. push'.step = "idle" => push' = PushIdle
  <2>0. push \in PushRecords
    BY <1>1 DEF TypeOK
  <2>1. CASE Compare \/ WriteConflict \/ \E q \in Requests : ListChanges(q)
    <3>1. CASE Compare
      <4>1. push' = PushIdle \/ push'.step = "compared"
        BY <2>0, <3>1 DEF Compare, PushRecords
      <4> QED
        BY <4>1
    <3>2. CASE WriteConflict
      BY <3>2 DEF WriteConflict
    <3>3. ASSUME NEW q \in Requests, ListChanges(q) PROVE push'.step = "listed"
      BY <3>3 DEF ListChanges, PushIdle
    <3> QED
      BY <2>1, <3>1, <3>2, <3>3
  <2>2. CASE ~(Compare \/ WriteConflict \/ \E q \in Requests : ListChanges(q))
    <3>1. push' = push
      BY <2>2 DEF Next, WorkerStep, Reschedule, Cancel, RetrySync, Take, LoadForDeletion, Call,
         EtagRefused, ReadAgain, Persist, MarkCancelled, RecordFailure, Fails, Crash,
         OrganiserEdits, vars
    <3> QED
      BY <1>1, <3>1
  <2> QED
    BY <2>1, <2>2
<1>4. ASSUME appt'.active, ~crossed' PROVE Current' /\ Noticed' /\ Blamed'
  <2>1. appt.active
    BY <1>1, <1>4 DEF Next, WorkerStep, Reschedule, Cancel, RetrySync, Take, LoadForDeletion, Call,
       EtagRefused, ReadAgain, Persist, MarkCancelled, RecordFailure, Fails, Crash,
       OrganiserEdits, ListChanges, Compare, WriteConflict, vars, TypeOK
  <2>2. CASE Compare \/ WriteConflict \/ \E q \in Requests : ListChanges(q)
    BY <1>1, <1>4, <2>1, <2>2, WatchedOfPush
  <2>3. CASE UNCHANGED vars
    BY <1>1, <1>4, <2>1, <2>3 DEF vars, history, Watched, Current, Noticed, Blamed, Running, Exists, Drift
  <2>4. CASE ~(Compare \/ WriteConflict \/ \E q \in Requests : ListChanges(q)) /\ ~UNCHANGED vars
    <3>1. ~crossed /\ push = PushIdle /\ push' = push
      BY <1>1, <1>4, <2>4, BesidePush
    <3>2. push.step = "idle" /\ Noticed /\ Blamed
      BY <1>1, <2>1, <3>1 DEF Watched, PushIdle
    <3>3. Current'
      BY <3>1, <3>2 DEF Current
    <3>4. ASSUME NEW w \in Workers, WorkerStep(w) \/ Fails(w) \/ Crash(w) PROVE Noticed' /\ Blamed'
      BY <1>1, <2>1, <3>1, <3>2, <3>4, WatchedOfWorker
    <3>5. CASE \/ \E t \in Times : Reschedule(t)
               \/ \E conference \in BOOLEAN : RetrySync(conference)
      <4>1. UNCHANGED <<sync, event, worker, unseen>> /\ jobs' # {}
        BY <3>5 DEF Reschedule, RetrySync, Enqueue
      <4>2. Running' = Running /\ Exists' = Exists
        BY <4>1 DEF Running, Exists
      <4>3. Noticed'
        BY <3>1, <3>2, <4>1, <4>2 DEF Noticed
      <4> QED
        BY <3>3, <4>1, <4>3 DEF Blamed
    <3>6. ASSUME NEW q \in Requests, NEW t \in Times \cup {None}, OrganiserEdits(q, t)
          PROVE  Noticed' /\ Blamed'
      BY <3>6 DEF OrganiserEdits, Noticed, Blamed
    <3>7. CASE Cancel
      BY <1>1, <1>4, <3>7 DEF Cancel, TypeOK
    <3> QED
      BY <2>4, <3>3, <3>4, <3>5, <3>6, <3>7 DEF Next
  <2> QED
    BY <2>2, <2>3, <2>4
<1> QED
  BY <1>2, <1>3, <1>4 DEF PushInv, Watched

LEMMA PushInvStart == Init => PushInv
<1> SUFFICES ASSUME Init PROVE PushInv
  OBVIOUS
<1>1. Running = {} /\ push = PushIdle /\ push.step = "idle"
  BY DEF Init, Running, Idle, PushIdle
<1>2. \A q \in Requests : event[q].state = "absent"
  BY DEF Init, NoEvent
<1>3. jobs = {[n |-> 1, kind |-> "sync", retry |-> FALSE]}
  BY DEF Init
<1>4. jobs # {} /\ \A j \in jobs : j.kind = "sync"
  BY <1>3
<1>5. Owned /\ OnlySyncs
  BY <1>1, <1>4 DEF Owned, OnlySyncs
<1> QED
  BY <1>1, <1>2, <1>5, CalendarAssumption
  DEF Init, PushInv, Watched, Current, Noticed, Blamed, Exists

--------------------------------------------------------------------------------
(* Theorems *)

\* Every variable keeps its type: events only ever hang on request ids.
THEOREM TypesHold == Spec => []TypeOK
BY InvHolds, PTL DEF Inv

\* An appointment never gets a second event: whatever is retried, lost or run twice,
\* an event is only ever created under the request id of the booking.
THEOREM NoSecondEvent == Spec => []OneEvent
<1>1. Inv => OneEvent
  BY DEF Inv, OneId, OneEvent
<1> QED
  BY <1>1, InvHolds, PTL

\* Unless a change overtakes a job, the calendar agrees with the appointment once
\* its jobs are done.
THEOREM CalendarFollows == Spec => []CalendarAgrees
<1>1. Inv => CalendarAgrees
  <2> SUFFICES ASSUME OneId, Undisturbed, Settled, ~overtaken, ~edited
               PROVE  /\ appt.active => sync.event # None /\ event[sync.event].state = "alive"
                                         /\ event[sync.event].time = appt.time
                      /\ ~appt.active => Alive = {}
    BY DEF Inv, CalendarAgrees
  <2>1. Recorded /\ jobs = {}
    BY DEF Undisturbed, Settled
  <2>2. sync.event \in {None, FirstRequest}
    BY DEF OneId, First
  <2>3. appt.active => sync.event # None /\ Right
    BY <2>1 DEF Recorded
  <2>4. ~appt.active => Gone
    BY <2>1 DEF Recorded
  <2>5. \A q \in Requests : event[q].state = "alive" => q = FirstRequest
    BY DEF OneId, NoEvent
  <2> QED
    BY <2>2, <2>3, <2>4, <2>5 DEF Right, Gone, Alive
<1> QED
  BY <1>1, InvHolds, PTL

\* What is shown as pending has a job: every step that ends a job says how it ended.
THEOREM PendingIsSettled == Spec => []PendingHasJob
<1>1. Init => PendingHasJob
  BY DEF Init, PendingHasJob
<1>2. TypeOK /\ PendingHasJob /\ [Next]_vars => PendingHasJob'
  <2> SUFFICES ASSUME TypeOK, PendingHasJob, [Next]_vars PROVE PendingHasJob'
    OBVIOUS
  <2>1. CASE \/ \E t \in Times : Reschedule(t)
             \/ \E conference \in BOOLEAN : RetrySync(conference)
    BY <2>1 DEF Reschedule, RetrySync, Enqueue, PendingHasJob
  <2>2. CASE Cancel
    <3>1. CASE sync.event = None
      <4>1. appt'.status = "cancelled"
        BY <2>2, <3>1 DEF Cancel, TypeOK
      <4> QED
        BY <4>1 DEF PendingHasJob
    <3>2. CASE sync.event # None
      BY <2>2, <3>2 DEF Cancel, Enqueue, PendingHasJob
    <3> QED
      BY <3>1, <3>2
  <2>3. ASSUME NEW w \in Workers, Persist(w) \/ MarkCancelled(w) \/ RecordFailure(w)
        PROVE  PendingHasJob'
    <3>1. appt'.status # "pending"
      BY <2>3 DEF Persist, MarkCancelled, RecordFailure, TypeOK
    <3> QED
      BY <3>1 DEF PendingHasJob
  <2>4. ASSUME NEW w \in Workers,
               \/ \E j \in jobs : Take(w, j)
               \/ LoadForDeletion(w) \/ Call(w) \/ EtagRefused(w) \/ ReadAgain(w)
               \/ Fails(w) \/ Crash(w)
        PROVE  PendingHasJob'
    BY <2>4 DEF Take, LoadForDeletion, Call, EtagRefused, ReadAgain, Fails, Crash, PendingHasJob
  <2>5. CASE \/ \E q \in Requests, t \in Times \cup {None} : OrganiserEdits(q, t)
             \/ \E q \in Requests : ListChanges(q)
             \/ Compare \/ UNCHANGED vars
    BY <2>5 DEF OrganiserEdits, ListChanges, Compare, vars, PendingHasJob
  <2>6. CASE WriteConflict
    <3>1. jobs' = jobs /\ (appt'.status = "conflict" \/ appt' = appt)
      BY <2>6 DEF WriteConflict, TypeOK
    <3> QED
      BY <3>1 DEF PendingHasJob
  <2> QED
    BY <2>1, <2>2, <2>3, <2>4, <2>5, <2>6 DEF Next, WorkerStep
<1>3. Inv => TypeOK
  BY DEF Inv
<1> QED
  BY <1>1, <1>2, <1>3, InvHolds, PTL DEF Spec

\* Once jobs and pushes are done and no push ran beside them, staff are shown an
\* event that is not where the appointment is, and no conflict of the platform's
\* own making (calendar.ts, calendar.process_push).
THEOREM DriftShown == Spec => []DriftIsShown
<1>1. Inv /\ PushInv => DriftIsShown
  <2> SUFFICES ASSUME Inv, PushInv, Settled, push = PushIdle, ~unseen, ~overtaken, ~crossed, appt.active
               PROVE  /\ Drift(event[sync.event]) => appt.status = "conflict"
                      /\ appt.status = "conflict" => edited
    BY DEF DriftIsShown
  <2>1. jobs = {} /\ push.step = "idle"
    BY DEF Settled, PushIdle
  <2>2. sync.event = FirstRequest /\ Exists
    BY <2>1 DEF Inv, PushInv, OnlySyncs, OneId, First
  <2> QED
    BY <2>1, <2>2 DEF PushInv, Watched, Noticed, Blamed
<1>2. Inv /\ PushInv /\ [Next]_vars => PushInv'
  BY PushInvStep
<1> QED
  BY <1>1, <1>2, PushInvStart, InvHolds, PTL DEF Spec

================================================================================
