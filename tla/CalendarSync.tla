------------------------------ MODULE CalendarSync ------------------------------
(***************************************************************************)
(* The event of one appointment in the organiser's calendar                 *)
(* (apps/worker/src/handlers/calendar.ts, jobs enqueued by                  *)
(* apps/web/src/server/appointments/mutate.ts).                             *)
(*                                                                          *)
(* A job reads the appointment and its event_syncs row, calls the calendar  *)
(* outside any transaction, and writes the result by row id.  Meanwhile the *)
(* appointment is rescheduled or cancelled, other jobs of the same          *)
(* appointment run, the organiser edits the event, and the push job         *)
(* compares the event with the appointment.  Calls fail, answers get lost   *)
(* and workers die; the queue then runs the job again.                      *)
(*                                                                          *)
(* The Meet conference is only seen here through the request id that names  *)
(* the event when it is created.  Credentials and watch channels are left   *)
(* out.  A lease outlives its job (see JobQueue for those that do not), and *)
(* jobs do not run out of attempts within the bound on faults.              *)
(***************************************************************************)
EXTENDS Naturals

CONSTANTS
  Workers,      \* workers of the queue "calendar"
  Times,        \* times the appointment may have
  Booked,       \* the time it was booked for
  Requests,     \* conference request ids; an event id is derived from one
  FirstRequest, \* the one of the booking
  None,
  MaxDisturbances \* bound: reschedules, retries asked for by staff, edits by the
                  \* organiser, refused calls, lost answers and crashes together

ASSUME CalendarAssumption ==
  /\ None \notin Times \cup Requests
  /\ Booked \in Times /\ FirstRequest \in Requests
  /\ MaxDisturbances \in Nat

VARIABLES
  appt,       \* the appointment: active, its time, calendarSyncStatus
  sync,       \* its event_syncs row: providerEventId, etag, conferenceRequestId
  event,      \* the events at the provider
  jobs,       \* jobs of the appointment that are not done
  worker,     \* what each worker knows of the job it runs
  push,       \* the push job: what it listed and decided
  unseen,     \* the event changed since the last push was listed
  enqueued,   \* jobs so far
  disturbances,
  overtaken,  \* history: the appointment changed under a job, or under an event
              \* that was created and not recorded
  edited,     \* history: the organiser edited the event
  crossed     \* history: a push ran beside a change or a job, or before the
              \* event was recorded

counters == <<enqueued, disturbances>>
history == <<overtaken, edited, crossed>>
vars == <<appt, sync, event, jobs, worker, push, unseen, counters, history>>

Job == [n : Nat, kind : {"sync", "cancel"}, retry : BOOLEAN]
NoEvent == [state |-> "absent", time |-> None, etag |-> 0]
Idle == [step |-> "idle", job |-> None, delete |-> FALSE, time |-> None, event |-> None,
         etag |-> 0, request |-> None]
PushIdle == [step |-> "idle", item |-> None, seen |-> NoEvent, conflict |-> FALSE]

Events == [state : {"absent", "alive", "deleted"}, time : Times \cup {None}, etag : Nat]
Steps == {"idle", "started", "loaded", "refused", "again", "answered", "failing"}

WorkerRecords ==
  [step : Steps, job : Job \cup {None}, delete : BOOLEAN, time : Times \cup {None},
   event : Requests \cup {None}, etag : Nat, request : Requests \cup {None}]
PushRecords ==
  [step : {"idle", "listed", "compared"}, item : Requests \cup {None}, seen : Events,
   conflict : BOOLEAN]

TypeOK ==
  /\ appt \in [active : BOOLEAN, time : Times,
               status : {"pending", "synced", "failed", "conflict", "cancelled"}]
  /\ sync \in [event : Requests \cup {None}, etag : Nat, request : Requests]
  /\ event \in [Requests -> Events]
  /\ jobs \subseteq Job
  /\ worker \in [Workers -> WorkerRecords]
  /\ push \in PushRecords
  /\ unseen \in BOOLEAN /\ overtaken \in BOOLEAN /\ edited \in BOOLEAN /\ crossed \in BOOLEAN
  /\ enqueued \in Nat
  /\ disturbances \in 0..MaxDisturbances

\* createBooking has just committed.
Init ==
  /\ appt = [active |-> TRUE, time |-> Booked, status |-> "pending"]
  /\ sync = [event |-> None, etag |-> 0, request |-> FirstRequest]
  /\ event = [q \in Requests |-> NoEvent]
  /\ jobs = {[n |-> 1, kind |-> "sync", retry |-> FALSE]} /\ enqueued = 1
  /\ worker = [w \in Workers |-> Idle]
  /\ push = PushIdle /\ unseen = FALSE
  /\ disturbances = 0
  /\ overtaken = FALSE /\ edited = FALSE /\ crossed = FALSE

--------------------------------------------------------------------------------
(* What the web application does *)

Running == {w \in Workers : worker[w].step # "idle"}
Alive == {q \in Requests : event[q].state = "alive"}
Unrecorded == sync.event = None /\ \E q \in Requests : event[q] # NoEvent

Disturbance ==
  /\ disturbances < MaxDisturbances
  /\ disturbances' = disturbances + 1

Enqueue(kind, retry) ==
  /\ enqueued' = enqueued + 1
  /\ jobs' = jobs \cup {[n |-> enqueued + 1, kind |-> kind, retry |-> retry]}

\* The appointment changes while others work with what they read of it.
ChangesUnderway ==
  /\ overtaken' = (overtaken \/ Running # {} \/ Unrecorded)
  /\ crossed' = (crossed \/ push # PushIdle)

Reschedule(t) ==
  /\ appt.active /\ t # appt.time /\ Disturbance
  /\ appt' = [appt EXCEPT !.time = t, !.status = "pending"]
  /\ Enqueue("sync", FALSE)
  /\ ChangesUnderway
  /\ UNCHANGED <<sync, event, worker, push, unseen, edited>>

\* A cancellation asks for the event to be deleted if it knows of one.
Cancel ==
  /\ appt.active
  /\ appt' = [appt EXCEPT !.active = FALSE,
                          !.status = IF sync.event # None THEN "pending" ELSE "cancelled"]
  /\ IF sync.event # None THEN Enqueue("cancel", FALSE) ELSE UNCHANGED <<jobs, enqueued>>
  /\ ChangesUnderway
  /\ UNCHANGED <<sync, event, worker, push, unseen, disturbances, edited>>

\* retryCalendarSync; a failed conference asks for a new request id.
RetrySync(conference) ==
  /\ appt.active /\ Disturbance
  /\ appt' = [appt EXCEPT !.status = "pending"]
  /\ Enqueue("sync", conference)
  /\ crossed' = (crossed \/ push # PushIdle)
  /\ UNCHANGED <<sync, event, worker, push, unseen, edited, overtaken>>

--------------------------------------------------------------------------------
(* The jobs calendar.sync_event and calendar.cancel_event *)

\* A step of a worker that is beside a push.
Beside == crossed' = (crossed \/ push # PushIdle)

\* A retry of a conference takes a new request id, if there is an event to ask it for.
NewRequest_Always(j) ==
  IF j.retry THEN {q \in Requests : event[q] = NoEvent /\ q # sync.request} ELSE {sync.request}
NewRequest(j) ==
  IF j.retry /\ sync.event # None
    THEN {q \in Requests : event[q] = NoEvent /\ q # sync.request} ELSE {sync.request}

\* loadSyncContext: what a job knows when it has read the appointment and the row.
\* Without an event there is nothing to delete.
Loaded(j, delete, q) ==
  [step |-> IF delete /\ sync.event = None THEN "answered" ELSE "loaded", job |-> j,
   delete |-> delete, time |-> appt.time, event |-> sync.event, etag |-> sync.etag, request |-> q]

\* A synchronisation that finds the appointment cancelled becomes a deletion,
\* which reads again.
Take(w, j) ==
  /\ worker[w].step = "idle"
  /\ j \in jobs /\ \A v \in Workers : worker[v].job # j
  /\ IF j.kind = "sync" /\ ~appt.active
       THEN worker' = [worker EXCEPT ![w] = [Idle EXCEPT !.step = "started", !.job = j, !.delete = TRUE]]
       ELSE \E q \in NewRequest(j) :
              worker' = [worker EXCEPT ![w] = Loaded(j, j.kind = "cancel", q)]
  /\ Beside
  /\ UNCHANGED <<appt, sync, event, jobs, push, unseen, counters, edited, overtaken>>

LoadForDeletion(w) ==
  /\ worker[w].step = "started"
  /\ worker' = [worker EXCEPT ![w] = Loaded(worker[w].job, TRUE, sync.request)]
  /\ Beside
  /\ UNCHANGED <<appt, sync, event, jobs, push, unseen, counters, edited, overtaken>>

Touched(e, changed) == [changed EXCEPT !.etag = e.etag + 1]

\* What a call does to the events: createEvent answers with the event of the
\* same request id if there is one (409), updateEvent and cancelEvent want the
\* etag (412); a deleted event stays deleted.  A new record is the etag known.
Created(w) ==
  /\ ~worker[w].delete /\ worker[w].event = None
  /\ LET q == worker[w].request
     IN  /\ event' = IF event[q] = NoEvent
                       THEN [event EXCEPT ![q] = [state |-> "alive", time |-> worker[w].time, etag |-> 1]]
                       ELSE event
         /\ worker' = [worker EXCEPT ![w] = [@ EXCEPT !.step = "answered", !.event = q,
                                                      !.etag = event'[q].etag]]

\* cancelEvent of a deleted event is told that it is gone, whatever the etag.
EtagFits(w) == LET e == event[worker[w].event]
               IN  worker[w].etag = e.etag \/ (worker[w].delete /\ e.state = "deleted")

Written(w, e) == IF worker[w].delete THEN [e EXCEPT !.state = "deleted"]
                                     ELSE [e EXCEPT !.time = worker[w].time]
Changed(w) ==
  /\ worker[w].event # None
  /\ EtagFits(w)
  /\ LET e == event[worker[w].event]
         n == IF worker[w].delete /\ e.state = "deleted" THEN e ELSE Touched(e, Written(w, e))
     IN  /\ event' = [event EXCEPT ![worker[w].event] = n]
         /\ worker' = [worker EXCEPT ![w] = [@ EXCEPT !.step = "answered", !.etag = n.etag]]

Call(w) ==
  /\ worker[w].step \in {"loaded", "again"}
  /\ Created(w) \/ Changed(w)
  /\ unseen' = (unseen \/ event' # event)
  /\ Beside
  /\ UNCHANGED <<appt, sync, jobs, push, counters, edited, overtaken>>

\* 412: once the event is read again, a second time the job fails.
EtagRefused_NoReread(w) ==
  /\ worker[w].step \in {"loaded", "again"} /\ worker[w].event # None /\ ~EtagFits(w)
  /\ worker' = [worker EXCEPT ![w].step = "loaded"]
  /\ Beside
  /\ UNCHANGED <<appt, sync, event, jobs, push, unseen, counters, edited, overtaken>>
EtagRefused(w) ==
  /\ worker[w].step \in {"loaded", "again"} /\ worker[w].event # None /\ ~EtagFits(w)
  /\ worker' = [worker EXCEPT ![w].step = IF @ = "loaded" THEN "refused" ELSE "failing"]
  /\ Beside
  /\ UNCHANGED <<appt, sync, event, jobs, push, unseen, counters, edited, overtaken>>

ReadAgain(w) ==
  /\ worker[w].step = "refused"
  /\ worker' = [worker EXCEPT ![w] = [@ EXCEPT !.step = "again", !.etag = event[worker[w].event].etag]]
  /\ Beside
  /\ UNCHANGED <<appt, sync, event, jobs, push, unseen, counters, edited, overtaken>>

Done(w) ==
  /\ worker' = [worker EXCEPT ![w] = Idle]
  /\ jobs' = jobs \ {worker[w].job}

\* persistEventResult writes by id; the job ends with it.
Persist_EtagOnly(w) ==
  /\ worker[w].step = "answered" /\ ~worker[w].delete
  /\ sync' = [sync EXCEPT !.etag = worker[w].etag]
  /\ appt' = [appt EXCEPT !.status = "synced"]
  /\ Done(w)
  /\ Beside
  /\ UNCHANGED <<event, push, unseen, counters, edited, overtaken>>
Persist_NoStatus(w) ==
  /\ worker[w].step = "answered" /\ ~worker[w].delete
  /\ sync' = [event |-> worker[w].event, etag |-> worker[w].etag, request |-> worker[w].request]
  /\ Done(w)
  /\ Beside
  /\ UNCHANGED <<appt, event, push, unseen, counters, edited, overtaken>>
Persist(w) ==
  /\ worker[w].step = "answered" /\ ~worker[w].delete
  /\ sync' = [event |-> worker[w].event, etag |-> worker[w].etag, request |-> worker[w].request]
  /\ appt' = [appt EXCEPT !.status = "synced"]
  /\ Done(w)
  /\ Beside
  /\ UNCHANGED <<event, push, unseen, counters, edited, overtaken>>

\* markCancelled
MarkCancelled(w) ==
  /\ worker[w].step = "answered" /\ worker[w].delete
  /\ appt' = [appt EXCEPT !.status = "cancelled"]
  /\ Done(w)
  /\ Beside
  /\ UNCHANGED <<sync, event, push, unseen, counters, edited, overtaken>>

\* recordSyncFailure; the error goes to the queue, which runs the job again.
RecordFailure(w) ==
  /\ worker[w].step = "failing"
  /\ appt' = [appt EXCEPT !.status = "failed"]
  /\ worker' = [worker EXCEPT ![w] = Idle]
  /\ Beside
  /\ UNCHANGED <<sync, event, jobs, push, unseen, counters, edited, overtaken>>

\* A call is refused, or its answer or the transaction that records it is lost.
Fails(w) ==
  /\ worker[w].step \in {"loaded", "again", "refused", "answered"} /\ Disturbance
  /\ worker' = [worker EXCEPT ![w].step = "failing"]
  /\ Beside
  /\ UNCHANGED <<appt, sync, event, jobs, push, unseen, enqueued, edited, overtaken>>

Crash(w) ==
  /\ worker[w].step # "idle" /\ Disturbance
  /\ worker' = [worker EXCEPT ![w] = Idle]
  /\ Beside
  /\ UNCHANGED <<appt, sync, event, jobs, push, unseen, enqueued, edited, overtaken>>

--------------------------------------------------------------------------------
(* The organiser, and the job calendar.process_push *)

OrganiserEdits(q, t) ==
  /\ event[q].state = "alive" /\ Disturbance
  /\ event' = [event EXCEPT ![q] = IF t = None THEN Touched(@, [@ EXCEPT !.state = "deleted"])
                                               ELSE Touched(@, [@ EXCEPT !.time = t])]
  /\ unseen' = TRUE /\ edited' = TRUE
  /\ crossed' = (crossed \/ push # PushIdle)
  /\ UNCHANGED <<appt, sync, jobs, worker, push, enqueued, overtaken>>

ListChanges(q) ==
  /\ push.step = "idle" /\ unseen /\ event[q] # NoEvent
  /\ unseen' = FALSE
  /\ push' = [PushIdle EXCEPT !.step = "listed", !.item = q, !.seen = event[q]]
  /\ crossed' = (crossed \/ Running # {})
  /\ UNCHANGED <<appt, sync, event, jobs, worker, counters, edited, overtaken>>

\* An item of no appointment is skipped; one that differs from it is a conflict.
Drift(e) == appt.active /\ (e.state = "deleted" \/ e.time # appt.time)
Compare ==
  /\ push.step = "listed"
  /\ push' = IF push.item # sync.event THEN PushIdle
             ELSE [push EXCEPT !.step = "compared", !.conflict = Drift(push.seen)]
  /\ crossed' = (crossed \/ Unrecorded)
  /\ UNCHANGED <<appt, sync, event, jobs, worker, unseen, counters, edited, overtaken>>

WriteConflict_Never ==
  /\ push.step = "compared"
  /\ sync' = [sync EXCEPT !.etag = push.seen.etag]
  /\ push' = PushIdle
  /\ UNCHANGED <<appt, event, jobs, worker, unseen, counters, history>>
WriteConflict ==
  /\ push.step = "compared"
  /\ sync' = [sync EXCEPT !.etag = push.seen.etag]
  /\ appt' = IF push.conflict THEN [appt EXCEPT !.status = "conflict"] ELSE appt
  /\ push' = PushIdle
  /\ UNCHANGED <<event, jobs, worker, unseen, counters, history>>

WorkerStep(w) ==
  \/ \E j \in jobs : Take(w, j)
  \/ LoadForDeletion(w) \/ Call(w) \/ EtagRefused(w) \/ ReadAgain(w)
  \/ Persist(w) \/ MarkCancelled(w) \/ RecordFailure(w)

Next ==
  \/ \E t \in Times : Reschedule(t)
  \/ Cancel
  \/ \E conference \in BOOLEAN : RetrySync(conference)
  \/ \E w \in Workers : WorkerStep(w) \/ Fails(w) \/ Crash(w)
  \/ \E q \in Requests, t \in Times \cup {None} : OrganiserEdits(q, t)
  \/ \E q \in Requests : ListChanges(q)
  \/ Compare \/ WriteConflict

Spec == Init /\ [][Next]_vars

\* Workers keep taking jobs and finish what they take (see JobQueue).
FairSpec == Spec /\ \A w \in Workers : WF_vars(WorkerStep(w))

--------------------------------------------------------------------------------
(* Properties *)

Settled == jobs = {} /\ Running = {}

\* Retries, lost answers, concurrent jobs and new conference requests never make a
\* second event for the appointment (google.ts:329-336, calendar.ts:588).
OneEvent == \A p, q \in Requests : event[p] # NoEvent /\ event[q] # NoEvent => p = q

\* An appointment shown as pending has a job that will settle it; none is left
\* pending by a job that ran on an older state of it (mutate.ts:162, 242, 366).
PendingHasJob == appt.status = "pending" => jobs # {}

\* If the appointment never changed under a running job or an unrecorded event,
\* then, once its jobs are done, the calendar agrees: one event at its time, or
\* none alive, whatever was refused, lost, repeated or ran concurrently
\* (calendar.ts:566-734).  Edits of the organiser are the business of the push.
CalendarAgrees ==
  Settled /\ ~overtaken /\ ~edited =>
    /\ appt.active => sync.event # None /\ event[sync.event].state = "alive"
                      /\ event[sync.event].time = appt.time
    /\ ~appt.active => Alive = {}

\* When all jobs and pushes are done, and no push ran beside them, staff are shown
\* an event that is not where the appointment is, and no conflict unless the
\* organiser edited: the platform never takes a write of its own for one
\* (calendar.ts:943-985).
DriftIsShown ==
  Settled /\ push = PushIdle /\ ~unseen /\ ~overtaken /\ ~crossed /\ appt.active =>
    /\ Drift(event[sync.event]) => appt.status = "conflict"
    /\ appt.status = "conflict" => edited

\* Every job comes to an end: the second answer 412 fails a job, it does not spin.
EventuallySettled == <>[]Settled

================================================================================
