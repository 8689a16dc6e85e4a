-------------------------------- MODULE Booking --------------------------------
(***************************************************************************)
(* Appointments and the slots they take                                     *)
(* (apps/web/src/server/appointments, bookings.expire_holds and             *)
(* appointments.scan_reminders of the worker).                              *)
(*                                                                          *)
(* A slot of a staff member is held, then booked, rescheduled or cancelled; *)
(* one row of slot_reservations says who has it.  Each request is one       *)
(* transaction under row locks, but it reads the clock before it waits for  *)
(* them.  The reminder scan reads appointments without a lock and writes    *)
(* them back later.                                                         *)
(*                                                                          *)
(* The proposal of staffAvailableFor (windows, holidays, buffers, Google's  *)
(* free/busy) only narrows what the exclusion constraint decides and is     *)
(* left out, and so is the notice that customers, not staff, must give.     *)
(***************************************************************************)
EXTENDS Integers, FiniteSets

CONSTANTS
  Slots,         \* slots of staff members: [staff, from, to]
  Reservations,  \* ids (and hold tokens) of rows of slot_reservations
  Appointments,
  Scanners,      \* workers running appointments.scan_reminders
  None,
  Leads,         \* reminder_hours
  HoldTtl,       \* hold_ttl_minutes
  MaxDelay,      \* how long a request may wait after it read the clock
  MaxTime        \* bound: the last instant

ASSUME BookingAssumption ==
  /\ \A s \in Slots : s.from \in Nat /\ s.to \in Nat /\ s.from < s.to
  /\ None \notin Slots \cup Appointments
  /\ IsFiniteSet(Leads) /\ Leads \subseteq Nat \ {0}
  /\ HoldTtl \in Nat \ {0} /\ MaxDelay \in Nat /\ MaxTime \in Nat

VARIABLES
  now,
  row,        \* slot_reservations
  appt,       \* appointments: status, startsAt..endsAt, remindersSent
  scan,       \* the appointments each scan has read and not yet written
  reminded,   \* history: reminders emitted since an appointment got its time, by lead
  misled,     \* history: a reminder was sent for a time or an appointment given up
  overtaken   \* history: an appointment changed between the read and the write of a scan

vars == <<now, row, appt, scan, reminded, misled, overtaken>>

Active == {"pending_confirmation", "confirmed", "rescheduled"}
NoRow == [kind |-> "absent", slot |-> None, expires |-> 0, of |-> None]
Rows ==
  [kind : {"absent", "gone"}, slot : {None}, expires : {0}, of : {None}]
    \cup [kind : {"hold"}, slot : Slots, expires : Nat, of : {None}]
    \cup [kind : {"leave"}, slot : Slots, expires : {0}, of : {None}]
    \cup [kind : {"appointment"}, slot : Slots, expires : {0}, of : Appointments]
NoAppointment == [status |-> "absent", slot |-> None, sent |-> {}]
Appts ==
  {p \in [status : Active \cup {"absent", "cancelled"}, slot : Slots \cup {None}, sent : SUBSET Leads] :
     p.status # "absent" => p.slot \in Slots}
Seen == [of : Appointments, slot : Slots, lead : Leads, sent : SUBSET Leads]

TypeOK ==
  /\ now \in 0..MaxTime
  /\ row \in [Reservations -> Rows]
  /\ appt \in [Appointments -> Appts]
  /\ scan \in [Scanners -> SUBSET Seen]
  /\ reminded \in [Appointments -> [Leads -> Nat]]
  /\ misled \in BOOLEAN /\ overtaken \in BOOLEAN

Init ==
  /\ now = 0
  /\ row = [r \in Reservations |-> NoRow]
  /\ appt = [a \in Appointments |-> NoAppointment]
  /\ scan = [w \in Scanners |-> {}]
  /\ reminded = [a \in Appointments |-> [h \in Leads |-> 0]]
  /\ misled = FALSE /\ overtaken = FALSE

--------------------------------------------------------------------------------
(* Reservations *)

Overlap(s, t) == s.staff = t.staff /\ s.from < t.to /\ t.from < s.to
Taken(rows) == {r \in Reservations : rows[r].slot # None}

\* slot_reservations_no_overlap: the row may be inserted.
Free_LiveOnly(rows, s) ==
  \A r \in Taken(rows) :
    ~(rows[r].kind = "hold" /\ rows[r].expires <= now) => ~Overlap(rows[r].slot, s)
Free(rows, s) == \A r \in Taken(rows) : ~Overlap(rows[r].slot, s)

Deleted == [NoRow EXCEPT !.kind = "gone"]
Promoted(r, a) == [kind |-> "appointment", slot |-> row[r].slot, expires |-> 0, of |-> a]

\* The clock as a request read it.
RequestTimes == {at \in 0..now : now - at <= MaxDelay}

\* purgeExpiredHolds
Purged_Early(at) ==
  [r \in Reservations |->
     IF row[r].kind = "hold" /\ row[r].expires < at + 2 THEN Deleted ELSE row[r]]
Purged(at) ==
  [r \in Reservations |->
     IF row[r].kind = "hold" /\ row[r].expires < at THEN Deleted ELSE row[r]]

\* createHold: the purge is rolled back with the insert that finds no room.
CreateHold(r, s, at) ==
  /\ row[r] = NoRow
  /\ s.from > at
  /\ Free(Purged(at), s)
  /\ row' = [Purged(at) EXCEPT
               ![r] = [kind |-> "hold", slot |-> s, expires |-> at + HoldTtl, of |-> None]]
  /\ UNCHANGED <<now, appt, scan, reminded, misled, overtaken>>

\* bookings.expire_holds
ExpireHolds ==
  /\ row' = Purged(now)
  /\ UNCHANGED <<now, appt, scan, reminded, misled, overtaken>>

\* addTimeOff and removeTimeOff, of kind leave or block.
AddTimeOff(r, s) ==
  /\ row[r] = NoRow
  /\ Free(row, s)
  /\ row' = [row EXCEPT ![r] = [kind |-> "leave", slot |-> s, expires |-> 0, of |-> None]]
  /\ UNCHANGED <<now, appt, scan, reminded, misled, overtaken>>

RemoveTimeOff(r) ==
  /\ row[r].kind = "leave"
  /\ row' = [row EXCEPT ![r] = Deleted]
  /\ UNCHANGED <<now, appt, scan, reminded, misled, overtaken>>

\* lockHold: the row is found by its token, which a promoted row has lost.
HoldIsLive(r, at) == row[r].kind = "hold" /\ row[r].expires > at

--------------------------------------------------------------------------------
(* Appointments *)

\* createBooking; booking_settings.auto_confirm chooses the status.
CreateBooking(a, r, at) ==
  /\ appt[a] = NoAppointment
  /\ HoldIsLive(r, at)
  /\ \E status \in {"confirmed", "pending_confirmation"} :
       appt' = [appt EXCEPT ![a] = [status |-> status, slot |-> row[r].slot, sent |-> {}]]
  /\ row' = [row EXCEPT ![r] = Promoted(r, a)]
  /\ UNCHANGED <<now, scan, reminded, misled, overtaken>>

\* The rows without those of an appointment.
Released(a) == [q \in Reservations |-> IF row[q].of = a THEN Deleted ELSE row[q]]

InScan(a) == \E w \in Scanners : \E seen \in scan[w] : seen.of = a
NeverReminded == [h \in Leads |-> 0]

\* rescheduleAppointment: the row of the old time goes, the hold becomes the new one.
Rescheduled_KeepReminders(a, r) ==
  [status |-> IF appt[a].status = "pending_confirmation" THEN "pending_confirmation"
                                                          ELSE "rescheduled",
   slot |-> row[r].slot, sent |-> appt[a].sent]
Rescheduled(a, r) ==
  [status |-> IF appt[a].status = "pending_confirmation" THEN "pending_confirmation"
                                                          ELSE "rescheduled",
   slot |-> row[r].slot, sent |-> {}]
RescheduleAppointment(a, r, at) ==
  /\ appt[a].status \in Active
  /\ HoldIsLive(r, at)
  /\ row' = [Released(a) EXCEPT ![r] = Promoted(r, a)]
  /\ appt' = [appt EXCEPT ![a] = Rescheduled(a, r)]
  /\ reminded' = [reminded EXCEPT ![a] = NeverReminded]
  /\ overtaken' = (overtaken \/ InScan(a))
  /\ UNCHANGED <<now, scan, misled>>

CancelAppointment_KeepRow(a) ==
  /\ appt[a].status \in Active
  /\ appt' = [appt EXCEPT ![a].status = "cancelled"]
  /\ overtaken' = (overtaken \/ InScan(a))
  /\ UNCHANGED <<now, row, scan, reminded, misled>>
CancelAppointment(a) ==
  /\ appt[a].status \in Active
  /\ row' = Released(a)
  /\ appt' = [appt EXCEPT ![a].status = "cancelled"]
  /\ overtaken' = (overtaken \/ InScan(a))
  /\ UNCHANGED <<now, scan, reminded, misled>>

ConfirmAppointment(a) ==
  /\ appt[a].status = "pending_confirmation"
  /\ appt' = [appt EXCEPT ![a].status = "confirmed"]
  /\ UNCHANGED <<now, row, scan, reminded, misled, overtaken>>

--------------------------------------------------------------------------------
(* appointments.scan_reminders *)

\* The lead times that have come and were not sent.
Due(a) == {h \in Leads : appt[a].slot.from - now <= h /\ h \notin appt[a].sent}
Upcoming == {a \in Appointments : appt[a].status \in {"confirmed", "rescheduled"} /\ appt[a].slot.from > now}
Tightest(H) == CHOOSE h \in H : \A k \in H : h <= k

ScanReads(w) ==
  /\ scan[w] = {}
  /\ LET due == {a \in Upcoming : Due(a) # {}}
     IN  scan' = [scan EXCEPT ![w] =
           {[of |-> a, slot |-> appt[a].slot, lead |-> Tightest(Due(a)),
             sent |-> appt[a].sent \cup Due(a)] : a \in due}]
  /\ UNCHANGED <<now, row, appt, reminded, misled, overtaken>>

SeenBy(w, a) == {seen \in scan[w] : seen.of = a}

\* One reminder for each appointment that was read, whatever it is by now; the
\* marks are written by id.
ScanWrites(w) ==
  /\ scan[w] # {}
  /\ appt' = [a \in Appointments |->
       IF SeenBy(w, a) = {} THEN appt[a]
       ELSE [appt[a] EXCEPT !.sent = (CHOOSE seen \in SeenBy(w, a) : TRUE).sent]]
  /\ reminded' = [a \in Appointments |-> [h \in Leads |->
       IF \E seen \in SeenBy(w, a) : seen.lead = h /\ seen.slot = appt[a].slot
         THEN reminded[a][h] + 1 ELSE reminded[a][h]]]
  /\ misled' = (misled \/ \E seen \in scan[w] :
       seen.slot # appt[seen.of].slot \/ appt[seen.of].status \notin Active)
  /\ overtaken' = (overtaken \/ \E v \in Scanners \ {w} : \E seen \in scan[v] :
       SeenBy(w, seen.of) # {})
  /\ scan' = [scan EXCEPT ![w] = {}]
  /\ UNCHANGED <<now, row>>

\* The scan is one transaction: when it dies it has written nothing.
ScanDies(w) ==
  /\ scan[w] # {}
  /\ scan' = [scan EXCEPT ![w] = {}]
  /\ UNCHANGED <<now, row, appt, reminded, misled, overtaken>>

Tick ==
  /\ now < MaxTime
  /\ now' = now + 1
  /\ UNCHANGED <<row, appt, scan, reminded, misled, overtaken>>

Next ==
  \/ \E r \in Reservations, s \in Slots, at \in RequestTimes : CreateHold(r, s, at)
  \/ \E r \in Reservations, s \in Slots : AddTimeOff(r, s)
  \/ \E r \in Reservations : RemoveTimeOff(r)
  \/ ExpireHolds
  \/ \E a \in Appointments, r \in Reservations, at \in RequestTimes :
       CreateBooking(a, r, at) \/ RescheduleAppointment(a, r, at)
  \/ \E a \in Appointments : CancelAppointment(a) \/ ConfirmAppointment(a)
  \/ \E w \in Scanners : ScanReads(w) \/ ScanWrites(w) \/ ScanDies(w)
  \/ Tick

Spec == Init /\ [][Next]_vars

--------------------------------------------------------------------------------
(* Properties *)

\* The rows that stand for an appointment.
RowsOf(a) == {r \in Reservations : row[r].of = a}

\* The two tables agree after any sequence of bookings, swaps, cancellations and
\* purges: an active appointment has one reservation, of its own time, and an
\* appointment that is not active has none (book.ts:157, mutate.ts:124-133, 236).
ReservationMatches ==
  \A a \in Appointments :
    IF appt[a].status \in Active
      THEN \E r \in Reservations : RowsOf(a) = {r} /\ row[r].slot = appt[a].slot
      ELSE RowsOf(a) = {}

\* No two active appointments of one staff member overlap, nor does one overlap
\* a hold or time off (holds.ts:13-18: "can never both hold it").
NoDoubleBooking ==
  \A a \in Appointments : appt[a].status \in Active =>
    /\ \A b \in Appointments \ {a} : appt[b].status \in Active => ~Overlap(appt[a].slot, appt[b].slot)
    /\ \A r \in Taken(row) : row[r].of # a => ~Overlap(appt[a].slot, row[r].slot)

\* Until it expires a hold ends in one way only, in an appointment at its time:
\* no purge, however its request read the clock, and no other customer takes the
\* slot (holds.ts:43-51, 150-182).
HeldIsKept ==
  [][\A r \in Reservations : row[r].kind = "hold" /\ now <= row[r].expires =>
       \/ row'[r] = row[r]
       \/ row'[r].kind = "appointment" /\ row'[r].slot = row[r].slot]_vars

\* Unless an appointment changes between the read and the write of a scan, a
\* reminder names the time of an active appointment, each lead time is used once
\* for each time the appointment gets, and a lead time is marked as sent only when
\* a reminder at least as late was sent for the present time
\* (worker calendar.ts:1015-1078; a reschedule resets the marks, mutate.ts:163).
RemindersMatch ==
  ~overtaken =>
    /\ ~misled
    /\ \A a \in Appointments :
         /\ \A h \in Leads : reminded[a][h] <= 1
         /\ \A h \in appt[a].sent : \E k \in Leads : k <= h /\ reminded[a][k] = 1

================================================================================
