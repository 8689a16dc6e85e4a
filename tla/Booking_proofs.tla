----------------------------- MODULE Booking_proofs -----------------------------
(***************************************************************************)
(* Proofs about Booking, for any slots, reservations, appointments, number  *)
(* of scanners and delays of requests.  The invariant says three things:    *)
(* no two rows overlap and the rows of an appointment are those it should   *)
(* have; a scan has seen each appointment once; and, while no appointment   *)
(* was overtaken, what a scan will write still fits the appointment.        *)
(***************************************************************************)
EXTENDS Booking, WellFoundedInduction, TLAPS

RowsDisjoint ==
  \A r, q \in Taken(row) : r # q => ~Overlap(row[r].slot, row[q].slot)

\* A scan has one record for an appointment.
SeenOnce ==
  \A w \in Scanners : \A s, t \in scan[w] : s.of = t.of => s = t

\* What a scan saw is still so, and it will mark the lead time it reminds of
\* together with later ones only.
SeenFits(seen) ==
  /\ appt[seen.of].status \in {"confirmed", "rescheduled"}
  /\ seen.slot = appt[seen.of].slot
  /\ seen.lead \in seen.sent /\ seen.lead \notin appt[seen.of].sent
  /\ \A h \in seen.sent : h \in appt[seen.of].sent \/ seen.lead <= h
  /\ appt[seen.of].sent \subseteq seen.sent

ScansFit == ~overtaken => \A w \in Scanners : \A seen \in scan[w] : SeenFits(seen)

\* A reminder that was sent is marked, and sent once.
Sent(a) ==
  /\ \A h \in Leads : reminded[a][h] <= 1 /\ (reminded[a][h] = 1 => h \in appt[a].sent)
  /\ \A h \in appt[a].sent : \E k \in Leads : k <= h /\ reminded[a][k] = 1

MarksFit == ~overtaken => ~misled /\ \A a \in Appointments : Sent(a)

TablesInv == TypeOK /\ RowsDisjoint /\ ReservationMatches
Inv == TypeOK /\ SeenOnce /\ ScansFit /\ MarksFit

--------------------------------------------------------------------------------
(* Facts about the operators *)

\* A set of lead times has a least element.
LEMMA TightestIsLeast ==
  ASSUME NEW H \in SUBSET Leads, H # {}
  PROVE  Tightest(H) \in H /\ \A k \in H : Tightest(H) <= k
<1>1. H \subseteq Nat
  BY BookingAssumption
<1> DEFINE Less == {p \in Nat \X Nat : p[1] < p[2]}
<1>2. IsWellFoundedOn(Less, Nat)
  BY NatLessThanWellFounded, Zenon DEF OpToRel
<1>3. PICK m \in H : \A k \in H : ~(<<k, m>> \in Less)
  <2> HIDE DEF Less
  <2>1. \A R, S, T : IsWellFoundedOn(R, S) /\ T \subseteq S /\ T # {}
          => \E x \in T : \A y \in T : ~(<<y, x>> \in R)
    BY WFMin, Zenon
  <2>2. \E x \in H : \A y \in H : ~(<<y, x>> \in Less)
    BY <1>1, <1>2, <2>1, Zenon
  <2> QED
    BY <2>2, Zenon
<1>4. ASSUME NEW k \in H PROVE m <= k
  <2>1. ~(<<k, m>> \in Less)
    BY <1>3
  <2>2. k \in Nat /\ m \in Nat
    BY <1>1
  <2>3. <<k, m>> \in Nat \X Nat /\ <<k, m>>[1] = k /\ <<k, m>>[2] = m
    BY <2>2
  <2>4. ~(k < m)
    BY <2>1, <2>3, Zenon
  <2> QED
    BY <2>2, <2>4
<1> QED
  BY <1>4 DEF Tightest

\* A purge deletes holds and touches nothing else.
LEMMA PurgedRows ==
  ASSUME TypeOK, NEW at \in Int, NEW r \in Reservations
  PROVE  /\ Purged(at)[r] \in Rows
         /\ Purged(at)[r] = row[r]
            \/ (row[r].kind = "hold" /\ row[r].expires < at /\ Purged(at)[r] = Deleted)
         /\ row[r].of # None => Purged(at)[r] = row[r]
         /\ Purged(at)[r].slot # None => Purged(at)[r] = row[r]
<1> Deleted \in Rows /\ Deleted.slot = None
  BY DEF Deleted, NoRow, Rows
<1> row[r] \in Rows
  BY DEF TypeOK
<1> QED
  BY DEF Purged, Rows

LEMMA RowTypes ==
  ASSUME TypeOK, NEW r \in Reservations
  PROVE  /\ row[r] \in Rows
         /\ row[r].slot \in Slots \cup {None} /\ row[r].of \in Appointments \cup {None}
         /\ row[r].kind \in {"hold", "leave", "appointment"} <=> row[r].slot # None
         /\ row[r].kind = "appointment" <=> row[r].of # None
         /\ row[r].kind = "hold" => row[r].slot \in Slots /\ row[r].of = None
BY BookingAssumption DEF TypeOK, Rows

LEMMA ApptTypes ==
  ASSUME TypeOK, NEW a \in Appointments
  PROVE  /\ appt[a].sent \in SUBSET Leads
         /\ appt[a].status \in Active \cup {"absent", "cancelled"}
         /\ appt[a].status # "absent" => appt[a].slot \in Slots
BY DEF TypeOK, Appts, Active

--------------------------------------------------------------------------------
(* Types *)

LEMMA TypesStart == Init => TypeOK
<1> SUFFICES ASSUME Init PROVE TypeOK
  OBVIOUS
<1>1. NoRow \in Rows /\ NoAppointment \in Appts
  BY DEF NoRow, Rows, NoAppointment, Appts
<1>2. now \in 0..MaxTime
  BY BookingAssumption DEF Init
<1> QED
  BY <1>1, <1>2 DEF Init, TypeOK

LEMMA TypesStep == TypeOK /\ [Next]_vars => TypeOK'
<1> SUFFICES ASSUME TypeOK, [Next]_vars PROVE TypeOK'
  OBVIOUS
<1> USE BookingAssumption
<1>a. ASSUME NEW at \in RequestTimes PROVE at \in Nat
  BY DEF RequestTimes, TypeOK
<1>b. Deleted \in Rows
  BY DEF Deleted, NoRow, Rows
<1>c. ASSUME NEW r \in Reservations, NEW a \in Appointments, row[r].kind = "hold"
      PROVE  Promoted(r, a) \in Rows
  BY <1>c, RowTypes DEF Promoted, Rows
<1>1. ASSUME NEW r \in Reservations, NEW s \in Slots, NEW at \in RequestTimes, CreateHold(r, s, at)
      PROVE  TypeOK'
  <2>1. Purged(at) \in [Reservations -> Rows]
    BY <1>a, PurgedRows DEF Purged
  <2>2. [kind |-> "hold", slot |-> s, expires |-> at + HoldTtl, of |-> None] \in Rows
    BY <1>a DEF Rows
  <2> QED
    BY <1>1, <2>1, <2>2 DEF CreateHold, TypeOK
<1>2. ASSUME NEW r \in Reservations, NEW s \in Slots, AddTimeOff(r, s)
      PROVE  TypeOK'
  BY <1>2 DEF AddTimeOff, TypeOK, Rows
<1>3. ASSUME NEW r \in Reservations, RemoveTimeOff(r) PROVE TypeOK'
  BY <1>3, <1>b DEF RemoveTimeOff, TypeOK
<1>4. CASE ExpireHolds
  <2>1. now \in Int
    BY DEF TypeOK
  <2>2. Purged(now) \in [Reservations -> Rows]
    BY <2>1, PurgedRows DEF Purged
  <2> QED
    BY <1>4, <2>2 DEF ExpireHolds, TypeOK
<1>5. ASSUME NEW a \in Appointments, NEW r \in Reservations, NEW at \in RequestTimes,
             CreateBooking(a, r, at)
      PROVE  TypeOK'
  <2>1. row[r].kind = "hold"
    BY <1>5 DEF CreateBooking, HoldIsLive
  <2>2. row[r].slot \in Slots
    BY <2>1, RowTypes
  <2> QED
    BY <1>5, <1>c, <2>1, <2>2 DEF CreateBooking, TypeOK, Appts, Active
<1>6. ASSUME NEW a \in Appointments, NEW r \in Reservations, NEW at \in RequestTimes,
             RescheduleAppointment(a, r, at)
      PROVE  TypeOK'
  <2>1. row[r].kind = "hold"
    BY <1>6 DEF RescheduleAppointment, HoldIsLive
  <2>2. row[r].slot \in Slots
    BY <2>1, RowTypes
  <2>3. row' \in [Reservations -> Rows]
    BY <1>6, <1>b, <1>c, <2>1 DEF RescheduleAppointment, Released, TypeOK
  <2>4. Rescheduled(a, r) \in Appts
    BY <2>2 DEF Rescheduled, Appts, Active
  <2>5. NeverReminded \in [Leads -> Nat]
    BY DEF NeverReminded
  <2> QED
    BY <1>6, <2>3, <2>4, <2>5 DEF RescheduleAppointment, TypeOK, InScan
<1>7. ASSUME NEW a \in Appointments, CancelAppointment(a) PROVE TypeOK'
  <2>1. row' \in [Reservations -> Rows]
    BY <1>7, <1>b DEF CancelAppointment, Released, TypeOK
  <2>2. [appt[a] EXCEPT !.status = "cancelled"] \in Appts
    BY <1>7 DEF CancelAppointment, TypeOK, Appts, Active
  <2> QED
    BY <1>7, <2>1, <2>2 DEF CancelAppointment, TypeOK, InScan
<1>8. ASSUME NEW a \in Appointments, ConfirmAppointment(a) PROVE TypeOK'
  <2>1. [appt[a] EXCEPT !.status = "confirmed"] \in Appts
    BY <1>8 DEF ConfirmAppointment, TypeOK, Appts, Active
  <2> QED
    BY <1>8, <2>1 DEF ConfirmAppointment, TypeOK
<1>9. ASSUME NEW w \in Scanners, ScanReads(w) PROVE TypeOK'
  <2>1. ASSUME NEW a \in Upcoming, Due(a) # {}
        PROVE  [of |-> a, slot |-> appt[a].slot, lead |-> Tightest(Due(a)),
                sent |-> appt[a].sent \cup Due(a)] \in Seen
    <3>1. Due(a) \in SUBSET Leads
      BY DEF Due
    <3>2. a \in Appointments /\ appt[a].slot \in Slots
      BY ApptTypes DEF Upcoming
    <3> QED
      BY <2>1, <3>1, <3>2, TightestIsLeast, ApptTypes DEF Seen
  <2>2. scan'[w] \subseteq Seen
    BY <1>9, <2>1 DEF ScanReads, TypeOK
  <2> QED
    BY <1>9, <2>2 DEF ScanReads, TypeOK
<1>10. ASSUME NEW w \in Scanners, ScanWrites(w) PROVE TypeOK'
  <2>1. ASSUME NEW a \in Appointments PROVE appt'[a] \in Appts
    <3>1. CASE SeenBy(w, a) = {}
      BY <1>10, <3>1 DEF ScanWrites, TypeOK
    <3>2. CASE SeenBy(w, a) # {}
      <4> DEFINE seen == CHOOSE s \in SeenBy(w, a) : TRUE
      <4>1. seen \in Seen
        BY <3>2 DEF SeenBy, TypeOK
      <4>2. appt'[a] = [appt[a] EXCEPT !.sent = seen.sent]
        BY <1>10, <3>2 DEF ScanWrites
      <4>3. appt[a] \in Appts /\ seen.sent \in SUBSET Leads
        BY <4>1 DEF TypeOK, Seen
      <4> QED
        BY <4>2, <4>3 DEF Appts
    <3> QED
      BY <3>1, <3>2
  <2> QED
    BY <1>10, <2>1 DEF ScanWrites, TypeOK
<1>11. ASSUME NEW w \in Scanners, ScanDies(w) PROVE TypeOK'
  BY <1>11 DEF ScanDies, TypeOK
<1>12. CASE Tick
  BY <1>12 DEF Tick, TypeOK
<1>13. CASE UNCHANGED vars
  BY <1>13 DEF vars, TypeOK
<1> QED
  BY <1>1, <1>2, <1>3, <1>4, <1>5, <1>6, <1>7, <1>8, <1>9, <1>10, <1>11, <1>12, <1>13 DEF Next

\* Every variable keeps its type.
THEOREM TypesHold == Spec => []TypeOK
BY TypesStart, TypesStep, PTL DEF Spec

--------------------------------------------------------------------------------
(* Reservations and appointments *)

\* A row that is added where there is room keeps the rows disjoint.
LEMMA DisjointWithOneMore ==
  ASSUME TypeOK, RowsDisjoint, NEW at \in Int, NEW r \in Reservations, NEW s \in Slots, NEW new,
         new.slot = s, Free(Purged(at), s),
         row' = [Purged(at) EXCEPT ![r] = new]
  PROVE  RowsDisjoint'
<1> SUFFICES ASSUME NEW p \in Taken(row)', NEW q \in Taken(row)', p # q
             PROVE  ~Overlap(row'[p].slot, row'[q].slot)
  BY DEF RowsDisjoint
<1>1. p \in Reservations /\ q \in Reservations /\ row'[p].slot # None /\ row'[q].slot # None
  BY DEF Taken
<1>2. ASSUME NEW x \in Reservations, x # r
      PROVE  row'[x] = Purged(at)[x]
  BY <1>2 DEF Purged
<1>3. row'[r] = new
  BY DEF Purged
<1>4. ASSUME NEW x \in Reservations, x # r, row'[x].slot # None
      PROVE  x \in Taken(row) /\ row'[x] = row[x] /\ ~Overlap(row[x].slot, s)
    BY <1>2, <1>4, PurgedRows DEF Taken, Free
<1>5. CASE p # r /\ q # r
  BY <1>1, <1>4, <1>5 DEF RowsDisjoint
<1>6. CASE p = r
  <2>1. q # r /\ row'[q] = row[q] /\ ~Overlap(row[q].slot, s) /\ row[q].slot \in Slots
    BY <1>1, <1>4, <1>6, RowTypes
  <2> QED
    BY <1>3, <1>6, <2>1 DEF Overlap
<1>7. CASE q = r
  BY <1>1, <1>3, <1>4, <1>7 DEF Overlap
<1> QED
  BY <1>5, <1>6, <1>7

\* Rows that only lose, or pass on, their slot stay disjoint.
LEMMA DisjointWithFewer ==
  ASSUME RowsDisjoint,
         \A q \in Reservations : row'[q].slot # None => row'[q].slot = row[q].slot
  PROVE  RowsDisjoint'
BY DEF RowsDisjoint, Taken

\* A step that touches no row of an appointment, and no time.
LEMMA MatchesUntouched ==
  ASSUME ReservationMatches,
         \A q \in Reservations :
           row[q].of # None \/ row'[q].of # None => row'[q] = row[q],
         \A a \in Appointments :
           /\ appt'[a].status \in Active <=> appt[a].status \in Active
           /\ appt'[a].slot = appt[a].slot
  PROVE  ReservationMatches'
<1> SUFFICES ASSUME NEW a \in Appointments
             PROVE  IF appt'[a].status \in Active
                      THEN \E r \in Reservations :
                             RowsOf(a)' = {r} /\ row'[r].slot = appt'[a].slot
                      ELSE RowsOf(a)' = {}
  BY DEF ReservationMatches
<1>1. a # None
  BY BookingAssumption
<1>2. RowsOf(a)' = RowsOf(a) /\ \A r \in RowsOf(a) : row'[r] = row[r]
  BY <1>1 DEF RowsOf
<1> QED
  BY <1>2 DEF ReservationMatches

\* The rows of an appointment after its old ones went and a hold was promoted.
LEMMA Swapped ==
  ASSUME TypeOK, ReservationMatches, NEW a \in Appointments, NEW r \in Reservations,
         row[r].kind = "hold",
         \/ row' = [Released(a) EXCEPT ![r] = Promoted(r, a)]
         \/ RowsOf(a) = {} /\ row' = [row EXCEPT ![r] = Promoted(r, a)],
         appt'[a].status \in Active, appt'[a].slot = row[r].slot,
         \A b \in Appointments \ {a} : appt'[b] = appt[b]
  PROVE  ReservationMatches' /\ \A q \in Reservations : row'[q].slot # None => row'[q].slot = row[q].slot
<1> USE BookingAssumption
<1>1. row'[r] = Promoted(r, a) /\ row[r].of = None /\ row[r].slot \in Slots
  BY RowTypes DEF Released, TypeOK
<1>2. ASSUME NEW q \in Reservations, q # r
      PROVE  row'[q] = IF row[q].of = a THEN Deleted ELSE row[q]
  BY <1>2 DEF Released, RowsOf, TypeOK
<1>3. Deleted.of = None /\ Deleted.slot = None
  BY DEF Deleted, NoRow
<1>4. RowsOf(a)' = {r} /\ row'[r].slot = appt'[a].slot
  BY <1>1, <1>2, <1>3 DEF RowsOf, Promoted
<1>5. ASSUME NEW b \in Appointments, b # a
      PROVE  RowsOf(b)' = RowsOf(b) /\ \A q \in RowsOf(b) : row'[q] = row[q]
  BY <1>1, <1>2, <1>3, <1>5 DEF RowsOf, Promoted
<1>6. ReservationMatches'
  <2> SUFFICES ASSUME NEW b \in Appointments
               PROVE  IF appt'[b].status \in Active
                        THEN \E q \in Reservations :
                               RowsOf(b)' = {q} /\ row'[q].slot = appt'[b].slot
                        ELSE RowsOf(b)' = {}
    BY DEF ReservationMatches
  <2>1. CASE b = a
    BY <1>4, <2>1
  <2>2. CASE b # a
    BY <1>5, <2>2 DEF ReservationMatches
  <2> QED
    BY <2>1, <2>2
<1> QED
  BY <1>1, <1>2, <1>3, <1>6 DEF Promoted

LEMMA TablesStep == TablesInv /\ [Next]_vars => RowsDisjoint' /\ ReservationMatches'
<1> SUFFICES ASSUME TablesInv, [Next]_vars PROVE RowsDisjoint' /\ ReservationMatches'
  OBVIOUS
<1> USE BookingAssumption
<1>t. TypeOK /\ RowsDisjoint /\ ReservationMatches /\ now \in Int
  BY DEF TablesInv, TypeOK
<1>a. ASSUME NEW at \in RequestTimes PROVE at \in Int
  BY DEF RequestTimes
<1>1. ASSUME NEW r \in Reservations, NEW s \in Slots, NEW at \in RequestTimes, CreateHold(r, s, at)
      PROVE  RowsDisjoint' /\ ReservationMatches'
  <2> DEFINE new == [kind |-> "hold", slot |-> s, expires |-> at + HoldTtl, of |-> None]
  <2>1. row' = [Purged(at) EXCEPT ![r] = new] /\ Free(Purged(at), s) /\ row[r].of = None
    BY <1>1 DEF CreateHold, NoRow
  <2>2. RowsDisjoint'
    <3>1. at \in Int /\ new.slot = s
      BY <1>a
    <3> HIDE DEF new
    <3> QED
      BY <1>t, <2>1, <3>1, DisjointWithOneMore
  <2>3. \A q \in Reservations : row[q].of # None \/ row'[q].of # None => row'[q] = row[q]
    <3>1. ASSUME NEW q \in Reservations, q # r PROVE row'[q] = Purged(at)[q]
      BY <2>1, <3>1 DEF Purged
    <3>2. row'[r].of = None
      BY <2>1 DEF Purged
    <3>3. Deleted.of = None
      BY DEF Deleted, NoRow
    <3> QED
      BY <1>t, <1>a, <2>1, <3>1, <3>2, <3>3, PurgedRows
  <2>4. appt' = appt
    BY <1>1 DEF CreateHold
  <2> QED
    BY <1>t, <2>2, <2>3, <2>4, MatchesUntouched
<1>2. ASSUME NEW r \in Reservations, NEW s \in Slots, AddTimeOff(r, s)
      PROVE  RowsDisjoint' /\ ReservationMatches'
  <2> DEFINE new == [kind |-> "leave", slot |-> s, expires |-> 0, of |-> None]
  <2>1. row' = [row EXCEPT ![r] = new] /\ Free(row, s) /\ row[r].of = None /\ appt' = appt
    BY <1>2 DEF AddTimeOff, NoRow
  <2>2. RowsDisjoint'
    <3>1. ASSUME NEW q \in Reservations, q # r PROVE row'[q] = row[q]
      BY <2>1, <3>1, <1>t DEF TypeOK
    <3>2. row'[r].slot = s
      BY <2>1, <1>t DEF TypeOK
    <3>3. ASSUME NEW q \in Taken(row) PROVE ~Overlap(row[q].slot, s) /\ ~Overlap(s, row[q].slot)
      BY <2>1 DEF Free, Overlap
    <3> SUFFICES ASSUME NEW p \in Taken(row)', NEW q \in Taken(row)', p # q
                 PROVE  ~Overlap(row'[p].slot, row'[q].slot)
      BY DEF RowsDisjoint
    <3>4. p \in Reservations /\ q \in Reservations
      BY DEF Taken
    <3>5. \A x \in {p, q} : x # r => x \in Taken(row) /\ row'[x] = row[x]
      BY <3>1, <3>4 DEF Taken
    <3> QED
      BY <1>t, <3>2, <3>3, <3>5 DEF RowsDisjoint
  <2>3. \A q \in Reservations : row[q].of # None \/ row'[q].of # None => row'[q] = row[q]
    BY <2>1, <1>t DEF TypeOK
  <2> QED
    BY <1>t, <2>1, <2>2, <2>3, MatchesUntouched
<1>3. ASSUME NEW r \in Reservations, RemoveTimeOff(r)
      PROVE  RowsDisjoint' /\ ReservationMatches'
  <2>1. row' = [row EXCEPT ![r] = Deleted] /\ row[r].of = None /\ appt' = appt
    BY <1>3, <1>t, RowTypes DEF RemoveTimeOff
  <2>2. ASSUME NEW q \in Reservations
        PROVE  row'[q] = IF q = r THEN Deleted ELSE row[q]
    BY <2>1, <1>t DEF TypeOK
  <2>3. Deleted.of = None /\ Deleted.slot = None
    BY DEF Deleted, NoRow
  <2>4. RowsDisjoint'
    BY <1>t, <2>2, <2>3, DisjointWithFewer
  <2> QED
    BY <1>t, <2>1, <2>2, <2>3, <2>4, MatchesUntouched
<1>4. CASE ExpireHolds
  <2>1. appt' = appt /\ \A q \in Reservations : row'[q] = Purged(now)[q]
    BY <1>4 DEF ExpireHolds
  <2>2. Deleted.of = None
    BY DEF Deleted, NoRow
  <2>3. RowsDisjoint'
    <3>1. ASSUME NEW q \in Reservations, row'[q].slot # None PROVE row'[q].slot = row[q].slot
      BY <1>t, <2>1, <3>1, PurgedRows
    <3> QED
      BY <1>t, <3>1, DisjointWithFewer
  <2>4. \A q \in Reservations : row[q].of # None \/ row'[q].of # None => row'[q] = row[q]
    BY <1>t, <2>1, <2>2, PurgedRows
  <2> QED
    BY <1>t, <2>1, <2>3, <2>4, MatchesUntouched
<1>5. ASSUME NEW a \in Appointments, NEW r \in Reservations, NEW at \in RequestTimes,
             CreateBooking(a, r, at)
      PROVE  RowsDisjoint' /\ ReservationMatches'
  <2>1. row[r].kind = "hold" /\ row' = [row EXCEPT ![r] = Promoted(r, a)]
    BY <1>5 DEF CreateBooking, HoldIsLive
  <2>2. appt[a].status \notin Active
    BY <1>5 DEF CreateBooking, NoAppointment, Active
  <2>3. RowsOf(a) = {}
    BY <1>t, <2>2 DEF ReservationMatches
  <2>4. appt'[a].status \in Active /\ appt'[a].slot = row[r].slot
    BY <1>5, <1>t DEF CreateBooking, TypeOK, Active
  <2>5. \A b \in Appointments \ {a} : appt'[b] = appt[b]
    BY <1>5, <1>t DEF CreateBooking, TypeOK
  <2> QED
    BY <1>t, <2>1, <2>3, <2>4, <2>5, Swapped, DisjointWithFewer
<1>6. ASSUME NEW a \in Appointments, NEW r \in Reservations, NEW at \in RequestTimes,
             RescheduleAppointment(a, r, at)
      PROVE  RowsDisjoint' /\ ReservationMatches'
  <2>1. row[r].kind = "hold" /\ row' = [Released(a) EXCEPT ![r] = Promoted(r, a)]
    BY <1>6 DEF RescheduleAppointment, HoldIsLive
  <2>2. appt'[a].status \in Active /\ appt'[a].slot = row[r].slot
    BY <1>6, <1>t DEF RescheduleAppointment, Rescheduled, TypeOK, Active
  <2>3. \A b \in Appointments \ {a} : appt'[b] = appt[b]
    BY <1>6, <1>t DEF RescheduleAppointment, TypeOK
  <2> QED
    BY <1>t, <2>1, <2>2, <2>3, Swapped, DisjointWithFewer
<1>7. ASSUME NEW a \in Appointments, CancelAppointment(a)
      PROVE  RowsDisjoint' /\ ReservationMatches'
  <2>1. Deleted.of = None /\ Deleted.slot = None
    BY DEF Deleted, NoRow
  <2>2. ASSUME NEW q \in Reservations
        PROVE  row'[q] = IF row[q].of = a THEN Deleted ELSE row[q]
    BY <1>7 DEF CancelAppointment, Released
  <2>3. RowsOf(a)' = {}
    BY <2>1, <2>2 DEF RowsOf
  <2>4. appt'[a].status \notin Active /\ \A b \in Appointments \ {a} : appt'[b] = appt[b]
    BY <1>7, <1>t DEF CancelAppointment, TypeOK, Active
  <2>5. ASSUME NEW b \in Appointments, b # a
        PROVE  RowsOf(b)' = RowsOf(b) /\ \A q \in RowsOf(b) : row'[q] = row[q]
    BY <2>1, <2>2, <2>5 DEF RowsOf
  <2>6. ReservationMatches'
    <3> SUFFICES ASSUME NEW b \in Appointments
                 PROVE  IF appt'[b].status \in Active
                          THEN \E q \in Reservations :
                                 RowsOf(b)' = {q} /\ row'[q].slot = appt'[b].slot
                          ELSE RowsOf(b)' = {}
      BY DEF ReservationMatches
    <3> QED
      BY <1>t, <2>3, <2>4, <2>5 DEF ReservationMatches
  <2> QED
    BY <1>t, <2>1, <2>2, <2>6, DisjointWithFewer
<1>8. ASSUME NEW a \in Appointments, ConfirmAppointment(a)
      PROVE  RowsDisjoint' /\ ReservationMatches'
  <2>1. row' = row
    BY <1>8 DEF ConfirmAppointment
  <2>2. ASSUME NEW b \in Appointments
        PROVE  /\ appt'[b].status \in Active <=> appt[b].status \in Active
               /\ appt'[b].slot = appt[b].slot
    BY <1>8, <1>t DEF ConfirmAppointment, TypeOK, Active
  <2> QED
    BY <1>t, <2>1, <2>2, MatchesUntouched, DisjointWithFewer
<1>9. ASSUME NEW w \in Scanners, ScanWrites(w) PROVE RowsDisjoint' /\ ReservationMatches'
  <2>1. row' = row
    BY <1>9 DEF ScanWrites
  <2>2. ASSUME NEW b \in Appointments
        PROVE  appt'[b].status = appt[b].status /\ appt'[b].slot = appt[b].slot
    <3>1. appt[b] \in Appts
      BY <1>t DEF TypeOK
    <3> QED
      BY <1>9, <3>1 DEF ScanWrites, Appts
  <2> QED
    BY <1>t, <2>1, <2>2, MatchesUntouched, DisjointWithFewer
<1>10. ASSUME NEW w \in Scanners, ScanReads(w) \/ ScanDies(w)
       PROVE  RowsDisjoint' /\ ReservationMatches'
  BY <1>10, <1>t, MatchesUntouched, DisjointWithFewer DEF ScanReads, ScanDies
<1>11. CASE Tick \/ UNCHANGED vars
  BY <1>11, <1>t, MatchesUntouched, DisjointWithFewer DEF Tick, vars
<1> QED
  BY <1>1, <1>2, <1>3, <1>4, <1>5, <1>6, <1>7, <1>8, <1>9, <1>10, <1>11 DEF Next

LEMMA TablesStart == Init => RowsDisjoint /\ ReservationMatches
<1> SUFFICES ASSUME Init PROVE RowsDisjoint /\ ReservationMatches
  OBVIOUS
<1>1. Taken(row) = {}
  BY DEF Init, Taken, NoRow
<1>2. \A a \in Appointments : appt[a].status \notin Active /\ RowsOf(a) = {}
  BY BookingAssumption DEF Init, NoAppointment, Active, RowsOf, NoRow
<1> QED
  BY <1>1, <1>2 DEF RowsDisjoint, ReservationMatches

\* Active appointments have their own rows, and rows do not overlap.
LEMMA NoOverlapOfAppointments == TablesInv => NoDoubleBooking
<1> SUFFICES ASSUME TablesInv, NEW a \in Appointments, appt[a].status \in Active
             PROVE  /\ \A b \in Appointments \ {a} :
                         appt[b].status \in Active => ~Overlap(appt[a].slot, appt[b].slot)
                    /\ \A r \in Taken(row) : row[r].of # a => ~Overlap(appt[a].slot, row[r].slot)
  BY DEF NoDoubleBooking
<1>1. ASSUME NEW b \in Appointments, appt[b].status \in Active
      PROVE  \E r \in Taken(row) : row[r].of = b /\ row[r].slot = appt[b].slot
  <2>1. PICK r \in Reservations : RowsOf(b) = {r} /\ row[r].slot = appt[b].slot
    BY <1>1 DEF TablesInv, ReservationMatches
  <2>2. row[r].of = b
    BY <2>1 DEF RowsOf
  <2>3. row[r].slot # None
    BY <1>1, <2>1, ApptTypes, BookingAssumption DEF TablesInv, Active
  <2> QED
    BY <2>1, <2>2, <2>3 DEF Taken
<1>2. PICK r \in Taken(row) : row[r].of = a /\ row[r].slot = appt[a].slot
  BY <1>1
<1>3. ASSUME NEW q \in Taken(row), row[q].of # a
      PROVE  ~Overlap(appt[a].slot, row[q].slot)
  BY <1>2, <1>3 DEF TablesInv, RowsDisjoint
<1>4. ASSUME NEW b \in Appointments \ {a}, appt[b].status \in Active
      PROVE  ~Overlap(appt[a].slot, appt[b].slot)
  BY <1>1, <1>3, <1>4
<1> QED
  BY <1>3, <1>4

LEMMA TablesHold == Spec => []TablesInv
<1>1. Init => TablesInv
  BY TypesStart, TablesStart DEF TablesInv
<1>2. TablesInv /\ [Next]_vars => TablesInv'
  BY TypesStep, TablesStep DEF TablesInv
<1> QED
  BY <1>1, <1>2, PTL DEF Spec

\* An active appointment has exactly one reservation, of its own time; others none.
THEOREM TablesAgree == Spec => []ReservationMatches
<1>1. TablesInv => ReservationMatches
  BY DEF TablesInv
<1> QED
  BY <1>1, TablesHold, PTL

\* No active appointment overlaps another, a hold or time off of its staff member.
THEOREM NobodyIsDoubleBooked == Spec => []NoDoubleBooking
BY NoOverlapOfAppointments, TablesHold, PTL

--------------------------------------------------------------------------------
(* Holds *)

\* A step leaves a hold that has not expired, or makes an appointment of it.
LEMMA HoldStep ==
  ASSUME TypeOK, [Next]_vars, NEW r \in Reservations, row[r].kind = "hold", now <= row[r].expires
  PROVE  row'[r] = row[r] \/ (row'[r].kind = "appointment" /\ row'[r].slot = row[r].slot)
<1> USE BookingAssumption
<1>t. row[r] \in Rows /\ row[r].expires \in Nat /\ row[r].of = None /\ row[r] # NoRow /\ now \in Nat
  BY DEF TypeOK, Rows, NoRow
<1>a. ASSUME NEW at \in RequestTimes PROVE at \in Int /\ at <= now
  BY <1>t DEF RequestTimes
<1>b. ASSUME NEW at \in Int, at <= now PROVE Purged(at)[r] = row[r]
  BY <1>b, <1>t DEF Purged
<1>1. ASSUME NEW q \in Reservations, NEW s \in Slots, NEW at \in RequestTimes, CreateHold(q, s, at)
      PROVE  row'[r] = row[r]
  <2>1. q # r
    BY <1>1, <1>t DEF CreateHold
  <2>2. row'[r] = Purged(at)[r]
    BY <1>1, <2>1 DEF CreateHold, Purged
  <2> QED
    BY <1>a, <1>b, <2>2
<1>2. CASE ExpireHolds
  BY <1>2, <1>b, <1>t DEF ExpireHolds
<1>3. ASSUME NEW q \in Reservations, NEW s \in Slots, AddTimeOff(q, s)
      PROVE  row'[r] = row[r]
  BY <1>3, <1>t DEF AddTimeOff, TypeOK
<1>4. ASSUME NEW q \in Reservations, RemoveTimeOff(q) PROVE row'[r] = row[r]
  BY <1>4, <1>t DEF RemoveTimeOff, TypeOK
<1>5. ASSUME NEW a \in Appointments, NEW q \in Reservations, NEW at \in RequestTimes,
             CreateBooking(a, q, at)
      PROVE  row'[r] = row[r] \/ (row'[r].kind = "appointment" /\ row'[r].slot = row[r].slot)
  BY <1>5 DEF CreateBooking, Promoted, TypeOK
<1>6. ASSUME NEW a \in Appointments, NEW q \in Reservations, NEW at \in RequestTimes,
             RescheduleAppointment(a, q, at)
      PROVE  row'[r] = row[r] \/ (row'[r].kind = "appointment" /\ row'[r].slot = row[r].slot)
  BY <1>6, <1>t DEF RescheduleAppointment, Released, Promoted
<1>7. ASSUME NEW a \in Appointments, CancelAppointment(a) PROVE row'[r] = row[r]
  BY <1>7, <1>t DEF CancelAppointment, Released
<1>8. ASSUME NEW a \in Appointments, ConfirmAppointment(a) PROVE row'[r] = row[r]
  BY <1>8 DEF ConfirmAppointment
<1>9. ASSUME NEW w \in Scanners, ScanReads(w) \/ ScanWrites(w) \/ ScanDies(w)
      PROVE  row'[r] = row[r]
  BY <1>9 DEF ScanReads, ScanWrites, ScanDies
<1>10. CASE Tick \/ UNCHANGED vars
  BY <1>10 DEF Tick, vars
<1> QED
  BY <1>1, <1>2, <1>3, <1>4, <1>5, <1>6, <1>7, <1>8, <1>9, <1>10 DEF Next

\* However late requests purge, a customer keeps the slot until the hold expires.
THEOREM HoldsAreKept == Spec => HeldIsKept
<1>1. TypeOK /\ [Next]_vars =>
        [\A r \in Reservations : row[r].kind = "hold" /\ now <= row[r].expires =>
           \/ row'[r] = row[r]
           \/ row'[r].kind = "appointment" /\ row'[r].slot = row[r].slot]_vars
  BY HoldStep
<1> QED
  BY <1>1, TypesHold, PTL DEF Spec, HeldIsKept

--------------------------------------------------------------------------------
(* Reminders *)

\* A step that keeps the marks, the scans and the times of what scans have seen.
LEMMA RemindersUntouched ==
  ASSUME Inv, UNCHANGED <<scan, reminded, misled, overtaken>>,
         \A a \in Appointments :
           /\ appt'[a].sent = appt[a].sent
           /\ appt[a].status \in {"confirmed", "rescheduled"} =>
                appt'[a].status \in {"confirmed", "rescheduled"} /\ appt'[a].slot = appt[a].slot
  PROVE  SeenOnce' /\ ScansFit' /\ MarksFit'
<1>1. SeenOnce'
  BY DEF Inv, SeenOnce
<1>2. ASSUME NEW w \in Scanners, NEW seen \in scan[w] PROVE seen.of \in Appointments
  BY DEF Inv, TypeOK, Seen
<1>3. ScansFit'
  BY <1>2 DEF Inv, ScansFit, SeenFits
<1>4. MarksFit'
  BY DEF Inv, MarksFit, Sent
<1> QED
  BY <1>1, <1>3, <1>4

\* A change of an appointment that no scan has seen, its marks still fitting.
LEMMA RemindersOfOne ==
  ASSUME Inv, NEW a \in Appointments, UNCHANGED <<scan, misled>>,
         overtaken' = (overtaken \/ InScan(a)),
         \A b \in Appointments \ {a} : appt'[b] = appt[b] /\ reminded'[b] = reminded[b],
         ~overtaken => Sent(a)'
  PROVE  SeenOnce' /\ ScansFit' /\ MarksFit'
<1>1. SeenOnce'
  BY DEF Inv, SeenOnce
<1>2. ASSUME ~overtaken', NEW w \in Scanners, NEW seen \in scan[w]
      PROVE  seen.of \in Appointments \ {a}
  <2>1. ~InScan(a)
    BY <1>2
  <2>2. seen.of # a
    BY <2>1 DEF InScan
  <2>3. seen \in Seen
    BY DEF Inv, TypeOK
  <2> QED
    BY <2>2, <2>3 DEF Seen
<1>3. ScansFit'
  BY <1>2 DEF Inv, ScansFit, SeenFits
<1>4. MarksFit'
  <2>1. ASSUME ~overtaken, NEW b \in Appointments PROVE Sent(b)'
    BY <2>1 DEF Inv, MarksFit, Sent
  <2> QED
    BY <2>1 DEF Inv, MarksFit
<1> QED
  BY <1>1, <1>3, <1>4

LEMMA ScanReadsStep ==
  ASSUME Inv, NEW w \in Scanners, ScanReads(w)
  PROVE  SeenOnce' /\ ScansFit' /\ MarksFit'
<1> DEFINE Record(a) == [of |-> a, slot |-> appt[a].slot, lead |-> Tightest(Due(a)),
                         sent |-> appt[a].sent \cup Due(a)]
<1>1. scan' = [scan EXCEPT ![w] = {Record(a) : a \in {b \in Upcoming : Due(b) # {}}}]
  BY DEF ScanReads
<1>2. /\ \A v \in Scanners \ {w} : scan'[v] = scan[v]
      /\ scan'[w] = {Record(a) : a \in {b \in Upcoming : Due(b) # {}}}
  BY <1>1 DEF Inv, TypeOK
<1>3. UNCHANGED <<appt, reminded, misled, overtaken>>
  BY DEF ScanReads
<1>4. ASSUME NEW seen \in scan'[w] PROVE SeenFits(seen)
  <2>1. PICK a \in Upcoming : Due(a) # {} /\ seen = Record(a)
    BY <1>2
  <2>2. Due(a) \in SUBSET Leads /\ Due(a) \cap appt[a].sent = {}
    BY DEF Due
  <2>3. Tightest(Due(a)) \in Due(a) /\ \A h \in Due(a) : Tightest(Due(a)) <= h
    BY <2>1, <2>2, TightestIsLeast
  <2>4. appt[a].status \in {"confirmed", "rescheduled"}
    BY DEF Upcoming
  <2> QED
    BY <2>1, <2>2, <2>3, <2>4 DEF SeenFits
<1>5. SeenOnce'
  <2>1. \A s, t \in scan'[w] : s.of = t.of => s = t
    <3>1. \A a, b : Record(a).of = Record(b).of => Record(a) = Record(b)
      OBVIOUS
    <3> HIDE DEF Record
    <3> QED
      BY <1>2, <3>1
  <2> QED
    BY <1>2, <2>1 DEF Inv, SeenOnce
<1>6. ScansFit'
  BY <1>2, <1>3, <1>4 DEF Inv, ScansFit, SeenFits
<1>7. MarksFit'
  BY <1>3 DEF Inv, MarksFit, Sent
<1> QED
  BY <1>5, <1>6, <1>7

LEMMA ScanWritesStep ==
  ASSUME Inv, NEW w \in Scanners, ScanWrites(w)
  PROVE  SeenOnce' /\ ScansFit' /\ MarksFit'
<1>1. scan' = [v \in Scanners |-> IF v = w THEN {} ELSE scan[v]]
  BY DEF ScanWrites, Inv, TypeOK
<1>2. SeenOnce'
  BY <1>1 DEF Inv, SeenOnce
<1>3. ASSUME NEW a \in Appointments, SeenBy(w, a) = {}
      PROVE  appt'[a] = appt[a] /\ reminded'[a] = reminded[a]
  <2>1. reminded[a] = [h \in Leads |-> reminded[a][h]]
    BY DEF Inv, TypeOK
  <2> QED
    BY <1>3, <2>1 DEF ScanWrites
<1>4. ASSUME ~overtaken'
      PROVE  ~overtaken /\ \A v \in Scanners \ {w} : \A seen \in scan[v] : SeenBy(w, seen.of) = {}
  BY <1>4 DEF ScanWrites
<1>5. ScansFit'
  <2> SUFFICES ASSUME ~overtaken', NEW v \in Scanners, NEW seen \in scan'[v]
               PROVE  SeenFits(seen)'
    BY DEF ScansFit
  <2>1. v # w /\ seen \in scan[v]
    BY <1>1
  <2>2. seen.of \in Appointments /\ SeenFits(seen)
    BY <1>4, <2>1 DEF Inv, TypeOK, Seen, ScansFit
  <2>3. appt'[seen.of] = appt[seen.of]
    BY <1>3, <1>4, <2>1, <2>2
  <2> QED
    BY <2>2, <2>3 DEF SeenFits
<1>6. ASSUME ~overtaken, NEW a \in Appointments, Sent(a) PROVE Sent(a)'
  <2>1. CASE SeenBy(w, a) = {}
    BY <1>3, <1>6, <2>1 DEF Sent
  <2>2. CASE SeenBy(w, a) # {}
    <3>1. PICK seen \in scan[w] : seen.of = a
      BY <2>2 DEF SeenBy
    <3>2. SeenBy(w, a) = {seen}
      BY <3>1 DEF SeenBy, Inv, SeenOnce
    <3>3. SeenFits(seen) /\ seen.lead \in Leads /\ seen.sent \subseteq Leads
      BY <1>6, <3>1 DEF Inv, ScansFit, TypeOK, Seen
    <3>4. appt'[a].sent = seen.sent
      <4>1. appt'[a] = [appt[a] EXCEPT !.sent = (CHOOSE s \in SeenBy(w, a) : TRUE).sent]
        BY <2>2 DEF ScanWrites
      <4>2. (CHOOSE s \in SeenBy(w, a) : TRUE) = seen
        BY <3>2
      <4>3. appt[a] \in Appts
        BY DEF Inv, TypeOK
      <4> QED
        BY <4>1, <4>2, <4>3 DEF Appts
    <3>5. \A h \in Leads : reminded[a][h] \in Nat
      BY DEF Inv, TypeOK
    <3>6. reminded[a][seen.lead] = 0
      BY <1>6, <3>1, <3>3, <3>5 DEF Sent, SeenFits
    <3>7. reminded'[a][seen.lead] = 1
      BY <3>1, <3>2, <3>3, <3>6 DEF ScanWrites, SeenFits
    <3>8. \A h \in Leads \ {seen.lead} : reminded'[a][h] = reminded[a][h]
      BY <3>2 DEF ScanWrites
    <3>9. ASSUME NEW h \in Leads
          PROVE  reminded'[a][h] <= 1 /\ (reminded'[a][h] = 1 => h \in seen.sent)
      BY <1>6, <3>1, <3>3, <3>7, <3>8 DEF Sent, SeenFits
    <3>10. ASSUME NEW h \in seen.sent
           PROVE  \E k \in Leads : k <= h /\ reminded'[a][k] = 1
      <4>1. CASE h \in appt[a].sent
        <5>1. PICK k \in Leads : k <= h /\ reminded[a][k] = 1
          BY <1>6, <4>1 DEF Sent
        <5>2. reminded'[a][k] = 1
          BY <3>7, <3>8, <5>1
        <5> QED
          BY <5>1, <5>2
      <4>2. CASE seen.lead <= h
        BY <3>3, <3>7, <4>2
      <4> QED
        BY <3>1, <3>3, <4>1, <4>2 DEF SeenFits
    <3> QED
      BY <3>4, <3>9, <3>10 DEF Sent
  <2> QED
    BY <2>1, <2>2
<1>7. MarksFit'
  <2>1. ASSUME ~overtaken' PROVE ~misled'
    <3>1. ~misled /\ \A seen \in scan[w] : SeenFits(seen)
      BY <1>4, <2>1 DEF Inv, MarksFit, ScansFit
    <3> QED
      BY <3>1 DEF ScanWrites, SeenFits, Active
  <2> QED
    BY <1>4, <1>6, <2>1 DEF Inv, MarksFit
<1> QED
  BY <1>2, <1>5, <1>7

LEMMA RemindersStep == Inv /\ [Next]_vars => SeenOnce' /\ ScansFit' /\ MarksFit'
<1> SUFFICES ASSUME Inv, [Next]_vars PROVE SeenOnce' /\ ScansFit' /\ MarksFit'
  OBVIOUS
<1>t. TypeOK
  BY DEF Inv
<1>1. ASSUME UNCHANGED <<appt, scan, reminded, misled, overtaken>>
      PROVE  SeenOnce' /\ ScansFit' /\ MarksFit'
  BY <1>1, RemindersUntouched
<1>2. ASSUME NEW r \in Reservations, NEW s \in Slots, NEW at \in RequestTimes, CreateHold(r, s, at)
      PROVE  SeenOnce' /\ ScansFit' /\ MarksFit'
  BY <1>1, <1>2 DEF CreateHold
<1>3. ASSUME NEW a \in Appointments, NEW r \in Reservations, NEW at \in RequestTimes,
             CreateBooking(a, r, at)
      PROVE  SeenOnce' /\ ScansFit' /\ MarksFit'
  <2>1. UNCHANGED <<scan, reminded, misled, overtaken>>
    BY <1>3 DEF CreateBooking
  <2>2. ASSUME NEW b \in Appointments, b # a PROVE appt'[b] = appt[b]
    BY <1>3, <2>2, <1>t DEF CreateBooking, TypeOK
  <2>3. appt'[a].sent = appt[a].sent /\ appt[a].status = "absent"
    BY <1>3, <1>t DEF CreateBooking, TypeOK, NoAppointment
  <2> QED
    BY <2>1, <2>2, <2>3, RemindersUntouched
<1>4. ASSUME NEW a \in Appointments, NEW r \in Reservations, NEW at \in RequestTimes,
             RescheduleAppointment(a, r, at)
      PROVE  SeenOnce' /\ ScansFit' /\ MarksFit'
  <2>1. UNCHANGED <<scan, misled>> /\ overtaken' = (overtaken \/ InScan(a))
    BY <1>4 DEF RescheduleAppointment
  <2>2. ASSUME NEW b \in Appointments, b # a
        PROVE  appt'[b] = appt[b] /\ reminded'[b] = reminded[b]
    BY <1>4, <2>2, <1>t DEF RescheduleAppointment, TypeOK
  <2>3. appt'[a].sent = {} /\ reminded'[a] = [h \in Leads |-> 0]
    BY <1>4, <1>t DEF RescheduleAppointment, TypeOK, Rescheduled, NeverReminded
  <2>4. Sent(a)'
    BY <2>3 DEF Sent
  <2> QED
    BY <2>1, <2>2, <2>4, RemindersOfOne
<1>5. ASSUME NEW a \in Appointments, CancelAppointment(a)
      PROVE  SeenOnce' /\ ScansFit' /\ MarksFit'
  <2>1. UNCHANGED <<scan, misled, reminded>> /\ overtaken' = (overtaken \/ InScan(a))
    BY <1>5 DEF CancelAppointment
  <2>2. ASSUME NEW b \in Appointments, b # a PROVE appt'[b] = appt[b]
    BY <1>5, <2>2, <1>t DEF CancelAppointment, TypeOK
  <2>3. appt'[a].sent = appt[a].sent
    <3>1. appt[a] \in Appts
      BY <1>t DEF TypeOK
    <3> QED
      BY <1>5, <1>t, <3>1 DEF CancelAppointment, TypeOK, Appts
  <2>4. ~overtaken => Sent(a)'
    BY <2>1, <2>3 DEF Inv, MarksFit, Sent
  <2> QED
    BY <2>1, <2>2, <2>4, RemindersOfOne
<1>6. ASSUME NEW a \in Appointments, ConfirmAppointment(a)
      PROVE  SeenOnce' /\ ScansFit' /\ MarksFit'
  <2>1. UNCHANGED <<scan, reminded, misled, overtaken>>
    BY <1>6 DEF ConfirmAppointment
  <2>2. ASSUME NEW b \in Appointments
        PROVE  /\ appt'[b].sent = appt[b].sent
               /\ appt[b].status \in {"confirmed", "rescheduled"} => appt'[b] = appt[b]
    <3>1. appt[b] \in Appts
      BY <1>t DEF TypeOK
    <3> QED
      BY <1>6, <1>t, <3>1 DEF ConfirmAppointment, TypeOK, Appts
  <2> QED
    BY <2>1, <2>2, RemindersUntouched
<1>7. ASSUME NEW w \in Scanners, ScanDies(w) PROVE SeenOnce' /\ ScansFit' /\ MarksFit'
  <2>1. UNCHANGED <<appt, reminded, misled, overtaken>> /\ \A v \in Scanners : scan'[v] \subseteq scan[v]
    BY <1>7, <1>t DEF ScanDies, TypeOK
  <2> QED
    BY <2>1 DEF Inv, SeenOnce, ScansFit, SeenFits, MarksFit, Sent
<1>8. CASE Tick \/ UNCHANGED vars
  BY <1>1, <1>8 DEF Tick, vars
<1>9. CASE ExpireHolds
  BY <1>1, <1>9 DEF ExpireHolds
<1>10. ASSUME NEW r \in Reservations, RemoveTimeOff(r) PROVE SeenOnce' /\ ScansFit' /\ MarksFit'
  BY <1>1, <1>10 DEF RemoveTimeOff
<1>11. ASSUME NEW r \in Reservations, NEW s \in Slots, AddTimeOff(r, s)
       PROVE  SeenOnce' /\ ScansFit' /\ MarksFit'
  BY <1>1, <1>11 DEF AddTimeOff
<1> QED
  BY <1>2, <1>3, <1>4, <1>5, <1>6, <1>7, <1>8, <1>9, <1>10, <1>11, ScanReadsStep, ScanWritesStep DEF Next

LEMMA InvHolds == Spec => []Inv
<1>1. Init => Inv
  <2> SUFFICES ASSUME Init PROVE Inv
    OBVIOUS
  <2>1. SeenOnce /\ ScansFit
    BY DEF Init, SeenOnce, ScansFit
  <2>2. MarksFit
    BY DEF Init, MarksFit, Sent, NoAppointment
  <2> QED
    BY <2>1, <2>2, TypesStart DEF Inv
<1>2. Inv /\ [Next]_vars => Inv'
  BY TypesStep, RemindersStep DEF Inv
<1> QED
  BY <1>1, <1>2, PTL DEF Spec

\* Scans that are not overtaken remind of the right time, once for each lead time,
\* and mark nothing they did not remind of.
THEOREM RemindersAreRight == Spec => []RemindersMatch
<1>1. Inv => RemindersMatch
  BY DEF Inv, MarksFit, Sent, RemindersMatch
<1> QED
  BY <1>1, InvHolds, PTL

================================================================================
