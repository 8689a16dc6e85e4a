CONSTANTS
  Slots <- SomeSlots
  Reservations = {r1, r2, r3}
  Appointments = {a1, a2}
  Scanners = {w1, w2}
  None = None
  Leads = {1, 2}
  HoldTtl = 2
  MaxDelay = 1
  MaxTime = 4
SPECIFICATION Spec
SYMMETRY Symmetry
INVARIANTS
  ReservationMatches
  NoDoubleBooking
  RemindersMatch
PROPERTIES
  HeldIsKept
