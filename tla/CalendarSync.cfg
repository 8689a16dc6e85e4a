CONSTANTS
  Workers = {w1, w2}
  Times = {t1, t2}
  Booked = t1
  Requests = {q1, q2, q3}
  FirstRequest = q1
  None = None
  MaxDisturbances = 2
SPECIFICATION FairSpec
CHECK_DEADLOCK FALSE
INVARIANTS
  OneEvent
  PendingHasJob
  CalendarAgrees
  DriftIsShown
PROPERTIES
  EventuallySettled
