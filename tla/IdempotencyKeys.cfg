\* Five requests with one key and two bodies, a fault and an overtaken request.
SPECIFICATION Spec
CONSTANTS
  Requests = {r1, r2, r3, r4, r5}
  Bodies = {b1, b2}
  None = None
  MaxFaults = 1
  MaxOutlived = 1
SYMMETRY Symmetry
INVARIANTS SingleFlight ExecutedOnce ReplayFaithful OneAnswer
CHECK_DEADLOCK FALSE
