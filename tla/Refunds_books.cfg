\* Two refunds of one payment, webhooks without ids, the poll and one fault.
SPECIFICATION Spec
CONSTANTS
  Refunds = {1, 2}
  ProviderRefunds = {p1, p2}
  None = None
  Submitters = {s1}
  EventWorkers = {w1}
  Paid = 3
  Amounts = {1, 2}
  EventsNamed = FALSE
  Reports = {"pending", "processed", "failed"}
  MaxFaults = 1
SYMMETRY Symmetry
INVARIANTS NeverOverRefunded LiabilityTies SettledOnlyIfProcessed
CHECK_DEADLOCK FALSE
