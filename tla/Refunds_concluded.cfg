\* One refund submitted by two workers at once, and one fault.
SPECIFICATION FairSpec
CONSTANTS
  Refunds = {1}
  ProviderRefunds = {p1, p2}
  None = None
  Submitters = {s1, s2}
  EventWorkers = {w1}
  Paid = 1
  Amounts = {1}
  EventsNamed = TRUE
  Reports = {"pending", "processed", "failed"}
  MaxFaults = 1
PROPERTY ConcludedStays
PROPERTY ApprovedConcludes
CHECK_DEADLOCK FALSE
