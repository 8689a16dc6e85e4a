\* Two relays and the queue: commits out of id order, failing savepoints, a lost
\* relay transaction, a requeue and a reopened job.
SPECIFICATION DeliverySpec
CONSTANTS
  Events <- MCEvents
  TargetsOf <- MCTargets
  Relays = {r1, r2}
  BatchSize = 2
  MaxRouting = 2
  MaxAborts = 1
  MaxRequeues = 1
  MaxEffects = 2
  MaxReopens = 1
INVARIANTS JobsIffPublished
PROPERTY EventDelivered
CHECK_DEADLOCK FALSE
