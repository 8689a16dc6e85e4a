\* Handlers that outlive the reaper's cutoff: their jobs are released and
\* claimed again while they run, and they finish late; still every job settles.
SPECIFICATION FairSpec
CONSTANTS
  None = None
  Jobs = {j1, j2}
  Workers = {w1}
  MaxAttempts = 2
  Concurrency = 2
  SlowHandlers = TRUE
  MaxFaults = 2
  MaxRetries = 0
INVARIANTS SuccessNeedsWork
PROPERTY EveryJobSettles
