\* Leases, retries and the dead-letter state with crashes, shutdowns and two
\* workers, when no handler outlives the reaper's cutoff.
SPECIFICATION Spec
CONSTANTS
  None = None
  Jobs = {j1, j2}
  Workers = {w1, w2}
  MaxAttempts = 2
  Concurrency = 1
  SlowHandlers = FALSE
  MaxFaults = 2
  MaxRetries = 1
SYMMETRY Symmetry
INVARIANTS LeaseExclusive
PROPERTY ContractSpec
