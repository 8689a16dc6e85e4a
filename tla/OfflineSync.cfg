\* Two photos, findings, one synchronisation at a time, one fault, one thing the
\* inspector does beside a running synchronisation, and any two of the fault, that
\* thing and the withdrawal of a submitted visit.
SPECIFICATION FairSpec
CONSTANTS
  PhotoCount = 2
  Syncs = {s1}
  None = None
  MaxEdits = 1
  MaxFiles = 3
  MaxFaults = 1
  MaxBeside = 1
  MaxTroubles = 2
INVARIANTS
  OneEvidence
  NoRepeatedUpload
  NothingLost
PROPERTIES
  ClearedWhenConfirmed
  EventuallyCleared
CHECK_DEADLOCK FALSE
