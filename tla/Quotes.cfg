\* Two quotes of one request in two versions, two transactions and the expiry job.
CONSTANTS
  Quotes = {q1, q2}
  MaxVersion = 2
  Upfront <- FirstVersions
  Sessions = {s1, s2}
  Expirers = {x1}
  None = None
SPECIFICATION FairSpec
INVARIANTS
  OneOffer
  OneAgreement
  CancellationHolds
PROPERTIES
  OffersExpire
CHECK_DEADLOCK FALSE
