\* One attempt, webhook job and reconciliation job, every outcome, two faults.
SPECIFICATION FairSpec
CONSTANTS
  Attempts = {1}
  Customers = {}
  WebhookWorkers = {w1}
  Reconciler = rec
  Transfers = {}
  Total = 2
  Installments = {}
  TransferAmounts = {}
  CreditAmounts = {}
  Outcomes = {"success", "wrong_amount", "wrong_environment", "failed", "expired"}
  BatchLimit = 2
  MaxAge = 2
  MaxLost = 1
  MaxFaults = 2
INVARIANT SettlementEarned
PROPERTY ClosedStays
PROPERTY MoneyAccounted
PROPERTY OpenMoneyFound
CHECK_DEADLOCK FALSE
