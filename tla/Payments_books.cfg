\* Two attempts, a transfer and a credit note meet on one invoice.
SPECIFICATION Spec
CONSTANTS
  Attempts = {1, 2}
  Customers = {c1}
  WebhookWorkers = {}
  Reconciler = rec
  Transfers = {t1}
  Total = 3
  Installments = {1}
  TransferAmounts = {1, 4}
  CreditAmounts = {1}
  Outcomes = {"success"}
  BatchLimit = 2
  MaxAge = 0
  MaxLost = 0
  MaxFaults = 0
INVARIANT InvoiceConsistent
INVARIANT NothingSwallowed
INVARIANT LedgerTies
CHECK_DEADLOCK FALSE
