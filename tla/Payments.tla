------------------------------- MODULE Payments --------------------------------
(***************************************************************************)
(* Gateway payments of one issued invoice (packages/finance/src).           *)
(*                                                                          *)
(* A payment attempt is created in one transaction, opened at the provider  *)
(* outside any transaction, and settled by whoever learns first that the    *)
(* customer paid: the customer's own verify or callback, the job of a       *)
(* charge.success webhook, or the reconciliation job.  Each of these reads  *)
(* the attempt, asks the provider, and only then applies the answer in a    *)
(* transaction that locks the attempt and the invoice, so that both the     *)
(* read and the answer may be stale when they are applied.  Bank transfers, *)
(* credit notes and voids change the same invoice meanwhile.                *)
(*                                                                          *)
(* The provider is external: it is modelled by the answers the code handles.*)
(***************************************************************************)
EXTENDS Integers, FiniteSets, Sums

CONSTANTS
  Attempts,         \* ids of payment attempts, in the order they are created
  Customers,        \* verify and callback requests that may be in flight
  WebhookWorkers,   \* workers running payments.process_provider_event
  Reconciler,       \* the worker running payments.reconcile_pending
  Transfers,        \* ids of declared bank transfers
  Total,            \* the invoice's total, in kobo
  Installments,     \* the amounts of its installment plan
  TransferAmounts,  \* amounts finance may confirm for a transfer
  CreditAmounts,    \* amounts of credit notes
  Outcomes,         \* what may become of a charge at the provider
  BatchLimit,       \* attempts one reconciliation run takes (200)
  MaxAge,           \* bound: how old attempts get, New to Stale
  MaxLost,          \* bound: webhooks that never arrive
  MaxFaults         \* bound: provider errors and crashes

\* How old an attempt is, as far as the code tells: RECONCILE_AFTER_SECONDS,
\* DEFAULT_UNCERTAIN_AFTER_SECONDS.
New == 0
TenMinutes == 1
Stale == 2

Verifiers == Customers \cup WebhookWorkers \cup {Reconciler}

ASSUME PaymentsAssumption ==
  /\ Attempts \subseteq Nat \ {0} /\ Attempts \cap Transfers = {}
  /\ IsFiniteSet(Attempts) /\ IsFiniteSet(Transfers)
  /\ Total \in Nat \ {0} /\ BatchLimit \in Nat \ {0} /\ MaxFaults \in Nat
  /\ MaxAge \in 0..2 /\ MaxLost \in Nat
  /\ Installments \subseteq Nat /\ CreditAmounts \subseteq Nat \ {0}
  /\ TransferAmounts \subseteq Nat \ {0}
  /\ Customers \cap WebhookWorkers = {} /\ Reconciler \notin Customers \cup WebhookWorkers
  /\ Outcomes \subseteq {"success", "wrong_amount", "wrong_environment", "failed", "expired"}

VARIABLES
  invoice,     \* [status, paid, credited]
  status,      \* payment_attempts.status; "absent" before the row exists
  amount,      \* payment_attempts.amount_kobo
  opening,     \* where createPaymentAttempt is after its first transaction
  charge,      \* the charge at the provider
  age,         \* time since the attempt was created
  inbox,       \* the charge.success webhook of the attempt and its stored event
  verifier,    \* what each verification read and was answered
  batch,       \* attempts the current reconciliation run has yet to verify
  transfer,    \* bank_transfer_receipts.status
  allocations, \* dedupe keys of the allocations of attempts and transfers
  posted,      \* what the journal of a settlement or transfer applied and held
  ledger,      \* balances of customer receivables (1200) and deposits (2000)
  exceptions,  \* reconciliation exceptions, <<attempt, code>>
  engagement,  \* service_requests.status, as far as payments move it
  lost, faults

bookVars == <<invoice, amount, transfer, allocations, posted, ledger, engagement>>
vars == <<bookVars, status, opening, charge, age, inbox, verifier, batch, exceptions, lost, faults>>

Open == {"issued", "partially_paid", "overdue"}   \* still to be paid
Unsettled == {"initialized", "pending", "uncertain"}
Terminal == {"failed", "abandoned", "reversed"}
Statuses == Unsettled \cup Terminal \cup {"successful"}
Charged == {"success", "wrong_amount", "wrong_environment"}
Charges == Charged \cup {"none", "initialized", "pending", "failed", "expired", "reversed"}
Reports == Charged \cup {"none", "unknown", "pending", "abandoned", "failed", "reversed"}
Codes == {"status_conflict", "verification_mismatch", "verification_uncertain",
          "reverify_failed", "payment_reversed"}

Idle == [step |-> "idle", attempt |-> 0, read |-> "none", report |-> "none"]
NoJournal == [allocated |-> 0, held |-> 0]

TypeOK ==
  /\ invoice \in [status : Open \cup {"paid", "void"}, paid : Nat, credited : Nat]
  /\ status \in [Attempts -> Statuses \cup {"absent"}]
  /\ amount \in [Attempts -> Nat]
  /\ opening \in [Attempts -> {"closed", "calling", "answered", "refused"}]
  /\ charge \in [Attempts -> Charges]
  /\ age \in [Attempts -> New..Stale]
  /\ inbox \in [Attempts -> {"none", "sent", "received", "failed", "processed"}]
  /\ verifier \in [Verifiers -> [step : {"idle", "assigned", "loaded", "answered"},
                                 attempt : Attempts \cup {0},
                                 read : Statuses \cup {"none"}, report : Reports]]
  /\ batch \subseteq Attempts
  /\ transfer \in [Transfers -> {"absent", "submitted", "confirmed", "rejected"}]
  /\ allocations \subseteq Attempts \cup Transfers
  /\ posted \in [Attempts \cup Transfers -> [allocated : Nat, held : Nat]]
  /\ ledger \in [receivable : Int, deposits : Int]
  /\ exceptions \subseteq Attempts \X Codes
  /\ engagement \in {"awaiting_payment", "in_progress"}
  /\ lost \in 0..MaxLost /\ faults \in 0..MaxFaults

Init ==
  /\ invoice = [status |-> "issued", paid |-> 0, credited |-> 0]
  /\ status = [a \in Attempts |-> "absent"]
  /\ amount = [a \in Attempts |-> 0]
  /\ opening = [a \in Attempts |-> "closed"]
  /\ charge = [a \in Attempts |-> "none"]
  /\ age = [a \in Attempts |-> New]
  /\ inbox = [a \in Attempts |-> "none"]
  /\ verifier = [v \in Verifiers |-> Idle]
  /\ batch = {}
  /\ transfer = [t \in Transfers |-> "absent"]
  /\ allocations = {}
  /\ posted = [k \in Attempts \cup Transfers |-> NoJournal]
  /\ ledger = [receivable |-> Total, deposits |-> 0]
  /\ exceptions = {}
  /\ engagement = "awaiting_payment"
  /\ lost = 0 /\ faults = 0

--------------------------------------------------------------------------------
(* The invoice *)

Balance == Total - invoice.paid - invoice.credited

Least(m, n) == IF m <= n THEN m ELSE n

\* planAllocation: the part of a payment that the invoice can still take, and
\* what is left over, held as a customer deposit.
Allocatable == Open \cup {"paid"}
Allocated(m) == Least(m, Balance)
Held_Dropped(m) == 0
Held(m) == m - Allocated(m)
StatusAt(balance) == IF balance = 0 THEN "paid" ELSE "partially_paid"

\* A payment of m reaches the invoice: journal, allocation, invoice, engagement.
Receive(key, m) ==
  LET left == Balance - Allocated(m) IN
  /\ allocations' = allocations \cup {key}
  /\ posted' = [posted EXCEPT ![key] = [allocated |-> Allocated(m), held |-> Held(m)]]
  /\ ledger' = [receivable |-> ledger.receivable - Allocated(m),
                deposits |-> ledger.deposits + Held(m)]
  /\ invoice' = [status |-> StatusAt(left),
                 paid |-> invoice.paid + Allocated(m),
                 credited |-> invoice.credited]
  /\ engagement' = IF left = 0 THEN "in_progress" ELSE engagement

\* submitBankTransferReceipt
SubmitTransfer(t) ==
  /\ transfer[t] = "absent"
  /\ invoice.status \in Open
  /\ transfer' = [transfer EXCEPT ![t] = "submitted"]
  /\ UNCHANGED <<invoice, amount, allocations, posted, ledger, engagement, status, opening,
                 charge, age, inbox, verifier, batch, exceptions, lost, faults>>

\* confirmBankTransferReceipt: under the locks of the receipt and the invoice.
ConfirmTransfer_Replayed(t) ==
  /\ transfer[t] \in {"submitted", "confirmed"}
  /\ invoice.status \in Allocatable
  /\ \E m \in TransferAmounts : Receive(t, m)
  /\ transfer' = [transfer EXCEPT ![t] = "confirmed"]
  /\ UNCHANGED <<amount, status, opening, charge, age, inbox, verifier, batch,
                 exceptions, lost, faults>>
ConfirmTransfer(t) ==
  /\ transfer[t] = "submitted" /\ t \notin allocations
  /\ invoice.status \in Allocatable
  /\ \E m \in TransferAmounts : Receive(t, m)
  /\ transfer' = [transfer EXCEPT ![t] = "confirmed"]
  /\ UNCHANGED <<amount, status, opening, charge, age, inbox, verifier, batch,
                 exceptions, lost, faults>>

\* rejectBankTransferReceipt
RejectTransfer(t) ==
  /\ transfer[t] = "submitted"
  /\ transfer' = [transfer EXCEPT ![t] = "rejected"]
  /\ UNCHANGED <<invoice, amount, allocations, posted, ledger, engagement, status, opening,
                 charge, age, inbox, verifier, batch, exceptions, lost, faults>>

\* issueCreditNote with planCreditNoteApplication: never more than the balance.
IssueCreditNote(m) ==
  /\ invoice.status \in Open
  /\ m <= Balance
  /\ invoice' = [status |-> IF m = Balance THEN "paid"
                            ELSE IF invoice.paid > 0 THEN "partially_paid" ELSE invoice.status,
                 paid |-> invoice.paid,
                 credited |-> invoice.credited + m]
  /\ ledger' = [ledger EXCEPT !.receivable = @ - m]
  /\ UNCHANGED <<amount, transfer, allocations, posted, engagement, status, opening, charge,
                 age, inbox, verifier, batch, exceptions, lost, faults>>

\* The hourly invoices.mark_overdue, once the due date has passed (any time): an
\* update of its own, without the checks of the other writers, that waits for
\* the row's lock and looks at the status again.  A payment in part takes the
\* status back to partially_paid, and the next run marks the invoice again.
MarkOverdue ==
  /\ invoice.status \in {"issued", "partially_paid"}
  /\ invoice' = [invoice EXCEPT !.status = "overdue"]
  /\ UNCHANGED <<amount, transfer, allocations, posted, ledger, engagement, status, opening,
                 charge, age, inbox, verifier, batch, exceptions, lost, faults>>

\* voidInvoice: only when nothing was paid or credited, which the status overdue
\* does not tell; the issue is reversed.
VoidInvoice_ByStatus ==
  /\ invoice.status \in {"issued", "overdue"}
  /\ invoice' = [invoice EXCEPT !.status = "void"]
  /\ ledger' = [ledger EXCEPT !.receivable = @ - Total]
  /\ UNCHANGED <<amount, transfer, allocations, posted, engagement, status, opening, charge,
                 age, inbox, verifier, batch, exceptions, lost, faults>>
VoidInvoice ==
  /\ invoice.status \in {"issued", "overdue"} /\ invoice.paid = 0 /\ invoice.credited = 0
  /\ invoice' = [invoice EXCEPT !.status = "void"]
  /\ ledger' = [ledger EXCEPT !.receivable = @ - Total]
  /\ UNCHANGED <<amount, transfer, allocations, posted, engagement, status, opening, charge,
                 age, inbox, verifier, batch, exceptions, lost, faults>>

--------------------------------------------------------------------------------
(* Creating an attempt: createPaymentAttempt *)

\* The first transaction, under the invoice's lock: the balance or an installment.
CreateAttempt(a) ==
  /\ status[a] = "absent"
  /\ \A b \in Attempts : b < a => status[b] # "absent"
  /\ invoice.status \in Open
  /\ \E m \in {Balance} \cup Installments :
       /\ 0 < m /\ m <= Balance
       /\ amount' = [amount EXCEPT ![a] = m]
  /\ status' = [status EXCEPT ![a] = "initialized"]
  /\ opening' = [opening EXCEPT ![a] = "calling"]
  /\ UNCHANGED <<invoice, transfer, allocations, posted, ledger, engagement, charge, age,
                 inbox, verifier, batch, exceptions, lost, faults>>

\* provider.initialize answers, or fails before or after the provider acted on it.
InitializeAtProvider(a) ==
  /\ opening[a] = "calling"
  /\ \/ /\ opening' = [opening EXCEPT ![a] = "answered"]
        /\ charge' = [charge EXCEPT ![a] = "initialized"]
        /\ UNCHANGED faults
     \/ /\ faults < MaxFaults /\ faults' = faults + 1
        /\ opening' = [opening EXCEPT ![a] = "refused"]
        /\ \E c \in {"none", "initialized"} : charge' = [charge EXCEPT ![a] = c]
  /\ UNCHANGED <<bookVars, status, age, inbox, verifier, batch, exceptions, lost>>

\* The transaction after the call: the status is written whatever it became
\* meanwhile, and only now the customer has the checkout's URL.
RecordOpened(a) ==
  /\ opening[a] = "answered"
  /\ status' = [status EXCEPT ![a] = "pending"]
  /\ opening' = [opening EXCEPT ![a] = "closed"]
  /\ charge' = [charge EXCEPT ![a] = "pending"]
  /\ UNCHANGED <<bookVars, age, inbox, verifier, batch, exceptions, lost, faults>>

RecordRefused(a) ==
  /\ opening[a] = "refused"
  /\ status' = [status EXCEPT ![a] = "failed"]
  /\ opening' = [opening EXCEPT ![a] = "closed"]
  /\ UNCHANGED <<bookVars, charge, age, inbox, verifier, batch, exceptions, lost, faults>>

\* The request dies, or its last transaction fails: nothing is recorded.
AbortOpening(a) ==
  /\ opening[a] # "closed"
  /\ faults < MaxFaults /\ faults' = faults + 1
  /\ opening' = [opening EXCEPT ![a] = "closed"]
  /\ UNCHANGED <<bookVars, status, charge, age, inbox, verifier, batch, exceptions, lost>>

--------------------------------------------------------------------------------
(* The provider (external) and time *)

\* The customer completes the checkout; a declined card may be tried again.
\* A completed charge sends the charge.success webhook.
Pay(a) ==
  \E outcome \in Outcomes :
    /\ charge[a] \in {"pending", "failed"} /\ charge[a] # outcome
    /\ opening[a] = "closed"
    /\ charge' = [charge EXCEPT ![a] = outcome]
    /\ inbox' = [inbox EXCEPT ![a] = IF outcome \in Charged THEN "sent" ELSE @]
    /\ UNCHANGED <<bookVars, status, opening, age, verifier, batch, exceptions, lost, faults>>

ReverseCharge(a) ==
  /\ charge[a] = "success"
  /\ charge' = [charge EXCEPT ![a] = "reversed"]
  /\ UNCHANGED <<bookVars, status, opening, age, inbox, verifier, batch, exceptions, lost, faults>>

\* What provider.verify may answer: an unpaid checkout is in flight or abandoned.
ReportsOf(c) ==
  CASE c = "none"                        -> {"unknown"}
    [] c \in {"initialized", "pending"} -> {"pending", "abandoned"}
    [] c = "expired"                     -> {"abandoned"}
    [] OTHER                             -> {c}

GrowOlder(a) ==
  /\ status[a] # "absent" /\ age[a] < MaxAge
  /\ age' = [age EXCEPT ![a] = @ + 1]
  /\ UNCHANGED <<bookVars, status, opening, charge, inbox, verifier, batch, exceptions, lost, faults>>

LoseWebhook(a) ==
  /\ inbox[a] = "sent"
  /\ lost < MaxLost /\ lost' = lost + 1
  /\ inbox' = [inbox EXCEPT ![a] = "none"]
  /\ UNCHANGED <<bookVars, status, opening, charge, age, verifier, batch, exceptions, faults>>

\* receiveProviderWebhook: the event is stored and its job enqueued, once; a
\* second delivery conflicts on the dedupe key and changes nothing.
ReceiveWebhook(a) ==
  /\ inbox[a] = "sent"
  /\ inbox' = [inbox EXCEPT ![a] = "received"]
  /\ UNCHANGED <<bookVars, status, opening, charge, age, verifier, batch, exceptions, lost, faults>>

--------------------------------------------------------------------------------
(* Starting a verification *)

Assign(v, a) ==
  verifier' = [verifier EXCEPT ![v] = [step |-> "assigned", attempt |-> a,
                                       read |-> "none", report |-> "none"]]

\* verifyPaymentAttempt: any attempt, whatever its state.
RequestVerification(v, a) ==
  /\ v \in Customers /\ verifier[v].step = "idle"
  /\ status[a] # "absent"
  /\ Assign(v, a)
  /\ UNCHANGED <<bookVars, status, opening, charge, age, inbox, batch, exceptions, lost, faults>>

\* processProviderEvent up to the plan of planChargeSuccess: the event of an
\* allocated attempt is ignored, of a closed one flagged.  Its environment is the
\* one it was stored with, so another one shows only in the provider's answer.
PlanEvent_IgnoreClosed(v, a) ==
  /\ v \in WebhookWorkers /\ verifier[v].step = "idle"
  /\ inbox[a] \in {"received", "failed"}
  /\ IF status[a] \in Unsettled /\ a \notin allocations
     THEN Assign(v, a) /\ UNCHANGED <<inbox, exceptions>>
     ELSE inbox' = [inbox EXCEPT ![a] = "processed"] /\ UNCHANGED <<verifier, exceptions>>
  /\ UNCHANGED <<bookVars, status, opening, charge, age, batch, lost, faults>>
PlanEvent(v, a) ==
  /\ v \in WebhookWorkers /\ verifier[v].step = "idle"
  /\ inbox[a] \in {"received", "failed"}
  /\ IF status[a] \in Unsettled /\ a \notin allocations
     THEN Assign(v, a) /\ UNCHANGED <<inbox, exceptions>>
     ELSE /\ inbox' = [inbox EXCEPT ![a] = "processed"]
          /\ exceptions' = IF status[a] \in Terminal
                           THEN exceptions \cup {<<a, "verification_mismatch">>}
                           ELSE exceptions
          /\ UNCHANGED verifier
  /\ UNCHANGED <<bookVars, status, opening, charge, age, batch, lost, faults>>

\* reconcilePending: a run takes the oldest attempts that are due ...
Due_NotUncertain == {a \in Attempts : status[a] \in {"initialized", "pending"} /\ age[a] >= TenMinutes}
Due == {a \in Attempts : status[a] \in Unsettled /\ age[a] >= TenMinutes}
StartReconciliation ==
  /\ batch = {} /\ verifier[Reconciler].step = "idle" /\ Due # {}
  /\ batch' = {a \in Due : Cardinality({b \in Due : b < a}) < BatchLimit}
  /\ UNCHANGED <<bookVars, status, opening, charge, age, inbox, verifier, exceptions, lost, faults>>

\* ... and verifies them one after the other.
ReconcileNext ==
  /\ verifier[Reconciler].step = "idle"
  /\ \E a \in batch :
       /\ \A b \in batch : a <= b
       /\ Assign(Reconciler, a)
       /\ batch' = batch \ {a}
  /\ UNCHANGED <<bookVars, status, opening, charge, age, inbox, exceptions, lost, faults>>

\* loadAttemptForActor, verifyAttemptAsSystem: the attempt is read unlocked.
LoadAttempt(v) ==
  /\ verifier[v].step = "assigned"
  /\ verifier' = [verifier EXCEPT ![v] =
       [step |-> "loaded", attempt |-> verifier[v].attempt,
        read |-> status[verifier[v].attempt], report |-> "none"]]
  /\ UNCHANGED <<bookVars, status, opening, charge, age, inbox, batch, exceptions, lost, faults>>

AskProvider(v) ==
  /\ verifier[v].step = "loaded"
  /\ \E answer \in ReportsOf(charge[verifier[v].attempt]) :
       verifier' = [verifier EXCEPT ![v] =
         [step |-> "answered", attempt |-> verifier[v].attempt,
          read |-> verifier[v].read, report |-> answer]]
  /\ UNCHANGED <<bookVars, status, opening, charge, age, inbox, batch, exceptions, lost, faults>>

--------------------------------------------------------------------------------
(* Applying an answer: applyVerification *)

\* matchVerification, by the status of the attempt it is given.  A charge of the
\* other environment matches in every field: the environment is checked later.
MatchSettled(answer) ==
  CASE answer = "reversed"                              -> "reverse"
    [] answer \in {"wrong_amount", "failed", "abandoned"} -> "mismatch"
    [] OTHER                                            -> "no_change"
MatchTerminal(answer) == IF answer \in Charged THEN "mismatch" ELSE "no_change"
MatchUnsettled(read, answer, stale) ==
  CASE answer \in {"success", "wrong_environment"}     -> "settle"
    [] answer = "wrong_amount"                          -> "mismatch"
    [] answer \in {"failed", "abandoned", "reversed"}   -> "fail"
    [] OTHER -> IF ~ stale THEN "keep_pending"
                ELSE IF read = "uncertain" THEN "no_change" ELSE "mark_uncertain"
Match_AnyAmount(read, answer, stale) ==
  CASE read = "successful"  -> MatchSettled(answer)
    [] read \in Terminal    -> MatchTerminal(answer)
    [] answer = "wrong_amount" -> "settle"
    [] OTHER                -> MatchUnsettled(read, answer, stale)
Match(read, answer, stale) ==
  CASE read = "successful"  -> MatchSettled(answer)
    [] read \in Terminal    -> MatchTerminal(answer)
    [] OTHER                -> MatchUnsettled(read, answer, stale)

OtherEnvironment(answer, decision) ==
  answer = "wrong_environment" /\ decision \in {"settle", "no_change"}

\* paymentAttemptMachine
CanMove(from, to) ==
  \/ from = "initialized" /\ to = "pending"
  \/ from \in Unsettled /\ to \in {"successful", "failed"}
  \/ from \in {"initialized", "pending"} /\ to \in {"uncertain", "abandoned"}
  \/ from = "successful" /\ to = "reversed"

Decision(v) ==
  LET V == verifier[v] IN Match(V.read, V.report, age[V.attempt] = Stale)

\* The status a decision other than settle and reverse asks for, and the code of
\* the exception it opens whatever happens ("none": only on a conflict).
TargetOf(v) ==
  LET V == verifier[v] IN
  CASE OtherEnvironment(V.report, Decision(v)) -> "uncertain"
    [] Decision(v) = "fail" -> IF V.report = "abandoned" THEN "abandoned" ELSE "failed"
    [] Decision(v) = "keep_pending" -> IF V.read = "uncertain" THEN "uncertain" ELSE "pending"
    [] Decision(v) = "mismatch" /\ V.read \in Terminal -> V.read
    [] OTHER -> "uncertain"
CodeOf(v) ==
  CASE OtherEnvironment(verifier[v].report, Decision(v)) -> "verification_mismatch"
    [] Decision(v) = "mismatch"       -> "verification_mismatch"
    [] Decision(v) = "mark_uncertain" -> "verification_uncertain"
    [] OTHER -> "none"
Raised(a, code) == IF code = "none" THEN {} ELSE {<<a, code>>}

\* The end of a verification: a webhook's event is marked, a failed one is left
\* to the retry of its job, and a failed reconciliation opens an exception.
Succeed(v) ==
  /\ verifier' = [verifier EXCEPT ![v] = Idle]
  /\ inbox' = IF v \in WebhookWorkers
              THEN [inbox EXCEPT ![verifier[v].attempt] = "processed"] ELSE inbox
Throw(v) ==
  /\ verifier' = [verifier EXCEPT ![v] = Idle]
  /\ inbox' = IF v \in WebhookWorkers
              THEN [inbox EXCEPT ![verifier[v].attempt] = "failed"] ELSE inbox
  /\ exceptions' = exceptions \cup
       (IF v = Reconciler THEN {<<verifier[v].attempt, "reverify_failed">>} ELSE {})

\* no_change
ApplyNothing(v) ==
  /\ verifier[v].step = "answered"
  /\ Decision(v) = "no_change" /\ ~ OtherEnvironment(verifier[v].report, "no_change")
  /\ Succeed(v)
  /\ UNCHANGED <<bookVars, status, opening, charge, age, batch, exceptions, lost, faults>>

\* recordAttemptOutcome: the decision was taken on what was read, the transition
\* is judged on what is locked; an illegal one keeps the status and is flagged.
ApplyOutcome_Unchecked(v) ==
  LET a == verifier[v].attempt IN
  /\ verifier[v].step = "answered"
  /\ \/ OtherEnvironment(verifier[v].report, Decision(v))
     \/ Decision(v) \in {"fail", "keep_pending", "mark_uncertain", "mismatch"}
  /\ status' = [status EXCEPT ![a] = TargetOf(v)]
  /\ exceptions' = exceptions \cup Raised(a, CodeOf(v))
  /\ Succeed(v)
  /\ UNCHANGED <<bookVars, opening, charge, age, batch, lost, faults>>
ApplyOutcome(v) ==
  LET a == verifier[v].attempt
      to == TargetOf(v)
      legal == status[a] = to \/ CanMove(status[a], to)
  IN
  /\ verifier[v].step = "answered"
  /\ \/ OtherEnvironment(verifier[v].report, Decision(v))
     \/ Decision(v) \in {"fail", "keep_pending", "mark_uncertain", "mismatch"}
  /\ status' = [status EXCEPT ![a] = IF legal THEN to ELSE @]
  /\ exceptions' = exceptions \cup
       Raised(a, IF legal \/ CodeOf(v) # "none" THEN CodeOf(v) ELSE "status_conflict")
  /\ Succeed(v)
  /\ UNCHANGED <<bookVars, opening, charge, age, batch, lost, faults>>

\* settleAttempt, under the locks of the attempt and of the invoice.
Settling(v) ==
  /\ verifier[v].step = "answered"
  /\ Decision(v) = "settle" /\ verifier[v].report # "wrong_environment"
AlreadySettled(a) == a \in allocations \/ status[a] = "successful"
Settleable(a, answer) ==
  /\ Match(status[a], answer, FALSE) = "settle"
  /\ invoice.status \in Allocatable

FindSettled(v) ==
  /\ Settling(v) /\ AlreadySettled(verifier[v].attempt)
  /\ Succeed(v)
  /\ UNCHANGED <<bookVars, status, opening, charge, age, batch, exceptions, lost, faults>>

RefuseSettlement(v) ==
  LET V == verifier[v] IN
  /\ Settling(v) /\ ~ AlreadySettled(V.attempt) /\ ~ Settleable(V.attempt, V.report)
  /\ Throw(v)
  /\ UNCHANGED <<bookVars, status, opening, charge, age, batch, lost, faults>>

SettleAttempt(v) ==
  LET V == verifier[v]  a == V.attempt IN
  /\ Settling(v) /\ ~ AlreadySettled(a) /\ Settleable(a, V.report)
  /\ Receive(a, amount[a])
  /\ status' = [status EXCEPT ![a] = "successful"]
  /\ Succeed(v)
  /\ UNCHANGED <<amount, transfer, opening, charge, age, batch, exceptions, lost, faults>>

\* reverseSettledAttempt.  The reversing journal is rebuilt from the allocation,
\* whose amount is the whole payment: it returns all of it to the receivables.
ReverseAttempt(v) ==
  LET a == verifier[v].attempt IN
  /\ verifier[v].step = "answered" /\ Decision(v) = "reverse"
  /\ IF status[a] = "successful"
     THEN /\ status' = [status EXCEPT ![a] = "reversed"]
          /\ ledger' = [ledger EXCEPT !.receivable = @ + amount[a]]
          /\ exceptions' = exceptions \cup {<<a, "payment_reversed">>}
     ELSE UNCHANGED <<status, ledger, exceptions>>
  /\ Succeed(v)
  /\ UNCHANGED <<invoice, amount, transfer, allocations, posted, engagement, opening, charge,
                 age, batch, lost, faults>>

Apply(v) ==
  \/ ApplyNothing(v) \/ ApplyOutcome(v)
  \/ FindSettled(v) \/ RefuseSettlement(v) \/ SettleAttempt(v)
  \/ ReverseAttempt(v)

\* The provider cannot be reached.
ProviderUnreachable(v) ==
  /\ verifier[v].step = "loaded"
  /\ faults < MaxFaults /\ faults' = faults + 1
  /\ Throw(v)
  /\ UNCHANGED <<bookVars, status, opening, charge, age, batch, lost>>

\* The process of a verification dies: a webhook's job is leased again, the next
\* scheduled reconciliation starts from a new list.
CrashVerifier(v) ==
  /\ verifier[v].step # "idle"
  /\ faults < MaxFaults /\ faults' = faults + 1
  /\ verifier' = [verifier EXCEPT ![v] = Idle]
  /\ batch' = IF v = Reconciler THEN {} ELSE batch
  /\ UNCHANGED <<bookVars, status, opening, charge, age, inbox, exceptions, lost>>

--------------------------------------------------------------------------------
Next ==
  \/ \E t \in Transfers : SubmitTransfer(t) \/ ConfirmTransfer(t) \/ RejectTransfer(t)
  \/ \E m \in CreditAmounts : IssueCreditNote(m)
  \/ MarkOverdue \/ VoidInvoice
  \/ \E a \in Attempts :
       \/ CreateAttempt(a) \/ InitializeAtProvider(a)
       \/ RecordOpened(a) \/ RecordRefused(a) \/ AbortOpening(a)
       \/ Pay(a) \/ ReverseCharge(a) \/ GrowOlder(a)
       \/ LoseWebhook(a) \/ ReceiveWebhook(a)
       \/ \E v \in Verifiers : RequestVerification(v, a) \/ PlanEvent(v, a)
  \/ StartReconciliation \/ ReconcileNext
  \/ \E v \in Verifiers :
       LoadAttempt(v) \/ AskProvider(v) \/ Apply(v) \/ ProviderUnreachable(v) \/ CrashVerifier(v)

Spec == Init /\ [][Next]_vars

\* What the code schedules: requests finish or die, the reconciliation job ticks
\* and works through its list, and stored events are run by the job queue, which
\* comes back to every event (JobQueue).  Nothing is assumed of the customer's
\* own verifications.
Scheduled(v) == LoadAttempt(v) \/ AskProvider(v) \/ Apply(v)
FairSpec ==
  /\ Spec
  /\ \A a \in Attempts :
       /\ WF_vars(InitializeAtProvider(a) \/ RecordOpened(a) \/ RecordRefused(a))
       /\ WF_vars(GrowOlder(a))
       /\ WF_vars(ReceiveWebhook(a))
       /\ SF_vars(\E v \in WebhookWorkers : PlanEvent(v, a))
  /\ WF_vars(StartReconciliation) /\ WF_vars(ReconcileNext)
  /\ \A v \in WebhookWorkers \cup {Reconciler} : WF_vars(Scheduled(v))

--------------------------------------------------------------------------------
(* Safety *)

\* An attempt counts as settled exactly when its money was allocated, and only
\* if the provider really took the exact amount: no interleaving of stale reads,
\* stale answers, replays and other environments settles anything else.
SettlementEarned ==
  \A a \in Attempts :
    /\ a \in allocations <=> status[a] \in {"successful", "reversed"}
    /\ a \in allocations => charge[a] \in {"success", "reversed"}

\* Whatever attempts, transfers, credit notes and the overdue job overlap, the
\* invoice is never paid beyond its total, is "paid" exactly when nothing is owed,
\* has been paid in part if it says so and not at all if it still
\* says issued ("overdue" says neither), and is only void if no money was ever put
\* on it; work waits for nothing once money alone has paid it.
InvoiceConsistent ==
  /\ invoice.paid + invoice.credited <= Total
  /\ invoice.status = "paid" <=> Balance = 0
  /\ invoice.status = "partially_paid" => invoice.paid > 0
  /\ invoice.status \in {"issued", "void"} => invoice.paid = 0
  /\ invoice.status = "void" => invoice.credited = 0 /\ allocations = {}
  /\ invoice.status = "paid" /\ invoice.credited = 0 => engagement = "in_progress"

\* Every kobo of an allocated payment is either on the invoice or held for the
\* customer, once: an overpayment by a second attempt is not lost.
NothingSwallowed ==
  /\ \A a \in Attempts :
       posted[a].allocated + posted[a].held = IF a \in allocations THEN amount[a] ELSE 0
  /\ \A k \in Attempts \cup Transfers : k \notin allocations => posted[k] = NoJournal

\* What the journal of each payment put on the invoice and held for the customer.
Applied == [k \in Attempts \cup Transfers |-> posted[k].allocated]
HeldBack == [k \in Attempts \cup Transfers |-> posted[k].held]
Returned == {a \in Attempts : status[a] = "reversed"}
Owing == IF invoice.status = "void" THEN 0 ELSE Balance

\* The accounts tie to the records: what is paid and held is the sum of what the
\* journals posted, and the receivable is what is still owed plus what was
\* returned to it by reversals (of payments that were not overpayments).
LedgerTies ==
  /\ invoice.paid = SumOver(Applied, Attempts \cup Transfers)
  /\ ledger.deposits = SumOver(HeldBack, Attempts \cup Transfers)
  /\ (\A a \in Returned : posted[a].held = 0) =>
       ledger.receivable = Owing + SumOver(Applied, Returned)

(* Action properties *)

\* An attempt that is closed keeps its status, except that a settled one may be
\* reversed; its journal is never posted again or edited.
ClosedStays ==
  [][\A a \in Attempts :
       /\ status[a] \in Terminal /\ opening[a] = "closed" => status'[a] = status[a]
       /\ status[a] = "successful" => status'[a] \in {"successful", "reversed"}
       /\ a \in allocations => posted'[a] = posted[a]]_vars

(* Liveness *)

Accounted(a) ==
  \/ a \in allocations
  \/ <<a, "verification_mismatch">> \in exceptions
  \/ <<a, "reverify_failed">> \in exceptions

\* Money the provider took is settled or shown to finance, although answers are
\* applied late, workers die and the provider fails: once its webhook has come.
MoneyAccounted ==
  \A a \in Attempts :
    (charge[a] \in Charged /\ inbox[a] = "received") ~> (Accounted(a) \/ charge[a] = "reversed")

\* Without its webhook too, an attempt that was paid does not stay open: the
\* reconciliation job finds it.
OpenMoneyFound ==
  \A a \in Attempts :
    (charge[a] \in Charged /\ status[a] \in Unsettled)
      ~> (Accounted(a) \/ charge[a] = "reversed" \/ status[a] \in Terminal)
================================================================================
