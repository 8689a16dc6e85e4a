---------------------------- MODULE Payments_proofs ----------------------------
(***************************************************************************)
(* Safety of settlement, for any attempts, verifications, transfers, credit *)
(* notes, amounts and interleavings.                                        *)
(***************************************************************************)
EXTENDS Payments, FiniteSetTheorems, TLAPS

\* Until createPaymentAttempt has come back from the provider there is no
\* checkout to pay, and what is not yet created is nowhere.
Opened ==
  \A a \in Attempts :
    /\ status[a] = "absent" => opening[a] = "closed" /\ charge[a] = "none"
    /\ status[a] # "absent" => amount[a] > 0
    /\ opening[a] = "calling" => charge[a] = "none"
    /\ opening[a] # "closed" => charge[a] \in {"none", "initialized"}

\* A verification holds an attempt that exists and an answer that was true once:
\* a charge that succeeded may since have been reversed, nothing else.
Believed ==
  /\ \A a \in batch : status[a] # "absent"
  /\ \A v \in Verifiers :
       LET V == verifier[v] IN
       V.step # "idle" =>
         /\ V.attempt \in Attempts /\ status[V.attempt] # "absent"
         /\ V.report = "success" => charge[V.attempt] \in {"success", "reversed"}
         /\ V.step \in {"loaded", "answered"} => V.read \in Statuses

\* An invoice without a paid amount never received money, unless credit notes
\* alone completed it: then a late payment is held in full.
Untouched == invoice.status # "paid" /\ invoice.paid = 0 => allocations = {}

IInv ==
  /\ TypeOK /\ Opened /\ Believed /\ Untouched
  /\ SettlementEarned /\ InvoiceConsistent /\ NothingSwallowed

LEMMA InitIInv == Init => IInv
  BY PaymentsAssumption DEF Init, IInv, TypeOK, Opened, Believed, Untouched,
     SettlementEarned, InvoiceConsistent, NothingSwallowed, Idle, NoJournal, Balance,
     Reports, Charges, Charged, Statuses, New, Stale, Unsettled, Terminal, Open


--------------------------------------------------------------------------------
(* What an action may do to the books *)

BookTypes ==
  /\ invoice \in [status : Open \cup {"paid", "void"}, paid : Nat, credited : Nat]
  /\ allocations \subseteq Attempts \cup Transfers
  /\ posted \in [Attempts \cup Transfers -> [allocated : Nat, held : Nat]]
  /\ ledger \in [receivable : Int, deposits : Int]
  /\ engagement \in {"awaiting_payment", "in_progress"}

Books == BookTypes /\ Untouched /\ InvoiceConsistent /\ NothingSwallowed

LEMMA SameBooks ==
  ASSUME IInv, UNCHANGED <<invoice, allocations, posted, engagement>>,
         ledger' \in [receivable : Int, deposits : Int],
         \A a \in Attempts : a \in allocations => amount'[a] = amount[a]
  PROVE  Books'
BY DEF IInv, TypeOK, Books, BookTypes, Untouched, InvoiceConsistent, NothingSwallowed, Balance

\* A payment is applied up to the balance and held beyond it.
LEMMA ReceiveBooks ==
  ASSUME IInv, NEW key \in Attempts \cup Transfers, NEW m \in Nat \ {0},
         key \notin allocations, invoice.status \in Allocatable, Receive(key, m),
         UNCHANGED amount, key \in Attempts => m = amount[key]
  PROVE  Books'
<1> DEFINE b == Balance  part == Allocated(m)
<1>1. /\ b \in Nat /\ part \in Nat /\ part <= m /\ part <= b /\ Held(m) = m - part
      /\ part = b \/ part = m
  BY PaymentsAssumption
     DEF IInv, TypeOK, InvoiceConsistent, Balance, Allocated, Least, Held
<1>2. invoice' = [status |-> StatusAt(b - part), paid |-> invoice.paid + part,
                  credited |-> invoice.credited]
  BY DEF Receive
<1>3. Balance' = b - part
  BY <1>1, <1>2, PaymentsAssumption DEF IInv, TypeOK, Balance
<1>4. posted' = [posted EXCEPT ![key] = [allocated |-> part, held |-> m - part]]
  BY <1>1 DEF Receive
<1>5. BookTypes'
  BY <1>1, <1>2, <1>4 DEF IInv, TypeOK, BookTypes, Receive, StatusAt, Open
<1>6. Untouched'
  BY <1>1, <1>2 DEF IInv, TypeOK, InvoiceConsistent, Untouched, StatusAt
<1>7. InvoiceConsistent'
  <2>1. (invoice.paid + invoice.credited <= Total)'
    BY <1>1, <1>2, PaymentsAssumption DEF IInv, TypeOK, Balance
  <2>2. (invoice.status = "paid" <=> Balance = 0)'
    BY <1>2, <1>3 DEF StatusAt
  <2>3. (invoice.status = "partially_paid" => invoice.paid > 0)'
    BY <1>1, <1>2 DEF IInv, TypeOK, StatusAt
  <2>4. (invoice.status = "paid" => engagement = "in_progress")'
    BY <1>2 DEF StatusAt, Receive
  <2> QED
    BY <1>2, <2>1, <2>2, <2>3, <2>4 DEF InvoiceConsistent, StatusAt
<1>8. NothingSwallowed'
  BY <1>1, <1>4 DEF IInv, TypeOK, NothingSwallowed, Receive
<1> QED
  BY <1>5, <1>6, <1>7, <1>8 DEF Books

LEMMA CreditBooks ==
  ASSUME IInv, NEW m \in CreditAmounts, IssueCreditNote(m)
  PROVE  Books'
<1>1. m \in Nat \ {0} /\ Balance \in Nat
  BY PaymentsAssumption DEF IInv, TypeOK, InvoiceConsistent, Balance
<1>2. Balance' = Balance - m
  BY <1>1, PaymentsAssumption DEF IInv, TypeOK, Balance, IssueCreditNote
<1>3. BookTypes'
  BY <1>1 DEF IInv, TypeOK, BookTypes, IssueCreditNote, Open
<1>4. Untouched' /\ NothingSwallowed'
  BY DEF IInv, TypeOK, Untouched, InvoiceConsistent, NothingSwallowed, IssueCreditNote, Open
<1>5. invoice' = [status |-> IF m = Balance THEN "paid"
                             ELSE IF invoice.paid > 0 THEN "partially_paid" ELSE invoice.status,
                  paid |-> invoice.paid, credited |-> invoice.credited + m]
      /\ m <= Balance /\ invoice.status \in Open
      /\ engagement' = engagement /\ allocations' = allocations
  BY DEF IssueCreditNote
<1>6. (invoice.paid + invoice.credited <= Total)'
  BY <1>1, <1>5, PaymentsAssumption DEF IInv, TypeOK, Balance
<1>7. (invoice.status = "paid" <=> Balance = 0)'
  BY <1>1, <1>2, <1>5 DEF Open
<1>8. InvoiceConsistent'
  BY <1>1, <1>5, <1>6, <1>7 DEF IInv, TypeOK, InvoiceConsistent, Open
<1> QED
  BY <1>3, <1>4, <1>8 DEF Books

LEMMA VoidBooks ==
  ASSUME IInv, VoidInvoice
  PROVE  Books'
<1>1. /\ invoice.status \in {"issued", "overdue"} /\ invoice.paid = 0 /\ invoice.credited = 0
      /\ invoice' = [status |-> "void", paid |-> 0, credited |-> 0]
      /\ allocations = {} /\ allocations' = {}
      /\ posted' = posted /\ amount' = amount /\ engagement' = engagement
  BY DEF VoidInvoice, IInv, TypeOK, Untouched
<1>2. Balance' = Total /\ Total # 0
  BY <1>1, PaymentsAssumption DEF Balance
<1>3. BookTypes'
  <2>1. invoice' \in [status : Open \cup {"paid", "void"}, paid : Nat, credited : Nat]
    BY <1>1
  <2>2. /\ allocations' \subseteq Attempts \cup Transfers
        /\ engagement' \in {"awaiting_payment", "in_progress"}
        /\ posted' \in [Attempts \cup Transfers -> [allocated : Nat, held : Nat]]
    BY <1>1 DEF IInv, TypeOK
  <2>3. ledger \in [receivable : Int, deposits : Int] /\ Total \in Int
    BY PaymentsAssumption DEF IInv, TypeOK
  <2>4. ledger' = [ledger EXCEPT !.receivable = @ - Total]
    BY DEF VoidInvoice
  <2>5. ledger' \in [receivable : Int, deposits : Int]
    BY <2>3, <2>4
  <2> QED
    BY <2>1, <2>2, <2>5 DEF BookTypes
<1>4. InvoiceConsistent'
  BY <1>1, <1>2, PaymentsAssumption DEF InvoiceConsistent
<1>5. Untouched' /\ NothingSwallowed'
  BY <1>1 DEF IInv, Untouched, NothingSwallowed
<1> QED
  BY <1>3, <1>4, <1>5 DEF Books

\* Marking an invoice overdue moves no money.
LEMMA OverdueBooks ==
  ASSUME IInv, MarkOverdue
  PROVE  Books'
<1>1. /\ invoice.status \in {"issued", "partially_paid"}
      /\ invoice' = [status |-> "overdue", paid |-> invoice.paid, credited |-> invoice.credited]
      /\ UNCHANGED <<allocations, posted, ledger, engagement, amount>>
  BY DEF MarkOverdue, IInv, TypeOK
<1>2. Balance' = Balance
  BY <1>1 DEF Balance
<1>3. BookTypes'
  BY <1>1 DEF IInv, TypeOK, BookTypes, Open
<1>4. Untouched' /\ NothingSwallowed'
  BY <1>1 DEF IInv, Untouched, NothingSwallowed
<1>5. InvoiceConsistent'
  BY <1>1, <1>2 DEF IInv, InvoiceConsistent
<1> QED
  BY <1>3, <1>4, <1>5 DEF Books

--------------------------------------------------------------------------------
(* The steps *)

Flow == Opened /\ Believed /\ SettlementEarned


\* Transfers, credit notes, due dates and voids leave attempts and verifications alone.
LEMMA InvoiceSteps ==
  ASSUME IInv,
         \/ \E t \in Transfers : SubmitTransfer(t) \/ ConfirmTransfer(t) \/ RejectTransfer(t)
         \/ \E m \in CreditAmounts : IssueCreditNote(m)
         \/ MarkOverdue \/ VoidInvoice
  PROVE  IInv'
<1> DEFINE Alone == UNCHANGED <<amount, status, opening, charge, age, inbox, verifier, batch,
                                exceptions, lost, faults>>
<1>1. ASSUME Alone, Books', transfer' \in [Transfers -> {"absent", "submitted", "confirmed", "rejected"}],
             \A a \in Attempts : a \in allocations' <=> a \in allocations
      PROVE  IInv'
  <2>1. TypeOK'
    BY <1>1 DEF Books, BookTypes, IInv, TypeOK
  <2>2. Flow'
    BY <1>1 DEF IInv, Flow, Opened, Believed, SettlementEarned
  <2> QED
    BY <1>1, <2>1, <2>2 DEF Flow, Books, IInv
<1>2. ASSUME NEW t \in Transfers, SubmitTransfer(t) \/ RejectTransfer(t) PROVE IInv'
  <2>1. Books'
    BY <1>2, SameBooks DEF SubmitTransfer, RejectTransfer, IInv, TypeOK
  <2> QED
    BY <1>1, <1>2, <2>1 DEF SubmitTransfer, RejectTransfer, IInv, TypeOK
<1>3. ASSUME NEW t \in Transfers, ConfirmTransfer(t) PROVE IInv'
  <2>1. PICK m \in TransferAmounts : Receive(t, m)
    BY <1>3 DEF ConfirmTransfer
  <2>2. Books'
    BY <1>3, <2>1, ReceiveBooks, PaymentsAssumption DEF ConfirmTransfer
  <2>3. \A a \in Attempts : a \in allocations' <=> a \in allocations
    BY <2>1, PaymentsAssumption DEF Receive
  <2> QED
    BY <1>1, <1>3, <2>2, <2>3 DEF ConfirmTransfer, IInv, TypeOK
<1>4. ASSUME NEW m \in CreditAmounts, IssueCreditNote(m) PROVE IInv'
  BY <1>1, <1>4, CreditBooks DEF IssueCreditNote, IInv, TypeOK
<1>5. ASSUME VoidInvoice PROVE IInv'
  BY <1>1, <1>5, VoidBooks DEF VoidInvoice, IInv, TypeOK
<1>6. ASSUME MarkOverdue PROVE IInv'
  BY <1>1, <1>6, OverdueBooks DEF MarkOverdue, IInv, TypeOK
<1> QED
  BY <1>2, <1>3, <1>4, <1>5, <1>6

\* Creating and opening an attempt, what happens at the provider, and time.
LEMMA AttemptSteps ==
  ASSUME IInv, NEW a \in Attempts,
         \/ CreateAttempt(a) \/ InitializeAtProvider(a)
         \/ RecordOpened(a) \/ RecordRefused(a) \/ AbortOpening(a)
         \/ Pay(a) \/ ReverseCharge(a) \/ GrowOlder(a)
         \/ LoseWebhook(a) \/ ReceiveWebhook(a)
  PROVE  IInv'
<1> USE PaymentsAssumption
<1>0. opening[a] # "closed" => a \notin allocations /\ status[a] # "absent"
  BY DEF IInv, Opened, SettlementEarned
<1>1. CASE CreateAttempt(a)
  <2>1. a \notin allocations
    BY <1>1 DEF CreateAttempt, IInv, SettlementEarned
  <2>2. Books'
    BY <1>1, <2>1, SameBooks DEF CreateAttempt, IInv, TypeOK
  <2>3. TypeOK'
    BY <1>1 DEF CreateAttempt, IInv, TypeOK, InvoiceConsistent, Balance, Statuses, Unsettled
  <2>4. Flow'
    BY <1>1, <2>1 DEF CreateAttempt, IInv, TypeOK, Flow, Opened, Believed, SettlementEarned
  <2> QED
    BY <2>2, <2>3, <2>4 DEF Flow, Books, IInv
<1>2. CASE InitializeAtProvider(a)
  <2>1. opening[a] = "calling" /\ charge[a] = "none"
    BY <1>2 DEF InitializeAtProvider, IInv, Opened
  <2>2. PICK c \in {"none", "initialized"} : charge' = [charge EXCEPT ![a] = c]
    BY <1>2 DEF InitializeAtProvider
  <2>3. PICK o \in {"answered", "refused"} : opening' = [opening EXCEPT ![a] = o]
    BY <1>2 DEF InitializeAtProvider
  <2>4. faults' \in 0..MaxFaults
    BY <1>2 DEF InitializeAtProvider, IInv, TypeOK
  <2>5. Books'
    BY <1>2, SameBooks DEF InitializeAtProvider, bookVars, IInv, TypeOK
  <2>6. TypeOK'
    BY <1>2, <2>2, <2>3, <2>4 DEF InitializeAtProvider, bookVars, IInv, TypeOK, Charges
  <2>7. Opened'
    BY <1>2, <2>1, <2>2, <2>3 DEF InitializeAtProvider, bookVars, IInv, TypeOK, Opened
  <2>8. Believed'
    BY <1>2, <2>1, <2>2 DEF InitializeAtProvider, IInv, TypeOK, Believed
  <2>9. SettlementEarned'
    BY <1>2, <2>1, <2>2 DEF InitializeAtProvider, bookVars, IInv, TypeOK, SettlementEarned
  <2> QED
    BY <2>5, <2>6, <2>7, <2>8, <2>9 DEF Books, IInv
<1>3. CASE RecordOpened(a)
  <2>1. /\ status' \in [Attempts -> Statuses \cup {"absent"}]
        /\ opening' \in [Attempts -> {"closed", "calling", "answered", "refused"}]
        /\ charge' \in [Attempts -> Charges]
    BY <1>3 DEF RecordOpened, IInv, TypeOK, Charges, Statuses, Unsettled
  <2>2. Books'
    BY <1>3, SameBooks DEF RecordOpened, bookVars, IInv, TypeOK
  <2>3. TypeOK'
    BY <1>3, <2>1 DEF RecordOpened, bookVars, IInv, TypeOK
  <2>4. Opened'
    BY <1>3, <1>0 DEF RecordOpened, bookVars, IInv, TypeOK, Opened
  <2>5. Believed'
    BY <1>3, <1>0 DEF RecordOpened, bookVars, IInv, TypeOK, Opened, Believed
  <2>6. SettlementEarned'
    BY <1>3, <1>0 DEF RecordOpened, bookVars, IInv, TypeOK, Opened, SettlementEarned
  <2> QED
    BY <2>2, <2>3, <2>4, <2>5, <2>6 DEF Books, IInv
<1>4. CASE RecordRefused(a)
  <2>1. /\ status' \in [Attempts -> Statuses \cup {"absent"}]
        /\ opening' \in [Attempts -> {"closed", "calling", "answered", "refused"}]
    BY <1>4 DEF RecordRefused, IInv, TypeOK, Statuses, Terminal
  <2>2. Books'
    BY <1>4, SameBooks DEF RecordRefused, bookVars, IInv, TypeOK
  <2>3. TypeOK'
    BY <1>4, <2>1 DEF RecordRefused, bookVars, IInv, TypeOK
  <2>4. Opened'
    BY <1>4, <1>0 DEF RecordRefused, bookVars, IInv, TypeOK, Opened
  <2>5. Believed'
    BY <1>4, <1>0 DEF RecordRefused, bookVars, IInv, TypeOK, Believed
  <2>6. SettlementEarned'
    BY <1>4, <1>0 DEF RecordRefused, bookVars, IInv, TypeOK, Opened, SettlementEarned
  <2> QED
    BY <2>2, <2>3, <2>4, <2>5, <2>6 DEF Books, IInv
<1>5. CASE AbortOpening(a)
  <2>1. /\ opening' \in [Attempts -> {"closed", "calling", "answered", "refused"}]
        /\ faults' \in 0..MaxFaults
    BY <1>5 DEF AbortOpening, IInv, TypeOK
  <2>2. Books'
    BY <1>5, SameBooks DEF AbortOpening, bookVars, IInv, TypeOK
  <2>3. TypeOK'
    BY <1>5, <2>1 DEF AbortOpening, bookVars, IInv, TypeOK
  <2>4. Opened'
    BY <1>5, <1>0 DEF AbortOpening, bookVars, IInv, TypeOK, Opened
  <2>5. Believed'
    BY <1>5, <1>0 DEF AbortOpening, bookVars, IInv, TypeOK, Believed
  <2>6. SettlementEarned'
    BY <1>5, <1>0 DEF AbortOpening, bookVars, IInv, TypeOK, Opened, SettlementEarned
  <2> QED
    BY <2>2, <2>3, <2>4, <2>5, <2>6 DEF Books, IInv
<1>6. CASE Pay(a)
  <2>1. /\ charge' \in [Attempts -> Charges]
        /\ inbox' \in [Attempts -> {"none", "sent", "received", "failed", "processed"}]
    BY <1>6 DEF Pay, IInv, TypeOK, Charges, Charged
  <2>2. Books'
    BY <1>6, SameBooks DEF Pay, bookVars, IInv, TypeOK
  <2>3. TypeOK'
    BY <1>6, <2>1 DEF Pay, bookVars, IInv, TypeOK
  <2>4. Opened'
    BY <1>6, <1>0 DEF Pay, bookVars, IInv, TypeOK, Opened
  <2>5. Believed'
    BY <1>6, <1>0 DEF Pay, bookVars, IInv, TypeOK, Believed
  <2>6. SettlementEarned'
    BY <1>6, <1>0 DEF Pay, bookVars, IInv, TypeOK, Opened, SettlementEarned
  <2> QED
    BY <2>2, <2>3, <2>4, <2>5, <2>6 DEF Books, IInv
<1>7. CASE ReverseCharge(a)
  <2>1. charge' \in [Attempts -> Charges]
    BY <1>7 DEF ReverseCharge, IInv, TypeOK, Charges
  <2>2. Books'
    BY <1>7, SameBooks DEF ReverseCharge, bookVars, IInv, TypeOK
  <2>3. TypeOK'
    BY <1>7, <2>1 DEF ReverseCharge, bookVars, IInv, TypeOK
  <2>4. Opened'
    BY <1>7, <1>0 DEF ReverseCharge, bookVars, IInv, TypeOK, Opened
  <2>5. Believed'
    BY <1>7, <1>0 DEF ReverseCharge, bookVars, IInv, TypeOK, Believed
  <2>6. SettlementEarned'
    BY <1>7, <1>0 DEF ReverseCharge, bookVars, IInv, TypeOK, Opened, SettlementEarned
  <2> QED
    BY <2>2, <2>3, <2>4, <2>5, <2>6 DEF Books, IInv
<1>8. CASE GrowOlder(a)
  <2>1. age' \in [Attempts -> New..Stale]
    BY <1>8 DEF GrowOlder, IInv, TypeOK, New, Stale
  <2>2. Books'
    BY <1>8, SameBooks DEF GrowOlder, bookVars, IInv, TypeOK
  <2>3. TypeOK'
    BY <1>8, <2>1 DEF GrowOlder, bookVars, IInv, TypeOK
  <2>4. Opened'
    BY <1>8, <1>0 DEF GrowOlder, bookVars, IInv, TypeOK, Opened
  <2>5. Believed'
    BY <1>8, <1>0 DEF GrowOlder, bookVars, IInv, TypeOK, Believed
  <2>6. SettlementEarned'
    BY <1>8, <1>0 DEF GrowOlder, bookVars, IInv, TypeOK, Opened, SettlementEarned
  <2> QED
    BY <2>2, <2>3, <2>4, <2>5, <2>6 DEF Books, IInv
<1>9. CASE LoseWebhook(a)
  <2>1. /\ inbox' \in [Attempts -> {"none", "sent", "received", "failed", "processed"}]
        /\ lost' \in 0..MaxLost
    BY <1>9 DEF LoseWebhook, IInv, TypeOK
  <2>2. Books'
    BY <1>9, SameBooks DEF LoseWebhook, bookVars, IInv, TypeOK
  <2>3. TypeOK'
    BY <1>9, <2>1 DEF LoseWebhook, bookVars, IInv, TypeOK
  <2>4. Opened'
    BY <1>9, <1>0 DEF LoseWebhook, bookVars, IInv, TypeOK, Opened
  <2>5. Believed'
    BY <1>9, <1>0 DEF LoseWebhook, bookVars, IInv, TypeOK, Believed
  <2>6. SettlementEarned'
    BY <1>9, <1>0 DEF LoseWebhook, bookVars, IInv, TypeOK, Opened, SettlementEarned
  <2> QED
    BY <2>2, <2>3, <2>4, <2>5, <2>6 DEF Books, IInv
<1>10. CASE ReceiveWebhook(a)
  <2>1. inbox' \in [Attempts -> {"none", "sent", "received", "failed", "processed"}]
    BY <1>10 DEF ReceiveWebhook, IInv, TypeOK
  <2>2. Books'
    BY <1>10, SameBooks DEF ReceiveWebhook, bookVars, IInv, TypeOK
  <2>3. TypeOK'
    BY <1>10, <2>1 DEF ReceiveWebhook, bookVars, IInv, TypeOK
  <2>4. Opened'
    BY <1>10, <1>0 DEF ReceiveWebhook, bookVars, IInv, TypeOK, Opened
  <2>5. Believed'
    BY <1>10, <1>0 DEF ReceiveWebhook, bookVars, IInv, TypeOK, Believed
  <2>6. SettlementEarned'
    BY <1>10, <1>0 DEF ReceiveWebhook, bookVars, IInv, TypeOK, Opened, SettlementEarned
  <2> QED
    BY <2>2, <2>3, <2>4, <2>5, <2>6 DEF Books, IInv
<1> QED
  BY <1>1, <1>2, <1>3, <1>4, <1>5, <1>6, <1>7, <1>8, <1>9, <1>10

\* Starting a verification, reading the attempt and asking the provider.
LEMMA VerifierStep ==
  ASSUME IInv, NEW v \in Verifiers, NEW V,
         V \in [step : {"idle", "assigned", "loaded", "answered"}, attempt : Attempts \cup {0},
                read : Statuses \cup {"none"}, report : Reports],
         verifier' = [verifier EXCEPT ![v] = V],
         charge' = charge,
         \A a \in Attempts : status[a] # "absent" => status'[a] # "absent",
         \A a \in batch' : a \in Attempts /\ status[a] # "absent",
         V.step # "idle" =>
           /\ V.attempt \in Attempts /\ status[V.attempt] # "absent"
           /\ V.report = "success" => charge[V.attempt] \in {"success", "reversed"}
           /\ V.step \in {"loaded", "answered"} => V.read \in Statuses
  PROVE  /\ Believed'
         /\ verifier' \in [Verifiers -> [step : {"idle", "assigned", "loaded", "answered"},
                                         attempt : Attempts \cup {0},
                                         read : Statuses \cup {"none"}, report : Reports]]
BY DEF IInv, TypeOK, Believed

\* A step that changes verifications, inbox, list and exceptions only.
LEMMA NoMoney ==
  ASSUME IInv, Believed',
         verifier' \in [Verifiers -> [step : {"idle", "assigned", "loaded", "answered"},
                                      attempt : Attempts \cup {0},
                                      read : Statuses \cup {"none"}, report : Reports]],
         inbox' \in [Attempts -> {"none", "sent", "received", "failed", "processed"}],
         batch' \subseteq Attempts, exceptions' \subseteq Attempts \X Codes,
         faults' \in 0..MaxFaults,
         UNCHANGED <<bookVars, status, opening, charge, age, lost>>
  PROVE  IInv'
<1>1. Books'
  BY SameBooks DEF bookVars, IInv, TypeOK
<1>2. TypeOK'
  BY DEF bookVars, IInv, TypeOK
<1>3. Opened' /\ SettlementEarned'
  BY DEF bookVars, IInv, Opened, SettlementEarned
<1> QED
  BY <1>1, <1>2, <1>3 DEF Books, IInv

LEMMA StartSteps ==
  ASSUME IInv, NEW v \in Verifiers, NEW a \in Attempts,
         RequestVerification(v, a) \/ PlanEvent(v, a)
  PROVE  IInv'
<1> DEFINE V == [step |-> "assigned", attempt |-> a, read |-> "none", report |-> "none"]
<1>1. V \in [step : {"idle", "assigned", "loaded", "answered"}, attempt : Attempts \cup {0},
             read : Statuses \cup {"none"}, report : Reports]
  BY DEF Reports
<1>2. batch \subseteq Attempts /\ \A b \in batch : status[b] # "absent"
  BY DEF IInv, TypeOK, Believed
<1>3. ASSUME Assign(v, a), status[a] # "absent",
             UNCHANGED <<bookVars, status, opening, charge, age, inbox, batch, exceptions, lost, faults>>
      PROVE  IInv'
  <2>1. verifier' = [verifier EXCEPT ![v] = V]
    BY <1>3 DEF Assign
  <2> HIDE DEF V
  <2>2. V.step = "assigned" /\ V.attempt = a /\ V.report = "none"
    BY DEF V
  <2>3. /\ Believed'
        /\ verifier' \in [Verifiers -> [step : {"idle", "assigned", "loaded", "answered"},
                                        attempt : Attempts \cup {0},
                                        read : Statuses \cup {"none"}, report : Reports]]
    BY <1>1, <1>2, <1>3, <2>1, <2>2, VerifierStep
  <2> QED
    BY <1>3, <2>3, NoMoney DEF IInv, TypeOK
<1>4. CASE RequestVerification(v, a)
  BY <1>3, <1>4 DEF RequestVerification
<1>5. CASE PlanEvent(v, a) /\ verifier' = verifier
  <2>1. /\ inbox' = inbox \/ inbox' = [inbox EXCEPT ![a] = "processed"]
        /\ exceptions' = exceptions \/ exceptions' = exceptions \cup {<<a, "verification_mismatch">>}
    BY <1>5 DEF PlanEvent
  <2>2. inbox \in [Attempts -> {"none", "sent", "received", "failed", "processed"}]
        /\ exceptions \subseteq Attempts \X Codes
    BY DEF IInv, TypeOK
  <2>3. inbox' \in [Attempts -> {"none", "sent", "received", "failed", "processed"}]
    BY <2>1, <2>2
  <2>4. exceptions' \subseteq Attempts \X Codes
    BY <2>1, <2>2 DEF Codes
  <2>5. Believed'
    BY <1>5 DEF PlanEvent, IInv, Believed
  <2> QED
    BY <1>5, <2>3, <2>4, <2>5, NoMoney DEF PlanEvent, IInv, TypeOK
<1>6. CASE PlanEvent(v, a) /\ verifier' # verifier
  <2>1. Assign(v, a) /\ status[a] \in Unsettled
    BY <1>6 DEF PlanEvent
  <2> QED
    BY <1>3, <1>6, <2>1 DEF PlanEvent, Unsettled
<1> QED
  BY <1>4, <1>5, <1>6

LEMMA ReconcilerSteps ==
  ASSUME IInv, StartReconciliation \/ ReconcileNext
  PROVE  IInv'
<1>1. CASE StartReconciliation
  <2>1. \A a \in batch' : a \in Attempts /\ status[a] # "absent"
    BY <1>1 DEF StartReconciliation, Due, Unsettled
  <2>2. Believed'
    BY <1>1, <2>1 DEF StartReconciliation, IInv, Believed
  <2> QED
    BY <1>1, <2>1, <2>2, NoMoney DEF StartReconciliation, IInv, TypeOK
<1>2. CASE ReconcileNext
  <2>1. PICK a \in batch : Assign(Reconciler, a) /\ batch' = batch \ {a}
    BY <1>2 DEF ReconcileNext
  <2>2. /\ UNCHANGED <<bookVars, status, opening, charge, age, inbox, exceptions, lost, faults>>
        /\ a \in Attempts /\ status[a] # "absent" /\ Reconciler \in Verifiers
        /\ batch' \subseteq Attempts /\ \A b \in batch' : status[b] # "absent"
    BY <1>2, <2>1 DEF ReconcileNext, IInv, TypeOK, Believed, Verifiers
  <2> DEFINE V == [step |-> "assigned", attempt |-> a, read |-> "none", report |-> "none"]
  <2>3. V \in [step : {"idle", "assigned", "loaded", "answered"}, attempt : Attempts \cup {0},
               read : Statuses \cup {"none"}, report : Reports]
    BY <2>2 DEF Reports
  <2>4. verifier' = [verifier EXCEPT ![Reconciler] = V]
    BY <2>1 DEF Assign
  <2> HIDE DEF V
  <2>5. V.step = "assigned" /\ V.attempt = a /\ V.report = "none"
    BY DEF V
  <2>6. /\ Believed'
        /\ verifier' \in [Verifiers -> [step : {"idle", "assigned", "loaded", "answered"},
                                        attempt : Attempts \cup {0},
                                        read : Statuses \cup {"none"}, report : Reports]]
    BY <2>2, <2>3, <2>4, <2>5, VerifierStep
  <2> QED
    BY <2>2, <2>6, NoMoney DEF IInv, TypeOK
<1> QED
  BY <1>1, <1>2

LEMMA Answers ==
  ASSUME NEW c \in Charges
  PROVE  /\ ReportsOf(c) \subseteq Reports
         /\ "success" \in ReportsOf(c) => c = "success"
BY DEF ReportsOf, Charges, Charged, Reports

\* A verification reads and asks.
LEMMA AskSteps ==
  ASSUME IInv, NEW v \in Verifiers, LoadAttempt(v) \/ AskProvider(v)
  PROVE  IInv'
<1> DEFINE a == verifier[v].attempt
<1>1. a \in Attempts /\ status[a] \in Statuses
  BY DEF LoadAttempt, AskProvider, IInv, TypeOK, Believed
<1>2. batch \subseteq Attempts /\ \A b \in batch : status[b] # "absent"
  BY DEF IInv, TypeOK, Believed
<1>3. UNCHANGED <<bookVars, status, opening, charge, age, inbox, batch, exceptions, lost, faults>>
  BY DEF LoadAttempt, AskProvider
<1>4. ASSUME NEW V, verifier' = [verifier EXCEPT ![v] = V], V.attempt = a,
             V \in [step : {"idle", "assigned", "loaded", "answered"}, attempt : Attempts \cup {0},
                    read : Statuses \cup {"none"}, report : Reports],
             V.report = "success" => charge[a] \in {"success", "reversed"},
             V.step \in {"loaded", "answered"} => V.read \in Statuses
      PROVE  IInv'
  <2>1. status[a] # "absent"
    BY <1>1 DEF Statuses, Unsettled, Terminal
  <2>2. /\ Believed'
        /\ verifier' \in [Verifiers -> [step : {"idle", "assigned", "loaded", "answered"},
                                        attempt : Attempts \cup {0},
                                        read : Statuses \cup {"none"}, report : Reports]]
    BY <1>1, <1>2, <1>3, <1>4, <2>1, VerifierStep
  <2> QED
    BY <1>3, <2>2, NoMoney DEF IInv, TypeOK
<1>5. CASE LoadAttempt(v)
  <2> DEFINE V == [step |-> "loaded", attempt |-> a, read |-> status[a], report |-> "none"]
  <2>1. verifier' = [verifier EXCEPT ![v] = V]
    BY <1>5 DEF LoadAttempt
  <2>2. V \in [step : {"idle", "assigned", "loaded", "answered"}, attempt : Attempts \cup {0},
               read : Statuses \cup {"none"}, report : Reports]
    BY <1>1 DEF Reports
  <2>3. V.attempt = a /\ V.report = "none" /\ V.read = status[a]
    OBVIOUS
  <2> HIDE DEF V
  <2> QED
    BY <1>1, <1>4, <2>1, <2>2, <2>3
<1>6. CASE AskProvider(v)
  <2>1. PICK answer \in ReportsOf(charge[a]) : verifier' = [verifier EXCEPT ![v] =
          [step |-> "answered", attempt |-> a, read |-> verifier[v].read, report |-> answer]]
    BY <1>6 DEF AskProvider
  <2>2. answer \in Reports /\ (answer = "success" => charge[a] = "success")
    BY <1>1, <2>1, Answers DEF IInv, TypeOK
  <2>3. verifier[v].read \in Statuses
    BY <1>6 DEF AskProvider, IInv, Believed
  <2> DEFINE V == [step |-> "answered", attempt |-> a, read |-> verifier[v].read, report |-> answer]
  <2>4. V \in [step : {"idle", "assigned", "loaded", "answered"}, attempt : Attempts \cup {0},
               read : Statuses \cup {"none"}, report : Reports]
    BY <1>1, <2>2, <2>3
  <2>5. V.attempt = a /\ V.report = answer /\ V.read = verifier[v].read
    OBVIOUS
  <2>6. verifier' = [verifier EXCEPT ![v] = V]
    BY <2>1
  <2> HIDE DEF V
  <2> QED
    BY <1>4, <2>2, <2>3, <2>4, <2>5, <2>6
<1> QED
  BY <1>5, <1>6

--------------------------------------------------------------------------------
(* Applying an answer *)

\* What a verification leaves behind, whether it succeeds or throws.
LEMMA Finished ==
  ASSUME IInv, NEW v \in Verifiers, verifier[v].step # "idle",
         verifier' = [verifier EXCEPT ![v] = Idle],
         charge' = charge,
         \A a \in Attempts : status[a] # "absent" => status'[a] # "absent",
         batch' \subseteq batch
  PROVE  /\ Believed'
         /\ verifier' \in [Verifiers -> [step : {"idle", "assigned", "loaded", "answered"},
                                         attempt : Attempts \cup {0},
                                         read : Statuses \cup {"none"}, report : Reports]]
<1>1. /\ Idle \in [step : {"idle", "assigned", "loaded", "answered"}, attempt : Attempts \cup {0},
                   read : Statuses \cup {"none"}, report : Reports]
      /\ Idle.step = "idle"
  BY DEF Idle, Reports
<1>2. \A a \in batch' : a \in Attempts /\ status[a] # "absent"
  BY DEF IInv, TypeOK, Believed
<1> QED
  BY <1>1, <1>2, VerifierStep

LEMMA Ends ==
  ASSUME IInv, NEW v \in Verifiers, verifier[v].step # "idle"
  PROVE  /\ Succeed(v) =>
              /\ verifier' = [verifier EXCEPT ![v] = Idle]
              /\ inbox' \in [Attempts -> {"none", "sent", "received", "failed", "processed"}]
         /\ Throw(v) =>
              /\ verifier' = [verifier EXCEPT ![v] = Idle]
              /\ inbox' \in [Attempts -> {"none", "sent", "received", "failed", "processed"}]
              /\ exceptions' \subseteq Attempts \X Codes
<1>1. /\ verifier[v].attempt \in Attempts
      /\ inbox \in [Attempts -> {"none", "sent", "received", "failed", "processed"}]
      /\ exceptions \subseteq Attempts \X Codes
  BY DEF IInv, TypeOK, Believed
<1>2. {<<verifier[v].attempt, "reverify_failed">>} \subseteq Attempts \X Codes
  BY <1>1 DEF Codes
<1> QED
  BY <1>1, <1>2 DEF Succeed, Throw

\* Nothing is applied: no change, already settled, refused, unreachable, crashed.
LEMMA BarrenSteps ==
  ASSUME IInv, NEW v \in Verifiers,
         \/ ApplyNothing(v) \/ FindSettled(v) \/ RefuseSettlement(v)
         \/ ProviderUnreachable(v) \/ CrashVerifier(v)
  PROVE  IInv'
<1>1. /\ verifier[v].step # "idle"
      /\ UNCHANGED <<bookVars, status, opening, charge, age, lost>>
      /\ batch' \subseteq batch
  BY DEF ApplyNothing, FindSettled, RefuseSettlement, Settling, ProviderUnreachable, CrashVerifier
<1>2. faults' \in 0..MaxFaults
  BY PaymentsAssumption
     DEF IInv, TypeOK, ApplyNothing, FindSettled, RefuseSettlement, ProviderUnreachable, CrashVerifier
<1>3. /\ verifier' = [verifier EXCEPT ![v] = Idle]
      /\ inbox' \in [Attempts -> {"none", "sent", "received", "failed", "processed"}]
      /\ exceptions' \subseteq Attempts \X Codes
  <2>1. CASE Succeed(v) /\ UNCHANGED exceptions
    BY <1>1, <2>1, Ends DEF IInv, TypeOK
  <2>2. CASE Throw(v)
    BY <1>1, <2>2, Ends
  <2>3. CASE CrashVerifier(v)
    BY <2>3 DEF CrashVerifier, IInv, TypeOK
  <2> QED
    BY <2>1, <2>2, <2>3 DEF ApplyNothing, FindSettled, RefuseSettlement, ProviderUnreachable
<1>4. /\ Believed'
      /\ verifier' \in [Verifiers -> [step : {"idle", "assigned", "loaded", "answered"},
                                      attempt : Attempts \cup {0},
                                      read : Statuses \cup {"none"}, report : Reports]]
  BY <1>1, <1>3, Finished
<1> QED
  BY <1>1, <1>2, <1>3, <1>4, NoMoney DEF IInv, TypeOK

\* The status another outcome asks for is one; the machine lets no attempt into
\* or out of settlement by it.
LEMMA Targets ==
  ASSUME IInv, NEW v \in Verifiers, verifier[v].step = "answered"
  PROVE  /\ TargetOf(v) \in Statuses \ {"successful"}
         /\ CodeOf(v) \in Codes \cup {"none"}
<1>1. verifier[v].read \in Statuses
  BY DEF IInv, Believed
<1> QED
  BY <1>1 DEF TargetOf, CodeOf, Codes, Statuses, Unsettled, Terminal

LEMMA OutcomeSteps ==
  ASSUME IInv, NEW v \in Verifiers, ApplyOutcome(v)
  PROVE  IInv'
<1> DEFINE a == verifier[v].attempt
           to == TargetOf(v)
           legal == status[a] = to \/ CanMove(status[a], to)
           next == IF legal THEN to ELSE status[a]
           code == IF legal \/ CodeOf(v) # "none" THEN CodeOf(v) ELSE "status_conflict"
<1>1. /\ verifier[v].step = "answered"
      /\ status' = [status EXCEPT ![a] = next]
      /\ exceptions' = exceptions \cup Raised(a, code)
      /\ Succeed(v)
      /\ UNCHANGED <<bookVars, opening, charge, age, batch, lost, faults>>
  BY DEF ApplyOutcome
<1>2. /\ to \in Statuses \ {"successful"}
      /\ CodeOf(v) \in Codes \cup {"none"}
      /\ a \in Attempts /\ status[a] \in Statuses
  BY <1>1, Targets DEF IInv, TypeOK, Believed
<1>3. /\ next \in Statuses
      /\ next \in {"successful", "reversed"} <=> status[a] \in {"successful", "reversed"}
  BY <1>2 DEF CanMove, Statuses, Unsettled, Terminal
<1>4. Raised(a, code) \subseteq Attempts \X Codes
  BY <1>2 DEF Raised, Codes
<1> HIDE DEF next, code, to, legal
<1>5. /\ verifier' = [verifier EXCEPT ![v] = Idle]
      /\ inbox' \in [Attempts -> {"none", "sent", "received", "failed", "processed"}]
  BY <1>1, Ends
<1>6. "absent" \notin Statuses
  BY DEF Statuses, Unsettled, Terminal
<1>7. \A b \in Attempts : status[b] # "absent" <=> status'[b] # "absent"
  BY <1>1, <1>2, <1>3, <1>6 DEF IInv, TypeOK
<1>8. /\ Believed'
      /\ verifier' \in [Verifiers -> [step : {"idle", "assigned", "loaded", "answered"},
                                      attempt : Attempts \cup {0},
                                      read : Statuses \cup {"none"}, report : Reports]]
  BY <1>1, <1>5, <1>7, Finished
<1>9. Books'
  BY <1>1, SameBooks DEF bookVars, IInv, TypeOK
<1>10. TypeOK'
  BY <1>1, <1>2, <1>3, <1>4, <1>5, <1>8 DEF bookVars, IInv, TypeOK
<1>11. Opened'
  BY <1>1, <1>7 DEF bookVars, IInv, Opened
<1>12. SettlementEarned'
  BY <1>1, <1>2, <1>3 DEF bookVars, IInv, TypeOK, SettlementEarned
<1> QED
  BY <1>8, <1>9, <1>10, <1>11, <1>12 DEF Books, IInv

\* What is settled was reported as charged, and was open and unallocated.
LEMMA Earned ==
  ASSUME IInv, NEW v \in Verifiers, SettleAttempt(v)
  PROVE  LET a == verifier[v].attempt IN
         /\ a \in Attempts /\ a \notin allocations /\ status[a] # "absent"
         /\ charge[a] \in {"success", "reversed"}
         /\ amount[a] \in Nat \ {0}
         /\ verifier[v].step = "answered" /\ invoice.status \in Allocatable
<1> DEFINE a == verifier[v].attempt
<1>1. /\ verifier[v].step = "answered" /\ verifier[v].report # "wrong_environment"
      /\ Decision(v) = "settle" /\ a \notin allocations /\ invoice.status \in Allocatable
  BY DEF SettleAttempt, Settling, AlreadySettled, Settleable
<1>2. a \in Attempts /\ status[a] # "absent"
  BY <1>1 DEF IInv, Believed
<1>3. verifier[v].report = "success"
  BY <1>1 DEF Decision, Match, MatchSettled, MatchTerminal, MatchUnsettled
<1>4. charge[a] \in {"success", "reversed"}
  BY <1>1, <1>3 DEF IInv, Believed
<1>5. amount[a] \in Nat \ {0}
  BY <1>2 DEF IInv, TypeOK, Opened
<1> QED
  BY <1>1, <1>2, <1>4, <1>5

LEMMA SettleSteps ==
  ASSUME IInv, NEW v \in Verifiers, SettleAttempt(v)
  PROVE  IInv'
<1> DEFINE a == verifier[v].attempt
<1>1. /\ a \in Attempts /\ a \notin allocations /\ status[a] # "absent"
      /\ charge[a] \in {"success", "reversed"}
      /\ amount[a] \in Nat \ {0}
      /\ verifier[v].step = "answered" /\ invoice.status \in Allocatable
  BY Earned
<1>2. /\ Receive(a, amount[a])
      /\ status' = [status EXCEPT ![a] = "successful"]
      /\ Succeed(v)
      /\ UNCHANGED <<amount, transfer, opening, charge, age, batch, exceptions, lost, faults>>
  BY DEF SettleAttempt
<1>3. /\ verifier' = [verifier EXCEPT ![v] = Idle]
      /\ inbox' \in [Attempts -> {"none", "sent", "received", "failed", "processed"}]
  BY <1>1, <1>2, Ends
<1>4. \A b \in Attempts : status[b] # "absent" <=> status'[b] # "absent"
  BY <1>1, <1>2 DEF IInv, TypeOK
<1>5. /\ Believed'
      /\ verifier' \in [Verifiers -> [step : {"idle", "assigned", "loaded", "answered"},
                                      attempt : Attempts \cup {0},
                                      read : Statuses \cup {"none"}, report : Reports]]
  BY <1>1, <1>2, <1>3, <1>4, Finished
<1>6. Books'
  <2> DEFINE m == amount[a]
  <2>1. m \in Nat \ {0} /\ Receive(a, m) /\ UNCHANGED amount /\ m = amount[a]
    BY <1>1, <1>2
  <2> HIDE DEF m
  <2> QED
    BY <1>1, <2>1, ReceiveBooks
<1>7. TypeOK'
  BY <1>1, <1>2, <1>3, <1>5, <1>6 DEF Books, BookTypes, IInv, TypeOK, Statuses
<1>8. Opened'
  BY <1>2, <1>4 DEF IInv, Opened
<1>9. SettlementEarned'
  BY <1>1, <1>2 DEF Receive, IInv, TypeOK, SettlementEarned
<1> QED
  BY <1>5, <1>6, <1>7, <1>8, <1>9 DEF Books, IInv

LEMMA ReverseSteps ==
  ASSUME IInv, NEW v \in Verifiers, ReverseAttempt(v)
  PROVE  IInv'
<1> DEFINE a == verifier[v].attempt
<1>1. /\ verifier[v].step = "answered" /\ Succeed(v)
      /\ a \in Attempts /\ status[a] # "absent"
      /\ UNCHANGED <<invoice, amount, transfer, allocations, posted, engagement, opening, charge,
                     age, batch, lost, faults>>
  BY DEF ReverseAttempt, IInv, Believed
<1>2. /\ verifier' = [verifier EXCEPT ![v] = Idle]
      /\ inbox' \in [Attempts -> {"none", "sent", "received", "failed", "processed"}]
  BY <1>1, Ends
<1>3. \/ UNCHANGED <<status, ledger, exceptions>>
      \/ /\ status[a] = "successful" /\ status' = [status EXCEPT ![a] = "reversed"]
         /\ ledger' = [ledger EXCEPT !.receivable = @ + amount[a]]
         /\ exceptions' = exceptions \cup {<<a, "payment_reversed">>}
  BY DEF ReverseAttempt
<1>4. /\ status' \in [Attempts -> Statuses \cup {"absent"}]
      /\ ledger' \in [receivable : Int, deposits : Int]
      /\ exceptions' \subseteq Attempts \X Codes
  <2>1. status' \in [Attempts -> Statuses \cup {"absent"}]
    BY <1>3 DEF IInv, TypeOK, Statuses, Terminal
  <2>2. ledger' \in [receivable : Int, deposits : Int]
    <3>1. ledger \in [receivable : Int, deposits : Int] /\ amount[a] \in Nat
      BY <1>1 DEF IInv, TypeOK
    <3> DEFINE m == amount[a]
    <3>2. \/ ledger' = ledger
          \/ ledger' = [ledger EXCEPT !.receivable = @ + m]
      BY <1>3
    <3> HIDE DEF m
    <3>3. m \in Nat
      BY <3>1 DEF m
    <3> QED
      BY <3>1, <3>2, <3>3
  <2>3. exceptions' \subseteq Attempts \X Codes
    <3>1. <<a, "payment_reversed">> \in Attempts \X Codes
      BY <1>1 DEF Codes
    <3> QED
      BY <1>3, <3>1 DEF IInv, TypeOK
  <2> QED
    BY <2>1, <2>2, <2>3
<1>5. \A b \in Attempts : /\ status[b] # "absent" <=> status'[b] # "absent"
                          /\ status[b] \in {"successful", "reversed"}
                               <=> status'[b] \in {"successful", "reversed"}
  BY <1>1, <1>3 DEF IInv, TypeOK
<1>6. /\ Believed'
      /\ verifier' \in [Verifiers -> [step : {"idle", "assigned", "loaded", "answered"},
                                      attempt : Attempts \cup {0},
                                      read : Statuses \cup {"none"}, report : Reports]]
  BY <1>1, <1>2, <1>5, Finished
<1>7. Books'
  BY <1>1, <1>4, SameBooks
<1>8. TypeOK'
  BY <1>1, <1>2, <1>4, <1>6 DEF IInv, TypeOK
<1>9. Opened' /\ SettlementEarned'
  BY <1>1, <1>5 DEF IInv, Opened, SettlementEarned
<1> QED
  BY <1>6, <1>7, <1>8, <1>9 DEF Books, IInv

--------------------------------------------------------------------------------
(* The theorems *)

LEMMA IInvStep == IInv /\ [Next]_vars => IInv'
<1> SUFFICES ASSUME IInv, [Next]_vars PROVE IInv'
  OBVIOUS
<1>1. CASE UNCHANGED vars
  BY <1>1 DEF vars, bookVars, IInv, TypeOK, Opened, Believed, Untouched, SettlementEarned,
     InvoiceConsistent, NothingSwallowed, Balance
<1>2. CASE \E t \in Transfers : SubmitTransfer(t) \/ ConfirmTransfer(t) \/ RejectTransfer(t)
  BY <1>2, InvoiceSteps
<1>3. CASE \E m \in CreditAmounts : IssueCreditNote(m)
  BY <1>3, InvoiceSteps
<1>4. CASE MarkOverdue \/ VoidInvoice
  BY <1>4, InvoiceSteps
<1>5. ASSUME NEW a \in Attempts,
             \/ CreateAttempt(a) \/ InitializeAtProvider(a)
             \/ RecordOpened(a) \/ RecordRefused(a) \/ AbortOpening(a)
             \/ Pay(a) \/ ReverseCharge(a) \/ GrowOlder(a)
             \/ LoseWebhook(a) \/ ReceiveWebhook(a)
      PROVE  IInv'
  BY <1>5, AttemptSteps
<1>6. ASSUME NEW a \in Attempts, NEW v \in Verifiers,
             RequestVerification(v, a) \/ PlanEvent(v, a)
      PROVE  IInv'
  BY <1>6, StartSteps
<1>7. CASE StartReconciliation \/ ReconcileNext
  BY <1>7, ReconcilerSteps
<1>8. ASSUME NEW v \in Verifiers, LoadAttempt(v) \/ AskProvider(v) PROVE IInv'
  BY <1>8, AskSteps
<1>9. ASSUME NEW v \in Verifiers, Apply(v) PROVE IInv'
  BY <1>9, BarrenSteps, OutcomeSteps, SettleSteps, ReverseSteps DEF Apply
<1>10. ASSUME NEW v \in Verifiers, ProviderUnreachable(v) \/ CrashVerifier(v) PROVE IInv'
  BY <1>10, BarrenSteps
<1> QED
  BY <1>1, <1>2, <1>3, <1>4, <1>5, <1>6, <1>7, <1>8, <1>9, <1>10 DEF Next

LEMMA Invariance == Spec => []IInv
BY InitIInv, IInvStep, PTL DEF Spec

\* Every state of every behaviour has its type, for any instance.
THEOREM TypesHold == Spec => []TypeOK
<1>1. IInv => TypeOK
  BY DEF IInv
<1> QED
  BY <1>1, Invariance, PTL

\* However reads and answers go stale while verifications overlap, an attempt is
\* settled only for a charge the provider really took, in full.
THEOREM SettledOnlyIfCharged == Spec => []SettlementEarned
<1>1. IInv => SettlementEarned
  BY DEF IInv
<1> QED
  BY <1>1, Invariance, PTL

\* Whatever attempts, transfers, credit notes, voids and runs of the overdue job
\* meet on the invoice, it is never overpaid, "paid" exactly when nothing is owed,
\* and no other status claims more or less of its payments than was received.
THEOREM InvoiceAlwaysConsistent == Spec => []InvoiceConsistent
<1>1. IInv => InvoiceConsistent
  BY DEF IInv
<1> QED
  BY <1>1, Invariance, PTL

\* Every settled payment is wholly applied or held, and posted once.
THEOREM NoKoboSwallowed == Spec => []NothingSwallowed
<1>1. IInv => NothingSwallowed
  BY DEF IInv
<1> QED
  BY <1>1, Invariance, PTL

\* One attempt's share of ClosedStays.
Closed(a) ==
  /\ status[a] \in Terminal /\ opening[a] = "closed" => status'[a] = status[a]
  /\ status[a] = "successful" => status'[a] \in {"successful", "reversed"}
  /\ a \in allocations => posted'[a] = posted[a]

LEMMA ClosedStep == IInv /\ [Next]_vars => \A a \in Attempts : Closed(a)
<1> SUFFICES ASSUME IInv, [Next]_vars, NEW b \in Attempts PROVE Closed(b)
  OBVIOUS
<1>0. /\ opening[b] # "closed" => b \notin allocations
      /\ status[b] = "successful" => b \in allocations
      /\ Attempts \cap Transfers = {}
  BY PaymentsAssumption DEF IInv, Opened, SettlementEarned
<1>1. ASSUME UNCHANGED status, UNCHANGED posted PROVE Closed(b)
  BY <1>1 DEF Closed
<1>2. CASE UNCHANGED vars
  BY <1>1, <1>2 DEF vars, bookVars
<1>3. ASSUME NEW t \in Transfers, ConfirmTransfer(t) PROVE Closed(b)
  <2>1. posted'[b] = posted[b] /\ UNCHANGED status
    BY <1>0, <1>3 DEF ConfirmTransfer, Receive, IInv, TypeOK
  <2> QED
    BY <2>1 DEF Closed
<1>4. ASSUME NEW t \in Transfers, SubmitTransfer(t) \/ RejectTransfer(t) PROVE Closed(b)
  BY <1>1, <1>4 DEF SubmitTransfer, RejectTransfer
<1>5. ASSUME (\E m \in CreditAmounts : IssueCreditNote(m)) \/ MarkOverdue \/ VoidInvoice
      PROVE  Closed(b)
  BY <1>1, <1>5 DEF IssueCreditNote, MarkOverdue, VoidInvoice
<1>6. ASSUME NEW a \in Attempts, CreateAttempt(a) \/ RecordOpened(a) \/ RecordRefused(a)
      PROVE  Closed(b)
  <2>1. UNCHANGED posted
    BY <1>6 DEF CreateAttempt, RecordOpened, RecordRefused, bookVars
  <2>2. CASE a = b
    <3>1. CASE CreateAttempt(a)
      BY <2>1, <2>2, <3>1 DEF CreateAttempt, Closed, Terminal
    <3>2. CASE RecordOpened(a)
      BY <1>0, <2>1, <2>2, <3>2 DEF RecordOpened, Closed
    <3>3. CASE RecordRefused(a)
      BY <1>0, <2>1, <2>2, <3>3 DEF RecordRefused, Closed
    <3> QED
      BY <1>6, <3>1, <3>2, <3>3
  <2>3. CASE a # b
    <3>1. status'[b] = status[b]
      BY <1>6, <2>3 DEF CreateAttempt, RecordOpened, RecordRefused, IInv, TypeOK
    <3> QED
      BY <2>1, <3>1 DEF Closed
  <2> QED
    BY <2>2, <2>3
<1>7. ASSUME NEW a \in Attempts,
             \/ InitializeAtProvider(a) \/ AbortOpening(a) \/ Pay(a) \/ ReverseCharge(a)
             \/ GrowOlder(a) \/ LoseWebhook(a) \/ ReceiveWebhook(a)
      PROVE  Closed(b)
  BY <1>1, <1>7 DEF InitializeAtProvider, AbortOpening, Pay, ReverseCharge, GrowOlder,
     LoseWebhook, ReceiveWebhook, bookVars
<1>8. ASSUME NEW v \in Verifiers, NEW a \in Attempts, RequestVerification(v, a) \/ PlanEvent(v, a)
      PROVE  Closed(b)
  BY <1>1, <1>8 DEF RequestVerification, PlanEvent, bookVars
<1>9. ASSUME StartReconciliation \/ ReconcileNext PROVE Closed(b)
  BY <1>1, <1>9 DEF StartReconciliation, ReconcileNext, bookVars
<1>10. ASSUME NEW v \in Verifiers,
              \/ LoadAttempt(v) \/ AskProvider(v) \/ ApplyNothing(v) \/ FindSettled(v)
              \/ RefuseSettlement(v) \/ ProviderUnreachable(v) \/ CrashVerifier(v)
       PROVE  Closed(b)
  BY <1>1, <1>10 DEF LoadAttempt, AskProvider, ApplyNothing, FindSettled, RefuseSettlement,
     ProviderUnreachable, CrashVerifier, bookVars
<1>11. ASSUME NEW v \in Verifiers, ApplyOutcome(v) PROVE Closed(b)
  <2> DEFINE a == verifier[v].attempt
             to == TargetOf(v)
  <2>1. /\ \/ UNCHANGED status
           \/ /\ CanMove(status[a], to) /\ to # "successful"
              /\ status' = [status EXCEPT ![a] = to]
        /\ UNCHANGED posted
    <3>1. verifier[v].step = "answered" /\ a \in Attempts
      BY <1>11 DEF ApplyOutcome, IInv, Believed
    <3>2. to # "successful"
      BY <3>1, Targets
    <3> QED
      BY <1>11, <3>1, <3>2 DEF ApplyOutcome, bookVars, IInv, TypeOK
  <2>2. CASE UNCHANGED status
    BY <1>1, <2>1, <2>2
  <2>3. CASE CanMove(status[a], to) /\ to # "successful" /\ status' = [status EXCEPT ![a] = to]
    <3>1. status[a] \notin Terminal /\ (status[a] = "successful" => to = "reversed")
      BY <2>3 DEF CanMove, Unsettled, Terminal
    <3> QED
      BY <2>1, <2>3, <3>1 DEF Closed, IInv, TypeOK
  <2> QED
    BY <2>1, <2>2, <2>3
<1>12. ASSUME NEW v \in Verifiers, SettleAttempt(v) PROVE Closed(b)
  <2> DEFINE a == verifier[v].attempt
  <2>1. a \in Attempts /\ a \notin allocations
    BY <1>12, Earned
  <2>2. /\ status' = [status EXCEPT ![a] = "successful"]
        /\ posted' = [posted EXCEPT ![a] = [allocated |-> Allocated(amount[a]), held |-> Held(amount[a])]]
        /\ Match(status[a], verifier[v].report, FALSE) = "settle"
    BY <1>12 DEF SettleAttempt, Settleable, Receive
  <2>3. status[a] \notin Terminal
    BY <2>2 DEF Match, MatchTerminal, Terminal
  <2> QED
    BY <2>1, <2>2, <2>3 DEF Closed, IInv, TypeOK
<1>13. ASSUME NEW v \in Verifiers, ReverseAttempt(v) PROVE Closed(b)
  <2> DEFINE a == verifier[v].attempt
  <2>1. /\ \/ UNCHANGED status
           \/ status[a] = "successful" /\ status' = [status EXCEPT ![a] = "reversed"]
        /\ UNCHANGED posted
    BY <1>13 DEF ReverseAttempt
  <2> QED
    BY <2>1 DEF Closed, Terminal, IInv, TypeOK
<1> QED
  BY <1>2, <1>3, <1>4, <1>5, <1>6, <1>7, <1>8, <1>9, <1>10, <1>11, <1>12, <1>13 DEF Next, Apply

\* A closed attempt never opens again and its journal is never posted twice,
\* whatever late answers arrive.
THEOREM ClosedForGood == Spec => ClosedStays
<1>1. IInv /\ [Next]_vars =>
        [\A a \in Attempts :
           /\ status[a] \in Terminal /\ opening[a] = "closed" => status'[a] = status[a]
           /\ status[a] = "successful" => status'[a] \in {"successful", "reversed"}
           /\ a \in allocations => posted'[a] = posted[a]]_vars
  BY ClosedStep DEF Closed
<1> QED
  BY <1>1, Invariance, PTL DEF Spec, ClosedStays

--------------------------------------------------------------------------------
(* Sums of amounts.                                                         *)
(*                                                                          *)
(* A sum counts units, so that the theorems on cardinality say what one     *)
(* summand more or less does to it, and no induction over the set is needed.*)

LEMMA UnitsFinite ==
  ASSUME NEW S, IsFiniteSet(S), NEW f, \A x \in S : f[x] \in Nat
  PROVE  IsFiniteSet(Units(f, S))
<1> DEFINE g == [x \in S |-> {x} \X (1..f[x])]
           T == {{x} \X (1..f[x]) : x \in S}
<1>1. g \in Surjection(S, T)
  BY DEF Surjection
<1>2. IsFiniteSet(T)
  BY <1>1, FS_Surjection
<1>3. ASSUME NEW U \in T PROVE IsFiniteSet(U)
  <2>1. PICK x \in S : U = {x} \X (1..f[x])
    BY <1>3
  <2>2. f[x] \in Int
    OBVIOUS
  <2>3. IsFiniteSet({x})
    BY FS_Singleton
  <2>4. IsFiniteSet(1..f[x])
    BY <2>2, FS_Interval
  <2> QED
    BY <2>1, <2>3, <2>4, FS_Product
<1> QED
  BY <1>2, <1>3, FS_UNION DEF Units

LEMMA SumEmpty ==
  ASSUME NEW f PROVE SumOver(f, {}) = 0
<1>1. Units(f, {}) = {}
  BY DEF Units
<1> QED
  BY <1>1, FS_EmptySet DEF SumOver

LEMMA SumType ==
  ASSUME NEW S, IsFiniteSet(S), NEW f, \A x \in S : f[x] \in Nat
  PROVE  SumOver(f, S) \in Nat
BY UnitsFinite, FS_CardinalityType DEF SumOver

LEMMA SumSame ==
  ASSUME NEW S, NEW f, NEW g, \A x \in S : f[x] = g[x]
  PROVE  SumOver(f, S) = SumOver(g, S)
<1>1. Units(f, S) = Units(g, S)
  BY DEF Units
<1> QED
  BY <1>1 DEF SumOver

LEMMA SumAdd ==
  ASSUME NEW S, IsFiniteSet(S), NEW f, NEW x, x \notin S,
         \A y \in S \cup {x} : f[y] \in Nat
  PROVE  SumOver(f, S \cup {x}) = SumOver(f, S) + f[x]
<1> DEFINE U == {x} \X (1..f[x])
<1>1. Units(f, S \cup {x}) = Units(f, S) \cup U
  BY DEF Units
<1>2. Units(f, S) \cap U = {}
  BY DEF Units
<1>3. IsFiniteSet(Units(f, S)) /\ Cardinality(Units(f, S)) \in Nat
  BY UnitsFinite, FS_CardinalityType
<1>4. IsFiniteSet(U) /\ Cardinality(U) = f[x]
  <2>1. f[x] \in Nat
    OBVIOUS
  <2>2. IsFiniteSet({x}) /\ Cardinality({x}) = 1
    BY FS_Singleton
  <2>3. IsFiniteSet(1..f[x]) /\ Cardinality(1..f[x]) = f[x]
    BY <2>1, FS_Interval
  <2>4. IsFiniteSet(U) /\ Cardinality(U) = 1 * f[x]
    BY <2>2, <2>3, FS_Product
  <2> QED
    BY <2>1, <2>4
<1>5. f[x] \in Nat
  OBVIOUS
<1>6. Cardinality(Units(f, S) \cup U) = Cardinality(Units(f, S)) + Cardinality(U) - 0
  BY <1>2, <1>3, <1>4, FS_Union, FS_EmptySet
<1> HIDE DEF U
<1>7. Cardinality(Units(f, S) \cup U) = Cardinality(Units(f, S)) + f[x]
  BY <1>3, <1>4, <1>5, <1>6
<1>8. Cardinality(Units(f, S \cup {x})) = Cardinality(Units(f, S)) + f[x]
  BY <1>1, <1>7
<1> QED
  BY <1>8 DEF SumOver

LEMMA SumRemove ==
  ASSUME NEW S, IsFiniteSet(S), NEW f, NEW x \in S, \A y \in S : f[y] \in Nat
  PROVE  /\ SumOver(f, S \ {x}) = SumOver(f, S) - f[x]
         /\ SumOver(f, S \ {x}) \in Nat
<1>1. S = (S \ {x}) \cup {x} /\ x \notin S \ {x} /\ IsFiniteSet(S \ {x})
  BY FS_RemoveElement
<1>2. SumOver(f, (S \ {x}) \cup {x}) = SumOver(f, S \ {x}) + f[x]
  BY <1>1, SumAdd
<1>3. SumOver(f, S \ {x}) \in Nat
  BY <1>1, SumType
<1>4. f[x] \in Nat
  OBVIOUS
<1> QED
  BY <1>1, <1>2, <1>3, <1>4

--------------------------------------------------------------------------------
(* The ledger ties to the journals and the reversals *)

Keys == Attempts \cup Transfers

\* What a verification read as reversed is reversed for good: applying it late
\* takes no attempt out of the reversed ones, and into them.
SeenReversed ==
  \A v \in Verifiers : verifier[v].read = "reversed" =>
    verifier[v].attempt \in Attempts /\ status[verifier[v].attempt] = "reversed"

\* A reversal returns the whole payment to the receivables, so that the account
\* ties to the amounts of what was reversed; LedgerTies follows for payments
\* that were applied in full.
Tied ==
  /\ invoice.paid = SumOver(Applied, Keys)
  /\ ledger.deposits = SumOver(HeldBack, Keys)
  /\ ledger.receivable = Owing + SumOver(amount, Returned)

\* A sum in which one summand grows from nothing.
LEMMA SumRaised ==
  ASSUME NEW S, IsFiniteSet(S), NEW f, NEW g, NEW x \in S,
         \A y \in S : f[y] \in Nat /\ g[y] \in Nat,
         \A y \in S \ {x} : g[y] = f[y], f[x] = 0
  PROVE  SumOver(g, S) = SumOver(f, S) + g[x]
<1>1. SumOver(f, S \ {x}) = SumOver(f, S) - f[x] /\ SumOver(f, S) \in Nat
  BY SumRemove, SumType
<1>2. SumOver(g, S \ {x}) = SumOver(g, S) - g[x] /\ SumOver(g, S) \in Nat
  BY SumRemove, SumType
<1>3. SumOver(f, S \ {x}) = SumOver(g, S \ {x})
  BY SumSame
<1>4. g[x] \in Nat
  OBVIOUS
<1> QED
  BY <1>1, <1>2, <1>3, <1>4

LEMMA JournalTypes ==
  ASSUME IInv
  PROVE  /\ IsFiniteSet(Keys) /\ IsFiniteSet(Returned)
         /\ \A k \in Keys : Applied[k] \in Nat /\ HeldBack[k] \in Nat
         /\ \A a \in Attempts : amount[a] \in Nat
<1>1. IsFiniteSet(Keys)
  BY PaymentsAssumption, FS_Union DEF Keys
<1>2. IsFiniteSet(Returned)
  BY PaymentsAssumption, FS_Subset DEF Returned
<1>3. \A k \in Keys : Applied[k] \in Nat /\ HeldBack[k] \in Nat
  BY DEF IInv, TypeOK, Keys, Applied, HeldBack
<1> QED
  BY <1>1, <1>2, <1>3 DEF IInv, TypeOK

LEMMA InitTied == Init => Tied
<1> SUFFICES ASSUME Init PROVE Tied
  OBVIOUS
<1>1. IInv
  BY InitIInv
<1>2. \A k \in Keys : Applied[k] = 0 /\ HeldBack[k] = 0
  BY DEF Init, Keys, Applied, HeldBack, NoJournal
<1>3. Returned = {}
  BY DEF Init, Returned
<1>4. Units(Applied, Keys) = {} /\ Units(HeldBack, Keys) = {}
  BY <1>2 DEF Units
<1>5. SumOver(Applied, Keys) = 0 /\ SumOver(HeldBack, Keys) = 0
  BY <1>4, FS_EmptySet DEF SumOver
<1>6. SumOver(amount, Returned) = 0
  BY <1>3, SumEmpty
<1> QED
  BY <1>5, <1>6, PaymentsAssumption DEF Init, Tied, Owing, Balance

\* A step that posts nothing and reverses nothing.
LEMMA SameTied ==
  ASSUME Tied, UNCHANGED <<invoice, posted, ledger>>, Returned' = Returned,
         \A a \in Returned : amount'[a] = amount[a]
  PROVE  Tied'
<1>1. Applied' = Applied /\ HeldBack' = HeldBack /\ Owing' = Owing
  BY DEF Applied, HeldBack, Owing, Balance
<1>2. SumOver(amount, Returned) = SumOver(amount', Returned)
  BY SumSame
<1> QED
  BY <1>1, <1>2 DEF Tied

LEMMA SameStatusTied ==
  ASSUME Tied, UNCHANGED <<invoice, amount, posted, ledger, status>>
  PROVE  Tied'
<1>1. Returned' = Returned
  BY DEF Returned
<1> QED
  BY <1>1, SameTied

\* A payment that is received for the first time.
LEMMA ReceiveTied ==
  ASSUME IInv, IInv', Tied, NEW key \in Keys, NEW m \in Nat, key \notin allocations,
         invoice.status \in Allocatable, Receive(key, m), UNCHANGED amount, Returned' = Returned
  PROVE  Tied'
<1> DEFINE part == Allocated(m)  rest == Held(m)
<1>1. /\ posted[key] = NoJournal
      /\ posted' = [posted EXCEPT ![key] = [allocated |-> part, held |-> rest]]
      /\ ledger' = [receivable |-> ledger.receivable - part, deposits |-> ledger.deposits + rest]
      /\ invoice' = [status |-> StatusAt(Balance - part), paid |-> invoice.paid + part,
                     credited |-> invoice.credited]
  BY DEF Receive, IInv, NothingSwallowed, Keys
<1>2. /\ posted \in [Keys -> [allocated : Nat, held : Nat]]
      /\ posted' \in [Keys -> [allocated : Nat, held : Nat]]
      /\ Balance \in Int /\ Total \in Nat /\ invoice.paid \in Nat /\ invoice.credited \in Nat
      /\ ledger.receivable \in Int
  BY PaymentsAssumption DEF IInv, TypeOK, Keys, Balance
<1> HIDE DEF part, rest
<1>3. posted'[key] = [allocated |-> part, held |-> rest] /\ part \in Nat /\ rest \in Nat
  BY <1>1, <1>2
<1>4. /\ Applied'[key] = part /\ HeldBack'[key] = rest
      /\ Applied[key] = 0 /\ HeldBack[key] = 0
  BY <1>1, <1>3 DEF Applied, HeldBack, Keys, NoJournal
<1>5. \A k \in Keys \ {key} : Applied'[k] = Applied[k] /\ HeldBack'[k] = HeldBack[k]
  BY <1>1, <1>2 DEF Applied, HeldBack, Keys
<1>6. \A k \in Keys : Applied'[k] \in Nat /\ HeldBack'[k] \in Nat
  BY <1>2 DEF Applied, HeldBack, Keys
<1>7. /\ SumOver(Applied', Keys) = SumOver(Applied, Keys) + part
      /\ SumOver(HeldBack', Keys) = SumOver(HeldBack, Keys) + rest
  BY <1>4, <1>5, <1>6, JournalTypes, SumRaised
<1>8. Owing = Balance /\ Owing' = Balance'
  BY <1>1 DEF Allocatable, Open, Owing, StatusAt
<1>9. Balance' = Balance - part
  BY <1>1, <1>2, <1>3 DEF Balance
<1>10. invoice'.paid = invoice.paid + part /\ ledger'.deposits = ledger.deposits + rest
       /\ ledger'.receivable = ledger.receivable - part
  BY <1>1
<1>11. SumOver(amount, Returned) \in Nat
  BY JournalTypes, SumType DEF Returned
<1> QED
  BY <1>2, <1>3, <1>7, <1>8, <1>9, <1>10, <1>11 DEF Tied

LEMMA CreditTied ==
  ASSUME IInv, Tied, NEW m \in CreditAmounts, IssueCreditNote(m)
  PROVE  Tied'
<1>1. /\ invoice.status # "void" /\ invoice'.status # "void"
      /\ invoice'.paid = invoice.paid /\ invoice'.credited = invoice.credited + m
      /\ ledger' = [ledger EXCEPT !.receivable = @ - m]
      /\ UNCHANGED <<amount, posted, status>>
  BY DEF IssueCreditNote, Open
<1>2. /\ m \in Nat /\ Total \in Nat /\ invoice.paid \in Nat /\ invoice.credited \in Nat
      /\ ledger.receivable \in Int
  BY PaymentsAssumption DEF IInv, TypeOK
<1>3. ledger'.receivable = ledger.receivable - m /\ ledger'.deposits = ledger.deposits
  BY <1>1 DEF IInv, TypeOK
<1>4. Owing = Balance /\ Owing' = Balance - m
  BY <1>1, <1>2 DEF Owing, Balance
<1>5. Applied' = Applied /\ HeldBack' = HeldBack /\ Returned' = Returned
  BY <1>1 DEF Applied, HeldBack, Returned
<1>6. SumOver(amount, Returned) \in Nat /\ Balance \in Int
  BY <1>2, JournalTypes, SumType DEF Returned, Balance
<1> QED
  BY <1>1, <1>2, <1>3, <1>4, <1>5, <1>6 DEF Tied

LEMMA OverdueTied ==
  ASSUME IInv, Tied, MarkOverdue
  PROVE  Tied'
<1>1. /\ invoice.status # "void" /\ invoice'.status # "void"
      /\ invoice'.paid = invoice.paid /\ invoice'.credited = invoice.credited
      /\ UNCHANGED <<amount, posted, ledger, status>>
  BY DEF MarkOverdue, IInv, TypeOK
<1>2. Applied' = Applied /\ HeldBack' = HeldBack /\ Returned' = Returned /\ Owing' = Owing
  BY <1>1 DEF Applied, HeldBack, Returned, Owing, Balance
<1> QED
  BY <1>1, <1>2 DEF Tied

LEMMA VoidTied ==
  ASSUME IInv, Tied, VoidInvoice
  PROVE  Tied'
<1>1. /\ invoice.status \in {"issued", "overdue"} /\ invoice.paid = 0 /\ invoice.credited = 0
      /\ invoice' = [invoice EXCEPT !.status = "void"]
      /\ ledger' = [ledger EXCEPT !.receivable = @ - Total]
      /\ UNCHANGED <<amount, posted, status>>
  BY DEF VoidInvoice
<1>2. Owing = Total /\ Owing' = 0 /\ invoice'.paid = invoice.paid
  BY <1>1, PaymentsAssumption DEF IInv, TypeOK, Owing, Balance
<1>3. /\ ledger'.receivable = ledger.receivable - Total /\ ledger'.deposits = ledger.deposits
      /\ Total \in Nat
  BY <1>1, PaymentsAssumption DEF IInv, TypeOK
<1>4. Applied' = Applied /\ HeldBack' = HeldBack /\ Returned' = Returned
  BY <1>1 DEF Applied, HeldBack, Returned
<1>5. SumOver(amount, Returned) \in Nat
  BY JournalTypes, SumType DEF Returned
<1>6. ledger'.receivable = Owing' + SumOver(amount, Returned)
  BY <1>2, <1>3, <1>5 DEF Tied
<1>7. amount' = amount
  BY <1>1
<1> QED
  BY <1>2, <1>3, <1>4, <1>6, <1>7 DEF Tied

LEMMA ReverseTied ==
  ASSUME IInv, Tied, NEW v \in Verifiers, ReverseAttempt(v)
  PROVE  Tied'
<1>0. PICK a : a = verifier[v].attempt
  OBVIOUS
<1>1. /\ a \in Attempts /\ UNCHANGED <<invoice, amount, posted>>
      /\ \/ UNCHANGED <<status, ledger>>
         \/ /\ status[a] = "successful" /\ status' = [status EXCEPT ![a] = "reversed"]
            /\ ledger' = [ledger EXCEPT !.receivable = @ + amount[a]]
  BY <1>0 DEF ReverseAttempt, IInv, Believed
<1>2. CASE UNCHANGED <<status, ledger>>
  BY <1>1, <1>2, SameStatusTied
<1>3. CASE /\ status[a] = "successful" /\ status' = [status EXCEPT ![a] = "reversed"]
           /\ ledger' = [ledger EXCEPT !.receivable = @ + amount[a]]
  <2>1. Returned' = Returned \cup {a} /\ a \notin Returned
    BY <1>1, <1>3 DEF IInv, TypeOK, Returned
  <2>2. IsFiniteSet(Returned) /\ \A b \in Returned \cup {a} : amount[b] \in Nat
    BY <1>1, JournalTypes DEF Returned
  <2>3. SumOver(amount, Returned \cup {a}) = SumOver(amount, Returned) + amount[a]
    BY <2>1, <2>2, SumAdd
  <2>4. SumOver(amount, Returned) \in Nat /\ amount[a] \in Nat
    BY <2>2, SumType
  <2>5. ledger'.receivable = ledger.receivable + amount[a] /\ ledger'.deposits = ledger.deposits
    BY <1>3 DEF IInv, TypeOK
  <2>6. /\ Applied' = Applied /\ HeldBack' = HeldBack /\ Owing' = Owing
        /\ Owing \in Int
    BY <1>1, PaymentsAssumption DEF Applied, HeldBack, Owing, Balance, IInv, TypeOK
  <2> QED
    BY <1>1, <2>1, <2>3, <2>4, <2>5, <2>6 DEF Tied
<1> QED
  BY <1>1, <1>2, <1>3

\* Whatever else is recorded of an attempt, it does not become reversed by it.
LEMMA OutcomeReturned ==
  ASSUME IInv, SeenReversed, NEW v \in Verifiers, ApplyOutcome(v)
  PROVE  Returned' = Returned
<1>0. PICK a : a = verifier[v].attempt
  OBVIOUS
<1>1. a \in Attempts /\ status[a] \in Statuses /\ verifier[v].read \in Statuses
  BY <1>0 DEF ApplyOutcome, IInv, TypeOK, Believed
<1>2. TargetOf(v) = "reversed" => status[a] = "reversed"
  BY <1>0, <1>1 DEF TargetOf, SeenReversed
<1>3. \/ status' = status
      \/ /\ status' = [status EXCEPT ![a] = TargetOf(v)]
         /\ CanMove(status[a], TargetOf(v))
  BY <1>0, <1>1 DEF ApplyOutcome, IInv, TypeOK
<1>4. CanMove(status[a], TargetOf(v)) => status[a] # "reversed"
  BY DEF CanMove, Unsettled
<1> QED
  BY <1>1, <1>2, <1>3, <1>4 DEF Returned, IInv, TypeOK

\* An attempt that is settled was not reversed, and one that is opened neither.
LEMMA NotReturned ==
  ASSUME IInv, NEW a \in Attempts,
         a \notin allocations \/ opening[a] # "closed" \/ status[a] = "absent"
  PROVE  status[a] # "reversed"
BY DEF IInv, Opened, SettlementEarned

LEMMA NextTied == IInv /\ IInv' /\ SeenReversed /\ Tied /\ [Next]_vars => Tied'
<1> SUFFICES ASSUME IInv, IInv', SeenReversed, Tied, [Next]_vars PROVE Tied'
  OBVIOUS
<1>1. ASSUME UNCHANGED <<invoice, amount, posted, ledger, status>> PROVE Tied'
  BY <1>1, SameStatusTied
<1>2. ASSUME NEW t \in Transfers, ConfirmTransfer(t) PROVE Tied'
  <2>1. /\ t \in Keys /\ t \notin allocations /\ invoice.status \in Allocatable
        /\ UNCHANGED <<amount, status>>
    BY <1>2 DEF ConfirmTransfer, Keys
  <2>2. PICK m \in TransferAmounts : Receive(t, m)
    BY <1>2 DEF ConfirmTransfer
  <2>3. m \in Nat /\ Returned' = Returned
    BY <2>1, PaymentsAssumption DEF Returned
  <2> QED
    BY <2>1, <2>2, <2>3, ReceiveTied
<1>3. ASSUME NEW m \in CreditAmounts, IssueCreditNote(m) PROVE Tied'
  BY <1>3, CreditTied
<1>4. ASSUME MarkOverdue \/ VoidInvoice PROVE Tied'
  BY <1>4, OverdueTied, VoidTied
<1>5. ASSUME NEW a \in Attempts, CreateAttempt(a) PROVE Tied'
  <2>1. /\ status[a] = "absent" /\ status' = [status EXCEPT ![a] = "initialized"]
        /\ UNCHANGED <<invoice, posted, ledger>>
        /\ \E m \in {Balance} \cup Installments : amount' = [amount EXCEPT ![a] = m]
    BY <1>5 DEF CreateAttempt
  <2>2. Returned' = Returned
    BY <2>1 DEF Returned, IInv, TypeOK
  <2>3. \A b \in Returned : amount'[b] = amount[b]
    BY <2>1 DEF Returned, IInv, TypeOK
  <2> QED
    BY <2>1, <2>2, <2>3, SameTied
<1>6. ASSUME NEW a \in Attempts, RecordOpened(a) \/ RecordRefused(a) PROVE Tied'
  <2>1. status[a] # "reversed"
    BY <1>6, NotReturned DEF RecordOpened, RecordRefused
  <2>2. Returned' = Returned
    BY <1>6, <2>1 DEF RecordOpened, RecordRefused, Returned, IInv, TypeOK
  <2> QED
    BY <1>6, <2>2, SameTied DEF RecordOpened, RecordRefused, bookVars
<1>7. ASSUME NEW v \in Verifiers, ApplyOutcome(v) PROVE Tied'
  BY <1>7, OutcomeReturned, SameTied DEF ApplyOutcome, bookVars
<1>8. ASSUME NEW v \in Verifiers, SettleAttempt(v) PROVE Tied'
  <2>0. PICK a : a = verifier[v].attempt
    OBVIOUS
  <2>1. /\ a \in Attempts /\ a \notin allocations /\ amount[a] \in Nat
        /\ invoice.status \in Allocatable
    BY <1>8, <2>0, Earned
  <2>2. /\ Receive(a, amount[a]) /\ UNCHANGED amount
        /\ status' = [status EXCEPT ![a] = "successful"]
    BY <1>8, <2>0 DEF SettleAttempt
  <2>3. Returned' = Returned
    BY <2>1, <2>2, NotReturned DEF Returned, IInv, TypeOK
  <2>4. a \in Keys
    BY <2>1 DEF Keys
  <2> QED
    BY <2>1, <2>2, <2>3, <2>4, ReceiveTied
<1>9. ASSUME NEW v \in Verifiers, ReverseAttempt(v) PROVE Tied'
  BY <1>9, ReverseTied
<1> QED
  BY <1>1, <1>2, <1>3, <1>4, <1>5, <1>6, <1>7, <1>8, <1>9
     DEF Next, Apply, SubmitTransfer, RejectTransfer, InitializeAtProvider, AbortOpening, Pay,
         ReverseCharge, GrowOlder, LoseWebhook, ReceiveWebhook, RequestVerification, PlanEvent,
         StartReconciliation, ReconcileNext, LoadAttempt, AskProvider, ApplyNothing, FindSettled,
         RefuseSettlement, ProviderUnreachable, CrashVerifier, vars, bookVars

\* A verification's reading changes only when it starts, ends or reads the attempt.
Reading(v) ==
  \/ verifier'[v] = verifier[v] \/ verifier'[v].read = "none"
  \/ /\ verifier'[v].attempt = verifier[v].attempt
     /\ verifier'[v].read = verifier[v].read \/ verifier'[v].read = status[verifier[v].attempt]
     /\ verifier[v].step # "idle" /\ status' = status

LEMMA Readings ==
  ASSUME IInv, [Next]_vars, NEW v \in Verifiers
  PROVE  Reading(v)
<1>1. ASSUME UNCHANGED verifier PROVE Reading(v)
  BY <1>1 DEF Reading
<1>2. ASSUME NEW w \in Verifiers, NEW a \in Attempts, Assign(w, a) PROVE Reading(v)
  <2>1. verifier' = [verifier EXCEPT ![w] = [step |-> "assigned", attempt |-> a,
                                             read |-> "none", report |-> "none"]]
    BY <1>2 DEF Assign
  <2>2. CASE v = w
    <3>1. verifier'[v].read = "none"
      BY <2>1, <2>2 DEF IInv, TypeOK
    <3> QED
      BY <3>1 DEF Reading
  <2>3. CASE v # w
    <3>1. verifier'[v] = verifier[v]
      BY <2>1, <2>3 DEF IInv, TypeOK
    <3> QED
      BY <3>1 DEF Reading
  <2> QED
    BY <2>2, <2>3
<1>3. ASSUME NEW w \in Verifiers, verifier' = [verifier EXCEPT ![w] = Idle] PROVE Reading(v)
  BY <1>3 DEF Idle, Reading, IInv, TypeOK
<1>4. ASSUME NEW w \in Verifiers, LoadAttempt(w) PROVE Reading(v)
  <2>1. CASE v = w
    <3>1. /\ verifier[v].step = "assigned" /\ status' = status
          /\ verifier'[v] = [step |-> "loaded", attempt |-> verifier[v].attempt,
                             read |-> status[verifier[v].attempt], report |-> "none"]
      BY <1>4, <2>1 DEF LoadAttempt, IInv, TypeOK
    <3> QED
      BY <3>1 DEF Reading
  <2>2. CASE v # w
    <3>1. verifier'[v] = verifier[v]
      BY <1>4, <2>2 DEF LoadAttempt, IInv, TypeOK
    <3> QED
      BY <3>1 DEF Reading
  <2> QED
    BY <2>1, <2>2
<1>5. ASSUME NEW w \in Verifiers, AskProvider(w) PROVE Reading(v)
  <2>1. PICK answer \in ReportsOf(charge[verifier[w].attempt]) :
          verifier' = [verifier EXCEPT ![w] =
            [step |-> "answered", attempt |-> verifier[w].attempt,
             read |-> verifier[w].read, report |-> answer]]
    BY <1>5 DEF AskProvider
  <2>2. verifier[w].step = "loaded" /\ status' = status
    BY <1>5 DEF AskProvider
  <2>3. CASE v = w
    <3>1. verifier'[v] = [step |-> "answered", attempt |-> verifier[v].attempt,
                          read |-> verifier[v].read, report |-> answer]
      BY <2>1, <2>3 DEF IInv, TypeOK
    <3> QED
      BY <2>2, <2>3, <3>1 DEF Reading
  <2>4. CASE v # w
    <3>1. verifier'[v] = verifier[v]
      BY <2>1, <2>4 DEF IInv, TypeOK
    <3> QED
      BY <3>1 DEF Reading
  <2> QED
    BY <2>3, <2>4
<1>6. ASSUME NEW w \in Verifiers, Apply(w) \/ ProviderUnreachable(w) \/ CrashVerifier(w)
      PROVE  Reading(v)
  <2>1. verifier' = [verifier EXCEPT ![w] = Idle]
    BY <1>6 DEF Apply, ApplyNothing, ApplyOutcome, FindSettled, RefuseSettlement, SettleAttempt,
       ReverseAttempt, ProviderUnreachable, CrashVerifier, Succeed, Throw
  <2> QED
    BY <2>1, <1>3
<1>7. ASSUME NEW a \in Attempts, NEW w \in Verifiers, RequestVerification(w, a) \/ PlanEvent(w, a)
      PROVE  Reading(v)
  BY <1>1, <1>2, <1>7 DEF RequestVerification, PlanEvent
<1>8. ASSUME StartReconciliation \/ ReconcileNext PROVE Reading(v)
  <2>1. \/ UNCHANGED verifier
        \/ \E a \in batch : Assign(Reconciler, a)
    BY <1>8 DEF StartReconciliation, ReconcileNext
  <2>2. batch \subseteq Attempts /\ Reconciler \in Verifiers
    BY DEF IInv, TypeOK, Verifiers
  <2> QED
    BY <1>1, <1>2, <2>1, <2>2
<1> QED
  BY <1>1, <1>4, <1>5, <1>6, <1>7, <1>8
     DEF Next, SubmitTransfer, ConfirmTransfer, RejectTransfer, IssueCreditNote, MarkOverdue, VoidInvoice,
         CreateAttempt, InitializeAtProvider, RecordOpened, RecordRefused, AbortOpening, Pay,
         ReverseCharge, GrowOlder, LoseWebhook, ReceiveWebhook, vars

LEMMA NextSeenReversed == IInv /\ SeenReversed /\ [Next]_vars => SeenReversed'
<1> SUFFICES ASSUME IInv, SeenReversed, [Next]_vars, NEW v \in Verifiers,
                    verifier'[v].read = "reversed"
             PROVE  /\ verifier'[v].attempt \in Attempts
                    /\ status'[verifier'[v].attempt] = "reversed"
  BY DEF SeenReversed
<1>1. ASSUME NEW a \in Attempts, status[a] = "reversed" PROVE status'[a] = "reversed"
  <2>1. opening[a] = "closed"
    BY <1>1, NotReturned
  <2> QED
    BY <1>1, <2>1, ClosedStep DEF Closed, Terminal
<1>2. Reading(v)
  BY Readings
<1>3. CASE verifier'[v] = verifier[v]
  BY <1>1, <1>3 DEF SeenReversed
<1>4. CASE /\ verifier'[v].attempt = verifier[v].attempt
           /\ \/ verifier'[v].read = verifier[v].read
              \/ verifier'[v].read = status[verifier[v].attempt]
           /\ verifier[v].step # "idle" /\ status' = status
  <2>1. verifier[v].attempt \in Attempts
    BY <1>4 DEF IInv, Believed
  <2> QED
    BY <1>4, <2>1 DEF SeenReversed
<1> QED
  BY <1>2, <1>3, <1>4 DEF Reading

LEMMA LedgerInvariance == Spec => [](SeenReversed /\ Tied)
<1>1. Init => SeenReversed /\ Tied
  BY InitTied DEF Init, SeenReversed, Idle
<1>2. IInv /\ IInv' /\ (SeenReversed /\ Tied) /\ [Next]_vars => (SeenReversed /\ Tied)'
  BY NextTied, NextSeenReversed
<1> QED
  BY <1>1, <1>2, Invariance, PTL DEF Spec

\* Attempts, bank transfers, credit notes, voids and reversals leave an invoice, the
\* deposits and the receivables that tie to their journals, whatever their amounts
\* and however late the answers settleAttempt and reverseSettledAttempt apply.
THEOREM LedgerAlwaysTies == Spec => []LedgerTies
<1>1. IInv /\ Tied => LedgerTies
  <2> SUFFICES ASSUME IInv, Tied, \A a \in Returned : posted[a].held = 0
               PROVE  ledger.receivable = Owing + SumOver(Applied, Returned)
    BY DEF Tied, LedgerTies, Keys
  <2>1. \A a \in Returned : Applied[a] = amount[a]
    <3> SUFFICES ASSUME NEW a \in Returned PROVE Applied[a] = amount[a]
      OBVIOUS
    <3>1. a \in Attempts /\ status[a] = "reversed" /\ posted[a].held = 0
      BY DEF Returned
    <3>2. posted[a].allocated + posted[a].held = amount[a]
      BY <3>1 DEF IInv, SettlementEarned, NothingSwallowed
    <3>3. posted[a].allocated \in Nat
      BY <3>1 DEF IInv, TypeOK
    <3> QED
      BY <3>1, <3>2, <3>3 DEF Applied
  <2>2. SumOver(Applied, Returned) = SumOver(amount, Returned)
    BY <2>1, SumSame
  <2> QED
    BY <2>2 DEF Tied
<1> QED
  BY <1>1, Invariance, LedgerInvariance, PTL
================================================================================
