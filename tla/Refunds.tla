-------------------------------- MODULE Refunds --------------------------------
(***************************************************************************)
(* Refunds of one settled payment attempt (packages/finance/src/refunds.ts).*)
(*                                                                          *)
(* A refund is requested and approved in two transactions; the approval     *)
(* queues the job payments.submit_refund, which reads the refund, calls the *)
(* provider outside any transaction, and records the answer afterwards.     *)
(* From then on webhooks (three transactions: plan, find, apply) and the    *)
(* poll of the reconciliation job report what the provider did, late, lost, *)
(* repeated and out of order.                                               *)
(*                                                                          *)
(* Who may request and approve is not modelled, nor are the exceptions that *)
(* are opened for staff: nothing here reads them back.  The attempt stays    *)
(* "successful".                                                            *)
(***************************************************************************)
EXTENDS Integers, FiniteSets, Sums

CONSTANTS
  Refunds,          \* ids of refunds, in the order they are created
  ProviderRefunds,  \* ids of refunds at the provider
  None,             \* no provider refund, no refund
  Submitters,       \* workers running payments.submit_refund
  EventWorkers,     \* workers running payments.process_provider_event
  Paid,             \* the amount of the attempt, in kobo
  Amounts,          \* amounts that are requested
  EventsNamed,      \* do refund webhooks carry the provider's refund id?
  Reports,          \* the statuses the provider gives a refund
  MaxFaults         \* bound: lost answers, refused calls and crashes

ASSUME RefundsAssumption ==
  /\ Refunds \subseteq Nat \ {0} /\ IsFiniteSet(Refunds)
  /\ None \notin Refunds \cup ProviderRefunds
  /\ Paid \in Nat /\ Amounts \subseteq Nat \ {0} /\ MaxFaults \in Nat
  /\ EventsNamed \in BOOLEAN
  /\ "pending" \in Reports
  /\ Reports \subseteq {"pending", "processing", "processed", "failed", "needs_attention"}

VARIABLES
  status,      \* refunds.status; "absent" before the row exists
  amount,      \* refunds.amount_kobo
  reference,   \* refunds.provider_reference
  job,         \* the job payments.submit_refund of the refund
  journals,    \* journals posted, by business event: <<refund, kind>>
  payable,     \* balance of refunds payable (2200)
  refunded,    \* what left the gateway account (1100) for refunds
  owner,       \* the refund a provider refund was created for
  outcome,     \* the status of a provider refund at the provider
  webhooks,    \* stored refund events that are not processed yet
  submitter,   \* where each submission is
  eventWorker, \* where the processing of an event is
  poller,      \* the row the poll is at: as it was read, then with the answer
  faults

ledgerVars == <<journals, payable, refunded>>
providerVars == <<owner, outcome>>
vars == <<status, amount, reference, job, ledgerVars, providerVars, webhooks,
          submitter, eventWorker, poller, faults>>

RefundStates == {"requested", "approved", "submitted", "pending", "settled", "failed", "rejected"}
InProvider == {"submitted", "pending"}
Kinds == {"approved", "settled", "failed"}
Event == [of : ProviderRefunds, report : Reports]

IdleSubmitter == [step |-> "idle", refund |-> None, of |-> None, report |-> "none"]
IdleEventWorker == [step |-> "idle", event |-> None, refund |-> None]
IdlePoller == [refund |-> None, of |-> None, report |-> "none"]

TypeOK ==
  /\ status \in [Refunds -> RefundStates \cup {"absent"}]
  /\ amount \in [Refunds -> Amounts \cup {0}]
  /\ reference \in [Refunds -> ProviderRefunds \cup {None}]
  /\ job \in [Refunds -> {"none", "open", "done"}]
  /\ journals \subseteq Refunds \X Kinds
  /\ payable \in Int /\ refunded \in Nat
  /\ owner \in [ProviderRefunds -> Refunds \cup {None}]
  /\ outcome \in [ProviderRefunds -> Reports \cup {"none"}]
  /\ webhooks \subseteq Event
  /\ submitter \in [Submitters ->
       [step : {"idle", "calling", "answered", "recorded"}, refund : Refunds \cup {None},
        of : ProviderRefunds \cup {None}, report : Reports \cup {"none"}]]
  /\ eventWorker \in [EventWorkers ->
       [step : {"idle", "planned", "found"}, event : Event \cup {None},
        refund : Refunds \cup {None}]]
  /\ poller \in [refund : Refunds \cup {None}, of : ProviderRefunds \cup {None},
                 report : Reports \cup {"none"}]
  /\ faults \in 0..MaxFaults

Init ==
  /\ status = [r \in Refunds |-> "absent"]
  /\ amount = [r \in Refunds |-> 0]
  /\ reference = [r \in Refunds |-> None]
  /\ job = [r \in Refunds |-> "none"]
  /\ journals = {} /\ payable = 0 /\ refunded = 0
  /\ owner = [p \in ProviderRefunds |-> None]
  /\ outcome = [p \in ProviderRefunds |-> "none"]
  /\ webhooks = {}
  /\ submitter = [s \in Submitters |-> IdleSubmitter]
  /\ eventWorker = [w \in EventWorkers |-> IdleEventWorker]
  /\ poller = IdlePoller
  /\ faults = 0

--------------------------------------------------------------------------------
(* Requests and approvals *)

\* The sum of the amounts of a set of refunds.
Sum(R) == SumOver(amount, R)
Counted == {r \in Refunds : status[r] \notin {"absent", "rejected", "failed"}}

\* requestRefund, under the lock of the attempt.
RequestRefund(r, m) ==
  /\ status[r] = "absent" /\ \A q \in Refunds : q < r => status[q] # "absent"
  /\ Sum(Counted) + m <= Paid
  /\ status' = [status EXCEPT ![r] = "requested"]
  /\ amount' = [amount EXCEPT ![r] = m]
  /\ UNCHANGED <<reference, job, ledgerVars, providerVars, webhooks, submitter, eventWorker,
                 poller, faults>>

\* refundMachine
CanMove(from, to) ==
  \/ from = "requested" /\ to \in {"approved", "rejected"}
  \/ from = "approved" /\ to = "submitted"
  \/ from = "submitted" /\ to = "pending"
  \/ from \in InProvider /\ to \in {"settled", "failed"}
  \/ from = "failed" /\ to = "approved"

\* postJournal: the business event is unique, a second journal of it throws and
\* takes the whole transaction with it.
PostJournal(r, kind) ==
  /\ <<r, kind>> \notin journals
  /\ journals' = journals \cup {<<r, kind>>}

\* approveRefund.  A failed refund is a legal start, but its approval journal
\* exists already.
ApproveRefund_Retry(r) ==
  /\ CanMove(status[r], "approved")
  /\ status' = [status EXCEPT ![r] = "approved"]
  /\ journals' = journals \cup {<<r, "approved">>}
  /\ payable' = payable + amount[r]
  /\ job' = [job EXCEPT ![r] = "open"]
  /\ UNCHANGED <<amount, reference, refunded, providerVars, webhooks, submitter, eventWorker,
                 poller, faults>>
ApproveRefund(r) ==
  /\ CanMove(status[r], "approved")
  /\ PostJournal(r, "approved")
  /\ status' = [status EXCEPT ![r] = "approved"]
  /\ payable' = payable + amount[r]
  /\ job' = [job EXCEPT ![r] = "open"]
  /\ UNCHANGED <<amount, reference, refunded, providerVars, webhooks, submitter, eventWorker,
                 poller, faults>>

RejectRefund(r) ==
  /\ CanMove(status[r], "rejected")
  /\ status' = [status EXCEPT ![r] = "rejected"]
  /\ UNCHANGED <<amount, reference, job, ledgerVars, providerVars, webhooks, submitter,
                 eventWorker, poller, faults>>

--------------------------------------------------------------------------------
(* The provider, as the code uses it *)

\* A webhook tells each status of a provider refund: deriveDedupeKey makes its
\* replays the same event.
Announce(p, report) == webhooks' = webhooks \cup {[of |-> p, report |-> report]}

Final == {"processed", "failed"}
ProviderMoves(p) ==
  /\ owner[p] # None /\ outcome[p] \notin Final
  /\ \E report \in Reports \ {outcome[p], "pending"} :
       /\ report = "processing" => outcome[p] = "pending"
       /\ outcome' = [outcome EXCEPT ![p] = report]
       /\ Announce(p, report)
  /\ UNCHANGED <<status, amount, reference, job, ledgerVars, owner, submitter, eventWorker,
                 poller, faults>>

\* A refund is created at the provider, and announced.
Created(p, r, report) ==
  /\ owner[p] = None
  /\ owner' = [owner EXCEPT ![p] = r]
  /\ outcome' = [outcome EXCEPT ![p] = report]
  /\ Announce(p, report)

--------------------------------------------------------------------------------
(* Applying what the provider reports: applyProviderRefundOutcome *)

\* REFUND_TARGET
Target(report) ==
  CASE report = "processed" -> "settled" [] report = "failed" -> "failed" [] OTHER -> "pending"

Post(r, kind) ==
  CASE kind = "settled" -> /\ PostJournal(r, "settled")
                           /\ payable' = payable - amount[r]
                           /\ refunded' = refunded + amount[r]
    [] kind = "failed"  -> /\ PostJournal(r, "failed")
                           /\ payable' = payable - amount[r]
                           /\ UNCHANGED refunded
    [] OTHER            -> UNCHANGED ledgerVars

ApplyOutcome_KeepLiability(r, report) ==
  LET to == Target(report)
      moves == status[r] # to /\ CanMove(status[r], to)
  IN
  /\ status' = [status EXCEPT ![r] = IF moves THEN to ELSE @]
  /\ IF moves /\ to = "settled" THEN Post(r, to) ELSE UNCHANGED ledgerVars
ApplyOutcome(r, report) ==
  LET to == Target(report)
      moves == status[r] # to /\ CanMove(status[r], to)
  IN
  /\ status' = [status EXCEPT ![r] = IF moves THEN to ELSE @]
  /\ IF moves THEN Post(r, to) ELSE UNCHANGED ledgerVars

--------------------------------------------------------------------------------
(* submitRefund *)

\* The first transaction: only an approved refund is submitted.  Its key is
\* stored since the approval, and no reference is recorded before the refund
\* leaves "approved", so that the provider is always asked for a new refund.
PrepareSubmission(s, r) ==
  /\ submitter[s].step = "idle" /\ job[r] = "open"
  /\ IF status[r] = "approved"
     THEN /\ submitter' = [submitter EXCEPT ![s] =
               [step |-> "calling", refund |-> r, of |-> None, report |-> "none"]]
          /\ UNCHANGED job
     ELSE job' = [job EXCEPT ![r] = "done"] /\ UNCHANGED submitter
  /\ UNCHANGED <<status, amount, reference, ledgerVars, providerVars, webhooks, eventWorker,
                 poller, faults>>

\* createRefund answers ...
CreateAtProvider(s) ==
  /\ submitter[s].step = "calling"
  /\ \E p \in ProviderRefunds, report \in Reports :
       /\ Created(p, submitter[s].refund, report)
       /\ submitter' = [submitter EXCEPT ![s] =
            [step |-> "answered", refund |-> submitter[s].refund, of |-> p, report |-> report]]
  /\ UNCHANGED <<status, amount, reference, job, ledgerVars, eventWorker, poller, faults>>

\* ... or throws, whether the provider created the refund or not, and the job is
\* retried.
SubmissionFails(s) ==
  LET r == submitter[s].refund IN
  /\ submitter[s].step = "calling"
  /\ \/ UNCHANGED <<providerVars, webhooks>>
     \/ \E p \in ProviderRefunds : Created(p, r, "pending")
  /\ faults < MaxFaults /\ faults' = faults + 1
  /\ submitter' = [submitter EXCEPT ![s] = IdleSubmitter]
  /\ UNCHANGED <<status, amount, reference, job, ledgerVars, eventWorker, poller>>

\* The transaction after the call.
RecordSubmission_Always(s) ==
  LET S == submitter[s] IN
  /\ S.step = "answered"
  /\ status' = [status EXCEPT ![S.refund] = "submitted"]
  /\ reference' = [reference EXCEPT ![S.refund] = S.of]
  /\ submitter' = [submitter EXCEPT ![s] =
       [step |-> "recorded", refund |-> S.refund, of |-> None, report |-> S.report]]
  /\ UNCHANGED <<amount, job, ledgerVars, providerVars, webhooks, eventWorker, poller,
                 faults>>
RecordSubmission(s) ==
  LET S == submitter[s] IN
  /\ S.step = "answered"
  /\ status' = [status EXCEPT ![S.refund] = IF @ = "approved" THEN "submitted" ELSE @]
  /\ reference' = [reference EXCEPT ![S.refund] = S.of]
  /\ submitter' = [submitter EXCEPT ![s] =
       [step |-> "recorded", refund |-> S.refund, of |-> None, report |-> S.report]]
  /\ UNCHANGED <<amount, job, ledgerVars, providerVars, webhooks, eventWorker, poller,
                 faults>>

\* An answer beyond "pending" is applied in a transaction of its own; the job ends.
FinishSubmission(s) ==
  LET S == submitter[s] IN
  /\ S.step = "recorded"
  /\ IF S.report = "pending" THEN UNCHANGED <<status, ledgerVars>>
     ELSE ApplyOutcome(S.refund, S.report)
  /\ job' = [job EXCEPT ![S.refund] = "done"]
  /\ submitter' = [submitter EXCEPT ![s] = IdleSubmitter]
  /\ UNCHANGED <<amount, reference, providerVars, webhooks, eventWorker, poller, faults>>

\* The worker dies; the job is leased again.
CrashSubmitter(s) ==
  /\ submitter[s].step # "idle"
  /\ faults < MaxFaults /\ faults' = faults + 1
  /\ submitter' = [submitter EXCEPT ![s] = IdleSubmitter]
  /\ UNCHANGED <<status, amount, reference, job, ledgerVars, providerVars, webhooks, eventWorker,
                 poller>>

--------------------------------------------------------------------------------
(* Webhooks: processProviderEvent, planRefund, applyProviderRefundStatus *)

\* findRefundForEvent: the two newest candidates, of these the one with the
\* event's id, else the newest; a set of one refund, or of none.
Candidates(e) ==
  {r \in Refunds : \/ EventsNamed /\ reference[r] = e.of
                   \/ status[r] \in {"approved", "submitted", "pending", "settled", "failed"}}
NewestTwo(R) == {r \in R : Cardinality({q \in R : q > r}) < 2}
Newest(R) == {r \in R : \A q \in R : q <= r}
RefundForEvent(e) ==
  LET rows == NewestTwo(Candidates(e))
      exact == {r \in rows : EventsNamed /\ reference[r] = e.of}
  IN Newest(IF exact # {} THEN exact ELSE rows)

\* planRefund: an event that moves the refund legally is carried out; every other
\* one ends here, ignored as a replay, ignored as stale or flagged.
PlanRefundEvent(w, e) ==
  LET carriedOut == \E r \in RefundForEvent(e) : CanMove(status[r], Target(e.report)) IN
  /\ eventWorker[w].step = "idle" /\ e \in webhooks
  /\ IF carriedOut
     THEN /\ eventWorker' = [eventWorker EXCEPT ![w] =
               [step |-> "planned", event |-> e, refund |-> None]]
          /\ UNCHANGED webhooks
     ELSE webhooks' = webhooks \ {e} /\ UNCHANGED eventWorker
  /\ UNCHANGED <<status, amount, reference, job, ledgerVars, providerVars, submitter, poller,
                 faults>>

\* applyProviderRefundStatus looks the refund up again, which may be another by
\* now, and compares the amounts.
FindRefund_AnyAmount(w) ==
  LET e == eventWorker[w].event IN
  /\ eventWorker[w].step = "planned"
  /\ \E r \in RefundForEvent(e) : eventWorker' = [eventWorker EXCEPT ![w] =
       [step |-> "found", event |-> e, refund |-> r]]
  /\ UNCHANGED <<status, amount, reference, job, ledgerVars, providerVars, webhooks, submitter,
                 poller, faults>>
FindRefund(w) ==
  LET e == eventWorker[w].event
      found == {r \in RefundForEvent(e) : amount[r] = amount[owner[e.of]]}
  IN
  /\ eventWorker[w].step = "planned"
  /\ \/ /\ \E r \in found : eventWorker' = [eventWorker EXCEPT ![w] =
               [step |-> "found", event |-> e, refund |-> r]]
        /\ UNCHANGED webhooks
     \/ /\ found = {}
        /\ eventWorker' = [eventWorker EXCEPT ![w] = IdleEventWorker]
        /\ webhooks' = webhooks \ {e}
  /\ UNCHANGED <<status, amount, reference, job, ledgerVars, providerVars, submitter, poller,
                 faults>>

ApplyEvent(w) ==
  LET W == eventWorker[w] IN
  /\ W.step = "found"
  /\ ApplyOutcome(W.refund, W.event.report)
  /\ eventWorker' = [eventWorker EXCEPT ![w] = IdleEventWorker]
  /\ webhooks' = webhooks \ {W.event}
  /\ UNCHANGED <<amount, reference, job, providerVars, submitter, poller, faults>>

\* The worker dies, or a transaction of it fails: the event's job is retried.
CrashEventWorker(w) ==
  /\ eventWorker[w].step # "idle"
  /\ faults < MaxFaults /\ faults' = faults + 1
  /\ eventWorker' = [eventWorker EXCEPT ![w] = IdleEventWorker]
  /\ UNCHANGED <<status, amount, reference, job, ledgerVars, providerVars, webhooks, submitter,
                 poller>>

--------------------------------------------------------------------------------
(* The poll of the reconciliation job: pollPendingRefunds *)

\* The rows a poll takes.
InFlight_SubmittedOnly == {r \in Refunds : status[r] = "submitted" /\ reference[r] # None}
InFlight == {r \in Refunds : status[r] \in InProvider /\ reference[r] # None}

\* The rows are read, each is asked for at the provider, and the answer is applied
\* later.  A poll goes through its rows one by one: nothing it does for one of
\* them changes what it read of another.
ReadRow ==
  /\ poller = IdlePoller
  /\ \E r \in InFlight :
       poller' = [refund |-> r, of |-> reference[r], report |-> "none"]
  /\ UNCHANGED <<status, amount, reference, job, ledgerVars, providerVars, webhooks, submitter,
                 eventWorker, faults>>

PollRefund ==
  /\ poller # IdlePoller /\ poller.report = "none"
  /\ poller' = [poller EXCEPT !.of = None, !.report = outcome[poller.of]]
  /\ UNCHANGED <<status, amount, reference, job, ledgerVars, providerVars, webhooks, submitter,
                 eventWorker, faults>>

ApplyPolled ==
  /\ poller.report # "none"
  /\ ApplyOutcome(poller.refund, poller.report)
  /\ poller' = IdlePoller
  /\ UNCHANGED <<amount, reference, job, providerVars, webhooks, submitter, eventWorker, faults>>

\* The provider is unreachable: the row waits for the next run.
PollFails ==
  /\ poller # IdlePoller /\ poller.report = "none"
  /\ faults < MaxFaults /\ faults' = faults + 1
  /\ poller' = IdlePoller
  /\ UNCHANGED <<status, amount, reference, job, ledgerVars, providerVars, webhooks, submitter,
                 eventWorker>>

--------------------------------------------------------------------------------
Submit(s) ==
  \/ \E r \in Refunds : PrepareSubmission(s, r)
  \/ CreateAtProvider(s) \/ RecordSubmission(s) \/ FinishSubmission(s)
Poll == ReadRow \/ PollRefund \/ ApplyPolled

Next ==
  \/ \E r \in Refunds :
       \/ \E m \in Amounts : RequestRefund(r, m)
       \/ ApproveRefund(r) \/ RejectRefund(r)
  \/ \E p \in ProviderRefunds : ProviderMoves(p)
  \/ \E s \in Submitters : Submit(s) \/ SubmissionFails(s) \/ CrashSubmitter(s)
  \/ \E w \in EventWorkers :
       \/ \E e \in webhooks : PlanRefundEvent(w, e)
       \/ FindRefund(w) \/ ApplyEvent(w) \/ CrashEventWorker(w)
  \/ Poll \/ PollFails

Spec == Init /\ [][Next]_vars

\* The job queue runs the submission again until it ends (JobQueue), the
\* reconciliation job keeps polling and the provider concludes what it accepted.
\* Nothing is assumed of webhooks: each of them may be lost.
Concludes(p) == ProviderMoves(p) /\ outcome'[p] \in Final
FairSpec ==
  /\ Spec
  /\ \A s \in Submitters : WF_vars(Submit(s))
  /\ WF_vars(Poll)
  /\ \A p \in ProviderRefunds : WF_vars(Concludes(p))

--------------------------------------------------------------------------------
(* Safety *)

\* Refunds that are requested or on their way never exceed the payment, although
\* failed ones free their amount for new requests and may legally be retried.
NeverOverRefunded == Sum(Counted) <= Paid

\* Refunds payable and the gateway account tie to the records: owed is what was
\* approved and has neither been paid out nor failed, in whatever order
\* submission, webhooks and poll report.
LiabilityTies ==
  /\ payable = Sum({r \in Refunds : status[r] \in {"approved", "submitted", "pending"}})
  /\ refunded = Sum({r \in Refunds : status[r] = "settled"})

\* A refund is settled only once the provider has processed a refund of that
\* amount: submitting one, or waiting for it, never credits the customer.
SettledOnlyIfProcessed ==
  \A r \in Refunds : status[r] = "settled" =>
    \E p \in ProviderRefunds : /\ outcome[p] = "processed"
                               /\ amount[owner[p]] = amount[r]

(* Action properties *)

\* What was settled, failed or rejected stays so, however late an answer, an
\* event or a second submission arrives.
ConcludedStays ==
  [][\A r \in Refunds :
       status[r] \in {"settled", "failed", "rejected"} => status'[r] = status[r]]_vars

(* Liveness *)

\* Every approved refund is concluded, although its submission is cut off, its
\* webhooks are lost and polls fail, once the provider concludes it.
ApprovedConcludes ==
  \A r \in Refunds : status[r] = "approved" ~> status[r] \in {"settled", "failed"}
================================================================================
