---------------------------- MODULE Refunds_proofs -----------------------------
(***************************************************************************)
(* Safety of refunds, for any refunds, amounts, workers and interleavings. *)
(***************************************************************************)
EXTENDS Refunds, FiniteSetTheorems, TLAPS

\* Provider refunds belong to refunds that exist, and the reference a refund
\* carries is one of its own.
Owned ==
  /\ \A p \in ProviderRefunds :
       /\ owner[p] = None <=> outcome[p] = "none"
       /\ owner[p] # None => status[owner[p]] # "absent"
  /\ \A r \in Refunds : reference[r] # None => owner[reference[r]] = r

\* What left the state "requested" was approved once.
ApprovedOnce ==
  \A r \in Refunds :
    status[r] \notin {"absent", "requested", "rejected"} => <<r, "approved">> \in journals

\* What a message or a step in progress says was true once and still is: a
\* processed refund at the provider stays processed.
Processed(r) == \E p \in ProviderRefunds : outcome[p] = "processed" /\ owner[p] = r
TrueEvent(e) ==
  /\ e \in Event /\ owner[e.of] # None
  /\ e.report = "processed" => outcome[e.of] = "processed"
TrueSubmission(S) ==
  S.step # "idle" =>
    /\ S.refund \in Refunds /\ status[S.refund] # "absent"
    /\ S.step = "answered" => S.of \in ProviderRefunds /\ owner[S.of] = S.refund
    /\ S.report = "processed" => Processed(S.refund)
TrueProcessing(W) ==
  /\ W.step # "idle" => TrueEvent(W.event)
  /\ W.step = "found" =>
       /\ W.refund \in Refunds /\ status[W.refund] # "absent"
       /\ amount[W.refund] = amount[owner[W.event.of]]
TruePoll(P) ==
  P # IdlePoller =>
    /\ P.refund \in Refunds /\ status[P.refund] # "absent"
    /\ P.report = "none" => P.of \in ProviderRefunds /\ owner[P.of] = P.refund
    /\ P.report = "processed" => Processed(P.refund)

Believed ==
  /\ \A e \in webhooks : TrueEvent(e)
  /\ \A s \in Submitters : TrueSubmission(submitter[s])
  /\ \A w \in EventWorkers : TrueProcessing(eventWorker[w])
  /\ TruePoll(poller)

IInv == TypeOK /\ Owned /\ ApprovedOnce /\ Believed /\ SettledOnlyIfProcessed

LEMMA InitIInv == Init => IInv
<1> SUFFICES ASSUME Init PROVE IInv
  OBVIOUS
<1>1. TypeOK
  BY RefundsAssumption DEF Init, TypeOK, IdleSubmitter, IdleEventWorker, IdlePoller
<1>2. Owned /\ ApprovedOnce /\ SettledOnlyIfProcessed
  BY RefundsAssumption DEF Init, Owned, ApprovedOnce, SettledOnlyIfProcessed
<1>3. Believed
  BY DEF Init, Believed, TrueSubmission, TrueProcessing, TruePoll, IdleSubmitter,
     IdleEventWorker
<1> QED
  BY <1>1, <1>2, <1>3 DEF IInv

--------------------------------------------------------------------------------
(* What is true stays true *)

\* No step takes back a refund, its amount, what the provider holds for it or
\* that the provider has processed it.
Stable ==
  /\ \A r \in Refunds : status[r] # "absent" => status'[r] # "absent" /\ amount'[r] = amount[r]
  /\ \A p \in ProviderRefunds :
       /\ owner[p] # None => owner'[p] = owner[p]
       /\ outcome[p] = "processed" => outcome'[p] = "processed"

LEMMA ProcessedStays ==
  ASSUME IInv, Stable, NEW r \in Refunds, Processed(r)
  PROVE  Processed(r)'
BY RefundsAssumption DEF Stable, Processed

LEMMA EventStaysTrue ==
  ASSUME IInv, Stable, NEW e, TrueEvent(e)
  PROVE  TrueEvent(e)'
BY DEF Stable, TrueEvent, Event

LEMMA SubmissionStaysTrue ==
  ASSUME IInv, Stable, NEW S, TrueSubmission(S)
  PROVE  TrueSubmission(S)'
<1> SUFFICES ASSUME S.step # "idle"
             PROVE  /\ S.refund \in Refunds /\ (status[S.refund] # "absent")'
                    /\ S.step = "answered" => S.of \in ProviderRefunds /\ owner'[S.of] = S.refund
                    /\ S.report = "processed" => Processed(S.refund)'
  BY DEF TrueSubmission
<1>1. S.refund \in Refunds /\ status[S.refund] # "absent"
  BY DEF TrueSubmission
<1>2. (status[S.refund] # "absent")'
  BY <1>1 DEF Stable
<1>3. S.step = "answered" => S.of \in ProviderRefunds /\ owner'[S.of] = S.refund
  BY <1>1, RefundsAssumption DEF TrueSubmission, Stable
<1>4. S.report = "processed" => Processed(S.refund)'
  BY <1>1, ProcessedStays DEF TrueSubmission
<1> QED
  BY <1>1, <1>2, <1>3, <1>4

LEMMA ProcessingStaysTrue ==
  ASSUME IInv, Stable, NEW W, TrueProcessing(W)
  PROVE  TrueProcessing(W)'
<1>1. W.step # "idle" => TrueEvent(W.event)'
  BY EventStaysTrue DEF TrueProcessing
<1>2. ASSUME W.step = "found"
      PROVE  /\ W.refund \in Refunds /\ status'[W.refund] # "absent"
             /\ amount'[W.refund] = amount'[owner'[W.event.of]]
  <2>1. /\ W.event.of \in ProviderRefunds /\ owner[W.event.of] # None
        /\ W.refund \in Refunds /\ status[W.refund] # "absent"
        /\ amount[W.refund] = amount[owner[W.event.of]]
    BY <1>2 DEF TrueProcessing, TrueEvent, Event
  <2>2. /\ owner[W.event.of] \in Refunds /\ status[owner[W.event.of]] # "absent"
        /\ owner'[W.event.of] = owner[W.event.of]
    BY <2>1 DEF IInv, TypeOK, Owned, Stable
  <2> QED
    BY <2>1, <2>2 DEF Stable
<1> QED
  BY <1>1, <1>2 DEF TrueProcessing

LEMMA PollStaysTrue ==
  ASSUME IInv, Stable, NEW P, TruePoll(P)
  PROVE  TruePoll(P)'
<1> SUFFICES ASSUME P # IdlePoller
             PROVE  /\ P.refund \in Refunds /\ status'[P.refund] # "absent"
                    /\ P.report = "none" => P.of \in ProviderRefunds /\ owner'[P.of] = P.refund
                    /\ P.report = "processed" => Processed(P.refund)'
  BY DEF TruePoll
<1>1. P.refund \in Refunds /\ status[P.refund] # "absent"
  BY DEF TruePoll
<1>2. status'[P.refund] # "absent"
  BY <1>1 DEF Stable
<1>3. P.report = "none" => P.of \in ProviderRefunds /\ owner'[P.of] = P.refund
  BY <1>1, RefundsAssumption DEF TruePoll, Stable
<1>4. P.report = "processed" => Processed(P.refund)'
  BY <1>1, ProcessedStays DEF TruePoll
<1> QED
  BY <1>1, <1>2, <1>3, <1>4

\* Hence a step that is Stable must justify only the steps in progress it changes.
LEMMA StaysBelieved ==
  ASSUME IInv, Stable,
         \A e \in webhooks' : e \in webhooks \/ TrueEvent(e)',
         \A s \in Submitters : submitter'[s] = submitter[s] \/ TrueSubmission(submitter[s])',
         \A w \in EventWorkers :
           eventWorker'[w] = eventWorker[w] \/ TrueProcessing(eventWorker[w])',
         poller' = poller \/ TruePoll(poller)'
  PROVE  Believed'
<1>1. ASSUME NEW e \in webhooks' PROVE TrueEvent(e)'
  BY EventStaysTrue DEF IInv, Believed
<1>2. ASSUME NEW s \in Submitters, submitter'[s] = submitter[s]
      PROVE  TrueSubmission(submitter[s])'
  <2>1. PICK S : S = submitter[s]
    OBVIOUS
  <2>2. TrueSubmission(S)'
    BY <2>1, SubmissionStaysTrue DEF IInv, Believed
  <2> QED
    BY <1>2, <2>1, <2>2 DEF TrueSubmission
<1>3. ASSUME NEW w \in EventWorkers, eventWorker'[w] = eventWorker[w]
      PROVE  TrueProcessing(eventWorker[w])'
  <2>1. PICK W : W = eventWorker[w]
    OBVIOUS
  <2>2. TrueProcessing(W)'
    BY <2>1, ProcessingStaysTrue DEF IInv, Believed
  <2> QED
    BY <1>3, <2>1, <2>2 DEF TrueProcessing
<1>4. ASSUME poller' = poller PROVE TruePoll(poller)'
  <2>1. PICK P : P = poller
    OBVIOUS
  <2>2. TruePoll(P)'
    BY <2>1, PollStaysTrue DEF IInv, Believed
  <2> QED
    BY <1>4, <2>1, <2>2 DEF TruePoll
<1> QED
  BY <1>1, <1>2, <1>3, <1>4 DEF Believed

--------------------------------------------------------------------------------
(* What the steps do to the refunds *)

Records == Stable /\ Owned' /\ ApprovedOnce' /\ SettledOnlyIfProcessed'

LEMMA SameRecords ==
  ASSUME IInv, UNCHANGED <<status, amount, reference, journals, providerVars>>
  PROVE  Records
BY DEF IInv, Records, Stable, Owned, ApprovedOnce, SettledOnlyIfProcessed, providerVars

\* The provider concludes a refund it has not concluded yet.
LEMMA MovedAtProvider ==
  ASSUME IInv, NEW p \in ProviderRefunds, NEW report \in Reports,
         owner[p] # None, outcome[p] \notin Final,
         outcome' = [outcome EXCEPT ![p] = report],
         UNCHANGED <<status, amount, reference, journals, owner>>
  PROVE  Records
<1>1. report # "none"
  BY RefundsAssumption
<1> QED
  BY <1>1 DEF IInv, TypeOK, Records, Stable, Owned, ApprovedOnce, SettledOnlyIfProcessed, Final

LEMMA CreatedAtProvider ==
  ASSUME IInv, NEW p \in ProviderRefunds, NEW r \in Refunds, NEW report \in Reports,
         status[r] # "absent", Created(p, r, report),
         UNCHANGED <<status, amount, reference, journals>>
  PROVE  Records
<1>1. /\ owner[p] = None /\ outcome[p] = "none" /\ r # None
      /\ owner' = [owner EXCEPT ![p] = r] /\ outcome' = [outcome EXCEPT ![p] = report]
  BY RefundsAssumption DEF Created, IInv, Owned
<1>2. Stable
  BY <1>1 DEF IInv, TypeOK, Stable
<1>3. Owned'
  BY <1>1, RefundsAssumption DEF IInv, TypeOK, Owned
<1>4. SettledOnlyIfProcessed'
  <2> SUFFICES ASSUME NEW q \in Refunds, status'[q] = "settled"
               PROVE  \E d \in ProviderRefunds : /\ outcome'[d] = "processed"
                                                 /\ amount'[owner'[d]] = amount'[q]
    BY DEF SettledOnlyIfProcessed
  <2>1. PICK d \in ProviderRefunds : outcome[d] = "processed" /\ amount[owner[d]] = amount[q]
    BY DEF IInv, SettledOnlyIfProcessed
  <2>2. d # p
    BY <1>1, <2>1
  <2> QED
    BY <1>1, <2>1, <2>2 DEF IInv, TypeOK
<1> QED
  BY <1>2, <1>3, <1>4 DEF Records, IInv, ApprovedOnce

LEMMA AmountsAreNat == Amounts \cup {0} \subseteq Nat
  BY RefundsAssumption

LEMMA AmountTypes ==
  ASSUME IInv, NEW r \in Refunds
  PROVE  amount[r] \in Nat /\ payable \in Int /\ refunded \in Nat
<1>1. amount[r] \in Amounts \cup {0} /\ payable \in Int /\ refunded \in Nat
  BY DEF IInv, TypeOK
<1>2. amount[r] \in Nat
  BY <1>1, AmountsAreNat
<1> QED
  BY <1>1, <1>2

\* An outcome that is applied settles a refund only when some processed refund
\* of its amount stands behind it.
LEMMA OutcomeApplied ==
  ASSUME IInv, NEW r \in Refunds, NEW report \in Reports \cup {"none"},
         status[r] # "absent", ApplyOutcome(r, report),
         UNCHANGED <<amount, reference, providerVars>>,
         report = "processed" =>
           \E p \in ProviderRefunds : outcome[p] = "processed" /\ amount[owner[p]] = amount[r]
  PROVE  /\ Records
         /\ status' \in [Refunds -> RefundStates \cup {"absent"}]
         /\ journals' \subseteq Refunds \X Kinds /\ payable' \in Int /\ refunded' \in Nat
<1> DEFINE to == Target(report)
           moves == status[r] # to /\ CanMove(status[r], to)
<1>1. /\ status' = [status EXCEPT ![r] = IF moves THEN to ELSE @]
      /\ IF moves THEN Post(r, to) ELSE UNCHANGED ledgerVars
  BY DEF ApplyOutcome
<1>2. /\ to \in {"settled", "failed", "pending"}
      /\ to = "settled" => report = "processed"
  BY RefundsAssumption DEF Target
<1>3. amount[r] \in Nat /\ payable \in Int /\ refunded \in Nat
  BY AmountTypes
<1>4. moves => <<r, "approved">> \in journals
  BY <1>2 DEF CanMove, InProvider, IInv, ApprovedOnce
<1>5. /\ journals \subseteq journals' /\ journals' \subseteq Refunds \X Kinds
      /\ payable' \in Int /\ refunded' \in Nat
  <2>1. CASE ~moves
    BY <1>1, <2>1 DEF ledgerVars, IInv, TypeOK
  <2>2. CASE moves
    BY <1>1, <1>2, <1>3, <2>2 DEF Post, PostJournal, ledgerVars, IInv, TypeOK, Kinds
  <2> QED
    BY <2>1, <2>2
<1>6. status' \in [Refunds -> RefundStates \cup {"absent"}]
  BY <1>1, <1>2 DEF IInv, TypeOK, RefundStates
<1>7. Stable /\ Owned'
  <2>1. \A q \in Refunds : status[q] # "absent" => status'[q] # "absent"
    BY <1>1, <1>2 DEF IInv, TypeOK
  <2>2. Stable
    BY <2>1 DEF Stable, providerVars
  <2> QED
    BY <2>1, <2>2 DEF Owned, IInv, TypeOK, providerVars
<1>8. ApprovedOnce'
  BY <1>1, <1>4, <1>5 DEF IInv, TypeOK, ApprovedOnce
<1>9. SettledOnlyIfProcessed'
  BY <1>1, <1>2 DEF IInv, TypeOK, SettledOnlyIfProcessed, providerVars
<1> QED
  BY <1>5, <1>6, <1>7, <1>8, <1>9 DEF Records

--------------------------------------------------------------------------------
(* Every step preserves the invariant *)

LEMMA RequestStep ==
  ASSUME IInv, NEW r \in Refunds, NEW m \in Amounts, RequestRefund(r, m)
  PROVE  IInv'
<1>1. /\ status[r] = "absent"
      /\ status' = [status EXCEPT ![r] = "requested"] /\ amount' = [amount EXCEPT ![r] = m]
      /\ UNCHANGED <<reference, job, ledgerVars, providerVars, webhooks, submitter,
                     eventWorker, poller, faults>>
  BY DEF RequestRefund
<1>2. TypeOK'
  BY <1>1 DEF IInv, TypeOK, RefundStates, ledgerVars, providerVars
<1>3. Stable
  BY <1>1 DEF IInv, TypeOK, Stable, providerVars
<1>4. Owned' /\ ApprovedOnce'
  BY <1>1 DEF IInv, TypeOK, Owned, ApprovedOnce, ledgerVars, providerVars
<1>5. SettledOnlyIfProcessed'
  <2> SUFFICES ASSUME NEW q \in Refunds, status'[q] = "settled"
               PROVE  \E p \in ProviderRefunds : /\ outcome'[p] = "processed"
                                                 /\ amount'[owner'[p]] = amount'[q]
    BY DEF SettledOnlyIfProcessed
  <2>1. status[q] = "settled"
    BY <1>1 DEF IInv, TypeOK
  <2>2. PICK p \in ProviderRefunds : outcome[p] = "processed" /\ amount[owner[p]] = amount[q]
    BY <2>1 DEF IInv, SettledOnlyIfProcessed
  <2>3. owner[p] \in Refunds /\ status[owner[p]] # "absent"
    BY <2>2 DEF IInv, TypeOK, Owned
  <2> QED
    BY <1>1, <1>3, <2>1, <2>2, <2>3 DEF Stable, providerVars
<1>6. Believed'
  BY <1>1, <1>3, StaysBelieved
<1> QED
  BY <1>2, <1>4, <1>5, <1>6 DEF IInv

LEMMA ApproveStep ==
  ASSUME IInv, NEW r \in Refunds, ApproveRefund(r)
  PROVE  IInv'
<1>1. /\ CanMove(status[r], "approved") /\ status[r] # "absent"
      /\ status' = [status EXCEPT ![r] = "approved"]
      /\ journals' = journals \cup {<<r, "approved">>}
      /\ payable' = payable + amount[r] /\ job' = [job EXCEPT ![r] = "open"]
      /\ UNCHANGED <<amount, reference, refunded, providerVars, webhooks, submitter,
                     eventWorker, poller, faults>>
  BY DEF ApproveRefund, PostJournal, CanMove, InProvider
<1>2. payable' \in Int
  BY <1>1, AmountTypes
<1>3. TypeOK'
  BY <1>1, <1>2 DEF IInv, TypeOK, RefundStates, Kinds, providerVars
<1>4. Stable
  BY <1>1 DEF IInv, TypeOK, Stable, providerVars
<1>5. Owned' /\ ApprovedOnce' /\ SettledOnlyIfProcessed'
  BY <1>1 DEF IInv, TypeOK, Owned, ApprovedOnce, SettledOnlyIfProcessed, providerVars
<1>6. Believed'
  BY <1>1, <1>4, StaysBelieved
<1> QED
  BY <1>3, <1>5, <1>6 DEF IInv

LEMMA RejectStep ==
  ASSUME IInv, NEW r \in Refunds, RejectRefund(r)
  PROVE  IInv'
<1>1. /\ status[r] # "absent" /\ status' = [status EXCEPT ![r] = "rejected"]
      /\ UNCHANGED <<amount, reference, job, ledgerVars, providerVars, webhooks, submitter,
                     eventWorker, poller, faults>>
  BY DEF RejectRefund, CanMove, InProvider
<1>2. TypeOK'
  BY <1>1 DEF IInv, TypeOK, RefundStates, ledgerVars, providerVars
<1>3. Stable
  BY <1>1 DEF IInv, TypeOK, Stable, providerVars
<1>4. Owned' /\ ApprovedOnce' /\ SettledOnlyIfProcessed'
  BY <1>1 DEF IInv, TypeOK, Owned, ApprovedOnce, SettledOnlyIfProcessed, ledgerVars,
     providerVars
<1>5. Believed'
  BY <1>1, <1>3, StaysBelieved
<1> QED
  BY <1>2, <1>4, <1>5 DEF IInv

LEMMA ProviderStep ==
  ASSUME IInv, NEW p \in ProviderRefunds, ProviderMoves(p)
  PROVE  IInv'
<1>1. PICK report \in Reports :
        /\ owner[p] # None /\ outcome[p] \notin Final
        /\ outcome' = [outcome EXCEPT ![p] = report] /\ Announce(p, report)
        /\ UNCHANGED <<status, amount, reference, job, ledgerVars, owner, submitter,
                       eventWorker, poller, faults>>
  BY DEF ProviderMoves
<1>2. Records
  BY <1>1, MovedAtProvider DEF ledgerVars
<1>3. TypeOK'
  BY <1>1 DEF IInv, TypeOK, Announce, Event, ledgerVars
<1>4. \A e \in webhooks' : e \in webhooks \/ TrueEvent(e)'
  BY <1>1 DEF IInv, TypeOK, Announce, TrueEvent, Event
<1>5. Believed'
  BY <1>1, <1>2, <1>4, StaysBelieved DEF Records
<1> QED
  BY <1>2, <1>3, <1>5 DEF IInv, Records

LEMMA PrepareStep ==
  ASSUME IInv, NEW s \in Submitters, NEW r \in Refunds, PrepareSubmission(s, r)
  PROVE  IInv'
<1>1. /\ UNCHANGED <<status, amount, reference, ledgerVars, providerVars, webhooks, eventWorker,
                     poller, faults>>
      /\ \/ /\ status[r] = "approved" /\ UNCHANGED job
            /\ submitter' = [submitter EXCEPT ![s] =
                 [step |-> "calling", refund |-> r, of |-> None, report |-> "none"]]
         \/ job' = [job EXCEPT ![r] = "done"] /\ UNCHANGED submitter
  BY DEF PrepareSubmission
<1>2. Records
  BY <1>1, SameRecords DEF ledgerVars
<1>3. TypeOK'
  BY <1>1 DEF IInv, TypeOK, ledgerVars, providerVars
<1>4. \A q \in Submitters : submitter'[q] = submitter[q] \/ TrueSubmission(submitter[q])'
  BY <1>1 DEF IInv, TypeOK, TrueSubmission
<1>5. Believed'
  BY <1>1, <1>2, <1>4, StaysBelieved DEF Records
<1> QED
  BY <1>2, <1>3, <1>5 DEF IInv, Records

LEMMA CreateStep ==
  ASSUME IInv, NEW s \in Submitters, CreateAtProvider(s)
  PROVE  IInv'
<1> DEFINE r == submitter[s].refund
<1>1. PICK p \in ProviderRefunds, report \in Reports :
        /\ submitter[s].step = "calling" /\ Created(p, r, report)
        /\ submitter' = [submitter EXCEPT ![s] =
             [step |-> "answered", refund |-> r, of |-> p, report |-> report]]
        /\ UNCHANGED <<status, amount, reference, job, ledgerVars, eventWorker, poller, faults>>
  BY DEF CreateAtProvider
<1>2. r \in Refunds /\ status[r] # "absent"
  BY <1>1 DEF IInv, Believed, TrueSubmission
<1>3. Records
  <2> HIDE DEF r
  <2> QED
    BY <1>1, <1>2, CreatedAtProvider DEF ledgerVars
<1>4. TypeOK'
  BY <1>1, <1>2 DEF IInv, TypeOK, Created, Announce, Event, ledgerVars
<1>5. owner'[p] = r /\ outcome'[p] = report
  BY <1>1 DEF IInv, TypeOK, Created
<1>6. \A q \in Submitters : submitter'[q] = submitter[q] \/ TrueSubmission(submitter[q])'
  BY <1>1, <1>2, <1>5 DEF IInv, TypeOK, TrueSubmission, Processed
<1>7. \A e \in webhooks' : e \in webhooks \/ TrueEvent(e)'
  BY <1>1, <1>2, <1>5, RefundsAssumption DEF IInv, TypeOK, Created, Announce, TrueEvent, Event
<1>8. Believed'
  BY <1>1, <1>3, <1>6, <1>7, StaysBelieved DEF Records
<1> QED
  BY <1>3, <1>4, <1>8 DEF IInv, Records

LEMMA FailingStep ==
  ASSUME IInv, NEW s \in Submitters, SubmissionFails(s)
  PROVE  IInv'
<1> DEFINE r == submitter[s].refund
<1>1. /\ submitter[s].step = "calling"
      /\ submitter' = [submitter EXCEPT ![s] = IdleSubmitter] /\ faults' \in 0..MaxFaults
      /\ UNCHANGED <<status, amount, reference, job, ledgerVars, eventWorker, poller>>
  BY RefundsAssumption DEF SubmissionFails, IInv, TypeOK
<1>2. r \in Refunds /\ status[r] # "absent"
  BY <1>1 DEF IInv, Believed, TrueSubmission
<1>3. \A q \in Submitters : submitter'[q] = submitter[q] \/ TrueSubmission(submitter[q])'
  BY <1>1 DEF IInv, TypeOK, TrueSubmission, IdleSubmitter
<1>4. CASE UNCHANGED <<providerVars, webhooks>>
  <2>1. Records
    BY <1>1, <1>4, SameRecords DEF ledgerVars
  <2>2. TypeOK'
    BY <1>1, <1>4 DEF IInv, TypeOK, IdleSubmitter, ledgerVars, providerVars
  <2>3. Believed'
    BY <1>1, <1>3, <1>4, <2>1, StaysBelieved DEF Records
  <2> QED
    BY <2>1, <2>2, <2>3 DEF IInv, Records
<1>5. ASSUME NEW p \in ProviderRefunds, Created(p, r, "pending") PROVE IInv'
  <2>1. Records
    <3>1. "pending" \in Reports
      BY RefundsAssumption
    <3> HIDE DEF r
    <3> QED
      BY <1>1, <1>2, <1>5, <3>1, CreatedAtProvider DEF ledgerVars
  <2>2. TypeOK'
    <3>1. webhooks' \subseteq Event
      BY <1>5, RefundsAssumption DEF IInv, TypeOK, Created, Announce, Event
    <3>2. outcome' \in [ProviderRefunds -> Reports \cup {"none"}]
      BY <1>5, RefundsAssumption DEF IInv, TypeOK, Created
    <3> QED
      BY <1>1, <1>2, <1>5, <3>1, <3>2 DEF IInv, TypeOK, Created, IdleSubmitter, ledgerVars
  <2>3. \A e \in webhooks' : e \in webhooks \/ TrueEvent(e)'
    BY <1>1, <1>2, <1>5, RefundsAssumption DEF IInv, TypeOK, Created, Announce, TrueEvent, Event
  <2>4. Believed'
    BY <1>1, <1>3, <2>1, <2>3, StaysBelieved DEF Records
  <2> QED
    BY <2>1, <2>2, <2>4 DEF IInv, Records
<1> QED
  BY <1>4, <1>5 DEF SubmissionFails

LEMMA RecordStep ==
  ASSUME IInv, NEW s \in Submitters, RecordSubmission(s)
  PROVE  IInv'
<1>1. PICK S : S = submitter[s]
  OBVIOUS
<1>2. /\ S.step = "answered"
      /\ status' = [status EXCEPT ![S.refund] = IF @ = "approved" THEN "submitted" ELSE @]
      /\ reference' = [reference EXCEPT ![S.refund] = S.of]
      /\ submitter' = [submitter EXCEPT ![s] =
           [step |-> "recorded", refund |-> S.refund, of |-> None, report |-> S.report]]
      /\ UNCHANGED <<amount, job, ledgerVars, providerVars, webhooks, eventWorker, poller,
                     faults>>
  BY <1>1 DEF RecordSubmission
<1>3. /\ S.refund \in Refunds /\ status[S.refund] # "absent"
      /\ S.of \in ProviderRefunds /\ owner[S.of] = S.refund
      /\ S.report \in Reports \cup {"none"}
      /\ S.report = "processed" => Processed(S.refund)
  BY <1>1, <1>2 DEF IInv, TypeOK, Believed, TrueSubmission
<1>4. status' \in [Refunds -> RefundStates \cup {"absent"}]
  BY <1>2, <1>3 DEF IInv, TypeOK, RefundStates
<1>5. TypeOK'
  BY <1>2, <1>3, <1>4 DEF IInv, TypeOK, ledgerVars, providerVars
<1>6. Stable
  BY <1>2, <1>3 DEF IInv, TypeOK, Stable, providerVars
<1>7. Owned' /\ ApprovedOnce' /\ SettledOnlyIfProcessed'
  BY <1>2, <1>3 DEF IInv, TypeOK, Owned, ApprovedOnce, SettledOnlyIfProcessed, ledgerVars,
     providerVars
<1>8. \A q \in Submitters : submitter'[q] = submitter[q] \/ TrueSubmission(submitter[q])'
  <2>1. S.report = "processed" => Processed(S.refund)'
    BY <1>3, <1>6, ProcessedStays
  <2>2. status'[S.refund] # "absent"
    BY <1>3, <1>6 DEF Stable
  <2> QED
    BY <1>2, <1>3, <2>1, <2>2 DEF IInv, TypeOK, TrueSubmission, Processed
<1>9. Believed'
  BY <1>2, <1>6, <1>8, StaysBelieved
<1> QED
  BY <1>5, <1>7, <1>9 DEF IInv

LEMMA FinishStep ==
  ASSUME IInv, NEW s \in Submitters, FinishSubmission(s)
  PROVE  IInv'
<1> DEFINE S == submitter[s]
<1>1. /\ S.step = "recorded"
      /\ IF S.report = "pending" THEN UNCHANGED <<status, ledgerVars>>
         ELSE ApplyOutcome(S.refund, S.report)
      /\ job' = [job EXCEPT ![S.refund] = "done"]
      /\ submitter' = [submitter EXCEPT ![s] = IdleSubmitter]
      /\ UNCHANGED <<amount, reference, providerVars, webhooks, eventWorker, poller, faults>>
  BY DEF FinishSubmission
<1>2. /\ S.refund \in Refunds /\ status[S.refund] # "absent"
      /\ S.report \in Reports \cup {"none"}
      /\ S.report = "processed" => Processed(S.refund)
  BY <1>1 DEF IInv, TypeOK, Believed, TrueSubmission
<1>3. /\ Records
      /\ status' \in [Refunds -> RefundStates \cup {"absent"}]
      /\ journals' \subseteq Refunds \X Kinds /\ payable' \in Int /\ refunded' \in Nat
  <2>1. CASE S.report = "pending"
    BY <1>1, <2>1, SameRecords DEF IInv, TypeOK, ledgerVars
  <2>2. CASE S.report # "pending"
    <3>1. S.report = "processed" =>
            \E p \in ProviderRefunds : outcome[p] = "processed" /\ amount[owner[p]] = amount[S.refund]
      BY <1>2 DEF Processed
    <3> HIDE DEF S
    <3> QED
      BY <1>1, <1>2, <2>2, <3>1, OutcomeApplied
  <2> QED
    BY <2>1, <2>2
<1>4. TypeOK'
  BY <1>1, <1>2, <1>3 DEF IInv, TypeOK, IdleSubmitter, providerVars
<1>5. \A q \in Submitters : submitter'[q] = submitter[q] \/ TrueSubmission(submitter[q])'
  BY <1>1 DEF IInv, TypeOK, TrueSubmission, IdleSubmitter
<1>6. Believed'
  BY <1>1, <1>3, <1>5, StaysBelieved DEF Records
<1> QED
  BY <1>3, <1>4, <1>6 DEF IInv, Records

LEMMA CrashSubmitterStep ==
  ASSUME IInv, NEW s \in Submitters, CrashSubmitter(s)
  PROVE  IInv'
<1>1. /\ submitter' = [submitter EXCEPT ![s] = IdleSubmitter] /\ faults' \in 0..MaxFaults
      /\ UNCHANGED <<status, amount, reference, job, ledgerVars, providerVars, webhooks,
                     eventWorker, poller>>
  BY RefundsAssumption DEF CrashSubmitter, IInv, TypeOK
<1>2. Records
  BY <1>1, SameRecords DEF ledgerVars
<1>3. TypeOK'
  BY <1>1 DEF IInv, TypeOK, IdleSubmitter, ledgerVars, providerVars
<1>4. \A q \in Submitters : submitter'[q] = submitter[q] \/ TrueSubmission(submitter[q])'
  BY <1>1 DEF IInv, TypeOK, TrueSubmission, IdleSubmitter
<1>5. Believed'
  BY <1>1, <1>2, <1>4, StaysBelieved DEF Records
<1> QED
  BY <1>2, <1>3, <1>5 DEF IInv, Records

LEMMA PlanStep ==
  ASSUME IInv, NEW w \in EventWorkers, NEW e \in webhooks, PlanRefundEvent(w, e)
  PROVE  IInv'
<1>1. /\ UNCHANGED <<status, amount, reference, job, ledgerVars, providerVars, submitter, poller,
                     faults>>
      /\ webhooks' \subseteq webhooks
      /\ \/ UNCHANGED eventWorker
         \/ eventWorker' = [eventWorker EXCEPT ![w] =
              [step |-> "planned", event |-> e, refund |-> None]]
  BY DEF PlanRefundEvent
<1>2. TrueEvent(e) /\ e \in Event
  BY DEF IInv, TypeOK, Believed
<1>3. Records
  BY <1>1, SameRecords DEF ledgerVars
<1>4. TypeOK'
  BY <1>1, <1>2 DEF IInv, TypeOK, ledgerVars, providerVars
<1>5. TrueEvent(e)'
  BY <1>2, <1>3, EventStaysTrue DEF Records
<1>6. \A v \in EventWorkers : eventWorker'[v] = eventWorker[v] \/ TrueProcessing(eventWorker[v])'
  BY <1>1, <1>5 DEF IInv, TypeOK, TrueProcessing, TrueEvent
<1>7. Believed'
  BY <1>1, <1>3, <1>6, StaysBelieved DEF Records
<1> QED
  BY <1>3, <1>4, <1>7 DEF IInv, Records

\* A refund that an event may be given to exists.
LEMMA CandidatesExist ==
  ASSUME IInv, NEW e \in Event, NEW r \in RefundForEvent(e)
  PROVE  r \in Refunds /\ status[r] # "absent"
<1>1. r \in Candidates(e)
  BY DEF RefundForEvent, Newest, NewestTwo
<1> QED
  BY <1>1, RefundsAssumption DEF Candidates, IInv, Owned, Event

LEMMA FindStep ==
  ASSUME IInv, NEW w \in EventWorkers, FindRefund(w)
  PROVE  IInv'
<1>1. PICK e : e = eventWorker[w].event
  OBVIOUS
<1>2. /\ eventWorker[w].step = "planned"
      /\ UNCHANGED <<status, amount, reference, job, ledgerVars, providerVars, submitter, poller,
                     faults>>
      /\ webhooks' \subseteq webhooks
      /\ \/ eventWorker' = [eventWorker EXCEPT ![w] = IdleEventWorker]
         \/ \E r \in RefundForEvent(e) :
              /\ amount[r] = amount[owner[e.of]]
              /\ eventWorker' = [eventWorker EXCEPT ![w] =
                   [step |-> "found", event |-> e, refund |-> r]]
  BY <1>1 DEF FindRefund
<1>3. TrueEvent(e) /\ e \in Event
  BY <1>1, <1>2 DEF IInv, Believed, TrueProcessing, TrueEvent
<1>4. Records
  BY <1>2, SameRecords DEF ledgerVars
<1>5. TrueEvent(e)'
  BY <1>3, <1>4, EventStaysTrue DEF Records
<1>6. CASE eventWorker' = [eventWorker EXCEPT ![w] = IdleEventWorker]
  <2>1. TypeOK'
    BY <1>2, <1>6 DEF IInv, TypeOK, IdleEventWorker, ledgerVars, providerVars
  <2>2. \A v \in EventWorkers :
          eventWorker'[v] = eventWorker[v] \/ TrueProcessing(eventWorker[v])'
    BY <1>6 DEF IInv, TypeOK, TrueProcessing, IdleEventWorker
  <2> QED
    BY <1>2, <1>4, <2>1, <2>2, StaysBelieved DEF IInv, Records
<1>7. ASSUME NEW r \in RefundForEvent(e), amount[r] = amount[owner[e.of]],
             eventWorker' = [eventWorker EXCEPT ![w] =
               [step |-> "found", event |-> e, refund |-> r]]
      PROVE  IInv'
  <2>1. r \in Refunds /\ status[r] # "absent"
    BY <1>3, CandidatesExist
  <2>2. TypeOK'
    BY <1>2, <1>3, <1>7, <2>1 DEF IInv, TypeOK, ledgerVars, providerVars
  <2>3. \A v \in EventWorkers :
          eventWorker'[v] = eventWorker[v] \/ TrueProcessing(eventWorker[v])'
    BY <1>2, <1>5, <1>7, <2>1 DEF IInv, TypeOK, TrueProcessing, TrueEvent, providerVars
  <2> QED
    BY <1>2, <1>4, <2>2, <2>3, StaysBelieved DEF IInv, Records
<1> QED
  BY <1>2, <1>6, <1>7

LEMMA ApplyEventStep ==
  ASSUME IInv, NEW w \in EventWorkers, ApplyEvent(w)
  PROVE  IInv'
<1>1. PICK W : W = eventWorker[w]
  OBVIOUS
<1>2. /\ W.step = "found" /\ ApplyOutcome(W.refund, W.event.report)
      /\ eventWorker' = [eventWorker EXCEPT ![w] = IdleEventWorker]
      /\ webhooks' \subseteq webhooks
      /\ UNCHANGED <<amount, reference, job, providerVars, submitter, poller, faults>>
  BY <1>1 DEF ApplyEvent
<1>3. /\ W.refund \in Refunds /\ status[W.refund] # "absent"
      /\ W.event.report \in Reports /\ W.event.of \in ProviderRefunds
      /\ amount[W.refund] = amount[owner[W.event.of]]
      /\ W.event.report = "processed" => outcome[W.event.of] = "processed"
  BY <1>1, <1>2 DEF IInv, Believed, TrueProcessing, TrueEvent, Event
<1>4. /\ Records
      /\ status' \in [Refunds -> RefundStates \cup {"absent"}]
      /\ journals' \subseteq Refunds \X Kinds /\ payable' \in Int /\ refunded' \in Nat
  <2>1. W.event.report = "processed" =>
          \E p \in ProviderRefunds : outcome[p] = "processed" /\ amount[owner[p]] = amount[W.refund]
    BY <1>3
  <2> QED
    BY <1>2, <1>3, <2>1, OutcomeApplied
<1>5. TypeOK'
  BY <1>2, <1>4 DEF IInv, TypeOK, IdleEventWorker, providerVars
<1>6. \A v \in EventWorkers : eventWorker'[v] = eventWorker[v] \/ TrueProcessing(eventWorker[v])'
  BY <1>2 DEF IInv, TypeOK, TrueProcessing, IdleEventWorker
<1>7. Believed'
  BY <1>2, <1>4, <1>6, StaysBelieved DEF Records
<1> QED
  BY <1>4, <1>5, <1>7 DEF IInv, Records

LEMMA CrashEventWorkerStep ==
  ASSUME IInv, NEW w \in EventWorkers, CrashEventWorker(w)
  PROVE  IInv'
<1>1. /\ eventWorker' = [eventWorker EXCEPT ![w] = IdleEventWorker] /\ faults' \in 0..MaxFaults
      /\ UNCHANGED <<status, amount, reference, job, ledgerVars, providerVars, webhooks, submitter,
                     poller>>
  BY RefundsAssumption DEF CrashEventWorker, IInv, TypeOK
<1>2. Records
  BY <1>1, SameRecords DEF ledgerVars
<1>3. TypeOK'
  BY <1>1 DEF IInv, TypeOK, IdleEventWorker, ledgerVars, providerVars
<1>4. \A v \in EventWorkers : eventWorker'[v] = eventWorker[v] \/ TrueProcessing(eventWorker[v])'
  BY <1>1 DEF IInv, TypeOK, TrueProcessing, IdleEventWorker
<1>5. Believed'
  BY <1>1, <1>2, <1>4, StaysBelieved DEF Records
<1> QED
  BY <1>2, <1>3, <1>5 DEF IInv, Records

LEMMA ReadStep ==
  ASSUME IInv, ReadRow
  PROVE  IInv'
<1>1. PICK r \in InFlight :
        /\ poller' = [refund |-> r, of |-> reference[r], report |-> "none"]
        /\ UNCHANGED <<status, amount, reference, job, ledgerVars, providerVars, webhooks,
                       submitter, eventWorker, faults>>
  BY DEF ReadRow
<1>2. /\ r \in Refunds /\ status[r] # "absent"
      /\ reference[r] \in ProviderRefunds /\ owner[reference[r]] = r
  BY DEF InFlight, InProvider, IInv, TypeOK, Owned
<1>3. Records
  BY <1>1, SameRecords DEF ledgerVars
<1>4. TypeOK'
  BY <1>1, <1>2 DEF IInv, TypeOK, ledgerVars, providerVars
<1>5. TruePoll(poller)'
  BY <1>1, <1>2 DEF TruePoll, providerVars
<1>6. Believed'
  BY <1>1, <1>3, <1>5, StaysBelieved DEF Records
<1> QED
  BY <1>3, <1>4, <1>6 DEF IInv, Records

LEMMA PollStep ==
  ASSUME IInv, PollRefund
  PROVE  IInv'
<1>1. PICK r : r = poller.refund
  OBVIOUS
<1>2. PICK p : p = poller.of
  OBVIOUS
<1>3. /\ poller # IdlePoller /\ poller.report = "none"
      /\ poller' = [refund |-> r, of |-> None, report |-> outcome[p]]
      /\ UNCHANGED <<status, amount, reference, job, ledgerVars, providerVars, webhooks,
                     submitter, eventWorker, faults>>
  BY <1>1, <1>2 DEF PollRefund, IInv, TypeOK
<1>4. r \in Refunds /\ status[r] # "absent" /\ p \in ProviderRefunds /\ owner[p] = r
  BY <1>1, <1>2, <1>3 DEF IInv, Believed, TruePoll
<1>5. outcome[p] \in Reports
  BY <1>4, RefundsAssumption DEF IInv, TypeOK, Owned
<1>6. Records
  BY <1>3, SameRecords DEF ledgerVars
<1>7. TypeOK'
  BY <1>3, <1>4, <1>5 DEF IInv, TypeOK, ledgerVars, providerVars
<1>8. TruePoll(poller)'
  BY <1>3, <1>4, <1>5, RefundsAssumption DEF TruePoll, Processed, providerVars
<1>9. Believed'
  BY <1>3, <1>6, <1>8, StaysBelieved DEF Records
<1> QED
  BY <1>6, <1>7, <1>9 DEF IInv, Records

LEMMA ApplyPolledStep ==
  ASSUME IInv, ApplyPolled
  PROVE  IInv'
<1>1. PICK P : P = poller
  OBVIOUS
<1>2. /\ P # IdlePoller /\ ApplyOutcome(P.refund, P.report) /\ poller' = IdlePoller
      /\ UNCHANGED <<amount, reference, job, providerVars, webhooks, submitter, eventWorker,
                     faults>>
  BY <1>1 DEF ApplyPolled, IdlePoller
<1>3. /\ P.refund \in Refunds /\ status[P.refund] # "absent" /\ P.report \in Reports \cup {"none"}
      /\ P.report = "processed" => Processed(P.refund)
  BY <1>1, <1>2 DEF IInv, TypeOK, Believed, TruePoll
<1>4. /\ Records
      /\ status' \in [Refunds -> RefundStates \cup {"absent"}]
      /\ journals' \subseteq Refunds \X Kinds /\ payable' \in Int /\ refunded' \in Nat
  <2>1. P.report = "processed" =>
          \E p \in ProviderRefunds : outcome[p] = "processed" /\ amount[owner[p]] = amount[P.refund]
    BY <1>3 DEF Processed
  <2> QED
    BY <1>2, <1>3, <2>1, OutcomeApplied
<1>5. TypeOK'
  BY <1>2, <1>4 DEF IInv, TypeOK, IdlePoller, providerVars
<1>6. Believed'
  BY <1>2, <1>4, StaysBelieved DEF Records, TruePoll
<1> QED
  BY <1>4, <1>5, <1>6 DEF IInv, Records

LEMMA PollFailsStep ==
  ASSUME IInv, PollFails
  PROVE  IInv'
<1>1. /\ poller' = IdlePoller /\ faults' \in 0..MaxFaults
      /\ UNCHANGED <<status, amount, reference, job, ledgerVars, providerVars, webhooks,
                     submitter, eventWorker>>
  BY RefundsAssumption DEF PollFails, IInv, TypeOK
<1>2. Records
  BY <1>1, SameRecords DEF ledgerVars
<1>3. TypeOK'
  BY <1>1 DEF IInv, TypeOK, IdlePoller, ledgerVars, providerVars
<1>4. Believed'
  BY <1>1, <1>2, StaysBelieved DEF Records, TruePoll
<1> QED
  BY <1>2, <1>3, <1>4 DEF IInv, Records

LEMMA StutterStep ==
  ASSUME IInv, UNCHANGED vars
  PROVE  IInv'
<1>1. UNCHANGED <<status, amount, reference, job, ledgerVars, providerVars, webhooks, submitter,
                  eventWorker, poller, faults>>
  BY DEF vars
<1>2. Records
  BY <1>1, SameRecords DEF ledgerVars
<1>3. TypeOK'
  BY <1>1 DEF IInv, TypeOK, ledgerVars, providerVars
<1>4. Believed'
  BY <1>1, <1>2, StaysBelieved DEF Records
<1> QED
  BY <1>2, <1>3, <1>4 DEF IInv, Records

LEMMA NextIInv == IInv /\ [Next]_vars => IInv'
<1> SUFFICES ASSUME IInv, [Next]_vars PROVE IInv'
  OBVIOUS
<1>1. ASSUME NEW r \in Refunds, NEW m \in Amounts, RequestRefund(r, m) PROVE IInv'
  BY <1>1, RequestStep
<1>2. ASSUME NEW r \in Refunds, ApproveRefund(r) \/ RejectRefund(r) PROVE IInv'
  BY <1>2, ApproveStep, RejectStep
<1>3. ASSUME NEW p \in ProviderRefunds, ProviderMoves(p) PROVE IInv'
  BY <1>3, ProviderStep
<1>4. ASSUME NEW s \in Submitters, Submit(s) \/ SubmissionFails(s) \/ CrashSubmitter(s)
      PROVE  IInv'
  BY <1>4, PrepareStep, CreateStep, RecordStep, FinishStep, FailingStep, CrashSubmitterStep
     DEF Submit
<1>5. ASSUME NEW w \in EventWorkers, NEW e \in webhooks, PlanRefundEvent(w, e) PROVE IInv'
  BY <1>5, PlanStep
<1>6. ASSUME NEW w \in EventWorkers, FindRefund(w) \/ ApplyEvent(w) \/ CrashEventWorker(w)
      PROVE  IInv'
  BY <1>6, FindStep, ApplyEventStep, CrashEventWorkerStep
<1>7. ASSUME Poll \/ PollFails PROVE IInv'
  BY <1>7, ReadStep, PollStep, ApplyPolledStep, PollFailsStep DEF Poll
<1>8. CASE UNCHANGED vars
  BY <1>8, StutterStep
<1> QED
  BY <1>1, <1>2, <1>3, <1>4, <1>5, <1>6, <1>7, <1>8 DEF Next

LEMMA Invariance == Spec => []IInv
<1>1. Init => IInv
  BY InitIInv
<1>2. IInv /\ [Next]_vars => IInv'
  BY NextIInv
<1> QED
  BY <1>1, <1>2, PTL DEF Spec

\* Every variable keeps its type: all reachable records of refunds, submissions,
\* events and polls are of the shapes refunds.ts gives them.
THEOREM TypeCorrect == Spec => []TypeOK
<1>1. IInv => TypeOK
  BY DEF IInv
<1> QED
  BY <1>1, Invariance, PTL

\* A refund is settled only once the provider has processed a refund of that
\* amount, however answers, webhooks, polls, crashes and repeated submissions of
\* submitRefund and applyProviderRefundStatus interleave.
THEOREM SettlementIsProcessed == Spec => []SettledOnlyIfProcessed
<1>1. IInv => SettledOnlyIfProcessed
  BY DEF IInv
<1> QED
  BY <1>1, Invariance, PTL

--------------------------------------------------------------------------------
(* What is concluded stays so *)

Concluded == {"settled", "failed", "rejected"}

LEMMA OutcomeKeepsConcluded ==
  ASSUME IInv, NEW q \in Refunds, NEW report, ApplyOutcome(q, report),
         NEW r \in Refunds, status[r] \in Concluded
  PROVE  status'[r] = status[r]
BY DEF ApplyOutcome, CanMove, InProvider, Target, Concluded, IInv, TypeOK

LEMMA ConcludedStep ==
  ASSUME IInv, [Next]_vars, NEW r \in Refunds, status[r] \in Concluded
  PROVE  status'[r] = status[r]
<1>1. ASSUME NEW q \in Refunds, NEW m \in Amounts, RequestRefund(q, m)
      PROVE  status'[r] = status[r]
  BY <1>1 DEF RequestRefund, Concluded, IInv, TypeOK
<1>2. ASSUME NEW q \in Refunds, ApproveRefund(q) PROVE status'[r] = status[r]
  <2>1. q # r
    BY <1>2 DEF ApproveRefund, PostJournal, CanMove, InProvider, Concluded, IInv, ApprovedOnce
  <2> QED
    BY <1>2, <2>1 DEF ApproveRefund, IInv, TypeOK
<1>3. ASSUME NEW q \in Refunds, RejectRefund(q) PROVE status'[r] = status[r]
  BY <1>3 DEF RejectRefund, CanMove, InProvider, Concluded, IInv, TypeOK
<1>4. ASSUME NEW s \in Submitters, RecordSubmission(s) PROVE status'[r] = status[r]
  BY <1>4 DEF RecordSubmission, Concluded, IInv, TypeOK
<1>5. ASSUME NEW s \in Submitters, FinishSubmission(s) PROVE status'[r] = status[r]
  <2>1. submitter[s].refund \in Refunds
    BY <1>5 DEF FinishSubmission, IInv, Believed, TrueSubmission
  <2> QED
    BY <1>5, <2>1, OutcomeKeepsConcluded DEF FinishSubmission
<1>6. ASSUME NEW w \in EventWorkers, ApplyEvent(w) PROVE status'[r] = status[r]
  <2>1. eventWorker[w].refund \in Refunds
    BY <1>6 DEF ApplyEvent, IInv, Believed, TrueProcessing
  <2> QED
    BY <1>6, <2>1, OutcomeKeepsConcluded DEF ApplyEvent
<1>7. ASSUME ApplyPolled PROVE status'[r] = status[r]
  <2>1. poller.refund \in Refunds
    BY <1>7 DEF ApplyPolled, IdlePoller, IInv, Believed, TruePoll
  <2> QED
    BY <1>7, <2>1, OutcomeKeepsConcluded DEF ApplyPolled
<1>8. ASSUME UNCHANGED status PROVE status'[r] = status[r]
  BY <1>8
<1> QED
  BY <1>1, <1>2, <1>3, <1>4, <1>5, <1>6, <1>7, <1>8
     DEF Next, Submit, Poll, ProviderMoves, PrepareSubmission, CreateAtProvider, SubmissionFails,
         CrashSubmitter, PlanRefundEvent, FindRefund, CrashEventWorker, ReadRow, PollRefund,
         PollFails, vars

\* No late answer, event, poll or second submission moves a refund that was
\* settled, failed or rejected; a failed one is not even approved again, for its
\* approval journal exists.
THEOREM ConcludedForGood == Spec => ConcludedStays
<1>1. IInv /\ [Next]_vars =>
        [\A r \in Refunds :
           status[r] \in {"settled", "failed", "rejected"} => status'[r] = status[r]]_vars
  BY ConcludedStep DEF Concluded
<1> QED
  BY <1>1, Invariance, PTL DEF Spec, ConcludedStays

--------------------------------------------------------------------------------
(* Sums of amounts.                                                         *)
(*                                                                          *)
(* A sum counts units, so that the theorems on cardinality say what one     *)
(* summand more or less does to it, and no induction over the set is needed.*)

LEMMA UnitsFinite ==
  ASSUME NEW S, IsFiniteSet(S), NEW f, \A x \in S : f[x] \in Nat
  PROVE  IsFiniteSet(Units(f, S))
<1> DEFINE g == [x \in S |-> {x} \X (1..f[x])]
           T == {{x} \X (1..f[x]) : x \in S}
<1>1. g \in Surjection(S, T)
  BY DEF Surjection
<1>2. IsFiniteSet(T)
  BY <1>1, FS_Surjection
<1>3. ASSUME NEW U \in T PROVE IsFiniteSet(U)
  <2>1. PICK x \in S : U = {x} \X (1..f[x])
    BY <1>3
  <2>2. f[x] \in Int
    OBVIOUS
  <2>3. IsFiniteSet({x})
    BY FS_Singleton
  <2>4. IsFiniteSet(1..f[x])
    BY <2>2, FS_Interval
  <2> QED
    BY <2>1, <2>3, <2>4, FS_Product
<1> QED
  BY <1>2, <1>3, FS_UNION DEF Units

LEMMA SumEmpty ==
  ASSUME NEW f PROVE SumOver(f, {}) = 0
<1>1. Units(f, {}) = {}
  BY DEF Units
<1> QED
  BY <1>1, FS_EmptySet DEF SumOver

LEMMA SumType ==
  ASSUME NEW S, IsFiniteSet(S), NEW f, \A x \in S : f[x] \in Nat
  PROVE  SumOver(f, S) \in Nat
BY UnitsFinite, FS_CardinalityType DEF SumOver

LEMMA SumSame ==
  ASSUME NEW S, NEW f, NEW g, \A x \in S : f[x] = g[x]
  PROVE  SumOver(f, S) = SumOver(g, S)
<1>1. Units(f, S) = Units(g, S)
  BY DEF Units
<1> QED
  BY <1>1 DEF SumOver

LEMMA SumAdd ==
  ASSUME NEW S, IsFiniteSet(S), NEW f, NEW x, x \notin S,
         \A y \in S \cup {x} : f[y] \in Nat
  PROVE  SumOver(f, S \cup {x}) = SumOver(f, S) + f[x]
<1> DEFINE U == {x} \X (1..f[x])
<1>1. Units(f, S \cup {x}) = Units(f, S) \cup U
  BY DEF Units
<1>2. Units(f, S) \cap U = {}
  BY DEF Units
<1>3. IsFiniteSet(Units(f, S)) /\ Cardinality(Units(f, S)) \in Nat
  BY UnitsFinite, FS_CardinalityType
<1>4. IsFiniteSet(U) /\ Cardinality(U) = f[x]
  <2>1. f[x] \in Nat
    OBVIOUS
  <2>2. IsFiniteSet({x}) /\ Cardinality({x}) = 1
    BY FS_Singleton
  <2>3. IsFiniteSet(1..f[x]) /\ Cardinality(1..f[x]) = f[x]
    BY <2>1, FS_Interval
  <2>4. IsFiniteSet(U) /\ Cardinality(U) = 1 * f[x]
    BY <2>2, <2>3, FS_Product
  <2> QED
    BY <2>1, <2>4
<1>5. f[x] \in Nat
  OBVIOUS
<1>6. Cardinality(Units(f, S) \cup U) = Cardinality(Units(f, S)) + Cardinality(U) - 0
  BY <1>2, <1>3, <1>4, FS_Union, FS_EmptySet
<1> HIDE DEF U
<1>7. Cardinality(Units(f, S) \cup U) = Cardinality(Units(f, S)) + f[x]
  BY <1>3, <1>4, <1>5, <1>6
<1>8. Cardinality(Units(f, S \cup {x})) = Cardinality(Units(f, S)) + f[x]
  BY <1>1, <1>7
<1> QED
  BY <1>8 DEF SumOver

LEMMA SumRemove ==
  ASSUME NEW S, IsFiniteSet(S), NEW f, NEW x \in S, \A y \in S : f[y] \in Nat
  PROVE  /\ SumOver(f, S \ {x}) = SumOver(f, S) - f[x]
         /\ SumOver(f, S \ {x}) \in Nat
<1>1. S = (S \ {x}) \cup {x} /\ x \notin S \ {x} /\ IsFiniteSet(S \ {x})
  BY FS_RemoveElement
<1>2. SumOver(f, (S \ {x}) \cup {x}) = SumOver(f, S \ {x}) + f[x]
  BY <1>1, SumAdd
<1>3. SumOver(f, S \ {x}) \in Nat
  BY <1>1, SumType
<1>4. f[x] \in Nat
  OBVIOUS
<1> QED
  BY <1>1, <1>2, <1>3, <1>4

--------------------------------------------------------------------------------
(* The books tie to the records *)

Owed == {r \in Refunds : status[r] \in {"approved", "submitted", "pending"}}
Settled == {r \in Refunds : status[r] = "settled"}

\* What the amounts of refunds add up to, in the form the steps below use it.
Books ==
  /\ Sum(Counted) <= Paid
  /\ payable = Sum(Owed) /\ refunded = Sum(Settled)

LEMMA AmountsFinite ==
  ASSUME IInv, NEW R \in SUBSET Refunds
  PROVE  IsFiniteSet(R) /\ \A r \in R : amount[r] \in Nat
<1>1. IsFiniteSet(R)
  BY RefundsAssumption, FS_Subset
<1> QED
  BY <1>1, AmountTypes

LEMMA SumsAreNat ==
  ASSUME IInv, NEW R \in SUBSET Refunds
  PROVE  Sum(R) \in Nat
BY AmountsFinite, SumType DEF Sum

\* One refund more, one refund less.
LEMMA SumWith ==
  ASSUME IInv, NEW R \in SUBSET Refunds, NEW r \in Refunds \ R
  PROVE  Sum(R \cup {r}) = Sum(R) + amount[r]
<1>1. IsFiniteSet(R) /\ \A q \in R \cup {r} : amount[q] \in Nat
  BY AmountsFinite
<1> QED
  BY <1>1, SumAdd DEF Sum

LEMMA SumWithout ==
  ASSUME IInv, NEW R \in SUBSET Refunds, NEW r \in R
  PROVE  Sum(R \ {r}) = Sum(R) - amount[r]
<1>1. IsFiniteSet(R) /\ \A q \in R : amount[q] \in Nat
  BY AmountsFinite
<1> QED
  BY <1>1, SumRemove DEF Sum

\* Amounts of refunds that were not there before do not count yet.
LEMMA SumKept ==
  ASSUME NEW R, \A r \in R : amount'[r] = amount[r]
  PROVE  SumOver(amount', R) = Sum(R)
<1>1. SumOver(amount, R) = SumOver(amount', R)
  BY SumSame
<1> QED
  BY <1>1 DEF Sum

LEMMA InitBooks == Init => Books
<1> SUFFICES ASSUME Init PROVE Books
  OBVIOUS
<1>1. Counted = {} /\ Owed = {} /\ Settled = {}
  BY DEF Init, Counted, Owed, Settled
<1>2. Sum({}) = 0
  BY SumEmpty DEF Sum
<1> QED
  BY <1>1, <1>2, RefundsAssumption DEF Init, Books

\* A step that moves no refund in or out of the sums leaves them alone.
LEMMA SameBooks ==
  ASSUME Books, UNCHANGED <<amount, payable, refunded>>,
         Counted' = Counted, Owed' = Owed, Settled' = Settled
  PROVE  Books'
BY DEF Books, Sum

LEMMA SameStatusBooks ==
  ASSUME Books, UNCHANGED <<status, amount, ledgerVars>>
  PROVE  Books'
<1>1. Counted' = Counted /\ Owed' = Owed /\ Settled' = Settled
  BY DEF Counted, Owed, Settled
<1> QED
  BY <1>1, SameBooks DEF ledgerVars

LEMMA RequestBooks ==
  ASSUME IInv, Books, NEW r \in Refunds, NEW m \in Amounts, RequestRefund(r, m)
  PROVE  Books'
<1>1. /\ status[r] = "absent" /\ Sum(Counted) + m <= Paid
      /\ status' = [status EXCEPT ![r] = "requested"]
      /\ amount' = [amount EXCEPT ![r] = m]
      /\ UNCHANGED <<payable, refunded>>
  BY DEF RequestRefund, ledgerVars
<1>2. /\ Counted' = Counted \cup {r} /\ r \notin Counted
      /\ Owed' = Owed /\ Settled' = Settled /\ r \notin Owed \cup Settled
  BY <1>1 DEF IInv, TypeOK, Counted, Owed, Settled
<1>3. \A q \in Refunds \ {r} : amount'[q] = amount[q]
  BY <1>1 DEF IInv, TypeOK
<1>4. /\ SumOver(amount', Counted) = Sum(Counted)
      /\ SumOver(amount', Owed) = Sum(Owed)
      /\ SumOver(amount', Settled) = Sum(Settled)
  BY <1>2, <1>3, SumKept DEF Counted, Owed, Settled
<1>5. amount'[r] = m /\ m \in Nat
  BY <1>1, RefundsAssumption DEF IInv, TypeOK
<1>6. SumOver(amount', Counted \cup {r}) = SumOver(amount', Counted) + m
  <2>1. IsFiniteSet(Counted) /\ \A q \in Counted : amount[q] \in Nat
    BY AmountsFinite DEF Counted
  <2>2. \A q \in Counted \cup {r} : amount'[q] \in Nat
    BY <1>2, <1>3, <1>5, <2>1 DEF Counted
  <2> QED
    BY <1>2, <1>5, <2>1, <2>2, SumAdd
<1> QED
  BY <1>1, <1>2, <1>4, <1>6 DEF Books, Sum

LEMMA ApproveBooks ==
  ASSUME IInv, Books, NEW r \in Refunds, ApproveRefund(r)
  PROVE  Books'
<1>1. /\ status[r] = "requested" /\ status' = [status EXCEPT ![r] = "approved"]
      /\ payable' = payable + amount[r] /\ UNCHANGED <<amount, refunded>>
  BY DEF ApproveRefund, PostJournal, CanMove, InProvider, IInv, ApprovedOnce
<1>2. /\ Counted' = Counted /\ Settled' = Settled
      /\ Owed' = Owed \cup {r} /\ r \notin Owed
  BY <1>1 DEF IInv, TypeOK, Counted, Owed, Settled
<1>3. Sum(Owed \cup {r}) = Sum(Owed) + amount[r]
  BY <1>2, SumWith DEF Owed
<1> QED
  BY <1>1, <1>2, <1>3 DEF Books, Sum

LEMMA RejectBooks ==
  ASSUME IInv, Books, NEW r \in Refunds, RejectRefund(r)
  PROVE  Books'
<1>1. /\ status[r] = "requested" /\ status' = [status EXCEPT ![r] = "rejected"]
      /\ UNCHANGED <<amount, payable, refunded>>
  BY DEF RejectRefund, CanMove, InProvider, ledgerVars
<1>2. /\ Counted' = Counted \ {r} /\ r \in Counted
      /\ Owed' = Owed /\ Settled' = Settled
  BY <1>1 DEF IInv, TypeOK, Counted, Owed, Settled
<1>3. Sum(Counted \ {r}) = Sum(Counted) - amount[r]
  BY <1>2, SumWithout DEF Counted
<1>4. amount[r] \in Nat /\ Sum(Counted) \in Nat /\ Paid \in Nat
  BY AmountTypes, SumsAreNat, RefundsAssumption DEF Counted
<1>5. Sum(Counted \ {r}) <= Paid
  BY <1>3, <1>4 DEF Books
<1> QED
  BY <1>1, <1>2, <1>5 DEF Books, Sum

\* An outcome moves the liability of a refund out of the payable account exactly
\* when it moves the refund out of those that are owed.
LEMMA OutcomeBooks ==
  ASSUME IInv, Books, NEW r \in Refunds, NEW report, ApplyOutcome(r, report), UNCHANGED amount
  PROVE  Books'
<1> DEFINE to == Target(report)
           moves == status[r] # to /\ CanMove(status[r], to)
<1>1. /\ status' = [status EXCEPT ![r] = IF moves THEN to ELSE @]
      /\ IF moves THEN Post(r, to) ELSE UNCHANGED ledgerVars
  BY DEF ApplyOutcome
<1>2. to \in {"settled", "failed", "pending"}
  BY DEF Target
<1>3. amount[r] \in Nat /\ payable \in Int /\ refunded \in Nat
  BY AmountTypes
<1>4. CASE ~moves
  <2>1. status' = status
    BY <1>1, <1>4 DEF IInv, TypeOK
  <2> QED
    BY <1>1, <1>4, <2>1, SameStatusBooks
<1>5. CASE moves /\ to = "pending"
  <2>1. status[r] = "submitted" /\ status' = [status EXCEPT ![r] = "pending"]
    BY <1>1, <1>5 DEF CanMove, InProvider
  <2>2. Counted' = Counted /\ Owed' = Owed /\ Settled' = Settled
    BY <2>1 DEF IInv, TypeOK, Counted, Owed, Settled
  <2>3. UNCHANGED <<payable, refunded>>
    BY <1>1, <1>5 DEF Post, ledgerVars
  <2> QED
    BY <2>2, <2>3, SameBooks
<1>6. CASE moves /\ to = "settled"
  <2>1. /\ status[r] \in InProvider /\ status' = [status EXCEPT ![r] = "settled"]
        /\ payable' = payable - amount[r] /\ refunded' = refunded + amount[r]
    BY <1>1, <1>6 DEF CanMove, InProvider, Post
  <2>2. /\ Counted' = Counted /\ Owed' = Owed \ {r} /\ r \in Owed
        /\ Settled' = Settled \cup {r} /\ r \notin Settled
    BY <2>1 DEF IInv, TypeOK, InProvider, Counted, Owed, Settled
  <2>3. /\ Sum(Owed \ {r}) = Sum(Owed) - amount[r]
        /\ Sum(Settled \cup {r}) = Sum(Settled) + amount[r]
    BY <2>2, SumWith, SumWithout DEF Owed, Settled
  <2> QED
    BY <2>1, <2>2, <2>3 DEF Books, Sum
<1>7. CASE moves /\ to = "failed"
  <2>1. /\ status[r] \in InProvider /\ status' = [status EXCEPT ![r] = "failed"]
        /\ payable' = payable - amount[r] /\ refunded' = refunded
    BY <1>1, <1>7 DEF CanMove, InProvider, Post
  <2>2. /\ Counted' = Counted \ {r} /\ r \in Counted
        /\ Owed' = Owed \ {r} /\ r \in Owed /\ Settled' = Settled
    BY <2>1 DEF IInv, TypeOK, InProvider, Counted, Owed, Settled
  <2>3. /\ Sum(Owed \ {r}) = Sum(Owed) - amount[r]
        /\ Sum(Counted \ {r}) = Sum(Counted) - amount[r]
    BY <2>2, SumWithout DEF Owed, Counted
  <2>4. Sum(Counted) \in Nat /\ Paid \in Nat
    BY SumsAreNat, RefundsAssumption DEF Counted
  <2>5. Sum(Counted \ {r}) <= Paid
    BY <1>3, <2>3, <2>4 DEF Books
  <2> QED
    BY <2>1, <2>2, <2>3, <2>5 DEF Books, Sum
<1> QED
  BY <1>2, <1>4, <1>5, <1>6, <1>7

LEMMA RecordBooks ==
  ASSUME IInv, Books, NEW s \in Submitters, RecordSubmission(s)
  PROVE  Books'
<1>1. PICK r : r = submitter[s].refund
  OBVIOUS
<1>2. /\ status' = [status EXCEPT ![r] = IF @ = "approved" THEN "submitted" ELSE @]
      /\ UNCHANGED <<amount, payable, refunded>>
  BY <1>1 DEF RecordSubmission, ledgerVars
<1>3. Counted' = Counted /\ Owed' = Owed /\ Settled' = Settled
  BY <1>2 DEF IInv, TypeOK, Counted, Owed, Settled
<1> QED
  BY <1>2, <1>3, SameBooks

LEMMA NextBooks == IInv /\ Books /\ [Next]_vars => Books'
<1> SUFFICES ASSUME IInv, Books, [Next]_vars PROVE Books'
  OBVIOUS
<1>1. ASSUME NEW r \in Refunds, NEW m \in Amounts, RequestRefund(r, m) PROVE Books'
  BY <1>1, RequestBooks
<1>2. ASSUME NEW r \in Refunds, ApproveRefund(r) \/ RejectRefund(r) PROVE Books'
  BY <1>2, ApproveBooks, RejectBooks
<1>3. ASSUME NEW s \in Submitters, RecordSubmission(s) PROVE Books'
  BY <1>3, RecordBooks
<1>4. ASSUME NEW s \in Submitters, FinishSubmission(s) PROVE Books'
  <2>1. submitter[s].refund \in Refunds /\ UNCHANGED amount
    BY <1>4 DEF FinishSubmission, IInv, Believed, TrueSubmission
  <2>2. CASE submitter[s].report = "pending"
    BY <1>4, <2>1, <2>2, SameStatusBooks DEF FinishSubmission
  <2>3. CASE submitter[s].report # "pending"
    BY <1>4, <2>1, <2>3, OutcomeBooks DEF FinishSubmission
  <2> QED
    BY <2>2, <2>3
<1>5. ASSUME NEW w \in EventWorkers, ApplyEvent(w) PROVE Books'
  <2>1. eventWorker[w].refund \in Refunds /\ UNCHANGED amount
    BY <1>5 DEF ApplyEvent, IInv, Believed, TrueProcessing
  <2> QED
    BY <1>5, <2>1, OutcomeBooks DEF ApplyEvent
<1>6. ASSUME ApplyPolled PROVE Books'
  <2>1. poller.refund \in Refunds /\ UNCHANGED amount
    BY <1>6 DEF ApplyPolled, IdlePoller, IInv, Believed, TruePoll
  <2> QED
    BY <1>6, <2>1, OutcomeBooks DEF ApplyPolled
<1>7. ASSUME UNCHANGED <<status, amount, ledgerVars>> PROVE Books'
  BY <1>7, SameStatusBooks
<1> QED
  BY <1>1, <1>2, <1>3, <1>4, <1>5, <1>6, <1>7
     DEF Next, Submit, Poll, ProviderMoves, PrepareSubmission, CreateAtProvider, SubmissionFails,
         CrashSubmitter, PlanRefundEvent, FindRefund, CrashEventWorker, ReadRow, PollRefund,
         PollFails, vars

LEMMA BooksInvariance == Spec => []Books
<1>1. Init => Books
  BY InitBooks
<1>2. IInv /\ Books /\ [Next]_vars => Books'
  BY NextBooks
<1> QED
  BY <1>1, <1>2, Invariance, PTL DEF Spec

\* Refunds requested or on their way never exceed the payment: requestRefund counts
\* them under the attempt's lock, and a failed refund whose amount was given to a
\* new request cannot come back, for its approval journal exists.
THEOREM NeverTooMuch == Spec => []NeverOverRefunded
<1>1. Books => NeverOverRefunded
  BY DEF Books, NeverOverRefunded
<1> QED
  BY <1>1, BooksInvariance, PTL

\* Refunds payable is what is approved and not concluded, and the gateway account
\* has paid out what is settled: approveRefund, the answer of the submission, the
\* webhooks and the poll post each journal once, for any refunds and amounts.
THEOREM BooksTie == Spec => []LiabilityTies
<1>1. Books => LiabilityTies
  BY DEF Books, LiabilityTies, Owed, Settled
<1> QED
  BY <1>1, BooksInvariance, PTL
================================================================================
