--------------------------------- MODULE Quotes ---------------------------------
(***************************************************************************)
(* The quotes of one service request and the engagement they lead to        *)
(* (packages/finance/src/engagements, engagements.expire_quotes of the      *)
(* worker, and the customer's transitions of apps/web).                     *)
(*                                                                          *)
(* A quote is drafted, issued, and accepted or rejected in the version the  *)
(* customer read.  Each request is one READ COMMITTED transaction that      *)
(* takes row locks one after the other - quote and request, or request and  *)
(* invoice - and Postgres aborts one of those that wait in a circle.  The   *)
(* expiry job reads without locks and writes by id later.                   *)
(*                                                                          *)
(* Of an accepted quote's invoice it matters whether anything was paid or   *)
(* credited, and whether everything was: drafts last no longer than the     *)
(* acceptance, and an overdue invoice is collected, voided and credited     *)
(* like one that is not due yet.                                            *)
(*                                                                          *)
(* Left out: permissions, lines and totals, the percentage rule, templates, *)
(* invoices staff make out by hand, and what follows in_progress (review    *)
(* and delivery).  Other requests meet this one only in the batch of the    *)
(* expiry job.                                                              *)
(***************************************************************************)
EXTENDS Integers, FiniteSets

CONSTANTS
  Quotes, MaxVersion,
  Upfront,     \* the versions that require payment before work starts
  Sessions,    \* transactions open at a time
  Expirers,    \* workers running expireQuotes
  None

Versions == 1..MaxVersion
Request == "service_requests"
Invoice == "invoices"
Locks == Quotes \cup {Request, Invoice}

ASSUME QuotesAssumption ==
  /\ MaxVersion \in Nat \ {0}
  /\ Upfront \subseteq Quotes \X Versions
  /\ None \notin Quotes /\ Request \notin Quotes /\ Invoice \notin Quotes

VARIABLES
  quote,       \* status, current version, and whether that version's validUntil passed
  engagement,  \* service_requests.status
  acceptances, \* versions with a row in acceptances
  invoice,     \* the invoice of each accepted version: "issued" with nothing paid
               \* or credited, "reduced" once something was
  session,     \* the open transactions, the locks they hold and what they decided
  scan,        \* what each expiry job read: issued quotes, with the lapsed version
  overtaken,   \* history: the expiry job overwrote a quote that had changed since
  released     \* history: staff cancelled and asked to void unpaid invoices

vars == <<quote, engagement, acceptances, invoice, session, scan, overtaken, released>>

QuoteStatus == {"draft", "issued", "accepted", "rejected", "expired", "superseded"}
EngagementState ==
  {"inquiry", "triage", "quoted", "accepted", "awaiting_payment", "in_progress", "paused",
   "rejected", "cancelled"}
InvoiceState == {"none", "issued", "reduced", "paid", "void"}
NoQuote == [status |-> "absent", current |-> 0, lapsed |-> FALSE]
Idle == [op |-> "idle", quote |-> None, version |-> 0, voids |-> FALSE, holds |-> {}]

TypeOK ==
  /\ quote \in [Quotes -> {NoQuote} \cup
                  [status : QuoteStatus, current : Versions, lapsed : BOOLEAN]]
  /\ engagement \in EngagementState
  /\ acceptances \subseteq Quotes \X Versions
  /\ invoice \in [Quotes \X Versions -> InvoiceState]
  /\ session \in [Sessions ->
       [op : {"idle", "issue", "accept", "reject", "cancel", "settle"}, quote : Quotes \cup {None},
        version : 0..MaxVersion, voids : BOOLEAN, holds : SUBSET Locks]]
  /\ scan \in [Expirers -> SUBSET (Quotes \X Versions)]
  /\ overtaken \in BOOLEAN /\ released \in BOOLEAN

Init ==
  /\ quote = [q \in Quotes |-> NoQuote]
  /\ engagement = "inquiry"
  /\ acceptances = {}
  /\ invoice = [k \in Quotes \X Versions |-> "none"]
  /\ session = [s \in Sessions |-> Idle]
  /\ scan = [x \in Expirers |-> {}]
  /\ overtaken = FALSE /\ released = FALSE

--------------------------------------------------------------------------------
(* Row locks *)

Holders(l) == {s \in Sessions : l \in session[s].holds}
FreeFor(s, l) == Holders(l) \subseteq {s}
Free(l) == Holders(l) = {}

\* The quotes an issue supersedes.
Superseded(q) == {p \in Quotes \ {q} : quote[p].status = "issued"}
\* The invoices of the request on which nothing was paid or credited, those
\* that ask for more, and those that take a payment.
Unpaid == {k \in acceptances : invoice[k] = "issued"}
Collectable == {k \in acceptances : invoice[k] \in {"issued", "reduced"}}
Allocatable == {k \in acceptances : invoice[k] \in {"issued", "reduced", "paid"}}

\* The locks a session still has to take, in its order.
Wanted(s) ==
  LET S == session[s] IN
  CASE S.op \in {"issue", "accept", "reject", "settle"} /\ Request \notin S.holds -> {Request}
    [] S.op = "issue" /\ Request \in S.holds -> Superseded(S.quote)
    [] S.op = "cancel" /\ S.voids /\ Unpaid # {} -> {Invoice}
    [] OTHER -> {}

\* s asks for a row that t has locked.
WaitsFor(s, t) == s # t /\ Wanted(s) \cap session[t].holds # {}
\* s is one of some that wait for each other in a circle.
Deadlocked(s) ==
  \E C \in SUBSET Sessions :
    /\ s \in C
    /\ \A t \in C : (\E u \in C : WaitsFor(t, u)) /\ \E u \in C : WaitsFor(u, t)

Ends(s) == session' = [session EXCEPT ![s] = Idle]

\* Postgres aborts a transaction of the circle: nothing of it remains.
BreakDeadlock(s) ==
  /\ Deadlocked(s)
  /\ Ends(s)
  /\ UNCHANGED <<quote, engagement, acceptances, invoice, scan, overtaken, released>>

\* engagementMachine, up to the start of work.
CanMove(from, to, by) ==
  \/ by = "staff" /\ <<from, to>> \in
       {<<"inquiry", "triage">>, <<"triage", "quoted">>, <<"quoted", "quoted">>,
        <<"triage", "rejected">>, <<"awaiting_payment", "in_progress">>}
  \/ by = "customer" /\ from = "quoted" /\ to = "accepted"
  \/ by = "system" /\ <<from, to>> \in
       {<<"accepted", "awaiting_payment">>, <<"accepted", "in_progress">>,
        <<"awaiting_payment", "in_progress">>}
  \/ by \in {"staff", "customer"} /\
       \/ from = "quoted" /\ to = "rejected"
       \/ from \in {"accepted", "awaiting_payment", "in_progress"} /\ to = "paused"
       \/ from = "paused" /\ to = "in_progress"
       \/ from \notin {"rejected", "cancelled"} /\ to = "cancelled"

--------------------------------------------------------------------------------
(* Drafting and issuing *)

\* createQuote
CreateQuote(q) ==
  /\ quote[q] = NoQuote
  /\ Free(Request)
  /\ engagement \in {"triage", "quoted"}
  /\ quote' = [quote EXCEPT ![q] = [status |-> "draft", current |-> 1, lapsed |-> FALSE]]
  /\ UNCHANGED <<engagement, acceptances, invoice, session, scan, overtaken, released>>

\* Seeded: an accepted quote takes a new version.
AddQuoteVersion_Any(q) ==
  /\ Free(q)
  /\ quote[q].status \in QuoteStatus \ {"superseded"} /\ quote[q].current < MaxVersion
  /\ quote' = [quote EXCEPT
       ![q] = [status |-> "draft", current |-> quote[q].current + 1, lapsed |-> FALSE]]
  /\ UNCHANGED <<engagement, acceptances, invoice, session, scan, overtaken, released>>
\* addQuoteVersion
AddQuoteVersion(q) ==
  /\ Free(q)
  /\ quote[q].status \in {"draft", "issued", "expired", "rejected"}
  /\ quote[q].current < MaxVersion
  /\ quote' = [quote EXCEPT
       ![q] = [status |-> "draft", current |-> quote[q].current + 1, lapsed |-> FALSE]]
  /\ UNCHANGED <<engagement, acceptances, invoice, session, scan, overtaken, released>>

\* loadQuoteForUpdate: issue, accept and reject begin with the quote's lock.
LockQuote(s, op, q, v) ==
  /\ session[s] = Idle
  /\ op \in {"issue", "accept", "reject"} /\ v <= quote[q].current
  /\ op = "issue" => v = quote[q].current
  /\ quote[q] # NoQuote /\ Free(q)
  /\ session' = [session EXCEPT ![s] = [Idle EXCEPT
       !.op = op, !.quote = q, !.version = IF op = "issue" THEN 0 ELSE v, !.holds = {q}]]
  /\ UNCHANGED <<quote, engagement, acceptances, invoice, scan, overtaken, released>>

\* loadServiceRequestForUpdate; a rejection looks at the quote before it.
LockRequest(s) ==
  LET S == session[s] IN
  /\ Wanted(s) = {Request} /\ Free(Request)
  /\ S.op = "reject" =>
       quote[S.quote].status = "issued" /\ S.version = quote[S.quote].current
  /\ session' = [session EXCEPT ![s].holds = @ \cup {Request}]
  /\ UNCHANGED <<quote, engagement, acceptances, invoice, scan, overtaken, released>>

\* The session holds every lock it asked for.
Ready(s, op) ==
  /\ session[s].op = op /\ Request \in session[s].holds
  /\ \A l \in Wanted(s) : FreeFor(s, l)

Issuable(q) == quote[q].status = "draft" /\ CanMove(engagement, "quoted", "staff")
\* Seeded: the older quotes stay open.
IssueQuote_Beside(s) ==
  LET q == session[s].quote IN
  /\ Ready(s, "issue")
  /\ Issuable(q)
  /\ quote' = [quote EXCEPT ![q].status = "issued", ![q].lapsed = FALSE]
  /\ engagement' = "quoted"
  /\ Ends(s)
  /\ UNCHANGED <<acceptances, invoice, scan, overtaken, released>>
\* issueQuote
IssueQuote(s) ==
  LET q == session[s].quote IN
  /\ Ready(s, "issue")
  /\ Issuable(q)
  /\ quote' = [p \in Quotes |->
       CASE p = q               -> [quote[q] EXCEPT !.status = "issued", !.lapsed = FALSE]
         [] p \in Superseded(q) -> [quote[p] EXCEPT !.status = "superseded"]
         [] OTHER               -> quote[p]]
  /\ engagement' = "quoted"
  /\ Ends(s)
  /\ UNCHANGED <<acceptances, invoice, scan, overtaken, released>>

--------------------------------------------------------------------------------
(* The customer's answer *)

\* acceptQuote
Acceptable(q, v) ==
  /\ quote[q].status = "issued" /\ quote[q].current = v /\ ~quote[q].lapsed
  /\ <<q, v>> \notin acceptances
  /\ CanMove(engagement, "accepted", "customer")

\* The state accepted lasts no longer than the transaction.
AcceptQuote(s) ==
  LET q == session[s].quote  v == session[s].version IN
  /\ Ready(s, "accept")
  /\ Acceptable(q, v)
  /\ acceptances' = acceptances \cup {<<q, v>>}
  /\ quote' = [quote EXCEPT ![q].status = "accepted"]
  /\ IF <<q, v>> \in Upfront
       THEN engagement' = "awaiting_payment" /\ invoice' = [invoice EXCEPT ![<<q, v>>] = "issued"]
       ELSE engagement' = "in_progress" /\ UNCHANGED invoice
  /\ Ends(s)
  /\ UNCHANGED <<scan, overtaken, released>>

\* rejectQuote
RejectQuote(s) ==
  /\ Ready(s, "reject")
  /\ CanMove(engagement, "rejected", "customer")
  /\ quote' = [quote EXCEPT ![session[s].quote].status = "rejected"]
  /\ engagement' = "rejected"
  /\ Ends(s)
  /\ UNCHANGED <<acceptances, invoice, scan, overtaken, released>>

\* A check fails and the transaction is rolled back, the update to expired that
\* acceptQuote makes before it throws included.
Refused(s) ==
  LET S == session[s] IN
  \/ Ready(s, "issue") /\ ~Issuable(S.quote)
  \/ S.op = "issue" /\ Request \in S.holds /\ quote[S.quote].status # "draft"
  \/ Ready(s, "accept") /\ ~Acceptable(S.quote, S.version)
  \/ S.op = "reject" /\ Request \notin S.holds
       /\ (quote[S.quote].status # "issued" \/ S.version # quote[S.quote].current)
  \/ Ready(s, "reject") /\ ~CanMove(engagement, "rejected", "customer")
Refuse(s) ==
  /\ Refused(s)
  /\ Ends(s)
  /\ UNCHANGED <<quote, engagement, acceptances, invoice, scan, overtaken, released>>

--------------------------------------------------------------------------------
(* The engagement *)

\* triageServiceRequest, the other staff transitions, and those a customer asks
\* for, whose update finds no row unless the version is the one that was read.
Transition(by, to) ==
  /\ Free(Request)
  /\ \/ by = "staff" /\ to \in {"triage", "rejected", "paused", "in_progress"}
     \/ by = "customer" /\ to \in {"cancelled", "paused", "in_progress"}
  /\ CanMove(engagement, to, by)
  /\ engagement' = to
  /\ UNCHANGED <<quote, acceptances, invoice, session, scan, overtaken, released>>

\* applyStaffTransition to cancelled, first its lock on the request.
StartCancel(s, voids) ==
  /\ session[s] = Idle /\ Free(Request)
  /\ CanMove(engagement, "cancelled", "staff")
  /\ session' = [session EXCEPT ![s] = [Idle EXCEPT
       !.op = "cancel", !.voids = voids, !.holds = {Request}]]
  /\ UNCHANGED <<quote, engagement, acceptances, invoice, scan, overtaken, released>>

\* Seeded: an invoice is voided only while its payment is awaited.
Cancel_AwaitedOnly(s) ==
  LET voids == session[s].voids /\ engagement = "awaiting_payment" IN
  /\ Ready(s, "cancel")
  /\ engagement' = "cancelled"
  /\ invoice' = [k \in Quotes \X Versions |-> IF voids /\ k \in Unpaid THEN "void" ELSE invoice[k]]
  /\ released' = (released \/ session[s].voids)
  /\ Ends(s)
  /\ UNCHANGED <<quote, acceptances, scan, overtaken>>
\* The second step locks the unpaid invoices, tests them again, and voids them.
\* One that was paid or credited in part stays as it is.
Cancel(s) ==
  LET voids == session[s].voids IN
  /\ Ready(s, "cancel")
  /\ engagement' = "cancelled"
  /\ invoice' = [k \in Quotes \X Versions |-> IF voids /\ k \in Unpaid THEN "void" ELSE invoice[k]]
  /\ released' = (released \/ voids)
  /\ Ends(s)
  /\ UNCHANGED <<quote, acceptances, scan, overtaken>>

\* The payment that completes an invoice, or meets a paid one, takes the
\* invoice, then the request.  A bank transfer that is confirmed does the same.
StartSettling(s) ==
  /\ session[s] = Idle /\ Free(Invoice) /\ Allocatable # {}
  /\ session' = [session EXCEPT ![s] = [Idle EXCEPT !.op = "settle", !.holds = {Invoice}]]
  /\ UNCHANGED <<quote, engagement, acceptances, invoice, scan, overtaken, released>>

Settle(s) ==
  /\ Ready(s, "settle")
  /\ invoice' = [k \in Quotes \X Versions |-> IF k \in Allocatable THEN "paid" ELSE invoice[k]]
  /\ engagement' = IF engagement = "awaiting_payment" THEN "in_progress" ELSE engagement
  /\ Ends(s)
  /\ UNCHANGED <<quote, acceptances, scan, overtaken, released>>

\* What needs no lock but the invoice's, and leaves the engagement alone: a
\* payment of a part, a credit note for a part or for the rest, and the voiding
\* of a single invoice by staff.
OnInvoice(k, to) ==
  /\ Free(Invoice)
  /\ invoice' = [invoice EXCEPT ![k] = to]
  /\ UNCHANGED <<quote, engagement, acceptances, session, scan, overtaken, released>>

SettlePart(k) == k \in Collectable /\ OnInvoice(k, "reduced")
CreditInvoice(k) == k \in Collectable /\ \E to \in {"reduced", "paid"} : OnInvoice(k, to)
VoidInvoice(k) == k \in Unpaid /\ OnInvoice(k, "void")

--------------------------------------------------------------------------------
(* Expiry *)

\* validUntil of the current version passes.
Lapse(q) ==
  /\ quote[q].status = "issued" /\ ~quote[q].lapsed
  /\ quote' = [quote EXCEPT ![q].lapsed = TRUE]
  /\ UNCHANGED <<engagement, acceptances, invoice, session, scan, overtaken, released>>

\* Seeded: the job joins the first version of a quote, not the current one.
Lapsed_FirstVersion ==
  {<<q, 1>> : q \in {p \in Quotes : quote[p].status = "issued" /\ quote[p].lapsed /\ quote[p].current = 1}}
Lapsed ==
  {<<q, quote[q].current>> : q \in {p \in Quotes : quote[p].status = "issued" /\ quote[p].lapsed}}

\* expireQuotes reads, and updates by id whatever the rows have become.
ReadLapsed(x) ==
  /\ scan[x] = {} /\ Lapsed # {}
  /\ scan' = [scan EXCEPT ![x] = Lapsed]
  /\ UNCHANGED <<quote, engagement, acceptances, invoice, session, overtaken, released>>

ExpireRead(x) ==
  LET ids == {k[1] : k \in scan[x]} IN
  /\ scan[x] # {}
  /\ \A q \in ids : Free(q)
  /\ quote' = [q \in Quotes |->
       IF q \in ids THEN [quote[q] EXCEPT !.status = "expired"] ELSE quote[q]]
  /\ overtaken' = (overtaken \/ \E k \in scan[x] :
       quote[k[1]].status \notin {"issued", "expired"} \/ quote[k[1]].current # k[2])
  /\ scan' = [scan EXCEPT ![x] = {}]
  /\ UNCHANGED <<engagement, acceptances, invoice, session, released>>

--------------------------------------------------------------------------------
SessionStep(s) ==
  \/ LockRequest(s) \/ IssueQuote(s) \/ AcceptQuote(s) \/ RejectQuote(s) \/ Refuse(s)
  \/ Cancel(s) \/ Settle(s) \/ BreakDeadlock(s)

Next ==
  \/ \E q \in Quotes : CreateQuote(q) \/ AddQuoteVersion(q) \/ Lapse(q)
  \/ \E s \in Sessions, op \in {"issue", "accept", "reject"}, q \in Quotes, v \in Versions :
       LockQuote(s, op, q, v)
  \/ \E s \in Sessions, voids \in BOOLEAN : StartCancel(s, voids)
  \/ \E s \in Sessions : StartSettling(s) \/ SessionStep(s)
  \/ \E k \in Quotes \X Versions : SettlePart(k) \/ CreditInvoice(k) \/ VoidInvoice(k)
  \/ \E by \in {"staff", "customer"}, to \in EngagementState : Transition(by, to)
  \/ \E x \in Expirers : ReadLapsed(x) \/ ExpireRead(x)

Spec == Init /\ [][Next]_vars

\* Row locks are granted in the order they were asked for, so one that is free
\* again and again is obtained; the scheduler runs the expiry job every 15 minutes.
FairSpec ==
  /\ Spec
  /\ \A s \in Sessions : SF_vars(SessionStep(s))
  /\ \A x \in Expirers : WF_vars(ReadLapsed(x)) /\ SF_vars(ExpireRead(x))

--------------------------------------------------------------------------------
(* Properties *)

Agreed == {"awaiting_payment", "in_progress", "paused"}

\* However issues, answers and the expiry job interleave, the customer never has
\* two quotes open for one request, and none once a quote was accepted
\* (quotes.ts:388-399, "older issued quotes ... are superseded").
OneOffer ==
  /\ \A p, q \in Quotes : quote[p].status = "issued" /\ quote[q].status = "issued" => p = q
  /\ engagement \in Agreed => \A q \in Quotes : quote[q].status # "issued"

\* An engagement past its quotation rests on exactly one accepted version, billed
\* once and only if it asked for payment; before it, on none.  Unless the expiry
\* job overwrote it, the quote still shows that acceptance (quotes.ts:463-642).
OneAgreement ==
  /\ Cardinality(acceptances) <= 1
  /\ engagement \in Agreed => acceptances # {}
  /\ engagement \in {"inquiry", "triage", "quoted", "rejected"} => acceptances = {}
  /\ \A k \in Quotes \X Versions : invoice[k] # "none" <=> k \in acceptances \cap Upfront
  /\ ~overtaken => {<<q, quote[q].current>> : q \in {p \in Quotes : quote[p].status = "accepted"}}
                     = acceptances

\* When staff cancel and ask to void what is unpaid, the engagement stays
\* cancelled and no invoice of an accepted quote stays open but one on which
\* something had been paid or credited by then, also if it was being issued,
\* paid or credited at that moment, and if the rest is paid later
\* (triage.ts:218-225, invoices.ts:461-470).
CancellationHolds == released => engagement = "cancelled" /\ Unpaid = {}

\* An issued quote whose validity passed does not stay open for ever: no lock is
\* held for good, deadlocks included, and the job finds it (quotes.ts:739-780).
OffersExpire ==
  \A q \in Quotes : quote[q].status = "issued" /\ quote[q].lapsed
                      ~> ~(quote[q].status = "issued" /\ quote[q].lapsed)

================================================================================
