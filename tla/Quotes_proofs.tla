----------------------------- MODULE Quotes_proofs -----------------------------
(***************************************************************************)
(* Why a request has one offer open at most, one agreement at most, and no  *)
(* untouched invoice after staff cancelled it and voided: for any quotes,   *)
(* versions, transactions and expiry jobs.                                  *)
(*                                                                          *)
(* The engagement carries the argument.  Offers are open and acceptances    *)
(* absent as long as it is before its agreement; no step leads back there;  *)
(* and cancelled is final.  The locks carry the rest: a transaction holds   *)
(* the rows it began with and no two hold the same one, so a rejection      *)
(* still finds the offer it read, and a settlement the invoice it planned.  *)
(***************************************************************************)
EXTENDS Quotes, FiniteSetTheorems, TLAPS

QuoteRows == {NoQuote} \cup [status : QuoteStatus, current : Versions, lapsed : BOOLEAN]

Transactions ==
  [op : {"idle", "issue", "accept", "reject", "cancel", "settle"}, quote : Quotes \cup {None},
   version : 0..MaxVersion, voids : BOOLEAN, holds : SUBSET Locks]

\* No row is locked by two transactions.
LocksExclusive ==
  \A s, t \in Sessions : s # t => session[s].holds \cap session[t].holds = {}

\* What a transaction holds is what its operation locks.
HoldsItsRows(S) ==
  \/ S = Idle
  \/ S.op \in {"issue", "accept", "reject"} /\ S.quote \in Quotes
       /\ S.holds \in {{S.quote}, {S.quote, Request}}
  \/ S.op = "cancel" /\ S.quote = None /\ S.holds = {Request}
  \/ S.op = "settle" /\ S.quote = None /\ S.holds \in {{Invoice}, {Invoice, Request}}

Locked ==
  /\ session \in [Sessions -> Transactions]
  /\ LocksExclusive
  /\ \A s \in Sessions : HoldsItsRows(session[s])

\* Only a quote that exists is locked or read.
Known ==
  /\ \A s \in Sessions : session[s].quote # None => quote[session[s].quote] # NoQuote
  /\ \A x \in Expirers : \A k \in scan[x] : quote[k[1]] # NoQuote

\* A rejection that looked at its quote still finds the version it looked at open.
RejectsAnOffer ==
  \A s \in Sessions : session[s].op = "reject" /\ Request \in session[s].holds =>
    /\ quote[session[s].quote].status = "issued"
    /\ session[s].version = quote[session[s].quote].current

\* A settlement that found an invoice that takes its payment still has it.
SettlesAnInvoice == \A s \in Sessions : session[s].op = "settle" => Allocatable # {}

\* The states before an agreement.
Open == {"inquiry", "triage", "quoted", "rejected"}

Staged ==
  /\ engagement \in Open \cup Agreed \cup {"cancelled"}
  /\ released => engagement = "cancelled"

Inv ==
  /\ TypeOK
  /\ Locked /\ Known /\ RejectsAnOffer /\ SettlesAnInvoice
  /\ Staged
  /\ OneOffer /\ OneAgreement /\ CancellationHolds

--------------------------------------------------------------------------------
(* Locks *)

LEMMA Distinct == Request # Invoice /\ Request \notin Quotes /\ Invoice \notin Quotes /\ None \notin Quotes
BY QuotesAssumption DEF Request, Invoice

LEMMA TypeParts ==
  TypeOK <=> /\ quote \in [Quotes -> QuoteRows]
             /\ engagement \in EngagementState
             /\ acceptances \subseteq Quotes \X Versions
             /\ invoice \in [Quotes \X Versions -> InvoiceState]
             /\ session \in [Sessions -> Transactions]
             /\ scan \in [Expirers -> SUBSET (Quotes \X Versions)]
             /\ overtaken \in BOOLEAN /\ released \in BOOLEAN
BY DEF TypeOK, QuoteRows, Transactions

LEMMA IdleHolds ==
  /\ Idle \in Transactions /\ HoldsItsRows(Idle)
  /\ Idle.holds = {} /\ Idle.op = "idle" /\ Idle.quote = None
BY QuotesAssumption DEF Idle, Transactions, HoldsItsRows

\* A row that is free is free of everybody's locks.
LEMMA FreeRow ==
  ASSUME NEW l, Free(l), NEW s \in Sessions
  PROVE  l \notin session[s].holds
BY DEF Free, Holders

\* A transaction that begins with free rows, or takes one more.
LEMMA LocksGrow ==
  ASSUME Locked, NEW s \in Sessions, NEW S \in Transactions, HoldsItsRows(S),
         session' = [session EXCEPT ![s] = S],
         \A l \in S.holds : l \in session[s].holds \/ Free(l)
  PROVE  Locked'
<1>1. session' \in [Sessions -> Transactions]
  BY DEF Locked
<1>2. \A t \in Sessions : HoldsItsRows(session'[t])
  BY DEF Locked
<1>3. ASSUME NEW t \in Sessions, NEW u \in Sessions, t # u
      PROVE  session'[t].holds \cap session'[u].holds = {}
  <2>1. \A v \in Sessions : v # s => session'[v] = session[v] /\ S.holds \cap session[v].holds = {}
    BY FreeRow DEF Locked, LocksExclusive
  <2>2. session'[s] = S
    BY DEF Locked
  <2> QED
    BY <1>3, <2>1, <2>2 DEF Locked, LocksExclusive
<1> QED
  BY <1>1, <1>2, <1>3 DEF Locked, LocksExclusive

\* The end of a transaction gives all its locks back.
LEMMA EndsFree ==
  ASSUME Locked, NEW s \in Sessions, Ends(s)
  PROVE  /\ Locked'
         /\ \A t \in Sessions : session'[t] = IF t = s THEN Idle ELSE session[t]
<1>1. \A t \in Sessions : session'[t] = IF t = s THEN Idle ELSE session[t]
  BY DEF Locked, Ends
<1>2. Locked'
  BY LocksGrow, IdleHolds DEF Ends
<1> QED
  BY <1>1, <1>2

--------------------------------------------------------------------------------
(* Steps that change only quotes or only transactions *)

\* How the rows of quotes change when a step of another party touches them:
\* none is reopened, lost or agreed on, and none that is being rejected moves.
LEMMA QuotesStep ==
  ASSUME Inv, quote' \in [Quotes -> QuoteRows],
         UNCHANGED <<engagement, acceptances, invoice, session, released>>,
         overtaken' \in BOOLEAN, scan' \in [Expirers -> SUBSET (Quotes \X Versions)],
         \A x \in Expirers : scan'[x] \in {scan[x], {}},
         \A q \in Quotes :
           /\ quote'[q].status = "issued" => quote[q].status = "issued"
           /\ quote[q] # NoQuote => quote'[q] # NoQuote,
         \A s \in Sessions : session[s].op = "reject" =>
           LET q == session[s].quote IN
           quote'[q].status = quote[q].status /\ quote'[q].current = quote[q].current,
         ~overtaken' =>
           /\ ~overtaken
           /\ \A q \in Quotes : quote'[q].status = "accepted" <=> quote[q].status = "accepted"
           /\ \A q \in Quotes : quote[q].status = "accepted" => quote'[q].current = quote[q].current
  PROVE  Inv'
<1>1. TypeOK'
  BY DEF Inv, TypeOK, QuoteRows
<1>2. Locked'
  BY DEF Inv, Locked, LocksExclusive, HoldsItsRows
<1>3. Known'
  <2>1. ASSUME NEW s \in Sessions, session'[s].quote # None
        PROVE  quote'[session'[s].quote] # NoQuote
    <3>1. session[s].quote \in Quotes /\ quote[session[s].quote] # NoQuote
      BY <2>1, TypeParts DEF Inv, Known, Transactions
    <3> QED
      BY <3>1
  <2>2. ASSUME NEW x \in Expirers, NEW k \in scan'[x]
        PROVE  quote'[k[1]] # NoQuote
    <3>1. k \in scan[x] /\ k \in Quotes \X Versions
      BY <2>2, TypeParts DEF Inv
    <3> QED
      BY <3>1 DEF Inv, Known
  <2> QED
    BY <2>1, <2>2 DEF Known
<1>4. RejectsAnOffer'
  BY DEF Inv, RejectsAnOffer
<1>5. SettlesAnInvoice' /\ CancellationHolds'
  BY DEF Inv, SettlesAnInvoice, CancellationHolds, Unpaid, Allocatable
<1>6. Staged'
  BY DEF Inv, Staged
<1>7. OneOffer'
  BY DEF Inv, OneOffer
<1>8. OneAgreement'
  <2>1. ASSUME ~overtaken'
        PROVE  {<<q, quote'[q].current>> : q \in {p \in Quotes : quote'[p].status = "accepted"}}
               = {<<q, quote[q].current>> : q \in {p \in Quotes : quote[p].status = "accepted"}}
    BY <2>1
  <2> QED
    BY <2>1 DEF Inv, OneAgreement
<1> QED
  BY <1>1, <1>2, <1>3, <1>4, <1>5, <1>6, <1>7, <1>8 DEF Inv

\* A step that only begins, extends or ends a transaction.
LEMMA TransactionsStep ==
  ASSUME Inv, UNCHANGED <<quote, engagement, acceptances, invoice, scan, overtaken, released>>,
         NEW s \in Sessions, NEW S \in Transactions, session' = [session EXCEPT ![s] = S],
         HoldsItsRows(S), \A l \in S.holds : l \in session[s].holds \/ Free(l),
         S.quote # None => quote[S.quote] # NoQuote,
         S.op = "reject" /\ Request \in S.holds =>
           quote[S.quote].status = "issued" /\ S.version = quote[S.quote].current,
         S.op = "settle" => Allocatable # {}
  PROVE  Inv'
<1>1. Locked'
  BY LocksGrow DEF Inv
<1>2. \A t \in Sessions : session'[t] = IF t = s THEN S ELSE session[t]
  BY DEF Inv, Locked
<1>3. TypeOK'
  BY <1>1 DEF Inv, TypeOK, Locked, Transactions
<1>4. Known'
  BY <1>2 DEF Inv, Known
<1>5. RejectsAnOffer'
  BY <1>2 DEF Inv, RejectsAnOffer
<1>6. SettlesAnInvoice' /\ CancellationHolds'
  BY <1>2 DEF Inv, SettlesAnInvoice, CancellationHolds, Unpaid, Allocatable
<1>7. Staged' /\ OneOffer' /\ OneAgreement'
  BY DEF Inv, Staged, OneOffer, OneAgreement
<1> QED
  BY <1>1, <1>3, <1>4, <1>5, <1>6, <1>7 DEF Inv

LEMMA EndsInv ==
  ASSUME Inv, NEW s \in Sessions, Ends(s),
         UNCHANGED <<quote, engagement, acceptances, invoice, scan, overtaken, released>>
  PROVE  Inv'
BY TransactionsStep, IdleHolds DEF Ends

--------------------------------------------------------------------------------
(* Quotes drafted, revised, lapsing and expiring *)

LEMMA RowFacts ==
  ASSUME Inv
  PROVE  /\ NoQuote \in QuoteRows /\ NoQuote.status = "absent"
         /\ \A q \in Quotes : quote[q] # NoQuote =>
              /\ quote[q].status \in QuoteStatus /\ quote[q].current \in Versions
              /\ quote[q] = [status |-> quote[q].status, current |-> quote[q].current,
                             lapsed |-> quote[q].lapsed]
              /\ quote[q].lapsed \in BOOLEAN
BY TypeParts DEF Inv, QuoteRows, NoQuote

LEMMA RowChanged ==
  ASSUME Inv, NEW q \in Quotes, quote[q] # NoQuote, NEW status \in QuoteStatus, NEW lapsed \in BOOLEAN,
         NEW Q \in {[quote[q] EXCEPT !.status = status], [quote[q] EXCEPT !.lapsed = lapsed],
                    [quote[q] EXCEPT !.status = status, !.lapsed = lapsed]}
  PROVE  Q \in QuoteRows /\ Q # NoQuote /\ Q.current = quote[q].current
<1>1. quote[q] \in [status : QuoteStatus, current : Versions, lapsed : BOOLEAN]
  BY TypeParts DEF Inv, QuoteRows
<1>2. Q \in [status : QuoteStatus, current : Versions, lapsed : BOOLEAN] /\ Q.current = quote[q].current
  <2>1. CASE Q = [quote[q] EXCEPT !.status = status]
    BY <1>1, <2>1
  <2>2. CASE Q = [quote[q] EXCEPT !.lapsed = lapsed]
    BY <1>1, <2>2
  <2>3. CASE Q = [quote[q] EXCEPT !.status = status, !.lapsed = lapsed]
    BY <1>1, <2>3
  <2> QED
    BY <2>1, <2>2, <2>3
<1>3. Q.status # "absent"
  BY <1>2 DEF QuoteStatus
<1> QED
  BY <1>2, <1>3 DEF QuoteRows, NoQuote

\* A row of a quote is locked by whoever rejects it.
LEMMA RejectHolds ==
  ASSUME Inv, NEW s \in Sessions, session[s].op = "reject"
  PROVE  /\ session[s].quote \in Quotes /\ session[s].quote \in session[s].holds
         /\ quote[session[s].quote] # NoQuote
<1>1. HoldsItsRows(session[s])
  BY DEF Inv, Locked
<1>2. session[s].quote \in Quotes /\ session[s].quote \in session[s].holds
  BY <1>1, IdleHolds DEF HoldsItsRows
<1>3. session[s].quote # None
  BY <1>2, Distinct
<1> QED
  BY <1>2, <1>3 DEF Inv, Known

LEMMA CreateQuoteInv ==
  ASSUME Inv, NEW q \in Quotes, CreateQuote(q)
  PROVE  Inv'
<1> DEFINE Q == [status |-> "draft", current |-> 1, lapsed |-> FALSE]
<1>1. Q \in QuoteRows /\ Q # NoQuote
  BY QuotesAssumption DEF QuoteRows, QuoteStatus, Versions, NoQuote
<1>2. quote' = [quote EXCEPT ![q] = Q] /\ quote[q] = NoQuote
  BY DEF CreateQuote
<1>3. quote' \in [Quotes -> QuoteRows]
  BY <1>1, <1>2, TypeParts DEF Inv
<1>4. \A p \in Quotes : quote'[p] = IF p = q THEN Q ELSE quote[p]
  BY <1>2, TypeParts DEF Inv
<1>5. \A s \in Sessions : session[s].op = "reject" => session[s].quote \in Quotes \ {q}
  BY <1>2, RejectHolds
<1>6. Q.status = "draft" /\ quote[q].status = "absent"
  BY <1>2, RowFacts
<1>7. UNCHANGED <<engagement, acceptances, invoice, session, scan, overtaken, released>>
  BY DEF CreateQuote
<1> HIDE DEF Q
<1> QED
  BY <1>1, <1>3, <1>4, <1>5, <1>6, <1>7, QuotesStep DEF Inv, TypeOK

LEMMA AddQuoteVersionInv ==
  ASSUME Inv, NEW q \in Quotes, AddQuoteVersion(q)
  PROVE  Inv'
<1> DEFINE Q == [status |-> "draft", current |-> quote[q].current + 1, lapsed |-> FALSE]
<1>1. quote[q] # NoQuote /\ quote[q].status \notin {"accepted", "absent"}
  BY RowFacts DEF AddQuoteVersion
<1>2. Q \in QuoteRows /\ Q # NoQuote /\ Q.status = "draft"
  <2>1. quote[q].current \in Versions /\ quote[q].current < MaxVersion
    BY <1>1, RowFacts DEF AddQuoteVersion
  <2> QED
    BY <2>1, QuotesAssumption DEF QuoteRows, QuoteStatus, Versions, NoQuote
<1>3. quote' = [quote EXCEPT ![q] = Q]
  BY DEF AddQuoteVersion
<1>4. quote' \in [Quotes -> QuoteRows]
  BY <1>2, <1>3, TypeParts DEF Inv
<1>5. \A p \in Quotes : quote'[p] = IF p = q THEN Q ELSE quote[p]
  BY <1>3, TypeParts DEF Inv
<1>6. \A s \in Sessions : session[s].op = "reject" => session[s].quote \in Quotes \ {q}
  BY RejectHolds, FreeRow DEF AddQuoteVersion
<1>7. UNCHANGED <<engagement, acceptances, invoice, session, scan, overtaken, released>>
  BY DEF AddQuoteVersion
<1> HIDE DEF Q
<1> QED
  BY <1>1, <1>2, <1>4, <1>5, <1>6, <1>7, QuotesStep DEF Inv, TypeOK

LEMMA LapseInv ==
  ASSUME Inv, NEW q \in Quotes, Lapse(q)
  PROVE  Inv'
<1>1. quote[q] # NoQuote
  BY RowFacts DEF Lapse
<1> DEFINE Q == [quote[q] EXCEPT !.lapsed = TRUE]
<1>2. Q \in QuoteRows /\ Q # NoQuote /\ Q.status = quote[q].status /\ Q.current = quote[q].current
  <2>1. Q.status = quote[q].status
    BY <1>1, RowFacts
  <2> QED
    BY <1>1, <2>1, RowChanged, RowFacts
<1>3. quote' = [quote EXCEPT ![q] = Q]
  BY DEF Lapse
<1>4. quote' \in [Quotes -> QuoteRows]
  BY <1>2, <1>3, TypeParts DEF Inv
<1>5. \A p \in Quotes : quote'[p] = IF p = q THEN Q ELSE quote[p]
  BY <1>3, TypeParts DEF Inv
<1>6. \A s \in Sessions : session[s].op = "reject" => session[s].quote \in Quotes
  BY RejectHolds
<1>7. UNCHANGED <<engagement, acceptances, invoice, session, scan, overtaken, released>>
  BY DEF Lapse
<1> HIDE DEF Q
<1> QED
  BY <1>2, <1>4, <1>5, <1>6, <1>7, QuotesStep DEF Inv, TypeOK

LEMMA ExpireReadInv ==
  ASSUME Inv, NEW x \in Expirers, ExpireRead(x)
  PROVE  Inv'
<1> DEFINE ids == {k[1] : k \in scan[x]}
           Q(q) == [quote[q] EXCEPT !.status = "expired"]
<1>1. \A q \in ids : q \in Quotes /\ quote[q] # NoQuote /\ Free(q)
  BY TypeParts DEF Inv, Known, ExpireRead
<1>2. \A q \in ids : /\ Q(q) \in QuoteRows /\ Q(q) # NoQuote
                     /\ Q(q).status = "expired" /\ Q(q).current = quote[q].current
  <2>1. "expired" \in QuoteStatus
    BY DEF QuoteStatus
  <2>2. ASSUME NEW q \in ids PROVE Q(q).status = "expired"
    BY <1>1, RowFacts
  <2> QED
    BY <1>1, <2>1, <2>2, RowChanged, RowFacts
<1>3. quote' = [q \in Quotes |-> IF q \in ids THEN Q(q) ELSE quote[q]]
  BY DEF ExpireRead
<1>4. quote' \in [Quotes -> QuoteRows]
  BY <1>2, <1>3, TypeParts DEF Inv
<1>5. \A q \in Quotes : quote'[q] = IF q \in ids THEN Q(q) ELSE quote[q]
  BY <1>3
<1>6. \A s \in Sessions : session[s].op = "reject" => session[s].quote \in Quotes \ ids
  BY <1>1, RejectHolds, FreeRow
<1>7. scan' \in [Expirers -> SUBSET (Quotes \X Versions)] /\ \A y \in Expirers : scan'[y] \in {scan[y], {}}
  BY TypeParts DEF Inv, ExpireRead
<1>8. overtaken' \in BOOLEAN /\ (~overtaken' => ~overtaken /\ \A q \in ids : quote[q].status # "accepted")
  BY DEF Inv, TypeOK, ExpireRead
<1>9. UNCHANGED <<engagement, acceptances, invoice, session, released>>
  BY DEF ExpireRead
<1> HIDE DEF ids, Q
<1> QED
  BY <1>2, <1>4, <1>5, <1>6, <1>7, <1>8, <1>9, QuotesStep

--------------------------------------------------------------------------------
(* Transactions that begin, take a lock or end with nothing done *)

LEMMA LockQuoteInv ==
  ASSUME Inv, NEW s \in Sessions, NEW op, NEW q \in Quotes, NEW v \in Versions, LockQuote(s, op, q, v)
  PROVE  Inv'
<1> DEFINE S == [Idle EXCEPT !.op = op, !.quote = q, !.version = IF op = "issue" THEN 0 ELSE v,
                             !.holds = {q}]
<1>1. op \in {"issue", "accept", "reject"}
  BY DEF LockQuote
<1>2. S.op = op /\ S.quote = q /\ S.holds = {q} /\ S \in Transactions
  <2>1. (IF op = "issue" THEN 0 ELSE v) \in 0..MaxVersion /\ {q} \in SUBSET Locks
    BY QuotesAssumption DEF Versions, Locks
  <2> QED
    BY <1>1, <2>1, IdleHolds DEF Transactions
<1>3. HoldsItsRows(S)
  BY <1>1, <1>2 DEF HoldsItsRows
<1>4. /\ session' = [session EXCEPT ![s] = S] /\ Free(q) /\ quote[q] # NoQuote
      /\ UNCHANGED <<quote, engagement, acceptances, invoice, scan, overtaken, released>>
  BY DEF LockQuote
<1> HIDE DEF S
<1> QED
  BY <1>1, <1>2, <1>3, <1>4, Distinct, TransactionsStep

LEMMA StartCancelInv ==
  ASSUME Inv, NEW s \in Sessions, NEW voids \in BOOLEAN, StartCancel(s, voids)
  PROVE  Inv'
<1> DEFINE S == [Idle EXCEPT !.op = "cancel", !.voids = voids, !.holds = {Request}]
<1>1. S.op = "cancel" /\ S.quote = None /\ S.holds = {Request} /\ S \in Transactions
  <2>1. {Request} \in SUBSET Locks
    BY DEF Locks
  <2> QED
    BY <2>1, IdleHolds DEF Transactions
<1>2. /\ session' = [session EXCEPT ![s] = S] /\ Free(Request)
      /\ UNCHANGED <<quote, engagement, acceptances, invoice, scan, overtaken, released>>
  BY DEF StartCancel
<1>3. HoldsItsRows(S)
  BY <1>1 DEF HoldsItsRows
<1> HIDE DEF S
<1> QED
  BY <1>1, <1>2, <1>3, TransactionsStep

LEMMA StartSettlingInv ==
  ASSUME Inv, NEW s \in Sessions, StartSettling(s)
  PROVE  Inv'
<1> DEFINE S == [Idle EXCEPT !.op = "settle", !.holds = {Invoice}]
<1>1. S.op = "settle" /\ S.quote = None /\ S.holds = {Invoice} /\ S \in Transactions
  <2>1. {Invoice} \in SUBSET Locks
    BY DEF Locks
  <2> QED
    BY <2>1, IdleHolds DEF Transactions
<1>2. /\ session' = [session EXCEPT ![s] = S] /\ Free(Invoice) /\ Allocatable # {}
      /\ UNCHANGED <<quote, engagement, acceptances, invoice, scan, overtaken, released>>
  BY DEF StartSettling
<1>3. HoldsItsRows(S)
  BY <1>1 DEF HoldsItsRows
<1> HIDE DEF S
<1> QED
  BY <1>1, <1>2, <1>3, TransactionsStep

LEMMA LockRequestInv ==
  ASSUME Inv, NEW s \in Sessions, LockRequest(s)
  PROVE  Inv'
<1> DEFINE S == [session[s] EXCEPT !.holds = @ \cup {Request}]
<1>1. session[s] \in Transactions /\ HoldsItsRows(session[s])
  BY DEF Inv, Locked
<1>2. /\ S.op = session[s].op /\ S.quote = session[s].quote /\ S.version = session[s].version
      /\ S.holds = session[s].holds \cup {Request} /\ S \in Transactions
  BY <1>1 DEF Transactions, Locks
<1>3. Free(Request) /\ Wanted(s) = {Request}
  BY DEF LockRequest
<1>4. session[s].op \in {"issue", "accept", "reject", "settle"} /\ Request \notin session[s].holds
  <2>1. Request \notin session[s].holds
    BY <1>3, FreeRow
  <2>2. {Request} # {Invoice} /\ {Request} # {}
    BY Distinct
  <2> QED
    BY <1>3, <2>1, <2>2 DEF Wanted
<1>5. HoldsItsRows(S)
  BY <1>1, <1>2, <1>4, IdleHolds DEF HoldsItsRows
<1>6. session' = [session EXCEPT ![s] = S]
  BY DEF LockRequest
<1>7. S.quote # None => quote[S.quote] # NoQuote
  BY <1>2 DEF Inv, Known
<1>8. S.op = "reject" => quote[S.quote].status = "issued" /\ S.version = quote[S.quote].current
  BY <1>2 DEF LockRequest
<1>9. S.op = "settle" => Allocatable # {}
  BY <1>2 DEF Inv, SettlesAnInvoice
<1>10. UNCHANGED <<quote, engagement, acceptances, invoice, scan, overtaken, released>>
  BY DEF LockRequest
<1> HIDE DEF S
<1> QED
  BY <1>2, <1>3, <1>5, <1>6, <1>7, <1>8, <1>9, <1>10, TransactionsStep

--------------------------------------------------------------------------------
(* Transactions that commit *)

\* What a transaction leaves to the others when it ends.
LEMMA CommitLeaves ==
  ASSUME Inv, NEW s \in Sessions, Ends(s), scan' = scan,
         \A q \in Quotes : quote[q] # NoQuote => quote'[q] # NoQuote,
         \A t \in Sessions \ {s} : session[t].op = "reject" =>
           LET q == session[t].quote IN
           quote'[q].status = quote[q].status /\ quote'[q].current = quote[q].current
  PROVE  Locked' /\ Known' /\ RejectsAnOffer'
<1>1. Locked' /\ \A t \in Sessions : session'[t] = IF t = s THEN Idle ELSE session[t]
  BY EndsFree DEF Inv
<1>2. ASSUME NEW t \in Sessions, session'[t].quote # None
      PROVE  quote'[session'[t].quote] # NoQuote
  <2>1. session'[t] = session[t]
    BY <1>1, <1>2, IdleHolds
  <2>2. session[t].quote \in Quotes /\ quote[session[t].quote] # NoQuote
    BY <1>2, <2>1, TypeParts DEF Inv, Known, Transactions
  <2> QED
    BY <2>1, <2>2
<1>3. ASSUME NEW x \in Expirers, NEW k \in scan'[x]
      PROVE  quote'[k[1]] # NoQuote
  <2>1. k \in scan[x] /\ k[1] \in Quotes
    BY <1>3, TypeParts DEF Inv
  <2> QED
    BY <2>1 DEF Inv, Known
<1>4. RejectsAnOffer'
  BY <1>1, IdleHolds DEF Inv, RejectsAnOffer
<1> QED
  BY <1>1, <1>2, <1>3, <1>4 DEF Known

\* Two transactions never answer or issue the same quote.
LEMMA OthersQuotes ==
  ASSUME Inv, NEW s \in Sessions, NEW t \in Sessions \ {s}, NEW q \in session[s].holds,
         session[t].op = "reject"
  PROVE  session[t].quote # q
BY RejectHolds DEF Inv, Locked, LocksExclusive

LEMMA AnswerHolds ==
  ASSUME Inv, NEW s \in Sessions, session[s].op \in {"issue", "accept", "reject"}
  PROVE  /\ session[s].quote \in Quotes /\ session[s].quote \in session[s].holds
         /\ quote[session[s].quote] # NoQuote
<1>1. session[s].quote \in Quotes /\ session[s].quote \in session[s].holds
  BY IdleHolds DEF Inv, Locked, HoldsItsRows
<1>2. session[s].quote # None
  BY <1>1, Distinct
<1> QED
  BY <1>1, <1>2 DEF Inv, Known

LEMMA SettleHolds ==
  ASSUME Inv, NEW s \in Sessions, session[s].op = "settle"
  PROVE  Invoice \in session[s].holds
BY IdleHolds DEF Inv, Locked, HoldsItsRows

LEMMA NothingUnpaid ==
  ASSUME Inv, engagement \in Open
  PROVE  /\ acceptances = {} /\ ~released
         /\ \A k \in Quotes \X Versions : invoice[k] = "none"
         /\ \A s \in Sessions : session[s].op # "settle"
<1>1. acceptances = {} /\ ~released
  BY DEF Inv, OneAgreement, Open, Staged
<1>2. Allocatable = {}
  BY <1>1 DEF Allocatable
<1> QED
  BY <1>1, <1>2 DEF Inv, OneAgreement, SettlesAnInvoice

LEMMA IssueQuoteInv ==
  ASSUME Inv, NEW s \in Sessions, IssueQuote(s)
  PROVE  Inv'
<1> DEFINE q == session[s].quote
           Q == [quote[q] EXCEPT !.status = "issued", !.lapsed = FALSE]
           P(p) == [quote[p] EXCEPT !.status = "superseded"]
<1>1. /\ session[s].op = "issue" /\ Request \in session[s].holds
      /\ \A l \in Wanted(s) : FreeFor(s, l)
      /\ Ends(s) /\ engagement' = "quoted" /\ engagement \in Open
      /\ UNCHANGED <<acceptances, invoice, scan, overtaken, released>>
  BY DEF IssueQuote, Ready, Issuable, CanMove, Open
<1>2. q \in Quotes /\ q \in session[s].holds /\ quote[q] # NoQuote /\ quote[q].status = "draft"
  BY <1>1, AnswerHolds DEF IssueQuote, Issuable
<1>3. Wanted(s) = Superseded(q)
  BY <1>1 DEF Wanted
<1>4. quote' = [p \in Quotes |-> CASE p = q               -> Q
                                   [] p \in Superseded(q) -> P(p)
                                   [] OTHER               -> quote[p]]
  BY DEF IssueQuote
<1>5. "issued" \in QuoteStatus /\ "superseded" \in QuoteStatus
  BY DEF QuoteStatus
<1>6. Q \in QuoteRows /\ Q # NoQuote /\ Q.status = "issued"
  <2>1. Q.status = "issued"
    BY <1>2, RowFacts
  <2> QED
    BY <1>2, <1>5, <2>1, RowChanged
<1>7. \A p \in Superseded(q) : /\ p \in Quotes \ {q} /\ quote[p].status = "issued"
                               /\ P(p) \in QuoteRows /\ P(p) # NoQuote /\ P(p).status = "superseded"
  <2> SUFFICES ASSUME NEW p \in Superseded(q)
               PROVE  /\ p \in Quotes \ {q} /\ quote[p].status = "issued"
                      /\ P(p) \in QuoteRows /\ P(p) # NoQuote /\ P(p).status = "superseded"
    OBVIOUS
  <2>1. p \in Quotes \ {q} /\ quote[p].status = "issued" /\ quote[p] # NoQuote
    BY RowFacts DEF Superseded
  <2>2. P(p).status = "superseded"
    BY <2>1, RowFacts
  <2> QED
    BY <1>5, <2>1, <2>2, RowChanged
<1>8. /\ quote'[q] = Q
      /\ \A p \in Superseded(q) : quote'[p] = P(p)
      /\ \A p \in Quotes \ ({q} \cup Superseded(q)) : quote'[p] = quote[p]
  BY <1>2, <1>4, <1>7
<1>9. quote' \in [Quotes -> QuoteRows]
  BY <1>4, <1>6, <1>7, <1>8, TypeParts DEF Inv
<1>10. \A t \in Sessions \ {s} : session[t].op = "reject" =>
          session[t].quote \in Quotes \ ({q} \cup Superseded(q))
  <2> SUFFICES ASSUME NEW t \in Sessions \ {s}, session[t].op = "reject",
                      session[t].quote \in Superseded(q)
               PROVE  FALSE
    BY <1>2, OthersQuotes, RejectHolds
  <2>1. FreeFor(s, session[t].quote)
    BY <1>1, <1>3
  <2>2. session[t].quote \in session[t].holds
    BY RejectHolds
  <2> QED
    BY <2>1, <2>2 DEF FreeFor, Holders
<1> HIDE DEF Q, P
<1>11. Locked' /\ Known' /\ RejectsAnOffer'
  BY <1>1, <1>6, <1>7, <1>8, <1>10, CommitLeaves
<1>12. TypeOK'
  BY <1>1, <1>9, <1>11 DEF Inv, TypeOK, Locked, QuoteRows, Transactions, EngagementState
<1>13. acceptances = {} /\ ~released /\ \A t \in Sessions : session[t].op # "settle"
  BY <1>1, NothingUnpaid
<1>14. SettlesAnInvoice' /\ CancellationHolds' /\ Staged'
  BY <1>1, <1>13, EndsFree, IdleHolds DEF Inv, SettlesAnInvoice, CancellationHolds, Staged, Open
<1>15. OneOffer'
  <2>1. \A p \in Quotes : quote'[p].status = "issued" => p = q
    BY <1>6, <1>7, <1>8 DEF Superseded
  <2> QED
    BY <1>1, <2>1 DEF OneOffer, Agreed
<1>16. OneAgreement'
  <2>1. ASSUME ~overtaken, NEW p \in Quotes PROVE quote[p].status # "accepted"
    BY <1>13, <2>1 DEF Inv, OneAgreement
  <2>2. ASSUME ~overtaken, NEW p \in Quotes PROVE quote'[p].status # "accepted"
    BY <1>6, <1>7, <1>8, <2>1, <2>2
  <2>3. ~overtaken => {<<p, quote'[p].current>> : p \in {r \in Quotes : quote'[r].status = "accepted"}} = {}
    BY <2>2
  <2> QED
    BY <1>1, <1>13, <2>3 DEF Inv, OneAgreement, Agreed
<1> QED
  BY <1>11, <1>12, <1>14, <1>15, <1>16 DEF Inv

LEMMA AcceptQuoteInv ==
  ASSUME Inv, NEW s \in Sessions, AcceptQuote(s)
  PROVE  Inv'
<1> DEFINE q == session[s].quote
           v == session[s].version
           Q == [quote[q] EXCEPT !.status = "accepted"]
<1>1. /\ session[s].op = "accept" /\ Ends(s)
      /\ acceptances' = acceptances \cup {<<q, v>>}
      /\ UNCHANGED <<scan, overtaken, released>>
  BY DEF AcceptQuote, Ready
<1>2. q \in Quotes /\ q \in session[s].holds /\ quote[q] # NoQuote
  BY <1>1, AnswerHolds
<1>3. quote[q].status = "issued" /\ quote[q].current = v /\ engagement = "quoted"
  BY DEF AcceptQuote, Acceptable, CanMove
<1>4. /\ acceptances = {} /\ ~released /\ \A k \in Quotes \X Versions : invoice[k] = "none"
      /\ \A t \in Sessions : session[t].op # "settle"
  BY <1>3, NothingUnpaid DEF Open
<1>5. Q \in QuoteRows /\ Q # NoQuote /\ Q.status = "accepted" /\ Q.current = v
  <2>1. Q.status = "accepted" /\ "accepted" \in QuoteStatus
    BY <1>2, RowFacts DEF QuoteStatus
  <2> QED
    BY <1>2, <1>3, <2>1, RowChanged
<1>6. quote' = [quote EXCEPT ![q] = Q]
  BY DEF AcceptQuote
<1>7. quote' \in [Quotes -> QuoteRows] /\ \A p \in Quotes : quote'[p] = IF p = q THEN Q ELSE quote[p]
  BY <1>5, <1>6, TypeParts DEF Inv
<1>8. \A t \in Sessions \ {s} : session[t].op = "reject" => session[t].quote \in Quotes \ {q}
  BY <1>2, OthersQuotes, RejectHolds
<1> HIDE DEF Q
<1>9. Locked' /\ Known' /\ RejectsAnOffer'
  BY <1>1, <1>5, <1>7, <1>8, CommitLeaves
<1>10. <<q, v>> \in Quotes \X Versions /\ acceptances' = {<<q, v>>}
  BY <1>1, <1>2, <1>3, <1>4, RowFacts
<1>11. /\ engagement' \in {"awaiting_payment", "in_progress"}
       /\ invoice' = [invoice EXCEPT ![<<q, v>>] = IF <<q, v>> \in Upfront THEN "issued" ELSE @]
  <2>1. CASE <<q, v>> \in Upfront
    BY <2>1 DEF AcceptQuote
  <2>2. CASE <<q, v>> \notin Upfront
    BY <2>2, TypeParts DEF AcceptQuote, Inv
  <2> QED
    BY <2>1, <2>2
<1>12. /\ invoice' \in [Quotes \X Versions -> InvoiceState]
       /\ \A k \in Quotes \X Versions :
            invoice'[k] = IF k = <<q, v>> /\ k \in Upfront THEN "issued" ELSE "none"
  BY <1>4, <1>10, <1>11, TypeParts DEF Inv, InvoiceState
<1>13. TypeOK'
  BY <1>1, <1>7, <1>9, <1>10, <1>11, <1>12
     DEF Inv, TypeOK, Locked, QuoteRows, Transactions, EngagementState
<1>14. SettlesAnInvoice' /\ CancellationHolds' /\ Staged'
  BY <1>1, <1>4, <1>11, EndsFree, IdleHolds
     DEF Inv, SettlesAnInvoice, CancellationHolds, Staged, Agreed
<1>15. OneOffer'
  BY <1>3, <1>2, <1>5, <1>7 DEF Inv, OneOffer
<1>16. OneAgreement'
  <2>1. Cardinality(acceptances') <= 1
    BY <1>10, FS_Singleton
  <2>2. ASSUME ~overtaken, NEW p \in Quotes PROVE quote[p].status # "accepted"
    BY <1>4, <2>2 DEF Inv, OneAgreement
  <2>3. ~overtaken => {p \in Quotes : quote'[p].status = "accepted"} = {q}
    BY <1>2, <1>5, <1>7, <2>2
  <2>4. quote'[q].current = v
    BY <1>2, <1>5, <1>7
  <2>5. ~overtaken' => {<<p, quote'[p].current>> : p \in {r \in Quotes : quote'[r].status = "accepted"}}
                         = acceptances'
    BY <1>1, <1>10, <2>3, <2>4
  <2>6. \A k \in Quotes \X Versions : invoice'[k] # "none" <=> k \in acceptances' \cap Upfront
    BY <1>10, <1>12
  <2>7. engagement' \notin Open /\ acceptances' # {}
    BY <1>10, <1>11 DEF Open
  <2> HIDE DEF q, v
  <2> QED
    BY <2>1, <2>5, <2>6, <2>7 DEF OneAgreement, Open
<1> QED
  BY <1>9, <1>13, <1>14, <1>15, <1>16 DEF Inv

LEMMA RejectQuoteInv ==
  ASSUME Inv, NEW s \in Sessions, RejectQuote(s)
  PROVE  Inv'
<1> DEFINE q == session[s].quote
           Q == [quote[q] EXCEPT !.status = "rejected"]
<1>1. /\ session[s].op = "reject" /\ Request \in session[s].holds /\ Ends(s)
      /\ engagement = "quoted" /\ engagement' = "rejected"
      /\ UNCHANGED <<acceptances, invoice, scan, overtaken, released>>
  BY DEF RejectQuote, Ready, CanMove
<1>2. q \in Quotes /\ q \in session[s].holds /\ quote[q] # NoQuote /\ quote[q].status = "issued"
  BY <1>1, RejectHolds DEF Inv, RejectsAnOffer
<1>3. Q \in QuoteRows /\ Q # NoQuote /\ Q.status = "rejected"
  <2>1. Q.status = "rejected" /\ "rejected" \in QuoteStatus
    BY <1>2, RowFacts DEF QuoteStatus
  <2> QED
    BY <1>2, <2>1, RowChanged
<1>4. quote' = [quote EXCEPT ![q] = Q]
  BY DEF RejectQuote
<1>5. quote' \in [Quotes -> QuoteRows] /\ \A p \in Quotes : quote'[p] = IF p = q THEN Q ELSE quote[p]
  BY <1>3, <1>4, TypeParts DEF Inv
<1>6. \A t \in Sessions \ {s} : session[t].op = "reject" => session[t].quote \in Quotes \ {q}
  BY <1>2, OthersQuotes, RejectHolds
<1> HIDE DEF Q
<1>7. Locked' /\ Known' /\ RejectsAnOffer'
  BY <1>1, <1>3, <1>5, <1>6, CommitLeaves
<1>8. TypeOK'
  BY <1>1, <1>5, <1>7 DEF Inv, TypeOK, Locked, QuoteRows, Transactions, EngagementState
<1>9. acceptances = {} /\ ~released /\ \A t \in Sessions : session[t].op # "settle"
  BY <1>1, NothingUnpaid DEF Open
<1>10. SettlesAnInvoice' /\ CancellationHolds' /\ Staged'
  BY <1>1, <1>9, EndsFree, IdleHolds DEF Inv, SettlesAnInvoice, CancellationHolds, Staged, Open
<1>11. OneOffer'
  BY <1>1, <1>3, <1>5 DEF Inv, OneOffer, Agreed
<1>12. OneAgreement'
  <2>1. ASSUME ~overtaken, NEW p \in Quotes PROVE quote[p].status # "accepted"
    BY <1>9, <2>1 DEF Inv, OneAgreement
  <2>2. ~overtaken => {<<p, quote'[p].current>> : p \in {r \in Quotes : quote'[r].status = "accepted"}} = {}
    BY <1>3, <1>5, <2>1
  <2> QED
    BY <1>1, <1>9, <2>2 DEF Inv, OneAgreement, Agreed
<1> QED
  BY <1>7, <1>8, <1>10, <1>11, <1>12 DEF Inv

--------------------------------------------------------------------------------
(* The engagement *)

LEMMA OfferAndAgreementKept ==
  ASSUME Inv, UNCHANGED <<quote, acceptances, overtaken>>,
         engagement' \in Agreed => engagement \in Agreed,
         engagement' \in Open => engagement \in Open,
         \A k \in Quotes \X Versions : invoice'[k] = "none" <=> invoice[k] = "none"
  PROVE  OneOffer' /\ OneAgreement'
<1>1. OneOffer'
  BY DEF Inv, OneOffer
<1>2. OneAgreement'
  BY DEF Inv, OneAgreement, Open
<1> QED
  BY <1>1, <1>2

LEMMA TransitionInv ==
  ASSUME Inv, NEW by \in {"staff", "customer"}, NEW to \in EngagementState, Transition(by, to)
  PROVE  Inv'
<1>1. /\ CanMove(engagement, to, by) /\ engagement' = to
      /\ UNCHANGED <<quote, acceptances, invoice, session, scan, overtaken, released>>
      /\ \/ by = "staff" /\ to \in {"triage", "rejected", "paused", "in_progress"}
         \/ by = "customer" /\ to \in {"cancelled", "paused", "in_progress"}
  BY DEF Transition
<1>2. engagement \in Open \cup Agreed \cup {"cancelled"}
  BY DEF Inv, Staged
<1>3. /\ engagement' \in Agreed => engagement \in Agreed
      /\ engagement' \in Open => engagement \in Open
      /\ engagement' \in Open \cup Agreed \cup {"cancelled"} /\ engagement # "cancelled"
  BY <1>1, <1>2 DEF CanMove, Open, Agreed
<1>4. TypeOK' /\ Locked' /\ Known' /\ RejectsAnOffer'
  BY <1>1 DEF Inv, TypeOK, Locked, LocksExclusive, HoldsItsRows, Known, RejectsAnOffer
<1>5. SettlesAnInvoice' /\ CancellationHolds'
  BY <1>1, <1>3 DEF Inv, SettlesAnInvoice, CancellationHolds, Unpaid, Allocatable, Staged
<1>6. Staged'
  BY <1>1, <1>3 DEF Inv, Staged
<1>7. OneOffer' /\ OneAgreement'
  BY <1>1, <1>3, OfferAndAgreementKept
<1> QED
  BY <1>4, <1>5, <1>6, <1>7 DEF Inv

LEMMA CancelInv ==
  ASSUME Inv, NEW s \in Sessions, Cancel(s)
  PROVE  Inv'
<1> DEFINE voids == session[s].voids
<1>1. /\ session[s].op = "cancel" /\ \A l \in Wanted(s) : FreeFor(s, l)
      /\ engagement' = "cancelled" /\ released' = (released \/ voids) /\ Ends(s)
      /\ invoice' = [k \in Quotes \X Versions |-> IF voids /\ k \in Unpaid THEN "void" ELSE invoice[k]]
      /\ UNCHANGED <<quote, acceptances, scan, overtaken>>
  BY DEF Cancel, Ready
<1>2. /\ invoice' \in [Quotes \X Versions -> InvoiceState]
      /\ \A k \in Quotes \X Versions : invoice'[k] = IF voids /\ k \in Unpaid THEN "void" ELSE invoice[k]
  BY <1>1, TypeParts DEF Inv, InvoiceState
<1>3. voids \in BOOLEAN /\ acceptances \subseteq Quotes \X Versions
  BY TypeParts DEF Inv, Transactions
<1>4. Unpaid' = IF voids THEN {} ELSE Unpaid
  BY <1>1, <1>2, <1>3 DEF Unpaid
<1>5. Unpaid \subseteq Allocatable /\ (Unpaid = {} => Allocatable' = Allocatable)
  BY <1>1, <1>2, <1>3 DEF Unpaid, Allocatable
<1>6. voids /\ Unpaid # {} => \A t \in Sessions \ {s} : session[t].op # "settle"
  <2> SUFFICES ASSUME voids, Unpaid # {}, NEW t \in Sessions \ {s}, session[t].op = "settle"
               PROVE  FALSE
    OBVIOUS
  <2>1. Wanted(s) = {Invoice}
    BY <1>1 DEF Wanted
  <2> QED
    BY <1>1, <2>1, SettleHolds DEF FreeFor, Holders
<1>7. Locked' /\ Known' /\ RejectsAnOffer'
  BY <1>1, CommitLeaves
<1>8. TypeOK'
  BY <1>1, <1>2, <1>3, <1>7 DEF Inv, TypeOK, Locked, Transactions, EngagementState
<1>9. ~voids => Allocatable' = Allocatable
  BY <1>1, <1>2, <1>3 DEF Allocatable
<1>10. SettlesAnInvoice'
  BY <1>1, <1>5, <1>6, <1>9, EndsFree, IdleHolds DEF Inv, SettlesAnInvoice
<1>11. CancellationHolds' /\ Staged'
  BY <1>1, <1>4 DEF Inv, CancellationHolds, Staged
<1>12. OneOffer' /\ OneAgreement'
  <2>1. \A k \in Quotes \X Versions : invoice'[k] = "none" <=> invoice[k] = "none"
    BY <1>2 DEF Unpaid
  <2> QED
    BY <1>1, <2>1, OfferAndAgreementKept DEF Agreed, Open
<1> QED
  BY <1>7, <1>8, <1>10, <1>11, <1>12 DEF Inv

LEMMA SettleInv ==
  ASSUME Inv, NEW s \in Sessions, Settle(s)
  PROVE  Inv'
<1>1. /\ session[s].op = "settle" /\ Ends(s)
      /\ invoice' = [k \in Quotes \X Versions |-> IF k \in Allocatable THEN "paid" ELSE invoice[k]]
      /\ engagement' = IF engagement = "awaiting_payment" THEN "in_progress" ELSE engagement
      /\ UNCHANGED <<quote, acceptances, scan, overtaken, released>>
  BY DEF Settle, Ready
<1>2. /\ invoice' \in [Quotes \X Versions -> InvoiceState]
      /\ \A k \in Quotes \X Versions : invoice'[k] = IF k \in Allocatable THEN "paid" ELSE invoice[k]
  BY <1>1, TypeParts DEF Inv, InvoiceState
<1>3. acceptances \subseteq Quotes \X Versions
  BY TypeParts DEF Inv
<1>4. Unpaid' = {}
  BY <1>1, <1>2, <1>3 DEF Unpaid, Allocatable
<1>5. \A t \in Sessions \ {s} : session[t].op # "settle"
  BY <1>1, SettleHolds DEF Inv, Locked, LocksExclusive
<1>6. Locked' /\ Known' /\ RejectsAnOffer'
  BY <1>1, CommitLeaves
<1>7. TypeOK'
  BY <1>1, <1>2, <1>3, <1>6 DEF Inv, TypeOK, Locked, Transactions, EngagementState
<1>8. SettlesAnInvoice'
  BY <1>1, <1>5, EndsFree, IdleHolds DEF SettlesAnInvoice, Inv
<1>9. CancellationHolds' /\ Staged'
  BY <1>1, <1>4 DEF Inv, CancellationHolds, Staged, Agreed
<1>10. OneOffer' /\ OneAgreement'
  <2>1. \A k \in Quotes \X Versions : invoice'[k] = "none" <=> invoice[k] = "none"
    BY <1>2 DEF Allocatable
  <2> QED
    BY <1>1, <2>1, OfferAndAgreementKept DEF Agreed, Open
<1> QED
  BY <1>6, <1>7, <1>8, <1>9, <1>10 DEF Inv

\* Nobody settles while an invoice is changed alone, so nobody misses it.
LEMMA OnInvoiceInv ==
  ASSUME Inv, NEW k \in Collectable, NEW to \in {"reduced", "paid", "void"}, OnInvoice(k, to)
  PROVE  Inv'
<1>1. /\ invoice' = [invoice EXCEPT ![k] = to] /\ Free(Invoice)
      /\ UNCHANGED <<quote, engagement, acceptances, session, scan, overtaken, released>>
  BY DEF OnInvoice
<1>2. k \in Quotes \X Versions /\ invoice[k] \in {"issued", "reduced"}
  BY TypeParts DEF Inv, Collectable
<1>3. /\ invoice' \in [Quotes \X Versions -> InvoiceState]
      /\ \A j \in Quotes \X Versions : invoice'[j] = IF j = k THEN to ELSE invoice[j]
  BY <1>1, TypeParts DEF Inv, InvoiceState
<1>4. TypeOK' /\ Locked' /\ Known' /\ RejectsAnOffer' /\ Staged'
  BY <1>1, <1>3 DEF Inv, TypeOK, Locked, LocksExclusive, HoldsItsRows, Known, RejectsAnOffer, Staged
<1>5. SettlesAnInvoice'
  BY <1>1, SettleHolds, FreeRow DEF SettlesAnInvoice
<1>6. Unpaid' \subseteq Unpaid
  BY <1>1, <1>3, TypeParts DEF Inv, Unpaid
<1>7. CancellationHolds'
  BY <1>1, <1>6 DEF Inv, CancellationHolds
<1>8. OneOffer' /\ OneAgreement'
  <2>1. \A j \in Quotes \X Versions : invoice'[j] = "none" <=> invoice[j] = "none"
    BY <1>2, <1>3
  <2> QED
    BY <1>1, <2>1, OfferAndAgreementKept
<1> QED
  BY <1>4, <1>5, <1>7, <1>8 DEF Inv

LEMMA ReadLapsedInv ==
  ASSUME Inv, NEW x \in Expirers, ReadLapsed(x)
  PROVE  Inv'
<1>1. /\ scan' = [scan EXCEPT ![x] = Lapsed]
      /\ UNCHANGED <<quote, engagement, acceptances, invoice, session, overtaken, released>>
  BY DEF ReadLapsed
<1>2. ASSUME NEW k \in Lapsed PROVE k \in Quotes \X Versions /\ quote[k[1]] # NoQuote
  <2>1. PICK q \in Quotes : quote[q].status = "issued" /\ k = <<q, quote[q].current>>
    BY DEF Lapsed
  <2>2. quote[q] # NoQuote
    BY <2>1, RowFacts
  <2> QED
    BY <2>1, <2>2, RowFacts
<1>3. scan' \in [Expirers -> SUBSET (Quotes \X Versions)]
      /\ \A y \in Expirers : scan'[y] = IF y = x THEN Lapsed ELSE scan[y]
  BY <1>1, <1>2, TypeParts DEF Inv
<1>4. TypeOK'
  BY <1>1, <1>3 DEF Inv, TypeOK
<1>5. Known'
  BY <1>1, <1>2, <1>3 DEF Inv, Known
<1>6. Locked' /\ RejectsAnOffer' /\ Staged'
  BY <1>1 DEF Inv, Locked, LocksExclusive, HoldsItsRows, RejectsAnOffer, Staged
<1>7. SettlesAnInvoice' /\ CancellationHolds'
  BY <1>1 DEF Inv, SettlesAnInvoice, CancellationHolds, Unpaid, Allocatable
<1>8. OneOffer' /\ OneAgreement'
  BY <1>1, OfferAndAgreementKept
<1> QED
  BY <1>4, <1>5, <1>6, <1>7, <1>8 DEF Inv

--------------------------------------------------------------------------------
(* The invariant and what it says *)

LEMMA InitInv == Init => Inv
<1> SUFFICES ASSUME Init PROVE Inv
  OBVIOUS
<1>1. TypeOK
  BY IdleHolds, QuotesAssumption DEF Init, TypeOK, Transactions, EngagementState, InvoiceState
<1>2. Locked
  BY IdleHolds DEF Init, Locked, LocksExclusive
<1>3. Known /\ RejectsAnOffer /\ SettlesAnInvoice /\ Staged
  BY IdleHolds DEF Init, Known, RejectsAnOffer, SettlesAnInvoice, Staged, Open
<1>4. \A q \in Quotes : quote[q].status = "absent"
  BY DEF Init, NoQuote
<1>5. OneOffer /\ CancellationHolds
  BY <1>4 DEF Init, OneOffer, CancellationHolds
<1>6. OneAgreement
  <2>1. Cardinality(acceptances) <= 1
    BY FS_EmptySet DEF Init
  <2>2. {p \in Quotes : quote[p].status = "accepted"} = {}
    BY <1>4
  <2> QED
    BY <2>1, <2>2 DEF Init, OneAgreement, Agreed
<1> QED
  BY <1>1, <1>2, <1>3, <1>5, <1>6 DEF Inv

LEMMA StutterInv ==
  ASSUME Inv, UNCHANGED vars
  PROVE  Inv'
<1>1. UNCHANGED <<quote, engagement, acceptances, invoice, session, scan, overtaken, released>>
  BY DEF vars
<1>2. TypeOK' /\ Locked' /\ Known' /\ RejectsAnOffer' /\ Staged'
  BY <1>1 DEF Inv, TypeOK, Locked, LocksExclusive, HoldsItsRows, Known, RejectsAnOffer, Staged
<1>3. SettlesAnInvoice' /\ CancellationHolds'
  BY <1>1 DEF Inv, SettlesAnInvoice, CancellationHolds, Unpaid, Allocatable
<1>4. OneOffer' /\ OneAgreement'
  BY <1>1, OfferAndAgreementKept
<1> QED
  BY <1>2, <1>3, <1>4 DEF Inv

LEMMA NextInv == Inv /\ [Next]_vars => Inv'
<1> SUFFICES ASSUME Inv, [Next]_vars PROVE Inv'
  OBVIOUS
<1>1. ASSUME NEW q \in Quotes, CreateQuote(q) \/ AddQuoteVersion(q) \/ Lapse(q)
      PROVE  Inv'
  BY <1>1, CreateQuoteInv, AddQuoteVersionInv, LapseInv
<1>2. ASSUME NEW s \in Sessions, NEW op \in {"issue", "accept", "reject"}, NEW q \in Quotes,
             NEW v \in Versions, LockQuote(s, op, q, v)
      PROVE  Inv'
  BY <1>2, LockQuoteInv
<1>3. ASSUME NEW s \in Sessions, NEW voids \in BOOLEAN, StartCancel(s, voids)
      PROVE  Inv'
  BY <1>3, StartCancelInv
<1>4. ASSUME NEW s \in Sessions, StartSettling(s)
      PROVE  Inv'
  BY <1>4, StartSettlingInv
<1>5. ASSUME NEW s \in Sessions, SessionStep(s)
      PROVE  Inv'
  <2>1. CASE Refuse(s)
    BY <2>1, EndsInv DEF Refuse
  <2>2. CASE BreakDeadlock(s)
    BY <2>2, EndsInv DEF BreakDeadlock
  <2> QED
    BY <1>5, <2>1, <2>2, LockRequestInv, IssueQuoteInv, AcceptQuoteInv, RejectQuoteInv, CancelInv,
       SettleInv DEF SessionStep
<1>6. ASSUME NEW by \in {"staff", "customer"}, NEW to \in EngagementState, Transition(by, to)
      PROVE  Inv'
  BY <1>6, TransitionInv
<1>7. ASSUME NEW x \in Expirers, ReadLapsed(x) \/ ExpireRead(x)
      PROVE  Inv'
  BY <1>7, ReadLapsedInv, ExpireReadInv
<1>8. ASSUME NEW k \in Quotes \X Versions, SettlePart(k) \/ CreditInvoice(k) \/ VoidInvoice(k)
      PROVE  Inv'
  <2>1. k \in Collectable
    BY <1>8 DEF SettlePart, CreditInvoice, VoidInvoice, Unpaid, Collectable
  <2>2. PICK to \in {"reduced", "paid", "void"} : OnInvoice(k, to)
    BY <1>8 DEF SettlePart, CreditInvoice, VoidInvoice
  <2> QED
    BY <2>1, <2>2, OnInvoiceInv
<1>9. CASE UNCHANGED vars
  BY <1>9, StutterInv
<1> QED
  BY <1>1, <1>2, <1>3, <1>4, <1>5, <1>6, <1>7, <1>8, <1>9 DEF Next

THEOREM Invariance == Spec => []Inv
BY InitInv, NextInv, PTL DEF Spec

\* Every variable of the quotes keeps its type: an expiry job never writes to a
\* quote that does not exist, nor a transaction to one it has not locked.
THEOREM TypesHold == Spec => []TypeOK
<1>1. Inv => TypeOK
  BY DEF Inv
<1> QED
  BY <1>1, Invariance, PTL

\* For any number of quotes, versions, transactions and expiry jobs the customer
\* never has two offers open, and none beside an agreement (issueQuote).
THEOREM OneOfferAtATime == Spec => []OneOffer
<1>1. Inv => OneOffer
  BY DEF Inv
<1> QED
  BY <1>1, Invariance, PTL

\* An engagement past its quotation rests on one accepted version, billed once
\* and only if it asked for payment (acceptQuote).
THEOREM AgreementIsUnique == Spec => []OneAgreement
<1>1. Inv => OneAgreement
  BY DEF Inv
<1> QED
  BY <1>1, Invariance, PTL

\* After staff cancelled and voided, the engagement stays cancelled, and an invoice
\* that can still be collected is one on which something had been paid or credited,
\* whoever was issuing, paying or crediting it (applyStaffTransition,
\* voidUnpaidInvoicesForRequest).
THEOREM CancellationIsFinal == Spec => []CancellationHolds
<1>1. Inv => CancellationHolds
  BY DEF Inv
<1> QED
  BY <1>1, Invariance, PTL

\* A settlement that locked an invoice it may pay still may when it gets the
\* request's lock: nobody voids the invoice in between (settleAttempt plans the
\* allocation before it locks the request).
THEOREM SettlementFindsItsInvoice == Spec => []SettlesAnInvoice
<1>1. Inv => SettlesAnInvoice
  BY DEF Inv
<1> QED
  BY <1>1, Invariance, PTL

\* Only an open offer is ever rejected, although the check of its status comes
\* before the request's lock (rejectQuote).
THEOREM OnlyOffersAreRejected ==
  Spec => [][\A s \in Sessions : RejectQuote(s) => quote[session[s].quote].status = "issued"]_vars
<1>1. Inv => \A s \in Sessions : RejectQuote(s) => quote[session[s].quote].status = "issued"
  BY DEF Inv, RejectsAnOffer, RejectQuote, Ready
<1> QED
  BY <1>1, Invariance, PTL
================================================================================
