------------------------- MODULE IdempotencyKeys_proofs -------------------------
(***************************************************************************)
(* Proofs about IdempotencyKeys, for any requests, bodies and bounds.  Two  *)
(* things are shown.  As long as no request is overtaken, the row is locked *)
(* by the request in progress (Lease), which is why its updates by key only *)
(* are harmless.  And whatever happens, each execution is paid for by the   *)
(* key, a crash or an overtaken request (Budget): a late release frees the  *)
(* key for no more requests than it takes away itself.                      *)
(***************************************************************************)
EXTENDS IdempotencyKeys, FiniteSetTheorems, TLAPS

\* While none is overtaken, the request in progress holds the fresh lock.
Lease ==
  outlived = 0 => \A r \in InProgress :
    /\ row.state = "locked" /\ row.by = r /\ row.hash = body[r]
    /\ fresh /\ ~expired

\* When the row expires nothing of its life is left.
ExpiredIdle == expired => InProgress = {} /\ executed = {} /\ given = {}

\* A request is counted as executed only after its handler succeeded.
NotYet ==
  \A r \in Requests : req[r] \in {"new", "conflicted", "running", "failed"} => r \notin executed

\* Executions, and the requests that may still become or block one.
Pending == {r \in Requests : req[r] \in {"running", "failed"}}
Owed == executed \cup Pending

\* The row refuses a further claim.
Held ==
  /\ row # NoRow /\ ~expired
  /\ row.state = "completed" \/ (fresh /\ row.by \in InProgress)

Budget ==
  /\ Cardinality(Owed) <= faults + outlived + 1
  /\ ~Held => Cardinality(Owed) <= faults + outlived

\* All answers of the key's life are the response the row holds.
GivenIsStored ==
  outlived = 0 => \A s \in given : row.state = "completed" /\ row.response = s

Inv ==
  /\ TypeOK /\ Lease /\ ExpiredIdle /\ NotYet /\ Budget
  /\ ReplayFaithful /\ GivenIsStored

--------------------------------------------------------------------------------
LEMMA OwedFinite ==
  ASSUME TypeOK
  PROVE  IsFiniteSet(Owed) /\ Cardinality(Owed) \in Nat
<1>1. Owed \subseteq Requests
  BY DEF TypeOK, Owed, Pending
<1> QED
  BY <1>1, KeysAssumption, FS_Subset, FS_CardinalityType

LEMMA OwedFiniteNext ==
  ASSUME TypeOK'
  PROVE  IsFiniteSet(Owed') /\ Cardinality(Owed') \in Nat
<1>1. Owed' \subseteq Requests
  BY DEF TypeOK, Owed, Pending
<1> QED
  BY <1>1, KeysAssumption, FS_Subset, FS_CardinalityType

LEMMA NumbersType ==
  ASSUME TypeOK
  PROVE  faults \in Nat /\ outlived \in Nat
BY KeysAssumption DEF TypeOK

LEMMA NumbersTypeNext ==
  ASSUME TypeOK'
  PROVE  faults' \in Nat /\ outlived' \in Nat
BY KeysAssumption DEF TypeOK

\* The possible forms of a claim, with what was true of the row.
LEMMA ClaimCases ==
  ASSUME TypeOK, NEW r \in Requests, Insert(r) \/ Examine(r)
  PROVE  \/ /\ row = NoRow \/ (row # NoRow /\ expired)
            /\ Claim(r, LockedBy(r))
         \/ /\ row.state = "locked" /\ ~fresh /\ ~expired /\ row.hash = body[r]
            /\ Claim(r, [row EXCEPT !.by = r])
         \/ /\ row.state = "completed" /\ ~expired /\ row.hash = body[r] /\ Replay(r)
         \/ /\ req' = [req EXCEPT ![r] = "conflicted"]
            /\ UNCHANGED <<rowVars, body, answer, history, faults, outlived>>
         \/ Refuse(r)
<1>1. CASE Insert(r)
  BY <1>1 DEF Insert
<1>2. CASE Examine(r)
  <2>1. row = NoRow \/ row.state = "locked" \/ row.state = "completed"
    BY DEF TypeOK, Rows
  <2>2. NoRow.state = "absent"
    BY DEF NoRow
  <2> QED
    BY <1>2, <2>1, <2>2 DEF Examine
<1> QED
  BY <1>1, <1>2

--------------------------------------------------------------------------------
LEMMA InitInv == Init => Inv
<1> SUFFICES ASSUME Init PROVE Inv
  OBVIOUS
<1>1. TypeOK
  <2>1. 0 \in 0..MaxFaults /\ 0 \in 0..MaxOutlived
    BY KeysAssumption
  <2>2. NoRow \in Rows
    BY DEF Rows
  <2> QED
    BY <2>1, <2>2 DEF Init, TypeOK, Stages
<1>2. Owed = {}
  BY DEF Init, Owed, Pending
<1>3. Budget
  BY <1>1, <1>2, FS_EmptySet DEF Budget, Init, TypeOK
<1>4. InProgress = {}
  BY DEF Init, InProgress
<1>5. NoRow.state = "absent"
  BY DEF NoRow
<1> QED
  BY <1>1, <1>3, <1>4, <1>5
  DEF Init, Inv, Lease, ExpiredIdle, NotYet, ReplayFaithful, GivenIsStored

--------------------------------------------------------------------------------
LEMMA TypePreserved ==
  ASSUME TypeOK, [Next]_vars
  PROVE  TypeOK'
<1> USE DEF TypeOK, Stages
<1>1. ASSUME NEW r \in Requests, Insert(r) \/ Examine(r)
      PROVE  TypeOK'
  <2>1. LockedBy(r) \in Rows
    BY DEF LockedBy, Rows
  <2>2. CASE Claim(r, LockedBy(r))
    BY <2>1, <2>2 DEF Claim, history
  <2>3. CASE row.state = "locked" /\ Claim(r, [row EXCEPT !.by = r])
    <3>1. [row EXCEPT !.by = r] \in Rows
      BY <2>3 DEF Rows, NoRow
    <3> QED
      BY <2>3, <3>1 DEF Claim, history
  <2>4. CASE row.state = "completed" /\ Replay(r)
    <3>1. row.response \in Requests
      BY <2>4 DEF Rows, NoRow
    <3> QED
      BY <2>4, <3>1 DEF Replay, Answered, rowVars
  <2>5. CASE /\ req' = [req EXCEPT ![r] = "conflicted"]
             /\ UNCHANGED <<rowVars, body, answer, history, faults, outlived>>
    BY <2>5 DEF rowVars, history
  <2>6. CASE Refuse(r)
    BY <2>6 DEF Refuse, rowVars, history
  <2> QED
    BY <1>1, <2>2, <2>3, <2>4, <2>5, <2>6, ClaimCases
<1>2. ASSUME NEW r \in Requests, HandlerSucceeds(r) \/ HandlerFails(r) \/ Crash(r)
      PROVE  TypeOK'
  BY <1>2, KeysAssumption DEF HandlerSucceeds, HandlerFails, Crash, rowVars, history
<1>3. ASSUME NEW r \in Requests, CompleteKey(r)
      PROVE  TypeOK'
  <2>1. row # NoRow => [row EXCEPT !.state = "completed", !.response = r] \in Rows
    BY DEF Rows
  <2> QED
    BY <1>3, <2>1 DEF CompleteKey, Answered
<1>4. ASSUME NEW r \in Requests, ReleaseKey(r)
      PROVE  TypeOK'
  BY <1>4 DEF ReleaseKey, history, Rows
<1>5. CASE LockAges
  <2>1. outlived' \in 0..MaxOutlived
    BY <1>5, KeysAssumption DEF LockAges
  <2> QED
    BY <1>5, <2>1 DEF LockAges, history
<1>6. CASE Expire
  BY <1>6 DEF Expire
<1>7. CASE Purge
  BY <1>7 DEF Purge, Rows, history
<1>8. CASE UNCHANGED vars
  BY <1>8 DEF vars, rowVars, history
<1> QED
  BY <1>1, <1>2, <1>3, <1>4, <1>5, <1>6, <1>7, <1>8 DEF Next, Step

\* Everything that rests on the lease of the request in progress.
LEMMA LeasePreserved ==
  ASSUME Inv, TypeOK', [Next]_vars
  PROVE  (Lease /\ ExpiredIdle /\ NotYet /\ ReplayFaithful /\ GivenIsStored)'
<1> DEFINE P == Lease /\ ExpiredIdle /\ NotYet /\ ReplayFaithful /\ GivenIsStored
<1> USE DEF Inv, TypeOK, Lease, ExpiredIdle, NotYet, ReplayFaithful, GivenIsStored, InProgress
<1>0. NoRow.state = "absent"
  BY DEF NoRow
<1>1. ASSUME NEW r \in Requests, Insert(r) \/ Examine(r)
      PROVE  P'
  <2>0. req[r] \in {"new", "conflicted"}
    BY <1>1 DEF Insert, Examine
  <2>1. CASE (row = NoRow \/ (row # NoRow /\ expired)) /\ Claim(r, LockedBy(r))
    <3>1. given = {} \/ outlived # 0
      BY <2>1, <1>0
    <3>2. InProgress = {} \/ outlived # 0
      BY <2>1, <1>0
    <3>3. LockedBy(r).state = "locked" /\ LockedBy(r).hash = body[r] /\ LockedBy(r).by = r
      BY DEF LockedBy
    <3> QED
      BY <2>0, <2>1, <3>1, <3>2, <3>3 DEF Claim, history
  <2>2. CASE /\ row.state = "locked" /\ ~fresh /\ ~expired /\ row.hash = body[r]
             /\ Claim(r, [row EXCEPT !.by = r])
    <3>1. given = {} \/ outlived # 0
      BY <2>2
    <3>2. InProgress = {} \/ outlived # 0
      BY <2>2
    <3>3. row'.state = "locked" /\ row'.hash = body[r] /\ row'.by = r
      BY <2>2 DEF Claim, Rows, NoRow
    <3> QED
      BY <2>0, <2>2, <3>1, <3>2, <3>3 DEF Claim, history
  <2>3. CASE row.state = "completed" /\ ~expired /\ row.hash = body[r] /\ Replay(r)
    <3>1. row.response \in Requests /\ row.response # None
      BY <2>3, KeysAssumption DEF Rows, NoRow
    <3> QED
      BY <2>0, <2>3, <3>1 DEF Replay, Answered, rowVars
  <2>4. CASE /\ req' = [req EXCEPT ![r] = "conflicted"]
             /\ UNCHANGED <<rowVars, body, answer, history, faults, outlived>>
    BY <2>0, <2>4 DEF rowVars, history
  <2>5. CASE Refuse(r)
    BY <2>0, <2>5 DEF Refuse, rowVars, history
  <2> QED
    BY <1>1, <2>1, <2>2, <2>3, <2>4, <2>5, ClaimCases
<1>2. ASSUME NEW r \in Requests, HandlerSucceeds(r)
      PROVE  P'
  BY <1>2 DEF HandlerSucceeds, rowVars
<1>3. ASSUME NEW r \in Requests, HandlerFails(r)
      PROVE  P'
  BY <1>3 DEF HandlerFails, rowVars, history
<1>4. ASSUME NEW r \in Requests, Crash(r)
      PROVE  P'
  BY <1>4 DEF Crash, rowVars, history
<1>5. ASSUME NEW r \in Requests, CompleteKey(r)
      PROVE  P'
  <2>1. r \in InProgress /\ ~expired
    BY <1>5 DEF CompleteKey
  <2>2. outlived = 0 => /\ row # NoRow /\ given = {} /\ row.hash = body[r]
                        /\ \A s \in InProgress : s = r
    BY <2>1, <1>0
  <2>3. row # NoRow => row' = [row EXCEPT !.state = "completed", !.response = r]
    BY <1>5 DEF CompleteKey
  <2>4. row # NoRow => row'.state = "completed" /\ row'.response = r /\ row'.hash = row.hash
    BY <2>3 DEF Rows
  <2>5. r # None
    BY KeysAssumption
  <2> QED
    BY <1>5, <2>1, <2>2, <2>4, <2>5 DEF CompleteKey, Answered
<1>6. ASSUME NEW r \in Requests, ReleaseKey(r)
      PROVE  P'
  <2>1. r \in InProgress /\ ~expired
    BY <1>6 DEF ReleaseKey
  <2>2. outlived = 0 => given = {} /\ \A s \in InProgress : s = r
    BY <2>1
  <2>3. row'.state = "completed" => row' = row
    BY <1>0, <1>6 DEF ReleaseKey
  <2> QED
    BY <1>6, <2>1, <2>2, <2>3 DEF ReleaseKey, history
<1>7. CASE LockAges
  BY <1>7 DEF LockAges, history
<1>8. CASE Expire
  BY <1>8 DEF Expire
<1>9. CASE Purge
  BY <1>0, <1>9 DEF Purge, history
<1>10. CASE UNCHANGED vars
  BY <1>10 DEF vars, rowVars, history
<1> QED
  BY <1>1, <1>2, <1>3, <1>4, <1>5, <1>6, <1>7, <1>8, <1>9, <1>10 DEF Next, Step

--------------------------------------------------------------------------------
\* Sums of primed variables, which the arithmetic of the prover does not see.
LEMMA PaidFor ==
  \A n, m, f, o, f2, o2 \in Nat :
    n <= m /\ m <= f + o + 1 /\ f2 + o2 >= f + o + 1 => n <= f2 + o2 /\ n <= f2 + o2 + 1
OBVIOUS

LEMMA NothingOwed == \A n, f, o \in Nat : n = 0 => n <= f + o /\ n <= f + o + 1
OBVIOUS

\* Whoever keeps what it owes and keeps its room, or pays for it, stays in budget.
LEMMA StaysInBudget ==
  ASSUME TypeOK, TypeOK', Budget, Owed' \subseteq Owed,
         \/ faults' = faults /\ outlived' = outlived /\ (Held => Held')
         \/ faults' + outlived' >= faults + outlived + 1
  PROVE  Budget'
<1>1. Cardinality(Owed') <= Cardinality(Owed)
  BY OwedFinite, FS_Subset
<1>2. /\ faults \in Nat /\ outlived \in Nat
      /\ faults' \in Nat /\ outlived' \in Nat
  BY NumbersType, NumbersTypeNext
<1>3. CASE faults' = faults /\ outlived' = outlived /\ (Held => Held')
  BY <1>1, <1>2, <1>3, OwedFinite, OwedFiniteNext DEF Budget
<1>4. CASE faults' + outlived' >= faults + outlived + 1
  BY <1>1, <1>2, <1>4, OwedFinite, OwedFiniteNext, PaidFor DEF Budget
<1> QED
  BY <1>3, <1>4

LEMMA BudgetPreserved ==
  ASSUME Inv, TypeOK', [Next]_vars
  PROVE  Budget'
<1> USE DEF Inv
<1>0. /\ faults \in Nat /\ outlived \in Nat
      /\ faults' \in Nat /\ outlived' \in Nat
  BY NumbersType, NumbersTypeNext
<1>1. ASSUME NEW r \in Requests, Insert(r) \/ Examine(r)
      PROVE  Budget'
  <2>1. ASSUME NEW locked, Claim(r, locked), locked.by = r, locked # NoRow,
               Cardinality(Owed) <= faults + outlived
        PROVE  Budget'
    <3>1. Owed' \subseteq Owed \cup {r}
      BY <2>1 DEF Claim, Owed, Pending, history, TypeOK
    <3>2. Cardinality(Owed \cup {r}) <= Cardinality(Owed) + 1
          /\ IsFiniteSet(Owed \cup {r}) /\ Cardinality(Owed \cup {r}) \in Nat
      BY OwedFinite, FS_AddElement, FS_CardinalityType
    <3>3. Cardinality(Owed') <= Cardinality(Owed) + 1
      BY <3>1, <3>2, FS_Subset, OwedFinite, OwedFiniteNext
    <3>4. Held'
      BY <2>1 DEF Claim, Held, InProgress, TypeOK
    <3> QED
      BY <1>0, <2>1, <3>3, <3>4, OwedFinite, OwedFiniteNext DEF Budget, Claim
  <2>2. LockedBy(r).by = r /\ LockedBy(r).state = "locked" /\ NoRow.state = "absent"
    BY DEF LockedBy, NoRow
  <2>3. CASE row = NoRow /\ Claim(r, LockedBy(r))
    <3>1. ~ Held
      BY <2>3 DEF Held
    <3> QED
      BY <1>0, <2>1, <2>2, <2>3, <3>1 DEF Budget
  <2>4. CASE expired /\ Claim(r, LockedBy(r))
    <3>1. Owed = {}
      BY <2>4 DEF ExpiredIdle, Owed, Pending, InProgress
    <3>2. Cardinality(Owed) = 0
      BY <3>1, FS_EmptySet
    <3> QED
      BY <1>0, <2>1, <2>2, <2>4, <3>2
  <2>5. CASE row.state = "locked" /\ ~fresh /\ Claim(r, [row EXCEPT !.by = r])
    <3>1. ~ Held
      BY <2>5 DEF Held
    <3>2. [row EXCEPT !.by = r].by = r /\ [row EXCEPT !.by = r].state = "locked"
      BY <2>5 DEF TypeOK, Rows, NoRow
    <3> QED
      BY <1>0, <2>1, <2>2, <2>5, <3>1, <3>2 DEF Budget
  <2>6. ASSUME UNCHANGED <<rowVars, executed, faults, outlived>>,
               \E s \in {"conflicted", "refused", "answered"} : req' = [req EXCEPT ![r] = s]
        PROVE  Budget'
    <3>1. req[r] \in {"new", "conflicted"}
      BY <1>1 DEF Insert, Examine
    <3>2. Owed' \subseteq Owed /\ InProgress' = InProgress
      BY <2>6, <3>1 DEF Owed, Pending, InProgress, TypeOK
    <3>3. Held' = Held
      BY <2>6, <3>2 DEF Held, rowVars
    <3> QED
      BY <1>0, <2>6, <3>2, <3>3, StaysInBudget
  <2>7. CASE Replay(r)
    BY <2>6, <2>7 DEF Replay, Answered
  <2>8. CASE Refuse(r)
    BY <2>6, <2>8 DEF Refuse, history
  <2>9. CASE /\ req' = [req EXCEPT ![r] = "conflicted"]
             /\ UNCHANGED <<rowVars, body, answer, history, faults, outlived>>
    BY <2>6, <2>9 DEF history
  <2> QED
    BY <1>1, <2>3, <2>4, <2>5, <2>7, <2>8, <2>9, ClaimCases
<1>2. ASSUME NEW r \in Requests, HandlerSucceeds(r) \/ HandlerFails(r)
      PROVE  Budget'
  <2>1. Owed' \subseteq Owed /\ InProgress' = InProgress
    BY <1>2 DEF HandlerSucceeds, HandlerFails, Owed, Pending, InProgress, TypeOK, history
  <2>2. faults' = faults /\ outlived' = outlived /\ Held' = Held
    BY <1>2, <2>1 DEF HandlerSucceeds, HandlerFails, Held, rowVars
  <2> QED
    BY <1>0, <2>1, <2>2, StaysInBudget
<1>3. ASSUME NEW r \in Requests, CompleteKey(r)
      PROVE  Budget'
  <2>1. Owed' \subseteq Owed /\ ~expired /\ ~expired'
    BY <1>3 DEF CompleteKey, Answered, Owed, Pending, TypeOK, ExpiredIdle, InProgress
  <2>2. Held => Held'
    <3>1. CASE row = NoRow
      BY <3>1 DEF Held
    <3>2. CASE row # NoRow
      <4>1. row'.state = "completed" /\ NoRow.state = "absent"
        BY <1>3, <3>2 DEF CompleteKey, TypeOK, Rows, NoRow
      <4> QED
        BY <2>1, <4>1 DEF Held
    <3> QED
      BY <3>1, <3>2
  <2> QED
    BY <1>0, <1>3, <2>1, <2>2, StaysInBudget DEF CompleteKey
<1>4. ASSUME NEW r \in Requests, ReleaseKey(r)
      PROVE  Budget'
  <2>1. r \in Owed /\ Owed' = Owed \ {r}
    BY <1>4 DEF ReleaseKey, Owed, Pending, NotYet, TypeOK, history
  <2>2. Cardinality(Owed') = Cardinality(Owed) - 1
    BY <2>1, OwedFinite, FS_RemoveElement
  <2> QED
    BY <1>0, <1>4, <2>2, OwedFinite, OwedFiniteNext DEF ReleaseKey, Budget
<1>5. ASSUME NEW r \in Requests, Crash(r)
      PROVE  Budget'
  <2>1. Owed' \subseteq Owed
    BY <1>5 DEF Crash, Owed, Pending, TypeOK, history
  <2> QED
    BY <1>0, <1>5, <2>1, StaysInBudget DEF Crash
<1>6. CASE LockAges
  <2>1. Owed' \subseteq Owed /\ InProgress' = InProgress
    BY <1>6 DEF LockAges, Owed, Pending, InProgress, history
  <2>2. CASE row.state = "locked" /\ row.by \in InProgress
    BY <1>0, <1>6, <2>1, <2>2, StaysInBudget DEF LockAges
  <2>3. CASE ~ (row.state = "locked" /\ row.by \in InProgress)
    <3>1. Held => Held'
      <4>1. row # NoRow => row.state \in {"locked", "completed"}
        BY DEF TypeOK, Rows
      <4> QED
        BY <1>6, <2>3, <4>1 DEF LockAges, Held
    <3> QED
      BY <1>0, <1>6, <2>1, <2>3, <3>1, StaysInBudget DEF LockAges
  <2> QED
    BY <2>2, <2>3
<1>7. CASE Expire \/ Purge
  <2>1. Owed' = {}
    BY <1>7 DEF Expire, Purge, Owed, Pending, InProgress, ExpiredIdle, history
  <2>2. Cardinality(Owed') = 0
    BY <2>1, FS_EmptySet
  <2>3. Cardinality(Owed') <= faults' + outlived' /\ Cardinality(Owed') <= faults' + outlived' + 1
    BY <1>0, <2>2, OwedFiniteNext, NothingOwed
  <2> QED
    BY <2>3 DEF Budget
<1>8. CASE UNCHANGED vars
  BY <1>8 DEF vars, rowVars, history, Budget, Owed, Pending, Held, InProgress
<1> QED
  BY <1>1, <1>2, <1>3, <1>4, <1>5, <1>6, <1>7, <1>8 DEF Next, Step

--------------------------------------------------------------------------------
LEMMA InvHolds == Spec => []Inv
<1>1. Inv /\ [Next]_vars => Inv'
  <2> SUFFICES ASSUME Inv, [Next]_vars PROVE Inv'
    OBVIOUS
  <2>1. TypeOK'
    BY TypePreserved DEF Inv
  <2> QED
    BY <2>1, LeasePreserved, BudgetPreserved DEF Inv
<1> QED
  BY <1>1, InitInv, PTL DEF Spec

\* Every variable keeps its type; in particular a completed row has a response.
THEOREM TypesHold == Spec => []TypeOK
<1> QED
  BY InvHolds, PTL DEF Inv

\* While no request outlives LOCK_STALE_MS at most one is inside the handler.
THEOREM OneInside == Spec => []SingleFlight
<1>1. Inv => SingleFlight
  BY DEF Inv, Lease, SingleFlight
<1> QED
  BY <1>1, InvHolds, PTL

\* A key is executed once, and once more for each crash or overtaken request.
THEOREM ExecutionsAreBounded == Spec => []ExecutedOnce
<1>1. Inv => ExecutedOnce
  <2> SUFFICES ASSUME Inv PROVE ExecutedOnce
    OBVIOUS
  <2>1. executed \subseteq Owed
    BY DEF Owed
  <2>2. TypeOK /\ Budget
    BY DEF Inv
  <2>3. IsFiniteSet(executed) /\ Cardinality(executed) <= Cardinality(Owed)
    BY <2>1, <2>2, OwedFinite, FS_Subset
  <2>4. Cardinality(executed) \in Nat
    BY <2>3, FS_CardinalityType
  <2> QED
    BY <2>2, <2>3, <2>4, OwedFinite, KeysAssumption DEF ExecutedOnce, Budget, TypeOK
<1> QED
  BY <1>1, InvHolds, PTL

\* Without overtaken requests a replay answers the same body.
THEOREM ReplaysAreFaithful == Spec => []ReplayFaithful
<1> QED
  BY InvHolds, PTL DEF Inv

\* Without overtaken requests a key has one successful answer in its life.
THEOREM OneAnswerPerKey == Spec => []OneAnswer
<1>1. Inv => OneAnswer
  BY DEF Inv, GivenIsStored, OneAnswer
<1> QED
  BY <1>1, InvHolds, PTL
================================================================================
