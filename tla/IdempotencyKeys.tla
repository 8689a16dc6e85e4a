---------------------------- MODULE IdempotencyKeys ----------------------------
(***************************************************************************)
(* One idempotency key of a mutating endpoint                               *)
(* (apps/web/src/lib/api/idempotency.ts): the requests that carry the same  *)
(* requester, endpoint and key, and the row of `idempotency_keys` they      *)
(* claim, answer from, complete and release.                                *)
(*                                                                          *)
(* The row is updated and deleted by key only: a request whose lock was     *)
(* taken over as stale still writes to the row when it ends.  Time is two   *)
(* facts about the row, its lock being fresh and the row being expired.     *)
(***************************************************************************)
EXTENDS Naturals, FiniteSets

CONSTANTS
  Requests,     \* requests that carry the key, retries of the client included
  Bodies,       \* what they may ask, as far as the hash tells
  None,
  MaxFaults,    \* bound: processes that die, transactions of completeKey that fail
  MaxOutlived   \* bound: requests slower than LOCK_STALE_MS

ASSUME KeysAssumption ==
  /\ IsFiniteSet(Requests) /\ None \notin Requests \cup Bodies
  /\ MaxFaults \in Nat /\ MaxOutlived \in Nat

VARIABLES
  row,       \* the row of the key: its state, request_hash and response,
             \* and the request whose claim set locked_at
  fresh,     \* locked_at is younger than LOCK_STALE_MS
  expired,   \* expires_at has passed
  body,      \* what each request asks
  req,       \* where each request is
  answer,    \* the execution whose 2xx response a request was answered with
  executed,  \* history: successful executions since the key last expired
  given,     \* history: the responses answered since the key last expired
  faults, outlived

rowVars == <<row, fresh, expired>>
history == <<executed, given>>
vars == <<rowVars, body, req, answer, history, faults, outlived>>

NoRow == [state |-> "absent", hash |-> None, response |-> None, by |-> None]
Rows == {NoRow} \cup [state : {"locked"}, hash : Bodies, response : {None}, by : Requests]
                \cup [state : {"completed"}, hash : Bodies, response : Requests, by : Requests]
Stages == {"new", "conflicted", "running", "succeeded", "failed", "answered", "refused", "gone"}

TypeOK ==
  /\ row \in Rows
  /\ fresh \in BOOLEAN /\ expired \in BOOLEAN
  /\ body \in [Requests -> Bodies]
  /\ req \in [Requests -> Stages]
  /\ answer \in [Requests -> Requests \cup {None}]
  /\ executed \subseteq Requests /\ given \subseteq Requests
  /\ faults \in 0..MaxFaults /\ outlived \in 0..MaxOutlived

Init ==
  /\ row = NoRow
  /\ fresh = FALSE /\ expired = FALSE
  /\ body \in [Requests -> Bodies]
  /\ req = [r \in Requests |-> "new"]
  /\ answer = [r \in Requests |-> None]
  /\ executed = {} /\ given = {}
  /\ faults = 0 /\ outlived = 0

--------------------------------------------------------------------------------
(* claimKey *)

\* Requests between their claim and the end of withIdempotency.
InProgress == {r \in Requests : req[r] \in {"running", "succeeded", "failed"}}

\* The row as a claim of r leaves it.
LockedBy(r) == [state |-> "locked", hash |-> body[r], response |-> None, by |-> r]

Claim(r, locked) ==
  /\ row' = locked
  /\ fresh' = TRUE /\ expired' = FALSE
  /\ req' = [req EXCEPT ![r] = "running"]
  /\ UNCHANGED <<body, answer, history, faults, outlived>>

Refuse(r) ==
  /\ req' = [req EXCEPT ![r] = "refused"]
  /\ UNCHANGED <<rowVars, body, answer, history, faults, outlived>>

\* INSERT ... ON CONFLICT DO NOTHING.
Insert(r) ==
  /\ req[r] = "new"
  /\ IF row = NoRow
       THEN Claim(r, LockedBy(r))
       ELSE /\ req' = [req EXCEPT ![r] = "conflicted"]
            /\ UNCHANGED <<rowVars, body, answer, history, faults, outlived>>

\* An answered request returns a response; a replayed one that of another.
Answered(r, response) ==
  /\ req' = [req EXCEPT ![r] = "answered"]
  /\ answer' = [answer EXCEPT ![r] = response]
  /\ given' = given \cup {response}

Replay(r) ==
  /\ Answered(r, row.response)
  /\ UNCHANGED <<rowVars, body, executed, faults, outlived>>

\* SELECT ... FOR UPDATE after a conflict.  The row may be gone by now; a row
\* that expired is claimed for whatever body, a stale one keeps its columns.
Examine_KeepResponse(r) ==
  /\ req[r] = "conflicted"
  /\ CASE row = NoRow -> Refuse(r)
       [] row # NoRow /\ expired -> Claim(r, [row EXCEPT !.hash = body[r], !.by = r])
       [] row # NoRow /\ ~expired /\ row.hash # body[r] -> Refuse(r)
       [] row.state = "completed" /\ ~expired /\ row.hash = body[r] -> Replay(r)
       [] row.state = "locked" /\ ~expired /\ row.hash = body[r] ->
            IF fresh THEN Refuse(r) ELSE Claim(r, [row EXCEPT !.by = r])
Examine_StaleFirst(r) ==
  /\ req[r] = "conflicted"
  /\ CASE row = NoRow -> Refuse(r)
       [] row # NoRow /\ (expired \/ ~fresh) -> Claim(r, LockedBy(r))
       [] row # NoRow /\ ~expired /\ fresh /\ row.hash # body[r] -> Refuse(r)
       [] row.state = "completed" /\ fresh /\ ~expired /\ row.hash = body[r] -> Replay(r)
       [] row.state = "locked" /\ fresh /\ ~expired /\ row.hash = body[r] -> Refuse(r)
Examine_AnyBody(r) ==
  /\ req[r] = "conflicted"
  /\ CASE row = NoRow -> Refuse(r)
       [] row # NoRow /\ expired -> Claim(r, LockedBy(r))
       [] row.state = "completed" /\ ~expired -> Replay(r)
       [] row.state = "locked" /\ ~expired ->
            IF fresh THEN Refuse(r) ELSE Claim(r, [row EXCEPT !.by = r])
Examine_NoCutoff(r) ==
  /\ req[r] = "conflicted"
  /\ CASE row = NoRow -> Refuse(r)
       [] row # NoRow /\ expired -> Claim(r, LockedBy(r))
       [] row # NoRow /\ ~expired /\ row.hash # body[r] -> Refuse(r)
       [] row.state = "completed" /\ ~expired /\ row.hash = body[r] -> Replay(r)
       [] row.state = "locked" /\ ~expired /\ row.hash = body[r] -> Claim(r, [row EXCEPT !.by = r])
Examine(r) ==
  /\ req[r] = "conflicted"
  /\ CASE row = NoRow -> Refuse(r)
       [] row # NoRow /\ expired -> Claim(r, LockedBy(r))
       [] row # NoRow /\ ~expired /\ row.hash # body[r] -> Refuse(r)
       [] row.state = "completed" /\ ~expired /\ row.hash = body[r] -> Replay(r)
       [] row.state = "locked" /\ ~expired /\ row.hash = body[r] ->
            IF fresh THEN Refuse(r) ELSE Claim(r, [row EXCEPT !.by = r])

--------------------------------------------------------------------------------
(* The handler and what follows it *)

\* The handler committed its work and answered 2xx.
HandlerSucceeds(r) ==
  /\ req[r] = "running"
  /\ req' = [req EXCEPT ![r] = "succeeded"]
  /\ executed' = executed \cup {r}
  /\ UNCHANGED <<rowVars, body, answer, given, faults, outlived>>

\* It threw, or answered anything else.
HandlerFails(r) ==
  /\ req[r] = "running"
  /\ req' = [req EXCEPT ![r] = "failed"]
  /\ UNCHANGED <<rowVars, body, answer, history, faults, outlived>>

\* completeKey: by key only; nothing happens when the row is gone.
CompleteKey(r) ==
  /\ req[r] = "succeeded"
  /\ row' = IF row = NoRow THEN row
            ELSE [row EXCEPT !.state = "completed", !.response = r]
  /\ Answered(r, r)
  /\ UNCHANGED <<fresh, expired, body, executed, faults, outlived>>

\* releaseKey: deletes by key only, and swallows an error of its own.
ReleaseKey(r) ==
  /\ req[r] = "failed"
  /\ req' = [req EXCEPT ![r] = "refused"]
  /\ row' \in {NoRow, row}
  /\ UNCHANGED <<fresh, expired, body, answer, history, faults, outlived>>

\* The process dies, or completeKey fails and the work is reported as an error.
Crash(r) ==
  /\ req[r] \in {"conflicted", "running", "succeeded", "failed"}
  /\ faults < MaxFaults /\ faults' = faults + 1
  /\ req' = [req EXCEPT ![r] = "gone"]
  /\ UNCHANGED <<rowVars, body, answer, history, outlived>>

--------------------------------------------------------------------------------
(* Time *)

\* LOCK_STALE_MS passes, although the request may still be in progress.
LockAges ==
  /\ row # NoRow /\ fresh
  /\ fresh' = FALSE
  /\ IF row.state = "locked" /\ row.by \in InProgress
       THEN outlived < MaxOutlived /\ outlived' = outlived + 1
       ELSE outlived' = outlived
  /\ UNCHANGED <<row, expired, body, req, answer, history, faults>>

\* ttlMs, a day, passes: no request takes that long.
Expire ==
  /\ row # NoRow /\ ~fresh /\ ~expired /\ InProgress = {}
  /\ expired' = TRUE
  /\ executed' = {} /\ given' = {}
  /\ UNCHANGED <<row, fresh, body, req, answer, faults, outlived>>

\* maintenance.purge_expired_keys
Purge ==
  /\ expired /\ row # NoRow
  /\ row' = NoRow
  /\ UNCHANGED <<fresh, expired, body, req, answer, history, faults, outlived>>

Step(r) ==
  \/ Insert(r) \/ Examine(r)
  \/ HandlerSucceeds(r) \/ HandlerFails(r)
  \/ CompleteKey(r) \/ ReleaseKey(r) \/ Crash(r)

Next == (\E r \in Requests : Step(r)) \/ LockAges \/ Expire \/ Purge

Spec == Init /\ [][Next]_vars

--------------------------------------------------------------------------------
(* Properties *)

\* While every request is faster than LOCK_STALE_MS one request at a time is
\* inside the handler, whatever crashes, fails and expires around it.
SingleFlight == outlived = 0 => \A r, s \in InProgress : r = s

\* The work of a key is done once in the key's life, and once more at most for
\* every process that died or was overtaken: the late releases and completions
\* by key only never let in more requests than that (idempotency.ts:248, :229).
ExecutedOnce == Cardinality(executed) <= 1 + faults + outlived

\* While no request is overtaken, a request is answered with the response to its
\* own body, and the row never offers any other.
ReplayFaithful ==
  outlived = 0 =>
    /\ \A r \in Requests : answer[r] # None => body[answer[r]] = body[r]
    /\ row.state = "completed" => body[row.response] = row.hash

\* While no request is overtaken all successful answers of a key's life are one
\* response, also when a crash made the work be done twice.
OneAnswer == outlived = 0 => \A r, s \in given : r = s
================================================================================
