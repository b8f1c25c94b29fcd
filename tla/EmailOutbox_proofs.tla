------------------------- MODULE EmailOutbox_proofs -------------------------
(***************************************************************************)
(* What holds of EmailOutbox for any number of workers, requests, intents, *)
(* retries and deaths of workers, and that it implements IdentityMail.     *)
(* MailInv is inductive.  It ties a job to its row (a claimed row stays    *)
(* INDETERMINATE and nobody else is at it until the job ends) and the row  *)
(* lock to what its holder has seen.                                       *)
(***************************************************************************)
EXTENDS EmailOutbox, TLAPS

Unsettled == {"QUEUED", "INDETERMINATE"}

\* A row that relays have taken n times; attempts are left while it is queued.
RowGood(row, n) ==
  /\ n \in {0, 1}
  /\ row = None => n = 0
  /\ row # None =>
       /\ row.status = "QUEUED" => n = 0 /\ row.attempts < RetryLimit
       /\ row.status = "FAILED" => n = 0
       /\ row.status = "ACCEPTED" => n = 1

\* A job at row, of which relays have taken n messages.
JobGood(j, row, n) ==
  /\ row # None
  /\ j.step # "claim" => row.status = "INDETERMINATE"
  /\ j.step \in {"check", "send"} => n = 0
  /\ j.step = "record" => (j.result = "accepted" => n = 1) /\ (j.result = "declined" => n = 0)

RowInv  == \A i \in Id : RowGood(outbox[i], taken[i])
JobInv  == \A w \in Worker :
  job[w] # None => JobGood(job[w], outbox[job[w].intent], taken[job[w].intent])

\* Worker w is at the intent i it has claimed.
Attends(w, i) == job[w] # None /\ job[w].intent = i /\ job[w].step # "claim"

Alone   == \A i \in Id : \A v, w \in Worker : Attends(v, i) /\ Attends(w, i) => v = w
LockInv == \A r \in Request : Asks(r, "insert") => lock = r /\ Existing(req[r].kind) = {}

MailInv == TypeOK /\ RowInv /\ JobInv /\ Alone /\ LockInv /\ OneOpenIntent

-----------------------------------------------------------------------------
\* A row after a step that settles it or leaves it as unsettled as it was.
Follows(new, row) ==
  /\ new # None => row # None /\ new.kind = row.kind
  /\ new # None => (new.left > 0 => row.left > 0)
  /\ new # None => (new.status \in Unsettled => row.status \in Unsettled)

\* Steps that only age, settle or retry rows add none that stands for a new one.
LEMMA ExistingShrinks ==
  ASSUME \A i \in Id : Follows(outbox'[i], outbox[i])
  PROVE  \A k : Existing(k)' \subseteq Existing(k)
  BY DEF Existing, Follows, Unsettled

\* What is seen under the lock stays true, and no second open intent appears,
\* when rows only follow and no request reaches its insert.
LEMMA NoneOpens ==
  ASSUME TypeOK, LockInv, OneOpenIntent,
         \A i \in Id : Follows(outbox'[i], outbox[i]),
         \A r \in Request : Asks(r, "insert")' =>
           Asks(r, "insert") /\ req'[r].kind = req[r].kind /\ lock' = lock
  PROVE  LockInv' /\ OneOpenIntent'
  <1>1. \A k : Existing(k)' \subseteq Existing(k)
    BY ExistingShrinks
  <1>2. LockInv'
    BY <1>1 DEF LockInv
  <1>3. OneOpenIntent'
    BY <1>1 DEF OneOpenIntent
  <1>4. QED
    BY <1>2, <1>3

\* What the constants allow.
LEMMA Limits ==
  /\ RetryLimit \in Nat /\ RetryLimit > 0 /\ Lifetime \in Nat /\ Cooldown \in Nat
  /\ \A n \in 0..RetryLimit : Backoff(n) \in Nat
  /\ None \notin Intent /\ None \notin Asking /\ None \notin Job /\ None \notin Request
  BY LimitAssumption, NoneAssumption

LEMMA NewIntentGood ==
  \A k \in Kind, c \in BOOLEAN : NewIntent(k, c) \in Intent /\ NewIntent(k, c) # None
  <1> SUFFICES ASSUME NEW k \in Kind, NEW c \in BOOLEAN PROVE NewIntent(k, c) \in Intent
    BY Limits
  <1>1. 0 \in 0..RetryLimit /\ Lifetime \in 0..Lifetime /\ Cooldown \in 0..Cooldown
    BY Limits
  <1>2. QED
    BY <1>1 DEF NewIntent, Intent

LEMMA InitInv == Init => MailInv
  <1> SUFFICES ASSUME Init PROVE MailInv
    OBVIOUS
  <1>0. \A k \in Kind : NewIntent(k, TRUE) \in Intent /\ NewIntent(k, TRUE) # None
    BY NewIntentGood
  <1>1. TypeOK
    BY <1>0 DEF Init, TypeOK, Kind
  <1>2. RowInv
    BY <1>0, LimitAssumption DEF Init, RowInv, RowGood, NewIntent, Kind
  <1>3. JobInv /\ Alone /\ LockInv
    BY DEF Init, JobInv, Alone, Attends, LockInv, Asks
  <1>4. OneOpenIntent
    BY DEF Init, OneOpenIntent, Existing
  <1>5. QED
    BY <1>1, <1>2, <1>3, <1>4 DEF MailInv

-----------------------------------------------------------------------------
\* Rows follow themselves.
LEMMA Unchanged ==
  ASSUME outbox' = outbox PROVE \A i \in Id : Follows(outbox'[i], outbox[i])
  BY DEF Follows

\* A request that reads, gives up or fails leaves the rows alone.
LEMMA AskInv ==
  ASSUME MailInv, NEW r \in Request, NEW k \in Kind, Ask(r, k) PROVE MailInv'
  <1>1. TypeOK'
    <2>1. [kind |-> k, current |-> TRUE, step |-> "ask"] \in Asking
      BY DEF Asking
    <2>2. QED
      BY <2>1 DEF MailInv, TypeOK, Ask
  <1>2. LockInv' /\ OneOpenIntent'
    <2>1. \A q \in Request : Asks(q, "insert")' =>
            Asks(q, "insert") /\ req'[q].kind = req[q].kind /\ lock' = lock
      BY DEF MailInv, TypeOK, Ask, Asks
    <2>2. QED
      BY <2>1, Unchanged, NoneOpens DEF MailInv, Ask
  <1>3. RowInv' /\ JobInv' /\ Alone'
    BY DEF MailInv, Ask, RowInv, JobInv, Alone, Attends
  <1>4. QED
    BY <1>1, <1>2, <1>3 DEF MailInv

LEMMA AbortInv ==
  ASSUME MailInv, NEW r \in Request, Abort(r) PROVE MailInv'
  <1>1. TypeOK'
    BY DEF MailInv, TypeOK, Abort, Done
  <1>2. LockInv' /\ OneOpenIntent'
    <2>1. \A q \in Request : Asks(q, "insert")' =>
            Asks(q, "insert") /\ req'[q].kind = req[q].kind /\ lock' = lock
      BY DEF MailInv, TypeOK, LockInv, Abort, Done, Asks
    <2>2. QED
      BY <2>1, Unchanged, NoneOpens DEF MailInv, Abort
  <1>3. RowInv' /\ JobInv' /\ Alone'
    BY DEF MailInv, Abort, RowInv, JobInv, Alone, Attends
  <1>4. QED
    BY <1>1, <1>2, <1>3 DEF MailInv

LEMMA LookInv ==
  ASSUME MailInv, NEW r \in Request, Look(r) PROVE MailInv'
  <1>1. CASE Existing(req[r].kind) \cup Recent(req[r].kind) # {}
    BY <1>1, AbortInv DEF Look, Abort, Asks
  <1>2. CASE ~(Existing(req[r].kind) \cup Recent(req[r].kind) # {})
    <2>1. /\ Asks(r, "ask") /\ lock = None /\ lock' = r
          /\ req' = [req EXCEPT ![r].step = "insert"]
          /\ outbox' = outbox /\ job' = job /\ taken' = taken
      BY <1>2 DEF Look
    <2>2. TypeOK'
      <3>1. req[r] \in Asking
        BY <2>1 DEF MailInv, TypeOK, Asks
      <3>2. [req[r] EXCEPT !.step = "insert"] \in Asking
        BY <3>1 DEF Asking
      <3>3. QED
        BY <2>1, <3>2 DEF MailInv, TypeOK
    <2>3. LockInv'
      <3> SUFFICES ASSUME NEW q \in Request, Asks(q, "insert")'
                   PROVE  (lock = q /\ Existing(req[q].kind) = {})'
        BY DEF LockInv
      <3>1. q = r
        BY <2>1, Limits DEF MailInv, TypeOK, LockInv, Asks
      <3>2. req'[r].kind = req[r].kind
        BY <2>1 DEF MailInv, TypeOK, Asking, Asks
      <3>3. QED
        BY <1>2, <2>1, <3>1, <3>2 DEF Existing
    <2>4. RowInv' /\ JobInv' /\ Alone' /\ OneOpenIntent'
      BY <2>1 DEF MailInv, RowInv, JobInv, Alone, Attends, OneOpenIntent, Existing
    <2>5. QED
      BY <2>2, <2>3, <2>4 DEF MailInv
  <1>3. QED
    BY <1>1, <1>2

LEMMA InsertInv ==
  ASSUME MailInv, NEW r \in Request, Insert(r) PROVE MailInv'
  <1> DEFINE new == NewIntent(req[r].kind, req[r].current)
  <1>1. PICK i \in Id : outbox[i] = None /\ outbox' = [outbox EXCEPT ![i] = new]
    BY DEF Insert
  <1>2. /\ Asks(r, "insert") /\ req[r] \in Asking /\ job' = job /\ taken' = taken
        /\ req' = [req EXCEPT ![r] = None] /\ lock' = None
    BY DEF MailInv, TypeOK, LockInv, Insert, Done, Asks
  <1>3. new \in Intent /\ new # None
    BY <1>2, NewIntentGood DEF Asking
  <1>4. new.status = "QUEUED" /\ new.attempts = 0 /\ new.kind = req[r].kind
    BY DEF NewIntent
  <1>5. TypeOK'
    BY <1>1, <1>2, <1>3 DEF MailInv, TypeOK
  <1>6. RowInv'
    BY <1>1, <1>2, <1>3, <1>4, Limits DEF MailInv, TypeOK, RowInv, RowGood
  <1>7. JobInv' /\ Alone'
    BY <1>1, <1>2 DEF MailInv, TypeOK, Job, JobInv, JobGood, Alone, Attends
  <1>8. LockInv'
    BY <1>2 DEF MailInv, TypeOK, LockInv, Asks
  <1>9. OneOpenIntent'
    <2>1. \A k \in Kind : k # new.kind => Existing(k)' \subseteq Existing(k)
      BY <1>1 DEF MailInv, TypeOK, Existing
    <2>2. \A k \in Kind : k = new.kind => Existing(k)' \subseteq {i}
      BY <1>1, <1>2, <1>4 DEF MailInv, TypeOK, LockInv, Existing
    <2>3. QED
      BY <2>1, <2>2 DEF MailInv, OneOpenIntent
  <1>10. QED
    BY <1>5, <1>6, <1>7, <1>8, <1>9 DEF MailInv

-----------------------------------------------------------------------------
\* The parts of MailInv that requests and rows carry, when a worker rewrites the
\* row of its job and leaves the requests alone.
LEMMA RowRewritten ==
  ASSUME MailInv, UNCHANGED requests, NEW i \in Id, NEW new \in Intent,
         outbox[i] # None, Follows(new, outbox[i]), RowGood(new, taken'[i]),
         outbox' = [outbox EXCEPT ![i] = new],
         \A j \in Id \ {i} : taken'[j] = taken[j]
  PROVE  RowInv' /\ LockInv' /\ OneOpenIntent'
  <1>1. \A j \in Id : outbox'[j] = IF j = i THEN new ELSE outbox[j]
    BY DEF MailInv, TypeOK
  <1>2. \A j \in Id : Follows(outbox'[j], outbox[j])
    BY <1>1 DEF Follows
  <1>3. RowInv'
    BY <1>1 DEF MailInv, RowInv
  <1>4. \A q \in Request : Asks(q, "insert")' =>
          Asks(q, "insert") /\ req'[q].kind = req[q].kind /\ lock' = lock
    BY DEF requests, Asks
  <1>5. QED
    BY <1>2, <1>3, <1>4, NoneOpens DEF MailInv

\* The parts a worker that leaves rows and requests alone does not disturb.
LEMMA RowsKept ==
  ASSUME MailInv, UNCHANGED <<outbox, requests, taken>>
  PROVE  RowInv' /\ LockInv' /\ OneOpenIntent'
  BY DEF MailInv, requests, RowInv, LockInv, Asks, Existing, OneOpenIntent

\* A worker that ends its job gives up its claim to the row.
LEMMA ReturnInv ==
  ASSUME MailInv, NEW w \in Worker, Return(w), UNCHANGED <<outbox, requests, taken>>
  PROVE  MailInv'
  <1>1. TypeOK'
    BY DEF MailInv, TypeOK, Return, requests
  <1>2. \A v \in Worker : job'[v] = IF v = w THEN None ELSE job[v]
    BY DEF MailInv, TypeOK, Return
  <1>3. JobInv' /\ Alone'
    BY <1>2 DEF MailInv, JobInv, Alone, Attends
  <1>4. QED
    BY <1>1, <1>3, RowsKept DEF MailInv

LEMMA PickInv ==
  ASSUME MailInv, NEW w \in Worker, Pick(w) PROVE MailInv'
  <1>1. PICK i \in Id :
          /\ Due(i)
          /\ job' = [job EXCEPT ![w] = [intent |-> i, step |-> "claim", result |-> "unclear",
                                        expired |-> outbox[i].left = 0]]
    BY DEF Pick
  <1> DEFINE new == [intent |-> i, step |-> "claim", result |-> "unclear",
                     expired |-> outbox[i].left = 0]
  <1>2. new \in Job
    BY DEF Job, Answer
  <1>3. \A v \in Worker : job'[v] = IF v = w THEN new ELSE job[v]
    BY <1>1 DEF MailInv, TypeOK
  <1>4. TypeOK'
    BY <1>1, <1>2 DEF MailInv, TypeOK, Pick, requests
  <1>5. JobInv'
    BY <1>1, <1>3 DEF MailInv, JobInv, JobGood, Pick, Due
  <1>6. Alone'
    BY <1>3 DEF MailInv, Alone, Attends
  <1>7. QED
    BY <1>4, <1>5, <1>6, RowsKept DEF MailInv, Pick

\* What the invariant says of a worker's job and its row.
LEMMA AtJob ==
  ASSUME MailInv, NEW w \in Worker, NEW s, At(w, s)
  PROVE  LET i == job[w].intent IN
         /\ job[w] # None /\ job[w] \in Job /\ i \in Id /\ job[w].step = s
         /\ outbox[i] # None /\ outbox[i] \in Intent /\ Row(w) = outbox[i]
         /\ RowGood(outbox[i], taken[i]) /\ JobGood(job[w], outbox[i], taken[i])
         /\ taken[i] \in Nat
  <1>1. job[w] # None /\ job[w] \in Job /\ job[w].step = s
    BY DEF MailInv, TypeOK, At
  <1>2. job[w].intent \in Id
    BY <1>1 DEF Job
  <1>3. QED
    BY <1>1, <1>2 DEF MailInv, TypeOK, RowInv, JobInv, JobGood, Row

\* Nobody else is at the intent of a worker that has claimed it.
LEMMA NobodyElse ==
  ASSUME MailInv, NEW w \in Worker, job[w] # None, job[w].step # "claim",
         NEW v \in Worker, v # w, job[v] # None, job[v].intent = job[w].intent
  PROVE  job[v].step = "claim"
  <1>1. job[w].intent \in Id
    BY DEF MailInv, TypeOK, Job
  <1>2. QED
    BY <1>1 DEF MailInv, Alone, Attends

LEMMA ClaimInv ==
  ASSUME MailInv, NEW w \in Worker, Claim(w) PROVE MailInv'
  <1>1. CASE Row(w).status # "QUEUED"
    BY <1>1, ReturnInv DEF Claim
  <1>2. CASE Row(w).status = "QUEUED"
    <2> DEFINE i   == job[w].intent
               row == outbox[i]
               new == [row EXCEPT !.status = "INDETERMINATE", !.attempts = row.attempts + 1]
    <2>1. /\ job[w] \in Job /\ i \in Id /\ job[w].step = "claim" /\ job[w] # None
          /\ row # None /\ row \in Intent /\ row.status = "QUEUED"
          /\ RowGood(row, taken[i])
      BY <1>2, AtJob DEF Claim
    <2>2. row.attempts < RetryLimit /\ taken[i] = 0 /\ row.attempts \in 0..RetryLimit
      BY <2>1 DEF RowGood, Intent
    <2>3. new \in Intent /\ new # None
      <3>1. row.attempts + 1 \in 0..RetryLimit
        BY <2>2, Limits
      <3>2. new \in Intent
        BY <2>1, <3>1 DEF Intent
      <3>3. QED
        BY <3>2, Limits
    <2>4. new.status = "INDETERMINATE" /\ new.kind = row.kind /\ new.left = row.left
      BY <2>1 DEF Intent
    <2>5. outbox' = [outbox EXCEPT ![i] = new]
      BY <1>2, <2>1 DEF Claim, MailInv, TypeOK, Intent
    <2>6. /\ job' = [job EXCEPT ![w] = [job[w] EXCEPT !.step = "check"]]
          /\ UNCHANGED <<requests, taken>>
      BY <1>2 DEF Claim, Goto
    <2>7. [job[w] EXCEPT !.step = "check"] \in Job
      BY <2>1 DEF Job
    <2>8. \A v \in Worker : job'[v] = IF v = w THEN [job[w] EXCEPT !.step = "check"] ELSE job[v]
      BY <2>6 DEF MailInv, TypeOK
    <2>9. \A j \in Id : outbox'[j] = IF j = i THEN new ELSE outbox[j]
      BY <2>5 DEF MailInv, TypeOK
    <2>10. TypeOK'
      BY <2>3, <2>5, <2>6, <2>7 DEF MailInv, TypeOK, requests
    <2>11. RowInv' /\ LockInv' /\ OneOpenIntent'
      <3>1. Follows(new, row) /\ RowGood(new, taken[i])
        BY <2>1, <2>2, <2>3, <2>4 DEF Follows, Unsettled, RowGood
      <3>2. QED
        BY <2>1, <2>3, <2>5, <2>6, <3>1, RowRewritten
    <2>12. \A v \in Worker : job[v] # None /\ job[v].intent = i => job[v].step = "claim"
      BY <2>1 DEF MailInv, JobInv, JobGood
    <2>13. JobInv'
      <3> SUFFICES ASSUME NEW v \in Worker, job'[v] # None
                   PROVE  JobGood(job'[v], outbox'[job'[v].intent], taken[job'[v].intent])
        BY <2>6 DEF JobInv
      <3>1. CASE v = w
        BY <2>1, <2>2, <2>3, <2>4, <2>8, <2>9, <3>1 DEF JobGood, Job
      <3>2. CASE v # w
        <4>1. job'[v] = job[v] /\ job[v].intent \in Id
          BY <2>8, <3>2 DEF MailInv, TypeOK, Job
        <4>2. QED
          BY <2>3, <2>4, <2>9, <2>12, <4>1 DEF MailInv, JobInv, JobGood
      <3>3. QED
        BY <3>1, <3>2
    <2>14. Alone'
      BY <2>1, <2>8, <2>12 DEF MailInv, Alone, Attends, Job
    <2>15. QED
      BY <2>10, <2>11, <2>13, <2>14 DEF MailInv
  <1>3. QED
    BY <1>1, <1>2

\* A worker settles the row of its job, or gives it back, and returns.
LEMMA SettleInv ==
  ASSUME MailInv, NEW w \in Worker, NEW new \in Intent,
         job[w] # None, job[w].step # "claim", Return(w), UNCHANGED <<requests, taken>>,
         outbox' = [outbox EXCEPT ![job[w].intent] = new],
         Follows(new, outbox[job[w].intent]), RowGood(new, taken[job[w].intent])
  PROVE  MailInv'
  <1> DEFINE i == job[w].intent
  <1>1. i \in Id /\ outbox[i] # None /\ new # None
    BY Limits DEF MailInv, TypeOK, Job, JobInv, JobGood
  <1>2. /\ \A v \in Worker : job'[v] = IF v = w THEN None ELSE job[v]
        /\ \A j \in Id : outbox'[j] = IF j = i THEN new ELSE outbox[j]
    BY DEF MailInv, TypeOK, Return
  <1>3. TypeOK'
    BY DEF MailInv, TypeOK, Return, requests
  <1>4. RowInv' /\ LockInv' /\ OneOpenIntent'
    BY <1>1, RowRewritten
  <1>5. JobInv'
    <2> SUFFICES ASSUME NEW v \in Worker, job'[v] # None
                 PROVE  JobGood(job'[v], outbox'[job'[v].intent], taken[job'[v].intent])
      BY DEF JobInv
    <2>1. v # w /\ job'[v] = job[v] /\ job[v].intent \in Id
      BY <1>2 DEF MailInv, TypeOK, Job
    <2>2. JobGood(job[v], outbox[job[v].intent], taken[job[v].intent])
      BY <2>1 DEF MailInv, JobInv
    <2>3. CASE job[v].intent = i
      <3>1. job[v].step = "claim"
        BY <2>1, <2>3, NobodyElse
      <3>2. QED
        BY <1>1, <1>2, <2>1, <2>3, <3>1 DEF JobGood
    <2>4. CASE job[v].intent # i
      BY <1>2, <2>1, <2>2, <2>4
    <2>5. QED
      BY <2>3, <2>4
  <1>6. Alone'
    BY <1>2 DEF MailInv, Alone, Attends
  <1>7. QED
    BY <1>3, <1>4, <1>5, <1>6 DEF MailInv

\* A worker goes on within its job: j is the job now, n messages of its intent
\* have been taken.
LEMMA GoOnInv ==
  ASSUME MailInv, NEW w \in Worker, NEW j \in Job, NEW n \in {0, 1},
         job[w] # None, job[w].step # "claim", j.intent = job[w].intent,
         job' = [job EXCEPT ![w] = j], taken' = [taken EXCEPT ![j.intent] = n],
         UNCHANGED <<outbox, requests>>,
         JobGood(j, outbox[j.intent], n), RowGood(outbox[j.intent], n)
  PROVE  MailInv'
  <1> DEFINE i == job[w].intent
  <1>1. i \in Id /\ outbox[i] # None /\ outbox[i] \in Intent /\ j # None
    BY Limits DEF MailInv, TypeOK, Job, JobInv, JobGood
  <1>2. /\ \A v \in Worker : job'[v] = IF v = w THEN j ELSE job[v]
        /\ \A k \in Id : taken'[k] = IF k = i THEN n ELSE taken[k]
    BY DEF MailInv, TypeOK
  <1>3. TypeOK'
    <2>1. job' \in [Worker -> Job \cup {None}]
      BY DEF MailInv, TypeOK
    <2>2. taken' \in [Id -> Nat]
      <3>1. taken \in [Id -> Nat] /\ n \in Nat
        BY DEF MailInv, TypeOK
      <3>2. QED
        BY <3>1
    <2>3. QED
      BY <2>1, <2>2 DEF MailInv, TypeOK, requests
  <1>4. RowInv' /\ LockInv' /\ OneOpenIntent'
    <2>1. outbox' = [outbox EXCEPT ![i] = outbox[i]]
      BY <1>1 DEF MailInv, TypeOK
    <2>2. Follows(outbox[i], outbox[i]) /\ RowGood(outbox[i], taken'[i])
      BY <1>1, <1>2 DEF Follows
    <2>3. \A k \in Id \ {i} : taken'[k] = taken[k]
      BY <1>2
    <2> DEFINE row == outbox[i]
    <2>4. row \in Intent /\ outbox' = [outbox EXCEPT ![i] = row]
      BY <1>1, <2>1
    <2> HIDE DEF row
    <2>5. row = outbox[i]
      BY DEF row
    <2>6. QED
      BY <1>1, <2>2, <2>3, <2>4, <2>5, RowRewritten
  <1>5. JobInv'
    <2> SUFFICES ASSUME NEW v \in Worker, job'[v] # None
                 PROVE  JobGood(job'[v], outbox[job'[v].intent], taken'[job'[v].intent])
      BY DEF JobInv
    <2>1. CASE v = w
      BY <1>1, <1>2, <2>1
    <2>2. CASE v # w
      <3>1. job'[v] = job[v] /\ job[v].intent \in Id
        BY <1>2, <2>2 DEF MailInv, TypeOK, Job
      <3>2. JobGood(job[v], outbox[job[v].intent], taken[job[v].intent])
        BY <3>1 DEF MailInv, JobInv
      <3>3. CASE job[v].intent = i
        <4>1. job[v].step = "claim"
          BY <2>2, <3>1, <3>3, NobodyElse
        <4>2. QED
          BY <1>2, <3>1, <3>2, <4>1 DEF JobGood
      <3>4. CASE job[v].intent # i
        BY <1>2, <3>1, <3>2, <3>4
      <3>5. QED
        BY <3>3, <3>4
    <2>3. QED
      BY <2>1, <2>2
  <1>6. Alone'
    <2>1. \A v \in Worker, k \in Id : Attends(v, k)' => Attends(v, k)
      BY <1>2 DEF Attends
    <2>2. QED
      BY <2>1 DEF MailInv, Alone
  <1>7. QED
    BY <1>3, <1>4, <1>5, <1>6 DEF MailInv

LEMMA CheckInv ==
  ASSUME MailInv, NEW w \in Worker, Check(w) PROVE MailInv'
  <1> DEFINE i   == job[w].intent
             row == outbox[i]
  <1>1. /\ job[w] \in Job /\ i \in Id /\ job[w].step = "check" /\ job[w] # None
        /\ row # None /\ row \in Intent /\ row.status = "INDETERMINATE" /\ taken[i] = 0
    BY AtJob DEF Check, JobGood
  <1>2. CASE UNCHANGED outbox /\ job' = [job EXCEPT ![w].step = "send", ![w].expired = FALSE]
    <2> DEFINE j == [job[w] EXCEPT !.step = "send", !.expired = FALSE]
    <2>1. j \in Job /\ j.intent = i /\ j.step = "send"
      BY <1>1 DEF Job
    <2>2. job' = [job EXCEPT ![w] = j]
      BY <1>1, <1>2 DEF MailInv, TypeOK
    <2>3. taken' = [taken EXCEPT ![j.intent] = 0] /\ UNCHANGED <<outbox, requests>>
      BY <1>1, <1>2, <2>1 DEF Check, MailInv, TypeOK
    <2>4. JobGood(j, row, 0) /\ RowGood(row, 0)
      BY <1>1, <2>1 DEF JobGood, RowGood
    <2> HIDE DEF j
    <2>5. QED
      BY <1>1, <2>1, <2>2, <2>3, <2>4, GoOnInv
  <1>3. CASE Return(w) /\ outbox' = [outbox EXCEPT ![job[w].intent].status = "FAILED"]
    <2> DEFINE new == [row EXCEPT !.status = "FAILED"]
    <2>1. new \in Intent /\ new.status = "FAILED" /\ new.kind = row.kind /\ new.left = row.left
      BY <1>1 DEF Intent
    <2>2. outbox' = [outbox EXCEPT ![i] = new]
      BY <1>1, <1>3 DEF MailInv, TypeOK
    <2>3. Follows(new, row) /\ RowGood(new, taken[i])
      BY <1>1, <2>1, Limits DEF Follows, Unsettled, RowGood
    <2>4. Return(w) /\ UNCHANGED <<requests, taken>>
      BY <1>3 DEF Check
    <2> HIDE DEF new
    <2>5. QED
      BY <1>1, <2>1, <2>2, <2>3, <2>4, SettleInv
  <1>4. QED
    BY <1>2, <1>3 DEF Check

\* Over both relays at most one takes the message, and the result says which
\* way it went unless it is unclear.
LEMMA Submission ==
  ASSUME NEW first \in Answer, NEW second \in Answer, NEW n \in Took(first),
         NEW m \in IF FailsOver(first) THEN Took(second) ELSE {0}
  PROVE  LET result == IF FailsOver(first) THEN second ELSE first IN
         /\ result \in Answer /\ n + m \in {0, 1}
         /\ result = "accepted" => n + m = 1
         /\ result = "declined" => n + m = 0
  BY DEF Answer, Took, FailsOver

LEMMA SubmitInv ==
  ASSUME MailInv, NEW w \in Worker, Submit(w) PROVE MailInv'
  <1> DEFINE i   == job[w].intent
             row == outbox[i]
  <1>1. /\ job[w] \in Job /\ i \in Id /\ job[w].step = "send" /\ job[w] # None
        /\ row # None /\ row \in Intent /\ row.status = "INDETERMINATE" /\ taken[i] = 0
    BY AtJob DEF Submit, JobGood
  <1>2. PICK first \in Answer, second \in Answer :
          \E n \in Took(first), m \in IF FailsOver(first) THEN Took(second) ELSE {0} :
            /\ taken' = [taken EXCEPT ![job[w].intent] = @ + n + m]
            /\ job' = [job EXCEPT ![w].step = "record",
                                  ![w].result = IF FailsOver(first) THEN second ELSE first]
    BY DEF Submit
  <1>3. PICK n \in Took(first), m \in IF FailsOver(first) THEN Took(second) ELSE {0} :
            /\ taken' = [taken EXCEPT ![job[w].intent] = @ + n + m]
            /\ job' = [job EXCEPT ![w].step = "record",
                                  ![w].result = IF FailsOver(first) THEN second ELSE first]
    BY <1>2
  <1> DEFINE result == IF FailsOver(first) THEN second ELSE first
             j      == [job[w] EXCEPT !.step = "record", !.result = result]
  <1>4. /\ result \in Answer /\ n + m \in {0, 1}
        /\ result = "accepted" => n + m = 1
        /\ result = "declined" => n + m = 0
    BY Submission
  <1>5. j \in Job /\ j.intent = i /\ j.step = "record" /\ j.result = result
    BY <1>1, <1>4 DEF Job
  <1>6. job' = [job EXCEPT ![w] = j]
    BY <1>1, <1>3 DEF MailInv, TypeOK
  <1>7. taken' = [taken EXCEPT ![j.intent] = n + m]
    <2>1. taken[i] + n + m = n + m
      BY <1>1 DEF Took, Answer
    <2>2. QED
      BY <1>1, <1>3, <1>5, <2>1 DEF MailInv, TypeOK
  <1>8. JobGood(j, row, n + m) /\ RowGood(row, n + m)
    BY <1>1, <1>4, <1>5 DEF JobGood, RowGood
  <1>9. UNCHANGED <<outbox, requests>>
    BY DEF Submit
  <1> HIDE DEF j
  <1>10. QED
    BY <1>1, <1>4, <1>5, <1>6, <1>7, <1>8, <1>9, GoOnInv

\* What is recorded of an attempt is a row that tells the truth.
LEMMA RecordedGood ==
  ASSUME NEW row \in Intent, row.status = "INDETERMINATE", NEW result \in Answer,
         NEW used \in 0..Backoff(row.attempts), NEW n \in {0, 1},
         result = "accepted" => n = 1, result = "declined" => n = 0
  PROVE  LET new == Recorded(row, result, used) IN
         /\ new \in Intent /\ Follows(new, row) /\ RowGood(new, n)
         /\ new.status = "INDETERMINATE" => result = "unclear"
  <1> DEFINE new == Recorded(row, result, used)
  <1>1. row # None /\ row.attempts \in 0..RetryLimit /\ Backoff(row.attempts) - used \in Nat
    BY Limits DEF Intent
  <1>2. CASE result = "accepted"
    <2>1. new = [row EXCEPT !.status = "ACCEPTED"]
      BY <1>2 DEF Recorded
    <2>2. QED
      BY <1>1, <1>2, <2>1, Limits DEF Intent, Follows, Unsettled, RowGood
  <1>3. CASE result = "unclear"
    <2>1. new = [row EXCEPT !.status = "INDETERMINATE"]
      BY <1>3 DEF Recorded
    <2>2. QED
      BY <1>1, <1>3, <2>1, Limits DEF Intent, Follows, Unsettled, RowGood
  <1>4. CASE result = "declined" /\ row.attempts >= RetryLimit
    <2>1. new = [row EXCEPT !.status = "FAILED"]
      BY <1>4 DEF Recorded
    <2>2. QED
      BY <1>1, <1>4, <2>1, Limits DEF Intent, Follows, Unsettled, RowGood
  <1>5. CASE result = "declined" /\ ~(row.attempts >= RetryLimit)
    <2>1. new = [row EXCEPT !.status = "QUEUED", !.wait = Backoff(row.attempts) - used]
      BY <1>5 DEF Recorded
    <2>2. row.attempts < RetryLimit
      BY <1>1, <1>5, Limits
    <2>3. new \in Intent
      BY <1>1, <2>1 DEF Intent
    <2>4. new.status = "QUEUED" /\ new.kind = row.kind /\ new.left = row.left
          /\ new.attempts = row.attempts
      BY <2>1 DEF Intent
    <2>5. QED
      BY <1>1, <1>5, <2>2, <2>3, <2>4, Limits DEF Follows, Unsettled, RowGood
  <1>6. QED
    BY <1>2, <1>3, <1>4, <1>5 DEF Answer

LEMMA RecordInv ==
  ASSUME MailInv, NEW w \in Worker, Record(w) PROVE MailInv'
  <1> DEFINE i   == job[w].intent
             row == outbox[i]
  <1>1. /\ job[w] \in Job /\ i \in Id /\ job[w].step = "record" /\ job[w] # None
        /\ row # None /\ row \in Intent /\ Row(w) = row /\ row.status = "INDETERMINATE"
        /\ RowGood(row, taken[i]) /\ JobGood(job[w], row, taken[i])
    BY AtJob DEF Record, JobGood
  <1>2. PICK used \in 0..Backoff(row.attempts) :
          outbox' = [outbox EXCEPT ![job[w].intent] = Recorded(@, job[w].result, used)]
    BY <1>1 DEF Record
  <1> DEFINE new == Recorded(row, job[w].result, used)
  <1>3. new \in Intent /\ Follows(new, row) /\ RowGood(new, taken[i])
    <2>1. job[w].result \in Answer /\ taken[i] \in {0, 1}
      BY <1>1 DEF Job, RowGood
    <2>2. QED
      BY <1>1, <2>1, RecordedGood DEF JobGood
  <1>4. outbox' = [outbox EXCEPT ![i] = new]
    BY <1>1, <1>2 DEF MailInv, TypeOK
  <1>5. Return(w) /\ UNCHANGED <<requests, taken>>
    BY DEF Record
  <1> HIDE DEF new
  <1>6. QED
    BY <1>1, <1>3, <1>4, <1>5, SettleInv

-----------------------------------------------------------------------------
\* A row that only ages, or whose password is replaced.
Aged(new, row) ==
  /\ new = None <=> row = None
  /\ new # None =>
       /\ new.kind = row.kind /\ new.status = row.status /\ new.attempts = row.attempts
       /\ new.left > 0 => row.left > 0

LEMMA AgedInv ==
  ASSUME MailInv, UNCHANGED <<lock, job, taken>>,
         outbox' \in [Id -> Intent \cup {None}], \A i \in Id : Aged(outbox'[i], outbox[i]),
         req' \in [Request -> Asking \cup {None}],
         \A r \in Request : Asks(r, "insert")' =>
           Asks(r, "insert") /\ req'[r].kind = req[r].kind
  PROVE  MailInv'
  <1>1. TypeOK'
    BY DEF MailInv, TypeOK
  <1>2. \A i \in Id : Follows(outbox'[i], outbox[i])
    BY DEF Aged, Follows
  <1>3. LockInv' /\ OneOpenIntent'
    BY <1>2, NoneOpens DEF MailInv
  <1>4. RowInv'
    BY DEF MailInv, RowInv, RowGood, Aged
  <1>5. JobInv'
    BY DEF MailInv, TypeOK, Job, JobInv, JobGood, Aged
  <1>6. Alone'
    BY DEF MailInv, Alone, Attends
  <1>7. QED
    BY <1>1, <1>3, <1>4, <1>5, <1>6 DEF MailInv

LEMMA RenewAges ==
  ASSUME TypeOK, Renew
  PROVE  /\ outbox' \in [Id -> Intent \cup {None}] /\ \A i \in Id : Aged(outbox'[i], outbox[i])
         /\ req' \in [Request -> Asking \cup {None}]
         /\ \A r \in Request : Asks(r, "insert")' =>
              Asks(r, "insert") /\ req'[r].kind = req[r].kind
  <1>1. \A x \in Intent \cup {None} :
          Outdated(x) \in Intent \cup {None} /\ Aged(Outdated(x), x)
    <2> SUFFICES ASSUME NEW x \in Intent PROVE Outdated(x) \in Intent /\ Aged(Outdated(x), x)
      BY DEF Outdated, Aged
    <2>1. [x EXCEPT !.current = FALSE] \in Intent
      BY DEF Intent
    <2>2. QED
      BY <2>1, Limits DEF Outdated, Aged, Intent
  <1>2. \A x \in Asking \cup {None} :
          /\ Outdated(x) \in Asking \cup {None} /\ (Outdated(x) = None <=> x = None)
          /\ x # None => Outdated(x).kind = x.kind /\ Outdated(x).step = x.step
    <2> SUFFICES ASSUME NEW x \in Asking
                 PROVE  /\ Outdated(x) \in Asking
                        /\ Outdated(x).kind = x.kind /\ Outdated(x).step = x.step
      BY Limits DEF Outdated
    <2>1. QED
      BY DEF Outdated, Asking
  <1>3. /\ \A i \in Id : outbox'[i] = Outdated(outbox[i]) /\ outbox[i] \in Intent \cup {None}
        /\ \A r \in Request : req'[r] = Outdated(req[r]) /\ req[r] \in Asking \cup {None}
    BY DEF Renew, TypeOK
  <1>4. /\ outbox' \in [Id -> Intent \cup {None}] /\ req' \in [Request -> Asking \cup {None}]
    BY <1>1, <1>2 DEF Renew, TypeOK
  <1>5. \A r \in Request : Asks(r, "insert")' =>
          Asks(r, "insert") /\ req'[r].kind = req[r].kind
    BY <1>2, <1>3 DEF Asks
  <1>6. QED
    BY <1>1, <1>3, <1>4, <1>5

LEMMA TickAges ==
  ASSUME TypeOK, Tick
  PROVE  outbox' \in [Id -> Intent \cup {None}] /\ \A i \in Id : Aged(outbox'[i], outbox[i])
  <1> DEFINE Older(row) ==
        IF row = None THEN None
        ELSE [row EXCEPT !.left = Less(@), !.wait = Less(@), !.fresh = Less(@)]
  <1>1. \A row \in Intent \cup {None} :
          Older(row) \in Intent \cup {None} /\ Aged(Older(row), row)
    <2> SUFFICES ASSUME NEW row \in Intent PROVE Older(row) \in Intent /\ Aged(Older(row), row)
      BY DEF Aged
    <2>1. /\ row # None /\ row.left \in 0..Lifetime /\ row.wait \in Nat
          /\ row.fresh \in 0..Cooldown
      BY Limits DEF Intent
    <2>2. /\ Less(row.left) \in 0..Lifetime /\ Less(row.wait) \in Nat
          /\ Less(row.fresh) \in 0..Cooldown /\ (Less(row.left) > 0 => row.left > 0)
      BY <2>1, Limits DEF Less
    <2>3. Older(row) = [row EXCEPT !.left = Less(row.left), !.wait = Less(row.wait),
                                   !.fresh = Less(row.fresh)]
      BY <2>1 DEF Intent
    <2>4. Older(row) \in Intent
      BY <2>2, <2>3 DEF Intent
    <2>5. /\ Older(row).kind = row.kind /\ Older(row).status = row.status
          /\ Older(row).attempts = row.attempts /\ Older(row).left = Less(row.left)
      BY <2>3 DEF Intent
    <2> HIDE DEF Older
    <2>6. QED
      BY <2>1, <2>2, <2>4, <2>5, Limits DEF Aged
  <1>2. outbox' = [i \in Id |-> Older(outbox[i])]
    BY DEF Tick
  <1> HIDE DEF Older
  <1>3. QED
    BY <1>1, <1>2 DEF TypeOK

LEMMA NextInv == MailInv /\ [Next]_vars => MailInv'
  <1> SUFFICES ASSUME MailInv, [Next]_vars PROVE MailInv'
    OBVIOUS
  <1>1. ASSUME NEW r \in Request, Handle(r) PROVE MailInv'
    BY <1>1, AskInv, LookInv, InsertInv, AbortInv DEF Handle
  <1>2. ASSUME NEW w \in Worker, Work(w) PROVE MailInv'
    BY <1>2, PickInv, ClaimInv, CheckInv, SubmitInv, RecordInv DEF Work
  <1>3. ASSUME NEW w \in Worker, Crash(w) PROVE MailInv'
    BY <1>3, ReturnInv DEF Crash
  <1>4. ASSUME Renew PROVE MailInv'
    <2>1. UNCHANGED <<lock, job, taken>> /\ TypeOK
      BY <1>4 DEF Renew, MailInv
    <2>2. QED
      BY <1>4, <2>1, RenewAges, AgedInv
  <1>5. ASSUME Tick PROVE MailInv'
    <2>1. UNCHANGED <<requests, job, taken>> /\ TypeOK
      BY <1>5 DEF Tick, MailInv
    <2>2. UNCHANGED <<lock, job, taken>> /\ req' \in [Request -> Asking \cup {None}]
      BY <2>1 DEF requests, TypeOK
    <2>3. \A r \in Request : Asks(r, "insert")' =>
            Asks(r, "insert") /\ req'[r].kind = req[r].kind
      BY <2>1 DEF requests, Asks
    <2>4. QED
      BY <1>5, <2>1, <2>2, <2>3, TickAges, AgedInv
  <1>6. ASSUME UNCHANGED vars PROVE MailInv'
    BY <1>6 DEF vars, MailInv, TypeOK, RowInv, JobInv, Alone, Attends, LockInv, Asks,
                OneOpenIntent, Existing
  <1>7. QED
    BY <1>1, <1>2, <1>3, <1>4, <1>5, <1>6 DEF Next

LEMMA MailInvariant == Spec => []MailInv
  BY InitInv, NextInv, PTL DEF Spec

\* The rows, requests and jobs have their types; an attempt too many would break
\* the range of attempts (process_one).
THEOREM OutboxTypes == Spec => []TypeOK
  BY MailInvariant, PTL DEF MailInv

\* However many workers, attempts and deaths: no relay takes an intent twice, and
\* no two relays take it (process_one, _smtp_send, _send).
THEOREM OutboxAtMostOnce == Spec => []AtMostOneMessage
  <1>1. MailInv => AtMostOneMessage
    BY DEF MailInv, RowInv, RowGood, AtMostOneMessage
  <1>2. QED
    BY <1>1, MailInvariant, PTL

\* A row settled as ACCEPTED was taken, one QUEUED or FAILED was not.
THEOREM OutboxOutcomeTrue == Spec => []OutcomeTrue
  <1>1. MailInv => OutcomeTrue
    BY DEF MailInv, RowInv, RowGood, OutcomeTrue
  <1>2. QED
    BY <1>1, MailInvariant, PTL

\* Concurrent requests never leave two open intents of a kind
\* (enqueue_identity_email).
THEOREM OutboxOneOpen == Spec => []OneOpenIntent
  BY MailInvariant, PTL DEF MailInv

-----------------------------------------------------------------------------
(***************************************************************************)
(* The refinement: what each step is in IdentityMail.                      *)
(***************************************************************************)

\* Where every intent stands, as IdentityMail sees it.
Standing == [i \in Id |-> MailState(i)]

\* An intent stands where it stood if its status is what it was and, when that is
\* INDETERMINATE, so is whether a worker is at it.
LEMMA StandsStill ==
  ASSUME TypeOK, NEW i \in Id, outbox'[i] = None <=> outbox[i] = None,
         outbox[i] # None => outbox'[i].status = outbox[i].status,
         outbox[i] # None /\ outbox[i].status = "INDETERMINATE" => (Attended(i)' <=> Attended(i))
  PROVE  MailState(i)' = MailState(i)
  <1>1. CASE outbox[i] = None
    BY <1>1 DEF MailState
  <1>2. CASE outbox[i] # None /\ outbox[i].status = "INDETERMINATE"
    BY <1>2 DEF MailState
  <1>3. CASE outbox[i] # None /\ outbox[i].status # "INDETERMINATE"
    <2>1. outbox[i].status \in {"QUEUED", "ACCEPTED", "FAILED"}
      BY <1>3 DEF TypeOK, Intent
    <2>2. QED
      BY <1>3, <2>1 DEF MailState
  <1>4. QED
    BY <1>1, <1>2, <1>3

LEMMA Stutters ==
  ASSUME \A i \in Id : MailState(i)' = MailState(i), taken' = taken
  PROVE  UNCHANGED <<Standing, taken>>
  BY DEF Standing

\* One intent is settled, truthfully.
LEMMA Settles ==
  ASSUME NEW i \in Id, MailState(i) = "pending",
         MailState(i)' \in {"sent", "dropped", "unknown"},
         MailState(i)' = "sent" => taken[i] = 1, MailState(i)' = "dropped" => taken[i] = 0,
         \A j \in Id \ {i} : MailState(j)' = MailState(j), taken' = taken
  PROVE  Promise!Next
  <1>1. Standing' = [Standing EXCEPT ![i] = Standing'[i]]
    BY DEF Standing
  <1>2. Standing[i] = MailState(i) /\ Standing'[i] = MailState(i)'
    BY DEF Standing
  <1>3. Promise!Settle(i)
    BY <1>1, <1>2 DEF Promise!Settle, Standing
  <1>4. QED
    BY <1>2, <1>3 DEF Promise!Next, Standing

\* A worker at an intent it has claimed: the intent is pending, and no longer
\* attended once the worker returns.
LEMMA AtPending ==
  ASSUME MailInv, NEW w \in Worker, job[w] # None, job[w].step # "claim"
  PROVE  /\ job[w].intent \in Id /\ MailState(job[w].intent) = "pending"
         /\ Return(w) =>
              \A k \in Id : Attended(k)' <=> (Attended(k) /\ k # job[w].intent)
  <1> DEFINE i == job[w].intent
  <1>1. i \in Id /\ outbox[i] # None /\ outbox[i].status = "INDETERMINATE" /\ Attended(i)
    BY DEF MailInv, TypeOK, Job, JobInv, JobGood, Attended
  <1>2. MailState(i) = "pending"
    BY <1>1 DEF MailState
  <1>3. ASSUME Return(w), NEW k \in Id
        PROVE  Attended(k)' <=> (Attended(k) /\ k # i)
    <2>1. \A v \in Worker : job'[v] = IF v = w THEN None ELSE job[v]
      BY <1>3 DEF MailInv, TypeOK, Return
    <2>2. \A v \in Worker : v # w => ~Attends(v, i)
      BY NobodyElse DEF Attends
    <2>3. QED
      BY <2>1, <2>2 DEF Attended, Attends
  <1>4. QED
    BY <1>1, <1>2, <1>3

\* An asked-for intent appears, nothing else changes.
LEMMA InsertAsks ==
  ASSUME MailInv, NEW r \in Request, Insert(r) PROVE Promise!Next
  <1> DEFINE new == NewIntent(req[r].kind, req[r].current)
  <1>1. PICK i \in Id : outbox[i] = None /\ outbox' = [outbox EXCEPT ![i] = new]
    BY DEF Insert
  <1>2. Asks(r, "insert") /\ req[r] \in Asking /\ job' = job /\ taken' = taken
    BY DEF MailInv, TypeOK, Insert, Asks
  <1>3. new # None /\ new.status = "QUEUED"
    BY <1>2, NewIntentGood DEF Asking, NewIntent
  <1>4. \A j \in Id : outbox'[j] = IF j = i THEN new ELSE outbox[j]
    BY <1>1 DEF MailInv, TypeOK
  <1>5. MailState(i) = "absent" /\ MailState(i)' = "pending"
    BY <1>1, <1>3, <1>4 DEF MailState
  <1>6. \A j \in Id : j # i => MailState(j)' = MailState(j)
    BY <1>2, <1>4, StandsStill DEF MailInv, Attended
  <1>7. Standing' = [Standing EXCEPT ![i] = "pending"] /\ Standing[i] = "absent"
    BY <1>5, <1>6 DEF Standing
  <1>8. Promise!Ask(i)
    BY <1>2, <1>7 DEF Promise!Ask, Standing
  <1>9. QED
    BY <1>8 DEF Promise!Next

\* A step of IdentityMail, or none.
Refines == Promise!Next \/ UNCHANGED <<Standing, taken>>

LEMMA KeepsRefine ==
  ASSUME TypeOK, UNCHANGED <<outbox, taken>>, \A i \in Id : Attended(i)' <=> Attended(i)
  PROVE  Refines
  <1>1. \A i \in Id : MailState(i)' = MailState(i)
    BY StandsStill
  <1>2. QED
    BY <1>1, Stutters DEF Refines

LEMMA AgedRefine ==
  ASSUME TypeOK, UNCHANGED <<job, taken>>, \A i \in Id : Aged(outbox'[i], outbox[i])
  PROVE  Refines
  <1>1. \A i \in Id : MailState(i)' = MailState(i)
    BY StandsStill DEF Aged, Attended
  <1>2. QED
    BY <1>1, Stutters DEF Refines

\* A worker that returns without a word leaves its intent unknown for good.
LEMMA ReturnRefines ==
  ASSUME MailInv, NEW w \in Worker, job[w] # None, Return(w), UNCHANGED <<outbox, taken>>
  PROVE  Refines
  <1>1. CASE job[w].step = "claim"
    <2>1. \A v \in Worker : job'[v] = IF v = w THEN None ELSE job[v]
      BY DEF MailInv, TypeOK, Return
    <2>2. \A i \in Id : Attended(i)' <=> Attended(i)
      BY <1>1, <2>1 DEF Attended
    <2>3. QED
      BY <2>2, KeepsRefine DEF MailInv
  <1>2. CASE job[w].step # "claim"
    <2>1. PICK i \in Id : i = job[w].intent
      BY <1>2, AtPending
    <2>2. /\ MailState(i) = "pending"
          /\ \A k \in Id : Attended(k)' <=> (Attended(k) /\ k # i)
      BY <1>2, <2>1, AtPending
    <2>3. outbox[i] # None /\ outbox[i].status = "INDETERMINATE"
      BY <1>2, <2>1 DEF MailInv, JobInv, JobGood
    <2>4. MailState(i)' = "unknown"
      BY <2>2, <2>3 DEF MailState
    <2>5. \A k \in Id \ {i} : MailState(k)' = MailState(k)
      BY <2>2, StandsStill DEF MailInv
    <2>6. QED
      BY <2>2, <2>4, <2>5, Settles DEF Refines
  <1>3. QED
    BY <1>1, <1>2

LEMMA PickRefines ==
  ASSUME MailInv, NEW w \in Worker, Pick(w) PROVE Refines
  <1>1. PICK i \in Id :
          job' = [job EXCEPT ![w] = [intent |-> i, step |-> "claim", result |-> "unclear",
                                     expired |-> outbox[i].left = 0]]
    BY DEF Pick
  <1> DEFINE new == [intent |-> i, step |-> "claim", result |-> "unclear",
                     expired |-> outbox[i].left = 0]
  <1>2. \A v \in Worker : job'[v] = IF v = w THEN new ELSE job[v]
    BY <1>1 DEF MailInv, TypeOK
  <1>3. job[w] = None /\ new.step = "claim"
    BY DEF Pick
  <1>4. \A k \in Id : Attended(k)' <=> Attended(k)
    BY <1>2, <1>3 DEF Attended
  <1>5. QED
    BY <1>4, KeepsRefine DEF MailInv, Pick

LEMMA ClaimRefines ==
  ASSUME MailInv, NEW w \in Worker, Claim(w) PROVE Refines
  <1>1. CASE Row(w).status # "QUEUED"
    BY <1>1, ReturnRefines DEF Claim, At
  <1>2. CASE Row(w).status = "QUEUED"
    <2>1. PICK i \in Id : i = job[w].intent
      BY AtJob DEF Claim
    <2>2. /\ job[w] \in Job /\ job[w].step = "claim" /\ job[w] # None
          /\ outbox[i] # None /\ outbox[i] \in Intent /\ outbox[i].status = "QUEUED"
      BY <1>2, <2>1, AtJob DEF Claim
    <2>3. /\ outbox' = [outbox EXCEPT ![i].status = "INDETERMINATE", ![i].attempts = @ + 1]
          /\ job' = [job EXCEPT ![w].step = "check"] /\ taken' = taken
      BY <1>2, <2>1 DEF Claim, Goto
    <2>4. outbox'[i] # None /\ outbox'[i].status = "INDETERMINATE"
      <3>1. outbox'[i] \in Intent \cup {None}
        BY ClaimInv DEF MailInv, TypeOK
      <3>2. outbox'[i].status = "INDETERMINATE"
        BY <2>2, <2>3 DEF MailInv, TypeOK, Intent
      <3>3. job'[w] # None /\ job'[w].intent = i
        <4>1. job'[w] = [job[w] EXCEPT !.step = "check"]
          BY <2>3 DEF MailInv, TypeOK
        <4>2. [job[w] EXCEPT !.step = "check"] \in Job
          BY <2>2 DEF Job
        <4>3. QED
          BY <2>1, <2>2, <4>1, <4>2, Limits DEF Job
      <3>4. JobInv'
        BY ClaimInv DEF MailInv
      <3>5. QED
        BY <3>2, <3>3, <3>4 DEF JobInv, JobGood
    <2>5. \A k \in Id \ {i} : outbox'[k] = outbox[k]
      BY <2>3 DEF MailInv, TypeOK
    <2>6. /\ \A v \in Worker \ {w} : job'[v] = job[v]
          /\ job'[w] # None /\ job'[w].intent = i /\ job'[w].step = "check"
      <3>1. [job[w] EXCEPT !.step = "check"] \in Job
        BY <2>2 DEF Job
      <3>2. job'[w] = [job[w] EXCEPT !.step = "check"]
        BY <2>3 DEF MailInv, TypeOK
      <3>3. QED
        BY <2>1, <2>2, <2>3, <3>1, <3>2, Limits DEF MailInv, TypeOK, Job
    <2>7. MailState(i)' = "pending" /\ MailState(i) = "pending"
      <3>1. Attended(i)'
        BY <2>6 DEF Attended
      <3>2. QED
        BY <2>2, <2>4, <3>1 DEF MailState
    <2>8. \A k \in Id \ {i} : MailState(k)' = MailState(k)
      <3>1. \A k \in Id \ {i} : Attended(k)' <=> Attended(k)
        BY <2>1, <2>2, <2>6 DEF Attended
      <3>2. QED
        BY <2>5, <3>1, StandsStill DEF MailInv
    <2>9. QED
      BY <2>3, <2>7, <2>8, Stutters DEF Refines
  <1>3. QED
    BY <1>1, <1>2

\* A worker that writes its outcome and returns settles the intent or, by
\* queueing it again, leaves it pending.
LEMMA SettleRefines ==
  ASSUME MailInv, NEW w \in Worker, NEW i \in Id, i = job[w].intent, NEW new \in Intent,
         job[w] # None, job[w].step # "claim", Return(w), taken' = taken,
         outbox' = [outbox EXCEPT ![i] = new], RowGood(new, taken[i])
  PROVE  Refines
  <1>1. /\ MailState(i) = "pending"
        /\ \A k \in Id : Attended(k)' <=> (Attended(k) /\ k # i)
    BY AtPending
  <1>2. new # None /\ \A k \in Id : outbox'[k] = IF k = i THEN new ELSE outbox[k]
    BY Limits DEF MailInv, TypeOK
  <1>3. \A k \in Id \ {i} : MailState(k)' = MailState(k)
    BY <1>1, <1>2, StandsStill DEF MailInv
  <1>4. CASE new.status = "QUEUED"
    <2>1. MailState(i)' = MailState(i)
      BY <1>1, <1>2, <1>4 DEF MailState
    <2>2. QED
      BY <1>3, <2>1, Stutters DEF Refines
  <1>5. CASE new.status # "QUEUED"
    <2>1. new.status \in {"INDETERMINATE", "ACCEPTED", "FAILED"}
      BY <1>5 DEF Intent
    <2>2. /\ MailState(i)' \in {"sent", "dropped", "unknown"}
          /\ MailState(i)' = "sent" => new.status = "ACCEPTED"
          /\ MailState(i)' = "dropped" => new.status = "FAILED"
      BY <1>1, <1>2, <2>1 DEF MailState
    <2>3. /\ MailState(i)' = "sent" => taken[i] = 1
          /\ MailState(i)' = "dropped" => taken[i] = 0
      BY <1>2, <2>2 DEF RowGood
    <2>4. QED
      BY <1>1, <1>3, <2>2, <2>3, Settles DEF Refines
  <1>6. QED
    BY <1>4, <1>5

LEMMA CheckRefines ==
  ASSUME MailInv, NEW w \in Worker, Check(w) PROVE Refines
  <1>1. PICK i \in Id : i = job[w].intent
    BY AtJob DEF Check
  <1>2. /\ job[w] \in Job /\ job[w].step = "check" /\ job[w] # None
        /\ outbox[i] # None /\ outbox[i] \in Intent /\ taken[i] = 0
    BY <1>1, AtJob DEF Check, JobGood
  <1>3. CASE UNCHANGED outbox /\ job' = [job EXCEPT ![w].step = "send", ![w].expired = FALSE]
    <2> DEFINE j == [job[w] EXCEPT !.step = "send", !.expired = FALSE]
    <2>1. j # None /\ j.intent = job[w].intent /\ j.step = "send"
      <3>1. j \in Job
        BY <1>2 DEF Job
      <3>2. QED
        BY <1>2, <3>1, Limits DEF Job
    <2>2. \A v \in Worker : job'[v] = IF v = w THEN j ELSE job[v]
      BY <1>2, <1>3 DEF MailInv, TypeOK
    <2> HIDE DEF j
    <2>3. \A k \in Id : Attended(k)' <=> Attended(k)
      BY <1>2, <2>1, <2>2 DEF Attended
    <2>4. QED
      BY <1>3, <2>3, KeepsRefine DEF MailInv, Check
  <1>4. CASE Return(w) /\ outbox' = [outbox EXCEPT ![job[w].intent].status = "FAILED"]
    <2> DEFINE new == [outbox[i] EXCEPT !.status = "FAILED"]
    <2>1. new \in Intent /\ new.status = "FAILED"
      BY <1>2 DEF Intent
    <2>2. outbox' = [outbox EXCEPT ![i] = new]
      BY <1>1, <1>2, <1>4 DEF MailInv, TypeOK
    <2>3. RowGood(new, taken[i])
      BY <1>2, <2>1, Limits DEF RowGood
    <2> HIDE DEF new
    <2>4. QED
      BY <1>1, <1>2, <1>4, <2>1, <2>2, <2>3, SettleRefines DEF Check
  <1>5. QED
    BY <1>3, <1>4 DEF Check

LEMMA RecordRefines ==
  ASSUME MailInv, NEW w \in Worker, Record(w) PROVE Refines
  <1>1. PICK i \in Id : i = job[w].intent
    BY AtJob DEF Record
  <1>2. /\ job[w] \in Job /\ job[w].step = "record" /\ job[w] # None
        /\ outbox[i] # None /\ outbox[i] \in Intent /\ Row(w) = outbox[i]
        /\ outbox[i].status = "INDETERMINATE"
        /\ RowGood(outbox[i], taken[i]) /\ JobGood(job[w], outbox[i], taken[i])
    BY <1>1, AtJob DEF Record, JobGood
  <1>3. PICK used \in 0..Backoff(outbox[i].attempts) :
          outbox' = [outbox EXCEPT ![job[w].intent] = Recorded(@, job[w].result, used)]
    BY <1>2 DEF Record
  <1> DEFINE new == Recorded(outbox[i], job[w].result, used)
  <1>4. new \in Intent /\ RowGood(new, taken[i])
    <2>1. job[w].result \in Answer /\ taken[i] \in {0, 1}
      BY <1>2 DEF Job, RowGood
    <2>2. QED
      BY <1>2, <2>1, RecordedGood DEF JobGood
  <1>5. outbox' = [outbox EXCEPT ![i] = new]
    BY <1>1, <1>2, <1>3 DEF MailInv, TypeOK
  <1> HIDE DEF new
  <1>6. QED
    BY <1>1, <1>2, <1>4, <1>5, SettleRefines DEF Record

LEMMA SubmitRefines ==
  ASSUME MailInv, NEW w \in Worker, Submit(w) PROVE Refines
  <1>1. PICK i \in Id : i = job[w].intent
    BY AtJob DEF Submit
  <1>2. /\ job[w] \in Job /\ job[w].step = "send" /\ job[w] # None /\ taken[i] = 0
    BY <1>1, AtJob DEF Submit, JobGood
  <1>3. PICK first \in Answer, second \in Answer :
          \E n \in Took(first), m \in IF FailsOver(first) THEN Took(second) ELSE {0} :
            /\ taken' = [taken EXCEPT ![job[w].intent] = @ + n + m]
            /\ job' = [job EXCEPT ![w].step = "record",
                                  ![w].result = IF FailsOver(first) THEN second ELSE first]
    BY DEF Submit
  <1>4. PICK n \in Took(first), m \in IF FailsOver(first) THEN Took(second) ELSE {0} :
            /\ taken' = [taken EXCEPT ![job[w].intent] = @ + n + m]
            /\ job' = [job EXCEPT ![w].step = "record",
                                  ![w].result = IF FailsOver(first) THEN second ELSE first]
    BY <1>3
  <1> DEFINE result == IF FailsOver(first) THEN second ELSE first
             j      == [job[w] EXCEPT !.step = "record", !.result = result]
  <1>5. result \in Answer /\ n + m \in {0, 1}
    BY Submission
  <1>6. j # None /\ j.intent = job[w].intent /\ j.step = "record"
    <2>1. j \in Job
      BY <1>2, <1>5 DEF Job
    <2>2. QED
      BY <1>2, <2>1, Limits DEF Job
  <1>7. \A v \in Worker : job'[v] = IF v = w THEN j ELSE job[v]
    BY <1>2, <1>4 DEF MailInv, TypeOK
  <1> HIDE DEF j
  <1>8. \A k \in Id : Attended(k)' <=> Attended(k)
    BY <1>2, <1>6, <1>7 DEF Attended
  <1>9. outbox' = outbox /\ TypeOK
    BY DEF Submit, MailInv
  <1>10. Standing' = Standing /\ Standing[i] = "pending"
    <2>1. \A k \in Id : MailState(k)' = MailState(k)
      BY <1>8, <1>9, StandsStill
    <2>2. MailState(i) = "pending"
      BY <1>1, <1>2, AtPending
    <2>3. QED
      BY <2>1, <2>2 DEF Standing
  <1>11. taken' = [taken EXCEPT ![i] = n + m]
    <2>1. taken[i] + n + m = n + m
      BY <1>2 DEF Took, Answer
    <2>2. QED
      BY <1>1, <1>4, <2>1 DEF MailInv, TypeOK
  <1>12. CASE n + m = 0
    <2>1. taken' = taken
      BY <1>2, <1>11, <1>12 DEF MailInv, TypeOK
    <2>2. QED
      BY <1>10, <2>1 DEF Refines
  <1>13. CASE n + m = 1
    <2>1. Promise!Take(i)
      BY <1>2, <1>10, <1>11, <1>13 DEF Promise!Take, Standing
    <2>2. QED
      BY <1>10, <2>1 DEF Refines, Promise!Next, Standing
  <1>14. QED
    BY <1>5, <1>12, <1>13

\* Requests that insert nothing are not seen.
LEMMA HandleRefines ==
  ASSUME MailInv, NEW r \in Request, Handle(r) PROVE Refines
  <1>1. CASE Insert(r)
    BY <1>1, InsertAsks DEF Refines
  <1>2. CASE ~Insert(r)
    <2>1. UNCHANGED <<outbox, job, taken>>
      BY <1>2 DEF Handle, Ask, Look, Abort
    <2>2. \A i \in Id : Attended(i)' <=> Attended(i)
      BY <2>1 DEF Attended
    <2>3. QED
      BY <2>1, <2>2, KeepsRefine DEF MailInv
  <1>3. QED
    BY <1>1, <1>2

\* Every step is one of the promise's or none.
LEMMA NextRefines == MailInv /\ [Next]_vars => Refines
  <1> SUFFICES ASSUME MailInv, [Next]_vars PROVE Refines
    OBVIOUS
  <1>1. ASSUME NEW w \in Worker, Work(w) PROVE Refines
    BY <1>1, PickRefines, ClaimRefines, CheckRefines, SubmitRefines, RecordRefines DEF Work
  <1>2. ASSUME NEW w \in Worker, Crash(w) PROVE Refines
    BY <1>2, ReturnRefines DEF Crash
  <1>3. ASSUME Renew PROVE Refines
    BY <1>3, RenewAges, AgedRefine DEF MailInv, Renew
  <1>4. ASSUME Tick PROVE Refines
    BY <1>4, TickAges, AgedRefine DEF MailInv, Tick
  <1>5. ASSUME UNCHANGED vars PROVE Refines
    <2>1. UNCHANGED <<outbox, job, taken>>
      BY <1>5 DEF vars
    <2>2. \A i \in Id : Attended(i)' <=> Attended(i)
      BY <2>1 DEF Attended
    <2>3. QED
      BY <2>1, <2>2, KeepsRefine DEF MailInv
  <1>6. QED
    BY <1>1, <1>2, <1>3, <1>4, <1>5, HandleRefines DEF Next

LEMMA InitRefines == Init => Promise!Init
  <1> SUFFICES ASSUME Init PROVE Promise!Init
    OBVIOUS
  <1>1. \A i \in Id : MailState(i) \in {"absent", "pending"}
    <2>1. /\ NewIntent("verification", TRUE) # None
          /\ NewIntent("verification", TRUE).status = "QUEUED"
      BY NewIntentGood DEF Kind, NewIntent
    <2>2. QED
      BY <2>1 DEF Init, MailState
  <1>2. QED
    BY <1>1 DEF Promise!Init, Init

\* The outbox keeps the promise of IdentityMail: whatever workers, requests and
\* relays do and however often workers die, an email asked for is taken at most
\* once and settled once, truthfully (apps/email/outbox_worker.py).
THEOREM OutboxKeepsPromise == Spec => ImplementsMail
  <1>1. MailInv /\ [Next]_vars => [Promise!Next]_<<Standing, taken>>
    BY NextRefines DEF Refines
  <1>2. QED
    BY <1>1, InitRefines, MailInvariant, PTL DEF Spec, ImplementsMail, Promise!Spec, Standing

=============================================================================
