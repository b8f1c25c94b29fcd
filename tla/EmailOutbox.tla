---------------------------- MODULE EmailOutbox -----------------------------
(***************************************************************************)
(* The identity email outbox of one user: enqueue_identity_email() under   *)
(* the requests that call it (apps/api/routers/auth.py), process_one() of  *)
(* the workers (apps/email/outbox_worker.py) and the two relays behind     *)
(* _send() (apps/email/sender.py).  A step is one database statement or    *)
(* transaction, or one submission to a relay; a worker may die between any *)
(* two.  Time is kept as what is left of it: minutes to a row's expiry, to *)
(* its next attempt and to the end of its cooldown.                        *)
(***************************************************************************)
EXTENDS Naturals

CONSTANTS
  Worker,        \* outbox_worker processes
  Request,       \* API requests that may be in progress at once
  RetryLimit,    \* attempts at one intent: 5
  BackoffCap,    \* longest delay between two of them: 60 minutes
  Lifetime,      \* of an intent: 24 hours
  Cooldown,      \* between two intents of a kind: 1 minute
  MaxIntents,    \* bound on the user's intents
  None

Id   == 1..MaxIntents    \* in the order of created_at
Kind == {"verification", "password_reset"}

\* Minutes before the attempt that follows the n-th.
Backoff(n) == IF 2^n < BackoffCap THEN 2^n ELSE BackoffCap

ASSUME LimitAssumption ==
  /\ RetryLimit \in Nat \ {0} /\ MaxIntents \in Nat \ {0}
  /\ {BackoffCap, Lifetime, Cooldown} \subseteq Nat
  /\ \A n \in 0..RetryLimit : Backoff(n) \in Nat

VARIABLES
  outbox,   \* outbox[i]: row of identity_email_outbox, None before its insert
  lock,     \* request that holds the user's row FOR UPDATE, None if nobody
  req,      \* req[r]: the request in progress, None if none
  job,      \* job[w]: what process_one() is at, None between two calls
  taken     \* observation: taken[i], how often a relay took a message of i

vars == <<outbox, lock, req, job, taken>>
requests == <<lock, req>>

Status  == {"INACTIVE", "ACTIVE", "LOCKED", "SUSPENDED"}
Answer == {"accepted", "declined", "unclear"}

\* current: the password is the one credential_version was taken from (always so
\* in a verification).  left, wait, fresh: minutes to expires_at, to
\* next_attempt_at and to the end of the minute that began at created_at.
Intent == [kind : Kind, current : BOOLEAN,
           status : {"QUEUED", "INDETERMINATE", "ACCEPTED", "FAILED"},
           attempts : 0..RetryLimit, left : 0..Lifetime, wait : Nat, fresh : 0..Cooldown]

\* current: of the password that was read.
Asking == [kind : Kind, current : BOOLEAN, step : {"ask", "insert"}]

\* expired: as of when the worker read the clock.
Job == [intent : Id, step : {"claim", "check", "send", "record"},
        result : Answer, expired : BOOLEAN]

ASSUME NoneAssumption == None \notin Intent \cup Asking \cup Job \cup Request

TypeOK ==
  /\ outbox \in [Id -> Intent \cup {None}]
  /\ lock \in Request \cup {None}
  /\ req \in [Request -> Asking \cup {None}]
  /\ job \in [Worker -> Job \cup {None}]
  /\ taken \in [Id -> Nat]

NewIntent(kind, current) ==
  [kind |-> kind, current |-> current, status |-> "QUEUED", attempts |-> 0,
   left |-> Lifetime, wait |-> 0, fresh |-> Cooldown]

\* Registration has committed the user and the first intent together; a user
\* who came another way (an administrator, GitHub, migration) has none.
Init ==
  /\ \/ outbox = [i \in Id |-> IF i = 1 THEN NewIntent("verification", TRUE) ELSE None]
     \/ outbox = [i \in Id |-> None]
  /\ lock = None /\ req = [r \in Request |-> None]
  /\ job = [w \in Worker |-> None]
  /\ taken = [i \in Id |-> 0]

-----------------------------------------------------------------------------
\* Requests for an email: resend_verification(), request_password_reset().

Asks(r, step) == req[r] # None /\ req[r].step = step

MayAsk(k, status) ==
  IF k = "verification" THEN status = "INACTIVE" ELSE status # "SUSPENDED"

\* The user is read without a lock.  Its status is any: administrators, login()
\* and confirm_email_verification() write it between any two reads of it.
Ask(r, k) ==
  /\ req[r] = None
  /\ \E status \in Status : MayAsk(k, status)
  /\ req' = [req EXCEPT ![r] = [kind |-> k, current |-> TRUE, step |-> "ask"]]
  /\ UNCHANGED <<outbox, lock, job, taken>>

\* Intents that stand for a new one of kind k: unexpired and not settled.
Existing(k) ==
  {i \in Id : outbox[i] # None /\ outbox[i].kind = k /\ outbox[i].left > 0
                /\ outbox[i].status \in {"QUEUED", "INDETERMINATE"}}

Recent(k) == {i \in Id : outbox[i] # None /\ outbox[i].kind = k /\ outbox[i].fresh > 0}

Done(r) ==
  /\ req' = [req EXCEPT ![r] = None]
  /\ lock' = IF lock = r THEN None ELSE lock

\* Fault variant: no row lock.
LookUnlocked(r) ==
  /\ Asks(r, "ask")
  /\ IF Existing(req[r].kind) \cup Recent(req[r].kind) # {} THEN Done(r)
     ELSE req' = [req EXCEPT ![r].step = "insert"] /\ UNCHANGED lock
  /\ UNCHANGED <<outbox, job, taken>>

\* SELECT ... FOR UPDATE, then the clock and the intents are read.  The request
\* ends, and gives the lock back, when one stands for the new one.
Look(r) ==
  /\ Asks(r, "ask")
  /\ lock = None
  /\ IF Existing(req[r].kind) \cup Recent(req[r].kind) # {} THEN Done(r)
     ELSE req' = [req EXCEPT ![r].step = "insert"] /\ lock' = r
  /\ UNCHANGED <<outbox, job, taken>>

\* The insert and the commit that gives the lock back.
Insert(r) ==
  /\ Asks(r, "insert")
  /\ \E i \in Id :
       /\ outbox[i] = None /\ \A j \in 1..(i - 1) : outbox[j] # None
       /\ outbox' = [outbox EXCEPT ![i] = NewIntent(req[r].kind, req[r].current)]
  /\ Done(r)
  /\ UNCHANGED <<job, taken>>

\* The transaction fails, or its process dies: nothing of it survives.
Abort(r) ==
  /\ req[r] # None
  /\ Done(r)
  /\ UNCHANGED <<outbox, job, taken>>

-----------------------------------------------------------------------------
\* The worker: process_one().

At(w, step) == job[w] # None /\ job[w].step = step
Row(w)      == outbox[job[w].intent]
Goto(w, step) == job' = [job EXCEPT ![w].step = step]
Return(w)     == job' = [job EXCEPT ![w] = None]

Due(i) == outbox[i] # None /\ outbox[i].status = "QUEUED" /\ outbox[i].wait = 0

\* The oldest due row.  With deliveries on hold a worker does not get this far.
Pick(w) ==
  /\ job[w] = None
  /\ \E i \in Id :
       /\ Due(i) /\ \A j \in 1..(i - 1) : ~Due(j)
       /\ job' = [job EXCEPT ![w] = [intent |-> i, step |-> "claim", result |-> "unclear",
                                     expired |-> outbox[i].left = 0]]
  /\ UNCHANGED <<outbox, requests, taken>>

\* Fault variant: whatever was read is claimed.
ClaimRead(w) ==
  /\ At(w, "claim")
  /\ outbox' = [outbox EXCEPT ![job[w].intent] =
                  [@ EXCEPT !.status = "INDETERMINATE"]]
  /\ Goto(w, "check")
  /\ UNCHANGED <<requests, taken>>

\* The compare-and-swap on the status, committed before any transport I/O.  It
\* does not look at next_attempt_at again.
Claim(w) ==
  /\ At(w, "claim")
  /\ IF Row(w).status = "QUEUED"
       THEN /\ outbox' = [outbox EXCEPT ![job[w].intent].status = "INDETERMINATE",
                                        ![job[w].intent].attempts = @ + 1]
            /\ Goto(w, "check")
       ELSE Return(w) /\ UNCHANGED outbox
  /\ UNCHANGED <<requests, taken>>

Eligible(row, status) ==
  /\ status \notin {"SUSPENDED", "LOCKED"}
  /\ IF row.kind = "verification" THEN status = "INACTIVE" ELSE row.current

\* The user is read; an ineligible or expired intent fails for good.
Check(w) ==
  /\ At(w, "check")
  /\ \E status \in Status :
       IF Eligible(Row(w), status) /\ ~job[w].expired
       THEN UNCHANGED outbox /\ job' = [job EXCEPT ![w].step = "send", ![w].expired = FALSE]
       ELSE Return(w) /\ outbox' = [outbox EXCEPT ![job[w].intent].status = "FAILED"]
  /\ UNCHANGED <<requests, taken>>

\* A relay's answer and the messages it has taken: a broken connection during
\* the submission leaves both possible.  "declined" stands for no host, no
\* connection and a negative answer alike.
Took(answer) == CASE answer = "accepted" -> {1} [] answer = "declined" -> {0} [] OTHER -> {0, 1}

\* Fault variant: the other relay is tried after an unclear answer as well.
FailsOverUnclear(answer) == answer # "accepted"

\* An unclear answer is raised past the other relay.
FailsOver(answer) == answer = "declined"

\* _smtp_send() to the primary relay, then to the fallback if the first one
\* certainly has nothing.  Errors ahead of the transport are unclear answers.
Submit(w) ==
  /\ At(w, "send")
  /\ \E first, second \in Answer :
       \E n \in Took(first), m \in IF FailsOver(first) THEN Took(second) ELSE {0} :
         /\ taken' = [taken EXCEPT ![job[w].intent] = @ + n + m]
         /\ job' = [job EXCEPT ![w].step = "record",
                               ![w].result = IF FailsOver(first) THEN second ELSE first]
  /\ UNCHANGED <<outbox, requests>>

\* Fault variant: one attempt too many.
RecordedLate(row, result, used) ==
  CASE result = "accepted" -> [row EXCEPT !.status = "ACCEPTED"]
    [] result = "unclear"  -> [row EXCEPT !.status = "INDETERMINATE"]
    [] result = "declined" /\ row.attempts > RetryLimit -> [row EXCEPT !.status = "FAILED"]
    [] OTHER -> [row EXCEPT !.status = "QUEUED", !.wait = 0]

\* The status that is committed, and the delay of a retry: it counts from the
\* moment the worker read the clock, so the attempt has used up some of it.
Recorded(row, result, used) ==
  CASE result = "accepted" -> [row EXCEPT !.status = "ACCEPTED"]
    [] result = "unclear"  -> [row EXCEPT !.status = "INDETERMINATE"]
    [] result = "declined" /\ row.attempts >= RetryLimit -> [row EXCEPT !.status = "FAILED"]
    [] OTHER -> [row EXCEPT !.status = "QUEUED",
                            !.wait = Backoff(row.attempts) - used]

\* Fault variant: an unclear outcome is retried.
RecordRetrying(w) ==
  /\ At(w, "record")
  /\ outbox' = [outbox EXCEPT ![job[w].intent] =
                  Recorded(@, IF job[w].result = "unclear" THEN "declined" ELSE job[w].result, 0)]
  /\ Return(w)
  /\ UNCHANGED <<requests, taken>>

Record(w) ==
  /\ At(w, "record")
  /\ \E used \in 0..Backoff(Row(w).attempts) :
       outbox' = [outbox EXCEPT ![job[w].intent] = Recorded(@, job[w].result, used)]
  /\ Return(w)
  /\ UNCHANGED <<requests, taken>>

\* The worker dies, loses the database or raises outside the try; main() begins
\* again.
Crash(w) ==
  /\ job[w] # None
  /\ Return(w)
  /\ UNCHANGED <<outbox, requests, taken>>

-----------------------------------------------------------------------------
\* The account's password.

Outdated(x) == IF x # None /\ x.kind = "password_reset" THEN [x EXCEPT !.current = FALSE] ELSE x

\* confirm_password_reset() with the token of a message that went out: what was
\* read of the old password is out of date.  Two confirmations that read the same
\* password both go through.  The write waits for the row lock.
Renew ==
  /\ lock = None
  /\ \E i \in Id : taken[i] > 0 /\ outbox[i].kind = "password_reset"
  /\ outbox' = [i \in Id |-> Outdated(outbox[i])]
  /\ req' = [r \in Request |-> Outdated(req[r])]
  /\ UNCHANGED <<lock, job, taken>>

-----------------------------------------------------------------------------
Less(n) == IF n > 0 THEN n - 1 ELSE 0

\* A minute passes.  An insert follows the look at the clock faster than that.
Tick ==
  /\ \A r \in Request : ~Asks(r, "insert")
  /\ outbox' = [i \in Id |->
       IF outbox[i] = None THEN None
       ELSE [outbox[i] EXCEPT !.left = Less(@), !.wait = Less(@), !.fresh = Less(@)]]
  /\ UNCHANGED <<requests, job, taken>>

Work(w) == Pick(w) \/ Claim(w) \/ Check(w) \/ Submit(w) \/ Record(w)

Handle(r) == (\E k \in Kind : Ask(r, k)) \/ Look(r) \/ Insert(r) \/ Abort(r)

Next ==
  \/ \E r \in Request : Handle(r)
  \/ \E w \in Worker : Work(w) \/ Crash(w)
  \/ Renew \/ Tick

Spec == Init /\ [][Next]_vars

-----------------------------------------------------------------------------
(***************************************************************************)
(* PROPERTIES                                                              *)
(***************************************************************************)

\* "A crash never causes automatic duplicate delivery" (outbox.py): over all
\* workers, attempts, relays and crashes an intent is taken once at most.
AtMostOneMessage == \A i \in Id : taken[i] <= 1

\* A settled row tells the truth: ACCEPTED was taken by a relay, FAILED and
\* QUEUED were not (process_one, _smtp_send).
OutcomeTrue ==
  \A i \in Id : outbox[i] # None =>
    /\ outbox[i].status = "ACCEPTED" => taken[i] = 1
    /\ outbox[i].status \in {"QUEUED", "FAILED"} => taken[i] = 0

\* Concurrent resends coalesce, and so do resends during an attempt: of each
\* kind one unsettled intent is alive at a time (enqueue_identity_email).
OneOpenIntent == \A k \in Kind : \A i, j \in Existing(k) : i = j

\* A worker is at the intent it has claimed.
Attended(i) == \E w \in Worker : job[w] # None /\ job[w].intent = i /\ job[w].step # "claim"

\* The outbox implements the abstract promise: INDETERMINATE means pending while
\* a worker is at the intent and unknown, for good, once none is.
MailState(i) ==
  IF outbox[i] = None THEN "absent"
  ELSE CASE outbox[i].status = "QUEUED"   -> "pending"
         [] outbox[i].status = "ACCEPTED" -> "sent"
         [] outbox[i].status = "FAILED"   -> "dropped"
         [] outbox[i].status = "INDETERMINATE" ->
              IF Attended(i) THEN "pending" ELSE "unknown"

Promise == INSTANCE IdentityMail WITH
  Mail <- Id, state <- [i \in Id |-> MailState(i)], taken <- taken

ImplementsMail == Promise!Spec
=============================================================================
