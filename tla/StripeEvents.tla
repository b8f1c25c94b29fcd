---------------------------- MODULE StripeEvents ----------------------------
(***************************************************************************)
(* Stripe webhooks (core/entitlements/stripe_billing.py): process_event()  *)
(* and _handle() for the events of one workspace.  Stripe sends an event   *)
(* until it is answered, in any order, possibly twice at once.  Every step *)
(* below is one transaction or one read of a delivery, and a delivery may  *)
(* fail or die between any two.  The entitlement engine appears as what it *)
(* commits under its lock: the plan, and the keys of top-ups and renewals  *)
(* (CreditLedger.tla).  Left out are signature checks and the events that  *)
(* change neither plan, status nor credits: unpaid and unknown checkouts,  *)
(* which store no more than the customer's id, and all other types.        *)
(***************************************************************************)
EXTENDS Naturals, Sequences

CONSTANTS
  History,    \* the workspace's events, in the order Stripe made them
  Delivery,   \* requests that may be in progress at once
  MaxFaults,  \* bound on failures and deaths of deliveries
  None

Kind == {"subscribe", "topup", "change", "past_due", "cancel", "cycle"}
Plan == {"developer", "pro", "team"}

\* plan: what the event sets; named: its metadata carries the workspace id.
ASSUME HistoryAssumption ==
  /\ History \in Seq([kind : Kind, plan : Plan, named : BOOLEAN])
  /\ \A i \in DOMAIN History : History[i].kind \in {"subscribe", "topup"} => History[i].named
  /\ MaxFaults \in Nat

Event == DOMAIN History
Is(e, kinds) == History[e].kind \in kinds

VARIABLES
  row,       \* row[e]: status of e in stripe_webhook_events, None if no row
  ws,        \* the workspace's columns: known to Stripe by id, status
  plan,      \* plan of the workspace's entitlement, None if it has none yet
  topups,    \* events whose "stripe:checkout:..." key is in the ledger
  renewals,  \* events whose "grant:stripe:invoice:..." key is in the ledger
  req,       \* req[d]: the delivery in progress, None if none
  faults,
  \* observations, read by no action
  applied,   \* applied[e]: top-ups, renewals and plan changes made for e
  disturbed, \* events delivered while being delivered, or cut short
  disorder   \* events overlapped or overtook each other

vars == <<row, ws, plan, topups, renewals, req, faults, applied, disturbed, disorder>>
account  == <<plan, topups, renewals, applied>>
observed == <<faults, disturbed, disorder>>

Columns == [linked : BOOLEAN, status : {"inactive", "active", "past_due", "canceled"}]
Step    == {"look", "claim", "find", "columns", "compare", "apply", "mark", "failing"}
Status  == {"processing", "processed", "failed"}
Job     == [event : Event, step : Step, seen : Status \cup {None}, copy : Columns]

ASSUME NoneAssumption == None \notin Plan \cup Status \cup Job

TypeOK ==
  /\ row \in [Event -> Status \cup {None}]
  /\ ws \in Columns
  /\ plan \in Plan \cup {None}
  /\ topups \subseteq Event /\ renewals \subseteq Event
  /\ req \in [Delivery -> Job \cup {None}]
  /\ faults \in 0..MaxFaults
  /\ applied \in [Event -> Nat]
  /\ disturbed \subseteq Event /\ disorder \in BOOLEAN

Init ==
  /\ row = [e \in Event |-> None]
  /\ ws = [linked |-> FALSE, status |-> "inactive"]
  /\ plan \in {None, "developer"}
  /\ topups = {} /\ renewals = {}
  /\ req = [d \in Delivery |-> None]
  /\ faults = 0
  /\ applied = [e \in Event |-> 0]
  /\ disturbed = {} /\ disorder = FALSE

-----------------------------------------------------------------------------
At(d, step)   == req[d] # None /\ req[d].step = step
Ev(d)         == req[d].event
Goto(d, step) == req' = [req EXCEPT ![d].step = step]
Answer(d)     == req' = [req EXCEPT ![d] = None]

InProgress == {req[d].event : d \in {d \in Delivery : req[d] # None}}

\* A delivery is out of order when another is in progress, an earlier event is
\* not processed, or e is to be processed after a later one was begun.
OutOfOrder(e) ==
  \/ InProgress # {}
  \/ \E f \in Event : f < e /\ row[f] # "processed"
  \/ row[e] # "processed" /\ \E f \in Event : f > e /\ row[f] # None

Deliver(d, e) ==
  /\ req[d] = None
  /\ req' = [req EXCEPT ![d] = [event |-> e, step |-> "look", seen |-> None, copy |-> ws]]
  /\ disturbed' = IF e \in InProgress THEN disturbed \cup {e} ELSE disturbed
  /\ disorder' = (disorder \/ OutOfOrder(e))
  /\ UNCHANGED <<row, ws, account, faults>>

\* Fault variant, used by no specification (as all below): any row is a duplicate.
LookSeen(d) ==
  /\ At(d, "look")
  /\ IF row[Ev(d)] # None THEN Answer(d)
       ELSE req' = [req EXCEPT ![d].step = "claim", ![d].seen = row[Ev(d)]]
  /\ UNCHANGED <<row, ws, account, observed>>

\* Fault variant: a processed event is handled like any other.
LookAgain(d) ==
  /\ At(d, "look")
  /\ req' = [req EXCEPT ![d].step = "claim", ![d].seen = row[Ev(d)]]
  /\ UNCHANGED <<row, ws, account, observed>>

\* A processed event is answered as a duplicate.
Look(d) ==
  /\ At(d, "look")
  /\ IF row[Ev(d)] = "processed" THEN Answer(d)
       ELSE req' = [req EXCEPT ![d].step = "claim", ![d].seen = row[Ev(d)]]
  /\ UNCHANGED <<row, ws, account, observed>>

\* Fault variant: an event counts as processed before it is handled.
ClaimProcessed(d) ==
  /\ At(d, "claim")
  /\ IF req[d].seen = None /\ row[Ev(d)] # None
       THEN Answer(d) /\ UNCHANGED row
       ELSE Goto(d, "find") /\ row' = [row EXCEPT ![Ev(d)] = "processed"]
  /\ UNCHANGED <<ws, account, observed>>

\* The commit of "processing": an INSERT, which fails (500) if the row exists
\* by now, or an UPDATE, which is not even issued if it said so when read.
Claim(d) ==
  LET e == Ev(d) IN
  /\ At(d, "claim")
  /\ IF req[d].seen = None /\ row[e] # None
       THEN Answer(d) /\ UNCHANGED row
       ELSE /\ row' = [row EXCEPT ![e] = IF req[d].seen = "processing" THEN @ ELSE "processing"]
            /\ Goto(d, "find")
  /\ UNCHANGED <<ws, account, observed>>

\* _workspace_for(): by metadata, or by the ids stored on the workspace.  An
\* event nobody is found for is processed all the same.
Find(d) ==
  /\ At(d, "find")
  /\ IF History[Ev(d)].named \/ ws.linked
       THEN req' = [req EXCEPT ![d].step = "columns", ![d].copy = ws]
       ELSE Goto(d, "mark")
  /\ UNCHANGED <<row, ws, account, observed>>

NewStatus(e) ==
  CASE Is(e, {"subscribe", "cycle", "change"}) -> "active"
    [] Is(e, {"past_due"}) -> "past_due"
    [] Is(e, {"cancel"})   -> "canceled"

\* The workspace's columns are committed first; a column that already had the
\* value when it was read is not written.
WriteColumns(d) ==
  LET e == Ev(d)
      next == CASE Is(e, {"past_due"}) -> "mark"
                [] Is(e, {"change"})   -> "compare"
                [] OTHER               -> "apply"
  IN
  /\ At(d, "columns")
  /\ ws' = [linked |-> ws.linked \/ Is(e, {"subscribe", "topup", "change"}),
            status |-> IF Is(e, {"topup"}) \/ NewStatus(e) = req[d].copy.status
                         THEN ws.status ELSE NewStatus(e)]
  /\ Goto(d, next)
  /\ UNCHANGED <<row, account, observed>>

\* Fault variant: a paid plan is never changed.
CompareUnpaid(d) ==
  /\ At(d, "compare")
  /\ Goto(d, IF plan = "developer" THEN "apply" ELSE "mark")
  /\ UNCHANGED <<row, ws, account, observed>>

\* subscription.updated reads the plan without a lock, and changes it only if
\* there is one and it differs.
Compare(d) ==
  /\ At(d, "compare")
  /\ Goto(d, IF plan \notin {None, History[Ev(d)].plan} THEN "apply" ELSE "mark")
  /\ UNCHANGED <<row, ws, account, observed>>

Applied(e) == applied' = [applied EXCEPT ![e] = @ + 1]

\* Every change of the entitlement creates it first if there is none.
Touch == plan' = IF plan = None THEN "developer" ELSE plan

\* Fault variant: the key of the checkout is not looked up.
GrantTopupAgain(e) ==
  /\ Is(e, {"topup"})
  /\ topups' = topups \cup {e} /\ Applied(e)
  /\ Touch
  /\ UNCHANGED renewals

\* grant_topup() under the key of the checkout
GrantTopup(e) ==
  /\ Is(e, {"topup"})
  /\ IF e \in topups THEN UNCHANGED <<topups, applied>>
       ELSE topups' = topups \cup {e} /\ Applied(e)
  /\ Touch
  /\ UNCHANGED renewals

\* renew_period() under the key of the invoice
Renew(e) ==
  /\ Is(e, {"cycle"})
  /\ IF e \in renewals THEN UNCHANGED <<renewals, applied>>
       ELSE renewals' = renewals \cup {e} /\ Applied(e)
  /\ Touch
  /\ UNCHANGED topups

\* set_plan() always starts a fresh period: it has no key.
SetPlan(e) ==
  /\ Is(e, {"subscribe", "change", "cancel"})
  /\ plan' = IF Is(e, {"cancel"}) THEN "developer" ELSE History[e].plan
  /\ Applied(e)
  /\ UNCHANGED <<topups, renewals>>

Apply(d) ==
  /\ At(d, "apply")
  /\ GrantTopup(Ev(d)) \/ Renew(Ev(d)) \/ SetPlan(Ev(d))
  /\ Goto(d, "mark")
  /\ UNCHANGED <<row, ws, observed>>

Mark(d) ==
  /\ At(d, "mark")
  /\ row' = [row EXCEPT ![Ev(d)] = "processed"]
  /\ Answer(d)
  /\ UNCHANGED <<ws, account, observed>>

\* Fault variant: the exception is swallowed.
MarkAnyway(d) ==
  /\ At(d, "failing")
  /\ row' = [row EXCEPT ![Ev(d)] = "processed"]
  /\ Answer(d)
  /\ UNCHANGED <<ws, account, observed>>

\* After an exception in _handle() the row is read again and set to failed,
\* whatever another delivery made of it, and Stripe gets a 500.
MarkFailed(d) ==
  /\ At(d, "failing")
  /\ row' = [row EXCEPT ![Ev(d)] = "failed"]
  /\ Answer(d)
  /\ UNCHANGED <<ws, account, observed>>

-----------------------------------------------------------------------------
\* _handle() raises (the database, a first-touch race, a commit whose answer is
\* lost), or the delivery is gone: crash, or an error elsewhere.
Fault(d) ==
  /\ req[d] # None
  /\ faults < MaxFaults
  /\ faults' = faults + 1
  /\ disturbed' = disturbed \cup {Ev(d)}
  /\ \/ Answer(d)
     \/ req[d].step \in {"find", "columns", "compare", "apply", "mark"} /\ Goto(d, "failing")
  /\ UNCHANGED <<row, ws, account, disorder>>

Process(d) ==
  Look(d) \/ Claim(d) \/ Find(d) \/ WriteColumns(d) \/ Compare(d) \/ Apply(d)
    \/ Mark(d) \/ MarkFailed(d)

Next ==
  \E d \in Delivery : Process(d) \/ Fault(d) \/ \E e \in Event : Deliver(d, e)

Spec == Init /\ [][Next]_vars

\* A request runs to its end unless a fault stops it, and Stripe goes on sending
\* an event it has no good answer for, whatever else it sends.
Resend(e) == row[e] # "processed" /\ \E d \in Delivery : Deliver(d, e)

FairSpec ==
  /\ Spec
  /\ \A d \in Delivery : WF_vars(Process(d))
  /\ \A e \in Event : SF_vars(Resend(e))

-----------------------------------------------------------------------------
(***************************************************************************)
(* PROPERTIES                                                              *)
(***************************************************************************)

\* A paid top-up or renewal that counts as processed has reached the account,
\* whichever delivery marked it and however many were cut short before.
Credited(e) ==
  History[e].named =>
    /\ Is(e, {"topup"}) => e \in topups
    /\ Is(e, {"cycle"}) => e \in renewals

PaidMeansCredited == \A e \in Event : row[e] = "processed" => Credited(e)

\* Credits are added once for a checkout and the allowance is renewed once for
\* an invoice, always; a plan is set twice for an event only if two deliveries
\* of it overlapped or one was cut short.
AppliedOnce ==
  \A e \in Event : applied[e] > 1 => Is(e, {"subscribe", "change", "cancel"}) /\ e \in disturbed

\* An event that was processed, and so answered as done, is taken up again or
\* set to failed only by deliveries that overlapped, or after one that was cut
\* short: a late failure overwrites the mark another delivery has made, but
\* repeated deliveries alone never do.
StaysProcessed ==
  [][\A e \in Event : row[e] = "processed" /\ row'[e] # "processed" => e \in disturbed]_vars

\* Plan and status Stripe's first n events lead to.
Expected[n \in 0..Len(History)] ==
  IF n = 0 THEN [plan |-> "developer", status |-> "inactive"]
  ELSE [plan   |-> CASE Is(n, {"subscribe", "change"}) -> History[n].plan
                     [] Is(n, {"cancel"}) -> "developer"
                     [] OTHER -> Expected[n - 1].plan,
        status |-> IF Is(n, {"topup"}) THEN Expected[n - 1].status ELSE NewStatus(n)]

\* As long as Stripe's deliveries neither overlap nor overtake each other, the
\* account stands where the processed events lead to, whatever was half done
\* and done again after a failure or crash.
Settled(n) == \A e \in Event : row[e] = IF e <= n THEN "processed" ELSE None

PlanIs(n)   == plan = Expected[n].plan \/ (plan = None /\ Expected[n].plan = "developer")
StatusIs(n) == ws.status = Expected[n].status

FollowsStripe ==
  \A n \in 0..Len(History) : Settled(n) /\ ~disorder => PlanIs(n) /\ StatusIs(n)

\* No event is left behind, however its deliveries fail, die or overlap.
EveryEventProcessed == \A e \in Event : <>(row[e] = "processed")

\* "Idempotent by Stripe event id: a processed event is never applied twice"
\* (the docstring of process_event()).
NeverAppliedTwice == \A e \in Event : row[e] = "processed" => applied[e] <= 1
-----------------------------------------------------------------------------
(* Inductive invariant.                                                    *)
Serves(d, e) == req[d] # None /\ Ev(d) = e

StepInv ==
  \A d \in Delivery :
    /\ At(d, "compare") => Is(Ev(d), {"change"})
    /\ At(d, "failing") => Ev(d) \in disturbed

\* What the handler is done with is credited before it is marked.
CreditInv ==
  \A e \in Event :
    row[e] = "processed" \/ (\E d \in Delivery : Serves(d, e) /\ At(d, "mark")) => Credited(e)

KeyedOnce ==
  \A e \in Event :
    /\ Is(e, {"topup"}) => applied[e] = (IF e \in topups THEN 1 ELSE 0)
    /\ Is(e, {"cycle"}) => applied[e] = (IF e \in renewals THEN 1 ELSE 0)
    /\ Is(e, {"past_due"}) => applied[e] = 0

\* An event whose deliveries never overlapped nor were cut short has been
\* applied only if it is processed or its one delivery is about to say so.
Undisturbed ==
  \A e \in Event \ disturbed :
    /\ \A c, d \in Delivery : Serves(c, e) /\ Serves(d, e) => c = d
    /\ row[e] = "processed" => \A d \in Delivery : Serves(d, e) => At(d, "look")
    /\ applied[e] \in {0, 1}
    /\ applied[e] = 1 =>
         row[e] = "processed" \/ \E d \in Delivery : Serves(d, e) /\ At(d, "mark")

DeliveryInv == TypeOK /\ StepInv /\ CreditInv /\ KeyedOnce /\ Undisturbed

-----------------------------------------------------------------------------
(* Inductive invariant behind FollowsStripe, while nothing overlaps.       *)
\* Stripe's first n events are processed, and of the others at most the next
\* one has been begun.
Frontier(n) ==
  \A e \in Event : /\ e <= n => row[e] = "processed"
                   /\ e = n + 1 => row[e] # "processed"
                   /\ e > n + 1 => row[e] = None

\* The account stands where the first n events lead to, or, once the next one
\* has a row, with plan and status each before or after it.
Standing(n) ==
  /\ n > 0 => ws.linked /\ plan # None
  /\ n + 1 \notin Event \/ row[n + 1] = None => PlanIs(n) /\ StatusIs(n)
  /\ n + 1 \in Event => (PlanIs(n) \/ PlanIs(n + 1)) /\ (StatusIs(n) \/ StatusIs(n + 1))

\* What the one delivery in progress has seen and done.
InTurn(d, n) ==
  /\ Ev(d) <= n + 1
  /\ At(d, "look") \/ Ev(d) = n + 1
  /\ At(d, "claim") => req[d].seen = row[Ev(d)]
  /\ At(d, "look") \/ At(d, "claim") \/ row[Ev(d)] # None
  /\ At(d, "columns") => req[d].copy = ws
  /\ At(d, "compare") => Is(Ev(d), {"change"}) /\ StatusIs(n + 1)
  /\ At(d, "apply") => StatusIs(n + 1) /\ ws.linked
  /\ At(d, "mark") => StatusIs(n + 1) /\ PlanIs(n + 1) /\ ws.linked /\ plan # None

OrderInv ==
  disorder \/
  \E n \in 0..Len(History) :
    /\ Frontier(n) /\ Standing(n)
    /\ \A c, d \in Delivery : req[c] # None /\ req[d] # None => c = d
    /\ \A d \in Delivery : req[d] # None => InTurn(d, n)
=============================================================================
