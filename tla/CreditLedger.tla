---------------------------- MODULE CreditLedger ----------------------------
(***************************************************************************)
(* The entitlement engine (core/entitlements/service.py): one row per      *)
(* workspace with its plan, Welcome window, period allowance and top-up    *)
(* balance, and an append-only ledger under unique idempotency keys.       *)
(* A request takes its timestamp first, then selects the row FOR UPDATE:   *)
(* it may wait there, and be overtaken by requests with later timestamps.  *)
(* From the lock to the commit nobody else touches the row, so that part   *)
(* is one step.  ensure_entitlement() does not lock: a first touch inserts *)
(* the row it found missing, or goes on with a copy somebody else inserted *)
(* meanwhile, and check_agent_limit() always works on such a copy.  A lock *)
(* taken later does not refresh it (the session keeps its object), and the *)
(* UPDATE writes the columns in which the object differs from the copy.    *)
(***************************************************************************)
EXTENDS FiniteSetsExt

CONSTANTS
  Session,         \* database sessions serving requests at once
  Workspace,
  Owner,           \* Owner[w]: owner_key of workspace w
  Born,            \* Born[w]: created_at of workspace w
  MeterKey,        \* idempotency keys of metered actions
  TopupKey,        \* idempotency keys of top-ups
  TopupCredits,    \* TopupCredits[k]: credits of top-up k
  Renewal,         \* refs of paid renewals
  Action, ReadAction,
  Cost,            \* CREDIT_SCHEDULE
  Monthly,         \* Monthly[p]: monthly_credits of plan p, None if by contract
  Contract,        \* monthly_credits of an enterprise contract
  WelcomeDays, Period, Day,
  WelcomeCeiling, DailyCap,
  Traffic,         \* the requests that may arrive
  MaxClock,        \* bound on the clock, and so on the number of requests
  None

Plan == {"developer", "pro", "team", "enterprise"}
Paid == Plan \ {"developer"}
Key  == MeterKey \cup TopupKey
Request ==
  [op : {"meter"}, ws : Workspace, key : MeterKey, arg : Action]
  \cup [op : {"reverse"}, ws : Workspace, key : MeterKey, arg : {None}]
  \cup [op : {"topup"}, ws : Workspace, key : TopupKey, arg : {None}]
  \cup [op : {"plan"}, ws : Workspace, key : {None}, arg : Plan]
  \cup [op : {"renew"}, ws : Workspace, key : Renewal, arg : {None}]
  \cup [op : {"read", "agents"}, ws : Workspace, key : {None}, arg : {None}]

\* Rows of workspace_entitlements and credit_ledger, and requests under way.
Ent == [plan : Plan, wEnd : Nat \cup {None}, wOver : BOOLEAN, start : Nat, end : Nat,
        allowance : Nat, used : Nat, topup : Nat]
Entry == [type : {"debit", "topup", "read_unbilled"}, ws : Workspace,
          action : Action \cup {None}, credits : Nat, allow : Nat, topup : Nat,
          at : Nat, period : Nat \X Nat]
Refund == [at : Nat, allow : Nat, period : Nat \X Nat]
Race == {"agents", "first_touch", "clock"}
Job == [r : Request, now : Nat, step : {"load", "ensure", "insert", "copied"},
        again : BOOLEAN, copy : Ent \cup {None}]

ASSUME LedgerAssumption ==
  /\ ReadAction \subseteq Action /\ Cost \in [Action -> Nat \ {0}]
  /\ TopupCredits \in [TopupKey -> Nat \ {0}]
  /\ Monthly \in [Plan -> Nat \cup {None}] /\ Contract \in Nat
  /\ {WelcomeDays, Period, Day} \subseteq Nat \ {0}
  /\ {WelcomeCeiling, DailyCap, MaxClock} \subseteq Nat
  /\ Born \in [Workspace -> Nat]
  /\ Traffic \subseteq Request
  /\ MeterKey \cap TopupKey = {}
  /\ None \notin Nat \cup Ent \cup Entry \cup Refund \cup Job

VARIABLES
  clock,     \* every request gets a timestamp of its own
  ent,       \* ent[w]: row of workspace_entitlements, None before first touch
  ledger,    \* ledger[k]: the credit_ledger row under key k, or None
  refunds,   \* refunds[k]: the row under "reversal:k", or None
  renewals,  \* refs whose "grant:ref" row exists
  req,       \* req[s]: the request session s serves, None when free
  \* observations, read by no action
  plans,     \* plans[w]: fresh periods started by set_plan and renew_period
  raced      \* <<w, how>>: w's row was written from an outdated copy or clock

vars == <<clock, ent, ledger, refunds, renewals, req, plans, raced>>
rest == <<renewals, plans, raced>>

\* The period an entry is charged to; period is kept for the properties only.
PeriodOf(w, e) == <<e.start, plans[w]>>

Init ==
  /\ clock = 0
  /\ ent = [w \in Workspace |-> None]
  /\ ledger = [k \in Key |-> None]
  /\ refunds = [k \in MeterKey |-> None]
  /\ renewals = {}
  /\ req = [s \in Session |-> None]
  /\ plans = [w \in Workspace |-> 0]
  /\ raced = {}

-----------------------------------------------------------------------------
(* State helpers of service.py.                                            *)
InWelcome(e, n) == e.wEnd # None /\ ~e.wOver /\ n < e.wEnd
Remaining(e) == IF e.used < e.allowance THEN e.allowance - e.used ELSE 0
Available(e) == Remaining(e) + e.topup
PlanAllowance(p, current) == IF Monthly[p] = None THEN current ELSE Monthly[p]

EndWelcome(e) ==
  [e EXCEPT !.wOver = TRUE, !.start = e.wEnd, !.end = e.wEnd + Period,
            !.allowance = PlanAllowance(e.plan, 0), !.used = 0]

\* Fault variant, used by no specification (as all below): top-ups expire.
ResetAll(e, n) ==
  [e EXCEPT !.start = n, !.end = n + Period, !.used = 0, !.topup = 0]

Reset(e, n) ==
  LET elapsed == (n - e.end) \div Period + 1 IN
  [e EXCEPT !.start = e.end + (elapsed - 1) * Period, !.end = e.end + elapsed * Period,
            !.allowance = PlanAllowance(e.plan, @), !.used = 0]

\* Fault variant: the reset compares with the wrong end of the period.
RollOften(e, n) ==
  LET w == IF e.wEnd # None /\ ~e.wOver /\ n >= e.wEnd THEN EndWelcome(e) ELSE e
  IN  IF n >= w.start THEN Reset(w, n) ELSE w

\* _roll(): Welcome expiry, then the monthly resets up to n.
Roll(e, n) ==
  LET w == IF e.wEnd # None /\ ~e.wOver /\ n >= e.wEnd THEN EndWelcome(e) ELSE e
  IN  IF n >= w.end THEN Reset(w, n) ELSE w

\* The row ensure_entitlement() inserts; again: the owner had a Welcome before.
NewRow(w, n, again) ==
  IF again
    THEN [plan |-> "developer", wEnd |-> None, wOver |-> FALSE, start |-> n,
          end |-> n + Period, allowance |-> PlanAllowance("developer", 0),
          used |-> 0, topup |-> 0]
    ELSE [plan |-> "developer", wEnd |-> Born[w] + WelcomeDays, wOver |-> FALSE,
          start |-> Born[w], end |-> Born[w] + WelcomeDays,
          allowance |-> WelcomeCeiling, used |-> 0, topup |-> 0]

HadWelcome(o) == \E w \in Workspace : Owner[w] = o /\ ent[w] # None /\ ent[w].wEnd # None

Debits(w)   == {k \in MeterKey : ledger[k] # None /\ ledger[k].type = "debit" /\ ledger[k].ws = w}
Refunded(w) == {k \in Debits(w) : refunds[k] # None}
Topups(w)   == {k \in TopupKey : ledger[k] # None /\ ledger[k].ws = w}

\* _used_last_24h(): debits minus reversals created at or after n - Day.
Since(n, at) == at + Day >= n
UsedLastDay(w, n) ==
  SumFunction([k \in {d \in Debits(w) : Since(n, ledger[d].at)} |-> ledger[k].credits])
  - SumFunction([k \in {d \in Refunded(w) : Since(n, refunds[d].at)} |-> ledger[k].credits])

-----------------------------------------------------------------------------
(* The life of a request.                                                  *)
Serving(s, op) == req[s] # None /\ req[s].r.op = op
Free(s)        == req' = [req EXCEPT ![s] = None]
Ws(s)          == req[s].r.ws
Now(s)         == req[s].now

\* reverse() first reads the debit under the key, and answers if there is none.
Arrive(s) ==
  /\ req[s] = None
  /\ clock < MaxClock
  /\ clock' = clock + 1
  /\ \E r \in Traffic :
       /\ r.op = "reverse" => r.key \in Debits(r.ws)
       /\ req' = [req EXCEPT ![s] = [r |-> r, now |-> clock, again |-> FALSE, copy |-> None,
                                    step |-> IF r.op = "agents" THEN "ensure" ELSE "load"]]
  /\ UNCHANGED <<ent, ledger, refunds, rest>>

\* The insertion path of ensure_entitlement() looks for an earlier Welcome.
ToInsert(s) ==
  req' = [req EXCEPT ![s].step = "insert", ![s].again = HadWelcome(Owner[Ws(s)])]

\* The locking select finds no row.
Miss(s) ==
  /\ req[s] # None /\ req[s].step = "load"
  /\ ent[Ws(s)] = None
  /\ IF req[s].r.op = "read" THEN ToInsert(s)
                            ELSE req' = [req EXCEPT ![s].step = "ensure"]
  /\ UNCHANGED <<clock, ent, ledger, refunds, rest>>

\* The select of ensure_entitlement() without a lock.
Ensure(s) ==
  /\ req[s] # None /\ req[s].step = "ensure"
  /\ IF ent[Ws(s)] = None THEN ToInsert(s)
       ELSE req' = [req EXCEPT ![s].step = "copied", ![s].copy = ent[Ws(s)]]
  /\ UNCHANGED <<clock, ent, ledger, refunds, rest>>

\* Fault variant: welcome_owner_key is not unique.
InsertableAgain(s) == ent[Ws(s)] = None

\* workspace_id is the primary key and welcome_owner_key is unique.
Insertable(s) == ent[Ws(s)] = None /\ (req[s].again \/ ~HadWelcome(Owner[Ws(s)]))

\* The transaction fails on either constraint and the request ends with a 500.
InsertFails(s) ==
  /\ req[s] # None /\ req[s].step = "insert"
  /\ ~Insertable(s)
  /\ Free(s)
  /\ UNCHANGED <<clock, ent, ledger, refunds, rest>>

\* The transaction has its row: locked, inserted by itself, or copied.
HasRow(s) ==
  \/ req[s].step = "load" /\ ent[Ws(s)] # None
  \/ req[s].step = "insert" /\ Insertable(s)
  \/ req[s].step = "copied"

Loaded(s) ==
  CASE req[s].step = "load"   -> ent[Ws(s)]
    [] req[s].step = "insert" -> NewRow(Ws(s), Now(s), req[s].again)
    [] req[s].step = "copied" -> req[s].copy

Row(s) == Roll(Loaded(s), Now(s))

\* The UPDATE of an object: the columns that differ from what was loaded.
Flushed(row, copy, e) == [f \in DOMAIN row |-> IF e[f] # copy[f] THEN e[f] ELSE row[f]]

\* The object is a copy of a row that has changed since.
Outdated(s) == req[s].step = "copied" /\ req[s].copy # ent[Ws(s)]

Commit(s, e) ==
  /\ ent' = [ent EXCEPT ![Ws(s)] = IF @ = None THEN e ELSE Flushed(@, Loaded(s), e)]
  /\ Free(s)

\* A commit that starts no new period: harmless if it writes no column.
Settle(s, e) ==
  /\ Commit(s, e)
  /\ raced' = raced \cup (IF Outdated(s) /\ e # req[s].copy
       THEN {<<Ws(s), IF req[s].r.op = "agents" THEN "agents" ELSE "first_touch">>} ELSE {})

Refuse(s) == Free(s) /\ UNCHANGED <<ent, raced>>

-----------------------------------------------------------------------------
(* debit()                                                                 *)
MeterReady(s) == Serving(s, "meter") /\ HasRow(s)
Unkeyed(s)    == ledger[req[s].r.key] = None
\* Fault variant: the action about to be charged does not count.
OverCapLate(s) ==
  /\ InWelcome(Row(s), Now(s)) /\ req[s].r.arg \notin ReadAction
  /\ UsedLastDay(Ws(s), Now(s)) > DailyCap

OverCap(s) ==
  /\ InWelcome(Row(s), Now(s)) /\ req[s].r.arg \notin ReadAction
  /\ UsedLastDay(Ws(s), Now(s)) + Cost[req[s].r.arg] > DailyCap
\* Fault variant: off by one.
ShortByMore(s) == Available(Row(s)) + 1 < Cost[req[s].r.arg]

Short(s) == Available(Row(s)) < Cost[req[s].r.arg]

\* A known key is answered from the ledger, or refused and rolled back when it
\* belongs to another workspace or action.
MeterReplay(s) ==
  LET k == req[s].r.key IN
  /\ MeterReady(s) /\ ~Unkeyed(s)
  /\ IF ledger[k].ws = Ws(s) /\ ledger[k].action = req[s].r.arg
       THEN Settle(s, Row(s))
       ELSE Refuse(s)
  /\ UNCHANGED <<clock, ledger, refunds, renewals, plans>>

\* The "denied" row carries no key and no credits, and nothing reads it back.
MeterDenied(s) ==
  /\ MeterReady(s) /\ Unkeyed(s)
  /\ OverCap(s) \/ (Short(s) /\ req[s].r.arg \notin ReadAction)
  /\ Settle(s, Row(s))
  /\ UNCHANGED <<clock, ledger, refunds, renewals, plans>>

MeterEntry(s, type, credits, allow) ==
  [type |-> type, ws |-> Ws(s), action |-> req[s].r.arg, credits |-> credits,
   allow |-> allow, topup |-> credits - allow, at |-> Now(s),
   period |-> PeriodOf(Ws(s), Row(s))]

MeterUnbilled(s) ==
  /\ MeterReady(s) /\ Unkeyed(s)
  /\ Short(s) /\ req[s].r.arg \in ReadAction
  /\ ledger' = [ledger EXCEPT ![req[s].r.key] = MeterEntry(s, "read_unbilled", 0, 0)]
  /\ Settle(s, Row(s))
  /\ UNCHANGED <<clock, refunds, renewals, plans>>

\* Fault variant: the allowance is overdrawn instead of the top-up.
ChargeAllowanceOnly(s) ==
  /\ MeterReady(s) /\ Unkeyed(s)
  /\ ~OverCap(s) /\ ~Short(s)
  /\ LET cost == Cost[req[s].r.arg] IN
       /\ ledger' = [ledger EXCEPT ![req[s].r.key] = MeterEntry(s, "debit", cost, cost)]
       /\ Settle(s, [Row(s) EXCEPT !.used = @ + cost])
  /\ UNCHANGED <<clock, refunds, renewals, plans>>

\* Allowance first, then the top-up balance.
MeterCharge(s) ==
  LET e     == Row(s)
      cost  == Cost[req[s].r.arg]
      allow == IF cost < Remaining(e) THEN cost ELSE Remaining(e)
  IN
  /\ MeterReady(s) /\ Unkeyed(s)
  /\ ~OverCap(s) /\ ~Short(s)
  /\ ledger' = [ledger EXCEPT ![req[s].r.key] = MeterEntry(s, "debit", cost, allow)]
  /\ Settle(s, [e EXCEPT !.used = @ + allow, !.topup = @ - (cost - allow)])
  /\ UNCHANGED <<clock, refunds, renewals, plans>>

\* reverse(): allowance goes back only to a debit of the current period, which
\* the code decides by comparing timestamps.
Reverse(s) ==
  LET k == req[s].r.key
      d == ledger[k]
      e == Row(s)
      back == IF d.at >= e.start THEN d.allow ELSE 0
  IN
  /\ Serving(s, "reverse") /\ HasRow(s)
  /\ IF refunds[k] # None
       THEN Settle(s, e) /\ UNCHANGED refunds
       ELSE /\ refunds' = [refunds EXCEPT ![k] = [at |-> Now(s), allow |-> back,
                                                 period |-> PeriodOf(Ws(s), e)]]
            /\ Settle(s, [e EXCEPT !.used = IF back < @ THEN @ - back ELSE 0,
                                   !.topup = @ + d.topup])
  /\ UNCHANGED <<clock, ledger, renewals, plans>>

\* grant_topup(): a known key is a replay, or refused if another workspace's.
Topup(s) ==
  LET k == req[s].r.key
      e == Row(s)
  IN
  /\ Serving(s, "topup") /\ HasRow(s)
  /\ IF ledger[k] # None
       THEN /\ IF ledger[k].ws = Ws(s) THEN Settle(s, e) ELSE Refuse(s)
            /\ UNCHANGED ledger
       ELSE /\ ledger' = [ledger EXCEPT ![k] =
                 [type |-> "topup", ws |-> Ws(s), action |-> None,
                  credits |-> TopupCredits[k], allow |-> 0, topup |-> 0,
                  at |-> Now(s), period |-> PeriodOf(Ws(s), e)]]
            /\ Settle(s, [e EXCEPT !.topup = @ + TopupCredits[k]])
  /\ UNCHANGED <<clock, refunds, renewals, plans>>

-----------------------------------------------------------------------------
(* set_plan() and renew_period(): a fresh allowance period from now on.    *)
FreshPeriod(e, n, allowance) ==
  [e EXCEPT !.start = n, !.end = n + Period, !.allowance = allowance, !.used = 0]

OnPlan(e, n, p) ==
  LET over == e.wOver \/ (p \in Paid /\ InWelcome(e, n)) IN
  FreshPeriod([e EXCEPT !.plan = p, !.wOver = over], n,
              IF p = "enterprise" THEN Contract ELSE PlanAllowance(p, 0))

\* The new period starts before something an older one was charged with.
Backdated(w, n) == \E k \in Debits(w) : ledger[k].at >= n

StartPeriod(s, e) ==
  /\ Commit(s, e)
  /\ plans' = [plans EXCEPT ![Ws(s)] = @ + 1]
  /\ raced' = raced \cup (IF Outdated(s) THEN {<<Ws(s), "first_touch">>} ELSE {})
               \cup (IF Backdated(Ws(s), Now(s)) THEN {<<Ws(s), "clock">>} ELSE {})

SetPlan(s) ==
  /\ Serving(s, "plan") /\ HasRow(s)
  /\ StartPeriod(s, OnPlan(Row(s), Now(s), req[s].r.arg))
  /\ UNCHANGED <<clock, ledger, refunds, renewals>>

RenewPeriod(s) ==
  LET e == Row(s)
      ref == req[s].r.key
  IN
  /\ Serving(s, "renew") /\ HasRow(s)
  /\ IF ref \in renewals
       THEN Settle(s, e) /\ UNCHANGED <<renewals, plans>>
       ELSE /\ StartPeriod(s, FreshPeriod(e, Now(s), PlanAllowance(e.plan, e.allowance)))
            /\ renewals' = renewals \cup {ref}
  /\ UNCHANGED <<clock, ledger, refunds>>

\* GET /entitlements, and check_agent_limit(): its caller commits both when it
\* creates the agent's token and when the limit refuses it.
Read(s) ==
  /\ Serving(s, "read") \/ Serving(s, "agents")
  /\ HasRow(s)
  /\ Settle(s, Row(s))
  /\ UNCHANGED <<clock, ledger, refunds, renewals, plans>>

Tick ==
  /\ clock < MaxClock
  /\ clock' = clock + 1
  /\ UNCHANGED <<ent, ledger, refunds, req, rest>>

Serve(s) ==
  \/ Miss(s) \/ Ensure(s) \/ InsertFails(s)
  \/ MeterReplay(s) \/ MeterDenied(s) \/ MeterUnbilled(s) \/ MeterCharge(s)
  \/ Reverse(s) \/ Topup(s) \/ SetPlan(s) \/ RenewPeriod(s) \/ Read(s)

Next == Tick \/ \E s \in Session : Arrive(s) \/ Serve(s)

Spec == Init /\ [][Next]_vars

-----------------------------------------------------------------------------
(***************************************************************************)
(* PROPERTIES                                                              *)
(***************************************************************************)
TypeOK ==
  /\ clock \in Nat
  /\ ent \in [Workspace -> Ent \cup {None}]
  /\ ledger \in [Key -> Entry \cup {None}]
  /\ refunds \in [MeterKey -> Refund \cup {None}]
  /\ renewals \subseteq Renewal
  /\ req \in [Session -> Job \cup {None}]
  /\ plans \in [Workspace -> Nat]
  /\ raced \subseteq Workspace \X Race

\* What w paid from its allowance in the current period and was not given back.
SpentThisPeriod(w) ==
  LET inPeriod == {k \in Debits(w) : ledger[k].period = PeriodOf(w, ent[w])} IN
  SumFunction([k \in inPeriod |-> ledger[k].allow])
  - SumFunction([k \in inPeriod \cap Refunded(w) |-> refunds[k].allow])

WithinAllowance(w) == ent[w] # None => SpentThisPeriod(w) <= ent[w].allowance

\* "After Welcome the workspace is on Developer: 250 credits per period": no
\* workspace is charged more allowance in one period than the period has, the
\* races of its first minutes and of plan changes left aside.
AllowancePerPeriod ==
  \A w \in Workspace :
    {<<w, "first_touch">>, <<w, "clock">>} \cap raced = {} => WithinAllowance(w)

\* The same, while nothing wrote the row from an outdated copy and no period
\* was started with a timestamp older than an earlier debit: these two races
\* are the only ways to overspend.
Clean(w) == \A how \in Race : <<w, how>> \notin raced

SpendWithinAllowance == \A w \in Workspace : Clean(w) => WithinAllowance(w)

\* Top-up credits never expire, get lost or come from nowhere, whatever plan
\* changes, resets, agent checks and refunds do in between: the balance is what
\* was topped up, less what debits took, plus what refunds gave back.
TopupsConserved ==
  \A w \in Workspace : ent[w] # None /\ <<w, "first_touch">> \notin raced =>
    ent[w].topup =
      SumFunction([k \in Topups(w) |-> ledger[k].credits])
      - SumFunction([k \in Debits(w) \ Refunded(w) |-> ledger[k].topup])

\* "Welcome ... never recurs for the same owner", although two first touches
\* can both find no earlier Welcome.
WelcomeOncePerOwner ==
  \A v, w \in Workspace :
    v # w /\ Owner[v] = Owner[w] /\ ent[v] # None /\ ent[w] # None
      => ent[v].wEnd = None \/ ent[w].wEnd = None

\* "max credits consumable per rolling 24h during Welcome": debits overtake each
\* other between their timestamp and the lock, and still no window of a day
\* that ends with a governed debit in Welcome (one that is not a read) holds
\* more governed debits than the cap and the room that refunds have freed.  A
\* refund frees what its debit took, in the day that follows its own timestamp:
\* the debit's may be of an earlier window, which had held it already.
WelcomeDebits(w) ==
  {k \in Debits(w) : ledger[k].action \notin ReadAction /\ ledger[k].period = <<Born[w], 0>>}

DayBefore(w, k) ==
  {j \in WelcomeDebits(w) : Since(ledger[k].at, ledger[j].at) /\ ledger[j].at <= ledger[k].at}

RoomFreed(w, k) == {d \in Refunded(w) : Since(ledger[k].at, refunds[d].at + Day)}
WelcomeDailyCap ==
  \A w \in Workspace :
    ent[w] # None /\ ent[w].wEnd # None =>
      \A k \in WelcomeDebits(w) :
        SumFunction([j \in DayBefore(w, k) |-> ledger[j].credits])
          <= DailyCap + SumFunction([d \in RoomFreed(w, k) |-> ledger[d].credits])
\* Within a period the balance a customer sees moves only by entries of the
\* ledger: by each new debit, refund and top-up, exactly once.  It is claimed of
\* workspaces without a recorded race (Clean), as those lose or repeat a move.
Moved(w, new) ==
  LET debits == {k \in MeterKey : ledger[k] = None /\ new[k] # None /\ new[k].ws = w}
      topups == {k \in TopupKey : ledger[k] = None /\ new[k] # None /\ new[k].ws = w}
  IN  SumFunction([k \in topups |-> new[k].credits])
      - SumFunction([k \in debits |-> new[k].credits])

Returned(w, new) ==
  SumFunction([k \in {d \in Debits(w) : refunds[d] = None /\ new[d] # None} |->
                 new[k].allow + ledger[k].topup])

BalanceMovesAreLedgered ==
  [][\A w \in Workspace :
       ent[w] # None /\ PeriodOf(w, ent[w])' = PeriodOf(w, ent[w]) /\ Clean(w)'
         => Available(ent'[w]) = Available(ent[w]) + Moved(w, ledger') + Returned(w, refunds')]_vars

\* "Allowance is restored only if the debit belongs to the current period; an
\* expired period's allowance is not resurrected" (the comment in reverse()).
RefundRestoresItsPeriod ==
  \A k \in MeterKey : refunds[k] # None =>
    refunds[k].allow = IF ledger[k].period = refunds[k].period THEN ledger[k].allow ELSE 0
=============================================================================
