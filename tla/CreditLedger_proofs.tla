------------------------- MODULE CreditLedger_proofs -------------------------
(***************************************************************************)
(* Proofs about the entitlement engine: what rolling a row does, the types *)
(* of the tables, and the Welcome window that an owner gets at most once.  *)
(***************************************************************************)
EXTENDS CreditLedger, TLAPS

-----------------------------------------------------------------------------
(* Rolling a row forward.                                                  *)
LEMMA NewPeriodTyped ==
  ASSUME NEW e \in Ent, NEW a \in Nat, NEW b \in Nat, NEW c \in Nat
  PROVE  [e EXCEPT !.start = a, !.end = b, !.allowance = c, !.used = 0] \in Ent
BY DEF Ent

LEMMA WelcomeOverTyped ==
  ASSUME NEW e \in Ent, NEW a \in Nat, NEW b \in Nat, NEW c \in Nat
  PROVE  [e EXCEPT !.wOver = TRUE, !.start = a, !.end = b, !.allowance = c, !.used = 0] \in Ent
BY DEF Ent

LEMMA EndWelcomeFacts ==
  ASSUME NEW e \in Ent, e.wEnd # None
  PROVE  LET x == EndWelcome(e) IN
         /\ x \in Ent
         /\ x.plan = e.plan /\ x.wEnd = e.wEnd /\ x.wOver /\ x.topup = e.topup
         /\ x.start = e.wEnd /\ x.end = e.wEnd + Period /\ x.used = 0
<1>1. e.wEnd \in Nat /\ Period \in Nat /\ PlanAllowance(e.plan, 0) \in Nat
  BY LedgerAssumption DEF Ent, PlanAllowance
<1> DEFINE w == e.wEnd
           z == e.wEnd + Period
           a == PlanAllowance(e.plan, 0)
<1>2. w \in Nat /\ z \in Nat /\ a \in Nat
  BY <1>1
<1>3. EndWelcome(e) = [e EXCEPT !.wOver = TRUE, !.start = w, !.end = z, !.allowance = a, !.used = 0]
  BY DEF EndWelcome
<1> HIDE DEF z, a
<1>4. EndWelcome(e) \in Ent
  <2>1. [e EXCEPT !.wOver = TRUE, !.start = w, !.end = z, !.allowance = a, !.used = 0] \in Ent
    BY <1>2, WelcomeOverTyped
  <2> QED BY <1>3, <2>1
<1>5. /\ EndWelcome(e).plan = e.plan /\ EndWelcome(e).wEnd = e.wEnd /\ EndWelcome(e).wOver
      /\ EndWelcome(e).topup = e.topup /\ EndWelcome(e).start = w /\ EndWelcome(e).end = z
      /\ EndWelcome(e).used = 0
  BY <1>3 DEF Ent
<1> QED BY <1>4, <1>5 DEF z

LEMMA ResetFacts ==
  ASSUME NEW e \in Ent, NEW n \in Nat, n >= e.end
  PROVE  LET x == Reset(e, n) IN
         /\ x \in Ent
         /\ x.plan = e.plan /\ x.wEnd = e.wEnd /\ x.wOver = e.wOver /\ x.topup = e.topup
         /\ e.end <= x.start /\ x.start <= n /\ n < x.end /\ x.used = 0
<1> DEFINE late    == n - e.end
           elapsed == late \div Period + 1
<1>1. Period \in Nat \ {0} /\ e.end \in Nat /\ late \in Nat
  BY LedgerAssumption DEF Ent
<1>2. late \div Period \in Nat
  BY <1>1
<1>3. (late \div Period) * Period <= late /\ late < (late \div Period + 1) * Period
  BY <1>1
<1>4. PlanAllowance(e.plan, e.allowance) \in Nat
  BY LedgerAssumption DEF Ent, PlanAllowance
<1> DEFINE whole == (late \div Period) * Period
           next  == (late \div Period + 1) * Period
<1>5. whole \in Nat /\ next \in Nat
  BY <1>1, <1>2
<1> DEFINE a     == PlanAllowance(e.plan, e.allowance)
           first == e.end + whole
           last  == e.end + next
<1>6. Reset(e, n) = [e EXCEPT !.start = first, !.end = last, !.allowance = a, !.used = 0]
  <2>1. elapsed - 1 = late \div Period
    BY <1>2
  <2> QED BY <2>1 DEF Reset
<1>7. whole <= late /\ late < next
  BY <1>3
<1> HIDE DEF whole, next
<1>8. first \in Nat /\ last \in Nat /\ a \in Nat /\ e.end <= first /\ first <= n /\ n < last
  BY <1>1, <1>4, <1>5, <1>7
<1> HIDE DEF first, last, a
<1>9. Reset(e, n) \in Ent
  <2>1. [e EXCEPT !.start = first, !.end = last, !.allowance = a, !.used = 0] \in Ent
    BY <1>8, NewPeriodTyped
  <2> QED BY <1>6, <2>1
<1>10. /\ Reset(e, n).plan = e.plan /\ Reset(e, n).wEnd = e.wEnd /\ Reset(e, n).wOver = e.wOver
       /\ Reset(e, n).topup = e.topup /\ Reset(e, n).start = first /\ Reset(e, n).end = last
       /\ Reset(e, n).used = 0
  BY <1>6 DEF Ent
<1> QED BY <1>8, <1>9, <1>10

\* What _roll() does to a row, whatever the time it is given: a row that is
\* not rolled stays as it is, and the period of one that is begins at the end
\* of its Welcome or of its last period.
LEMMA RollFacts ==
  ASSUME NEW e \in Ent, NEW n \in Nat
  PROVE  LET x == Roll(e, n) IN
         /\ x \in Ent
         /\ x.plan = e.plan /\ x.wEnd = e.wEnd /\ x.topup = e.topup
         /\ n < x.end
         /\ x.wEnd # None /\ ~x.wOver => n < x.wEnd
         /\ e.wOver => x.wOver
         /\ x = e
            \/ /\ x.used = 0 /\ e.end <= x.start /\ x.start <= n /\ x.wOver = e.wOver
            \/ /\ x.used = 0 /\ e.wEnd # None /\ e.wEnd <= x.start
               /\ ~e.wOver /\ x.wOver /\ x.wEnd < x.end /\ x.start < x.end
<1> DEFINE over == e.wEnd # None /\ ~e.wOver /\ n >= e.wEnd
           w    == IF over THEN EndWelcome(e) ELSE e
<1>0. /\ e.wEnd \in Nat \cup {None} /\ e.end \in Nat /\ Period \in Nat \ {0} /\ e.wOver \in BOOLEAN
      /\ e.used \in Nat /\ e.start \in Nat
  BY LedgerAssumption DEF Ent
<1>1. over => /\ w \in Ent
              /\ w.plan = e.plan /\ w.wEnd = e.wEnd /\ w.wOver /\ w.topup = e.topup
              /\ w.start = e.wEnd /\ w.end = e.wEnd + Period /\ w.used = 0
  BY EndWelcomeFacts
<1>2. ~over => w = e
  OBVIOUS
<1>3. Roll(e, n) = IF n >= w.end THEN Reset(w, n) ELSE w
  BY DEF Roll
<1>4. w \in Ent
  BY <1>1, <1>2
<1> HIDE DEF w
<1>5. w.end \in Nat /\ w.start \in Nat /\ w.wOver \in BOOLEAN
  BY <1>4 DEF Ent
<1>6. CASE n >= w.end
  <2> DEFINE x == Reset(w, n)
  <2>1. /\ x \in Ent
        /\ x.plan = w.plan /\ x.wEnd = w.wEnd /\ x.wOver = w.wOver /\ x.topup = w.topup
        /\ w.end <= x.start /\ x.start <= n /\ n < x.end /\ x.used = 0
    BY <1>4, <1>6, ResetFacts
  <2>2. Roll(e, n) = x
    BY <1>3, <1>6
  <2>3. x.start \in Nat /\ x.end \in Nat
    BY <2>1 DEF Ent
  <2> HIDE DEF x
  <2>4. CASE over
    BY <1>0, <1>1, <1>5, <2>1, <2>2, <2>3, <2>4
  <2>5. CASE ~over
    BY <1>0, <1>2, <2>1, <2>2, <2>3, <2>5
  <2> QED BY <2>4, <2>5
<1>7. CASE ~(n >= w.end)
  <2>1. Roll(e, n) = w /\ n < w.end
    BY <1>3, <1>5, <1>7
  <2>2. CASE over
    BY <1>0, <1>1, <1>4, <2>1, <2>2
  <2>3. CASE ~over
    BY <1>0, <1>2, <1>4, <2>1, <2>3
  <2> QED BY <2>2, <2>3
<1> QED BY <1>6, <1>7

-----------------------------------------------------------------------------
(* Writing an object back.                                                 *)
LEMMA EntDomain ==
  ASSUME NEW e \in Ent
  PROVE  DOMAIN e = {"plan", "wEnd", "wOver", "start", "end", "allowance", "used", "topup"}
BY DEF Ent

LEMMA FlushedField ==
  ASSUME NEW row \in Ent, NEW copy \in Ent, NEW e \in Ent
  PROVE  LET x == Flushed(row, copy, e) IN
         /\ x.plan = IF e.plan # copy.plan THEN e.plan ELSE row.plan
         /\ x.wEnd = IF e.wEnd # copy.wEnd THEN e.wEnd ELSE row.wEnd
         /\ x.wOver = IF e.wOver # copy.wOver THEN e.wOver ELSE row.wOver
         /\ x.start = IF e.start # copy.start THEN e.start ELSE row.start
         /\ x.end = IF e.end # copy.end THEN e.end ELSE row.end
         /\ x.allowance = IF e.allowance # copy.allowance THEN e.allowance ELSE row.allowance
         /\ x.used = IF e.used # copy.used THEN e.used ELSE row.used
         /\ x.topup = IF e.topup # copy.topup THEN e.topup ELSE row.topup
BY EntDomain DEF Flushed

LEMMA FlushedTyped ==
  ASSUME NEW row \in Ent, NEW copy \in Ent, NEW e \in Ent
  PROVE  Flushed(row, copy, e) \in Ent
<1> DEFINE x == Flushed(row, copy, e)
<1>1. DOMAIN row = {"plan", "wEnd", "wOver", "start", "end", "allowance", "used", "topup"}
  BY EntDomain
<1>2. /\ x.plan \in Plan /\ x.wEnd \in Nat \cup {None} /\ x.wOver \in BOOLEAN
      /\ x.start \in Nat /\ x.end \in Nat /\ x.allowance \in Nat /\ x.used \in Nat /\ x.topup \in Nat
  BY FlushedField DEF Ent
<1>3. x = [f \in DOMAIN row |-> x[f]]
  BY DEF Flushed
<1> HIDE DEF x
<1>4. x = [f \in {"plan", "wEnd", "wOver", "start", "end", "allowance", "used", "topup"} |-> x[f]]
  BY <1>1, <1>3
<1>5. x = [plan |-> x.plan, wEnd |-> x.wEnd, wOver |-> x.wOver, start |-> x.start,
           end |-> x.end, allowance |-> x.allowance, used |-> x.used, topup |-> x.topup]
  BY <1>4
<1>6. x \in Ent
  BY <1>2, <1>5 DEF Ent
<1> QED BY <1>6 DEF x

\* An object loaded from the row as it is now is written whole.
LEMMA FlushedOwn ==
  ASSUME NEW row \in Ent, NEW e \in Ent
  PROVE  Flushed(row, row, e) = e
<1>1. e = [f \in DOMAIN e |-> e[f]]
  BY DEF Ent
<1>2. DOMAIN e = DOMAIN row
  BY EntDomain
<1>3. Flushed(row, row, e) = [f \in DOMAIN row |-> e[f]]
  BY DEF Flushed
<1> QED BY <1>1, <1>2, <1>3
\* An object that was not changed writes nothing.
LEMMA FlushedNothing ==
  ASSUME NEW row \in Ent, NEW e \in Ent
  PROVE  Flushed(row, e, e) = row
<1>1. row = [f \in DOMAIN row |-> row[f]]
  BY DEF Ent
<1>3. Flushed(row, e, e) = [f \in DOMAIN row |-> row[f]]
  BY DEF Flushed
<1> QED BY <1>1,  <1>3

-----------------------------------------------------------------------------
(* The rows a request works on.                                            *)
LEMMA NewRowFacts ==
  ASSUME NEW w \in Workspace, NEW n \in Nat, NEW again \in BOOLEAN
  PROVE  LET x == NewRow(w, n, again) IN
         /\ x \in Ent /\ x.used = 0 /\ x.topup = 0 /\ x.start < x.end /\ x.wOver = FALSE
         /\ IF again THEN x.wEnd = None
                     ELSE /\ x.wEnd = Born[w] + WelcomeDays /\ x.wEnd # None
                          /\ x.start = Born[w] /\ x.end = x.wEnd
<1>1. /\ Born[w] \in Nat /\ WelcomeDays \in Nat \ {0} /\ Period \in Nat \ {0}
      /\ PlanAllowance("developer", 0) \in Nat /\ WelcomeCeiling \in Nat /\ None \notin Nat
      /\ "developer" \in Plan
  BY LedgerAssumption DEF PlanAllowance, Plan
<1>2. CASE again
  <2>1. NewRow(w, n, again).end = n + Period /\ n + Period \in Nat /\ n < n + Period
    BY <1>1, <1>2 DEF NewRow
  <2> QED BY <1>1, <1>2, <2>1 DEF NewRow, Ent
<1>3. CASE ~again
  <2>1. Born[w] + WelcomeDays \in Nat /\ Born[w] < Born[w] + WelcomeDays
    BY <1>1
  <2> QED BY <1>1, <1>3, <2>1 DEF NewRow, Ent
<1> QED BY <1>2, <1>3

\* A request that goes on with a copy has one, of a row that still exists and
\* whose Welcome window nobody moves.
Copies ==
  \A s \in Session : req[s] # None /\ req[s].step = "copied" =>
    req[s].copy # None /\ ent[Ws(s)] # None /\ req[s].copy.wEnd = ent[Ws(s)].wEnd

\* Every entry belongs to a workspace that has its row, and only debits are
\* reversed, under a lock.
Recorded ==
  \A k \in Key : ledger[k] # None => ledger[k].ws \in Workspace /\ ent[ledger[k].ws] # None

Reversals ==
  \A s \in Session : req[s] # None /\ req[s].r.op = "reverse" =>
    req[s].step = "load" /\ req[s].r.key \in Debits(Ws(s))

TypeInv == TypeOK /\ Copies /\ Recorded /\ Reversals

LEMMA RequestTyped ==
  ASSUME TypeOK, NEW s \in Session, req[s] # None
  PROVE  /\ req[s] \in Job /\ req[s].r \in Request /\ Ws(s) \in Workspace /\ Now(s) \in Nat
         /\ req[s].again \in BOOLEAN /\ req[s].copy \in Ent \cup {None}
         /\ req[s].step \in {"load", "ensure", "insert", "copied"}
         /\ req[s].r.op \in {"meter", "reverse"} => req[s].r.key \in MeterKey
         /\ req[s].r.op = "meter" => req[s].r.arg \in Action
         /\ req[s].r.op = "topup" => req[s].r.key \in TopupKey
         /\ req[s].r.op = "plan" => req[s].r.arg \in Plan
         /\ req[s].r.op = "renew" => req[s].r.key \in Renewal
<1>1. req[s] \in Job
  BY DEF TypeOK
<1>2. /\ req[s].r \in Request /\ req[s].now \in Nat /\ req[s].again \in BOOLEAN
      /\ req[s].copy \in Ent \cup {None} /\ req[s].step \in {"load", "ensure", "insert", "copied"}
  BY <1>1 DEF Job
<1> DEFINE r == req[s].r
<1>3. /\ r.ws \in Workspace
      /\ r.op \in {"meter", "reverse"} => r.key \in MeterKey
      /\ r.op = "meter" => r.arg \in Action
      /\ r.op = "topup" => r.key \in TopupKey
      /\ r.op = "plan" => r.arg \in Plan
      /\ r.op = "renew" => r.key \in Renewal
  BY <1>2 DEF Request
<1> QED BY <1>1, <1>2, <1>3 DEF Ws, Now

\* The object a request works on, and what is left of it after the roll.
LEMMA RowFacts ==
  ASSUME TypeInv, NEW s \in Session, req[s] # None, HasRow(s)
  PROVE  /\ Loaded(s) \in Ent /\ Row(s) \in Ent
         /\ Row(s).wEnd = Loaded(s).wEnd /\ Row(s).topup = Loaded(s).topup
         /\ ent[Ws(s)] = None => req[s].step = "insert"
         /\ ent[Ws(s)] # None => ent[Ws(s)] \in Ent /\ Loaded(s).wEnd = ent[Ws(s)].wEnd
<1>1. /\ Ws(s) \in Workspace /\ Now(s) \in Nat /\ req[s].again \in BOOLEAN
      /\ req[s].copy \in Ent \cup {None} /\ ent[Ws(s)] \in Ent \cup {None}
  BY RequestTyped DEF TypeInv, TypeOK
<1>2. CASE req[s].step = "load" /\ ent[Ws(s)] # None
  BY <1>1, <1>2, RollFacts DEF Loaded, Row
<1>3. CASE req[s].step = "insert" /\ Insertable(s)
  BY <1>1, <1>3, RollFacts, NewRowFacts DEF Loaded, Row, Insertable
<1>4. CASE req[s].step = "copied"
  BY <1>1, <1>4, RollFacts DEF Loaded, Row, TypeInv, Copies
<1> QED BY <1>2, <1>3, <1>4 DEF HasRow

LEMMA CommitFacts ==
  ASSUME TypeInv, NEW s \in Session, req[s] # None, HasRow(s),
         NEW e \in Ent, e.wEnd = Row(s).wEnd, Commit(s, e)
  PROVE  /\ ent' \in [Workspace -> Ent \cup {None}]
         /\ \A w \in Workspace : w # Ws(s) => ent'[w] = ent[w]
         /\ ent'[Ws(s)] \in Ent
         /\ ent'[Ws(s)] = IF ent[Ws(s)] = None THEN e ELSE Flushed(ent[Ws(s)], Loaded(s), e)
         /\ ent'[Ws(s)].wEnd = Loaded(s).wEnd
         /\ req' = [req EXCEPT ![s] = None]
<1>1. /\ Loaded(s) \in Ent /\ Row(s).wEnd = Loaded(s).wEnd
      /\ ent[Ws(s)] # None => ent[Ws(s)] \in Ent /\ Loaded(s).wEnd = ent[Ws(s)].wEnd
  BY RowFacts
<1>2. Ws(s) \in Workspace /\ ent \in [Workspace -> Ent \cup {None}]
  BY RequestTyped DEF TypeInv, TypeOK
<1> DEFINE x == IF ent[Ws(s)] = None THEN e ELSE Flushed(ent[Ws(s)], Loaded(s), e)
<1>3. x \in Ent /\ x.wEnd = Loaded(s).wEnd
  <2>1. CASE ent[Ws(s)] = None
    BY <1>1, <2>1
  <2>2. CASE ent[Ws(s)] # None
    <3> DEFINE row == ent[Ws(s)]
               y   == Flushed(row, Loaded(s), e)
    <3>1. row \in Ent /\ x = y
      BY <1>1, <2>2
    <3>2. y \in Ent
      BY <1>1, <3>1, FlushedTyped
    <3>3. y.wEnd = IF e.wEnd # Loaded(s).wEnd THEN e.wEnd ELSE row.wEnd
      BY <1>1, <3>1, FlushedField
    <3> QED BY <1>1, <2>2, <3>1, <3>2, <3>3
  <2> QED BY <2>1, <2>2
<1>4. ent' = [ent EXCEPT ![Ws(s)] = x] /\ req' = [req EXCEPT ![s] = None]
  BY DEF Commit, Free
<1> HIDE DEF x
<1> QED BY <1>2, <1>3, <1>4 DEF x

-----------------------------------------------------------------------------
(* Every serving step but a lookup answers the request: it leaves the      *)
(* tables alone, or writes back an object with the Welcome window that was *)
(* loaded.                                                                 *)
Answered(s) == Free(s) /\ UNCHANGED <<clock, ent, ledger, refunds, rest>>

OneEntry(s) ==
  \/ ledger' = ledger
  \/ \E k \in Key, x \in Entry :
       ledger[k] = None /\ x.ws = Ws(s) /\ ledger' = [ledger EXCEPT ![k] = x]

Committed(s) ==
  /\ req[s] # None /\ HasRow(s)
  /\ \E e \in Ent : e.wEnd = Row(s).wEnd /\ Commit(s, e)
  /\ clock' = clock
  /\ OneEntry(s)
  /\ refunds' \in [MeterKey -> Refund \cup {None}]
  /\ renewals' \subseteq Renewal
  /\ plans' \in [Workspace -> Nat]
  /\ raced' \subseteq Workspace \X Race

LEMMA SettleCommits ==
  ASSUME TypeInv, NEW s \in Session, req[s] # None, HasRow(s),
         NEW e \in Ent, e.wEnd = Row(s).wEnd, Settle(s, e)
  PROVE  Commit(s, e) /\ raced' \subseteq Workspace \X Race
<1>1. Ws(s) \in Workspace /\ raced \subseteq Workspace \X Race
  BY RequestTyped DEF TypeInv, TypeOK
<1> QED BY <1>1 DEF Settle, Race

LEMMA StartPeriodCommits ==
  ASSUME TypeInv, NEW s \in Session, req[s] # None, HasRow(s),
         NEW e \in Ent, e.wEnd = Row(s).wEnd, StartPeriod(s, e)
  PROVE  Commit(s, e) /\ raced' \subseteq Workspace \X Race /\ plans' \in [Workspace -> Nat]
<1>1. Ws(s) \in Workspace /\ raced \subseteq Workspace \X Race /\ plans \in [Workspace -> Nat]
  BY RequestTyped DEF TypeInv, TypeOK
<1>2. raced' \subseteq Workspace \X Race
  BY <1>1 DEF StartPeriod, Race
<1>3. plans' \in [Workspace -> Nat]
  BY <1>1 DEF StartPeriod
<1> QED BY <1>2, <1>3 DEF StartPeriod

LEMMA MeterReplayCommits ==
  ASSUME TypeInv, NEW s \in Session, MeterReplay(s)
  PROVE  Answered(s) \/ Committed(s)
<1>1. req[s] # None /\ HasRow(s)
  BY DEF MeterReplay, MeterReady, Serving
<1>2. Row(s) \in Ent
  BY <1>1, RowFacts
<1>3. Settle(s, Row(s)) \/ Refuse(s)
  BY DEF MeterReplay
<1>4. UNCHANGED <<clock, ledger, refunds, renewals, plans>>
  BY DEF MeterReplay
<1>5. CASE Settle(s, Row(s))
  BY <1>1, <1>2, <1>4, <1>5, SettleCommits DEF Committed, OneEntry, TypeInv, TypeOK
<1>6. CASE Refuse(s)
  BY <1>4, <1>6 DEF Answered, Refuse, rest
<1> QED BY <1>3, <1>5, <1>6

LEMMA MeterDeniedCommits ==
  ASSUME TypeInv, NEW s \in Session, MeterDenied(s)
  PROVE  Committed(s)
<1>1. req[s] # None /\ HasRow(s)
  BY DEF MeterDenied, MeterReady, Serving
<1>2. Row(s) \in Ent
  BY <1>1, RowFacts
<1>3. Settle(s, Row(s)) /\ UNCHANGED <<clock, ledger, refunds, renewals, plans>>
  BY DEF MeterDenied
<1> QED BY <1>1, <1>2, <1>3, SettleCommits DEF Committed, OneEntry, TypeInv, TypeOK

LEMMA MeterEntryTyped ==
  ASSUME TypeInv, NEW s \in Session, MeterReady(s),
         NEW type \in {"debit", "read_unbilled"}, NEW credits \in Nat, NEW allow \in Nat,
         allow <= credits
  PROVE  MeterEntry(s, type, credits, allow) \in Entry
<1>1. req[s] # None /\ HasRow(s) /\ req[s].r.op = "meter"
  BY DEF MeterReady, Serving
<1>2. Row(s) \in Ent /\ Ws(s) \in Workspace /\ Now(s) \in Nat /\ req[s].r.arg \in Action
  BY <1>1, RowFacts, RequestTyped DEF TypeInv
<1>3. PeriodOf(Ws(s), Row(s)) \in Nat \X Nat
  BY <1>2 DEF PeriodOf, Ent, TypeInv, TypeOK
<1>4. credits - allow \in Nat
  OBVIOUS
<1> QED BY <1>2, <1>3, <1>4 DEF MeterEntry, Entry

LEMMA MeterUnbilledCommits ==
  ASSUME TypeInv, NEW s \in Session, MeterUnbilled(s)
  PROVE  Committed(s)
<1>1. req[s] # None /\ HasRow(s) /\ MeterReady(s) /\ req[s].r.key \in MeterKey
  BY RequestTyped DEF MeterUnbilled, MeterReady, Serving, TypeInv
<1>2. Row(s) \in Ent
  BY <1>1, RowFacts
<1>3. Settle(s, Row(s)) /\ UNCHANGED <<clock, refunds, renewals, plans>>
  BY DEF MeterUnbilled
<1> DEFINE x == MeterEntry(s, "read_unbilled", 0, 0)
<1>4. x \in Entry
  BY <1>1, MeterEntryTyped
<1>5. ledger' = [ledger EXCEPT ![req[s].r.key] = x]
  BY DEF MeterUnbilled
<1> HIDE DEF x
<1>6. OneEntry(s)
  <2>1. x.ws = Ws(s)
    BY DEF x, MeterEntry
  <2>2. ledger[req[s].r.key] = None
    BY DEF MeterUnbilled, Unkeyed
  <2> QED BY <1>1, <1>4, <1>5, <2>1, <2>2 DEF OneEntry, Key
<1> QED BY <1>1, <1>2, <1>3, <1>6, SettleCommits DEF Committed, TypeInv, TypeOK

\* What a governed action costs, and how much of it the allowance pays.
Charge(s)  == Cost[req[s].r.arg]
Covered(s) == IF Charge(s) < Remaining(Row(s)) THEN Charge(s) ELSE Remaining(Row(s))
Charged(s) == [Row(s) EXCEPT !.used = @ + Covered(s), !.topup = @ - (Charge(s) - Covered(s))]

LEMMA ChargeFacts ==
  ASSUME TypeInv, NEW s \in Session, MeterCharge(s)
  PROVE  /\ req[s] # None /\ HasRow(s) /\ MeterReady(s) /\ req[s].r.key \in MeterKey
         /\ Row(s) \in Ent
         /\ Charge(s) \in Nat \ {0} /\ Covered(s) \in Nat /\ Covered(s) <= Charge(s)
         /\ Covered(s) <= Remaining(Row(s)) /\ Charge(s) - Covered(s) <= Row(s).topup
         /\ Charged(s) \in Ent
         /\ Charged(s).wEnd = Row(s).wEnd /\ Charged(s).wOver = Row(s).wOver
         /\ Charged(s).start = Row(s).start /\ Charged(s).end = Row(s).end
         /\ Charged(s).allowance = Row(s).allowance
         /\ Charged(s).used = Row(s).used + Covered(s)
         /\ Charged(s).topup = Row(s).topup - (Charge(s) - Covered(s))
         /\ ledger[req[s].r.key] = None
         /\ ledger' = [ledger EXCEPT ![req[s].r.key] =
                          MeterEntry(s, "debit", Charge(s), Covered(s))]
         /\ Settle(s, Charged(s)) /\ UNCHANGED <<clock, refunds, renewals, plans>>
<1>1. req[s] # None /\ HasRow(s) /\ MeterReady(s) /\ req[s].r.key \in MeterKey
      /\ req[s].r.arg \in Action
  BY RequestTyped DEF MeterCharge, MeterReady, Serving, TypeInv
<1>2. Row(s) \in Ent /\ Charge(s) \in Nat \ {0}
  BY LedgerAssumption, <1>1, RowFacts DEF Charge
<1>3. Row(s).used \in Nat /\ Row(s).allowance \in Nat /\ Row(s).topup \in Nat
  BY <1>2 DEF Ent
<1>4. Available(Row(s)) >= Charge(s) /\ Remaining(Row(s)) \in Nat
  BY <1>2, <1>3 DEF MeterCharge, Short, Available, Remaining, Charge
<1>5. /\ Covered(s) \in Nat /\ Covered(s) <= Charge(s) /\ Covered(s) <= Remaining(Row(s))
      /\ Charge(s) - Covered(s) <= Row(s).topup
  BY <1>2, <1>3, <1>4 DEF Covered, Available
<1> DEFINE u == Row(s).used + Covered(s)
           t == Row(s).topup - (Charge(s) - Covered(s))
<1>6. u \in Nat /\ t \in Nat
  BY <1>2, <1>3, <1>5
<1>7. Charged(s) = [Row(s) EXCEPT !.used = u, !.topup = t]
  BY DEF Charged
<1>8. [Row(s) EXCEPT !.used = u, !.topup = t] \in Ent
  <2> HIDE DEF u, t
  <2> QED BY <1>2, <1>6 DEF Ent
<1>9. /\ Charged(s).wEnd = Row(s).wEnd /\ Charged(s).wOver = Row(s).wOver
      /\ Charged(s).start = Row(s).start /\ Charged(s).end = Row(s).end
      /\ Charged(s).allowance = Row(s).allowance
      /\ Charged(s).used = u /\ Charged(s).topup = t
  <2> HIDE DEF u, t
  <2> QED BY <1>2, <1>7 DEF Ent
<1>10. /\ ledger[req[s].r.key] = None
       /\ ledger' = [ledger EXCEPT ![req[s].r.key] =
                        MeterEntry(s, "debit", Charge(s), Covered(s))]
       /\ Settle(s, Charged(s)) /\ UNCHANGED <<clock, refunds, renewals, plans>>
  BY DEF MeterCharge, Unkeyed, Charge, Covered, Charged
<1> QED BY <1>1, <1>2, <1>5, <1>7, <1>8, <1>9, <1>10

LEMMA MeterChargeCommits ==
  ASSUME TypeInv, NEW s \in Session, MeterCharge(s)
  PROVE  Committed(s)
<1> DEFINE x == MeterEntry(s, "debit", Charge(s), Covered(s))
<1>1. x \in Entry
  BY ChargeFacts, MeterEntryTyped
<1>2. ledger' = [ledger EXCEPT ![req[s].r.key] = x]
  BY ChargeFacts
<1> HIDE DEF x
<1>3. OneEntry(s)
  <2>1. x.ws = Ws(s)
    BY DEF x, MeterEntry
  <2>2. ledger[req[s].r.key] = None /\ req[s].r.key \in MeterKey
    BY ChargeFacts
  <2> QED BY <1>1, <1>2, <2>1, <2>2 DEF OneEntry, Key
<1>4. req[s] # None /\ HasRow(s) /\ Charged(s) \in Ent /\ Charged(s).wEnd = Row(s).wEnd
      /\ Settle(s, Charged(s)) /\ UNCHANGED <<clock, refunds, renewals, plans>>
  BY ChargeFacts
<1> QED BY <1>3, <1>4, SettleCommits DEF Committed, TypeInv, TypeOK

\* What a refund gives back, and the object it writes.
Back(s) ==
  IF ledger[req[s].r.key].at >= Row(s).start THEN ledger[req[s].r.key].allow ELSE 0
GivenBack(s) ==
  [Row(s) EXCEPT !.used = IF Back(s) < @ THEN @ - Back(s) ELSE 0,
                 !.topup = @ + ledger[req[s].r.key].topup]
RefundRow(s) == [at |-> Now(s), allow |-> Back(s), period |-> PeriodOf(Ws(s), Row(s))]

LEMMA ReverseFacts ==
  ASSUME TypeInv, NEW s \in Session, Reverse(s)
  PROVE  /\ req[s] # None /\ HasRow(s) /\ req[s].step = "load"
         /\ Ws(s) \in Workspace /\ Row(s) \in Ent
         /\ req[s].r.key \in Debits(Ws(s)) /\ req[s].r.key \in MeterKey
         /\ ledger[req[s].r.key] \in Entry
         /\ Back(s) \in Nat /\ Back(s) <= ledger[req[s].r.key].allow
         /\ RefundRow(s) \in Refund
         /\ GivenBack(s) \in Ent
         /\ GivenBack(s).wEnd = Row(s).wEnd /\ GivenBack(s).wOver = Row(s).wOver
         /\ GivenBack(s).start = Row(s).start /\ GivenBack(s).end = Row(s).end
         /\ GivenBack(s).allowance = Row(s).allowance
         /\ GivenBack(s).used = IF Back(s) < Row(s).used THEN Row(s).used - Back(s) ELSE 0
         /\ GivenBack(s).topup = Row(s).topup + ledger[req[s].r.key].topup
         /\ \/ refunds[req[s].r.key] # None /\ Settle(s, Row(s)) /\ refunds' = refunds
            \/ /\ refunds[req[s].r.key] = None /\ Settle(s, GivenBack(s))
               /\ refunds' = [refunds EXCEPT ![req[s].r.key] = RefundRow(s)]
         /\ UNCHANGED <<clock, ledger, renewals, plans>>
<1> DEFINE k == req[s].r.key
           d == ledger[k]
<1>1. req[s] # None /\ HasRow(s) /\ req[s].r.op = "reverse"
  BY DEF Reverse, Serving
<1>2. req[s].step = "load" /\ k \in Debits(Ws(s))
  BY <1>1 DEF TypeInv, Reversals
<1>3. k \in MeterKey /\ d # None
  BY <1>2 DEF Debits
<1>4. d \in Entry
  BY <1>3 DEF TypeInv, TypeOK, Key
<1>5. d.allow \in Nat /\ d.topup \in Nat /\ d.at \in Nat
  BY <1>4 DEF Entry
<1>6. Row(s) \in Ent /\ Ws(s) \in Workspace /\ Now(s) \in Nat
  BY <1>1, RowFacts, RequestTyped DEF TypeInv
<1>7. Row(s).used \in Nat /\ Row(s).topup \in Nat /\ Row(s).start \in Nat
  BY <1>6 DEF Ent
<1>8. Back(s) \in Nat /\ Back(s) <= d.allow
  BY <1>5, <1>7 DEF Back
<1>9. PeriodOf(Ws(s), Row(s)) \in Nat \X Nat
  BY <1>6, <1>7 DEF PeriodOf, TypeInv, TypeOK
<1>10. RefundRow(s) \in Refund
  BY <1>6, <1>8, <1>9 DEF RefundRow, Refund
<1> DEFINE u == IF Back(s) < Row(s).used THEN Row(s).used - Back(s) ELSE 0
           t == Row(s).topup + d.topup
<1>11. u \in Nat /\ t \in Nat
  BY <1>5, <1>7, <1>8
<1>12. GivenBack(s) = [Row(s) EXCEPT !.used = u, !.topup = t]
  BY DEF GivenBack
<1>13. [Row(s) EXCEPT !.used = u, !.topup = t] \in Ent
  <2> HIDE DEF u, t
  <2> QED BY <1>6, <1>11 DEF Ent
<1>14. /\ GivenBack(s).wEnd = Row(s).wEnd /\ GivenBack(s).wOver = Row(s).wOver
       /\ GivenBack(s).start = Row(s).start /\ GivenBack(s).end = Row(s).end
       /\ GivenBack(s).allowance = Row(s).allowance
       /\ GivenBack(s).used = u /\ GivenBack(s).topup = t
  <2> HIDE DEF u, t
  <2> QED BY <1>6, <1>12 DEF Ent
<1>15. /\ \/ refunds[k] # None /\ Settle(s, Row(s)) /\ refunds' = refunds
          \/ /\ refunds[k] = None /\ Settle(s, GivenBack(s))
             /\ refunds' = [refunds EXCEPT ![k] = RefundRow(s)]
       /\ UNCHANGED <<clock, ledger, renewals, plans>>
  BY DEF Reverse, RefundRow, GivenBack, Back
<1> QED BY <1>1, <1>2, <1>3, <1>4, <1>6, <1>8, <1>10, <1>12, <1>13, <1>14, <1>15

LEMMA ReverseCommits ==
  ASSUME TypeInv, NEW s \in Session, Reverse(s)
  PROVE  Committed(s)
<1>1. /\ req[s] # None /\ HasRow(s) /\ Row(s) \in Ent
      /\ GivenBack(s) \in Ent /\ GivenBack(s).wEnd = Row(s).wEnd
      /\ UNCHANGED <<clock, ledger, renewals, plans>>
  BY ReverseFacts
<1>2. refunds' \in [MeterKey -> Refund \cup {None}]
  <2>1. refunds' = refunds \/ refunds' = [refunds EXCEPT ![req[s].r.key] = RefundRow(s)]
    BY ReverseFacts
  <2>2. req[s].r.key \in MeterKey /\ RefundRow(s) \in Refund
    BY ReverseFacts
  <2> QED BY <2>1, <2>2 DEF TypeInv, TypeOK
<1>3. Settle(s, Row(s)) \/ Settle(s, GivenBack(s))
  BY ReverseFacts
<1>4. /\ raced' \subseteq Workspace \X Race
      /\ \E e \in Ent : e.wEnd = Row(s).wEnd /\ Commit(s, e)
  BY <1>1, <1>3, SettleCommits
<1> QED BY <1>1, <1>2, <1>4 DEF Committed, OneEntry, TypeInv, TypeOK

\* The ledger row of a top-up, and the object it writes.
TopupEntry(s) ==
  [type |-> "topup", ws |-> Ws(s), action |-> None, credits |-> TopupCredits[req[s].r.key],
   allow |-> 0, topup |-> 0, at |-> Now(s), period |-> PeriodOf(Ws(s), Row(s))]
ToppedUp(s) == [Row(s) EXCEPT !.topup = @ + TopupCredits[req[s].r.key]]

LEMMA TopupFacts ==
  ASSUME TypeInv, NEW s \in Session, Topup(s)
  PROVE  /\ req[s] # None /\ HasRow(s) /\ Ws(s) \in Workspace /\ Row(s) \in Ent
         /\ req[s].r.key \in TopupKey /\ TopupCredits[req[s].r.key] \in Nat \ {0}
         /\ TopupEntry(s) \in Entry /\ ToppedUp(s) \in Ent
         /\ ToppedUp(s).wEnd = Row(s).wEnd /\ ToppedUp(s).wOver = Row(s).wOver
         /\ ToppedUp(s).start = Row(s).start /\ ToppedUp(s).end = Row(s).end
         /\ ToppedUp(s).allowance = Row(s).allowance /\ ToppedUp(s).used = Row(s).used
         /\ ToppedUp(s).topup = Row(s).topup + TopupCredits[req[s].r.key]
         /\ \/ ledger' = ledger /\ (Settle(s, Row(s)) \/ Refuse(s))
            \/ /\ ledger[req[s].r.key] = None /\ Settle(s, ToppedUp(s))
               /\ ledger' = [ledger EXCEPT ![req[s].r.key] = TopupEntry(s)]
         /\ UNCHANGED <<clock, refunds, renewals, plans>>
<1> DEFINE k == req[s].r.key
           t == Row(s).topup + TopupCredits[k]
<1>1. req[s] # None /\ HasRow(s) /\ req[s].r.op = "topup"
  BY DEF Topup, Serving
<1>2. Row(s) \in Ent /\ Ws(s) \in Workspace /\ Now(s) \in Nat /\ k \in TopupKey
  BY <1>1, RowFacts, RequestTyped DEF TypeInv
<1>3. TopupCredits[k] \in Nat \ {0} /\ Row(s).topup \in Nat
  BY LedgerAssumption, <1>2 DEF Ent
<1>4. PeriodOf(Ws(s), Row(s)) \in Nat \X Nat
  BY <1>2 DEF PeriodOf, Ent, TypeInv, TypeOK
<1>5. TopupEntry(s) \in Entry
  BY <1>2, <1>3, <1>4 DEF TopupEntry, Entry
<1>6. t \in Nat
  BY <1>3
<1>7. ToppedUp(s) = [Row(s) EXCEPT !.topup = t]
  BY DEF ToppedUp
<1>8. [Row(s) EXCEPT !.topup = t] \in Ent
  <2> HIDE DEF t
  <2> QED BY <1>2, <1>6 DEF Ent
<1>9. /\ ToppedUp(s).wEnd = Row(s).wEnd /\ ToppedUp(s).wOver = Row(s).wOver
      /\ ToppedUp(s).start = Row(s).start /\ ToppedUp(s).end = Row(s).end
      /\ ToppedUp(s).allowance = Row(s).allowance /\ ToppedUp(s).used = Row(s).used
      /\ ToppedUp(s).topup = t
  <2> HIDE DEF t
  <2> QED BY <1>2, <1>7 DEF Ent
<1>10. /\ \/ ledger' = ledger /\ (Settle(s, Row(s)) \/ Refuse(s))
          \/ /\ ledger[k] = None /\ Settle(s, ToppedUp(s))
             /\ ledger' = [ledger EXCEPT ![k] = TopupEntry(s)]
       /\ UNCHANGED <<clock, refunds, renewals, plans>>
  BY DEF Topup, TopupEntry, ToppedUp
<1> QED BY <1>1, <1>2, <1>3, <1>5, <1>7, <1>8, <1>9, <1>10

LEMMA TopupCommits ==
  ASSUME TypeInv, NEW s \in Session, Topup(s)
  PROVE  Answered(s) \/ Committed(s)
<1>1. /\ req[s] # None /\ HasRow(s) /\ Row(s) \in Ent
      /\ ToppedUp(s) \in Ent /\ ToppedUp(s).wEnd = Row(s).wEnd
      /\ UNCHANGED <<clock, refunds, renewals, plans>>
  BY TopupFacts
<1>2. CASE ledger' = ledger /\ Refuse(s)
  BY <1>1, <1>2 DEF Answered, Refuse, rest
<1>3. CASE ledger' = ledger /\ Settle(s, Row(s))
  BY <1>1, <1>3, SettleCommits DEF Committed, OneEntry, TypeInv, TypeOK
<1>4. CASE /\ ledger[req[s].r.key] = None /\ Settle(s, ToppedUp(s))
           /\ ledger' = [ledger EXCEPT ![req[s].r.key] = TopupEntry(s)]
  <2>1. TopupEntry(s) \in Entry /\ TopupEntry(s).ws = Ws(s) /\ req[s].r.key \in Key
    BY TopupFacts DEF TopupEntry, Key
  <2>2. OneEntry(s)
    BY <1>4, <2>1 DEF OneEntry
  <2> QED BY <1>1, <1>4, <2>2, SettleCommits DEF Committed, TypeInv, TypeOK
<1> QED BY <1>2, <1>3, <1>4, TopupFacts

\* A fresh period leaves the Welcome window and the top-ups alone, and a
\* workspace that is still in Welcome has time left.
LEMMA FreshPeriodFacts ==
  ASSUME NEW e \in Ent, NEW n \in Nat, NEW a \in Nat
  PROVE  LET x == FreshPeriod(e, n, a) IN
         /\ x \in Ent
         /\ x.plan = e.plan /\ x.wEnd = e.wEnd /\ x.wOver = e.wOver /\ x.topup = e.topup
         /\ x.start = n /\ n < x.end /\ x.used = 0
<1> DEFINE z == n + Period
<1>1. z \in Nat /\ n < z
  BY LedgerAssumption
<1>2. FreshPeriod(e, n, a) = [e EXCEPT !.start = n, !.end = z, !.allowance = a, !.used = 0]
  BY DEF FreshPeriod
<1> HIDE DEF z
<1>3. FreshPeriod(e, n, a) \in Ent
  <2>1. [e EXCEPT !.start = n, !.end = z, !.allowance = a, !.used = 0] \in Ent
    BY <1>1, NewPeriodTyped
  <2> QED BY <1>2, <2>1
<1>4. LET x == FreshPeriod(e, n, a) IN
      /\ x.plan = e.plan /\ x.wEnd = e.wEnd /\ x.wOver = e.wOver /\ x.topup = e.topup
      /\ x.start = n /\ x.end = z /\ x.used = 0
  BY <1>2 DEF Ent
<1> QED BY <1>1, <1>3, <1>4 DEF z

LEMMA OnPlanFacts ==
  ASSUME NEW e \in Ent, NEW n \in Nat, NEW p \in Plan
  PROVE  LET x == OnPlan(e, n, p) IN
         /\ x \in Ent
         /\ x.wEnd = e.wEnd /\ (e.wOver => x.wOver) /\ x.topup = e.topup
         /\ x.start = n /\ n < x.end /\ x.used = 0
<1> DEFINE over == e.wOver \/ (p \in Paid /\ InWelcome(e, n))
           f    == [e EXCEPT !.plan = p, !.wOver = over]
           a    == IF p = "enterprise" THEN Contract ELSE PlanAllowance(p, 0)
<1>1. over \in BOOLEAN /\ a \in Nat
  BY LedgerAssumption DEF PlanAllowance, Ent, InWelcome
<1> HIDE DEF over, a
<1>2. f \in Ent
  BY <1>1 DEF Ent
<1>3. f.wEnd = e.wEnd /\ f.wOver = over /\ f.topup = e.topup
  BY DEF Ent
<1>4. OnPlan(e, n, p) = FreshPeriod(f, n, a)
  BY DEF OnPlan, over, a
<1> HIDE DEF f
<1>5. e.wOver => over
  BY DEF over
<1>6. LET x == FreshPeriod(f, n, a) IN
      /\ x \in Ent /\ x.wEnd = f.wEnd /\ x.wOver = f.wOver /\ x.topup = f.topup
      /\ x.start = n /\ n < x.end /\ x.used = 0
  BY <1>1, <1>2, FreshPeriodFacts
<1> QED BY <1>3, <1>4, <1>5, <1>6

LEMMA SetPlanCommits ==
  ASSUME TypeInv, NEW s \in Session, SetPlan(s)
  PROVE  Committed(s)
<1>1. req[s] # None /\ HasRow(s) /\ req[s].r.op = "plan"
  BY DEF SetPlan, Serving
<1>2. Row(s) \in Ent /\ Now(s) \in Nat /\ req[s].r.arg \in Plan
  BY <1>1, RowFacts, RequestTyped DEF TypeInv
<1> DEFINE e == OnPlan(Row(s), Now(s), req[s].r.arg)
<1>3. e \in Ent /\ e.wEnd = Row(s).wEnd
  BY <1>2, OnPlanFacts
<1>4. StartPeriod(s, e) /\ UNCHANGED <<clock, ledger, refunds, renewals>>
  BY DEF SetPlan
<1> HIDE DEF e
<1>5. Commit(s, e) /\ raced' \subseteq Workspace \X Race /\ plans' \in [Workspace -> Nat]
  BY <1>1, <1>3, <1>4, StartPeriodCommits
<1> QED BY <1>1, <1>3, <1>4, <1>5 DEF Committed, OneEntry, TypeInv, TypeOK

LEMMA RenewPeriodCommits ==
  ASSUME TypeInv, NEW s \in Session, RenewPeriod(s)
  PROVE  Committed(s)
<1>1. req[s] # None /\ HasRow(s) /\ req[s].r.op = "renew"
  BY DEF RenewPeriod, Serving
<1>2. Row(s) \in Ent /\ Now(s) \in Nat /\ req[s].r.key \in Renewal
  BY <1>1, RowFacts, RequestTyped DEF TypeInv
<1> DEFINE a == PlanAllowance(Row(s).plan, Row(s).allowance)
           e == FreshPeriod(Row(s), Now(s), a)
<1>3. a \in Nat
  BY LedgerAssumption, <1>2 DEF PlanAllowance, Ent
<1>4. e \in Ent /\ e.wEnd = Row(s).wEnd
  BY <1>2, <1>3, FreshPeriodFacts
<1>5. /\ UNCHANGED <<clock, ledger, refunds>>
      /\ \/ Settle(s, Row(s)) /\ UNCHANGED <<renewals, plans>>
         \/ StartPeriod(s, e) /\ renewals' = renewals \cup {req[s].r.key}
  BY DEF RenewPeriod
<1> HIDE DEF e
<1>6. CASE Settle(s, Row(s)) /\ UNCHANGED <<renewals, plans>>
  BY <1>1, <1>2, <1>5, <1>6, SettleCommits DEF Committed, OneEntry, TypeInv, TypeOK
<1>7. CASE StartPeriod(s, e) /\ renewals' = renewals \cup {req[s].r.key}
  <2>1. Commit(s, e) /\ raced' \subseteq Workspace \X Race /\ plans' \in [Workspace -> Nat]
    BY <1>1, <1>4, <1>7, StartPeriodCommits
  <2> QED BY <1>1, <1>2, <1>4, <1>5, <1>7, <2>1 DEF Committed, OneEntry, TypeInv, TypeOK
<1> QED BY <1>5, <1>6, <1>7

LEMMA ReadCommits ==
  ASSUME TypeInv, NEW s \in Session, Read(s)
  PROVE  Committed(s)
<1>1. req[s] # None /\ HasRow(s)
  BY DEF Read, Serving
<1>2. Row(s) \in Ent
  BY <1>1, RowFacts
<1>3. Settle(s, Row(s)) /\ UNCHANGED <<clock, ledger, refunds, renewals, plans>>
  BY DEF Read
<1> QED BY <1>1, <1>2, <1>3, SettleCommits DEF Committed, OneEntry, TypeInv, TypeOK

LEMMA ServeCommits ==
  ASSUME TypeInv, NEW s \in Session, Serve(s)
  PROVE  Miss(s) \/ Ensure(s) \/ Answered(s) \/ Committed(s)
<1>1. CASE InsertFails(s)
  BY <1>1 DEF InsertFails, Answered
<1> QED BY <1>1, MeterReplayCommits, MeterDeniedCommits, MeterUnbilledCommits, MeterChargeCommits,
           ReverseCommits, TopupCommits, SetPlanCommits, RenewPeriodCommits, ReadCommits DEF Serve

-----------------------------------------------------------------------------
(* Type correctness.                                                       *)
LEMMA InitTypeInv ==
  ASSUME Init
  PROVE  TypeInv
BY LedgerAssumption DEF Init, TypeInv, TypeOK, Copies, Recorded, Reversals

LEMMA ArriveTyped ==
  ASSUME TypeInv, NEW s \in Session, Arrive(s)
  PROVE  TypeInv'
<1>1. PICK r \in Traffic :
        /\ r.op = "reverse" => r.key \in Debits(r.ws)
        /\ req' = [req EXCEPT ![s] = [r |-> r, now |-> clock, again |-> FALSE, copy |-> None,
                                     step |-> IF r.op = "agents" THEN "ensure" ELSE "load"]]
  BY DEF Arrive
<1> DEFINE job == [r |-> r, now |-> clock, again |-> FALSE, copy |-> None,
                   step |-> IF r.op = "agents" THEN "ensure" ELSE "load"]
<1>2. job \in Job /\ job.copy = None /\ job.step # "copied" /\ job.r = r
      /\ (r.op = "reverse" => job.step = "load")
  BY LedgerAssumption DEF Job, TypeInv, TypeOK
<1>3. /\ req' = [req EXCEPT ![s] = job] /\ clock' = clock + 1
      /\ UNCHANGED <<ent, ledger, refunds, renewals, plans, raced>>
  BY <1>1 DEF Arrive, rest
<1> HIDE DEF job
<1>4. TypeOK'
  BY <1>2, <1>3 DEF TypeInv, TypeOK
<1>5. \A t \in Session : t # s => req'[t] = req[t]
  BY <1>3 DEF TypeInv, TypeOK
<1>6. req'[s] = job
  BY <1>3 DEF TypeInv, TypeOK
<1>7. Copies'
  BY <1>2, <1>3, <1>5, <1>6 DEF TypeInv, Copies, Ws
<1>8. Recorded'
  BY <1>3 DEF TypeInv, Recorded
<1>9. Reversals'
  BY <1>1, <1>2, <1>3, <1>5, <1>6 DEF TypeInv, Reversals, Ws, Debits
<1> QED BY <1>4, <1>7, <1>8, <1>9 DEF TypeInv

LEMMA TickTyped ==
  ASSUME TypeInv, Tick
  PROVE  TypeInv'
<1>1. clock' \in Nat /\ UNCHANGED <<ent, ledger, refunds, req, renewals, plans, raced>>
  BY DEF Tick, rest, TypeInv, TypeOK
<1> QED BY <1>1 DEF TypeInv, TypeOK, Copies, Recorded, Reversals, Ws, Debits

\* A lookup moves its own request only, and never takes a copy of nothing.
Looked(s, job) ==
  /\ job \in Job /\ job.r = req[s].r
  /\ job.step = "copied" => job.copy = ent[job.r.ws] /\ job.copy # None
  /\ req[s] # None /\ req' = [req EXCEPT ![s] = job]
  /\ UNCHANGED <<clock, ent, ledger, refunds, renewals, plans, raced>>

LEMMA LookupFacts ==
  ASSUME TypeInv, NEW s \in Session, Miss(s) \/ Ensure(s)
  PROVE  \E job \in Job : Looked(s, job)
<1>1. req[s] # None /\ req[s] \in Job /\ Ws(s) \in Workspace
  BY RequestTyped DEF Miss, Ensure, TypeInv
<1>2. UNCHANGED <<clock, ent, ledger, refunds, renewals, plans, raced>>
  BY DEF Miss, Ensure, rest
<1>3. HadWelcome(Owner[Ws(s)]) \in BOOLEAN
  BY DEF HadWelcome
<1>4. CASE ToInsert(s)
  <2> DEFINE a == HadWelcome(Owner[Ws(s)])
             job == [req[s] EXCEPT !.step = "insert", !.again = a]
  <2>1. req' = [req EXCEPT ![s] = job]
    BY <1>1, <1>4 DEF ToInsert, TypeInv, TypeOK
  <2> HIDE DEF a
  <2>2. job \in Job /\ job.r = req[s].r /\ job.step = "insert"
    BY <1>1, <1>3 DEF Job, a
  <2> QED BY <1>1, <1>2, <2>1, <2>2 DEF Looked
<1>5. CASE req' = [req EXCEPT ![s].step = "ensure"]
  <2> DEFINE job == [req[s] EXCEPT !.step = "ensure"]
  <2>1. req' = [req EXCEPT ![s] = job]
    BY <1>5
  <2>2. job \in Job /\ job.r = req[s].r /\ job.step = "ensure"
    BY <1>1 DEF Job
  <2> QED BY <1>1, <1>2, <2>1, <2>2 DEF Looked
<1>6. CASE ent[Ws(s)] # None /\ req' = [req EXCEPT ![s].step = "copied", ![s].copy = ent[Ws(s)]]
  <2> DEFINE c == ent[Ws(s)]
             job == [req[s] EXCEPT !.step = "copied", !.copy = c]
  <2>1. req' = [req EXCEPT ![s] = job]
    BY <1>1, <1>6 DEF TypeInv, TypeOK
  <2>2. c \in Ent /\ c # None
    BY <1>1, <1>6 DEF TypeInv, TypeOK
  <2> HIDE DEF c
  <2>3. job \in Job /\ job.r = req[s].r /\ job.step = "copied" /\ job.copy = c
    BY <1>1, <2>2 DEF Job
  <2>4. c = ent[job.r.ws]
    BY <2>3 DEF c, Ws
  <2> QED BY <1>1, <1>2, <2>1, <2>2, <2>3, <2>4 DEF Looked
<1> QED BY <1>4, <1>5, <1>6 DEF Miss, Ensure

LEMMA LookupTyped ==
  ASSUME TypeInv, NEW s \in Session, Miss(s) \/ Ensure(s)
  PROVE  TypeInv'
<1>1. PICK job \in Job : Looked(s, job)
  BY LookupFacts
<1>2. /\ job.r = req[s].r /\ req[s] # None /\ req' = [req EXCEPT ![s] = job]
      /\ job.step = "copied" => job.copy = ent[job.r.ws] /\ job.copy # None
      /\ UNCHANGED <<clock, ent, ledger, refunds, renewals, plans, raced>>
  BY <1>1 DEF Looked
<1>3. TypeOK'
  BY <1>2 DEF TypeInv, TypeOK
<1>4. /\ req'[s] = job
      /\ \A t \in Session : t # s => req'[t] = req[t]
  BY <1>2 DEF TypeInv, TypeOK
<1>5. Copies'
  BY <1>2, <1>4 DEF TypeInv, Copies, Ws
<1>6. Recorded'
  BY <1>2 DEF TypeInv, Recorded
<1>7. Reversals'
  <2> SUFFICES ASSUME NEW t \in Session, req'[t] # None, req'[t].r.op = "reverse"
               PROVE  req'[t].step = "load" /\ req'[t].r.key \in Debits(Ws(t))'
    BY DEF Reversals
  <2>1. req[t] # None /\ req[t].r.op = "reverse" /\ Ws(t)' = Ws(t) /\ req'[t].r.key = req[t].r.key
    BY <1>2, <1>4 DEF Ws
  <2>2. req[t].step = "load" /\ req[t].r.key \in Debits(Ws(t))
    BY <2>1 DEF TypeInv, Reversals
  <2>3. req[t].r.key \in Debits(Ws(t))'
    BY <1>2, <2>1, <2>2 DEF Debits
  <2>4. ent[Ws(t)] # None
    BY <2>2 DEF Debits, TypeInv, Recorded, Key
  <2>5. t # s
    BY <2>2, <2>4 DEF Miss, Ensure
  <2> QED BY <1>4, <2>1, <2>2, <2>3, <2>5
<1> QED BY <1>3, <1>5, <1>6, <1>7 DEF TypeInv

LEMMA AnsweredTyped ==
  ASSUME TypeInv, NEW s \in Session, Answered(s)
  PROVE  TypeInv'
<1>1. /\ req' = [req EXCEPT ![s] = None]
      /\ UNCHANGED <<clock, ent, ledger, refunds, renewals, plans, raced>>
  BY DEF Answered, Free, rest
<1>2. TypeOK'
  BY <1>1 DEF TypeInv, TypeOK
<1>3. /\ req'[s] = None
      /\ \A t \in Session : t # s => req'[t] = req[t]
  BY <1>1 DEF TypeInv, TypeOK
<1> QED BY <1>1, <1>2, <1>3 DEF TypeInv, Copies, Recorded, Reversals, Ws, Debits

\* What a commit leaves in place: rows never disappear, their Welcome window
\* never moves, and an entry of the ledger is never changed.
LEMMA CommittedFacts ==
  ASSUME TypeInv, NEW s \in Session, Committed(s)
  PROVE  /\ Ws(s) \in Workspace
         /\ ent' \in [Workspace -> Ent \cup {None}]
         /\ \A w \in Workspace : w # Ws(s) => ent'[w] = ent[w]
         /\ ent'[Ws(s)] \in Ent /\ ent'[Ws(s)] # None
         /\ ent'[Ws(s)].wEnd = Loaded(s).wEnd
         /\ \A w \in Workspace : ent[w] # None => ent'[w] # None /\ ent'[w].wEnd = ent[w].wEnd
         /\ req' = [req EXCEPT ![s] = None]
         /\ ledger' \in [Key -> Entry \cup {None}]
         /\ \A k \in Key : ledger[k] # None => ledger'[k] = ledger[k]
         /\ \A k \in Key : ledger'[k] # ledger[k] => ledger'[k].ws = Ws(s)
<1>1. req[s] # None /\ HasRow(s) /\ OneEntry(s)
  BY DEF Committed
<1>2. PICK e \in Ent : e.wEnd = Row(s).wEnd /\ Commit(s, e)
  BY DEF Committed
<1>3. Ws(s) \in Workspace
  BY <1>1, RequestTyped DEF TypeInv
<1>4. /\ ent' \in [Workspace -> Ent \cup {None}]
      /\ \A w \in Workspace : w # Ws(s) => ent'[w] = ent[w]
      /\ ent'[Ws(s)] \in Ent
      /\ ent'[Ws(s)].wEnd = Loaded(s).wEnd
      /\ req' = [req EXCEPT ![s] = None]
  BY <1>1, <1>2, CommitFacts
<1>5. \A x \in Ent : x # None
  BY LedgerAssumption
<1>6. ent[Ws(s)] # None => Loaded(s).wEnd = ent[Ws(s)].wEnd
  BY <1>1, RowFacts
<1>7. \A w \in Workspace : ent[w] # None => ent'[w] # None /\ ent'[w].wEnd = ent[w].wEnd
  BY <1>4, <1>5, <1>6
<1>8. /\ ledger' \in [Key -> Entry \cup {None}]
      /\ \A k \in Key : ledger[k] # None => ledger'[k] = ledger[k]
      /\ \A k \in Key : ledger'[k] # ledger[k] => ledger'[k].ws = Ws(s)
  BY <1>1 DEF OneEntry, TypeInv, TypeOK
<1> QED BY <1>3, <1>4, <1>5, <1>7, <1>8

LEMMA CommittedTyped ==
  ASSUME TypeInv, NEW s \in Session, Committed(s)
  PROVE  TypeInv'
<1>1. req' = [req EXCEPT ![s] = None]
  BY CommittedFacts
<1>2. /\ req'[s] = None
      /\ \A t \in Session : t # s => req'[t] = req[t]
      /\ req' \in [Session -> Job \cup {None}]
  BY <1>1 DEF TypeInv, TypeOK
<1>3. TypeOK'
  BY <1>2, CommittedFacts DEF TypeInv, TypeOK, Committed
<1>4. Copies'
  <2> SUFFICES ASSUME NEW t \in Session, req'[t] # None, req'[t].step = "copied"
               PROVE  req'[t].copy # None /\ ent'[req'[t].r.ws] # None
                        /\ req'[t].copy.wEnd = ent'[req'[t].r.ws].wEnd
    BY DEF Copies, Ws
  <2>1. req'[t] = req[t] /\ req[t] # None
    BY <1>2
  <2>2. Ws(t) \in Workspace /\ req[t].copy # None /\ ent[Ws(t)] # None
        /\ req[t].copy.wEnd = ent[Ws(t)].wEnd
    BY <2>1, RequestTyped DEF TypeInv, Copies
  <2>3. ent'[Ws(t)] # None /\ ent'[Ws(t)].wEnd = ent[Ws(t)].wEnd
    BY <2>2, CommittedFacts
  <2> QED BY <2>1, <2>2, <2>3 DEF Ws
<1>5. Recorded'
  BY CommittedFacts DEF TypeInv, Recorded
<1>6. Reversals'
  <2> SUFFICES ASSUME NEW t \in Session, req'[t] # None, req'[t].r.op = "reverse"
               PROVE  req'[t].step = "load" /\ req'[t].r.key \in Debits(Ws(t))'
    BY DEF Reversals
  <2>1. req'[t] = req[t] /\ req[t] # None /\ Ws(t)' = Ws(t)
    BY <1>2 DEF Ws
  <2>2. req[t].step = "load" /\ req[t].r.key \in Debits(Ws(t))
    BY <2>1 DEF TypeInv, Reversals
  <2>3. req[t].r.key \in Debits(Ws(t))'
    BY CommittedFacts, <2>1, <2>2 DEF Debits, Key
  <2> QED BY <2>1, <2>2, <2>3
<1> QED BY <1>3, <1>4, <1>5, <1>6 DEF TypeInv

LEMMA StutterTyped ==
  ASSUME TypeInv, UNCHANGED vars
  PROVE  TypeInv'
BY DEF vars, TypeInv, TypeOK, Copies, Recorded, Reversals, Ws, Debits

LEMMA NextTyped ==
  ASSUME TypeInv, [Next]_vars
  PROVE  TypeInv'
<1>1. CASE Tick
  BY <1>1, TickTyped
<1>2. ASSUME NEW s \in Session, Arrive(s) PROVE TypeInv'
  BY <1>2, ArriveTyped
<1>3. ASSUME NEW s \in Session, Serve(s) PROVE TypeInv'
  BY <1>3, ServeCommits, LookupTyped, AnsweredTyped, CommittedTyped
<1>4. CASE UNCHANGED vars
  BY <1>4, StutterTyped
<1> QED BY <1>1, <1>2, <1>3, <1>4 DEF Next

\* The tables and the requests under way keep their types, for any number of
\* workspaces, sessions and keys: no balance and no period is ever negative,
\* and what a request copied is still of a row that exists.
THEOREM Typing == Spec => []TypeInv
<1>1. Init => TypeInv
  BY InitTypeInv
<1>2. TypeInv /\ [Next]_vars => TypeInv'
  BY NextTyped
<1> QED BY <1>1, <1>2, PTL DEF Spec

\* The type invariant that the run checks.
THEOREM TypeCorrect == Spec => []TypeOK
<1>1. TypeInv => TypeOK
  BY DEF TypeInv
<1> QED BY <1>1, Typing, PTL

-----------------------------------------------------------------------------
(* One Welcome per owner.                                                  *)
\* A row that is inserted has a Welcome window only if no row of its owner has.
LEMMA InsertedWelcome ==
  ASSUME TypeInv, NEW s \in Session, req[s] # None, HasRow(s), ent[Ws(s)] = None,
         NEW w \in Workspace, Owner[w] = Owner[Ws(s)], ent[w] # None
  PROVE  Loaded(s).wEnd = None \/ ent[w].wEnd = None
<1>1. req[s].step = "insert" /\ Insertable(s)
  BY RowFacts DEF HasRow
<1>2. Ws(s) \in Workspace /\ Now(s) \in Nat /\ req[s].again \in BOOLEAN
  BY RequestTyped DEF TypeInv
<1>3. CASE req[s].again
  BY <1>1, <1>2, <1>3, NewRowFacts DEF Loaded
<1>4. CASE ~req[s].again
  BY <1>1, <1>4 DEF Insertable, HadWelcome
<1> QED BY <1>3, <1>4

LEMMA CommittedWelcome ==
  ASSUME TypeInv, WelcomeOncePerOwner, NEW s \in Session, Committed(s)
  PROVE  WelcomeOncePerOwner'
<1> SUFFICES ASSUME NEW v \in Workspace, NEW w \in Workspace, v # w, Owner[v] = Owner[w],
                    ent'[v] # None, ent'[w] # None
             PROVE  ent'[v].wEnd = None \/ ent'[w].wEnd = None
  BY DEF WelcomeOncePerOwner
<1>1. req[s] # None /\ HasRow(s)
  BY DEF Committed
<1>2. CASE ent[v] # None /\ ent[w] # None
  <2>1. ent'[v].wEnd = ent[v].wEnd /\ ent'[w].wEnd = ent[w].wEnd
    BY <1>2, CommittedFacts
  <2> QED BY <1>2, <2>1 DEF WelcomeOncePerOwner
<1>3. CASE ent[v] = None
  <2>1. v = Ws(s) /\ ent'[w] = ent[w]
    BY <1>3, CommittedFacts
  <2>2. ent'[v].wEnd = Loaded(s).wEnd
    BY <2>1, CommittedFacts
  <2> QED BY <1>1, <1>3, <2>1, <2>2, InsertedWelcome
<1>4. CASE ent[w] = None
  <2>1. w = Ws(s) /\ ent'[v] = ent[v]
    BY <1>4, CommittedFacts
  <2>2. ent'[w].wEnd = Loaded(s).wEnd
    BY <2>1, CommittedFacts
  <2> QED BY <1>1, <1>4, <2>1, <2>2, InsertedWelcome
<1> QED BY <1>2, <1>3, <1>4

\* Steps that commit nothing leave the tables of the ledger as they are.
LEMMA OtherSteps ==
  ASSUME TypeInv, [Next]_vars
  PROVE  \/ \E s \in Session : Committed(s)
         \/ UNCHANGED <<ent, ledger, refunds, plans, raced>>
<1>1. ASSUME Tick PROVE UNCHANGED <<ent, ledger, refunds, plans, raced>>
  BY <1>1 DEF Tick, rest
<1>2. ASSUME NEW s \in Session, Arrive(s) PROVE UNCHANGED <<ent, ledger, refunds, plans, raced>>
  BY <1>2 DEF Arrive, rest
<1>3. ASSUME NEW s \in Session, Serve(s)
      PROVE  Committed(s) \/ UNCHANGED <<ent, ledger, refunds, plans, raced>>
  BY <1>3, ServeCommits DEF Miss, Ensure, Answered, rest
<1>4. ASSUME UNCHANGED vars PROVE UNCHANGED <<ent, ledger, refunds, plans, raced>>
  BY <1>4 DEF vars
<1> QED BY <1>1, <1>2, <1>3, <1>4 DEF Next

\* The promise of the module's notes on Welcome, for any number of first
\* touches under way at once: the unique column, and the row of a request that
\* saw an earlier Welcome, let no owner have a second one.
THEOREM OneWelcome == Spec => []WelcomeOncePerOwner
<1>1. Init => WelcomeOncePerOwner
  BY DEF Init, WelcomeOncePerOwner
<1>2. TypeInv /\ WelcomeOncePerOwner /\ [Next]_vars => WelcomeOncePerOwner'
  <2>1. UNCHANGED <<ent, ledger, refunds, plans, raced>> /\ WelcomeOncePerOwner
          => WelcomeOncePerOwner'
    BY DEF WelcomeOncePerOwner
  <2> QED BY <2>1, OtherSteps, CommittedWelcome
<1> QED BY <1>1, <1>2, Typing, PTL DEF Spec
=============================================================================
