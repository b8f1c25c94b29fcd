------------------------ MODULE StripeEvents_proofs ------------------------
(***************************************************************************)
(* What holds of StripeEvents for every history of events, every number of *)
(* overlapping deliveries and every number of faults: the inductive        *)
(* invariant DeliveryInv, and from it that processed means credited and    *)
(* that nothing is applied twice unless deliveries overlapped or were cut  *)
(* short.  Every step is shown to preserve the four parts one by one.      *)
(* Then the inductive invariant OrderInv, and from it that the account     *)
(* follows Stripe as long as deliveries neither overlap nor overtake.      *)
(***************************************************************************)
EXTENDS StripeEvents, FunctionSums, SequenceTheorems, TLAPS

\* Events are records of the shape the assumption gives them.
LEMMA EventFields ==
  \A e \in Event : History[e] \in [kind : Kind, plan : Plan, named : BOOLEAN]
  <1> DEFINE S == [kind : Kind, plan : Plan, named : BOOLEAN]
  <1>1. History \in Seq(S)
    BY HistoryAssumption
  <1>2. \A i \in DOMAIN History : History[i] \in S
    <2>1. DOMAIN History = 1..Len(History)
      BY <1>1, LenProperties
    <2>2. QED
      BY <1>1, <2>1, ElementOfSeq
  <1>3. QED
    BY <1>2 DEF Event

\* The initial state: no rows, no deliveries.
LEMMA InitInv == Init => DeliveryInv
  <1> SUFFICES ASSUME Init PROVE DeliveryInv
    OBVIOUS
  <1>1. TypeOK
    <2>1. 0 \in 0..MaxFaults
      BY HistoryAssumption
    <2>2. QED
      BY <2>1 DEF Init, TypeOK, Columns, Plan
  <1>2. StepInv
    BY DEF Init, StepInv, At
  <1>3. CreditInv
    BY NoneAssumption DEF Init, CreditInv, Serves, Status
  <1>4. KeyedOnce
    BY DEF Init, KeyedOnce
  <1>5. Undisturbed
    BY NoneAssumption DEF Init, Undisturbed, Serves, Status
  <1>6. QED
    BY <1>1, <1>2, <1>3, <1>4, <1>5 DEF DeliveryInv

-----------------------------------------------------------------------------
\* Type correctness of every step.
LEMMA TypeStep == TypeOK /\ [Next]_vars => TypeOK'
  <1> SUFFICES ASSUME TypeOK, [Next]_vars PROVE TypeOK'
    OBVIOUS
  <1> USE EventFields DEF TypeOK, Job, Columns, Step, Status, Plan, Kind, account, observed
  <1>1. CASE UNCHANGED vars
    BY <1>1 DEF vars
  <1>2. ASSUME NEW d \in Delivery, NEW e \in Event, Deliver(d, e) PROVE TypeOK'
    BY <1>2 DEF Deliver, OutOfOrder
  <1>3. ASSUME NEW d \in Delivery, Look(d) PROVE TypeOK'
    BY <1>3 DEF Look, At, Ev, Answer
  <1>4. ASSUME NEW d \in Delivery, Claim(d) PROVE TypeOK'
    BY <1>4 DEF Claim, At, Ev, Answer, Goto
  <1>5. ASSUME NEW d \in Delivery, Find(d) PROVE TypeOK'
    BY <1>5 DEF Find, At, Ev, Goto
  <1>6. ASSUME NEW d \in Delivery, WriteColumns(d) PROVE TypeOK'
    BY <1>6 DEF WriteColumns, At, Ev, Goto, NewStatus, Is
  <1>7. ASSUME NEW d \in Delivery, Compare(d) PROVE TypeOK'
    BY <1>7 DEF Compare, At, Ev, Goto
  <1>8. ASSUME NEW d \in Delivery, Apply(d) PROVE TypeOK'
    BY <1>8 DEF Apply, At, Ev, Goto, GrantTopup, Renew, SetPlan, Applied, Touch, Is
  <1>9. ASSUME NEW d \in Delivery, Mark(d) PROVE TypeOK'
    BY <1>9 DEF Mark, At, Ev, Answer
  <1>10. ASSUME NEW d \in Delivery, MarkFailed(d) PROVE TypeOK'
    BY <1>10 DEF MarkFailed, At, Ev, Answer
  <1>11. ASSUME NEW d \in Delivery, Fault(d) PROVE TypeOK'
    <2>1. faults' \in 0..MaxFaults /\ disturbed' \subseteq Event
      BY <1>11, HistoryAssumption DEF Fault, Ev
    <2>2. req' \in [Delivery -> Job \cup {None}]
      <3>1. CASE Answer(d)
        BY <3>1 DEF Answer
      <3>2. CASE req[d] # None /\ Goto(d, "failing")
        BY <3>2 DEF Goto
      <3>3. QED
        BY <1>11, <3>1, <3>2 DEF Fault
    <2>3. QED
      BY <1>11, <2>1, <2>2 DEF Fault
  <1>12. QED
    BY <1>1, <1>2, <1>3, <1>4, <1>5, <1>6, <1>7, <1>8, <1>9, <1>10, <1>11 DEF Next, Process

-----------------------------------------------------------------------------
\* What each step does to the delivery that takes it, and to nobody else's.
LEMMA Others ==
  ASSUME TypeOK, NEW d \in Delivery, NEW c \in Delivery, c # d,
         Process(d) \/ Fault(d) \/ \E e \in Event : Deliver(d, e)
  PROVE  req'[c] = req[c]
  BY DEF TypeOK, Process, Fault, Deliver, Look, Claim, Find, WriteColumns, Compare, Apply, Mark,
         MarkFailed, Answer, Goto

\* Only a change is compared, and only a disturbed delivery is failing.
LEMMA StepStep == TypeOK /\ StepInv /\ [Next]_vars => StepInv'
  <1> SUFFICES ASSUME TypeOK, StepInv, [Next]_vars PROVE StepInv'
    OBVIOUS
  <1>1. CASE UNCHANGED vars
    BY <1>1 DEF vars, StepInv, At, Ev
  <1>2. ASSUME NEW d \in Delivery, Process(d) \/ Fault(d) \/ \E e \in Event : Deliver(d, e)
        PROVE  StepInv'
    <2> SUFFICES ASSUME NEW c \in Delivery
                 PROVE  /\ At(c, "compare")' => Is(Ev(c)', {"change"})
                        /\ At(c, "failing")' => Ev(c)' \in disturbed'
      BY DEF StepInv
    <2>1. disturbed \subseteq disturbed'
      BY <1>2 DEF Process, Fault, Deliver, Look, Claim, Find, WriteColumns, Compare, Apply, Mark,
                  MarkFailed, observed
    <2>2. CASE c # d
      BY <1>2, <2>1, <2>2, Others DEF StepInv, At, Ev
    <2>3. CASE c = d
      <3> USE <2>3 DEF TypeOK, Job, At, Ev
      <3>1. CASE \E e \in Event : Deliver(d, e)
        BY <3>1 DEF Deliver
      <3>2. CASE Look(d) \/ Claim(d) \/ Find(d)
        BY <3>2 DEF Look, Claim, Find, Answer, Goto
      <3>3. CASE WriteColumns(d)
        BY <3>3 DEF WriteColumns, Goto, Is
      <3>4. CASE Compare(d) \/ Apply(d) \/ Mark(d) \/ MarkFailed(d)
        BY <3>4 DEF Compare, Apply, Mark, MarkFailed, Goto, Answer
      <3>5. CASE Fault(d)
        BY <3>5 DEF Fault, Goto, Answer
      <3>6. QED
        BY <1>2, <3>1, <3>2, <3>3, <3>4, <3>5 DEF Process
    <2>4. QED
      BY <2>2, <2>3
  <1>3. QED
    BY <1>1, <1>2 DEF Next

-----------------------------------------------------------------------------
\* Keys of the ledger are never removed.
LEMMA CreditKept ==
  ASSUME TypeOK, [Next]_vars, NEW e \in Event, Credited(e)
  PROVE  Credited(e)'
  <1>1. topups \subseteq topups' /\ renewals \subseteq renewals'
    BY DEF Next, vars, account, Process, Fault, Deliver, Look, Claim, Find, WriteColumns, Compare,
           Apply, Mark, MarkFailed, GrantTopup, Renew, SetPlan
  <1>2. QED
    BY <1>1 DEF Credited

\* What a delivery marks is credited when it gets there, because only three
\* ways lead there: nobody was found, nothing was due, or the key is taken.
LEMMA CreditStep == TypeOK /\ StepInv /\ CreditInv /\ [Next]_vars => CreditInv'
  <1> SUFFICES ASSUME TypeOK, StepInv, CreditInv, [Next]_vars, NEW e \in Event,
                      row'[e] = "processed" \/ \E c \in Delivery : (Serves(c, e) /\ At(c, "mark"))'
               PROVE  Credited(e)'
    BY DEF CreditInv
  <1>1. CASE UNCHANGED vars
    BY <1>1 DEF vars, account, CreditInv, Serves, Ev, At, Credited
  <1>2. ASSUME NEW d \in Delivery, Process(d) \/ Fault(d) \/ \E f \in Event : Deliver(d, f)
        PROVE  Credited(e)'
    <2>1. CASE row[e] = "processed" \/ \E c \in Delivery : Serves(c, e) /\ At(c, "mark")
      BY <2>1, CreditKept DEF CreditInv
    <2>2. CASE row[e] # "processed" /\ ~\E c \in Delivery : Serves(c, e) /\ At(c, "mark")
      <3>1. row'[e] # "processed"
        BY <1>2, <2>2, NoneAssumption
           DEF TypeOK, Process, Fault, Deliver, Look, Claim, Find, WriteColumns, Compare, Apply,
               Mark, MarkFailed, Serves, At
      <3>2. (Serves(d, e) /\ At(d, "mark"))'
        BY <1>2, <2>2, <3>1, Others DEF Serves, At, Ev
      <3> USE <2>2, <3>2 DEF TypeOK, Job, Serves, At, Ev
      <3>3. CASE Find(d)
        BY <3>3 DEF Find, Goto, Credited
      <3>4. CASE WriteColumns(d)
        BY <3>4 DEF WriteColumns, Goto, Is, Credited
      <3>5. CASE Compare(d)
        BY <3>5 DEF Compare, Goto, Is, Credited, StepInv
      <3>6. CASE Apply(d)
        BY <3>6 DEF Apply, Goto, Is, Credited, GrantTopup, Renew, SetPlan
      <3>7. CASE Look(d) \/ Claim(d) \/ Mark(d) \/ MarkFailed(d)
        BY <3>7 DEF Look, Claim, Mark, MarkFailed, Goto, Answer
      <3>8. CASE Fault(d) \/ \E f \in Event : Deliver(d, f)
        BY <3>8 DEF Fault, Deliver, Goto, Answer
      <3>9. QED
        BY <1>2, <3>3, <3>4, <3>5, <3>6, <3>7, <3>8 DEF Process
    <2>3. QED
      BY <2>1, <2>2
  <1>3. QED
    BY <1>1, <1>2 DEF Next

\* The counters follow the keys: a key found taken adds nothing.
LEMMA KeyedStep == TypeOK /\ KeyedOnce /\ [Next]_vars => KeyedOnce'
  <1> SUFFICES ASSUME TypeOK, KeyedOnce, [Next]_vars PROVE KeyedOnce'
    OBVIOUS
  <1>1. CASE UNCHANGED <<topups, renewals, applied>>
    BY <1>1 DEF KeyedOnce
  <1>2. ASSUME NEW d \in Delivery, Apply(d) PROVE KeyedOnce'
    <2> DEFINE e == Ev(d)
    <2>0. e \in Event
      BY <1>2 DEF Apply, At, TypeOK, Job, Ev
    <2> HIDE DEF e
    <2>1. CASE GrantTopup(e)
      BY <2>0, <2>1 DEF GrantTopup, Applied, KeyedOnce, Is, TypeOK
    <2>2. CASE Renew(e)
      BY <2>0, <2>2 DEF Renew, Applied, KeyedOnce, Is, TypeOK
    <2>3. CASE SetPlan(e)
      BY <2>0, <2>3 DEF SetPlan, Applied, KeyedOnce, Is, TypeOK
    <2>4. QED
      BY <1>2, <2>1, <2>2, <2>3 DEF Apply, e
  <1>3. QED
    BY <1>1, <1>2 DEF Next, Process, vars, account, Fault, Deliver, Look, Claim, Find,
                      WriteColumns, Compare, Mark, MarkFailed

\* A step of a delivery of another event changes nothing about e.
LEMMA Elsewhere ==
  ASSUME TypeOK, NEW e \in Event, NEW d \in Delivery, req[d] # None, Ev(d) # e,
         Process(d) \/ Fault(d)
  PROVE  /\ row'[e] = row[e] /\ applied'[e] = applied[e]
         /\ \A c \in Delivery : /\ Serves(c, e)' <=> Serves(c, e)
                                /\ Serves(c, e) => req'[c] = req[c]
  <1>1. Ev(d) \in Event
    BY DEF TypeOK, Job, Ev
  <1>2. row'[e] = row[e]
    BY <1>1 DEF TypeOK, Process, Fault, Look, Claim, Find, WriteColumns, Compare, Apply, Mark,
                MarkFailed
  <1>3. applied'[e] = applied[e]
    BY <1>1 DEF TypeOK, Process, Fault, Look, Claim, Find, WriteColumns, Compare, Apply, Mark,
                MarkFailed, account, GrantTopup, Renew, SetPlan, Applied
  <1>4. ~Serves(d, e) /\ ~Serves(d, e)'
    BY DEF TypeOK, Job, Serves, Ev, Process, Fault, Look, Claim, Find, WriteColumns, Compare,
           Apply, Mark, MarkFailed, Goto, Answer
  <1>5. QED
    BY <1>2, <1>3, <1>4, Others DEF Serves, Ev

\* The one delivery of an undisturbed event applies it once and marks it.
LEMMA UndisturbedStep == TypeOK /\ StepInv /\ Undisturbed /\ [Next]_vars => Undisturbed'
  <1> DEFINE Calm(e) ==
        /\ \A c, d \in Delivery : Serves(c, e) /\ Serves(d, e) => c = d
        /\ row[e] = "processed" => \A d \in Delivery : Serves(d, e) => At(d, "look")
        /\ applied[e] \in {0, 1}
        /\ applied[e] = 1 =>
             row[e] = "processed" \/ \E d \in Delivery : Serves(d, e) /\ At(d, "mark")
  <1> SUFFICES ASSUME TypeOK, StepInv, Undisturbed, [Next]_vars,
                      NEW e \in Event, e \notin disturbed'
               PROVE  Calm(e)'
    BY DEF Undisturbed
  <1>0. e \notin disturbed
    BY DEF Next, vars, observed, Process, Fault, Deliver, Look, Claim, Find, WriteColumns, Compare,
           Apply, Mark, MarkFailed
  <1>1. Calm(e)
    BY <1>0 DEF Undisturbed
  <1>2. CASE UNCHANGED vars
    BY <1>1, <1>2 DEF vars, account, Serves, At, Ev
  <1>3. ASSUME NEW d \in Delivery, NEW f \in Event, Deliver(d, f) PROVE Calm(e)'
    <2>1. row' = row /\ applied' = applied
      BY <1>3 DEF Deliver, account
    <2>2. \A c \in Delivery : c # d => req'[c] = req[c]
      BY <1>3, Others
    <2>3. ~Serves(d, e) /\ (Serves(d, e)' => f = e /\ At(d, "look")')
      BY <1>3 DEF Deliver, TypeOK, Serves, Ev, At
    <2>4. CASE f = e
      <3>1. \A c \in Delivery : ~Serves(c, e)
        BY <1>3, <2>4, <1>0 DEF Deliver, InProgress, Serves, Ev
      <3>2. QED
        BY <1>1, <2>1, <2>2, <2>3, <3>1 DEF Serves, At, Ev
    <2>5. CASE f # e
      BY <1>1, <2>1, <2>2, <2>3, <2>5 DEF Serves, At, Ev
    <2>6. QED
      BY <2>4, <2>5
  <1>4. ASSUME NEW d \in Delivery, Process(d) \/ Fault(d) PROVE Calm(e)'
    <2>1. req[d] # None
      BY <1>4 DEF Process, Fault, Look, Claim, Find, WriteColumns, Compare, Apply, Mark,
                  MarkFailed, At
    <2>2. CASE Ev(d) # e
      BY <1>1, <1>4, <2>1, <2>2, Elsewhere DEF Serves, At, Ev
    <2>3. CASE Ev(d) = e
      <3>1. \A c \in Delivery : c # d => ~Serves(c, e) /\ ~Serves(c, e)'
        BY <1>1, <1>4, <2>1, <2>3, Others DEF Serves, Ev
      <3>2. ~Fault(d) /\ ~MarkFailed(d)
        BY <1>0, <2>1, <2>3 DEF Fault, MarkFailed, StepInv
      <3>3. ~At(d, "look") => row[e] # "processed"
        BY <1>1, <2>1, <2>3 DEF Serves
      <3>4. row[e] # "processed" /\ ~At(d, "mark") => applied[e] = 0
        BY <1>1, <3>1
      <3> USE <2>1, <2>3, <3>1 DEF TypeOK, Job, Serves, At, Ev
      <3>5. CASE Look(d)
        BY <1>1, <3>4, <3>5 DEF Look, Answer, account
      <3>6. CASE Claim(d)
        BY <3>3, <3>4, <3>6 DEF Claim, Answer, Goto, account
      <3>7. CASE Find(d) \/ WriteColumns(d) \/ Compare(d)
        BY <3>3, <3>4, <3>7 DEF Find, WriteColumns, Compare, Goto, account
      <3>8. CASE Apply(d)
        <4>1. applied[e] = 0 /\ row'[e] # "processed"
          BY <3>3, <3>4, <3>8 DEF Apply
        <4>2. applied'[e] \in {0, 1}
          BY <3>8, <4>1 DEF Apply, GrantTopup, Renew, SetPlan, Applied
        <4>3. req'[d] = [req[d] EXCEPT !.step = "mark"] /\ req'[d] \in Job
          BY <3>8 DEF Apply, Goto, Step
        <4>4. QED
          BY <4>1, <4>2, <4>3, NoneAssumption
      <3>9. CASE Mark(d)
        BY <1>1, <3>9 DEF Mark, Answer, account
      <3>10. QED
        BY <1>4, <3>2, <3>5, <3>6, <3>7, <3>8, <3>9 DEF Process
    <2>4. QED
      BY <2>2, <2>3
  <1>5. QED
    BY <1>2, <1>3, <1>4 DEF Next

-----------------------------------------------------------------------------
\* Every history of deliveries keeps the inductive invariant.
THEOREM Deliveries == Spec => []DeliveryInv
  <1>1. DeliveryInv /\ [Next]_vars => DeliveryInv'
    BY TypeStep, StepStep, CreditStep, KeyedStep, UndisturbedStep DEF DeliveryInv
  <1>2. QED
    BY <1>1, InitInv, PTL DEF Spec

\* A top-up or renewal that counts as processed has reached the account,
\* whichever delivery marked it and however many were cut short before.
THEOREM ProcessedIsCredited == Spec => []PaidMeansCredited
  <1>1. DeliveryInv => PaidMeansCredited
    BY DEF DeliveryInv, CreditInv, PaidMeansCredited
  <1>2. QED
    BY <1>1, Deliveries, PTL

\* Top-ups and renewals are applied once; a plan change twice only if deliveries
\* of its event overlapped or one was cut short.
THEOREM OnceUnlessDisturbed == Spec => []AppliedOnce
  <1>1. ASSUME DeliveryInv, NEW e \in Event, applied[e] > 1
        PROVE  Is(e, {"subscribe", "change", "cancel"}) /\ e \in disturbed
    <2>1. ~Is(e, {"topup"}) /\ ~Is(e, {"cycle"}) /\ ~Is(e, {"past_due"})
      BY <1>1 DEF DeliveryInv, KeyedOnce
    <2>2. e \in disturbed
      BY <1>1 DEF DeliveryInv, Undisturbed
    <2>3. QED
      BY <2>1, <2>2, EventFields DEF Is, Kind
  <1>2. DeliveryInv => AppliedOnce
    BY <1>1 DEF AppliedOnce
  <1>3. QED
    BY <1>2, Deliveries, PTL

\* A processed event is reopened only if its deliveries overlapped or one was
\* cut short: otherwise no delivery of it is past its look, and none is failing.
THEOREM ProcessedStays == Spec => StaysProcessed
  <1>1. ASSUME DeliveryInv, [Next]_vars, NEW e \in Event,
               row[e] = "processed", row'[e] # "processed", e \notin disturbed
        PROVE  FALSE
    <2>1. PICK d \in Delivery : Claim(d) \/ MarkFailed(d)
      BY <1>1 DEF Next, vars, Process, account, Deliver, Fault, Look, Find, WriteColumns,
                  Compare, Apply, Mark, DeliveryInv, TypeOK
    <2>2. Serves(d, e) /\ (At(d, "claim") \/ At(d, "failing"))
      BY <1>1, <2>1 DEF Claim, MarkFailed, Serves, At, DeliveryInv, TypeOK
    <2> QED BY <1>1, <2>2 DEF DeliveryInv, Undisturbed, At
  <1>2. DeliveryInv /\ [Next]_vars =>
          [\A e \in Event :
             row[e] = "processed" /\ row'[e] # "processed" => e \in disturbed]_vars
    BY <1>1
  <1>3. QED
    BY <1>2, Deliveries, PTL DEF Spec, StaysProcessed

-----------------------------------------------------------------------------
(* The account follows Stripe.                                             *)
\* What the n-th event makes of what the ones before it lead to.
AfterEvent(n, before) ==
  [plan   |-> CASE Is(n, {"subscribe", "change"}) -> History[n].plan
                [] Is(n, {"cancel"}) -> "developer"
                [] OTHER -> before.plan,
   status |-> IF Is(n, {"topup"}) THEN before.status ELSE NewStatus(n)]

AtFirst == [plan |-> "developer", status |-> "inactive"]
Leads(g, m) == g = [n \in 0..m |-> IF n = 0 THEN AtFirst ELSE AfterEvent(n, g[n - 1])]

LEMMA ExpectedExists ==
  ASSUME NEW N \in Nat
  PROVE  \E g : Leads(g, N)
<1> DEFINE T == {m \in 0..N : ~\E g : Leads(g, m)}
<1> SUFFICES ASSUME T # {} PROVE FALSE
  OBVIOUS
<1>1. T \in SUBSET (0..N)
  OBVIOUS
<1>2. PICK m \in T : \A u \in T : m <= u
  <2> HIDE DEF T
  <2> QED BY <1>1, LeastNumber
<1>3. m \in 0..N /\ ~\E g : Leads(g, m)
  BY <1>2
<1>4. CASE m = 0
  <2> DEFINE g == [n \in 0..0 |-> AtFirst]
  <2>1. g = [n \in 0..0 |-> IF n = 0 THEN AtFirst ELSE AfterEvent(n, g[n - 1])]
    OBVIOUS
  <2> HIDE DEF g
  <2>2. Leads(g, 0)
    BY <2>1 DEF Leads
  <2> QED BY <1>3, <1>4, <2>2
<1>5. CASE m # 0
  <2>1. m - 1 \in 0..N /\ m - 1 \notin T
    BY <1>2, <1>3, <1>5
  <2>2. PICK h : Leads(h, m - 1)
    BY <2>1
  <2> DEFINE g == [n \in 0..m |-> IF n = m THEN AfterEvent(m, h[m - 1]) ELSE h[n]]
  <2>3. ASSUME NEW n \in 0..m
        PROVE  g[n] = IF n = 0 THEN AtFirst ELSE AfterEvent(n, g[n - 1])
    <3>1. n # 0 => n - 1 \in 0..m /\ n - 1 # m
      BY <1>3
    <3>2. n # 0 => g[n - 1] = h[n - 1]
      BY <3>1
    <3>3. CASE n = m
      BY <1>5, <3>2, <3>3
    <3>4. CASE n # m
      <4>1. n \in 0..(m - 1) /\ g[n] = h[n]
        BY <1>3, <3>4
      <4>2. h[n] = IF n = 0 THEN AtFirst ELSE AfterEvent(n, h[n - 1])
        BY <2>2, <4>1 DEF Leads
      <4> HIDE DEF g
      <4> QED BY <3>2, <4>1, <4>2
    <3> QED BY <3>3, <3>4
  <2>4. g = [n \in 0..m |-> IF n = 0 THEN AtFirst ELSE AfterEvent(n, g[n - 1])]
    BY <2>3
  <2> HIDE DEF g
  <2>5. Leads(g, m)
    BY <2>4 DEF Leads
  <2> QED BY <1>3, <2>5
<1> QED BY <1>4, <1>5

\* Where the events lead to, from one to the next.
LEMMA ExpectedSteps ==
  /\ Expected[0] = AtFirst
  /\ \A n \in Event : n \in 1..Len(History) /\ Expected[n] = AfterEvent(n, Expected[n - 1])
<1>1. Len(History) \in Nat /\ Event = 1..Len(History)
  BY HistoryAssumption, LenProperties DEF Event
<1>2. Expected = CHOOSE g : Leads(g, Len(History))
  BY DEF Expected, Leads, AtFirst, AfterEvent
<1>3. Leads(Expected, Len(History))
  BY <1>1, <1>2, ExpectedExists
<1>4. \A n \in 0..Len(History) :
        Expected[n] = IF n = 0 THEN AtFirst ELSE AfterEvent(n, Expected[n - 1])
  BY <1>3 DEF Leads
<1> QED BY <1>1, <1>4

LEMMA ExpectedNext ==
  ASSUME NEW n \in 0..Len(History), n + 1 \in Event
  PROVE  /\ Is(n + 1, {"topup"}) => (StatusIs(n + 1) <=> StatusIs(n))
         /\ ~Is(n + 1, {"topup"}) => Expected[n + 1].status = NewStatus(n + 1)
         /\ Is(n + 1, {"subscribe", "change"}) => Expected[n + 1].plan = History[n + 1].plan
         /\ Is(n + 1, {"cancel"}) => Expected[n + 1].plan = "developer"
         /\ Is(n + 1, {"topup", "cycle", "past_due"}) => Expected[n + 1].plan = Expected[n].plan
<1>1. (n + 1) - 1 = n
  BY HistoryAssumption, LenProperties
<1>2. Expected[n + 1] = AfterEvent(n + 1, Expected[n])
  BY <1>1, ExpectedSteps
<1> QED BY <1>2 DEF AfterEvent, StatusIs, Is

-----------------------------------------------------------------------------
\* A workspace becomes known to Stripe by a checkout: no event precedes it.
\* (Any other first event is processed without finding the workspace.)
CheckoutFirst == Event # {} => Is(1, {"subscribe", "topup"})

\* The account is on its way from the first n events to the next one.
Course(n) ==
  /\ Frontier(n) /\ Standing(n)
  /\ \A c, d \in Delivery : req[c] # None /\ req[d] # None => c = d
  /\ \A d \in Delivery : req[d] # None => InTurn(d, n)

\* The delivery in progress is the only one, before its step and after it.
LEMMA CourseKept ==
  ASSUME TypeOK, NEW n, Course(n), NEW d \in Delivery, req[d] # None, Process(d) \/ Fault(d),
         NEW m, Frontier(m)', Standing(m)', (req[d] # None => InTurn(d, m))'
  PROVE  Course(m)'
<1>1. \A c \in Delivery : c # d => req[c] = None
  BY DEF Course
<1>2. \A c \in Delivery : c # d => req'[c] = None
  BY <1>1, Others
<1> QED BY <1>2 DEF Course

\* A delivery that neither overlaps another nor overtakes an event is of an
\* event that is processed or the next in turn.
LEMMA DeliverInTurn ==
  ASSUME TypeOK, NEW n \in 0..Len(History), Course(n), NEW d \in Delivery, NEW e \in Event,
         Deliver(d, e), ~OutOfOrder(e)
  PROVE  Course(n)'
<1>1. \A c \in Delivery : req[c] = None
  BY DEF OutOfOrder, InProgress
<1>2. e <= n + 1
  <2>1. Event = 1..Len(History) /\ Len(History) \in Nat
    BY HistoryAssumption, LenProperties DEF Event
  <2> SUFFICES ASSUME e > n + 1 PROVE FALSE
    BY <2>1
  <2>2. n + 1 \in Event /\ n + 1 < e
    BY <2>1
  <2>3. row[n + 1] # "processed"
    BY <2>2 DEF Course, Frontier
  <2> QED BY <2>2, <2>3 DEF OutOfOrder
<1>3. UNCHANGED <<row, ws, plan>> /\ req' = [req EXCEPT ![d] = [event |-> e, step |-> "look",
                                                  seen |-> None, copy |-> ws]]
  BY DEF Deliver, account
<1>4. Frontier(n)' /\ Standing(n)'
  BY <1>3 DEF Course, Frontier, Standing, PlanIs, StatusIs
<1>5. \A c \in Delivery : req'[c] # None => c = d
  BY <1>1, <1>3 DEF TypeOK
<1>6. req'[d].event = e /\ req'[d].step = "look" /\ req'[d] # None
  BY <1>3, NoneAssumption DEF TypeOK, Job, Step
<1>7. InTurn(d, n)'
  BY <1>2, <1>6 DEF InTurn, At, Ev
<1> QED BY <1>4, <1>5, <1>7 DEF Course

\* Reading and claiming: the delivery goes on only with the next event, of
\* which a row now exists.
LEMMA ClaimInTurn ==
  ASSUME TypeOK, NEW n \in 0..Len(History), Course(n), NEW d \in Delivery,
         Look(d) \/ Claim(d)
  PROVE  Course(n)'
<1>1. req[d] # None /\ InTurn(d, n) /\ Ev(d) \in Event /\ n \in Nat /\ Ev(d) \in Nat
  BY HistoryAssumption, LenProperties DEF Look, Claim, At, Course, TypeOK, Job, Ev, Event
<1>2. ws' = ws /\ plan' = plan
  BY DEF Look, Claim, account
<1>3. CASE Look(d)
  <2>1. row' = row
    BY <1>3 DEF Look
  <2>2. Frontier(n)' /\ Standing(n)'
    BY <1>2, <2>1 DEF Course, Frontier, Standing, PlanIs, StatusIs
  <2>3. (req[d] # None => InTurn(d, n))'
    <3>1. CASE row[Ev(d)] = "processed"
      BY <1>3, <3>1 DEF Look, Answer, TypeOK
    <3>2. CASE row[Ev(d)] # "processed"
      <4>1. Ev(d) = n + 1
        BY <1>1, <3>2 DEF InTurn, Course, Frontier
      <4>2. req'[d] = [req[d] EXCEPT !.step = "claim", !.seen = row[Ev(d)]]
        BY <1>3, <3>2 DEF Look, TypeOK
      <4>3. req'[d].step = "claim" /\ req'[d].seen = row[Ev(d)] /\ req'[d].event = Ev(d)
        BY <1>1, <4>2 DEF TypeOK, Job, Ev
      <4> QED BY <1>1, <2>1, <4>1, <4>3 DEF InTurn, At, Ev
    <3> QED BY <3>1, <3>2
  <2> QED BY <1>1, <1>3, <2>2, <2>3, CourseKept DEF Process
<1>4. CASE Claim(d)
  <2>1. Ev(d) = n + 1 /\ req[d].seen = row[n + 1] /\ n + 1 \in Event
    BY <1>1, <1>4 DEF Claim, InTurn, At
  <2>2. row[n + 1] # None \/ row'[n + 1] = "processing"
    BY <1>4, <2>1, NoneAssumption DEF Claim, TypeOK, Status
  <2>3. /\ \A f \in Event : f # n + 1 => row'[f] = row[f]
        /\ row'[n + 1] # None /\ row'[n + 1] # "processed"
    BY <1>4, <2>1, NoneAssumption DEF Claim, TypeOK, Status, Course, Frontier
  <2>4. Frontier(n)'
    BY <1>1, <2>3 DEF Course, Frontier, Event
  <2>5. Standing(n)'
    BY <1>2, <2>1, <2>3 DEF Course, Standing, PlanIs, StatusIs
  <2>6. (req[d] # None => InTurn(d, n))'
    <3>1. CASE Answer(d)
      BY <3>1 DEF Answer, TypeOK
    <3>2. CASE Goto(d, "find")
      <4>1. req'[d].step = "find" /\ req'[d].event = Ev(d)
        BY <1>1, <3>2 DEF Goto, TypeOK, Job, Ev
      <4> QED BY <1>1, <2>1, <2>3, <4>1 DEF InTurn, At, Ev
    <3> QED BY <1>4, <3>1, <3>2 DEF Claim
  <2> QED BY <1>1, <1>4, <2>4, <2>5, <2>6, CourseKept DEF Process
<1> QED BY <1>3, <1>4

\* The workspace is found: the first event names it, the others find it linked.
LEMMA FindInTurn ==
  ASSUME TypeOK, CheckoutFirst, NEW n \in 0..Len(History), Course(n), NEW d \in Delivery, Find(d)
  PROVE  Course(n)'
<1>1. /\ req[d] # None /\ InTurn(d, n) /\ Ev(d) \in Event /\ n \in Nat
      /\ Ev(d) = n + 1 /\ row[n + 1] # None
  BY HistoryAssumption, LenProperties DEF Find, At, Course, TypeOK, Job, Ev, InTurn
<1>2. row' = row /\ ws' = ws /\ plan' = plan
  BY DEF Find, account
<1>3. Frontier(n)' /\ Standing(n)'
  BY <1>2 DEF Course, Frontier, Standing, PlanIs, StatusIs
<1>4. History[n + 1].named \/ ws.linked
  <2>1. CASE n = 0
    BY <1>1, <2>1, HistoryAssumption DEF CheckoutFirst, Is, Event
  <2>2. CASE n # 0
    BY <1>1, <2>2 DEF Course, Standing
  <2> QED BY <2>1, <2>2
<1>5. req'[d] = [req[d] EXCEPT !.step = "columns", !.copy = ws]
  BY <1>1, <1>4 DEF Find, TypeOK
<1>6. req'[d].step = "columns" /\ req'[d].copy = ws /\ req'[d].event = n + 1
  BY <1>1, <1>5 DEF TypeOK, Job, Ev
<1>7. InTurn(d, n)'
  BY <1>1, <1>2, <1>6 DEF InTurn, At, Ev
<1> QED BY <1>1, <1>3, <1>7, CourseKept DEF Process

\* The status is where the next event leads to, written or found to be.
LEMMA ColumnsInTurn ==
  ASSUME TypeOK, CheckoutFirst, NEW n \in 0..Len(History), Course(n), NEW d \in Delivery,
         WriteColumns(d)
  PROVE  Course(n)'
<1>1. /\ req[d] # None /\ InTurn(d, n) /\ n + 1 \in Event /\ n \in Nat
      /\ Ev(d) = n + 1 /\ row[n + 1] # None /\ req[d].copy = ws
  BY HistoryAssumption, LenProperties DEF WriteColumns, At, Course, TypeOK, Job, Ev, InTurn
<1>2. row' = row /\ plan' = plan
  BY DEF WriteColumns, account
<1>3. History[n + 1].kind \in Kind
  BY <1>1, EventFields
<1>4. /\ ws'.linked = (ws.linked \/ Is(n + 1, {"subscribe", "topup", "change"}))
      /\ ws'.status = IF Is(n + 1, {"topup"}) THEN ws.status ELSE NewStatus(n + 1)
  BY <1>1 DEF WriteColumns
<1>5. n = 0 => Is(n + 1, {"subscribe", "topup"})
  BY <1>1 DEF CheckoutFirst
<1>6. ws'.linked
  <2>1. CASE n = 0
    BY <1>4, <1>5, <2>1 DEF Is
  <2>2. CASE n # 0
    <3>1. ws.linked
      BY <1>1, <2>2 DEF Course, Standing
    <3> QED BY <1>4, <3>1
  <2> QED BY <2>1, <2>2
<1>7. StatusIs(n) \/ StatusIs(n + 1)
  BY <1>1 DEF Course, Standing
<1>8. StatusIs(n + 1)'
  <2>1. CASE Is(n + 1, {"topup"})
    <3>1. StatusIs(n + 1)
      BY <1>1, <1>7, <2>1, ExpectedNext
    <3> QED BY <1>4, <2>1, <3>1 DEF StatusIs
  <2>2. CASE ~Is(n + 1, {"topup"})
    <3>1. Expected[n + 1].status = NewStatus(n + 1)
      BY <1>1, <2>2, ExpectedNext
    <3> QED BY <1>4, <2>2, <3>1 DEF StatusIs
  <2> QED BY <2>1, <2>2
<1>9. Frontier(n)' /\ Standing(n)'
  BY <1>1, <1>2, <1>6, <1>8 DEF Course, Frontier, Standing, PlanIs
<1>10. req'[d].event = n + 1
  BY <1>1 DEF WriteColumns, Goto, TypeOK, Job, Ev
<1>11. CASE Is(n + 1, {"past_due"})
  <2>1. req'[d].step = "mark"
    BY <1>1, <1>11 DEF WriteColumns, Goto, TypeOK, Job, Is
  <2>2. n # 0
    BY <1>5, <1>11 DEF Is
  <2>3. plan # None /\ (PlanIs(n) \/ PlanIs(n + 1))
    BY <1>1, <2>2 DEF Course, Standing
  <2>4. PlanIs(n + 1)
    BY <1>1, <1>11, <2>3, ExpectedNext DEF PlanIs, Is
  <2>5. InTurn(d, n)'
    BY <1>1, <1>2, <1>6, <1>8, <1>10, <2>1, <2>3, <2>4 DEF InTurn, At, Ev, PlanIs
  <2> QED BY <1>1, <1>9, <2>5, CourseKept DEF Process
<1>12. CASE Is(n + 1, {"change"})
  <2>1. req'[d].step = "compare"
    BY <1>1, <1>12 DEF WriteColumns, Goto, TypeOK, Job, Is
  <2>2. InTurn(d, n)'
    BY <1>1, <1>2, <1>8, <1>10, <1>12, <2>1 DEF InTurn, At, Ev, Is
  <2> QED BY <1>1, <1>9, <2>2, CourseKept DEF Process
<1>13. CASE ~Is(n + 1, {"past_due", "change"})
  <2>1. req'[d].step = "apply"
    BY <1>1, <1>13 DEF WriteColumns, Goto, TypeOK, Job, Is
  <2>2. InTurn(d, n)'
    BY <1>1, <1>2, <1>6, <1>8, <1>10, <2>1 DEF InTurn, At, Ev
  <2> QED BY <1>1, <1>9, <2>2, CourseKept DEF Process
<1> QED BY <1>11, <1>12, <1>13 DEF Is

\* The plan is where the next event leads to, compared or set.
LEMMA PlanInTurn ==
  ASSUME TypeOK, CheckoutFirst, NEW n \in 0..Len(History), Course(n), NEW d \in Delivery,
         Compare(d) \/ Apply(d)
  PROVE  Course(n)'
<1>1. /\ req[d] # None /\ InTurn(d, n) /\ n + 1 \in Event /\ n \in Nat
      /\ Ev(d) = n + 1 /\ row[n + 1] # None /\ StatusIs(n + 1)
  BY HistoryAssumption, LenProperties
     DEF Compare, Apply, At, Course, TypeOK, Job, Ev, InTurn
<1>2. row' = row /\ ws' = ws
  BY DEF Compare, Apply
<1>3. StatusIs(n + 1)'
  BY <1>1, <1>2 DEF StatusIs
<1>4. Frontier(n)'
  BY <1>2 DEF Course, Frontier
<1>5. n = 0 => Is(n + 1, {"subscribe", "topup"})
  BY <1>1 DEF CheckoutFirst
<1>6. PlanIs(n) \/ PlanIs(n + 1)
  BY <1>1 DEF Course, Standing
<1>7. CASE Compare(d)
  <2>1. plan' = plan /\ Is(n + 1, {"change"}) /\ n # 0 /\ plan # None /\ ws.linked
    BY <1>1, <1>5, <1>7 DEF Compare, account, InTurn, Is, Course, Standing
  <2>2. Standing(n)'
    BY <1>2, <2>1 DEF Course, Standing, PlanIs, StatusIs
  <2>3. CASE plan = History[n + 1].plan
    <3>1. PlanIs(n + 1)
      BY <1>1, <2>1, <2>3, ExpectedNext DEF PlanIs, Is
    <3>2. req'[d] = [req[d] EXCEPT !.step = "mark"]
      BY <1>1, <1>7, <2>3 DEF Compare, Goto, TypeOK
    <3>3. req'[d].step = "mark" /\ req'[d].event = n + 1
      BY <1>1, <3>2 DEF TypeOK, Job, Ev
    <3>4. InTurn(d, n)'
      BY <1>1, <1>2, <1>3, <2>1, <3>1, <3>3 DEF InTurn, At, Ev, PlanIs
    <3> QED BY <1>1, <1>4, <1>7, <2>2, <3>4, CourseKept DEF Process
  <2>4. CASE plan # History[n + 1].plan
    <3>1. req'[d] = [req[d] EXCEPT !.step = "apply"]
      BY <1>1, <1>7, <2>1, <2>4 DEF Compare, Goto, TypeOK
    <3>2. req'[d].step = "apply" /\ req'[d].event = n + 1
      BY <1>1, <3>1 DEF TypeOK, Job, Ev
    <3>3. InTurn(d, n)'
      BY <1>1, <1>2, <1>3, <2>1, <3>2 DEF InTurn, At, Ev
    <3> QED BY <1>1, <1>4, <1>7, <2>2, <3>3, CourseKept DEF Process
  <2> QED BY <2>3, <2>4
<1>8. CASE Apply(d)
  <2>1. ws.linked
    BY <1>1, <1>8 DEF Apply, InTurn
  <2>2. History[n + 1].plan # None /\ "developer" # None
    BY <1>1, EventFields, NoneAssumption DEF Plan
  <2>3. plan' # None /\ PlanIs(n + 1)'
    <3>1. CASE GrantTopup(n + 1) \/ Renew(n + 1)
      <4>1. Is(n + 1, {"topup", "cycle", "past_due"}) /\ Touch
        BY <3>1 DEF GrantTopup, Renew, Is
      <4>2. PlanIs(n + 1)
        BY <1>1, <1>6, <4>1, ExpectedNext DEF PlanIs
      <4>3. plan = None => Expected[n + 1].plan = "developer"
        <5> SUFFICES ASSUME plan = None PROVE Expected[n + 1].plan = "developer"
          OBVIOUS
        <5>1. n = 0
          BY <1>1 DEF Course, Standing
        <5>2. Expected[n].plan = "developer"
          BY <5>1, ExpectedSteps DEF AtFirst
        <5> QED BY <1>1, <4>1, <5>2, ExpectedNext
      <4>4. plan' = Expected[n + 1].plan /\ plan' # None
        BY <2>2, <4>1, <4>2, <4>3 DEF Touch, PlanIs
      <4> QED BY <4>4 DEF PlanIs
    <3>2. CASE SetPlan(n + 1)
      <4>1. plan' = Expected[n + 1].plan
        BY <1>1, <3>2, ExpectedNext DEF SetPlan, Is
      <4>2. plan' # None
        BY <2>2, <3>2 DEF SetPlan
      <4> QED BY <4>1, <4>2 DEF PlanIs
    <3> QED BY <1>1, <1>8, <3>1, <3>2 DEF Apply
  <2>4. Standing(n)'
    BY <1>1, <1>2, <1>3, <2>1, <2>3 DEF Standing
  <2>5. req'[d] = [req[d] EXCEPT !.step = "mark"]
    BY <1>1, <1>8 DEF Apply, Goto, TypeOK
  <2>6. req'[d].step = "mark" /\ req'[d].event = n + 1
    BY <1>1, <2>5 DEF TypeOK, Job, Ev
  <2>7. InTurn(d, n)'
    BY <1>1, <1>2, <1>3, <2>1, <2>3, <2>6 DEF InTurn, At, Ev
  <2> QED BY <1>1, <1>4, <1>8, <2>4, <2>7, CourseKept DEF Process
<1> QED BY <1>7, <1>8

\* The event is processed and the frontier moves on, or it failed.
LEMMA MarkInTurn ==
  ASSUME TypeOK, NEW n \in 0..Len(History), Course(n), NEW d \in Delivery,
         Mark(d) \/ MarkFailed(d)
  PROVE  \E m \in 0..Len(History) : Course(m)'
<1>1. /\ req[d] # None /\ InTurn(d, n) /\ n + 1 \in Event /\ n \in Nat /\ Ev(d) = n + 1
  BY HistoryAssumption, LenProperties
     DEF Mark, MarkFailed, At, Course, TypeOK, Job, Ev, InTurn
<1>2. ws' = ws /\ plan' = plan /\ req'[d] = None
  BY DEF Mark, MarkFailed, account, Answer, TypeOK
<1>3. Event \subseteq Nat /\ \A f \in Event : f # n + 1 => row'[f] = row[f]
  BY <1>1, HistoryAssumption, LenProperties DEF Mark, MarkFailed, TypeOK, Event
<1>4. CASE Mark(d)
  <2>1. row'[n + 1] = "processed"
    BY <1>1, <1>4 DEF Mark, TypeOK
  <2>2. n + 1 \in 0..Len(History)
    BY <1>1, ExpectedSteps
  <2>3. Frontier(n + 1)'
    <3> SUFFICES ASSUME NEW e \in Event
                 PROVE  /\ e <= n + 1 => row'[e] = "processed"
                        /\ e = (n + 1) + 1 => row'[e] # "processed"
                        /\ e > (n + 1) + 1 => row'[e] = None
      BY DEF Frontier
    <3>1. /\ e <= n => row[e] = "processed"
          /\ e > n + 1 => row[e] = None
      BY DEF Course, Frontier
    <3> QED BY <1>1, <1>3, <2>1, <3>1, NoneAssumption DEF Status
  <2>4. PlanIs(n + 1)' /\ StatusIs(n + 1)' /\ ws'.linked /\ plan' # None
    BY <1>1, <1>2, <1>4 DEF Mark, InTurn, PlanIs, StatusIs
  <2>5. Standing(n + 1)'
    BY <2>4 DEF Standing
  <2>6. Course(n + 1)'
    BY <1>1, <1>2, <1>4, <2>3, <2>5, CourseKept DEF Process
  <2> QED BY <2>2, <2>6
<1>5. CASE MarkFailed(d)
  <2>1. row'[n + 1] = "failed"
    BY <1>1, <1>5 DEF MarkFailed, TypeOK
  <2>2. Frontier(n)'
    BY <1>1, <1>3, <2>1 DEF Course, Frontier
  <2>3. row'[n + 1] # None
    BY <2>1, NoneAssumption DEF Status
  <2>4. Standing(n)'
    BY <1>1, <1>2, <2>3 DEF Course, Standing, PlanIs, StatusIs
  <2>5. Course(n)'
    BY <1>1, <1>2, <1>5, <2>2, <2>4, CourseKept DEF Process
  <2> QED BY <2>5
<1> QED BY <1>4, <1>5

\* A delivery that is cut short leaves what it has committed.
LEMMA FaultInTurn ==
  ASSUME TypeOK, NEW n \in 0..Len(History), Course(n), NEW d \in Delivery, Fault(d)
  PROVE  Course(n)'
<1>1. req[d] # None /\ InTurn(d, n) /\ Ev(d) \in Event /\ n \in Nat
  BY HistoryAssumption, LenProperties DEF Fault, Course, TypeOK, Job, Ev
<1>2. row' = row /\ ws' = ws /\ plan' = plan
  BY DEF Fault, account
<1>3. Frontier(n)' /\ Standing(n)'
  BY <1>2 DEF Course, Frontier, Standing, PlanIs, StatusIs
<1>4. (req[d] # None => InTurn(d, n))'
  <2>1. CASE Answer(d)
    BY <2>1 DEF Answer, TypeOK
  <2>2. CASE req[d].step \in {"find", "columns", "compare", "apply", "mark"} /\ Goto(d, "failing")
    <3>1. Ev(d) = n + 1 /\ row[Ev(d)] # None
      BY <1>1, <2>2 DEF InTurn, At
    <3>2. req'[d].step = "failing" /\ req'[d].event = Ev(d)
      BY <1>1, <2>2 DEF Goto, TypeOK, Job, Ev
    <3> QED BY <1>1, <1>2, <3>1, <3>2 DEF InTurn, At, Ev
  <2> QED BY <2>1, <2>2 DEF Fault
<1> QED BY <1>1, <1>3, <1>4, CourseKept

-----------------------------------------------------------------------------
LEMMA OrderInit == Init => OrderInv
<1> SUFFICES ASSUME Init PROVE Course(0)
  BY HistoryAssumption, LenProperties DEF OrderInv, Course
<1>1. Event \subseteq Nat \ {0} /\ "processed" # None
  BY HistoryAssumption, LenProperties, NoneAssumption DEF Event, Status
<1>2. Frontier(0)
  BY <1>1 DEF Init, Frontier
<1>3. Expected[0].plan = "developer" /\ Expected[0].status = "inactive"
  BY ExpectedSteps DEF AtFirst
<1>4. PlanIs(0) /\ StatusIs(0)
  BY <1>3 DEF Init, PlanIs, StatusIs
<1>5. Standing(0)
  BY <1>4 DEF Standing
<1>6. \A d \in Delivery : req[d] = None
  BY DEF Init
<1> QED BY <1>2, <1>5, <1>6 DEF Course

LEMMA OrderStep == CheckoutFirst /\ TypeOK /\ OrderInv /\ [Next]_vars => OrderInv'
<1> SUFFICES ASSUME CheckoutFirst, TypeOK, OrderInv, [Next]_vars, ~disorder'
             PROVE  \E m \in 0..Len(History) : Course(m)'
  BY DEF OrderInv, Course
<1>1. ~disorder
  BY DEF Next, vars, observed, Process, Fault, Deliver, Look, Claim, Find, WriteColumns, Compare,
         Apply, Mark, MarkFailed
<1>2. PICK n \in 0..Len(History) : Course(n)
  BY <1>1 DEF OrderInv, Course
<1>3. CASE UNCHANGED vars
  BY <1>2, <1>3 DEF vars, account, Course, Frontier, Standing, InTurn, PlanIs, StatusIs, At, Ev
<1>4. ASSUME NEW d \in Delivery, NEW e \in Event, Deliver(d, e) PROVE Course(n)'
  <2>1. ~OutOfOrder(e)
    BY <1>4 DEF Deliver
  <2> QED BY <1>2, <1>4, <2>1, DeliverInTurn
<1>5. ASSUME NEW d \in Delivery, Process(d)
      PROVE  \E m \in 0..Len(History) : Course(m)'
  <2>1. CASE Look(d) \/ Claim(d)
    BY <1>2, <2>1, ClaimInTurn
  <2>2. CASE Find(d)
    BY <1>2, <2>2, FindInTurn
  <2>3. CASE WriteColumns(d)
    BY <1>2, <2>3, ColumnsInTurn
  <2>4. CASE Compare(d) \/ Apply(d)
    BY <1>2, <2>4, PlanInTurn
  <2>5. CASE Mark(d) \/ MarkFailed(d)
    BY <1>2, <2>5, MarkInTurn
  <2> QED BY <1>5, <2>1, <2>2, <2>3, <2>4, <2>5 DEF Process
<1>6. ASSUME NEW d \in Delivery, Fault(d) PROVE Course(n)'
  BY <1>2, <1>6, FaultInTurn
<1> QED BY <1>3, <1>4, <1>5, <1>6 DEF Next

\* As long as the deliveries of a workspace whose first event is a checkout
\* neither overlap nor overtake each other, one after the other brings the
\* account from where n events lead to where n + 1 do, in the order: status,
\* plan, mark of the row; whatever is cut short in between is done again.
THEOREM OneEventAtATime == CheckoutFirst => (Spec => []OrderInv)
<1> SUFFICES ASSUME CheckoutFirst PROVE Spec => []OrderInv
  OBVIOUS
<1>1. DeliveryInv /\ OrderInv /\ [Next]_vars => OrderInv'
  BY OrderStep DEF DeliveryInv
<1> QED BY <1>1, OrderInit, Deliveries, PTL DEF Spec

\* Hence plan and status are those the processed events lead to, whenever no
\* event is half done.
THEOREM AccountFollowsStripe == CheckoutFirst => (Spec => []FollowsStripe)
<1>1. ASSUME OrderInv, NEW n \in 0..Len(History), Settled(n), ~disorder
      PROVE  PlanIs(n) /\ StatusIs(n)
  <2>1. PICK m \in 0..Len(History) : Frontier(m) /\ Standing(m)
    BY <1>1 DEF OrderInv
  <2>2. Event = 1..Len(History) /\ Len(History) \in Nat /\ "processed" # None
    BY HistoryAssumption, LenProperties, NoneAssumption DEF Event, Status
  <2>3. m = n
    <3>1. CASE m < n
      <4>1. m + 1 \in Event /\ m + 1 <= n
        BY <2>2, <3>1
      <4> QED BY <1>1, <2>1, <4>1 DEF Settled, Frontier
    <3>2. CASE n < m
      <4>1. n + 1 \in Event /\ n + 1 <= m /\ ~(n + 1 <= n)
        BY <2>2, <3>2
      <4> QED BY <1>1, <2>1, <2>2, <4>1 DEF Settled, Frontier
    <3> QED BY <3>1, <3>2
  <2>4. n + 1 \in Event => row[n + 1] = None
    BY <1>1 DEF Settled
  <2> QED BY <2>1, <2>3, <2>4 DEF Standing
<1>2. OrderInv => FollowsStripe
  BY <1>1 DEF FollowsStripe
<1> QED BY <1>2, OneEventAtATime, PTL
=============================================================================
