--------------------- MODULE CreditLedgerBalance_proofs ---------------------
(***************************************************************************)
(* Proofs about the balances of the entitlement engine: the cap of the     *)
(* Welcome day, the top-ups, the allowance of a period and the balance a   *)
(* customer sees.                                                          *)
(***************************************************************************)
EXTENDS CreditLedger_proofs, FunctionSums

-----------------------------------------------------------------------------
(* The books of a workspace: its row e against a ledger L and refunds R,   *)
(* with n fresh periods started so far.                                    *)
DebitsIn(L, w) == {k \in MeterKey : L[k] # None /\ L[k].type = "debit" /\ L[k].ws = w}
ChargedTo(L, w, p) == {k \in DebitsIn(L, w) : L[k].period = p}
GivenBackTo(L, R, w, p) == {k \in ChargedTo(L, w, p) : R[k] # None}

Spent(L, R, w, p) ==
  SumFunction([k \in ChargedTo(L, w, p) |-> L[k].allow])
  - SumFunction([k \in GivenBackTo(L, R, w, p) |-> R[k].allow])

\* Where a debit of w may lie: before the end of the period and of Welcome,
\* and, if it is not older than the period, charged to it; and no period that
\* is still to come has been charged.
Dated(d, e, n) ==
  /\ d.at < e.end
  /\ e.wEnd # None /\ ~e.wOver => d.at < e.wEnd
  /\ d.at >= e.start => d.period = <<e.start, n>>
  /\ d.period[2] <= n
  /\ d.period[2] = n => d.period[1] <= e.start

Books(L, R, w, e, n) ==
  /\ e.start < e.end
  /\ e.wEnd # None /\ ~e.wOver => e.start < e.wEnd
  /\ \A k \in DebitsIn(L, w) : Dated(L[k], e, n)
  /\ Spent(L, R, w, <<e.start, n>>) <= e.used /\ e.used <= e.allowance

\* What w bought as top-ups, and what its debits that stand took from it.
TopupsIn(L, w) == {k \in TopupKey : L[k] # None /\ L[k].ws = w}
Standing(L, R, w) == {k \in DebitsIn(L, w) : R[k] = None}
Bought(L, w) == SumFunction([k \in TopupsIn(L, w) |-> L[k].credits])
Drawn(L, R, w) == SumFunction([k \in Standing(L, R, w) |-> L[k].topup])

\* Finitely many entries were made, and no refund exceeds the debit it is for.
Posted(L, R) ==
  /\ IsFiniteSet({k \in Key : L[k] # None})
  /\ \A k \in MeterKey : R[k] # None =>
       L[k] # None /\ L[k].type = "debit" /\ R[k].allow <= L[k].allow

BooksKept ==
  \A w \in Workspace : ent[w] # None /\ Clean(w) => Books(ledger, refunds, w, ent[w], plans[w])

BalanceInv == TypeInv /\ Posted(ledger, refunds) /\ BooksKept

-----------------------------------------------------------------------------
(* Posting an entry or a refund.                                           *)
Ledgers == [Key -> Entry \cup {None}]
RefundTables == [MeterKey -> Refund \cup {None}]

LEMMA PostedFinite ==
  ASSUME NEW L, NEW R, Posted(L, R), NEW w, NEW p
  PROVE  /\ IsFiniteSet(DebitsIn(L, w)) /\ IsFiniteSet(ChargedTo(L, w, p))
         /\ IsFiniteSet(GivenBackTo(L, R, w, p))
         /\ IsFiniteSet(TopupsIn(L, w)) /\ IsFiniteSet(Standing(L, R, w))
<1> DEFINE S == {k \in Key : L[k] # None}
<1>1. IsFiniteSet(S)
  BY DEF Posted
<1>2. /\ DebitsIn(L, w) \subseteq S /\ ChargedTo(L, w, p) \subseteq S
      /\ GivenBackTo(L, R, w, p) \subseteq S
      /\ TopupsIn(L, w) \subseteq S /\ Standing(L, R, w) \subseteq S
  BY DEF DebitsIn, ChargedTo, GivenBackTo, TopupsIn, Standing, Key
<1> HIDE DEF S
<1> QED BY <1>1, <1>2, FS_Subset

LEMMA EntryFields ==
  ASSUME NEW L \in Ledgers, NEW k \in Key, L[k] # None
  PROVE  /\ L[k] \in Entry /\ L[k].credits \in Nat /\ L[k].allow \in Nat /\ L[k].topup \in Nat
         /\ L[k].at \in Nat /\ L[k].period[1] \in Nat /\ L[k].period[2] \in Nat
BY DEF Ledgers, Entry

LEMMA RefundFields ==
  ASSUME NEW R \in RefundTables, NEW k \in MeterKey, R[k] # None
  PROVE  R[k] \in Refund /\ R[k].allow \in Nat
BY DEF RefundTables, Refund

Enters(L, k, x, L2) == L[k] = None /\ L2 = [L EXCEPT ![k] = x]
Debited(k, x, w) == k \in MeterKey /\ x.type = "debit" /\ x.ws = w
TopsUp(k, x, w) == k \in TopupKey /\ x.ws = w

\* An entry under a new key is in the sets it belongs to, and no other changes.
LEMMA NewEntrySets ==
  ASSUME NEW L \in Ledgers, NEW R \in RefundTables, Posted(L, R),
         NEW k \in Key, NEW x \in Entry, NEW L2, Enters(L, k, x, L2),
         NEW w, NEW p
  PROVE  /\ L2 \in Ledgers /\ L2[k] = x /\ k \notin DebitsIn(L, w) /\ k \notin TopupsIn(L, w)
         /\ \A j \in Key : j # k => L2[j] = L[j]
         /\ DebitsIn(L2, w) = DebitsIn(L, w) \cup (IF Debited(k, x, w) THEN {k} ELSE {})
         /\ TopupsIn(L2, w) = TopupsIn(L, w) \cup (IF TopsUp(k, x, w) THEN {k} ELSE {})
         /\ Standing(L2, R, w) = Standing(L, R, w) \cup (IF Debited(k, x, w) THEN {k} ELSE {})
         /\ ChargedTo(L2, w, p) =
              ChargedTo(L, w, p) \cup (IF Debited(k, x, w) /\ x.period = p THEN {k} ELSE {})
         /\ GivenBackTo(L2, R, w, p) = GivenBackTo(L, R, w, p)
<1>1. x # None
  BY LedgerAssumption
<1>2. L2 \in Ledgers /\ L2[k] = x /\ \A j \in Key : j # k => L2[j] = L[j]
  BY DEF Ledgers, Enters
<1>3. MeterKey \subseteq Key /\ TopupKey \subseteq Key
  BY DEF Key
<1>4. k \in MeterKey => R[k] = None
  BY DEF Posted, Enters
<1>5. k \notin DebitsIn(L, w) /\ k \notin TopupsIn(L, w)
  BY DEF DebitsIn, TopupsIn, Enters
<1>6. DebitsIn(L2, w) = DebitsIn(L, w) \cup (IF Debited(k, x, w) THEN {k} ELSE {})
  BY <1>1, <1>2, <1>3 DEF DebitsIn, Debited, Enters
<1>7. TopupsIn(L2, w) = TopupsIn(L, w) \cup (IF TopsUp(k, x, w) THEN {k} ELSE {})
  BY <1>1, <1>2, <1>3 DEF TopupsIn, TopsUp, Enters
<1>8. Standing(L2, R, w) = Standing(L, R, w) \cup (IF Debited(k, x, w) THEN {k} ELSE {})
  BY <1>4, <1>6 DEF Standing, Debited
<1>9. \A j \in DebitsIn(L, w) : L2[j] = L[j]
  BY <1>2, <1>3, <1>5 DEF DebitsIn
<1>10. ChargedTo(L2, w, p) = ChargedTo(L, w, p)
        \cup (IF Debited(k, x, w) /\ x.period = p THEN {k} ELSE {})
  BY <1>2, <1>6, <1>9 DEF ChargedTo
<1>11. GivenBackTo(L2, R, w, p) = GivenBackTo(L, R, w, p)
  BY <1>4, <1>10 DEF GivenBackTo, Debited
<1> QED BY <1>2, <1>5, <1>6, <1>7, <1>8, <1>10, <1>11

LEMMA NewEntryPosted ==
  ASSUME NEW L \in Ledgers, NEW R \in RefundTables, Posted(L, R),
         NEW k \in Key, NEW x \in Entry, NEW L2, Enters(L, k, x, L2)
  PROVE  Posted(L2, R)
<1> DEFINE S == {j \in Key : L[j] # None}
<1>1. x # None
  BY LedgerAssumption
<1>2. L2[k] = x /\ \A j \in Key : j # k => L2[j] = L[j]
  BY DEF Ledgers, Enters
<1>3. {j \in Key : L2[j] # None} = S \cup {k}
  BY <1>1, <1>2
<1>4. IsFiniteSet(S)
  BY DEF Posted
<1> HIDE DEF S
<1>5. IsFiniteSet({j \in Key : L2[j] # None})
  BY <1>3, <1>4, FS_AddElement
<1>6. \A j \in MeterKey : R[j] # None => L2[j] = L[j]
  BY <1>2 DEF Posted, Key, Enters
<1> QED BY <1>5, <1>6 DEF Posted

\* The sums move by the new entry alone.
LEMMA NewEntrySums ==
  ASSUME NEW L \in Ledgers, NEW R \in RefundTables, Posted(L, R),
         NEW k \in Key, NEW x \in Entry, NEW L2, Enters(L, k, x, L2),
         NEW w, NEW p
  PROVE  /\ Bought(L2, w) = Bought(L, w) + (IF TopsUp(k, x, w) THEN x.credits ELSE 0)
         /\ Drawn(L2, R, w) = Drawn(L, R, w) + (IF Debited(k, x, w) THEN x.topup ELSE 0)
         /\ Spent(L2, R, w, p) = Spent(L, R, w, p)
                 + (IF Debited(k, x, w) /\ x.period = p THEN x.allow ELSE 0)
         /\ Bought(L, w) \in Nat /\ Drawn(L, R, w) \in Nat /\ Spent(L, R, w, p) \in Int
<1>1. /\ L2 \in Ledgers /\ L2[k] = x /\ k \notin DebitsIn(L, w) /\ k \notin TopupsIn(L, w)
      /\ \A j \in Key : j # k => L2[j] = L[j]
      /\ TopupsIn(L2, w) = TopupsIn(L, w) \cup (IF TopsUp(k, x, w) THEN {k} ELSE {})
      /\ Standing(L2, R, w) = Standing(L, R, w) \cup (IF Debited(k, x, w) THEN {k} ELSE {})
      /\ ChargedTo(L2, w, p) = ChargedTo(L, w, p)
              \cup (IF Debited(k, x, w) /\ x.period = p THEN {k} ELSE {})
      /\ GivenBackTo(L2, R, w, p) = GivenBackTo(L, R, w, p)
  BY NewEntrySets
<1>2. /\ IsFiniteSet(ChargedTo(L, w, p)) /\ IsFiniteSet(GivenBackTo(L, R, w, p))
      /\ IsFiniteSet(TopupsIn(L, w)) /\ IsFiniteSet(Standing(L, R, w))
  BY PostedFinite
<1>3. x.credits \in Nat /\ x.topup \in Nat /\ x.allow \in Nat
  BY DEF Entry
<1>4. /\ \A j \in TopupsIn(L, w) : L[j] \in Entry /\ L[j].credits \in Nat /\ L2[j] = L[j]
      /\ \A j \in DebitsIn(L, w) : L[j] \in Entry /\ L[j].topup \in Nat /\ L[j].allow \in Nat
                                    /\ L2[j] = L[j]
  BY <1>1, EntryFields DEF TopupsIn, DebitsIn, Key
<1>5. \A j \in Standing(L, R, w) \cup ChargedTo(L, w, p) : j \in DebitsIn(L, w)
  BY DEF Standing, ChargedTo
<1>6. /\ Bought(L, w) \in Nat
      /\ Bought(L2, w) = Bought(L, w) + (IF TopsUp(k, x, w) THEN x.credits ELSE 0)
  <2> DEFINE f == [j \in TopupsIn(L, w) |-> L[j].credits]
             g == [j \in TopupsIn(L2, w) |-> L2[j].credits]
  <2>1. IsFiniteSet(DOMAIN f) /\ \A j \in DOMAIN f : f[j] \in Nat
    BY <1>2, <1>4
  <2>2. DOMAIN g = DOMAIN f \cup (IF TopsUp(k, x, w) THEN {k} ELSE {})
    BY <1>1
  <2>3. k \notin DOMAIN f /\ \A j \in DOMAIN f : g[j] = f[j]
    BY <1>1, <1>4, <2>2
  <2>4. k \in DOMAIN g => g[k] = x.credits
    BY <1>1
  <2>5. Bought(L, w) = SumFunction(f) /\ Bought(L2, w) = SumFunction(g)
    BY DEF Bought
  <2> HIDE DEF f, g
  <2>6. SumFunction(f) \in Nat
    BY <2>1, TotalNat
  <2>7. CASE TopsUp(k, x, w)
    BY <1>3, <2>1, <2>2, <2>3, <2>4, <2>5, <2>6, <2>7, TotalGrows
  <2>8. CASE ~TopsUp(k, x, w)
    BY <2>1, <2>2, <2>3, <2>5, <2>6, <2>8, TotalSame
  <2> QED BY <2>7, <2>8
<1>7. /\ Drawn(L, R, w) \in Nat
      /\ Drawn(L2, R, w) = Drawn(L, R, w) + (IF Debited(k, x, w) THEN x.topup ELSE 0)
  <2> DEFINE f == [j \in Standing(L, R, w) |-> L[j].topup]
             g == [j \in Standing(L2, R, w) |-> L2[j].topup]
  <2>1. IsFiniteSet(DOMAIN f) /\ \A j \in DOMAIN f : f[j] \in Nat
    BY <1>2, <1>4, <1>5
  <2>2. DOMAIN g = DOMAIN f \cup (IF Debited(k, x, w) THEN {k} ELSE {})
    BY <1>1
  <2>3. k \notin DOMAIN f /\ \A j \in DOMAIN f : g[j] = f[j]
    BY <1>1, <1>4, <1>5, <2>2
  <2>4. k \in DOMAIN g => g[k] = x.topup
    BY <1>1
  <2>5. Drawn(L, R, w) = SumFunction(f) /\ Drawn(L2, R, w) = SumFunction(g)
    BY DEF Drawn
  <2> HIDE DEF f, g
  <2>6. SumFunction(f) \in Nat
    BY <2>1, TotalNat
  <2>7. CASE Debited(k, x, w)
    BY <1>3, <2>1, <2>2, <2>3, <2>4, <2>5, <2>6, <2>7, TotalGrows
  <2>8. CASE ~Debited(k, x, w)
    BY <2>1, <2>2, <2>3, <2>5, <2>6, <2>8, TotalSame
  <2> QED BY <2>7, <2>8
<1>8. /\ Spent(L, R, w, p) \in Int
      /\ Spent(L2, R, w, p) = Spent(L, R, w, p)
              + (IF Debited(k, x, w) /\ x.period = p THEN x.allow ELSE 0)
  <2> DEFINE f == [j \in ChargedTo(L, w, p) |-> L[j].allow]
             g == [j \in ChargedTo(L2, w, p) |-> L2[j].allow]
             r == [j \in GivenBackTo(L, R, w, p) |-> R[j].allow]
  <2>1. IsFiniteSet(DOMAIN f) /\ \A j \in DOMAIN f : f[j] \in Nat
    BY <1>2, <1>4, <1>5
  <2>2. DOMAIN g = DOMAIN f \cup (IF Debited(k, x, w) /\ x.period = p THEN {k} ELSE {})
    BY <1>1
  <2>3. k \notin DOMAIN f /\ \A j \in DOMAIN f : g[j] = f[j]
    BY <1>1, <1>4, <1>5, <2>2
  <2>4. k \in DOMAIN g => g[k] = x.allow
    BY <1>1
  <2>5. Spent(L, R, w, p) = SumFunction(f) - SumFunction(r)
    BY DEF Spent
  <2>6. Spent(L2, R, w, p) = SumFunction(g) - SumFunction(r)
    BY <1>1 DEF Spent
  <2>7. IsFiniteSet(DOMAIN r) /\ \A j \in DOMAIN r : r[j] \in Nat
    BY <1>2, RefundFields DEF GivenBackTo, ChargedTo, DebitsIn
  <2> HIDE DEF f, g, r
  <2>8. SumFunction(f) \in Nat /\ SumFunction(r) \in Nat
    BY <2>1, <2>7, TotalNat
  <2>9. SumFunction(g) = SumFunction(f) + (IF Debited(k, x, w) /\ x.period = p THEN x.allow ELSE 0)
    <3>1. CASE Debited(k, x, w) /\ x.period = p
      BY <1>3, <2>1, <2>2, <2>3, <2>4, <2>8, <3>1, TotalGrows
    <3>2. CASE ~(Debited(k, x, w) /\ x.period = p)
      BY <2>1, <2>2, <2>3, <2>8, <3>2, TotalSame
    <3> QED BY <3>1, <3>2
  <2>10. (IF Debited(k, x, w) /\ x.period = p THEN x.allow ELSE 0) \in Nat
    BY <1>3
  <2> QED BY <2>5, <2>6, <2>8, <2>9, <2>10
<1> QED BY <1>6, <1>7, <1>8

\* The same for a refund of a debit that stands.
GivesBack(L, R, k, r, R2) ==
  /\ R[k] = None /\ R2 = [R EXCEPT ![k] = r]
  /\ L[k] # None /\ L[k].type = "debit" /\ r.allow <= L[k].allow

LEMMA NewRefundSets ==
  ASSUME NEW L \in Ledgers, NEW R \in RefundTables, NEW k \in MeterKey, NEW r \in Refund,
         NEW R2, GivesBack(L, R, k, r, R2), NEW w, NEW p
  PROVE  /\ R2 \in RefundTables /\ R2[k] = r /\ r # None
         /\ \A j \in MeterKey : j # k => R2[j] = R[j]
         /\ Standing(L, R2, w) = Standing(L, R, w) \ {k}
         /\ k \notin GivenBackTo(L, R, w, p)
         /\ GivenBackTo(L, R2, w, p) =
              GivenBackTo(L, R, w, p) \cup (IF k \in ChargedTo(L, w, p) THEN {k} ELSE {})
<1>1. r # None
  BY LedgerAssumption
<1>2. R2 \in RefundTables /\ R2[k] = r /\ \A j \in MeterKey : j # k => R2[j] = R[j]
  BY DEF RefundTables, GivesBack
<1>3. R[k] = None
  BY DEF GivesBack
<1>4. Standing(L, R2, w) = Standing(L, R, w) \ {k}
  BY <1>1, <1>2 DEF Standing, DebitsIn
<1>5. \A j \in ChargedTo(L, w, p) : j \in MeterKey
  BY DEF ChargedTo, DebitsIn
<1>6. GivenBackTo(L, R2, w, p) =
        GivenBackTo(L, R, w, p) \cup (IF k \in ChargedTo(L, w, p) THEN {k} ELSE {})
  BY <1>1, <1>2, <1>3, <1>5 DEF GivenBackTo
<1>7. k \notin GivenBackTo(L, R, w, p)
  BY <1>3 DEF GivenBackTo
<1> QED BY <1>1, <1>2, <1>4, <1>6, <1>7

LEMMA NewRefundPosted ==
  ASSUME NEW L \in Ledgers, NEW R \in RefundTables, Posted(L, R), NEW k \in MeterKey,
         NEW r \in Refund, NEW R2, GivesBack(L, R, k, r, R2)
  PROVE  Posted(L, R2)
<1>1. R2[k] = r /\ \A j \in MeterKey : j # k => R2[j] = R[j]
  BY NewRefundSets
<1> QED BY <1>1 DEF Posted, GivesBack

LEMMA NewRefundSums ==
  ASSUME NEW L \in Ledgers, NEW R \in RefundTables, Posted(L, R), NEW k \in MeterKey,
         NEW r \in Refund, NEW R2, GivesBack(L, R, k, r, R2), NEW w, NEW p
  PROVE  /\ Drawn(L, R2, w) = Drawn(L, R, w) - (IF L[k].ws = w THEN L[k].topup ELSE 0)
         /\ Spent(L, R2, w, p) =
              Spent(L, R, w, p) - (IF L[k].ws = w /\ L[k].period = p THEN r.allow ELSE 0)
         /\ Drawn(L, R, w) \in Nat /\ Drawn(L, R2, w) \in Nat /\ Spent(L, R, w, p) \in Int
<1>1. /\ R2 \in RefundTables /\ R2[k] = r /\ r # None
      /\ \A j \in MeterKey : j # k => R2[j] = R[j]
      /\ Standing(L, R2, w) = Standing(L, R, w) \ {k}
      /\ k \notin GivenBackTo(L, R, w, p)
      /\ GivenBackTo(L, R2, w, p) =
           GivenBackTo(L, R, w, p) \cup (IF k \in ChargedTo(L, w, p) THEN {k} ELSE {})
  BY NewRefundSets
<1>2. /\ IsFiniteSet(ChargedTo(L, w, p)) /\ IsFiniteSet(GivenBackTo(L, R, w, p))
      /\ IsFiniteSet(Standing(L, R, w)) /\ IsFiniteSet(Standing(L, R2, w))
  BY PostedFinite, NewRefundPosted
<1>3. r.allow \in Nat
  BY DEF Refund
<1>4. \A j \in DebitsIn(L, w) : L[j].topup \in Nat /\ L[j].allow \in Nat
  BY EntryFields DEF DebitsIn, Key
<1>5. /\ k \in ChargedTo(L, w, p) <=> L[k].ws = w /\ L[k].period = p
      /\ k \in Standing(L, R, w) <=> L[k].ws = w
  BY DEF ChargedTo, Standing, DebitsIn, GivesBack
<1>6. /\ Drawn(L, R, w) \in Nat /\ Drawn(L, R2, w) \in Nat
      /\ Drawn(L, R2, w) = Drawn(L, R, w) - (IF L[k].ws = w THEN L[k].topup ELSE 0)
  <2> DEFINE f == [j \in Standing(L, R2, w) |-> L[j].topup]
             g == [j \in Standing(L, R, w) |-> L[j].topup]
  <2>1. IsFiniteSet(DOMAIN f) /\ \A j \in DOMAIN f : f[j] \in Nat
    BY <1>2, <1>4 DEF Standing
  <2>2. \A j \in DOMAIN g : g[j] \in Nat
    BY <1>4 DEF Standing
  <2>3. DOMAIN g = DOMAIN f \cup (IF L[k].ws = w THEN {k} ELSE {})
    BY <1>1, <1>5
  <2>4. k \notin DOMAIN f /\ \A j \in DOMAIN f : g[j] = f[j]
    BY <1>1, <2>3
  <2>5. k \in DOMAIN g => g[k] = L[k].topup /\ L[k].topup \in Nat
    BY <1>4 DEF Standing
  <2>6. Drawn(L, R2, w) = SumFunction(f) /\ Drawn(L, R, w) = SumFunction(g)
    BY DEF Drawn
  <2> HIDE DEF f, g
  <2>7. SumFunction(f) \in Nat
    BY <2>1, TotalNat
  <2>8. CASE L[k].ws = w
    BY <2>1, <2>2, <2>3, <2>4, <2>5, <2>6, <2>7, <2>8, TotalGrows
  <2>9. CASE ~(L[k].ws = w)
    BY <2>1, <2>3, <2>4, <2>6, <2>7, <2>9, TotalSame
  <2> QED BY <2>8, <2>9
<1>7. /\ Spent(L, R, w, p) \in Int
      /\ Spent(L, R2, w, p) =
           Spent(L, R, w, p) - (IF L[k].ws = w /\ L[k].period = p THEN r.allow ELSE 0)
  <2> DEFINE a == [j \in ChargedTo(L, w, p) |-> L[j].allow]
             f == [j \in GivenBackTo(L, R, w, p) |-> R[j].allow]
             g == [j \in GivenBackTo(L, R2, w, p) |-> R2[j].allow]
  <2>1. IsFiniteSet(DOMAIN a) /\ \A j \in DOMAIN a : a[j] \in Nat
    BY <1>2, <1>4 DEF ChargedTo
  <2>2. IsFiniteSet(DOMAIN f) /\ \A j \in DOMAIN f : f[j] \in Nat
    BY <1>2, RefundFields DEF GivenBackTo, ChargedTo, DebitsIn
  <2>3. DOMAIN g = DOMAIN f \cup (IF k \in ChargedTo(L, w, p) THEN {k} ELSE {})
    BY <1>1
  <2>4. k \notin DOMAIN f /\ DOMAIN f \subseteq MeterKey
    BY <1>1 DEF GivenBackTo, ChargedTo, DebitsIn
  <2>5. \A j \in DOMAIN f : g[j] = f[j]
    BY <1>1, <2>3, <2>4
  <2>6. k \in DOMAIN g => g[k] = r.allow
    BY <1>1
  <2>7. /\ Spent(L, R, w, p) = SumFunction(a) - SumFunction(f)
        /\ Spent(L, R2, w, p) = SumFunction(a) - SumFunction(g)
    BY DEF Spent
  <2> HIDE DEF a, f, g
  <2>8. SumFunction(a) \in Nat /\ SumFunction(f) \in Nat
    BY <2>1, <2>2, TotalNat
  <2>9. SumFunction(g) = SumFunction(f) + (IF L[k].ws = w /\ L[k].period = p THEN r.allow ELSE 0)
    <3>1. CASE L[k].ws = w /\ L[k].period = p
      BY <1>3, <1>5, <2>2, <2>3, <2>4, <2>5, <2>6, <3>1, TotalGrows
    <3>2. CASE ~(L[k].ws = w /\ L[k].period = p)
      BY <1>5, <2>2, <2>3, <2>4, <2>5, <2>8, <3>2, TotalSame
    <3> QED BY <3>1, <3>2
  <2>10. (IF L[k].ws = w /\ L[k].period = p THEN r.allow ELSE 0) \in Nat
    BY <1>3
  <2> QED BY <2>7, <2>8, <2>9, <2>10
<1> QED BY <1>6, <1>7

-----------------------------------------------------------------------------
(* What a step does to the ledger.                                         *)
Enter(s, x) ==
  /\ req[s].r.key \in Key /\ x \in Entry /\ x.ws = Ws(s)
  /\ Enters(ledger, req[s].r.key, x, ledger')

\* It leaves the rows and the ledger alone, writes a row back, notes an action
\* that is not billed, charges one, gives one back, tops up, or starts a period.
Idle == UNCHANGED <<ent, ledger, refunds, plans, raced>>

Settled(s) ==
  HasRow(s) /\ Settle(s, Row(s)) /\ UNCHANGED <<ledger, refunds, plans>>

Noted(s) ==
  /\ HasRow(s) /\ Settle(s, Row(s)) /\ UNCHANGED <<refunds, plans>>
  /\ req[s].r.key \in MeterKey /\ Enter(s, MeterEntry(s, "read_unbilled", 0, 0))

Billed(s) ==
  /\ MeterCharge(s) /\ UNCHANGED <<refunds, plans>> /\ Settle(s, Charged(s))
  /\ req[s].r.key \in MeterKey
  /\ Enter(s, MeterEntry(s, "debit", Charge(s), Covered(s)))

Reversed(s) ==
  /\ Reverse(s) /\ UNCHANGED <<ledger, plans>> /\ Settle(s, GivenBack(s))
  /\ GivesBack(ledger, refunds, req[s].r.key, RefundRow(s), refunds')

ToppedUpBy(s) ==
  /\ Topup(s) /\ UNCHANGED <<refunds, plans>> /\ Settle(s, ToppedUp(s))
  /\ Enter(s, TopupEntry(s))

Fresh(s, e) ==
  /\ e \in Ent /\ e.wEnd = Row(s).wEnd /\ (Row(s).wOver => e.wOver) /\ e.topup = Row(s).topup
  /\ e.start = Now(s) /\ Now(s) < e.end /\ e.used = 0
Restarted(s) ==
  /\ HasRow(s) /\ UNCHANGED <<ledger, refunds>>
  /\ \E e \in Ent : Fresh(s, e) /\ StartPeriod(s, e)

LEMMA Steps ==
  ASSUME TypeInv, [Next]_vars
  PROVE  \/ Idle
         \/ \E s \in Session :
              /\ req[s] # None
              /\ Settled(s) \/ Noted(s) \/ Billed(s) \/ Reversed(s) \/ ToppedUpBy(s) \/ Restarted(s)
<1>1. CASE Tick
  BY <1>1 DEF Tick, Idle, rest
<1>2. CASE UNCHANGED vars
  BY <1>2 DEF vars, Idle
<1>3. ASSUME NEW s \in Session, Arrive(s) PROVE Idle
  BY <1>3 DEF Arrive, Idle, rest
<1>4. ASSUME NEW s \in Session, Serve(s)
      PROVE  \/ Idle
             \/ /\ req[s] # None
                /\ Settled(s) \/ Noted(s) \/ Billed(s) \/ Reversed(s) \/ ToppedUpBy(s) \/ Restarted(s)
  <2>1. CASE Miss(s) \/ Ensure(s) \/ InsertFails(s)
    BY <2>1 DEF Miss, Ensure, InsertFails, Idle, rest
  <2>2. CASE MeterReplay(s)
    BY <2>2 DEF MeterReplay, MeterReady, Serving, Refuse, Idle, Settled
  <2>3. CASE MeterDenied(s)
    BY <2>3 DEF MeterDenied, MeterReady, Serving, Settled
  <2>4. CASE MeterUnbilled(s)
    <3>1. req[s] # None /\ HasRow(s) /\ MeterReady(s) /\ req[s].r.key \in MeterKey
      BY <2>4, RequestTyped DEF MeterUnbilled, MeterReady, Serving, TypeInv
    <3>2. MeterEntry(s, "read_unbilled", 0, 0) \in Entry
      BY <3>1, MeterEntryTyped
    <3>3. MeterEntry(s, "read_unbilled", 0, 0).ws = Ws(s)
      BY DEF MeterEntry
    <3>4. /\ ledger[req[s].r.key] = None
          /\ ledger' = [ledger EXCEPT ![req[s].r.key] = MeterEntry(s, "read_unbilled", 0, 0)]
          /\ Settle(s, Row(s)) /\ UNCHANGED <<refunds, plans>>
      BY <2>4 DEF MeterUnbilled, Unkeyed
    <3> QED BY <3>1, <3>2, <3>3, <3>4 DEF Noted, Enter, Enters, Key
  <2>5. CASE MeterCharge(s)
    <3> DEFINE x == MeterEntry(s, "debit", Charge(s), Covered(s))
    <3>1. /\ req[s] # None /\ MeterReady(s) /\ req[s].r.key \in MeterKey
          /\ Charge(s) \in Nat /\ Covered(s) \in Nat /\ Covered(s) <= Charge(s)
          /\ ledger[req[s].r.key] = None /\ ledger' = [ledger EXCEPT ![req[s].r.key] = x]
          /\ Settle(s, Charged(s)) /\ UNCHANGED <<refunds, plans>>
      BY <2>5, ChargeFacts
    <3>2. x \in Entry
      BY <3>1, MeterEntryTyped
    <3>3. x.ws = Ws(s)
      BY DEF MeterEntry
    <3> HIDE DEF x
    <3>4. Enter(s, x)
      BY <3>1, <3>2, <3>3 DEF Enter, Enters, Key
    <3> QED BY <2>5, <3>1, <3>4 DEF Billed, x
  <2>6. CASE Reverse(s)
    <3>1. /\ req[s] # None /\ HasRow(s) /\ req[s].r.key \in Debits(Ws(s))
          /\ Back(s) <= ledger[req[s].r.key].allow
          /\ \/ refunds[req[s].r.key] # None /\ Settle(s, Row(s)) /\ refunds' = refunds
             \/ /\ refunds[req[s].r.key] = None /\ Settle(s, GivenBack(s))
                /\ refunds' = [refunds EXCEPT ![req[s].r.key] = RefundRow(s)]
          /\ UNCHANGED <<ledger, plans>>
      BY <2>6, ReverseFacts
    <3>2. RefundRow(s).allow = Back(s)
      BY DEF RefundRow
    <3> QED BY <2>6, <3>1, <3>2 DEF Settled, Reversed, GivesBack, Debits
  <2>7. CASE Topup(s)
    <3>1. /\ req[s] # None /\ HasRow(s) /\ req[s].r.key \in TopupKey
          /\ TopupEntry(s) \in Entry
          /\ \/ ledger' = ledger /\ (Settle(s, Row(s)) \/ Refuse(s))
             \/ /\ ledger[req[s].r.key] = None /\ Settle(s, ToppedUp(s))
                /\ ledger' = [ledger EXCEPT ![req[s].r.key] = TopupEntry(s)]
          /\ UNCHANGED <<refunds, plans>>
      BY <2>7, TopupFacts
    <3>2. TopupEntry(s).ws = Ws(s)
      BY DEF TopupEntry
    <3> QED BY <2>7, <3>1, <3>2 DEF Settled, Refuse, Idle, ToppedUpBy, Enter, Enters, Key
  <2>8. CASE SetPlan(s)
    <3> DEFINE e == OnPlan(Row(s), Now(s), req[s].r.arg)
    <3>1. req[s] # None /\ HasRow(s) /\ req[s].r.op = "plan" /\ UNCHANGED <<ledger, refunds>>
          /\ StartPeriod(s, e)
      BY <2>8 DEF SetPlan, Serving
    <3>2. Row(s) \in Ent /\ Now(s) \in Nat /\ req[s].r.arg \in Plan
      BY <3>1, RowFacts, RequestTyped DEF TypeInv
    <3>3. e \in Ent /\ Fresh(s, e)
      BY <3>2, OnPlanFacts DEF Fresh
    <3> QED BY <3>1, <3>3 DEF Restarted
  <2>9. CASE RenewPeriod(s)
    <3> DEFINE a == PlanAllowance(Row(s).plan, Row(s).allowance)
               e == FreshPeriod(Row(s), Now(s), a)
    <3>1. /\ req[s] # None /\ HasRow(s) /\ UNCHANGED <<ledger, refunds>>
          /\ \/ Settle(s, Row(s)) /\ UNCHANGED plans
             \/ StartPeriod(s, e)
      BY <2>9 DEF RenewPeriod, Serving
    <3>2. Row(s) \in Ent /\ Now(s) \in Nat
      BY <3>1, RowFacts, RequestTyped DEF TypeInv
    <3>3. a \in Nat
      BY LedgerAssumption, <3>2 DEF PlanAllowance, Ent
    <3>4. e \in Ent /\ Fresh(s, e)
      BY <3>2, <3>3, FreshPeriodFacts DEF Fresh
    <3> QED BY <3>1, <3>4 DEF Restarted, Settled
  <2>10. CASE Read(s)
    BY <2>10 DEF Read, Serving, Settled
  <2> QED BY <1>4, <2>1, <2>2, <2>3, <2>4, <2>5, <2>6, <2>7, <2>8, <2>9, <2>10 DEF Serve
<1> QED BY <1>1, <1>2, <1>3, <1>4 DEF Next

\* The tables stay finite, and no refund exceeds its debit.
LEMMA LedgersTyped ==
  ASSUME TypeInv
  PROVE  ledger \in Ledgers /\ refunds \in RefundTables
BY DEF TypeInv, TypeOK, Ledgers, RefundTables

LEMMA NextPosted ==
  ASSUME TypeInv, Posted(ledger, refunds), [Next]_vars
  PROVE  Posted(ledger, refunds)'
<1>0. ledger \in Ledgers /\ refunds \in RefundTables
  BY LedgersTyped
<1>1. CASE UNCHANGED <<ledger, refunds>>
  BY <1>1
<1>2. ASSUME NEW s \in Session, NEW x, Enter(s, x), refunds' = refunds
      PROVE  Posted(ledger, refunds)'
  <2>1. Posted(ledger', refunds)
    BY <1>0, <1>2, NewEntryPosted DEF Enter
  <2> QED BY <1>2, <2>1
<1>3. ASSUME NEW s \in Session, Reversed(s) PROVE Posted(ledger, refunds)'
  <2>1. GivesBack(ledger, refunds, req[s].r.key, RefundRow(s), refunds') /\ ledger' = ledger
    BY <1>3 DEF Reversed
  <2>2. req[s].r.key \in MeterKey /\ RefundRow(s) \in Refund
    BY <1>3, ReverseFacts DEF Reversed
  <2>3. Posted(ledger, refunds')
    BY <1>0, <2>1, <2>2, NewRefundPosted
  <2> QED BY <2>1, <2>3
<1> QED BY <1>1, <1>2, <1>3, Steps DEF Idle, Settled, Noted, Billed, ToppedUpBy, Restarted

-----------------------------------------------------------------------------
(* What a commit writes.                                                   *)
\* An object that is not outdated is written whole.
LEMMA WrittenWhole ==
  ASSUME TypeInv, NEW s \in Session, req[s] # None, HasRow(s), ~Outdated(s),
         NEW e \in Ent, Commit(s, e)
  PROVE  /\ ent'[Ws(s)] = e
         /\ ent[Ws(s)] # None => Loaded(s) = ent[Ws(s)]
         /\ ent[Ws(s)] = None =>
              Loaded(s) = NewRow(Ws(s), Now(s), req[s].again) /\ req[s].step = "insert"
<1>1. /\ Ws(s) \in Workspace /\ ent \in [Workspace -> Ent \cup {None}]
      /\ ent[Ws(s)] # None => ent[Ws(s)] \in Ent
  BY RequestTyped DEF TypeInv, TypeOK
<1>2. ent[Ws(s)] # None => Loaded(s) = ent[Ws(s)]
  BY DEF HasRow, Insertable, Outdated, Loaded
<1>3. ent[Ws(s)] = None => req[s].step = "insert"
  BY RowFacts
<1>4. ent'[Ws(s)] = IF ent[Ws(s)] = None THEN e ELSE Flushed(ent[Ws(s)], Loaded(s), e)
  BY <1>1 DEF Commit
<1>5. ent[Ws(s)] # None => Flushed(ent[Ws(s)], Loaded(s), e) = e
  BY <1>1, <1>2, FlushedOwn
<1> QED BY <1>2, <1>3, <1>4, <1>5 DEF Loaded

\* If no race is recorded, either it was written whole, or it was an outdated
\* copy that was not changed, and then nothing was written.
LEMMA SettleWrites ==
  ASSUME TypeInv, NEW s \in Session, req[s] # None, HasRow(s),
         NEW e \in Ent, Settle(s, e), <<Ws(s), "first_touch">> \notin raced',
         <<Ws(s), "agents">> \notin raced' \/ req[s].r.op # "agents"
  PROVE  \/ ~Outdated(s) /\ ent'[Ws(s)] = e
         \/ Outdated(s) /\ e = Loaded(s) /\ ent'[Ws(s)] = ent[Ws(s)] /\ ent[Ws(s)] # None
<1>1. Commit(s, e)
  BY DEF Settle
<1>2. CASE ~Outdated(s)
  BY <1>1, <1>2, WrittenWhole
<1>3. CASE Outdated(s)
  <2>1. e = req[s].copy
    BY <1>3 DEF Settle
  <2>2. req[s].step = "copied" /\ Loaded(s) = e /\ ent[Ws(s)] # None
    BY <1>3, <2>1 DEF Outdated, Loaded, TypeInv, Copies
  <2>3. /\ Ws(s) \in Workspace /\ ent \in [Workspace -> Ent \cup {None}] /\ ent[Ws(s)] \in Ent
    BY <2>2, RequestTyped DEF TypeInv, TypeOK
  <2>4. ent'[Ws(s)] = Flushed(ent[Ws(s)], e, e)
    BY <1>1, <2>2, <2>3 DEF Commit
  <2> QED BY <1>3, <2>2, <2>3, <2>4, FlushedNothing
<1> QED BY <1>2, <1>3

LEMMA OthersKept ==
  ASSUME TypeInv, NEW s \in Session, req[s] # None, NEW e, Commit(s, e),
         NEW w \in Workspace, w # Ws(s)
  PROVE  ent'[w] = ent[w]
BY DEF Commit, TypeInv, TypeOK

-----------------------------------------------------------------------------
(* Top-ups.                                                                *)
TopupOf(w) == IF ent[w] = None THEN 0 ELSE ent[w].topup

\* The balance of top-ups, of a workspace without a row too.
TopupsKept ==
  \A w \in Workspace : <<w, "first_touch">> \notin raced =>
    TopupOf(w) = Bought(ledger, w) - Drawn(ledger, refunds, w)

\* A row that is written back without touching the top-ups keeps them, even if
\* it comes from an outdated copy.
LEMMA TopupUntouched ==
  ASSUME TypeInv, NEW s \in Session, req[s] # None, HasRow(s),
         NEW e \in Ent, e.wEnd = Row(s).wEnd, e.topup = Row(s).topup, Commit(s, e),
         NEW w \in Workspace
  PROVE  TopupOf(w)' = TopupOf(w)
<1>1. /\ Loaded(s) \in Ent /\ Row(s).topup = Loaded(s).topup
      /\ ent[Ws(s)] = None => req[s].step = "insert"
      /\ ent[Ws(s)] # None => ent[Ws(s)] \in Ent
  BY RowFacts
<1>2. ent'[w] = ent[w] \/ w = Ws(s)
  BY OthersKept
<1>3. /\ ent'[Ws(s)] = IF ent[Ws(s)] = None THEN e ELSE Flushed(ent[Ws(s)], Loaded(s), e)
      /\ ent'[Ws(s)] \in Ent
  BY CommitFacts
<1>4. ent'[Ws(s)] # None
  BY <1>3, LedgerAssumption
<1>5. CASE ent[Ws(s)] = None
  <2>1. Loaded(s) = NewRow(Ws(s), Now(s), req[s].again)
    BY <1>1, <1>5 DEF Loaded
  <2>2. Ws(s) \in Workspace /\ Now(s) \in Nat /\ req[s].again \in BOOLEAN
    BY RequestTyped DEF TypeInv
  <2>3. Loaded(s).topup = 0
    <3>1. NewRow(Ws(s), Now(s), req[s].again).topup = 0
      BY <2>2, NewRowFacts
    <3> QED BY <2>1, <3>1
  <2> QED BY <1>1, <1>2, <1>3, <1>4, <1>5, <2>3 DEF TopupOf
<1>6. CASE ent[Ws(s)] # None
  <2>1. Flushed(ent[Ws(s)], Loaded(s), e).topup = ent[Ws(s)].topup
    BY <1>1, <1>6, FlushedField
  <2> QED BY <1>2, <1>3, <1>4, <1>6, <2>1 DEF TopupOf
<1> QED BY <1>5, <1>6

\* A commit that changes the top-ups of an object by d changes those of the
\* row by d.
LEMMA TopupMoved ==
  ASSUME TypeInv, NEW s \in Session, req[s] # None, HasRow(s), req[s].r.op # "agents",
         NEW e \in Ent, e.topup # Row(s).topup \/ e # Loaded(s), Settle(s, e),
         NEW w, w = Ws(s), <<w, "first_touch">> \notin raced'
  PROVE  /\ TopupOf(w)' = TopupOf(w) + (e.topup - Row(s).topup)
         /\ TopupOf(w) \in Nat /\ Row(s).topup \in Nat /\ e.topup \in Nat
<1>1. /\ Loaded(s) \in Ent /\ Row(s) \in Ent /\ Row(s).topup = Loaded(s).topup
  BY RowFacts
<1>2. ~Outdated(s) /\ ent'[Ws(s)] = e
  BY <1>1, SettleWrites
<1>3. /\ ent[Ws(s)] # None => Loaded(s) = ent[Ws(s)]
      /\ ent[Ws(s)] = None => Loaded(s) = NewRow(Ws(s), Now(s), req[s].again)
  BY <1>2, WrittenWhole DEF Settle
<1>4. Ws(s) \in Workspace /\ Now(s) \in Nat /\ req[s].again \in BOOLEAN
  BY RequestTyped DEF TypeInv
<1>5. TopupOf(w) = Loaded(s).topup
  <2>1. NewRow(Ws(s), Now(s), req[s].again).topup = 0
    BY <1>4, NewRowFacts
  <2> QED BY <1>3, <2>1 DEF TopupOf
<1>6. e # None /\ e.topup \in Nat /\ Loaded(s).topup \in Nat
  BY <1>1, LedgerAssumption DEF Ent
<1>7. TopupOf(w)' = e.topup
  BY <1>2, <1>6 DEF TopupOf
<1> QED BY <1>1, <1>5, <1>6, <1>7

LEMMA EntrySums ==
  ASSUME TypeInv, Posted(ledger, refunds), NEW s \in Session, NEW x, Enter(s, x),
         NEW w, refunds' = refunds
  PROVE  LET k == req[s].r.key IN
         /\ Bought(ledger', w) = Bought(ledger, w) + (IF TopsUp(k, x, w) THEN x.credits ELSE 0)
         /\ Drawn(ledger', refunds', w) =
              Drawn(ledger, refunds, w) + (IF Debited(k, x, w) THEN x.topup ELSE 0)
         /\ Bought(ledger, w) \in Nat /\ Drawn(ledger, refunds, w) \in Nat
         /\ x.credits \in Nat /\ x.topup \in Nat
<1>1. ledger \in Ledgers /\ refunds \in RefundTables
  BY LedgersTyped
<1>2. req[s].r.key \in Key /\ x \in Entry /\ Enters(ledger, req[s].r.key, x, ledger')
  BY DEF Enter
<1> DEFINE k == req[s].r.key
           p == x.period
<1>3. /\ Bought(ledger', w) = Bought(ledger, w) + (IF TopsUp(k, x, w) THEN x.credits ELSE 0)
      /\ Drawn(ledger', refunds, w) =
           Drawn(ledger, refunds, w) + (IF Debited(k, x, w) THEN x.topup ELSE 0)
      /\ Spent(ledger', refunds, w, p) = Spent(ledger, refunds, w, p)
           + (IF Debited(k, x, w) /\ x.period = p THEN x.allow ELSE 0)
      /\ Bought(ledger, w) \in Nat /\ Drawn(ledger, refunds, w) \in Nat
      /\ Spent(ledger, refunds, w, p) \in Int
  <2> HIDE DEF p
  <2> QED BY <1>1, <1>2, NewEntrySums
<1> QED BY <1>2, <1>3 DEF Entry

LEMMA SettledTopups ==
  ASSUME TypeInv, TopupsKept, NEW s \in Session, req[s] # None,
         NEW e \in Ent, HasRow(s), e.wEnd = Row(s).wEnd, e.topup = Row(s).topup, Commit(s, e),
         raced \subseteq raced', UNCHANGED <<ledger, refunds>>
  PROVE  TopupsKept'
BY TopupUntouched DEF TopupsKept

LEMMA RacedGrows ==
  ASSUME NEW s, NEW e, Settle(s, e) \/ StartPeriod(s, e)
  PROVE  raced \subseteq raced'
BY DEF Settle, StartPeriod

LEMMA NotedTopups ==
  ASSUME TypeInv, Posted(ledger, refunds), TopupsKept, NEW s \in Session, req[s] # None, Noted(s)
  PROVE  TopupsKept'
<1> DEFINE x == MeterEntry(s, "read_unbilled", 0, 0)
<1>1. /\ HasRow(s) /\ Settle(s, Row(s)) /\ refunds' = refunds /\ Enter(s, x)
      /\ req[s].r.key \in MeterKey
  BY DEF Noted
<1>2. x.type = "read_unbilled"
  BY DEF MeterEntry
<1> HIDE DEF x
<1>3. Row(s) \in Ent
  BY <1>1, RowFacts
<1> SUFFICES ASSUME NEW w \in Workspace, <<w, "first_touch">> \notin raced'
             PROVE  TopupOf(w)' = Bought(ledger', w) - Drawn(ledger', refunds', w)
  BY DEF TopupsKept
<1>4. <<w, "first_touch">> \notin raced
  BY <1>1, RacedGrows
<1>5. TopupOf(w)' = TopupOf(w)
  BY <1>1, <1>3, TopupUntouched DEF Settle
<1>6. ~TopsUp(req[s].r.key, x, w) /\ ~Debited(req[s].r.key, x, w)
  BY <1>1, <1>2, LedgerAssumption DEF TopsUp, Debited
<1>7. Bought(ledger', w) = Bought(ledger, w) /\ Drawn(ledger', refunds', w) = Drawn(ledger, refunds, w)
  BY <1>1, <1>6, EntrySums
<1> QED BY <1>4, <1>5, <1>7 DEF TopupsKept

\* A charge is never what was loaded: it changes a balance, or the roll before
\* it has moved the period.
LEMMA ChargedNew ==
  ASSUME TypeInv, NEW s \in Session, MeterCharge(s)
  PROVE  Charged(s) # Loaded(s)
<1>1. /\ req[s] # None /\ HasRow(s) /\ Row(s) \in Ent
      /\ Charge(s) \in Nat \ {0} /\ Covered(s) \in Nat
      /\ Charged(s).topup = Row(s).topup - (Charge(s) - Covered(s))
      /\ Charged(s).used = Row(s).used + Covered(s)
      /\ Charged(s).end = Row(s).end /\ Charged(s).wOver = Row(s).wOver
  BY ChargeFacts
<1>2. Loaded(s) \in Ent /\ Now(s) \in Nat
  BY <1>1, RowFacts, RequestTyped DEF TypeInv
<1> DEFINE e == Loaded(s)
           x == Row(s)
           n == Now(s)
<1>3. /\ n < x.end
      /\ \/ x = e
         \/ e.end <= x.start /\ x.start <= n
         \/ ~e.wOver /\ x.wOver
  <2>1. x = Roll(e, n)
    BY DEF Row
  <2> QED BY <1>2, <2>1, RollFacts
<1>4. /\ x.used \in Nat /\ x.topup \in Nat /\ x.start \in Nat /\ x.end \in Nat
      /\ e.end \in Nat
  BY <1>1, <1>2 DEF Ent
<1> HIDE DEF e, x, n
<1>5. CASE x = e
  BY <1>1, <1>4, <1>5 DEF e, x
<1>6. CASE e.end <= x.start /\ x.start <= n
  <2>1. x.end # e.end
    BY <1>2, <1>3, <1>4, <1>6 DEF n
  <2> QED BY <1>1, <2>1 DEF e, x
<1>7. CASE ~e.wOver /\ x.wOver
  BY <1>1, <1>7 DEF e, x
<1> QED BY <1>3, <1>5, <1>6, <1>7

LEMMA BilledTopups ==
  ASSUME TypeInv, Posted(ledger, refunds), TopupsKept, NEW s \in Session, Billed(s)
  PROVE  TopupsKept'
<1> DEFINE x == MeterEntry(s, "debit", Charge(s), Covered(s))
           k == req[s].r.key
<1>1. /\ MeterCharge(s) /\ refunds' = refunds /\ Settle(s, Charged(s)) /\ Enter(s, x)
      /\ k \in MeterKey
  BY DEF Billed
<1>2. /\ req[s] # None /\ HasRow(s) /\ req[s].r.op = "meter"
      /\ Row(s) \in Ent /\ Charged(s) \in Ent /\ Charged(s).wEnd = Row(s).wEnd
      /\ Charge(s) \in Nat \ {0} /\ Covered(s) \in Nat
      /\ Charged(s).topup = Row(s).topup - (Charge(s) - Covered(s))
      /\ Charged(s).used = Row(s).used + Covered(s)
      /\ Charged(s).start = Row(s).start /\ Charged(s).end = Row(s).end
      /\ Charged(s).wOver = Row(s).wOver
  BY <1>1, ChargeFacts DEF MeterReady, Serving
<1>3. x.type = "debit" /\ x.ws = Ws(s) /\ x.topup = Charge(s) - Covered(s)
  BY DEF MeterEntry
<1> HIDE DEF x
<1> SUFFICES ASSUME NEW w \in Workspace, <<w, "first_touch">> \notin raced'
             PROVE  TopupOf(w)' = Bought(ledger', w) - Drawn(ledger', refunds', w)
  BY DEF TopupsKept
<1>4. <<w, "first_touch">> \notin raced
  BY <1>1, RacedGrows
<1>5. /\ ~TopsUp(k, x, w)
      /\ Debited(k, x, w) <=> w = Ws(s)
  BY <1>1, <1>3, LedgerAssumption DEF TopsUp, Debited
<1>6. /\ Bought(ledger', w) = Bought(ledger, w)
      /\ Drawn(ledger', refunds', w) =
           Drawn(ledger, refunds, w) + (IF w = Ws(s) THEN x.topup ELSE 0)
      /\ Bought(ledger, w) \in Nat /\ Drawn(ledger, refunds, w) \in Nat /\ x.topup \in Nat
  BY <1>1, <1>5, EntrySums
<1>7. TopupOf(w) = Bought(ledger, w) - Drawn(ledger, refunds, w)
  BY <1>4 DEF TopupsKept
<1>8. CASE w # Ws(s)
  <2>1. TopupOf(w)' = TopupOf(w)
    BY <1>1, <1>2, <1>8, OthersKept DEF TopupOf, Settle
  <2> QED BY <1>6, <1>7, <1>8, <2>1
<1>9. CASE w = Ws(s)
  <2>1. Charged(s).topup # Row(s).topup \/ Charged(s) # Loaded(s)
    BY <1>1, ChargedNew
  <2>2. TopupOf(w)' = TopupOf(w) + (Charged(s).topup - Row(s).topup)
        /\ TopupOf(w) \in Nat /\ Row(s).topup \in Nat
    BY <1>1, <1>2, <1>9, <2>1, TopupMoved
  <2> QED BY <1>2, <1>3, <1>6, <1>7, <1>9, <2>2
<1> QED BY <1>8, <1>9

LEMMA ReversedTopups ==
  ASSUME TypeInv, Posted(ledger, refunds), TopupsKept, NEW s \in Session, Reversed(s)
  PROVE  TopupsKept'
<1> DEFINE k == req[s].r.key
<1>1. /\ Reverse(s) /\ ledger' = ledger /\ Settle(s, GivenBack(s))
      /\ GivesBack(ledger, refunds, k, RefundRow(s), refunds')
  BY DEF Reversed
<1>2. /\ req[s] # None /\ HasRow(s) /\ req[s].step = "load" /\ Ws(s) \in Workspace
      /\ Row(s) \in Ent /\ k \in Debits(Ws(s)) /\ k \in MeterKey
      /\ RefundRow(s) \in Refund /\ GivenBack(s) \in Ent
      /\ GivenBack(s).topup = Row(s).topup + ledger[k].topup
      /\ ledger[k] \in Entry
  BY <1>1, ReverseFacts
<1>3. /\ ledger \in Ledgers /\ refunds \in RefundTables /\ ledger[k].ws = Ws(s)
      /\ ledger[k].topup \in Nat
  BY <1>2, LedgersTyped DEF Debits, Entry
<1> SUFFICES ASSUME NEW w \in Workspace, <<w, "first_touch">> \notin raced'
             PROVE  TopupOf(w)' = Bought(ledger', w) - Drawn(ledger', refunds', w)
  BY DEF TopupsKept
<1>4. <<w, "first_touch">> \notin raced
  BY <1>1, RacedGrows
<1> DEFINE p == <<0, 0>>
<1>5. /\ Drawn(ledger, refunds', w) =
           Drawn(ledger, refunds, w) - (IF ledger[k].ws = w THEN ledger[k].topup ELSE 0)
      /\ Drawn(ledger, refunds, w) \in Nat
      /\ Spent(ledger, refunds, w, p) \in Int
  <2> HIDE DEF p
  <2> QED BY <1>1, <1>2, <1>3, NewRefundSums
<1>6. TopupOf(w) = Bought(ledger, w) - Drawn(ledger, refunds, w)
  BY <1>4 DEF TopupsKept
<1>7. Bought(ledger, w) \in Nat
  <2> DEFINE f == [j \in TopupsIn(ledger, w) |-> ledger[j].credits]
  <2>1. \A j \in DOMAIN f : f[j] \in Nat
    BY <1>3, EntryFields DEF TopupsIn, Key
  <2>2. IsFiniteSet(DOMAIN f)
    <3>1. IsFiniteSet(TopupsIn(ledger, w))
      <4> HIDE DEF p
      <4> QED BY PostedFinite
    <3> QED BY <3>1
  <2> HIDE DEF f
  <2>3. SumFunction(f) \in Nat
    BY <2>1, <2>2, TotalNat
  <2> QED BY <2>3 DEF f, Bought
<1>8. CASE w # Ws(s)
  <2>1. TopupOf(w)' = TopupOf(w)
    BY <1>1, <1>2, <1>8, OthersKept DEF TopupOf, Settle
  <2> QED BY <1>1, <1>3, <1>5, <1>6, <1>7, <1>8, <2>1
<1>9. CASE w = Ws(s)
  <2>1. ~Outdated(s)
    BY <1>2 DEF Outdated
  <2>2. ent[w] # None /\ ent'[w] = GivenBack(s) /\ Loaded(s) = ent[w]
    BY <1>1, <1>2, <1>9, <2>1, WrittenWhole DEF Settle, HasRow
  <2>3. Row(s).topup = Loaded(s).topup /\ ent[w].topup \in Nat /\ GivenBack(s) # None
    BY <1>2, <1>9, <2>2, RowFacts, LedgerAssumption DEF Ent
  <2>4. TopupOf(w) = ent[w].topup
    BY <2>2 DEF TopupOf
  <2>5. TopupOf(w)' = GivenBack(s).topup
    BY <2>2, <2>3 DEF TopupOf
  <2> QED BY <1>1, <1>2, <1>3, <1>5, <1>6, <1>7, <1>9, <2>2, <2>3, <2>4, <2>5
<1> QED BY <1>8, <1>9

LEMMA ToppedUpTopups ==
  ASSUME TypeInv, Posted(ledger, refunds), TopupsKept, NEW s \in Session, ToppedUpBy(s)
  PROVE  TopupsKept'
<1> DEFINE x == TopupEntry(s)
           k == req[s].r.key
<1>1. /\ Topup(s) /\ refunds' = refunds /\ Settle(s, ToppedUp(s)) /\ Enter(s, x)
  BY DEF ToppedUpBy
<1>2. /\ req[s] # None /\ HasRow(s) /\ req[s].r.op = "topup"
      /\ Row(s) \in Ent /\ k \in TopupKey /\ ToppedUp(s) \in Ent
      /\ TopupCredits[k] \in Nat \ {0}
      /\ ToppedUp(s).topup = Row(s).topup + TopupCredits[k]
  BY <1>1, TopupFacts DEF Topup, Serving
<1>3. x.type = "topup" /\ x.ws = Ws(s) /\ x.credits = TopupCredits[k]
  BY DEF TopupEntry
<1> HIDE DEF x
<1> SUFFICES ASSUME NEW w \in Workspace, <<w, "first_touch">> \notin raced'
             PROVE  TopupOf(w)' = Bought(ledger', w) - Drawn(ledger', refunds', w)
  BY DEF TopupsKept
<1>4. <<w, "first_touch">> \notin raced
  BY <1>1, RacedGrows
<1>5. /\ TopsUp(k, x, w) <=> w = Ws(s)
      /\ ~Debited(k, x, w)
  BY <1>2, <1>3 DEF TopsUp, Debited
<1>6. /\ Bought(ledger', w) = Bought(ledger, w) + (IF w = Ws(s) THEN x.credits ELSE 0)
      /\ Drawn(ledger', refunds', w) = Drawn(ledger, refunds, w)
      /\ Bought(ledger, w) \in Nat /\ Drawn(ledger, refunds, w) \in Nat /\ x.credits \in Nat
  BY <1>1, <1>5, EntrySums
<1>7. TopupOf(w) = Bought(ledger, w) - Drawn(ledger, refunds, w)
  BY <1>4 DEF TopupsKept
<1>8. CASE w # Ws(s)
  <2>1. TopupOf(w)' = TopupOf(w)
    BY <1>1, <1>2, <1>8, OthersKept DEF TopupOf, Settle
  <2> QED BY <1>6, <1>7, <1>8, <2>1
<1>9. CASE w = Ws(s)
  <2>1. ToppedUp(s).topup # Row(s).topup
    <3>1. Row(s).topup \in Nat
      BY <1>2 DEF Ent
    <3> QED BY <1>2, <3>1
  <2>2. TopupOf(w)' = TopupOf(w) + (ToppedUp(s).topup - Row(s).topup)
        /\ TopupOf(w) \in Nat /\ Row(s).topup \in Nat
    BY <1>1, <1>2, <1>9, <2>1, TopupMoved
  <2> QED BY <1>2, <1>3, <1>6, <1>7, <1>9, <2>2
<1> QED BY <1>8, <1>9

LEMMA NextTopups ==
  ASSUME TypeInv, Posted(ledger, refunds), TopupsKept, [Next]_vars
  PROVE  TopupsKept'
<1>1. CASE Idle
  BY <1>1 DEF Idle, TopupsKept, TopupOf
<1>2. ASSUME NEW s \in Session, req[s] # None, Settled(s) PROVE TopupsKept'
  <2>1. HasRow(s) /\ Settle(s, Row(s)) /\ UNCHANGED <<ledger, refunds>>
    BY <1>2 DEF Settled
  <2>2. Row(s) \in Ent
    BY <1>2, <2>1, RowFacts
  <2> QED BY <1>2, <2>1, <2>2, SettledTopups, RacedGrows DEF Settle
<1>3. ASSUME NEW s \in Session, req[s] # None, Restarted(s) PROVE TopupsKept'
  <2>1. PICK e \in Ent : Fresh(s, e) /\ StartPeriod(s, e)
    BY <1>3 DEF Restarted
  <2> QED BY <1>3, <2>1, SettledTopups, RacedGrows DEF Restarted, StartPeriod, Fresh
<1> QED BY <1>1, <1>2, <1>3, Steps, NotedTopups, BilledTopups, ReversedTopups, ToppedUpTopups

LEMMA InitSums ==
  ASSUME Init, NEW w, NEW p
  PROVE  /\ Posted(ledger, refunds)
         /\ Bought(ledger, w) = 0 /\ Drawn(ledger, refunds, w) = 0
         /\ Spent(ledger, refunds, w, p) = 0
<1>1. (\A k \in Key : ledger[k] = None) /\ (\A k \in MeterKey : refunds[k] = None)
  BY DEF Init
<1>2. /\ {k \in Key : ledger[k] # None} = {} /\ DebitsIn(ledger, w) = {}
      /\ TopupsIn(ledger, w) = {}
  BY <1>1 DEF DebitsIn, TopupsIn, Key
<1>3. /\ ChargedTo(ledger, w, p) = {} /\ GivenBackTo(ledger, refunds, w, p) = {}
      /\ Standing(ledger, refunds, w) = {}
  BY <1>2 DEF ChargedTo, GivenBackTo, Standing
<1>4. Posted(ledger, refunds)
  BY <1>1, <1>2, FS_EmptySet DEF Posted
<1>5. Bought(ledger, w) = 0
  BY <1>2, TotalOfNone DEF Bought
<1>6. Drawn(ledger, refunds, w) = 0
  BY <1>3, TotalOfNone DEF Drawn
<1>7. Spent(ledger, refunds, w, p) = 0
  <2>1. /\ SumFunction([k \in ChargedTo(ledger, w, p) |-> ledger[k].allow]) = 0
        /\ SumFunction([k \in GivenBackTo(ledger, refunds, w, p) |-> refunds[k].allow]) = 0
    BY <1>3, TotalOfNone
  <2> QED BY <2>1 DEF Spent
<1> QED BY <1>4, <1>5, <1>6, <1>7

\* Finitely many entries, for any number of keys.
LEMMA AlwaysPosted == Spec => [](TypeInv /\ Posted(ledger, refunds))
<1>1. Init => Posted(ledger, refunds)
  BY InitSums
<1>2. TypeInv /\ Posted(ledger, refunds) /\ [Next]_vars => Posted(ledger, refunds)'
  BY NextPosted
<1> QED BY <1>1, <1>2, Typing, PTL DEF Spec

\* The balance of top-ups is what was bought and not drawn, in every order of
\* plan changes, resets, agent checks, charges and refunds.
THEOREM TopupsNeverLost == Spec => []TopupsConserved
<1>1. Init => TopupsKept
  <2> SUFFICES ASSUME Init PROVE TopupsKept
    OBVIOUS
  <2>1. \A w \in Workspace : TopupOf(w) = 0
    BY DEF Init, TopupOf
  <2>2. \A w \in Workspace : Bought(ledger, w) = 0 /\ Drawn(ledger, refunds, w) = 0
    <3> SUFFICES ASSUME NEW w \in Workspace
                 PROVE  Bought(ledger, w) = 0 /\ Drawn(ledger, refunds, w) = 0
      OBVIOUS
    <3> DEFINE p == <<0, 0>>
    <3>1. Spent(ledger, refunds, w, p) = 0 /\ Bought(ledger, w) = 0 /\ Drawn(ledger, refunds, w) = 0
      <4> HIDE DEF p
      <4> QED BY InitSums
    <3> QED BY <3>1
  <2> QED BY <2>1, <2>2 DEF TopupsKept
<1>2. TypeInv /\ Posted(ledger, refunds) /\ TopupsKept /\ [Next]_vars => TopupsKept'
  BY NextTopups
<1>3. TopupsKept => TopupsConserved
  <2> SUFFICES ASSUME TopupsKept, NEW w \in Workspace, ent[w] # None,
                      <<w, "first_touch">> \notin raced
               PROVE  ent[w].topup = SumFunction([k \in Topups(w) |-> ledger[k].credits])
                        - SumFunction([k \in Debits(w) \ Refunded(w) |-> ledger[k].topup])
    BY DEF TopupsConserved
  <2>1. Topups(w) = TopupsIn(ledger, w) /\ Debits(w) \ Refunded(w) = Standing(ledger, refunds, w)
    BY DEF Topups, TopupsIn, Debits, Refunded, Standing, DebitsIn
  <2> QED BY <2>1 DEF TopupsKept, TopupOf, Bought, Drawn
<1> QED BY <1>1, <1>2, <1>3, AlwaysPosted, PTL DEF Spec

-----------------------------------------------------------------------------
(* The allowance of a period.                                              *)
LEMMA NothingSpent ==
  ASSUME NEW L, NEW R, NEW w, NEW a, NEW n,
         \A k \in DebitsIn(L, w) : L[k].period # <<a, n>>
  PROVE  Spent(L, R, w, <<a, n>>) = 0
<1> DEFINE p == <<a, n>>
<1>1. ChargedTo(L, w, p) = {} /\ GivenBackTo(L, R, w, p) = {}
  BY DEF ChargedTo, GivenBackTo
<1> HIDE DEF p
<1>2. /\ SumFunction([k \in ChargedTo(L, w, p) |-> L[k].allow]) = 0
      /\ SumFunction([k \in GivenBackTo(L, R, w, p) |-> R[k].allow]) = 0
  BY <1>1, TotalOfNone
<1>3. Spent(L, R, w, p) = 0
  BY <1>2 DEF Spent
<1> QED BY <1>3 DEF p

LEMMA DebitFields ==
  ASSUME NEW L \in Ledgers, NEW w, NEW k \in DebitsIn(L, w)
  PROVE  /\ k \in Key /\ L[k] \in Entry /\ L[k].allow \in Nat /\ L[k].at \in Nat
         /\ L[k].period[1] \in Nat /\ L[k].period[2] \in Nat
BY EntryFields DEF DebitsIn, Key

\* Rolling a row opens a period that nothing was charged to.
LEMMA RolledBooks ==
  ASSUME NEW L \in Ledgers, NEW R, NEW w, NEW m \in Nat, NEW e \in Ent, NEW n \in Nat,
         Books(L, R, w, e, m)
  PROVE  Books(L, R, w, Roll(e, n), m)
<1> DEFINE x == Roll(e, n)
<1>1. /\ x \in Ent /\ x.wEnd = e.wEnd /\ n < x.end
      /\ x.wEnd # None /\ ~x.wOver => n < x.wEnd
      /\ \/ x = e
         \/ x.used = 0 /\ e.end <= x.start /\ x.start <= n /\ x.wOver = e.wOver
         \/ /\ x.used = 0 /\ e.wEnd # None /\ e.wEnd <= x.start
            /\ ~e.wOver /\ x.wOver /\ x.wEnd < x.end /\ x.start < x.end
  BY RollFacts
<1> HIDE DEF x
<1>2. /\ e.start \in Nat /\ e.end \in Nat /\ e.wEnd \in Nat \cup {None}
      /\ x.start \in Nat /\ x.end \in Nat /\ x.allowance \in Nat /\ x.used \in Nat
  BY <1>1 DEF Ent
<1>3. /\ e.start < e.end /\ (e.wEnd # None /\ ~e.wOver => e.start < e.wEnd)
      /\ \A k \in DebitsIn(L, w) : Dated(L[k], e, m)
  BY DEF Books
<1>4. CASE x = e
  BY <1>4 DEF x
<1>5. ASSUME x # e PROVE Books(L, R, w, x, m)
  <2>1. x.start < x.end /\ (x.wEnd # None /\ ~x.wOver => x.start < x.wEnd) /\ e.start < x.start
    BY <1>1, <1>2, <1>3, <1>5
  <2>2. ASSUME NEW k \in DebitsIn(L, w)
        PROVE  Dated(L[k], x, m) /\ L[k].period # <<x.start, m>>
    <3> DEFINE d == L[k]
    <3>1. d.at \in Nat /\ d.period[1] \in Nat /\ d.period[2] \in Nat
      BY DebitFields
    <3>2. /\ d.at < e.end /\ (e.wEnd # None /\ ~e.wOver => d.at < e.wEnd)
          /\ d.period[2] <= m /\ (d.period[2] = m => d.period[1] <= e.start)
      BY <1>3 DEF Dated
    <3> HIDE DEF d
    <3>3. d.at < x.start /\ (x.wEnd # None /\ ~x.wOver => d.at < x.wEnd)
      BY <1>1, <1>2, <1>5, <3>1, <3>2
    <3>4. d.period[2] = m => d.period[1] < x.start
      BY <1>2, <2>1, <3>1, <3>2
    <3>5. d.period # <<x.start, m>>
      <4> SUFFICES ASSUME d.period = <<x.start, m>> PROVE FALSE
        OBVIOUS
      <4>1. d.period[1] = x.start /\ d.period[2] = m
        OBVIOUS
      <4> QED BY <1>2, <3>1, <3>4, <4>1
    <3>6. d.at < x.end /\ ~(d.at >= x.start) /\ (d.period[2] = m => d.period[1] <= x.start)
      BY <1>2, <2>1, <3>1, <3>3, <3>4
    <3> QED BY <3>2, <3>3, <3>5, <3>6 DEF Dated, d
  <2>3. Spent(L, R, w, <<x.start, m>>) = 0
    BY <2>2, NothingSpent
  <2>4. x.used = 0 /\ x.used <= x.allowance
    BY <1>1, <1>2, <1>5
  <2> QED BY <2>1, <2>2, <2>3, <2>4 DEF Books
<1> QED BY <1>4, <1>5 DEF x

\* A new row of a workspace with no entries.
LEMMA NewRowBooks ==
  ASSUME NEW L, NEW R, NEW w \in Workspace, NEW m \in Nat, NEW n \in Nat, NEW again \in BOOLEAN,
         DebitsIn(L, w) = {}
  PROVE  Books(L, R, w, NewRow(w, n, again), m)
<1> DEFINE x == NewRow(w, n, again)
<1>1. /\ x \in Ent /\ x.used = 0 /\ x.start < x.end /\ x.wOver = FALSE
      /\ IF again THEN x.wEnd = None
                  ELSE x.start = Born[w] /\ x.end = x.wEnd
  BY NewRowFacts
<1> HIDE DEF x
<1>2. Spent(L, R, w, <<x.start, m>>) = 0
  BY NothingSpent
<1>3. x.used <= x.allowance
  <2>1. x.allowance \in Nat
    BY <1>1 DEF Ent
  <2> QED BY <1>1, <2>1
<1> QED BY <1>1, <1>2, <1>3 DEF Books, x

\* Two states of a row in the same period.
SamePeriod(x, e) ==
  /\ x.start = e.start /\ x.end = e.end /\ x.wEnd = e.wEnd /\ x.wOver = e.wOver
  /\ x.allowance = e.allowance

LEMMA EntryBooks ==
  ASSUME NEW L \in Ledgers, NEW R \in RefundTables, Posted(L, R), NEW k \in Key,
         NEW d \in Entry, NEW L2, Enters(L, k, d, L2), NEW w, NEW m \in Nat,
         NEW e \in Ent, NEW x \in Ent, Books(L, R, w, e, m), SamePeriod(x, e),
         Debited(k, d, w) => Dated(d, e, m),
         x.used <= x.allowance,
         x.used = e.used + (IF Debited(k, d, w) THEN d.allow ELSE 0)
  PROVE  Books(L2, R, w, x, m)
<1> DEFINE p == <<e.start, m>>
<1>1. /\ L2[k] = d /\ k \notin DebitsIn(L, w)
      /\ \A j \in Key : j # k => L2[j] = L[j]
      /\ DebitsIn(L2, w) = DebitsIn(L, w) \cup (IF Debited(k, d, w) THEN {k} ELSE {})
  <2> HIDE DEF p
  <2>1. /\ L2[k] = d /\ k \notin DebitsIn(L, w)
        /\ \A j \in Key : j # k => L2[j] = L[j]
        /\ DebitsIn(L2, w) = DebitsIn(L, w) \cup (IF Debited(k, d, w) THEN {k} ELSE {})
        /\ GivenBackTo(L2, R, w, p) = GivenBackTo(L, R, w, p)
    BY NewEntrySets
  <2> QED BY <2>1
<1>2. /\ Spent(L2, R, w, p) = Spent(L, R, w, p)
           + (IF Debited(k, d, w) /\ d.period = p THEN d.allow ELSE 0)
      /\ Spent(L, R, w, p) \in Int
  <2> HIDE DEF p
  <2> QED BY NewEntrySums
<1>3. /\ e.start < e.end /\ (e.wEnd # None /\ ~e.wOver => e.start < e.wEnd)
      /\ \A j \in DebitsIn(L, w) : Dated(L[j], e, m)
      /\ Spent(L, R, w, p) <= e.used
  BY DEF Books
<1> HIDE DEF p
<1>4. \A j \in DebitsIn(L2, w) : Dated(L2[j], e, m)
  BY <1>1, <1>3 DEF DebitsIn, Key
<1>5. d.allow \in Nat /\ e.used \in Nat
  BY DEF Entry, Ent
<1>6. Spent(L2, R, w, p) <= x.used
  BY <1>2, <1>3, <1>5
<1>7. \A j \in DebitsIn(L2, w) : Dated(L2[j], x, m)
  BY <1>4 DEF SamePeriod, Dated
<1> QED BY <1>3, <1>6, <1>7 DEF Books, SamePeriod, p

LEMMA RefundBooks ==
  ASSUME NEW L \in Ledgers, NEW R \in RefundTables, Posted(L, R), NEW k \in MeterKey,
         NEW r \in Refund, NEW R2, GivesBack(L, R, k, r, R2), NEW w, NEW m \in Nat,
         NEW e \in Ent, NEW x \in Ent, Books(L, R, w, e, m), SamePeriod(x, e),
         L[k].ws = w => /\ r.allow = IF L[k].at >= e.start THEN L[k].allow ELSE 0
                        /\ x.used = IF r.allow < e.used THEN e.used - r.allow ELSE 0,
         L[k].ws # w => x.used = e.used
  PROVE  Books(L, R2, w, x, m)
<1> DEFINE p == <<e.start, m>>
<1>1. /\ Spent(L, R2, w, p) =
           Spent(L, R, w, p) - (IF L[k].ws = w /\ L[k].period = p THEN r.allow ELSE 0)
      /\ Spent(L, R, w, p) \in Int
  <2> HIDE DEF p
  <2> QED BY NewRefundSums
<1>2. /\ e.start < e.end /\ (e.wEnd # None /\ ~e.wOver => e.start < e.wEnd)
      /\ \A j \in DebitsIn(L, w) : Dated(L[j], e, m)
      /\ Spent(L, R, w, p) <= e.used /\ e.used <= e.allowance
  BY DEF Books
<1>3. L[k].ws = w /\ L[k].at >= e.start => L[k].period = p
  <2>1. L[k].ws = w => k \in DebitsIn(L, w)
    BY DEF DebitsIn, GivesBack
  <2> QED BY <1>2, <2>1 DEF Dated
<1>4. r.allow \in Nat /\ e.used \in Nat /\ e.allowance \in Nat
  BY DEF Refund, Ent
<1> HIDE DEF p
<1>5. Spent(L, R2, w, p) <= x.used /\ x.used <= e.allowance
  <2>1. CASE L[k].ws # w
    BY <1>1, <1>2, <2>1
  <2>2. CASE L[k].ws = w /\ L[k].at >= e.start
    <3>1. Spent(L, R2, w, p) = Spent(L, R, w, p) - r.allow
      BY <1>1, <1>3, <2>2
    <3>2. x.used = IF r.allow < e.used THEN e.used - r.allow ELSE 0
      BY <2>2
    <3> QED BY <1>1, <1>2, <1>4, <3>1, <3>2
  <2>3. CASE L[k].ws = w /\ ~(L[k].at >= e.start)
    <3>1. r.allow = 0
      BY <2>3
    <3>2. Spent(L, R2, w, p) = Spent(L, R, w, p)
      BY <1>1, <3>1
    <3>3. x.used = e.used
      BY <1>4, <2>3, <3>1
    <3> QED BY <1>2, <3>2, <3>3
  <2> QED BY <2>1, <2>2, <2>3
<1>6. \A j \in DebitsIn(L, w) : Dated(L[j], x, m)
  BY <1>2 DEF SamePeriod, Dated
<1> QED BY <1>2, <1>5, <1>6 DEF Books, SamePeriod, p

\* A period that set_plan() or renew_period() starts after every debit.
LEMMA FreshBooks ==
  ASSUME NEW L \in Ledgers, NEW R, NEW w, NEW m \in Nat, NEW e \in Ent, NEW x \in Ent,
         Books(L, R, w, e, m), x.wEnd = e.wEnd, e.wOver => x.wOver,
         x.start < x.end, x.used = 0,
         x.wEnd # None /\ ~x.wOver => x.start < x.wEnd,
         \A k \in DebitsIn(L, w) : ~(L[k].at >= x.start)
  PROVE  Books(L, R, w, x, m + 1)
<1>1. x.start \in Nat /\ x.end \in Nat /\ x.allowance \in Nat
  BY DEF Ent
<1>2. ASSUME NEW k \in DebitsIn(L, w)
      PROVE  Dated(L[k], x, m + 1) /\ L[k].period # <<x.start, m + 1>>
  <2> DEFINE d == L[k]
  <2>1. d.at \in Nat /\ d.period[2] \in Nat
    BY DebitFields
  <2>2. d.period[2] <= m /\ (e.wEnd # None /\ ~e.wOver => d.at < e.wEnd)
    BY DEF Books, Dated
  <2>3. d.at < x.start
    BY <1>1, <2>1
  <2> HIDE DEF d
  <2>4. d.at < x.end /\ d.period[2] # m + 1 /\ d.period[2] <= m + 1
    BY <1>1, <2>1, <2>2, <2>3
  <2>5. d.period # <<x.start, m + 1>>
    BY <2>4
  <2> QED BY <1>1, <2>1, <2>2, <2>3, <2>4, <2>5 DEF Dated, d
<1>3. Spent(L, R, w, <<x.start, m + 1>>) = 0
  BY <1>2, NothingSpent
<1>4. x.used <= x.allowance
  BY <1>1
<1> QED BY <1>2, <1>3, <1>4 DEF Books

\* The books against the object that a request works on.
LEMMA LoadedBooks ==
  ASSUME BalanceInv, NEW s \in Session, req[s] # None, HasRow(s), ~Outdated(s), Clean(Ws(s))
  PROVE  Books(ledger, refunds, Ws(s), Loaded(s), plans[Ws(s)])
<1>1. TypeInv /\ Ws(s) \in Workspace /\ Now(s) \in Nat /\ req[s].again \in BOOLEAN
      /\ plans[Ws(s)] \in Nat
  BY RequestTyped DEF BalanceInv, TypeInv, TypeOK
<1>2. CASE ent[Ws(s)] # None
  <2>1. Loaded(s) = ent[Ws(s)]
    BY <1>2 DEF HasRow, Insertable, Outdated, Loaded
  <2> QED BY <1>1, <1>2, <2>1 DEF BalanceInv, BooksKept
<1>3. CASE ent[Ws(s)] = None
  <2>1. Loaded(s) = NewRow(Ws(s), Now(s), req[s].again)
    BY <1>1, <1>3, RowFacts DEF Loaded
  <2>2. DebitsIn(ledger, Ws(s)) = {}
    BY <1>1, <1>3 DEF DebitsIn, TypeInv, Recorded, Key
  <2> QED BY <1>1, <2>1, <2>2, NewRowBooks
<1> QED BY <1>2, <1>3

LEMMA RowBooks ==
  ASSUME BalanceInv, NEW s \in Session, req[s] # None, HasRow(s), ~Outdated(s), Clean(Ws(s))
  PROVE  Books(ledger, refunds, Ws(s), Row(s), plans[Ws(s)])
<1>1. TypeInv /\ Ws(s) \in Workspace /\ Now(s) \in Nat /\ plans[Ws(s)] \in Nat
      /\ ledger \in Ledgers
  BY RequestTyped, LedgersTyped DEF BalanceInv, TypeInv, TypeOK
<1>2. Loaded(s) \in Ent
  BY <1>1, RowFacts
<1> QED BY <1>1, <1>2, LoadedBooks, RolledBooks DEF Row

\* A workspace whose row stays correct against a ledger that stays correct.
LEMMA CleanBefore ==
  ASSUME NEW s, NEW e, Settle(s, e) \/ StartPeriod(s, e), NEW w, Clean(w)'
  PROVE  Clean(w)
BY RacedGrows DEF Clean

\* If no race is recorded for w, a settled request writes w's row whole, or
\* changes nothing of it.
LEMMA CleanSettle ==
  ASSUME BalanceInv, NEW s \in Session, req[s] # None, HasRow(s), NEW e \in Ent, Settle(s, e),
         NEW w \in Workspace, ent'[w] # None, Clean(w)'
  PROVE  \/ ent'[w] = ent[w] /\ ent[w] # None /\ (w = Ws(s) => e = Loaded(s) /\ Outdated(s))
         \/ w = Ws(s) /\ ~Outdated(s) /\ ent'[w] = e
<1>1. TypeInv
  BY DEF BalanceInv
<1>2. CASE w # Ws(s)
  <2>1. Commit(s, e)
    BY DEF Settle
  <2>2. ent'[w] = ent[w]
    BY <1>1, <1>2, <2>1, OthersKept
  <2> QED BY <1>2, <2>2
<1>3. CASE w = Ws(s)
  <2>1. <<Ws(s), "first_touch">> \notin raced' /\ <<Ws(s), "agents">> \notin raced'
    BY <1>3 DEF Clean, Race
  <2> QED BY <1>1, <1>3, <2>1, SettleWrites
<1> QED BY <1>2, <1>3

LEMMA SettledBooks ==
  ASSUME BalanceInv, NEW s \in Session, req[s] # None, Settled(s)
  PROVE  BooksKept'
<1>1. HasRow(s) /\ Settle(s, Row(s)) /\ UNCHANGED <<ledger, refunds, plans>>
  BY DEF Settled
<1>2. Row(s) \in Ent
  BY <1>1, RowFacts DEF BalanceInv
<1> SUFFICES ASSUME NEW w \in Workspace, ent'[w] # None, Clean(w)'
             PROVE  Books(ledger', refunds', w, ent'[w], plans'[w])
  BY DEF BooksKept
<1>3. Clean(w)
  BY <1>1, CleanBefore
<1>4. CASE ent'[w] = ent[w] /\ ent[w] # None
  BY <1>1, <1>3, <1>4 DEF BalanceInv, BooksKept
<1>5. CASE w = Ws(s) /\ ~Outdated(s) /\ ent'[w] = Row(s)
  BY <1>1, <1>3, <1>5, RowBooks
<1> QED BY <1>1, <1>2, <1>4, <1>5, CleanSettle

\* A request that enters d under its key and writes x, in the period of the
\* rolled row, keeps the books.
LEMMA EnteredBooks ==
  ASSUME BalanceInv, NEW s \in Session, req[s] # None, HasRow(s), NEW x \in Ent, Settle(s, x),
         NEW d, Enter(s, d), UNCHANGED <<refunds, plans>>,
         SamePeriod(x, Row(s)), Row(s).used <= Row(s).allowance => x.used <= x.allowance,
         x.used = Row(s).used + (IF Debited(req[s].r.key, d, Ws(s)) THEN d.allow ELSE 0),
         Debited(req[s].r.key, d, Ws(s)) =>
           /\ d.at = Now(s) /\ d.period = PeriodOf(Ws(s), Row(s)) /\ x # Loaded(s)
  PROVE  BooksKept'
<1> DEFINE k == req[s].r.key
<1>0. /\ TypeInv /\ Posted(ledger, refunds) /\ ledger \in Ledgers /\ refunds \in RefundTables
      /\ plans \in [Workspace -> Nat]
      /\ k \in Key /\ d \in Entry /\ d.ws = Ws(s) /\ Enters(ledger, k, d, ledger')
  BY LedgersTyped DEF BalanceInv, TypeInv, TypeOK, Enter
<1>1. Row(s) \in Ent /\ Loaded(s) \in Ent /\ Ws(s) \in Workspace /\ Now(s) \in Nat
  BY <1>0, RowFacts, RequestTyped DEF TypeInv
<1> SUFFICES ASSUME NEW w \in Workspace, ent'[w] # None, Clean(w)'
             PROVE  Books(ledger', refunds, w, ent'[w], plans[w])
  BY DEF BooksKept
<1>2. Clean(w)
  BY CleanBefore
<1>3. plans[w] \in Nat
  BY <1>0
<1>4. CASE ent'[w] = ent[w] /\ ent[w] # None /\ (w = Ws(s) => x = Loaded(s) /\ Outdated(s))
  <2> DEFINE e == ent[w]
  <2>1. e \in Ent /\ Books(ledger, refunds, w, e, plans[w])
    BY <1>0, <1>2, <1>4 DEF BalanceInv, BooksKept, TypeInv, TypeOK
  <2>2. ~Debited(k, d, w)
    BY <1>0, <1>4 DEF Debited
  <2> HIDE DEF e
  <2>3. SamePeriod(e, e) /\ e.used <= e.allowance /\ e.used = e.used + 0
    <3>1. e.used \in Nat
      BY <2>1 DEF Ent
    <3> QED BY <2>1, <3>1 DEF SamePeriod, Books
  <2>4. e.used = e.used + (IF Debited(k, d, w) THEN d.allow ELSE 0)
    BY <2>2, <2>3
  <2>5. Books(ledger', refunds, w, e, plans[w])
    BY <1>0, <1>3, <2>1, <2>2, <2>3, <2>4, EntryBooks
  <2> QED BY <1>4, <2>5 DEF e
<1>5. CASE w = Ws(s) /\ ~Outdated(s) /\ ent'[w] = x
  <2> DEFINE e == Row(s)
  <2>1. Books(ledger, refunds, w, e, plans[w])
    BY <1>2, <1>5, RowBooks
  <2>2. Debited(k, d, w) => Dated(d, e, plans[w])
    <3> SUFFICES ASSUME Debited(k, d, w) PROVE Dated(d, e, plans[w])
      OBVIOUS
    <3>1. d.at = Now(s) /\ d.period = <<e.start, plans[w]>>
      BY <1>5 DEF PeriodOf
    <3>2. Now(s) < e.end /\ (e.wEnd # None /\ ~e.wOver => Now(s) < e.wEnd)
      BY <1>1, RollFacts DEF Row
    <3>3. d.period[1] = e.start /\ d.period[2] = plans[w] /\ e.start \in Nat
      BY <1>1, <3>1 DEF Ent
    <3> HIDE DEF e
    <3> QED BY <1>3, <3>1, <3>2, <3>3 DEF Dated
  <2>3. x.used = e.used + (IF Debited(k, d, w) THEN d.allow ELSE 0)
    BY <1>5
  <2>4. SamePeriod(x, e) /\ e \in Ent /\ x.used <= x.allowance
    BY <1>1, <2>1 DEF Books
  <2> HIDE DEF e
  <2>5. Books(ledger', refunds, w, x, plans[w])
    BY <1>0, <1>3, <2>1, <2>2, <2>3, <2>4, EntryBooks
  <2> QED BY <1>5, <2>5
<1> QED BY <1>4, <1>5, CleanSettle

LEMMA NotedBooks ==
  ASSUME BalanceInv, NEW s \in Session, req[s] # None, Noted(s)
  PROVE  BooksKept'
<1> DEFINE d == MeterEntry(s, "read_unbilled", 0, 0)
           x == Row(s)
<1>1. HasRow(s) /\ Settle(s, x) /\ UNCHANGED <<refunds, plans>> /\ Enter(s, d)
  BY DEF Noted
<1>2. d.type = "read_unbilled"
  BY DEF MeterEntry
<1>3. x \in Ent
  BY <1>1, RowFacts DEF BalanceInv
<1> HIDE DEF d
<1>4. ~Debited(req[s].r.key, d, Ws(s))
  BY <1>2 DEF Debited
<1>5. x.used \in Nat /\ SamePeriod(x, Row(s))
  BY <1>3 DEF Ent, SamePeriod
<1> QED BY <1>1, <1>3, <1>4, <1>5, EnteredBooks

LEMMA ToppedUpBooks ==
  ASSUME BalanceInv, NEW s \in Session, req[s] # None, ToppedUpBy(s)
  PROVE  BooksKept'
<1> DEFINE d == TopupEntry(s)
           x == ToppedUp(s)
<1>1. Topup(s) /\ Settle(s, x) /\ UNCHANGED <<refunds, plans>> /\ Enter(s, d)
  BY DEF ToppedUpBy
<1>2. d.type = "topup"
  BY DEF TopupEntry
<1>3. /\ HasRow(s) /\ x \in Ent /\ Row(s) \in Ent
      /\ x.wEnd = Row(s).wEnd /\ x.wOver = Row(s).wOver /\ x.start = Row(s).start
      /\ x.end = Row(s).end /\ x.allowance = Row(s).allowance /\ x.used = Row(s).used
  BY <1>1, TopupFacts DEF BalanceInv
<1> HIDE DEF d, x
<1>4. ~Debited(req[s].r.key, d, Ws(s))
  BY <1>2 DEF Debited
<1>5. Row(s).used \in Nat /\ SamePeriod(x, Row(s))
  BY <1>3 DEF Ent, SamePeriod
<1> QED BY <1>1, <1>3, <1>4, <1>5, EnteredBooks

LEMMA BilledBooks ==
  ASSUME BalanceInv, NEW s \in Session, req[s] # None, Billed(s)
  PROVE  BooksKept'
<1> DEFINE d == MeterEntry(s, "debit", Charge(s), Covered(s))
           x == Charged(s)
<1>1. /\ MeterCharge(s) /\ Settle(s, x) /\ UNCHANGED <<refunds, plans>> /\ Enter(s, d)
      /\ req[s].r.key \in MeterKey
  BY DEF Billed
<1>2. /\ d.type = "debit" /\ d.allow = Covered(s) /\ d.at = Now(s) /\ d.ws = Ws(s)
      /\ d.period = PeriodOf(Ws(s), Row(s))
  BY DEF MeterEntry
<1>3. /\ HasRow(s) /\ x \in Ent /\ Row(s) \in Ent /\ Covered(s) \in Nat
      /\ x.wEnd = Row(s).wEnd /\ x.wOver = Row(s).wOver /\ x.start = Row(s).start
      /\ x.end = Row(s).end /\ x.allowance = Row(s).allowance
      /\ x.used = Row(s).used + Covered(s) /\ Covered(s) <= Remaining(Row(s))
  BY <1>1, ChargeFacts DEF BalanceInv
<1>4. x # Loaded(s)
  BY <1>1, ChargedNew DEF BalanceInv
<1> HIDE DEF d, x
<1>5. Row(s).used \in Nat /\ Row(s).allowance \in Nat /\ SamePeriod(x, Row(s))
  BY <1>3 DEF Ent, SamePeriod
<1>6. Row(s).used <= Row(s).allowance => x.used <= x.allowance
  BY <1>3, <1>5 DEF Remaining
<1>7. Debited(req[s].r.key, d, Ws(s))
  BY <1>1, <1>2 DEF Debited
<1> QED BY <1>1, <1>2, <1>3, <1>4, <1>5, <1>6, <1>7, EnteredBooks

LEMMA ReversedBooks ==
  ASSUME BalanceInv, NEW s \in Session, req[s] # None, Reversed(s)
  PROVE  BooksKept'
<1> DEFINE k == req[s].r.key
           r == RefundRow(s)
           x == GivenBack(s)
<1>1. /\ Reverse(s) /\ UNCHANGED <<ledger, plans>> /\ Settle(s, x)
      /\ GivesBack(ledger, refunds, k, r, refunds')
  BY DEF Reversed
<1>2. /\ HasRow(s) /\ req[s].step = "load" /\ Ws(s) \in Workspace
      /\ Row(s) \in Ent /\ k \in Debits(Ws(s)) /\ k \in MeterKey /\ r \in Refund /\ x \in Ent
      /\ x.wEnd = Row(s).wEnd /\ x.wOver = Row(s).wOver /\ x.start = Row(s).start
      /\ x.end = Row(s).end /\ x.allowance = Row(s).allowance
      /\ x.used = IF Back(s) < Row(s).used THEN Row(s).used - Back(s) ELSE 0
  BY <1>1, ReverseFacts DEF BalanceInv
<1>3. r.allow = Back(s) /\ Back(s) = IF ledger[k].at >= Row(s).start THEN ledger[k].allow ELSE 0
  BY DEF RefundRow, Back
<1>4. /\ TypeInv /\ Posted(ledger, refunds) /\ ledger \in Ledgers /\ refunds \in RefundTables
      /\ plans \in [Workspace -> Nat] /\ ledger[k].ws = Ws(s)
  BY <1>2, LedgersTyped DEF BalanceInv, TypeInv, TypeOK, Debits
<1> HIDE DEF r, x
<1> SUFFICES ASSUME NEW w \in Workspace, ent'[w] # None, Clean(w)'
             PROVE  Books(ledger, refunds', w, ent'[w], plans[w])
  BY <1>1 DEF BooksKept
<1>5. Clean(w) /\ plans[w] \in Nat
  BY <1>1, <1>4, CleanBefore
<1>6. ~Outdated(s)
  BY <1>2 DEF Outdated
<1>7. CASE w # Ws(s) /\ ent'[w] = ent[w] /\ ent[w] # None
  <2> DEFINE e == ent[w]
  <2>1. e \in Ent /\ Books(ledger, refunds, w, e, plans[w])
    BY <1>4, <1>5, <1>7 DEF BalanceInv, BooksKept, TypeInv, TypeOK
  <2> HIDE DEF e
  <2>2. SamePeriod(e, e) /\ ledger[k].ws # w
    BY <1>4, <1>7 DEF SamePeriod
  <2>3. Books(ledger, refunds', w, e, plans[w])
    BY <1>1, <1>2, <1>4, <1>5, <2>1, <2>2, RefundBooks
  <2> QED BY <1>7, <2>3 DEF e
<1>8. CASE w = Ws(s) /\ ent'[w] = x
  <2> DEFINE e == Row(s)
  <2>1. e \in Ent /\ Books(ledger, refunds, w, e, plans[w])
    BY <1>2, <1>5, <1>6, <1>8, RowBooks
  <2>2. SamePeriod(x, e) /\ ledger[k].ws = w
    BY <1>2, <1>4, <1>8 DEF SamePeriod
  <2>3. /\ r.allow = IF ledger[k].at >= e.start THEN ledger[k].allow ELSE 0
        /\ x.used = IF r.allow < e.used THEN e.used - r.allow ELSE 0
    BY <1>2, <1>3
  <2> HIDE DEF e
  <2>4. Books(ledger, refunds', w, x, plans[w])
    BY <1>1, <1>2, <1>4, <1>5, <2>1, <2>2, <2>3, RefundBooks
  <2> QED BY <1>8, <2>4
<1> QED BY <1>1, <1>2, <1>6, <1>7, <1>8, CleanSettle

LEMMA RestartedBooks ==
  ASSUME BalanceInv, NEW s \in Session, req[s] # None, Restarted(s)
  PROVE  BooksKept'
<1>1. HasRow(s) /\ UNCHANGED <<ledger, refunds>>
  BY DEF Restarted
<1>2. PICK x \in Ent : Fresh(s, x) /\ StartPeriod(s, x)
  BY DEF Restarted
<1>3. /\ TypeInv /\ ledger \in Ledgers /\ refunds \in RefundTables
      /\ plans \in [Workspace -> Nat] /\ Ws(s) \in Workspace /\ Now(s) \in Nat
  BY LedgersTyped, RequestTyped DEF BalanceInv, TypeInv, TypeOK
<1>4. /\ Commit(s, x) /\ plans' = [plans EXCEPT ![Ws(s)] = @ + 1]
      /\ Outdated(s) => <<Ws(s), "first_touch">> \in raced'
      /\ Backdated(Ws(s), Now(s)) => <<Ws(s), "clock">> \in raced'
  BY <1>2 DEF StartPeriod
<1> SUFFICES ASSUME NEW w \in Workspace, ent'[w] # None, Clean(w)'
             PROVE  Books(ledger, refunds, w, ent'[w], plans'[w])
  BY <1>1 DEF BooksKept
<1>5. Clean(w)
  BY <1>2, CleanBefore
<1>6. CASE w # Ws(s)
  <2>1. ent'[w] = ent[w] /\ plans'[w] = plans[w]
    BY <1>3, <1>4, <1>6, OthersKept
  <2> QED BY <1>5, <2>1 DEF BalanceInv, BooksKept
<1>7. CASE w = Ws(s)
  <2>1. ~Outdated(s) /\ ~Backdated(w, Now(s))
    BY <1>4, <1>7 DEF Clean, Race
  <2>2. ent'[w] = x
    BY <1>1, <1>3, <1>4, <1>7, <2>1, WrittenWhole
  <2>3. plans'[w] = plans[w] + 1 /\ plans[w] \in Nat
    BY <1>3, <1>4, <1>7
  <2> DEFINE e == Row(s)
             m == plans[w]
  <2>4. e \in Ent /\ Books(ledger, refunds, w, e, m)
    BY <1>1, <1>3, <1>5, <1>7, <2>1, RowFacts, RowBooks
  <2>5. /\ x.wEnd = e.wEnd /\ (e.wOver => x.wOver) /\ x.start = Now(s) /\ x.start < x.end
        /\ x.used = 0
    BY <1>2 DEF Fresh
  <2>6. x.wEnd # None /\ ~x.wOver => x.start < x.wEnd
    <3>1. Loaded(s) \in Ent
      BY <1>1, <1>3, RowFacts
    <3>2. e.wEnd # None /\ ~e.wOver => Now(s) < e.wEnd
      BY <1>3, <3>1, RollFacts DEF Row
    <3> QED BY <2>5, <3>2
  <2>7. \A k \in DebitsIn(ledger, w) : ~(ledger[k].at >= x.start)
    BY <2>1, <2>5 DEF DebitsIn, Backdated, Debits
  <2> HIDE DEF e, m
  <2>8. m \in Nat
    BY <2>3 DEF m
  <2>9. Books(ledger, refunds, w, x, m + 1)
    BY <1>3, <2>4, <2>5, <2>6, <2>7, <2>8, FreshBooks
  <2> QED BY <2>2, <2>3, <2>9 DEF m
<1> QED BY <1>6, <1>7

LEMMA NextBooks ==
  ASSUME BalanceInv, [Next]_vars
  PROVE  BooksKept'
<1>1. CASE Idle
  BY <1>1 DEF Idle, BalanceInv, BooksKept, Clean
<1> QED BY <1>1, Steps, SettledBooks, NotedBooks, BilledBooks, ReversedBooks, ToppedUpBooks,
           RestartedBooks DEF BalanceInv

\* The inductive invariant behind the allowance: under a clean row, no debit is
\* later than its period, and the spent allowance is what the debits say.
THEOREM BooksBalance == Spec => []BalanceInv
<1>1. Init => BooksKept
  BY DEF Init, BooksKept
<1>2. BalanceInv /\ [Next]_vars => BooksKept'
  BY NextBooks
<1>3. TypeInv /\ Posted(ledger, refunds) /\ BooksKept => BalanceInv
  BY DEF BalanceInv
<1> QED BY <1>1, <1>2, <1>3, AlwaysPosted, PTL DEF Spec

\* No period of a workspace is charged more allowance than it has, unless its
\* row was written from an outdated copy or a period was started with a
\* timestamp older than a debit: there is no third way to overspend.
THEOREM AllowanceKept == Spec => []SpendWithinAllowance
<1>1. BalanceInv => SpendWithinAllowance
  <2> SUFFICES ASSUME BalanceInv, NEW w \in Workspace, Clean(w), ent[w] # None
               PROVE  SpentThisPeriod(w) <= ent[w].allowance
    BY DEF SpendWithinAllowance, WithinAllowance
  <2> DEFINE p == PeriodOf(w, ent[w])
  <2>1. Books(ledger, refunds, w, ent[w], plans[w]) /\ p = <<ent[w].start, plans[w]>>
    BY DEF BalanceInv, BooksKept, PeriodOf
  <2>2. Spent(ledger, refunds, w, p) <= ent[w].used /\ ent[w].used <= ent[w].allowance
    BY <2>1 DEF Books
  <2> HIDE DEF p
  <2>3. /\ {k \in Debits(w) : ledger[k].period = p} = ChargedTo(ledger, w, p)
        /\ ChargedTo(ledger, w, p) \cap Refunded(w) = GivenBackTo(ledger, refunds, w, p)
    BY DEF Debits, DebitsIn, ChargedTo, GivenBackTo, Refunded
  <2>4. SpentThisPeriod(w) = Spent(ledger, refunds, w, p)
    BY <2>3 DEF SpentThisPeriod, Spent, p
  <2>5. Spent(ledger, refunds, w, p) \in Int
    <3>1. \A k \in ChargedTo(ledger, w, p) : ledger[k].allow \in Nat
      BY LedgersTyped, DebitFields DEF ChargedTo, BalanceInv
    <3>2. \A k \in GivenBackTo(ledger, refunds, w, p) : refunds[k].allow \in Nat
      BY LedgersTyped, RefundFields DEF GivenBackTo, ChargedTo, DebitsIn, BalanceInv
    <3>3. IsFiniteSet(ChargedTo(ledger, w, p)) /\ IsFiniteSet(GivenBackTo(ledger, refunds, w, p))
      BY PostedFinite DEF BalanceInv
    <3> DEFINE f == [k \in ChargedTo(ledger, w, p) |-> ledger[k].allow]
               g == [k \in GivenBackTo(ledger, refunds, w, p) |-> refunds[k].allow]
    <3>4. /\ IsFiniteSet(DOMAIN f) /\ (\A k \in DOMAIN f : f[k] \in Nat)
          /\ IsFiniteSet(DOMAIN g) /\ (\A k \in DOMAIN g : g[k] \in Nat)
      BY <3>1, <3>2, <3>3
    <3> HIDE DEF f, g
    <3>5. SumFunction(f) \in Nat /\ SumFunction(g) \in Nat
      BY <3>4, TotalNat
    <3>6. Spent(ledger, refunds, w, p) = SumFunction(f) - SumFunction(g)
      BY DEF Spent, f, g
    <3> QED BY <3>5, <3>6
  <2>6. ent[w].used \in Nat /\ ent[w].allowance \in Nat
    BY DEF BalanceInv, TypeInv, TypeOK, Ent
  <2> QED BY <2>2, <2>4, <2>5, <2>6
<1> QED BY <1>1, BooksBalance, PTL

-----------------------------------------------------------------------------
(* The balance a customer sees.                                            *)
\* The used allowance covers every standing debit of the period.
LEMMA StandingIsSpent ==
  ASSUME NEW L \in Ledgers, NEW R \in RefundTables, Posted(L, R), NEW w, NEW p,
         NEW k \in ChargedTo(L, w, p), R[k] = None
  PROVE  L[k].allow <= Spent(L, R, w, p) /\ Spent(L, R, w, p) \in Int
<1> DEFINE C  == ChargedTo(L, w, p)
           C1 == C \ {k}
           f  == [j \in C |-> L[j].allow]
           f1 == [j \in C1 |-> L[j].allow]
           g  == [j \in GivenBackTo(L, R, w, p) |-> R[j].allow]
<1>1. IsFiniteSet(C) /\ IsFiniteSet(GivenBackTo(L, R, w, p)) /\ IsFiniteSet(C1)
  BY PostedFinite, FS_Subset
<1>2. \A j \in C : j \in MeterKey /\ L[j].allow \in Nat
  BY DebitFields DEF ChargedTo, DebitsIn
<1>3. GivenBackTo(L, R, w, p) \subseteq C1
  BY DEF GivenBackTo
<1>4. \A j \in GivenBackTo(L, R, w, p) : R[j].allow \in Nat /\ R[j].allow <= L[j].allow
  BY <1>2, RefundFields DEF GivenBackTo, Posted
<1>5. Spent(L, R, w, p) = SumFunction(f) - SumFunction(g)
  BY DEF Spent
<1>6. /\ IsFiniteSet(DOMAIN f1) /\ k \notin DOMAIN f1 /\ DOMAIN f = DOMAIN f1 \cup {k}
      /\ \A j \in DOMAIN f1 : f[j] = f1[j] /\ f1[j] \in Nat
      /\ \A j \in DOMAIN f : f[j] \in Nat
      /\ f[k] = L[k].allow /\ L[k].allow \in Nat
  BY <1>1, <1>2
<1>7. /\ IsFiniteSet(DOMAIN g) /\ DOMAIN g \subseteq DOMAIN f1
      /\ \A j \in DOMAIN g : g[j] \in Nat /\ g[j] <= f1[j]
  BY <1>1, <1>3, <1>4
<1> HIDE DEF C, C1, f, f1, g
<1>8. SumFunction(f) = SumFunction(f1) + L[k].allow
  BY <1>6, TotalGrows
<1>9. SumFunction(f1) \in Nat /\ SumFunction(g) \in Nat
  BY <1>6, <1>7, TotalNat
<1>10. SumFunction(g) <= SumFunction(f1)
  BY <1>6, <1>7, TotalBelow
<1> QED BY <1>5, <1>6, <1>8, <1>9, <1>10

LEMMA MovedByEntry ==
  ASSUME NEW k \in Key, NEW d \in Entry, NEW L2, Enters(ledger, k, d, L2),
         ledger \in Ledgers, NEW w
  PROVE  Moved(w, L2) = (IF TopsUp(k, d, w) THEN d.credits ELSE 0)
                          - (IF k \in MeterKey /\ d.ws = w THEN d.credits ELSE 0)
<1> DEFINE D == {j \in MeterKey : ledger[j] = None /\ L2[j] # None /\ L2[j].ws = w}
           T == {j \in TopupKey : ledger[j] = None /\ L2[j] # None /\ L2[j].ws = w}
           f == [j \in T |-> L2[j].credits]
           g == [j \in D |-> L2[j].credits]
<1>1. d # None /\ d.credits \in Nat
  BY LedgerAssumption DEF Entry
<1>2. ledger[k] = None /\ L2[k] = d /\ \A j \in Key : j # k => L2[j] = ledger[j]
  BY DEF Enters, Ledgers
<1>3. /\ D = IF k \in MeterKey /\ d.ws = w THEN {k} ELSE {}
      /\ T = IF TopsUp(k, d, w) THEN {k} ELSE {}
  BY <1>1, <1>2 DEF Key, TopsUp
<1>4. Moved(w, L2) = SumFunction(f) - SumFunction(g)
  BY DEF Moved
<1>5. /\ DOMAIN f = T /\ DOMAIN g = D
      /\ k \in T => f[k] = d.credits
      /\ k \in D => g[k] = d.credits
  BY <1>2
<1> HIDE DEF D, T, f, g
<1>6. SumFunction(f) = IF TopsUp(k, d, w) THEN d.credits ELSE 0
  <2>1. CASE TopsUp(k, d, w)
    BY <1>1, <1>3, <1>5, <2>1, TotalOfOne
  <2>2. CASE ~TopsUp(k, d, w)
    BY <1>3, <1>5, <2>2, TotalOfNone
  <2> QED BY <2>1, <2>2
<1>7. SumFunction(g) = IF k \in MeterKey /\ d.ws = w THEN d.credits ELSE 0
  <2>1. CASE k \in MeterKey /\ d.ws = w
    BY <1>1, <1>3, <1>5, <2>1, TotalOfOne
  <2>2. CASE ~(k \in MeterKey /\ d.ws = w)
    BY <1>3, <1>5, <2>2, TotalOfNone
  <2> QED BY <2>1, <2>2
<1> QED BY <1>4, <1>6, <1>7

LEMMA MovedByNothing ==
  ASSUME NEW w
  PROVE  Moved(w, ledger) = 0
<1> DEFINE D == {j \in MeterKey : ledger[j] = None /\ ledger[j] # None /\ ledger[j].ws = w}
           T == {j \in TopupKey : ledger[j] = None /\ ledger[j] # None /\ ledger[j].ws = w}
<1>1. D = {} /\ T = {}
  OBVIOUS
<1>2. /\ SumFunction([j \in T |-> ledger[j].credits]) = 0
      /\ SumFunction([j \in D |-> ledger[j].credits]) = 0
  BY <1>1, TotalOfNone
<1> QED BY <1>2 DEF Moved

LEMMA ReturnedNothing ==
  ASSUME NEW w
  PROVE  Returned(w, refunds) = 0
<1> DEFINE D == {d \in Debits(w) : refunds[d] = None /\ refunds[d] # None}
<1>1. D = {}
  OBVIOUS
<1>2. SumFunction([k \in D |-> refunds[k].allow + ledger[k].topup]) = 0
  BY <1>1, TotalOfNone
<1> QED BY <1>2 DEF Returned

LEMMA ReturnedByRefund ==
  ASSUME NEW k \in MeterKey, NEW r \in Refund, NEW R2, GivesBack(ledger, refunds, k, r, R2),
         ledger \in Ledgers, refunds \in RefundTables, NEW w
  PROVE  Returned(w, R2) = IF ledger[k].ws = w THEN r.allow + ledger[k].topup ELSE 0
<1> DEFINE D == {d \in Debits(w) : refunds[d] = None /\ R2[d] # None}
           f == [j \in D |-> R2[j].allow + ledger[j].topup]
<1>1. R2[k] = r /\ r # None /\ \A j \in MeterKey : j # k => R2[j] = refunds[j]
  <2> DEFINE p == <<0, 0>>
  <2>1. /\ R2[k] = r /\ r # None /\ \A j \in MeterKey : j # k => R2[j] = refunds[j]
        /\ k \notin GivenBackTo(ledger, refunds, w, p)
    <3> HIDE DEF p
    <3> QED BY NewRefundSets
  <2> QED BY <2>1
<1>2. k \in Key /\ ledger[k] # None
  BY DEF Key, GivesBack
<1>3. r.allow \in Nat /\ ledger[k].topup \in Nat
  BY <1>2, EntryFields DEF Refund
<1>4. D = IF ledger[k].ws = w THEN {k} ELSE {}
  BY <1>1 DEF Debits, GivesBack
<1>5. DOMAIN f = D /\ (k \in D => f[k] = r.allow + ledger[k].topup)
  BY <1>1
<1>6. Returned(w, R2) = SumFunction(f)
  BY DEF Returned
<1> HIDE DEF D, f
<1>7. CASE ledger[k].ws = w
  BY <1>3, <1>4, <1>5, <1>6, <1>7, TotalOfOne
<1>8. CASE ledger[k].ws # w
  BY <1>4, <1>5, <1>6, <1>8, TotalOfNone
<1> QED BY <1>7, <1>8

\* A row that was not rolled into another period is as it was.
LEMMA SamePeriodRow ==
  ASSUME BalanceInv, NEW s \in Session, req[s] # None, HasRow(s), ~Outdated(s), Clean(Ws(s)),
         ent[Ws(s)] # None, Row(s).start = ent[Ws(s)].start
  PROVE  Row(s) = ent[Ws(s)]
<1> DEFINE e == ent[Ws(s)]
           n == Now(s)
           x == Roll(e, n)
<1>1. e \in Ent /\ n \in Nat /\ Books(ledger, refunds, Ws(s), e, plans[Ws(s)])
  BY RequestTyped DEF BalanceInv, BooksKept, TypeInv, TypeOK
<1>2. Loaded(s) = e
  BY DEF HasRow, Insertable, Outdated, Loaded
<1>3. Row(s) = x
  BY <1>2 DEF Row
<1>4. \/ x = e
      \/ e.end <= x.start
      \/ e.wEnd # None /\ e.wEnd <= x.start /\ ~e.wOver
  BY <1>1, RollFacts
<1>5. e.start < e.end /\ (e.wEnd # None /\ ~e.wOver => e.start < e.wEnd)
  BY <1>1 DEF Books
<1>6. e.start \in Nat /\ e.end \in Nat /\ e.wEnd \in Nat \cup {None}
  BY <1>1 DEF Ent
<1> HIDE DEF x
<1> QED BY <1>3, <1>4, <1>5, <1>6

LedgeredMove(w) ==
  Available(ent'[w]) = Available(ent[w]) + Moved(w, ledger') + Returned(w, refunds')

LEMMA AvailableNat ==
  ASSUME NEW e \in Ent
  PROVE  Available(e) \in Nat
BY DEF Ent, Available, Remaining

\* In a step that leaves w in its period, w's row is either left alone or
\* written whole by an object that was not rolled.
LEMMA MoveCases ==
  ASSUME BalanceInv, NEW s \in Session, req[s] # None, HasRow(s), NEW x \in Ent, Settle(s, x),
         x.start = Row(s).start,
         NEW w \in Workspace, ent[w] # None, ent'[w] # None, ent'[w].start = ent[w].start, Clean(w)'
  PROVE  \/ ent'[w] = ent[w] /\ (w = Ws(s) => x = Loaded(s) /\ Outdated(s))
         \/ w = Ws(s) /\ ent'[w] = x /\ ent[w] = Row(s)
<1>1. Clean(w)
  BY CleanBefore
<1>2. CASE w = Ws(s) /\ ~Outdated(s) /\ ent'[w] = x
  <2>1. Row(s).start = ent[Ws(s)].start /\ Clean(Ws(s)) /\ ent[Ws(s)] # None
    BY <1>1, <1>2
  <2>2. Row(s) = ent[Ws(s)]
    BY <1>2, <2>1, SamePeriodRow
  <2> QED BY <1>2, <2>2
<1> QED BY <1>2, CleanSettle

LEMMA EnteredMoves ==
  ASSUME BalanceInv, NEW s \in Session, NEW d, Enter(s, d), NEW w
  PROVE  /\ Moved(w, ledger') = (IF TopsUp(req[s].r.key, d, w) THEN d.credits ELSE 0)
              - (IF req[s].r.key \in MeterKey /\ d.ws = w THEN d.credits ELSE 0)
         /\ d.credits \in Nat /\ d.ws = Ws(s)
<1>1. ledger \in Ledgers
  BY LedgersTyped DEF BalanceInv
<1>2. d \in Entry /\ req[s].r.key \in Key /\ Enters(ledger, req[s].r.key, d, ledger') /\ d.ws = Ws(s)
  BY DEF Enter
<1>3. d.credits \in Nat
  BY <1>2 DEF Entry
<1> QED BY <1>1, <1>2, <1>3, MovedByEntry

LEMMA BilledMoves ==
  ASSUME BalanceInv, NEW s \in Session, req[s] # None, Billed(s),
         NEW w \in Workspace, ent[w] # None, ent'[w] # None, ent'[w].start = ent[w].start, Clean(w)'
  PROVE  LedgeredMove(w)
<1> DEFINE d == MeterEntry(s, "debit", Charge(s), Covered(s))
           x == Charged(s)
           k == req[s].r.key
<1>1. MeterCharge(s) /\ Settle(s, x) /\ refunds' = refunds /\ Enter(s, d) /\ k \in MeterKey
  BY DEF Billed
<1>2. d.credits = Charge(s)
  BY DEF MeterEntry
<1>3. /\ HasRow(s) /\ x \in Ent /\ Row(s) \in Ent /\ Covered(s) \in Nat /\ Charge(s) \in Nat
      /\ Covered(s) <= Remaining(Row(s)) /\ Covered(s) <= Charge(s)
      /\ x.start = Row(s).start /\ x.allowance = Row(s).allowance
      /\ x.used = Row(s).used + Covered(s)
      /\ x.topup = Row(s).topup - (Charge(s) - Covered(s))
  BY <1>1, ChargeFacts DEF BalanceInv
<1>4. x # Loaded(s)
  BY <1>1, ChargedNew DEF BalanceInv
<1>5. ent[w] \in Ent
  BY DEF BalanceInv, TypeInv, TypeOK
<1> HIDE DEF d, x
<1>6. Moved(w, ledger') = 0 - (IF w = Ws(s) THEN Charge(s) ELSE 0)
  <2>1. ~TopsUp(k, d, w)
    BY <1>1, LedgerAssumption DEF TopsUp
  <2>2. Moved(w, ledger') = (IF TopsUp(k, d, w) THEN d.credits ELSE 0)
          - (IF k \in MeterKey /\ d.ws = w THEN d.credits ELSE 0)
        /\ d.ws = Ws(s)
    BY <1>1, EnteredMoves
  <2> QED BY <1>1, <1>2, <2>1, <2>2
<1>7. Returned(w, refunds') = 0
  BY <1>1, ReturnedNothing
<1>8. Available(ent[w]) \in Nat
  BY <1>5, AvailableNat
<1>9. CASE ent'[w] = ent[w] /\ w # Ws(s)
  BY <1>6, <1>7, <1>8, <1>9 DEF LedgeredMove
<1>10. CASE w = Ws(s) /\ ent'[w] = x /\ ent[w] = Row(s)
  <2> DEFINE e == Row(s)
  <2>1. /\ e.used \in Nat /\ e.allowance \in Nat /\ e.topup \in Nat /\ x.topup \in Nat
    BY <1>3 DEF Ent
  <2>2. e.used <= e.allowance
    <3>1. Clean(w)
      BY <1>1, CleanBefore
    <3> QED BY <1>10, <3>1 DEF BalanceInv, BooksKept, Books
  <2>3. Remaining(e) = e.allowance - e.used
    BY <2>1, <2>2 DEF Remaining
  <2>4. Remaining(x) = e.allowance - (e.used + Covered(s))
    BY <1>3, <2>1, <2>2, <2>3 DEF Remaining
  <2>5. Available(x) = Available(e) - Charge(s)
    BY <1>3, <2>1, <2>3, <2>4 DEF Available
  <2> HIDE DEF e
  <2>6. Available(ent'[w]) = Available(ent[w]) - Charge(s)
    BY <1>10, <2>5 DEF e
  <2> QED BY <1>3, <1>6, <1>7, <1>8, <1>10, <2>6 DEF LedgeredMove
<1> QED BY <1>1, <1>3, <1>4, <1>9, <1>10, MoveCases

LEMMA NotedMoves ==
  ASSUME BalanceInv, NEW s \in Session, req[s] # None, Settled(s) \/ Noted(s),
         NEW w \in Workspace, ent[w] # None, ent'[w] # None, ent'[w].start = ent[w].start, Clean(w)'
  PROVE  LedgeredMove(w)
<1>1. HasRow(s) /\ Settle(s, Row(s)) /\ refunds' = refunds
  BY DEF Settled, Noted
<1>2. Row(s) \in Ent
  BY <1>1, RowFacts DEF BalanceInv
<1>3. ent'[w] = ent[w]
  BY <1>1, <1>2, MoveCases
<1>4. Moved(w, ledger') = 0
  <2>1. CASE Settled(s)
    BY <2>1, MovedByNothing DEF Settled
  <2>2. CASE Noted(s)
    <3> DEFINE d == MeterEntry(s, "read_unbilled", 0, 0)
    <3>1. Enter(s, d) /\ d.credits = 0
      BY <2>2 DEF Noted, MeterEntry
    <3> HIDE DEF d
    <3> QED BY <3>1, EnteredMoves
  <2> QED BY <2>1, <2>2
<1>5. Returned(w, refunds') = 0
  BY <1>1, ReturnedNothing
<1>6. Available(ent[w]) \in Nat
  BY AvailableNat DEF BalanceInv, TypeInv, TypeOK
<1> QED BY <1>3, <1>4, <1>5, <1>6 DEF LedgeredMove

LEMMA ToppedUpMoves ==
  ASSUME BalanceInv, NEW s \in Session, req[s] # None, ToppedUpBy(s),
         NEW w \in Workspace, ent[w] # None, ent'[w] # None, ent'[w].start = ent[w].start, Clean(w)'
  PROVE  LedgeredMove(w)
<1> DEFINE d == TopupEntry(s)
           x == ToppedUp(s)
           k == req[s].r.key
<1>1. Topup(s) /\ Settle(s, x) /\ refunds' = refunds /\ Enter(s, d)
  BY DEF ToppedUpBy
<1>2. d.credits = TopupCredits[k]
  BY DEF TopupEntry
<1>3. /\ HasRow(s) /\ x \in Ent /\ Row(s) \in Ent /\ k \in TopupKey /\ TopupCredits[k] \in Nat \ {0}
      /\ x.start = Row(s).start /\ x.allowance = Row(s).allowance /\ x.used = Row(s).used
      /\ x.topup = Row(s).topup + TopupCredits[k]
  BY <1>1, TopupFacts DEF BalanceInv
<1>4. x # Loaded(s)
  <2>1. Row(s).topup = Loaded(s).topup /\ Row(s).topup \in Nat
    BY <1>3, RowFacts DEF BalanceInv, Ent
  <2> QED BY <1>3, <2>1
<1>5. ent[w] \in Ent
  BY DEF BalanceInv, TypeInv, TypeOK
<1> HIDE DEF d, x
<1>6. Moved(w, ledger') = IF w = Ws(s) THEN TopupCredits[k] ELSE 0
  <2>1. k \notin MeterKey
    BY <1>3, LedgerAssumption
  <2>2. Moved(w, ledger') = (IF TopsUp(k, d, w) THEN d.credits ELSE 0)
          - (IF k \in MeterKey /\ d.ws = w THEN d.credits ELSE 0)
        /\ d.ws = Ws(s) /\ d.credits \in Nat
    BY <1>1, EnteredMoves
  <2>3. TopsUp(k, d, w) <=> w = Ws(s)
    BY <1>3, <2>2 DEF TopsUp
  <2> QED BY <1>2, <2>1, <2>2, <2>3
<1>7. Returned(w, refunds') = 0
  BY <1>1, ReturnedNothing
<1>8. Available(ent[w]) \in Nat
  BY <1>5, AvailableNat
<1>9. CASE ent'[w] = ent[w] /\ w # Ws(s)
  BY <1>6, <1>7, <1>8, <1>9 DEF LedgeredMove
<1>10. CASE w = Ws(s) /\ ent'[w] = x /\ ent[w] = Row(s)
  <2>1. Row(s).topup \in Nat /\ Remaining(Row(s)) \in Nat /\ Remaining(x) = Remaining(Row(s))
    BY <1>3 DEF Ent, Remaining
  <2>2. Available(x) = Available(Row(s)) + TopupCredits[k]
    BY <1>3, <2>1 DEF Available
  <2>3. Available(ent'[w]) = Available(ent[w]) + TopupCredits[k]
    BY <1>10, <2>2
  <2> QED BY <1>3, <1>6, <1>7, <1>8, <1>10, <2>3 DEF LedgeredMove
<1> QED BY <1>1, <1>3, <1>4, <1>9, <1>10, MoveCases

LEMMA ReversedMoves ==
  ASSUME BalanceInv, NEW s \in Session, req[s] # None, Reversed(s),
         NEW w \in Workspace, ent[w] # None, ent'[w] # None, ent'[w].start = ent[w].start, Clean(w)'
  PROVE  LedgeredMove(w)
<1> DEFINE k == req[s].r.key
           r == RefundRow(s)
           x == GivenBack(s)
<1>1. /\ Reverse(s) /\ ledger' = ledger /\ Settle(s, x)
      /\ GivesBack(ledger, refunds, k, r, refunds')
  BY DEF Reversed
<1>2. /\ HasRow(s) /\ req[s].step = "load" /\ Ws(s) \in Workspace
      /\ Row(s) \in Ent /\ k \in Debits(Ws(s)) /\ k \in MeterKey /\ r \in Refund /\ x \in Ent
      /\ x.start = Row(s).start /\ x.allowance = Row(s).allowance
      /\ x.used = IF Back(s) < Row(s).used THEN Row(s).used - Back(s) ELSE 0
      /\ x.topup = Row(s).topup + ledger[k].topup
  BY <1>1, ReverseFacts DEF BalanceInv
<1>3. /\ r.allow = Back(s) /\ Back(s) \in Nat
      /\ Back(s) = IF ledger[k].at >= Row(s).start THEN ledger[k].allow ELSE 0
  <2>1. r.allow = Back(s) /\ Back(s) = IF ledger[k].at >= Row(s).start THEN ledger[k].allow ELSE 0
    BY DEF RefundRow, Back
  <2> QED BY <1>2, <2>1 DEF Refund
<1>4. /\ TypeInv /\ Posted(ledger, refunds) /\ ledger \in Ledgers /\ refunds \in RefundTables
      /\ ledger[k].ws = Ws(s) /\ k \in DebitsIn(ledger, Ws(s))
  BY <1>2, LedgersTyped DEF BalanceInv, Debits, DebitsIn
<1>5. ledger[k].topup \in Nat /\ ledger[k].allow \in Nat
  BY <1>4, EntryFields DEF DebitsIn, Key
<1> HIDE DEF r, x
<1>6. Moved(w, ledger') = 0
  BY <1>1, MovedByNothing
<1>7. Returned(w, refunds') = IF w = Ws(s) THEN Back(s) + ledger[k].topup ELSE 0
  <2>1. Returned(w, refunds') = IF ledger[k].ws = w THEN r.allow + ledger[k].topup ELSE 0
    BY <1>1, <1>2, <1>4, ReturnedByRefund
  <2> QED BY <1>3, <1>4, <2>1
<1>8. ent[w] \in Ent /\ Available(ent[w]) \in Nat
  BY AvailableNat DEF BalanceInv, TypeInv, TypeOK
<1>9. CASE ent'[w] = ent[w] /\ w # Ws(s)
  BY <1>6, <1>7, <1>8, <1>9 DEF LedgeredMove
<1>10. CASE w = Ws(s) /\ ent'[w] = x /\ ent[w] = Row(s)
  <2> DEFINE e == Row(s)
             p == <<e.start, plans[w]>>
  <2>1. e.used \in Nat /\ e.allowance \in Nat /\ e.topup \in Nat
    BY <1>2 DEF Ent
  <2>2. Books(ledger, refunds, w, e, plans[w])
    <3>1. Clean(w)
      BY <1>1, CleanBefore
    <3> QED BY <1>10, <3>1 DEF BalanceInv, BooksKept
  <2>3. /\ e.used <= e.allowance /\ Spent(ledger, refunds, w, p) <= e.used
        /\ ledger[k].at >= e.start => ledger[k].period = p
    BY <1>4, <1>10, <2>2 DEF Books, Dated
  <2> HIDE DEF p, e
  <2>4. Back(s) <= e.used
    <3>1. CASE ledger[k].at >= e.start
      <4>1. k \in ChargedTo(ledger, w, p) /\ refunds[k] = None
        BY <1>1, <1>4, <1>10, <2>3, <3>1 DEF ChargedTo, GivesBack
      <4>2. ledger[k].allow <= Spent(ledger, refunds, w, p) /\ Spent(ledger, refunds, w, p) \in Int
        BY <1>4, <4>1, StandingIsSpent
      <4>3. Back(s) = ledger[k].allow
        BY <1>3, <3>1 DEF e
      <4> QED BY <1>5, <2>1, <2>3, <4>2, <4>3
    <3>2. CASE ~(ledger[k].at >= e.start)
      BY <1>3, <2>1, <3>2 DEF e
    <3> QED BY <3>1, <3>2
  <2>5. x.used = e.used - Back(s) /\ x.allowance = e.allowance /\ x.topup = e.topup + ledger[k].topup
    <3>1. x.used = IF Back(s) < e.used THEN e.used - Back(s) ELSE 0
      BY <1>2 DEF e
    <3> QED BY <1>2, <1>3, <2>1, <2>4, <3>1 DEF e
  <2>6. Remaining(e) = e.allowance - e.used /\ Remaining(x) = e.allowance - (e.used - Back(s))
    BY <1>3, <2>1, <2>3, <2>4, <2>5 DEF Remaining
  <2>7. Available(x) = Available(e) + (Back(s) + ledger[k].topup)
    BY <1>3, <1>5, <2>1, <2>5, <2>6 DEF Available
  <2>8. Available(ent'[w]) = Available(ent[w]) + (Back(s) + ledger[k].topup)
    BY <1>10, <2>7 DEF e
  <2>9. Returned(w, refunds') = Back(s) + ledger[k].topup
    BY <1>7, <1>10
  <2>10. Back(s) + ledger[k].topup \in Nat
    BY <1>3, <1>5
  <2> QED BY <1>6, <1>8, <2>8, <2>9, <2>10 DEF LedgeredMove
<1>11. ~Outdated(s)
  BY <1>2 DEF Outdated
<1> QED BY <1>1, <1>2, <1>9, <1>10, <1>11, MoveCases

\* Between two states in the same period of a clean row, the balance moves by
\* the new entries, and by nothing else.
THEOREM BalanceLedgered == Spec => BalanceMovesAreLedgered
<1>1. BalanceInv /\ BalanceInv' /\ [Next]_vars =>
        [\A w \in Workspace :
           ent[w] # None /\ PeriodOf(w, ent[w])' = PeriodOf(w, ent[w]) /\ Clean(w)'
             => Available(ent'[w]) = Available(ent[w]) + Moved(w, ledger')
                                       + Returned(w, refunds')]_vars
  <2> SUFFICES ASSUME BalanceInv, [Next]_vars, NEW w \in Workspace, ent[w] # None,
                      PeriodOf(w, ent[w])' = PeriodOf(w, ent[w]), Clean(w)'
               PROVE  LedgeredMove(w)
    BY DEF LedgeredMove
  <2>1. ent'[w].start = ent[w].start /\ plans'[w] = plans[w]
    BY DEF PeriodOf
  <2>2. CASE Idle
    <3>1. Available(ent[w]) \in Nat
      BY AvailableNat DEF BalanceInv, TypeInv, TypeOK
    <3> QED BY <2>2, <3>1, MovedByNothing, ReturnedNothing DEF Idle, LedgeredMove
  <2>3. ASSUME NEW s \in Session, req[s] # None,
               Settled(s) \/ Noted(s) \/ Billed(s) \/ Reversed(s) \/ ToppedUpBy(s)
        PROVE  LedgeredMove(w)
    <3>1. ent'[w] # None
      BY OtherSteps, CommittedFacts DEF BalanceInv
    <3> QED BY <2>1, <2>3, <3>1, BilledMoves, NotedMoves, ToppedUpMoves, ReversedMoves
  <2>4. ASSUME NEW s \in Session, req[s] # None, Restarted(s) PROVE LedgeredMove(w)
    <3>1. UNCHANGED <<ledger, refunds>>
      BY <2>4 DEF Restarted
    <3>2. PICK x \in Ent : StartPeriod(s, x)
      BY <2>4 DEF Restarted
    <3>3. Commit(s, x) /\ plans' = [plans EXCEPT ![Ws(s)] = @ + 1]
      BY <3>2 DEF StartPeriod
    <3>4. w # Ws(s)
      BY <2>1, <3>3 DEF BalanceInv, TypeInv, TypeOK
    <3>5. ent'[w] = ent[w]
      BY <2>4, <3>3, <3>4, OthersKept DEF BalanceInv
    <3>6. Available(ent[w]) \in Nat
      BY AvailableNat DEF BalanceInv, TypeInv, TypeOK
    <3> QED BY <3>1, <3>5, <3>6, MovedByNothing, ReturnedNothing DEF LedgeredMove
  <2> QED BY <2>2, <2>3, <2>4, Steps DEF BalanceInv
<1> QED BY <1>1, BooksBalance, PTL DEF Spec, BalanceMovesAreLedgered

-----------------------------------------------------------------------------
(* The cap of the Welcome day.                                             *)
\* As long as w's plan was never set, its row and the copies of it are in their
\* Welcome window or past it, and no copy is ahead of the row.
WelcomeRow(w, e) ==
  e.wEnd # None =>
    /\ e.wEnd = Born[w] + WelcomeDays
    /\ IF e.wOver THEN e.wEnd <= e.start /\ e.wEnd <= e.end
                  ELSE e.start = Born[w] /\ e.end = e.wEnd

RowsInWelcome ==
  \A w \in Workspace : plans[w] = 0 /\ ent[w] # None => WelcomeRow(w, ent[w])

CopiesInWelcome ==
  \A s \in Session : req[s] # None /\ req[s].step = "copied" /\ plans[Ws(s)] = 0 =>
    /\ WelcomeRow(Ws(s), req[s].copy)
    /\ req[s].copy.wEnd # None /\ req[s].copy.wOver => ent[Ws(s)].wOver

\* The credits that a set of debits took.
CreditsOf(L, D) == SumFunction([d \in D |-> L[d].credits])

\* The debits of the Welcome period that count, and those of a day.
WelcomeIn(L, w) ==
  {k \in DebitsIn(L, w) : L[k].action \notin ReadAction /\ L[k].period = <<Born[w], 0>>}
DayIn(L, w, k) == {j \in WelcomeIn(L, w) : Since(L[k].at, L[j].at) /\ L[j].at <= L[k].at}

\* Debits that were given back since a day before n, and since a day before that.
GivenIn(L, R, w, n) == {d \in DebitsIn(L, w) : R[d] # None /\ Since(n, R[d].at)}
FreedIn(L, R, w, n) == {d \in DebitsIn(L, w) : R[d] # None /\ Since(n, R[d].at + Day)}

Capped(L, R, w) ==
  \A k \in WelcomeIn(L, w) :
    CreditsOf(L, DayIn(L, w, k)) <= DailyCap + CreditsOf(L, FreedIn(L, R, w, L[k].at))

CapKept ==
  \A w \in Workspace : (ent[w] # None => ent[w].wEnd # None) => Capped(ledger, refunds, w)

CapInv == RowsInWelcome /\ CopiesInWelcome /\ CapKept

LEMMA RolledWelcome ==
  ASSUME NEW w \in Workspace, NEW e \in Ent, NEW n \in Nat, WelcomeRow(w, e), e.wEnd # None
  PROVE  LET x == Roll(e, n) IN
         /\ WelcomeRow(w, x) /\ (e.wOver => x.wOver)
         /\ ~x.wOver => x = e
         /\ x.wOver /\ ~e.wOver => x.start # e.start
<1> DEFINE x == Roll(e, n)
<1>1. /\ x \in Ent /\ x.wEnd = e.wEnd /\ n < x.end
      /\ x.wEnd # None /\ ~x.wOver => n < x.wEnd
      /\ e.wOver => x.wOver
      /\ \/ x = e
         \/ x.used = 0 /\ e.end <= x.start /\ x.start <= n /\ x.wOver = e.wOver
         \/ /\ x.used = 0 /\ e.wEnd # None /\ e.wEnd <= x.start
            /\ ~e.wOver /\ x.wOver /\ x.wEnd < x.end /\ x.start < x.end
  BY RollFacts
<1> HIDE DEF x
<1>2. /\ Born[w] \in Nat /\ WelcomeDays \in Nat \ {0} /\ e.wEnd \in Nat
      /\ e.start \in Nat /\ e.end \in Nat /\ x.start \in Nat /\ x.end \in Nat
  BY <1>1, LedgerAssumption DEF Ent
<1>3. CASE x = e
  BY <1>3 DEF x
<1>4. CASE x.used = 0 /\ e.end <= x.start /\ x.start <= n /\ x.wOver = e.wOver
  <2>1. x.wOver
    BY <1>1, <1>2, <1>4 DEF WelcomeRow
  <2>2. e.wEnd <= e.end /\ x.wEnd <= x.start /\ x.wEnd <= x.end
    BY <1>1, <1>2, <1>4, <2>1 DEF WelcomeRow
  <2> QED BY <1>1, <1>4, <2>1, <2>2 DEF WelcomeRow, x
<1>5. CASE /\ x.used = 0 /\ e.wEnd <= x.start
           /\ ~e.wOver /\ x.wOver /\ x.wEnd < x.end /\ x.start < x.end
  <2>1. x.wEnd <= x.start /\ x.wEnd <= x.end /\ x.start # e.start
    BY <1>1, <1>2, <1>5 DEF WelcomeRow
  <2> QED BY <1>1, <1>5, <2>1 DEF WelcomeRow, x
<1> QED BY <1>1, <1>3, <1>4, <1>5

\* The object that a request loads.
LEMMA LoadedWelcome ==
  ASSUME TypeInv, RowsInWelcome, CopiesInWelcome, NEW s \in Session, req[s] # None, HasRow(s),
         plans[Ws(s)] = 0
  PROVE  /\ WelcomeRow(Ws(s), Loaded(s))
         /\ ent[Ws(s)] # None /\ Loaded(s).wEnd # None /\ Loaded(s).wOver => ent[Ws(s)].wOver
<1>1. Ws(s) \in Workspace /\ Now(s) \in Nat /\ req[s].again \in BOOLEAN
  BY RequestTyped DEF TypeInv
<1>2. CASE req[s].step = "load" /\ ent[Ws(s)] # None
  BY <1>1, <1>2 DEF Loaded, RowsInWelcome
<1>3. CASE req[s].step = "insert" /\ Insertable(s)
  <2> DEFINE x == NewRow(Ws(s), Now(s), req[s].again)
  <2>1. /\ x.wOver = FALSE
        /\ IF req[s].again THEN x.wEnd = None
                           ELSE /\ x.wEnd = Born[Ws(s)] + WelcomeDays
                                /\ x.start = Born[Ws(s)] /\ x.end = x.wEnd
    BY <1>1, NewRowFacts
  <2>2. Loaded(s) = x
    BY <1>3 DEF Loaded
  <2> HIDE DEF x
  <2> QED BY <2>1, <2>2 DEF WelcomeRow
<1>4. CASE req[s].step = "copied"
  BY <1>4 DEF Loaded, CopiesInWelcome
<1> QED BY <1>2, <1>3, <1>4 DEF HasRow

\* A row written by a request that starts no period, even from an outdated copy.
LEMMA WrittenWelcome ==
  ASSUME TypeInv, RowsInWelcome, CopiesInWelcome, NEW s \in Session, req[s] # None, HasRow(s),
         NEW e \in Ent, e.wEnd = Row(s).wEnd, e.wOver = Row(s).wOver, e.start = Row(s).start,
         e.end = Row(s).end, Commit(s, e), NEW w \in Workspace, w = Ws(s), plans[w] = 0,
         ent'[w].wEnd # None
  PROVE  WelcomeRow(w, ent'[w]) /\ (ent[w] # None /\ ent[w].wOver => ent'[w].wOver)
<1> DEFINE o == Loaded(s)
           x == Row(s)
           row == ent[w]
           new == ent'[w]
<1>1. /\ o \in Ent /\ x \in Ent /\ x.wEnd = o.wEnd
      /\ row # None => row \in Ent /\ o.wEnd = row.wEnd
      /\ Now(s) \in Nat
  BY RowFacts, RequestTyped DEF TypeInv
<1>2. /\ new \in Ent /\ new.wEnd = o.wEnd
      /\ new = IF row = None THEN e ELSE Flushed(row, o, e)
  BY CommitFacts
<1>3. WelcomeRow(w, o) /\ (row # None /\ o.wOver => row.wOver)
  BY <1>2, LoadedWelcome
<1>4. /\ WelcomeRow(w, x) /\ (o.wOver => x.wOver)
      /\ ~x.wOver => x = o
      /\ x.wOver /\ ~o.wOver => x.start # o.start
  BY <1>1, <1>2, <1>3, RolledWelcome DEF Row
<1>5. CASE row = None
  BY <1>2, <1>4, <1>5 DEF WelcomeRow
<1>6. CASE row # None
  <2>1. WelcomeRow(w, row)
    BY <1>6 DEF RowsInWelcome
  <2>2. /\ new.wOver = IF e.wOver # o.wOver THEN e.wOver ELSE row.wOver
        /\ new.start = IF e.start # o.start THEN e.start ELSE row.start
        /\ new.end = IF e.end # o.end THEN e.end ELSE row.end
    BY <1>1, <1>2, <1>6, FlushedField
  <2> DEFINE b == Born[w]
             z == o.wEnd
  <2>3. b \in Nat /\ z \in Nat /\ b < z
    BY <1>1, <1>2, <1>3, LedgerAssumption DEF WelcomeRow
  <2>4. /\ o.start \in Nat /\ o.end \in Nat /\ e.start \in Nat /\ e.end \in Nat
        /\ row.start \in Nat /\ row.end \in Nat
        /\ o.wOver \in BOOLEAN /\ e.wOver \in BOOLEAN /\ row.wOver \in BOOLEAN
    BY <1>1, <1>6 DEF Ent
  <2>5. row.wEnd = z /\ e.wEnd = z /\ new.wEnd = z /\ z = b + WelcomeDays
    BY <1>1, <1>2, <1>3, <1>6 DEF WelcomeRow
  <2>8. /\ x.wOver => z <= x.start /\ z <= x.end
        /\ IF row.wOver THEN z <= row.start /\ z <= row.end
                        ELSE row.start = b /\ row.end = z
        /\ ~o.wOver => o.start = b
        /\ e.wOver = x.wOver /\ e.start = x.start /\ e.end = x.end
    <3>1. x.wEnd = z /\ z # None
      BY <1>1, <2>3, LedgerAssumption
    <3>2. /\ x.wOver => z <= x.start /\ z <= x.end
          /\ ~o.wOver => o.start = b
      BY <1>3, <1>4, <3>1 DEF WelcomeRow
    <3>3. IF row.wOver THEN z <= row.start /\ z <= row.end
                       ELSE row.start = b /\ row.end = z
      BY <2>1, <2>5, <3>1 DEF WelcomeRow
    <3> QED BY <3>2, <3>3
  <2> HIDE DEF o, x, row, new, b, z
  <2>6. CASE ~x.wOver
    <3>1. e.wOver = o.wOver /\ e.start = o.start /\ e.end = o.end
      BY <1>4, <2>6 DEF x
    <3>2. new.wOver = row.wOver /\ new.start = row.start /\ new.end = row.end
      BY <2>2, <3>1
    <3> QED BY <2>1, <2>5, <3>2 DEF WelcomeRow, new, row
  <2>7. CASE x.wOver
    <3>1. e.wOver /\ z <= e.start /\ z <= e.end
      BY <2>7, <2>8
    <3>2. CASE o.wOver
      <4>1. row.wOver
        BY <1>3, <1>6, <3>2
      <4>2. z <= row.start /\ z <= row.end
        BY <2>8, <4>1
      <4>3. new.wOver /\ z <= new.start /\ z <= new.end
        BY <2>2, <3>1, <4>1, <4>2
      <4> QED BY <2>5, <4>3 DEF WelcomeRow, new, b
    <3>3. CASE ~o.wOver
      <4>1. new.wOver /\ new.start = e.start
        BY <1>4, <2>2, <2>4, <2>7, <3>1, <3>3 DEF x
      <4>2. z <= row.end
        BY <2>3, <2>4, <2>8
      <4>3. z <= new.end
        BY <2>2, <3>1, <4>2
      <4> QED BY <2>5, <3>1, <4>1, <4>3 DEF WelcomeRow, new, b
    <3> QED BY <3>2, <3>3
  <2> QED BY <2>6, <2>7
<1> QED BY <1>5, <1>6

\* A step that starts no period writes an object that the roll alone has moved.
LEMMA StepWrites ==
  ASSUME TypeInv, NEW s \in Session, req[s] # None,
         Settled(s) \/ Noted(s) \/ Billed(s) \/ Reversed(s) \/ ToppedUpBy(s)
  PROVE  /\ HasRow(s) /\ plans' = plans
         /\ \E e \in Ent : /\ Settle(s, e) /\ e.wEnd = Row(s).wEnd /\ e.wOver = Row(s).wOver
                           /\ e.start = Row(s).start /\ e.end = Row(s).end
<1>1. CASE Settled(s) \/ Noted(s)
  <2>1. HasRow(s) /\ Settle(s, Row(s)) /\ plans' = plans
    BY <1>1 DEF Settled, Noted
  <2> QED BY <2>1, RowFacts
<1>2. CASE Billed(s)
  BY <1>2, ChargeFacts DEF Billed
<1>3. CASE Reversed(s)
  BY <1>3, ReverseFacts DEF Reversed
<1>4. CASE ToppedUpBy(s)
  BY <1>4, TopupFacts DEF ToppedUpBy
<1> QED BY <1>1, <1>2, <1>3, <1>4

\* No step takes a row out of its Welcome window or back into it, and only one
\* that starts a period counts it.
LEMMA NextRow ==
  ASSUME TypeInv, RowsInWelcome, CopiesInWelcome, [Next]_vars,
         NEW w \in Workspace, plans'[w] = 0, ent'[w] # None
  PROVE  /\ plans[w] = 0 /\ WelcomeRow(w, ent'[w])
         /\ ent[w] # None /\ ent'[w].wEnd # None /\ ent[w].wOver => ent'[w].wOver
<1>1. CASE Idle
  BY <1>1 DEF Idle, RowsInWelcome
<1>2. ASSUME NEW s \in Session, req[s] # None,
             Settled(s) \/ Noted(s) \/ Billed(s) \/ Reversed(s) \/ ToppedUpBy(s)
      PROVE  /\ plans[w] = 0 /\ WelcomeRow(w, ent'[w])
             /\ ent[w] # None /\ ent'[w].wEnd # None /\ ent[w].wOver => ent'[w].wOver
  <2>1. HasRow(s) /\ plans' = plans
    BY <1>2, StepWrites
  <2>2. PICK e \in Ent : /\ Settle(s, e) /\ e.wEnd = Row(s).wEnd /\ e.wOver = Row(s).wOver
                         /\ e.start = Row(s).start /\ e.end = Row(s).end
    BY <1>2, StepWrites
  <2>3. Commit(s, e)
    BY <2>2 DEF Settle
  <2>4. CASE w # Ws(s)
    BY <1>2, <2>1, <2>3, <2>4, OthersKept DEF RowsInWelcome
  <2>5. CASE w = Ws(s) /\ ent'[w].wEnd # None
    BY <1>2, <2>1, <2>2, <2>3, <2>5, WrittenWelcome
  <2>6. CASE ent'[w].wEnd = None
    BY <2>1, <2>6 DEF WelcomeRow
  <2> QED BY <2>4, <2>5, <2>6
<1>3. ASSUME NEW s \in Session, req[s] # None, Restarted(s)
      PROVE  plans[w] = 0 /\ ent'[w] = ent[w]
  <2>1. PICK e \in Ent : StartPeriod(s, e)
    BY <1>3 DEF Restarted
  <2>2. Commit(s, e) /\ plans' = [plans EXCEPT ![Ws(s)] = @ + 1]
    BY <2>1 DEF StartPeriod
  <2>3. plans \in [Workspace -> Nat]
    BY DEF TypeInv, TypeOK
  <2>4. w # Ws(s)
    <3> SUFFICES ASSUME w = Ws(s) PROVE FALSE
      OBVIOUS
    <3>1. plans'[w] = plans[w] + 1 /\ plans[w] \in Nat
      BY <2>2, <2>3
    <3> QED BY <3>1
  <2> QED BY <1>3, <2>2, <2>3, <2>4, OthersKept
<1> QED BY <1>1, <1>2, <1>3, Steps DEF RowsInWelcome

\* Copies are taken of the row as it is, and never changed.
LEMMA CopiesTaken ==
  ASSUME TypeInv, [Next]_vars, NEW t \in Session, req'[t] # None, req'[t].step = "copied"
  PROVE  \/ req'[t] = req[t]
         \/ req'[t].copy = ent[req'[t].r.ws] /\ UNCHANGED <<ent, plans>>
<1>0. req \in [Session -> Job \cup {None}]
  BY DEF TypeInv, TypeOK
<1>1. CASE Tick \/ UNCHANGED vars
  BY <1>1 DEF Tick, vars
<1>2. ASSUME NEW s \in Session, Arrive(s) PROVE req'[t] = req[t]
  <2>1. PICK r \in Traffic :
          req' = [req EXCEPT ![s] = [r |-> r, now |-> clock, again |-> FALSE, copy |-> None,
                                    step |-> IF r.op = "agents" THEN "ensure" ELSE "load"]]
    BY <1>2 DEF Arrive
  <2> QED BY <1>0, <2>1
<1>3. ASSUME NEW s \in Session, Miss(s) \/ Ensure(s)
      PROVE  \/ req'[t] = req[t]
             \/ req'[t].copy = ent[req'[t].r.ws] /\ UNCHANGED <<ent, plans>>
  <2>1. PICK job \in Job : Looked(s, job)
    BY <1>3, LookupFacts
  <2> QED BY <1>0, <2>1 DEF Looked
<1>4. ASSUME NEW s \in Session, Answered(s) PROVE req'[t] = req[t]
  BY <1>0, <1>4 DEF Answered, Free
<1>5. ASSUME NEW s \in Session, Committed(s) PROVE req'[t] = req[t]
  <2>1. req' = [req EXCEPT ![s] = None]
    BY <1>5, CommittedFacts
  <2> QED BY <1>0, <2>1
<1> QED BY <1>1, <1>2, <1>3, <1>4, <1>5, ServeCommits DEF Next

LEMMA NextWelcome ==
  ASSUME TypeInv, RowsInWelcome, CopiesInWelcome, [Next]_vars
  PROVE  RowsInWelcome' /\ CopiesInWelcome'
<1>1. RowsInWelcome'
  BY NextRow DEF RowsInWelcome
<1>2. CopiesInWelcome'
  <2> SUFFICES ASSUME NEW t \in Session, NEW w, w = req'[t].r.ws,
                      req'[t] # None, req'[t].step = "copied", plans'[w] = 0
               PROVE  /\ WelcomeRow(w, req'[t].copy)
                      /\ req'[t].copy.wEnd # None /\ req'[t].copy.wOver => ent'[w].wOver
    BY DEF CopiesInWelcome, Ws
  <2>1. TypeInv'
    BY NextTyped
  <2>2. /\ w \in Workspace /\ ent'[w] # None /\ req'[t].copy.wEnd = ent'[w].wEnd
    <3>1. (Copies /\ TypeOK)'
      BY <2>1 DEF TypeInv
    <3>2. ent'[w] # None /\ req'[t].copy.wEnd = ent'[w].wEnd
      BY <3>1 DEF Copies, Ws
    <3>3. req'[t] \in Job
      BY <3>1 DEF TypeOK
    <3>4. w \in Workspace
      BY <3>3 DEF Job, Request
    <3> QED BY <3>2, <3>4
  <2>3. /\ plans[w] = 0 /\ WelcomeRow(w, ent'[w])
        /\ ent[w] # None /\ ent'[w].wEnd # None /\ ent[w].wOver => ent'[w].wOver
    BY <2>2, NextRow
  <2>4. CASE req'[t] = req[t]
    <3>1. /\ WelcomeRow(w, req[t].copy) /\ ent[w] # None
          /\ req[t].copy.wEnd # None /\ req[t].copy.wOver => ent[w].wOver
      BY <2>3, <2>4 DEF CopiesInWelcome, Ws, TypeInv, Copies
    <3> QED BY <2>2, <2>3, <2>4, <3>1
  <2>5. CASE req'[t].copy = ent[w] /\ UNCHANGED <<ent, plans>>
    BY <2>3, <2>5
  <2> QED BY <2>4, <2>5, CopiesTaken
<1> QED BY <1>1, <1>2

\* The debits that count against a charge at time n.
Recent(L, w, n) == {d \in DebitsIn(L, w) : Since(n, L[d].at)}

Governed(k, x, w) == Debited(k, x, w) /\ x.action \notin ReadAction /\ x.period = <<Born[w], 0>>

\* More debits took more credits.
LEMMA CreditsBelow ==
  ASSUME NEW L \in Ledgers, NEW R, Posted(L, R), NEW w, NEW D \in SUBSET DebitsIn(L, w),
         NEW C \in SUBSET D
  PROVE  /\ IsFiniteSet(D)
         /\ CreditsOf(L, C) \in Nat /\ CreditsOf(L, D) \in Nat
         /\ CreditsOf(L, C) <= CreditsOf(L, D)
<1> DEFINE f == [d \in C |-> L[d].credits]
           g == [d \in D |-> L[d].credits]
<1>1. IsFiniteSet(DebitsIn(L, w))
  <2> DEFINE p == <<0, 0>>
  <2>1. /\ IsFiniteSet(DebitsIn(L, w)) /\ IsFiniteSet(ChargedTo(L, w, p))
        /\ IsFiniteSet(GivenBackTo(L, R, w, p))
        /\ IsFiniteSet(TopupsIn(L, w)) /\ IsFiniteSet(Standing(L, R, w))
    <3> HIDE DEF p
    <3> QED BY PostedFinite
  <2> QED BY <2>1
<1>2. IsFiniteSet(D) /\ IsFiniteSet(C)
  BY <1>1, FS_Subset
<1>3. \A d \in DebitsIn(L, w) : L[d].credits \in Nat
  BY EntryFields DEF DebitsIn, Key
<1>4. /\ DOMAIN f = C /\ DOMAIN g = D
      /\ (\A d \in C : f[d] \in Nat /\ f[d] <= g[d]) /\ \A d \in D : g[d] \in Nat
  BY <1>3
<1>5. CreditsOf(L, C) = SumFunction(f) /\ CreditsOf(L, D) = SumFunction(g)
  BY DEF CreditsOf
<1> HIDE DEF f, g
<1> QED BY <1>2, <1>4, <1>5, TotalNat, TotalBelow

\* What they took is in their own entries.
LEMMA CreditsSame ==
  ASSUME NEW L, NEW L2, NEW D, IsFiniteSet(D), \A d \in D : L2[d] = L[d]
  PROVE  CreditsOf(L2, D) = CreditsOf(L, D)
<1> DEFINE f == [d \in D |-> L[d].credits]
           g == [d \in D |-> L2[d].credits]
<1>1. DOMAIN f = D /\ DOMAIN g = D /\ \A d \in D : f[d] = g[d]
  OBVIOUS
<1>2. CreditsOf(L, D) = SumFunction(f) /\ CreditsOf(L2, D) = SumFunction(g)
  BY DEF CreditsOf
<1> HIDE DEF f, g
<1> QED BY <1>1, <1>2, TotalSame

LEMMA CreditsGrow ==
  ASSUME NEW L, NEW D, IsFiniteSet(D), NEW k, k \notin D,
         \A d \in D \cup {k} : L[d].credits \in Nat
  PROVE  CreditsOf(L, D \cup {k}) = CreditsOf(L, D) + L[k].credits
<1> DEFINE f == [d \in D |-> L[d].credits]
           g == [d \in D \cup {k} |-> L[d].credits]
<1>1. /\ DOMAIN f = D /\ DOMAIN g = D \cup {k} /\ g[k] = L[k].credits
      /\ (\A d \in D : g[d] = f[d]) /\ \A d \in D \cup {k} : g[d] \in Int
  OBVIOUS
<1>2. CreditsOf(L, D) = SumFunction(f) /\ CreditsOf(L, D \cup {k}) = SumFunction(g)
  BY DEF CreditsOf
<1> HIDE DEF f, g
<1> QED BY <1>1, <1>2, TotalGrows

\* A new debit has room if it fits in the day before it, what was given back
\* since then not counted.  It may also fall in the day before debits that were
\* charged first with later timestamps, but all those of such a day are recent
\* for the new one as well, and what made room for it has freed it for them.
LEMMA EnteredDay ==
  ASSUME NEW L \in Ledgers, NEW R \in RefundTables, Posted(L, R),
         NEW k \in Key, NEW x \in Entry, NEW L2, Enters(L, k, x, L2), NEW w,
         Capped(L, R, w),
         Governed(k, x, w) =>
           CreditsOf(L, Recent(L, w, x.at)) + x.credits
             <= DailyCap + CreditsOf(L, GivenIn(L, R, w, x.at))
  PROVE  Capped(L2, R, w)
<1> SUFFICES ASSUME NEW i \in WelcomeIn(L2, w)
             PROVE  CreditsOf(L2, DayIn(L2, w, i))
                      <= DailyCap + CreditsOf(L2, FreedIn(L2, R, w, L2[i].at))
  BY DEF Capped
<1> DEFINE p == x.period
<1>1. /\ L2 \in Ledgers /\ L2[k] = x /\ k \notin DebitsIn(L, w)
      /\ \A j \in Key : j # k => L2[j] = L[j]
      /\ DebitsIn(L2, w) = DebitsIn(L, w) \cup (IF Debited(k, x, w) THEN {k} ELSE {})
  <2> HIDE DEF p
  <2>1. /\ L2 \in Ledgers /\ L2[k] = x /\ k \notin DebitsIn(L, w) /\ k \notin TopupsIn(L, w)
        /\ \A j \in Key : j # k => L2[j] = L[j]
        /\ DebitsIn(L2, w) = DebitsIn(L, w) \cup (IF Debited(k, x, w) THEN {k} ELSE {})
        /\ TopupsIn(L2, w) = TopupsIn(L, w) \cup (IF TopsUp(k, x, w) THEN {k} ELSE {})
        /\ Standing(L2, R, w) = Standing(L, R, w) \cup (IF Debited(k, x, w) THEN {k} ELSE {})
        /\ ChargedTo(L2, w, p) =
             ChargedTo(L, w, p) \cup (IF Debited(k, x, w) /\ x.period = p THEN {k} ELSE {})
        /\ GivenBackTo(L2, R, w, p) = GivenBackTo(L, R, w, p)
    BY NewEntrySets
  <2> QED BY <2>1
<1> HIDE DEF p
<1>2. k \in MeterKey => R[k] = None
  BY DEF Posted, Enters
<1>3. \A j \in DebitsIn(L, w) : /\ j # k /\ L2[j] = L[j] /\ L[j].credits \in Nat
                                /\ L[j].at \in Nat /\ j \in MeterKey /\ j \in DebitsIn(L2, w)
  <2>1. \A j \in DebitsIn(L, w) : j \in Key /\ j \in MeterKey /\ L[j] # None
    BY DEF DebitsIn, Key
  <2>2. \A j \in DebitsIn(L, w) : L[j].credits \in Nat /\ L[j].at \in Nat
    BY <2>1, EntryFields
  <2> QED BY <1>1, <2>1, <2>2
<1>4. x.credits \in Nat /\ x.at \in Nat
  BY DEF Entry
<1>5. WelcomeIn(L2, w) = WelcomeIn(L, w) \cup (IF Governed(k, x, w) THEN {k} ELSE {})
  BY <1>1, <1>3 DEF WelcomeIn, Governed
<1>6. \A j \in WelcomeIn(L2, w) : /\ j \in DebitsIn(L2, w) /\ (j # k => j \in DebitsIn(L, w))
                                  /\ L2[j].at \in Nat /\ L2[j].credits \in Nat
  BY <1>1, <1>3, <1>4 DEF WelcomeIn
<1> DEFINE D == DayIn(L2, w, i)
           n == L2[i].at
           F == FreedIn(L, R, w, n)
<1>7. D \in SUBSET WelcomeIn(L2, w) /\ D \in SUBSET DebitsIn(L2, w) /\ n \in Nat
  BY <1>6 DEF DayIn
<1>8. /\ FreedIn(L2, R, w, n) = F /\ F \in SUBSET DebitsIn(L, w)
      /\ CreditsOf(L2, F) = CreditsOf(L, F) /\ CreditsOf(L, F) \in Nat
  <2>1. F \in SUBSET DebitsIn(L, w)
    BY DEF FreedIn
  <2>2. FreedIn(L2, R, w, n) = F
    BY <1>1, <1>2, <1>3 DEF FreedIn, Debited
  <2> HIDE DEF F
  <2>3. IsFiniteSet(F) /\ CreditsOf(L, F) \in Nat
    BY <2>1, CreditsBelow
  <2>4. CreditsOf(L2, F) = CreditsOf(L, F)
    BY <1>3, <2>1, <2>3, CreditsSame
  <2> QED BY <2>1, <2>2, <2>3, <2>4
<1> HIDE DEF n
<1>9. CASE k \notin D
  <2>1. i # k
    BY <1>1, <1>4, <1>9, LedgerAssumption DEF DayIn, Since
  <2>2. i \in WelcomeIn(L, w) /\ L2[i] = L[i] /\ n = L[i].at
    BY <1>3, <1>5, <1>6, <2>1 DEF n
  <2>3. D = DayIn(L, w, i) /\ D \in SUBSET DebitsIn(L, w)
    <3>1. \A j \in WelcomeIn(L, w) : j \in DebitsIn(L, w) /\ L2[j] = L[j]
      BY <1>3 DEF WelcomeIn
    <3>2. \A j \in D : j \in WelcomeIn(L, w)
      BY <1>5, <1>7, <1>9
    <3> QED BY <1>5, <2>2, <3>1, <3>2 DEF DayIn
  <2>4. CreditsOf(L, D) <= DailyCap + CreditsOf(L, F)
    BY <2>2, <2>3 DEF Capped
  <2> HIDE DEF D, F
  <2>5. CreditsOf(L2, D) = CreditsOf(L, D)
    BY <1>3, <2>3, CreditsBelow, CreditsSame
  <2> QED BY <1>8, <2>4, <2>5 DEF D, n
<1>10. CASE k \in D
  <2> DEFINE C == D \ {k}
             N == Recent(L, w, x.at)
             G == GivenIn(L, R, w, x.at)
  <2>1. Governed(k, x, w)
    BY <1>3, <1>5, <1>7, <1>10 DEF WelcomeIn
  <2>2. CreditsOf(L, N) + x.credits <= DailyCap + CreditsOf(L, G)
    BY <2>1
  <2>3. x.at <= n /\ n <= x.at + Day /\ Day \in Nat /\ DailyCap \in Nat
    BY <1>1, <1>10, LedgerAssumption DEF DayIn, Since, n
  <2>4. C \in SUBSET N /\ N \in SUBSET DebitsIn(L, w)
    <3>1. ASSUME NEW j \in C PROVE j \in N
      <4>1. j \in WelcomeIn(L2, w) /\ j # k /\ Since(n, L2[j].at)
        BY <3>1 DEF DayIn, n
      <4>2. j \in DebitsIn(L, w) /\ L2[j] = L[j] /\ L[j].at \in Nat
        BY <1>3, <1>6, <4>1
      <4>3. Since(x.at, L[j].at)
        BY <1>4, <1>7, <2>3, <4>1, <4>2 DEF Since
      <4> QED BY <4>2, <4>3 DEF Recent
    <3>2. N \in SUBSET DebitsIn(L, w)
      BY DEF Recent
    <3> QED BY <3>1, <3>2
  <2>5. G \in SUBSET F
    <3> SUFFICES ASSUME NEW d \in DebitsIn(L, w), R[d] # None, Since(x.at, R[d].at)
                 PROVE  Since(n, R[d].at + Day)
      BY DEF GivenIn, FreedIn
    <3>1. R[d].at \in Nat
      BY <1>3 DEF RefundTables, Refund
    <3> QED BY <1>4, <1>7, <2>3, <3>1 DEF Since
  <2>6. k \notin C /\ D = C \cup {k} /\ \A d \in C \cup {k} : L2[d].credits \in Nat
    BY <1>6, <1>7, <1>10
  <2> HIDE DEF C, N, G, D, F
  <2>7. /\ CreditsOf(L, C) <= CreditsOf(L, N) /\ IsFiniteSet(C)
        /\ CreditsOf(L, C) \in Nat /\ CreditsOf(L, N) \in Nat
    <3>1. C \in SUBSET DebitsIn(L, w) /\ C \in SUBSET C
      BY <2>4
    <3> QED BY <2>4, <3>1, CreditsBelow
  <2>8. CreditsOf(L, G) <= CreditsOf(L, F) /\ CreditsOf(L, G) \in Nat
    BY <1>8, <2>5, CreditsBelow
  <2>9. CreditsOf(L2, C) = CreditsOf(L, C)
    BY <1>3, <2>4, <2>7, CreditsSame
  <2>10. CreditsOf(L2, D) = CreditsOf(L2, C) + x.credits
    BY <1>1, <2>6, <2>7, CreditsGrow
  <2>11. CreditsOf(L2, D) <= DailyCap + CreditsOf(L, F)
    BY <1>4, <1>8, <2>2, <2>3, <2>7, <2>8, <2>9, <2>10
  <2> QED BY <1>8, <2>11 DEF D, F, n
<1> QED BY <1>9, <1>10

\* A charge of the Welcome period was checked against the cap: only a row that
\* is still in Welcome starts when the workspace was created.
LEMMA ChargeHasRoom ==
  ASSUME TypeInv, RowsInWelcome, CopiesInWelcome, NEW s \in Session, req[s] # None,
         Posted(ledger, refunds), MeterCharge(s), NEW w, w = Ws(s), Row(s).wEnd # None,
         req[s].r.arg \notin ReadAction, PeriodOf(w, Row(s)) = <<Born[w], 0>>
  PROVE  CreditsOf(ledger, Recent(ledger, w, Now(s))) + Charge(s)
           <= DailyCap + CreditsOf(ledger, GivenIn(ledger, refunds, w, Now(s)))
<1> DEFINE n == Now(s)
           x == Row(s)
<1>1. /\ HasRow(s) /\ w \in Workspace /\ n \in Nat /\ x \in Ent /\ Loaded(s) \in Ent
      /\ x.wEnd = Loaded(s).wEnd /\ x.wEnd \in Nat /\ ~OverCap(s)
  <2>1. HasRow(s) /\ ~OverCap(s)
    BY DEF MeterCharge, MeterReady
  <2>2. x \in Ent /\ Loaded(s) \in Ent /\ x.wEnd = Loaded(s).wEnd
    BY <2>1, RowFacts
  <2>3. x.wEnd \in Nat
    BY <2>2 DEF Ent
  <2> QED BY <2>1, <2>2, <2>3, RequestTyped DEF TypeInv
<1>2. plans[w] = 0 /\ x.start = Born[w]
  BY DEF PeriodOf
<1>3. WelcomeRow(w, Loaded(s))
  BY <1>1, <1>2, LoadedWelcome
<1>4. WelcomeRow(w, x)
  BY <1>1, <1>3, RolledWelcome DEF Row
<1>5. Born[w] \in Nat /\ WelcomeDays \in Nat \ {0}
  BY <1>1, LedgerAssumption
<1>6. ~x.wOver
  BY <1>1, <1>2, <1>4, <1>5 DEF WelcomeRow
<1>7. n < x.wEnd
  BY <1>1, <1>6, RollFacts DEF Row
<1> HIDE DEF n
<1> DEFINE N == Recent(ledger, w, n)
           G == GivenIn(ledger, refunds, w, n)
<1>8. /\ UsedLastDay(w, n) = CreditsOf(ledger, N) - CreditsOf(ledger, G)
      /\ CreditsOf(ledger, N) \in Nat /\ CreditsOf(ledger, G) \in Nat
  <2>1. Debits(w) = DebitsIn(ledger, w)
    BY DEF Debits, DebitsIn
  <2>2. {d \in Debits(w) : Since(n, ledger[d].at)} = N
    BY <2>1 DEF Recent
  <2>3. {d \in Refunded(w) : Since(n, refunds[d].at)} = G
    BY <2>1 DEF Refunded, GivenIn
  <2>4. N \in SUBSET DebitsIn(ledger, w) /\ G \in SUBSET DebitsIn(ledger, w)
    BY DEF Recent, GivenIn
  <2> HIDE DEF N, G
  <2>5. UsedLastDay(w, n) = CreditsOf(ledger, N) - CreditsOf(ledger, G)
    BY <2>2, <2>3 DEF UsedLastDay, CreditsOf
  <2>6. CreditsOf(ledger, N) \in Nat /\ CreditsOf(ledger, G) \in Nat
    <3>1. N \in SUBSET N /\ G \in SUBSET G
      OBVIOUS
    <3> QED BY <2>4, <3>1, LedgersTyped, CreditsBelow
  <2> QED BY <2>5, <2>6
<1> HIDE DEF N, G
<1>9. UsedLastDay(w, n) + Charge(s) <= DailyCap
  <2>1. InWelcome(x, n)
    BY <1>6, <1>7 DEF InWelcome
  <2>2. ~(UsedLastDay(w, n) + Cost[req[s].r.arg] > DailyCap)
    BY <1>1, <2>1 DEF OverCap, n
  <2>3. UsedLastDay(w, n) \in Int /\ Charge(s) \in Nat /\ DailyCap \in Nat
    BY <1>8, ChargeFacts, LedgerAssumption
  <2> QED BY <2>2, <2>3 DEF Charge
<1>10. CreditsOf(ledger, N) + Charge(s) <= DailyCap + CreditsOf(ledger, G)
  <2>1. Charge(s) \in Nat /\ DailyCap \in Nat
    BY ChargeFacts, LedgerAssumption
  <2> QED BY <1>8, <1>9, <2>1
<1> QED BY <1>10 DEF n, N, G

\* A new entry keeps the cap: only a charge counts, and it was checked.
LEMMA CapOfLedger ==
  ASSUME TypeInv, Posted(ledger, refunds), RowsInWelcome, CopiesInWelcome, CapKept,
         NEW s \in Session, req[s] # None, HasRow(s), NEW e \in Ent, Settle(s, e),
         e.wEnd = Row(s).wEnd, NEW d, Enter(s, d), refunds' = refunds,
         d.type = "debit" => Billed(s) /\ d = MeterEntry(s, "debit", Charge(s), Covered(s))
  PROVE  CapKept'
<1> DEFINE k == req[s].r.key
<1>1. /\ ledger \in Ledgers /\ refunds \in RefundTables /\ k \in Key /\ d \in Entry
      /\ d.ws = Ws(s) /\ Enters(ledger, k, d, ledger')
  BY LedgersTyped DEF Enter
<1>2. Commit(s, e)
  BY DEF Settle
<1> SUFFICES ASSUME NEW w \in Workspace, ent'[w] # None => ent'[w].wEnd # None
             PROVE  Capped(ledger', refunds', w)
  BY DEF CapKept
<1>3. w = Ws(s) => ent'[w] \in Ent /\ ent'[w] # None /\ ent'[w].wEnd = Loaded(s).wEnd
  BY <1>2, CommitFacts, LedgerAssumption
<1>4. Capped(ledger, refunds, w)
  <2>1. ent[w] # None => ent[w].wEnd # None
    <3>1. CASE w # Ws(s)
      BY <1>2, <3>1, OthersKept
    <3>2. CASE w = Ws(s)
      BY <1>3, <3>2, RowFacts
    <3> QED BY <3>1, <3>2
  <2> QED BY <2>1 DEF CapKept
<1>5. ASSUME Governed(k, d, w)
      PROVE  CreditsOf(ledger, Recent(ledger, w, d.at)) + d.credits
               <= DailyCap + CreditsOf(ledger, GivenIn(ledger, refunds, w, d.at))
  <2>1. w = Ws(s) /\ MeterCharge(s) /\ d = MeterEntry(s, "debit", Charge(s), Covered(s))
    BY <1>1, <1>5 DEF Governed, Debited, Billed
  <2>2. /\ d.at = Now(s) /\ d.credits = Charge(s) /\ d.action = req[s].r.arg
        /\ d.period = PeriodOf(w, Row(s))
    BY <2>1 DEF MeterEntry
  <2>3. Row(s).wEnd # None
    BY <1>3, <2>1, RowFacts
  <2>4. req[s].r.arg \notin ReadAction /\ PeriodOf(w, Row(s)) = <<Born[w], 0>>
    BY <1>5, <2>2 DEF Governed
  <2>5. CreditsOf(ledger, Recent(ledger, w, Now(s))) + Charge(s)
          <= DailyCap + CreditsOf(ledger, GivenIn(ledger, refunds, w, Now(s)))
    BY <2>1, <2>3, <2>4, ChargeHasRoom
  <2> QED BY <2>2, <2>5
<1> HIDE DEF k
<1>6. Capped(ledger', refunds, w)
  BY <1>1, <1>4, <1>5, EnteredDay
<1> QED BY <1>6

\* What leaves the ledger alone keeps every day, and a refund only frees room.
LEMMA CapOfRefunds ==
  ASSUME TypeInv, Posted(ledger, refunds), CapKept, ledger' = ledger,
         \A k \in MeterKey : refunds[k] # None => refunds'[k] = refunds[k],
         \A w \in Workspace : ent[w] # None => ent'[w] # None /\ ent'[w].wEnd = ent[w].wEnd
  PROVE  CapKept'
<1> SUFFICES ASSUME NEW w \in Workspace, ent'[w] # None => ent'[w].wEnd # None
             PROVE  Capped(ledger, refunds', w)
  BY DEF CapKept
<1>1. Capped(ledger, refunds, w)
  BY DEF CapKept
<1> SUFFICES ASSUME NEW k \in WelcomeIn(ledger, w)
             PROVE  CreditsOf(ledger, DayIn(ledger, w, k))
                      <= DailyCap + CreditsOf(ledger, FreedIn(ledger, refunds', w, ledger[k].at))
  BY DEF Capped
<1> DEFINE D == DayIn(ledger, w, k)
           F == FreedIn(ledger, refunds, w, ledger[k].at)
           F2 == FreedIn(ledger, refunds', w, ledger[k].at)
<1>2. \A d \in DebitsIn(ledger, w) : d \in MeterKey
  BY DEF DebitsIn
<1>3. /\ F2 \in SUBSET DebitsIn(ledger, w) /\ F \in SUBSET F2
      /\ D \in SUBSET DebitsIn(ledger, w) /\ D \in SUBSET D
  BY <1>2 DEF FreedIn, DayIn, WelcomeIn
<1>4. CreditsOf(ledger, D) <= DailyCap + CreditsOf(ledger, F)
  BY <1>1 DEF Capped
<1> HIDE DEF D, F, F2
<1>5. /\ CreditsOf(ledger, F) <= CreditsOf(ledger, F2) /\ CreditsOf(ledger, D) \in Nat
      /\ CreditsOf(ledger, F) \in Nat /\ CreditsOf(ledger, F2) \in Nat
  BY <1>3, LedgersTyped, CreditsBelow
<1>6. CreditsOf(ledger, D) <= DailyCap + CreditsOf(ledger, F2)
  BY <1>4, <1>5, LedgerAssumption
<1> QED BY <1>6 DEF D, F2

\* No step removes a row or moves its Welcome window.
LEMMA RowsStay ==
  ASSUME TypeInv, [Next]_vars, NEW w \in Workspace, ent[w] # None
  PROVE  ent'[w] # None /\ ent'[w].wEnd = ent[w].wEnd
<1>1. ASSUME NEW s \in Session, Committed(s)
      PROVE  ent'[w] # None /\ ent'[w].wEnd = ent[w].wEnd
  BY <1>1, CommittedFacts
<1>2. CASE ent' = ent
  BY <1>2
<1> QED BY <1>1, <1>2, ServeCommits
      DEF Next, Tick, Arrive, Miss, Ensure, Answered, vars

LEMMA NextCap ==
  ASSUME TypeInv, Posted(ledger, refunds), RowsInWelcome, CopiesInWelcome, CapKept, [Next]_vars
  PROVE  CapKept'
<1>1. ASSUME ledger' = ledger, \A k \in MeterKey : refunds[k] # None => refunds'[k] = refunds[k]
      PROVE  CapKept'
  BY <1>1, RowsStay, CapOfRefunds
<1>2. CASE Idle
  BY <1>1, <1>2 DEF Idle
<1>3. ASSUME NEW s \in Session, req[s] # None, Settled(s) \/ Restarted(s) PROVE CapKept'
  BY <1>1, <1>3 DEF Settled, Restarted
<1>4. ASSUME NEW s \in Session, req[s] # None, Reversed(s) PROVE CapKept'
  <2>1. /\ GivesBack(ledger, refunds, req[s].r.key, RefundRow(s), refunds') /\ ledger' = ledger
        /\ RefundRow(s) \in Refund
    BY <1>4, ReverseFacts DEF Reversed
  <2>2. \A k \in MeterKey : refunds[k] # None => refunds'[k] = refunds[k]
    BY <2>1, LedgersTyped, LedgerAssumption DEF GivesBack, RefundTables
  <2> QED BY <1>1, <2>1, <2>2
<1>5. ASSUME NEW s \in Session, req[s] # None, Noted(s) PROVE CapKept'
  <2> DEFINE d == MeterEntry(s, "read_unbilled", 0, 0)
  <2>1. HasRow(s) /\ Settle(s, Row(s)) /\ refunds' = refunds /\ Enter(s, d)
    BY <1>5 DEF Noted
  <2>2. d.type = "read_unbilled"
    BY DEF MeterEntry
  <2> HIDE DEF d
  <2> QED BY <1>5, <2>1, <2>2, RowFacts, CapOfLedger
<1>6. ASSUME NEW s \in Session, req[s] # None, ToppedUpBy(s) PROVE CapKept'
  <2> DEFINE d == TopupEntry(s)
  <2>1. Topup(s) /\ Settle(s, ToppedUp(s)) /\ refunds' = refunds /\ Enter(s, d)
    BY <1>6 DEF ToppedUpBy
  <2>2. d.type = "topup"
    BY DEF TopupEntry
  <2> HIDE DEF d
  <2> QED BY <1>6, <2>1, <2>2, TopupFacts, CapOfLedger
<1>7. ASSUME NEW s \in Session, req[s] # None, Billed(s) PROVE CapKept'
  <2> DEFINE d == MeterEntry(s, "debit", Charge(s), Covered(s))
  <2>1. MeterCharge(s) /\ Settle(s, Charged(s)) /\ refunds' = refunds /\ Enter(s, d)
    BY <1>7 DEF Billed
  <2>2. HasRow(s) /\ Charged(s) \in Ent /\ Charged(s).wEnd = Row(s).wEnd
    BY <2>1, ChargeFacts
  <2>3. d.type = "debit" => Billed(s) /\ d = MeterEntry(s, "debit", Charge(s), Covered(s))
    BY <1>7
  <2> HIDE DEF d
  <2> QED BY <1>7, <2>1, <2>2, <2>3, CapOfLedger
<1> QED BY <1>2, <1>3, <1>4, <1>5, <1>6, <1>7, Steps

\* The inductive invariant behind the cap.
THEOREM WelcomeHolds == Spec => []CapInv
<1>1. Init => CapInv
  <2> SUFFICES ASSUME Init PROVE CapInv
    OBVIOUS
  <2>1. RowsInWelcome /\ CopiesInWelcome
    BY DEF Init, RowsInWelcome, CopiesInWelcome
  <2>2. \A w \in Workspace : WelcomeIn(ledger, w) = {}
    BY DEF Init, WelcomeIn, DebitsIn, Key
  <2> QED BY <2>1, <2>2 DEF CapInv, CapKept, Capped
<1>2. TypeInv /\ Posted(ledger, refunds) /\ CapInv /\ [Next]_vars => CapInv'
  BY NextWelcome, NextCap DEF CapInv
<1> QED BY <1>1, <1>2, AlwaysPosted, PTL DEF Spec

\* No day that ends with a debit of the Welcome period other than a read holds
\* more such debits than the cap and what the refunds of that day and the day
\* before, or later ones, gave back, in whatever order the requests take
\* their timestamps, their copies and their locks.
THEOREM WelcomeDayCapped == Spec => []WelcomeDailyCap
<1>1. CapInv => WelcomeDailyCap
  <2> SUFFICES ASSUME CapInv, NEW w \in Workspace, ent[w] # None, ent[w].wEnd # None,
                      NEW k \in WelcomeDebits(w)
               PROVE  SumFunction([j \in DayBefore(w, k) |-> ledger[j].credits])
                        <= DailyCap + SumFunction([d \in RoomFreed(w, k) |-> ledger[d].credits])
    BY DEF WelcomeDailyCap
  <2>1. Debits(w) = DebitsIn(ledger, w)
    BY DEF Debits, DebitsIn
  <2>2. WelcomeDebits(w) = WelcomeIn(ledger, w)
    BY <2>1 DEF WelcomeDebits, WelcomeIn
  <2>3. DayBefore(w, k) = DayIn(ledger, w, k)
    BY <2>2 DEF DayBefore, DayIn
  <2>4. RoomFreed(w, k) = FreedIn(ledger, refunds, w, ledger[k].at)
    BY <2>1 DEF RoomFreed, Refunded, FreedIn
  <2>5. CreditsOf(ledger, DayIn(ledger, w, k))
          <= DailyCap + CreditsOf(ledger, FreedIn(ledger, refunds, w, ledger[k].at))
    BY <2>2 DEF CapInv, CapKept, Capped
  <2> QED BY <2>3, <2>4, <2>5 DEF CreditsOf
<1> QED BY <1>1, WelcomeHolds, PTL
=============================================================================
