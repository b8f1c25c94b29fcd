--------------------------- MODULE CellHost_proofs ---------------------------
(***************************************************************************)
(* Proofs about CellHost for any set of authorities, threads and intents,  *)
(* any clock and any number of crashes and foreign writes.                 *)
(***************************************************************************)
EXTENDS CellHost, TLAPS

\* What an authority's signed fields are, in the form the proofs use.
LEMMA EnvelopeFields ==
  ASSUME NEW a \in Authority
  PROVE  /\ Envelope[a].issued \in Nat /\ Envelope[a].expires \in Nat
         /\ Envelope[a].intent \in Intent /\ Envelope[a].brokered \in BOOLEAN
  BY EnvelopeAssumption

LEMMA NewRow ==
  ASSUME NEW a \in Authority, NEW stage \in Stage
  PROVE  [auth |-> a, stage |-> stage, dated |-> TRUE] \in Row
  BY DEF Row

-----------------------------------------------------------------------------
(***************************************************************************)
(* Type correctness, one lemma per group of actions.                       *)
(***************************************************************************)

LEMMA InitTypeOK == Init => TypeOK
  BY EnvelopeAssumption DEF Init, StoreInit, TypeOK, StoreTypeOK, PC, RunSteps,
     BeforeMint, Holding, IntentKnown, Verdict, Row, SuccessRow

LEMMA RunTypeOK ==
  ASSUME TypeOK, NEW t \in Thread, Prune(t) \/ RunStep(t)
  PROVE  TypeOK'
  <1> USE DEF TypeOK, StoreTypeOK, PC, RunSteps, BeforeMint, Holding, IntentKnown, Job
  <1>1. CASE Prune(t)
    BY <1>1 DEF Prune, PruneThen, PruneExpired, At, Goto, cellVars, providerVars
  <1>2. CASE RunConsume(t)
    <2>1. job[t].auth \in Authority
      BY <1>2 DEF RunConsume, Consume, At
    <2>2. "cell_run" \in Stage
      BY DEF Stage
    <2>3. consumed' \subseteq Row
      BY <1>2, <2>1, <2>2, NewRow DEF RunConsume, Consume, ConsumeRow, storeVars
    <2>4. QED
      BY <1>2, <2>3 DEF RunConsume, Consume, ConsumeRow, At, Goto, Return,
         storeVars, cellVars, providerVars
  <1>3. CASE VerifyAgain(t) \/ SpawnCell(t)
    BY <1>3 DEF VerifyAgain, SpawnCell, At, Goto, Return, storeVars, cellVars, providerVars
  <1>4. CASE CollectOutput(t)
    BY <1>4 DEF CollectOutput, At, Goto, storeVars, cellVars, providerVars
  <1>5. CASE Teardown(t)
    BY <1>5 DEF Teardown, At, Goto, Return, storeVars, providerVars
  <1>6. CASE CheckOutput(t)
    BY <1>6, EnvelopeAssumption
       DEF CheckOutput, EffectAuthorized, At, Goto, Return, storeVars, cellVars, providerVars
  <1>7. CASE RecordSuccess(t)
    BY <1>7 DEF RecordSuccess, RecordRow, SuccessRow, At, Return, storeVars, cellVars, providerVars
  <1>8. QED
    BY <1>1, <1>2, <1>3, <1>4, <1>5, <1>6, <1>7 DEF RunStep

LEMMA EffectTypeOK ==
  ASSUME TypeOK, NEW t \in Thread, EffectStep(t)
  PROVE  TypeOK'
  <1> USE DEF TypeOK, StoreTypeOK, PC, RunSteps, BeforeMint, Holding, IntentKnown, Job,
              Verdict, Accepted, Unconfirmed
  <1>1. CASE RequireSuccess(t)
    BY <1>1 DEF RequireSuccess, At, Goto, Return, storeVars, cellVars, providerVars
  <1>2. CASE EffectConsume(t)
    <2>1. job[t].auth \in Authority
      BY <1>2 DEF EffectConsume, Consume, At
    <2>2. "effect" \in Stage
      BY DEF Stage
    <2>3. consumed' \subseteq Row
      BY <1>2, <2>1, <2>2, NewRow DEF EffectConsume, Consume, ConsumeRow, storeVars
    <2>4. QED
      BY <1>2, <2>3 DEF EffectConsume, Consume, ConsumeRow, At, Goto, Return,
         storeVars, cellVars, providerVars
  <1>3. CASE Validate(t)
    BY <1>3 DEF Validate, At, Goto, Return, storeVars, cellVars, providerVars
  <1>4. CASE MintToken(t)
    BY <1>4 DEF MintToken, At, Goto, Return, storeVars, cellVars
  <1>5. CASE Lookup(t)
    BY <1>5 DEF Lookup, At, Goto, storeVars, cellVars, providerVars
  <1>6. CASE Revalidate(t)
    BY <1>6 DEF Revalidate, At, Goto, storeVars, cellVars, providerVars
  <1>7. CASE PutContent(t)
    <2>1. job[t].auth \in Authority /\ After[job[t].intent] \in Blob
      BY <1>7, HostAssumption DEF PutContent, At
    <2>2. target' \in Blob /\ written' \in [Authority -> Nat]
      BY <1>7, <2>1 DEF PutContent
    <2>3. /\ job' = job \/ job' = [job EXCEPT ![t].accepted = TRUE]
          /\ pc' = [pc EXCEPT ![t] = "evidence"] \/ pc' = [pc EXCEPT ![t] = "revoke"]
      BY <1>7 DEF PutContent, Goto
    <2>4. /\ UNCHANGED <<clock, storeVars, cellVars, tokens, minted, abandoned,
                         foreign, outcome, crashes>>
          /\ pc[t] = "put"
      BY <1>7 DEF PutContent, At
    <2>5. /\ job' \in [Thread -> Job \cup {None}]
          /\ job'[t] \in Job /\ job'[t].intent \in Intent
          /\ \A u \in Thread \ {t} : job'[u] = job[u]
      <3>1. job[t] \in Job /\ job[t].intent \in Intent
        BY <2>4
      <3>2. CASE job' = job
        BY <3>1, <3>2
      <3>3. CASE job' = [job EXCEPT ![t].accepted = TRUE]
        <4>1. [job[t] EXCEPT !.accepted = TRUE] \in Job
          BY <3>1
        <4>2. [job[t] EXCEPT !.accepted = TRUE].intent = job[t].intent
          BY <3>1
        <4>3. job' = [job EXCEPT ![t] = [job[t] EXCEPT !.accepted = TRUE]]
          BY <3>3
        <4>4. QED
          BY <3>1, <4>1, <4>2, <4>3
      <3>4. QED
        BY <2>3, <3>2, <3>3
    <2>6. pc' \in [Thread -> PC] /\ \A u \in Thread \ {t} : pc'[u] = pc[u]
      BY <2>3
    <2>7. QED
      BY <2>2, <2>4, <2>5, <2>6 DEF storeVars, cellVars
  <1>8. CASE CollectEvidence(t)
    BY <1>8, HostAssumption DEF CollectEvidence, At, Goto, storeVars, cellVars,
       providerVars
  <1>9. CASE RevokeToken(t)
    BY <1>9 DEF RevokeToken, Finish, Report, At, Return, storeVars, cellVars
  <1>10. QED
    BY <1>1, <1>2, <1>3, <1>4, <1>5, <1>6, <1>7, <1>8, <1>9 DEF EffectStep

LEMMA EnvironmentTypeOK ==
  ASSUME TypeOK, Crash \/ ForeignWrite \/ TickClock \/ \E t \in Thread : Arrive(t) \/ Raise(t)
  PROVE  TypeOK'
  <1> USE DEF TypeOK, StoreTypeOK, PC, RunSteps, BeforeMint, Holding, IntentKnown, Job
  <1>1. CASE Crash
    BY <1>1 DEF Crash, storeVars, cellVars
  <1>2. CASE ForeignWrite
    BY <1>2 DEF ForeignWrite, storeVars, cellVars
  <1>3. CASE TickClock
    BY <1>3 DEF TickClock, Tick, storeVars, cellVars, providerVars
  <1>4. ASSUME NEW t \in Thread, Arrive(t)
        PROVE  TypeOK'
    <2>1. ASSUME NEW a \in Authority, NEW i \in Intent \cup {None}
          PROVE  Request(a, i) \in Job
      BY DEF Request
    <2>2. ASSUME NEW a \in Authority, RunRequest(t, a)
          PROVE  TypeOK'
      BY <2>1, <2>2 DEF RunRequest, Goto, storeVars, cellVars, providerVars
    <2>3. ASSUME NEW a \in Authority, NEW i \in Intent, EffectRequest(t, a, i)
          PROVE  TypeOK'
      <3>1. Request(a, i) \in Job /\ Request(a, i).intent = i
        BY <2>1 DEF Request
      <3>2. QED
        BY <2>3, <3>1 DEF EffectRequest, Goto, storeVars, cellVars, providerVars
    <2>4. QED
      BY <1>4, <2>2, <2>3 DEF Arrive
  <1>5. ASSUME NEW t \in Thread, Raise(t)
        PROVE  TypeOK'
    BY <1>5 DEF Raise, Return, storeVars, cellVars, providerVars
  <1>6. QED
    BY <1>1, <1>2, <1>3, <1>4, <1>5

\* Every value the host, the store and the provider hold has its type.
THEOREM Typing == Spec => []TypeOK
  <1>1. TypeOK /\ [Next]_vars => TypeOK'
    <2> SUFFICES ASSUME TypeOK, [Next]_vars PROVE TypeOK'
      OBVIOUS
    <2>1. ASSUME NEW t \in Thread, Step(t) PROVE TypeOK'
      BY <2>1, RunTypeOK, EffectTypeOK DEF Step
    <2>2. CASE Crash \/ ForeignWrite \/ TickClock \/ \E t \in Thread : Arrive(t) \/ Raise(t)
      BY <2>2, EnvironmentTypeOK
    <2>3. CASE UNCHANGED vars
      BY <2>3 DEF vars, storeVars, cellVars, providerVars, TypeOK, StoreTypeOK
    <2>4. QED
      BY <2>1, <2>2, <2>3 DEF Next
  <1>2. QED
    BY InitTypeOK, <1>1, PTL DEF Spec

-----------------------------------------------------------------------------
(***************************************************************************)
(* The fence of the cell_run stage.                                        *)
(***************************************************************************)

\* Time only passes, so an expired authority stays expired.
LEMMA ExpiryIsFinal ==
  ASSUME TypeOK, [Next]_vars, NEW a \in Authority, Expired(a)
  PROVE  Expired(a)'
  <1>1. clock \in Nat /\ Envelope[a].expires \in Nat
    BY EnvelopeFields DEF TypeOK, StoreTypeOK
  <1>2. clock' = clock \/ clock' = clock + 1
    <2>1. ASSUME NEW t \in Thread, Prune(t) \/ RunStep(t) PROVE clock' = clock
      BY <2>1 DEF Prune, PruneThen, RunStep, RunConsume, Consume, VerifyAgain, SpawnCell,
         CollectOutput, Teardown, CheckOutput, RecordSuccess
    <2>2. ASSUME NEW t \in Thread, EffectStep(t) PROVE clock' = clock
      BY <2>2 DEF EffectStep, RequireSuccess, EffectConsume, Consume, Validate, MintToken,
         Lookup, Revalidate, PutContent, CollectEvidence, RevokeToken
    <2>3. ASSUME NEW t \in Thread, Arrive(t) \/ Raise(t) PROVE clock' = clock
      BY <2>3 DEF Arrive, RunRequest, EffectRequest, Raise
    <2>4. CASE Crash \/ ForeignWrite \/ TickClock \/ UNCHANGED vars
      BY <2>4 DEF Crash, ForeignWrite, TickClock, Tick, vars
    <2>5. QED
      BY <2>1, <2>2, <2>3, <2>4 DEF Next, Step
  <1>3. QED
    BY <1>1, <1>2 DEF Expired

\* Pruning deletes the row of an authority only once it has expired.
LEMMA PruneKeepsRow ==
  ASSUME PruneExpired, NEW a \in Authority, NEW stage \in Stage,
         OwnRow(a, stage), ~Expired(a)
  PROVE  OwnRow(a, stage)'
  BY DEF PruneExpired, OwnRow

\* A revocation attempt ends the request or leaves it where it is.
LEMMA RevokeStep ==
  ASSUME TypeOK, NEW t \in Thread, RevokeToken(t)
  PROVE  /\ pc[t] = "revoke"
         /\ \/ pc'[t] = "idle"
            \/ pc'[t] = "revoke" /\ job'[t].auth = job[t].auth
  <1>1. pc[t] = "revoke" /\ job[t] \in Job
    BY DEF RevokeToken, At, TypeOK
  <1>2. \/ Return(t)
        \/ pc' = pc /\ job' = [job EXCEPT ![t].attempts = @ + 1]
    BY DEF RevokeToken, Finish
  <1>3. CASE Return(t)
    BY <1>1, <1>3 DEF Return, TypeOK
  <1>4. CASE pc' = pc /\ job' = [job EXCEPT ![t].attempts = @ + 1]
    BY <1>1, <1>4 DEF TypeOK, Job
  <1>5. QED
    BY <1>1, <1>2, <1>3, <1>4

LEMMA CellFenceStep ==
  ASSUME TypeOK, CellFence, NEW t \in Thread, Prune(t) \/ RunStep(t)
  PROVE  CellFence'
  <1> USE DEF TypeOK, StoreTypeOK, CellFence, OwnRow, Serves, AloneAt, Expired
  <1>1. CASE Prune(t)
    BY <1>1 DEF Prune, PruneThen, PruneExpired, At, Goto, cellVars
  <1>2. CASE RunConsume(t)
    <2> DEFINE a == job[t].auth
    <2>1. CASE Fenced(a, "cell_run") /\ Return(t) /\ UNCHANGED storeVars
      BY <1>2, <2>1 DEF RunConsume, Consume, Return, storeVars, cellVars
    <2>2. CASE ConsumeRow(a, "cell_run") /\ Goto(t, "verify") /\ UNCHANGED job
      <3>1. ~OwnRow(a, "cell_run")
        BY <2>2 DEF ConsumeRow, Fenced, SameFence
      <3>2. a \in Authority /\ UNCHANGED <<clock, spawned>>
        <4>1. job[t] \in Job
          BY <1>2 DEF RunConsume, Consume, At
        <4>2. QED
          BY <1>2, <4>1 DEF RunConsume, Consume, cellVars, Job
      <3>3. ~Expired(a) => /\ spawned[a] = 0
                           /\ \A u \in Thread : ~Serves(u, a, {"verify", "spawn"})
        BY <3>1, <3>2
      <3>4. /\ OwnRow(a, "cell_run")'
            /\ \A b \in Authority : OwnRow(b, "cell_run") => OwnRow(b, "cell_run")'
        <4> DEFINE row == [auth |-> a, stage |-> "cell_run", dated |-> TRUE]
        <4>1. consumed' = consumed \cup {row}
          BY <2>2 DEF ConsumeRow
        <4>2. row.auth = a /\ row.stage = "cell_run" /\ job' = job
          BY <2>2
        <4> HIDE DEF row
        <4>3. QED
          BY <4>1, <4>2
      <3>5. /\ job' = job /\ pc'[t] = "verify" /\ job[t].auth = a
            /\ \A u \in Thread \ {t} : pc'[u] = pc[u]
        BY <2>2 DEF Goto
      <3> HIDE DEF OwnRow, Expired
      <3>6. QED
        BY <3>2, <3>3, <3>4, <3>5 DEF Expired
    <2>3. QED
      BY <1>2, <2>1, <2>2 DEF RunConsume, Consume
  <1>3. CASE VerifyAgain(t)
    BY <1>3 DEF VerifyAgain, Current, At, Goto, Return, storeVars, cellVars
  <1>9. CASE SpawnCell(t)
    BY <1>9 DEF SpawnCell, At, Goto, Return, storeVars
  <1>4. CASE CollectOutput(t)
    BY <1>4 DEF CollectOutput, At, Goto, storeVars, cellVars
  <1>5. CASE Teardown(t)
    BY <1>5 DEF Teardown, At, Goto, Return, storeVars
  <1>6. CASE CheckOutput(t)
    BY <1>6 DEF CheckOutput, At, Goto, Return, storeVars, cellVars
  <1>7. CASE RecordSuccess(t)
    BY <1>7 DEF RecordSuccess, RecordRow, At, Return, storeVars, cellVars
  <1>8. QED
    BY <1>1, <1>2, <1>3, <1>4, <1>5, <1>6, <1>7, <1>9 DEF RunStep

\* What the other steps may do to the cell fence: nothing, or delete the row of
\* an expired authority, or take a thread away from "verify" and "spawn".
LEMMA CellFenceFrame ==
  ASSUME CellFence, spawned' = spawned,
         \A a \in Authority :
           /\ Expired(a) => Expired(a)'
           /\ OwnRow(a, "cell_run") /\ ~Expired(a) => OwnRow(a, "cell_run")'
           /\ \A t \in Thread : /\ Serves(t, a, {"verify"})' => Serves(t, a, {"verify"})
                                /\ Serves(t, a, {"spawn"})' => Serves(t, a, {"spawn"})
  PROVE  CellFence'
  <1>1. \A a \in Authority, t \in Thread :
          Serves(t, a, {"verify", "spawn"})' => Serves(t, a, {"verify", "spawn"})
    BY DEF Serves
  <1>2. QED
    BY <1>1 DEF CellFence, AloneAt

\* The same for the effect fence.
LEMMA EffectFenceFrame ==
  ASSUME EffectFence, minted' = minted,
         \A a \in Authority :
           /\ Expired(a) => Expired(a)'
           /\ OwnRow(a, "effect") /\ ~Expired(a) => OwnRow(a, "effect")'
           /\ \A t \in Thread :
                /\ Serves(t, a, {"validate"})' => Serves(t, a, {"validate"})
                /\ Serves(t, a, {"mint"})' => Serves(t, a, {"mint"})
                /\ Serves(t, a, Holding)' => Serves(t, a, Holding)
  PROVE  EffectFence'
  <1> USE DEF Serves
  <1>1. \A a \in Authority, t \in Thread :
          /\ Serves(t, a, {"validate", "mint"} \cup Holding)'
               => Serves(t, a, {"validate", "mint"} \cup Holding)
          /\ Serves(t, a, {"mint"} \cup Holding)' => Serves(t, a, {"mint"} \cup Holding)
    OBVIOUS
  <1> HIDE DEF Serves
  <1>2. QED
    BY <1>1 DEF EffectFence, AloneAt

\* The same for the write.
LEMMA WriteOnceFrame ==
  ASSUME WriteOnce, minted' = minted, written' = written,
         \A a \in Authority, t \in Thread :
           /\ Serves(t, a, Holding)' => Serves(t, a, Holding)
           /\ Serves(t, a, {"lookup", "revalidate", "put"})'
                => Serves(t, a, {"lookup", "revalidate", "put"})
  PROVE  WriteOnce'
  BY DEF WriteOnce, AloneAt

LEMMA UniqueRowsStep ==
  ASSUME TypeOK, UniqueRows, [Next]_vars
  PROVE  UniqueRows'
  <1>1. CASE consumed' \subseteq consumed
    BY <1>1 DEF UniqueRows, SameFence
  <1>2. ASSUME NEW a, NEW stage, ConsumeRow(a, stage)
        PROVE  UniqueRows'
    <2> DEFINE row == [auth |-> a, stage |-> stage, dated |-> TRUE]
    <2>1. row.auth = a /\ row.stage = stage
      OBVIOUS
    <2>2. consumed' = consumed \cup {row}
      BY <1>2 DEF ConsumeRow
    <2>3. \A r \in consumed : r.stage = stage => ~SameFence(r.auth, a) /\ ~SameFence(a, r.auth)
      BY <1>2 DEF ConsumeRow, Fenced, SameFence
    <2> HIDE DEF row
    <2>4. \A r, s \in consumed' :
            r.stage = s.stage /\ SameFence(r.auth, s.auth) => r = s
      BY <2>1, <2>2, <2>3 DEF UniqueRows
    <2>5. QED
      BY <2>4 DEF UniqueRows, SameFence
  <1>3. \/ consumed' \subseteq consumed
        \/ \E a, stage : ConsumeRow(a, stage)
    <2>1. ASSUME NEW t \in Thread, Prune(t) PROVE consumed' \subseteq consumed
      BY <2>1 DEF Prune, PruneThen, PruneExpired
    <2>2. ASSUME NEW t \in Thread, RunConsume(t) \/ EffectConsume(t)
          PROVE  \/ consumed' \subseteq consumed
                 \/ \E a, stage : ConsumeRow(a, stage)
      BY <2>2 DEF RunConsume, EffectConsume, Consume, storeVars
    <2>3. ASSUME NEW t \in Thread, RunStep(t), ~RunConsume(t) PROVE consumed' = consumed
      BY <2>3 DEF RunStep, VerifyAgain, SpawnCell, CollectOutput, Teardown, CheckOutput,
         RecordSuccess, RecordRow, storeVars
    <2>4. ASSUME NEW t \in Thread, EffectStep(t), ~EffectConsume(t) PROVE consumed' = consumed
      BY <2>4 DEF EffectStep, RequireSuccess, Validate, MintToken, Lookup, Revalidate,
         PutContent, CollectEvidence, RevokeToken, storeVars
    <2>5. ASSUME NEW t \in Thread, Arrive(t) \/ Raise(t) PROVE consumed' = consumed
      BY <2>5 DEF Arrive, RunRequest, EffectRequest, Raise, storeVars
    <2>6. CASE Crash \/ ForeignWrite \/ TickClock \/ UNCHANGED vars
      BY <2>6 DEF Crash, ForeignWrite, TickClock, vars, storeVars
    <2>7. QED
      BY <2>1, <2>2, <2>3, <2>4, <2>5, <2>6 DEF Next, Step
  <1>4. QED
    BY <1>1, <1>2, <1>3

LEMMA InitFence == Init => FenceInv
  <1> SUFFICES ASSUME Init PROVE FenceInv
    OBVIOUS
  <1>1. UniqueRows
    BY EnvelopeAssumption DEF Init, StoreInit, UniqueRows
  <1>2. CellFence /\ EffectFence /\ WriteOnce
    BY DEF Init, CellFence, EffectFence, WriteOnce, Serves, Holding
  <1>3. QED
    BY <1>1, <1>2, InitTypeOK DEF FenceInv

\* Arrivals, ticks, crashes and foreign writes touch none of the three.
LEMMA EnvironmentFence ==
  ASSUME FenceInv, [Next]_vars,
         \/ Crash \/ ForeignWrite \/ TickClock \/ UNCHANGED vars
         \/ \E t \in Thread : Arrive(t) \/ Raise(t)
  PROVE  FenceInv'
  <1> USE DEF FenceInv
  <1>1. \A a \in Authority : Expired(a) => Expired(a)'
    BY ExpiryIsFinal
  <1>2. UNCHANGED <<consumed, spawned, minted, written>>
    BY DEF Crash, ForeignWrite, TickClock, Arrive, RunRequest, EffectRequest, Raise, vars,
       storeVars, cellVars, providerVars
  <1>3. \A t \in Thread : \/ pc'[t] \notin {"verify", "spawn", "validate", "mint"} \cup Holding
                          \/ pc'[t] = pc[t] /\ job'[t] = job[t]
    <2>1. CASE Crash
      BY <2>1 DEF Crash, Holding
    <2>2. CASE ForeignWrite \/ TickClock \/ UNCHANGED vars
      BY <2>2 DEF ForeignWrite, TickClock, vars
    <2>3. ASSUME NEW u \in Thread, Arrive(u)
          PROVE  \A t \in Thread : \/ pc'[t] \notin {"verify", "spawn", "validate", "mint"} \cup Holding
                                   \/ pc'[t] = pc[t] /\ job'[t] = job[t]
      BY <2>3 DEF Arrive, RunRequest, EffectRequest, Goto, TypeOK, Holding
    <2>4. ASSUME NEW u \in Thread, Raise(u)
          PROVE  \A t \in Thread : \/ pc'[t] \notin {"verify", "spawn", "validate", "mint"} \cup Holding
                                   \/ pc'[t] = pc[t] /\ job'[t] = job[t]
      BY <2>4 DEF Raise, Return, TypeOK, Holding
    <2>5. QED
      BY <2>1, <2>2, <2>3, <2>4
  <1>4. \A a \in Authority, stage \in Stage : OwnRow(a, stage)' = OwnRow(a, stage)
    BY <1>2 DEF OwnRow
  <1>5. \A a \in Authority, t \in Thread :
          /\ Serves(t, a, {"verify"})' => Serves(t, a, {"verify"})
          /\ Serves(t, a, {"spawn"})' => Serves(t, a, {"spawn"})
          /\ Serves(t, a, {"validate"})' => Serves(t, a, {"validate"})
          /\ Serves(t, a, {"mint"})' => Serves(t, a, {"mint"})
          /\ Serves(t, a, Holding)' => Serves(t, a, Holding)
          /\ Serves(t, a, {"lookup", "revalidate", "put"})'
               => Serves(t, a, {"lookup", "revalidate", "put"})
    BY <1>3 DEF Serves, Holding
  <1>6. TypeOK'
    BY EnvironmentTypeOK DEF vars, storeVars, cellVars, providerVars, TypeOK, StoreTypeOK
  <1>7. CellFence' /\ EffectFence' /\ WriteOnce'
    BY <1>1, <1>2, <1>4, <1>5, CellFenceFrame, EffectFenceFrame, WriteOnceFrame DEF Stage
  <1>8. QED
    BY <1>6, <1>7, UniqueRowsStep

-----------------------------------------------------------------------------
\* A run request touches neither the effect fence nor the write.
LEMMA RunFence ==
  ASSUME FenceInv, [Next]_vars, NEW t \in Thread, Prune(t) \/ RunStep(t)
  PROVE  FenceInv'
  <1> USE DEF FenceInv
  <1>1. TypeOK' /\ CellFence'
    BY RunTypeOK, CellFenceStep
  <1>2. UNCHANGED <<minted, written>>
    BY DEF Prune, PruneThen, RunStep, RunConsume, Consume, VerifyAgain, SpawnCell, CollectOutput,
       Teardown, CheckOutput, RecordSuccess, providerVars
  <1>3. \A a \in Authority : Expired(a) => Expired(a)'
    BY ExpiryIsFinal
  <1>4. \A a \in Authority : OwnRow(a, "effect") /\ ~Expired(a) => OwnRow(a, "effect")'
    <2>1. CASE Prune(t)
      BY <2>1, PruneKeepsRow DEF Prune, PruneThen, Stage
    <2>2. CASE RunStep(t)
      BY <2>2 DEF RunStep, RunConsume, Consume, ConsumeRow, VerifyAgain, SpawnCell, CollectOutput,
         Teardown, CheckOutput, RecordSuccess, RecordRow, storeVars, OwnRow
    <2>3. QED
      BY <2>1, <2>2
  <1>5. \A u \in Thread : \/ pc'[u] \notin {"validate", "mint"} \cup Holding
                          \/ pc'[u] = pc[u] /\ job'[u] = job[u]
    <2> USE DEF TypeOK, Holding
    <2>1. CASE Prune(t)
      BY <2>1 DEF Prune, PruneThen, Goto
    <2>2. CASE RunStep(t)
      BY <2>2 DEF RunStep, RunConsume, Consume, VerifyAgain, SpawnCell, CollectOutput,
         Teardown, CheckOutput, RecordSuccess, Goto, Return
    <2>3. QED
      BY <2>1, <2>2
  <1>6. \A a \in Authority, u \in Thread :
          /\ Serves(u, a, {"validate"})' => Serves(u, a, {"validate"})
          /\ Serves(u, a, {"mint"})' => Serves(u, a, {"mint"})
          /\ Serves(u, a, Holding)' => Serves(u, a, Holding)
          /\ Serves(u, a, {"lookup", "revalidate", "put"})'
               => Serves(u, a, {"lookup", "revalidate", "put"})
    BY <1>5 DEF Serves, Holding
  <1>7. QED
    BY <1>1, <1>2, <1>3, <1>4, <1>6, EffectFenceFrame, WriteOnceFrame, UniqueRowsStep

\* An effect request never enters "verify" or "spawn", and only consume() adds a row.
LEMMA EffectKeepsCellFence ==
  ASSUME FenceInv, [Next]_vars, NEW t \in Thread, EffectStep(t)
  PROVE  CellFence'
  <1> USE DEF FenceInv
  <1>1. spawned' = spawned /\ consumed \subseteq consumed'
    BY DEF EffectStep, RequireSuccess, EffectConsume, Consume, ConsumeRow, Validate,
       MintToken, Lookup, Revalidate, PutContent, CollectEvidence, RevokeToken,
       cellVars, storeVars
  <1>2. \A u \in Thread : pc'[u] \notin {"verify", "spawn"} \/ (pc'[u] = pc[u] /\ job'[u] = job[u])
    BY DEF EffectStep, RequireSuccess, EffectConsume, Consume, Validate, MintToken,
       Lookup, Revalidate, PutContent, CollectEvidence, RevokeToken, Finish, At, Goto,
       Return, TypeOK
  <1>3. \A a \in Authority, u \in Thread :
          /\ Serves(u, a, {"verify"})' => Serves(u, a, {"verify"})
          /\ Serves(u, a, {"spawn"})' => Serves(u, a, {"spawn"})
    BY <1>2 DEF Serves
  <1>4. \A a \in Authority : OwnRow(a, "cell_run") => OwnRow(a, "cell_run")'
    BY <1>1 DEF OwnRow
  <1>5. QED
    BY <1>1, <1>3, <1>4, ExpiryIsFinal, CellFenceFrame

\* The effect fence through an effect request: consume() finds no unexpired
\* trace of the authority, validation finds it current, the mint spends it.
LEMMA EffectFenceStep ==
  ASSUME FenceInv, [Next]_vars, NEW t \in Thread, EffectStep(t)
  PROVE  EffectFence'
  <1> USE DEF FenceInv
  <1>0. PICK a \in Authority : a = job[t].auth
    <2>1. job[t] \in Job
      BY DEF EffectStep, RequireSuccess, EffectConsume, Consume, Validate, MintToken,
         Lookup, Revalidate, PutContent, CollectEvidence, RevokeToken, At, TypeOK
    <2>2. QED
      BY <2>1 DEF Job
  <1>1. \A b \in Authority : Expired(b) => Expired(b)'
    BY ExpiryIsFinal
  <1>2. \A b \in Authority : OwnRow(b, "effect") => OwnRow(b, "effect")'
    BY DEF EffectStep, RequireSuccess, EffectConsume, Consume, ConsumeRow, Validate,
       MintToken, Lookup, Revalidate, PutContent, CollectEvidence, RevokeToken,
       storeVars, OwnRow
  <1>3. \A u \in Thread \ {t} : pc'[u] = pc[u] /\ job'[u] = job[u]
    BY DEF EffectStep, RequireSuccess, EffectConsume, Consume, Validate, MintToken,
       Lookup, Revalidate, PutContent, CollectEvidence, RevokeToken, Finish, Goto,
       Return, TypeOK
  <1>4. \A u \in Thread \ {t}, b \in Authority :
          /\ Serves(u, b, {"validate"})' = Serves(u, b, {"validate"})
          /\ Serves(u, b, {"mint"})' = Serves(u, b, {"mint"})
          /\ Serves(u, b, Holding)' = Serves(u, b, Holding)
          /\ Serves(u, b, {"mint"} \cup Holding)' = Serves(u, b, {"mint"} \cup Holding)
          /\ Serves(u, b, {"validate", "mint"} \cup Holding)'
               = Serves(u, b, {"validate", "mint"} \cup Holding)
    BY <1>3 DEF Serves
  <1>5. CASE /\ At(t, "effect_consume") /\ ConsumeRow(a, "effect")
             /\ Goto(t, "validate") /\ UNCHANGED <<clock, job, minted>>
    <2>1. OwnRow(a, "effect")' /\ ~OwnRow(a, "effect")
      <3> DEFINE row == [auth |-> a, stage |-> "effect", dated |-> TRUE]
      <3>1. consumed' = consumed \cup {row} /\ row.auth = a /\ row.stage = "effect"
        BY <1>5 DEF ConsumeRow
      <3>2. OwnRow(a, "effect")'
        <4> HIDE DEF row
        <4>1. \E r \in consumed' : r.auth = a /\ r.stage = "effect"
          BY <3>1
        <4>2. QED
          BY <4>1, <1>5 DEF OwnRow
      <3>3. QED
        BY <1>5, <3>2 DEF ConsumeRow, Fenced, SameFence, OwnRow
    <2>2. pc'[t] = "validate" /\ job' = job
      BY <1>5 DEF Goto, TypeOK
    <2>3. ~Expired(a) => /\ minted[a] = 0
                         /\ \A u \in Thread : ~Serves(u, a, {"validate", "mint"} \cup Holding)
      BY <1>0, <2>1 DEF EffectFence, WriteOnce, Serves
    <2>4. \A b \in Authority : Serves(t, b, {"validate", "mint"} \cup Holding)' =>
            b = a /\ ~Serves(t, b, {"mint"} \cup Holding)'
      BY <1>0, <2>2 DEF Serves, Holding
    <2>5. Expired(a)' = Expired(a) /\ minted' = minted
      BY <1>5 DEF Expired
    <2>6. QED
      BY <1>0, <1>1, <1>2, <1>4, <2>1, <2>3, <2>4, <2>5 DEF EffectFence, AloneAt, Serves
  <1>6. CASE Validate(t)
    <2>1. CASE Current(a) /\ Goto(t, "mint") /\ UNCHANGED job
      <3>1. pc[t] = "validate" /\ pc'[t] = "mint" /\ job' = job /\ minted' = minted
        BY <1>6, <2>1 DEF Validate, At, Goto, TypeOK, providerVars
      <3>2. /\ OwnRow(a, "effect") /\ minted[a] = 0
            /\ AloneAt(t, a, {"validate", "mint"} \cup Holding)
        BY <1>0, <2>1, <3>1 DEF Current, EffectFence, Serves
      <3>3. \A u \in Thread \ {t} : ~Serves(u, a, {"validate", "mint"} \cup Holding)
        BY <3>2 DEF AloneAt
      <3>4. QED
        BY <1>0, <1>1, <1>2, <1>4, <3>1, <3>2, <3>3 DEF EffectFence, AloneAt, Serves, Holding
    <2>2. CASE Return(t)
      BY <1>1, <1>2, <1>4, <1>6, <2>2, EffectFenceFrame
         DEF Validate, Return, TypeOK, Serves, Holding,
         providerVars
    <2>3. QED
      BY <1>0, <1>6, <2>1, <2>2 DEF Validate, EffectAuthorized
  <1>7. CASE MintToken(t)
    <2>1. /\ pc[t] = "mint" /\ minted[a] = 0
          /\ ~Expired(a) => OwnRow(a, "effect")
          /\ AloneAt(t, a, {"mint"} \cup Holding)
      BY <1>0, <1>7 DEF MintToken, At, EffectFence, Serves
    <2>2. \A u \in Thread \ {t} : /\ ~Serves(u, a, {"mint"} \cup Holding)
                                  /\ ~Expired(a) => ~Serves(u, a, {"validate"})
      <3>1. Serves(t, a, {"validate", "mint"} \cup Holding)
        BY <1>0, <2>1 DEF Serves
      <3>2. QED
        BY <2>1, <3>1 DEF EffectFence, AloneAt
    <2>3. \/ pc'[t] = "lookup" /\ job' = job
          \/ pc'[t] = "idle"
      BY <1>7 DEF MintToken, Goto, Return, TypeOK
    <2>4. minted' = minted \/ minted' = [minted EXCEPT ![a] = 1]
      BY <1>0, <1>7, <2>1 DEF MintToken
    <2>5. \A b \in Authority : minted'[b] \in {0, 1} /\ (b # a => minted'[b] = minted[b])
      BY <2>1, <2>4 DEF TypeOK, EffectFence
    <2>6. \A b \in Authority : /\ ~Serves(t, b, {"validate"})'
                               /\ ~Serves(t, b, {"mint"})'
                               /\ b # a => ~Serves(t, b, {"mint"} \cup Holding)'
                               /\ b # a => ~Serves(t, b, {"validate", "mint"} \cup Holding)'
      BY <1>0, <2>3 DEF Serves, Holding
    <2>7. ASSUME NEW b \in Authority, b # a
          PROVE  /\ minted'[b] = 1 /\ ~Expired(b)' => OwnRow(b, "effect")'
                 /\ \A u \in Thread :
                      /\ Serves(u, b, {"validate"})' /\ ~Expired(b)' =>
                           /\ OwnRow(b, "effect")'
                           /\ minted'[b] = 0
                           /\ AloneAt(u, b, {"validate", "mint"} \cup Holding)'
                      /\ Serves(u, b, {"mint"})' =>
                           /\ ~Expired(b)' => OwnRow(b, "effect")'
                           /\ minted'[b] = 0
                           /\ AloneAt(u, b, {"mint"} \cup Holding)'
      BY <1>1, <1>2, <1>4, <2>5, <2>6, <2>7 DEF EffectFence, AloneAt
    <2>8. /\ ~Expired(a)' => OwnRow(a, "effect")'
          /\ \A u \in Thread : /\ Serves(u, a, {"validate"})' => Expired(a)'
                               /\ ~Serves(u, a, {"mint"})'
      <3>1. \A u \in Thread : Serves(u, a, {"mint"}) => Serves(u, a, {"mint"} \cup Holding)
        BY DEF Serves
      <3>2. QED
        BY <1>1, <1>2, <1>4, <2>1, <2>2, <2>6, <3>1
    <2>9. QED
      BY <2>5, <2>7, <2>8 DEF EffectFence
  <1>8. CASE \/ RequireSuccess(t) \/ (EffectConsume(t) /\ Return(t)) \/ Lookup(t)
             \/ Revalidate(t) \/ PutContent(t) \/ CollectEvidence(t) \/ RevokeToken(t)
    <2>1. minted' = minted
      BY <1>8 DEF RequireSuccess, EffectConsume, Consume, Lookup, Revalidate, PutContent,
         CollectEvidence, RevokeToken, providerVars
    <2>2. \/ pc'[t] \notin {"validate", "mint"} \cup Holding
          \/ pc[t] \in Holding /\ pc'[t] \in Holding /\ job'[t].auth = a
      <3>1. CASE RequireSuccess(t) \/ (EffectConsume(t) /\ Return(t))
        BY <3>1 DEF RequireSuccess, EffectConsume, Goto, Return, TypeOK, Holding
      <3>2. CASE Lookup(t) \/ Revalidate(t)
        BY <1>0, <3>2 DEF Lookup, Revalidate, At, Goto, TypeOK, Holding
      <3>3. CASE PutContent(t)
        BY <1>0, <3>3 DEF PutContent, At, Goto, TypeOK, Holding, Job
      <3>4. CASE CollectEvidence(t)
        BY <1>0, <3>4 DEF CollectEvidence, At, Goto, TypeOK, Holding, Job
      <3>5. CASE RevokeToken(t)
        BY <1>0, <3>5, RevokeStep DEF Holding
      <3>6. QED
        BY <1>8, <3>1, <3>2, <3>3, <3>4, <3>5
    <2>3. \A b \in Authority :
            /\ ~Serves(t, b, {"validate"})' /\ ~Serves(t, b, {"mint"})'
            /\ Serves(t, b, Holding)' => Serves(t, b, Holding)
      BY <1>0, <2>2 DEF Serves, Holding
    <2>4. QED
      BY <1>1, <1>2, <1>4, <2>1, <2>3, EffectFenceFrame
  <1>9. QED
    <2>1. CASE EffectConsume(t)
      BY <1>0, <1>5, <1>8, <2>1 DEF EffectConsume, Consume, providerVars
    <2>2. QED
      BY <1>6, <1>7, <1>8, <2>1 DEF EffectStep

\* The write through an effect request: the mint, then at most one PUT.
LEMMA WriteOnceStep ==
  ASSUME FenceInv, NEW t \in Thread, EffectStep(t)
  PROVE  WriteOnce'
  <1> USE DEF FenceInv
  <1>0. PICK a \in Authority : a = job[t].auth
    <2>1. job[t] \in Job
      BY DEF EffectStep, RequireSuccess, EffectConsume, Consume, Validate, MintToken,
         Lookup, Revalidate, PutContent, CollectEvidence, RevokeToken, At, TypeOK
    <2>2. QED
      BY <2>1 DEF Job
  <1>1. \A u \in Thread \ {t} : pc'[u] = pc[u] /\ job'[u] = job[u]
    BY DEF EffectStep, RequireSuccess, EffectConsume, Consume, Validate, MintToken,
       Lookup, Revalidate, PutContent, CollectEvidence, RevokeToken, Finish, Goto,
       Return, TypeOK
  <1> DEFINE Early == {"lookup", "revalidate", "put"}
  <1>2. \A u \in Thread \ {t}, b \in Authority :
          /\ Serves(u, b, Holding)' = Serves(u, b, Holding)
          /\ Serves(u, b, Early)' = Serves(u, b, Early)
    BY <1>1 DEF Serves
  <1>3. \A u \in Thread, b \in Authority : Serves(u, b, Early) => Serves(u, b, Holding)
    BY DEF Serves, Holding
  <1>4. CASE MintToken(t)
    <2>1. /\ pc[t] = "mint" /\ minted[a] = 0 /\ written[a] = 0
          /\ AloneAt(t, a, {"mint"} \cup Holding)
      BY <1>0, <1>4 DEF MintToken, At, EffectFence, WriteOnce, Serves
    <2>2. \A u \in Thread \ {t} : ~Serves(u, a, Holding)
      BY <2>1 DEF AloneAt, Serves
    <2>3. \/ /\ minted' = [minted EXCEPT ![a] = 1]
             /\ pc'[t] = "lookup" /\ job' = job
          \/ /\ minted' = minted \/ minted' = [minted EXCEPT ![a] = 1]
             /\ pc'[t] = "idle"
      BY <1>0, <1>4, <2>1 DEF MintToken, Goto, Return, TypeOK
    <2>4. written' = written
      BY <1>4 DEF MintToken
    <2>5. \A b \in Authority : /\ b # a => minted'[b] = minted[b]
                               /\ minted'[b] = 0 => minted[b] = 0
                               /\ Serves(t, b, Holding)' => b = a /\ minted'[b] = 1
      BY <1>0, <2>1, <2>3 DEF TypeOK, Serves, Holding
    <2>6. QED
      BY <1>2, <1>3, <2>1, <2>2, <2>4, <2>5 DEF WriteOnce, AloneAt, Serves, Holding
  <1>5. CASE PutContent(t)
    <2>1. /\ pc[t] = "put" /\ minted[a] = 1 /\ written[a] = 0
          /\ \A u \in Thread \ {t} : ~Serves(u, a, Holding)
      BY <1>0, <1>5 DEF PutContent, At, WriteOnce, AloneAt, Serves, Holding
    <2>2. /\ minted' = minted
          /\ written' = written \/ written' = [written EXCEPT ![a] = 1]
          /\ pc'[t] \in {"evidence", "revoke"}
          /\ job'[t].auth = a
      BY <1>0, <1>5, <2>1 DEF PutContent, At, Goto, TypeOK, Job
    <2>3. \A b \in Authority : /\ written'[b] \in {0, 1}
                               /\ b # a => written'[b] = written[b]
                               /\ Serves(t, b, Holding)' => b = a
                               /\ ~Serves(t, b, Early)'
      BY <2>1, <2>2 DEF WriteOnce, TypeOK, Serves
    <2>4. QED
      BY <1>2, <1>3, <2>1, <2>2, <2>3 DEF WriteOnce, AloneAt
  <1>6. CASE RequireSuccess(t) \/ EffectConsume(t) \/ Validate(t)
    <2>1. UNCHANGED <<minted, written>>
      BY <1>6 DEF RequireSuccess, EffectConsume, Consume, Validate, providerVars
    <2>2. pc'[t] \notin Holding
      BY <1>6 DEF RequireSuccess, EffectConsume, Consume, Validate, At, Goto, Return,
         TypeOK, Holding
    <2>3. QED
      BY <1>2, <2>1, <2>2, WriteOnceFrame DEF Serves, Holding
  <1>7. CASE Lookup(t) \/ Revalidate(t) \/ CollectEvidence(t) \/ RevokeToken(t)
    <2>1. UNCHANGED <<minted, written>>
      BY <1>7 DEF Lookup, Revalidate, CollectEvidence, RevokeToken, providerVars
    <2>2. /\ pc[t] \in Holding
          /\ pc'[t] \in Holding => job'[t].auth = a
          /\ pc'[t] \in Early => pc[t] \in Early
      <3>1. CASE Lookup(t) \/ Revalidate(t)
        BY <1>0, <3>1 DEF Lookup, Revalidate, At, Goto, TypeOK, Holding
      <3>2. CASE CollectEvidence(t)
        BY <1>0, <3>2 DEF CollectEvidence, At, Goto, TypeOK, Holding, Job
      <3>3. CASE RevokeToken(t)
        BY <1>0, <3>3, RevokeStep DEF Holding
      <3>4. QED
        BY <1>7, <3>1, <3>2, <3>3
    <2>3. \A b \in Authority : /\ Serves(t, b, Holding)' => Serves(t, b, Holding)
                               /\ Serves(t, b, Early)' => Serves(t, b, Early)
      BY <1>0, <2>2 DEF Serves, Holding
    <2>4. QED
      BY <1>2, <2>1, <2>3, WriteOnceFrame
  <1>8. QED
    BY <1>4, <1>5, <1>6, <1>7 DEF EffectStep

\* The three fences hold in every reachable state.
THEOREM Fences == Spec => []FenceInv
  <1>1. FenceInv /\ [Next]_vars => FenceInv'
    <2> SUFFICES ASSUME FenceInv, [Next]_vars PROVE FenceInv'
      OBVIOUS
    <2>1. ASSUME NEW t \in Thread, Prune(t) \/ RunStep(t) PROVE FenceInv'
      BY <2>1, RunFence
    <2>2. ASSUME NEW t \in Thread, EffectStep(t) PROVE FenceInv'
      BY <2>2, EffectTypeOK, UniqueRowsStep, EffectKeepsCellFence, EffectFenceStep,
         WriteOnceStep DEF FenceInv
    <2>3. CASE \/ Crash \/ ForeignWrite \/ TickClock \/ UNCHANGED vars
               \/ \E t \in Thread : Arrive(t) \/ Raise(t)
      BY <2>3, EnvironmentFence
    <2>4. QED
      BY <2>1, <2>2, <2>3 DEF Next, Step
  <1>2. QED
    BY InitFence, <1>1, PTL DEF Spec

\* However requests race, rows are pruned and the host crashes, one signed
\* authority starts at most one cell, is given at most one token and writes at
\* most once.
THEOREM OneTime == Spec => []OneTimeAuthority
  <1>1. ASSUME FenceInv, NEW a \in Authority
        PROVE  spawned[a] <= 1 /\ minted[a] <= 1 /\ written[a] <= 1
    <2>1. spawned[a] \in {0, 1} /\ minted[a] \in {0, 1} /\ written[a] \in {0, 1}
      BY <1>1 DEF FenceInv, CellFence, EffectFence, WriteOnce
    <2>2. QED
      BY <2>1
  <1>2. FenceInv => OneTimeAuthority
    BY <1>1 DEF OneTimeAuthority
  <1>3. QED
    BY <1>2, Fences, PTL

\* Of two authorities signed under one grant, the second is given a credential
\* only once one of them has expired.
THEOREM OneLive == Spec => []OneLiveEffectPerGrant
  <1>1. ASSUME FenceInv, NEW a \in Authority, NEW b \in Authority, a # b,
               SameFence(a, b), minted[a] > 0, minted[b] > 0
        PROVE  Expired(a) \/ Expired(b)
    <2> SUFFICES ASSUME ~Expired(a), ~Expired(b) PROVE FALSE
      OBVIOUS
    <2>1. minted[a] = 1 /\ minted[b] = 1
      BY <1>1 DEF FenceInv, EffectFence
    <2>2. OwnRow(a, "effect") /\ OwnRow(b, "effect")
      BY <1>1, <2>1 DEF FenceInv, EffectFence
    <2>3. PICK r \in consumed, s \in consumed :
            r.auth = a /\ s.auth = b /\ r.stage = "effect" /\ s.stage = "effect"
      BY <2>2 DEF OwnRow
    <2>4. QED
      BY <1>1, <2>3 DEF FenceInv, UniqueRows
  <1>2. FenceInv => OneLiveEffectPerGrant
    BY <1>1 DEF OneLiveEffectPerGrant, SameFence
  <1>3. QED
    BY <1>2, Fences, PTL
=============================================================================
