------------------------ MODULE CellHostPromise_proofs ------------------------
(***************************************************************************)
(* From the fences to what the cell host promises: no credential before    *)
(* its cell is gone, true reports, no silent token, and that CellHost      *)
(* implements GovernedConsequence.                                         *)
(***************************************************************************)
EXTENDS CellHost_proofs

-----------------------------------------------------------------------------
(***************************************************************************)
(* The cell and its output.                                                *)
(***************************************************************************)

\* A step of one thread leaves the others where they are.
LEMMA RunMovesOne ==
  ASSUME TypeOK, NEW t \in Thread, Prune(t) \/ RunStep(t), NEW u \in Thread, u # t
  PROVE  pc'[u] = pc[u] /\ job'[u] = job[u]
  BY DEF Prune, PruneThen, RunStep, RunConsume, Consume, VerifyAgain, SpawnCell, CollectOutput,
     Teardown, CheckOutput, RecordSuccess, Goto, Return, TypeOK

LEMMA EffectMovesOne ==
  ASSUME TypeOK, NEW t \in Thread, EffectStep(t), NEW u \in Thread, u # t
  PROVE  pc'[u] = pc[u] /\ job'[u] = job[u]
  BY DEF EffectStep, RequireSuccess, EffectConsume, Consume, Validate, MintToken, Lookup,
     Revalidate, PutContent, CollectEvidence, RevokeToken, Finish, Goto, Return, TypeOK

\* Steps that start and remove no cell keep what is known of
\* a cell's output, if they prove what they add to it.
LEMMA CellOutputFrame ==
  ASSUME CellOutput, UNCHANGED cellVars,
         \A a \in Authority : minted'[a] = 1 => minted[a] = 1 \/ CellLeft(a, Envelope[a].intent),
         \A r \in success' \ success : CellLeft(r.auth, r.digest),
         \A a \in Authority, t \in Thread :
           /\ Serves(t, a, {"running", "teardown"})' => Serves(t, a, {"running", "teardown"})
           /\ Serves(t, a, Proving)' => CellLeft(a, job'[t].intent)
           /\ Serves(t, a, {"mint"})' => job'[t].intent = Envelope[a].intent
  PROVE  CellOutput'
  <1>1. \A a \in Authority : \A i : CellLeft(a, i) =>
          /\ spawned'[a] = 1 /\ a \notin alive' /\ emitted'[a] = i
          /\ \A t \in Thread : ~Serves(t, a, {"running", "teardown"})'
    BY DEF CellLeft, cellVars
  <1>2. ASSUME NEW a \in Authority, NEW t \in Thread
        PROVE  /\ Serves(t, a, {"running", "teardown"})' =>
                    /\ spawned'[a] = 1 /\ a \in alive'
                    /\ AloneAt(t, a, {"running", "teardown"})'
               /\ Serves(t, a, Proving)' => CellLeft(a, job[t].intent)'
               /\ Serves(t, a, {"mint"})' => job'[t].intent = Envelope[a].intent
    <2>1. Serves(t, a, {"running", "teardown"})' =>
                    /\ spawned'[a] = 1 /\ a \in alive'
                    /\ AloneAt(t, a, {"running", "teardown"})'
      BY DEF CellOutput, AloneAt, cellVars
    <2>2. Serves(t, a, Proving)' => CellLeft(a, job[t].intent)'
      BY <1>1 DEF CellLeft
    <2>3. QED
      BY <2>1, <2>2
  <1>3. ASSUME NEW a \in Authority
        PROVE  /\ minted'[a] = 1 => CellLeft(a, Envelope[a].intent)'
               /\ \A r \in success' : r.auth = a => CellLeft(a, r.digest)'
    <2>1. minted'[a] = 1 => CellLeft(a, Envelope[a].intent)'
      BY <1>1 DEF CellOutput, CellLeft
    <2>2. ASSUME NEW r \in success', r.auth = a
          PROVE  CellLeft(a, r.digest)'
      <3>1. CellLeft(a, r.digest)
        BY <2>2 DEF CellOutput
      <3>2. QED
        BY <1>1, <3>1 DEF CellLeft
    <2>3. QED
      BY <2>1, <2>2
  <1>4. QED
    BY <1>2, <1>3 DEF CellOutput

\* The same, in terms of the one thread that moves.
LEMMA CellOutputOneThread ==
  ASSUME CellOutput, NEW t \in Thread,
         UNCHANGED cellVars,
         \A a \in Authority : minted'[a] = 1 => minted[a] = 1 \/ CellLeft(a, Envelope[a].intent),
         \A r \in success' \ success : CellLeft(r.auth, r.digest),
         \A u \in Thread : u # t => pc'[u] = pc[u] /\ job'[u] = job[u],
         pc'[t] \in {"running", "teardown"} =>
           pc[t] \in {"running", "teardown"} /\ job'[t].auth = job[t].auth,
         pc'[t] \in Proving => job'[t] = job[t] /\ CellLeft(job[t].auth, job[t].intent),
         pc'[t] = "mint" => job[t].intent = Envelope[job[t].auth].intent
  PROVE  CellOutput'
  <1>1. ASSUME NEW a \in Authority, NEW u \in Thread
        PROVE  /\ Serves(u, a, {"running", "teardown"})' => Serves(u, a, {"running", "teardown"})
               /\ Serves(u, a, Proving)' => CellLeft(a, job'[u].intent)
               /\ Serves(u, a, {"mint"})' => job'[u].intent = Envelope[a].intent
    <2>1. CASE u = t
      BY <2>1 DEF Serves, Proving
    <2>2. CASE u # t
      BY <2>2 DEF CellOutput, Serves
    <2>3. QED
      BY <2>1, <2>2
  <1>2. QED
    BY <1>1, CellOutputFrame

\* A run that binds an output has seen its cell go.
LEMMA CellOutputRun ==
  ASSUME FenceInv, CellOutput, NEW t \in Thread, Prune(t) \/ RunStep(t)
  PROVE  CellOutput'
  <1> USE DEF FenceInv
  <1>0. /\ \A u \in Thread : u # t => pc'[u] = pc[u] /\ job'[u] = job[u]
        /\ minted' = minted
    BY RunMovesOne DEF Prune, PruneThen, RunStep, RunConsume, Consume, VerifyAgain, SpawnCell,
       CollectOutput, Teardown, CheckOutput, RecordSuccess, providerVars
  <1>1. PICK a \in Authority : a = job[t].auth
    <2>1. job[t] \in Job
      BY DEF Prune, PruneThen, RunStep, RunConsume, Consume, VerifyAgain, SpawnCell,
         CollectOutput, Teardown, CheckOutput, RecordSuccess, At, TypeOK
    <2>2. QED
      BY <2>1 DEF Job
  <1>2. pc[t] \in Proving => CellLeft(a, job[t].intent)
    BY <1>1 DEF CellOutput, Serves
  <1>3. CASE Prune(t)
    <2>1. /\ UNCHANGED <<cellVars, job>> /\ success' \subseteq success
          /\ \/ pc'[t] \notin {"running", "teardown"} \cup Proving
             \/ pc'[t] \in Proving \ {"mint"} /\ pc[t] \in Proving
      BY <1>3 DEF Prune, PruneThen, PruneExpired, At, Goto, TypeOK, Proving
    <2>2. QED
      BY <1>0, <1>1, <1>2, <2>1, CellOutputOneThread DEF Proving
  <1>4. CASE RunConsume(t) \/ VerifyAgain(t)
    <2>1. /\ UNCHANGED <<cellVars, success>>
          /\ pc'[t] \notin {"running", "teardown"} \cup Proving
      BY <1>4 DEF RunConsume, VerifyAgain, Consume, ConsumeRow, At, Goto, Return, TypeOK, Proving,
         storeVars
    <2>2. QED
      BY <1>0, <2>1, CellOutputOneThread DEF Proving
  <1>5. CASE SpawnCell(t)
    <2>1. CASE Return(t) /\ UNCHANGED <<alive, spawned>>
      <3>1. UNCHANGED <<cellVars, success>> /\ pc'[t] = "idle"
        BY <1>5, <2>1 DEF SpawnCell, Return, TypeOK, storeVars, cellVars
      <3>2. QED
        BY <1>0, <3>1, CellOutputOneThread DEF Proving
    <2>2. CASE /\ alive' = alive \cup {a} /\ spawned' = [spawned EXCEPT ![a] = @ + 1]
               /\ Goto(t, "running") /\ UNCHANGED job
      <3>1. spawned[a] = 0
        BY <1>1, <1>5 DEF SpawnCell, At, CellFence, Serves
      <3>2. /\ \A i : ~CellLeft(a, i)
            /\ \A u \in Thread : ~Serves(u, a, {"running", "teardown"})
        BY <3>1 DEF CellLeft, CellOutput
      <3>3. /\ pc'[t] = "running" /\ job' = job /\ spawned'[a] = 1 /\ a \in alive'
            /\ UNCHANGED <<emitted, success>>
            /\ \A b \in Authority : b # a =>
                 spawned'[b] = spawned[b] /\ (b \in alive' <=> b \in alive)
        BY <1>5, <2>2, <3>1 DEF SpawnCell, Goto, TypeOK, storeVars
      <3>4. \A b \in Authority, u \in Thread :
              Serves(u, b, {"running", "teardown"})' <=>
                Serves(u, b, {"running", "teardown"}) \/ (u = t /\ b = a)
        BY <1>0, <1>1, <1>5, <3>3 DEF Serves, SpawnCell, At
      <3>5. \A b \in Authority : \A i : CellLeft(b, i) =>
              /\ b # a /\ spawned'[b] = 1 /\ b \notin alive' /\ emitted'[b] = i
              /\ \A u \in Thread : ~Serves(u, b, {"running", "teardown"})'
        BY <3>2, <3>3, <3>4 DEF CellLeft
      <3>6. \A b \in Authority, u \in Thread :
              /\ Serves(u, b, Proving)' => Serves(u, b, Proving)
              /\ Serves(u, b, {"mint"})' => Serves(u, b, {"mint"})
        BY <1>0, <3>3 DEF Serves, Proving
      <3>7. \A b \in Authority, u \in Thread :
              /\ Serves(u, b, {"running", "teardown"})' =>
                   /\ spawned'[b] = 1 /\ b \in alive'
                   /\ AloneAt(u, b, {"running", "teardown"})'
              /\ Serves(u, b, Proving)' => CellLeft(b, job[u].intent)'
              /\ Serves(u, b, {"mint"})' => job'[u].intent = Envelope[b].intent
        <4>1. \A b \in Authority, u \in Thread :
                Serves(u, b, {"running", "teardown"})' =>
                   /\ spawned'[b] = 1 /\ b \in alive'
                   /\ AloneAt(u, b, {"running", "teardown"})'
          BY <3>2, <3>3, <3>4 DEF CellOutput, AloneAt
        <4>2. \A b \in Authority, u \in Thread :
                Serves(u, b, Proving)' => CellLeft(b, job[u].intent)'
          BY <3>3, <3>5, <3>6 DEF CellOutput, CellLeft
        <4>3. QED
          BY <3>3, <3>6, <4>1, <4>2 DEF CellOutput
      <3>8. \A b \in Authority :
              /\ minted'[b] = 1 => CellLeft(b, Envelope[b].intent)'
              /\ \A r \in success' : r.auth = b => CellLeft(b, r.digest)'
        BY <1>0, <3>3, <3>5 DEF CellOutput, CellLeft
      <3>9. QED
        BY <3>7, <3>8 DEF CellOutput
    <2>3. QED
      BY <1>1, <1>5, <2>1, <2>2 DEF SpawnCell
  <1>6. CASE CollectOutput(t)
    <2>1. /\ UNCHANGED <<cellVars, success>> /\ pc[t] = "running" /\ pc'[t] = "teardown"
          /\ job'[t].auth = job[t].auth
      BY <1>6 DEF CollectOutput, At, Goto, TypeOK, Job, storeVars
    <2>2. QED
      BY <1>0, <2>1, CellOutputOneThread DEF Proving
  <1>7. CASE Teardown(t)
    <2>1. /\ pc[t] = "teardown" /\ spawned[a] = 1 /\ a \in alive
          /\ \A u \in Thread : Serves(u, a, {"running", "teardown"}) => u = t
      BY <1>1, <1>7 DEF Teardown, At, CellOutput, Serves, AloneAt
    <2>2. \A i : ~CellLeft(a, i)
      BY <2>1 DEF CellLeft
    <2>3. /\ UNCHANGED <<spawned, success>>
          /\ \A b \in Authority : b # a =>
               emitted'[b] = emitted[b] /\ (b \in alive' <=> b \in alive)
          /\ \/ pc'[t] = "idle"
             \/ /\ pc'[t] = "record_check" /\ job' = job
                /\ a \notin alive' /\ emitted'[a] = job[t].intent
      <3>1. \/ alive' = alive \/ alive' = alive \ {a}
        BY <1>1, <1>7 DEF Teardown
      <3>2. \/ emitted' = emitted \/ emitted' = [emitted EXCEPT ![a] = job[t].intent]
        BY <1>1, <1>7 DEF Teardown
      <3>3. \/ Return(t)
            \/ /\ Goto(t, "record_check") /\ UNCHANGED job /\ alive' = alive \ {a}
               /\ emitted' = [emitted EXCEPT ![a] = job[t].intent]
        BY <1>1, <1>7 DEF Teardown
      <3>4. UNCHANGED <<spawned, success>>
        BY <1>7 DEF Teardown, storeVars
      <3>5. QED
        BY <3>1, <3>2, <3>3, <3>4 DEF Return, Goto, TypeOK
    <2>4. \A b \in Authority, u \in Thread :
            Serves(u, b, {"running", "teardown"})' <=>
              Serves(u, b, {"running", "teardown"}) /\ u # t
      BY <1>0, <2>3 DEF Serves
    <2>5. \A b \in Authority : \A i : CellLeft(b, i) =>
            /\ b # a /\ spawned'[b] = 1 /\ b \notin alive' /\ emitted'[b] = i
            /\ \A u \in Thread : ~Serves(u, b, {"running", "teardown"})'
      BY <2>2, <2>3, <2>4 DEF CellLeft
    <2>6. \A b \in Authority, u \in Thread :
            Serves(u, b, {"running", "teardown"})' =>
              /\ spawned'[b] = 1 /\ b \in alive'
              /\ AloneAt(u, b, {"running", "teardown"})'
      <3>1. \A u \in Thread : ~Serves(u, a, {"running", "teardown"})'
        BY <2>1, <2>4
      <3>2. QED
        BY <2>3, <2>4, <3>1 DEF CellOutput, AloneAt
    <2>7. \A b \in Authority, u \in Thread :
            Serves(u, b, Proving)' => CellLeft(b, job[u].intent)'
      <3>1. ASSUME NEW b \in Authority, Serves(t, b, Proving)'
            PROVE  CellLeft(b, job[t].intent)'
        <4>1. pc'[t] = "record_check" /\ b = a /\ job' = job
          BY <1>1, <2>3, <3>1 DEF Serves, Proving
        <4>2. /\ spawned'[a] = 1 /\ a \notin alive' /\ emitted'[a] = job'[t].intent
              /\ \A u \in Thread : ~Serves(u, a, {"running", "teardown"})'
          BY <2>1, <2>3, <2>4, <4>1
        <4>3. QED
          BY <4>1, <4>2 DEF CellLeft
      <3>2. ASSUME NEW b \in Authority, NEW u \in Thread, u # t, Serves(u, b, Proving)'
            PROVE  CellLeft(b, job[u].intent)'
        <4>1. job'[u] = job[u] /\ CellLeft(b, job[u].intent)
          BY <1>0, <3>2 DEF CellOutput, Serves
        <4>2. QED
          BY <2>5, <4>1 DEF CellLeft
      <3>3. QED
        BY <3>1, <3>2
    <2>8. \A b \in Authority, u \in Thread :
            Serves(u, b, {"mint"})' => job'[u].intent = Envelope[b].intent
      BY <1>0, <2>3 DEF CellOutput, Serves
    <2>9. \A b \in Authority :
              /\ minted'[b] = 1 => CellLeft(b, Envelope[b].intent)'
              /\ \A r \in success' : r.auth = b => CellLeft(b, r.digest)'
      BY <1>0, <2>3, <2>5 DEF CellOutput, CellLeft
    <2>10. QED
      BY <2>6, <2>7, <2>8, <2>9 DEF CellOutput
  <1>8. CASE CheckOutput(t)
    <2>1. /\ UNCHANGED <<cellVars, success>> /\ pc[t] = "record_check"
          /\ \/ pc'[t] = "idle"
             \/ pc'[t] = "record_prune" /\ job' = job
      BY <1>8 DEF CheckOutput, At, Goto, Return, TypeOK, storeVars
    <2>2. QED
      BY <1>0, <1>1, <1>2, <2>1, CellOutputOneThread DEF Proving
  <1>9. CASE RecordSuccess(t)
    <2>1. /\ UNCHANGED cellVars /\ pc[t] = "record" /\ pc'[t] = "idle"
          /\ success' \subseteq success \cup {[auth |-> a, digest |-> job[t].intent]}
      BY <1>1, <1>9 DEF RecordSuccess, RecordRow, At, Return, TypeOK, storeVars
    <2>2. \A r \in success' \ success : r.auth = a /\ r.digest = job[t].intent
      BY <2>1
    <2>3. QED
      BY <1>0, <1>2, <2>1, <2>2, CellOutputOneThread DEF Proving
  <1>10. QED
    BY <1>3, <1>4, <1>5, <1>6, <1>7, <1>8, <1>9 DEF RunStep

\* An effect request goes as far as the credential only on the output of a cell
\* that is gone, bound and compared with the signed intent.
LEMMA CellOutputEffect ==
  ASSUME FenceInv, CellOutput, NEW t \in Thread, EffectStep(t)
  PROVE  CellOutput'
  <1> USE DEF FenceInv
  <1>0. /\ \A u \in Thread : u # t => pc'[u] = pc[u] /\ job'[u] = job[u]
        /\ UNCHANGED cellVars /\ success' = success
    BY EffectMovesOne DEF EffectStep, RequireSuccess, EffectConsume, Consume, ConsumeRow,
       Validate, MintToken, Lookup, Revalidate, PutContent, CollectEvidence, RevokeToken, storeVars
  <1>1. PICK a \in Authority : a = job[t].auth
    <2>1. job[t] \in Job
      BY DEF EffectStep, RequireSuccess, EffectConsume, Consume, Validate, MintToken,
         Lookup, Revalidate, PutContent, CollectEvidence, RevokeToken, At, TypeOK
    <2>2. QED
      BY <2>1 DEF Job
  <1>2. pc[t] \in Proving => CellLeft(a, job[t].intent)
    BY <1>1 DEF CellOutput, Serves
  <1>3. CASE RequireSuccess(t)
    <2>1. minted' = minted
      BY <1>3 DEF RequireSuccess, providerVars
    <2>2. \/ pc'[t] = "idle"
          \/ (pc'[t] = "consume_prune" /\ job' = job /\ Bound(a, job[t].intent))
      BY <1>1, <1>3 DEF RequireSuccess, Goto, Return, TypeOK
    <2>3. ASSUME Bound(a, job[t].intent) PROVE CellLeft(a, job[t].intent)
      BY <2>3 DEF Bound, CellOutput
    <2>4. QED
      BY <1>0, <1>1, <2>1, <2>2, <2>3, CellOutputOneThread DEF Proving
  <1>4. CASE EffectConsume(t)
    <2>1. /\ minted' = minted /\ pc[t] = "effect_consume"
          /\ pc'[t] = "idle" \/ (pc'[t] = "validate" /\ job' = job)
      BY <1>4 DEF EffectConsume, Consume, At, Goto, Return, TypeOK, providerVars
    <2>2. QED
      BY <1>0, <1>1, <1>2, <2>1, CellOutputOneThread DEF Proving
  <1>5. CASE Validate(t)
    <2>1. /\ minted' = minted /\ pc[t] = "validate"
          /\ \/ pc'[t] = "idle"
             \/ pc'[t] = "mint" /\ job' = job /\ job[t].intent = Envelope[a].intent
      BY <1>1, <1>5 DEF Validate, EffectAuthorized, At, Goto, Return, TypeOK, providerVars
    <2>2. QED
      BY <1>0, <1>1, <1>2, <2>1, CellOutputOneThread DEF Proving
  <1>6. CASE MintToken(t)
    <2>1. /\ pc[t] = "mint" /\ pc'[t] \in {"idle", "lookup"}
          /\ \A b \in Authority : b # a => minted'[b] = minted[b]
      BY <1>1, <1>6 DEF MintToken, At, Goto, Return, TypeOK
    <2>2. CellLeft(a, Envelope[a].intent)
      BY <1>1, <1>2, <2>1 DEF CellOutput, Serves, Proving
    <2>3. QED
      BY <1>0, <2>1, <2>2, CellOutputOneThread DEF Proving
  <1>7. CASE \/ Lookup(t) \/ Revalidate(t) \/ PutContent(t) \/ CollectEvidence(t)
             \/ RevokeToken(t)
    <2>1. minted' = minted
      BY <1>7 DEF Lookup, Revalidate, PutContent, CollectEvidence, RevokeToken, providerVars
    <2>2. pc'[t] \in {"idle"} \cup Holding
      <3>1. CASE RevokeToken(t)
        BY <3>1, RevokeStep DEF Holding
      <3>2. CASE Lookup(t) \/ Revalidate(t) \/ PutContent(t) \/ CollectEvidence(t)
        BY <3>2 DEF Lookup, Revalidate, PutContent, CollectEvidence, Goto, TypeOK, Holding
      <3>3. QED
        BY <1>7, <3>1, <3>2
    <2>3. QED
      BY <1>0, <2>1, <2>2, CellOutputOneThread DEF Proving, Holding
  <1>8. QED
    BY <1>3, <1>4, <1>5, <1>6, <1>7 DEF EffectStep

LEMMA CellOutputEnvironment ==
  ASSUME TypeOK, CellOutput,
         \/ Crash \/ ForeignWrite \/ TickClock \/ UNCHANGED vars
         \/ \E t \in Thread : Arrive(t) \/ Raise(t)
  PROVE  CellOutput'
  <1>1. UNCHANGED <<minted, cellVars, success>>
    BY DEF Crash, ForeignWrite, TickClock, Arrive, RunRequest, EffectRequest, Raise, vars,
       storeVars, providerVars
  <1>2. \A u \in Thread : \/ pc'[u] \notin {"running", "teardown"} \cup Proving
                          \/ pc'[u] = pc[u] /\ job'[u] = job[u]
    <2>1. CASE Crash
      BY <2>1 DEF Crash, Proving
    <2>2. CASE ForeignWrite \/ TickClock \/ UNCHANGED vars
      BY <2>2 DEF ForeignWrite, TickClock, vars
    <2>3. ASSUME NEW t \in Thread, Arrive(t), NEW u \in Thread
          PROVE  \/ pc'[u] \notin {"running", "teardown"} \cup Proving
                 \/ pc'[u] = pc[u] /\ job'[u] = job[u]
      BY <2>3 DEF Arrive, RunRequest, EffectRequest, Goto, TypeOK, Proving
    <2>4. ASSUME NEW t \in Thread, Raise(t), NEW u \in Thread
          PROVE  \/ pc'[u] \notin {"running", "teardown"} \cup Proving
                 \/ pc'[u] = pc[u] /\ job'[u] = job[u]
      BY <2>4 DEF Raise, Return, TypeOK, Proving
    <2>5. QED
      BY <2>1, <2>2, <2>3, <2>4
  <1>3. \A a \in Authority, u \in Thread :
          /\ Serves(u, a, {"running", "teardown"})' => Serves(u, a, {"running", "teardown"})
          /\ Serves(u, a, Proving)' => CellLeft(a, job'[u].intent)
          /\ Serves(u, a, {"mint"})' => job'[u].intent = Envelope[a].intent
    BY <1>2 DEF Serves, Proving, CellOutput
  <1>4. QED
    BY <1>1, <1>3, CellOutputFrame

-----------------------------------------------------------------------------
(***************************************************************************)
(* The token and the report, one authority at a time.                      *)
(***************************************************************************)

TokenOf(a) ==
  /\ outcome[a] \in Accepted => written[a] = 1
  /\ outcome[a] \in {"COMPLETE", "ACCEPTED_EVIDENCE_INCOMPLETE"} => a \notin tokens
  /\ a \in tokens =>
       /\ minted[a] = 1
       /\ \/ \E t \in Thread : Serves(t, a, Holding)
          \/ outcome[a] \in Unconfirmed
          \/ a \in abandoned
  /\ \A t \in Thread :
       /\ Serves(t, a, {"lookup", "revalidate", "put"}) => a \in tokens
       /\ Serves(t, a, BeforeMint \cup Holding) /\ job[t].accepted => written[a] = 1

LEMMA TokenOutcomeSplit ==
  ASSUME tokens \subseteq Authority, TokenOutcome
  PROVE  \A a \in Authority : TokenOf(a)
  BY DEF TokenOutcome, TokenOf, ReportsAreTrue, NoSilentToken, Serves

LEMMA TokenOutcomeJoin ==
  ASSUME (tokens \subseteq Authority)', \A a \in Authority : TokenOf(a)'
  PROVE  TokenOutcome'
  BY DEF TokenOutcome, TokenOf, ReportsAreTrue, NoSilentToken, Serves

\* What concerns no request of a leaves its token and its report alone.
LEMMA TokenOfFrame ==
  ASSUME NEW a \in Authority, TokenOf(a),
         outcome'[a] = outcome[a], minted'[a] = minted[a], written'[a] = written[a],
         a \in tokens' <=> a \in tokens, a \in abandoned => a \in abandoned',
         \A t \in Thread :
           /\ Serves(t, a, Holding) => Serves(t, a, Holding)' \/ a \in abandoned' \/ a \notin tokens
           /\ Serves(t, a, Holding)' => Serves(t, a, Holding)
           /\ Serves(t, a, BeforeMint \cup Holding)' /\ job'[t].accepted =>
                Serves(t, a, BeforeMint \cup Holding) /\ job[t].accepted
           /\ Serves(t, a, {"lookup", "revalidate", "put"})' =>
                Serves(t, a, {"lookup", "revalidate", "put"})
  PROVE  TokenOf(a)'
  BY DEF TokenOf

\* Runs, and effect requests up to the validation, hold no token.
LEMMA TokenOutcomeBefore ==
  ASSUME FenceInv, TokenOutcome, NEW t \in Thread,
         \/ Prune(t) \/ RunStep(t)
         \/ RequireSuccess(t) \/ EffectConsume(t) \/ Validate(t)
  PROVE  TokenOutcome'
  <1> USE DEF FenceInv
  <1>1. UNCHANGED <<tokens, minted, written, outcome, abandoned>>
    BY DEF Prune, PruneThen, RunStep, RunConsume, Consume, VerifyAgain, SpawnCell, CollectOutput,
       Teardown, CheckOutput, RecordSuccess, RequireSuccess, EffectConsume, Validate, providerVars
  <1>2. \A u \in Thread : u # t => pc'[u] = pc[u] /\ job'[u] = job[u]
    BY RunMovesOne, EffectMovesOne DEF EffectStep
  <1>3. /\ pc[t] \notin Holding /\ pc'[t] \notin Holding
        /\ pc'[t] \in BeforeMint => pc[t] \in BeforeMint /\ job'[t] = job[t]
    <2> USE DEF TypeOK, BeforeMint, Holding, At, Goto, Return
    <2>1. CASE Prune(t)
      BY <2>1 DEF Prune, PruneThen
    <2>2. CASE RunStep(t)
      BY <2>2 DEF RunStep, RunConsume, Consume, VerifyAgain, SpawnCell, CollectOutput,
         Teardown, CheckOutput, RecordSuccess
    <2>3. CASE RequireSuccess(t) \/ EffectConsume(t) \/ Validate(t)
      BY <2>3 DEF RequireSuccess, EffectConsume, Consume, Validate
    <2>4. QED
      BY <2>1, <2>2, <2>3
  <1>4. \A a \in Authority, u \in Thread :
          /\ Serves(u, a, Holding)' <=> Serves(u, a, Holding)
          /\ Serves(u, a, BeforeMint \cup Holding)' =>
               Serves(u, a, BeforeMint \cup Holding) /\ job'[u] = job[u]
          /\ Serves(u, a, {"lookup", "revalidate", "put"})' <=>
               Serves(u, a, {"lookup", "revalidate", "put"})
    BY <1>2, <1>3 DEF Serves, Holding
  <1>5. tokens \subseteq Authority /\ tokens' \subseteq Authority
    BY <1>1 DEF TypeOK
  <1>6. \A a \in Authority : TokenOf(a)
    BY <1>5, TokenOutcomeSplit
  <1>7. \A a \in Authority : TokenOf(a)'
    BY <1>1, <1>4, <1>6, TokenOfFrame
  <1>8. QED
    BY <1>5, <1>7, TokenOutcomeJoin

LEMMA TokenOutcomeEnvironment ==
  ASSUME TypeOK, TokenOutcome,
         \/ Crash \/ ForeignWrite \/ TickClock \/ UNCHANGED vars
         \/ \E t \in Thread : Arrive(t) \/ Raise(t)
  PROVE  TokenOutcome'
  <1>1. UNCHANGED <<tokens, minted, written, outcome>> /\ abandoned \subseteq abandoned'
    BY DEF Crash, ForeignWrite, TickClock, Arrive, RunRequest, EffectRequest, Raise, vars,
       providerVars
  <1>2. \A u \in Thread :
          /\ pc'[u] \notin Holding \/ (pc'[u] = pc[u] /\ job'[u] = job[u])
          /\ \/ pc'[u] \notin BeforeMint \/ ~job'[u].accepted
             \/ pc'[u] = pc[u] /\ job'[u] = job[u]
          /\ \/ pc[u] \notin Holding
             \/ pc'[u] = pc[u] /\ job'[u] = job[u]
             \/ job[u].auth \in abandoned' \/ job[u].auth \notin tokens
    <2>1. CASE Crash
      BY <2>1 DEF Crash, BeforeMint, Holding
    <2>2. CASE ForeignWrite \/ TickClock \/ UNCHANGED vars
      BY <2>2 DEF ForeignWrite, TickClock, vars
    <2>3. ASSUME NEW t \in Thread, Arrive(t), NEW u \in Thread
          PROVE  \/ /\ pc'[u] \notin Holding /\ pc[u] \notin Holding
                    /\ pc'[u] \notin BeforeMint \/ ~job'[u].accepted
                 \/ pc'[u] = pc[u] /\ job'[u] = job[u]
      BY <2>3 DEF Arrive, RunRequest, EffectRequest, Request, At, Goto, TypeOK, Holding
    <2>4. ASSUME NEW t \in Thread, Raise(t), NEW u \in Thread
          PROVE  \/ pc'[u] \notin BeforeMint \cup Holding /\ pc[u] \notin Holding
                 \/ pc'[u] = pc[u] /\ job'[u] = job[u]
      BY <2>4 DEF Raise, Return, TypeOK, BeforeMint, Holding
    <2>5. QED
      BY <2>1, <2>2, <2>3, <2>4
  <1>3. \A a \in Authority, u \in Thread :
          /\ Serves(u, a, Holding) => Serves(u, a, Holding)' \/ a \in abandoned' \/ a \notin tokens
          /\ Serves(u, a, Holding)' => Serves(u, a, Holding)
          /\ Serves(u, a, BeforeMint \cup Holding)' /\ job'[u].accepted =>
               Serves(u, a, BeforeMint \cup Holding) /\ job[u].accepted
          /\ Serves(u, a, {"lookup", "revalidate", "put"})' =>
               Serves(u, a, {"lookup", "revalidate", "put"})
    BY <1>2 DEF Serves, Holding
  <1>4. tokens \subseteq Authority /\ tokens' \subseteq Authority
    BY <1>1 DEF TypeOK
  <1>5. \A a \in Authority : TokenOf(a)
    BY <1>4, TokenOutcomeSplit
  <1>6. \A a \in Authority : TokenOf(a)'
    BY <1>1, <1>3, <1>5, TokenOfFrame
  <1>7. QED
    BY <1>4, <1>6, TokenOutcomeJoin

\* From the mint to the report.  Only the thread that holds the token of an
\* authority touches its token, its write and its report.
LEMMA TokenOutcomeEffect ==
  ASSUME FenceInv, TokenOutcome, NEW t \in Thread, EffectStep(t)
  PROVE  TokenOutcome'
  <1> USE DEF FenceInv
  <1>0. \A u \in Thread : u # t => pc'[u] = pc[u] /\ job'[u] = job[u]
    BY EffectMovesOne
  <1>1. PICK a \in Authority : a = job[t].auth
    <2>1. job[t] \in Job
      BY DEF EffectStep, RequireSuccess, EffectConsume, Consume, Validate, MintToken,
         Lookup, Revalidate, PutContent, CollectEvidence, RevokeToken, At, TypeOK
    <2>2. QED
      BY <2>1 DEF Job
  <1>2. tokens \subseteq Authority /\ tokens' \subseteq Authority /\ \A b \in Authority : TokenOf(b)
    BY EffectTypeOK, TokenOutcomeSplit DEF TypeOK
  <1>3. SUFFICES ASSUME pc[t] \in {"mint"} \cup Holding,
                        pc'[t] \notin BeforeMint,
                        pc'[t] \in Holding => job'[t].auth = a
                 PROVE  TokenOutcome'
    <2>1. CASE RequireSuccess(t) \/ EffectConsume(t) \/ Validate(t)
      BY <2>1, TokenOutcomeBefore
    <2>2. CASE RevokeToken(t)
      BY <1>1, <2>2, RevokeStep, <1>3 DEF BeforeMint, Holding
    <2>3. CASE MintToken(t) \/ Lookup(t) \/ Revalidate(t) \/ PutContent(t) \/ CollectEvidence(t)
      <3>1. pc[t] \in {"mint"} \cup Holding
        BY <2>3 DEF MintToken, Lookup, Revalidate, PutContent, CollectEvidence, At, Holding
      <3>2. pc'[t] \in Holding => job'[t].auth = job[t].auth
        <4>1. CASE MintToken(t) \/ Lookup(t) \/ Revalidate(t)
          BY <4>1 DEF MintToken, Lookup, Revalidate, Return, TypeOK, Holding
        <4>2. CASE PutContent(t) \/ CollectEvidence(t)
          BY <4>2 DEF PutContent, CollectEvidence, At, TypeOK, Job
        <4>3. QED
          BY <2>3, <4>1, <4>2
      <3>3. pc'[t] \notin BeforeMint
        BY <2>3 DEF MintToken, Lookup, Revalidate, PutContent, CollectEvidence, Goto, Return,
           TypeOK, BeforeMint
      <3>4. QED
        BY <1>1, <1>3, <3>1, <3>2, <3>3
    <2>4. QED
      BY <2>1, <2>2, <2>3 DEF EffectStep
  <1>4. ASSUME NEW b \in Authority, b # a
        PROVE  TokenOf(b)'
    <2>1. \A u \in Thread :
            /\ Serves(u, b, Holding)' <=> Serves(u, b, Holding)
            /\ Serves(u, b, BeforeMint \cup Holding)' =>
                 Serves(u, b, BeforeMint \cup Holding) /\ job'[u] = job[u]
            /\ Serves(u, b, {"lookup", "revalidate", "put"})' <=>
                 Serves(u, b, {"lookup", "revalidate", "put"})
      BY <1>0, <1>1, <1>3, <1>4 DEF Serves, Holding
    <2>2. /\ outcome'[b] = outcome[b] /\ minted'[b] = minted[b] /\ written'[b] = written[b]
          /\ (b \in tokens' <=> b \in tokens) /\ (b \in abandoned => b \in abandoned')
      <3>1. CASE MintToken(t)
        BY <1>1, <1>4, <3>1 DEF MintToken, TypeOK
      <3>2. CASE PutContent(t)
        BY <1>1, <1>4, <3>2 DEF PutContent, TypeOK
      <3>3. CASE RevokeToken(t)
        BY <1>1, <1>4, <3>3 DEF RevokeToken, Finish, TypeOK
      <3>4. CASE \/ RequireSuccess(t) \/ EffectConsume(t) \/ Validate(t) \/ Lookup(t)
                 \/ Revalidate(t) \/ CollectEvidence(t)
        BY <3>4 DEF RequireSuccess, EffectConsume, Consume, Validate, Lookup, Revalidate,
           CollectEvidence, providerVars
      <3>5. QED
        BY <3>1, <3>2, <3>3, <3>4 DEF EffectStep
    <2>3. QED
      BY <1>2, <2>1, <2>2, TokenOfFrame
  <1>5. TokenOf(a)'
    <2>1. CASE MintToken(t)
      <3>1. /\ pc[t] = "mint" /\ minted[a] = 0 /\ written[a] = 0
            /\ \A u \in Thread \ {t} : ~Serves(u, a, Holding)
        BY <1>1, <2>1 DEF MintToken, At, EffectFence, WriteOnce, AloneAt, Serves
      <3>2. a \notin tokens /\ outcome[a] \notin Accepted
        BY <1>2, <3>1 DEF TokenOf
      <3>3. written' = written
        BY <2>1 DEF MintToken
      <3>4. \/ /\ pc'[t] = "lookup" /\ job' = job /\ outcome' = outcome
               /\ a \in tokens' /\ minted'[a] = 1
            \/ /\ pc'[t] = "idle" /\ outcome'[a] = "FAILED"
               /\ a \notin tokens' \/ (minted'[a] = 1 /\ a \in abandoned')
        BY <1>1, <2>1, <3>1, <3>2 DEF MintToken, Goto, Return, TypeOK
      <3>5. ~job[t].accepted
        BY <1>1, <1>2, <3>1 DEF TokenOf, Serves, BeforeMint
      <3>6. \A u \in Thread :
              /\ Serves(u, a, Holding)' <=> u = t /\ pc'[t] = "lookup"
              /\ Serves(u, a, BeforeMint \cup Holding)' /\ job'[u].accepted =>
                   Serves(u, a, BeforeMint \cup Holding) /\ job[u].accepted
        BY <1>0, <1>1, <3>1, <3>4, <3>5 DEF Serves, BeforeMint, Holding
      <3>7. \A u \in Thread : Serves(u, a, {"lookup", "revalidate", "put"})'
              => Serves(u, a, Holding)'
        BY DEF Serves, Holding
      <3>8. /\ outcome'[a] \notin Accepted
            /\ outcome'[a] \notin {"COMPLETE", "ACCEPTED_EVIDENCE_INCOMPLETE"}
        BY <3>2, <3>4 DEF Accepted
      <3>9. \A u \in Thread : ~(Serves(u, a, BeforeMint \cup Holding)' /\ job'[u].accepted)
        <4>0. written[a] # 1
          BY <3>1
        <4>1. \A u \in Thread : ~(Serves(u, a, BeforeMint \cup Holding) /\ job[u].accepted)
          BY <1>2, <4>0, Zenon DEF TokenOf
        <4>2. QED
          BY <3>6, <4>1
      <3>10. a \in tokens' => /\ minted'[a] = 1
                              /\ Serves(t, a, Holding)' \/ a \in abandoned'
        BY <3>4, <3>6
      <3>11. \A u \in Thread : Serves(u, a, Holding)' => a \in tokens'
        BY <3>4, <3>6
      <3>12. QED
        BY <3>7, <3>8, <3>9, <3>10, <3>11 DEF TokenOf
    <2>2. CASE Lookup(t) \/ Revalidate(t)
      <3>1. /\ UNCHANGED <<job, tokens, minted, written, outcome, abandoned>>
            /\ pc[t] \in {"lookup", "revalidate"} /\ pc'[t] \in {"revalidate", "put", "revoke"}
        BY <2>2 DEF Lookup, Revalidate, At, Goto, TypeOK, providerVars
      <3>2. \A u \in Thread :
              /\ Serves(u, a, Holding)' <=> Serves(u, a, Holding)
              /\ Serves(u, a, BeforeMint \cup Holding)' => Serves(u, a, BeforeMint \cup Holding)
              /\ Serves(u, a, {"lookup", "revalidate", "put"})' =>
                   Serves(u, a, {"lookup", "revalidate", "put"})
        BY <1>0, <1>1, <3>1 DEF Serves, Holding
      <3>3. QED
        BY <1>2, <3>1, <3>2, TokenOfFrame
    <2>3. CASE PutContent(t)
      <3>1. pc[t] = "put" /\ written[a] = 0 /\ a \in tokens /\ ~job[t].accepted
        BY <1>1, <1>2, <2>3 DEF PutContent, At, WriteOnce, TokenOf, Serves, Holding
      <3>2. /\ UNCHANGED <<tokens, minted, outcome, abandoned>>
            /\ written'[a] \in {0, 1}
            /\ \/ pc'[t] = "evidence" /\ written'[a] = 1
               \/ pc'[t] = "revoke" /\ job' = job
        BY <1>1, <2>3, <3>1 DEF PutContent, At, Goto, TypeOK
      <3>3. outcome[a] \notin Accepted
        BY <1>2, <3>1 DEF TokenOf
      <3>4. /\ Serves(t, a, Holding)'
            /\ \A u \in Thread : ~Serves(u, a, {"lookup", "revalidate", "put"})'
        BY <1>0, <1>1, <1>3, <2>3, <3>1, <3>2 DEF WriteOnce, AloneAt, Serves, Holding
      <3>5. \A u \in Thread : Serves(u, a, BeforeMint \cup Holding)' /\ job'[u].accepted =>
              written'[a] = 1
        BY <1>0, <1>2, <3>1, <3>2 DEF TokenOf, Serves
      <3>6. QED
        BY <1>2, <3>1, <3>2, <3>3, <3>4, <3>5 DEF TokenOf, Accepted
    <2>4. CASE CollectEvidence(t)
      <3>1. /\ UNCHANGED <<tokens, minted, written, outcome, abandoned>>
            /\ pc[t] = "evidence" /\ pc'[t] = "revoke"
            /\ job'[t].accepted = job[t].accepted
        BY <2>4 DEF CollectEvidence, At, Goto, TypeOK, Job, providerVars
      <3>2. \A u \in Thread :
              /\ Serves(u, a, Holding)' <=> Serves(u, a, Holding)
              /\ Serves(u, a, BeforeMint \cup Holding)' /\ job'[u].accepted =>
                   Serves(u, a, BeforeMint \cup Holding) /\ job[u].accepted
              /\ Serves(u, a, {"lookup", "revalidate", "put"})' =>
                   Serves(u, a, {"lookup", "revalidate", "put"})
        BY <1>0, <1>1, <1>3, <3>1 DEF Serves, Holding
      <3>3. QED
        BY <1>2, <3>1, <3>2, TokenOfFrame
    <2>5. CASE RevokeToken(t)
      <3>1. /\ pc[t] = "revoke" /\ job[t] \in Job
            /\ UNCHANGED <<minted, written, abandoned>>
        BY <2>5 DEF RevokeToken, At, TypeOK
      <3>2. \A u \in Thread \ {t} : ~Serves(u, a, Holding)
        BY <1>1, <3>1 DEF WriteOnce, AloneAt, Serves, Holding
      <3>3. \A u \in Thread : ~Serves(u, a, {"lookup", "revalidate", "put"})'
        BY <1>0, <1>1, <2>5, <3>1, <3>2, RevokeStep DEF Serves, Holding
      <3>4. job[t].accepted => written[a] = 1
        BY <1>1, <1>2, <3>1 DEF TokenOf, Serves, Holding
      <3>5. \A u \in Thread : u # t /\ Serves(u, a, BeforeMint \cup Holding)' /\ job'[u].accepted
                                => written[a] = 1
        BY <1>0, <1>2 DEF TokenOf, Serves
      <3>6. a \in tokens' => a \in tokens
        BY <2>5 DEF RevokeToken
      <3>7. ASSUME NEW revoked \in BOOLEAN, Finish(t, revoked), revoked => a \notin tokens'
            PROVE  TokenOf(a)'
        <4>1. pc'[t] = "idle" /\ outcome'[a] = Report(job[t], revoked)
          BY <1>1, <3>7 DEF Finish, Return, TypeOK
        <4>2. /\ Report(job[t], revoked) \in Accepted => job[t].accepted
              /\ ~revoked => Report(job[t], revoked) \in Unconfirmed
              /\ ~revoked => Report(job[t], revoked) \notin {"COMPLETE", "ACCEPTED_EVIDENCE_INCOMPLETE"}
          BY <3>1 DEF Report, Accepted, Unconfirmed, Job
        <4>3. \A u \in Thread : ~Serves(u, a, Holding)'
          BY <1>0, <3>2, <4>1 DEF Serves, Holding
        <4>4. ~Serves(t, a, BeforeMint \cup Holding)'
          BY <4>1 DEF Serves, BeforeMint, Holding
        <4>5. a \in tokens' => minted'[a] = 1 /\ outcome'[a] \in Unconfirmed
          BY <1>2, <3>1, <3>6, <3>7, <4>1, <4>2 DEF TokenOf
        <4>6. /\ outcome'[a] \in Accepted => written'[a] = 1
              /\ outcome'[a] \in {"COMPLETE", "ACCEPTED_EVIDENCE_INCOMPLETE"} => a \notin tokens'
          BY <3>1, <3>4, <3>7, <4>1, <4>2
        <4>7. QED
          BY <3>1, <3>3, <3>5, <4>4, <4>5, <4>6 DEF TokenOf
      <3>8. CASE job' = [job EXCEPT ![t].attempts = @ + 1] /\ UNCHANGED <<pc, outcome>>
        <4>1. /\ pc'[t] = "revoke" /\ job'[t].auth = a /\ job'[t].accepted = job[t].accepted
          BY <1>1, <3>1, <3>8 DEF TypeOK, Job
        <4>2. Serves(t, a, Holding)'
          BY <4>1 DEF Serves, Holding
        <4>3. \A u \in Thread : Serves(u, a, BeforeMint \cup Holding)' /\ job'[u].accepted
                                => written[a] = 1
          BY <3>4, <3>5, <4>1
        <4>4. QED
          BY <1>2, <3>1, <3>3, <3>6, <3>8, <4>2, <4>3 DEF TokenOf
      <3>9. QED
        <4>1. CASE a \in tokens /\ tokens' = tokens \ {a} /\ Finish(t, TRUE)
          BY <3>7, <4>1
        <4>2. CASE Finish(t, FALSE)
          BY <3>7, <4>2
        <4>3. QED
          BY <1>1, <2>5, <3>8, <4>1, <4>2 DEF RevokeToken
    <2>6. ~RequireSuccess(t) /\ ~EffectConsume(t) /\ ~Validate(t)
      BY <1>3 DEF RequireSuccess, EffectConsume, Consume, Validate, At, Holding
    <2>7. QED
      BY <2>1, <2>2, <2>3, <2>4, <2>5, <2>6 DEF EffectStep
  <1>6. QED
    <2>1. \A b \in Authority : TokenOf(b)'
      BY <1>4, <1>5
    <2>2. QED
      BY <1>2, <2>1, TokenOutcomeJoin

-----------------------------------------------------------------------------
(***************************************************************************)
(* What the runs check, for every value of the constants.                  *)
(***************************************************************************)

LEMMA InitPromise == Init => PromiseInv
  <1> SUFFICES ASSUME Init PROVE PromiseInv
    OBVIOUS
  <1>1. CellOutput
    <2>1. ASSUME NEW a \in Authority PROVE minted[a] # 1
      <3>1. minted[a] = 0
        BY DEF Init
      <3>2. QED
        BY <3>1
    <2>2. success = {} /\ \A t \in Thread : pc[t] = "idle"
      BY DEF Init, StoreInit
    <2>3. QED
      BY <2>1, <2>2 DEF CellOutput, Serves, Proving
  <1>2. TokenOutcome
    BY DEF Init, TokenOutcome, ReportsAreTrue, NoSilentToken, Serves, BeforeMint, Holding,
       Accepted
  <1>3. QED
    BY <1>1, <1>2, InitFence DEF PromiseInv

LEMMA PromiseStep ==
  ASSUME PromiseInv, [Next]_vars
  PROVE  PromiseInv'
  <1>1. FenceInv /\ CellOutput /\ TokenOutcome /\ TypeOK
    BY DEF PromiseInv, FenceInv
  <1>2. ASSUME NEW t \in Thread, Prune(t) \/ RunStep(t) PROVE PromiseInv'
    BY <1>1, <1>2, RunFence, CellOutputRun, TokenOutcomeBefore DEF PromiseInv
  <1>3. ASSUME NEW t \in Thread, EffectStep(t) PROVE PromiseInv'
    <2>1. FenceInv'
      BY <1>1, <1>3, EffectTypeOK, UniqueRowsStep, EffectKeepsCellFence, EffectFenceStep,
         WriteOnceStep DEF FenceInv
    <2>2. QED
      BY <1>1, <1>3, <2>1, CellOutputEffect, TokenOutcomeEffect DEF PromiseInv
  <1>4. CASE \/ Crash \/ ForeignWrite \/ TickClock \/ UNCHANGED vars
             \/ \E t \in Thread : Arrive(t) \/ Raise(t)
    BY <1>1, <1>4, EnvironmentFence, CellOutputEnvironment, TokenOutcomeEnvironment
       DEF PromiseInv
  <1>5. QED
    BY <1>2, <1>3, <1>4 DEF Next, Step

\* The fences, what is known of the cell's output and of the token, together.
THEOREM Promises == Spec => []PromiseInv
  BY InitPromise, PromiseStep, PTL DEF Spec

\* A token exists only for the exact intent that a cell of that authority
\* emitted, and that cell is gone for good.
THEOREM CredentialLate == Spec => []CredentialAfterCell
  <1>1. ASSUME PromiseInv, NEW a \in Authority, minted[a] > 0
        PROVE  /\ spawned[a] > 0 /\ a \notin alive
               /\ emitted[a] = Envelope[a].intent
               /\ \A t \in Thread : job[t] # None /\ job[t].auth = a => pc[t] # "running"
    <2>1. minted[a] = 1
      BY <1>1 DEF PromiseInv, FenceInv, EffectFence
    <2>2. CellLeft(a, Envelope[a].intent)
      BY <1>1, <2>1 DEF PromiseInv, CellOutput
    <2>3. QED
      BY <2>2 DEF CellLeft, Serves
  <1>2. PromiseInv => CredentialAfterCell
    BY <1>1 DEF CredentialAfterCell
  <1>3. QED
    BY <1>2, Promises, PTL

\* A report of an accepted consequence is true.
THEOREM TrueReports == Spec => []ReportsAreTrue
  <1>1. PromiseInv => ReportsAreTrue
    BY DEF PromiseInv, TokenOutcome
  <1>2. QED
    BY <1>1, Promises, PTL

\* No token stays valid in silence.
THEOREM TokensAccounted == Spec => []NoSilentToken
  <1>1. PromiseInv => NoSilentToken
    BY DEF PromiseInv, TokenOutcome
  <1>2. QED
    BY <1>1, Promises, PTL

-----------------------------------------------------------------------------
(***************************************************************************)
(* CellHost implements GovernedConsequence.                                *)
(***************************************************************************)

Refines == Abstract!Next \/ UNCHANGED <<lifeBar, tokens>>

\* Where the mapping puts an authority.
LEMMA LifeOf ==
  ASSUME NEW a \in Authority
  PROVE  /\ spawned[a] = 0 /\ minted[a] = 0 => lifeBar[a] = "signed"
         /\ spawned[a] = 1 /\ minted[a] = 0 =>
              lifeBar[a] = IF a \in alive THEN "running"
                           ELSE IF emitted[a] = Envelope[a].intent THEN "proved" ELSE "wasted"
         /\ spawned[a] = 1 /\ minted[a] = 1 /\ written[a] = 0 => lifeBar[a] = "credentialed"
         /\ spawned[a] = 1 /\ minted[a] = 1 /\ written[a] = 1 => lifeBar[a] = "consequence"
  BY DEF lifeBar

LEMMA LifeOfNext ==
  ASSUME NEW a \in Authority
  PROVE  /\ spawned'[a] = 1 /\ minted'[a] = 0 =>
              lifeBar'[a] = IF a \in alive' THEN "running"
                           ELSE IF emitted'[a] = Envelope[a].intent THEN "proved" ELSE "wasted"
         /\ spawned'[a] = 1 /\ minted'[a] = 1 /\ written'[a] = 0 => lifeBar'[a] = "credentialed"
         /\ spawned'[a] = 1 /\ minted'[a] = 1 /\ written'[a] = 1 => lifeBar'[a] = "consequence"
  BY DEF lifeBar

LEMMA LifeKept ==
  ASSUME NEW a \in Authority,
         spawned'[a] = spawned[a], minted'[a] = minted[a], written'[a] = written[a],
         emitted'[a] = emitted[a], a \in alive' <=> a \in alive
  PROVE  lifeBar'[a] = lifeBar[a]
  BY DEF lifeBar

LEMMA LifeAdvances ==
  ASSUME NEW a \in Authority, NEW from, NEW to, lifeBar[a] = from, lifeBar'[a] = to,
         \A b \in Authority : b # a => lifeBar'[b] = lifeBar[b]
  PROVE  Abstract!Advance(a, from, to)
  <1>1. lifeBar' = [lifeBar EXCEPT ![a] = lifeBar'[a]]
    <2>1. /\ DOMAIN lifeBar = Authority /\ DOMAIN lifeBar' = Authority
          /\ lifeBar = [b \in Authority |-> lifeBar[b]]
          /\ lifeBar' = [b \in Authority |-> lifeBar'[b]]
      BY DEF lifeBar
    <2> HIDE DEF lifeBar
    <2>2. QED
      BY <2>1
  <1>2. QED
    BY <1>1 DEF Abstract!Advance

LEMMA LifeAllKept ==
  ASSUME \A b \in Authority : lifeBar'[b] = lifeBar[b]
  PROVE  lifeBar' = lifeBar
  <1>1. /\ lifeBar = [b \in Authority |-> lifeBar[b]]
        /\ lifeBar' = [b \in Authority |-> lifeBar'[b]]
    BY DEF lifeBar
  <1>2. QED
    BY <1>1

\* Steps that touch neither cell nor token are not seen.
LEMMA UnseenRefines ==
  ASSUME UNCHANGED <<cellVars, minted, written, tokens>>
  PROVE  Refines
  <1>1. \A b \in Authority : lifeBar'[b] = lifeBar[b]
    BY LifeKept DEF cellVars
  <1>2. QED
    BY <1>1, LifeAllKept DEF Refines

LEMMA SpawnRefines ==
  ASSUME PromiseInv, NEW t \in Thread, SpawnCell(t)
  PROVE  Refines
  <1> USE DEF PromiseInv, FenceInv
  <1>1. PICK a \in Authority : a = job[t].auth
    BY DEF SpawnCell, At, TypeOK, Job
  <1>2. spawned[a] = 0 /\ minted[a] = 0
    <2>1. spawned[a] = 0
      BY <1>1 DEF SpawnCell, At, CellFence, Serves
    <2>2. minted[a] # 1
      BY <2>1 DEF CellOutput, CellLeft
    <2>3. QED
      BY <2>1, <2>2 DEF EffectFence
  <1>3. CASE UNCHANGED <<alive, spawned>>
    BY <1>3, UnseenRefines DEF SpawnCell, cellVars, providerVars
  <1>4. CASE alive' = alive \cup {a} /\ spawned' = [spawned EXCEPT ![a] = @ + 1]
    <2>1. /\ spawned'[a] = 1 /\ a \in alive' /\ UNCHANGED <<minted, written, emitted, tokens>>
          /\ \A b \in Authority : b # a =>
               spawned'[b] = spawned[b] /\ (b \in alive' <=> b \in alive)
      BY <1>2, <1>4 DEF SpawnCell, TypeOK, providerVars
    <2>2. lifeBar[a] = "signed" /\ lifeBar'[a] = "running"
      BY <1>2, <2>1, LifeOf, LifeOfNext
    <2>3. \A b \in Authority : b # a => lifeBar'[b] = lifeBar[b]
      BY <2>1, LifeKept
    <2>4. Abstract!StartCell(a)
      BY <2>1, <2>2, <2>3, LifeAdvances DEF Abstract!StartCell
    <2>5. QED
      BY <2>4 DEF Refines, Abstract!Next
  <1>5. QED
    BY <1>1, <1>3, <1>4 DEF SpawnCell

LEMMA TeardownRefines ==
  ASSUME PromiseInv, NEW t \in Thread, Teardown(t)
  PROVE  Refines
  <1> USE DEF PromiseInv, FenceInv
  <1>1. PICK a \in Authority : a = job[t].auth
    BY DEF Teardown, At, TypeOK, Job
  <1>2. spawned[a] = 1 /\ a \in alive /\ minted[a] = 0
    <2>1. spawned[a] = 1 /\ a \in alive
      BY <1>1 DEF Teardown, At, CellOutput, Serves
    <2>2. minted[a] # 1
      BY <2>1 DEF CellOutput, CellLeft
    <2>3. QED
      BY <2>1, <2>2 DEF EffectFence
  <1>3. UNCHANGED <<spawned, minted, written, tokens>>
    BY DEF Teardown, providerVars
  <1>4. \/ alive' = alive /\ emitted' = emitted
        \/ /\ alive' = alive \ {a}
           /\ \A b \in Authority : b # a => emitted'[b] = emitted[b]
    BY <1>1 DEF Teardown, TypeOK
  <1>5. CASE alive' = alive /\ emitted' = emitted
    BY <1>3, <1>5, UnseenRefines DEF cellVars
  <1>6. CASE /\ alive' = alive \ {a}
             /\ \A b \in Authority : b # a => emitted'[b] = emitted[b]
    <2>1. lifeBar[a] = "running"
      BY <1>2, LifeOf
    <2>2. lifeBar'[a] \in {"proved", "wasted"}
      BY <1>2, <1>3, <1>6, LifeOfNext
    <2>3. \A b \in Authority : b # a => lifeBar'[b] = lifeBar[b]
      BY <1>3, <1>6, LifeKept
    <2>4. Abstract!CellGone(a)
      BY <1>3, <2>1, <2>2, <2>3, LifeAdvances DEF Abstract!CellGone
    <2>5. QED
      BY <2>4 DEF Refines, Abstract!Next
  <1>7. QED
    BY <1>4, <1>5, <1>6

LEMMA MintRefines ==
  ASSUME PromiseInv, NEW t \in Thread, MintToken(t)
  PROVE  Refines
  <1> USE DEF PromiseInv, FenceInv
  <1>1. PICK a \in Authority : a = job[t].auth
    BY DEF MintToken, At, TypeOK, Job
  <1>2. minted[a] = 0 /\ written[a] = 0 /\ CellLeft(a, Envelope[a].intent)
    <2>1. minted[a] = 0 /\ written[a] = 0
      BY <1>1 DEF MintToken, At, EffectFence, WriteOnce, Serves
    <2>2. CellLeft(a, Envelope[a].intent)
      BY <1>1 DEF MintToken, At, CellOutput, Serves, Proving
    <2>3. QED
      BY <2>1, <2>2
  <1>3. CASE UNCHANGED <<tokens, minted>>
    BY <1>3, UnseenRefines DEF MintToken
  <1>4. CASE tokens' = tokens \cup {a} /\ minted' = [minted EXCEPT ![a] = @ + 1]
    <2>1. /\ minted'[a] = 1 /\ UNCHANGED <<cellVars, written>>
          /\ \A b \in Authority : b # a => minted'[b] = minted[b]
      BY <1>2, <1>4 DEF MintToken, TypeOK
    <2>2. lifeBar[a] = "proved" /\ lifeBar'[a] = "credentialed"
      BY <1>2, <2>1, LifeOf, LifeOfNext DEF CellLeft, cellVars
    <2>3. \A b \in Authority : b # a => lifeBar'[b] = lifeBar[b]
      BY <2>1, LifeKept DEF cellVars
    <2>4. Abstract!IssueCredential(a)
      BY <1>4, <2>2, <2>3, LifeAdvances DEF Abstract!IssueCredential
    <2>5. QED
      BY <2>4 DEF Refines, Abstract!Next
  <1>5. QED
    BY <1>1, <1>3, <1>4 DEF MintToken

LEMMA PutRefines ==
  ASSUME PromiseInv, NEW t \in Thread, PutContent(t)
  PROVE  Refines
  <1> USE DEF PromiseInv, FenceInv
  <1>1. PICK a \in Authority : a = job[t].auth
    BY DEF PutContent, At, TypeOK, Job
  <1>2. minted[a] = 1 /\ written[a] = 0 /\ spawned[a] = 1 /\ a \in tokens
    <2>1. minted[a] = 1 /\ written[a] = 0
      BY <1>1 DEF PutContent, At, WriteOnce, Serves, Holding
    <2>2. spawned[a] = 1
      BY <2>1 DEF CellOutput, CellLeft
    <2>3. a \in tokens
      BY <1>1 DEF PutContent, At, TokenOutcome, Serves
    <2>4. QED
      BY <2>1, <2>2, <2>3
  <1>3. UNCHANGED <<cellVars, minted, tokens>>
    BY DEF PutContent
  <1>4. CASE UNCHANGED written
    BY <1>3, <1>4, UnseenRefines
  <1>5. CASE written' = [written EXCEPT ![a] = @ + 1]
    <2>1. written'[a] = 1 /\ \A b \in Authority : b # a => written'[b] = written[b]
      BY <1>2, <1>5 DEF TypeOK
    <2>2. lifeBar[a] = "credentialed" /\ lifeBar'[a] = "consequence"
      BY <1>2, <1>3, <2>1, LifeOf, LifeOfNext DEF cellVars
    <2>3. \A b \in Authority : b # a => lifeBar'[b] = lifeBar[b]
      BY <1>3, <2>1, LifeKept DEF cellVars
    <2>4. Abstract!Write(a)
      BY <1>2, <1>3, <2>2, <2>3, LifeAdvances DEF Abstract!Write
    <2>5. QED
      BY <2>4 DEF Refines, Abstract!Next
  <1>6. QED
    BY <1>1, <1>4, <1>5 DEF PutContent

LEMMA RevokeRefines ==
  ASSUME PromiseInv, NEW t \in Thread, RevokeToken(t)
  PROVE  Refines
  <1> USE DEF PromiseInv, FenceInv
  <1>1. PICK a \in Authority : a = job[t].auth
    BY DEF RevokeToken, At, TypeOK, Job
  <1>2. UNCHANGED <<cellVars, minted, written>>
    BY DEF RevokeToken
  <1>3. tokens' = tokens \/ (a \in tokens /\ tokens' = tokens \ {a})
    BY <1>1 DEF RevokeToken
  <1>4. lifeBar' = lifeBar
    <2>1. \A b \in Authority : lifeBar'[b] = lifeBar[b]
      BY <1>2, LifeKept DEF cellVars
    <2>2. QED
      BY <2>1, LifeAllKept
  <1>5. CASE tokens' = tokens
    BY <1>4, <1>5 DEF Refines
  <1>6. CASE a \in tokens /\ tokens' = tokens \ {a}
    <2>1. Abstract!Revoke(a)
      BY <1>4, <1>6 DEF Abstract!Revoke
    <2>2. QED
      BY <2>1 DEF Refines, Abstract!Next
  <1>7. QED
    BY <1>3, <1>5, <1>6

\* Every step is one of the promise's or none.
LEMMA StepRefines == PromiseInv /\ [Next]_vars => Refines
  <1> SUFFICES ASSUME PromiseInv, [Next]_vars PROVE Refines
    OBVIOUS
  <1>1. ASSUME NEW t \in Thread,
               \/ Prune(t) \/ RunConsume(t) \/ VerifyAgain(t) \/ CollectOutput(t)
               \/ CheckOutput(t) \/ RecordSuccess(t) \/ RequireSuccess(t)
               \/ EffectConsume(t) \/ Validate(t) \/ Lookup(t) \/ Revalidate(t)
               \/ CollectEvidence(t) \/ Arrive(t) \/ Raise(t)
        PROVE  Refines
    <2>1. UNCHANGED <<cellVars, minted, written, tokens>>
      BY <1>1 DEF Prune, PruneThen, RunConsume, Consume, VerifyAgain, CollectOutput, CheckOutput,
         RecordSuccess, RequireSuccess, EffectConsume, Validate, Lookup, Revalidate,
         CollectEvidence, Arrive, RunRequest, EffectRequest, Raise, providerVars
    <2>2. QED
      BY <2>1, UnseenRefines
  <1>2. CASE Crash \/ ForeignWrite \/ TickClock \/ UNCHANGED vars
    <2>1. UNCHANGED <<cellVars, minted, written, tokens>>
      BY <1>2 DEF Crash, ForeignWrite, TickClock, vars, providerVars
    <2>2. QED
      BY <2>1, UnseenRefines
  <1>3. ASSUME NEW t \in Thread, Step(t) PROVE Refines
    BY <1>1, <1>3, SpawnRefines, TeardownRefines, MintRefines, PutRefines, RevokeRefines
       DEF Step, RunStep, EffectStep
  <1>4. QED
    BY <1>1, <1>2, <1>3 DEF Next

LEMMA InitRefines == Init => Abstract!Init
  <1> SUFFICES ASSUME Init PROVE Abstract!Init
    OBVIOUS
  <1>1. \A a \in Authority : spawned[a] = 0 /\ minted[a] = 0
    BY DEF Init
  <1>2. \A a \in Authority : lifeBar[a] = "signed"
    BY <1>1, LifeOf
  <1>3. lifeBar = [a \in Authority |-> lifeBar[a]]
    BY DEF lifeBar
  <1>4. tokens = {}
    BY DEF Init
  <1>5. QED
    <2> HIDE DEF lifeBar
    <2>1. lifeBar = [a \in Authority |-> "signed"]
      BY <1>2, <1>3
    <2>2. QED
      BY <2>1, <1>4 DEF Abstract!Init

\* The host keeps the promise of GovernedConsequence for every authority,
\* whatever its threads, its pruned store and its crashes do: one disposable
\* cell, then one credential, then at most one write while it is valid.
THEOREM HostKeepsPromise == Spec => ImplementsConsequence
  <1>1. PromiseInv /\ [Next]_vars => [Abstract!Next]_<<lifeBar, tokens>>
    BY StepRefines DEF Refines
  <1>2. QED
    BY <1>1, InitRefines, Promises, PTL
       DEF Spec, ImplementsConsequence, Abstract!Spec, Abstract!vars
=============================================================================
