------------------------------ MODULE CellHost ------------------------------
(***************************************************************************)
(* The governed cell host (cell_host/app.py): FastAPI worker threads serve *)
(* /v1/cells/run and /v1/effects/github/file-update.  A run spawns one     *)
(* disposable cell under a signed authority and binds its output; an       *)
(* effect spends that binding: the broker mints a repository token,        *)
(* re-reads the target, performs one conditional write and revokes the     *)
(* token.  Any two steps of two threads may interleave, the host may       *)
(* crash between any two steps, and every call to the provider may be      *)
(* refused, lost on the way, or performed with its answer lost.            *)
(***************************************************************************)
EXTENDS ReplayStore

CONSTANTS
  Thread,              \* worker threads of the single uvicorn process
  Blob,                \* blob shas of the target file
  Before,              \* Before[i] : expected_blob_sha of intent i
  After,               \* After[i]  : sha of the content intent i writes
  RevocationAttempts,  \* GitHubAppConfig.revocation_attempts
  MaxCrashes,          \* bound on host crashes
  MaxForeignWrites,    \* bound on writes to the target by somebody else
  None

ASSUME HostAssumption ==
  /\ Before \in [Intent -> Blob] /\ After \in [Intent -> Blob]
  /\ RevocationAttempts \in 1..5
  /\ MaxCrashes \in Nat /\ MaxForeignWrites \in Nat
  /\ None \notin Intent /\ None \notin Blob

VARIABLES
  pc,        \* pc[t]  : the step thread t takes next, "idle" between requests
  job,       \* job[t] : the local variables of the request t serves
  alive,     \* authorities whose cell exists on the host
  emitted,   \* emitted[a] : output of a's cell once it is confirmed destroyed
  tokens,    \* authorities whose installation token is valid at the provider
  target,    \* blob sha of the target file at the provider
  outcome,   \* outcome[a] : how the effect of a ended, as execute() reports it
  crashes, foreign,
  \* observations, read by no action
  spawned,   \* spawned[a] : cells started under a
  minted,    \* minted[a]  : tokens minted under a
  written,   \* written[a] : writes of a the provider has applied
  abandoned  \* tokens whose holder is gone or never learnt them

cellVars     == <<alive, emitted, spawned>>
providerVars == <<tokens, target, minted, written, abandoned, foreign>>
vars == <<clock, storeVars, pc, job, cellVars, providerVars, outcome, crashes>>

RunSteps    == {"run_prune", "run_consume", "verify", "spawn", "running", "teardown",
                "record_check", "record_prune", "record"}
BeforeMint  == {"effect_prune", "require", "consume_prune", "effect_consume",
                "validate", "mint"}
Holding     == {"lookup", "revalidate", "put", "evidence", "revoke"}
IntentKnown == {"record_prune", "record"} \cup BeforeMint \cup Holding
PC          == {"idle"} \cup RunSteps \cup BeforeMint \cup Holding

Accepted == {"COMPLETE", "ACCEPTED_EVIDENCE_INCOMPLETE", "REVOCATION_NOT_CONFIRMED"}
Unconfirmed == {"REVOCATION_NOT_CONFIRMED", "FAILED_REVOCATION_NOT_CONFIRMED"}
Verdict  == {"none", "FAILED"} \cup Accepted \cup Unconfirmed

Job == [auth : Authority, intent : Intent \cup {None}, accepted : BOOLEAN,
        observed : Blob \cup {None}, attempts : Nat]

Request(a, i) == [auth |-> a, intent |-> i, accepted |-> FALSE,
                  observed |-> None, attempts |-> 0]

TypeOK ==
  /\ StoreTypeOK
  /\ pc \in [Thread -> PC]
  /\ job \in [Thread -> Job \cup {None}]
  /\ \A t \in Thread :
       /\ pc[t] # "idle" => job[t] \in Job
       /\ pc[t] \in IntentKnown => job[t].intent \in Intent
  /\ alive \subseteq Authority /\ tokens \subseteq Authority
  /\ abandoned \subseteq Authority
  /\ emitted \in [Authority -> Intent \cup {None}]
  /\ target \in Blob
  /\ outcome \in [Authority -> Verdict]
  /\ spawned \in [Authority -> Nat] /\ minted \in [Authority -> Nat]
  /\ written \in [Authority -> Nat]
  /\ crashes \in Nat /\ foreign \in Nat

Init ==
  /\ StoreInit
  /\ pc = [t \in Thread |-> "idle"]
  /\ job = [t \in Thread |-> None]
  /\ alive = {} /\ tokens = {} /\ abandoned = {}
  /\ emitted = [a \in Authority |-> None]
  /\ target \in Blob
  /\ outcome = [a \in Authority |-> "none"]
  /\ spawned = [a \in Authority |-> 0]
  /\ minted = [a \in Authority |-> 0]
  /\ written = [a \in Authority |-> 0]
  /\ crashes = 0 /\ foreign = 0

-----------------------------------------------------------------------------
At(t, step)   == pc[t] = step
Goto(t, step) == pc' = [pc EXCEPT ![t] = step]
Return(t)     == pc' = [pc EXCEPT ![t] = "idle"] /\ job' = [job EXCEPT ![t] = None]

\* Each prune_expired() is a transaction of its own, ahead of the one it serves.
PruneThen(t, at, next) ==
  /\ At(t, at)
  /\ PruneExpired
  /\ Goto(t, next)
  /\ UNCHANGED <<clock, job, cellVars, providerVars, outcome, crashes>>

Prune(t) ==
  \/ PruneThen(t, "run_prune", "run_consume")
  \/ PruneThen(t, "record_prune", "record")
  \/ PruneThen(t, "effect_prune", "require")
  \/ PruneThen(t, "consume_prune", "effect_consume")

\* consume(): on a conflict the request ends with ReplayDetected (409).
Consume(t, at, stage, next) ==
  /\ At(t, at)
  /\ \/ ConsumeRow(job[t].auth, stage) /\ Goto(t, next) /\ UNCHANGED job
     \/ Fenced(job[t].auth, stage) /\ Return(t) /\ UNCHANGED storeVars
  /\ UNCHANGED <<clock, cellVars, providerVars, outcome, crashes>>

-----------------------------------------------------------------------------
(* POST /v1/cells/run.  Requests refused before they reach the store (bad  *)
(* signature, artifact or isolation mismatch) change nothing.              *)
RunRequest(t, a) ==
  /\ At(t, "idle")
  /\ Current(a)
  /\ Goto(t, "run_prune")
  /\ job' = [job EXCEPT ![t] = Request(a, None)]
  /\ UNCHANGED <<clock, storeVars, cellVars, providerVars, outcome, crashes>>

RunConsume(t) == Consume(t, "run_consume", "cell_run", "verify")

\* runtime.run() verifies the authority again, and may refuse the host's
\* artifacts or the request's image: the cell_run row stays consumed.
VerifyAgain(t) ==
  /\ At(t, "verify")
  /\ \/ Current(job[t].auth) /\ Goto(t, "spawn") /\ UNCHANGED job
     \/ Return(t)
  /\ UNCHANGED <<clock, storeVars, cellVars, providerVars, outcome, crashes>>

\* The process of the cell is started, or cannot be.
SpawnCell(t) ==
  LET a == job[t].auth IN
  /\ At(t, "spawn")
  /\ \/ /\ alive' = alive \cup {a}
        /\ spawned' = [spawned EXCEPT ![a] = @ + 1]
        /\ Goto(t, "running")
        /\ UNCHANGED job
     \/ /\ Return(t)
        /\ UNCHANGED <<alive, spawned>>
  /\ UNCHANGED <<clock, storeVars, emitted, providerVars, outcome, crashes>>

\* The cell stops or is stopped: it emitted an intent with exit code 0 within
\* its time and output limits, or (None) it did not.
CollectOutput(t) ==
  /\ At(t, "running")
  /\ \E out \in Intent \cup {None} : job' = [job EXCEPT ![t].intent = out]
  /\ Goto(t, "teardown")
  /\ UNCHANGED <<clock, storeVars, cellVars, providerVars, outcome, crashes>>

\* Fault variant: the probe is not asked whether the cell is gone.
TeardownUnconfirmed(t) ==
  LET a == job[t].auth IN
  /\ At(t, "teardown")
  /\ alive' \in {alive, alive \ {a}}
  /\ emitted' = [emitted EXCEPT ![a] = job[t].intent]
  /\ IF job[t].intent # None /\ Envelope[a].brokered
       THEN Goto(t, "record_check") /\ UNCHANGED job
       ELSE Return(t)
  /\ UNCHANGED <<clock, storeVars, spawned, providerVars, outcome, crashes>>

\* Forced removal, then the probe.  A removal that times out, a cell that is
\* still there and a probe that fails all raise; the result is then lost.
Teardown(t) ==
  LET a == job[t].auth IN
  /\ At(t, "teardown")
  /\ \/ /\ alive' = alive \ {a}
        /\ emitted' = [emitted EXCEPT ![a] = job[t].intent]
        /\ IF job[t].intent # None /\ Envelope[a].brokered
             THEN Goto(t, "record_check") /\ UNCHANGED job
             ELSE Return(t)
     \/ /\ alive' \in {alive, alive \ {a}}
        /\ Return(t)
        /\ UNCHANGED emitted
  /\ UNCHANGED <<clock, storeVars, spawned, providerVars, outcome, crashes>>

\* Fault variant: the intent is not compared with the signed one.
AuthorizedForAny(a, i) == Current(a) /\ Envelope[a].brokered /\ i \in Intent

\* validate_effect_authority(): current, right capability, exact intent.
EffectAuthorized(a, i) ==
  Current(a) /\ Envelope[a].brokered /\ i = Envelope[a].intent

\* _record_successful_effect_output() up to the store.
CheckOutput(t) ==
  /\ At(t, "record_check")
  /\ IF EffectAuthorized(job[t].auth, job[t].intent)
       THEN Goto(t, "record_prune") /\ UNCHANGED job
       ELSE Return(t)
  /\ UNCHANGED <<clock, storeVars, cellVars, providerVars, outcome, crashes>>

RecordSuccess(t) ==
  LET a == job[t].auth IN
  /\ At(t, "record")
  /\ \/ RecordRow(a, job[t].intent)
     \/ ~RecordAllowed(a) /\ UNCHANGED storeVars
  /\ Return(t)
  /\ UNCHANGED <<clock, cellVars, providerVars, outcome, crashes>>

-----------------------------------------------------------------------------
(* POST /v1/effects/github/file-update, with any intent.                   *)
EffectRequest(t, a, i) ==
  /\ At(t, "idle")
  /\ Current(a)
  /\ Goto(t, "effect_prune")
  /\ job' = [job EXCEPT ![t] = Request(a, i)]
  /\ UNCHANGED <<clock, storeVars, cellVars, providerVars, outcome, crashes>>

RequireSuccess(t) ==
  /\ At(t, "require")
  /\ IF Bound(job[t].auth, job[t].intent)
       THEN Goto(t, "consume_prune") /\ UNCHANGED job
       ELSE Return(t)
  /\ UNCHANGED <<clock, storeVars, cellVars, providerVars, outcome, crashes>>

EffectConsume(t) == Consume(t, "effect_consume", "effect", "validate")

\* GitHubEffectBroker.execute() starts: a refusal here precedes any effect and
\* is one more 409, like the refusals of the store.
Validate(t) ==
  /\ At(t, "validate")
  /\ IF EffectAuthorized(job[t].auth, job[t].intent)
       THEN Goto(t, "mint") /\ UNCHANGED job
       ELSE Return(t)
  /\ UNCHANGED <<clock, storeVars, cellVars, providerVars, outcome, crashes>>

\* The mint is refused, or answered, or performed with the answer lost or
\* unusable: then a token nobody knows is valid at the provider.
MintToken(t) ==
  LET a == job[t].auth IN
  /\ At(t, "mint")
  /\ \/ /\ tokens' = tokens \cup {a}
        /\ minted' = [minted EXCEPT ![a] = @ + 1]
        /\ \/ Goto(t, "lookup") /\ UNCHANGED <<job, outcome, abandoned>>
           \/ /\ Return(t)
              /\ outcome' = [outcome EXCEPT ![a] = "FAILED"]
              /\ abandoned' = abandoned \cup {a}
     \/ /\ Return(t)
        /\ outcome' = [outcome EXCEPT ![a] = "FAILED"]
        /\ UNCHANGED <<tokens, minted, abandoned>>
  /\ UNCHANGED <<clock, storeVars, cellVars, target, written, foreign, crashes>>

\* Fault variant: a changed target leaves execute() without revocation.
LookupReturning(t) ==
  /\ At(t, "lookup")
  /\ \/ target = Before[job[t].intent] /\ Goto(t, "revalidate") /\ UNCHANGED job
     \/ Return(t)
  /\ UNCHANGED <<clock, storeVars, cellVars, providerVars, outcome, crashes>>

\* Target-state lookup: only the expected blob sha goes on.
Lookup(t) ==
  /\ At(t, "lookup")
  /\ \/ target = Before[job[t].intent] /\ Goto(t, "revalidate")
     \/ Goto(t, "revoke")
  /\ UNCHANGED <<clock, storeVars, job, cellVars, providerVars, outcome, crashes>>

\* Fault variant: an authority that expired leaves execute() without revocation.
RevalidateReturning(t) ==
  /\ At(t, "revalidate")
  /\ IF Current(job[t].auth) THEN Goto(t, "put") /\ UNCHANGED job ELSE Return(t)
  /\ UNCHANGED <<clock, storeVars, cellVars, providerVars, outcome, crashes>>

Revalidate(t) ==
  /\ At(t, "revalidate")
  /\ Goto(t, IF Current(job[t].auth) THEN "put" ELSE "revoke")
  /\ UNCHANGED <<clock, storeVars, job, cellVars, providerVars, outcome, crashes>>

\* The conditional write.  The provider applies it only on the expected sha;
\* 200/201 sets mutation_accepted, everything else raises.
PutContent(t) ==
  LET i == job[t].intent
      apply == /\ target = Before[i]
               /\ target' = After[i]
               /\ written' = [written EXCEPT ![job[t].auth] = @ + 1]
  IN
  /\ At(t, "put")
  /\ \/ /\ apply
        /\ job' = [job EXCEPT ![t].accepted = TRUE]
        /\ Goto(t, "evidence")
     \/ /\ apply \/ UNCHANGED <<target, written>>
        /\ Goto(t, "revoke")
        /\ UNCHANGED job
  /\ UNCHANGED <<clock, storeVars, cellVars, tokens, minted, abandoned, foreign,
                 outcome, crashes>>

\* after_blob_sha: from the response body, else from a second lookup, else none.
CollectEvidence(t) ==
  /\ At(t, "evidence")
  /\ \E sha \in {After[job[t].intent], target, None} :
       job' = [job EXCEPT ![t].observed = sha]
  /\ Goto(t, "revoke")
  /\ UNCHANGED <<clock, storeVars, cellVars, providerVars, outcome, crashes>>

\* Fault variant: once the write is accepted, revocation no longer matters.
ReportWrite(j, revoked) ==
  CASE j.accepted /\ j.observed = None -> "ACCEPTED_EVIDENCE_INCOMPLETE"
    [] j.accepted /\ j.observed # None -> "COMPLETE"
    [] ~j.accepted /\ revoked          -> "FAILED"
    [] OTHER -> "FAILED_REVOCATION_NOT_CONFIRMED"

\* What execute() returns or raises once revocation is over.
Report(j, revoked) ==
  CASE ~j.accepted /\ revoked  -> "FAILED"
    [] ~j.accepted /\ ~revoked -> "FAILED_REVOCATION_NOT_CONFIRMED"
    [] j.accepted /\ ~revoked  -> "REVOCATION_NOT_CONFIRMED"
    [] j.accepted /\ revoked /\ j.observed = None -> "ACCEPTED_EVIDENCE_INCOMPLETE"
    [] OTHER -> "COMPLETE"

Finish(t, revoked) ==
  /\ outcome' = [outcome EXCEPT ![job[t].auth] = Report(job[t], revoked)]
  /\ Return(t)

\* Fault variant: attempts are not counted.
RevokeForever(t) ==
  /\ At(t, "revoke")
  /\ \/ /\ job[t].auth \in tokens
        /\ tokens' = tokens \ {job[t].auth}
        /\ Finish(t, TRUE)
     \/ /\ tokens' \in {tokens, tokens \ {job[t].auth}}
        /\ UNCHANGED <<pc, job, outcome>>
  /\ UNCHANGED <<clock, storeVars, cellVars, target, minted, written, abandoned,
                 foreign, crashes>>

\* One DELETE of revoke_token(): only a 204 that arrives confirms; any other
\* answer is retried until the attempts are used up.
RevokeToken(t) ==
  LET a == job[t].auth IN
  /\ At(t, "revoke")
  /\ \/ /\ a \in tokens
        /\ tokens' = tokens \ {a}
        /\ Finish(t, TRUE)
     \/ /\ tokens' \in {tokens, tokens \ {a}}
        /\ IF job[t].attempts + 1 < RevocationAttempts
             THEN /\ job' = [job EXCEPT ![t].attempts = @ + 1]
                  /\ UNCHANGED <<pc, outcome>>
             ELSE Finish(t, FALSE)
  /\ UNCHANGED <<clock, storeVars, cellVars, target, minted, written, abandoned,
                 foreign, crashes>>

-----------------------------------------------------------------------------
\* The store raises (busy for its 5 s timeout), or the broker has no usable
\* configuration: the request ends with a 500 before any effect.
Raise(t) ==
  /\ pc[t] \in {"run_prune", "run_consume", "record_prune", "record", "effect_prune", "require",
                "consume_prune", "effect_consume", "validate"}
  /\ Return(t)
  /\ UNCHANGED <<clock, storeVars, cellVars, providerVars, outcome, crashes>>

\* The process dies and is restarted: its threads are gone, the store is not.
\* Cells and tokens live outside the process, and no startup code looks for them.
Crash ==
  /\ crashes < MaxCrashes
  /\ crashes' = crashes + 1
  /\ pc' = [t \in Thread |-> "idle"]
  /\ job' = [t \in Thread |-> None]
  /\ abandoned' = abandoned \cup
       {a \in tokens : \E t \in Thread : pc[t] \in Holding /\ job[t].auth = a}
  /\ UNCHANGED <<clock, storeVars, cellVars, tokens, target, minted, written,
                 foreign, outcome>>

\* Somebody else writes the target file.
ForeignWrite ==
  /\ foreign < MaxForeignWrites
  /\ foreign' = foreign + 1
  /\ target' \in Blob
  /\ UNCHANGED <<clock, storeVars, pc, job, cellVars, tokens, minted, written,
                 abandoned, outcome, crashes>>

TickClock ==
  /\ Tick
  /\ UNCHANGED <<storeVars, pc, job, cellVars, providerVars, outcome, crashes>>

RunStep(t) ==
  RunConsume(t) \/ VerifyAgain(t) \/ SpawnCell(t) \/ CollectOutput(t) \/ Teardown(t)
    \/ CheckOutput(t) \/ RecordSuccess(t)

EffectStep(t) ==
  RequireSuccess(t) \/ EffectConsume(t) \/ Validate(t) \/ MintToken(t)
    \/ Lookup(t) \/ Revalidate(t) \/ PutContent(t) \/ CollectEvidence(t)
    \/ RevokeToken(t)

Step(t) == Prune(t) \/ RunStep(t) \/ EffectStep(t)

Arrive(t) ==
  \E a \in Authority :
    RunRequest(t, a) \/ \E i \in Intent : EffectRequest(t, a, i)

Next ==
  \/ \E t \in Thread : Step(t) \/ Arrive(t) \/ Raise(t)
  \/ Crash
  \/ ForeignWrite
  \/ TickClock

Spec == Init /\ [][Next]_vars

\* Every step of a request returns: SQLite waits at most 5 s, the runtime's
\* commands and the cell have deadlines, every provider call has a timeout.
\* Nothing obliges requests to arrive, the clock to move or the host to crash.
FairSpec == Spec /\ \A t \in Thread : WF_vars(Step(t))

-----------------------------------------------------------------------------
(***************************************************************************)
(* PROPERTIES                                                              *)
(***************************************************************************)

\* "CAPPO signs exact one-time cell authority" (the cell-host doc, flow): one
\* authority starts at most one cell, is given at most one token and writes at
\* most once, although its fence rows are deleted when it expires, a crash may
\* separate the fence from what it guards, and requests race.
OneTimeAuthority ==
  \A a \in Authority : spawned[a] <= 1 /\ minted[a] <= 1 /\ written[a] <= 1

\* The unique grant_id of the fence: of two authorities signed under one grant,
\* the second is given a credential only once one of them has expired.
OneLiveEffectPerGrant ==
  \A a, b \in Authority :
    a # b /\ Envelope[a].grant = Envelope[b].grant /\ minted[a] > 0 /\ minted[b] > 0
      => Expired(a) \/ Expired(b)

\* "target credential lifetime and hostile workload lifetime intentionally do
\* not overlap" and the broker is never called without the cell: a token exists
\* only for the exact intent a cell of that authority emitted, and that cell is
\* gone for good.
CredentialAfterCell ==
  \A a \in Authority :
    minted[a] > 0 =>
      /\ spawned[a] > 0 /\ a \notin alive
      /\ emitted[a] = Envelope[a].intent
      /\ \A t \in Thread : job[t] # None /\ job[t].auth = a => pc[t] # "running"

\* A report of an accepted consequence is true: the write happened, and unless
\* the report says so the token is really revoked.
ReportsAreTrue ==
  \A a \in Authority :
    /\ outcome[a] \in Accepted => written[a] = 1
    /\ outcome[a] \in {"COMPLETE", "ACCEPTED_EVIDENCE_INCOMPLETE"} => a \notin tokens

\* No token stays valid in silence: a valid token is in the hands of a thread
\* that goes on to revoke it, or its outcome says revocation was not confirmed,
\* or its holder was lost in a crash or never learnt it.
NoSilentToken ==
  \A a \in tokens :
    \/ \E t \in Thread : pc[t] \in Holding /\ job[t].auth = a
    \/ outcome[a] \in Unconfirmed
    \/ a \in abandoned

\* Every request is answered (or lost in a crash), whatever fails on the way.
RequestsAnswered == \A t \in Thread : pc[t] # "idle" ~> pc[t] = "idle"

\* A token handed to a request is in the end revoked, reported as possibly
\* still valid, or abandoned by a crash or a lost mint answer.
TokenSettled ==
  \A a \in Authority :
    a \in tokens ~> \/ a \notin tokens
                    \/ outcome[a] \in Unconfirmed
                    \/ a \in abandoned

\* The doc's flow "preserve accepted consequence even if response evidence is
\* incomplete", read as: a write the provider applied is never reported failed.
AppliedNeverReportedFailed ==
  \A a \in Authority :
    written[a] > 0 => outcome[a] \notin {"FAILED", "FAILED_REVOCATION_NOT_CONFIRMED"}
-----------------------------------------------------------------------------
(***************************************************************************)
(* INDUCTIVE INVARIANTS.  The fence row of an authority outlives what it   *)
(* guards only until the authority expires and is pruned; from then on the *)
(* second look at the expiry (VerifyAgain, Validate) is what stops a replay. *)
(***************************************************************************)
OwnRow(a, stage) == \E r \in consumed : r.auth = a /\ r.stage = stage

\* Thread t serves a and has reached one of the given steps.
Serves(t, a, steps) == pc[t] \in steps /\ job[t].auth = a

AloneAt(t, a, steps) == \A u \in Thread : Serves(u, a, steps) => u = t

CellFence ==
  \A a \in Authority :
    /\ spawned[a] \in {0, 1}
    /\ spawned[a] = 1 /\ ~Expired(a) => OwnRow(a, "cell_run")
    /\ \A t \in Thread :
         /\ Serves(t, a, {"verify"}) /\ ~Expired(a) =>
              /\ OwnRow(a, "cell_run")
              /\ spawned[a] = 0
              /\ AloneAt(t, a, {"verify", "spawn"})
         /\ Serves(t, a, {"spawn"}) =>
              /\ ~Expired(a) => OwnRow(a, "cell_run")
              /\ spawned[a] = 0
              /\ AloneAt(t, a, {"spawn"})

\* Both tables' uniqueness constraints, as far as the model needs them.
UniqueRows ==
  \A r, s \in consumed : r.stage = s.stage /\ SameFence(r.auth, s.auth) => r = s

EffectFence ==
  \A a \in Authority :
    /\ minted[a] \in {0, 1}
    /\ minted[a] = 1 /\ ~Expired(a) => OwnRow(a, "effect")
    /\ \A t \in Thread :
         /\ Serves(t, a, {"validate"}) /\ ~Expired(a) =>
              /\ OwnRow(a, "effect")
              /\ minted[a] = 0
              /\ AloneAt(t, a, {"validate", "mint"} \cup Holding)
         /\ Serves(t, a, {"mint"}) =>
              /\ ~Expired(a) => OwnRow(a, "effect")
              /\ minted[a] = 0
              /\ AloneAt(t, a, {"mint"} \cup Holding)

WriteOnce ==
  \A a \in Authority :
    /\ written[a] \in {0, 1}
    /\ minted[a] = 0 => written[a] = 0
    /\ \A t \in Thread :
         /\ Serves(t, a, Holding) => minted[a] = 1 /\ AloneAt(t, a, Holding)
         /\ Serves(t, a, {"lookup", "revalidate", "put"}) => written[a] = 0

\* What the proofs show inductive, and a run checks: the row outlives the cell
\* and the token until expiry, and at most one thread stands between a row and
\* what it guards.
FenceInv == TypeOK /\ UniqueRows /\ CellFence /\ EffectFence /\ WriteOnce

\* One cell was started under a, it is gone for good and it emitted i.
CellLeft(a, i) ==
  /\ spawned[a] = 1 /\ a \notin alive /\ emitted[a] = i
  /\ \A t \in Thread : ~Serves(t, a, {"running", "teardown"})

\* The steps that rest on what the cell emitted.
Proving == {"record_check", "record_prune", "record", "consume_prune", "effect_consume",
            "validate", "mint"}

\* From the spawn to the credential: the thread that started the cell alone
\* waits for it, and whatever was proved of its output stays true.
CellOutput ==
  \A a \in Authority :
    /\ \A t \in Thread :
         /\ Serves(t, a, {"running", "teardown"}) =>
              /\ spawned[a] = 1 /\ a \in alive
              /\ AloneAt(t, a, {"running", "teardown"})
         /\ Serves(t, a, Proving) => CellLeft(a, job[t].intent)
         /\ Serves(t, a, {"mint"}) => job[t].intent = Envelope[a].intent
    /\ minted[a] = 1 => CellLeft(a, Envelope[a].intent)
    /\ \A r \in success : r.auth = a => CellLeft(a, r.digest)

\* From the credential to the report.
TokenOutcome ==
  /\ ReportsAreTrue /\ NoSilentToken
  /\ \A a \in Authority :
       /\ a \in tokens => minted[a] = 1
       /\ \A t \in Thread :
            /\ Serves(t, a, {"lookup", "revalidate", "put"}) => a \in tokens
            /\ Serves(t, a, BeforeMint \cup Holding) /\ job[t].accepted => written[a] = 1

\* FenceInv with what the cell and the token add to it: inductive again.
PromiseInv == FenceInv /\ CellOutput /\ TokenOutcome

-----------------------------------------------------------------------------
(* Refinement mapping.  A second cell, token or write under one authority  *)
(* maps to no life at all.                                                 *)
lifeBar == [a \in Authority |->
  CASE written[a] = 1 /\ minted[a] = 1 /\ spawned[a] = 1 -> "consequence"
    [] written[a] = 0 /\ minted[a] = 1 /\ spawned[a] = 1 -> "credentialed"
    [] minted[a] = 0 /\ spawned[a] = 1 /\ a \in alive     -> "running"
    [] minted[a] = 0 /\ spawned[a] = 1 /\ a \notin alive  ->
         IF emitted[a] = Envelope[a].intent THEN "proved" ELSE "wasted"
    [] minted[a] = 0 /\ spawned[a] = 0                    -> "signed"
    [] OTHER -> "broken"]

Abstract == INSTANCE GovernedConsequence WITH life <- lifeBar, valid <- tokens

\* The host with its threads, pruned store and crashes implements the promise
\* of GovernedConsequence: in order, once each, never a credential too early.
ImplementsConsequence == Abstract!Spec
=============================================================================
