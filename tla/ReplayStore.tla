---------------------------- MODULE ReplayStore ----------------------------
(***************************************************************************)
(* The durable replay fence of the governed cell host                      *)
(* (core/execution_cells/replay.py) and the validity window of a signed    *)
(* authority (core/execution_cells/models.py).  Every operator below is    *)
(* one SQLite transaction: BEGIN IMMEDIATE makes it atomic, and two of     *)
(* them issued by the same method call may be separated by other threads.  *)
(***************************************************************************)
EXTENDS Naturals

CONSTANTS
  Authority,    \* the CAPPO-signed authorities; (key_id, nonce) names one
  Intent,       \* structured effect intents, up to equality of their digest
  Envelope,     \* Envelope[a] : the fields of a's envelope that decisions read
  LegacyRows,   \* rows that may remain from before the expires_at column
  MaxClock      \* bound on the clock

Stage == {"cell_run", "effect"}
Row   == [auth : Authority, stage : Stage, dated : BOOLEAN]

\* Fault variants, here and below, are what a plausible bug would make of the
\* definition that follows them; no specification uses them.
\* Fault variant: the unique grant_id is forgotten.
SameNonce(a, b) == a = b

\* The two uniqueness constraints of both tables: the primary key (key_id,
\* nonce), which is the authority itself, and the unique grant_id.
SameFence(a, b) == a = b \/ Envelope[a].grant = Envelope[b].grant

ASSUME EnvelopeAssumption ==
  /\ \A a \in Authority :
       /\ Envelope[a].issued \in Nat /\ Envelope[a].expires \in Nat
       /\ Envelope[a].intent \in Intent
       /\ Envelope[a].brokered \in BOOLEAN
  /\ LegacyRows \subseteq {r \in Row : ~r.dated}
  /\ \A r, s \in LegacyRows : r.stage = s.stage /\ SameFence(r.auth, s.auth) => r = s
  /\ MaxClock \in Nat

VARIABLES
  clock,      \* the host's wall clock
  consumed,   \* table consumed_authority; ~dated : expires_at is NULL
  success     \* table successful_cell_output, a set of [auth, digest]

storeVars == <<consumed, success>>

SuccessRow == [auth : Authority, digest : Intent]

StoreTypeOK ==
  /\ clock \in Nat
  /\ consumed \subseteq Row
  /\ success \subseteq SuccessRow

StoreInit ==
  /\ clock = 0
  /\ consumed \in SUBSET LegacyRows
  /\ success = {}

-----------------------------------------------------------------------------
Expired(a) == Envelope[a].expires <= clock

\* AuthorizedExecutionEnvelope.assert_current
Current(a) == Envelope[a].issued <= clock /\ ~Expired(a)

Fenced(a, stage) == \E r \in consumed : r.stage = stage /\ SameFence(r.auth, a)

\* Fault variant: rows go one tick before their authority expires.
PruneEarly ==
  /\ success'  = {r \in success : Envelope[r.auth].expires > clock + 1}
  /\ consumed' = {r \in consumed : r.dated => Envelope[r.auth].expires > clock + 1}

\* Legacy rows have a NULL expires_at and are kept for ever.
PruneExpired ==
  /\ success'  = {r \in success : ~Expired(r.auth)}
  /\ consumed' = {r \in consumed : r.dated => ~Expired(r.auth)}

\* Fault variant: the uniqueness constraints are missing.
ConsumeUnchecked(a, stage) ==
  /\ consumed' = consumed \cup {[auth |-> a, stage |-> stage, dated |-> TRUE]}
  /\ UNCHANGED success

\* The INSERT of consume(); its IntegrityError is the guard's negation.
ConsumeRow(a, stage) ==
  /\ ~Fenced(a, stage)
  /\ consumed' = consumed \cup {[auth |-> a, stage |-> stage, dated |-> TRUE]}
  /\ UNCHANGED success

\* The transaction of record_cell_success() that follows its prune: the
\* cell_run row must still be there and no output may be bound already.
RecordAllowed(a) ==
  /\ \E r \in consumed : r.auth = a /\ r.stage = "cell_run"
  /\ \A r \in success : ~SameFence(r.auth, a)

RecordRow(a, digest) ==
  /\ RecordAllowed(a)
  /\ success' = success \cup {[auth |-> a, digest |-> digest]}
  /\ UNCHANGED consumed

\* require_cell_success(): the row of this authority, the exact digest, and a
\* second look at the expiry because the prune was an earlier transaction.
Bound(a, digest) ==
  /\ [auth |-> a, digest |-> digest] \in success
  /\ ~Expired(a)

Tick ==
  /\ clock < MaxClock
  /\ clock' = clock + 1
=============================================================================
