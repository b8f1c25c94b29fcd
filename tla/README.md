# A TLA+ model of Lockerphycer

Lockerphycer is a FastAPI/SQLAlchemy service (accounts, workspaces, billing,
agents) together with a *governed cell host*, a separate process that runs
disposable cells under authorities signed by CAPPO and performs their one
external effect through a credential broker. This directory models the parts of
it whose correctness depends on the order of steps: what is stored between two
transactions, what a crash or a lost answer leaves behind, and what two
requests do to each other. Each model is translated from the source; the `map`
of `PROJECT.json` names the lines each definition stands for.

Paths below are relative to `src/`.

## 1. The system

| Component | State it keeps | Operations | What makes it hard |
|---|---|---|---|
| **Cell host** `cell_host/app.py`, `core/execution_cells/` | SQLite replay store; cells; provider tokens | `run_cell`, `github_file_update` | worker threads; fence rows pruned separately; lost provider answers; crashes; the clock |
| **Entitlement engine** `core/entitlements/service.py` | one entitlement row per workspace, keyed append-only ledger | `ensure_entitlement`, `debit`, `reverse`, `grant_topup`, `set_plan`, `renew_period`, `check_agent_limit` | timestamps taken before the row lock; unlocked first touch; lazily rolled periods |
| **Stripe webhooks** `core/entitlements/stripe_billing.py`, `apps/api/routers/billing.py` | event rows; workspace columns; calls the engine | `process_event`, `_handle` | duplicate, concurrent, reordered deliveries; several commits per event |
| **Identity email outbox** `apps/email/` | outbox rows | `enqueue_identity_email`, `process_one`, `_send` | at most one send per intent across workers, relays and crashes |
| **Workspace console** `apps/web/static/workspace/` | the DOM below `main` and the sidebar, `currentRoute` of two scripts, timers | route changes, `showCC`/`hideCC`, `showGPC`/`hideGPC`, link injection | two scripts and React edit one tree from events, timers and observers |
| Wallets `apps/api/routers/wallet.py`, `core/wallet/` | nonces, bound wallets; calls `grant_topup` | register, on-chain top-up | await between nonce check and use; two active wallets |
| Accounts and sessions `apps/api/routers/auth.py`, `core/security/auth.py` | users, sessions | register, verify, login, refresh, reset | read-modify-write of status and counters without locks |
| Second factor `core/security/mfa.py` | secret, backup codes | begin, confirm, verify, disable | single-use codes checked, then marked |
| Machine tokens `apps/api/routers/machine_tokens.py` | tokens; calls `check_agent_limit` | create, list, revoke, exchange | count, then insert |
| x402 gate `apps/api/routers/x402.py` | in-memory set of payments | gate | check, two awaits, add |
| Middleware `core/security/middleware.py` | in-memory windows | rate limit, anomaly scores | window boundaries |
| Lifecycle recorder, attestation `core/execution_cells/fsm.py`, `attestation.py` | hash-linked phases | `advance`, `require_complete` | used by tests only at this commit |
| cAPI registration `core/utils/capi_registration.py` | none | register/heartbeat loop | liveness, shutdown |
| Activation events `core/entitlements/activation.py` | once-only rows | add, emit | dedupe key races |
| Agents, actors, marketplace, business, verticals, protocol bridges, monitoring, terminal, other pages | rows or none | create/read/update, proxying, reporting | request-local |

How they interact. CAPPO (not in this repository) signs an authority. The
caller presents it to `run_cell`, which consumes it in the replay store, runs
the cell and binds its output there; the caller then presents the same
authority and an intent to `github_file_update`, which requires the binding,
consumes the authority for the effect, and lets the broker act. On the billing
side, `/internal/entitlements/meter` and `/reverse` debit and refund; Stripe
webhooks and on-chain top-ups call `grant_topup`, `set_plan` and
`renew_period`; creating a machine token calls `check_agent_limit`. All of them
share the entitlement row. Registration, resend and password reset put an intent
in the outbox in their own transaction; separate worker processes send it. In
the browser, the compiled React workspace and the scripts `gpc-inject.js` and
`cc-inject.js` share the document and the hash.

What makes each part correct:

- *cell host*: one authority, one cell, one token, one write; no credential
  before the cell that proved the intent is destroyed; reports are true; no
  token stays valid in silence; every request is answered;
- *entitlements*: no more allowance spent in a period than it has; top-ups
  conserved; Welcome once per owner; the Welcome daily cap; balances move only
  with ledger rows;
- *webhooks*: what is marked processed has been credited; each event applied
  once; the account follows Stripe; no event left behind;
- *outbox*: an intent is sent at most once, its row tells what became of it, and
  no two intents of a kind are open at once;
- *workspace console*: the page of the route is shown and nothing else is left
  hidden, whatever the order of events and timers; each link appears, once;
- *wallets*: a nonce is used once, one active wallet, a transaction credited once;
- *accounts*: suspension and lockout are not undone by a stale write; a reset
  ends every session; a code is spent once.

`PROJECT.json` lists the components and, under `hazards`, each place where these
can go wrong, with the properties that cover it.

## 2. Plan

Written, in this order: `ReplayStore`, `CellHost` with its abstract
specification `GovernedConsequence`, `CreditLedger`, `StripeEvents`,
`WorkspacePages`, `EmailOutbox` with its abstract specification `IdentityMail`.

Next:

1. `Accounts`: users, sessions, lockout and second factor over one user row,
   with the read and the write of each handler apart; the outbox then reads its
   user's status instead of any.
2. `Wallet`: nonces, active wallet and on-chain credit.
3. Pure algorithms: the lifecycle graph and `require_complete`, the rate
   limiter's window, `verify_topup`'s sum of transfers.
4. Proofs about the modules of 1 and 2 as they are written; those about the
   modules there are now are in section 5.

`StripeEvents` represents the engine by what the engine commits under its lock.
That is the interface at which the two modules meet: `set_plan` has no key, and
`grant_topup` and `renew_period` have one, in both.

## 3. Modules

| Module | Models |
|---|---|
| `ReplayStore` | `replay.py`: tables, constraints, each transaction as one operator; an authority's validity window |
| `CellHost` | `app.py`, `runtime.py`, `effects.py`: the threads that use the store, the cells and the provider |
| `GovernedConsequence` | the promise: signed, running, proved, credentialed, consequence |
| `CellHost_proofs` | the fences of `CellHost` |
| `CellHostPromise_proofs` | its credentials and reports, and that it implements `GovernedConsequence` |
| `CreditLedger` | `service.py` and its callers |
| `CreditLedger_proofs` | types of `CreditLedger`, and the one Welcome of an owner |
| `CreditLedgerBalance_proofs` | its balances: top-ups, allowance, the ledger behind every move, the Welcome cap |
| `FunctionSums` | lemmas about sums over finite sets, which the ledger's balances are |
| `StripeEvents` | `stripe_billing.py`: deliveries of the events of one workspace |
| `StripeEvents_proofs` | theorems about `StripeEvents` |
| `WorkspacePages` | `gpc-inject.js`, `cc-inject.js` and the router of the bundle they work beside |
| `WorkspacePages_proofs` | theorems about `WorkspacePages` |
| `EmailOutbox` | `outbox.py`, `outbox_worker.py`, `sender.py` and the requests that enqueue |
| `IdentityMail` | the promise: pending, sent, dropped, unknown |
| `EmailOutbox_proofs` | theorems about `EmailOutbox`, and that it implements `IdentityMail` |
| `MC*` | constants and symmetry for TLC |

**Fault variants.** Some definitions are preceded by a second one marked "Fault
variant": what a plausible bug would make of it. No specification uses them; a
property is shown to be worth checking by putting the variant in the
definition's place and finding the property violated.

### CellHost

`pc[t]` is the step of worker thread `t`, `job[t]` its local variables, so each
step is one transaction, one provider call or one check of the clock, and any
two threads interleave between them. The host is one uvicorn process
(`--workers 1`), whose synchronous handlers run in a thread pool.

| Code | Action |
|---|---|
| `run_cell`: verify | `RunRequest` (only valid requests enter) |
| `prune_expired()` ahead of each store call | `Prune` |
| `consume(.., "cell_run")` / `"effect"` | `RunConsume` / `EffectConsume` |
| `runtime.run`: validation again, process start | `VerifyAgain`, `SpawnCell` |
| `_collect_bounded` | `CollectOutput` (an intent, or none) |
| `_force_remove`, `_teardown_confirmed` | `Teardown` |
| `_record_successful_effect_output`, `record_cell_success` | `CheckOutput`, `RecordSuccess` |
| `github_file_update`, `require_cell_success` | `EffectRequest`, `RequireSuccess` |
| `execute`: authority, mint, lookup, authority again, PUT, evidence, revoke | `Validate`, `MintToken`, `Lookup`, `Revalidate`, `PutContent`, `CollectEvidence`, `RevokeToken` |
| SQLite busy, missing configuration | `Raise` |
| the outside | `Crash`, `ForeignWrite`, `TickClock` |

Every provider call may be refused, lost before it is performed, or performed
with the answer lost. A crash loses the threads; the store, the cells and the
tokens remain. Abstracted: signatures and digests (equality of model values),
artifact and image checks (a refusal that changes nothing), command lines, vsock
framing, and the time a cell takes. The refinement mapping `lifeBar` is the
outcome of an authority read off its counters: a second cell, token or write
maps to `"broken"`, which the abstract specification does not know.

### CreditLedger

A request takes its timestamp at arrival (`Arrive`; each has its own), and acts
when it gets the row lock: from the lock to the commit is one step, because the
row is locked and the ledger key unique. What is *not* protected by the lock has
steps of its own: the look without a lock (`Ensure`), the look for an earlier
Welcome (`ToInsert`), the insert that may fail on a unique column
(`InsertFails`). A copy read without a lock is kept in `req[s].copy`, and a
commit from it writes only the columns that differ from the copy (`Flushed`):
SQLAlchemy keeps the object of the session, does not refresh it on a later
locking select, and updates changed attributes only.

`raced` records that a row was written from a copy that had changed since it was
read (`Outdated`; `"agents"`, `"first_touch"`) or that a period was started with a timestamp older than an
earlier debit (`"clock"`); `plans` numbers the periods. No action reads either.

Left out: `grant` and `denied` rows and activation events, which nothing reads
to decide; usage summaries; the mapping of plan names and aliases. Meter and
top-up keys are separate sets, as the code's callers keep them.

### StripeEvents

Constants give one workspace's events in Stripe's order. A delivery goes through
`Look` (duplicate?), `Claim` (commit "processing"), `Find` (`_workspace_for`),
`WriteColumns` (first commit of `_handle`), `Compare` (unlocked look at the
plan), `Apply` (the engine's commit) and `Mark` or `MarkFailed`. `Fault` stops a
delivery between any two steps, or makes `_handle()` raise, with what it
committed kept. Left out: signatures, Stripe API calls, and the events that
change neither plan, status nor credits: checkouts that are unpaid or of no
known kind, which store the customer's id at most (`stripe_billing.py:249-254`),
so that events without metadata find the workspace earlier, and ignored types.

### WorkspacePages

A step is one task of the browser's event loop with the microtasks it leaves:
React renders at once on `hashchange`, a mutation observer runs after any task
that changed the tree, and `timers` holds the pending `setTimeout` callbacks in
the order they were set; a callback waits for the earlier ones of at most its
delay (`Due`), as browsers order timers.

| Code | Definition |
|---|---|
| route table and shell of the bundle: overview and pages with `main` and sidebar, onboarding and `marketplace/:id` without, 404 for a route it does not know | `Component`, `Layout`, `Rendered`, `Render` |
| `createRoot().render()`, `navigate()`, a click or the address bar, `hashchange` | `Mount`, `Push`, `SetHash`, `Hashchange` |
| `init` of either script | `LoadGPC`, `LoadCC` |
| `showCC`, `hideCC`, `showGPC`, `hideGPC` | `ShowCC`, `HideCC`, `ShowGPC`, `HideGPC` |
| `handleRoute` after 60, 200 and 1500 ms | `Handled`, `TimerGPC`, `TimerCC` |
| `injectSidebarLink`, the observer | `InjectCC`, `InjectGPC`, `Observe` |
| the tabs of the Command Center | `SwitchTab` |

`main` is React's child ("body") and the scripts' pages, which of them are
hidden, which carry which script's mark, and whether main's own style is set.
The pages' contents are left out.

### EmailOutbox

| Code | Action |
|---|---|
| `resend_verification`, `request_password_reset`: the user is read | `Ask` |
| `SELECT .. FOR UPDATE`, `existing`, `recent` | `Look` |
| the insert and the commit; a failing transaction | `Insert`; `Abort` |
| `process_one`: select; claim and commit; user and expiry; submission; outcome and commit | `Pick`; `Claim`; `Check`; `Submit`; `Record` |
| a worker dies, loses the database or raises outside the `try` | `Crash` |
| `confirm_password_reset` | `Renew` |
| time | `Tick` |

Times are kept as what is left of them, so that the state space is finite
without a bound on the clock. A relay's answer is accepted, declined or unclear,
and an unclear one leaves open whether it took the message; `taken` counts the
messages and no action reads it but `Renew`, whose token only a message that
went out can have carried. The user's status is *any* whenever it is read: at
least four handlers write it between two reads, some over a suspension (see
`hazards`), and no property rests on it. The password is the one bit the outbox
sees of it, whether a version is still current.

The refinement maps a row to its mail: INDETERMINATE is `pending` while a worker
is at the intent, and `unknown`, for good, when none is.

Two observations that no property states. A claim looks at the status only, so a
worker that was slow since its select may start the next attempt ahead of
`next_attempt_at`. And the cooldown counts from `created_at` (`outbox.py:53`),
so a mail accepted late in its intent's life is not followed by one, although
the comment at `outbox.py:48` and `EMAIL_OUTBOX_CANARY.md:12` say that it covers
accepted messages.

## 4. What is checked

`tlc -config <run>.cfg <module>`; times are for two workers.

| Run | Result | Distinct states |
|---|---|---|
| `CellHost_safety` | passes | 490 k, 1 min |
| `CellHost_liveness` | passes | 82 k, 1 min |
| `CellHost_lost_response` | **violated** | |
| `CreditLedger_safety` | passes | 1.5 M, 2 min |
| `CreditLedger_overspend` | **violated** | |
| `CreditLedger_refund_period` | **violated** | |
| `StripeEvents_webhooks` | passes | 1.6 M, 1 min |
| `StripeEvents_liveness` | passes | 165 k, 1 min |
| `StripeEvents_twice` | **violated** | |
| `EmailOutbox_delivery` | passes | 547 k, 1.5 min |
| `WorkspacePages_settles` | passes | 124 k, 1.5 min |
| `WorkspacePages_alone` | **violated** | |

**CellHost_safety.** Two authorities under one grant, valid until 1 and until 2,
and a clock up to 2: the second stays valid when the first one's rows are
pruned, which is the case that could reopen a replay. Two threads, two intents
(one of them not the signed one), one crash, one revocation attempt. Two threads
suffice because every fence is between a pair of requests. Foreign writes and
retried revocations, which do not touch the fences, are in the liveness run.
Deadlock is not checked: once both authorities have expired and the clock is at
its bound, nothing can arrive.
*Shows* `FenceInv` and `PromiseInv` (the inductive invariants), `OneTimeAuthority`,
`OneLiveEffectPerGrant`, `CredentialAfterCell`, `ReportsAreTrue`,
`NoSilentToken` and that the host implements `GovernedConsequence`.

**CellHost_liveness.** One authority, fence rows from before the `expires_at`
column, two revocation attempts, a foreign write and a crash: `RequestsAnswered`
and `TokenSettled`. *Fairness*: `WF(Step(t))` for each thread. It is justified
by the deadlines in the code: SQLite waits 5 s at most, runtime commands and the
cell have timeouts, every provider call has `timeout_seconds`, and revocation a
number of attempts. Nothing is assumed to arrive, to crash or to tick.

**CreditLedger_safety.** Two sessions, two workspaces of one owner, three meter
requests over two keys (one a read), a refund, a top-up, a plan change, a
renewal, an agent check and a read, with up to five clock values: Welcome ends
at 2, its successor period at 5, so requests fall before, at and after both, and
arrive up to five times. Plans are scaled so that an allowance holds one action.
Deadlock is not checked: requests stop arriving at the bound of the clock.
The properties that the races recorded in `raced` can break say so in their
statement: `SpendWithinAllowance` claims the allowance for workspaces without a
race, which is to say that those races are the *only* ways to overspend;
`BalanceMovesAreLedgered` speaks of the same workspaces (`Clean`).
`WelcomeDailyCap` is about governed debits: reads are not capped, as in the code.
`debit()` takes off what refunds of the last 24 hours gave back, by the time of
the refund and not of the debit it undoes, so a day may hold more than the cap,
by what was given back since a day before it (`RoomFreed`) and no more.

**StripeEvents_webhooks.** Subscribe, top-up, renewal and a portal change that
carries no workspace id; two deliveries at once, any number in all, in any
order; one fault. `FollowsStripe` is claimed as long as deliveries neither
overlap nor overtake each other: the code keeps no order, and a plan change
overtaken by an earlier one is not undone. `OrderInv` is the inductive invariant
behind it, and `DeliveryInv` the one behind `PaidMeansCredited`, `AppliedOnce` and
`StaysProcessed`. The last is about the `"failed"` that a late failure writes
over another delivery's `"processed"` (`stripe_billing.py:335`): it happens only
if deliveries of the event overlapped or one was cut short, and the liveness run
shows that the event is processed again.

**StripeEvents_liveness.** Two events and two faults. *Fairness*: `WF` of each
delivery's steps, since a request runs until it is answered or killed, and `SF`
of Stripe's resending an event that is not processed, since Stripe retries
whatever is answered with an error or not at all, for days.

**EmailOutbox_delivery.** Two workers (the compare-and-swap is between a pair),
two requests (so is the lock), two intents, two attempts with a back-off of a
minute, an intent's life of two minutes and a cooldown of one, so that retries,
expiry during an attempt and a new request after the cooldown all happen; deaths
of workers are not bounded. Workers and requests are symmetric, and every
property is a safety property. Liveness is not checked: with unlimited deaths of
workers an intent may stay INDETERMINATE for ever, as the documentation says it
may, and that attempts end follows from their counter.
*Shows* that no intent is taken twice, that rows tell the truth, that one intent
of a kind is open at a time, and that the outbox implements `IdentityMail`.

**WorkspacePages_settles.** Two routes of React's, the two of the scripts and the
two without a shell, and two navigations that may come while the scripts load or
within the 60 ms of a timer; every initial hash. Two are enough for leaving a
page and coming back, and for switching between both; `SettledView`,
`HiddenIsMarked` and `OneLinkEach` are proved for any number.
*Fairness*: `WF` of loading, mounting, the hash events and the two scripts'
timers, which the browser owes; nothing is owed by the user. Deadlock is not
checked: a user may stop, and does at `MaxNav`.
`SidebarGetsItsLinks` speaks of a script whose observer is still connected: it
disconnects after the first sidebar, so one that React builds anew (onboarding
and back) gets its links no more. `PageAppears` speaks of a script whose
`currentRoute` is not yet the route. Neither it nor `SettledView` covers a page
that never comes up because `handleRoute()` set `currentRoute` while there was
no `main` to show it in (`cc-inject.js:176`, then `:75`), or whose shell React
rebuilds and leaves within 60 ms: in both the code does lose the page.

**WorkspacePages_alone.** The same console and a user who waits until everything
is over before going anywhere (`UnhurriedSpec`).

### Disagreements between code and documentation

Each is a run that TLC finds violated, and an entry of `findings`.

1. `AppliedNeverReportedFailed`. The cell-host document's flow is to "preserve accepted
   consequence even if response evidence is incomplete". A PUT that GitHub
   applied and whose answer is lost, or is a 5xx, is reported as a failed effect.
2. `AllowancePerPeriod`. `check_agent_limit()` rolls an unlocked copy of the row
   and its caller commits it; a debit made in between is forgotten and its
   allowance can be spent again. In the run the first debit falls under Welcome
   and the other two are both charged to the period after it, which allows one.
3. `RefundRestoresItsPeriod`. A refund decides by timestamps taken before the
   lock which period a debit belongs to.
4. `NeverAppliedTwice`. Overlapping or interrupted deliveries of one event set
   the plan, and start a fresh period, twice.
5. `PageStandsAlone`. Both scripts say that they hide the children of `main`. On
   the way from the Command Center to GPC, `hideCC()` runs after `showGPC()` in
   the same turn and un-hides React's 404 message, which stays beside the page.

The first-touch race (`"first_touch"`) is of the same kind as 2: two requests
for a workspace without a row, where one goes on with a copy of the row the
other inserted, lose a debit or a top-up made meanwhile. It needs a run of its
own, and is left to the next step of the plan.

## 5. What is proved

With TLAPS (`tlapm CellHost_proofs.tla` and so on for each `*_proofs`), for
every value of the constants that meets the assumptions:

| Theorem | Statement |
|---|---|
| `Typing` | `Spec => []TypeOK` (CellHost) |
| `Fences` | `Spec => []FenceInv` |
| `OneTime` | `Spec => []OneTimeAuthority` |
| `OneLive` | `Spec => []OneLiveEffectPerGrant` |
| `Promises` | `Spec => []PromiseInv` |
| `CredentialLate`, `TrueReports`, `TokensAccounted` | `Spec => []P` for `CredentialAfterCell`, `ReportsAreTrue`, `NoSilentToken` |
| `HostKeepsPromise` | `Spec => ImplementsConsequence`, that is, `GovernedConsequence`'s specification |
| `Deliveries` | `Spec => []DeliveryInv` |
| `ProcessedIsCredited` | `Spec => []PaidMeansCredited` |
| `OnceUnlessDisturbed` | `Spec => []AppliedOnce` |
| `ProcessedStays` | `Spec => StaysProcessed` |
| `OneEventAtATime`, `AccountFollowsStripe` | `CheckoutFirst => (Spec => []P)` for `OrderInv`, `FollowsStripe` |
| `TypeCorrect` | `Spec => []TypeOK` (CreditLedger) |
| `OneWelcome` | `Spec => []WelcomeOncePerOwner` |
| `TopupsNeverLost` | `Spec => []TopupsConserved` |
| `BooksBalance` | `Spec => []BalanceInv`, the inductive invariant of the next two |
| `AllowanceKept` | `Spec => []SpendWithinAllowance` |
| `BalanceLedgered` | `Spec => BalanceMovesAreLedgered` |
| `WelcomeHolds` | `Spec => []CapInv`, the inductive invariant of the next |
| `WelcomeDayCapped` | `Spec => []WelcomeDailyCap` |
| `WorkspaceTypes`, `WorkspaceHiddenIsMarked`, `WorkspaceSettles`, `WorkspaceOneLinkEach` | `Spec => []P` for `TypeOK`, `HiddenIsMarked`, `SettledView`, `OneLinkEach` (WorkspacePages) |
| `OutboxTypes`, `OutboxAtMostOnce`, `OutboxOutcomeTrue`, `OutboxOneOpen` | `Spec => []P` for `TypeOK`, `AtMostOneMessage`, `OutcomeTrue`, `OneOpenIntent` (EmailOutbox) |
| `OutboxKeepsPromise` | `Spec => ImplementsMail`, that is, `IdentityMail`'s specification |

*Assumptions.* `EnvelopeAssumption` and `HostAssumption`: windows are natural
numbers, legacy rows are undated and satisfy the tables' uniqueness, revocation
is attempted 1 to 5 times (`max(1, min(.., 5))`), `None` is none of the values
it stands beside. `HistoryAssumption` and `NoneAssumption`: events are records
of the right shape, and checkout events name their workspace (the metadata that
`create_checkout_session` sets). `LedgerAssumption`: costs, top-ups and the lengths
of periods and days are positive, plans without a monthly number of credits are
by contract, meter and top-up keys are apart, and only the requests in `Traffic`,
of the right shape, arrive. `RouteAssumption`: React's routes are not the
scripts'. `LimitAssumption`: limits are natural numbers, at least one attempt, and
the back-off is a natural number of minutes; `NoneAssumption` there as above. TLC
evaluates all of them in the runs.

*The cell host.* `OneTimeAuthority` is not inductive: nothing in it says why a
second request under the same authority cannot reach `SpawnCell`. The reason is
a fence row, but that row is deleted when the authority expires, so "a cell
implies a row" is false. `FenceInv` says what is true: *until the authority
expires*, a cell (a token) has its own row; a thread at `verify` (`validate`)
whose authority is current has the row and nobody else stands beyond it; and a
thread at `spawn` (`mint`) is the only one there and its authority has had no
cell (token) so far. A thread whose row was pruned under it may meet a second
thread with a new row, but its authority is expired by then, so the second look
at the expiry stops it: this is why `runtime.run()` verifying again, and
`execute()` validating first, matter. `UniqueRows` and `WriteOnce` complete it.
`CellFenceFrame`, `EffectFenceFrame` and `WriteOnceFrame` say which steps leave
a part alone, and each step that does not has a case of its own. `OneLive` uses
that rows of one grant are unique per stage and that expiry is final
(`ExpiryIsFinal`).

*From the fences to the promise.* `CredentialAfterCell` speaks of the moment after
the mint, and the fact it needs was established by another request: the run that
saw its cell go bound the output in a row, and the effect request found it.
`CellOutput` carries that fact (`CellLeft`: one cell, gone, this output, nobody
waiting for it) from teardown through the row to the credential. It stays true
because only a spawn could undo it, and the fence allows none where one cell has
been. `TokenOutcome` adds what the reports need: a token has one holder, which
keeps it until it revokes, and what a request believes written is written
(`job.accepted`). The two use the fences but not each other, so each has its own
frame lemma (`CellOutputFrame`, `TokenOfFrame`) and `TokenOf` treats one authority
at a time. `HostKeepsPromise` has one lemma for each of the five steps the promise
sees (spawn, teardown, mint, write, revocation); `UnseenRefines` covers the rest.

*The webhooks.* `DeliveryInv` adds to the properties what a delivery knows at its
step: at `mark` the event is credited; keyed changes are counted by their keys;
for an event never overlapped nor cut short there is at most one delivery past
`look`, and it has been applied only if it is processed or about to be marked;
none is past it once the event is processed, which is why only disturbed events
are reopened (`ProcessedStays`).

*The account follows Stripe.* `FollowsStripe` speaks of the moments when no event
is half done. `OrderInv` describes the way from one to the next: the first `n`
events are processed and at most the next one has a row (`Frontier`); plan and
status each stand before or after it, and exactly before it while it has no row
(`Standing`); the one delivery there may be is of a processed event or of the
next, and what it has seen and done fits its step (`InTurn`), so that a delivery
that is cut short leaves a state from which the next one ends where it would
have. Each group of steps has its lemma (`ClaimInTurn` to `FaultInTurn`).
`Expected` is recursive over the history; what is needed of it, that each value
comes from the one before (`ExpectedSteps`), is proved by the least number for
which the recursion would have no solution (`LeastNumber`). The theorems assume
`CheckoutFirst`, that the first event is a checkout or a top-up, which is how
Stripe comes to know the workspace. Without it they are false: a first event
that names no workspace is processed without effect (`hazards`,
`stripe_billing.py:242`).

*The ledger: types.* Rolling a row over any number of elapsed periods ends in a
period that contains the request's time (`RollFacts`). `TypeInv` adds to
`TypeOK` what requests under way rely on: a copy is of a row that still exists,
with the same Welcome window (`Copies`), entries belong to workspaces that have
a row (`Recorded`), and what is to be reversed is a debit (`Reversals`). Every
operation is one of `Settled`, `Noted`, `Billed`, `Reversed`, `ToppedUpBy` and
`Restarted`, as far as row and ledger go (`Steps`); the theorems on balances
have one lemma for each of these.

*The ledger: sums.* The sums are folds over sets, defined by a recursive function
under a `CHOOSE`. `FunctionSums` proves that the recursion has a solution on every
finite set and that the result does not depend on the order (`SumTakeOut`), and from
it what entering, refunding and comparing entries does to a sum. The induction
is over the sets for which the claim holds (`SetInduction`), since the library's
induction theorems take an operator. That only finitely many entries were made
is part of the invariant (`Posted`), so keys and workspaces may be infinitely many.

*The ledger: balances.* `TopupsConserved` is inductive with `Posted`: a step
either changes the top-ups by what it enters, under the lock, or leaves the
column alone, which an outdated copy then does not overwrite
(`TopupUntouched`). `SpendWithinAllowance` is not: it must be known that
a period which begins has been charged nothing, and that a refund gives
allowance back to the period that paid it, while both are decided on times
taken before the lock. `Books` says how times and periods relate in a clean
workspace (`Dated`): every debit is older than the period's end; one that is not
older than its start is charged to it; no later period has been charged. A
period started with a timestamp older than a debit breaks the second, and is what
`raced` calls `"clock"`. `BalanceMovesAreLedgered` follows step by step from the
same invariant: a refund gives back what the debit of this period took
(`ReversedMoves`).

*The ledger: the Welcome cap.* A debit checks the day before its own timestamp,
and may enter the ledger after debits with later timestamps, whose days it
then joins. It does no harm, because those later debits are in its own sum as
well (`UsedLastDay` has no upper end), so that what their day holds is part of
what was checked (`EnteredDay`, `ChargeHasRoom`). The refunds that made room for
it were timed since a day before it, so since a day before the window of any
debit whose day it joins: they are in `RoomFreed` there too, which later refunds
can only enlarge (`CapOfRefunds`). That
no debit of the Welcome period is entered without the check rests on
`RowsInWelcome` and `CopiesInWelcome`: the row, and each copy of it, is in the
original window or past it, and no copy is ahead of the row.

*The console.* `SettledView` is about moments when nothing is pending, so it says
nothing of how one gets there. `PageInv` adds that whatever is hidden carries the
mark of a page that is present (`MainGood`), that a page is present only while its
script's `currentRoute` is its route, and `RoutePending`: a script whose
`currentRoute` is not the hash has an event or a 60 ms timer to come. That timers
are removed from and appended to a sequence is dealt with once (`ConcatJoins` and
its neighbours), and each script's `handleRoute` in one lemma for both.

*The outbox.* `MailInv` ties a job to its row: from the claim to the return the
row is INDETERMINATE and nobody else is at it (`Alone`), nothing has been taken
before the submission, and at `record` the result agrees with what was. A row
that is queued has attempts left and nothing taken. For requests, a holder of the
lock past its look still finds no open intent, since workers only age, settle or
retry rows (`ExistingShrinks`). `SettleInv` and `GoOnInv` prove the worker's steps
from what they have in common, `SettleRefines` and `KeepsRefine` do so for the
refinement; that a death turns `pending` into `unknown` for good rests on `Alone`.

*Only model-checked*: liveness (`RequestsAnswered`, `TokenSettled`,
`EveryEventProcessed`, `PlainComesBack`, `PageAppears`, `SidebarGetsItsLinks`), which
is beyond the prover. Every invariant and every action property that a passing
run checks, and both refinements, are proved.

## 6. Bounds

Every bound is a constant: `MaxClock`, `MaxCrashes`, `MaxForeignWrites`,
`RevocationAttempts` (a setting of the code), `MaxFaults`, and the sets of
threads, sessions, deliveries, keys and events; `MaxNav` navigations, and
`MaxIntents` intents of a user (`RetryLimit`, `BackoffCap`, `Lifetime` and
`Cooldown` are the code's own limits, scaled down). The proofs hold for all of them.
The clock bound also bounds the requests of `CreditLedger`, which has one
timestamp each.

## 7. Not modelled

See the component table and `PROJECT.json`. Beside the parts still planned: code
whose handlers are single independent reads or writes, proxies to other
services, report and metric endpoints, templates, and of the front end what
pages show and fetch, the minified bundle of the terminal and `veklom.js` of the
public pages, whose handlers read a form and call the API once. Clocks that
step backwards are not modelled: a step back after a prune would make an
authority current again whose fence row is gone, and the code does not handle it.
