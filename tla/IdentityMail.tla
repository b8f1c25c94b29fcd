---------------------------- MODULE IdentityMail ----------------------------
(***************************************************************************)
(* What the identity outbox promises of each email asked for: a relay      *)
(* takes it at most once, and it is settled once, truthfully.  "unknown"   *)
(* is a settlement too: such an email is never sent again.                 *)
(***************************************************************************)
EXTENDS Naturals

CONSTANT Mail    \* the emails that may be asked for

VARIABLES
  state,  \* state[m]: where the request for m stands
  taken   \* taken[m]: how often a relay has taken m

State == {"absent", "pending", "sent", "dropped", "unknown"}

Init ==
  /\ state \in [Mail -> {"absent", "pending"}]
  /\ taken = [m \in Mail |-> 0]

Ask(m) ==
  /\ state[m] = "absent"
  /\ state' = [state EXCEPT ![m] = "pending"]
  /\ UNCHANGED taken

Take(m) ==
  /\ taken[m] = 0
  /\ taken' = [taken EXCEPT ![m] = 1]
  /\ UNCHANGED state

\* What is reported as sent was taken, what is reported as dropped was not.
Settle(m) ==
  /\ UNCHANGED taken
  /\ state'[m] \in {"sent", "dropped", "unknown"}
  /\ state' = [state EXCEPT ![m] = state'[m]]
  /\ state'[m] = "sent" => taken[m] = 1
  /\ state'[m] = "dropped" => taken[m] = 0

Next ==
  \E m \in Mail : Ask(m) \/ (state[m] = "pending" /\ (Take(m) \/ Settle(m)))

Spec == Init /\ [][Next]_<<state, taken>>
=============================================================================
