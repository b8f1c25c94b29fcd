-------------------------- MODULE MCCreditLedger --------------------------
(* Small instances of CreditLedger: two workspaces of one owner.           *)
EXTENDS CreditLedger, TLC

MCWorkspace == {"w", "v"}
MCOwner == [x \in MCWorkspace |-> "o"]
MCBorn == [x \in MCWorkspace |-> 0]
MCAction == {"act", "read"}
MCReadAction == {"read"}
MCCost == [a \in MCAction |-> IF a = "act" THEN 2 ELSE 1]
MCMonthly == [p \in Plan |-> CASE p = "developer" -> 2 [] p = "enterprise" -> None [] OTHER -> 3]
MCTopupCredits == [k \in {"t"} |-> 2]

Ask(op, w, key, arg) == [op |-> op, ws |-> w, key |-> key, arg |-> arg]

\* Everything one workspace is asked for, and the second one's first touch.
MCTraffic ==
  {Ask("meter", "w", "k1", "act"), Ask("meter", "w", "k2", "act"), Ask("meter", "w", "k2", "read"),
   Ask("reverse", "w", "k1", None), Ask("topup", "w", "t", None),
   Ask("plan", "w", None, "pro"), Ask("renew", "w", "inv", None),
   Ask("agents", "w", None, None), Ask("read", "w", None, None), Ask("meter", "v", "k1", "act")}

\* Debits before and after the end of Welcome, and an agent created then.
AgentTraffic ==
  {Ask("agents", "w", None, None)}
    \cup {Ask("meter", "w", k, "act") : k \in {"k1", "k2", "k3"}}

SessionSymmetry == Permutations(Session)
=============================================================================
