------------------------ MODULE GovernedConsequence ------------------------
(***************************************************************************)
(* What the cell host promises for each signed authority, without threads, *)
(* store, clock or crashes: one disposable cell, then, only if that cell   *)
(* is gone and emitted exactly the signed intent, one credential, then at  *)
(* most one write, made while the credential is valid.  CellHost           *)
(* implements it under the mapping at the end of CellHost.tla.             *)
(***************************************************************************)
CONSTANT Authority

VARIABLES
  life,   \* life[a] : how far the one consequence of a has come
  valid   \* authorities whose credential the provider still honours

vars == <<life, valid>>

Life == {"signed", "running", "proved", "wasted", "credentialed", "consequence"}

TypeOK == life \in [Authority -> Life] /\ valid \subseteq Authority

Init ==
  /\ life = [a \in Authority |-> "signed"]
  /\ valid = {}

Advance(a, from, to) ==
  /\ life[a] = from
  /\ life' = [life EXCEPT ![a] = to]

StartCell(a) == Advance(a, "signed", "running") /\ UNCHANGED valid

\* The cell is gone; only its exact output lets the authority go on.
CellGone(a) ==
  /\ \/ Advance(a, "running", "proved")
     \/ Advance(a, "running", "wasted")
  /\ UNCHANGED valid

IssueCredential(a) ==
  /\ Advance(a, "proved", "credentialed")
  /\ valid' = valid \cup {a}

Write(a) ==
  /\ a \in valid
  /\ Advance(a, "credentialed", "consequence")
  /\ UNCHANGED valid

Revoke(a) ==
  /\ a \in valid
  /\ valid' = valid \ {a}
  /\ UNCHANGED life

Next == \E a \in Authority :
  StartCell(a) \/ CellGone(a) \/ IssueCredential(a) \/ Write(a) \/ Revoke(a)

Spec == Init /\ [][Next]_vars
=============================================================================
