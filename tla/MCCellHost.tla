---------------------------- MODULE MCCellHost ----------------------------
(* Small instances of CellHost: two authorities of one grant whose windows *)
(* overlap, so that the second may outlive the first one's fence rows.     *)
EXTENDS CellHost, TLC

MCAuthority == {"a1", "a2"}
MCIntent == {"i1", "other"}
MCEnvelope ==
  [a1 |-> [grant |-> "g", issued |-> 0, expires |-> 1, intent |-> "i1", brokered |-> TRUE],
   a2 |-> [grant |-> "g", issued |-> 0, expires |-> 2, intent |-> "i1", brokered |-> TRUE]]
MCBlob == {"old", "new"}
MCBefore == [i \in MCIntent |-> "old"]
MCAfter == [i \in MCIntent |-> "new"]

\* Threads are interchangeable in Init, Next and every property of the run.
ThreadSymmetry == Permutations(Thread)

\* One authority, for the liveness run.
OneAuthority == {"a2"}
MCLegacy == {[auth |-> "a2", stage |-> "effect", dated |-> FALSE]}
=============================================================================
