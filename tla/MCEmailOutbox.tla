---------------------------- MODULE MCEmailOutbox ---------------------------
(***************************************************************************)
(* Instance of EmailOutbox for TLC.                                        *)
(***************************************************************************)
EXTENDS EmailOutbox, TLC

\* Workers and requests are told apart by nothing but their name, and every
\* property is about safety.
Peers == Permutations(Worker) \cup Permutations(Request)
=============================================================================
