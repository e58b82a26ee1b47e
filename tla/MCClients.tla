----------------------------- MODULE MCClients -----------------------------
(* Small instances of Clients for TLC. *)
EXTENDS Clients, TLC

(* Init gives every call some pump thread in `by`, which nothing reads      *)
(* before Invoke sets it, so pump threads are alike all the same.          *)
Symmetry == Permutations(Calls) \cup Permutations(Events) \cup Permutations(Pumps)
=============================================================================
