--------------------------- MODULE MCSubscriptions -------------------------
(* Small instances of Subscriptions for TLC. *)
EXTENDS Subscriptions, TLC

Symmetry ==
  Permutations(Conns) \cup Permutations(Ids) \cup Permutations(Pumps)
    \cup Permutations(Deliverers)
=============================================================================
