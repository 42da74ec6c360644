------------------------------ MODULE MCOrders ------------------------------
(***************************************************************************)
(* Instances of Orders for TLC.                                            *)
(***************************************************************************)
EXTENDS LevelAccess, Reports, TLC

Symmetry ==
  Permutations(Users) \cup Permutations(OrderIds) \cup Permutations(Intents)
    \cup Permutations(Requests) \cup Permutations(Callbacks)
      \cup Permutations(Levels)

=============================================================================
