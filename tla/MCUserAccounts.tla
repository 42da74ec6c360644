---------------------------- MODULE MCUserAccounts ----------------------------
(***************************************************************************)
(* UserAccounts on small sets; processes, and addresses if there are       *)
(* several, are interchangeable.                                           *)
(***************************************************************************)
EXTENDS UserAccounts, TLC

Symmetry == Permutations(Processes) \cup Permutations(Emails)

===============================================================================
