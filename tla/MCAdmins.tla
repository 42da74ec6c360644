------------------------------- MODULE MCAdmins -------------------------------
(***************************************************************************)
(* Admins on small sets; processes and instances are interchangeable.      *)
(***************************************************************************)
EXTENDS Admins, TLC

Symmetry == Permutations(Processes) \cup Permutations(Instances)

===============================================================================
