----------------------------- MODULE MCProgress -----------------------------
(***************************************************************************)
(* Instances of Progress for TLC.                                          *)
(***************************************************************************)
EXTENDS LearnerPage, TLC

Symmetry ==
  Permutations(Users) \cup Permutations(Levels) \cup Permutations(Requests)
    \cup Permutations(CertificateIds)

=============================================================================
