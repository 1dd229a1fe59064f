--------------------------- MODULE MCProvisioning ---------------------------
(***************************************************************************)
(* Instances of Provisioning for TLC.                                      *)
(***************************************************************************)
EXTENDS Provisioning, TLC

\* Ticks are interchangeable, and so are requests of the same kind.
Symmetry == Permutations(Ticks) \cup Permutations(Retries) \cup Permutations(Reprovisions)
=============================================================================
