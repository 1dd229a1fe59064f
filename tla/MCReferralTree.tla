--------------------------- MODULE MCReferralTree ---------------------------
(***************************************************************************)
(* Instances of ReferralTree for TLC.                                      *)
(***************************************************************************)
EXTENDS ReferralTree, TLC

\* Users are interchangeable, and so are requests.
Symmetry == Permutations(Users) \cup Permutations(Movers)
=============================================================================
