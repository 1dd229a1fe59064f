--------------------------- MODULE MCCryptoBilling --------------------------
(***************************************************************************)
(* Instances of CryptoBilling for TLC.                                     *)
(***************************************************************************)
EXTENDS CryptoBilling, TLC

\* Orders are interchangeable, and so are handlers.
Symmetry == Permutations(Orders) \cup Permutations(Handlers)
=============================================================================
