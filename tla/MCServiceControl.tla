-------------------------- MODULE MCServiceControl --------------------------
(***************************************************************************)
(* Instances of ServiceControl for TLC.                                    *)
(***************************************************************************)
EXTENDS ServiceControl, TLC

\* Payments are interchangeable, and so are lapses.
Symmetry == Permutations(Payments) \cup Permutations(Lapses)
=============================================================================
