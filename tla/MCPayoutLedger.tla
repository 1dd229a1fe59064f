--------------------------- MODULE MCPayoutLedger ---------------------------
(***************************************************************************)
(* Instances of PayoutLedger for TLC.  All rows belong to few agents so    *)
(* that carry-overs meet earnings, and no two amounts are equal so that a  *)
(* wrong sum shows.                                                        *)
(***************************************************************************)
EXTENDS PayoutLedger, TLC

CONSTANTS p1, p2, p3, alice, bob

\* Handlers and batch ids are interchangeable.
Symmetry == Permutations(Handlers) \cup Permutations(Batches)

\* One agent earns everything.
OneAgent == [r \in Rows |-> alice]

\* bob earns the second level of p2, alice everything else.
TwoAgents == [r \in Rows |-> IF r = <<p2, 2>> THEN bob ELSE alice]

\* 3 and 2 for p1, 4 and 3 for p2, 2 and 1 for p3, by level.
SomeAmounts ==
    [r \in Rows |-> (CASE r[1] = p1 -> 4 [] r[1] = p2 -> 5 [] OTHER -> 3) - r[2]]
=============================================================================
