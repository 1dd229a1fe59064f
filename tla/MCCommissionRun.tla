--------------------------- MODULE MCCommissionRun --------------------------
(***************************************************************************)
(* Instances of CommissionRun for TLC.                                     *)
(***************************************************************************)
EXTENDS CommissionRun, TLC

CONSTANTS u1, u2, old, new

\* u1 pays.
U1Pays == [p \in Payments |-> u1]

\* Every network in which the payer has a sponsor, those with a cycle too: two
\* moves at once can close one.  It does not matter who the sponsor is.
AllLinks == {s \in [Users -> Users \cup {None}] : s[u1] = u2 /\ \A u \in Users : s[u] # u}

\* Both levels ask for active directs, and the second plan for fewer of them.
TwoLevels == [p \in Plans |-> IF p = old THEN <<1, 2>> ELSE <<1, 1>>]
=============================================================================
