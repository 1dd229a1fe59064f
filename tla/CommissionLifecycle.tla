------------------------- MODULE CommissionLifecycle -------------------------
(***************************************************************************)
(* What the commission ledger promises of every commission row, whatever   *)
(* tables and requests it takes: it is earned once, joins one payout       *)
(* batch, is paid once with it, and a refund either voids it, when it was  *)
(* not paid yet, or makes its agent owe it until a later batch deducts it. *)
(***************************************************************************)
CONSTANT Rows

VARIABLE stage

Stages == {"none", "earned", "batched", "paid", "void", "owed", "settled"}

In(S, s) == \A r \in S : stage[r] = s

MoveTo(S, s) == stage' = [r \in Rows |-> IF r \in S THEN s ELSE stage[r]]

Init == stage = [r \in Rows |-> "none"]

Earn(S) == In(S, "none") /\ MoveTo(S, "earned")

\* A batch takes earned rows and deducts rows that are owed.
Batch(S, T) ==
    /\ S # {} /\ In(S, "earned") /\ In(T, "owed")
    /\ stage' = [r \in Rows |-> IF r \in S THEN "batched"
                                ELSE IF r \in T THEN "settled" ELSE stage[r]]

Pay(S) == In(S, "batched") /\ MoveTo(S, "paid")

Void(r) == stage[r] \in {"earned", "batched"} /\ MoveTo({r}, "void")

ClawBack(r) == stage[r] = "paid" /\ MoveTo({r}, "owed")

Next ==
    \/ \E S \in SUBSET Rows : Earn(S) \/ Pay(S)
    \/ \E S, T \in SUBSET Rows : Batch(S, T)
    \/ \E r \in Rows : Void(r) \/ ClawBack(r)

Spec == Init /\ [][Next]_stage
=============================================================================
