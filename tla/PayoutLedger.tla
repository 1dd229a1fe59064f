---------------------------- MODULE PayoutLedger ----------------------------
(***************************************************************************)
(* The commission ledger and its payout batches: the functions of          *)
(* src/src/modules/commission/commission.service.ts that write the tables  *)
(* Commission and PayoutBatch of src/prisma/schema.prisma.                 *)
(*                                                                         *)
(* A row is identified by its payment and its level (the unique key of     *)
(* the table).  Every request or webhook delivery runs in a handler; one   *)
(* action is one statement or one run of statements nobody can interleave  *)
(* with.  The two interactive transactions run at READ COMMITTED: their    *)
(* writes stay in the handler's job until the commit, the rows they wrote  *)
(* are locked until then, and a statement that must write a locked row     *)
(* waits and looks at the row again when the lock is released.             *)
(***************************************************************************)
EXTENDS Integers, FiniteSetsExt

CONSTANTS
    Payments,   \* payment references (Stripe invoice ids, CoinGate order ids)
    Levels,     \* commission levels of the plan, counted from 1
    Agents,     \* users who can earn a commission
    AgentOf,    \* row -> the beneficiary the commission engine computes for it
    AmountOf,   \* row -> its amount in cents
    Batches,    \* ids payout batches may get: the bound on batch creations
    Handlers,   \* requests and webhook deliveries served at the same time
    InOrder,    \* TRUE: a payment's events are delivered one after the other
    Null        \* the SQL NULL

Rows == Payments \X Levels

ASSUME LedgerAssumption ==
    /\ Levels \subseteq Nat /\ IsFiniteSet(Levels)
    /\ AgentOf \in [Rows -> Agents]
    /\ AmountOf \in [Rows -> Nat]
    /\ InOrder \in BOOLEAN
    /\ Null \notin Batches /\ Null \notin Payments

VARIABLES
    status,               \* Commission.status; "none" before the row exists
    created,              \* Commission.createdAt, as the insertion it came from
    payoutBatch,          \* Commission.payoutBatchId
    reversedAfterPayout,  \* Commission.reversedAfterPayout
    carryOverBatch,       \* Commission.carryOverBatchId
    insertions,           \* insertions so far: the clock of createdAt
    batchStatus,          \* PayoutBatch.status; "none" before the row exists
    batchTotal,           \* PayoutBatch.totalAmount
    job,                  \* what each handler is doing and holds in memory
    processed,            \* payments whose success event was answered
    refundSent,           \* payments whose refund event was delivered
    refunded,             \* payments whose refund event was answered
    paidOut               \* history: rows some commit has moved to PAID

rowVars == <<status, created, payoutBatch, reversedAfterPayout, carryOverBatch, insertions>>
batchVars == <<batchStatus, batchTotal>>
eventVars == <<processed, refundSent, refunded>>
vars == <<rowVars, batchVars, job, eventVars, paidOut>>

-----------------------------------------------------------------------------
(* Jobs *)

PCs == {"idle", "insert", "reverse", "attach", "carry", "settle",
        "detach", "pay", "export"}

JobType == [pc       : PCs,
            payment  : Payments \cup {Null},
            batch    : Batches \cup {Null},
            todo     : SUBSET Rows,   \* rows read and still to be written
            seenPaid : SUBSET Rows,   \* those of them read with status PAID
            locked   : SUBSET Rows,   \* rows written in the open transaction
            settling : SUBSET Rows]   \* carry-overs chosen for settlement

Idle == [pc |-> "idle", payment |-> Null, batch |-> Null, todo |-> {},
         seenPaid |-> {}, locked |-> {}, settling |-> {}]

\* No other open transaction holds a lock on a row of S.
Unlocked(S, h) == \A g \in Handlers \ {h} : S \cap job[g].locked = {}

Finish(h) == job' = [job EXCEPT ![h] = Idle]

-----------------------------------------------------------------------------
(* Rows and money *)

RowsOf(p) == {r \in Rows : r[1] = p /\ status[r] # "none"}

Amount(r) == AmountOf[r]
Sum(S) == MapThenSumSet(Amount, S)
OfAgent(S, a) == {r \in S : AgentOf[r] = a}

AttachedTo(b) == {r \in Rows : payoutBatch[r] = b}
SettledBy(b) == {r \in Rows : carryOverBatch[r] = b}

\* orderBy: { createdAt: "asc" }
Before(s, r) == \/ created[s] < created[r]
                \/ created[s] = created[r] /\ s[2] < r[2]

\* Refunds that arrived after a payout and no batch has deducted yet, of the
\* agents who earn something in a batch made of the rows in att.
CarryOvers(att) == {r \in Rows : /\ AgentOf[r] \in {AgentOf[s] : s \in att}
                                 /\ status[r] = "REVERSED"
                                 /\ reversedAfterPayout[r]
                                 /\ carryOverBatch[r] = Null}

\* Mutant: every carry-over is settled, covered or not.
SettlementUncovered(att, S) == S = CarryOvers(att)

\* S is what the settlement loop selects: going through the carry-overs by
\* age, a whole row is settled when what is left of its agent's earnings in
\* the batch covers it, and skipped otherwise.
SettlementOf(att, S) ==
    \A r \in CarryOvers(att) :
        LET a == AgentOf[r]
            earlier == {s \in OfAgent(S, a) : Before(s, r)}
        IN  r \in S <=> Amount(r) + Sum(earlier) <= Sum(OfAgent(att, a))

-----------------------------------------------------------------------------
Init ==
    /\ status = [r \in Rows |-> "none"]
    /\ created = [r \in Rows |-> 0]
    /\ payoutBatch = [r \in Rows |-> Null]
    /\ reversedAfterPayout = [r \in Rows |-> FALSE]
    /\ carryOverBatch = [r \in Rows |-> Null]
    /\ insertions = 0
    /\ batchStatus = [b \in Batches |-> "none"]
    /\ batchTotal = [b \in Batches |-> 0]
    /\ job = [h \in Handlers |-> Idle]
    /\ processed = {} /\ refundSent = {} /\ refunded = {} /\ paidOut = {}

-----------------------------------------------------------------------------
(* processPaymentCommissions: the idempotency check, then one createMany.  *)

\* A success event is delivered, perhaps again; rows found: nothing to do.
ProcessPayment(h, p) ==
    /\ job[h].pc = "idle"
    /\ InOrder => p \notin refundSent
    /\ IF RowsOf(p) = {}
       THEN /\ job' = [job EXCEPT ![h].pc = "insert", ![h].payment = p]
            /\ UNCHANGED processed
       ELSE /\ processed' = processed \cup {p}
            /\ UNCHANGED job
    /\ UNCHANGED <<rowVars, batchVars, refundSent, refunded, paidOut>>

\* The levels that found a beneficiary are inserted, skipDuplicates leaving
\* alone the ones another delivery has inserted since the check.  No level
\* finds one when there is no active plan or no sponsor.
InsertCommissions(h) ==
    /\ job[h].pc = "insert"
    /\ \E levels \in SUBSET Levels :
         LET new == {r \in {job[h].payment} \X levels : status[r] = "none"}
         IN  /\ status' = [r \in Rows |-> IF r \in new THEN "EARNED" ELSE status[r]]
             /\ insertions' = IF new = {} THEN insertions ELSE insertions + 1
             /\ created' = [r \in Rows |-> IF r \in new THEN insertions + 1 ELSE created[r]]
    /\ processed' = processed \cup {job[h].payment}
    /\ Finish(h)
    /\ UNCHANGED <<payoutBatch, reversedAfterPayout, carryOverBatch, batchVars,
                   refundSent, refunded, paidOut>>

-----------------------------------------------------------------------------
(* reverseCommissionsForPayment: one read, then one update per row.        *)

\* Mutant: rows already paid are left alone.
ToReverseEarned(p) == {r \in RowsOf(p) : status[r] = "EARNED"}

ToReverse(p) == {r \in RowsOf(p) : status[r] # "REVERSED"}

StartReversal(h, p) ==
    /\ job[h].pc = "idle"
    /\ InOrder => /\ p \in processed
                  /\ \A g \in Handlers : job[g].payment # p
    /\ refundSent' = refundSent \cup {p}
    /\ IF ToReverse(p) = {}
       THEN /\ refunded' = refunded \cup {p}
            /\ UNCHANGED job
       ELSE /\ job' = [job EXCEPT ![h].pc = "reverse", ![h].payment = p,
                                  ![h].todo = ToReverse(p),
                                  ![h].seenPaid = {r \in ToReverse(p) : status[r] = "PAID"}]
            /\ UNCHANGED refunded
    /\ UNCHANGED <<rowVars, batchVars, processed, paidOut>>

\* Mutant: never flagged.
NeverFlagged(h, r) == FALSE

\* reversedAfterPayout: commission.status === "PAID", of the status read.
PaidWhenRead(h, r) == r \in job[h].seenPaid

\* The update names the row only: its status may have changed since the read.
ReverseRow(h, r) ==
    /\ job[h].pc = "reverse"
    /\ r \in job[h].todo
    /\ Unlocked({r}, h)
    /\ status' = [status EXCEPT ![r] = "REVERSED"]
    /\ reversedAfterPayout' = [reversedAfterPayout EXCEPT ![r] = PaidWhenRead(h, r)]
    /\ IF job[h].todo = {r}
       THEN Finish(h) /\ refunded' = refunded \cup {job[h].payment}
       ELSE /\ job' = [job EXCEPT ![h].todo = @ \ {r}]
            /\ UNCHANGED refunded
    /\ UNCHANGED <<created, payoutBatch, carryOverBatch, insertions, batchVars,
                   processed, refundSent, paidOut>>

-----------------------------------------------------------------------------
(* createPayoutBatch: one transaction of four statements that matter.      *)

\* The period is an interval of creation times; an empty one throws.
CreateBatch(h, first, last) ==
    /\ job[h].pc = "idle"
    /\ \E b \in Batches : batchStatus[b] = "none"
    /\ LET eligible == {r \in Rows : /\ status[r] = "EARNED"
                                     /\ payoutBatch[r] = Null
                                     /\ created[r] \in first..last}
       IN  /\ eligible # {}
           /\ job' = [job EXCEPT ![h].pc = "attach", ![h].todo = eligible]
    /\ UNCHANGED <<rowVars, batchVars, eventVars, paidOut>>

\* Mutant: what was eligible is attached without a second look.
AttachableUnchecked(h) == job[h].todo

Attachable(h) == {r \in job[h].todo : status[r] = "EARNED" /\ payoutBatch[r] = Null}

\* The attach re-checks status and batch of every row; none left: it throws.
AttachRows(h) ==
    /\ job[h].pc = "attach"
    /\ Unlocked(Attachable(h), h)
    /\ IF Attachable(h) = {}
       THEN Finish(h)
       ELSE job' = [job EXCEPT ![h].pc = "carry", ![h].todo = {}, ![h].locked = Attachable(h)]
    /\ UNCHANGED <<rowVars, batchVars, eventVars, paidOut>>

ReadCarryOvers(h) ==
    /\ job[h].pc = "carry"
    /\ \E S \in SUBSET CarryOvers(job[h].locked) :
         /\ SettlementOf(job[h].locked, S)
         /\ job' = [job EXCEPT ![h].pc = "settle", ![h].settling = S]
    /\ UNCHANGED <<rowVars, batchVars, eventVars, paidOut>>

\* The settlement names the rows only; then the total and the commit.
SettleAndCommit(h) ==
    /\ job[h].pc = "settle"
    /\ Unlocked(job[h].settling, h)
    /\ \E b \in Batches :
         /\ batchStatus[b] = "none"
         /\ batchStatus' = [batchStatus EXCEPT ![b] = "OPEN"]
         /\ batchTotal' = [batchTotal EXCEPT ![b] = Sum(job[h].locked) - Sum(job[h].settling)]
         /\ payoutBatch' = [r \in Rows |-> IF r \in job[h].locked THEN b ELSE payoutBatch[r]]
         /\ carryOverBatch' = [r \in Rows |-> IF r \in job[h].settling THEN b
                                              ELSE carryOverBatch[r]]
    /\ Finish(h)
    /\ UNCHANGED <<status, created, reversedAfterPayout, insertions, eventVars, paidOut>>

-----------------------------------------------------------------------------
(* markPayoutBatchPaid: a check outside, then one transaction.             *)

MarkPaid(h, b) ==
    /\ job[h].pc = "idle"
    /\ batchStatus[b] \in {"OPEN", "EXPORTED"}
    /\ job' = [job EXCEPT ![h].pc = "detach", ![h].batch = b]
    /\ UNCHANGED <<rowVars, batchVars, eventVars, paidOut>>

\* Mutant: the filter is "no longer EARNED" instead of "REVERSED".
DetachableUnearned(b) == {r \in AttachedTo(b) : status[r] # "EARNED" /\ ~reversedAfterPayout[r]}

Detachable(b) == {r \in AttachedTo(b) : status[r] = "REVERSED" /\ ~reversedAfterPayout[r]}

\* Rows reversed before payment leave the batch.
DetachReversed(h) ==
    /\ job[h].pc = "detach"
    /\ Unlocked(Detachable(job[h].batch), h)
    /\ job' = [job EXCEPT ![h].pc = "pay", ![h].locked = Detachable(job[h].batch)]
    /\ UNCHANGED <<rowVars, batchVars, eventVars, paidOut>>

Payable(h) == {r \in AttachedTo(job[h].batch) \ job[h].locked : status[r] = "EARNED"}

\* Mutant: the total of the creation is kept.
KeptTotal(h) == batchTotal[job[h].batch]

\* What was paid, now or before, net of the settled carry-overs.
PaidTotal(h) ==
    LET b == job[h].batch
        paid == {r \in AttachedTo(b) \ job[h].locked : status[r] = "PAID"}
    IN  Sum(paid \cup Payable(h)) - Sum(SettledBy(b))

\* EARNED rows of the batch become PAID, the total is recomputed, the batch is
\* PAID; commit.
PayAndCommit(h) ==
    /\ job[h].pc = "pay"
    /\ Unlocked(Payable(h), h)
    /\ status' = [r \in Rows |-> IF r \in Payable(h) THEN "PAID" ELSE status[r]]
    /\ payoutBatch' = [r \in Rows |-> IF r \in job[h].locked THEN Null ELSE payoutBatch[r]]
    /\ batchTotal' = [batchTotal EXCEPT ![job[h].batch] = PaidTotal(h)]
    /\ batchStatus' = [batchStatus EXCEPT ![job[h].batch] = "PAID"]
    /\ paidOut' = paidOut \cup Payable(h)
    /\ Finish(h)
    /\ UNCHANGED <<created, reversedAfterPayout, carryOverBatch, insertions, eventVars>>

-----------------------------------------------------------------------------
(* exportPayoutBatchCsv: only its effect on the batch.                     *)

Relabels(b) == batchStatus[b] = "OPEN"

ExportCsv(h, b) ==
    /\ job[h].pc = "idle"
    /\ Relabels(b)
    /\ job' = [job EXCEPT ![h].pc = "export", ![h].batch = b]
    /\ UNCHANGED <<rowVars, batchVars, eventVars, paidOut>>

MarkExported(h) ==
    /\ job[h].pc = "export"
    /\ batchStatus' = [batchStatus EXCEPT ![job[h].batch] = "EXPORTED"]
    /\ Finish(h)
    /\ UNCHANGED <<rowVars, batchTotal, eventVars, paidOut>>

-----------------------------------------------------------------------------
\* The process dies, the database refuses a statement or a transaction times
\* out: what was not committed is lost, and the event may be delivered again.
Crash(h) ==
    /\ job[h].pc # "idle"
    /\ Finish(h)
    /\ UNCHANGED <<rowVars, batchVars, eventVars, paidOut>>

Step(h) ==
    \/ \E p \in Payments : ProcessPayment(h, p) \/ StartReversal(h, p)
    \/ InsertCommissions(h)
    \/ \E r \in Rows : ReverseRow(h, r)
    \/ \E first, last \in 1..insertions : CreateBatch(h, first, last)
    \/ AttachRows(h) \/ ReadCarryOvers(h) \/ SettleAndCommit(h)
    \/ \E b \in Batches : MarkPaid(h, b) \/ ExportCsv(h, b)
    \/ DetachReversed(h) \/ PayAndCommit(h)
    \/ MarkExported(h)
    \/ Crash(h)

Next == \E h \in Handlers : Step(h)

Spec == Init /\ [][Next]_vars

-----------------------------------------------------------------------------
(* Properties                                                              *)

\* Every variable keeps its type.  The totals are sums; only their domain is
\* stated, so that the invariant can be proved for every set of payments.
TypeOK ==
    /\ status \in [Rows -> {"none", "EARNED", "PAID", "REVERSED"}]
    /\ created \in [Rows -> Nat]
    /\ payoutBatch \in [Rows -> Batches \cup {Null}]
    /\ reversedAfterPayout \in [Rows -> BOOLEAN]
    /\ carryOverBatch \in [Rows -> Batches \cup {Null}]
    /\ insertions \in Nat
    /\ batchStatus \in [Batches -> {"none", "OPEN", "EXPORTED", "PAID"}]
    /\ DOMAIN batchTotal = Batches
    /\ job \in [Handlers -> JobType]
    /\ processed \subseteq Payments
    /\ refundSent \subseteq Payments
    /\ refunded \subseteq Payments
    /\ paidOut \subseteq Rows

\* "Concurrent batch creation can never double-attach a commission": a row in
\* a batch stays in it or leaves it for none, whatever createPayoutBatch,
\* markPayoutBatchPaid and refunds run at the same time.
AttachedOnce ==
    [][\A r \in Rows : payoutBatch[r] # Null =>
                            payoutBatch'[r] \in {payoutBatch[r], Null}]_vars

\* A row's status only moves EARNED -> PAID -> REVERSED or EARNED -> REVERSED:
\* a refund that commits before markPayoutBatchPaid pays the row is never
\* overwritten by the payment.
StatusForward ==
    [][\A r \in Rows :
          /\ status[r] = "EARNED" => status'[r] \in {"EARNED", "PAID", "REVERSED"}
          /\ status[r] = "PAID" => status'[r] \in {"PAID", "REVERSED"}
          /\ status[r] = "REVERSED" => status'[r] = "REVERSED"]_vars

\* A PAID row is in a batch that has been paid: no request detaches it, and
\* nothing reopens its batch (a late export may relabel it EXPORTED).
PaidRowsInPaidBatch ==
    \A r \in Rows : status[r] = "PAID" =>
        /\ payoutBatch[r] \in Batches
        /\ batchStatus[payoutBatch[r]] \in {"EXPORTED", "PAID"}

\* What an open batch deducts from an agent is covered by what it pays the
\* agent, as long as no attached row was refunded (createPayoutBatch settles
\* whole rows only while the earnings of the batch cover them).
OpenBatchCovered ==
    \A b \in Batches, a \in Agents :
        /\ batchStatus[b] = "OPEN"
        /\ \A r \in AttachedTo(b) : status[r] = "EARNED"
        => Sum(OfAgent(SettledBy(b), a)) <= Sum(OfAgent(AttachedTo(b), a))

\* The total of a paid batch is the money that left: the rows it paid, those
\* refunded since included, less the carry-overs it settled.
Reconciled ==
    \A b \in Batches : batchStatus[b] = "PAID" =>
        batchTotal[b] = Sum({r \in AttachedTo(b) : status[r] = "PAID" \/ reversedAfterPayout[r]})
                        - Sum(SettledBy(b))

\* A refund that arrives after the payout is deducted by one batch only.
CarrySettledOnce ==
    [][\A r \in Rows : carryOverBatch[r] # Null =>
                            carryOverBatch'[r] = carryOverBatch[r]]_vars

\* Once its refund event has been answered no row of a payment can be paid
\* out, even when the loop of updates died half way and was delivered again.
RefundedRowsReversed ==
    \A r \in Rows : r[1] \in refunded => status[r] \in {"none", "REVERSED"}

\* A batch is marked paid once: "Batch already marked paid".
PaidIsFinal ==
    [][\A b \in Batches : batchStatus[b] = "PAID" => batchStatus'[b] = "PAID"]_vars

\* "Commissions already PAID are flagged so the amount is carried over".
PaidRefundIsCarriedOver ==
    \A r \in Rows : (r \in paidOut /\ status[r] = "REVERSED") => reversedAfterPayout[r]

\* "Commissions reversed between export and mark-paid are detached": a batch
\* that has been paid holds no row that was refunded before the payout.
RefundedRowsDetached ==
    \A r \in Rows : payoutBatch[r] # Null =>
        ~(batchStatus[payoutBatch[r]] = "PAID" /\ status[r] = "REVERSED" /\ r \notin paidOut)

\* "Settling whole reversed commissions while the agent's earnings in this
\* batch cover them": what a paid batch deducts from an agent is covered by
\* what it paid the agent.
PaidBatchCovered ==
    \A b \in Batches, a \in Agents : batchStatus[b] = "PAID" =>
        Sum(OfAgent(SettledBy(b), a))
            <= Sum({r \in OfAgent(AttachedTo(b), a) : r \in paidOut})

\* The stage of each row as the abstract ledger sees it.
Stage(r) ==
    CASE status[r] = "none" -> "none"
      [] status[r] = "EARNED" -> IF payoutBatch[r] = Null THEN "earned" ELSE "batched"
      [] status[r] = "PAID" -> "paid"
      [] status[r] = "REVERSED" ->
           IF ~reversedAfterPayout[r] THEN "void"
           ELSE IF carryOverBatch[r] = Null THEN "owed" ELSE "settled"

Lifecycle == INSTANCE CommissionLifecycle WITH stage <- [r \in Rows |-> Stage(r)]

\* Requests that do not overlap implement the abstract ledger: no refund,
\* batch, export, crash or redelivery in between loses or repeats a payment
\* or a deduction.
LifecycleSpec == Lifecycle!Spec
=============================================================================
