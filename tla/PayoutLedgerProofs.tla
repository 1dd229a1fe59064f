------------------------- MODULE PayoutLedgerProofs -------------------------
(***************************************************************************)
(* Theorems about PayoutLedger, for every set of payments, levels, agents, *)
(* batches and handlers.  The argument rests on one invariant, LockInv:    *)
(* the rows an open transaction has written stay as it found them until it *)
(* commits, and no two transactions hold the same row.  What a batch       *)
(* deducts is covered however requests overlap, by lemmas about sums that  *)
(* are proved by induction over the finite sets of rows.  Requests and     *)
(* deliveries that do not overlap keep the books of paid batches and       *)
(* implement the abstract ledger CommissionLifecycle; crashes and          *)
(* redeliveries between them are allowed.                                  *)
(***************************************************************************)
EXTENDS PayoutLedger, FiniteSetTheorems, TLAPS

\* While createPayoutBatch or markPayoutBatchPaid holds a row, the committed
\* row is still the one whose status and batch the statement checked.
HeldRowsUnchanged ==
    \A h \in Handlers :
        /\ job[h].pc \in {"carry", "settle"} =>
             \A r \in job[h].locked : status[r] = "EARNED" /\ payoutBatch[r] = Null
        /\ job[h].pc = "pay" =>
             \A r \in job[h].locked : status[r] = "REVERSED"
        /\ job[h].pc \notin {"carry", "settle", "pay"} => job[h].locked = {}

\* No row is held by two transactions.
OneHolder ==
    \A g, h \in Handlers : g # h => job[g].locked \cap job[h].locked = {}

\* A request that works on a batch works on one that exists.
JobBatch ==
    \A h \in Handlers :
        job[h].pc \in {"detach", "pay", "export"} =>
            job[h].batch \in Batches /\ batchStatus[job[h].batch] # "none"

\* A request that works on a payment knows which one.
JobPayment ==
    \A h \in Handlers : job[h].pc \in {"insert", "reverse"} => job[h].payment \in Payments

LockInv == TypeOK /\ HeldRowsUnchanged /\ OneHolder /\ JobBatch /\ JobPayment

LEMMA InitLockInv == Init => LockInv
  BY LedgerAssumption DEF Init, LockInv, TypeOK, HeldRowsUnchanged, OneHolder, JobBatch,
     JobPayment, Idle, JobType, PCs

\* A job keeps its type when one field of it is written.
LEMMA JobRecord ==
    ASSUME NEW j \in JobType
    PROVE  /\ \A pc \in PCs : [j EXCEPT !.pc = pc] \in JobType
           /\ \A p \in Payments : [j EXCEPT !.payment = p] \in JobType
           /\ \A b \in Batches : [j EXCEPT !.batch = b] \in JobType
           /\ \A S \in SUBSET Rows : [j EXCEPT !.todo = S] \in JobType
           /\ \A S \in SUBSET Rows : [j EXCEPT !.seenPaid = S] \in JobType
           /\ \A S \in SUBSET Rows : [j EXCEPT !.locked = S] \in JobType
           /\ \A S \in SUBSET Rows : [j EXCEPT !.settling = S] \in JobType
<1>1. ASSUME NEW pc \in PCs PROVE [j EXCEPT !.pc = pc] \in JobType
  BY DEF JobType
<1>2. ASSUME NEW p \in Payments PROVE [j EXCEPT !.payment = p] \in JobType
  BY DEF JobType
<1>3. ASSUME NEW b \in Batches PROVE [j EXCEPT !.batch = b] \in JobType
  BY DEF JobType
<1>4. ASSUME NEW S \in SUBSET Rows
      PROVE  [j EXCEPT !.todo = S] \in JobType /\ [j EXCEPT !.seenPaid = S] \in JobType
  BY DEF JobType
<1>5. ASSUME NEW S \in SUBSET Rows
      PROVE  [j EXCEPT !.locked = S] \in JobType /\ [j EXCEPT !.settling = S] \in JobType
  BY DEF JobType
<1> QED
  BY <1>1, <1>2, <1>3, <1>4, <1>5

LEMMA JobField ==
    ASSUME NEW J \in [Handlers -> JobType], NEW h \in Handlers
    PROVE  /\ \A pc \in PCs : [J EXCEPT ![h].pc = pc] \in [Handlers -> JobType]
           /\ \A p \in Payments : [J EXCEPT ![h].payment = p] \in [Handlers -> JobType]
           /\ \A b \in Batches : [J EXCEPT ![h].batch = b] \in [Handlers -> JobType]
           /\ \A S \in SUBSET Rows :
                 /\ [J EXCEPT ![h].todo = S] \in [Handlers -> JobType]
                 /\ [J EXCEPT ![h].seenPaid = S] \in [Handlers -> JobType]
                 /\ [J EXCEPT ![h].locked = S] \in [Handlers -> JobType]
                 /\ [J EXCEPT ![h].settling = S] \in [Handlers -> JobType]
<1> J[h] \in JobType
  OBVIOUS
<1>1. \A j \in JobType : [J EXCEPT ![h] = j] \in [Handlers -> JobType]
  OBVIOUS
<1> QED
  BY <1>1, JobRecord, Zenon

\* Type correctness of a step, one action at a time.
LEMMA TypeStep == ASSUME LockInv, [Next]_vars PROVE TypeOK'
<1> USE DEF LockInv, TypeOK
<1>1. CASE UNCHANGED vars
  BY <1>1 DEF vars, rowVars, batchVars, eventVars
<1>2. ASSUME NEW h \in Handlers, Step(h) PROVE TypeOK'
  <2> Idle \in JobType
    BY DEF Idle, JobType, PCs
  <2> job[h] \in JobType
    OBVIOUS
  <2>1. ASSUME NEW p \in Payments, ProcessPayment(h, p) PROVE TypeOK'
    <3>1. job' \in [Handlers -> JobType]
      <4>1. \/ job' = [job EXCEPT ![h].pc = "insert", ![h].payment = p]
            \/ job' = job
        BY <2>1 DEF ProcessPayment
      <4> QED
        BY <4>1 DEF JobType, PCs
    <3>2. processed' \subseteq Payments
      BY <2>1 DEF ProcessPayment
    <3> QED
      BY <2>1, <3>1, <3>2 DEF ProcessPayment, rowVars, batchVars
  <2>2. ASSUME NEW p \in Payments, StartReversal(h, p) PROVE TypeOK'
    <3>1. job' \in [Handlers -> JobType]
      <4> DEFINE todo == ToReverse(p)
      <4>1. todo \in SUBSET Rows /\ {r \in todo : status[r] = "PAID"} \in SUBSET Rows
        BY DEF RowsOf, ToReverse
      <4>2. CASE todo = {}
        BY <2>2, <4>2 DEF StartReversal
      <4>3. CASE todo # {}
        <5>1. job' = [job EXCEPT ![h].pc = "reverse", ![h].payment = p, ![h].todo = todo,
                                 ![h].seenPaid = {r \in todo : status[r] = "PAID"}]
          BY <2>2, <4>3 DEF StartReversal
        <5> DEFINE seen == {r \in todo : status[r] = "PAID"}
                   going == [job EXCEPT ![h].pc = "reverse"]
                   paying == [going EXCEPT ![h].payment = p]
                   reading == [paying EXCEPT ![h].todo = todo]
        <5>2. job' = [reading EXCEPT ![h].seenPaid = seen]
          BY <5>1
        <5>3. todo \in SUBSET Rows /\ seen \in SUBSET Rows /\ "reverse" \in PCs
          BY <4>1 DEF PCs
        <5> HIDE DEF todo, seen
        <5>4. going \in [Handlers -> JobType]
          BY <5>3, JobField, Zenon
        <5> HIDE DEF going
        <5>5. paying \in [Handlers -> JobType]
          BY <5>4, JobField, Zenon
        <5> HIDE DEF paying
        <5>6. reading \in [Handlers -> JobType]
          BY <5>3, <5>5, JobField, Zenon
        <5> HIDE DEF reading
        <5> QED
          BY <5>2, <5>3, <5>6, JobField, Zenon
      <4> QED
        BY <4>2, <4>3
    <3>2. refunded' \subseteq Payments
      BY <2>2 DEF StartReversal
    <3> QED
      BY <2>2, <3>1, <3>2 DEF StartReversal, rowVars, batchVars
  <2>3. CASE InsertCommissions(h)
    <3>1. /\ status' \in [Rows -> {"none", "EARNED", "PAID", "REVERSED"}]
          /\ created' \in [Rows -> Nat]
          /\ insertions' \in Nat
      BY <2>3 DEF InsertCommissions
    <3>2. Null \notin Payments /\ job[h].payment \in Payments \cup {Null}
      BY LedgerAssumption DEF JobType
    <3>3. job' \in [Handlers -> JobType]
      BY <2>3 DEF InsertCommissions, Finish
    <3>4. processed' \subseteq Payments
      BY <2>3, <3>2 DEF InsertCommissions, JobPayment
    <3> QED
      BY <2>3, <3>1, <3>3, <3>4 DEF InsertCommissions, batchVars
  <2>4. ASSUME NEW r \in Rows, ReverseRow(h, r) PROVE TypeOK'
    <3>1. job' \in [Handlers -> JobType]
      BY <2>4 DEF ReverseRow, PaidWhenRead, Finish, JobType
    <3>2. refunded' \subseteq Payments
      BY <2>4 DEF ReverseRow, PaidWhenRead, JobPayment
    <3> QED
      BY <2>4, <3>1, <3>2 DEF ReverseRow, PaidWhenRead, batchVars
  <2>5. ASSUME NEW first \in 1..insertions, NEW last \in 1..insertions,
               CreateBatch(h, first, last)
        PROVE  TypeOK'
    <3>1. PICK S \in SUBSET Rows : job' = [job EXCEPT ![h].pc = "attach", ![h].todo = S]
      BY <2>5 DEF CreateBatch
    <3> DEFINE going == [job EXCEPT ![h].pc = "attach"]
    <3>2. job' \in [Handlers -> JobType]
      <4>1. "attach" \in PCs
        BY DEF PCs
      <4>2. going \in [Handlers -> JobType]
        BY <4>1, JobField, Zenon
      <4>3. job' = [going EXCEPT ![h].todo = S]
        BY <3>1
      <4> HIDE DEF going
      <4> QED
        BY <4>2, <4>3, JobField, Zenon
    <3> HIDE DEF going
    <3> QED
      BY <2>5, <3>2 DEF CreateBatch, rowVars, batchVars, eventVars
  <2>6. CASE AttachRows(h)
    BY <2>6 DEF AttachRows, Attachable, Finish, JobType, PCs, rowVars, batchVars, eventVars
  <2>7. CASE ReadCarryOvers(h)
    <3>1. PICK S \in SUBSET Rows :
            job' = [job EXCEPT ![h].pc = "settle", ![h].settling = S]
      BY <2>7 DEF ReadCarryOvers, CarryOvers
    <3> DEFINE going == [job EXCEPT ![h].pc = "settle"]
    <3>2. job' \in [Handlers -> JobType]
      <4>1. "settle" \in PCs
        BY DEF PCs
      <4>2. going \in [Handlers -> JobType]
        BY <4>1, JobField, Zenon
      <4>3. job' = [going EXCEPT ![h].settling = S]
        BY <3>1
      <4> HIDE DEF going
      <4> QED
        BY <4>2, <4>3, JobField, Zenon
    <3> HIDE DEF going
    <3> QED
      BY <2>7, <3>2 DEF ReadCarryOvers, rowVars, batchVars, eventVars
  <2>8. CASE SettleAndCommit(h)
    <3>1. PICK b \in Batches :
            /\ batchStatus' = [batchStatus EXCEPT ![b] = "OPEN"]
            /\ payoutBatch' = [r \in Rows |-> IF r \in job[h].locked THEN b ELSE payoutBatch[r]]
            /\ carryOverBatch' = [r \in Rows |-> IF r \in job[h].settling THEN b
                                                 ELSE carryOverBatch[r]]
            /\ DOMAIN batchTotal' = Batches
      BY <2>8 DEF SettleAndCommit
    <3> QED
      BY <2>8, <3>1 DEF SettleAndCommit, Finish, eventVars
  <2>9. ASSUME NEW b \in Batches, MarkPaid(h, b) \/ ExportCsv(h, b) PROVE TypeOK'
    <3>1. \/ job' = [job EXCEPT ![h].pc = "detach", ![h].batch = b]
          \/ job' = [job EXCEPT ![h].pc = "export", ![h].batch = b]
      BY <2>9 DEF MarkPaid, ExportCsv
    <3>2. job' \in [Handlers -> JobType]
      <4>1. PICK pc \in {"detach", "export"} : job' = [job EXCEPT ![h].pc = pc, ![h].batch = b]
        BY <3>1
      <4> DEFINE going == [job EXCEPT ![h].pc = pc]
      <4>2. pc \in PCs
        BY DEF PCs
      <4>3. going \in [Handlers -> JobType]
        BY <4>2, JobField, Zenon
      <4>4. job' = [going EXCEPT ![h].batch = b]
        BY <4>1
      <4> HIDE DEF going
      <4> QED
        BY <4>3, <4>4, JobField, Zenon
    <3> QED
      BY <2>9, <3>2 DEF MarkPaid, ExportCsv, rowVars, batchVars, eventVars
  <2>10. CASE DetachReversed(h)
    BY <2>10 DEF DetachReversed, Detachable, AttachedTo, JobType, PCs, rowVars, batchVars, eventVars
  <2>11. CASE PayAndCommit(h)
    BY <2>11 DEF PayAndCommit, Payable, AttachedTo, Finish, eventVars
  <2>12. CASE MarkExported(h)
    BY <2>12 DEF MarkExported, Finish, rowVars, eventVars
  <2>13. CASE Crash(h)
    BY <2>13 DEF Crash, Finish, rowVars, batchVars, eventVars
  <2> QED
    BY <1>2, <2>1, <2>2, <2>3, <2>4, <2>5, <2>6, <2>7, <2>8, <2>9, <2>10, <2>11, <2>12, <2>13
       DEF Step
<1> QED
  BY <1>1, <1>2 DEF Next

\* A step of one handler leaves the other handlers' jobs alone.
LEMMA JobFrame ==
    ASSUME LockInv, NEW h \in Handlers, Step(h), NEW g \in Handlers \ {h}
    PROVE  job'[g] = job[g]
<1> job \in [Handlers -> JobType]
  BY DEF LockInv, TypeOK
<1> QED
  BY DEF Step, ProcessPayment, StartReversal, InsertCommissions, ReverseRow, CreateBatch,
         AttachRows, ReadCarryOvers, SettleAndCommit, MarkPaid, ExportCsv, DetachReversed,
         PayAndCommit, MarkExported, Crash, Finish

\* The committed rows a transaction holds are changed by nobody else.
LEMMA LockedFrame ==
    ASSUME LockInv, NEW h \in Handlers, Step(h), NEW g \in Handlers \ {h},
           NEW r \in job[g].locked
    PROVE  status'[r] = status[r] /\ payoutBatch'[r] = payoutBatch[r]
<1> USE DEF LockInv, TypeOK
<1>1. job[g] \in JobType /\ job[g].locked \in SUBSET Rows /\ r \in Rows
  BY DEF JobType
<1>2. status[r] \in {"EARNED", "REVERSED"}
  BY <1>1 DEF HeldRowsUnchanged
<1>3. r \notin job[h].locked
  BY DEF OneHolder
<1>4. CASE InsertCommissions(h)
  BY <1>1, <1>2, <1>4 DEF InsertCommissions
<1>5. ASSUME NEW q \in Rows, ReverseRow(h, q)
      PROVE  status'[r] = status[r] /\ payoutBatch'[r] = payoutBatch[r]
  BY <1>1, <1>5 DEF ReverseRow, PaidWhenRead, Unlocked
<1>6. CASE SettleAndCommit(h)
  BY <1>1, <1>3, <1>6 DEF SettleAndCommit
<1>7. CASE PayAndCommit(h)
  BY <1>1, <1>3, <1>7 DEF PayAndCommit, Payable, Unlocked
<1>8. CASE UNCHANGED rowVars
  BY <1>8 DEF rowVars
<1> QED
  BY <1>4, <1>5, <1>6, <1>7, <1>8
     DEF Step, ProcessPayment, StartReversal, CreateBatch, AttachRows, ReadCarryOvers,
         MarkPaid, ExportCsv, DetachReversed, MarkExported, Crash

\* What a step leaves in its own job: nothing held, the same rows held by the
\* next statement of the transaction, or rows it has just found and locked.
LEMMA OwnLocks ==
    ASSUME LockInv, NEW h \in Handlers, Step(h)
    PROVE  \/ job'[h].locked = {} /\ job'[h].pc # "pay"
              /\ job'[h].pc \notin {"carry", "settle"}
           \/ /\ job[h].pc = "carry" /\ job'[h].pc = "settle"
              /\ job'[h].locked = job[h].locked /\ UNCHANGED rowVars
           \/ /\ job'[h].pc = "carry" /\ UNCHANGED rowVars /\ Unlocked(job'[h].locked, h)
              /\ \A r \in job'[h].locked : status[r] = "EARNED" /\ payoutBatch[r] = Null
           \/ /\ job'[h].pc = "pay" /\ UNCHANGED rowVars /\ Unlocked(job'[h].locked, h)
              /\ \A r \in job'[h].locked : status[r] = "REVERSED"
<1> USE DEF LockInv, TypeOK
<1>1. job[h] \in JobType /\ h \in DOMAIN job
  OBVIOUS
<1>2. job[h].pc \notin {"carry", "settle", "pay"} => job[h].locked = {}
  BY DEF HeldRowsUnchanged
<1>3. ASSUME NEW p \in Payments, ProcessPayment(h, p) \/ StartReversal(h, p)
      PROVE  job'[h].locked = {} /\ job'[h].pc \in {"idle", "insert", "reverse"}
  BY <1>1, <1>2, <1>3 DEF ProcessPayment, StartReversal, JobType
<1>4. CASE InsertCommissions(h) \/ SettleAndCommit(h) \/ PayAndCommit(h)
           \/ MarkExported(h) \/ Crash(h)
  BY <1>1, <1>4 DEF InsertCommissions, SettleAndCommit, PayAndCommit, MarkExported, Crash,
                    Finish, Idle
<1>5. ASSUME NEW q \in Rows, ReverseRow(h, q)
      PROVE  job'[h].locked = {} /\ job'[h].pc \in {"idle", "reverse"}
  BY <1>1, <1>2, <1>5 DEF ReverseRow, PaidWhenRead, Finish, Idle, JobType
<1>6. ASSUME NEW first \in 1..insertions, NEW last \in 1..insertions,
             CreateBatch(h, first, last)
      PROVE  job'[h].locked = {} /\ job'[h].pc = "attach"
  BY <1>1, <1>2, <1>6 DEF CreateBatch, JobType
<1>7. CASE AttachRows(h)
  <2> DEFINE attach == Attachable(h)
  <2>1. CASE attach = {}
    BY <1>1, <1>7, <2>1 DEF AttachRows, Attachable, Finish, Idle
  <2>2. CASE attach # {}
    <3>1. /\ job' = [job EXCEPT ![h].pc = "carry", ![h].todo = {}, ![h].locked = attach]
          /\ Unlocked(attach, h) /\ UNCHANGED rowVars
      BY <1>7, <2>2 DEF AttachRows, Attachable
    <3>2. job'[h].pc = "carry" /\ job'[h].locked = attach
      BY <1>1, <3>1 DEF JobType
    <3> QED
      BY <3>1, <3>2 DEF Attachable
  <2> QED
    BY <2>1, <2>2
<1>8. CASE ReadCarryOvers(h)
  BY <1>1, <1>8 DEF ReadCarryOvers, JobType
<1>9. ASSUME NEW b \in Batches, MarkPaid(h, b) \/ ExportCsv(h, b)
      PROVE  job'[h].locked = {} /\ job'[h].pc \in {"detach", "export"}
  BY <1>1, <1>2, <1>9 DEF MarkPaid, ExportCsv, JobType
<1>10. CASE DetachReversed(h)
  BY <1>1, <1>10 DEF DetachReversed, Detachable, AttachedTo, JobType
<1> QED
  BY <1>3, <1>4, <1>5, <1>6, <1>7, <1>8, <1>9, <1>10 DEF Step

LEMMA HeldRowsStep ==
    ASSUME LockInv, NEW h \in Handlers, Step(h) PROVE HeldRowsUnchanged'
<1> SUFFICES ASSUME NEW g \in Handlers
             PROVE  /\ job'[g].pc \in {"carry", "settle"} =>
                         \A r \in job'[g].locked : status'[r] = "EARNED" /\ payoutBatch'[r] = Null
                    /\ job'[g].pc = "pay" => \A r \in job'[g].locked : status'[r] = "REVERSED"
                    /\ job'[g].pc \notin {"carry", "settle", "pay"} => job'[g].locked = {}
  BY DEF HeldRowsUnchanged
<1>1. CASE g # h
  BY <1>1, JobFrame, LockedFrame DEF LockInv, HeldRowsUnchanged
<1>2. CASE g = h
  BY <1>2, OwnLocks DEF LockInv, HeldRowsUnchanged, rowVars
<1> QED
  BY <1>1, <1>2

LEMMA OneHolderStep ==
    ASSUME LockInv, NEW h \in Handlers, Step(h) PROVE OneHolder'
<1>1. ASSUME NEW g \in Handlers \ {h} PROVE job'[g].locked \cap job'[h].locked = {}
  BY JobFrame, OwnLocks DEF LockInv, OneHolder, Unlocked
<1> QED
  BY <1>1, JobFrame DEF LockInv, OneHolder

\* Where each action leaves its handler.
LEMMA PcAfter ==
    ASSUME LockInv, NEW h \in Handlers
    PROVE  /\ \A p \in Payments :
                ProcessPayment(h, p) => \/ job'[h].pc = "insert" /\ job'[h].payment = p
                                        \/ job'[h] = job[h] /\ job[h].pc = "idle"
           /\ \A p \in Payments :
                StartReversal(h, p) => \/ job'[h].pc = "reverse" /\ job'[h].payment = p
                                       \/ job'[h] = job[h] /\ job[h].pc = "idle"
           /\ InsertCommissions(h) \/ SettleAndCommit(h) \/ PayAndCommit(h)
                \/ MarkExported(h) \/ Crash(h) => job'[h].pc = "idle"
           /\ \A r \in Rows :
                ReverseRow(h, r) => \/ job'[h].pc = "idle"
                                    \/ /\ job[h].pc = "reverse" /\ job'[h].pc = "reverse"
                                       /\ job'[h].payment = job[h].payment
           /\ \A first, last : CreateBatch(h, first, last) => job'[h].pc = "attach"
           /\ AttachRows(h) => job'[h].pc \in {"idle", "carry"}
           /\ ReadCarryOvers(h) => job'[h].pc = "settle"
           /\ \A b \in Batches :
                MarkPaid(h, b) \/ ExportCsv(h, b) =>
                    job'[h].pc \in {"detach", "export"} /\ job'[h].batch = b
           /\ DetachReversed(h) => job'[h].pc = "pay" /\ job'[h].batch = job[h].batch
<1> USE DEF LockInv, TypeOK
<1>1. job[h] \in JobType /\ h \in DOMAIN job
  OBVIOUS
<1>2. ASSUME NEW p \in Payments, ProcessPayment(h, p)
      PROVE  \/ job'[h].pc = "insert" /\ job'[h].payment = p
             \/ job'[h] = job[h] /\ job[h].pc = "idle"
  <2>1. \/ job' = job /\ job[h].pc = "idle"
        \/ job' = [job EXCEPT ![h].pc = "insert", ![h].payment = p]
    BY <1>2 DEF ProcessPayment
  <2>2. job' = [job EXCEPT ![h].pc = "insert", ![h].payment = p] =>
          job'[h] = [job[h] EXCEPT !.pc = "insert", !.payment = p]
    BY <1>1
  <2> QED
    BY <1>1, <2>1, <2>2 DEF JobType
<1>3. ASSUME NEW p \in Payments, StartReversal(h, p)
      PROVE  \/ job'[h].pc = "reverse" /\ job'[h].payment = p
             \/ job'[h] = job[h] /\ job[h].pc = "idle"
  <2> DEFINE todo == ToReverse(p)
             seen == {r \in todo : status[r] = "PAID"}
  <2>1. \/ job' = job /\ job[h].pc = "idle"
        \/ job' = [job EXCEPT ![h].pc = "reverse", ![h].payment = p, ![h].todo = todo,
                              ![h].seenPaid = seen]
    BY <1>3 DEF StartReversal
  <2> HIDE DEF todo, seen
  <2>2. \/ job'[h] = job[h] /\ job[h].pc = "idle"
        \/ job'[h] = [job[h] EXCEPT !.pc = "reverse", !.payment = p, !.todo = todo,
                                    !.seenPaid = seen]
    BY <1>1, <2>1
  <2> QED
    BY <1>1, <2>2 DEF JobType
<1>4. InsertCommissions(h) \/ SettleAndCommit(h) \/ PayAndCommit(h)
        \/ MarkExported(h) \/ Crash(h) => job'[h].pc = "idle"
  BY <1>1 DEF InsertCommissions, SettleAndCommit, PayAndCommit, MarkExported, Crash, Finish, Idle
<1>5. ASSUME NEW r \in Rows, ReverseRow(h, r)
      PROVE  \/ job'[h].pc = "idle"
             \/ /\ job[h].pc = "reverse" /\ job'[h].pc = "reverse"
                /\ job'[h].payment = job[h].payment
  BY <1>1, <1>5 DEF ReverseRow, PaidWhenRead, Finish, Idle, JobType
<1>6. ASSUME NEW first, NEW last, CreateBatch(h, first, last) PROVE job'[h].pc = "attach"
  BY <1>1, <1>6 DEF CreateBatch, JobType
<1>7. ASSUME AttachRows(h) PROVE job'[h].pc \in {"idle", "carry"}
  <2> DEFINE attach == Attachable(h)
  <2>1. \/ job' = [job EXCEPT ![h] = Idle]
        \/ job' = [job EXCEPT ![h].pc = "carry", ![h].todo = {}, ![h].locked = attach]
    BY <1>7 DEF AttachRows, Attachable, Finish
  <2> HIDE DEF attach
  <2> QED
    BY <1>1, <2>1 DEF JobType, Idle
<1>8. ReadCarryOvers(h) => job'[h].pc = "settle"
  BY <1>1 DEF ReadCarryOvers, JobType
<1>9. ASSUME NEW b \in Batches, MarkPaid(h, b) \/ ExportCsv(h, b)
      PROVE  job'[h].pc \in {"detach", "export"} /\ job'[h].batch = b
  <2>1. \/ job'[h] = [job[h] EXCEPT !.pc = "detach", !.batch = b]
        \/ job'[h] = [job[h] EXCEPT !.pc = "export", !.batch = b]
    BY <1>1, <1>9 DEF MarkPaid, ExportCsv
  <2> QED
    BY <1>1, <2>1 DEF JobType
<1>10. ASSUME DetachReversed(h) PROVE job'[h].pc = "pay" /\ job'[h].batch = job[h].batch
  <2>1. PICK detach : job'[h] = [job[h] EXCEPT !.pc = "pay", !.locked = detach]
    BY <1>1, <1>10 DEF DetachReversed, Detachable
  <2> QED
    BY <1>1, <2>1 DEF JobType
<1> QED
  BY <1>2, <1>3, <1>4, <1>5, <1>6, <1>7, <1>8, <1>9, <1>10

\* A request keeps working on a batch that exists: batches are never deleted.
LEMMA JobBatchStep ==
    ASSUME LockInv, NEW h \in Handlers, Step(h) PROVE JobBatch'
<1> USE DEF LockInv, TypeOK
<1>1. \A b \in Batches : batchStatus[b] # "none" => batchStatus'[b] # "none"
  BY DEF Step, ProcessPayment, StartReversal, InsertCommissions, ReverseRow, CreateBatch,
         AttachRows, ReadCarryOvers, SettleAndCommit, MarkPaid, ExportCsv, DetachReversed,
         PayAndCommit, MarkExported, Crash, batchVars
<1>2. job'[h].pc \in {"detach", "pay", "export"} =>
        job'[h].batch \in Batches /\ batchStatus[job'[h].batch] # "none"
  <2>1. ASSUME NEW b \in Batches, MarkPaid(h, b) \/ ExportCsv(h, b)
        PROVE  job'[h].batch = b /\ batchStatus[b] # "none"
    <3>1. batchStatus[b] # "none"
      BY <2>1 DEF MarkPaid, ExportCsv, Relabels
    <3>2. job'[h].batch = b
      BY <2>1, PcAfter, Zenon
    <3> QED
      BY <3>1, <3>2
  <2>2. CASE DetachReversed(h)
    <3>1. job'[h].batch = job[h].batch
      BY <2>2, PcAfter, Zenon
    <3>2. job[h].pc = "detach" /\ batchStatus' = batchStatus
      BY <2>2 DEF DetachReversed, batchVars
    <3> QED
      BY <3>1, <3>2 DEF JobBatch
  <2>3. CASE job'[h] = job[h]
    BY <2>3 DEF JobBatch
  <2> QED
    BY <2>1, <2>2, <2>3, PcAfter DEF Step
<1> QED
  BY <1>1, <1>2, JobFrame DEF JobBatch

LEMMA JobPaymentStep ==
    ASSUME LockInv, NEW h \in Handlers, Step(h) PROVE JobPayment'
<1>1. job'[h].pc \in {"insert", "reverse"} => job'[h].payment \in Payments
  BY PcAfter DEF Step, LockInv, JobPayment
<1> QED
  BY <1>1, JobFrame DEF JobPayment, LockInv

\* The rows a transaction holds are what it found them to be, and held once.
THEOREM LockInvariant == Spec => []LockInv
<1>1. LockInv /\ [Next]_vars => LockInv'
  <2> SUFFICES ASSUME LockInv, [Next]_vars PROVE LockInv'
    OBVIOUS
  <2>1. TypeOK'
    BY TypeStep
  <2>2. CASE UNCHANGED vars
    BY <2>1, <2>2 DEF LockInv, HeldRowsUnchanged, OneHolder, JobBatch, JobPayment,
                      vars, rowVars, batchVars
  <2>3. ASSUME NEW h \in Handlers, Step(h) PROVE LockInv'
    BY <2>1, <2>3, HeldRowsStep, OneHolderStep, JobBatchStep, JobPaymentStep DEF LockInv
  <2> QED
    BY <2>2, <2>3 DEF Next
<1> QED
  BY <1>1, InitLockInv, PTL DEF Spec

\* Every variable keeps its type.
THEOREM TypeCorrect == Spec => []TypeOK
<1>1. LockInv => TypeOK
  BY DEF LockInv
<1> QED
  BY <1>1, LockInvariant, PTL

\* Attach, commit and detach under every interleaving: a commission is never
\* moved from one batch to another (createPayoutBatch, markPayoutBatchPaid).
THEOREM NeverDoubleAttached == Spec => AttachedOnce
<1>1. LockInv /\ [Next]_vars =>
        [\A r \in Rows : payoutBatch[r] # Null => payoutBatch'[r] \in {payoutBatch[r], Null}]_vars
  <2> SUFFICES ASSUME LockInv, NEW h \in Handlers, Step(h), NEW r \in Rows, payoutBatch[r] # Null
               PROVE  payoutBatch'[r] \in {payoutBatch[r], Null}
    BY DEF Next
  <2> USE DEF LockInv, TypeOK
  <2>1. CASE SettleAndCommit(h)
    <3>1. r \notin job[h].locked
      BY <2>1 DEF SettleAndCommit, HeldRowsUnchanged
    <3> QED
      BY <2>1, <3>1 DEF SettleAndCommit
  <2>2. CASE PayAndCommit(h)
    BY <2>2 DEF PayAndCommit, Payable
  <2>3. CASE UNCHANGED payoutBatch
    BY <2>3
  <2> QED
    BY <2>1, <2>2, <2>3
       DEF Step, ProcessPayment, StartReversal, InsertCommissions, ReverseRow, CreateBatch,
           AttachRows, ReadCarryOvers, MarkPaid, ExportCsv, DetachReversed, MarkExported,
           Crash, rowVars
<1> QED
  BY <1>1, LockInvariant, PTL DEF Spec, AttachedOnce

\* How a step may change the status of a row.
LEMMA StatusStep ==
    ASSUME LockInv, NEW h \in Handlers, Step(h), NEW r \in Rows
    PROVE  \/ status'[r] = status[r]
           \/ /\ InsertCommissions(h) /\ status[r] = "none" /\ status'[r] = "EARNED"
              /\ r[1] = job[h].payment
           \/ /\ ReverseRow(h, r) /\ status'[r] = "REVERSED"
           \/ /\ PayAndCommit(h) /\ status[r] = "EARNED" /\ status'[r] = "PAID"
              /\ payoutBatch[r] = job[h].batch /\ r \notin job[h].locked
<1> USE DEF LockInv, TypeOK
<1>1. CASE InsertCommissions(h)
  BY <1>1 DEF InsertCommissions
<1>2. ASSUME NEW q \in Rows, ReverseRow(h, q)
      PROVE  status'[r] = status[r] \/ (ReverseRow(h, r) /\ status'[r] = "REVERSED")
  <2>1. CASE q = r
    BY <1>2, <2>1 DEF ReverseRow, PaidWhenRead
  <2>2. CASE q # r
    BY <1>2, <2>2 DEF ReverseRow, PaidWhenRead
  <2> QED
    BY <2>1, <2>2
<1>3. CASE PayAndCommit(h)
  BY <1>3 DEF PayAndCommit, Payable, AttachedTo
<1>4. CASE UNCHANGED status
  BY <1>4
<1> QED
  BY <1>1, <1>2, <1>3, <1>4
     DEF Step, ProcessPayment, StartReversal, CreateBatch, AttachRows, ReadCarryOvers,
         SettleAndCommit, MarkPaid, ExportCsv, DetachReversed, MarkExported, Crash, rowVars

\* No interleaving takes a status back: a refunded row is never paid, a paid
\* row is never earned again.
THEOREM StatusNeverGoesBack == Spec => StatusForward
<1>1. LockInv /\ [Next]_vars =>
        [\A r \in Rows :
            /\ status[r] = "EARNED" => status'[r] \in {"EARNED", "PAID", "REVERSED"}
            /\ status[r] = "PAID" => status'[r] \in {"PAID", "REVERSED"}
            /\ status[r] = "REVERSED" => status'[r] = "REVERSED"]_vars
  BY StatusStep DEF Next
<1> QED
  BY <1>1, LockInvariant, PTL DEF Spec, StatusForward

\* A PAID row belongs to a batch that went through markPayoutBatchPaid.
THEOREM PaidRowsStayInPaidBatch == Spec => []PaidRowsInPaidBatch
<1>1. Init => PaidRowsInPaidBatch
  BY DEF Init, PaidRowsInPaidBatch
<1>2. LockInv /\ PaidRowsInPaidBatch /\ [Next]_vars => PaidRowsInPaidBatch'
  <2> SUFFICES ASSUME LockInv, PaidRowsInPaidBatch, NEW h \in Handlers, Step(h),
                      NEW r \in Rows, status'[r] = "PAID"
               PROVE  /\ payoutBatch'[r] \in Batches
                      /\ batchStatus'[payoutBatch'[r]] \in {"EXPORTED", "PAID"}
    BY DEF Next, PaidRowsInPaidBatch, vars, rowVars, batchVars
  <2> USE DEF LockInv, TypeOK
  <2>1. CASE PayAndCommit(h) /\ status[r] # "PAID"
    <3>1. payoutBatch'[r] = job[h].batch
      BY <2>1, StatusStep DEF PayAndCommit, Payable
    <3>2. job[h].batch \in Batches
      BY <2>1 DEF PayAndCommit, Payable, JobBatch
    <3> QED
      BY <2>1, <3>1, <3>2 DEF PayAndCommit, Payable
  <2>2. CASE status[r] = "PAID"
    <3>1. payoutBatch[r] \in Batches /\ batchStatus[payoutBatch[r]] \in {"EXPORTED", "PAID"}
      BY <2>2 DEF PaidRowsInPaidBatch
    <3>2. payoutBatch'[r] = payoutBatch[r]
      <4>1. CASE SettleAndCommit(h) \/ PayAndCommit(h)
        <5>1. r \notin job[h].locked
          BY <2>2, <4>1 DEF SettleAndCommit, PayAndCommit, HeldRowsUnchanged
        <5> QED
          BY <4>1, <5>1 DEF SettleAndCommit, PayAndCommit
      <4>2. CASE UNCHANGED payoutBatch
        BY <4>2
      <4> QED
        BY <4>1, <4>2
           DEF Step, ProcessPayment, StartReversal, InsertCommissions, ReverseRow, CreateBatch,
               AttachRows, ReadCarryOvers, MarkPaid, ExportCsv, DetachReversed, MarkExported,
               Crash, rowVars
    <3>3. batchStatus'[payoutBatch[r]] \in {"EXPORTED", "PAID"}
      BY <3>1 DEF Step, ProcessPayment, StartReversal, InsertCommissions, ReverseRow, CreateBatch,
               AttachRows, ReadCarryOvers, SettleAndCommit, MarkPaid, ExportCsv, DetachReversed,
               PayAndCommit, MarkExported, Crash, batchVars
    <3> QED
      BY <3>1, <3>2, <3>3
  <2>3. CASE status[r] # "PAID" /\ ~PayAndCommit(h)
    BY <2>3, StatusStep
  <2> QED
    BY <2>1, <2>2, <2>3
<1> QED
  BY <1>1, <1>2, LockInvariant, PTL DEF Spec

\* What makes a refund complete when a payment's events do not overlap: no
\* insertion is pending for a payment whose refund was delivered, and every
\* row of a payment being refunded is reversed or still on the list.
RefundInv ==
    /\ refunded \subseteq refundSent
    /\ \A h \in Handlers :
         /\ job[h].pc = "insert" => job[h].payment \notin refundSent
         /\ job[h].pc = "reverse" =>
              /\ job[h].payment \in refundSent
              /\ \A r \in Rows : r[1] = job[h].payment =>
                    status[r] \in {"none", "REVERSED"} \/ r \in job[h].todo
    /\ RefundedRowsReversed

LEMMA RefundStep ==
    ASSUME InOrder, LockInv, RefundInv, NEW h \in Handlers, Step(h) PROVE RefundInv'
<1> USE DEF LockInv, TypeOK
<1>1. refunded' \subseteq refundSent' /\ refundSent \subseteq refundSent'
  <2>1. ASSUME NEW p \in Payments, StartReversal(h, p)
        PROVE  refunded' \subseteq refundSent' /\ refundSent \subseteq refundSent'
    BY <2>1 DEF RefundInv, StartReversal
  <2>2. ASSUME NEW q \in Rows, ReverseRow(h, q)
        PROVE  refunded' \subseteq refundSent' /\ refundSent \subseteq refundSent'
    BY <2>2 DEF RefundInv, ReverseRow
  <2>3. CASE UNCHANGED <<refunded, refundSent>>
    BY <2>3 DEF RefundInv
  <2> QED
    BY <2>1, <2>2, <2>3
       DEF Step, ProcessPayment, InsertCommissions, CreateBatch, AttachRows, ReadCarryOvers,
           SettleAndCommit, MarkPaid, ExportCsv, DetachReversed, PayAndCommit, MarkExported,
           Crash, eventVars
\* An insertion is never for a payment whose refund has been delivered.
<1>2. ASSUME NEW g \in Handlers, job'[g].pc = "insert" PROVE job'[g].payment \notin refundSent'
  <2>1. ASSUME NEW p \in Payments, ProcessPayment(h, p), g = h, job'[h].pc = "insert",
               job'[h].payment = p
        PROVE  job'[g].payment \notin refundSent'
    BY <2>1 DEF ProcessPayment
  <2>2. CASE job'[g] = job[g]
    <3>1. job[g].pc = "insert" /\ job[g].payment \notin refundSent
      BY <1>2, <2>2 DEF RefundInv
    <3>2. \A p \in Payments : StartReversal(h, p) => job[g].payment # p
      BY DEF StartReversal
    <3>3. (\A p \in Payments : ~StartReversal(h, p)) => refundSent' = refundSent
      BY DEF Step, ProcessPayment, InsertCommissions, ReverseRow, CreateBatch, AttachRows,
             ReadCarryOvers, SettleAndCommit, MarkPaid, ExportCsv, DetachReversed,
             PayAndCommit, MarkExported, Crash, eventVars
    <3>4. \A p \in Payments : StartReversal(h, p) => refundSent' = refundSent \cup {p}
      BY DEF StartReversal
    <3> QED
      BY <2>2, <3>1, <3>2, <3>3, <3>4
  <2>3. g # h => job'[g] = job[g]
    BY JobFrame
  <2> QED
    BY <1>2, <2>1, <2>2, <2>3, PcAfter DEF Step
\* Rows of a payment whose refund was delivered are not inserted any more.
<1>3. ASSUME NEW r \in Rows, r[1] \in refundSent, status[r] \in {"none", "REVERSED"}
      PROVE  status'[r] \in {"none", "REVERSED"}
  BY <1>3, StatusStep DEF RefundInv, InsertCommissions
\* The list of a refund covers every row of its payment.
<1>4. ASSUME NEW g \in Handlers, job'[g].pc = "reverse"
      PROVE  /\ job'[g].payment \in refundSent'
             /\ \A r \in Rows : r[1] = job'[g].payment =>
                   status'[r] \in {"none", "REVERSED"} \/ r \in job'[g].todo
  <2>1. CASE job'[g] = job[g]
    BY <1>1, <1>3, <1>4, <2>1 DEF RefundInv
  <2>2. ASSUME NEW p \in Payments, StartReversal(h, p), g = h
        PROVE  /\ job'[g].payment \in refundSent'
               /\ \A r \in Rows : r[1] = job'[g].payment =>
                     status'[r] \in {"none", "REVERSED"} \/ r \in job'[g].todo
    <3> DEFINE todo == ToReverse(p)
               seen == {r \in todo : status[r] = "PAID"}
    <3>1. CASE todo = {}
      <4>1. job' = job
        BY <2>2, <3>1 DEF StartReversal
      <4> QED
        BY <2>1, <2>2, <4>1
    <3>2. CASE todo # {}
      <4>1. job' = [job EXCEPT ![h].pc = "reverse", ![h].payment = p, ![h].todo = todo,
                               ![h].seenPaid = seen]
        BY <2>2, <3>2 DEF StartReversal
      <4>2. refundSent' = refundSent \cup {p} /\ status' = status
        BY <2>2 DEF StartReversal, rowVars
      <4>3. \A r \in Rows : r[1] = p => status[r] \in {"none", "REVERSED"} \/ r \in todo
        BY DEF RowsOf, ToReverse
      <4> HIDE DEF todo, seen
      <4>4. job'[h] = [job[h] EXCEPT !.pc = "reverse", !.payment = p, !.todo = todo,
                                     !.seenPaid = seen]
        BY <4>1
      <4>5. job'[h].payment = p /\ job'[h].todo = todo
        BY <4>4 DEF JobType
      <4> QED
        BY <2>2, <4>2, <4>3, <4>5
    <3> QED
      BY <3>1, <3>2
  <2>3. ASSUME NEW q \in Rows, ReverseRow(h, q), g = h
        PROVE  /\ job'[g].payment \in refundSent'
               /\ \A r \in Rows : r[1] = job'[g].payment =>
                     status'[r] \in {"none", "REVERSED"} \/ r \in job'[g].todo
    <3>1. job[h].todo # {q}
      BY <1>4, <2>3 DEF ReverseRow, PaidWhenRead, Finish, Idle
    <3>2. job' = [job EXCEPT ![h].todo = job[h].todo \ {q}]
      BY <2>3, <3>1 DEF ReverseRow, PaidWhenRead
    <3>3. /\ job'[h].payment = job[h].payment /\ job'[h].todo = job[h].todo \ {q}
          /\ job[h].pc = "reverse"
      BY <2>3, <3>2 DEF ReverseRow, PaidWhenRead, JobType
    <3>4. \A r \in Rows : status'[r] = IF r = q THEN "REVERSED" ELSE status[r]
      BY <2>3 DEF ReverseRow, PaidWhenRead
    <3> QED
      BY <1>1, <2>3, <3>3, <3>4 DEF RefundInv
  <2>4. g # h => job'[g] = job[g]
    BY JobFrame
  <2> QED
    BY <1>4, <2>1, <2>2, <2>3, <2>4, PcAfter DEF Step
<1>5. RefundedRowsReversed'
  <2> SUFFICES ASSUME NEW r \in Rows, r[1] \in refunded'
               PROVE  status'[r] \in {"none", "REVERSED"}
    BY DEF RefundedRowsReversed
  <2>1. CASE r[1] \in refunded
    BY <1>3, <2>1 DEF RefundInv, RefundedRowsReversed
  <2>2. CASE r[1] \notin refunded
    <3>1. \/ \E p \in Payments : StartReversal(h, p)
          \/ \E q \in Rows : ReverseRow(h, q)
      BY <2>2 DEF Step, ProcessPayment, InsertCommissions, CreateBatch, AttachRows,
             ReadCarryOvers, SettleAndCommit, MarkPaid, ExportCsv, DetachReversed,
             PayAndCommit, MarkExported, Crash, eventVars
    <3>2. ASSUME NEW p \in Payments, StartReversal(h, p)
          PROVE  status'[r] \in {"none", "REVERSED"}
      BY <2>2, <3>2 DEF StartReversal, RowsOf, ToReverse, rowVars
    <3>3. ASSUME NEW q \in Rows, ReverseRow(h, q)
          PROVE  status'[r] \in {"none", "REVERSED"}
      <4>1. job[h].todo = {q} /\ r[1] = job[h].payment /\ job[h].pc = "reverse"
        BY <2>2, <3>3 DEF ReverseRow, PaidWhenRead
      <4>2. \A s \in Rows : status'[s] = IF s = q THEN "REVERSED" ELSE status[s]
        BY <3>3 DEF ReverseRow, PaidWhenRead
      <4> QED
        BY <4>1, <4>2 DEF RefundInv
    <3> QED
      BY <3>1, <3>2, <3>3
  <2> QED
    BY <2>1, <2>2
<1> QED
  BY <1>1, <1>2, <1>4, <1>5 DEF RefundInv

\* When the events of a payment are delivered one after the other, and each
\* again until it is answered, an answered refund has reversed every row:
\* reverseCommissionsForPayment may crash between any two of its updates.
THEOREM RefundIsComplete ==
    ASSUME InOrder PROVE Spec => []RefundedRowsReversed
<1>1. Init => RefundInv
  BY DEF Init, Idle, RefundInv, RefundedRowsReversed
<1>2. LockInv /\ RefundInv /\ [Next]_vars => RefundInv'
  <2>1. LockInv /\ RefundInv /\ UNCHANGED vars => RefundInv'
    BY DEF RefundInv, RefundedRowsReversed, vars, rowVars, eventVars
  <2> QED
    BY <2>1, RefundStep DEF Next
<1>3. RefundInv => RefundedRowsReversed
  BY DEF RefundInv
<1> QED
  BY <1>1, <1>2, <1>3, LockInvariant, PTL DEF Spec

-----------------------------------------------------------------------------
(* Requests one at a time *)

\* One request at a time.
Sequential == \A g, h \in Handlers : g = h

\* What a handler remembers of the rows is still true when it uses it.
MemoryInv ==
    \A h \in Handlers :
        /\ job[h].pc = "reverse" =>
             \A r \in job[h].todo : /\ status[r] \in {"EARNED", "PAID"}
                                    /\ r \in job[h].seenPaid <=> status[r] = "PAID"
        /\ job[h].pc \in {"carry", "settle"} => job[h].locked # {}
        /\ job[h].pc = "settle" =>
             \A r \in job[h].settling :
                 status[r] = "REVERSED" /\ reversedAfterPayout[r] /\ carryOverBatch[r] = Null

\* Only refunds of paid rows are carried over, and all of them are.
CarryInv ==
    \A r \in Rows :
        /\ carryOverBatch[r] # Null => reversedAfterPayout[r]
        /\ reversedAfterPayout[r] => status[r] = "REVERSED"
        /\ r \in paidOut <=> status[r] = "PAID" \/ reversedAfterPayout[r]
        /\ status[r] = "none" => payoutBatch[r] = Null

SeqInv == LockInv /\ MemoryInv /\ CarryInv

LEMMA MemoryStep ==
    ASSUME Sequential, SeqInv, NEW h \in Handlers, Step(h) PROVE MemoryInv'
<1> USE DEF SeqInv, LockInv, TypeOK
<1>0. job[h] \in JobType /\ h \in DOMAIN job
  OBVIOUS
<1>1. SUFFICES
        /\ job'[h].pc = "reverse" =>
             \A r \in job'[h].todo : /\ status'[r] \in {"EARNED", "PAID"}
                                     /\ r \in job'[h].seenPaid <=> status'[r] = "PAID"
        /\ job'[h].pc \in {"carry", "settle"} => job'[h].locked # {}
        /\ job'[h].pc = "settle" =>
             \A r \in job'[h].settling : /\ status'[r] = "REVERSED" /\ reversedAfterPayout'[r]
                                         /\ carryOverBatch'[r] = Null
  BY DEF Sequential, MemoryInv
<1>2. ASSUME NEW p \in Payments, StartReversal(h, p), job'[h].pc = "reverse"
      PROVE  \A r \in job'[h].todo : /\ status'[r] \in {"EARNED", "PAID"}
                                     /\ r \in job'[h].seenPaid <=> status'[r] = "PAID"
  <2> DEFINE todo == ToReverse(p)
             seen == {r \in todo : status[r] = "PAID"}
  <2>1. job' = [job EXCEPT ![h].pc = "reverse", ![h].payment = p, ![h].todo = todo,
                           ![h].seenPaid = seen]
    BY <1>2 DEF StartReversal
  <2>2. status' = status
    BY <1>2 DEF StartReversal, rowVars
  <2>3. \A r \in todo : status[r] \in {"EARNED", "PAID"} /\ (r \in seen <=> status[r] = "PAID")
    BY DEF RowsOf, ToReverse
  <2> HIDE DEF todo, seen
  <2>4. job'[h] = [job[h] EXCEPT !.pc = "reverse", !.payment = p, !.todo = todo,
                                 !.seenPaid = seen]
    BY <1>0, <2>1
  <2>5. job'[h].todo = todo /\ job'[h].seenPaid = seen
    BY <1>0, <2>4 DEF JobType
  <2> QED
    BY <2>2, <2>3, <2>5
<1>3. ASSUME NEW q \in Rows, ReverseRow(h, q), job'[h].pc = "reverse"
      PROVE  \A r \in job'[h].todo : /\ status'[r] \in {"EARNED", "PAID"}
                                     /\ r \in job'[h].seenPaid <=> status'[r] = "PAID"
  <2>1. job[h].todo # {q}
    BY <1>0, <1>3 DEF ReverseRow, PaidWhenRead, Finish, Idle
  <2>2. job' = [job EXCEPT ![h].todo = job[h].todo \ {q}]
    BY <1>3, <2>1 DEF ReverseRow, PaidWhenRead
  <2>3. /\ job'[h].todo = job[h].todo \ {q} /\ job'[h].seenPaid = job[h].seenPaid
        /\ job[h].pc = "reverse" /\ job[h].todo \subseteq Rows
    BY <1>0, <1>3, <2>2 DEF ReverseRow, PaidWhenRead, JobType
  <2>4. \A r \in Rows \ {q} : status'[r] = status[r]
    BY <1>3 DEF ReverseRow, PaidWhenRead
  <2> QED
    BY <2>3, <2>4 DEF MemoryInv
<1>4. ASSUME AttachRows(h), job'[h].pc \in {"carry", "settle"}
      PROVE  job'[h].locked # {} /\ job'[h].pc = "carry"
  <2> DEFINE attach == Attachable(h)
  <2>1. attach # {}
    BY <1>0, <1>4 DEF AttachRows, Attachable, Finish, Idle
  <2>2. job' = [job EXCEPT ![h].pc = "carry", ![h].todo = {}, ![h].locked = attach]
    BY <1>4, <2>1 DEF AttachRows, Attachable
  <2> HIDE DEF attach
  <2> QED
    BY <1>0, <2>1, <2>2 DEF JobType
<1>5. ASSUME ReadCarryOvers(h)
      PROVE  /\ job'[h].locked # {} /\ job'[h].pc = "settle"
             /\ \A r \in job'[h].settling : /\ status'[r] = "REVERSED" /\ reversedAfterPayout'[r]
                                            /\ carryOverBatch'[r] = Null
  <2>1. PICK S \in SUBSET CarryOvers(job[h].locked) :
          job' = [job EXCEPT ![h].pc = "settle", ![h].settling = S]
    BY <1>5 DEF ReadCarryOvers
  <2>2. job'[h] = [job[h] EXCEPT !.pc = "settle", !.settling = S]
    BY <1>0, <2>1
  <2>3. job'[h].settling = S /\ job'[h].locked = job[h].locked /\ job'[h].pc = "settle"
    BY <1>0, <2>2 DEF JobType
  <2>4. job[h].locked # {} /\ UNCHANGED rowVars
    BY <1>5 DEF ReadCarryOvers, MemoryInv
  <2> QED
    BY <2>3, <2>4 DEF CarryOvers, rowVars
<1>6. job'[h].pc \in {"reverse", "carry", "settle"} =>
        \/ \E p \in Payments : StartReversal(h, p)
        \/ \E q \in Rows : ReverseRow(h, q)
        \/ AttachRows(h) \/ ReadCarryOvers(h)
  BY PcAfter DEF Step
<1> QED
  BY <1>2, <1>3, <1>4, <1>5, <1>6, PcAfter

LEMMA CarryStep ==
    ASSUME SeqInv, NEW h \in Handlers, Step(h) PROVE CarryInv'
<1> USE DEF SeqInv, LockInv, TypeOK
<1> SUFFICES ASSUME NEW r \in Rows
             PROVE  /\ carryOverBatch'[r] # Null => reversedAfterPayout'[r]
                    /\ reversedAfterPayout'[r] => status'[r] = "REVERSED"
                    /\ r \in paidOut' <=> status'[r] = "PAID" \/ reversedAfterPayout'[r]
                    /\ status'[r] = "none" => payoutBatch'[r] = Null
  BY DEF CarryInv
<1>1. /\ carryOverBatch[r] # Null => reversedAfterPayout[r]
      /\ reversedAfterPayout[r] => status[r] = "REVERSED"
      /\ r \in paidOut <=> status[r] = "PAID" \/ reversedAfterPayout[r]
      /\ status[r] = "none" => payoutBatch[r] = Null
  BY DEF CarryInv
<1>2. CASE InsertCommissions(h)
  BY <1>1, <1>2 DEF InsertCommissions
<1>3. ASSUME NEW q \in Rows, ReverseRow(h, q)
      PROVE  /\ carryOverBatch'[r] # Null => reversedAfterPayout'[r]
             /\ reversedAfterPayout'[r] => status'[r] = "REVERSED"
             /\ r \in paidOut' <=> status'[r] = "PAID" \/ reversedAfterPayout'[r]
             /\ status'[r] = "none" => payoutBatch'[r] = Null
  <2>1. /\ status[q] \in {"EARNED", "PAID"} /\ (q \in job[h].seenPaid <=> status[q] = "PAID")
    BY <1>3 DEF ReverseRow, PaidWhenRead, MemoryInv
  <2>2. /\ status'[r] = IF r = q THEN "REVERSED" ELSE status[r]
        /\ reversedAfterPayout'[r] = IF r = q THEN q \in job[h].seenPaid
                                     ELSE reversedAfterPayout[r]
        /\ carryOverBatch' = carryOverBatch /\ paidOut' = paidOut /\ payoutBatch' = payoutBatch
    BY <1>3 DEF ReverseRow, PaidWhenRead
  <2>3. CASE r = q
    BY <1>1, <2>1, <2>2, <2>3
  <2>4. CASE r # q
    BY <1>1, <2>2, <2>4
  <2> QED
    BY <2>3, <2>4
<1>4. CASE SettleAndCommit(h)
  <2>1. /\ r \in job[h].settling => reversedAfterPayout[r]
        /\ r \in job[h].locked => status[r] # "none"
    BY <1>4 DEF SettleAndCommit, MemoryInv, HeldRowsUnchanged
  <2> QED
    BY <1>1, <1>4, <2>1 DEF SettleAndCommit
<1>5. CASE PayAndCommit(h)
  BY <1>1, <1>5 DEF PayAndCommit, Payable, AttachedTo
<1>6. CASE UNCHANGED <<rowVars, paidOut>>
  BY <1>1, <1>6 DEF rowVars
<1> QED
  BY <1>2, <1>3, <1>4, <1>5, <1>6
     DEF Step, ProcessPayment, StartReversal, CreateBatch, AttachRows, ReadCarryOvers,
         MarkPaid, ExportCsv, DetachReversed, MarkExported, Crash

LEMMA SeqInvariant == ASSUME Sequential PROVE Spec => []SeqInv
<1>1. Init => MemoryInv /\ CarryInv
  BY DEF Init, Idle, MemoryInv, CarryInv
<1>2. SeqInv /\ [Next]_vars /\ LockInv' => SeqInv'
  <2>1. SeqInv /\ UNCHANGED vars /\ LockInv' => SeqInv'
    BY DEF SeqInv, MemoryInv, CarryInv, vars, rowVars
  <2> QED
    BY <2>1, MemoryStep, CarryStep DEF Next, SeqInv
<1>3. LockInv /\ MemoryInv /\ CarryInv => SeqInv
  BY DEF SeqInv
<1> QED
  BY <1>1, <1>2, <1>3, InitLockInv, LockInvariant, PTL DEF Spec

\* When requests do not overlap every refund of a paid row is carried over
\* (reverseCommissionsForPayment reads the status it decides by).
THEOREM PaidRefundsAreCarriedOver ==
    ASSUME Sequential PROVE Spec => []PaidRefundIsCarriedOver
<1>1. SeqInv => PaidRefundIsCarriedOver
  BY DEF SeqInv, CarryInv, PaidRefundIsCarriedOver
<1> QED
  BY <1>1, SeqInvariant, PTL

\* When requests do not overlap a carry-over is settled by one batch only.
THEOREM CarryOversAreSettledOnce ==
    ASSUME Sequential PROVE Spec => CarrySettledOnce
<1>1. SeqInv /\ [Next]_vars =>
        [\A r \in Rows : carryOverBatch[r] # Null => carryOverBatch'[r] = carryOverBatch[r]]_vars
  <2> SUFFICES ASSUME SeqInv, NEW h \in Handlers, Step(h), NEW r \in Rows, carryOverBatch[r] # Null
               PROVE  carryOverBatch'[r] = carryOverBatch[r]
    BY DEF Next
  <2>1. CASE SettleAndCommit(h)
    <3>1. r \notin job[h].settling
      BY <2>1 DEF SettleAndCommit, SeqInv, MemoryInv
    <3> QED
      BY <2>1, <3>1 DEF SettleAndCommit
  <2>2. CASE UNCHANGED carryOverBatch
    BY <2>2
  <2> QED
    BY <2>1, <2>2
       DEF Step, ProcessPayment, StartReversal, InsertCommissions, ReverseRow, CreateBatch,
           AttachRows, ReadCarryOvers, PayAndCommit, MarkPaid, ExportCsv, DetachReversed,
           MarkExported, Crash, rowVars
<1> QED
  BY <1>1, SeqInvariant, PTL DEF Spec, CarrySettledOnce

-----------------------------------------------------------------------------
(* What a paid batch paid *)

\* The rows a batch has paid, those refunded since included.
PaidIn(b) == {r \in AttachedTo(b) : status[r] = "PAID" \/ reversedAfterPayout[r]}

\* A row that was paid is in a batch marked PAID, and a request that marks or
\* relabels a batch finds it as it was when it was checked.
BooksInv ==
    /\ \A r \in Rows : status[r] = "PAID" \/ reversedAfterPayout[r] =>
          payoutBatch[r] \in Batches /\ batchStatus[payoutBatch[r]] = "PAID"
    /\ \A h \in Handlers :
          /\ job[h].pc \in {"detach", "pay"} => batchStatus[job[h].batch] \in {"OPEN", "EXPORTED"}
          /\ job[h].pc = "export" => batchStatus[job[h].batch] = "OPEN"
          /\ job[h].pc = "pay" =>
                \A r \in job[h].locked : payoutBatch[r] = job[h].batch /\ ~reversedAfterPayout[r]
    /\ Reconciled

\* The books in terms of the rows a batch has paid.
LEMMA Books ==
    Reconciled <=> \A b \in Batches : batchStatus[b] = "PAID" =>
                       batchTotal[b] = Sum(PaidIn(b)) - Sum(SettledBy(b))
  BY DEF Reconciled, PaidIn

\* Batches whose rows, settlement and total stay are reconciled still.
LEMMA StillReconciled ==
    ASSUME Reconciled,
           \A b \in Batches : batchStatus'[b] = "PAID" =>
               /\ batchStatus[b] = "PAID" /\ batchTotal'[b] = batchTotal[b]
               /\ PaidIn(b)' = PaidIn(b) /\ SettledBy(b)' = SettledBy(b)
    PROVE  Reconciled'
<1>1. ASSUME NEW b \in Batches, batchStatus'[b] = "PAID"
      PROVE  batchTotal'[b] = Sum(PaidIn(b)') - Sum(SettledBy(b)')
  <2>1. batchTotal[b] = Sum(PaidIn(b)) - Sum(SettledBy(b))
    BY <1>1, Books
  <2> QED
    BY <1>1, <2>1
<1> QED
  BY <1>1 DEF Reconciled, PaidIn


\* What the one request under way knows of its batch.
LEMMA BooksJob ==
    ASSUME Sequential, SeqInv, BooksInv, NEW h \in Handlers, Step(h)
    PROVE  /\ job'[h].pc \in {"detach", "pay"} => batchStatus'[job'[h].batch] \in {"OPEN", "EXPORTED"}
           /\ job'[h].pc = "export" => batchStatus'[job'[h].batch] = "OPEN"
           /\ job'[h].pc = "pay" =>
                 \A r \in job'[h].locked : payoutBatch'[r] = job'[h].batch /\ ~reversedAfterPayout'[r]
<1> USE DEF SeqInv, LockInv, TypeOK
<1>1. job[h] \in JobType /\ h \in DOMAIN job
  OBVIOUS
<1>2. CASE job'[h].pc \notin {"detach", "pay", "export"}
  BY <1>2
<1>3. ASSUME NEW b \in Batches, MarkPaid(h, b)
      PROVE  job'[h].pc = "detach" /\ job'[h].batch = b /\ batchStatus'[b] \in {"OPEN", "EXPORTED"}
  BY <1>1, <1>3 DEF MarkPaid, batchVars, JobType
<1>4. ASSUME NEW b \in Batches, ExportCsv(h, b)
      PROVE  job'[h].pc = "export" /\ job'[h].batch = b /\ batchStatus'[b] = "OPEN"
  BY <1>1, <1>4 DEF ExportCsv, Relabels, batchVars, JobType
<1>5. ASSUME DetachReversed(h)
      PROVE  /\ job'[h].pc = "pay" /\ batchStatus'[job'[h].batch] \in {"OPEN", "EXPORTED"}
             /\ \A r \in job'[h].locked : payoutBatch'[r] = job'[h].batch /\ ~reversedAfterPayout'[r]
  <2>1. PICK S : S = Detachable(job[h].batch)
    OBVIOUS
  <2>2. job'[h] = [job[h] EXCEPT !.pc = "pay", !.locked = S] /\ UNCHANGED <<rowVars, batchVars>>
    BY <1>1, <1>5, <2>1 DEF DetachReversed
  <2>3. job'[h].pc = "pay" /\ job'[h].locked = S /\ job'[h].batch = job[h].batch
    BY <1>1, <2>2 DEF JobType
  <2>4. \A r \in S : payoutBatch[r] = job[h].batch /\ ~reversedAfterPayout[r]
    BY <2>1 DEF Detachable, AttachedTo
  <2>5. batchStatus[job[h].batch] \in {"OPEN", "EXPORTED"}
    BY <1>5 DEF DetachReversed, BooksInv
  <2> QED
    BY <2>2, <2>3, <2>4, <2>5 DEF rowVars, batchVars
<1>6. \/ job'[h].pc \notin {"detach", "pay", "export"}
      \/ \E b \in Batches : MarkPaid(h, b) \/ ExportCsv(h, b)
      \/ DetachReversed(h)
  BY PcAfter DEF Step
<1> QED
  BY <1>2, <1>3, <1>4, <1>5, <1>6

\* A row that was paid stays in its batch, and its batch stays PAID.
LEMMA BooksRows ==
    ASSUME Sequential, SeqInv, BooksInv, NEW h \in Handlers, Step(h), NEW r \in Rows,
           status'[r] = "PAID" \/ reversedAfterPayout'[r]
    PROVE  payoutBatch'[r] \in Batches /\ batchStatus'[payoutBatch'[r]] = "PAID"
<1> USE DEF SeqInv, LockInv, TypeOK
<1>1. status[r] = "PAID" \/ reversedAfterPayout[r] =>
        payoutBatch[r] \in Batches /\ batchStatus[payoutBatch[r]] = "PAID"
  BY DEF BooksInv
<1>2. CASE InsertCommissions(h)
  BY <1>1, <1>2 DEF InsertCommissions, batchVars
<1>3. ASSUME NEW q \in Rows, ReverseRow(h, q)
      PROVE  payoutBatch'[r] \in Batches /\ batchStatus'[payoutBatch'[r]] = "PAID"
  <2>1. status[q] = "PAID" <=> q \in job[h].seenPaid
    BY <1>3 DEF ReverseRow, MemoryInv
  <2>2. /\ reversedAfterPayout' = [reversedAfterPayout EXCEPT ![q] = q \in job[h].seenPaid]
        /\ status' = [status EXCEPT ![q] = "REVERSED"]
        /\ payoutBatch' = payoutBatch /\ batchStatus' = batchStatus
    BY <1>3 DEF ReverseRow, PaidWhenRead, batchVars
  <2>3. status[r] = "PAID" \/ reversedAfterPayout[r]
    <3>1. CASE r = q
      BY <2>1, <2>2, <3>1
    <3>2. CASE r # q
      BY <2>2, <3>2
    <3> QED
      BY <3>1, <3>2
  <2> QED
    BY <1>1, <2>2, <2>3
<1>4. CASE SettleAndCommit(h)
  <2>1. PICK b \in Batches :
          /\ batchStatus[b] = "none" /\ batchStatus' = [batchStatus EXCEPT ![b] = "OPEN"]
          /\ payoutBatch' = [q \in Rows |-> IF q \in job[h].locked THEN b ELSE payoutBatch[q]]
    BY <1>4 DEF SettleAndCommit
  <2>2. status' = status /\ reversedAfterPayout' = reversedAfterPayout
    BY <1>4 DEF SettleAndCommit
  <2>3. r \notin job[h].locked
    BY <1>4, <2>2 DEF SettleAndCommit, HeldRowsUnchanged, CarryInv
  <2> QED
    BY <1>1, <2>1, <2>2, <2>3
<1>5. CASE PayAndCommit(h)
  <2>1. /\ job[h].batch \in Batches
        /\ \A q \in job[h].locked : status[q] = "REVERSED" /\ ~reversedAfterPayout[q]
    BY <1>5 DEF PayAndCommit, JobBatch, HeldRowsUnchanged, BooksInv
  <2>2. PICK S : S = Payable(h)
    OBVIOUS
  <2>3. /\ status' = [q \in Rows |-> IF q \in S THEN "PAID" ELSE status[q]]
        /\ payoutBatch' = [q \in Rows |-> IF q \in job[h].locked THEN Null ELSE payoutBatch[q]]
        /\ batchStatus' = [batchStatus EXCEPT ![job[h].batch] = "PAID"]
        /\ reversedAfterPayout' = reversedAfterPayout
    BY <1>5, <2>2 DEF PayAndCommit
  <2>4. CASE r \in S
    <3>1. r \notin job[h].locked /\ payoutBatch[r] = job[h].batch
      BY <2>2, <2>4 DEF Payable, AttachedTo
    <3> QED
      BY <2>1, <2>3, <3>1
  <2>5. CASE r \notin S
    <3>1. status[r] = "PAID" \/ reversedAfterPayout[r]
      BY <2>3, <2>5
    <3>2. r \notin job[h].locked
      BY <2>1, <3>1
    <3> QED
      BY <1>1, <2>1, <2>3, <3>1, <3>2
  <2> QED
    BY <2>4, <2>5
<1>6. CASE MarkExported(h)
  <2>1. batchStatus[job[h].batch] = "OPEN"
    BY <1>6 DEF MarkExported, BooksInv
  <2> QED
    BY <1>1, <1>6, <2>1 DEF MarkExported, rowVars
<1>7. CASE UNCHANGED <<rowVars, batchVars>>
  BY <1>1, <1>7 DEF rowVars, batchVars
<1> QED
  BY <1>2, <1>3, <1>4, <1>5, <1>6, <1>7
     DEF Step, ProcessPayment, StartReversal, CreateBatch, AttachRows, ReadCarryOvers,
         MarkPaid, ExportCsv, DetachReversed, Crash

\* The commit of markPayoutBatchPaid writes the sum of what the batch pays.
LEMMA BooksPay ==
    ASSUME Sequential, SeqInv, BooksInv, NEW h \in Handlers, PayAndCommit(h)
    PROVE  Reconciled'
<1> USE DEF SeqInv, LockInv, TypeOK
<1>1. PICK c \in Batches : c = job[h].batch /\ batchStatus[c] # "PAID"
  BY DEF PayAndCommit, JobBatch, BooksInv
<1>2. PICK S, L : S = Payable(h) /\ L = job[h].locked
  OBVIOUS
<1>3. /\ status' = [q \in Rows |-> IF q \in S THEN "PAID" ELSE status[q]]
      /\ payoutBatch' = [q \in Rows |-> IF q \in L THEN Null ELSE payoutBatch[q]]
      /\ batchStatus' = [batchStatus EXCEPT ![c] = "PAID"]
      /\ reversedAfterPayout' = reversedAfterPayout /\ carryOverBatch' = carryOverBatch
  BY <1>1, <1>2 DEF PayAndCommit
<1>4. \A q \in L : q \in Rows /\ payoutBatch[q] = c /\ status[q] = "REVERSED" /\ ~reversedAfterPayout[q]
  BY <1>1, <1>2 DEF PayAndCommit, HeldRowsUnchanged, BooksInv, JobType
<1>5. \A q \in S : q \in Rows /\ payoutBatch[q] = c /\ q \notin L /\ status[q] = "EARNED"
  BY <1>1, <1>2 DEF Payable, AttachedTo
<1>6. \A q \in Rows : payoutBatch[q] = c => ~(status[q] = "PAID" \/ reversedAfterPayout[q])
  BY <1>1 DEF BooksInv
<1>7. \A b \in Batches : SettledBy(b)' = SettledBy(b)
  BY <1>3 DEF SettledBy
<1>8. PaidIn(c)' = S
  <2>1. \A q \in Rows : q \in AttachedTo(c)' <=> payoutBatch[q] = c /\ q \notin L
    BY <1>1, <1>3, LedgerAssumption DEF AttachedTo
  <2>2. \A q \in Rows : q \in PaidIn(c)' <=> q \in S
    BY <1>3, <1>5, <1>6, <2>1 DEF PaidIn
  <2> QED
    BY <1>5, <2>2 DEF PaidIn, AttachedTo
<1>9. batchTotal'[c] = Sum(S) - Sum(SettledBy(c))
  <2>1. PaidTotal(h) = Sum(S) - Sum(SettledBy(c))
    <3> DEFINE paid == {r \in AttachedTo(c) \ L : status[r] = "PAID"}
    <3>1. paid \cup S = S
      BY <1>6 DEF AttachedTo
    <3>2. PaidTotal(h) = Sum(paid \cup S) - Sum(SettledBy(c))
      BY <1>1, <1>2 DEF PaidTotal
    <3> QED
      BY <3>1, <3>2
  <2>2. PICK t : t = PaidTotal(h)
    OBVIOUS
  <2>3. batchTotal' = [batchTotal EXCEPT ![c] = t]
    BY <1>1, <2>2 DEF PayAndCommit
  <2> QED
    BY <2>1, <2>2, <2>3
<1>10. ASSUME NEW b \in Batches \ {c}
       PROVE  PaidIn(b)' = PaidIn(b) /\ batchTotal'[b] = batchTotal[b] /\ batchStatus'[b] = batchStatus[b]
  <2>1. \A q \in Rows : q \in AttachedTo(b)' <=> q \in AttachedTo(b)
    BY <1>3, <1>4, LedgerAssumption DEF AttachedTo
  <2>2. \A q \in Rows : q \in PaidIn(b)' <=> q \in PaidIn(b)
    BY <1>3, <1>5, <2>1 DEF PaidIn, AttachedTo
  <2>3. PaidIn(b)' = PaidIn(b)
    BY <2>2 DEF PaidIn, AttachedTo
  <2>4. batchTotal'[b] = batchTotal[b]
    <3>1. PICK t : batchTotal' = [batchTotal EXCEPT ![c] = t]
      BY <1>1 DEF PayAndCommit
    <3> QED
      BY <3>1
  <2> QED
    BY <1>3, <2>3, <2>4
<1>11. ASSUME NEW b \in Batches, batchStatus'[b] = "PAID"
       PROVE  batchTotal'[b] = Sum(PaidIn(b)') - Sum(SettledBy(b)')
  <2>1. CASE b = c
    BY <1>7, <1>8, <1>9, <2>1
  <2>2. CASE b # c
    <3>1. batchTotal[b] = Sum(PaidIn(b)) - Sum(SettledBy(b))
      BY <1>10, <1>11, <2>2, Books DEF BooksInv
    <3> QED
      BY <1>7, <1>10, <2>2, <3>1
  <2> QED
    BY <2>1, <2>2
<1> QED
  BY <1>11 DEF Reconciled, PaidIn

LEMMA BooksOthers ==
    ASSUME Sequential, SeqInv, BooksInv, NEW h \in Handlers, Step(h), ~PayAndCommit(h)
    PROVE  Reconciled'
<1> USE DEF SeqInv, LockInv, TypeOK
<1> SUFFICES ASSUME NEW b \in Batches, batchStatus'[b] = "PAID"
             PROVE  /\ batchStatus[b] = "PAID" /\ batchTotal'[b] = batchTotal[b]
                    /\ PaidIn(b)' = PaidIn(b) /\ SettledBy(b)' = SettledBy(b)
  BY StillReconciled DEF BooksInv
<1>1. CASE InsertCommissions(h)
  <2>1. \A q \in Rows : q \in PaidIn(b)' <=> q \in PaidIn(b)
    BY <1>1 DEF InsertCommissions, PaidIn, AttachedTo, CarryInv
  <2>2. PaidIn(b)' = PaidIn(b)
    BY <2>1 DEF PaidIn, AttachedTo
  <2> QED
    BY <1>1, <2>2 DEF InsertCommissions, SettledBy, batchVars
<1>2. ASSUME NEW q \in Rows, ReverseRow(h, q)
      PROVE  /\ batchStatus[b] = "PAID" /\ batchTotal'[b] = batchTotal[b]
             /\ PaidIn(b)' = PaidIn(b) /\ SettledBy(b)' = SettledBy(b)
  <2>1. (status[q] = "PAID" <=> q \in job[h].seenPaid) /\ status[q] # "REVERSED"
    BY <1>2 DEF ReverseRow, MemoryInv
  <2>2. /\ reversedAfterPayout' = [reversedAfterPayout EXCEPT ![q] = q \in job[h].seenPaid]
        /\ status' = [status EXCEPT ![q] = "REVERSED"]
        /\ payoutBatch' = payoutBatch /\ carryOverBatch' = carryOverBatch
        /\ batchStatus' = batchStatus /\ batchTotal' = batchTotal
    BY <1>2 DEF ReverseRow, PaidWhenRead, batchVars
  <2>3. ~reversedAfterPayout[q]
    BY <2>1 DEF CarryInv
  <2>4. \A r \in Rows :
          status'[r] = "PAID" \/ reversedAfterPayout'[r] <=> status[r] = "PAID" \/ reversedAfterPayout[r]
    <3>1. ASSUME NEW r \in Rows, r = q
          PROVE  status'[r] = "PAID" \/ reversedAfterPayout'[r] <=> status[r] = "PAID" \/ reversedAfterPayout[r]
      BY <2>1, <2>2, <2>3, <3>1
    <3>2. ASSUME NEW r \in Rows, r # q
          PROVE  status'[r] = "PAID" \/ reversedAfterPayout'[r] <=> status[r] = "PAID" \/ reversedAfterPayout[r]
      BY <2>2, <3>2
    <3> QED
      BY <3>1, <3>2
  <2>5. PaidIn(b)' = PaidIn(b)
    BY <2>2, <2>4 DEF PaidIn, AttachedTo
  <2> QED
    BY <2>2, <2>5 DEF SettledBy
<1>3. CASE SettleAndCommit(h)
  <2>1. PICK c \in Batches :
          /\ batchStatus[c] = "none" /\ batchStatus' = [batchStatus EXCEPT ![c] = "OPEN"]
          /\ payoutBatch' = [q \in Rows |-> IF q \in job[h].locked THEN c ELSE payoutBatch[q]]
          /\ carryOverBatch' = [q \in Rows |-> IF q \in job[h].settling THEN c ELSE carryOverBatch[q]]
          /\ \E t : batchTotal' = [batchTotal EXCEPT ![c] = t]
    BY <1>3 DEF SettleAndCommit
  <2>2. status' = status /\ reversedAfterPayout' = reversedAfterPayout
    BY <1>3 DEF SettleAndCommit
  <2>3. b # c /\ b # Null
    BY <2>1, LedgerAssumption
  <2>4. /\ \A q \in job[h].locked : payoutBatch[q] = Null
        /\ \A q \in job[h].settling : carryOverBatch[q] = Null
    BY <1>3 DEF SettleAndCommit, HeldRowsUnchanged, MemoryInv
  <2>5. AttachedTo(b)' = AttachedTo(b) /\ SettledBy(b)' = SettledBy(b)
    BY <2>1, <2>3, <2>4 DEF AttachedTo, SettledBy
  <2>6. PaidIn(b)' = PaidIn(b)
    BY <2>2, <2>5 DEF PaidIn
  <2> QED
    BY <2>1, <2>3, <2>5, <2>6
<1>4. CASE MarkExported(h)
  <2>1. PaidIn(b)' = PaidIn(b) /\ SettledBy(b)' = SettledBy(b)
    BY <1>4 DEF MarkExported, rowVars, PaidIn, AttachedTo, SettledBy
  <2> QED
    BY <1>4, <2>1 DEF MarkExported
<1>5. CASE UNCHANGED <<rowVars, batchVars>>
  BY <1>5 DEF rowVars, batchVars, PaidIn, AttachedTo, SettledBy
<1> QED
  BY <1>1, <1>2, <1>3, <1>4, <1>5
     DEF Step, ProcessPayment, StartReversal, CreateBatch, AttachRows, ReadCarryOvers,
         MarkPaid, ExportCsv, DetachReversed, Crash

\* When requests do not overlap the total of a batch that markPayoutBatchPaid
\* has paid is what it paid less what it settled, whatever is refunded later.
THEOREM PaidBatchesReconcile ==
    ASSUME Sequential PROVE Spec => []Reconciled
<1>1. Init => BooksInv
  BY DEF Init, BooksInv, Reconciled, Idle
<1>2. SeqInv /\ BooksInv /\ [Next]_vars => BooksInv'
  <2>1. ASSUME SeqInv, BooksInv, UNCHANGED vars PROVE BooksInv'
    <3>1. UNCHANGED <<rowVars, batchVars, job>>
      BY <2>1 DEF vars
    <3>2. Reconciled'
      BY <2>1, <3>1, StillReconciled DEF BooksInv, rowVars, batchVars, PaidIn, AttachedTo, SettledBy
    <3> QED
      BY <2>1, <3>1, <3>2 DEF BooksInv, rowVars, batchVars
  <2>2. ASSUME SeqInv, BooksInv, NEW h \in Handlers, Step(h) PROVE BooksInv'
    <3>1. Reconciled'
      BY <2>2, BooksPay, BooksOthers
    <3>2. \A g \in Handlers : g = h
      BY DEF Sequential
    <3> QED
      BY <2>2, <3>1, <3>2, BooksJob, BooksRows DEF BooksInv
  <2> QED
    BY <2>1, <2>2 DEF Next
<1>3. BooksInv => Reconciled
  BY DEF BooksInv
<1> QED
  BY <1>1, <1>2, <1>3, SeqInvariant, PTL DEF Spec

-----------------------------------------------------------------------------
(* Sums of amounts *)

Finite == FiniteSubsetsOf(Rows)

\* Induction over the finite sets of rows, for a property given as a set: a
\* smallest set without the property would contain none without it.
LEMMA FiniteInduction ==
    ASSUME NEW B \in SUBSET Finite,
           \A T \in Finite : (\A U \in Finite : U \subseteq T /\ U # T => U \in B) => T \in B
    PROVE  \A T \in Finite : T \in B
<1> SUFFICES ASSUME Finite \ B # {} PROVE FALSE
  OBVIOUS
<1>1. \E T \in Finite \ B : \A U \in Finite \ B : ~(<<U, T>> \in StrictSubsetOrdering(Rows))
  <2>1. PICK C : C = Finite \ B
    OBVIOUS
  <2>2. C \subseteq FiniteSubsetsOf(Rows) /\ C # {}
    BY <2>1 DEF Finite
  <2>3. IsWellFoundedOn(StrictSubsetOrdering(Rows), FiniteSubsetsOf(Rows))
    BY FS_StrictSubsetOrderingWellFounded
  <2>4. \E T \in C : \A U \in C : ~(<<U, T>> \in StrictSubsetOrdering(Rows))
    BY ONLY <2>2, <2>3, WFMin, Zenon
  <2> QED
    BY <2>1, <2>4
<1>2. PICK T \in Finite \ B : \A U \in Finite \ B : ~(<<U, T>> \in StrictSubsetOrdering(Rows))
  BY <1>1
<1>3. \A U \in Finite : U \subseteq T /\ U # T => U \in B
  <2> SUFFICES ASSUME NEW U \in Finite, U \subseteq T, U # T, U \notin B PROVE FALSE
    OBVIOUS
  <2>1. U \in SUBSET Rows /\ T \in SUBSET Rows
    BY DEF Finite, FiniteSubsetsOf
  <2>2. <<U, T>> \in StrictSubsetOrdering(Rows)
    BY <2>1 DEF StrictSubsetOrdering
  <2> QED
    BY <1>2, <2>2
<1> QED
  BY <1>2, <1>3

LEMMA FiniteType ==
    ASSUME NEW S \in Finite
    PROVE  /\ S \in SUBSET Rows /\ IsFiniteSet(S)
           /\ \A T \in SUBSET S : T \in Finite
<1>1. S \in SUBSET Rows /\ IsFiniteSet(S)
  BY DEF Finite, FiniteSubsetsOf
<1>2. ASSUME NEW T \in SUBSET S PROVE T \in Finite
  <2>1. IsFiniteSet(T)
    BY <1>1, FS_Subset
  <2> QED
    BY <1>1, <2>1 DEF Finite, FiniteSubsetsOf
<1> QED
  BY <1>1, <1>2

LEMMA AmountType == ASSUME NEW r \in Rows PROVE Amount(r) \in Nat
  BY LedgerAssumption DEF Amount

\* The row the sum takes next.
Picked(T) == CHOOSE r \in T : TRUE

LEMMA PickedIn == ASSUME NEW T, T # {} PROVE Picked(T) \in T
  BY DEF Picked

\* The function that MapThenSumSet defines by recursion on the subsets of S.
Folded(S, f) ==
    f = [T \in SUBSET S |-> IF T = {} THEN 0 ELSE Amount(Picked(T)) + f[T \ {Picked(T)}]]

LEMMA SumDef == ASSUME NEW S PROVE Sum(S) = (CHOOSE f : Folded(S, f))[S]
  BY DEF Sum, MapThenSumSet, MapThenFoldSet, Folded, Picked

LEMMA FoldedAt ==
    ASSUME NEW S, NEW f, Folded(S, f), NEW T \in SUBSET S
    PROVE  f[T] = IF T = {} THEN 0 ELSE Amount(Picked(T)) + f[T \ {Picked(T)}]
<1> DEFINE F(X) == IF X = {} THEN 0 ELSE Amount(Picked(X)) + f[X \ {Picked(X)}]
<1>1. f = [X \in SUBSET S |-> F(X)]
  BY DEF Folded
<1> HIDE DEF F
<1>2. f[T] = F(T)
  BY <1>1
<1> QED
  BY <1>2 DEF F

\* Two of these functions agree where both are defined.
LEMMA FoldedAgree ==
    ASSUME NEW S, NEW f, Folded(S, f), NEW V, NEW g, Folded(V, g)
    PROVE  \A T \in Finite : T \subseteq S /\ T \subseteq V => f[T] = g[T]
<1> DEFINE B == {T \in Finite : T \subseteq S /\ T \subseteq V => f[T] = g[T]}
<1>1. ASSUME NEW T \in Finite, \A U \in Finite : U \subseteq T /\ U # T => U \in B
      PROVE  T \in B
  <2> SUFFICES ASSUME T \subseteq S, T \subseteq V PROVE f[T] = g[T]
    OBVIOUS
  <2>1. CASE T = {}
    BY <2>1, FoldedAt
  <2>2. CASE T # {}
    <3>1. PICK x \in T : x = Picked(T)
      BY <2>2, PickedIn
    <3>2. T \ {x} \in Finite /\ T \ {x} \subseteq T /\ T \ {x} # T
      BY <3>1, FiniteType
    <3>3. f[T \ {x}] = g[T \ {x}]
      BY <1>1, <3>2
    <3>4. f[T] = Amount(x) + f[T \ {x}] /\ g[T] = Amount(x) + g[T \ {x}]
      BY <2>2, <3>1, FoldedAt
    <3> QED
      BY <3>3, <3>4
  <2> QED
    BY <2>1, <2>2
<1>2. \A T \in Finite : T \in B
  <2>1. B \in SUBSET Finite
    OBVIOUS
  <2> HIDE DEF B
  <2> QED
    BY <1>1, <2>1, FiniteInduction
<1> QED
  BY <1>2

\* The recursion defines a function for every finite set of rows.
LEMMA FoldedExists == \A S \in Finite : \E f : Folded(S, f)
<1> DEFINE B == {S \in Finite : \E f : Folded(S, f)}
<1>1. ASSUME NEW S \in Finite, \A U \in Finite : U \subseteq S /\ U # S => U \in B
      PROVE  S \in B
  <2> DEFINE F(U) == CHOOSE f : Folded(U, f)
             rest(T) == T \ {Picked(T)}
             val(T) == IF T = {} THEN 0 ELSE Amount(Picked(T)) + F(rest(T))[rest(T)]
             g == [T \in SUBSET S |-> val(T)]
  <2>1. ASSUME NEW U \in SUBSET S, U # S PROVE Folded(U, F(U)) /\ U \in Finite
    <3>1. U \in Finite
      BY FiniteType
    <3>2. \E f : Folded(U, f)
      BY <1>1, <2>1, <3>1
    <3> QED
      BY <3>1, <3>2
  <2>2. ASSUME NEW T \in SUBSET S, T # {}
        PROVE  rest(T) \in SUBSET S /\ rest(T) # S /\ F(rest(T))[rest(T)] = g[rest(T)]
    <3>1. PICK U : U = rest(T)
      OBVIOUS
    <3>2. U \in SUBSET S /\ U # S
      BY <2>2, <3>1, PickedIn
    <3>3. Folded(U, F(U)) /\ U \in Finite
      BY <2>1, <3>2
    <3>4. PICK h : h = F(U) /\ Folded(U, h)
      BY <3>3
    <3> HIDE DEF F
    <3>5. CASE U = {}
      <4>1. h[U] = 0
        BY <3>4, <3>5, FoldedAt
      <4>2. g[U] = 0
        BY <3>2, <3>5
      <4> QED
        BY <3>1, <3>2, <3>4, <4>1, <4>2
    <3>6. CASE U # {}
      <4>1. PICK W : W = rest(U)
        OBVIOUS
      <4>2. W \in SUBSET U /\ W \in SUBSET S /\ W # S
        BY <3>2, <3>6, <4>1, PickedIn
      <4>3. PICK k : k = F(W) /\ Folded(W, k) /\ W \in Finite
        BY <2>1, <4>2
      <4>4. h[W] = k[W]
        BY <3>4, <4>2, <4>3, FoldedAgree
      <4>5. h[U] = Amount(Picked(U)) + h[W]
        BY <3>4, <3>6, <4>1, FoldedAt
      <4>6. g[U] = Amount(Picked(U)) + k[W]
        BY <3>2, <3>6, <4>1, <4>3
      <4> QED
        BY <3>1, <3>2, <3>4, <4>4, <4>5, <4>6
    <3> QED
      BY <3>5, <3>6
  <2>3. \A T \in SUBSET S : val(T) = IF T = {} THEN 0 ELSE Amount(Picked(T)) + g[T \ {Picked(T)}]
    <3> HIDE DEF g, F
    <3> QED
      BY <2>2
  <2>4. Folded(S, g)
    <3>1. g = [T \in SUBSET S |-> val(T)]
      OBVIOUS
    <3> HIDE DEF g, val
    <3> QED
      BY <2>3, <3>1 DEF Folded
  <2> HIDE DEF g
  <2> QED
    BY <2>4
<1>2. \A S \in Finite : S \in B
  <2>1. B \in SUBSET Finite
    OBVIOUS
  <2> HIDE DEF B
  <2> QED
    BY <1>1, <2>1, FiniteInduction
<1> QED
  BY <1>2

\* A sum takes its rows one by one.
LEMMA SumSplit ==
    ASSUME NEW S \in Finite
    PROVE  Sum(S) = IF S = {} THEN 0 ELSE Amount(Picked(S)) + Sum(S \ {Picked(S)})
<1>1. ASSUME NEW T \in Finite PROVE \E f : Folded(T, f) /\ Sum(T) = f[T]
  <2>1. \E f : Folded(T, f)
    BY FoldedExists
  <2>2. PICK f : f = (CHOOSE k : Folded(T, k)) /\ Folded(T, f)
    BY <2>1
  <2> QED
    BY <2>2, SumDef
<1>2. PICK f : Folded(S, f) /\ Sum(S) = f[S]
  BY <1>1
<1>3. CASE S = {}
  BY <1>2, <1>3, FoldedAt
<1>4. CASE S # {}
  <2>1. PICK T : T = S \ {Picked(S)}
    OBVIOUS
  <2>2. T \in Finite /\ T \subseteq S
    BY <2>1, FiniteType
  <2>3. PICK g : Folded(T, g) /\ Sum(T) = g[T]
    BY <1>1, <2>2
  <2>4. f[T] = g[T]
    BY <1>2, <2>2, <2>3, FoldedAgree
  <2>5. f[S] = Amount(Picked(S)) + f[T]
    BY <1>2, <1>4, <2>1, FoldedAt
  <2> QED
    BY <1>2, <1>4, <2>1, <2>3, <2>4, <2>5
<1> QED
  BY <1>3, <1>4

LEMMA SumType == \A S \in Finite : Sum(S) \in Nat
<1> DEFINE B == {S \in Finite : Sum(S) \in Nat}
<1>1. ASSUME NEW S \in Finite, \A U \in Finite : U \subseteq S /\ U # S => U \in B
      PROVE  S \in B
  <2>1. CASE S = {}
    BY <2>1, SumSplit
  <2>2. CASE S # {}
    <3>1. PICK x \in S : x = Picked(S)
      BY <2>2, PickedIn
    <3>2. S \ {x} \in Finite /\ x \in Rows
      BY <3>1, FiniteType
    <3>3. Sum(S \ {x}) \in Nat
      BY <1>1, <3>2
    <3>4. Sum(S) = Amount(x) + Sum(S \ {x})
      BY <2>2, <3>1, SumSplit
    <3>5. Amount(x) \in Nat
      BY <3>2, AmountType
    <3> QED
      BY <3>3, <3>4, <3>5
  <2> QED
    BY <2>1, <2>2
<1>2. B \in SUBSET Finite
  OBVIOUS
<1> HIDE DEF B
<1>3. \A S \in Finite : S \in B
  BY <1>1, <1>2, FiniteInduction
<1> QED
  BY <1>3 DEF B

\* The order in which the rows are taken does not matter.
LEMMA SumWithout ==
    \A S \in Finite : \A r \in S : Sum(S) = Amount(r) + Sum(S \ {r})
<1> DEFINE B == {S \in Finite : \A r \in S : Sum(S) = Amount(r) + Sum(S \ {r})}
<1>1. ASSUME NEW S \in Finite, \A U \in Finite : U \subseteq S /\ U # S => U \in B
      PROVE  S \in B
  <2> SUFFICES ASSUME NEW r \in S PROVE Sum(S) = Amount(r) + Sum(S \ {r})
    OBVIOUS
  <2>1. PICK x \in S : x = Picked(S)
    BY PickedIn
  <2>2. Sum(S) = Amount(x) + Sum(S \ {x})
    BY <2>1, SumSplit
  <2>3. CASE r = x
    BY <2>2, <2>3
  <2>4. CASE r # x
    <3>1. PICK X : X = S \ {x}
      OBVIOUS
    <3>2. PICK R : R = S \ {r}
      OBVIOUS
    <3>3. PICK W : W = X \ {r} /\ W = R \ {x}
      BY <3>1, <3>2
    <3>4. X \in Finite /\ R \in Finite /\ W \in Finite /\ r \in X /\ x \in R /\ X # S /\ R # S
      BY <2>4, <3>1, <3>2, <3>3, FiniteType
    <3>5. X \in B /\ R \in B
      BY <1>1, <3>1, <3>2, <3>4
    <3>6. Sum(X) = Amount(r) + Sum(W) /\ Sum(R) = Amount(x) + Sum(W)
      BY <3>3, <3>4, <3>5
    <3>7. Sum(W) \in Nat /\ Amount(r) \in Nat /\ Amount(x) \in Nat
      BY <3>4, SumType, AmountType, FiniteType
    <3>8. Sum(S) = Amount(x) + Sum(X)
      BY <2>2, <3>1
    <3>9. Sum(S) = Amount(r) + Sum(R)
      BY ONLY <3>6, <3>7, <3>8
    <3> QED
      BY <3>2, <3>9
  <2> QED
    BY <2>3, <2>4
<1>2. B \in SUBSET Finite
  OBVIOUS
<1> HIDE DEF B
<1>3. \A S \in Finite : S \in B
  BY <1>1, <1>2, FiniteInduction
<1> QED
  BY <1>3 DEF B

\* More rows make no smaller sum.
LEMMA SumGrows ==
    \A T \in Finite : \A S \in SUBSET T : Sum(S) <= Sum(T)
<1> DEFINE B == {T \in Finite : \A S \in SUBSET T : Sum(S) <= Sum(T)}
<1>1. ASSUME NEW T \in Finite, \A U \in Finite : U \subseteq T /\ U # T => U \in B
      PROVE  T \in B
  <2> SUFFICES ASSUME NEW S \in SUBSET T PROVE Sum(S) <= Sum(T)
    OBVIOUS
  <2>1. S \in Finite /\ Sum(S) \in Nat /\ Sum(T) \in Nat
    BY FiniteType, SumType
  <2>2. CASE S = T
    BY <2>1, <2>2
  <2>3. CASE S # T
    <3>1. PICK x \in T : x \notin S
      BY <2>3
    <3>2. PICK U : U = T \ {x}
      OBVIOUS
    <3>3. U \in Finite /\ U \subseteq T /\ U # T /\ S \in SUBSET U /\ x \in Rows
      BY <3>1, <3>2, FiniteType
    <3>4. Sum(S) <= Sum(U)
      BY <1>1, <3>3
    <3>5. Sum(T) = Amount(x) + Sum(U) /\ Amount(x) \in Nat /\ Sum(U) \in Nat
      BY <3>2, <3>3, SumWithout, SumType, AmountType
    <3> QED
      BY ONLY <2>1, <3>4, <3>5
  <2> QED
    BY <2>2, <2>3
<1>2. B \in SUBSET Finite
  OBVIOUS
<1> HIDE DEF B
<1>3. \A T \in Finite : T \in B
  BY <1>1, <1>2, FiniteInduction
<1> QED
  BY <1>3 DEF B

-----------------------------------------------------------------------------
(* What a batch deducts *)

\* Rows that have been inserted.
Stored == {r \in Rows : status[r] # "none"}

\* Rows of one insertion are rows of one payment.
ClockInv ==
    /\ IsFiniteSet(Stored)
    /\ \A r \in Rows : created[r] <= insertions
    /\ \A r, s \in Stored : created[r] = created[s] => r[1] = s[1]
    /\ \A r \in Rows : payoutBatch[r] # Null \/ carryOverBatch[r] # Null => r \in Stored

\* An agent whose deductions in batch b are covered there.
CoveredIn(b, a) == Sum(OfAgent(SettledBy(b), a)) <= Sum(OfAgent(AttachedTo(b), a))

\* A refund writes rows that are there; the settlement a transaction is about
\* to write, and those of the open batches, are covered.
CoverInv ==
    /\ \A h \in Handlers : job[h].pc = "reverse" => job[h].todo \subseteq Stored
    /\ \A h \in Handlers : job[h].pc = "settle" =>
          /\ job[h].settling \subseteq Stored
          /\ \A a \in Agents :
                Sum(OfAgent(job[h].settling, a)) <= Sum(OfAgent(job[h].locked, a))
    /\ \A h \in Handlers : job[h].pc = "pay" =>
          \A r \in job[h].locked : payoutBatch[r] = job[h].batch
    /\ \A r \in Rows : carryOverBatch[r] # Null => batchStatus[carryOverBatch[r]] # "none"
    /\ \A b \in Batches : batchStatus[b] = "OPEN" => \A a \in Agents : CoveredIn(b, a)

LEMMA RowParts ==
    /\ \A r \in Rows : r[1] \in Payments /\ r[2] \in Levels /\ r[2] \in Nat
    /\ \A r, s \in Rows : r[1] = s[1] /\ r[2] = s[2] => r = s
<1>1. ASSUME NEW r \in Rows
      PROVE  r[1] \in Payments /\ r[2] \in Levels /\ r = <<r[1], r[2]>>
  <2>1. PICK p \in Payments, l \in Levels : r = <<p, l>>
    BY DEF Rows
  <2> QED
    BY <2>1
<1>2. ASSUME NEW r \in Rows, NEW s \in Rows, r[1] = s[1], r[2] = s[2] PROVE r = s
  <2>1. r = <<r[1], r[2]>> /\ s = <<r[1], r[2]>>
    BY <1>1, <1>2
  <2> QED
    BY ONLY <2>1
<1> QED
  BY <1>1, <1>2, LedgerAssumption

\* createdAt and the level order the rows that were inserted.
LEMMA BeforeOrders ==
    ASSUME TypeOK, ClockInv
    PROVE  /\ \A r \in Rows : ~Before(r, r)
           /\ \A r, s \in Stored : r # s => Before(r, s) \/ Before(s, r)
           /\ \A r, s, t \in Rows : Before(r, s) /\ Before(s, t) => Before(r, t)
<1>1. \A r \in Rows : created[r] \in Nat /\ r[2] \in Nat
  BY RowParts DEF TypeOK
<1>2. ASSUME NEW r \in Stored, NEW s \in Stored, r # s PROVE Before(r, s) \/ Before(s, r)
  <2>1. r \in Rows /\ s \in Rows /\ (created[r] = created[s] => r[1] = s[1])
    BY DEF Stored, ClockInv
  <2>2. created[r] = created[s] => r[2] # s[2]
    BY <1>2, <2>1, RowParts
  <2> QED
    BY <1>1, <2>1, <2>2 DEF Before
<1>3. ASSUME NEW r \in Rows PROVE ~Before(r, r)
  BY <1>1 DEF Before
<1>4. ASSUME NEW r \in Rows, NEW s \in Rows, NEW t \in Rows, Before(r, s), Before(s, t)
      PROVE  Before(r, t)
  <2>1. PICK i \in Nat, j \in Nat, k \in Nat : i = created[r] /\ j = created[s] /\ k = created[t]
    BY <1>1
  <2>2. PICK x \in Nat, y \in Nat, z \in Nat : x = r[2] /\ y = s[2] /\ z = t[2]
    BY <1>1
  <2>3. (i < j \/ (i = j /\ x < y)) /\ (j < k \/ (j = k /\ y < z))
    BY <1>4, <2>1, <2>2 DEF Before
  <2>4. i < k \/ (i = k /\ x < z)
    BY ONLY <2>1, <2>2, <2>3, i \in Nat, j \in Nat, k \in Nat, x \in Nat, y \in Nat, z \in Nat
  <2> QED
    BY <2>1, <2>2, <2>4 DEF Before
<1> QED
  BY <1>2, <1>3, <1>4

\* Some row of the carry-overs comes last.
LEMMA LastRow ==
    ASSUME TypeOK, ClockInv
    PROVE  \A S \in Finite : S \subseteq Stored /\ S # {} =>
               \E r \in S : \A s \in S \ {r} : Before(s, r)
<1> DEFINE B == {S \in Finite : S \subseteq Stored /\ S # {} =>
                                   \E r \in S : \A s \in S \ {r} : Before(s, r)}
<1>1. ASSUME NEW S \in Finite, \A U \in Finite : U \subseteq S /\ U # S => U \in B
      PROVE  S \in B
  <2> SUFFICES ASSUME S \subseteq Stored, S # {}
               PROVE  \E r \in S : \A s \in S \ {r} : Before(s, r)
    OBVIOUS
  <2>1. PICK x \in S : TRUE
    OBVIOUS
  <2>2. PICK U : U = S \ {x}
    OBVIOUS
  <2>3. CASE U = {}
    BY <2>2, <2>3
  <2>4. CASE U # {}
    <3>1. U \in Finite /\ U \subseteq S /\ U # S
      BY <2>2, FiniteType
    <3>2. PICK m \in U : \A s \in U \ {m} : Before(s, m)
      BY <1>1, <2>4, <3>1
    <3>3. m \in Stored /\ x \in Stored /\ m # x /\ S \subseteq Rows
      BY <2>2, FiniteType
    <3>4. CASE Before(x, m)
      BY <2>2, <3>2, <3>4
    <3>5. CASE Before(m, x)
      <4>1. ASSUME NEW s \in S \ {x} PROVE Before(s, x)
        <5>1. CASE s = m
          BY <3>5, <5>1
        <5>2. CASE s # m
          <6>1. Before(s, m)
            BY <2>2, <3>2, <4>1, <5>2
          <6>2. s \in Rows /\ m \in Rows /\ x \in Rows
            BY <3>1, <3>2, <3>3
          <6> QED
            BY <3>5, <6>1, <6>2, BeforeOrders
        <5> QED
          BY <5>1, <5>2
      <4> QED
        BY <4>1
    <3> QED
      BY <3>3, <3>4, <3>5, BeforeOrders
  <2> QED
    BY <2>3, <2>4
<1>2. B \in SUBSET Finite
  OBVIOUS
<1> HIDE DEF B
<1>3. \A S \in Finite : S \in B
  BY <1>1, <1>2, FiniteInduction
<1> QED
  BY <1>3 DEF B

\* What the settlement loop selects is covered for every agent: the last row
\* it took was covered with all that it took before.
LEMMA SettlementCovered ==
    ASSUME TypeOK, ClockInv, NEW att \in SUBSET Stored, NEW S \in SUBSET CarryOvers(att),
           SettlementOf(att, S), NEW a \in Agents
    PROVE  S \subseteq Stored /\ Sum(OfAgent(S, a)) <= Sum(OfAgent(att, a))
<1>1. S \subseteq Stored
  BY DEF CarryOvers, Stored
<1>2. \A T \in SUBSET Stored : OfAgent(T, a) \in Finite /\ OfAgent(T, a) \subseteq T
  <2> SUFFICES ASSUME NEW T \in SUBSET Stored PROVE OfAgent(T, a) \in Finite /\ OfAgent(T, a) \subseteq T
    OBVIOUS
  <2>1. OfAgent(T, a) \subseteq T /\ OfAgent(T, a) \subseteq Stored
    BY DEF OfAgent
  <2>2. IsFiniteSet(OfAgent(T, a))
    BY <2>1, FS_Subset DEF ClockInv
  <2> QED
    BY <2>1, <2>2 DEF Finite, FiniteSubsetsOf, Stored
<1>3. PICK X \in Finite : X = OfAgent(S, a) /\ X \subseteq Stored
  BY <1>1, <1>2
<1>4. PICK E \in Finite : E = OfAgent(att, a)
  BY <1>2
<1>5. Sum(E) \in Nat
  BY SumType
<1>6. CASE X = {}
  <2>1. Sum(X) = 0
    BY <1>6, SumSplit
  <2> QED
    BY <1>1, <1>3, <1>4, <1>5, <2>1
<1>7. CASE X # {}
  <2>1. PICK r \in X : \A s \in X \ {r} : Before(s, r)
    BY <1>3, <1>7, LastRow
  <2>2. r \in S /\ AgentOf[r] = a /\ r \in CarryOvers(att) /\ r \in Rows
    BY <1>3, <2>1 DEF OfAgent, CarryOvers
  <2>3. Amount(r) + Sum({s \in OfAgent(S, a) : Before(s, r)}) <= Sum(OfAgent(att, a))
    BY <2>2 DEF SettlementOf
  <2>4. {s \in OfAgent(S, a) : Before(s, r)} = X \ {r}
    BY <1>3, <2>1, <2>2, BeforeOrders
  <2>5. Sum(X) = Amount(r) + Sum(X \ {r})
    BY <2>1, SumWithout
  <2> QED
    BY <1>1, <1>3, <1>4, <2>3, <2>4, <2>5
<1> QED
  BY <1>6, <1>7

LEMMA StoredFinite == ASSUME ClockInv, NEW X \in SUBSET Stored PROVE X \in Finite
<1>1. X \in SUBSET Rows /\ IsFiniteSet(X)
  BY FS_Subset DEF ClockInv, Stored
<1> QED
  BY <1>1 DEF Finite, FiniteSubsetsOf


\* Nothing is ever deleted, and an insertion has a time of its own.
LEMMA ClockStep ==
    ASSUME LockInv, ClockInv, CoverInv, NEW h \in Handlers, Step(h)
    PROVE  ClockInv' /\ Stored \subseteq Stored'
<1> USE DEF LockInv, TypeOK
<1>1. CASE InsertCommissions(h)
  <2>1. PICK levels \in SUBSET Levels, new \in SUBSET Rows :
          /\ new = {r \in {job[h].payment} \X levels : status[r] = "none"}
          /\ status' = [r \in Rows |-> IF r \in new THEN "EARNED" ELSE status[r]]
          /\ insertions' = IF new = {} THEN insertions ELSE insertions + 1
          /\ created' = [r \in Rows |-> IF r \in new THEN insertions + 1 ELSE created[r]]
    <3>1. job[h].payment \in Payments
      BY <1>1 DEF InsertCommissions, JobPayment
    <3>2. \A levels \in SUBSET Levels : {job[h].payment} \X levels \subseteq Rows
      BY <3>1 DEF Rows
    <3>3. PICK levels \in SUBSET Levels :
            LET new == {r \in {job[h].payment} \X levels : status[r] = "none"}
            IN  /\ status' = [r \in Rows |-> IF r \in new THEN "EARNED" ELSE status[r]]
                /\ insertions' = IF new = {} THEN insertions ELSE insertions + 1
                /\ created' = [r \in Rows |-> IF r \in new THEN insertions + 1 ELSE created[r]]
      BY <1>1 DEF InsertCommissions
    <3>4. PICK new : new = {r \in {job[h].payment} \X levels : status[r] = "none"}
      OBVIOUS
    <3>5. new \in SUBSET Rows
      BY <3>2, <3>4
    <3> QED
      BY <3>3, <3>4, <3>5
  <2>2. IsFiniteSet(new)
    <3>1. IsFiniteSet({job[h].payment} \X levels)
      <4>1. IsFiniteSet(levels) /\ IsFiniteSet({job[h].payment})
        BY LedgerAssumption, FS_Subset, FS_Singleton
      <4> QED
        BY <4>1, FS_Product
    <3> QED
      BY <2>1, <3>1, FS_Subset
  <2>3. Stored' = Stored \cup new
    BY <2>1 DEF Stored
  <2>4. IsFiniteSet(Stored')
    BY <2>2, <2>3, FS_Union DEF ClockInv
  <2>5. \A r \in new : r[1] = job[h].payment /\ r \notin Stored
    BY <2>1 DEF Stored
  <2>6. \A r \in Rows : created'[r] <= insertions'
    BY <2>1 DEF ClockInv
  <2>7. ASSUME NEW r \in Stored', NEW s \in Stored', created'[r] = created'[s]
        PROVE  r[1] = s[1]
    <3>1. \A q \in Stored : created'[q] = created[q] /\ created[q] <= insertions /\ created[q] \in Nat
      BY <2>1, <2>5 DEF Stored, ClockInv
    <3>2. \A q \in new : created'[q] = insertions + 1
      BY <2>1
    <3>3. CASE r \in Stored /\ s \in Stored
      BY <2>7, <3>1, <3>3 DEF ClockInv
    <3>4. CASE r \in new /\ s \in new
      BY <2>5, <3>4
    <3>5. CASE r \in Stored /\ s \in new
      BY <2>7, <3>1, <3>2, <3>5
    <3>6. CASE r \in new /\ s \in Stored
      BY <2>7, <3>1, <3>2, <3>6
    <3> QED
      BY <2>3, <3>3, <3>4, <3>5, <3>6
  <2>8. payoutBatch' = payoutBatch /\ carryOverBatch' = carryOverBatch
    BY <1>1 DEF InsertCommissions
  <2> QED
    BY <2>3, <2>4, <2>6, <2>7, <2>8 DEF ClockInv
<1>2. ASSUME created' = created, insertions' = insertions, Stored' = Stored,
             \A r \in Rows : payoutBatch'[r] # Null \/ carryOverBatch'[r] # Null => r \in Stored
      PROVE  ClockInv' /\ Stored \subseteq Stored'
  BY <1>2 DEF ClockInv
<1>3. ASSUME NEW q \in Rows, ReverseRow(h, q)
      PROVE  ClockInv' /\ Stored \subseteq Stored'
  <2>1. q \in Stored
    BY <1>3 DEF ReverseRow, CoverInv
  <2>2. Stored' = Stored
    BY <1>3, <2>1 DEF ReverseRow, PaidWhenRead, Stored
  <2> QED
    BY <1>2, <1>3, <2>2 DEF ReverseRow, PaidWhenRead, ClockInv
<1>4. CASE SettleAndCommit(h)
  <2>1. job[h].locked \subseteq Stored
    BY <1>4 DEF SettleAndCommit, HeldRowsUnchanged, JobType, Stored
  <2>2. job[h].settling \subseteq Stored
    BY <1>4 DEF SettleAndCommit, CoverInv
  <2>3. Stored' = Stored
    BY <1>4 DEF SettleAndCommit, Stored
  <2>4. \A r \in Rows : payoutBatch'[r] # Null \/ carryOverBatch'[r] # Null => r \in Stored
    BY <1>4, <2>1, <2>2 DEF SettleAndCommit, ClockInv
  <2> QED
    BY <1>2, <1>4, <2>3, <2>4 DEF SettleAndCommit
<1>5. CASE PayAndCommit(h)
  <2>1. Payable(h) \subseteq Stored
    BY DEF Payable, Stored, AttachedTo
  <2>2. PICK S : S = Payable(h) /\ S \subseteq Stored
    BY <2>1
  <2>3. /\ status' = [r \in Rows |-> IF r \in S THEN "PAID" ELSE status[r]]
        /\ payoutBatch' = [r \in Rows |-> IF r \in job[h].locked THEN Null ELSE payoutBatch[r]]
        /\ UNCHANGED <<created, carryOverBatch, insertions>>
    BY <1>5, <2>2 DEF PayAndCommit
  <2>4. Stored' = Stored
    BY <2>2, <2>3 DEF Stored
  <2>5. \A r \in Rows : payoutBatch'[r] # Null \/ carryOverBatch'[r] # Null => r \in Stored
    BY <2>3 DEF ClockInv
  <2> QED
    BY <1>2, <2>3, <2>4, <2>5
<1>6. CASE UNCHANGED rowVars
  BY <1>2, <1>6 DEF rowVars, Stored, ClockInv
<1> QED
  BY <1>1, <1>3, <1>4, <1>5, <1>6
     DEF Step, ProcessPayment, StartReversal, CreateBatch, AttachRows, ReadCarryOvers,
         MarkPaid, ExportCsv, DetachReversed, MarkExported, Crash

\* What the job of a step holds is stored, covered and attached to its batch.
LEMMA CoverJob ==
    ASSUME LockInv, ClockInv, CoverInv, NEW h \in Handlers, Step(h), Stored \subseteq Stored'
    PROVE  /\ job'[h].pc = "reverse" => job'[h].todo \subseteq Stored'
           /\ job'[h].pc = "settle" =>
                 /\ job'[h].settling \subseteq Stored'
                 /\ \A a \in Agents :
                       Sum(OfAgent(job'[h].settling, a)) <= Sum(OfAgent(job'[h].locked, a))
           /\ job'[h].pc = "pay" => \A r \in job'[h].locked : payoutBatch'[r] = job'[h].batch
<1> USE DEF LockInv, TypeOK
<1>1. job[h] \in JobType /\ h \in DOMAIN job
  OBVIOUS
<1>2. ASSUME NEW p \in Payments, StartReversal(h, p), job'[h].pc = "reverse"
      PROVE  job'[h].todo \subseteq Stored'
  <2>1. PICK todo, seen : todo = ToReverse(p) /\ seen = {r \in ToReverse(p) : status[r] = "PAID"}
    OBVIOUS
  <2>2. todo \subseteq Stored
    BY <2>1 DEF ToReverse, RowsOf, Stored
  <2>3. CASE todo = {}
    <3>1. job' = job /\ job[h].pc = "idle"
      BY <1>2, <2>1, <2>3 DEF StartReversal
    <3> QED
      BY <1>2, <3>1
  <2>4. CASE todo # {}
    <3>1. job' = [job EXCEPT ![h].pc = "reverse", ![h].payment = p, ![h].todo = todo,
                             ![h].seenPaid = seen]
      BY <1>2, <2>1, <2>4 DEF StartReversal
    <3>2. job'[h] = [job[h] EXCEPT !.pc = "reverse", !.payment = p, !.todo = todo, !.seenPaid = seen]
      BY <1>1, <3>1
    <3>3. job'[h].todo = todo
      BY <1>1, <3>2 DEF JobType
    <3> QED
      BY <2>2, <3>3
  <2> QED
    BY <2>3, <2>4
<1>3. ASSUME NEW q \in Rows, ReverseRow(h, q), job'[h].pc = "reverse"
      PROVE  job'[h].todo \subseteq Stored'
  <2>1. job[h].todo # {q}
    BY <1>1, <1>3 DEF ReverseRow, PaidWhenRead, Finish, Idle
  <2>2. job' = [job EXCEPT ![h].todo = job[h].todo \ {q}]
    BY <1>3, <2>1 DEF ReverseRow, PaidWhenRead
  <2>3. job'[h].todo = job[h].todo \ {q} /\ job[h].pc = "reverse"
    BY <1>1, <1>3, <2>2 DEF ReverseRow, JobType
  <2> QED
    BY <2>3 DEF CoverInv
<1>4. ASSUME ReadCarryOvers(h)
      PROVE  /\ job'[h].pc = "settle" /\ job'[h].settling \subseteq Stored'
             /\ \A a \in Agents :
                   Sum(OfAgent(job'[h].settling, a)) <= Sum(OfAgent(job'[h].locked, a))
  <2>1. PICK S \in SUBSET CarryOvers(job[h].locked) :
          /\ SettlementOf(job[h].locked, S)
          /\ job' = [job EXCEPT ![h].pc = "settle", ![h].settling = S]
    BY <1>4 DEF ReadCarryOvers
  <2>2. job'[h] = [job[h] EXCEPT !.pc = "settle", !.settling = S]
    BY <1>1, <2>1
  <2>3. job'[h].settling = S /\ job'[h].locked = job[h].locked /\ job'[h].pc = "settle"
    BY <1>1, <2>2 DEF JobType
  <2>4. job[h].locked \subseteq Stored
    BY <1>1, <1>4 DEF ReadCarryOvers, HeldRowsUnchanged, JobType, Stored
  <2>5. S \subseteq Stored /\ \A a \in Agents : Sum(OfAgent(S, a)) <= Sum(OfAgent(job[h].locked, a))
    <3>1. S \subseteq Stored
      BY DEF CarryOvers, Stored
    <3>2. PICK att \in SUBSET Stored : att = job[h].locked
      BY <2>4
    <3> QED
      BY <2>1, <3>1, <3>2, SettlementCovered
  <2> QED
    BY <2>3, <2>5
<1>5. ASSUME DetachReversed(h)
      PROVE  job'[h].pc = "pay" /\ \A r \in job'[h].locked : payoutBatch'[r] = job'[h].batch
  <2>1. PICK S : S = Detachable(job[h].batch)
    OBVIOUS
  <2>2. job'[h] = [job[h] EXCEPT !.pc = "pay", !.locked = S] /\ UNCHANGED rowVars
    BY <1>1, <1>5, <2>1 DEF DetachReversed
  <2>3. job'[h].pc = "pay" /\ job'[h].locked = S /\ job'[h].batch = job[h].batch
    BY <1>1, <2>2 DEF JobType
  <2>4. \A r \in S : payoutBatch[r] = job[h].batch
    BY <2>1 DEF Detachable, AttachedTo
  <2> QED
    BY <2>2, <2>3, <2>4 DEF rowVars
<1>6. job'[h].pc \in {"reverse", "settle", "pay"} =>
        \/ \E p \in Payments : StartReversal(h, p)
        \/ \E q \in Rows : ReverseRow(h, q)
        \/ ReadCarryOvers(h) \/ DetachReversed(h)
  BY PcAfter DEF Step
<1> QED
  BY <1>2, <1>3, <1>4, <1>5, <1>6, PcAfter

\* What the batches deduct stays covered; nothing is deducted in a batch that
\* does not exist.
LEMMA CoverBatches ==
    ASSUME LockInv, ClockInv, CoverInv, ClockInv', NEW h \in Handlers, Step(h)
    PROVE  /\ \A r \in Rows : carryOverBatch'[r] # Null => batchStatus'[carryOverBatch'[r]] # "none"
           /\ \A b \in Batches : batchStatus'[b] = "OPEN" => \A a \in Agents : CoveredIn(b, a)'
<1> USE DEF LockInv, TypeOK
<1>1. ASSUME NEW b \in Batches, batchStatus[b] = "OPEN", AttachedTo(b)' = AttachedTo(b),
             SettledBy(b)' = SettledBy(b), NEW a \in Agents
      PROVE  CoveredIn(b, a)'
  <2>1. Sum(OfAgent(SettledBy(b), a)) <= Sum(OfAgent(AttachedTo(b), a))
    BY <1>1 DEF CoverInv, CoveredIn
  <2>2. Sum(OfAgent(SettledBy(b)', a)) <= Sum(OfAgent(AttachedTo(b)', a))
    BY <1>1, <2>1
  <2> QED
    BY <2>2 DEF CoveredIn
<1>2. \A r \in Rows : carryOverBatch[r] # Null => carryOverBatch[r] \in Batches /\ batchStatus[carryOverBatch[r]] # "none"
  BY DEF CoverInv
<1>3. CASE SettleAndCommit(h)
  <2>1. PICK L, S : L = job[h].locked /\ S = job[h].settling
    OBVIOUS
  <2>2. PICK c \in Batches :
          /\ batchStatus[c] = "none" /\ batchStatus' = [batchStatus EXCEPT ![c] = "OPEN"]
          /\ payoutBatch' = [q \in Rows |-> IF q \in L THEN c ELSE payoutBatch[q]]
          /\ carryOverBatch' = [q \in Rows |-> IF q \in S THEN c ELSE carryOverBatch[q]]
    <3>1. PICK c \in Batches :
            /\ batchStatus[c] = "none" /\ batchStatus' = [batchStatus EXCEPT ![c] = "OPEN"]
            /\ payoutBatch' = [q \in Rows |-> IF q \in job[h].locked THEN c ELSE payoutBatch[q]]
            /\ carryOverBatch' = [q \in Rows |-> IF q \in job[h].settling THEN c ELSE carryOverBatch[q]]
      BY <1>3 DEF SettleAndCommit
    <3> QED
      BY <2>1, <3>1
  <2>3. /\ L \subseteq Rows /\ S \subseteq Stored /\ \A q \in L : payoutBatch[q] = Null
        /\ \A a \in Agents : Sum(OfAgent(S, a)) <= Sum(OfAgent(L, a))
    BY <1>3, <2>1 DEF SettleAndCommit, HeldRowsUnchanged, CoverInv, JobType
  <2>4. ASSUME NEW b \in Batches, b # c, batchStatus'[b] = "OPEN", NEW a \in Agents
        PROVE  CoveredIn(b, a)'
    <3>1. batchStatus[b] = "OPEN"
      BY <2>2, <2>4
    <3>2. AttachedTo(b)' = AttachedTo(b)
      BY <2>2, <2>3, <2>4, LedgerAssumption DEF AttachedTo
    <3>3. SettledBy(b)' \subseteq SettledBy(b)
      BY <2>2, <2>4 DEF SettledBy
    <3>4. PICK X, Y, Z : /\ X = OfAgent(SettledBy(b)', a) /\ Y = OfAgent(SettledBy(b), a)
                         /\ Z = OfAgent(AttachedTo(b), a)
      OBVIOUS
    <3>5. Sum(Y) <= Sum(Z)
      BY <3>1, <3>4 DEF CoverInv, CoveredIn
    <3>6. X \subseteq Y
      BY <3>3, <3>4 DEF OfAgent
    <3>7. Y \in Finite /\ Z \in Finite
      <4>1. Y \subseteq Stored /\ Z \subseteq Stored
        BY <3>4, LedgerAssumption DEF OfAgent, SettledBy, AttachedTo, ClockInv
      <4> QED
        BY <4>1, StoredFinite
    <3>8. X \in Finite
      BY <3>6, <3>7, FiniteType
    <3>9. Sum(X) <= Sum(Y) /\ Sum(X) \in Nat /\ Sum(Y) \in Nat /\ Sum(Z) \in Nat
      BY <3>6, <3>7, <3>8, SumGrows, SumType
    <3>10. Sum(X) <= Sum(Z)
      BY ONLY <3>5, <3>9
    <3>11. Sum(OfAgent(SettledBy(b)', a)) <= Sum(OfAgent(AttachedTo(b)', a))
      BY <3>2, <3>4, <3>10
    <3> QED
      BY <3>11 DEF CoveredIn
  <2>5. ASSUME NEW a \in Agents PROVE CoveredIn(c, a)'
    <3>1. SettledBy(c)' = S
      <4>1. \A q \in Rows : carryOverBatch[q] # c
        BY <1>2, <2>2, LedgerAssumption
      <4>2. S \subseteq Rows
        BY <2>3 DEF Stored
      <4> QED
        BY <2>2, <4>1, <4>2 DEF SettledBy
    <3>2. L \subseteq AttachedTo(c)'
      BY <2>2, <2>3 DEF AttachedTo
    <3>3. PICK X, Y, Z : /\ X = OfAgent(S, a) /\ Y = OfAgent(L, a)
                         /\ Z = OfAgent(AttachedTo(c)', a)
      OBVIOUS
    <3>4. Sum(X) <= Sum(Y) /\ Y \subseteq Z
      BY <2>3, <3>2, <3>3 DEF OfAgent
    <3>5. Z \in Finite
      <4>1. Z \subseteq Stored'
        BY <3>3, LedgerAssumption DEF OfAgent, AttachedTo, ClockInv
      <4>2. Stored' \subseteq Rows /\ IsFiniteSet(Stored')
        BY DEF ClockInv, Stored
      <4> QED
        BY <4>1, <4>2, FS_Subset DEF Finite, FiniteSubsetsOf
    <3>6. X \in Finite
      <4>1. X \subseteq Stored
        BY <2>3, <3>3 DEF OfAgent
      <4> QED
        BY <4>1, StoredFinite
    <3>7. Y \in Finite
      BY <3>4, <3>5, FiniteType
    <3>8. Sum(Y) <= Sum(Z) /\ Sum(X) \in Nat /\ Sum(Y) \in Nat /\ Sum(Z) \in Nat
      BY <3>4, <3>5, <3>6, <3>7, SumGrows, SumType
    <3>9. Sum(X) <= Sum(Z)
      BY ONLY <3>4, <3>8
    <3>10. Sum(OfAgent(SettledBy(c)', a)) <= Sum(OfAgent(AttachedTo(c)', a))
      BY <3>1, <3>3, <3>9
    <3> QED
      BY <3>10 DEF CoveredIn
  <2>6. \A r \in Rows : carryOverBatch'[r] # Null => batchStatus'[carryOverBatch'[r]] # "none"
    BY <1>2, <2>2
  <2> QED
    BY <2>4, <2>5, <2>6
<1>4. CASE PayAndCommit(h)
  <2>1. PICK c, L : c = job[h].batch /\ L = job[h].locked /\ c \in Batches
    BY <1>4 DEF PayAndCommit, JobBatch
  <2>2. /\ payoutBatch' = [q \in Rows |-> IF q \in L THEN Null ELSE payoutBatch[q]]
        /\ batchStatus' = [batchStatus EXCEPT ![c] = "PAID"] /\ carryOverBatch' = carryOverBatch
        /\ \A q \in L : payoutBatch[q] = c
    BY <1>4, <2>1 DEF PayAndCommit, CoverInv
  <2>3. ASSUME NEW b \in Batches, batchStatus'[b] = "OPEN", NEW a \in Agents
        PROVE  CoveredIn(b, a)'
    <3>1. b # c /\ batchStatus[b] = "OPEN"
      BY <2>2, <2>3
    <3>2. AttachedTo(b)' = AttachedTo(b) /\ SettledBy(b)' = SettledBy(b)
      BY <2>2, <3>1, LedgerAssumption DEF AttachedTo, SettledBy
    <3> QED
      BY <1>1, <3>1, <3>2
  <2>4. \A r \in Rows : carryOverBatch'[r] # Null => batchStatus'[carryOverBatch'[r]] # "none"
    BY <1>2, <2>2
  <2> QED
    BY <2>3, <2>4
<1>5. CASE MarkExported(h)
  <2>1. /\ UNCHANGED <<payoutBatch, carryOverBatch>> /\ job[h].batch \in Batches
        /\ batchStatus' = [batchStatus EXCEPT ![job[h].batch] = "EXPORTED"]
    BY <1>5 DEF MarkExported, rowVars, JobBatch
  <2>2. ASSUME NEW b \in Batches, batchStatus'[b] = "OPEN", NEW a \in Agents
        PROVE  CoveredIn(b, a)'
    BY <1>1, <2>1, <2>2 DEF AttachedTo, SettledBy
  <2>3. \A r \in Rows : carryOverBatch'[r] # Null => batchStatus'[carryOverBatch'[r]] # "none"
    BY <1>2, <2>1
  <2> QED
    BY <2>2, <2>3
<1>6. CASE UNCHANGED <<payoutBatch, carryOverBatch, batchStatus>>
  <2>1. ASSUME NEW b \in Batches, batchStatus'[b] = "OPEN", NEW a \in Agents
        PROVE  CoveredIn(b, a)'
    BY <1>1, <1>6, <2>1 DEF AttachedTo, SettledBy
  <2> QED
    BY <1>2, <1>6, <2>1
<1>7. UNCHANGED <<rowVars, batchVars>> => UNCHANGED <<payoutBatch, carryOverBatch, batchStatus>>
  BY DEF rowVars, batchVars
<1>8. InsertCommissions(h) \/ (\E q \in Rows : ReverseRow(h, q))
        => UNCHANGED <<payoutBatch, carryOverBatch, batchStatus>>
  BY DEF InsertCommissions, ReverseRow, batchVars
<1> QED
  BY <1>3, <1>4, <1>5, <1>6, <1>7, <1>8
     DEF Step, ProcessPayment, StartReversal, CreateBatch, AttachRows, ReadCarryOvers,
         MarkPaid, ExportCsv, DetachReversed, Crash

\* However requests overlap, an open batch deducts from an agent no more than
\* what it pays the agent: the settlement of createPayoutBatch takes whole
\* rows that the earnings cover, and no row joins or leaves an open batch.
THEOREM OpenBatchesAreCovered == Spec => []OpenBatchCovered
<1>1. Init => ClockInv /\ CoverInv
  <2>1. ASSUME Init PROVE ClockInv
    <3>1. Stored = {}
      BY <2>1 DEF Init, Stored
    <3> QED
      BY <2>1, <3>1, FS_EmptySet DEF Init, ClockInv
  <2>2. Init => CoverInv
    BY DEF Init, CoverInv, Idle
  <2> QED
    BY <2>1, <2>2
<1>2. LockInv /\ ClockInv /\ CoverInv /\ [Next]_vars => ClockInv' /\ CoverInv'
  <2>1. ASSUME ClockInv, CoverInv, UNCHANGED vars PROVE ClockInv' /\ CoverInv'
    <3>1. UNCHANGED <<status, created, payoutBatch, carryOverBatch, insertions, batchStatus, job>>
      BY <2>1 DEF vars, rowVars, batchVars
    <3>2. Stored' = Stored /\ \A b \in Batches : SettledBy(b)' = SettledBy(b) /\ AttachedTo(b)' = AttachedTo(b)
      BY <3>1 DEF Stored, SettledBy, AttachedTo
    <3>3. \A b \in Batches, a \in Agents : CoveredIn(b, a)' <=> CoveredIn(b, a)
      BY <3>2 DEF CoveredIn
    <3> QED
      BY <2>1, <3>1, <3>2, <3>3 DEF ClockInv, CoverInv
  <2>2. ASSUME LockInv, ClockInv, CoverInv, NEW h \in Handlers, Step(h) PROVE ClockInv' /\ CoverInv'
    <3>1. ClockInv' /\ Stored \subseteq Stored'
      BY <2>2, ClockStep
    <3>2. ASSUME NEW g \in Handlers, g # h
          PROVE  /\ job'[g].pc = "reverse" => job'[g].todo \subseteq Stored'
                 /\ job'[g].pc = "settle" =>
                       /\ job'[g].settling \subseteq Stored'
                       /\ \A a \in Agents :
                             Sum(OfAgent(job'[g].settling, a)) <= Sum(OfAgent(job'[g].locked, a))
                 /\ job'[g].pc = "pay" => \A r \in job'[g].locked : payoutBatch'[r] = job'[g].batch
      <4>1. job'[g] = job[g]
        BY <2>2, <3>2, JobFrame
      <4>2. \A r \in job[g].locked : payoutBatch'[r] = payoutBatch[r]
        BY <2>2, <3>2, LockedFrame
      <4> QED
        BY <2>2, <3>1, <4>1, <4>2 DEF CoverInv
    <3>3. /\ \A r \in Rows : carryOverBatch'[r] # Null => batchStatus'[carryOverBatch'[r]] # "none"
          /\ \A b \in Batches : batchStatus'[b] = "OPEN" => \A a \in Agents : CoveredIn(b, a)'
      BY <2>2, <3>1, CoverBatches
    <3> QED
      BY <2>2, <3>1, <3>2, <3>3, CoverJob DEF CoverInv
  <2> QED
    BY <2>1, <2>2 DEF Next
<1>3. CoverInv => OpenBatchCovered
  BY DEF CoverInv, CoveredIn, OpenBatchCovered
<1> QED
  BY <1>1, <1>2, <1>3, LockInvariant, PTL DEF Spec

-----------------------------------------------------------------------------
(* The refinement *)

\* The stage of a row, case by case.
LEMMA StageCases ==
    ASSUME TypeOK, NEW r \in Rows
    PROVE  /\ status[r] = "none" => Stage(r) = "none"
           /\ status[r] = "EARNED" /\ payoutBatch[r] = Null => Stage(r) = "earned"
           /\ status[r] = "EARNED" /\ payoutBatch[r] # Null => Stage(r) = "batched"
           /\ status[r] = "PAID" => Stage(r) = "paid"
           /\ status[r] = "REVERSED" /\ ~reversedAfterPayout[r] => Stage(r) = "void"
           /\ status[r] = "REVERSED" /\ reversedAfterPayout[r] /\ carryOverBatch[r] = Null
                => Stage(r) = "owed"
           /\ status[r] = "REVERSED" /\ reversedAfterPayout[r] /\ carryOverBatch[r] # Null
                => Stage(r) = "settled"
  BY DEF TypeOK, Stage

\* Rows whose columns do not change stay in their stage.
LEMMA StageFrame ==
    ASSUME NEW r \in Rows, status'[r] = status[r], reversedAfterPayout'[r] = reversedAfterPayout[r],
           payoutBatch'[r] = payoutBatch[r], carryOverBatch'[r] = carryOverBatch[r]
    PROVE  Stage(r)' = Stage(r)
  BY DEF Stage

\* An insertion is Earn of the rows that did not exist.
LEMMA InsertRefines ==
    ASSUME SeqInv, TypeOK', NEW h \in Handlers, InsertCommissions(h)
    PROVE  \E S \in SUBSET Rows : Lifecycle!Earn(S)
<1> USE DEF SeqInv, LockInv
<1>1. PICK levels \in SUBSET Levels :
        LET new == {r \in {job[h].payment} \X levels : status[r] = "none"}
        IN  status' = [r \in Rows |-> IF r \in new THEN "EARNED" ELSE status[r]]
  BY DEF InsertCommissions
<1> DEFINE S == {r \in Rows : r \in {job[h].payment} \X levels /\ status[r] = "none"}
<1>2. \A r \in Rows : status'[r] = IF r \in S THEN "EARNED" ELSE status[r]
  BY <1>1
<1>3. /\ payoutBatch' = payoutBatch /\ reversedAfterPayout' = reversedAfterPayout
      /\ carryOverBatch' = carryOverBatch
  BY DEF InsertCommissions
<1>4. ASSUME NEW r \in Rows
      PROVE  Stage(r)' = IF r \in S THEN "earned" ELSE Stage(r)
  <2>1. CASE r \in S
    <3>1. payoutBatch[r] = Null
      BY <2>1 DEF CarryInv
    <3> QED
      BY <1>2, <1>3, <2>1, <3>1 DEF Stage
  <2>2. CASE r \notin S
    BY <1>2, <1>3, <2>2, StageFrame
  <2> QED
    BY <2>1, <2>2
<1>5. \A r \in S : r \in Rows /\ Stage(r) = "none"
  BY StageCases
<1> HIDE DEF S
<1>6. Lifecycle!Earn(S)
  BY <1>4, <1>5 DEF Lifecycle!Earn, Lifecycle!In, Lifecycle!MoveTo
<1> QED
  BY <1>6 DEF S

\* A refund's update is Void of a row not paid yet, ClawBack of a paid one.
LEMMA ReverseRefines ==
    ASSUME SeqInv, TypeOK', NEW h \in Handlers, NEW q \in Rows, ReverseRow(h, q)
    PROVE  Lifecycle!Void(q) \/ Lifecycle!ClawBack(q)
<1> USE DEF SeqInv, LockInv
<1>1. /\ status[q] \in {"EARNED", "PAID"}
      /\ q \in job[h].seenPaid <=> status[q] = "PAID"
      /\ carryOverBatch[q] = Null
  BY DEF ReverseRow, PaidWhenRead, MemoryInv, CarryInv
<1>2. /\ \A r \in Rows : status'[r] = IF r = q THEN "REVERSED" ELSE status[r]
      /\ \A r \in Rows : reversedAfterPayout'[r] = IF r = q THEN q \in job[h].seenPaid
                                                    ELSE reversedAfterPayout[r]
      /\ payoutBatch' = payoutBatch /\ carryOverBatch' = carryOverBatch
  BY DEF ReverseRow, PaidWhenRead, TypeOK
<1>3. \A r \in Rows \ {q} : Stage(r)' = Stage(r)
  BY <1>2, StageFrame
<1>4. CASE status[q] = "EARNED"
  <2>1. Stage(q) \in {"earned", "batched"}
    BY <1>4, StageCases
  <2>2. Stage(q)' = "void"
    BY <1>1, <1>2, <1>4 DEF Stage
  <2> QED
    BY <1>3, <2>1, <2>2 DEF Lifecycle!Void, Lifecycle!MoveTo
<1>5. CASE status[q] = "PAID"
  <2>1. Stage(q) = "paid"
    BY <1>5, StageCases
  <2>2. Stage(q)' = "owed"
    BY <1>1, <1>2, <1>5 DEF Stage
  <2> QED
    BY <1>3, <2>1, <2>2 DEF Lifecycle!ClawBack, Lifecycle!MoveTo
<1> QED
  BY <1>1, <1>4, <1>5

\* The commit of createPayoutBatch is Batch of the rows it attached and the
\* carry-overs it settled.
LEMMA SettleRefines ==
    ASSUME SeqInv, TypeOK', NEW h \in Handlers, SettleAndCommit(h)
    PROVE  \E S, T \in SUBSET Rows : Lifecycle!Batch(S, T)
<1> USE DEF SeqInv, LockInv
<1> DEFINE S == job[h].locked
           T == job[h].settling
<1>1. /\ job[h] \in JobType /\ S \in SUBSET Rows /\ T \in SUBSET Rows /\ S # {}
      /\ \A r \in S : status[r] = "EARNED" /\ payoutBatch[r] = Null
      /\ \A r \in T : /\ status[r] = "REVERSED" /\ reversedAfterPayout[r]
                      /\ carryOverBatch[r] = Null
  BY DEF SettleAndCommit, TypeOK, JobType, MemoryInv, HeldRowsUnchanged
<1>2. PICK b \in Batches :
        /\ payoutBatch' = [r \in Rows |-> IF r \in S THEN b ELSE payoutBatch[r]]
        /\ carryOverBatch' = [r \in Rows |-> IF r \in T THEN b ELSE carryOverBatch[r]]
  BY DEF SettleAndCommit
<1>3. status' = status /\ reversedAfterPayout' = reversedAfterPayout /\ b # Null
  BY LedgerAssumption DEF SettleAndCommit
<1> HIDE DEF S, T
<1>4. ASSUME NEW r \in Rows
      PROVE  Stage(r)' = IF r \in S THEN "batched" ELSE IF r \in T THEN "settled" ELSE Stage(r)
  <2>1. CASE r \in S
    BY <1>1, <1>2, <1>3, <2>1 DEF Stage
  <2>2. CASE r \in T
    BY <1>1, <1>2, <1>3, <2>2 DEF Stage
  <2>3. CASE r \notin S /\ r \notin T
    BY <1>2, <1>3, <2>3, StageFrame
  <2> QED
    BY <1>1, <2>1, <2>2, <2>3
<1>5. /\ \A r \in S : r \in Rows /\ Stage(r) = "earned"
      /\ \A r \in T : r \in Rows /\ Stage(r) = "owed"
  BY <1>1, StageCases
<1>6. Lifecycle!Batch(S, T)
  BY <1>1, <1>4, <1>5 DEF Lifecycle!Batch, Lifecycle!In
<1> QED
  BY <1>1, <1>6

\* The commit of markPayoutBatchPaid is Pay of the rows still EARNED; the
\* rows it detaches are void before and after.
LEMMA PayRefines ==
    ASSUME SeqInv, TypeOK', NEW h \in Handlers, PayAndCommit(h)
    PROVE  \E S \in SUBSET Rows : Lifecycle!Pay(S)
<1> USE DEF SeqInv, LockInv
<1> DEFINE S == Payable(h)
<1>1. /\ status' = [r \in Rows |-> IF r \in S THEN "PAID" ELSE status[r]]
      /\ payoutBatch' = [r \in Rows |-> IF r \in job[h].locked THEN Null ELSE payoutBatch[r]]
      /\ reversedAfterPayout' = reversedAfterPayout /\ carryOverBatch' = carryOverBatch
  BY DEF PayAndCommit, Payable
<1>2. \A r \in S : /\ r \in Rows /\ r \notin job[h].locked /\ status[r] = "EARNED"
                   /\ payoutBatch[r] # Null
  BY LedgerAssumption DEF PayAndCommit, Payable, JobBatch, AttachedTo
<1>3. \A r \in job[h].locked : status[r] = "REVERSED"
  BY DEF PayAndCommit, Payable, HeldRowsUnchanged
<1>4. S \in SUBSET Rows
  BY DEF AttachedTo, Payable
<1> HIDE DEF S
<1>5. ASSUME NEW r \in Rows
      PROVE  Stage(r)' = IF r \in S THEN "paid" ELSE Stage(r)
  <2>1. CASE r \in S
    BY <1>1, <2>1 DEF Stage
  <2>2. CASE r \in job[h].locked
    BY <1>1, <1>2, <1>3, <2>2 DEF Stage
  <2>3. CASE r \notin S /\ r \notin job[h].locked
    BY <1>1, <2>3, StageFrame
  <2> QED
    BY <2>1, <2>2, <2>3
<1>6. \A r \in S : r \in Rows /\ Stage(r) = "batched"
  BY <1>2, StageCases
<1>7. Lifecycle!Pay(S)
  BY <1>5, <1>6 DEF Lifecycle!Pay, Lifecycle!In, Lifecycle!MoveTo
<1> QED
  BY <1>4, <1>7

\* The commission service implements the abstract ledger when its requests
\* do not overlap.
THEOREM LedgerImplementsLifecycle ==
    ASSUME Sequential PROVE Spec => LifecycleSpec
<1>1. Init => Lifecycle!Init
  BY DEF Init, Lifecycle!Init, Stage
<1>2. ASSUME SeqInv, TypeOK', [Next]_vars
      PROVE  [Lifecycle!Next]_([r \in Rows |-> Stage(r)])
  <2>1. ASSUME \A r \in Rows : Stage(r)' = Stage(r)
        PROVE  [Lifecycle!Next]_([r \in Rows |-> Stage(r)])
    BY <2>1
  <2>2. CASE UNCHANGED rowVars
    BY <2>1, <2>2, StageFrame DEF rowVars
  <2>3. CASE UNCHANGED vars
    BY <2>2, <2>3 DEF vars
  <2>4. ASSUME NEW h \in Handlers, Step(h)
        PROVE  [Lifecycle!Next]_([r \in Rows |-> Stage(r)])
    <3>1. CASE InsertCommissions(h)
      BY <1>2, <3>1, InsertRefines DEF Lifecycle!Next
    <3>2. ASSUME NEW q \in Rows, ReverseRow(h, q)
          PROVE  [Lifecycle!Next]_([r \in Rows |-> Stage(r)])
      BY <1>2, <3>2, ReverseRefines DEF Lifecycle!Next
    <3>3. CASE SettleAndCommit(h)
      BY <1>2, <3>3, SettleRefines DEF Lifecycle!Next
    <3>4. CASE PayAndCommit(h)
      BY <1>2, <3>4, PayRefines DEF Lifecycle!Next
    <3> QED
      BY <2>2, <2>4, <3>1, <3>2, <3>3, <3>4
         DEF Step, ProcessPayment, StartReversal, CreateBatch, AttachRows, ReadCarryOvers,
             MarkPaid, ExportCsv, DetachReversed, MarkExported, Crash
  <2> QED
    BY <1>2, <2>3, <2>4 DEF Next
<1> QED
  BY <1>1, <1>2, SeqInvariant, TypeCorrect, PTL DEF Spec, LifecycleSpec, Lifecycle!Spec
=============================================================================
