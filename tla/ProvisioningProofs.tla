------------------------- MODULE ProvisioningProofs -------------------------
(***************************************************************************)
(* What the provisioning keeps for any number of ticks and admin requests, *)
(* whatever EasierProp answers or refuses and however often the process    *)
(* restarts.                                                               *)
(*                                                                         *)
(* Under every interleaving: the stored key is never lost, the steps       *)
(* behind create_key have it, one hedge setup is live, and the record      *)
(* appears once payment and onboarding are both stored.  As long as no     *)
(* answer of EasierProp is lost (MaxLost = 0): no account is registered    *)
(* twice.  A lost answer makes the client ask again.  As long as ticks and *)
(* admin requests come one after the other (Concurrency = 1): a retry has  *)
(* its inputs and COMPLETED is true and final.  A reprovision during a     *)
(* tick, and a stale row written over a reset one, break both.             *)
(*                                                                         *)
(* And of the accounts once they are provisioned (AccountSync): whatever   *)
(* overlaps, fails or is retried, the hedge setup trades with accounts     *)
(* that EasierProp has, once every command is done; and, when nothing      *)
(* overlapped or failed, with the ones that the user has now.              *)
(***************************************************************************)
EXTENDS Provisioning, AccountSync, FiniteSetTheorems, TLAPS

\* A row is never behind create_key without a key.
RowOK(rec) ==
    rec.status \notin {"ABSENT", "PENDING"} =>
        rec.key # 0 \/ (rec.status = "FAILED" /\ rec.failedStep = "create_key")

\* The flag of the cron keeps ticks apart.
OneTick ==
    /\ \A t \in Ticks : tick[t].pc # "idle" => running
    /\ \A s, t \in Ticks : tick[s].pc # "idle" /\ tick[t].pc # "idle" => s = t

\* What a tick under way knows.  The row it holds may be stale, but a key it
\* saw is still there, and while it creates a key nobody else stores one.
TickKnows(t) ==
    LET rec == tick[t].row got == tick[t].got pc == tick[t].pc IN
    pc # "idle" =>
        /\ rec.status \in Working /\ RowOK(rec)
        /\ rec.key # 0 => prov.key = rec.key
        /\ pc = "step" => got = 0
        /\ pc \in {"step", "advance"} /\ rec.status = "PENDING" /\ rec.key = 0 => prov.key = 0
        /\ pc = "advance" /\ rec.status = "PENDING" => (rec.key = 0 <=> got # 0)
        /\ pc \in {"create", "register"} => rec.status \in DOMAIN KindOf
        /\ pc = "createHedge" => live = <<>> /\ rec.status = "BROKER_ACCOUNT_CREATED"

\* What an admin request under way knows.
RequestKnows(r) ==
    LET rec == request[r].row IN
    request[r].pc \notin {"new", "done"} =>
        /\ rec.status # "ABSENT" /\ RowOK(rec)
        /\ rec.key # 0 => prov.key = rec.key

ProvKnows == RowOK(prov) /\ (prov.status = "ABSENT" => prov.key = 0)

\* None of the properties is inductive: each stale write is harmless because
\* of what its writer saw and because one tick at most can store a key.
ProvisioningInv ==
    /\ TypeOK /\ OneTick /\ ProvKnows /\ OneLiveHedge
    /\ \A t \in Ticks : TickKnows(t)
    /\ \A r \in Requests : RequestKnows(r)

-----------------------------------------------------------------------------
(* The record and its tables *)

LEMMA RowsTyped ==
    /\ Absent \in Row /\ IdleTick \in TickType /\ NewRequest \in RequestType
    /\ [Absent EXCEPT !.status = "PENDING"] \in Row
    BY DEF Absent, Row, NoIds, Ids, Statuses, Working, Terminal, IdleTick, TickType, TickPCs,
           NewRequest, RequestType, RequestPCs, NoStep, Steps

LEMMA Tables ==
    ASSUME NEW s \in Working
    PROVE  /\ StepOf[s] \in Steps /\ (StepOf[s] = "create_key" <=> s = "PENDING")
           /\ NextStatus[s] \in Statuses \ {"ABSENT", "PENDING", "FAILED"}
           /\ NextStatus[s] # "COMPLETED" => NextStatus[s] \in Working
           /\ s \in DOMAIN KindOf => KindOf[s] \in Kinds
    BY DEF Working, StepOf, Steps, NextStatus, Statuses, Terminal, KindOf, Kinds

\* A retry resumes at a step of the table, and at the first one when that is
\* the one that failed.
LEMMA Resume ==
    ASSUME NEW step \in Steps \cup {NoStep}
    PROVE  /\ ResumeStatus(step) \in Working
           /\ step = "create_key" => ResumeStatus(step) = "PENDING"
<1>1. CASE step = NoStep
    BY <1>1 DEF ResumeStatus, Working, NoStep
<1>2. CASE step # NoStep
    <2>1. \E s \in Working : StepOf[s] = step
        BY <1>2 DEF Working, StepOf, Steps
    <2>2. ResumeStatus(step) \in Working /\ StepOf[ResumeStatus(step)] = step
        BY <1>2, <2>1 DEF ResumeStatus
    <2> QED BY <2>2, Tables
<1> QED BY <1>1, <1>2

-----------------------------------------------------------------------------
(* One tick at a time *)

LEMMA GotoFacts ==
    ASSUME TypeOK, NEW t \in Ticks, NEW pc \in TickPCs, Goto(t, pc)
    PROVE  /\ tick' \in [Ticks -> TickType]
           /\ tick'[t].pc = pc /\ tick'[t].row = tick[t].row /\ tick'[t].got = tick[t].got
           /\ \A s \in Ticks : s # t => tick'[s] = tick[s]
<1>1. tick \in [Ticks -> TickType]
    BY DEF TypeOK
<1>2. tick' = [tick EXCEPT ![t] = [tick[t] EXCEPT !.pc = pc]]
    BY DEF Goto
<1>3. [tick[t] EXCEPT !.pc = pc] \in TickType
    BY <1>1 DEF TickType
<1>4. tick'[t] = [tick[t] EXCEPT !.pc = pc]
    BY <1>1, <1>2
<1>5. tick[t] \in TickType
    BY <1>1
<1> QED BY <1>1, <1>2, <1>3, <1>4, <1>5 DEF TickType

LEMMA GotFacts ==
    ASSUME TypeOK, NEW t \in Ticks, NEW pc \in TickPCs, NEW got \in Nat,
           tick' = [tick EXCEPT ![t].pc = pc, ![t].got = got]
    PROVE  /\ tick' \in [Ticks -> TickType]
           /\ tick'[t].pc = pc /\ tick'[t].row = tick[t].row /\ tick'[t].got = got
           /\ \A s \in Ticks : s # t => tick'[s] = tick[s]
<1>1. tick \in [Ticks -> TickType] /\ tick[t] \in TickType
    BY DEF TypeOK
<1> DEFINE v == [tick[t] EXCEPT !.pc = pc, !.got = got]
<1>2. tick' = [tick EXCEPT ![t] = v]
    BY <1>1 DEF TickType
<1>3. v \in TickType /\ v.pc = pc /\ v.row = tick[t].row /\ v.got = got
    BY <1>1 DEF TickType
<1> HIDE DEF v
<1>4. tick'[t] = v
    BY <1>1, <1>2
<1> QED BY <1>1, <1>2, <1>3, <1>4

\* The tick that works is the only one, so what the others know is not touched.
LEMMA TickAlone ==
    ASSUME ProvisioningInv, NEW t \in Ticks, tick[t].pc # "idle",
           \A s \in Ticks : s # t => tick'[s] = tick[s],
           tick'[t].pc # "idle" => running', TickKnows(t)'
    PROVE  OneTick' /\ \A s \in Ticks : TickKnows(s)'
<1>1. \A s \in Ticks : s # t => tick[s].pc = "idle"
    BY DEF ProvisioningInv, OneTick
<1>2. \A s \in Ticks : s # t => tick'[s].pc = "idle"
    BY <1>1
<1>3. OneTick'
    BY <1>2 DEF OneTick
<1>4. ASSUME NEW s \in Ticks, s # t PROVE TickKnows(s)'
    BY <1>2, <1>4 DEF TickKnows
<1> QED BY <1>3, <1>4

\* A step that does not lose the key leaves what the requests know.
LEMMA RequestsAlone ==
    ASSUME ProvisioningInv, request' = request, prov.key # 0 => prov'.key = prov.key
    PROVE  \A r \in Requests : RequestKnows(r)'
    BY DEF ProvisioningInv, RequestKnows

-----------------------------------------------------------------------------
(* Steps of a tick that leave the record alone *)

LEMMA NoHedges == <<>> \in Seq(Ids) /\ Len(<<>>) <= 1
    OBVIOUS

LEMMA AtMostOneHedge ==
    ASSUME NEW s, NEW u \in Seq(Ids), Len(u) <= 1, s = u \/ s = <<>>
    PROVE  s \in Seq(Ids) /\ Len(s) <= 1
<1>1. CASE s = u
    BY <1>1
<1>2. CASE s = <<>>
    BY <1>2, NoHedges, Zenon
<1> QED BY <1>1, <1>2

World == [id : Nat, kind : Kinds]

LEMMA QuietTick ==
    ASSUME ProvisioningInv, NEW t \in Ticks, tick[t].pc # "idle",
           tick' \in [Ticks -> TickType], \A s \in Ticks : s # t => tick'[s] = tick[s],
           UNCHANGED <<prov, facts, caller, running, request, history>>,
           keys' \in Nat, issued' \in Nat, lost' \in Nat, accounts' \subseteq World,
           crm' \in Ids, live' \in Seq(Ids), Len(live') <= 1, TickKnows(t)'
    PROVE  ProvisioningInv'
<1>1. TypeOK'
    BY DEF ProvisioningInv, TypeOK, World, history
<1>2. OneTick' /\ \A s \in Ticks : TickKnows(s)'
    <2>1. running
        BY DEF ProvisioningInv, OneTick
    <2> QED BY <2>1, TickAlone
<1>3. \A r \in Requests : RequestKnows(r)'
    BY RequestsAlone
<1>4. ProvKnows' /\ OneLiveHedge'
    BY DEF ProvisioningInv, ProvKnows, OneLiveHedge, RowOK
<1> QED BY <1>1, <1>2, <1>3, <1>4 DEF ProvisioningInv

LEMMA ReuseKeyStep ==
    ASSUME ProvisioningInv, NEW t \in Ticks, ReuseKey(t)
    PROVE  ProvisioningInv'
<1>1. TypeOK /\ TickKnows(t) /\ tick[t].pc = "step" /\ tick[t].row.status = "PENDING"
      /\ tick[t].row.key # 0 /\ Len(live) <= 1
    BY DEF ProvisioningInv, ReuseKey, AtStep, KeyStored, OneLiveHedge
<1>2. "advance" \in TickPCs
    BY DEF TickPCs
<1>3. Goto(t, "advance") /\ UNCHANGED <<prov, facts, caller, running, request, ep, crm, live, history>>
    BY DEF ReuseKey
<1>4. /\ tick' \in [Ticks -> TickType]
      /\ tick'[t].pc = "advance" /\ tick'[t].row = tick[t].row /\ tick'[t].got = tick[t].got
      /\ \A s \in Ticks : s # t => tick'[s] = tick[s]
    BY <1>1, <1>2, <1>3, GotoFacts
<1>5. TickKnows(t)'
    BY <1>1, <1>3, <1>4 DEF TickKnows, RowOK
<1>6. keys' \in Nat /\ issued' \in Nat /\ lost' \in Nat /\ accounts' \subseteq World /\ crm' \in Ids /\ live' \in Seq(Ids)
    BY <1>1, <1>3 DEF TypeOK, ep, World
<1> QED BY <1>1, <1>3, <1>4, <1>5, <1>6, QuietTick DEF ep

\* The two steps that only go elsewhere.
LEMMA GotoStep ==
    ASSUME ProvisioningInv, NEW t \in Ticks, CapReached(t) \/ FailStep(t)
    PROVE  ProvisioningInv'
<1>1. TypeOK /\ TickKnows(t) /\ tick[t].pc # "idle" /\ Len(live) <= 1
    BY DEF ProvisioningInv, CapReached, FailStep, OneLiveHedge
<1>2. PICK pc \in {"fail", "conflict"} : Goto(t, pc)
    BY DEF CapReached, FailStep
<1>3. UNCHANGED <<prov, facts, caller, running, request, ep, crm, live, history>>
    BY DEF CapReached, FailStep
<1>4. /\ tick' \in [Ticks -> TickType]
      /\ tick'[t].pc = pc /\ tick'[t].row = tick[t].row /\ tick'[t].got = tick[t].got
      /\ \A s \in Ticks : s # t => tick'[s] = tick[s]
    <2>1. pc \in TickPCs
        BY DEF TickPCs
    <2> QED BY <1>1, <1>2, <2>1, GotoFacts
<1>5. TickKnows(t)'
    BY <1>1, <1>3, <1>4 DEF TickKnows, RowOK
<1>6. keys' \in Nat /\ issued' \in Nat /\ lost' \in Nat /\ accounts' \subseteq World /\ crm' \in Ids /\ live' \in Seq(Ids)
    BY <1>1, <1>3 DEF TypeOK, ep, World
<1> QED BY <1>1, <1>3, <1>4, <1>5, <1>6, QuietTick DEF ep

LEMMA CreateKeyStep ==
    ASSUME ProvisioningInv, NEW t \in Ticks, CreateKey(t)
    PROVE  ProvisioningInv'
<1>1. TypeOK /\ TickKnows(t) /\ tick[t].pc = "step" /\ tick[t].row.status = "PENDING"
      /\ tick[t].row.key = 0 /\ Len(live) <= 1
    BY DEF ProvisioningInv, CreateKey, AtStep, KeyStored, OneLiveHedge
<1>2. PICK n \in 0 .. (MaxLost - lost), answered \in BOOLEAN :
        /\ lost' = lost + n
        /\ keys' = keys + n + (IF answered THEN 1 ELSE 0)
        /\ tick' = [tick EXCEPT ![t].pc = IF answered THEN "advance" ELSE "fail",
                                ![t].got = IF answered THEN keys' ELSE 0]
    BY DEF CreateKey
<1>3. UNCHANGED <<prov, facts, caller, running, request, accounts, issued, crm, live, history>>
    BY DEF CreateKey
<1>4. n \in Nat /\ keys \in Nat /\ lost \in Nat
    BY <1>1, ProvisioningAssumption DEF TypeOK
<1>5. lost' \in Nat /\ keys' \in Nat /\ (answered => keys' # 0)
    BY <1>2, <1>4
<1> DEFINE pc == IF answered THEN "advance" ELSE "fail"
           got == IF answered THEN keys' ELSE 0
<1>6. pc \in TickPCs /\ got \in Nat /\ tick' = [tick EXCEPT ![t].pc = pc, ![t].got = got]
    BY <1>2, <1>5 DEF TickPCs
<1>7. (pc = "advance" /\ got # 0) \/ pc = "fail"
    BY <1>5
<1> HIDE DEF pc, got
<1>8. /\ tick' \in [Ticks -> TickType]
      /\ tick'[t].pc = pc /\ tick'[t].row = tick[t].row /\ tick'[t].got = got
      /\ \A s \in Ticks : s # t => tick'[s] = tick[s]
    BY <1>1, <1>6, GotFacts
<1>9. TickKnows(t)'
    BY <1>1, <1>3, <1>7, <1>8 DEF TickKnows, RowOK
<1>10. issued' \in Nat /\ accounts' \subseteq World /\ crm' \in Ids /\ live' \in Seq(Ids)
    BY <1>1, <1>3 DEF TypeOK, World
<1> QED BY <1>1, <1>3, <1>5, <1>8, <1>9, <1>10, QuietTick

LEMMA FindAccountStep ==
    ASSUME ProvisioningInv, NEW t \in Ticks, FindAccount(t)
    PROVE  ProvisioningInv'
<1>1. TypeOK /\ TickKnows(t) /\ tick[t].pc = "step" /\ tick[t].row.status \in DOMAIN KindOf
      /\ Len(live) <= 1
    BY DEF ProvisioningInv, FindAccount, AtStep, OneLiveHedge
<1>2. UNCHANGED <<prov, facts, caller, running, request, ep, crm, live, history>>
    BY DEF FindAccount
<1>3. \/ Goto(t, "create")
      \/ \E a \in OfKind(KindOf[tick[t].row.status]) :
             tick' = [tick EXCEPT ![t].pc = "register", ![t].got = a.id]
    BY DEF FindAccount, Listed
<1>4. /\ tick' \in [Ticks -> TickType]
      /\ tick'[t].pc \in {"create", "register"} /\ tick'[t].row = tick[t].row
      /\ \A s \in Ticks : s # t => tick'[s] = tick[s]
    <2>1. CASE Goto(t, "create")
        <3>1. "create" \in TickPCs
            BY DEF TickPCs
        <3> QED BY <1>1, <2>1, <3>1, GotoFacts
    <2>2. CASE \E a \in OfKind(KindOf[tick[t].row.status]) :
                   tick' = [tick EXCEPT ![t].pc = "register", ![t].got = a.id]
        <3>1. PICK a \in OfKind(KindOf[tick[t].row.status]) :
                   tick' = [tick EXCEPT ![t].pc = "register", ![t].got = a.id]
            BY <2>2
        <3>2. a.id \in Nat /\ "register" \in TickPCs
            BY <1>1 DEF OfKind, TypeOK, TickPCs
        <3> QED BY <1>1, <3>1, <3>2, GotFacts
    <2> QED BY <1>3, <2>1, <2>2
<1>5. TickKnows(t)'
    BY <1>1, <1>2, <1>4 DEF TickKnows, RowOK
<1>6. keys' \in Nat /\ issued' \in Nat /\ lost' \in Nat /\ accounts' \subseteq World /\ crm' \in Ids /\ live' \in Seq(Ids)
    BY <1>1, <1>2 DEF TypeOK, ep, World
<1> QED BY <1>1, <1>2, <1>4, <1>5, <1>6, QuietTick DEF ep

LEMMA CreateAccountStep ==
    ASSUME ProvisioningInv, NEW t \in Ticks, CreateAccount(t)
    PROVE  ProvisioningInv'
<1>1. TypeOK /\ TickKnows(t) /\ tick[t].pc = "create" /\ Len(live) <= 1
    BY DEF ProvisioningInv, CreateAccount, OneLiveHedge
<1>2. tick[t].row.status \in DOMAIN KindOf /\ tick[t].row.status \in Working
    BY <1>1 DEF TickKnows
<1> DEFINE kind == KindOf[tick[t].row.status]
<1>3. kind \in Kinds
    BY <1>2, Tables
<1> HIDE DEF kind
<1>4. PICK n \in 0 .. (MaxLost - lost), answered \in BOOLEAN :
        LET last == issued + n + (IF answered THEN 1 ELSE 0) IN
        /\ lost' = lost + n
        /\ issued' = last
        /\ accounts' = accounts \cup {[id |-> i, kind |-> kind] : i \in (issued + 1) .. last}
        /\ tick' = [tick EXCEPT ![t].pc = IF answered THEN "register" ELSE "fail",
                                ![t].got = IF answered THEN last ELSE 0]
    BY DEF CreateAccount, kind
<1>5. UNCHANGED <<prov, facts, caller, running, request, keys, crm, live, history>>
    BY DEF CreateAccount
<1> DEFINE last == issued + n + (IF answered THEN 1 ELSE 0)
<1>6. n \in Nat /\ issued \in Nat /\ lost \in Nat
    BY <1>1, ProvisioningAssumption DEF TypeOK
<1>7. last \in Nat /\ lost' \in Nat /\ issued' \in Nat
    BY <1>4, <1>6
<1>8. accounts' \subseteq World
    <2>1. \A i \in (issued + 1) .. last : i \in Nat
        BY <1>6, <1>7
    <2>2. \A i \in (issued + 1) .. last : [id |-> i, kind |-> kind] \in World
        BY <1>3, <2>1 DEF World
    <2>3. accounts \subseteq World
        BY <1>1 DEF TypeOK, World
    <2>4. accounts' = accounts \cup {[id |-> i, kind |-> kind] : i \in (issued + 1) .. last}
        BY <1>4
    <2> HIDE DEF last
    <2> QED BY <2>2, <2>3, <2>4
<1> DEFINE pc == IF answered THEN "register" ELSE "fail"
           got == IF answered THEN last ELSE 0
<1>9. pc \in TickPCs /\ pc \in {"register", "fail"} /\ got \in Nat
      /\ tick' = [tick EXCEPT ![t].pc = pc, ![t].got = got]
    BY <1>4, <1>7 DEF TickPCs
<1> HIDE DEF pc, got, last
<1>10. /\ tick' \in [Ticks -> TickType]
       /\ tick'[t].pc = pc /\ tick'[t].row = tick[t].row
       /\ \A s \in Ticks : s # t => tick'[s] = tick[s]
    BY <1>1, <1>9, GotFacts
<1>11. TickKnows(t)'
    BY <1>1, <1>2, <1>5, <1>9, <1>10 DEF TickKnows, RowOK
<1>12. keys' \in Nat /\ crm' \in Ids /\ live' \in Seq(Ids)
    BY <1>1, <1>5 DEF TypeOK
<1> QED BY <1>1, <1>5, <1>7, <1>8, <1>10, <1>11, <1>12, QuietTick

LEMMA RegisterAccountStep ==
    ASSUME ProvisioningInv, NEW t \in Ticks, RegisterAccount(t)
    PROVE  ProvisioningInv'
<1>1. TypeOK /\ TickKnows(t) /\ tick[t].pc = "register" /\ Len(live) <= 1
    BY DEF ProvisioningInv, RegisterAccount, OneLiveHedge
<1>2. tick[t].row.status \in DOMAIN KindOf /\ tick[t].row.status \in Working
    BY <1>1 DEF TickKnows
<1>3. Goto(t, "advance") /\ UNCHANGED <<prov, facts, caller, running, request, ep, live, history>>
      /\ crm' = [crm EXCEPT ![KindOf[tick[t].row.status]] = tick[t].got]
    BY DEF RegisterAccount
<1>4. "advance" \in TickPCs
    BY DEF TickPCs
<1>5. /\ tick' \in [Ticks -> TickType]
      /\ tick'[t].pc = "advance" /\ tick'[t].row = tick[t].row /\ tick'[t].got = tick[t].got
      /\ \A s \in Ticks : s # t => tick'[s] = tick[s]
    BY <1>1, <1>3, <1>4, GotoFacts
<1>6. tick[t].row.status # "PENDING"
    BY <1>2 DEF KindOf
<1>7. TickKnows(t)'
    BY <1>1, <1>3, <1>5, <1>6 DEF TickKnows, RowOK
<1>8. crm' \in Ids
    <2>1. tick[t].got \in Nat
        BY <1>1 DEF TypeOK, TickType
    <2> QED BY <1>1, <1>3, <2>1 DEF TypeOK, Ids
<1>9. keys' \in Nat /\ issued' \in Nat /\ lost' \in Nat /\ accounts' \subseteq World /\ live' \in Seq(Ids)
    BY <1>1, <1>3 DEF TypeOK, ep, World
<1> QED BY <1>1, <1>3, <1>5, <1>7, <1>8, <1>9, QuietTick

LEMMA ArchiveHedgesStep ==
    ASSUME ProvisioningInv, NEW t \in Ticks, ArchiveHedges(t)
    PROVE  ProvisioningInv'
<1>1. TypeOK /\ TickKnows(t) /\ tick[t].pc = "step" /\ Len(live) <= 1
      /\ tick[t].row.status = "BROKER_ACCOUNT_CREATED"
    BY DEF ProvisioningInv, ArchiveHedges, AtStep, OneLiveHedge
<1>2. UNCHANGED <<prov, facts, caller, running, request, ep, crm, history>>
    BY DEF ArchiveHedges
<1>3. PICK pc \in {"createHedge", "fail"} :
          Goto(t, pc) /\ (live' = <<>> \/ (pc = "fail" /\ live' = live))
    BY DEF ArchiveHedges
<1>4. /\ tick' \in [Ticks -> TickType]
      /\ tick'[t].pc = pc /\ tick'[t].row = tick[t].row /\ tick'[t].got = tick[t].got
      /\ \A s \in Ticks : s # t => tick'[s] = tick[s]
    <2>1. pc \in TickPCs
        BY DEF TickPCs
    <2> QED BY <1>1, <1>3, <2>1, GotoFacts
<1>5. TickKnows(t)'
    BY <1>1, <1>2, <1>3, <1>4 DEF TickKnows, RowOK
<1>6. live' \in Seq(Ids) /\ Len(live') <= 1
    <2>1. live \in Seq(Ids)
        BY <1>1 DEF TypeOK
    <2>2. live' = live \/ live' = <<>>
        BY <1>3
    <2> QED BY <1>1, <2>1, <2>2, AtMostOneHedge
<1>7. keys' \in Nat /\ issued' \in Nat /\ lost' \in Nat /\ accounts' \subseteq World /\ crm' \in Ids
    BY <1>1, <1>2 DEF TypeOK, ep, World
<1> QED BY <1>1, <1>2, <1>4, <1>5, <1>6, <1>7, QuietTick

\* The only step that adds a hedge setup, and none was left.
LEMMA CreateHedgeStep ==
    ASSUME ProvisioningInv, NEW t \in Ticks, CreateHedge(t)
    PROVE  ProvisioningInv'
<1>1. TypeOK /\ TickKnows(t) /\ tick[t].pc = "createHedge"
    BY DEF ProvisioningInv, CreateHedge
<1>2. UNCHANGED <<prov, facts, caller, running, request, ep, crm, history>>
      /\ Goto(t, "advance") /\ live' = Append(live, tick[t].row.ids)
    BY DEF CreateHedge
<1>3. live = <<>> /\ tick[t].row.ids \in Ids /\ tick[t].row.status = "BROKER_ACCOUNT_CREATED"
    BY <1>1 DEF TickKnows, TypeOK, TickType, Row
<1>4. live' \in Seq(Ids) /\ Len(live') <= 1
    BY <1>2, <1>3
<1>5. "advance" \in TickPCs
    BY DEF TickPCs
<1>6. /\ tick' \in [Ticks -> TickType]
      /\ tick'[t].pc = "advance" /\ tick'[t].row = tick[t].row /\ tick'[t].got = tick[t].got
      /\ \A s \in Ticks : s # t => tick'[s] = tick[s]
    BY <1>1, <1>2, <1>5, GotoFacts
<1>7. TickKnows(t)'
    BY <1>1, <1>2, <1>3, <1>6 DEF TickKnows, RowOK
<1>8. keys' \in Nat /\ issued' \in Nat /\ lost' \in Nat /\ accounts' \subseteq World /\ crm' \in Ids
    BY <1>1, <1>2 DEF TypeOK, ep, World
<1> QED BY <1>1, <1>2, <1>4, <1>6, <1>7, <1>8, QuietTick

-----------------------------------------------------------------------------
(* Steps that write the record *)

\* The key a step leaves in the row: the one it just got, or the one that is
\* there.  A key is got only where none is stored.
LEMMA AdvanceStep ==
    ASSUME ProvisioningInv, NEW t \in Ticks, Advance(t)
    PROVE  ProvisioningInv' /\ (prov.key # 0 => prov'.key = prov.key)
<1> DEFINE rec == tick[t].row
           got == tick[t].got
<1>1. TypeOK /\ TickKnows(t) /\ tick[t].pc = "advance" /\ Len(live) <= 1 /\ running
    BY DEF ProvisioningInv, Advance, OneLiveHedge, OneTick
<1>2. prov' = Advanced(t) /\ UNCHANGED <<facts, caller, request, ep, crm, live, history>>
    BY DEF Advance
<1>3. /\ tick[t] \in TickType /\ rec \in Row /\ got \in Nat /\ prov \in Row
      /\ rec.status \in Working /\ RowOK(rec) /\ (rec.key # 0 => prov.key = rec.key)
      /\ rec.status = "PENDING" /\ rec.key = 0 => prov.key = 0
      /\ rec.status = "PENDING" => (rec.key = 0 <=> got # 0)
    BY <1>1 DEF TypeOK, TickType, TickKnows
<1>4. rec.status # "PENDING" => rec.key # 0
    BY <1>3 DEF RowOK, Working
<1> HIDE DEF rec, got
<1>5. /\ prov'.status = NextStatus[rec.status] /\ prov'.failedStep = NoStep /\ prov'.attempts = 0
      /\ prov'.key = IF rec.status = "PENDING" /\ got # 0 THEN got ELSE prov.key
    BY <1>2 DEF Advanced, rec, got
<1>6. prov.key # 0 => prov'.key = prov.key
    BY <1>3, <1>5
<1>7. prov'.key # 0 /\ (rec.key # 0 => prov'.key = rec.key)
    BY <1>3, <1>4, <1>5
<1>8. /\ prov'.status \in Statuses \ {"ABSENT", "PENDING", "FAILED"}
      /\ prov'.status # "COMPLETED" => prov'.status \in Working
    BY <1>3, <1>5, Tables
<1>9. prov' \in Row
    <2>1. prov'.key \in Nat
        BY <1>3, <1>5 DEF Row
    <2>2. prov'.ids \in Ids
        <3> DEFINE ids == [prov.ids EXCEPT ![KindOf[rec.status]] = got]
        <3>1. prov'.ids = IF rec.status \in DOMAIN KindOf THEN ids ELSE prov.ids
            BY <1>2 DEF Advanced, rec, got
        <3>2. prov.ids \in Ids
            BY <1>3 DEF Row
        <3>3. ids \in Ids
            BY <1>3, <3>2 DEF Ids
        <3> HIDE DEF ids
        <3> QED BY <3>1, <3>2, <3>3
    <2>3. prov' = [status |-> prov'.status, key |-> prov'.key, ids |-> prov'.ids,
                   failedStep |-> NoStep, attempts |-> 0, due |-> TRUE]
        BY <1>2 DEF Advanced
    <2>4. [status |-> prov'.status, key |-> prov'.key, ids |-> prov'.ids,
           failedStep |-> NoStep, attempts |-> 0, due |-> TRUE] \in Row
        BY <1>8, <2>1, <2>2 DEF Row
    <2> QED BY <2>3, <2>4
<1>10. /\ tick' \in [Ticks -> TickType] /\ running' \in BOOLEAN
       /\ \A s \in Ticks : s # t => tick'[s] = tick[s]
       /\ tick'[t].pc # "idle" => running'
       /\ TickKnows(t)'
    <2>1. CASE prov'.status # "COMPLETED" /\ running' = running
               /\ tick' = [tick EXCEPT ![t] = [pc |-> "step", row |-> prov', got |-> 0, stale |-> FALSE]]
        <3> DEFINE v == [pc |-> "step", row |-> prov', got |-> 0, stale |-> FALSE]
        <3>1. v \in TickType
            BY <1>9 DEF TickType, TickPCs
        <3>2. tick'[t] = v /\ tick' \in [Ticks -> TickType] /\ \A s \in Ticks : s # t => tick'[s] = tick[s]
            <4> HIDE DEF v
            <4> QED BY <1>1, <2>1, <3>1 DEF TypeOK, v
        <3>3. tick'[t].pc = "step" /\ tick'[t].row = prov' /\ tick'[t].got = 0
            BY <3>2
        <3> HIDE DEF v
        <3>4. TickKnows(t)'
            BY <1>7, <1>8, <2>1, <3>3 DEF TickKnows, RowOK
        <3> QED BY <1>1, <2>1, <3>2, <3>4
    <2>2. CASE EndTick(t)
        <3>1. tick'[t] = IdleTick /\ tick' \in [Ticks -> TickType] /\ \A s \in Ticks : s # t => tick'[s] = tick[s]
            BY <1>1, <2>2, RowsTyped DEF EndTick, TypeOK
        <3>2. tick'[t].pc = "idle" /\ running' = FALSE
            BY <2>2, <3>1 DEF IdleTick, EndTick
        <3> QED BY <3>1, <3>2 DEF TickKnows
    <2>3. CASE Goto(t, "fail") /\ running' = running
        <3>1. "fail" \in TickPCs
            BY DEF TickPCs
        <3>2. /\ tick' \in [Ticks -> TickType] /\ tick'[t].pc = "fail" /\ tick'[t].row = rec
              /\ \A s \in Ticks : s # t => tick'[s] = tick[s]
            BY <1>1, <2>3, <3>1, GotoFacts DEF rec
        <3>3. TickKnows(t)'
            BY <1>3, <1>7, <3>2 DEF TickKnows, RowOK
        <3> QED BY <1>1, <2>3, <3>2, <3>3
    <2> QED BY <2>1, <2>2, <2>3 DEF Advance
<1>11. TypeOK'
    BY <1>1, <1>2, <1>9, <1>10 DEF TypeOK, ep, history
<1>12. OneTick' /\ \A s \in Ticks : TickKnows(s)'
    BY <1>1, <1>10, TickAlone
<1>13. \A r \in Requests : RequestKnows(r)'
    BY <1>2, <1>6, RequestsAlone
<1>14. ProvKnows' /\ OneLiveHedge'
    BY <1>1, <1>2, <1>7, <1>8 DEF ProvKnows, RowOK, OneLiveHedge
<1> QED BY <1>6, <1>11, <1>12, <1>13, <1>14 DEF ProvisioningInv

LEMMA HandleFailureStep ==
    ASSUME ProvisioningInv, NEW t \in Ticks, HandleFailure(t)
    PROVE  ProvisioningInv' /\ prov'.key = prov.key
<1> DEFINE rec == tick[t].row
           conflict == tick[t].pc = "conflict"
<1>1. TypeOK /\ TickKnows(t) /\ tick[t].pc # "idle" /\ Len(live) <= 1 /\ ProvKnows
    BY DEF ProvisioningInv, HandleFailure, OneLiveHedge
<1>2. /\ prov' = IF Unmoved(rec) THEN Failed(rec, conflict) ELSE prov
      /\ EndTick(t) /\ UNCHANGED <<facts, caller, request, ep, crm, live, history>>
    BY DEF HandleFailure
<1>3. /\ rec \in Row /\ prov \in Row /\ rec.status \in Working /\ RowOK(rec)
      /\ rec.key # 0 => prov.key = rec.key
    BY <1>1 DEF TypeOK, TickType, TickKnows
<1>4. tick' \in [Ticks -> TickType] /\ tick'[t] = IdleTick /\ \A s \in Ticks : s # t => tick'[s] = tick[s]
    BY <1>1, <1>2, RowsTyped DEF EndTick, TypeOK
<1> HIDE DEF rec, conflict
<1>5. prov' \in Row /\ prov'.key = prov.key /\ ProvKnows'
    <2>1. CASE ~Unmoved(rec)
        BY <1>1, <1>2, <1>3, <2>1 DEF ProvKnows, RowOK
    <2>2. CASE Unmoved(rec)
        <3> DEFINE n == rec.attempts + 1
                   step == StepOf[rec.status]
        <3>1. n \in Nat /\ step \in Steps /\ (step = "create_key" <=> rec.status = "PENDING")
              /\ prov.status = rec.status
            BY <1>3, <2>2, Tables DEF Row, Unmoved
        <3>2. \/ prov' = [prov EXCEPT !.status = "FAILED", !.failedStep = step, !.attempts = n, !.due = TRUE]
              \/ prov' = [prov EXCEPT !.failedStep = step, !.attempts = n, !.due = FALSE]
            BY <1>2, <2>2 DEF Failed
        <3> HIDE DEF n, step
        <3>3. /\ prov' \in Row /\ prov'.key = prov.key
              /\ \/ prov'.status = "FAILED" /\ prov'.failedStep = step
                 \/ prov'.status = prov.status
            BY <1>3, <3>1, <3>2 DEF Row, Statuses, Terminal
        <3>4. ProvKnows'
            BY <1>1, <1>3, <3>1, <3>3 DEF ProvKnows, RowOK, Working
        <3> QED BY <3>3, <3>4
    <2> QED BY <2>1, <2>2
<1>6. TypeOK'
    BY <1>1, <1>2, <1>4, <1>5 DEF TypeOK, ep, history, EndTick
<1>7. OneTick' /\ \A s \in Ticks : TickKnows(s)'
    <2>1. tick'[t].pc = "idle"
        BY <1>4 DEF IdleTick
    <2>2. TickKnows(t)'
        BY <2>1 DEF TickKnows
    <2> QED BY <1>1, <1>4, <2>1, <2>2, TickAlone
<1>8. \A r \in Requests : RequestKnows(r)'
    BY <1>2, <1>5, RequestsAlone
<1>9. OneLiveHedge'
    BY <1>1, <1>2 DEF OneLiveHedge
<1> QED BY <1>5, <1>6, <1>7, <1>8, <1>9 DEF ProvisioningInv

LEMMA StartTickStep ==
    ASSUME ProvisioningInv, NEW t \in Ticks, StartTick(t)
    PROVE  ProvisioningInv' /\ prov' = prov
<1> DEFINE v == [pc |-> "step", row |-> prov, got |-> 0, stale |-> FALSE]
<1>1. TypeOK /\ ProvKnows /\ Len(live) <= 1 /\ ~running /\ prov \in Row /\ prov.status \in Working
    BY DEF ProvisioningInv, StartTick, MayStart, Due, TypeOK, OneLiveHedge
<1>2. /\ running' = TRUE /\ tick' = [tick EXCEPT ![t] = v]
      /\ UNCHANGED <<prov, facts, caller, request, ep, crm, live, history>>
    BY DEF StartTick
<1>3. v \in TickType /\ v.pc = "step" /\ v.row = prov /\ v.got = 0
    BY <1>1 DEF TickType, TickPCs
<1> HIDE DEF v
<1>4. tick' \in [Ticks -> TickType] /\ tick'[t] = v /\ \A s \in Ticks : s # t => tick'[s] = tick[s]
    BY <1>1, <1>2, <1>3 DEF TypeOK
<1>5. \A s \in Ticks : s # t => tick'[s].pc = "idle"
    BY <1>1, <1>4 DEF ProvisioningInv, OneTick
<1>6. OneTick'
    BY <1>2, <1>5 DEF OneTick
<1>7. TickKnows(t)'
    BY <1>1, <1>2, <1>3, <1>4 DEF TickKnows, ProvKnows, RowOK
<1>8. \A s \in Ticks : TickKnows(s)'
    BY <1>5, <1>7 DEF TickKnows
<1>9. TypeOK'
    BY <1>1, <1>2, <1>4 DEF TypeOK, ep, history
<1>10. \A r \in Requests : RequestKnows(r)'
    BY <1>2, RequestsAlone
<1>11. ProvKnows' /\ OneLiveHedge'
    BY <1>1, <1>2 DEF ProvKnows, RowOK, OneLiveHedge
<1> QED BY <1>2, <1>6, <1>8, <1>9, <1>10, <1>11 DEF ProvisioningInv

LEMMA BackoffStep ==
    ASSUME ProvisioningInv, BackoffEnds
    PROVE  ProvisioningInv' /\ prov'.key = prov.key
<1>1. TypeOK /\ ProvKnows /\ prov \in Row
    BY DEF ProvisioningInv, TypeOK
<1>2. /\ prov' = [prov EXCEPT !.due = TRUE]
      /\ UNCHANGED <<facts, caller, running, tick, request, ep, crm, live, history>>
    BY DEF BackoffEnds
<1>3. /\ prov' \in Row /\ prov'.key = prov.key /\ prov'.status = prov.status
      /\ prov'.failedStep = prov.failedStep
    BY <1>1, <1>2 DEF Row
<1>4. TypeOK'
    BY <1>1, <1>2, <1>3 DEF TypeOK, ep, history
<1>5. \A r \in Requests : RequestKnows(r)'
    BY <1>2, <1>3, RequestsAlone
<1>6. \A t \in Ticks : TickKnows(t)'
    BY <1>2, <1>3 DEF ProvisioningInv, TickKnows
<1>7. OneTick' /\ OneLiveHedge' /\ ProvKnows'
    BY <1>1, <1>2, <1>3 DEF ProvisioningInv, OneTick, OneLiveHedge, ProvKnows, RowOK
<1> QED BY <1>3, <1>4, <1>5, <1>6, <1>7 DEF ProvisioningInv

-----------------------------------------------------------------------------
(* The trigger and the admins *)

LEMMA CallerStep ==
    ASSUME ProvisioningInv, NEW c \in Callers,
           StoreFact(c) \/ CheckTrigger(c) \/ CreateRecord(c)
    PROVE  ProvisioningInv' /\ (prov.key # 0 => prov'.key = prov.key)
<1>1. TypeOK /\ ProvKnows /\ prov \in Row
    BY DEF ProvisioningInv, TypeOK
<1>2. UNCHANGED <<running, tick, request, ep, crm, live, history>>
    BY DEF StoreFact, CheckTrigger, CreateRecord
<1>3. facts' \subseteq Callers /\ caller' \in [Callers -> CallerPCs]
    <2>1. facts' \subseteq Callers
        BY <1>1 DEF TypeOK, StoreFact, CheckTrigger, CreateRecord
    <2>2. \E pc \in CallerPCs : caller' = [caller EXCEPT ![c] = pc]
        BY DEF StoreFact, CheckTrigger, CreateRecord, CallerPCs
    <2> QED BY <1>1, <2>1, <2>2 DEF TypeOK
<1>4. /\ prov' \in Row /\ ProvKnows'
      /\ prov' = prov \/ (prov.key = 0 /\ prov'.key = 0)
    <2>1. CASE prov' = prov
        BY <1>1, <2>1 DEF ProvKnows, RowOK
    <2>2. CASE prov.status = "ABSENT" /\ prov' = [Absent EXCEPT !.status = "PENDING"]
        <3>1. prov' \in Row /\ prov'.status = "PENDING" /\ prov'.key = 0
            BY <2>2, RowsTyped DEF Absent
        <3> QED BY <1>1, <2>2, <3>1 DEF ProvKnows, RowOK
    <2> QED BY <2>1, <2>2 DEF StoreFact, CheckTrigger, CreateRecord
<1>5. TypeOK'
    BY <1>1, <1>2, <1>3, <1>4 DEF TypeOK, ep, history
<1>6. \A r \in Requests : RequestKnows(r)'
    BY <1>2, <1>4, RequestsAlone
<1>7. \A t \in Ticks : TickKnows(t)'
    BY <1>2, <1>4 DEF ProvisioningInv, TickKnows
<1>8. OneTick' /\ OneLiveHedge'
    BY <1>2 DEF ProvisioningInv, OneTick, OneLiveHedge
<1> QED BY <1>4, <1>5, <1>6, <1>7, <1>8 DEF ProvisioningInv

\* The steps of the requests before they write the row.
LEMMA QuietRequest ==
    ASSUME ProvisioningInv, NEW r \in Requests,
           UNCHANGED <<prov, facts, caller, running, tick, keys, issued, lost, crm, crashes>>,
           accounts' \subseteq World, live' = live \/ live' = <<>>, cleaning' \in BOOLEAN,
           NEW v \in RequestType, request' = [request EXCEPT ![r] = v],
           \/ v.row = prov /\ prov.status # "ABSENT"
           \/ v.row = request[r].row /\ request[r].pc \notin {"new", "done"}
    PROVE  ProvisioningInv'
<1>1. TypeOK /\ ProvKnows
    BY DEF ProvisioningInv
<1>2. live' \in Seq(Ids) /\ Len(live') <= 1
    <2>1. live \in Seq(Ids) /\ Len(live) <= 1
        BY DEF ProvisioningInv, TypeOK, OneLiveHedge
    <2> QED BY <2>1, AtMostOneHedge
<1>3. request' \in [Requests -> RequestType] /\ request'[r] = v
      /\ \A q \in Requests : q # r => request'[q] = request[q]
    BY <1>1 DEF TypeOK
<1>4. TypeOK'
    BY <1>1, <1>2, <1>3 DEF TypeOK, World
<1>5. ASSUME NEW q \in Requests PROVE RequestKnows(q)'
    <2>1. CASE q # r
        <3>1. RequestKnows(q)
            BY DEF ProvisioningInv
        <3> QED BY <1>3, <2>1, <3>1 DEF RequestKnows
    <2>2. CASE q = r
        <3>1. \/ request'[r].row = prov /\ prov.status # "ABSENT"
              \/ request'[r].row = request[r].row /\ request[r].pc \notin {"new", "done"}
            BY <1>3
        <3>2. RequestKnows(r)
            BY DEF ProvisioningInv
        <3> QED BY <1>1, <2>2, <3>1, <3>2 DEF RequestKnows, ProvKnows
    <2> QED BY <2>1, <2>2
<1>6. \A t \in Ticks : TickKnows(t)'
    BY DEF ProvisioningInv, TickKnows
<1>7. OneTick' /\ OneLiveHedge' /\ ProvKnows'
    BY <1>1, <1>2 DEF ProvisioningInv, OneTick, OneLiveHedge, ProvKnows, RowOK
<1> QED BY <1>4, <1>5, <1>6, <1>7 DEF ProvisioningInv

LEMMA ReadStep ==
    ASSUME ProvisioningInv, NEW r \in Requests, ReadForRetry(r) \/ ReadForReprovision(r)
    PROVE  ProvisioningInv' /\ prov' = prov
<1>1. TypeOK /\ prov \in Row /\ prov.status # "ABSENT"
    BY DEF ProvisioningInv, TypeOK, ReadForRetry, ReadForReprovision
<1>2. request \in [Requests -> RequestType] /\ request[r] \in RequestType
    BY <1>1 DEF TypeOK
<1>3. UNCHANGED <<prov, facts, caller, running, tick, ep, crm, live, crashes>>
      /\ cleaning' \in BOOLEAN
    BY <1>1 DEF ReadForRetry, ReadForReprovision, history, TypeOK
<1>4. PICK v \in RequestType : request' = [request EXCEPT ![r] = v] /\ v.row = prov
    <2>1. CASE ReadForRetry(r)
        <3> DEFINE v == [request[r] EXCEPT !.pc = "write", !.row = prov]
        <3>1. request' = [request EXCEPT ![r] = v]
            BY <1>2, <2>1 DEF ReadForRetry, RequestType
        <3>2. v \in RequestType /\ v.row = prov
            BY <1>1, <1>2 DEF RequestType, RequestPCs
        <3> QED BY <3>1, <3>2
    <2>2. CASE ReadForReprovision(r)
        <3> DEFINE todo == {k \in Kinds : KeyStored(prov) /\ prov.ids[k] # 0}
                   pc == IF todo = {} THEN "archive" ELSE "delete"
                   v == [pc |-> pc, row |-> prov, todo |-> todo]
        <3>1. request' = [request EXCEPT ![r] = v]
            BY <2>2 DEF ReadForReprovision
        <3>2. todo \in SUBSET Kinds /\ pc \in RequestPCs
            BY DEF RequestPCs
        <3> HIDE DEF todo, pc
        <3>3. v \in RequestType /\ v.row = prov
            BY <1>1, <3>2 DEF RequestType
        <3> QED BY <3>1, <3>3
    <2> QED BY <2>1, <2>2
<1>5. accounts' \subseteq World
    BY <1>1, <1>3 DEF TypeOK, World, ep
<1> QED BY <1>1, <1>3, <1>4, <1>5, QuietRequest DEF ep

LEMMA CleanupStep ==
    ASSUME ProvisioningInv, NEW r \in Requests, DeleteAccount(r) \/ ArchiveAll(r)
    PROVE  ProvisioningInv' /\ prov' = prov
<1>1. TypeOK /\ request[r].pc \in {"delete", "archive"} /\ RequestKnows(r) /\ ProvKnows
    BY DEF ProvisioningInv, DeleteAccount, ArchiveAll
<1>2. request \in [Requests -> RequestType] /\ request[r] \in RequestType
      /\ cleaning \in BOOLEAN /\ accounts \subseteq World
    BY <1>1 DEF TypeOK, World
<1>3. /\ UNCHANGED <<prov, facts, caller, running, tick, keys, issued, lost, crm, history>>
      /\ live' = live \/ live' = <<>>
    BY DEF DeleteAccount, ArchiveAll, ep
<1>4. accounts' \subseteq World
    BY <1>2 DEF DeleteAccount, ArchiveAll, ep
<1>5. PICK v \in RequestType : request' = [request EXCEPT ![r] = v] /\ v.row = request[r].row
    <2>1. CASE DeleteAccount(r)
        <3>1. PICK k \in request[r].todo :
                LET todo == request[r].todo \ {k} IN
                request' = [request EXCEPT ![r].todo = todo, ![r].pc = IF todo = {} THEN "archive" ELSE @]
            BY <2>1 DEF DeleteAccount
        <3> DEFINE todo == request[r].todo \ {k}
                   v == [request[r] EXCEPT !.todo = todo, !.pc = IF todo = {} THEN "archive" ELSE @]
        <3>2. request' = [request EXCEPT ![r] = v]
            BY <1>2, <3>1 DEF RequestType
        <3>3. v \in RequestType /\ v.row = request[r].row
            BY <1>2 DEF RequestType, RequestPCs
        <3> QED BY <3>2, <3>3
    <2>2. CASE ArchiveAll(r)
        <3> DEFINE v == [request[r] EXCEPT !.pc = "reset"]
        <3>1. request' = [request EXCEPT ![r] = v]
            BY <2>2 DEF ArchiveAll
        <3>2. v \in RequestType /\ v.row = request[r].row
            BY <1>2 DEF RequestType, RequestPCs
        <3> QED BY <3>1, <3>2
    <2> QED BY <2>1, <2>2
<1> QED BY <1>1, <1>2, <1>3, <1>4, <1>5, QuietRequest DEF history

\* A request that writes the row keeps its key, and writes no status behind
\* create_key unless the row it read had a key, which is still there.
LEMMA WriteStep ==
    ASSUME ProvisioningInv, NEW r \in Requests, Retry(r) \/ Reset(r)
    PROVE  ProvisioningInv' /\ prov'.key = prov.key
<1> DEFINE rec == request[r].row
<1>1. /\ TypeOK /\ ProvKnows /\ prov \in Row /\ rec \in Row /\ Len(live) <= 1
      /\ rec.status # "ABSENT" /\ RowOK(rec) /\ (rec.key # 0 => prov.key = rec.key)
    <2>1. request[r].pc \notin {"new", "done"} /\ RequestKnows(r)
        BY DEF ProvisioningInv, Retry, Reset
    <2>2. TypeOK /\ ProvKnows /\ Len(live) <= 1
        BY DEF ProvisioningInv, OneLiveHedge
    <2> QED BY <2>1, <2>2 DEF RequestKnows, TypeOK, RequestType
<1>2. /\ Done(r) /\ MarkStale /\ cleaning' \in BOOLEAN
      /\ UNCHANGED <<facts, caller, running, ep, crm, live, crashes>>
    BY <1>1 DEF Retry, Reset, history, TypeOK
<1> HIDE DEF rec
<1>3. prov' \in Row /\ prov'.key = prov.key /\ ProvKnows'
    <2>1. CASE Retry(r)
        <3> DEFINE status == IF rec.status = "FAILED" THEN ResumeStatus(rec.failedStep) ELSE rec.status
        <3>1. prov' = [prov EXCEPT !.status = status, !.attempts = 0, !.due = TRUE, !.failedStep = NoStep]
            BY <2>1 DEF Retry, rec
        <3>2. status \in Statuses \ {"ABSENT"}
            BY <1>1, Resume DEF Row, Statuses, Working
        <3>3. status # "PENDING" => rec.key # 0
            <4>1. CASE rec.status = "FAILED"
                BY <1>1, <4>1, Resume DEF RowOK, Row
            <4>2. CASE rec.status # "FAILED"
                BY <1>1, <4>2 DEF RowOK
            <4> QED BY <4>1, <4>2
        <3> HIDE DEF status
        <3>4. prov' \in Row /\ prov'.key = prov.key /\ prov'.status = status
            BY <1>1, <3>1, <3>2 DEF Row
        <3> QED BY <1>1, <3>2, <3>3, <3>4 DEF ProvKnows, RowOK
    <2>2. CASE Reset(r)
        <3> DEFINE status == IF rec.key # 0 THEN "KEY_CREATED" ELSE "PENDING"
        <3>1. prov' = [prov EXCEPT !.status = status, !.ids = NoIds, !.attempts = 0, !.due = TRUE,
                                   !.failedStep = NoStep]
            BY <2>2 DEF Reset, Restarted, KeyStored, rec
        <3>2. status \in Statuses \ {"ABSENT"} /\ (status # "PENDING" => rec.key # 0) /\ NoIds \in Ids
            BY DEF Statuses, Working, NoIds, Ids
        <3> HIDE DEF status
        <3>3. prov' \in Row /\ prov'.key = prov.key /\ prov'.status = status
            BY <1>1, <3>1, <3>2 DEF Row
        <3> QED BY <1>1, <3>2, <3>3 DEF ProvKnows, RowOK
    <2> QED BY <2>1, <2>2
<1>4. /\ tick' \in [Ticks -> TickType]
      /\ \A t \in Ticks : tick'[t].pc = tick[t].pc /\ tick'[t].row = tick[t].row /\ tick'[t].got = tick[t].got
    <2>1. \A t \in Ticks : tick[t] \in TickType
        BY <1>1 DEF TypeOK
    <2>2. \A t \in Ticks : [tick[t] EXCEPT !.stale = tick[t].pc # "idle"] \in TickType
        BY <2>1 DEF TickType
    <2>3. tick' = [t \in Ticks |-> [tick[t] EXCEPT !.stale = tick[t].pc # "idle"]]
        BY <1>2 DEF MarkStale
    <2>4. tick' \in [Ticks -> TickType]
        BY <2>2, <2>3
    <2>5. \A t \in Ticks : tick'[t] = [tick[t] EXCEPT !.stale = tick[t].pc # "idle"]
        BY <2>3
    <2> QED BY <2>1, <2>4, <2>5 DEF TickType
<1>5. /\ request' \in [Requests -> RequestType] /\ request'[r].pc = "done"
      /\ \A q \in Requests : q # r => request'[q] = request[q]
    <2> DEFINE v == [NewRequest EXCEPT !.pc = "done"]
    <2>1. v \in RequestType /\ v.pc = "done"
        BY RowsTyped DEF RequestType, RequestPCs, NewRequest
    <2>2. request' = [request EXCEPT ![r] = v]
        BY <1>2 DEF Done
    <2> HIDE DEF v
    <2> QED BY <1>1, <2>1, <2>2 DEF TypeOK
<1>6. TypeOK'
    BY <1>1, <1>2, <1>3, <1>4, <1>5 DEF TypeOK, ep
<1>7. OneTick'
    BY <1>2, <1>4 DEF ProvisioningInv, OneTick
<1>8. \A t \in Ticks : TickKnows(t)'
    BY <1>2, <1>3, <1>4 DEF ProvisioningInv, TickKnows
<1>9. \A q \in Requests : RequestKnows(q)'
    BY <1>3, <1>5 DEF ProvisioningInv, RequestKnows
<1>10. OneLiveHedge'
    BY <1>1, <1>2 DEF OneLiveHedge
<1> QED BY <1>3, <1>6, <1>7, <1>8, <1>9, <1>10 DEF ProvisioningInv

LEMMA CrashStep ==
    ASSUME ProvisioningInv, Crash
    PROVE  ProvisioningInv' /\ prov' = prov
<1>1. TypeOK /\ ProvKnows
    BY DEF ProvisioningInv
<1>2. /\ UNCHANGED <<prov, facts, ep, crm, live, cleaning>> /\ crashes' = crashes + 1 /\ running' = FALSE
      /\ tick' = [t \in Ticks |-> IdleTick]
      /\ request' = [r \in Requests |->
             IF request[r].pc = "new" THEN request[r] ELSE [NewRequest EXCEPT !.pc = "done"]]
      /\ caller' = [c \in Callers |-> IF caller[c] = "done" THEN "done" ELSE "idle"]
    BY DEF Crash
<1>3. tick' \in [Ticks -> TickType] /\ \A t \in Ticks : tick'[t].pc = "idle"
    BY <1>2, RowsTyped DEF IdleTick
<1>4. request' \in [Requests -> RequestType] /\ \A r \in Requests : request'[r].pc \in {"new", "done"}
    <2>1. [NewRequest EXCEPT !.pc = "done"] \in RequestType /\ [NewRequest EXCEPT !.pc = "done"].pc = "done"
        BY RowsTyped DEF RequestType, RequestPCs, NewRequest
    <2>2. request \in [Requests -> RequestType]
        BY <1>1 DEF TypeOK
    <2>3. \A r \in Requests : request'[r] \in RequestType /\ request'[r].pc \in {"new", "done"}
        BY <1>2, <2>1, <2>2
    <2>4. request' = [r \in Requests |-> request'[r]]
        BY <1>2
    <2> QED BY <2>3, <2>4
<1>5. caller' \in [Callers -> CallerPCs]
    BY <1>2 DEF CallerPCs
<1>6. TypeOK'
    <2>1. prov' \in Row /\ facts' \subseteq Callers /\ running' \in BOOLEAN
        BY <1>1, <1>2 DEF TypeOK
    <2>2. keys' \in Nat /\ issued' \in Nat /\ lost' \in Nat /\ accounts' \subseteq World
        BY <1>1, <1>2 DEF TypeOK, ep, World
    <2>3. crm' \in Ids /\ live' \in Seq(Ids) /\ crashes' \in Nat /\ cleaning' \in BOOLEAN
        BY <1>1, <1>2 DEF TypeOK
    <2> QED BY <1>3, <1>4, <1>5, <2>1, <2>2, <2>3 DEF TypeOK, World
<1>7. OneTick' /\ (\A t \in Ticks : TickKnows(t)') /\ \A r \in Requests : RequestKnows(r)'
    BY <1>3, <1>4 DEF OneTick, TickKnows, RequestKnows
<1>8. ProvKnows' /\ OneLiveHedge'
    BY <1>1, <1>2 DEF ProvisioningInv, ProvKnows, RowOK, OneLiveHedge
<1> QED BY <1>2, <1>6, <1>7, <1>8 DEF ProvisioningInv

-----------------------------------------------------------------------------
(* The invariant, and what it gives *)

LEMMA InitInv == Init => ProvisioningInv
<1> SUFFICES ASSUME Init PROVE ProvisioningInv
    OBVIOUS
<1>1. /\ prov = Absent /\ facts = {} /\ caller = [c \in Callers |-> "idle"]
      /\ running = FALSE /\ tick = [t \in Ticks |-> IdleTick]
      /\ request = [r \in Requests |-> NewRequest]
      /\ keys = 0 /\ accounts = {} /\ issued = 0 /\ lost = 0
      /\ crm = NoIds /\ live = <<>> /\ crashes = 0 /\ cleaning = FALSE
    BY DEF Init
<1>2. live \in Seq(Ids) /\ Len(live) <= 1
    BY <1>1, NoHedges, Zenon
<1>3. crm \in Ids
    BY <1>1 DEF NoIds, Ids
<1>4. TypeOK
    BY <1>1, <1>2, <1>3, RowsTyped DEF TypeOK, CallerPCs
<1>5. OneTick /\ \A t \in Ticks : TickKnows(t)
    BY <1>1 DEF OneTick, TickKnows, IdleTick
<1>6. \A r \in Requests : RequestKnows(r)
    BY <1>1 DEF RequestKnows, NewRequest
<1>7. ProvKnows
    BY <1>1 DEF ProvKnows, RowOK, Absent
<1> QED BY <1>2, <1>4, <1>5, <1>6, <1>7 DEF ProvisioningInv, OneLiveHedge

LEMMA StepInv ==
    ASSUME ProvisioningInv, [Next]_vars
    PROVE  ProvisioningInv' /\ (prov.key # 0 => prov'.key = prov.key)
<1>1. CASE UNCHANGED vars
    BY <1>1 DEF vars, ep, history, ProvisioningInv, TypeOK, OneTick, ProvKnows, RowOK, OneLiveHedge,
                TickKnows, RequestKnows
<1>2. ASSUME NEW t \in Ticks, TickStep(t)
      PROVE  ProvisioningInv' /\ (prov.key # 0 => prov'.key = prov.key)
    <2>1. CASE Advance(t) \/ HandleFailure(t)
        BY <2>1, AdvanceStep, HandleFailureStep
    <2>2. CASE ~(Advance(t) \/ HandleFailure(t))
        <3>1. prov' = prov
            BY <1>2, <2>2 DEF TickStep, ReuseKey, CreateKey, FindAccount, CreateAccount, CapReached,
                   RegisterAccount, ArchiveHedges, CreateHedge, FailStep
        <3> QED BY <1>2, <2>2, <3>1, ReuseKeyStep, CreateKeyStep, FindAccountStep, CreateAccountStep,
                   GotoStep, RegisterAccountStep, ArchiveHedgesStep, CreateHedgeStep DEF TickStep
    <2> QED BY <2>1, <2>2
<1>3. ASSUME NEW r \in Requests, RequestStep(r)
      PROVE  ProvisioningInv' /\ (prov.key # 0 => prov'.key = prov.key)
    BY <1>3, WriteStep, CleanupStep DEF RequestStep
<1> QED BY <1>1, <1>2, <1>3, CallerStep, StartTickStep, ReadStep, BackoffStep, CrashStep DEF Next

\* Every variable of the provisioning keeps its type.
THEOREM TypeCorrect == Spec => []TypeOK
<1>1. ProvisioningInv => TypeOK
    BY DEF ProvisioningInv
<1>2. ProvisioningInv /\ [Next]_vars => ProvisioningInv'
    BY StepInv
<1> QED BY InitInv, <1>1, <1>2, PTL DEF Spec

\* The stored key is neither replaced nor lost (stepCreateKey, transition),
\* whatever ticks, failures, retries, reprovisions and crashes interleave.
THEOREM KeyNeverLost == Spec => StoredKeyKept
<1>1. ProvisioningInv /\ [Next]_vars => ProvisioningInv' /\ (prov.key # 0 => prov'.key = prov.key)
    BY StepInv
<1> QED BY InitInv, <1>1, PTL DEF Spec, StoredKeyKept

\* stepFinalize leaves one hedge setup at most.
THEOREM HedgeIsUnique == Spec => []OneLiveHedge
<1>1. ProvisioningInv => OneLiveHedge
    BY DEF ProvisioningInv
<1>2. ProvisioningInv /\ [Next]_vars => ProvisioningInv'
    BY StepInv
<1> QED BY InitInv, <1>1, <1>2, PTL DEF Spec

\* No retry, reprovision or stale write takes the row behind create_key
\* without a key.
THEOREM KeyComesFirst == Spec => []KeyBeforeAccounts
<1>1. ProvisioningInv => KeyBeforeAccounts
    BY DEF ProvisioningInv, ProvKnows, RowOK, KeyBeforeAccounts
<1>2. ProvisioningInv /\ [Next]_vars => ProvisioningInv'
    BY StepInv
<1> QED BY InitInv, <1>1, <1>2, PTL DEF Spec

-----------------------------------------------------------------------------
(* What a step writes in the record and leaves in the tick *)

LEMMA IdleAt ==
    ASSUME TypeOK, NEW t \in Ticks, EndTick(t)
    PROVE  tick'[t].pc = "idle" /\ \A s \in Ticks : s # t => tick'[s] = tick[s]
<1>1. tick'[t] = IdleTick /\ \A s \in Ticks : s # t => tick'[s] = tick[s]
    BY DEF EndTick, TypeOK
<1> QED BY <1>1 DEF IdleTick

LEMMA StartAt ==
    ASSUME TypeOK, NEW t \in Ticks, StartTick(t)
    PROVE  /\ prov.status \in Working /\ prov.due /\ Free
           /\ tick'[t].pc = "step" /\ tick'[t].row = prov /\ tick'[t].got = 0
           /\ \A s \in Ticks : s # t => tick'[s] = tick[s]
           /\ UNCHANGED <<prov, facts, caller, request, ep, crm, live, history>>
<1> DEFINE v == [pc |-> "step", row |-> prov, got |-> 0, stale |-> FALSE]
<1>1. tick'[t] = v /\ \A s \in Ticks : s # t => tick'[s] = tick[s]
    BY DEF TypeOK, StartTick
<1> QED BY <1>1 DEF StartTick, Due

LEMMA AdvanceAt ==
    ASSUME ProvisioningInv, NEW t \in Ticks, Advance(t)
    PROVE  LET rec == tick[t].row IN
           /\ tick[t].pc = "advance" /\ rec.status \in Working
           /\ prov'.status = NextStatus[rec.status] /\ prov'.due /\ prov'.failedStep = NoStep
           /\ prov'.ids = IF rec.status \in DOMAIN KindOf
                          THEN [prov.ids EXCEPT ![KindOf[rec.status]] = tick[t].got] ELSE prov.ids
           /\ \/ tick'[t].pc = "step" /\ tick'[t].row = prov' /\ prov'.status # "COMPLETED"
              \/ tick'[t].pc = "idle"
              \/ tick'[t].pc = "fail" /\ tick'[t].row = rec
           /\ \A s \in Ticks : s # t => tick'[s] = tick[s]
           /\ UNCHANGED <<facts, caller, request, ep, crm, live, history>>
<1>1. TypeOK /\ TickKnows(t) /\ tick[t].pc = "advance" /\ prov' = Advanced(t)
      /\ UNCHANGED <<facts, caller, request, ep, crm, live, history>>
    BY DEF ProvisioningInv, Advance
<1>2. tick[t].row.status \in Working
    BY <1>1 DEF TickKnows
<1>3. /\ \/ tick'[t].pc = "step" /\ tick'[t].row = prov' /\ prov'.status # "COMPLETED"
         \/ tick'[t].pc = "idle"
         \/ tick'[t].pc = "fail" /\ tick'[t].row = tick[t].row
      /\ \A s \in Ticks : s # t => tick'[s] = tick[s]
    <2>1. CASE prov'.status # "COMPLETED"
               /\ tick' = [tick EXCEPT ![t] = [pc |-> "step", row |-> prov', got |-> 0, stale |-> FALSE]]
        <3>1. tick'[t] = [pc |-> "step", row |-> prov', got |-> 0, stale |-> FALSE]
              /\ \A s \in Ticks : s # t => tick'[s] = tick[s]
            BY <1>1, <2>1 DEF TypeOK
        <3> QED BY <2>1, <3>1
    <2>2. CASE EndTick(t)
        BY <1>1, <2>2, IdleAt
    <2>3. CASE Goto(t, "fail")
        <3>1. "fail" \in TickPCs
            BY DEF TickPCs
        <3> QED BY <1>1, <2>3, <3>1, GotoFacts
    <2> QED BY <2>1, <2>2, <2>3 DEF Advance
<1> QED BY <1>1, <1>2, <1>3 DEF Advanced

\* A failure leaves the row where it resumes, or where it is.
LEMMA FailureAt ==
    ASSUME ProvisioningInv, NEW t \in Ticks, HandleFailure(t)
    PROVE  LET rec == tick[t].row IN
           /\ tick[t].pc \in {"fail", "conflict"} /\ rec.status \in Working
           /\ \/ prov' = prov
              \/ /\ prov.status = rec.status /\ prov'.ids = prov.ids
                 /\ prov'.status = prov.status
                    \/ (prov'.status = "FAILED" /\ prov'.failedStep = StepOf[rec.status])
           /\ prov' = prov \/ prov.status = rec.status
           /\ tick'[t].pc = "idle" /\ \A s \in Ticks : s # t => tick'[s] = tick[s]
           /\ UNCHANGED <<facts, caller, request, ep, crm, live, history>>
<1>1. TypeOK /\ TickKnows(t) /\ prov \in Row /\ tick[t].pc \in {"fail", "conflict"} /\ EndTick(t)
      /\ UNCHANGED <<facts, caller, request, ep, crm, live, history>>
    BY DEF ProvisioningInv, HandleFailure, TypeOK
<1>2. tick[t].row.status \in Working
    BY <1>1 DEF TickKnows
<1>3. \/ prov' = prov
      \/ /\ prov.status = tick[t].row.status /\ prov'.ids = prov.ids
         /\ prov'.status = prov.status
            \/ (prov'.status = "FAILED" /\ prov'.failedStep = StepOf[tick[t].row.status])
    <2>1. CASE Unmoved(tick[t].row)
        <3>1. prov.status = tick[t].row.status
            BY <2>1 DEF Unmoved
        <3>2. \E n \in {tick[t].row.attempts + 1} :
              \/ prov' = [prov EXCEPT !.status = "FAILED", !.failedStep = StepOf[tick[t].row.status],
                                      !.attempts = n, !.due = TRUE]
              \/ prov' = [prov EXCEPT !.failedStep = StepOf[tick[t].row.status], !.attempts = n, !.due = FALSE]
            BY <2>1 DEF HandleFailure, Failed
        <3> QED BY <1>1, <3>1, <3>2 DEF Row
    <2>2. CASE ~Unmoved(tick[t].row)
        BY <2>2 DEF HandleFailure
    <2> QED BY <2>1, <2>2
<1> QED BY <1>1, <1>2, <1>3, IdleAt

LEMMA RetryAt ==
    ASSUME ProvisioningInv, NEW r \in Requests, Retry(r)
    PROVE  LET rec == request[r].row IN
           /\ request[r].pc = "write" /\ rec \in Row /\ rec.status # "ABSENT"
           /\ prov'.status = (IF rec.status = "FAILED" THEN ResumeStatus(rec.failedStep) ELSE rec.status)
           /\ prov'.status \in Statuses \ {"ABSENT", "FAILED"}
           /\ prov'.ids = prov.ids
<1>1. TypeOK /\ RequestKnows(r) /\ request[r].pc = "write"
    BY DEF ProvisioningInv, Retry
<1>2. prov \in Row /\ request[r].row \in Row /\ request[r].row.status # "ABSENT"
    BY <1>1 DEF TypeOK, RequestType, RequestKnows
<1> DEFINE rec == request[r].row
           status == IF rec.status = "FAILED" THEN ResumeStatus(rec.failedStep) ELSE rec.status
<1>3. prov' = [prov EXCEPT !.status = status, !.attempts = 0, !.due = TRUE, !.failedStep = NoStep]
    BY DEF Retry
<1>4. status \in Statuses \ {"ABSENT", "FAILED"}
    BY <1>2, Resume DEF Row, Statuses, Working
<1> HIDE DEF status
<1>5. prov'.status = status /\ prov'.ids = prov.ids
    BY <1>2, <1>3 DEF Row
<1> QED BY <1>1, <1>2, <1>4, <1>5 DEF status

LEMMA ResetAt ==
    ASSUME ProvisioningInv, NEW r \in Requests, Reset(r)
    PROVE  request[r].pc = "reset" /\ prov'.status \in {"KEY_CREATED", "PENDING"} /\ prov'.ids = NoIds
<1>1. prov \in Row
    BY DEF ProvisioningInv, TypeOK
<1>2. prov' = Restarted(request[r].row) /\ request[r].pc = "reset"
    BY DEF Reset
<1> QED BY <1>1, <1>2 DEF Restarted, Row

\* An admin's write tells the ticks no more than that the row is stale.
LEMMA WrittenAt ==
    ASSUME TypeOK, NEW r \in Requests, Done(r), MarkStale
    PROVE  /\ request'[r].pc = "done" /\ \A q \in Requests : q # r => request'[q] = request[q]
           /\ \A t \in Ticks : tick'[t].pc = tick[t].pc /\ tick'[t].row = tick[t].row /\ tick'[t].got = tick[t].got
<1>1. request'[r] = [NewRequest EXCEPT !.pc = "done"] /\ \A q \in Requests : q # r => request'[q] = request[q]
    BY DEF TypeOK, Done
<1>2. request'[r].pc = "done"
    BY <1>1 DEF NewRequest
<1>3. \A t \in Ticks : tick[t] \in TickType /\ tick'[t] = [tick[t] EXCEPT !.stale = tick[t].pc # "idle"]
    BY DEF TypeOK, MarkStale
<1>4. \A t \in Ticks : tick'[t].pc = tick[t].pc /\ tick'[t].row = tick[t].row /\ tick'[t].got = tick[t].got
    BY <1>3 DEF TickType
<1> QED BY <1>1, <1>2, <1>4

-----------------------------------------------------------------------------
(* The trigger *)

\* Each side looks after it has stored its fact; only the side that found
\* both creates the record; and nothing works before there is one.
TriggerInv ==
    /\ prov.status # "ABSENT" => facts = Callers
    /\ (\A c \in Callers : caller[c] = "done") => prov.status # "ABSENT"
    /\ \A c \in Callers : caller[c] # "idle" => c \in facts
    /\ \A c \in Callers : caller[c] = "create" => facts = Callers
    /\ prov.status = "ABSENT" =>
          (\A t \in Ticks : tick[t].pc = "idle") /\ \A r \in Requests : request[r].pc = "new"

LEMMA InitTrigger == Init => TriggerInv
    BY ProvisioningAssumption DEF Init, TriggerInv, Absent, NewRequest, IdleTick

LEMMA TriggerCaller ==
    ASSUME ProvisioningInv, TriggerInv, NEW c \in Callers,
           StoreFact(c) \/ CheckTrigger(c) \/ CreateRecord(c)
    PROVE  TriggerInv'
<1>1. facts \subseteq Callers /\ caller \in [Callers -> CallerPCs] /\ UNCHANGED <<tick, request>>
    BY DEF ProvisioningInv, TypeOK, StoreFact, CheckTrigger, CreateRecord
<1>2. CASE StoreFact(c)
    <2>1. /\ facts' = facts \cup {c} /\ caller'[c] = "check" /\ prov' = prov
          /\ \A d \in Callers : d # c => caller'[d] = caller[d]
        BY <1>1, <1>2 DEF StoreFact
    <2> QED BY <1>1, <2>1 DEF TriggerInv
<1>3. CASE CheckTrigger(c)
    <2>1. /\ facts' = facts /\ prov' = prov /\ caller[c] = "check"
          /\ caller'[c] = (IF Eligible THEN "create" ELSE "done")
          /\ \A d \in Callers : d # c => caller'[d] = caller[d]
        BY <1>1, <1>3 DEF CheckTrigger
    <2>2. ASSUME \A d \in Callers : caller'[d] = "done" PROVE prov.status # "ABSENT"
        <3>1. \A d \in Callers : d \in facts
            BY <2>1, <2>2 DEF TriggerInv
        <3>2. facts = Callers
            BY <1>1, <3>1
        <3> QED BY <2>1, <2>2, <3>2 DEF Eligible
    <2> QED BY <1>1, <2>1, <2>2 DEF TriggerInv, Eligible
<1>4. CASE CreateRecord(c)
    <2>1. /\ facts' = facts /\ caller[c] = "create" /\ caller'[c] = "done"
          /\ \A d \in Callers : d # c => caller'[d] = caller[d]
          /\ prov' = IF prov.status = "ABSENT" THEN [Absent EXCEPT !.status = "PENDING"] ELSE prov
        BY <1>1, <1>4 DEF CreateRecord
    <2>2. prov'.status # "ABSENT"
        BY <2>1 DEF Absent
    <2> QED BY <1>1, <2>1, <2>2 DEF TriggerInv
<1> QED BY <1>2, <1>3, <1>4

\* No step of the worker or of an admin creates the record or removes it.
LEMMA TriggerElsewhere ==
    ASSUME TriggerInv, UNCHANGED <<facts, caller>>,
           prov'.status = "ABSENT" <=> prov.status = "ABSENT",
           prov'.status = "ABSENT" =>
             (\A t \in Ticks : tick'[t].pc = "idle") /\ \A r \in Requests : request'[r].pc = "new"
    PROVE  TriggerInv'
    BY DEF TriggerInv

LEMMA TriggerTick ==
    ASSUME ProvisioningInv, TriggerInv, NEW t \in Ticks, StartTick(t) \/ TickStep(t)
    PROVE  TriggerInv'
<1>1. UNCHANGED <<facts, caller, request>>
    BY DEF StartTick, TickStep, ReuseKey, CreateKey, FindAccount, CreateAccount, CapReached,
           RegisterAccount, ArchiveHedges, CreateHedge, Advance, FailStep, HandleFailure
<1>2. prov.status # "ABSENT"
    <2>1. StartTick(t) => prov.status # "ABSENT"
        BY DEF StartTick, Due, Working
    <2>2. TickStep(t) => tick[t].pc # "idle"
        BY DEF TickStep, ReuseKey, CreateKey, FindAccount, CreateAccount, CapReached, AtStep,
               RegisterAccount, ArchiveHedges, CreateHedge, Advance, FailStep, HandleFailure
    <2> QED BY <2>1, <2>2 DEF TriggerInv
<1>3. prov'.status # "ABSENT"
    <2>1. CASE Advance(t)
        <3>1. prov'.status = NextStatus[tick[t].row.status] /\ tick[t].row.status \in Working
            BY <2>1, AdvanceAt
        <3> QED BY <3>1, Tables
    <2>2. CASE HandleFailure(t)
        <3>1. prov' = prov \/ prov'.status = prov.status \/ prov'.status = "FAILED"
            BY <2>2, FailureAt
        <3> QED BY <1>2, <3>1
    <2>3. CASE ~(Advance(t) \/ HandleFailure(t))
        <3>1. prov' = prov
            BY <2>3 DEF StartTick, TickStep, ReuseKey, CreateKey, FindAccount, CreateAccount, CapReached,
                   RegisterAccount, ArchiveHedges, CreateHedge, FailStep
        <3> QED BY <1>2, <3>1
    <2> QED BY <2>1, <2>2, <2>3
<1> QED BY <1>1, <1>2, <1>3, TriggerElsewhere

LEMMA TriggerRequest ==
    ASSUME ProvisioningInv, TriggerInv, NEW r \in Requests,
           ReadForRetry(r) \/ ReadForReprovision(r) \/ RequestStep(r)
    PROVE  TriggerInv'
<1>1. UNCHANGED <<facts, caller>>
    BY DEF ReadForRetry, ReadForReprovision, RequestStep, Retry, DeleteAccount, ArchiveAll, Reset
<1>2. prov.status # "ABSENT"
    <2>1. request[r].pc # "new" \/ prov.status # "ABSENT"
        BY DEF ReadForRetry, ReadForReprovision, RequestStep, Retry, DeleteAccount, ArchiveAll, Reset
    <2> QED BY <2>1 DEF TriggerInv
<1>3. prov'.status # "ABSENT"
    <2>1. CASE Retry(r)
        BY <2>1, RetryAt
    <2>2. CASE Reset(r)
        BY <2>2, ResetAt
    <2>3. CASE ~(Retry(r) \/ Reset(r))
        <3>1. prov' = prov
            BY <2>3 DEF ReadForRetry, ReadForReprovision, RequestStep, DeleteAccount, ArchiveAll
        <3> QED BY <1>2, <3>1
    <2> QED BY <2>1, <2>2, <2>3
<1> QED BY <1>1, <1>2, <1>3, TriggerElsewhere

LEMMA TriggerCrash == TriggerInv /\ Crash => TriggerInv'
<1> SUFFICES ASSUME TriggerInv, Crash PROVE TriggerInv'
    OBVIOUS
<1>1. /\ UNCHANGED <<prov, facts>>
      /\ \A c \in Callers : caller'[c] = (IF caller[c] = "done" THEN "done" ELSE "idle")
      /\ \A t \in Ticks : tick'[t].pc = "idle"
      /\ \A r \in Requests : request[r].pc = "new" => request'[r].pc = "new"
    BY DEF Crash, IdleTick
<1> QED BY <1>1 DEF TriggerInv

LEMMA TriggerNext ==
    ASSUME ProvisioningInv, TriggerInv, [Next]_vars
    PROVE  TriggerInv'
<1>1. CASE UNCHANGED vars
    BY <1>1 DEF vars, TriggerInv
<1>2. CASE BackoffEnds
    <2>1. prov'.status = prov.status /\ UNCHANGED <<facts, caller, tick, request>>
        BY <1>2 DEF BackoffEnds, ProvisioningInv, TypeOK, Row
    <2> QED BY <2>1 DEF TriggerInv
<1> QED BY <1>1, <1>2, TriggerCaller, TriggerTick, TriggerRequest, TriggerCrash DEF Next

\* maybeTriggerProvisioning: the record appears once payment and onboarding
\* are both stored and never before, although each side looks only once, in
\* whatever order the two sides, the worker, the admins and crashes come.
THEOREM TriggersInEitherOrder == Spec => []TriggeredInEitherOrder
<1>1. Init => ProvisioningInv /\ TriggerInv
    BY InitInv, InitTrigger
<1>2. ProvisioningInv /\ TriggerInv /\ [Next]_vars => (ProvisioningInv /\ TriggerInv)'
    BY StepInv, TriggerNext
<1>3. TriggerInv => TriggeredInEitherOrder
    BY DEF TriggerInv, TriggeredInEitherOrder
<1> QED BY <1>1, <1>2, <1>3, PTL DEF Spec

-----------------------------------------------------------------------------
(* An account is registered once *)

\* A tick that is about to register an account found none, and the flag of
\* the cron keeps every other tick away meanwhile.
RegisterInv ==
    /\ \A a, b \in accounts : a.kind = b.kind => a = b
    /\ \A t \in Ticks : tick[t].pc = "create" => OfKind(KindOf[tick[t].row.status]) = {}

LEMMA RegisterElsewhere ==
    ASSUME RegisterInv, accounts' \subseteq accounts,
           \A t \in Ticks : tick'[t].pc = "create" =>
               tick[t].pc = "create" /\ tick'[t].row = tick[t].row
    PROVE  RegisterInv'
    BY DEF RegisterInv, OfKind

LEMMA RegisterTick ==
    ASSUME MaxLost = 0, ProvisioningInv, RegisterInv, NEW t \in Ticks, StartTick(t) \/ TickStep(t)
    PROVE  RegisterInv'
<1>1. TypeOK /\ "create" \in TickPCs /\ "fail" \in TickPCs /\ "advance" \in TickPCs
      /\ "register" \in TickPCs /\ "conflict" \in TickPCs /\ "createHedge" \in TickPCs
    BY DEF ProvisioningInv, TickPCs
<1>2. CASE StartTick(t)
    <2>1. tick'[t].pc = "step" /\ (\A s \in Ticks : s # t => tick'[s] = tick[s]) /\ accounts' = accounts
        BY <1>1, <1>2, StartAt DEF ep
    <2> QED BY <2>1, RegisterElsewhere
<1>3. CASE Advance(t) \/ HandleFailure(t)
    <2>1. /\ tick'[t].pc \in {"step", "idle", "fail"} /\ \A s \in Ticks : s # t => tick'[s] = tick[s]
          /\ accounts' = accounts
        BY <1>3, AdvanceAt, FailureAt DEF ep
    <2> QED BY <2>1, RegisterElsewhere
<1>4. CASE ReuseKey(t) \/ CapReached(t) \/ RegisterAccount(t) \/ ArchiveHedges(t) \/ CreateHedge(t) \/ FailStep(t)
    <2>1. PICK pc \in {"advance", "conflict", "createHedge", "fail"} : Goto(t, pc)
        BY <1>4 DEF ReuseKey, CapReached, RegisterAccount, ArchiveHedges, CreateHedge, FailStep
    <2>2. tick'[t].pc # "create" /\ \A s \in Ticks : s # t => tick'[s] = tick[s]
        BY <1>1, <2>1, GotoFacts
    <2>3. accounts' = accounts
        BY <1>4 DEF ReuseKey, CapReached, RegisterAccount, ArchiveHedges, CreateHedge, FailStep, ep
    <2> QED BY <2>2, <2>3, RegisterElsewhere
<1>5. CASE CreateKey(t)
    <2>1. PICK n \in 0 .. (MaxLost - lost), answered \in BOOLEAN :
            /\ keys' = keys + n + (IF answered THEN 1 ELSE 0)
            /\ tick' = [tick EXCEPT ![t].pc = IF answered THEN "advance" ELSE "fail",
                                    ![t].got = IF answered THEN keys' ELSE 0]
        BY <1>5 DEF CreateKey
    <2> DEFINE pc == IF answered THEN "advance" ELSE "fail"
               got == IF answered THEN keys' ELSE 0
    <2>2. pc \in TickPCs /\ pc # "create" /\ tick' = [tick EXCEPT ![t].pc = pc, ![t].got = got]
        BY <2>1 DEF TickPCs
    <2>3. got \in Nat
        BY <2>1, <1>1, ProvisioningAssumption DEF TypeOK
    <2> HIDE DEF pc, got
    <2>4. tick'[t].pc # "create" /\ \A s \in Ticks : s # t => tick'[s] = tick[s]
        BY <1>1, <2>2, <2>3, GotFacts
    <2>5. accounts' = accounts
        BY <1>5 DEF CreateKey
    <2> QED BY <2>4, <2>5, RegisterElsewhere
<1>6. CASE FindAccount(t)
    <2> DEFINE found == OfKind(KindOf[tick[t].row.status])
    <2>1. accounts' = accounts
        BY <1>6 DEF FindAccount, ep
    <2>2. CASE found = {} /\ Goto(t, "create")
        <3>1. /\ tick'[t].pc = "create" /\ tick'[t].row = tick[t].row
              /\ \A s \in Ticks : s # t => tick'[s] = tick[s]
            BY <1>1, <2>2, GotoFacts
        <3> QED BY <2>1, <2>2, <3>1 DEF RegisterInv, OfKind
    <2>3. CASE \E a \in found : tick' = [tick EXCEPT ![t].pc = "register", ![t].got = a.id]
        <3>1. PICK a \in found : tick' = [tick EXCEPT ![t].pc = "register", ![t].got = a.id]
            BY <2>3
        <3>2. a.id \in Nat
            BY <1>1 DEF OfKind, TypeOK
        <3>3. tick'[t].pc = "register" /\ \A s \in Ticks : s # t => tick'[s] = tick[s]
            BY <1>1, <3>1, <3>2, GotFacts
        <3> QED BY <2>1, <3>3, RegisterElsewhere
    <2> QED BY <1>6, <2>2, <2>3 DEF FindAccount, Listed
<1>7. CASE CreateAccount(t)
    <2> DEFINE kind == KindOf[tick[t].row.status]
    <2>1. /\ OfKind(kind) = {} /\ tick[t].pc = "create" /\ lost \in Nat /\ issued \in Nat
        BY <1>1, <1>7 DEF CreateAccount, RegisterInv, TypeOK
    <2> HIDE DEF kind
    <2>2. PICK n \in 0 .. (MaxLost - lost), answered \in BOOLEAN :
            LET last == issued + n + (IF answered THEN 1 ELSE 0) IN
            /\ accounts' = accounts \cup {[id |-> i, kind |-> kind] : i \in (issued + 1) .. last}
            /\ tick' = [tick EXCEPT ![t].pc = IF answered THEN "register" ELSE "fail",
                                    ![t].got = IF answered THEN last ELSE 0]
        BY <1>7 DEF CreateAccount, kind
    <2>3. n = 0
        BY <2>1, <2>2
    <2>4. \A i \in (issued + 1) .. (issued + n + (IF answered THEN 1 ELSE 0)) : i = issued + 1
        BY <2>1, <2>3
    <2>5. \A a \in accounts' : a \in accounts \/ a = [id |-> issued + 1, kind |-> kind]
        BY <2>2, <2>4
    <2>6. \A a \in accounts : a.kind # kind
        BY <2>1 DEF OfKind
    <2>7. \A a, b \in accounts' : a.kind = b.kind => a = b
        BY <2>5, <2>6 DEF RegisterInv
    <2>8. \A s \in Ticks : tick'[s].pc # "create"
        <3> DEFINE pc == IF answered THEN "register" ELSE "fail"
                   got == IF answered THEN issued + n + (IF answered THEN 1 ELSE 0) ELSE 0
        <3>1. pc \in TickPCs /\ pc # "create" /\ tick' = [tick EXCEPT ![t].pc = pc, ![t].got = got]
            BY <2>2 DEF TickPCs
        <3>1a. got \in Nat
            BY <2>1, <2>3
        <3> HIDE DEF pc, got
        <3>2. tick'[t].pc # "create" /\ \A s \in Ticks : s # t => tick'[s] = tick[s]
            BY <1>1, <3>1, <3>1a, GotFacts
        <3>3. \A s \in Ticks : s # t => tick[s].pc = "idle"
            BY <2>1 DEF ProvisioningInv, OneTick
        <3> QED BY <3>2, <3>3
    <2> QED BY <2>7, <2>8 DEF RegisterInv
<1> QED BY <1>2, <1>3, <1>4, <1>5, <1>6, <1>7 DEF TickStep

LEMMA RegisterRequest ==
    ASSUME ProvisioningInv, RegisterInv, NEW r \in Requests,
           ReadForRetry(r) \/ ReadForReprovision(r) \/ RequestStep(r)
    PROVE  RegisterInv'
<1>1. accounts' \subseteq accounts
    BY DEF ReadForRetry, ReadForReprovision, RequestStep, Retry, DeleteAccount, ArchiveAll, Reset, ep
<1>2. \A t \in Ticks : tick'[t].pc = tick[t].pc /\ tick'[t].row = tick[t].row
    <2>1. CASE Retry(r) \/ Reset(r)
        <3>1. TypeOK /\ Done(r) /\ MarkStale
            BY <2>1 DEF ProvisioningInv, Retry, Reset
        <3> QED BY <3>1, WrittenAt
    <2>2. CASE ~(Retry(r) \/ Reset(r))
        BY <2>2 DEF ReadForRetry, ReadForReprovision, RequestStep, DeleteAccount, ArchiveAll
    <2> QED BY <2>1, <2>2
<1> QED BY <1>1, <1>2, RegisterElsewhere

\* ensureEpAccount registers an account of a kind once, through retries,
\* reprovisions, crashes between the registration and its record, and any
\* number of ticks and requests under way, unless EasierProp's answer to
\* POST /api/accounts is lost: the client then sends the request again.
THEOREM AccountsAreRegisteredOnce ==
    ASSUME MaxLost = 0
    PROVE  Spec => []RegisteredOnce
<1>1. Init => ProvisioningInv /\ RegisterInv
    BY InitInv DEF Init, RegisterInv, IdleTick
<1>2. ProvisioningInv /\ RegisterInv /\ [Next]_vars => (ProvisioningInv /\ RegisterInv)'
    <2> SUFFICES ASSUME ProvisioningInv, RegisterInv, [Next]_vars PROVE RegisterInv'
        BY StepInv
    <2>1. CASE UNCHANGED vars
        BY <2>1, RegisterElsewhere DEF vars, ep
    <2>2. ASSUME NEW c \in Callers, StoreFact(c) \/ CheckTrigger(c) \/ CreateRecord(c)
          PROVE  RegisterInv'
        <3>1. UNCHANGED <<tick, accounts>>
            BY <2>2 DEF StoreFact, CheckTrigger, CreateRecord, ep
        <3> QED BY <3>1, RegisterElsewhere
    <2>3. CASE BackoffEnds
        BY <2>3, RegisterElsewhere DEF BackoffEnds, ep
    <2>4. CASE Crash
        <3>1. accounts' = accounts /\ \A t \in Ticks : tick'[t].pc = "idle"
            BY <2>4 DEF Crash, IdleTick, ep
        <3> QED BY <3>1, RegisterElsewhere
    <2> QED BY <2>1, <2>2, <2>3, <2>4, RegisterTick, RegisterRequest DEF Next
<1>3. RegisterInv => RegisteredOnce
    <2> SUFFICES ASSUME RegisterInv, NEW k \in Kinds PROVE Cardinality(OfKind(k)) <= 1
        BY DEF RegisteredOnce
    <2>1. CASE OfKind(k) = {}
        BY <2>1, FS_EmptySet
    <2>2. CASE OfKind(k) # {}
        <3>1. PICK a \in OfKind(k) : TRUE
            BY <2>2
        <3>2. OfKind(k) = {a}
            BY <3>1 DEF OfKind, RegisterInv
        <3>3. Cardinality(OfKind(k)) = 1
            BY <3>2, FS_Singleton
        <3> QED BY <3>3
    <2> QED BY <2>1, <2>2
<1> QED BY <1>1, <1>2, <1>3, PTL DEF Spec

-----------------------------------------------------------------------------
(* One activity at a time *)

RequestActive(r) == request[r].pc \notin {"new", "done"}
Registered(kind, id) == \E a \in OfKind(kind) : a.id = id

OneActivity ==
    /\ \A t \in Ticks, r \in Requests : tick[t].pc = "idle" \/ ~RequestActive(r)
    /\ \A q, r \in Requests : RequestActive(q) /\ RequestActive(r) => q = r

\* The row a tick holds is the record, unless the update went through and
\* what came after it failed.
TickFollows(t) ==
    LET rec == tick[t].row got == tick[t].got pc == tick[t].pc IN
    pc # "idle" =>
        /\ rec = prov \/ (pc = "fail" /\ prov.status # rec.status)
        /\ prov.due
        /\ pc = "register" \/ (pc = "advance" /\ rec.status \in DOMAIN KindOf) =>
               got # 0 /\ (~cleaning => Registered(KindOf[rec.status], got))
        /\ pc = "advance" /\ rec.status = "BROKER_ACCOUNT_CREATED" => live = <<rec.ids>>

RequestFollows(r) ==
    RequestActive(r) =>
        /\ request[r].row.status = prov.status /\ request[r].row.failedStep = prov.failedStep
        /\ request[r].pc # "write" => cleaning

IdsAreIssued == \A a \in accounts : a.id # 0
IdsAreRegistered == ~cleaning => \A k \in Kinds : prov.ids[k] # 0 => Registered(k, prov.ids[k])

AloneInv ==
    /\ OneActivity /\ IdsAreIssued /\ IdsAreRegistered /\ ResumesWithItsInputs /\ CompletedMeansLive
    /\ \A t \in Ticks : TickFollows(t)
    /\ \A r \in Requests : RequestFollows(r)

LEMMA InitAlone == Init => AloneInv
<1> SUFFICES ASSUME Init PROVE AloneInv
    OBVIOUS
<1>1. /\ prov = Absent /\ accounts = {} /\ \A t \in Ticks : tick[t].pc = "idle"
      /\ \A r \in Requests : request[r].pc = "new"
    BY DEF Init, IdleTick, NewRequest
<1>2. prov.status = "ABSENT" /\ \A k \in Kinds : prov.ids[k] = 0
    BY <1>1 DEF Absent, NoIds
<1>3. ResumesWithItsInputs /\ CompletedMeansLive /\ IdsAreRegistered /\ IdsAreIssued
    BY <1>1, <1>2 DEF ResumesWithItsInputs, CompletedMeansLive, IdsAreRegistered, IdsAreIssued
<1> QED BY <1>1, <1>3 DEF AloneInv, OneActivity, RequestActive, TickFollows, RequestFollows

\* With a concurrency of one an activity begins when none is under way.
LEMMA NoneActive ==
    ASSUME Concurrency = 1, ProvisioningInv, OneActivity, Free
    PROVE  /\ \A t \in Ticks : tick[t].pc = "idle"
           /\ \A r \in Requests : ~RequestActive(r)
<1>1. IsFiniteSet(Active)
    <2>1. CASE \E t \in Ticks : tick[t].pc # "idle"
        <3>1. PICK t \in Ticks : tick[t].pc # "idle"
            BY <2>1
        <3>2. Active = {t}
            BY <3>1 DEF Active, OneActivity, RequestActive, ProvisioningInv, OneTick
        <3> QED BY <3>2, FS_Singleton
    <2>2. CASE (\A t \in Ticks : tick[t].pc = "idle") /\ \E r \in Requests : RequestActive(r)
        <3>1. PICK r \in Requests : RequestActive(r)
            BY <2>2
        <3>2. Active = {r}
            BY <2>2, <3>1 DEF Active, OneActivity, RequestActive
        <3> QED BY <3>2, FS_Singleton
    <2>3. CASE (\A t \in Ticks : tick[t].pc = "idle") /\ \A r \in Requests : ~RequestActive(r)
        <3>1. Active = {}
            BY <2>3 DEF Active, RequestActive
        <3> QED BY <3>1, FS_EmptySet
    <2> QED BY <2>1, <2>2, <2>3
<1>2. Cardinality(Active) \in Nat /\ Cardinality(Active) < 1
    BY <1>1, FS_CardinalityType DEF Free
<1>3. Active = {}
    BY <1>1, <1>2, FS_EmptySet
<1> QED BY <1>3 DEF Active, RequestActive

LEMMA ResumeOf == ASSUME NEW s \in Working PROVE ResumeStatus(StepOf[s]) = s
<1>1. StepOf[s] \in Steps /\ StepOf[s] # NoStep
    BY DEF Working, StepOf, Steps, NoStep
<1>2. \A u \in Working : StepOf[u] = StepOf[s] => u = s
    BY DEF Working, StepOf
<1>3. ResumeStatus(StepOf[s]) \in Working /\ StepOf[ResumeStatus(StepOf[s])] = StepOf[s]
    <2>1. ResumeStatus(StepOf[s]) = CHOOSE u \in Working : StepOf[u] = StepOf[s]
        BY <1>1 DEF ResumeStatus
    <2> QED BY <2>1
<1> QED BY <1>2, <1>3

\* A step of a tick that leaves the record alone.
LEMMA AloneTick ==
    ASSUME ProvisioningInv, AloneInv, NEW t \in Ticks, tick[t].pc # "idle", tick'[t].pc # "idle",
           \A s \in Ticks : s # t => tick'[s] = tick[s],
           UNCHANGED <<prov, request, cleaning>>, accounts \subseteq accounts', IdsAreIssued',
           live' = live \/ prov.status # "COMPLETED", TickFollows(t)'
    PROVE  AloneInv'
<1>1. \A s \in Ticks : s # t => tick'[s].pc = "idle"
    BY DEF ProvisioningInv, OneTick
<1>2. OneActivity'
    BY <1>1 DEF AloneInv, OneActivity, RequestActive
<1>3. \A s \in Ticks : TickFollows(s)'
    BY <1>1 DEF TickFollows
<1>4. \A r \in Requests : RequestFollows(r)'
    BY DEF AloneInv, RequestFollows, RequestActive
<1>5. IdsAreRegistered'
    BY DEF AloneInv, IdsAreRegistered, Registered, OfKind
<1>6. ResumesWithItsInputs'
    BY DEF AloneInv, ResumesWithItsInputs
<1>7. CompletedMeansLive'
    BY DEF AloneInv, CompletedMeansLive, OfKind
<1> QED BY <1>2, <1>3, <1>4, <1>5, <1>6, <1>7 DEF AloneInv

LEMMA AloneQuiet ==
    ASSUME ProvisioningInv, AloneInv, NEW t \in Ticks,
           \/ ReuseKey(t) \/ CreateKey(t) \/ FindAccount(t) \/ CreateAccount(t) \/ CapReached(t)
           \/ RegisterAccount(t) \/ ArchiveHedges(t) \/ CreateHedge(t) \/ FailStep(t)
    PROVE  AloneInv'
<1>1. TypeOK /\ TickKnows(t) /\ TickFollows(t) /\ IdsAreIssued
      /\ "create" \in TickPCs /\ "fail" \in TickPCs /\ "advance" \in TickPCs
      /\ "register" \in TickPCs /\ "conflict" \in TickPCs /\ "createHedge" \in TickPCs
    BY DEF ProvisioningInv, AloneInv, TickPCs
<1>2. /\ UNCHANGED <<prov, request, cleaning>> /\ tick[t].pc \notin {"idle", "fail"}
    BY DEF ReuseKey, CreateKey, FindAccount, CreateAccount, CapReached, RegisterAccount, ArchiveHedges,
           CreateHedge, FailStep, history, AtStep
<1>3. tick[t].row = prov /\ prov.due
    BY <1>1, <1>2 DEF TickFollows
<1>4. CASE ReuseKey(t) \/ CapReached(t) \/ FailStep(t)
    <2>1. PICK pc \in {"advance", "conflict", "fail"} :
              Goto(t, pc) /\ (pc = "advance" => tick[t].row.status = "PENDING")
        BY <1>4 DEF ReuseKey, CapReached, FailStep, AtStep
    <2>2. /\ tick'[t].pc = pc /\ tick'[t].row = tick[t].row
          /\ \A s \in Ticks : s # t => tick'[s] = tick[s]
        BY <1>1, <2>1, GotoFacts
    <2>3. accounts' = accounts /\ live' = live
        BY <1>4 DEF ReuseKey, CapReached, FailStep, ep
    <2>4. TickFollows(t)'
        BY <1>2, <1>3, <2>1, <2>2 DEF TickFollows, KindOf
    <2> QED BY <1>1, <1>2, <2>2, <2>3, <2>4, AloneTick DEF IdsAreIssued
<1>5. CASE CreateKey(t)
    <2>1. PICK pc \in {"advance", "fail"}, got \in Nat : tick' = [tick EXCEPT ![t].pc = pc, ![t].got = got]
        <3>1. PICK n \in 0 .. (MaxLost - lost), answered \in BOOLEAN :
                /\ keys' = keys + n + (IF answered THEN 1 ELSE 0)
                /\ tick' = [tick EXCEPT ![t].pc = IF answered THEN "advance" ELSE "fail",
                                        ![t].got = IF answered THEN keys' ELSE 0]
            BY <1>5 DEF CreateKey
        <3>2. keys' \in Nat
            BY <3>1, <1>1, ProvisioningAssumption DEF TypeOK
        <3> QED BY <3>1, <3>2
    <2>2. /\ tick'[t].pc = pc /\ tick'[t].row = tick[t].row
          /\ \A s \in Ticks : s # t => tick'[s] = tick[s]
        BY <1>1, <2>1, GotFacts
    <2>3. accounts' = accounts /\ live' = live /\ tick[t].row.status = "PENDING"
        BY <1>5 DEF CreateKey, AtStep
    <2>4. TickFollows(t)'
        BY <1>2, <1>3, <2>1, <2>2, <2>3 DEF TickFollows, KindOf
    <2> QED BY <1>1, <1>2, <2>2, <2>3, <2>4, AloneTick DEF IdsAreIssued
<1>6. CASE FindAccount(t)
    <2> DEFINE found == OfKind(KindOf[tick[t].row.status])
    <2>1. accounts' = accounts /\ live' = live
        BY <1>6 DEF FindAccount, ep
    <2>2. /\ tick'[t].row = tick[t].row /\ \A s \in Ticks : s # t => tick'[s] = tick[s]
          /\ \/ tick'[t].pc = "create"
             \/ tick'[t].pc = "register" /\ \E a \in found : tick'[t].got = a.id
        <3>1. CASE Goto(t, "create")
            BY <1>1, <3>1, GotoFacts
        <3>2. CASE \E a \in found : tick' = [tick EXCEPT ![t].pc = "register", ![t].got = a.id]
            <4>1. PICK a \in found : tick' = [tick EXCEPT ![t].pc = "register", ![t].got = a.id]
                BY <3>2
            <4>2. PICK g \in Nat : g = a.id
                BY <1>1 DEF OfKind, TypeOK
            <4>3. tick' = [tick EXCEPT ![t].pc = "register", ![t].got = g]
                BY <4>1, <4>2
            <4>4. /\ tick'[t].pc = "register" /\ tick'[t].row = tick[t].row /\ tick'[t].got = g
                  /\ \A s \in Ticks : s # t => tick'[s] = tick[s]
                <5>1. TypeOK /\ "register" \in TickPCs
                    BY <1>1
                <5>2. tick'[t].pc = "register"
                    BY <5>1, <4>3, GotFacts
                <5>3. tick'[t].row = tick[t].row
                    BY <5>1, <4>3, GotFacts
                <5>4. tick'[t].got = g
                    <6>1. tick[t] \in TickType
                        BY <5>1 DEF TypeOK
                    <6>2. tick' = [tick EXCEPT ![t] = [tick[t] EXCEPT !.pc = "register", !.got = g]]
                        BY <4>3
                    <6> QED BY <5>1, <6>1, <6>2 DEF TypeOK, TickType
                <5>5. \A s \in Ticks : s # t => tick'[s] = tick[s]
                    BY <5>1, <4>3, GotFacts
                <5> QED BY <5>2, <5>3, <5>4, <5>5
            <4> QED BY <4>2, <4>4
        <3> QED BY <1>6, <3>1, <3>2 DEF FindAccount, Listed
    <2>3. tick'[t].pc = "register" =>
              /\ tick'[t].got # 0
              /\ \E a \in accounts' : a.kind = KindOf[tick'[t].row.status] /\ a.id = tick'[t].got
        BY <1>1, <2>1, <2>2 DEF IdsAreIssued, OfKind
    <2>4. TickFollows(t)'
        BY <1>2, <1>3, <2>2, <2>3 DEF TickFollows, Registered, OfKind
    <2> QED BY <1>1, <1>2, <2>1, <2>2, <2>4, AloneTick DEF IdsAreIssued
<1>7. CASE CreateAccount(t)
    <2> DEFINE kind0 == KindOf[tick[t].row.status]
    <2>0. kind0 \in Kinds
        BY <1>1, <1>2, <1>7, Tables DEF CreateAccount, TickKnows
    <2> HIDE DEF kind0
    <2>1. PICK kind \in Kinds : kind = kind0
        BY <2>0
    <2>2. lost \in Nat /\ issued \in Nat
        BY <1>1 DEF TypeOK
    <2>3. PICK n \in 0 .. (MaxLost - lost), answered \in BOOLEAN :
            LET last == issued + n + (IF answered THEN 1 ELSE 0) IN
            /\ accounts' = accounts \cup {[id |-> i, kind |-> kind0] : i \in (issued + 1) .. last}
            /\ tick' = [tick EXCEPT ![t].pc = IF answered THEN "register" ELSE "fail",
                                    ![t].got = IF answered THEN last ELSE 0]
        BY <1>7 DEF CreateAccount, kind0
    <2>4. PICK last \in Nat : last = issued + n + (IF answered THEN 1 ELSE 0)
        BY <2>2, ProvisioningAssumption
    <2>5. accounts' = accounts \cup {[id |-> i, kind |-> kind] : i \in (issued + 1) .. last}
        BY <2>1, <2>3, <2>4
    <2>6. IdsAreIssued' /\ accounts \subseteq accounts'
        <3>1. \A i \in (issued + 1) .. last : i # 0
            BY <2>2, <2>4
        <3>2. \A a \in accounts' : a \in accounts \/ \E i \in (issued + 1) .. last : a = [id |-> i, kind |-> kind]
            BY <2>5
        <3> QED BY <1>1, <2>5, <3>1, <3>2 DEF IdsAreIssued
    <2> DEFINE pc == IF answered THEN "register" ELSE "fail"
               got == IF answered THEN last ELSE 0
    <2>7. /\ pc \in TickPCs /\ pc \in {"register", "fail"} /\ got \in Nat
          /\ tick' = [tick EXCEPT ![t].pc = pc, ![t].got = got]
        BY <2>3, <2>4 DEF TickPCs
    <2>8. pc = "register" => answered /\ got = last
        OBVIOUS
    <2> HIDE DEF pc, got
    <2>9. /\ tick'[t].pc = pc /\ tick'[t].row = tick[t].row /\ tick'[t].got = got
          /\ \A s \in Ticks : s # t => tick'[s] = tick[s]
        <3>1. TypeOK
            BY <1>1
        <3>2. tick'[t].pc = pc
            BY <3>1, <2>7, GotFacts
        <3>3. tick'[t].row = tick[t].row
            BY <3>1, <2>7, GotFacts
        <3>4. tick'[t].got = got
            <4>1. tick[t] \in TickType /\ tick \in [Ticks -> TickType]
                BY <3>1 DEF TypeOK
            <4>2. tick' = [tick EXCEPT ![t] = [tick[t] EXCEPT !.pc = pc, !.got = got]]
                BY <2>7
            <4>3. tick'[t] = [tick[t] EXCEPT !.pc = pc, !.got = got]
                BY <4>1, <4>2
            <4> QED BY <4>1, <4>3 DEF TickType
        <3>5. \A s \in Ticks : s # t => tick'[s] = tick[s]
            BY <3>1, <2>7, GotFacts
        <3> QED BY <3>2, <3>3, <3>4, <3>5
    <2>10. pc = "register" => got # 0 /\ Registered(kind, got)'
        <3> SUFFICES ASSUME pc = "register" PROVE got # 0 /\ Registered(kind, got)'
            OBVIOUS
        <3>1. last \in (issued + 1) .. last /\ last # 0
            BY <2>2, <2>4, <2>8, ProvisioningAssumption
        <3>2. [id |-> last, kind |-> kind] \in accounts'
            BY <2>5, <3>1
        <3> QED BY <2>8, <3>1, <3>2 DEF Registered, OfKind
    <2>11. TickFollows(t)'
        <3>1. PICK g \in Nat : g = got
            BY <2>7
        <3>2. pc = "register" => g # 0 /\ Registered(kind, g)'
            BY <2>10, <3>1
        <3> QED BY <1>2, <1>3, <2>1, <2>7, <2>9, <3>1, <3>2 DEF TickFollows, kind0
    <2>12. live' = live
        BY <1>7 DEF CreateAccount
    <2> QED BY <1>2, <2>6, <2>7, <2>9, <2>11, <2>12, AloneTick
<1>8. CASE RegisterAccount(t)
    <2>1. Goto(t, "advance") /\ tick[t].pc = "register" /\ accounts' = accounts /\ live' = live
        BY <1>8 DEF RegisterAccount, ep
    <2>2. /\ tick'[t].pc = "advance" /\ tick'[t].row = tick[t].row /\ tick'[t].got = tick[t].got
          /\ \A s \in Ticks : s # t => tick'[s] = tick[s]
        BY <1>1, <2>1, GotoFacts
    <2>3. /\ tick[t].got # 0 /\ (~cleaning => Registered(KindOf[tick[t].row.status], tick[t].got))
          /\ tick[t].row.status \in DOMAIN KindOf
        BY <1>1, <2>1 DEF TickFollows, TickKnows
    <2>4. TickFollows(t)'
        <3>1. ~cleaning =>
                  \E a \in accounts' : a.kind = KindOf[tick'[t].row.status] /\ a.id = tick'[t].got
            BY <2>1, <2>2, <2>3 DEF Registered, OfKind
        <3>2. tick[t].row.status # "BROKER_ACCOUNT_CREATED"
            BY <2>3 DEF KindOf
        <3> QED BY <1>2, <1>3, <2>2, <2>3, <3>1, <3>2 DEF TickFollows, Registered, OfKind
    <2> QED BY <1>1, <1>2, <2>1, <2>2, <2>4, AloneTick DEF IdsAreIssued
<1>9. CASE ArchiveHedges(t)
    <2>1. /\ prov.status = "BROKER_ACCOUNT_CREATED" /\ accounts' = accounts
        BY <1>3, <1>9 DEF ArchiveHedges, AtStep, ep
    <2>2. PICK pc \in {"createHedge", "fail"} : Goto(t, pc)
        BY <1>9 DEF ArchiveHedges
    <2>3. /\ tick'[t].pc = pc /\ tick'[t].row = tick[t].row
          /\ \A s \in Ticks : s # t => tick'[s] = tick[s]
        BY <1>1, <2>2, GotoFacts
    <2>4. TickFollows(t)'
        BY <1>2, <1>3, <2>3 DEF TickFollows
    <2> QED BY <1>1, <1>2, <2>1, <2>3, <2>4, AloneTick DEF IdsAreIssued
<1>10. CASE CreateHedge(t)
    <2>1. /\ tick[t].pc = "createHedge" /\ Goto(t, "advance") /\ accounts' = accounts
          /\ live' = Append(live, tick[t].row.ids)
        BY <1>10 DEF CreateHedge, ep
    <2>2. live = <<>> /\ tick[t].row.status = "BROKER_ACCOUNT_CREATED"
        BY <1>1, <2>1 DEF TickKnows
    <2>3. /\ tick'[t].pc = "advance" /\ tick'[t].row = tick[t].row
          /\ \A s \in Ticks : s # t => tick'[s] = tick[s]
        BY <1>1, <2>1, GotoFacts
    <2>4. live' = <<tick'[t].row.ids>>
        BY <2>1, <2>2, <2>3
    <2>5. TickFollows(t)'
        BY <1>2, <1>3, <2>2, <2>3, <2>4 DEF TickFollows, KindOf
    <2> QED BY <1>1, <1>2, <1>3, <2>1, <2>2, <2>3, <2>5, AloneTick DEF IdsAreIssued
<1> QED BY <1>4, <1>5, <1>6, <1>7, <1>8, <1>9, <1>10

\* What AloneInv says of the record alone.
RecordOK == IdsAreIssued /\ IdsAreRegistered /\ ResumesWithItsInputs /\ CompletedMeansLive

LEMMA RecordSame ==
    ASSUME AloneInv, UNCHANGED <<accounts, live, cleaning>>, prov'.ids = prov.ids,
           prov'.status = prov.status, prov'.failedStep = prov.failedStep
    PROVE  RecordOK'
<1>1. IdsAreIssued' /\ IdsAreRegistered'
    BY DEF AloneInv, IdsAreIssued, IdsAreRegistered, Registered, OfKind
<1>2. ResumesWithItsInputs'
    BY DEF AloneInv, ResumesWithItsInputs
<1>3. CompletedMeansLive'
    BY DEF AloneInv, CompletedMeansLive, OfKind
<1> QED BY <1>1, <1>2, <1>3 DEF RecordOK

LEMMA AloneIdle ==
    ASSUME RecordOK', \A t \in Ticks : tick'[t].pc = "idle",
           \A r \in Requests : request'[r].pc \in {"new", "done"}
    PROVE  AloneInv'
    BY DEF RecordOK, AloneInv, OneActivity, RequestActive, TickFollows, RequestFollows

LEMMA AloneStart ==
    ASSUME Concurrency = 1, ProvisioningInv, AloneInv, NEW t \in Ticks, StartTick(t)
    PROVE  AloneInv'
<1>1. TypeOK
    BY DEF ProvisioningInv
<1>2. /\ prov.due /\ Free /\ tick'[t].pc = "step" /\ tick'[t].row = prov
      /\ \A s \in Ticks : s # t => tick'[s] = tick[s]
      /\ UNCHANGED <<prov, request, accounts, live, cleaning>>
    BY <1>1, StartAt DEF ep, history
<1>3. /\ \A s \in Ticks : tick[s].pc = "idle"
      /\ \A r \in Requests : ~RequestActive(r)
    BY <1>2, NoneActive DEF AloneInv
<1>4. OneActivity' /\ \A r \in Requests : RequestFollows(r)'
    BY <1>2, <1>3 DEF OneActivity, RequestActive, RequestFollows
<1>5. \A s \in Ticks : TickFollows(s)'
    BY <1>2, <1>3 DEF TickFollows
<1>6. RecordOK'
    BY <1>2, RecordSame
<1> QED BY <1>4, <1>5, <1>6 DEF AloneInv, RecordOK

\* An update that goes through was worked out from the record it replaces.
LEMMA AloneAdvance ==
    ASSUME ProvisioningInv, AloneInv, NEW t \in Ticks, Advance(t)
    PROVE  AloneInv'
<1>1. /\ tick[t].pc = "advance" /\ tick[t].row.status \in Working
      /\ prov'.status = NextStatus[tick[t].row.status] /\ prov'.due
      /\ prov'.ids = IF tick[t].row.status \in DOMAIN KindOf
                     THEN [prov.ids EXCEPT ![KindOf[tick[t].row.status]] = tick[t].got] ELSE prov.ids
      /\ \/ tick'[t].pc = "step" /\ tick'[t].row = prov'
         \/ tick'[t].pc = "idle"
         \/ tick'[t].pc = "fail" /\ tick'[t].row = tick[t].row
      /\ \A s \in Ticks : s # t => tick'[s] = tick[s]
      /\ UNCHANGED <<request, accounts, live, cleaning>>
    BY AdvanceAt DEF ep, history
<1>2. /\ tick[t].row = prov
      /\ prov.status \in DOMAIN KindOf =>
             tick[t].got # 0 /\ (~cleaning => Registered(KindOf[prov.status], tick[t].got))
      /\ prov.status = "BROKER_ACCOUNT_CREATED" => live = <<prov.ids>>
    BY <1>1 DEF AloneInv, TickFollows
<1>3. prov \in Row /\ prov.ids \in Ids /\ prov.status \in Working
    BY <1>1, <1>2 DEF ProvisioningInv, TypeOK, Row
<1>4. /\ \A s \in Ticks : s # t => tick'[s].pc = "idle"
      /\ \A r \in Requests : ~RequestActive(r)
    BY <1>1 DEF ProvisioningInv, OneTick, AloneInv, OneActivity
<1>5. OneActivity' /\ \A r \in Requests : RequestFollows(r)'
    BY <1>1, <1>4 DEF OneActivity, RequestActive, RequestFollows
<1>6. \A s \in Ticks : TickFollows(s)'
    <2>1. prov'.status # prov.status
        BY <1>1, <1>2, <1>3 DEF NextStatus, Working
    <2> QED BY <1>1, <1>2, <1>4, <2>1 DEF TickFollows
<1>7. /\ prov.status = "PROP_ACCOUNT_CREATED" => prov.ids["prop"] # 0
      /\ prov.status = "BROKER_ACCOUNT_CREATED" => prov.ids["prop"] # 0 /\ prov.ids["broker"] # 0
    BY <1>3 DEF AloneInv, ResumesWithItsInputs, Working
<1>8. CASE prov.status = "PENDING"
    <2>1. prov'.status = "KEY_CREATED" /\ prov'.ids = prov.ids
        BY <1>1, <1>2, <1>8 DEF NextStatus, KindOf
    <2>2. RecordOK'
        BY <1>1, <2>1 DEF RecordOK, AloneInv, IdsAreIssued, IdsAreRegistered, Registered, OfKind,
                          ResumesWithItsInputs, CompletedMeansLive
    <2> QED BY <1>5, <1>6, <2>2 DEF AloneInv, RecordOK
<1>9. CASE prov.status = "BROKER_ACCOUNT_CREATED"
    <2>1. prov'.status = "COMPLETED" /\ prov'.ids = prov.ids /\ live' = <<prov.ids>>
        BY <1>1, <1>2, <1>9 DEF NextStatus, KindOf
    <2>2. \A k \in Kinds : prov.ids[k] # 0
        BY <1>7, <1>9 DEF Kinds
    <2>3. ~cleaning => \A k \in Kinds : \E a \in OfKind(k) : a.id = prov.ids[k]
        BY <2>2 DEF AloneInv, IdsAreRegistered, Registered
    <2>4. IdsAreIssued' /\ IdsAreRegistered' /\ ResumesWithItsInputs'
        BY <1>1, <2>1 DEF AloneInv, IdsAreIssued, IdsAreRegistered, Registered, OfKind, ResumesWithItsInputs
    <2>5. CompletedMeansLive'
        BY <1>1, <2>1, <2>3 DEF CompletedMeansLive, OfKind
    <2> QED BY <1>5, <1>6, <2>4, <2>5 DEF AloneInv
<1>10. CASE prov.status \in {"KEY_CREATED", "PROP_ACCOUNT_CREATED"}
    <2>1. PICK kind \in Kinds : kind = KindOf[prov.status]
        BY <1>10 DEF KindOf, Kinds
    <2>2. /\ kind = IF prov.status = "KEY_CREATED" THEN "prop" ELSE "broker"
          /\ prov.status \in DOMAIN KindOf
        BY <1>10, <2>1 DEF KindOf
    <2>3. prov'.ids = [prov.ids EXCEPT ![kind] = tick[t].got]
        BY <1>1, <1>2, <2>1, <2>2
    <2>4. /\ prov'.ids[kind] = tick[t].got /\ \A k \in Kinds \ {kind} : prov'.ids[k] = prov.ids[k]
          /\ tick[t].got # 0 /\ (~cleaning => Registered(kind, tick[t].got))
        BY <1>2, <1>3, <2>1, <2>2, <2>3 DEF Ids
    <2>5. prov'.status = IF prov.status = "KEY_CREATED" THEN "PROP_ACCOUNT_CREATED" ELSE "BROKER_ACCOUNT_CREATED"
        BY <1>1, <1>2, <1>10 DEF NextStatus
    <2>6. IdsAreIssued' /\ CompletedMeansLive'
        BY <1>1, <2>5 DEF AloneInv, IdsAreIssued, CompletedMeansLive
    <2>7. IdsAreRegistered'
        <3> SUFFICES ASSUME ~cleaning', NEW k \in Kinds, prov'.ids[k] # 0
                     PROVE  \E a \in accounts' : a.kind = k /\ a.id = prov'.ids[k]
            BY DEF IdsAreRegistered, Registered, OfKind
        <3> QED BY <1>1, <2>4 DEF AloneInv, IdsAreRegistered, Registered, OfKind
    <2>8. ResumesWithItsInputs'
        BY <1>7, <1>10, <2>2, <2>4, <2>5 DEF ResumesWithItsInputs, Kinds
    <2> QED BY <1>5, <1>6, <2>6, <2>7, <2>8 DEF AloneInv
<1> QED BY <1>3, <1>8, <1>9, <1>10 DEF Working

\* A failure is written for the row the tick read, which resumes where it was.
LEMMA AloneFailure ==
    ASSUME ProvisioningInv, AloneInv, NEW t \in Ticks, HandleFailure(t)
    PROVE  AloneInv'
<1>1. /\ tick[t].pc # "idle" /\ tick[t].row.status \in Working
      /\ \/ prov' = prov
         \/ /\ prov.status = tick[t].row.status /\ prov'.ids = prov.ids
            /\ prov'.status = prov.status
               \/ (prov'.status = "FAILED" /\ prov'.failedStep = StepOf[tick[t].row.status])
      /\ tick'[t].pc = "idle" /\ \A s \in Ticks : s # t => tick'[s] = tick[s]
      /\ UNCHANGED <<request, accounts, live, cleaning>>
    BY FailureAt DEF ep, history
<1>2. /\ \A s \in Ticks : tick'[s].pc = "idle"
      /\ \A r \in Requests : request'[r].pc \in {"new", "done"}
    BY <1>1 DEF ProvisioningInv, OneTick, AloneInv, OneActivity, RequestActive
<1>3. RecordOK'
    <2>1. CASE prov' = prov
        BY <1>1, <2>1, RecordSame
    <2>2. CASE prov' # prov
        <3>1. /\ prov.status = tick[t].row.status /\ prov.status \in Working /\ prov'.ids = prov.ids
              /\ prov'.status = prov.status \/ prov'.status = "FAILED"
              /\ prov'.status = "FAILED" => prov'.failedStep = StepOf[prov.status]
            BY <1>1, <2>2 DEF Working
        <3>2. IdsAreIssued' /\ IdsAreRegistered'
            BY <1>1, <3>1 DEF AloneInv, IdsAreIssued, IdsAreRegistered, Registered, OfKind
        <3>3. CompletedMeansLive'
            BY <3>1 DEF CompletedMeansLive, Working
        <3>4. prov'.status = "FAILED" => ResumeStatus(prov'.failedStep) = prov.status
            BY <3>1, ResumeOf
        <3>5. prov.status # "FAILED"
            BY <3>1 DEF Working
        <3>6. ResumesWithItsInputs'
            BY <3>1, <3>4, <3>5 DEF AloneInv, ResumesWithItsInputs
        <3> QED BY <3>2, <3>3, <3>6 DEF RecordOK
    <2> QED BY <2>1, <2>2
<1> QED BY <1>2, <1>3, AloneIdle

LEMMA AloneCaller ==
    ASSUME TriggerInv, AloneInv, NEW c \in Callers,
           StoreFact(c) \/ CheckTrigger(c) \/ CreateRecord(c)
    PROVE  AloneInv'
<1>1. UNCHANGED <<tick, request, accounts, live, cleaning>>
    BY DEF StoreFact, CheckTrigger, CreateRecord, ep, history
<1>2. CASE prov' = prov
    <2>1. RecordOK'
        BY <1>1, <1>2, RecordSame
    <2> QED BY <1>1, <1>2, <2>1 DEF RecordOK, AloneInv, OneActivity, RequestActive, TickFollows,
                                  RequestFollows, Registered, OfKind
<1>3. CASE prov' # prov
    <2>1. prov.status = "ABSENT" /\ prov' = [Absent EXCEPT !.status = "PENDING"]
        BY <1>3 DEF StoreFact, CheckTrigger, CreateRecord
    <2>2. prov'.status = "PENDING" /\ \A k \in Kinds : prov'.ids[k] = 0
        BY <2>1 DEF Absent, NoIds
    <2>3. RecordOK'
        BY <1>1, <2>2 DEF RecordOK, AloneInv, IdsAreIssued, IdsAreRegistered, ResumesWithItsInputs,
                         CompletedMeansLive
    <2>4. /\ \A t \in Ticks : tick'[t].pc = "idle"
          /\ \A r \in Requests : request'[r].pc \in {"new", "done"}
        BY <1>1, <2>1 DEF TriggerInv
    <2> QED BY <2>3, <2>4, AloneIdle
<1> QED BY <1>2, <1>3

LEMMA AloneBackoff ==
    ASSUME ProvisioningInv, AloneInv, BackoffEnds
    PROVE  AloneInv'
<1>1. /\ UNCHANGED <<tick, request, accounts, live, cleaning>>
      /\ prov'.ids = prov.ids /\ prov'.status = prov.status /\ prov'.failedStep = prov.failedStep
    BY DEF ProvisioningInv, TypeOK, Row, BackoffEnds, ep, history
<1>2. \A t \in Ticks : tick[t].pc = "idle"
    BY DEF AloneInv, TickFollows, BackoffEnds
<1>3. RecordOK'
    BY <1>1, RecordSame
<1> QED BY <1>1, <1>2, <1>3 DEF AloneInv, RecordOK, OneActivity, RequestActive, TickFollows, RequestFollows

\* A request that begins is the only activity.
LEMMA AloneRead ==
    ASSUME Concurrency = 1, ProvisioningInv, AloneInv, NEW r \in Requests,
           ReadForRetry(r) \/ ReadForReprovision(r)
    PROVE  AloneInv'
<1>1. Free /\ UNCHANGED <<prov, tick, accounts, live>> /\ request \in [Requests -> RequestType] /\ prov \in Row
    BY DEF ReadForRetry, ReadForReprovision, ep, ProvisioningInv, TypeOK
<1>2. /\ \A t \in Ticks : tick'[t].pc = "idle"
      /\ \A q \in Requests : ~RequestActive(q)
    BY <1>1, NoneActive DEF AloneInv
<1>3. /\ \A q \in Requests : q # r => request'[q] = request[q]
      /\ request'[r].row = prov
      /\ request'[r].pc # "write" => cleaning'
      /\ cleaning' = cleaning \/ cleaning'
    <2>1. CASE ReadForRetry(r)
        <3>1. request[r] \in RequestType
            BY <1>1
        <3>2. request' = [request EXCEPT ![r] = [request[r] EXCEPT !.pc = "write", !.row = prov]]
            BY <2>1 DEF ReadForRetry
        <3>3. request'[r] = [request[r] EXCEPT !.pc = "write", !.row = prov]
              /\ \A q \in Requests : q # r => request'[q] = request[q]
            BY <1>1, <3>2
        <3>4. request'[r].pc = "write" /\ request'[r].row = prov
            BY <3>1, <3>3 DEF RequestType
        <3>5. cleaning' = cleaning
            BY <2>1 DEF ReadForRetry, history
        <3> QED BY <3>3, <3>4, <3>5
    <2>2. CASE ReadForReprovision(r)
        <3> DEFINE todo == {k \in Kinds : KeyStored(prov) /\ prov.ids[k] # 0}
                   v == [pc |-> IF todo = {} THEN "archive" ELSE "delete", row |-> prov, todo |-> todo]
        <3>1. request' = [request EXCEPT ![r] = v] /\ cleaning' = TRUE
            BY <2>2 DEF ReadForReprovision
        <3>2. v.row = prov
            OBVIOUS
        <3> HIDE DEF v
        <3>3. request'[r] = v /\ \A q \in Requests : q # r => request'[q] = request[q]
            BY <1>1, <3>1
        <3> QED BY <3>1, <3>2, <3>3
    <2> QED BY <2>1, <2>2
<1>4. OneActivity' /\ \A t \in Ticks : TickFollows(t)'
    BY <1>2, <1>3 DEF OneActivity, RequestActive, TickFollows
<1>5. \A q \in Requests : RequestFollows(q)'
    BY <1>1, <1>2, <1>3 DEF RequestActive, RequestFollows
<1>6. RecordOK'
    <2>1. IdsAreIssued' /\ IdsAreRegistered'
        BY <1>1, <1>3 DEF AloneInv, IdsAreIssued, IdsAreRegistered, Registered, OfKind
    <2>2. ResumesWithItsInputs'
        BY <1>1 DEF AloneInv, ResumesWithItsInputs
    <2>3. CompletedMeansLive'
        BY <1>1, <1>3 DEF AloneInv, CompletedMeansLive, OfKind
    <2> QED BY <2>1, <2>2, <2>3 DEF RecordOK
<1> QED BY <1>4, <1>5, <1>6 DEF AloneInv, RecordOK

LEMMA AloneWrite ==
    ASSUME ProvisioningInv, AloneInv, NEW r \in Requests, Retry(r) \/ Reset(r)
    PROVE  AloneInv'
<1>1. /\ TypeOK /\ request[r].pc \in {"write", "reset"} /\ Done(r) /\ MarkStale
      /\ UNCHANGED <<accounts, live>>
    BY DEF ProvisioningInv, Retry, Reset, ep
<1>2. /\ \A t \in Ticks : tick[t].pc = "idle"
      /\ \A q \in Requests \ {r} : ~RequestActive(q)
      /\ request[r].row.status = prov.status /\ request[r].row.failedStep = prov.failedStep
    BY <1>1 DEF AloneInv, OneActivity, RequestActive, RequestFollows
<1>3. /\ \A t \in Ticks : tick'[t].pc = "idle"
      /\ \A q \in Requests : request'[q].pc \in {"new", "done"}
    BY <1>1, <1>2, WrittenAt DEF RequestActive
<1>4. CASE Retry(r)
    <2>1. /\ prov'.status = (IF prov.status = "FAILED" THEN ResumeStatus(prov.failedStep) ELSE prov.status)
          /\ prov'.status # "FAILED" /\ prov'.ids = prov.ids /\ cleaning' = cleaning
        BY <1>2, <1>4, RetryAt DEF Retry, history
    <2>2. prov'.status = "COMPLETED" => prov.status = "COMPLETED"
        <3>1. prov.failedStep \in Steps \cup {NoStep}
            BY <1>1 DEF TypeOK, Row
        <3> QED BY <2>1, <3>1, Resume DEF Working
    <2>3. IdsAreIssued' /\ IdsAreRegistered' /\ CompletedMeansLive'
        BY <1>1, <2>1, <2>2 DEF AloneInv, IdsAreIssued, IdsAreRegistered, Registered, OfKind, CompletedMeansLive
    <2>4. ResumesWithItsInputs'
        BY <2>1 DEF AloneInv, ResumesWithItsInputs
    <2> QED BY <1>3, <2>3, <2>4, AloneIdle DEF RecordOK
<1>5. CASE Reset(r)
    <2>1. prov'.status \in {"KEY_CREATED", "PENDING"} /\ \A k \in Kinds : prov'.ids[k] = 0
        BY <1>5, ResetAt DEF NoIds
    <2>2. RecordOK'
        BY <1>1, <2>1 DEF RecordOK, AloneInv, IdsAreIssued, IdsAreRegistered, ResumesWithItsInputs,
                         CompletedMeansLive
    <2> QED BY <1>3, <2>2, AloneIdle
<1> QED BY <1>4, <1>5

\* What a cleanup removes is not counted on until the row is reset.
LEMMA AloneCleanup ==
    ASSUME ProvisioningInv, AloneInv, NEW r \in Requests, DeleteAccount(r) \/ ArchiveAll(r)
    PROVE  AloneInv'
<1>1. /\ request \in [Requests -> RequestType] /\ request[r].pc \in {"delete", "archive"}
      /\ UNCHANGED <<prov, tick, cleaning>>
    BY DEF ProvisioningInv, TypeOK, DeleteAccount, ArchiveAll, history
<1>2. /\ cleaning /\ RequestActive(r)
      /\ \A t \in Ticks : tick[t].pc = "idle"
      /\ \A q \in Requests \ {r} : ~RequestActive(q)
    BY <1>1 DEF AloneInv, OneActivity, RequestActive, RequestFollows
<1>3. /\ \A q \in Requests : q # r => request'[q] = request[q]
      /\ request'[r].row = request[r].row
    <2>1. request[r] \in RequestType
        BY <1>1
    <2>2. CASE DeleteAccount(r)
        <3>1. PICK k \in request[r].todo :
                LET todo == request[r].todo \ {k} IN
                request' = [request EXCEPT ![r].todo = todo, ![r].pc = IF todo = {} THEN "archive" ELSE @]
            BY <2>2 DEF DeleteAccount
        <3>2. PICK todo \in SUBSET Kinds : todo = request[r].todo \ {k}
            BY <2>1 DEF RequestType
        <3>3. PICK pc \in RequestPCs : pc = IF todo = {} THEN "archive" ELSE request[r].pc
            BY <2>1 DEF RequestType, RequestPCs
        <3>4. request' = [request EXCEPT ![r] = [request[r] EXCEPT !.todo = todo, !.pc = pc]]
            BY <1>1, <2>1, <3>1, <3>2, <3>3 DEF RequestType
        <3>5. request'[r] = [request[r] EXCEPT !.todo = todo, !.pc = pc]
              /\ \A q \in Requests : q # r => request'[q] = request[q]
            BY <1>1, <3>4
        <3> QED BY <2>1, <3>5 DEF RequestType
    <2>3. CASE ArchiveAll(r)
        <3>1. request' = [request EXCEPT ![r] = [request[r] EXCEPT !.pc = "reset"]]
            BY <2>3 DEF ArchiveAll
        <3>2. request'[r] = [request[r] EXCEPT !.pc = "reset"]
              /\ \A q \in Requests : q # r => request'[q] = request[q]
            BY <1>1, <3>1
        <3> QED BY <2>1, <3>2 DEF RequestType
    <2> QED BY <2>2, <2>3 DEF DeleteAccount, ArchiveAll
<1>4. accounts' \subseteq accounts
    BY DEF DeleteAccount, ArchiveAll, ep
<1>5. OneActivity' /\ \A t \in Ticks : TickFollows(t)'
    BY <1>1, <1>2, <1>3 DEF OneActivity, RequestActive, TickFollows
<1>6. \A q \in Requests : RequestFollows(q)'
    BY <1>1, <1>2, <1>3 DEF RequestActive, RequestFollows, AloneInv
<1>7. IdsAreIssued' /\ IdsAreRegistered' /\ CompletedMeansLive'
    BY <1>1, <1>2, <1>4 DEF AloneInv, IdsAreIssued, IdsAreRegistered, CompletedMeansLive
<1>8. ResumesWithItsInputs'
    BY <1>1 DEF AloneInv, ResumesWithItsInputs
<1> QED BY <1>5, <1>6, <1>7, <1>8 DEF AloneInv

LEMMA AloneCrash == ASSUME AloneInv, Crash PROVE AloneInv'
<1>1. /\ UNCHANGED <<prov, accounts, live, cleaning>>
      /\ \A t \in Ticks : tick'[t].pc = "idle"
      /\ \A r \in Requests : request'[r].pc \in {"new", "done"}
    BY DEF Crash, IdleTick, NewRequest, ep
<1>2. RecordOK'
    BY <1>1, RecordSame
<1> QED BY <1>1, <1>2, AloneIdle

LEMMA AloneSpec == ASSUME Concurrency = 1 PROVE Spec => []AloneInv
<1>1. Init => ProvisioningInv /\ TriggerInv /\ AloneInv
    BY InitInv, InitTrigger, InitAlone
<1>2. ProvisioningInv /\ TriggerInv /\ AloneInv /\ [Next]_vars => AloneInv'
    <2> SUFFICES ASSUME ProvisioningInv, TriggerInv, AloneInv, [Next]_vars PROVE AloneInv'
        OBVIOUS
    <2>1. CASE UNCHANGED vars
        <3>1. UNCHANGED <<prov, tick, request, accounts, live, cleaning>>
            BY <2>1 DEF vars, ep, history
        <3>2. RecordOK'
            BY <3>1, RecordSame
        <3> QED BY <3>1, <3>2 DEF AloneInv, RecordOK, OneActivity, RequestActive, TickFollows, RequestFollows,
                                Registered, OfKind
    <2>2. ASSUME NEW t \in Ticks, StartTick(t) \/ TickStep(t) PROVE AloneInv'
        BY <2>2, AloneStart, AloneQuiet, AloneAdvance, AloneFailure DEF TickStep
    <2>3. ASSUME NEW r \in Requests, ReadForRetry(r) \/ ReadForReprovision(r) \/ RequestStep(r) PROVE AloneInv'
        BY <2>3, AloneRead, AloneWrite, AloneCleanup DEF RequestStep
    <2> QED BY <2>1, <2>2, <2>3, AloneCaller, AloneBackoff, AloneCrash DEF Next
<1>3. Spec => [](ProvisioningInv /\ TriggerInv)
    <2>1. ProvisioningInv /\ TriggerInv /\ [Next]_vars => (ProvisioningInv /\ TriggerInv)'
        BY StepInv, TriggerNext
    <2> QED BY <1>1, <2>1, PTL DEF Spec
<1> QED BY <1>1, <1>2, <1>3, PTL DEF Spec

\* retryProvision and the worker: where a retry resumes, the accounts of the
\* steps behind it are in the row, when ticks and admin requests come one
\* after the other; failures, lost answers and crashes may come at any step.
THEOREM RetriesHaveTheirInputs == ASSUME Concurrency = 1 PROVE Spec => []ResumesWithItsInputs
<1>1. AloneInv => ResumesWithItsInputs
    BY DEF AloneInv
<1> QED BY <1>1, AloneSpec, PTL

\* COMPLETED tells the client that the one live hedge setup is the row's and
\* that EasierProp has both accounts: it does under the same condition, until
\* a reprovision begins to clean up.
THEOREM CompletedIsLive == ASSUME Concurrency = 1 PROVE Spec => []CompletedMeansLive
<1>1. AloneInv => CompletedMeansLive
    BY DEF AloneInv
<1> QED BY <1>1, AloneSpec, PTL

\* A completed provisioning is undone by an admin only: the failure of what
\* follows the last update (the audit event, a notification) is not written
\* over it, under the same condition.
THEOREM CompletedStays == ASSUME Concurrency = 1 PROVE Spec => CompletedIsFinal
<1>1. ProvisioningInv /\ AloneInv /\ [Next]_vars =>
          (prov.status = "COMPLETED" => prov'.status = "COMPLETED"
              \/ \E r \in Requests : request[r].pc # "done" /\ request'[r].pc = "done")
    <2> SUFFICES ASSUME ProvisioningInv, AloneInv, [Next]_vars, prov.status = "COMPLETED", prov'.status # "COMPLETED"
                 PROVE  \E r \in Requests : request[r].pc # "done" /\ request'[r].pc = "done"
        OBVIOUS
    <2>1. ASSUME NEW t \in Ticks, TickStep(t) PROVE FALSE
        <3>1. ~Advance(t)
            <4> SUFFICES ASSUME Advance(t) PROVE FALSE
                OBVIOUS
            <4>1. tick[t].pc = "advance" /\ tick[t].row.status \in Working
                BY AdvanceAt
            <4>2. tick[t].row = prov
                BY <4>1 DEF AloneInv, TickFollows
            <4> QED BY <4>1, <4>2 DEF Working
        <3>2. ~HandleFailure(t)
            <4> SUFFICES ASSUME HandleFailure(t) PROVE FALSE
                OBVIOUS
            <4>1. tick[t].row.status \in Working /\ (prov' = prov \/ prov.status = tick[t].row.status)
                BY FailureAt
            <4> QED BY <4>1 DEF Working
        <3>3. prov' = prov
            BY <2>1, <3>1, <3>2 DEF TickStep, ReuseKey, CreateKey, FindAccount, CreateAccount, CapReached,
                   RegisterAccount, ArchiveHedges, CreateHedge, FailStep
        <3> QED BY <3>3
    <2>2. ASSUME NEW r \in Requests, Retry(r) \/ Reset(r)
          PROVE  request[r].pc # "done" /\ request'[r].pc = "done"
        <3>1. TypeOK /\ Done(r) /\ MarkStale /\ request[r].pc \in {"write", "reset"}
            BY <2>2 DEF ProvisioningInv, Retry, Reset
        <3> QED BY <3>1, WrittenAt
    <2>3. ~BackoffEnds
        BY DEF ProvisioningInv, TypeOK, Row, BackoffEnds
    <2>4. CASE \E r \in Requests : Retry(r) \/ Reset(r)
        BY <2>2, <2>4
    <2>5. CASE ~\E r \in Requests : Retry(r) \/ Reset(r)
        <3>1. prov' = prov
            BY <2>1, <2>3, <2>5 DEF Next, RequestStep, StoreFact, CheckTrigger, CreateRecord, StartTick,
                   ReadForRetry, ReadForReprovision, DeleteAccount, ArchiveAll, Crash, vars
        <3> QED BY <3>1
    <2> QED BY <2>4, <2>5
<1>2. ProvisioningInv /\ [Next]_vars => ProvisioningInv'
    BY StepInv
<1> QED BY <1>1, <1>2, InitInv, AloneSpec, PTL DEF Spec, CompletedIsFinal

-----------------------------------------------------------------------------
(***************************************************************************)
(* The accounts once they are provisioned: AccountSync.                    *)
(***************************************************************************)

\* The commands that register an account, remove one, and write the pair.
Creating == {"PROP_ROTATION", "BROKER_ADD", "BROKER_REPLACE"}
Replacing == {"PROP_ROTATION", "BROKER_REPLACE"}
Hedging == {"PROP_ROTATION", "BROKER_REPLACE", "SET_HEDGE_BROKER"}

\* A command names accounts of the kind that it is about.
Payload(c) ==
    /\ c.type = "PROP_ROTATION" => c.new \in Props
    /\ c.type \in {"BROKER_REPLACE", "BROKER_ADD", "SET_HEDGE_BROKER"} => c.new \in Brokers
    /\ c.type = "BROKER_REPLACE" => c.old \in Brokers

Payloads == /\ \A i \in DOMAIN commands : Payload(commands[i])
            /\ \A k \in Clients : Payload(client[k])

\* The command of the worker runs, is one of those that come where the worker
\* is, and what its context says is still so: nobody else writes it.
Knows ==
    /\ worker.pc # "idle" => worker.cmd \in DOMAIN commands /\ Current.status = "RUNNING"
    /\ worker.pc \in {"list", "erase", "forget", "end"} => Current.type = "DELETE"
    /\ worker.pc = "find" => Current.type # "DELETE"
    /\ worker.pc \in {"register", "record"} => Current.type \in Creating
    /\ worker.pc = "remove" => Current.type \in Replacing
    /\ worker.pc \in {"provision", "hedge"} => Current.type \in Hedging
    /\ worker.pc \in {"find", "register", "record", "remove"} =>
         worker.provision = provision /\ worker.hedge = hedge
    /\ worker.pc \notin {"idle", "context"} /\ worker.hedge.ended => hedge.ended
    /\ worker.pc \in {"end", "complete"} /\ Current.type = "DELETE" => hedge.ended

SyncInv == SyncTypeOK /\ Payloads /\ Knows

\* One command has another status, and all are otherwise what they were.
Rewritten(i, status) ==
    /\ i \in DOMAIN commands /\ commands' \in Seq(Command) /\ DOMAIN commands' = DOMAIN commands
    /\ \A j \in DOMAIN commands : /\ commands'[j].type = commands[j].type
                                  /\ commands'[j].new = commands[j].new
                                  /\ commands'[j].old = commands[j].old
    /\ commands'[i].status = status
    /\ \A j \in DOMAIN commands \ {i} : commands'[j] = commands[j]

\* The queue has one command more, of this request.
Added(n, asked) ==
    /\ n \notin DOMAIN commands /\ commands' \in Seq(Command) /\ DOMAIN commands' = DOMAIN commands \cup {n}
    /\ \A j \in DOMAIN commands : commands'[j] = commands[j]
    /\ commands'[n].type = asked.type /\ commands'[n].status = "PENDING" /\ commands'[n].due
    /\ commands'[n].new = asked.new /\ commands'[n].old = asked.old

-----------------------------------------------------------------------------

\* A command of the queue.
LEMMA Commands ==
    ASSUME SyncTypeOK, NEW i \in DOMAIN commands
    PROVE  commands[i] \in Command /\ i \in Nat /\ commands[i].attempts \in Nat
<1>1. commands[i] \in Command /\ i \in Nat
    BY DEF SyncTypeOK
<1> QED BY <1>1 DEF Command

\* A statement that writes one command, and leaves its type and its payload.
LEMMA Rewrite ==
    ASSUME SyncTypeOK, NEW i \in DOMAIN commands, NEW c \in Command, commands' = [commands EXCEPT ![i] = c],
           c.type = commands[i].type, c.new = commands[i].new, c.old = commands[i].old
    PROVE  Rewritten(i, c.status)
BY DEF SyncTypeOK, Rewritten

\* A command that a crash left RUNNING is requeued after the lease
\* (processDueServiceCommands).
LEMMA RequeueWrites ==
    ASSUME SyncTypeOK, Requeue
    PROVE  \E i \in DOMAIN commands : commands[i].status = "RUNNING" /\ Rewritten(i, "PENDING")
<1>1. PICK i \in DOMAIN commands :
          /\ commands[i].status = "RUNNING"
          /\ commands' = [commands EXCEPT ![i] = [commands[i] EXCEPT !.status = "PENDING", !.due = TRUE]]
    BY DEF Requeue, WithStatus
<1> DEFINE c == [commands[i] EXCEPT !.status = "PENDING", !.due = TRUE]
<1>2. commands[i] \in Command
    BY Commands
<1>3. /\ c \in Command /\ c.status = "PENDING"
      /\ c.type = commands[i].type /\ c.new = commands[i].new /\ c.old = commands[i].old
    BY <1>2 DEF Command
<1>4. commands' = [commands EXCEPT ![i] = c]
    BY <1>1
<1> HIDE DEF c
<1>5. Rewritten(i, c.status)
    BY <1>3, <1>4, Rewrite
<1> QED BY <1>1, <1>3, <1>5

\* The worker takes the oldest command that is due.
LEMMA StartWrites ==
    ASSUME SyncTypeOK, StartCommand
    PROVE  \E i \in DOMAIN commands :
               /\ commands[i].status = "PENDING" /\ commands[i].due /\ Rewritten(i, "RUNNING")
               /\ \A j \in DOMAIN commands : commands[j].status = "PENDING" /\ commands[j].due => i <= j
               /\ worker' \in WorkerType /\ worker'.pc = "context" /\ worker'.cmd = i
<1>1. PICK i \in DOMAIN commands :
          /\ commands[i].status = "PENDING" /\ commands[i].due
          /\ \A j \in DOMAIN commands : commands[j].status = "PENDING" /\ commands[j].due => i <= j
          /\ worker' = [Resting EXCEPT !.pc = "context", !.cmd = i]
          /\ commands' = [commands EXCEPT ![i].status = "RUNNING"]
    BY DEF StartCommand, WithStatus
<1> DEFINE c == [commands[i] EXCEPT !.status = "RUNNING"]
<1>2. commands[i] \in Command /\ i \in Nat
    BY Commands
<1>3. /\ c \in Command /\ c.status = "RUNNING"
      /\ c.type = commands[i].type /\ c.new = commands[i].new /\ c.old = commands[i].old
    BY <1>2 DEF Command
<1>4. commands' = [commands EXCEPT ![i] = c]
    BY <1>1
<1>5. worker' \in WorkerType /\ worker'.pc = "context" /\ worker'.cmd = i
    BY <1>1, <1>2, SyncAssumption DEF WorkerType, Resting, First, Pair
<1> HIDE DEF c
<1>6. Rewritten(i, c.status)
    BY <1>3, <1>4, Rewrite
<1> QED BY <1>1, <1>3, <1>5, <1>6

\* A command is marked as completed.
LEMMA CompleteWrites ==
    ASSUME SyncInv, Complete
    PROVE  Rewritten(worker.cmd, "COMPLETED")
<1> DEFINE i == worker.cmd
           c == [commands[i] EXCEPT !.status = "COMPLETED"]
<1>1. SyncTypeOK /\ i \in DOMAIN commands
    BY DEF SyncInv, Knows, Complete
<1>2. commands[i] \in Command
    BY <1>1, Commands
<1>3. /\ c \in Command /\ c.status = "COMPLETED"
      /\ c.type = commands[i].type /\ c.new = commands[i].new /\ c.old = commands[i].old
    BY <1>2 DEF Command
<1>4. commands' = [commands EXCEPT ![i] = c]
    BY DEF Complete
<1> HIDE DEF c, i
<1>5. Rewritten(i, c.status)
    BY <1>1, <1>3, <1>4, Rewrite
<1> QED BY <1>3, <1>5 DEF i

\* handleCommandFailure gives a command up, or has it retried.
LEMMA FailureWrites ==
    ASSUME SyncInv, worker.pc # "idle", GiveUpOrRetry
    PROVE  \E status \in {"FAILED", "PENDING"} : Rewritten(worker.cmd, status)
<1> DEFINE i == worker.cmd
           n == Current.attempts + 1
<1>0. PICK conflict \in {FALSE, worker.pc = "register"} :
          commands' = [commands EXCEPT ![i] = [commands[i] EXCEPT
              !.status = IF conflict \/ Exhausted(n) THEN "FAILED" ELSE "PENDING", !.attempts = n, !.due = FALSE]]
    BY DEF GiveUpOrRetry
<1> DEFINE status == IF conflict \/ Exhausted(n) THEN "FAILED" ELSE "PENDING"
           c == [commands[i] EXCEPT !.status = status, !.attempts = n, !.due = FALSE]
<1>1. SyncTypeOK /\ i \in DOMAIN commands
    BY DEF SyncInv, Knows
<1>2. commands[i] \in Command /\ n \in Nat
    BY <1>1, Commands DEF Current
<1>3. status \in {"FAILED", "PENDING"}
    OBVIOUS
<1>4. commands' = [commands EXCEPT ![i] = c]
    BY <1>0
<1> HIDE DEF n, status
<1>5. /\ c \in Command /\ c.status = status
      /\ c.type = commands[i].type /\ c.new = commands[i].new /\ c.old = commands[i].old
    BY <1>2, <1>3 DEF Command
<1> HIDE DEF c, i
<1>6. Rewritten(i, c.status)
    BY <1>1, <1>4, <1>5, Rewrite
<1> QED BY <1>3, <1>5, <1>6 DEF i

\* A command becomes due when its backoff is over.
LEMMA BackoffWrites ==
    ASSUME SyncTypeOK, BecomesDue
    PROVE  \E i \in DOMAIN commands : commands[i].status = "PENDING" /\ Rewritten(i, "PENDING")
<1>1. PICK i \in DOMAIN commands :
          /\ commands[i].status = "PENDING"
          /\ commands' = [commands EXCEPT ![i].due = TRUE]
    BY DEF BecomesDue, WithStatus
<1> DEFINE c == [commands[i] EXCEPT !.due = TRUE]
<1>2. commands[i] \in Command
    BY Commands
<1>3. /\ c \in Command /\ c.status = "PENDING"
      /\ c.type = commands[i].type /\ c.new = commands[i].new /\ c.old = commands[i].old
    BY <1>1, <1>2 DEF Command
<1>4. commands' = [commands EXCEPT ![i] = c]
    BY <1>1
<1> HIDE DEF c
<1>5. Rewritten(i, c.status)
    BY <1>3, <1>4, Rewrite
<1> QED BY <1>1, <1>3, <1>5

\* enqueueServiceCommand finds a command that waits, or adds one.
LEMMA EnqueueWrites ==
    ASSUME SyncTypeOK, NEW k \in Clients, Enqueue(k)
    PROVE  \/ commands' = commands
           \/ \E n \in Nat : Added(n, client[k]) /\ n > Len(commands)
<1>1. CASE commands' = commands
    BY <1>1
<1>2. CASE commands' # commands
    <2> DEFINE c == [type |-> client[k].type, new |-> client[k].new, old |-> client[k].old,
                     attempts |-> 0, due |-> TRUE, status |-> "PENDING"]
    <2>1. client[k] \in ClientType
        BY DEF SyncTypeOK
    <2>2. c \in Command
        BY <2>1 DEF ClientType, Command
    <2>3. commands' = Append(commands, c)
        BY <1>2 DEF Enqueue
    <2>4. commands \in Seq(Command) /\ Len(commands) \in Nat
        BY DEF SyncTypeOK
    <2> HIDE DEF c
    <2>5. /\ commands' \in Seq(Command) /\ DOMAIN commands' = DOMAIN commands \cup {Len(commands) + 1}
          /\ \A j \in DOMAIN commands : commands'[j] = commands[j]
          /\ commands'[Len(commands) + 1] = c /\ Len(commands) + 1 \notin DOMAIN commands
        BY <2>2, <2>3, <2>4
    <2>6. Added(Len(commands) + 1, client[k])
        BY <2>5 DEF Added, c
    <2> QED BY <2>4, <2>6
<1> QED BY <1>1, <1>2

-----------------------------------------------------------------------------

\* The user is provisioned and no command waits.
LEMMA InitSync == SyncInit => SyncInv
<1> SUFFICES ASSUME SyncInit PROVE SyncInv
    OBVIOUS
<1>1. SyncTypeOK
    BY SyncAssumption
       DEF SyncInit, SyncTypeOK, Histories, Accounts, First, Pair, Idle, ClientType, Types, OrNobody, Resting, WorkerType
<1>2. Payloads
    BY DEF SyncInit, Payloads, Payload, Idle
<1>3. Knows
    BY DEF SyncInit, Knows, Resting
<1> QED BY <1>1, <1>2, <1>3 DEF SyncInv

\* What a request is that begins.
LEMMA RequestIs ==
    ASSUME NEW pc \in {"clear", "create", "enqueue", "remove"}, NEW type \in Types,
           NEW new \in OrNobody, NEW old \in OrNobody
    PROVE  LET z == Request(pc, type, new, old) IN
           /\ z \in ClientType
           /\ z.pc = pc /\ z.type = type /\ z.new = new /\ z.old = old /\ z.seen = {} /\ ~z.form
BY DEF Request, Idle, ClientType, Types, OrNobody

\* What a request that begins has in hand.
Begun(z) ==
    /\ z \in ClientType /\ Payload(z)
    /\ z.pc = "clear" => /\ z.type = "PROP_ROTATION" /\ ~InUse(z.new)
                         /\ ~z.form => z.seen = {p \in Props : row[p] = "active"}
    /\ z.pc # "clear" \/ z.form => z.seen = {}
    /\ z.form => z.pc = "clear" \/ (z.pc = "create" /\ z.type = "BROKER_ADD")
    /\ z.pc = "create" => z.type \in {"BROKER_ADD", "BROKER_REPLACE"} /\ ~InUse(z.new)
    /\ z.pc = "create" /\ z.type = "BROKER_REPLACE" => row[z.old] = "active"
    /\ z.pc = "remove" => /\ z.type = "BROKER_ADD" /\ z.new \in Brokers
                          /\ Exists(z.new) /\ z.new \notin recorded
    /\ z.pc = "enqueue" => \/ z.type = "SET_HEDGE_BROKER" /\ row[z.new] = "active"
                           \/ z.type = "DELETE" /\ z.new = Nobody
    /\ z.pc \in {"clear", "create", "remove", "enqueue"}

\* The requests, by what they begin with.
Begins(k) ==
    CreateProp(k) \/ CreateBroker(k) \/ ReplaceBroker(k) \/ SetHedgeBroker(k)
    \/ DeleteBroker(k) \/ DeleteService(k) \/ OnboardProp(k) \/ OnboardBroker(k)

\* Each of the requests of the client begins with what it has checked.
LEMMA WhatBegins ==
    ASSUME SyncTypeOK, NEW k \in Clients, Begins(k)
    PROVE  \E z \in ClientType : Begun(z) /\ Begin(k, z)
<1> USE DEF Types, OrNobody, Accounts
<1>1. CASE CreateProp(k)
    <2>1. PICK new \in Props :
              /\ ~InUse(new)
              /\ Begin(k, [Request("clear", "PROP_ROTATION", new, Nobody) EXCEPT
                              !.seen = {p \in Props : row[p] = "active"}])
        BY <1>1 DEF CreateProp
    <2> DEFINE r == Request("clear", "PROP_ROTATION", new, Nobody)
               z == [r EXCEPT !.seen = {p \in Props : row[p] = "active"}]
    <2>2. /\ r \in ClientType /\ ~r.form
          /\ r.pc = "clear" /\ r.type = "PROP_ROTATION" /\ r.new = new
        BY RequestIs
    <2> HIDE DEF r
    <2>3. /\ z \in ClientType /\ z.seen = {p \in Props : row[p] = "active"} /\ ~z.form
          /\ z.pc = "clear" /\ z.type = "PROP_ROTATION" /\ z.new = new
        BY <2>2 DEF ClientType
    <2>4. Begin(k, z)
        BY <2>1 DEF r
    <2> HIDE DEF z
    <2>5. Begun(z)
        BY <2>1, <2>3 DEF Begun, Payload
    <2> QED BY <2>3, <2>4, <2>5
<1>2. CASE CreateBroker(k)
    <2>1. PICK new \in Brokers : ~InUse(new) /\ Begin(k, Request("create", "BROKER_ADD", new, Nobody))
        BY <1>2 DEF CreateBroker
    <2> DEFINE z == Request("create", "BROKER_ADD", new, Nobody)
    <2>2. /\ z \in ClientType
          /\ z.pc = "create" /\ z.type = "BROKER_ADD" /\ z.new = new /\ z.seen = {} /\ ~z.form
        BY RequestIs
    <2> HIDE DEF z
    <2>3. Begun(z)
        BY <2>1, <2>2 DEF Begun, Payload
    <2> QED BY <2>1, <2>2, <2>3 DEF z
<1>3. CASE ReplaceBroker(k)
    <2>1. PICK old \in Brokers, new \in Brokers :
              row[old] = "active" /\ ~InUse(new) /\ Begin(k, Request("create", "BROKER_REPLACE", new, old))
        BY <1>3 DEF ReplaceBroker
    <2> DEFINE z == Request("create", "BROKER_REPLACE", new, old)
    <2>2. /\ z \in ClientType
          /\ z.pc = "create" /\ z.type = "BROKER_REPLACE" /\ z.new = new /\ z.old = old /\ z.seen = {} /\ ~z.form
        BY RequestIs
    <2> HIDE DEF z
    <2>3. Begun(z)
        BY <2>1, <2>2 DEF Begun, Payload
    <2> QED BY <2>1, <2>2, <2>3 DEF z
<1>4. CASE SetHedgeBroker(k)
    <2>1. PICK b \in Brokers :
              row[b] = "active" /\ Begin(k, Request("enqueue", "SET_HEDGE_BROKER", b, Nobody))
        BY <1>4 DEF SetHedgeBroker
    <2> DEFINE z == Request("enqueue", "SET_HEDGE_BROKER", b, Nobody)
    <2>2. /\ z \in ClientType
          /\ z.pc = "enqueue" /\ z.type = "SET_HEDGE_BROKER" /\ z.new = b /\ z.seen = {} /\ ~z.form
        BY RequestIs
    <2> HIDE DEF z
    <2>3. Begun(z)
        BY <2>1, <2>2 DEF Begun, Payload
    <2> QED BY <2>1, <2>2, <2>3 DEF z
<1>5. CASE DeleteBroker(k)
    <2>1. PICK b \in Brokers :
              Exists(b) /\ b \notin recorded /\ Begin(k, Request("remove", "BROKER_ADD", b, Nobody))
        BY <1>5 DEF DeleteBroker
    <2> DEFINE z == Request("remove", "BROKER_ADD", b, Nobody)
    <2>2. /\ z \in ClientType
          /\ z.pc = "remove" /\ z.type = "BROKER_ADD" /\ z.new = b /\ z.seen = {} /\ ~z.form
        BY RequestIs
    <2> HIDE DEF z
    <2>3. Begun(z)
        BY <2>1, <2>2 DEF Begun, Payload
    <2> QED BY <2>1, <2>2, <2>3 DEF z
<1>6. CASE DeleteService(k)
    <2> DEFINE z == Request("enqueue", "DELETE", Nobody, Nobody)
    <2>2. /\ z \in ClientType
          /\ z.pc = "enqueue" /\ z.type = "DELETE" /\ z.new = Nobody /\ z.seen = {} /\ ~z.form
        BY RequestIs
    <2>1. Begin(k, z)
        BY <1>6 DEF DeleteService
    <2> HIDE DEF z
    <2>3. Begun(z)
        BY <2>1, <2>2 DEF Begun, Payload
    <2> QED BY <2>1, <2>2, <2>3
<1>7. CASE OnboardProp(k)
    <2>1. PICK new \in Props :
              ~InUse(new) /\ Begin(k, [Request("clear", "PROP_ROTATION", new, Nobody) EXCEPT !.form = TRUE])
        BY <1>7 DEF OnboardProp
    <2> DEFINE r == Request("clear", "PROP_ROTATION", new, Nobody)
               z == [r EXCEPT !.form = TRUE]
    <2>2. r \in ClientType /\ r.pc = "clear" /\ r.type = "PROP_ROTATION" /\ r.new = new /\ r.seen = {}
        BY RequestIs
    <2> HIDE DEF r
    <2>3. /\ z \in ClientType /\ z.seen = {} /\ z.form
          /\ z.pc = "clear" /\ z.type = "PROP_ROTATION" /\ z.new = new
        BY <2>2 DEF ClientType
    <2>4. Begin(k, z)
        BY <2>1 DEF r
    <2> HIDE DEF z
    <2>5. Begun(z)
        BY <2>1, <2>3 DEF Begun, Payload
    <2> QED BY <2>3, <2>4, <2>5
<1>8. CASE OnboardBroker(k)
    <2>1. PICK new \in Brokers :
              ~InUse(new) /\ Begin(k, [Request("create", "BROKER_ADD", new, Nobody) EXCEPT !.form = TRUE])
        BY <1>8 DEF OnboardBroker
    <2> DEFINE r == Request("create", "BROKER_ADD", new, Nobody)
               z == [r EXCEPT !.form = TRUE]
    <2>2. r \in ClientType /\ r.pc = "create" /\ r.type = "BROKER_ADD" /\ r.new = new /\ r.seen = {}
        BY RequestIs
    <2> HIDE DEF r
    <2>3. /\ z \in ClientType /\ z.seen = {} /\ z.form
          /\ z.pc = "create" /\ z.type = "BROKER_ADD" /\ z.new = new
        BY <2>2 DEF ClientType
    <2>4. Begin(k, z)
        BY <2>1 DEF r
    <2> HIDE DEF z
    <2>5. Begun(z)
        BY <2>1, <2>3 DEF Begun, Payload
    <2> QED BY <2>3, <2>4, <2>5
<1> QED BY <1>1, <1>2, <1>3, <1>4, <1>5, <1>6, <1>7, <1>8 DEF Begins

\* A request that goes on is the same one until it ends.
LEMMA GoesOn ==
    ASSUME SyncTypeOK, NEW k \in Clients,
           ClearProps(k) \/ CreateRow(k) \/ ArchiveOld(k) \/ RemoveRow(k) \/ Enqueue(k)
    PROVE  \E z \in ClientType :
               /\ client' = [client EXCEPT ![k] = z]
               /\ \/ z = Idle
                  \/ /\ z.type = client[k].type /\ z.new = client[k].new /\ z.old = client[k].old
                     /\ z.seen = client[k].seen /\ z.form = client[k].form
                     /\ \/ ClearProps(k) /\ z.pc = "create"
                        \/ CreateRow(k) /\ ~z.form /\ z.pc = IF client[k].type = "BROKER_REPLACE" THEN "archive" ELSE "enqueue"
                        \/ ArchiveOld(k) /\ z.pc = "enqueue"
<1>1. client[k] \in ClientType /\ Idle \in ClientType
    BY SyncAssumption DEF SyncTypeOK, ClientType, Idle, Types, OrNobody
<1>2. ASSUME NEW pc \in {"create", "archive", "enqueue"}, GoOn(k, pc)
      PROVE  \E z \in ClientType :
                 /\ client' = [client EXCEPT ![k] = z] /\ z.pc = pc
                 /\ z.type = client[k].type /\ z.new = client[k].new /\ z.old = client[k].old
                 /\ z.seen = client[k].seen /\ z.form = client[k].form
    <2> DEFINE z == [client[k] EXCEPT !.pc = pc]
    <2>1. /\ z \in ClientType /\ z.pc = pc
          /\ z.type = client[k].type /\ z.new = client[k].new /\ z.old = client[k].old
          /\ z.seen = client[k].seen /\ z.form = client[k].form
        BY <1>1 DEF ClientType
    <2>2. client' = [client EXCEPT ![k] = z]
        BY <1>2 DEF GoOn
    <2> QED BY <2>1, <2>2
<1>3. CASE ClearProps(k)
    BY <1>2, <1>3 DEF ClearProps
<1>4. CASE CreateRow(k)
    BY <1>1, <1>2, <1>4 DEF CreateRow
<1>5. CASE ArchiveOld(k)
    BY <1>1, <1>2, <1>5 DEF ArchiveOld
<1>6. CASE RemoveRow(k) \/ Enqueue(k)
    BY <1>1, <1>6 DEF RemoveRow, Enqueue
<1> QED BY <1>3, <1>4, <1>5, <1>6

\* A step of one request leaves the others alone.
LEMMA ClientSet ==
    ASSUME SyncTypeOK, NEW k \in Clients, NEW z \in ClientType, client' = [client EXCEPT ![k] = z]
    PROVE  /\ client' \in [Clients -> ClientType] /\ client'[k] = z
           /\ \A j \in Clients \ {k} : client'[j] = client[j]
BY DEF SyncTypeOK

\* An edit of a prop account writes its row, and says so in the history.
LEMMA EditWrites ==
    ASSUME SyncTypeOK, NEW k \in Clients, EditProp(k)
    PROVE  /\ UNCHANGED <<recorded, registered, provision, hedge, commands, client, worker, failures>>
           /\ row' \in [Accounts -> {"none", "active", "archived", "deleted"}]
           /\ \A a \in Accounts : row'[a] = row[a] \/ (a \in Props /\ Exists(a) /\ Exists(a)')
           /\ requests' \in Nat /\ raced' \subseteq Histories /\ raced \subseteq raced'
           /\ "unsynced" \in raced'
           /\ Overlaps => "requests" \in raced'
<1>1. PICK p \in Props : Exists(p) /\ row' = [row EXCEPT ![p] = IF row[p] = "active" THEN "archived" ELSE "active"]
    BY DEF EditProp
<1>2. p \in Accounts
    BY DEF Accounts
<1>3. \A a \in Accounts : row'[a] = row[a] \/ (a \in Props /\ Exists(a) /\ Exists(a)')
    BY <1>1, <1>2 DEF SyncTypeOK, Exists
<1> QED BY <1>1, <1>2, <1>3 DEF EditProp, SyncTypeOK, Histories, rows, hedging

\* The queue goes on with what the worker knows of it.
LEMMA QueueGrows ==
    ASSUME SyncInv, NEW k \in Clients, UNCHANGED <<worker, provision, hedge>>,
           commands' = commands \/ \E n \in Nat : Added(n, client[k])
    PROVE  commands' \in Seq(Command) /\ (\A i \in DOMAIN commands' : Payload(commands'[i])) /\ Knows'
<1>0. SyncTypeOK /\ Payloads /\ Knows
    BY DEF SyncInv
<1>1. CASE commands' = commands
    BY <1>0, <1>1 DEF SyncTypeOK, Payloads, Knows, Current
<1>2. CASE \E n \in Nat : Added(n, client[k])
    <2>1. PICK n \in Nat : Added(n, client[k])
        BY <1>2
    <2>2. \A i \in DOMAIN commands' : Payload(commands'[i])
        BY <1>0, <2>1 DEF Added, Payloads, Payload
    <2>3. worker.pc # "idle" => worker.cmd \in DOMAIN commands' /\ Current' = Current
        BY <1>0, <2>1 DEF Added, Knows, Current
    <2>4. Knows'
        BY <1>0, <2>3 DEF Knows
    <2> QED BY <2>1, <2>2, <2>4 DEF Added
<1> QED BY <1>1, <1>2

\* The requests of the client know what SyncInv says.
LEMMA ClientSync ==
    ASSUME SyncInv, NEW k \in Clients, ClientStep(k)
    PROVE  SyncInv'
<1>0. SyncTypeOK /\ Payloads
    BY DEF SyncInv
<1>1. ASSUME NEW z \in ClientType, client' = [client EXCEPT ![k] = z], Payload(z)
      PROVE  client' \in [Clients -> ClientType] /\ \A j \in Clients : Payload(client'[j])
    BY <1>0, <1>1, ClientSet DEF Payloads
<1>2. Payload(Idle) /\ Payload(client[k])
    BY <1>0 DEF Payload, Payloads, Idle
<1>3. CASE Begins(k)
    <2>1. PICK z \in ClientType : Begun(z) /\ Begin(k, z)
        BY <1>0, <1>3, WhatBegins
    <2>2. client' \in [Clients -> ClientType] /\ \A j \in Clients : Payload(client'[j])
        BY <1>1, <2>1 DEF Begin, Begun
    <2>3. UNCHANGED <<row, recorded, registered, provision, hedge, commands, worker, failures>>
        BY <2>1 DEF Begin, rows, hedging
    <2>4. requests' \in Nat /\ raced' \subseteq Histories
        BY <1>0, <2>1 DEF Begin, SyncTypeOK, Histories
    <2>5. commands' \in Seq(Command) /\ (\A i \in DOMAIN commands' : Payload(commands'[i])) /\ Knows'
        BY <2>3, QueueGrows
    <2>6. SyncTypeOK'
        BY <1>0, <2>2, <2>3, <2>4, <2>5 DEF SyncTypeOK
    <2> QED BY <2>2, <2>5, <2>6 DEF SyncInv, Payloads
<1>4. CASE ClearProps(k) \/ CreateRow(k) \/ ArchiveOld(k) \/ RemoveRow(k) \/ Enqueue(k)
    <2>1. client' \in [Clients -> ClientType] /\ \A j \in Clients : Payload(client'[j])
        <3>1. PICK z \in ClientType :
                  /\ client' = [client EXCEPT ![k] = z]
                  /\ z = Idle \/ (z.type = client[k].type /\ z.new = client[k].new /\ z.old = client[k].old)
            BY <1>0, <1>4, GoesOn
        <3>2. Payload(z)
            BY <1>2, <3>1 DEF Payload
        <3> QED BY <1>1, <3>1, <3>2
    <2>2. UNCHANGED <<registered, provision, hedge, worker, requests, failures, raced>>
        BY <1>4 DEF ClearProps, CreateRow, ArchiveOld, RemoveRow, Enqueue, RequestOnly, hedging
    <2>3. commands' = commands \/ \E n \in Nat : Added(n, client[k])
        BY <1>0, <1>4, EnqueueWrites DEF ClearProps, CreateRow, ArchiveOld, RemoveRow
    <2>4. commands' \in Seq(Command) /\ (\A i \in DOMAIN commands' : Payload(commands'[i])) /\ Knows'
        BY <2>2, <2>3, QueueGrows
    <2>5. row' \in [Accounts -> {"none", "active", "archived", "deleted"}] /\ recorded' \subseteq Accounts
        BY <1>0, <1>4 DEF SyncTypeOK, ClearProps, CreateRow, ArchiveOld, RemoveRow, Enqueue, rows
    <2>6. SyncTypeOK'
        BY <1>0, <2>1, <2>2, <2>4, <2>5 DEF SyncTypeOK
    <2> QED BY <2>1, <2>4, <2>6 DEF SyncInv, Payloads
<1>5. CASE EditProp(k)
    <2>1. /\ UNCHANGED <<recorded, registered, provision, hedge, commands, client, worker, failures>>
          /\ row' \in [Accounts -> {"none", "active", "archived", "deleted"}]
          /\ requests' \in Nat /\ raced' \subseteq Histories
        BY <1>0, <1>5, EditWrites
    <2>2. SyncTypeOK'
        BY <1>0, <2>1 DEF SyncTypeOK
    <2>3. commands' \in Seq(Command) /\ (\A i \in DOMAIN commands' : Payload(commands'[i])) /\ Knows'
        BY <2>1, QueueGrows
    <2> QED BY <1>0, <2>1, <2>2, <2>3 DEF SyncInv, Payloads
<1> QED BY <1>3, <1>4, <1>5 DEF ClientStep, Begins

-----------------------------------------------------------------------------

\* The executor goes on with the command it has.
LEMMA Proceeds ==
    ASSUME SyncTypeOK, NEW pc \in {"find", "register", "record", "remove", "provision", "hedge", "list",
                               "erase", "forget", "end", "complete"}, Proceed(pc)
    PROVE  /\ worker' \in WorkerType /\ worker'.pc = pc /\ worker'.cmd = worker.cmd
           /\ worker'.provision = worker.provision /\ worker'.hedge = worker.hedge
BY DEF SyncTypeOK, Proceed, WorkerType

\* A worker that rests has no command.
LEMMA Rests == Resting \in WorkerType /\ Resting.pc = "idle"
BY SyncAssumption DEF Resting, WorkerType, First, Pair

\* The command of the worker, and the accounts it names.
LEMMA CurrentIs ==
    ASSUME SyncInv, worker.pc # "idle"
    PROVE  /\ Current \in Command /\ Payload(Current) /\ Current.status = "RUNNING"
           /\ worker.cmd \in DOMAIN commands
           /\ Current.type \in Creating => New \in Accounts
           /\ Current.type \in Hedging => /\ Kind = "prop" => New \in Props
                                          /\ Kind # "prop" => New \in Brokers /\ Kind = "broker"
<1>1. worker.cmd \in DOMAIN commands /\ Current.status = "RUNNING"
    BY DEF SyncInv, Knows
<1>2. Current \in Command /\ Payload(Current)
    BY <1>1, Commands DEF SyncInv, Payloads, Current
<1> QED BY <1>1, <1>2 DEF Payload, Creating, Hedging, Kind, New, Accounts

\* A statement that writes one account of the pair.
LEMMA PairSet ==
    ASSUME NEW p \in Pair, NEW a
    PROVE  /\ a \in Props => /\ [p EXCEPT !["prop"] = a] \in Pair /\ [p EXCEPT !["prop"] = a].prop = a
                             /\ [p EXCEPT !["prop"] = a].broker = p.broker
                             /\ [p EXCEPT !["prop"] = a].ended = p.ended
           /\ a \in Brokers => /\ [p EXCEPT !["broker"] = a] \in Pair /\ [p EXCEPT !["broker"] = a].broker = a
                               /\ [p EXCEPT !["broker"] = a].prop = p.prop
                               /\ [p EXCEPT !["broker"] = a].ended = p.ended
BY DEF Pair

\* The queue when one command has another status.
LEMMA PayloadsStay ==
    ASSUME SyncInv, NEW i \in DOMAIN commands, NEW status, Rewritten(i, status), UNCHANGED client
    PROVE  Payloads'
<1>1. \A j \in DOMAIN commands : Payload(commands[j]) => Payload(commands'[j])
    BY DEF Rewritten, Payload
<1>2. \A j \in DOMAIN commands' : Payload(commands'[j])
    BY <1>1 DEF SyncInv, Payloads, Rewritten
<1> QED BY <1>2 DEF SyncInv, Payloads

\* A change of a status leaves what the worker knows.
LEMMA QueueSync ==
    ASSUME SyncInv, Requeue \/ StartCommand \/ BecomesDue
    PROVE  SyncInv'
<1>0. SyncTypeOK /\ Knows
    BY DEF SyncInv
<1>1. CASE Requeue
    <2>1. PICK i \in DOMAIN commands : Rewritten(i, "PENDING")
        BY <1>0, <1>1, RequeueWrites
    <2>2. /\ UNCHANGED <<row, recorded, registered, provision, hedge, worker, client, requests, failures, raced>>
          /\ worker.pc = "idle"
        BY <1>1 DEF Requeue, rows, hedging, WorkerOnly
    <2>3. Payloads'
        BY <2>1, <2>2, PayloadsStay
    <2>4. SyncTypeOK'
        BY <1>0, <2>1, <2>2 DEF SyncTypeOK, Rewritten
    <2> QED BY <2>2, <2>3, <2>4 DEF SyncInv, Knows
<1>2. CASE StartCommand
    <2>1. PICK i \in DOMAIN commands :
              /\ Rewritten(i, "RUNNING")
              /\ worker' \in WorkerType /\ worker'.pc = "context" /\ worker'.cmd = i
        BY <1>0, <1>2, StartWrites
    <2>2. UNCHANGED <<row, recorded, registered, provision, hedge, client, requests, failures, raced>>
        BY <1>2 DEF StartCommand, rows, hedging, WorkerOnly
    <2>3. Payloads'
        BY <2>1, <2>2, PayloadsStay
    <2>4. SyncTypeOK'
        BY <1>0, <2>1, <2>2 DEF SyncTypeOK, Rewritten
    <2>5. Knows'
        BY <2>1 DEF Knows, Rewritten, Current
    <2> QED BY <2>3, <2>4, <2>5 DEF SyncInv
<1>3. CASE BecomesDue
    <2>1. PICK i \in DOMAIN commands : commands[i].status = "PENDING" /\ Rewritten(i, "PENDING")
        BY <1>0, <1>3, BackoffWrites
    <2>2. UNCHANGED <<row, recorded, registered, provision, hedge, worker, client, requests, failures, raced>>
        BY <1>3 DEF BecomesDue, rows, hedging, WorkerOnly
    <2>3. Payloads'
        BY <2>1, <2>2, PayloadsStay
    <2>4. SyncTypeOK'
        BY <1>0, <2>1, <2>2 DEF SyncTypeOK, Rewritten
    <2>5. worker.pc # "idle" => /\ worker.cmd \in DOMAIN commands'
                                /\ Current'.status = Current.status /\ Current'.type = Current.type
        BY <1>0, <2>1, <2>2 DEF Rewritten, Knows, Current
    <2>6. Knows'
        BY <1>0, <2>2, <2>5 DEF Knows
    <2> QED BY <2>3, <2>4, <2>6 DEF SyncInv
<1> QED BY <1>1, <1>2, <1>3

\* The command of the worker ends, is given up or is to be tried again.
LEMMA EndSync ==
    ASSUME SyncInv, Complete \/ Refused \/ StepFails
    PROVE  SyncInv'
<1>0. SyncTypeOK /\ Knows
    BY DEF SyncInv
<1>1. worker.pc # "idle" /\ worker' = Resting
    BY DEF Complete, Refused, StepFails, GiveUpOrRetry
<1>2. PICK status : Rewritten(worker.cmd, status)
    BY <1>1, CompleteWrites, FailureWrites DEF Refused, StepFails
<1>3. UNCHANGED <<row, recorded, registered, provision, hedge, client, requests, raced>> /\ failures' \in Nat
    BY <1>0 DEF Complete, Refused, StepFails, rows, hedging, WorkerOnly, SyncTypeOK
<1>4. Payloads'
    BY <1>2, <1>3, PayloadsStay DEF Rewritten
<1>5. SyncTypeOK'
    BY <1>0, <1>1, <1>2, <1>3, Rests DEF SyncTypeOK, Rewritten
<1>6. Knows'
    BY <1>1, Rests DEF Knows
<1> QED BY <1>4, <1>5, <1>6 DEF SyncInv

\* The executors know what SyncInv says.
LEMMA WorkerSync ==
    ASSUME SyncInv, WorkerStep
    PROVE  SyncInv'
<1>0. SyncTypeOK /\ Knows
    BY DEF SyncInv
<1>1. CASE Complete \/ Refused \/ StepFails
    BY <1>1, EndSync
<1>2. ASSUME UNCHANGED <<row, client, commands, requests>>, failures' \in Nat,
             recorded' \subseteq Accounts, registered' \subseteq Accounts,
             provision' \in Pair, hedge' \in Pair, worker' \in WorkerType,
             raced' \subseteq Histories, Knows'
      PROVE  SyncInv'
    <2>1. SyncTypeOK'
        BY <1>0, <1>2 DEF SyncTypeOK
    <2>2. Payloads'
        BY <1>2 DEF SyncInv, Payloads
    <2> QED BY <1>2, <2>1, <2>2 DEF SyncInv
<1>3. CASE ReadContext
    <2>1. /\ worker' \in WorkerType /\ worker'.cmd = worker.cmd
          /\ worker'.provision = provision /\ worker'.hedge = hedge
          /\ worker'.pc = IF Current.type = "DELETE" THEN "list" ELSE "find"
        BY <1>0, <1>3 DEF ReadContext, SyncTypeOK, WorkerType
    <2>2. UNCHANGED <<row, recorded, registered, provision, hedge, client, commands, requests, failures, raced>>
        BY <1>3 DEF ReadContext, rows, hedging, WorkerOnly
    <2>3. Current' = Current
        BY <2>1, <2>2 DEF Current
    <2>4. Knows'
        BY <1>0, <1>3, <2>1, <2>2, <2>3 DEF Knows, ReadContext
    <2> QED BY <1>0, <1>2, <2>1, <2>2, <2>4 DEF SyncTypeOK
<1>4. CASE FindRow
    <2>1. PICK pc \in {"hedge", "register"} :
              Proceed(pc) /\ (pc = "hedge" <=> Current.type = "SET_HEDGE_BROKER")
        BY <1>4 DEF FindRow
    <2>2. UNCHANGED <<row, recorded, registered, provision, hedge, client, commands, requests, failures, raced>>
        BY <1>4 DEF FindRow, rows, hedging, WorkerOnly
    <2>3. /\ worker' \in WorkerType /\ worker'.pc = pc /\ worker'.cmd = worker.cmd
          /\ worker'.provision = worker.provision /\ worker'.hedge = worker.hedge
        BY <1>0, <2>1, Proceeds
    <2>4. Current' = Current
        BY <2>2, <2>3 DEF Current
    <2>5. Current.type \in Creating \cup {"SET_HEDGE_BROKER"}
        BY <1>0, <1>4, CurrentIs DEF FindRow, Knows, Command, Types, Creating
    <2>6. Knows'
        BY <1>0, <1>4, <2>1, <2>2, <2>3, <2>4, <2>5 DEF Knows, FindRow, Hedging, Creating
    <2> QED BY <1>0, <1>2, <2>2, <2>3, <2>6 DEF SyncTypeOK
<1>5. CASE Register
    <2>1. /\ worker' \in WorkerType /\ worker'.pc = "record" /\ worker'.cmd = worker.cmd
          /\ worker'.provision = worker.provision /\ worker'.hedge = worker.hedge
        BY <1>0, <1>5, Proceeds DEF Register
    <2>2. UNCHANGED <<row, recorded, provision, hedge, client, commands, requests, failures, raced>>
        BY <1>5 DEF Register, rows, WorkerOnly
    <2>3. Current' = Current
        BY <2>1, <2>2 DEF Current
    <2>4. registered' \subseteq Accounts
        BY <1>0, <1>5, CurrentIs DEF Register, SyncTypeOK, Knows
    <2>5. Knows'
        BY <1>0, <1>5, <2>1, <2>2, <2>3 DEF Knows, Register
    <2> QED BY <1>0, <1>2, <2>1, <2>2, <2>4, <2>5 DEF SyncTypeOK
<1>6. CASE Record
    <2>1. PICK pc \in {"complete", "remove"} : Proceed(pc) /\ (pc = "complete" <=> Current.type = "BROKER_ADD")
        BY <1>6 DEF Record
    <2>2. /\ worker' \in WorkerType /\ worker'.pc = pc /\ worker'.cmd = worker.cmd
          /\ worker'.provision = worker.provision /\ worker'.hedge = worker.hedge
        BY <1>0, <2>1, Proceeds
    <2>3. UNCHANGED <<row, registered, provision, hedge, client, commands, requests, failures, raced>>
        BY <1>6 DEF Record, hedging, WorkerOnly
    <2>4. Current' = Current
        BY <2>2, <2>3 DEF Current
    <2>5. recorded' \subseteq Accounts
        BY <1>0, <1>6, CurrentIs DEF Record, SyncTypeOK, Knows
    <2>6. Knows'
        BY <1>0, <1>6, <2>1, <2>2, <2>3, <2>4 DEF Knows, Record, Creating, Replacing
    <2> QED BY <1>0, <1>2, <2>2, <2>3, <2>5, <2>6 DEF SyncTypeOK
<1>7. CASE RemoveSuperseded
    <2>1. /\ worker' \in WorkerType /\ worker'.pc = "provision" /\ worker'.cmd = worker.cmd
          /\ worker'.provision = worker.provision /\ worker'.hedge = worker.hedge
        BY <1>0, <1>7, Proceeds DEF RemoveSuperseded
    <2>2. UNCHANGED <<row, recorded, provision, hedge, client, commands, requests, failures>>
        BY <1>7 DEF RemoveSuperseded, rows
    <2>3. Current' = Current
        BY <2>1, <2>2 DEF Current
    <2>4. registered' \subseteq Accounts /\ raced' \subseteq Histories
        BY <1>0, <1>7 DEF RemoveSuperseded, SyncTypeOK, Histories
    <2>5. Knows'
        BY <1>0, <1>7, <2>1, <2>2, <2>3 DEF Knows, RemoveSuperseded, Replacing, Hedging
    <2> QED BY <1>0, <1>2, <2>1, <2>2, <2>4, <2>5 DEF SyncTypeOK
<1>8. CASE WriteProvision
    <2>1. PICK pc \in {"complete", "hedge"} : Proceed(pc)
        BY <1>8 DEF WriteProvision
    <2>2. /\ worker' \in WorkerType /\ worker'.pc = pc /\ worker'.cmd = worker.cmd
          /\ worker'.provision = worker.provision /\ worker'.hedge = worker.hedge
        BY <1>0, <2>1, Proceeds
    <2>3. UNCHANGED <<row, recorded, registered, hedge, client, commands, requests, failures, raced>>
        BY <1>8 DEF WriteProvision, rows, WorkerOnly
    <2>4. Current' = Current
        BY <2>2, <2>3 DEF Current
    <2>5. Current.type \in Hedging
        BY <1>0, <1>8 DEF Knows, WriteProvision
    <2>6. provision' \in Pair
        BY <1>0, <1>8, <2>5, CurrentIs, PairSet DEF WriteProvision, SyncTypeOK
    <2>7. Knows'
        BY <1>0, <1>8, <2>2, <2>3, <2>4, <2>5 DEF Knows, WriteProvision, Hedging
    <2> QED BY <1>0, <1>2, <2>2, <2>3, <2>6, <2>7 DEF SyncTypeOK
<1>9. CASE WriteHedge
    <2>1. PICK pc \in {"complete", "provision"} : Proceed(pc)
        BY <1>9 DEF WriteHedge
    <2>2. /\ worker' \in WorkerType /\ worker'.pc = pc /\ worker'.cmd = worker.cmd
          /\ worker'.provision = worker.provision /\ worker'.hedge = worker.hedge
        BY <1>0, <2>1, Proceeds
    <2>3. UNCHANGED <<row, recorded, registered, provision, client, commands, requests, failures, raced>>
        BY <1>9 DEF WriteHedge, rows, WorkerOnly
    <2>4. Current' = Current
        BY <2>2, <2>3 DEF Current
    <2>5. Current.type \in Hedging
        BY <1>0, <1>9 DEF Knows, WriteHedge
    <2>6. hedge' \in Pair /\ hedge'.ended = hedge.ended
        <3>1. hedge \in Pair /\ hedge' \in {hedge, [hedge EXCEPT ![Kind] = New]}
            BY <1>0, <1>9 DEF WriteHedge, Rehedged, SyncTypeOK
        <3>2. CASE Kind = "prop"
            <4>1. New \in Props
                BY <1>9, <2>5, <3>2, CurrentIs DEF WriteHedge
            <4>2. /\ [hedge EXCEPT !["prop"] = New] \in Pair
                  /\ [hedge EXCEPT !["prop"] = New].ended = hedge.ended
                BY <3>1, <4>1, PairSet
            <4> QED BY <3>1, <3>2, <4>2
        <3>3. CASE Kind # "prop"
            <4>1. New \in Brokers /\ Kind = "broker"
                BY <1>9, <2>5, <3>3, CurrentIs DEF WriteHedge
            <4>2. /\ [hedge EXCEPT !["broker"] = New] \in Pair
                  /\ [hedge EXCEPT !["broker"] = New].ended = hedge.ended
                BY <3>1, <4>1, PairSet
            <4> QED BY <3>1, <4>1, <4>2
        <3> QED BY <3>2, <3>3
    <2>7. Knows'
        BY <1>0, <1>9, <2>2, <2>3, <2>4, <2>5, <2>6 DEF Knows, WriteHedge, Hedging
    <2> QED BY <1>0, <1>2, <2>2, <2>3, <2>6, <2>7 DEF SyncTypeOK
<1>10. CASE ListAccounts
    <2>1. /\ worker' \in WorkerType /\ worker'.pc = "erase" /\ worker'.cmd = worker.cmd
          /\ worker'.provision = worker.provision /\ worker'.hedge = worker.hedge
        <3>1. PICK todo : worker' = [worker EXCEPT !.pc = "erase", !.todo = todo]
                          /\ todo \in {registered, {worker.provision.prop, worker.provision.broker},
                                       {worker.hedge.prop, worker.hedge.broker}}
            BY <1>10 DEF ListAccounts
        <3>2. worker.provision \in Pair /\ worker.hedge \in Pair /\ registered \subseteq Accounts
            BY <1>0 DEF SyncTypeOK, WorkerType
        <3>3. todo \subseteq Accounts
            BY <3>1, <3>2 DEF Pair, Accounts
        <3> QED BY <1>0, <3>1, <3>3 DEF SyncTypeOK, WorkerType
    <2>2. UNCHANGED <<row, recorded, registered, provision, hedge, client, commands, requests, raced>>
        BY <1>10 DEF ListAccounts, rows, hedging
    <2>3. Current' = Current /\ failures' \in Nat
        BY <1>0, <1>10, <2>1, <2>2 DEF Current, ListAccounts, SyncTypeOK
    <2>4. Knows'
        BY <1>0, <1>10, <2>1, <2>2, <2>3 DEF Knows, ListAccounts
    <2> QED BY <1>0, <1>2, <2>1, <2>2, <2>3, <2>4 DEF SyncTypeOK
<1>11. CASE EraseAccount
    <2>1. /\ worker' \in WorkerType /\ worker'.pc \in {"erase", "forget"} /\ worker'.cmd = worker.cmd
          /\ worker'.provision = worker.provision /\ worker'.hedge = worker.hedge
        BY <1>0, <1>11, Proceeds DEF EraseAccount, SyncTypeOK, WorkerType
    <2>2. UNCHANGED <<row, recorded, provision, hedge, client, commands, requests, failures, raced>>
        BY <1>11 DEF EraseAccount, rows, WorkerOnly
    <2>3. Current' = Current /\ registered' \subseteq Accounts
        BY <1>0, <1>11, <2>1, <2>2 DEF Current, EraseAccount, SyncTypeOK
    <2>4. Knows'
        BY <1>0, <1>11, <2>1, <2>2, <2>3 DEF Knows, EraseAccount
    <2> QED BY <1>0, <1>2, <2>1, <2>2, <2>3, <2>4 DEF SyncTypeOK
<1>12. CASE ForgetAccounts
    <2>1. /\ worker' \in WorkerType /\ worker'.pc = "end" /\ worker'.cmd = worker.cmd
          /\ worker'.provision = worker.provision /\ worker'.hedge = worker.hedge
        BY <1>0, <1>12, Proceeds DEF ForgetAccounts
    <2>2. UNCHANGED <<row, registered, provision, client, commands, requests, failures, raced>> /\ recorded' = {}
        BY <1>12 DEF ForgetAccounts, WorkerOnly
    <2>3. worker.hedge \in Pair /\ hedge \in Pair
        BY <1>0 DEF SyncTypeOK, WorkerType
    <2>4. hedge' \in Pair /\ hedge'.ended
        BY <1>0, <1>12, <2>3 DEF ForgetAccounts, Pair, Knows
    <2>5. Current' = Current
        BY <2>1, <2>2 DEF Current
    <2>6. Knows'
        BY <1>0, <1>12, <2>1, <2>2, <2>4, <2>5 DEF Knows, ForgetAccounts
    <2> QED BY <1>0, <1>2, <2>1, <2>2, <2>4, <2>6 DEF SyncTypeOK
<1>13. CASE Decommission
    <2>1. /\ worker' \in WorkerType /\ worker'.pc = "complete" /\ worker'.cmd = worker.cmd
          /\ worker'.provision = worker.provision /\ worker'.hedge = worker.hedge
        BY <1>0, <1>13, Proceeds DEF Decommission
    <2>2. UNCHANGED <<row, recorded, registered, hedge, client, commands, requests, failures, raced>>
        BY <1>13 DEF Decommission, rows, WorkerOnly
    <2>3. Current' = Current /\ provision' \in Pair
        BY <1>0, <1>13, <2>1, <2>2 DEF Current, Decommission, SyncTypeOK, Pair
    <2>4. Knows'
        BY <1>0, <1>13, <2>1, <2>2, <2>3 DEF Knows, Decommission
    <2> QED BY <1>0, <1>2, <2>1, <2>2, <2>3, <2>4 DEF SyncTypeOK
<1> QED BY <1>1, <1>3, <1>4, <1>5, <1>6, <1>7, <1>8, <1>9, <1>10, <1>11, <1>12, <1>13 DEF WorkerStep

\* Nothing that was in memory survives a crash.
LEMMA RestartSync ==
    ASSUME SyncInv, Restart
    PROVE  SyncInv'
<1>1. worker' = Resting /\ client' = [k \in Clients |-> Idle]
      /\ UNCHANGED <<row, recorded, registered, provision, hedge, commands, requests, raced>>
    BY DEF Restart, rows, hedging
<1>2. Idle \in ClientType /\ Payload(Idle)
    BY SyncAssumption DEF ClientType, Idle, Types, OrNobody, Payload
<1>3. SyncTypeOK'
    BY <1>1, <1>2, Rests DEF SyncInv, SyncTypeOK, Restart
<1>4. Payloads' /\ Knows'
    BY <1>1, <1>2, Rests DEF SyncInv, Payloads, Knows
<1> QED BY <1>3, <1>4 DEF SyncInv

\* No step makes stale what the worker has read of the context.
LEMMA NextSync == SyncInv /\ [SyncNext]_syncVars => SyncInv'
<1> SUFFICES ASSUME SyncInv, [SyncNext]_syncVars PROVE SyncInv'
    OBVIOUS
<1>1. CASE UNCHANGED syncVars
    BY <1>1 DEF syncVars, rows, hedging, SyncInv, SyncTypeOK, Payloads, Knows, Current
<1> QED BY <1>1, ClientSync, QueueSync, WorkerSync, RestartSync DEF SyncNext

-----------------------------------------------------------------------------

\* A row that is to be created is nobody else's, and what a request has listed
\* exists.
ClientKnows(k) ==
    /\ client[k].pc = "clear" => client[k].type = "PROP_ROTATION"
    /\ client[k].pc = "create" => client[k].type \in Creating
    /\ client[k].pc = "remove" => client[k].type = "BROKER_ADD" /\ row[client[k].new] # "none"
    /\ \A p \in client[k].seen : row[p] # "none"
    /\ client[k].pc \in {"clear", "create"} =>
         /\ row[client[k].new] = "none"
         /\ \A j \in Clients \ {k} : client[j].pc # "idle" => client[j].new # client[k].new

\* An account that is recorded has a row.
RowsInv == /\ \A k \in Clients : ClientKnows(k)
           /\ \A a \in recorded : row[a] # "none"

\* A command that will be executed, unless it is given up.
Waiting(i) == commands[i].status \in {"PENDING", "RUNNING"}

\* No command registers this account, and no request will ask for it.
Unneeded(b) ==
    /\ b \notin recorded /\ row[b] # "none"
    /\ \A i \in DOMAIN commands : Waiting(i) /\ commands[i].type \in Creating => commands[i].new # b
    /\ \A j \in Clients : client[j].pc \in {"create", "archive", "enqueue"} /\ client[j].type \in Creating =>
                              client[j].new # b

\* No account comes to be registered that is being deleted.
RemovalInv == "deletion" \notin raced =>
    \A k \in Clients : client[k].pc = "remove" => Unneeded(client[k].new)

\* No row is forgotten.
RowsStay == \A a \in Accounts : row[a] # "none" => row'[a] # "none"

\* At first nothing is created or deleted.
LEMMA InitRows == SyncInit => RowsInv /\ RemovalInv
<1> SUFFICES ASSUME SyncInit PROVE RowsInv /\ RemovalInv
    OBVIOUS
<1>1. \A k \in Clients : client[k].pc = "idle" /\ client[k].seen = {}
    BY DEF SyncInit, Idle
<1>2. \A a \in recorded : row[a] = "active"
    BY SyncAssumption DEF SyncInit, Accounts
<1> QED BY <1>1, <1>2 DEF RowsInv, ClientKnows, RemovalInv

\* A request names an account, or nobody.
LEMMA NewIs ==
    ASSUME SyncInv, RowsInv, NEW k \in Clients, client[k].pc \in {"clear", "create"}
    PROVE  client[k].new \in Accounts /\ client[k].new # Nobody
BY SyncAssumption DEF SyncInv, Payloads, Payload, RowsInv, ClientKnows, Creating, Accounts

\* A request that begins creates a row that is nobody's.
LEMMA BeginRows ==
    ASSUME SyncInv, RowsInv, NEW k \in Clients, NEW z \in ClientType, Begun(z), Begin(k, z)
    PROVE  RowsInv'
<1>0. SyncTypeOK
    BY DEF SyncInv
<1>1. client'[k] = z /\ (\A j \in Clients \ {k} : client'[j] = client[j]) /\ UNCHANGED <<row, recorded>>
    BY <1>0, ClientSet DEF Begin, rows
<1>2. ClientKnows(k)'
    <2>1. \A p \in z.seen : row[p] # "none"
        BY DEF Begun
    <2>2. z.pc \in {"clear", "create"} => ~InUse(z.new)
        BY DEF Begun
    <2>3. z.pc \in {"clear", "create"} =>
              row[z.new] = "none" /\ \A j \in Clients \ {k} : client[j].pc # "idle" => client[j].new # z.new
        BY <2>2 DEF InUse
    <2>4. /\ z.pc = "clear" => z.type = "PROP_ROTATION"
          /\ z.pc = "create" => z.type \in Creating
          /\ z.pc = "remove" => z.type = "BROKER_ADD" /\ row[z.new] # "none"
        BY DEF Begun, Creating, Exists
    <2> QED BY <1>1, <2>1, <2>3, <2>4 DEF ClientKnows
<1>3. ASSUME NEW j \in Clients \ {k} PROVE ClientKnows(j)'
    <2>1. ASSUME client[j].pc \in {"clear", "create"} PROVE z.new # client[j].new
        <3>1. row[client[j].new] = "none" /\ client[j].new # Nobody
            BY <2>1, NewIs DEF RowsInv, ClientKnows
        <3>2. CASE z.pc \in {"clear", "create"}
            BY <2>1, <3>2 DEF Begun, InUse
        <3>3. CASE z.pc = "remove"
            BY <3>1, <3>3 DEF Begun, Exists
        <3>4. CASE z.pc = "enqueue"
            BY <3>1, <3>4 DEF Begun
        <3> QED BY <3>2, <3>3, <3>4 DEF Begun
    <2> QED BY <1>1, <2>1 DEF RowsInv, ClientKnows
<1> QED BY <1>1, <1>2, <1>3 DEF RowsInv

\* deleteBrokerAccount begins for a broker that no command registers, or the
\* two are counted as a race.
LEMMA BeginRemoval ==
    ASSUME SyncInv, RowsInv, RemovalInv, NEW k \in Clients, NEW z \in ClientType, Begun(z), Begin(k, z)
    PROVE  RemovalInv'
<1>0. SyncTypeOK
    BY DEF SyncInv
<1>1. /\ client'[k] = z /\ (\A j \in Clients \ {k} : client'[j] = client[j])
      /\ UNCHANGED <<row, recorded, commands>>
    BY <1>0, ClientSet DEF Begin, rows
<1>2. "deletion" \notin raced' => "deletion" \notin raced
    BY DEF Begin
<1>3. CASE z.pc = "remove"
    <2>1. SUFFICES ASSUME "deletion" \notin raced' PROVE RemovalInv'
        BY DEF RemovalInv
    <2>2. Unfinished = {} /\ \A j \in Clients : client[j].pc = "idle"
        BY <1>3, <2>1 DEF Begin, Overlaps
    <2>3. \A i \in DOMAIN commands : ~Waiting(i)
        BY <2>2 DEF Unfinished, WithStatus, Waiting
    <2>4. z.new \notin recorded /\ row[z.new] # "none"
        BY <1>3 DEF Begun, Exists
    <2>5. Unneeded(z.new)'
        BY <1>1, <1>3, <2>2, <2>3, <2>4 DEF Unneeded, Waiting
    <2>6. \A j \in Clients : client'[j].pc = "remove" => j = k
        BY <1>1, <2>2
    <2> QED BY <1>1, <2>5, <2>6 DEF RemovalInv
<1>4. CASE z.pc # "remove"
    <2>1. SUFFICES ASSUME "deletion" \notin raced', NEW j \in Clients, client'[j].pc = "remove"
                   PROVE  Unneeded(client[j].new)'
        BY <1>1, <1>4 DEF RemovalInv
    <2>2. client[j].pc = "remove" /\ j # k /\ Unneeded(client[j].new)
        BY <1>1, <1>2, <1>4, <2>1 DEF RemovalInv
    <2>3. z.pc \in {"create", "archive", "enqueue"} /\ z.type \in Creating => z.new # client[j].new
        BY <2>2 DEF Begun, Unneeded, InUse, Creating
    <2>4. Unneeded(client[j].new)'
        BY <1>1, <2>2, <2>3 DEF Unneeded, Waiting
    <2> QED BY <2>4
<1> QED BY <1>3, <1>4

\* The statements of a request write rows of its own.
LEMMA GoesOnRows ==
    ASSUME SyncInv, RowsInv, RemovalInv, NEW k \in Clients,
           ClearProps(k) \/ CreateRow(k) \/ ArchiveOld(k) \/ RemoveRow(k) \/ Enqueue(k)
    PROVE  RowsInv' /\ RemovalInv' /\ RowsStay /\ recorded' \subseteq recorded
<1>0. SyncTypeOK
    BY DEF SyncInv
<1>1. PICK z \in ClientType :
          /\ client' = [client EXCEPT ![k] = z]
          /\ \/ z = Idle
             \/ /\ z.type = client[k].type /\ z.new = client[k].new /\ z.seen = client[k].seen
                /\ \/ ClearProps(k) /\ z.pc = "create"
                   \/ CreateRow(k) /\ z.pc \in {"archive", "enqueue"}
                   \/ ArchiveOld(k) /\ z.pc = "enqueue"
    BY <1>0, GoesOn
<1>2. client'[k] = z /\ \A j \in Clients \ {k} : client'[j] = client[j]
    BY <1>0, <1>1, ClientSet
<1>3. recorded' \subseteq recorded /\ UNCHANGED raced
    BY DEF ClearProps, CreateRow, ArchiveOld, RemoveRow, Enqueue, RequestOnly, rows
<1>4. client[k].pc # "idle"
    BY DEF ClearProps, CreateRow, ArchiveOld, RemoveRow, Enqueue
<1>5. /\ \A a \in Accounts : row'[a] = row[a] \/ row'[a] # "none"
      /\ \A a \in Accounts : row'[a] # row[a] => \/ row[a] # "none"
                                                 \/ a = client[k].new /\ CreateRow(k)
    <2>1. CASE ClearProps(k)
        BY <1>0, <2>1 DEF SyncTypeOK, ClearProps, Cleared, RowsInv, ClientKnows
    <2>2. CASE CreateRow(k)
        BY <1>0, <2>2 DEF SyncTypeOK, CreateRow
    <2>3. CASE ArchiveOld(k)
        BY <1>0, <2>3 DEF SyncTypeOK, ArchiveOld, Exists
    <2>4. CASE RemoveRow(k)
        <3>1. \A a \in Accounts : row'[a] = IF a = client[k].new THEN "deleted" ELSE row[a]
            BY <1>0, <2>4 DEF SyncTypeOK, RemoveRow
        <3>2. client[k].pc = "remove"
            BY <2>4 DEF RemoveRow
        <3>3. row[client[k].new] # "none"
            BY <3>2 DEF RowsInv, ClientKnows
        <3> QED BY <3>1, <3>3
    <2>5. CASE Enqueue(k)
        BY <2>5 DEF Enqueue, rows
    <2> QED BY <2>1, <2>2, <2>3, <2>4, <2>5
<1>6. RowsStay
    BY <1>5 DEF RowsStay
<1>7. ASSUME NEW j \in Clients, client[j].pc \in {"clear", "create"}, j # k
      PROVE  row'[client[j].new] = "none"
    <2>1. row[client[j].new] = "none" /\ client[j].new # client[k].new /\ client[j].new \in Accounts
        BY <1>4, <1>7, NewIs DEF RowsInv, ClientKnows
    <2> QED BY <1>5, <2>1
<1>8. ClientKnows(k)'
    <2>1. CASE z = Idle
        BY <1>2, <2>1 DEF ClientKnows, Idle
    <2>2. CASE z # Idle
        <3>1. z.pc = "create" => ClearProps(k) /\ client[k].pc = "clear"
            BY <1>1, <2>2 DEF ClearProps
        <3>2. z.pc \in {"create", "archive", "enqueue"}
            BY <1>1, <2>2
        <3>3. z.pc = "create" => row'[client[k].new] = "none"
            BY <1>5, <3>1, NewIs DEF RowsInv, ClientKnows, ClearProps, CreateRow
        <3>4. z.type = client[k].type /\ z.new = client[k].new /\ z.seen = client[k].seen
            BY <1>1, <2>2
        <3>5. \A p \in client[k].seen : row'[p] # "none"
            BY <1>0, <1>5 DEF RowsInv, ClientKnows, SyncTypeOK, ClientType, Accounts
        <3>6. z.pc = "create" => z.type \in Creating
                  /\ \A j \in Clients \ {k} : client[j].pc # "idle" => client[j].new # client[k].new
            BY <3>1, <3>4 DEF RowsInv, ClientKnows, Creating
        <3> QED BY <1>2, <3>2, <3>3, <3>4, <3>5, <3>6 DEF ClientKnows
    <2> QED BY <2>1, <2>2
<1>9. ASSUME NEW j \in Clients \ {k} PROVE ClientKnows(j)'
    <2>1. \A p \in client[j].seen : row'[p] # "none"
        BY <1>0, <1>5 DEF RowsInv, ClientKnows, SyncTypeOK, ClientType, Accounts
    <2>3. client[j].pc = "remove" => client[j].type = "BROKER_ADD" /\ row'[client[j].new] # "none"
        <3>1. client[j].pc = "remove" =>
                  client[j].type = "BROKER_ADD" /\ row[client[j].new] # "none" /\ client[j].new \in Accounts
            BY DEF RowsInv, ClientKnows, SyncInv, Payloads, Payload, Accounts
        <3> QED BY <1>6, <3>1 DEF RowsStay
    <2>2. client[j].pc \in {"clear", "create"} /\ z.pc # "idle" => z.new # client[j].new
        BY <1>1, <1>4 DEF RowsInv, ClientKnows, Idle
    <2> QED BY <1>2, <1>7, <2>1, <2>2, <2>3 DEF RowsInv, ClientKnows
<1>10. RowsInv'
    <2>1. \A a \in recorded' : row'[a] # "none"
        BY <1>0, <1>3, <1>6 DEF RowsInv, RowsStay, SyncTypeOK
    <2> QED BY <1>8, <1>9, <2>1 DEF RowsInv
<1>11. RemovalInv'
    <2>1. SUFFICES ASSUME "deletion" \notin raced, NEW j \in Clients, client'[j].pc = "remove"
                   PROVE  Unneeded(client[j].new)' /\ client'[j].new = client[j].new
        BY <1>3 DEF RemovalInv
    <2>0. PICK b : b = client[j].new
        OBVIOUS
    <2>2. j # k /\ client'[j] = client[j]
        BY <1>1, <1>2, <2>1 DEF Idle
    <2>3. Unneeded(b)
        BY <2>0, <2>1, <2>2 DEF RemovalInv
    <2>4. b \in Accounts
        <3>1. Payload(client[j]) /\ client[j].type = "BROKER_ADD"
            BY <2>1, <2>2 DEF SyncInv, Payloads, RowsInv, ClientKnows
        <3> QED BY <2>0, <3>1 DEF Payload, Accounts
    <2>5. b \notin recorded' /\ row'[b] # "none"
        BY <1>3, <1>6, <2>3, <2>4 DEF RowsStay, Unneeded
    <2>6. z.pc \in {"create", "archive", "enqueue"} /\ z.type \in Creating => z.new # b
        BY <1>1, <2>3 DEF Unneeded, RowsInv, ClientKnows, ClearProps, CreateRow, ArchiveOld, Idle
    <2>7. \A i \in DOMAIN commands' : (Waiting(i) /\ commands[i].type \in Creating => commands[i].new # b)'
        <3>1. CASE commands' = commands
            BY <2>3, <3>1 DEF Unneeded, Waiting
        <3>2. CASE commands' # commands
            <4>1. Enqueue(k) /\ client[k].pc = "enqueue"
                BY <3>2 DEF Enqueue, ClearProps, CreateRow, ArchiveOld, RemoveRow
            <4>2. PICK n \in Nat : Added(n, client[k])
                BY <1>0, <3>2, <4>1, EnqueueWrites
            <4>3. client[k].type \in Creating => client[k].new # b
                BY <2>3, <4>1 DEF Unneeded
            <4> QED BY <2>3, <4>2, <4>3 DEF Unneeded, Waiting, Added
        <3> QED BY <3>1, <3>2
    <2>8. Unneeded(b)'
        BY <1>2, <2>2, <2>3, <2>5, <2>6, <2>7 DEF Unneeded
    <2> QED BY <2>0, <2>2, <2>8
<1> QED BY <1>3, <1>6, <1>10, <1>11

\* An edit of a prop account leaves the rows that are being created, and the
\* brokers'.
LEMMA EditRows ==
    ASSUME SyncInv, RowsInv, RemovalInv, NEW k \in Clients, EditProp(k)
    PROVE  RowsInv' /\ RemovalInv' /\ RowsStay
<1>0. SyncTypeOK
    BY DEF SyncInv
<1>1. /\ UNCHANGED <<recorded, commands, client>> /\ raced \subseteq raced'
      /\ \A a \in Accounts : row'[a] = row[a] \/ (a \in Props /\ Exists(a) /\ Exists(a)')
    BY <1>0, EditWrites
<1>2. \A a \in Accounts : (row'[a] = "none") <=> (row[a] = "none")
    BY <1>1 DEF Exists
<1>3. ASSUME NEW j \in Clients PROVE ClientKnows(j)'
    <2>1. client[j].pc \in {"clear", "create"} => client[j].new \in Accounts
        BY NewIs
    <2>2. client[j].pc = "remove" => client[j].type = "BROKER_ADD" /\ client[j].new \in Accounts
        BY DEF RowsInv, ClientKnows, SyncInv, Payloads, Payload, Accounts
    <2>3. \A p \in client[j].seen : p \in Accounts
        BY <1>0 DEF SyncTypeOK, ClientType, Accounts
    <2> QED BY <1>1, <1>2, <2>1, <2>2, <2>3 DEF RowsInv, ClientKnows
<1>4. RowsInv'
    <2>1. \A a \in recorded : a \in Accounts
        BY <1>0 DEF SyncTypeOK
    <2> QED BY <1>1, <1>2, <1>3, <2>1 DEF RowsInv
<1>5. RemovalInv'
    <2>1. SUFFICES ASSUME "deletion" \notin raced, NEW j \in Clients, client[j].pc = "remove"
                   PROVE  Unneeded(client[j].new)'
        BY <1>1 DEF RemovalInv
    <2>2. PICK b : b = client[j].new
        OBVIOUS
    <2>3. Unneeded(b) /\ b \in Accounts
        BY <2>1, <2>2 DEF RemovalInv, RowsInv, ClientKnows, SyncInv, Payloads, Payload, Accounts
    <2>4. Unneeded(b)'
        BY <1>1, <1>2, <2>3 DEF Unneeded, Waiting
    <2>5. client'[j].new = b
        BY <1>1, <2>2
    <2> QED BY <2>4, <2>5
<1> QED BY <1>2, <1>4, <1>5 DEF RowsStay

\* The worker and the queue register accounts of commands that wait only.
LEMMA RestRows ==
    ASSUME SyncInv, RowsInv, RemovalInv,
           UNCHANGED <<row, client>> \/ Restart, "deletion" \notin raced' => "deletion" \notin raced,
           \A a \in recorded' \ recorded : row[a] # "none" /\ \E i \in DOMAIN commands :
               Waiting(i) /\ commands[i].type \in Creating /\ commands[i].new = a,
           \A i \in DOMAIN commands' : Waiting(i)' =>
               /\ i \in DOMAIN commands /\ Waiting(i)
               /\ commands'[i].type = commands[i].type /\ commands'[i].new = commands[i].new
    PROVE  RowsInv' /\ RemovalInv'
<1>1. row' = row /\ \A k \in Clients : client'[k] = client[k] \/ client'[k] = Idle
    BY DEF Restart, rows
<1>2. RowsInv'
    <2>1. \A a \in recorded' : row'[a] # "none"
        BY <1>1 DEF RowsInv
    <2>2. \A k \in Clients : ClientKnows(k)'
        BY <1>1 DEF RowsInv, ClientKnows, Idle
    <2> QED BY <2>1, <2>2 DEF RowsInv
<1>3. RemovalInv'
    <2>1. SUFFICES ASSUME "deletion" \notin raced', NEW k \in Clients, client'[k].pc = "remove"
                   PROVE  Unneeded(client[k].new)'
        BY DEF RemovalInv
    <2>2. client'[k] = client[k] /\ Unneeded(client[k].new)
        BY <1>1, <2>1 DEF RemovalInv, Idle
    <2>0. PICK b : b = client[k].new
        OBVIOUS
    <2>3. b \notin recorded' /\ row'[b] # "none"
        BY <1>1, <2>0, <2>2 DEF Unneeded
    <2>4. \A i \in DOMAIN commands' : (Waiting(i) /\ commands[i].type \in Creating => commands[i].new # b)'
        BY <2>0, <2>2 DEF Unneeded
    <2>5. \A j \in Clients : client'[j].pc \in {"create", "archive", "enqueue"} /\ client'[j].type \in Creating =>
                                  client'[j].new # b
        BY <1>1, <2>0, <2>2 DEF Unneeded, Idle
    <2> QED BY <2>0, <2>2, <2>3, <2>4, <2>5 DEF Unneeded
<1> QED BY <1>2, <1>3

\* What the queue and the worker leave of the commands that wait.
LEMMA WaitingStay ==
    ASSUME NEW i \in DOMAIN commands, NEW status, Rewritten(i, status),
           status \in {"PENDING", "RUNNING"} => Waiting(i)
    PROVE  \A j \in DOMAIN commands' : Waiting(j)' =>
               /\ j \in DOMAIN commands /\ Waiting(j)
               /\ commands'[j].type = commands[j].type /\ commands'[j].new = commands[j].new
BY DEF Rewritten, Waiting

\* An account that is registered has a row that exists, in every step.
LEMMA NextRows == SyncInv /\ RowsInv /\ RemovalInv /\ [SyncNext]_syncVars => RowsInv' /\ RemovalInv'
<1> SUFFICES ASSUME SyncInv, RowsInv, RemovalInv, [SyncNext]_syncVars PROVE RowsInv' /\ RemovalInv'
    OBVIOUS
<1>0. SyncTypeOK /\ Knows
    BY DEF SyncInv
<1>1. ASSUME NEW k \in Clients, ClientStep(k) PROVE RowsInv' /\ RemovalInv'
    <2>1. CASE Begins(k)
        <3>1. PICK z \in ClientType : Begun(z) /\ Begin(k, z)
            BY <1>0, <2>1, WhatBegins
        <3> QED BY <3>1, BeginRows, BeginRemoval
    <2> QED BY <1>1, <2>1, GoesOnRows, EditRows DEF ClientStep, Begins
<1>2. ASSUME UNCHANGED <<row, client, recorded, raced>>, NEW i \in DOMAIN commands, NEW status,
             Rewritten(i, status), status \in {"PENDING", "RUNNING"} => Waiting(i)
      PROVE  RowsInv' /\ RemovalInv'
    BY <1>2, WaitingStay, RestRows
<1>3. CASE Requeue
    <2>1. PICK i \in DOMAIN commands : commands[i].status = "RUNNING" /\ Rewritten(i, "PENDING")
        BY <1>0, <1>3, RequeueWrites
    <2> QED BY <1>2, <1>3, <2>1 DEF Requeue, rows, WorkerOnly, Waiting
<1>4. CASE StartCommand
    <2>1. PICK i \in DOMAIN commands : commands[i].status = "PENDING" /\ Rewritten(i, "RUNNING")
        BY <1>0, <1>4, StartWrites
    <2> QED BY <1>2, <1>4, <2>1 DEF StartCommand, rows, WorkerOnly, Waiting
<1>5. CASE BecomesDue
    <2>1. PICK i \in DOMAIN commands : commands[i].status = "PENDING" /\ Rewritten(i, "PENDING")
        BY <1>0, <1>5, BackoffWrites
    <2> QED BY <1>2, <1>5, <2>1 DEF BecomesDue, rows, WorkerOnly, Waiting
<1>6. CASE Complete
    <2>1. Rewritten(worker.cmd, "COMPLETED") /\ worker.cmd \in DOMAIN commands
        BY <1>6, CompleteWrites DEF Rewritten
    <2> QED BY <1>2, <1>6, <2>1 DEF Complete, rows, WorkerOnly
<1>7. CASE Refused \/ StepFails
    <2>1. worker.pc # "idle" /\ GiveUpOrRetry /\ UNCHANGED <<row, client, recorded, raced>>
        BY <1>7 DEF Refused, StepFails, rows, WorkerOnly
    <2>2. PICK status : Rewritten(worker.cmd, status)
        BY <2>1, FailureWrites
    <2>3. worker.cmd \in DOMAIN commands /\ Waiting(worker.cmd)
        BY <1>0, <2>1 DEF Knows, Current, Waiting
    <2> QED BY <1>2, <2>1, <2>2, <2>3
<1>8. ASSUME UNCHANGED <<row, client, commands>> \/ Restart, "deletion" \notin raced' => "deletion" \notin raced,
             \A a \in recorded' \ recorded : row[a] # "none" /\ \E i \in DOMAIN commands :
               Waiting(i) /\ commands[i].type \in Creating /\ commands[i].new = a
      PROVE  RowsInv' /\ RemovalInv'
    BY <1>8, RestRows DEF Waiting, Restart
<1>9. CASE Record
    <2>1. Waiting(worker.cmd) /\ worker.cmd \in DOMAIN commands /\ commands[worker.cmd].type \in Creating
        BY <1>0, <1>9 DEF Knows, Record, Current, Waiting
    <2>2. row[New] # "none" /\ New = commands[worker.cmd].new /\ recorded' = recorded \cup {New}
        BY <1>9 DEF Record, Exists, New, Current
    <2>3. UNCHANGED <<row, client, commands, raced>>
        BY <1>9 DEF Record, WorkerOnly
    <2> QED BY <1>8, <2>1, <2>2, <2>3
<1>10. CASE RemoveSuperseded
    BY <1>8, <1>10 DEF RemoveSuperseded, rows
<1>11. CASE ReadContext \/ FindRow \/ Register \/ WriteProvision \/ WriteHedge \/ ListAccounts
            \/ EraseAccount \/ Decommission
    <2>1. UNCHANGED <<row, client, commands, recorded, raced>>
        BY <1>11 DEF ReadContext, FindRow, Register, WriteProvision, WriteHedge, ListAccounts,
                     EraseAccount, Decommission, rows, WorkerOnly
    <2> QED BY <1>8, <2>1
<1>12. CASE ForgetAccounts
    BY <1>8, <1>12 DEF ForgetAccounts, WorkerOnly
<1>13. CASE Restart
    BY <1>8, <1>13 DEF Restart, rows
<1>14. CASE UNCHANGED syncVars
    BY <1>8, <1>14 DEF syncVars, rows
<1> QED BY <1>1, <1>3, <1>4, <1>5, <1>6, <1>7, <1>9, <1>10, <1>11, <1>12, <1>13, <1>14
        DEF SyncNext, WorkerStep

-----------------------------------------------------------------------------

\* A command of these types is not done, or was given up.
Open(types) == \E i \in DOMAIN commands : commands[i].type \in types /\ commands[i].status # "COMPLETED"

\* The service ends, or a broker was deleted or removed that a command needs.
Troubled == hedge.ended \/ raced \cap {"deletion", "mistaken"} # {} \/ Open({"DELETE"})

Replaces == Current.type \in Replacing
Selects == Current.type = "SET_HEDGE_BROKER"

\* What the calls and statements of the command have achieved so far.
Achieved ==
    /\ worker.pc = "record" => New \in registered
    /\ worker.pc \in {"remove", "provision", "hedge", "complete"} /\ (Replaces \/ Selects) =>
         New \in registered \cap recorded
    /\ worker.pc \in {"hedge", "complete"} /\ Replaces => provision[Kind] = New
    /\ worker.pc \in {"provision", "complete"} /\ Selects => hedge.broker = New
    /\ worker.pc = "complete" /\ (Replaces \/ Selects) => provision[Kind] = New /\ hedge[Kind] = New

\* Each account of the pair is registered and recorded, and is in the hedge
\* setup what it is in the provision, or a command is open that writes it.
PropTrades ==
    Open({"PROP_ROTATION"}) \/ (hedge.prop = provision.prop /\ hedge.prop \in registered \cap recorded)

BrokerTrades ==
    \/ Open({"BROKER_REPLACE", "SET_HEDGE_BROKER"})
    \/ hedge.broker = provision.broker /\ hedge.broker \in registered \cap recorded

\* A broker that the client may designate is registered.
Designable == \A b \in Brokers \cap recorded : row[b] = "active" => b \in registered

\* The inductive invariant: as long as nothing is troubled, every account that
\* is traded with is there.
Trades == Achieved /\ PropTrades /\ BrokerTrades /\ Designable

TradeInv == Troubled \/ Trades

\* At first the hedge setup trades with what was provisioned.
LEMMA InitTrades == SyncInit => TradeInv
<1> SUFFICES ASSUME SyncInit PROVE Trades
    BY DEF TradeInv
<1>1. Achieved
    BY DEF SyncInit, Achieved, Resting
<1>2. PropTrades /\ BrokerTrades
    BY DEF SyncInit, PropTrades, BrokerTrades, First
<1>3. Designable
    BY DEF SyncInit, Designable
<1> QED BY <1>1, <1>2, <1>3 DEF Trades

\* What is open stays so until a command of that type has been executed.
LEMMA OpenStays ==
    ASSUME NEW types, Open(types),
           \/ commands' = commands
           \/ \E k \in Clients : \E n \in Nat : Added(n, client[k])
           \/ \E i \in DOMAIN commands : \E status :
                  /\ Rewritten(i, status)
                  /\ status = "COMPLETED" => commands[i].type \notin types \/ commands[i].status = "COMPLETED"
    PROVE  Open(types)'
<1>1. PICK j \in DOMAIN commands : commands[j].type \in types /\ commands[j].status # "COMPLETED"
    BY DEF Open
<1>2. CASE commands' = commands
    BY <1>2 DEF Open
<1>3. CASE \E k \in Clients : \E n \in Nat : Added(n, client[k])
    <2>1. j \in DOMAIN commands' /\ commands'[j] = commands[j]
        BY <1>3 DEF Added
    <2> QED BY <1>1, <2>1 DEF Open
<1>4. ASSUME NEW i \in DOMAIN commands, NEW status, Rewritten(i, status),
             status = "COMPLETED" => commands[i].type \notin types \/ commands[i].status = "COMPLETED"
      PROVE  Open(types)'
    <2>1. j \in DOMAIN commands' /\ commands'[j].type = commands[j].type
        BY <1>4 DEF Rewritten
    <2>2. commands'[j].status # "COMPLETED"
        BY <1>1, <1>4 DEF Rewritten
    <2> QED BY <1>1, <2>1, <2>2 DEF Open
<1> QED BY <1>2, <1>3, <1>4

\* Who runs a command has it open.
LEMMA RunsOpen ==
    ASSUME SyncInv, worker.pc # "idle", NEW types, Current.type \in types
    PROVE  Open(types)
BY DEF SyncInv, Knows, Current, Open

\* While a DELETE is executed the service ends.
LEMMA DeletionTroubles ==
    ASSUME SyncInv, worker.pc # "idle", Current.type = "DELETE"
    PROVE  Troubled
BY RunsOpen DEF Troubled

\* Steps of the queue: the command of the worker is what it was, or the
\* worker has none yet.
LEMMA QueueTrades ==
    ASSUME SyncInv, TradeInv, UNCHANGED <<hedge, provision, registered>>,
           recorded' = recorded, raced \subseteq raced',
           \A b \in Brokers \cap recorded : row'[b] = "active" => row[b] = "active",
           \/ commands' = commands
           \/ \E k \in Clients : \E n \in Nat : Added(n, client[k])
           \/ \E i \in DOMAIN commands : \E status : Rewritten(i, status) /\ status # "COMPLETED",
           UNCHANGED worker \/ worker'.pc \in {"idle", "context"}
    PROVE  TradeInv'
<1>1. \A types : Open(types) => Open(types)'
    BY OpenStays
<1>2. CASE Troubled
    <2>1. Troubled'
        BY <1>1, <1>2 DEF Troubled
    <2> QED BY <2>1 DEF TradeInv
<1>3. CASE Trades
    <2>1. PropTrades' /\ BrokerTrades' /\ Designable'
        BY <1>1, <1>3 DEF Trades, PropTrades, BrokerTrades, Designable
    <2>2. CASE worker'.pc \in {"idle", "context"}
        BY <2>1, <2>2 DEF Achieved, Trades, TradeInv
    <2>3. CASE UNCHANGED worker /\ worker.pc # "idle"
        <3>1. worker.cmd \in DOMAIN commands
            BY <2>3 DEF SyncInv, Knows
        <3>2. Current'.type = Current.type /\ Current'.new = Current.new
            BY <2>3, <3>1 DEF Current, Added, Rewritten
        <3>3. Achieved'
            BY <1>3, <2>3, <3>2 DEF Trades, Achieved, Replaces, Selects, New, Kind
        <3> QED BY <2>1, <3>3 DEF Trades, TradeInv
    <2> QED BY <2>2, <2>3
<1> QED BY <1>2, <1>3 DEF TradeInv

\* The requests write the rows and the queue, never what is traded with.
LEMMA ClientTrades ==
    ASSUME SyncInv, RowsInv, RemovalInv, TradeInv, NEW k \in Clients, ClientStep(k)
    PROVE  TradeInv'
<1>0. SyncTypeOK
    BY DEF SyncInv
<1>1. CASE Begins(k)
    <2>1. PICK z \in ClientType : Begin(k, z)
        BY <1>0, <1>1, WhatBegins
    <2>2. /\ UNCHANGED <<hedge, provision, registered, recorded, row, commands, worker>>
          /\ raced \subseteq raced'
        BY <2>1 DEF Begin, rows, hedging
    <2> QED BY <2>2, QueueTrades
<1>2. CASE ClearProps(k) \/ CreateRow(k) \/ ArchiveOld(k) \/ RemoveRow(k) \/ Enqueue(k)
    <2>1. UNCHANGED <<hedge, provision, registered, worker, raced>>
        BY <1>2 DEF ClearProps, CreateRow, ArchiveOld, RemoveRow, Enqueue, RequestOnly, hedging
    <2>2. commands' = commands \/ \E n \in Nat : Added(n, client[k])
        BY <1>0, <1>2, EnqueueWrites DEF ClearProps, CreateRow, ArchiveOld, RemoveRow
    <2>3. CASE RemoveRow(k) /\ "deletion" \in raced
        <3>1. Troubled'
            BY <2>1, <2>3 DEF Troubled
        <3> QED BY <3>1 DEF TradeInv
    <2>4. CASE ~(RemoveRow(k) /\ "deletion" \in raced)
        <3>1. recorded' = recorded
            BY <1>2, <2>4 DEF ClearProps, CreateRow, ArchiveOld, RemoveRow, Enqueue, rows,
                              RemovalInv, Unneeded
        <3>2. ASSUME NEW b \in Brokers \cap recorded, row'[b] = "active" PROVE row[b] = "active"
            <4>1. b \in Accounts /\ row[b] # "none"
                BY DEF RowsInv, Accounts
            <4>2. CASE CreateRow(k)
                <5>1. row[client[k].new] = "none"
                    BY <4>2 DEF CreateRow, RowsInv, ClientKnows
                <5> QED BY <1>0, <3>2, <4>1, <4>2, <5>1 DEF SyncTypeOK, CreateRow
            <4>3. CASE ~CreateRow(k)
                BY <1>0, <1>2, <3>2, <4>1, <4>3 DEF SyncTypeOK, ClearProps, ArchiveOld, RemoveRow, Enqueue, rows
            <4> QED BY <4>2, <4>3
        <3> QED BY <2>1, <2>2, <3>1, <3>2, QueueTrades
    <2> QED BY <2>3, <2>4
<1>3. CASE EditProp(k)
    <2>1. /\ UNCHANGED <<hedge, provision, registered, recorded, commands, worker>> /\ raced \subseteq raced'
          /\ \A a \in Accounts : row'[a] = row[a] \/ a \in Props
        BY <1>0, <1>3, EditWrites
    <2>2. \A b \in Brokers : row'[b] = row[b]
        BY <2>1, SyncAssumption DEF Accounts
    <2> QED BY <2>1, <2>2, QueueTrades
<1> QED BY <1>1, <1>2, <1>3 DEF ClientStep, Begins

\* The steps of an executor, as long as nothing is troubled.
LEMMA PassTrades ==
    ASSUME SyncInv, Trades, ~Troubled, ~Troubled', UNCHANGED <<row, commands>>,
           ReadContext \/ FindRow \/ Register \/ Record \/ RemoveSuperseded \/ WriteProvision \/ WriteHedge
    PROVE  Trades'
<1>0. SyncTypeOK /\ Knows
    BY DEF SyncInv
<1>1. /\ worker.pc # "idle" /\ worker'.cmd = worker.cmd /\ Current' = Current
      /\ hedge \in Pair /\ provision \in Pair
    BY <1>0 DEF SyncTypeOK, WorkerType, ReadContext, FindRow, Register, Record, RemoveSuperseded,
                WriteProvision, WriteHedge, Proceed, Current
<1>2. Replaces' = Replaces /\ Selects' = Selects /\ New' = New /\ Kind' = Kind
    BY <1>1 DEF Replaces, Selects, New, Kind
<1>3. \A types : Open(types)' <=> Open(types)
    BY DEF Open
<1>4. Achieved /\ PropTrades /\ BrokerTrades /\ Designable
    BY DEF Trades
<1>5. CASE ReadContext
    <2>1. worker'.pc \in {"list", "find"} /\ UNCHANGED <<recorded, registered, provision, hedge>>
        BY <1>0, <1>5 DEF ReadContext, SyncTypeOK, WorkerType, rows, hedging
    <2> QED BY <1>3, <1>4, <2>1 DEF Trades, Achieved, PropTrades, BrokerTrades, Designable
<1>6. CASE FindRow
    <2>1. UNCHANGED <<recorded, registered, provision, hedge>>
        BY <1>6 DEF FindRow, rows, hedging
    <2>2. CASE Current.type = "SET_HEDGE_BROKER"
        <3>1. worker'.pc = "hedge" /\ Designated(New)
            BY <1>0, <1>6, <2>2, Proceeds DEF FindRow
        <3>2. New \in Brokers
            BY <1>1, <2>2, CurrentIs DEF Hedging, Kind
        <3>3. New \in registered \cap recorded
            BY <1>4, <3>1, <3>2 DEF Designated, Designable
        <3>4. ~Replaces
            BY <2>2 DEF Replaces, Replacing
        <3>5. Achieved'
            BY <1>2, <2>1, <3>1, <3>3, <3>4 DEF Achieved
        <3> QED BY <1>3, <1>4, <2>1, <3>5 DEF Trades, PropTrades, BrokerTrades, Designable
    <2>3. CASE Current.type # "SET_HEDGE_BROKER"
        <3>1. worker'.pc = "register"
            BY <1>0, <1>6, <2>3, Proceeds DEF FindRow
        <3> QED BY <1>3, <1>4, <2>1, <3>1 DEF Trades, Achieved, PropTrades, BrokerTrades, Designable
    <2> QED BY <2>2, <2>3
<1>7. CASE Register
    <2>1. worker'.pc = "record" /\ registered' = registered \cup {New} /\ UNCHANGED <<recorded, provision, hedge>>
        BY <1>0, <1>7, Proceeds DEF Register, rows
    <2> QED BY <1>2, <1>3, <1>4, <2>1 DEF Trades, Achieved, PropTrades, BrokerTrades, Designable
<1>8. CASE Record
    <2>1. /\ recorded' = recorded \cup {New} /\ UNCHANGED <<registered, provision, hedge>>
          /\ worker'.pc = IF Current.type = "BROKER_ADD" THEN "complete" ELSE "remove"
        BY <1>0, <1>8, Proceeds DEF Record, hedging
    <2>2. New \in registered
        BY <1>4, <1>8 DEF Achieved, Record
    <2>3. PropTrades' /\ BrokerTrades' /\ Designable'
        BY <1>3, <1>4, <2>1, <2>2 DEF PropTrades, BrokerTrades, Designable
    <2>4. Achieved'
        BY <1>2, <2>1, <2>2 DEF Achieved, Replaces, Selects, Replacing
    <2> QED BY <2>3, <2>4 DEF Trades
<1>9. CASE RemoveSuperseded
    <2>1. /\ worker'.pc = "provision" /\ UNCHANGED <<recorded, provision, hedge>>
          /\ registered' = IF Superseded = New THEN registered ELSE registered \ {Superseded}
        BY <1>0, <1>9, Proceeds DEF RemoveSuperseded, rows
    <2>2. Current.type \in Replacing /\ ~Selects
        BY <1>0, <1>9 DEF Knows, RemoveSuperseded, Selects, Replacing
    <2>3. New \in registered \cap recorded
        BY <1>4, <1>9, <2>2 DEF Achieved, RemoveSuperseded, Replaces
    <2>4. Achieved'
        BY <1>2, <2>1, <2>2, <2>3 DEF Achieved
    <2>5. Designable'
        <3>1. SUFFICES ASSUME NEW b \in Brokers \cap recorded, row[b] = "active", b \notin registered'
                       PROVE  FALSE
            BY <2>1 DEF Designable
        <3>2. b = Superseded /\ Superseded # New
            BY <1>4, <2>1, <3>1 DEF Designable
        <3>3. "mistaken" \in raced'
            BY <1>9, <3>1, <3>2 DEF RemoveSuperseded
        <3> QED BY <3>3 DEF Troubled
    <2>6. CASE Current.type = "PROP_ROTATION"
        <3>1. Superseded \in Props
            BY <1>0, <2>6 DEF Superseded, SyncTypeOK, WorkerType, Pair
        <3>2. hedge.broker \in Brokers /\ hedge.broker \notin Props
            BY <1>1, SyncAssumption DEF Pair
        <3>3. Open({"PROP_ROTATION"})
            BY <1>1, <2>6, RunsOpen
        <3>4. PropTrades' /\ BrokerTrades'
            BY <1>3, <1>4, <2>1, <3>1, <3>2, <3>3 DEF PropTrades, BrokerTrades
        <3> QED BY <2>4, <2>5, <3>4 DEF Trades
    <2>7. CASE Current.type = "BROKER_REPLACE"
        <3>1. Superseded \in Brokers \cup {Nobody}
            BY <1>0, <1>1, <2>7, CurrentIs DEF Superseded, SyncTypeOK, WorkerType, Pair, Payload
        <3>2. hedge.prop \in Props /\ hedge.prop \notin Brokers /\ hedge.prop # Nobody
            BY <1>1, SyncAssumption DEF Pair, Accounts
        <3>3. Open({"BROKER_REPLACE", "SET_HEDGE_BROKER"})
            BY <1>1, <2>7, RunsOpen
        <3>4. PropTrades' /\ BrokerTrades'
            BY <1>3, <1>4, <2>1, <3>1, <3>2, <3>3 DEF PropTrades, BrokerTrades
        <3> QED BY <2>4, <2>5, <3>4 DEF Trades
    <2> QED BY <2>2, <2>6, <2>7 DEF Replacing
<1>10. CASE WriteProvision \/ WriteHedge
    <2>1. /\ UNCHANGED <<recorded, registered>> /\ Designable'
          /\ Current.type \in Hedging /\ (Replaces \/ Selects)
        BY <1>0, <1>4, <1>10 DEF WriteProvision, WriteHedge, rows, Designable, Knows, Hedging,
                                 Replaces, Replacing, Selects
    <2>2. New \in registered \cap recorded
        BY <1>4, <1>10, <2>1 DEF Achieved, WriteProvision, WriteHedge
    <2>3. ~worker.hedge.ended
        BY <1>0, <1>10 DEF Knows, Troubled, WriteProvision, WriteHedge
    <2>4. Kind \in {"prop", "broker"} /\ ~(Replaces /\ Selects) /\ (Selects => Kind = "broker")
        BY DEF Kind, Replaces, Selects, Replacing
    <2>5. /\ Kind = "prop" => New \in Props /\ Open({"PROP_ROTATION"})
          /\ Kind = "broker" => New \in Brokers /\ Open({"BROKER_REPLACE", "SET_HEDGE_BROKER"})
        <3>1. Kind = "prop" => Current.type = "PROP_ROTATION"
            BY DEF Kind
        <3>2. Kind = "broker" => Current.type \in {"BROKER_REPLACE", "SET_HEDGE_BROKER"}
            BY <2>1 DEF Kind, Hedging
        <3> QED BY <1>1, <2>1, <3>1, <3>2, CurrentIs, RunsOpen
    <2>6. CASE WriteProvision
        <3>1. /\ worker'.pc = IF Selects THEN "complete" ELSE "hedge"
              /\ provision' = [provision EXCEPT ![Kind] = New] /\ hedge' = hedge
            BY <1>0, <2>6, Proceeds DEF WriteProvision, Selects
        <3>2. provision'[Kind] = New /\ \A other \in {"prop", "broker"} \ {Kind} : provision'[other] = provision[other]
            BY <1>1, <2>4, <3>1 DEF Pair
        <3>3. PropTrades' /\ BrokerTrades'
            BY <1>3, <1>4, <2>1, <2>4, <2>5, <3>1, <3>2 DEF PropTrades, BrokerTrades
        <3>4. Selects => hedge.broker = New
            BY <1>4, <2>6 DEF Achieved, WriteProvision
        <3>5. Achieved'
            BY <1>2, <2>1, <2>2, <2>4, <3>1, <3>2, <3>4 DEF Achieved
        <3> QED BY <2>1, <3>3, <3>5 DEF Trades
    <2>7. CASE WriteHedge
        <3>1. /\ worker'.pc = IF Selects THEN "provision" ELSE "complete"
              /\ hedge' = [hedge EXCEPT ![Kind] = New] /\ provision' = provision
            BY <1>0, <2>3, <2>7, Proceeds DEF WriteHedge, Rehedged, Selects
        <3>2. hedge'[Kind] = New /\ \A other \in {"prop", "broker"} \ {Kind} : hedge'[other] = hedge[other]
            BY <1>1, <2>4, <3>1 DEF Pair
        <3>3. PropTrades' /\ BrokerTrades'
            BY <1>3, <1>4, <2>1, <2>4, <2>5, <3>1, <3>2 DEF PropTrades, BrokerTrades
        <3>4. Replaces => provision[Kind] = New
            BY <1>4, <2>7 DEF Achieved, WriteHedge
        <3>5. Achieved'
            BY <1>2, <2>1, <2>2, <2>4, <3>1, <3>2, <3>4 DEF Achieved
        <3> QED BY <2>1, <3>3, <3>5 DEF Trades
    <2> QED BY <1>10, <2>6, <2>7
<1> QED BY <1>5, <1>6, <1>7, <1>8, <1>9, <1>10

\* Nothing ends the trouble.
LEMMA TroubleStays ==
    ASSUME SyncInv, Troubled, UNCHANGED commands, raced \subseteq raced', hedge.ended => hedge'.ended
    PROVE  Troubled'
BY OpenStays DEF Troubled

\* What a command has changed is consistent when it is marked as completed.
LEMMA CompleteTrades ==
    ASSUME SyncInv, TradeInv, Complete
    PROVE  TradeInv'
<1>0. SyncTypeOK /\ Knows
    BY DEF SyncInv
<1>1. /\ Rewritten(worker.cmd, "COMPLETED") /\ worker.pc = "complete" /\ worker.cmd \in DOMAIN commands
      /\ UNCHANGED <<row, recorded, registered, provision, hedge, raced>> /\ worker' = Resting
    BY CompleteWrites DEF Complete, rows, hedging, WorkerOnly, Rewritten
<1>2. \A types : Open(types) /\ Current.type \notin types => Open(types)'
    BY <1>1, OpenStays DEF Current
<1>3. CASE Troubled
    <2>1. Open({"DELETE"}) /\ ~hedge.ended => Open({"DELETE"})'
        BY <1>0, <1>1, <1>2 DEF Knows
    <2>2. Troubled'
        BY <1>1, <1>3, <2>1 DEF Troubled
    <2> QED BY <2>2 DEF TradeInv
<1>4. CASE Trades
    <2>1. Achieved' /\ Designable'
        BY <1>1, <1>4, Rests DEF Trades, Achieved, Designable
    <2>2. PropTrades'
        <3>1. CASE Current.type = "PROP_ROTATION"
            <4>1. hedge.prop = New /\ provision.prop = New /\ New \in registered \cap recorded
                BY <1>1, <1>4, <3>1 DEF Trades, Achieved, Replaces, Replacing, Kind
            <4> QED BY <1>1, <4>1 DEF PropTrades
        <3>2. CASE Current.type # "PROP_ROTATION"
            BY <1>1, <1>2, <1>4, <3>2 DEF Trades, PropTrades
        <3> QED BY <3>1, <3>2
    <2>3. BrokerTrades'
        <3>1. CASE Current.type \in {"BROKER_REPLACE", "SET_HEDGE_BROKER"}
            <4>1. hedge.broker = New /\ provision.broker = New /\ New \in registered \cap recorded
                BY <1>1, <1>4, <3>1 DEF Trades, Achieved, Replaces, Selects, Replacing, Kind
            <4> QED BY <1>1, <4>1 DEF BrokerTrades
        <3>2. CASE Current.type \notin {"BROKER_REPLACE", "SET_HEDGE_BROKER"}
            BY <1>1, <1>2, <1>4, <3>2 DEF Trades, BrokerTrades
        <3> QED BY <3>1, <3>2
    <2> QED BY <2>1, <2>2, <2>3 DEF Trades, TradeInv
<1> QED BY <1>3, <1>4 DEF TradeInv

\* The executors, and their failures.
LEMMA WorkerTrades ==
    ASSUME SyncInv, TradeInv, WorkerStep
    PROVE  TradeInv'
<1>0. SyncTypeOK /\ Knows
    BY DEF SyncInv
<1>1. CASE Complete
    BY <1>1, CompleteTrades
<1>2. CASE Refused \/ StepFails
    <2>1. /\ worker.pc # "idle" /\ GiveUpOrRetry /\ worker' = Resting
          /\ UNCHANGED <<row, recorded, registered, provision, hedge, raced>>
        BY <1>2 DEF Refused, StepFails, GiveUpOrRetry, rows, hedging, WorkerOnly
    <2>2. PICK status \in {"FAILED", "PENDING"} : Rewritten(worker.cmd, status)
        BY <2>1, FailureWrites
    <2>3. worker.cmd \in DOMAIN commands
        BY <2>2 DEF Rewritten
    <2> QED BY <2>1, <2>2, <2>3, Rests, QueueTrades
<1>3. CASE ReadContext \/ FindRow \/ Register \/ Record \/ RemoveSuperseded \/ WriteProvision \/ WriteHedge
    <2>1. UNCHANGED <<row, commands>> /\ raced \subseteq raced'
        BY <1>3 DEF ReadContext, FindRow, Register, Record, RemoveSuperseded, WriteProvision, WriteHedge,
                    rows, WorkerOnly
    <2>2. hedge.ended => hedge'.ended
        <3>1. CASE WriteHedge
            <4>1. Current.type \in Hedging /\ hedge \in Pair /\ hedge' \in {hedge, [hedge EXCEPT ![Kind] = New]}
                BY <1>0, <3>1 DEF Knows, SyncTypeOK, WriteHedge, Rehedged
            <4>2. Kind \in {"prop", "broker"}
                BY DEF Kind
            <4> QED BY <4>1, <4>2 DEF Pair
        <3>2. CASE ~WriteHedge
            BY <1>3, <3>2 DEF ReadContext, FindRow, Register, Record, RemoveSuperseded, WriteProvision, hedging
        <3> QED BY <3>1, <3>2
    <2>3. Troubled => Troubled'
        BY <2>1, <2>2, TroubleStays
    <2>4. ~Troubled' => Trades'
        BY <1>3, <2>1, <2>3, PassTrades DEF TradeInv
    <2> QED BY <2>4 DEF TradeInv
<1>4. CASE ListAccounts \/ EraseAccount \/ ForgetAccounts \/ Decommission
    <2>1. Current.type = "DELETE" /\ worker.pc # "idle"
        BY <1>0, <1>4 DEF Knows, ListAccounts, EraseAccount, ForgetAccounts, Decommission
    <2>2. UNCHANGED <<commands, raced>>
        BY <1>4 DEF ListAccounts, EraseAccount, ForgetAccounts, Decommission, WorkerOnly
    <2>3. hedge.ended => hedge'.ended
        BY <1>0, <1>4 DEF SyncTypeOK, Pair, ListAccounts, EraseAccount, ForgetAccounts, Decommission, hedging
    <2>4. Troubled'
        BY <2>1, <2>2, <2>3, DeletionTroubles, TroubleStays
    <2> QED BY <2>4 DEF TradeInv
<1> QED BY <1>1, <1>2, <1>3, <1>4 DEF WorkerStep

\* Every step keeps that the pair trades, or that a command is open that will
\* see to it.
LEMMA NextTrades ==
    SyncInv /\ RowsInv /\ RemovalInv /\ TradeInv /\ [SyncNext]_syncVars => TradeInv'
<1> SUFFICES ASSUME SyncInv, RowsInv, RemovalInv, TradeInv, [SyncNext]_syncVars PROVE TradeInv'
    OBVIOUS
<1>0. SyncTypeOK
    BY DEF SyncInv
<1>1. CASE Requeue
    <2>1. PICK i \in DOMAIN commands : Rewritten(i, "PENDING")
        BY <1>0, <1>1, RequeueWrites
    <2> QED BY <1>1, <2>1, QueueTrades DEF Requeue, rows, hedging, WorkerOnly
<1>2. CASE StartCommand
    <2>1. PICK i \in DOMAIN commands : Rewritten(i, "RUNNING") /\ worker'.pc = "context"
        BY <1>0, <1>2, StartWrites
    <2> QED BY <1>2, <2>1, QueueTrades DEF StartCommand, rows, hedging, WorkerOnly
<1>3. CASE BecomesDue
    <2>1. PICK i \in DOMAIN commands : Rewritten(i, "PENDING")
        BY <1>0, <1>3, BackoffWrites
    <2> QED BY <1>3, <2>1, QueueTrades DEF BecomesDue, rows, hedging, WorkerOnly
<1>4. CASE Restart
    <2>1. worker'.pc = "idle"
        BY <1>4, Rests DEF Restart
    <2> QED BY <1>4, <2>1, QueueTrades DEF Restart, rows, hedging
<1>5. CASE UNCHANGED syncVars
    BY <1>5, QueueTrades DEF syncVars, rows, hedging
<1> QED BY <1>1, <1>2, <1>3, <1>4, <1>5, ClientTrades, WorkerTrades DEF SyncNext

\* HedgeIsRegistered: once every command has been executed, the hedge setup
\* trades with two accounts that EasierProp has and the rows record, and the
\* provision names the same, for any number of accounts and of requests that
\* overlap, of retries and of crashes (executeSyncPropRotation,
\* executeSyncBrokerReplace and executeSetHedgeBroker of
\* src/src/modules/provisioning/service-control.service.ts).
THEOREM HedgesTradeRegistered == SyncSpec => []HedgeIsRegistered
<1>1. SyncInv /\ TradeInv => HedgeIsRegistered
    <2>1. SUFFICES ASSUME TradeInv, Quiet, ~hedge.ended, raced \cap {"deletion", "mistaken"} = {}
                   PROVE  /\ {hedge.prop, hedge.broker} \subseteq registered \cap recorded
                          /\ provision.prop = hedge.prop /\ provision.broker = hedge.broker
        BY DEF HedgeIsRegistered
    <2>2. \A types : ~Open(types)
        BY <2>1 DEF Quiet, Open
    <2>3. Trades
        BY <2>1, <2>2 DEF TradeInv, Troubled
    <2> QED BY <2>2, <2>3 DEF Trades, PropTrades, BrokerTrades
<1> QED BY <1>1, InitSync, InitRows, InitTrades, NextSync, NextRows, NextTrades, PTL DEF SyncSpec

-----------------------------------------------------------------------------

\* A command that is yet to be executed, or is under way.
Undone(i) == commands[i].status # "COMPLETED"
Makes(i, a) == commands[i].type \in Creating /\ commands[i].new = a
WillMake(a) == \E i \in DOMAIN commands : Undone(i) /\ Makes(i, a)

\* A command that cannot be executed any more: the broker it designates is not
\* active, and no executor is past the look at it.
Hopeless(i) ==
    /\ commands[i].type = "SET_HEDGE_BROKER" /\ Undone(i) /\ row[commands[i].new] # "active"
    /\ ~(worker.cmd = i /\ worker.pc \in {"hedge", "provision", "complete"})

\* What HedgeIsCurrent leaves aside, and what leads to it.
Disturbed == \/ hedge.ended \/ ~(raced \subseteq {"unsynced"}) \/ failures # 0 \/ Open({"DELETE"})
             \/ \E i \in DOMAIN commands : Hopeless(i)

\* The accounts that commands and requests name have rows, and a provision is
\* over after its hedge setup.
Names(c) == /\ c.type # "DELETE" => row[c.new] # "none"
            /\ c.type = "BROKER_REPLACE" => row[c.old] # "none"
NamesInv ==
    /\ \A i \in DOMAIN commands : Names(commands[i])
    /\ \A k \in Clients :
         /\ client[k].pc \in {"archive", "enqueue"} => Names(client[k])
         /\ client[k].pc = "create" /\ client[k].type = "BROKER_REPLACE" => row[client[k].old] # "none"
    /\ provision.ended => hedge.ended

\* Commands are executed in the order of their creation.
Before(i) == \A j \in DOMAIN commands : j < i => ~Undone(j)
QueueOrdered ==
    /\ \A i \in DOMAIN commands : Undone(i) =>
         (commands[i].status = "PENDING" /\ commands[i].due) \/ (worker.pc # "idle" /\ worker.cmd = i)
    /\ worker.pc # "idle" => Before(worker.cmd)

OneRequest == \A j, k \in Clients : client[j].pc # "idle" /\ client[k].pc # "idle" => j = k

\* The account that a command or a request finds in place, and whether it is
\* registered or will be.
Subject(c) == IF c.type = "BROKER_REPLACE" THEN c.old ELSE c.new
Expected(a) == a \in recorded \/ WillMake(a)
Asks(k, a) == client[k].pc # "idle" /\ client[k].type \in Creating /\ client[k].new = a

\* A request knows of the rows and of the queue what no other has changed.
Asked(k) ==
    /\ client[k].pc # "remove"
    /\ client[k].pc = "clear" /\ ~client[k].form => client[k].seen = {p \in Props : row[p] = "active"}
    /\ client[k].pc # "idle" /\ client[k].form => client[k].type = "PROP_ROTATION" /\ "unsynced" \in raced
    /\ client[k].pc = "archive" => client[k].type = "BROKER_REPLACE"
    /\ client[k].pc \in {"create", "archive"} /\ client[k].type = "BROKER_REPLACE" => Exists(client[k].old)
    /\ client[k].pc \in {"archive", "enqueue"} /\ client[k].type # "DELETE" => row[client[k].new] = "active"
    /\ client[k].pc # "idle" =>
         /\ client[k].type = "BROKER_REPLACE" => client[k].old # client[k].new
         /\ client[k].type \in {"BROKER_REPLACE", "SET_HEDGE_BROKER"} => Expected(Subject(client[k]))
         /\ client[k].type \in Creating => \A i \in DOMAIN commands :
              ~Makes(i, client[k].new) /\ (commands[i].type = "BROKER_REPLACE" => commands[i].old # client[k].new)

\* A broker that has a row is recorded or will be.
RowsKnown ==
    \A b \in Brokers : Exists(b) => Expected(b) \/ \E k \in Clients : Asks(k, b)

\* A command comes after the one that registers the account it names.
Ordered(i) ==
    /\ Undone(i) /\ commands[i].type \in {"BROKER_REPLACE", "SET_HEDGE_BROKER"} =>
         \/ Subject(commands[i]) \in recorded
         \/ \E j \in DOMAIN commands : j < i /\ Undone(j) /\ Makes(j, Subject(commands[i]))
    /\ commands[i].type = "BROKER_REPLACE" =>
         /\ commands[i].old # commands[i].new
         /\ \A j \in DOMAIN commands : Makes(j, commands[i].old) => j < i
    /\ Undone(i) /\ commands[i].type \in Creating => Exists(commands[i].new)

\* A broker is active, or not on EasierProp, or about to be removed from it.
Gone(b) == b \notin registered /\ ~WillMake(b)
Removed(i) == worker.cmd = i /\ worker.pc \in {"provision", "hedge", "complete"}
Replaced(b) ==
    \/ \E k \in Clients : client[k].pc = "enqueue" /\ client[k].type = "BROKER_REPLACE" /\ client[k].old = b
    \/ \E i \in DOMAIN commands :
          Undone(i) /\ commands[i].type = "BROKER_REPLACE" /\ commands[i].old = b /\ ~Removed(i)
BrokersKnown == \A b \in Brokers : row[b] = "active" \/ Gone(b) \/ Replaced(b)

\* The hedge setup trades with an account, or will once the last command that
\* writes it has been executed.
Writes(kind) == IF kind = "prop" THEN {"PROP_ROTATION"} ELSE {"BROKER_REPLACE", "SET_HEDGE_BROKER"}
Final(kind, i) == /\ Undone(i) /\ commands[i].type \in Writes(kind)
                  /\ \A j \in DOMAIN commands : i < j => commands[j].type \notin Writes(kind)
Follows(kind, a) ==
    \/ \E i \in DOMAIN commands : Final(kind, i) /\ commands[i].new = a
    \/ (\A i \in DOMAIN commands : Undone(i) => commands[i].type \notin Writes(kind)) /\ hedge[kind] = a

BrokerFollows ==
    \/ \E k \in Clients : client[k].pc = "enqueue" /\ client[k].type = "BROKER_REPLACE"
    \/ \E b \in Brokers : row[b] = "active" /\ Follows("broker", b)

\* It is the one prop that is active, unless a request is replacing it.
Only(p) == \A q \in Props : row[q] = "active" <=> q = p
Rotates(k) == client[k].type = "PROP_ROTATION" /\ client[k].pc \in {"create", "enqueue"}
PropFollows ==
    \/ \E p \in Props : Only(p) /\ Follows("prop", p) /\ \A k \in Clients : ~Rotates(k)
    \/ \E k \in Clients : Rotates(k) /\ client[k].pc = "create" /\ \A q \in Props : row[q] # "active"
    \/ \E k \in Clients : Rotates(k) /\ client[k].pc = "enqueue" /\ Only(client[k].new)

\* The rows of the props are followed until one is written that nobody
\* carries over.
PropCurrent == "unsynced" \in raced \/ PropFollows

\* Only one prop account is registered, or two while a command replaces one.
PropRegistered ==
    /\ \A p \in registered \cap Props :
         p = provision.prop \/ (worker.pc # "idle" /\ Current.type = "PROP_ROTATION" /\ p = New)
    /\ worker.pc = "provision" /\ Current.type = "PROP_ROTATION" => \A p \in registered \cap Props : p = New
    /\ worker.pc = "complete" /\ Current.type = "BROKER_ADD" => New \in recorded

Calm ==
    /\ QueueOrdered /\ OneRequest /\ RowsKnown /\ BrokersKnown /\ BrokerFollows /\ PropCurrent /\ PropRegistered
    /\ \A k \in Clients : Asked(k)
    /\ \A i \in DOMAIN commands : Ordered(i)

CurrentInv == Disturbed \/ Calm

-----------------------------------------------------------------------------

\* At first nothing is under way.
LEMMA InitNames == SyncInit => NamesInv
<1> SUFFICES ASSUME SyncInit PROVE NamesInv
    OBVIOUS
<1>1. \A k \in Clients : client[k].pc = "idle"
    BY DEF SyncInit, Idle
<1>2. commands = <<>> /\ ~provision.ended
    BY DEF SyncInit, First
<1> QED BY <1>1, <1>2 DEF NamesInv

\* The two accounts that were provisioned are the active ones.
LEMMA InitCalm == SyncInit => Calm
<1> SUFFICES ASSUME SyncInit PROVE Calm
    OBVIOUS
<1>1. /\ \A k \in Clients : client[k].pc = "idle"
      /\ commands = <<>> /\ worker.pc = "idle"
      /\ \A a \in Accounts : row[a] = IF a \in {FirstProp, FirstBroker} THEN "active" ELSE "none"
      /\ recorded = {FirstProp, FirstBroker} /\ registered = recorded
      /\ hedge.prop = FirstProp /\ hedge.broker = FirstBroker /\ provision.prop = FirstProp
    BY DEF SyncInit, Idle, Resting, First
<1>2. DOMAIN commands = {}
    BY <1>1
<1>3. FirstProp \in Props /\ FirstBroker \in Brokers /\ Props \cap Brokers = {}
      /\ Props \subseteq Accounts /\ Brokers \subseteq Accounts
    BY SyncAssumption DEF Accounts
<1>4. QueueOrdered /\ OneRequest /\ (\A k \in Clients : Asked(k)) /\ \A i \in DOMAIN commands : Ordered(i)
    BY <1>1, <1>2 DEF QueueOrdered, OneRequest, Asked
<1>5. RowsKnown /\ BrokersKnown
    <2>1. \A b \in Brokers : b = FirstBroker \/ (row[b] = "none" /\ b \notin registered)
        BY <1>1, <1>3
    <2> QED BY <1>1, <1>2, <1>3, <2>1 DEF RowsKnown, BrokersKnown, Exists, Expected, Gone, WillMake
<1>6. BrokerFollows
    <2>1. Follows("broker", FirstBroker)
        BY <1>1, <1>2 DEF Follows
    <2> QED BY <1>1, <1>3, <2>1 DEF BrokerFollows
<1>7. PropFollows
    <2>1. Follows("prop", FirstProp)
        BY <1>1, <1>2 DEF Follows
    <2>2. Only(FirstProp)
        BY <1>1, <1>3 DEF Only
    <2> QED BY <1>1, <1>3, <2>1, <2>2 DEF PropFollows, Rotates
<1>8. PropRegistered
    BY <1>1, <1>3 DEF PropRegistered
<1> QED BY <1>4, <1>5, <1>6, <1>7, <1>8 DEF Calm, PropCurrent

\* A command has rows for the accounts that it names as long as rows stay.
LEMMA NamesStay ==
    ASSUME RowsStay, NEW c, c \in Command \cup ClientType, Payload(c), c.type \in Types, Names(c)
    PROVE  /\ c.type # "DELETE" => row'[c.new] # "none"
           /\ c.type = "BROKER_REPLACE" => row'[c.old] # "none"
<1>1. /\ c.type # "DELETE" => c.new \in Accounts
      /\ c.type = "BROKER_REPLACE" => c.old \in Accounts
    BY DEF Payload, Types, Accounts
<1> QED BY <1>1 DEF RowsStay, Names

\* The names of the commands, in a step of a request.
LEMMA ClientNames ==
    ASSUME SyncInv, RowsInv, RemovalInv, NamesInv, NEW k \in Clients, ClientStep(k)
    PROVE  NamesInv' /\ RowsStay
<1>0. SyncTypeOK /\ Payloads
    BY DEF SyncInv
<1>1. RowsStay /\ UNCHANGED <<provision, hedge>>
    <2>1. CASE Begins(k)
        <3>1. PICK z \in ClientType : Begin(k, z)
            BY <1>0, <2>1, WhatBegins
        <3> QED BY <3>1 DEF Begin, rows, hedging, RowsStay
    <2>2. CASE EditProp(k)
        BY <1>0, <2>2, EditRows, EditWrites
    <2> QED BY <2>1, <2>2, GoesOnRows DEF ClientStep, Begins, ClearProps, CreateRow, ArchiveOld, RemoveRow,
                                    Enqueue, RequestOnly, hedging
<1>2. commands' = commands \/ (client[k].pc = "enqueue" /\ \E n \in Nat : Added(n, client[k]))
    <2>1. CASE Begins(k)
        <3>1. PICK z \in ClientType : Begin(k, z)
            BY <1>0, <2>1, WhatBegins
        <3> QED BY <3>1 DEF Begin
    <2>2. CASE Enqueue(k)
        BY <1>0, <2>2, EnqueueWrites DEF Enqueue
    <2>3. CASE EditProp(k)
        BY <1>0, <2>3, EditWrites
    <2> QED BY <2>1, <2>2, <2>3 DEF ClientStep, Begins, ClearProps, CreateRow, ArchiveOld, RemoveRow
<1>3. \A i \in DOMAIN commands : commands[i] \in Command /\ Payload(commands[i]) /\ commands[i].type \in Types
    BY <1>0, Commands DEF Payloads, Command
<1>4. \A j \in Clients : client[j] \in ClientType /\ Payload(client[j]) /\ client[j].type \in Types
    BY <1>0 DEF Payloads, SyncTypeOK, ClientType
<1>5. \A i \in DOMAIN commands' : Names(commands[i])'
    <2>1. ASSUME NEW i \in DOMAIN commands'
          PROVE  \/ i \in DOMAIN commands /\ commands'[i] = commands[i]
                 \/ /\ commands'[i].type = client[k].type /\ commands'[i].new = client[k].new
                    /\ commands'[i].old = client[k].old /\ client[k].pc = "enqueue"
        BY <1>2 DEF Added
    <2>2. \A i \in DOMAIN commands : /\ commands[i].type # "DELETE" => row'[commands[i].new] # "none"
                                     /\ commands[i].type = "BROKER_REPLACE" => row'[commands[i].old] # "none"
        BY <1>1, <1>3, NamesStay DEF NamesInv
    <2>3. client[k].pc = "enqueue" => /\ client[k].type # "DELETE" => row'[client[k].new] # "none"
                                      /\ client[k].type = "BROKER_REPLACE" => row'[client[k].old] # "none"
        BY <1>1, <1>4, NamesStay DEF NamesInv
    <2> QED BY <2>1, <2>2, <2>3 DEF Names
<1>6. ASSUME NEW j \in Clients, client'[j] = client[j]
      PROVE  /\ client'[j].pc \in {"archive", "enqueue"} => Names(client[j])'
             /\ client'[j].pc = "create" /\ client'[j].type = "BROKER_REPLACE" => row'[client'[j].old] # "none"
    <2>1. client[j].pc \in {"archive", "enqueue"} =>
              /\ client[j].type # "DELETE" => row'[client[j].new] # "none"
              /\ client[j].type = "BROKER_REPLACE" => row'[client[j].old] # "none"
        BY <1>1, <1>4, NamesStay DEF NamesInv
    <2>2. client[j].pc = "create" /\ client[j].type = "BROKER_REPLACE" => row'[client[j].old] # "none"
        BY <1>1, <1>4 DEF NamesInv, RowsStay, Payload, Accounts
    <2> QED BY <1>6, <2>1, <2>2 DEF Names
<1>7. \A j \in Clients \ {k} : client'[j] = client[j]
    <2>1. CASE Begins(k)
        <3>1. PICK z \in ClientType : Begin(k, z)
            BY <1>0, <2>1, WhatBegins
        <3> QED BY <1>0, <3>1, ClientSet DEF Begin
    <2>2. CASE EditProp(k)
        BY <1>0, <2>2, EditWrites
    <2>3. CASE ~Begins(k) /\ ~EditProp(k)
        <3>1. PICK z \in ClientType : client' = [client EXCEPT ![k] = z]
            BY <1>0, <2>3, GoesOn DEF ClientStep, Begins
        <3> QED BY <1>0, <3>1, ClientSet
    <2> QED BY <2>1, <2>2, <2>3
<1>8. /\ client'[k].pc \in {"archive", "enqueue"} => Names(client[k])'
      /\ client'[k].pc = "create" /\ client'[k].type = "BROKER_REPLACE" => row'[client'[k].old] # "none"
    <2>1. CASE Begins(k)
        <3>1. PICK z \in ClientType : Begun(z) /\ Begin(k, z)
            BY <1>0, <2>1, WhatBegins
        <3>2. client'[k] = z /\ row' = row
            BY <1>0, <3>1, ClientSet DEF Begin, rows
        <3> QED BY <3>1, <3>2 DEF Begun, Names
    <2>3. CASE EditProp(k)
        <3>1. client' = client
            BY <1>0, <2>3, EditWrites
        <3> QED BY <1>6, <3>1
    <2>2. CASE ~Begins(k) /\ ~EditProp(k)
        <3>1. PICK z \in ClientType :
                  /\ client' = [client EXCEPT ![k] = z]
                  /\ \/ z = Idle
                     \/ /\ z.type = client[k].type /\ z.new = client[k].new /\ z.old = client[k].old
                        /\ \/ ClearProps(k) /\ z.pc = "create"
                           \/ CreateRow(k) /\ z.pc = IF client[k].type = "BROKER_REPLACE" THEN "archive" ELSE "enqueue"
                           \/ ArchiveOld(k) /\ z.pc = "enqueue"
            BY <1>0, <2>2, GoesOn DEF ClientStep, Begins
        <3>2. client'[k] = z
            BY <1>0, <3>1, ClientSet
        <3>3. CASE z = Idle
            BY <3>2, <3>3 DEF Idle
        <3>4. CASE ClearProps(k) /\ z.type = client[k].type /\ z.pc = "create"
            BY <3>2, <3>4 DEF ClearProps, RowsInv, ClientKnows
        <3>5. CASE CreateRow(k) /\ z.type = client[k].type /\ z.new = client[k].new /\ z.old = client[k].old
                   /\ z.pc \in {"archive", "enqueue"}
            <4>1. client[k].pc = "create" /\ row' = [row EXCEPT ![client[k].new] = "active"]
                BY <3>5 DEF CreateRow
            <4>2. client[k].new \in Accounts
                BY <4>1, NewIs
            <4>3. client[k].type = "BROKER_REPLACE" => row'[client[k].old] # "none"
                BY <1>1, <1>4, <4>1 DEF NamesInv, RowsStay, Payload, Accounts
            <4>4. row'[client[k].new] # "none"
                BY <1>0, <4>1, <4>2 DEF SyncTypeOK
            <4> QED BY <3>2, <3>5, <4>3, <4>4 DEF Names
        <3>6. CASE ArchiveOld(k) /\ z.type = client[k].type /\ z.new = client[k].new /\ z.old = client[k].old
                   /\ z.pc = "enqueue"
            <4>1. /\ client[k].type # "DELETE" => row'[client[k].new] # "none"
                  /\ client[k].type = "BROKER_REPLACE" => row'[client[k].old] # "none"
                BY <1>1, <1>4, <3>6, NamesStay DEF NamesInv, ArchiveOld
            <4> QED BY <3>2, <3>6, <4>1 DEF Names
        <3> QED BY <3>1, <3>3, <3>4, <3>5, <3>6
    <2> QED BY <2>1, <2>2, <2>3
<1>9. \A j \in Clients :
          /\ client'[j].pc \in {"archive", "enqueue"} => Names(client[j])'
          /\ client'[j].pc = "create" /\ client'[j].type = "BROKER_REPLACE" => row'[client'[j].old] # "none"
    BY <1>6, <1>7, <1>8
<1> QED BY <1>1, <1>5, <1>9 DEF NamesInv

\* The names of the commands, when the queue or the worker make a step.
LEMMA RestNames ==
    ASSUME NamesInv, UNCHANGED row, \A k \in Clients : client'[k] \in {client[k], Idle},
           \A i \in DOMAIN commands' : /\ i \in DOMAIN commands /\ commands'[i].type = commands[i].type
                                       /\ commands'[i].new = commands[i].new /\ commands'[i].old = commands[i].old,
           provision'.ended => hedge'.ended
    PROVE  NamesInv' /\ RowsStay
<1>1. \A i \in DOMAIN commands' : Names(commands[i])'
    BY DEF NamesInv, Names
<1>2. ASSUME NEW k \in Clients
      PROVE  /\ client'[k].pc \in {"archive", "enqueue"} => Names(client[k])'
             /\ client'[k].pc = "create" /\ client'[k].type = "BROKER_REPLACE" => row'[client'[k].old] # "none"
    BY DEF NamesInv, Names, Idle
<1> QED BY <1>1, <1>2 DEF NamesInv, RowsStay

\* What the steps of the queue and the worker write of the queue.
LEMMA RestQueue ==
    ASSUME SyncInv, Requeue \/ StartCommand \/ WorkerStep \/ BecomesDue \/ Restart \/ UNCHANGED syncVars
    PROVE  /\ UNCHANGED row /\ \A k \in Clients : client'[k] \in {client[k], Idle}
           /\ \/ commands' = commands
              \/ Complete /\ Rewritten(worker.cmd, "COMPLETED") /\ worker.cmd \in DOMAIN commands
              \/ \E i \in DOMAIN commands : \E status : status # "COMPLETED" /\ Rewritten(i, status)
<1>0. SyncTypeOK /\ Knows
    BY DEF SyncInv
<1>1. CASE Requeue
    BY <1>0, <1>1, RequeueWrites DEF Requeue, rows, WorkerOnly
<1>2. CASE StartCommand
    <2>1. PICK i \in DOMAIN commands : Rewritten(i, "RUNNING")
        BY <1>0, <1>2, StartWrites
    <2> QED BY <1>2, <2>1 DEF StartCommand, rows, WorkerOnly
<1>3. CASE BecomesDue
    <2>1. PICK i \in DOMAIN commands : Rewritten(i, "PENDING")
        BY <1>0, <1>3, BackoffWrites
    <2> QED BY <1>3, <2>1 DEF BecomesDue, rows, WorkerOnly
<1>4. CASE Restart
    BY <1>4 DEF Restart, rows
<1>5. CASE UNCHANGED syncVars
    BY <1>5 DEF syncVars, rows
<1>6. CASE Complete
    BY <1>6, CompleteWrites DEF Complete, rows, WorkerOnly, Rewritten
<1>7. CASE Refused \/ StepFails
    <2>1. worker.pc # "idle" /\ GiveUpOrRetry /\ UNCHANGED <<row, client>>
        BY <1>7 DEF Refused, StepFails, rows, WorkerOnly
    <2>2. PICK status \in {"FAILED", "PENDING"} : Rewritten(worker.cmd, status)
        BY <2>1, FailureWrites
    <2>3. worker.cmd \in DOMAIN commands /\ status # "COMPLETED"
        BY <2>2 DEF Rewritten
    <2> QED BY <2>1, <2>2, <2>3
<1>8. CASE ReadContext \/ FindRow \/ Register \/ Record \/ RemoveSuperseded \/ WriteProvision
    BY <1>8 DEF ReadContext, FindRow, Register, Record, RemoveSuperseded, WriteProvision, rows, WorkerOnly
<1>9. CASE WriteHedge \/ ListAccounts \/ EraseAccount \/ ForgetAccounts \/ Decommission
    BY <1>9 DEF WriteHedge, ListAccounts, EraseAccount, ForgetAccounts, Decommission, rows, WorkerOnly
<1> QED BY <1>1, <1>2, <1>3, <1>4, <1>5, <1>6, <1>7, <1>8, <1>9 DEF WorkerStep

\* A hedge setup that is archived stays so, and is archived before the
\* provision is over (executeDelete).
LEMMA EndsStay ==
    ASSUME SyncInv, [SyncNext]_syncVars
    PROVE  /\ hedge.ended => hedge'.ended
           /\ provision'.ended => provision.ended \/ hedge'.ended
<1>0. SyncTypeOK /\ Knows /\ hedge \in Pair /\ provision \in Pair /\ Kind \in {"prop", "broker"}
    BY DEF SyncInv, SyncTypeOK, Kind
<1>1. CASE WriteProvision
    BY <1>0, <1>1 DEF WriteProvision, Pair
<1>2. CASE WriteHedge
    BY <1>0, <1>2 DEF WriteHedge, Rehedged, Pair
<1>3. CASE ForgetAccounts
    BY <1>0, <1>3 DEF ForgetAccounts, Pair
<1>4. CASE Decommission
    BY <1>0, <1>4 DEF Decommission, Knows, Pair
<1>5. CASE UNCHANGED <<provision, hedge>>
    BY <1>5
<1>6. ASSUME NEW k \in Clients, ClientStep(k) PROVE UNCHANGED <<provision, hedge>>
    <2>1. CASE Begins(k)
        <3>1. PICK z \in ClientType : Begin(k, z)
            BY <1>0, <2>1, WhatBegins
        <3> QED BY <3>1 DEF Begin, hedging
    <2>2. CASE EditProp(k)
        BY <1>0, <2>2, EditWrites
    <2> QED BY <1>6, <2>1, <2>2 DEF ClientStep, Begins, ClearProps, CreateRow, ArchiveOld, RemoveRow,
                              Enqueue, RequestOnly, hedging
<1>7. CASE Requeue \/ StartCommand \/ BecomesDue \/ Restart \/ UNCHANGED syncVars
    BY <1>5, <1>7 DEF Requeue, StartCommand, BecomesDue, Restart, syncVars, hedging
<1>8. CASE ReadContext \/ FindRow \/ Register \/ Record \/ RemoveSuperseded \/ ListAccounts \/ EraseAccount
           \/ Complete \/ Refused \/ StepFails
    BY <1>5, <1>8 DEF ReadContext, FindRow, Register, Record, RemoveSuperseded, ListAccounts, EraseAccount,
                      Complete, Refused, StepFails, hedging
<1> QED BY <1>1, <1>2, <1>3, <1>4, <1>5, <1>6, <1>7, <1>8 DEF SyncNext, WorkerStep

\* Accounts that are named have rows, in every step.
LEMMA NextNames ==
    ASSUME SyncInv, RowsInv, RemovalInv, NamesInv, [SyncNext]_syncVars
    PROVE  NamesInv' /\ RowsStay
<1>1. CASE \E k \in Clients : ClientStep(k)
    BY <1>1, ClientNames
<1>2. CASE ~ \E k \in Clients : ClientStep(k)
    <2>1. Requeue \/ StartCommand \/ WorkerStep \/ BecomesDue \/ Restart \/ UNCHANGED syncVars
        BY <1>2 DEF SyncNext
    <2>2. /\ UNCHANGED row /\ \A k \in Clients : client'[k] \in {client[k], Idle}
          /\ \/ commands' = commands
             \/ \E i \in DOMAIN commands : \E status : Rewritten(i, status)
        BY <2>1, RestQueue
    <2>3. \A i \in DOMAIN commands' : /\ i \in DOMAIN commands /\ commands'[i].type = commands[i].type
                                      /\ commands'[i].new = commands[i].new /\ commands'[i].old = commands[i].old
        BY <2>2 DEF Rewritten
    <2>4. provision'.ended => hedge'.ended
        BY EndsStay DEF NamesInv
    <2> QED BY <2>2, <2>3, <2>4, RestNames
<1> QED BY <1>1, <1>2

-----------------------------------------------------------------------------

\* What a step does to a queue: it leaves it, adds a command, or writes the
\* status of one.
QueueStep ==
    \/ commands' = commands
    \/ \E k \in Clients : client[k].pc = "enqueue" /\ \E n \in Nat : Added(n, client[k])
    \/ Complete /\ Rewritten(worker.cmd, "COMPLETED") /\ worker.cmd \in DOMAIN commands
    \/ \E i \in DOMAIN commands : \E status : status # "COMPLETED" /\ Rewritten(i, status)

\* Every step is one of those.
LEMMA QueueSteps ==
    ASSUME SyncInv, [SyncNext]_syncVars
    PROVE  QueueStep
<1>0. SyncTypeOK
    BY DEF SyncInv
<1>1. ASSUME NEW k \in Clients, ClientStep(k) PROVE QueueStep
    <2>1. CASE Begins(k)
        <3>1. PICK z \in ClientType : Begin(k, z)
            BY <1>0, <2>1, WhatBegins
        <3> QED BY <3>1 DEF Begin, QueueStep
    <2>2. CASE Enqueue(k)
        BY <1>0, <2>2, EnqueueWrites DEF Enqueue, QueueStep
    <2>3. CASE EditProp(k)
        BY <1>0, <2>3, EditWrites DEF QueueStep
    <2> QED BY <1>1, <2>1, <2>2, <2>3 DEF ClientStep, Begins, ClearProps, CreateRow, ArchiveOld, RemoveRow, QueueStep
<1> QED BY <1>1, RestQueue DEF SyncNext, QueueStep

\* Only a broker that nobody has becomes active.
LEMMA Activates ==
    ASSUME SyncInv, RowsInv, [SyncNext]_syncVars, NEW a \in Brokers, row'[a] = "active", row[a] # "none"
    PROVE  row[a] = "active"
<1>0. SyncTypeOK /\ a \in Accounts /\ a \notin Props
    BY SyncAssumption DEF SyncInv, Accounts
<1>1. CASE UNCHANGED row
    BY <1>1
<1>2. ASSUME NEW k \in Clients, ClientStep(k) PROVE row[a] = "active"
    <2>1. CASE Begins(k)
        <3>1. PICK z \in ClientType : Begin(k, z)
            BY <1>0, <2>1, WhatBegins
        <3> QED BY <1>1, <3>1 DEF Begin, rows
    <2>2. CASE CreateRow(k)
        <3>1. row[client[k].new] = "none"
            BY <2>2 DEF CreateRow, RowsInv, ClientKnows
        <3> QED BY <1>0, <2>2, <3>1 DEF SyncTypeOK, CreateRow
    <2>3. CASE ClearProps(k) \/ ArchiveOld(k) \/ RemoveRow(k) \/ Enqueue(k)
        BY <1>0, <2>3 DEF SyncTypeOK, ClearProps, ArchiveOld, RemoveRow, Enqueue, rows
    <2>4. CASE EditProp(k)
        BY <1>0, <2>4, EditWrites
    <2> QED BY <1>2, <2>1, <2>2, <2>3, <2>4 DEF ClientStep, Begins
<1>3. CASE ~ \E k \in Clients : ClientStep(k)
    BY <1>1, <1>3, RestQueue DEF SyncNext
<1> QED BY <1>2, <1>3

\* The worker goes on with its command until it rests.
LEMMA Carries ==
    ASSUME SyncInv, [SyncNext]_syncVars, worker'.pc \in {"hedge", "provision", "complete"}
    PROVE  worker.pc # "idle" /\ worker'.cmd = worker.cmd
<1>0. SyncTypeOK /\ Knows
    BY DEF SyncInv
<1>1. CASE UNCHANGED worker
    BY <1>1
<1>2. ASSUME NEW k \in Clients, ClientStep(k) PROVE UNCHANGED worker
    <2>1. CASE Begins(k)
        <3>1. PICK z \in ClientType : Begin(k, z)
            BY <1>0, <2>1, WhatBegins
        <3> QED BY <3>1 DEF Begin
    <2>2. CASE EditProp(k)
        BY <1>0, <2>2, EditWrites
    <2> QED BY <1>2, <2>1, <2>2 DEF ClientStep, Begins, ClearProps, CreateRow, ArchiveOld, RemoveRow,
                              Enqueue, RequestOnly
<1>3. CASE Requeue \/ BecomesDue \/ UNCHANGED syncVars
    BY <1>1, <1>3 DEF Requeue, BecomesDue, syncVars
<1>4. CASE StartCommand
    <2>1. worker'.pc = "context"
        BY <1>0, <1>4, StartWrites
    <2> QED BY <2>1
<1>5. CASE Restart \/ Complete \/ Refused \/ StepFails
    BY <1>5, Rests DEF Restart, Complete, Refused, StepFails, GiveUpOrRetry
<1>6. CASE FindRow \/ Register \/ Record \/ RemoveSuperseded \/ WriteProvision \/ WriteHedge \/ Decommission
    BY <1>0, <1>6, Proceeds DEF FindRow, Register, Record, RemoveSuperseded, WriteProvision, WriteHedge, Decommission
<1>7. CASE ReadContext \/ ListAccounts \/ EraseAccount \/ ForgetAccounts
    BY <1>0, <1>7 DEF ReadContext, ListAccounts, EraseAccount, ForgetAccounts, Proceed, SyncTypeOK, WorkerType
<1> QED BY <1>1, <1>2, <1>3, <1>4, <1>5, <1>6, <1>7 DEF SyncNext, WorkerStep

\* The executor of SET_HEDGE_BROKER looks at the row before it writes.
LEMMA Looks ==
    ASSUME SyncInv, [SyncNext]_syncVars,
           worker'.pc \in {"hedge", "provision", "complete"}, Current.type = "SET_HEDGE_BROKER", worker.pc # "idle"
    PROVE  worker.pc \in {"hedge", "provision", "complete"} \/ (row[New] = "active" /\ UNCHANGED row)
<1>0. SyncTypeOK /\ Knows
    BY DEF SyncInv
<1>1. CASE UNCHANGED worker
    BY <1>1
<1>2. ASSUME NEW k \in Clients, ClientStep(k) PROVE UNCHANGED worker
    <2>1. CASE Begins(k)
        <3>1. PICK z \in ClientType : Begin(k, z)
            BY <1>0, <2>1, WhatBegins
        <3> QED BY <3>1 DEF Begin
    <2>2. CASE EditProp(k)
        BY <1>0, <2>2, EditWrites
    <2> QED BY <1>2, <2>1, <2>2 DEF ClientStep, Begins, ClearProps, CreateRow, ArchiveOld, RemoveRow,
                              Enqueue, RequestOnly
<1>3. CASE Requeue \/ BecomesDue \/ UNCHANGED syncVars
    BY <1>1, <1>3 DEF Requeue, BecomesDue, syncVars
<1>4. CASE StartCommand
    BY <1>4 DEF StartCommand
<1>5. CASE Restart \/ Complete \/ Refused \/ StepFails
    BY <1>5, Rests DEF Restart, Complete, Refused, StepFails, GiveUpOrRetry
<1>6. CASE FindRow
    <2>1. Designated(New) /\ Proceed("hedge") /\ UNCHANGED row
        BY <1>6 DEF FindRow, rows
    <2> QED BY <1>0, <2>1, Proceeds DEF Designated
<1>7. CASE WriteProvision \/ WriteHedge
    BY <1>0, <1>7, Proceeds DEF WriteProvision, WriteHedge
<1>8. CASE ReadContext
    BY <1>0, <1>8 DEF ReadContext, SyncTypeOK, WorkerType
<1>9. CASE Register \/ Record \/ RemoveSuperseded \/ ListAccounts \/ EraseAccount \/ ForgetAccounts \/ Decommission
    <2>1. Current.type # "SET_HEDGE_BROKER"
        BY <1>0, <1>9 DEF Knows, Creating, Replacing, Register, Record, RemoveSuperseded, ListAccounts,
                          EraseAccount, ForgetAccounts, Decommission
    <2> QED BY <2>1
<1> QED BY <1>1, <1>2, <1>3, <1>4, <1>5, <1>6, <1>7, <1>8, <1>9 DEF SyncNext, WorkerStep

\* A command that is hopeless stays so.
LEMMA HopelessStays ==
    ASSUME SyncInv, RowsInv, RemovalInv, NamesInv, [SyncNext]_syncVars, NEW i \in DOMAIN commands, Hopeless(i)
    PROVE  i \in DOMAIN commands' /\ Hopeless(i)'
<1>0. SyncTypeOK /\ Knows /\ Payloads
    BY DEF SyncInv
<1>1. /\ commands[i].type = "SET_HEDGE_BROKER" /\ commands[i].status # "COMPLETED"
      /\ row[commands[i].new] # "active" /\ row[commands[i].new] # "none" /\ commands[i].new \in Brokers
      /\ ~(worker.cmd = i /\ worker.pc \in {"hedge", "provision", "complete"})
    BY <1>0 DEF Hopeless, Undone, NamesInv, Names, Payloads, Payload
<1>2. /\ i \in DOMAIN commands' /\ commands'[i].type = commands[i].type /\ commands'[i].new = commands[i].new
      /\ commands'[i].status # "COMPLETED"
    <2>1. QueueStep
        BY QueueSteps
    <2>2. CASE Complete /\ Rewritten(worker.cmd, "COMPLETED") /\ worker.cmd \in DOMAIN commands
        <3>1. worker.cmd # i
            BY <1>1, <2>2 DEF Complete
        <3> QED BY <1>1, <2>2, <3>1 DEF Rewritten
    <2>3. CASE commands' = commands \/ \E k \in Clients : \E n \in Nat : Added(n, client[k])
        BY <1>1, <2>3 DEF Added
    <2>4. ASSUME NEW j \in DOMAIN commands, NEW status, status # "COMPLETED", Rewritten(j, status)
          PROVE  /\ i \in DOMAIN commands' /\ commands'[i].type = commands[i].type
                 /\ commands'[i].new = commands[i].new /\ commands'[i].status # "COMPLETED"
        BY <1>1, <2>4 DEF Rewritten
    <2> QED BY <2>1, <2>2, <2>3, <2>4 DEF QueueStep
<1>3. row'[commands[i].new] # "active"
    BY <1>1, Activates
<1>4. ~(worker'.cmd = i /\ worker'.pc \in {"hedge", "provision", "complete"})
    <2>1. SUFFICES ASSUME worker'.cmd = i, worker'.pc \in {"hedge", "provision", "complete"} PROVE FALSE
        OBVIOUS
    <2>2. worker.pc # "idle" /\ worker.cmd = i
        BY <1>0, <2>1, Carries
    <2>3. Current.type = "SET_HEDGE_BROKER" /\ New = commands[i].new
        BY <1>1, <2>2 DEF Current, New
    <2> QED BY <1>1, <2>1, <2>2, <2>3, Looks
<1> QED BY <1>1, <1>2, <1>3, <1>4 DEF Hopeless, Undone

\* The histories are never taken back.
LEMMA HistoryStays ==
    ASSUME SyncInv, [SyncNext]_syncVars
    PROVE  raced \subseteq raced' /\ (failures # 0 => failures' # 0)
<1>0. SyncTypeOK /\ failures \in Nat
    BY DEF SyncInv, SyncTypeOK
<1>1. ASSUME NEW k \in Clients, ClientStep(k) PROVE raced \subseteq raced' /\ UNCHANGED failures
    <2>1. CASE Begins(k)
        <3>1. PICK z \in ClientType : Begin(k, z)
            BY <1>0, <2>1, WhatBegins
        <3> QED BY <3>1 DEF Begin
    <2>2. CASE EditProp(k)
        BY <1>0, <2>2, EditWrites DEF EditProp
    <2> QED BY <1>1, <2>1, <2>2 DEF ClientStep, Begins, ClearProps, CreateRow, ArchiveOld, RemoveRow,
                              Enqueue, RequestOnly
<1>2. CASE StepFails \/ Restart \/ ListAccounts
    BY <1>0, <1>2 DEF StepFails, Restart, ListAccounts
<1>3. CASE Requeue \/ StartCommand \/ BecomesDue \/ UNCHANGED syncVars
    BY <1>3 DEF Requeue, StartCommand, BecomesDue, syncVars, WorkerOnly
<1>4. CASE ReadContext \/ FindRow \/ Register \/ Record \/ RemoveSuperseded \/ WriteProvision \/ WriteHedge
    BY <1>4 DEF ReadContext, FindRow, Register, Record, RemoveSuperseded, WriteProvision, WriteHedge, WorkerOnly
<1>5. CASE EraseAccount \/ ForgetAccounts \/ Decommission \/ Complete \/ Refused
    BY <1>5 DEF EraseAccount, ForgetAccounts, Decommission, Complete, Refused, WorkerOnly
<1> QED BY <1>1, <1>2, <1>3, <1>4, <1>5 DEF SyncNext, WorkerStep

\* A command to DELETE is open until the hedge setup is archived.
LEMMA DeletionStays ==
    ASSUME SyncInv, [SyncNext]_syncVars, Open({"DELETE"})
    PROVE  Open({"DELETE"})' \/ hedge'.ended
<1>0. Knows
    BY DEF SyncInv
<1>1. CASE Complete /\ Rewritten(worker.cmd, "COMPLETED") /\ worker.cmd \in DOMAIN commands
           /\ Current.type = "DELETE"
    <2>1. hedge.ended
        BY <1>0, <1>1 DEF Knows, Complete
    <2> QED BY <2>1, EndsStay
<1>2. CASE ~(Complete /\ Current.type = "DELETE")
    <2>1. QueueStep
        BY QueueSteps
    <2>2. \/ commands' = commands
          \/ \E k \in Clients : \E n \in Nat : Added(n, client[k])
          \/ \E i \in DOMAIN commands : \E status :
                 Rewritten(i, status) /\ (status = "COMPLETED" => commands[i].type \notin {"DELETE"})
        BY <1>2, <2>1 DEF QueueStep, Current
    <2> QED BY <2>2, OpenStays
<1> QED BY <1>1, <1>2, CompleteWrites DEF Rewritten

\* What is disturbed stays so.
LEMMA DisturbedStays ==
    ASSUME SyncInv, RowsInv, RemovalInv, NamesInv, [SyncNext]_syncVars, Disturbed
    PROVE  Disturbed'
<1>1. (\E i \in DOMAIN commands : Hopeless(i)) => \E i \in DOMAIN commands' : Hopeless(i)'
    BY HopelessStays
<1>2. Open({"DELETE"}) => Open({"DELETE"})' \/ hedge'.ended
    BY DeletionStays
<1>3. (\E i \in DOMAIN commands : Hopeless(i))' <=> \E i \in DOMAIN commands' : Hopeless(i)'
    OBVIOUS
<1> QED BY <1>1, <1>2, <1>3, EndsStay, HistoryStays DEF Disturbed

-----------------------------------------------------------------------------

\* A step as long as nothing is disturbed.
CalmStep ==
    /\ SyncInv /\ RowsInv /\ RemovalInv /\ NamesInv /\ Trades /\ Calm
    /\ ~Disturbed /\ ~Disturbed' /\ raced \subseteq raced'

\* What the queue looks like to those who do not ask for a status: a step of
\* the worker leaves it.
SameQueue ==
    /\ DOMAIN commands' = DOMAIN commands
    /\ \A i \in DOMAIN commands :
         /\ commands'[i].type = commands[i].type /\ commands'[i].new = commands[i].new
         /\ commands'[i].old = commands[i].old /\ (Undone(i)' <=> Undone(i))

\* When nothing is disturbed, no broker is deleted and the service goes on.
LEMMA CalmFacts ==
    ASSUME CalmStep
    PROVE  /\ SyncTypeOK /\ Knows /\ Payloads
           /\ ~hedge.ended /\ ~provision.ended /\ failures = 0 /\ failures' = 0
           /\ raced \subseteq raced' /\ raced' \subseteq {"unsynced"}
           /\ \A i \in DOMAIN commands : Undone(i) => commands[i].type # "DELETE"
           /\ \A i \in DOMAIN commands' : Undone(i)' => commands'[i].type # "DELETE"
           /\ worker.pc # "idle" => worker.cmd \in DOMAIN commands /\ Undone(worker.cmd) /\ Current.type # "DELETE"
           /\ \A k \in Clients : Asked(k)
           /\ \A i \in DOMAIN commands : Ordered(i)
<1>1. SyncTypeOK /\ Knows /\ Payloads
    BY DEF CalmStep, SyncInv
<1>2. /\ ~hedge.ended /\ ~provision.ended /\ failures = 0 /\ failures' = 0
      /\ raced \subseteq raced' /\ raced' \subseteq {"unsynced"}
    BY DEF CalmStep, Disturbed, NamesInv
<1>3. \A i \in DOMAIN commands : Undone(i) => commands[i].type # "DELETE"
    BY DEF CalmStep, Disturbed, Open, Undone
<1>4. \A i \in DOMAIN commands' : Undone(i)' => commands'[i].type # "DELETE"
    BY DEF CalmStep, Disturbed, Open, Undone
<1>5. worker.pc # "idle" => worker.cmd \in DOMAIN commands /\ Undone(worker.cmd) /\ Current.type # "DELETE"
    BY <1>1, <1>3 DEF Knows, Current, Undone
<1> QED BY <1>1, <1>2, <1>3, <1>4, <1>5 DEF CalmStep, Calm

\* The steps of the queue and the worker that are left.
LEMMA CalmSteps ==
    ASSUME CalmStep, Requeue \/ StartCommand \/ WorkerStep \/ BecomesDue \/ Restart
    PROVE  \/ StartCommand \/ ReadContext \/ FindRow \/ Register \/ Record \/ RemoveSuperseded
           \/ WriteProvision \/ WriteHedge \/ Complete
<1>0. SyncTypeOK /\ Knows /\ failures = 0 /\ failures' = 0 /\ QueueOrdered
      /\ (worker.pc # "idle" => worker.cmd \in DOMAIN commands /\ Undone(worker.cmd) /\ Current.type # "DELETE")
    BY CalmFacts DEF CalmStep, Calm
<1>1. ~Restart /\ ~StepFails
    BY <1>0 DEF Restart, StepFails
<1>2. ~ListAccounts /\ ~EraseAccount /\ ~ForgetAccounts /\ ~Decommission
    BY <1>0 DEF Knows, ListAccounts, EraseAccount, ForgetAccounts, Decommission
<1>3. ~Requeue
    <2>1. SUFFICES ASSUME worker.pc = "idle", NEW i \in DOMAIN commands, commands[i].status = "RUNNING" PROVE FALSE
        BY DEF Requeue, WithStatus
    <2> QED BY <1>0, <2>1 DEF QueueOrdered, Undone
<1>4. ~BecomesDue
    <2>1. SUFFICES ASSUME NEW i \in DOMAIN commands, commands[i].status = "PENDING", ~commands[i].due PROVE FALSE
        BY DEF BecomesDue, WithStatus
    <2> QED BY <1>0, <2>1 DEF QueueOrdered, Undone, Knows, Current
<1>5. ~Refused
    <2>1. SUFFICES ASSUME Refused PROVE FALSE
        OBVIOUS
    <2>2. worker.cmd \in DOMAIN commands /\ Undone(worker.cmd) /\ Before(worker.cmd) /\ Ordered(worker.cmd)
        BY <1>0, <2>1, CalmFacts DEF Refused, QueueOrdered
    <2>3. CASE worker.pc = "find" /\ Current.type = "SET_HEDGE_BROKER"
        <3>1. ~worker.hedge.ended
            BY <1>0, <2>3, CalmFacts DEF Knows
        <3>2. row[New] = "active"
            BY <2>2, <2>3 DEF CalmStep, Disturbed, Hopeless, New, Current
        <3>3. New \in recorded
            BY <2>2, <2>3 DEF Ordered, Before, Subject, New, Current
        <3> QED BY <2>1, <2>3, <3>1, <3>2, <3>3 DEF Refused, Designated
    <2>4. CASE worker.pc \in {"find", "record"} /\ Current.type # "SET_HEDGE_BROKER" /\ ~Exists(New)
        <3>1. Current.type \in Creating
            BY <1>0, <2>4, CurrentIs DEF CalmStep, Command, Types, Creating
        <3> QED BY <2>2, <2>4, <3>1 DEF Ordered, New, Current
    <2> QED BY <2>1, <2>3, <2>4 DEF Refused
<1> QED BY <1>1, <1>2, <1>3, <1>4, <1>5 DEF WorkerStep

-----------------------------------------------------------------------------

\* The queue goes on: what is no longer waited for has been recorded.
Passed ==
    /\ DOMAIN commands' = DOMAIN commands
    /\ \A i \in DOMAIN commands :
         /\ commands'[i].type = commands[i].type /\ commands'[i].new = commands[i].new
         /\ commands'[i].old = commands[i].old /\ (Undone(i)' => Undone(i))
         /\ Undone(i) /\ ~Undone(i)' /\ commands[i].type \in Creating => commands[i].new \in recorded'

\* What requests and commands expect, after a step of the worker.
LEMMA PassCalm ==
    ASSUME CalmStep, Passed, UNCHANGED <<row, client>>, recorded \subseteq recorded'
    PROVE  /\ OneRequest' /\ RowsKnown'
           /\ \A k \in Clients : Asked(k)'
           /\ \A i \in DOMAIN commands' : Ordered(i)'
<1>1. ASSUME NEW a, Expected(a) PROVE Expected(a)'
    <2>1. CASE a \in recorded
        BY <2>1 DEF Expected
    <2>2. CASE WillMake(a)
        <3>1. PICK i \in DOMAIN commands : Undone(i) /\ Makes(i, a)
            BY <2>2 DEF WillMake
        <3>2. CASE Undone(i)'
            BY <3>1, <3>2 DEF Expected, WillMake, Makes, Passed
        <3>3. CASE ~Undone(i)'
            BY <3>1, <3>3 DEF Expected, Makes, Passed
        <3> QED BY <3>2, <3>3
    <2> QED BY <1>1, <2>1, <2>2 DEF Expected
<1>2. OneRequest'
    BY DEF CalmStep, Calm, OneRequest
<1>3. RowsKnown'
    BY <1>1 DEF CalmStep, Calm, RowsKnown, Exists, Asks
<1>4. ASSUME NEW k \in Clients PROVE Asked(k)'
    <2>1. Asked(k)
        BY CalmFacts
    <2>2. Expected(Subject(client[k])) => Expected(Subject(client[k]))'
        <3>1. PICK a : a = Subject(client[k])
            OBVIOUS
        <3>2. Subject(client[k])' = a
            BY <3>1 DEF Subject
        <3>3. Expected(Subject(client[k]))' <=> Expected(a)'
            BY <3>2 DEF Expected, WillMake, Makes
        <3> QED BY <1>1, <3>1, <3>3
    <2>3. client[k].pc # "idle" /\ client[k].type \in Creating => \A i \in DOMAIN commands' :
              ~Makes(i, client[k].new)' /\ (commands'[i].type = "BROKER_REPLACE" => commands'[i].old # client[k].new)
        BY <2>1 DEF Asked, Makes, Passed
    <2>4. raced \subseteq raced'
        BY CalmFacts
    <2> QED BY <2>1, <2>2, <2>3, <2>4 DEF Asked, Exists
<1>5. ASSUME NEW i \in DOMAIN commands' PROVE Ordered(i)'
    <2>1. i \in DOMAIN commands /\ Ordered(i) /\ Subject(commands[i])' = Subject(commands[i])
        BY CalmFacts DEF Passed, Subject
    <2>2. PICK a : a = Subject(commands[i])
        OBVIOUS
    <2>3. Undone(i)' /\ commands[i].type \in {"BROKER_REPLACE", "SET_HEDGE_BROKER"} =>
              a \in recorded' \/ \E j \in DOMAIN commands' : j < i /\ Undone(j)' /\ Makes(j, a)'
        <3>1. SUFFICES ASSUME Undone(i)', commands[i].type \in {"BROKER_REPLACE", "SET_HEDGE_BROKER"}, a \notin recorded'
                       PROVE  \E j \in DOMAIN commands' : j < i /\ Undone(j)' /\ Makes(j, a)'
            OBVIOUS
        <3>2. PICK j \in DOMAIN commands : j < i /\ Undone(j) /\ Makes(j, a)
            BY <2>1, <2>2, <3>1 DEF Ordered, Passed
        <3>3. Undone(j)' /\ Makes(j, a)'
            BY <3>1, <3>2 DEF Passed, Makes
        <3> QED BY <3>2, <3>3 DEF Passed
    <2>4. commands[i].type = "BROKER_REPLACE" =>
              commands[i].old # commands[i].new /\ \A j \in DOMAIN commands' : Makes(j, commands[i].old)' => j < i
        BY <2>1 DEF Ordered, Makes, Passed
    <2>5. /\ commands'[i].type = commands[i].type /\ commands'[i].new = commands[i].new
          /\ commands'[i].old = commands[i].old /\ (Undone(i)' => Undone(i))
        BY <2>1 DEF Passed
    <2>6. Undone(i)' /\ commands[i].type \in Creating => Exists(commands[i].new)'
        BY <2>1, <2>5 DEF Ordered, Exists
    <2> QED BY <2>1, <2>2, <2>3, <2>4, <2>5, <2>6 DEF Ordered, Makes
<1> QED BY <1>2, <1>3, <1>4, <1>5

\* What is traded with, or will be, as long as no command ends.
LEMMA FollowsSame ==
    ASSUME SameQueue, NEW kind, NEW a, Follows(kind, a),
           hedge'[kind] = hedge[kind] \/ \E i \in DOMAIN commands : Undone(i) /\ commands[i].type \in Writes(kind)
    PROVE  Follows(kind, a)'
<1>1. \A i \in DOMAIN commands : Final(kind, i) => Final(kind, i)'
    BY DEF SameQueue, Final, Writes
<1>2. CASE \E i \in DOMAIN commands : Final(kind, i) /\ commands[i].new = a
    BY <1>1, <1>2 DEF SameQueue, Follows
<1>3. CASE (\A i \in DOMAIN commands : Undone(i) => commands[i].type \notin Writes(kind)) /\ hedge[kind] = a
    BY <1>3 DEF SameQueue, Follows, Writes
<1> QED BY <1>2, <1>3 DEF Follows

\* When a command that writes it ends it has been written.
LEMMA FollowsComplete ==
    ASSUME SyncTypeOK, NEW kind, NEW a, Follows(kind, a), UNCHANGED hedge, NEW c \in DOMAIN commands, Before(c),
           Rewritten(c, "COMPLETED"), commands[c].type \in Writes(kind) => hedge[kind] = commands[c].new
    PROVE  Follows(kind, a)'
<1>1. \A i \in DOMAIN commands : /\ commands'[i].type = commands[i].type /\ commands'[i].new = commands[i].new
                                 /\ (Undone(i)' <=> Undone(i) /\ i # c)
    BY DEF Rewritten, Undone
<1>2. DOMAIN commands' = DOMAIN commands
    BY DEF Rewritten
<1>3. CASE (\A i \in DOMAIN commands : Undone(i) => commands[i].type \notin Writes(kind)) /\ hedge[kind] = a
    BY <1>1, <1>2, <1>3 DEF Follows, Writes
<1>4. ASSUME NEW i \in DOMAIN commands, Final(kind, i), commands[i].new = a
      PROVE  Follows(kind, a)'
    <2>1. CASE i # c
        <3>1. Final(kind, i)'
            BY <1>1, <1>2, <1>4, <2>1 DEF Final, Writes
        <3> QED BY <1>1, <1>2, <1>4, <3>1 DEF Follows
    <2>2. CASE i = c
        <3>1. hedge'[kind] = a
            BY <1>4, <2>2 DEF Final
        <3>2. ASSUME NEW j \in DOMAIN commands, Undone(j)', commands[j].type \in Writes(kind) PROVE FALSE
            <4>1. Undone(j) /\ j # c
                BY <1>1, <3>2
            <4>2. j \in Nat /\ c \in Nat
                BY Commands
            <4>3. ~(j < c) /\ ~(c < j)
                BY <1>4, <2>2, <3>2, <4>1 DEF Before, Final
            <4> QED BY <4>1, <4>2, <4>3
        <3> QED BY <1>1, <1>2, <3>1, <3>2 DEF Follows, Writes
    <2> QED BY <2>1, <2>2
<1> QED BY <1>3, <1>4 DEF Follows

\* Once a row has been written that nobody carries over it stays so.
LEMMA PropStays ==
    ASSUME CalmStep, PropFollows => PropFollows'
    PROVE  PropCurrent'
BY DEF CalmStep, Calm, PropCurrent

\* The accounts that are followed, after a step of the worker.
LEMMA RestFollows ==
    ASSUME CalmStep, UNCHANGED <<row, client>>,
           \A kind \in {"prop", "broker"} : \A a : Follows(kind, a) => Follows(kind, a)'
    PROVE  BrokerFollows' /\ PropCurrent'
<1>1. BrokerFollows
    BY DEF CalmStep, Calm
<1>2. BrokerFollows'
    BY <1>1 DEF BrokerFollows
<1>3. PropCurrent'
    <2>1. SUFFICES ASSUME PropFollows PROVE PropFollows'
        BY PropStays
    <2> QED BY <2>1 DEF PropFollows, Only, Rotates
<1> QED BY <1>2, <1>3

\* The brokers on EasierProp, after a step of the worker.
LEMMA RestBrokers ==
    ASSUME CalmStep, Passed, UNCHANGED <<row, client>>,
           \A b \in Brokers : b \in registered' => b \in registered \/ WillMake(b),
           \A i \in DOMAIN commands :
               Undone(i) /\ commands[i].type = "BROKER_REPLACE" /\ commands[i].old \in Brokers /\ ~Removed(i) =>
                   (Undone(i)' /\ ~Removed(i)') \/ Gone(commands[i].old)'
    PROVE  BrokersKnown'
<1>1. SUFFICES ASSUME NEW b \in Brokers, row[b] # "active" PROVE Gone(b)' \/ Replaced(b)'
    BY DEF BrokersKnown
<1>2. CASE Gone(b)
    <2>1. ~WillMake(b)'
        BY <1>2 DEF Gone, WillMake, Makes, Passed
    <2> QED BY <1>2, <2>1 DEF Gone
<1>3. CASE \E k \in Clients : client[k].pc = "enqueue" /\ client[k].type = "BROKER_REPLACE" /\ client[k].old = b
    BY <1>3 DEF Replaced
<1>4. ASSUME NEW i \in DOMAIN commands, Undone(i), commands[i].type = "BROKER_REPLACE", commands[i].old = b, ~Removed(i)
      PROVE  Gone(b)' \/ Replaced(b)'
    <2>0. (Undone(i)' /\ ~Removed(i)') \/ Gone(commands[i].old)'
        BY <1>4
    <2>1. CASE Undone(i)' /\ ~Removed(i)'
        BY <1>4, <2>1 DEF Replaced, Passed
    <2>2. CASE Gone(commands[i].old)'
        <3>1. commands'[i].old = b
            BY <1>4 DEF Passed
        <3> QED BY <2>2, <3>1
    <2> QED BY <2>0, <2>1, <2>2
<1> QED BY <1>1, <1>2, <1>3, <1>4 DEF CalmStep, Calm, BrokersKnown, Replaced

\* The statements of an executor between the start of its command and the end.
Middle == ReadContext \/ FindRow \/ Register \/ Record \/ RemoveSuperseded \/ WriteProvision \/ WriteHedge

\* What all of them leave.
LEMMA MiddleFacts ==
    ASSUME CalmStep, Middle
    PROVE  /\ UNCHANGED <<row, client, commands>> /\ recorded \subseteq recorded' /\ SameQueue /\ Passed
           /\ worker.pc # "idle" /\ worker'.pc # "idle" /\ worker'.cmd = worker.cmd
           /\ Current' = Current /\ New' = New
           /\ worker.cmd \in DOMAIN commands /\ Undone(worker.cmd) /\ Before(worker.cmd) /\ Ordered(worker.cmd)
           /\ Payload(Current) /\ Current = commands[worker.cmd]
<1>0. SyncTypeOK /\ Knows
    BY CalmFacts
<1>1. UNCHANGED <<row, client, commands>> /\ recorded \subseteq recorded'
    BY DEF Middle, ReadContext, FindRow, Register, Record, RemoveSuperseded, WriteProvision, WriteHedge,
           rows, WorkerOnly
<1>2. worker.pc # "idle" /\ worker'.pc # "idle" /\ worker'.cmd = worker.cmd
    <2>1. CASE ReadContext
        BY <1>0, <2>1 DEF ReadContext, SyncTypeOK, WorkerType
    <2>2. CASE ~ReadContext
        BY <1>0, <2>2, Proceeds DEF Middle, FindRow, Register, Record, RemoveSuperseded, WriteProvision, WriteHedge
    <2> QED BY <2>1, <2>2
<1>3. SameQueue /\ Passed
    BY <1>1 DEF SameQueue, Passed, Undone
<1>4. worker.cmd \in DOMAIN commands /\ Undone(worker.cmd) /\ Before(worker.cmd) /\ Ordered(worker.cmd)
    BY <1>2, CalmFacts DEF CalmStep, Calm, QueueOrdered
<1>5. Payload(Current)
    BY <1>2, CurrentIs DEF CalmStep
<1> QED BY <1>1, <1>2, <1>3, <1>4, <1>5 DEF Current, New

\* The account that a command replaces is the one that is removed.
LEMMA RemovesOld ==
    ASSUME CalmStep, RemoveSuperseded
    PROVE  IF Current.type = "PROP_ROTATION" THEN Superseded = provision.prop
           ELSE Current.type = "BROKER_REPLACE" /\ Superseded = Current.old /\ Current.old # New
<1>1. worker.pc = "remove" /\ Knows
    BY CalmFacts DEF RemoveSuperseded
<1>2. Current.type \in Replacing /\ worker.provision = provision
    BY <1>1 DEF Knows
<1>3. CASE Current.type = "PROP_ROTATION"
    BY <1>2, <1>3 DEF Superseded
<1>4. CASE Current.type = "BROKER_REPLACE"
    <2>1. Ordered(worker.cmd) /\ Before(worker.cmd) /\ Undone(worker.cmd)
        BY MiddleFacts DEF Middle
    <2>2. Current.old \in recorded /\ Current.old # New
        BY <1>4, <2>1 DEF Ordered, Before, Subject, Current, New
    <2> QED BY <1>4, <2>2 DEF Superseded
<1> QED BY <1>2, <1>3, <1>4 DEF Replacing

\* The brokers on EasierProp.
LEMMA MiddleBrokers ==
    ASSUME CalmStep, Middle
    PROVE  BrokersKnown'
<1> PICK c : c = worker.cmd
    OBVIOUS
<1>0. SyncTypeOK /\ Knows
    BY CalmFacts
<1>1. /\ UNCHANGED <<row, client, commands>> /\ SameQueue /\ Passed
      /\ worker'.cmd = c /\ Current = commands[c] /\ New = commands[c].new
      /\ c \in DOMAIN commands /\ Undone(c) /\ Before(c) /\ Ordered(c)
    BY MiddleFacts DEF New
<1>2. \A i \in DOMAIN commands : Undone(i)' <=> Undone(i)
    BY <1>1 DEF SameQueue
<1>3. ASSUME registered' \subseteq registered \cup {New}, New \in registered' => New \in registered \/ WillMake(New),
             Removed(c)' /\ commands[c].type = "BROKER_REPLACE" => Removed(c) \/ Gone(commands[c].old)'
      PROVE  BrokersKnown'
    <2>1. \A b \in Brokers : b \in registered' => b \in registered \/ WillMake(b)
        BY <1>3
    <2>2. ASSUME NEW i \in DOMAIN commands, Undone(i), commands[i].type = "BROKER_REPLACE", ~Removed(i)
          PROVE  (Undone(i)' /\ ~Removed(i)') \/ Gone(commands[i].old)'
        <3>1. CASE i = c
            BY <1>2, <1>3, <2>2, <3>1
        <3>2. CASE i # c
            BY <1>1, <1>2, <2>2, <3>2 DEF Removed
        <3> QED BY <3>1, <3>2
    <2> QED BY <1>1, <2>1, <2>2, RestBrokers
<1>4. CASE ReadContext \/ FindRow
    <2>1. registered' = registered
        BY <1>4 DEF ReadContext, FindRow, hedging
    <2>2. ReadContext => worker'.pc \in {"list", "find"}
        BY <1>0 DEF ReadContext, SyncTypeOK, WorkerType
    <2>3. FindRow => worker'.pc = "register" \/ Current.type = "SET_HEDGE_BROKER"
        BY <1>0, Proceeds DEF FindRow
    <2> QED BY <1>1, <1>3, <1>4, <2>1, <2>2, <2>3 DEF Removed
<1>5. CASE Register
    <2>1. registered' = registered \cup {New} /\ worker'.pc = "record" /\ Current.type \in Creating
        BY <1>0, <1>5, Proceeds DEF Register, Knows
    <2>2. WillMake(New)
        BY <1>1, <2>1 DEF WillMake, Makes
    <2> QED BY <1>3, <2>1, <2>2 DEF Removed
<1>6. CASE Record
    <2>1. registered' = registered /\ worker'.pc = IF Current.type = "BROKER_ADD" THEN "complete" ELSE "remove"
        BY <1>0, <1>6, Proceeds DEF Record, hedging
    <2> QED BY <1>1, <1>3, <2>1 DEF Removed
<1>7. CASE RemoveSuperseded
    <2>1. registered' = IF Superseded = New THEN registered ELSE registered \ {Superseded}
        BY <1>7 DEF RemoveSuperseded
    <2>2. ASSUME commands[c].type = "BROKER_REPLACE" PROVE Gone(commands[c].old)'
        <3>1. PICK b : b = commands[c].old
            OBVIOUS
        <3>2. Superseded = b /\ b # New
            BY <1>1, <1>7, <2>2, <3>1, RemovesOld
        <3>3. b \notin registered'
            BY <2>1, <3>2
        <3>4. ~WillMake(b)
            BY <1>1, <2>2, <3>1 DEF WillMake, Ordered, Before
        <3>5. ~WillMake(b)' /\ commands'[c].old = b
            BY <1>1, <3>1, <3>4 DEF WillMake, Makes, Undone
        <3> QED BY <3>3, <3>5 DEF Gone, WillMake, Makes
    <2> QED BY <1>3, <2>1, <2>2
<1>8. CASE WriteProvision \/ WriteHedge
    <2>1. registered' = registered /\ worker.pc \in {"provision", "hedge"}
        BY <1>8 DEF WriteProvision, WriteHedge
    <2>2. Removed(c)
        BY <2>1 DEF Removed
    <2> QED BY <1>3, <2>1, <2>2
<1> QED BY <1>4, <1>5, <1>6, <1>7, <1>8 DEF Middle

\* The prop accounts on EasierProp.
LEMMA MiddleProps ==
    ASSUME CalmStep, Middle
    PROVE  PropRegistered'
<1>0. SyncTypeOK /\ Knows /\ PropRegistered /\ provision \in Pair
    BY CalmFacts DEF CalmStep, Calm, SyncTypeOK
<1>1. /\ Current' = Current /\ New' = New /\ worker'.pc # "idle" /\ worker.pc # "idle" /\ recorded \subseteq recorded'
      /\ Payload(Current) /\ Kind \in {"prop", "broker"} /\ (Kind = "prop" <=> Current.type = "PROP_ROTATION")
    BY MiddleFacts DEF Kind
<1>2. CASE ReadContext \/ FindRow
    <2>1. UNCHANGED <<registered, provision>>
        BY <1>2 DEF ReadContext, FindRow, hedging
    <2>2. worker'.pc \in {"list", "find", "register", "hedge"}
        BY <1>0, <1>2, Proceeds DEF ReadContext, FindRow, SyncTypeOK, WorkerType
    <2> QED BY <1>0, <1>1, <2>1, <2>2 DEF PropRegistered
<1>3. CASE Register
    <2>1. registered' = registered \cup {New} /\ provision' = provision /\ worker'.pc = "record" /\ Current.type \in Creating
        BY <1>0, <1>3, Proceeds DEF Register, Knows
    <2>2. New \in Props => Current.type = "PROP_ROTATION"
        BY <1>1, <2>1, SyncAssumption DEF Payload, Creating, New
    <2> QED BY <1>0, <1>1, <2>1, <2>2 DEF PropRegistered
<1>4. CASE Record
    <2>1. /\ UNCHANGED <<registered, provision>> /\ recorded' = recorded \cup {New}
          /\ worker'.pc = IF Current.type = "BROKER_ADD" THEN "complete" ELSE "remove"
        BY <1>0, <1>4, Proceeds DEF Record, hedging
    <2> QED BY <1>0, <1>1, <2>1 DEF PropRegistered
<1>5. CASE RemoveSuperseded
    <2>1. /\ provision' = provision /\ worker'.pc = "provision"
          /\ registered' = IF Superseded = New THEN registered ELSE registered \ {Superseded}
        BY <1>0, <1>5, Proceeds DEF RemoveSuperseded
    <2>2. Current.type = "PROP_ROTATION" => Superseded = provision.prop
        BY <1>5, RemovesOld
    <2> QED BY <1>0, <1>1, <2>1, <2>2 DEF PropRegistered
<1>6. CASE WriteProvision
    <2>1. registered' = registered /\ provision' = [provision EXCEPT ![Kind] = New] /\ worker'.pc \in {"complete", "hedge"}
        BY <1>0, <1>6, Proceeds DEF WriteProvision
    <2>2. provision'.prop = IF Current.type = "PROP_ROTATION" THEN New ELSE provision.prop
        BY <1>0, <1>1, <2>1 DEF Pair
    <2>3. worker.pc = "provision" /\ Current.type # "BROKER_ADD"
        BY <1>0, <1>6 DEF WriteProvision, Knows, Hedging
    <2> QED BY <1>0, <1>1, <2>1, <2>2, <2>3 DEF PropRegistered
<1>7. CASE WriteHedge
    <2>1. /\ UNCHANGED <<registered, provision>>
          /\ worker'.pc = IF Current.type = "SET_HEDGE_BROKER" THEN "provision" ELSE "complete"
        BY <1>0, <1>7, Proceeds DEF WriteHedge
    <2>2. Current.type # "BROKER_ADD"
        BY <1>0, <1>7 DEF WriteHedge, Knows, Hedging
    <2> QED BY <1>0, <1>1, <2>1, <2>2 DEF PropRegistered
<1> QED BY <1>2, <1>3, <1>4, <1>5, <1>6, <1>7 DEF Middle

\* The statements of an executor keep the invariant.
LEMMA MiddleCalm ==
    ASSUME CalmStep, Middle
    PROVE  Calm'
<1>1. /\ UNCHANGED <<row, client, commands>> /\ recorded \subseteq recorded' /\ SameQueue /\ Passed
      /\ worker.pc # "idle" /\ worker'.pc # "idle" /\ worker'.cmd = worker.cmd
      /\ worker.cmd \in DOMAIN commands /\ Undone(worker.cmd) /\ Current = commands[worker.cmd]
    BY MiddleFacts
<1>2. QueueOrdered'
    BY <1>1 DEF CalmStep, Calm, QueueOrdered, Before, Undone
<1>3. ASSUME NEW kind \in {"prop", "broker"}, NEW a, Follows(kind, a) PROVE Follows(kind, a)'
    <2>1. CASE hedge'[kind] = hedge[kind]
        BY <1>1, <1>3, <2>1, FollowsSame
    <2>2. CASE hedge'[kind] # hedge[kind]
        <3>1. WriteHedge
            BY <2>2 DEF Middle, ReadContext, FindRow, Register, Record, RemoveSuperseded, WriteProvision, hedging
        <3>2. hedge \in Pair /\ Kind \in {"prop", "broker"} /\ Current.type \in Hedging
            BY <3>1, CalmFacts DEF SyncTypeOK, Kind, WriteHedge, Knows
        <3>3. kind = Kind
            BY <1>3, <2>2, <3>1, <3>2 DEF WriteHedge, Rehedged, Pair
        <3>4. commands[worker.cmd].type \in Writes(kind)
            BY <1>1, <3>2, <3>3 DEF Kind, Writes, Hedging
        <3> QED BY <1>1, <1>3, <3>4, FollowsSame
    <2> QED BY <2>1, <2>2
<1>4. BrokerFollows' /\ PropCurrent'
    BY <1>1, <1>3, RestFollows
<1>5. /\ OneRequest' /\ RowsKnown'
      /\ \A k \in Clients : Asked(k)'
      /\ \A i \in DOMAIN commands' : Ordered(i)'
    BY <1>1, PassCalm
<1> QED BY <1>2, <1>4, <1>5, MiddleBrokers, MiddleProps DEF Calm

\* The worker starts the command that comes first.
LEMMA StartCalm ==
    ASSUME CalmStep, StartCommand
    PROVE  Calm'
<1>0. SyncTypeOK /\ Knows /\ worker.pc = "idle" /\ QueueOrdered /\ PropRegistered
    BY CalmFacts DEF CalmStep, Calm, StartCommand
<1>1. PICK c \in DOMAIN commands :
          /\ commands[c].status = "PENDING" /\ Rewritten(c, "RUNNING")
          /\ \A j \in DOMAIN commands : commands[j].status = "PENDING" /\ commands[j].due => c <= j
          /\ worker'.pc = "context" /\ worker'.cmd = c
    BY <1>0, StartWrites
<1>2. UNCHANGED <<row, client, recorded, registered, provision, hedge>>
    BY DEF StartCommand, rows, hedging, WorkerOnly
<1>3. SameQueue
    BY <1>1 DEF SameQueue, Rewritten, Undone
<1>4. Passed
    BY <1>3 DEF Passed, SameQueue
<1>5. QueueOrdered'
    <2>1. ASSUME NEW i \in DOMAIN commands, Undone(i), i # c
          PROVE  (commands'[i].status = "PENDING" /\ commands'[i].due)
        BY <1>0, <1>1, <2>1 DEF QueueOrdered, Rewritten
    <2>2. Before(c)
        <3>1. SUFFICES ASSUME NEW j \in DOMAIN commands, j < c, Undone(j) PROVE FALSE
            BY DEF Before
        <3>2. c <= j
            BY <1>0, <1>1, <3>1 DEF QueueOrdered
        <3>3. j \in Nat /\ c \in Nat
            BY <1>0, Commands
        <3> QED BY <3>1, <3>2, <3>3
    <2>3. Before(c)'
        BY <1>3, <2>2 DEF Before, SameQueue
    <2> QED BY <1>1, <1>3, <2>1, <2>3 DEF QueueOrdered, SameQueue
<1>6. BrokersKnown'
    <2>1. \A i \in DOMAIN commands : ~Removed(i)'
        BY <1>1 DEF Removed
    <2> QED BY <1>2, <1>3, <1>4, <2>1, RestBrokers DEF SameQueue
<1>7. BrokerFollows' /\ PropCurrent'
    <2>1. ASSUME NEW kind \in {"prop", "broker"}, NEW a, Follows(kind, a) PROVE Follows(kind, a)'
        BY <1>2, <1>3, <2>1, FollowsSame
    <2> QED BY <1>2, <2>1, RestFollows
<1>8. PropRegistered'
    BY <1>0, <1>1, <1>2 DEF PropRegistered
<1> QED BY <1>2, <1>4, <1>5, <1>6, <1>7, <1>8, PassCalm DEF Calm

\* What a command was for has been done when it is marked as completed.
LEMMA CompleteCalm ==
    ASSUME CalmStep, Complete
    PROVE  Calm'
<1> DEFINE c == worker.cmd
<1>0. SyncTypeOK /\ Knows /\ worker.pc = "complete" /\ QueueOrdered /\ PropRegistered /\ Achieved
    BY CalmFacts DEF CalmStep, Calm, Complete, Trades
<1>1. c \in DOMAIN commands /\ Undone(c) /\ Before(c) /\ c \in Nat /\ Current = commands[c] /\ New = commands[c].new
    BY <1>0, CalmFacts, Commands DEF QueueOrdered, Current, New
<1>2. /\ UNCHANGED <<row, client, recorded, registered, provision, hedge>> /\ worker' = Resting /\ worker'.pc = "idle"
      /\ Rewritten(c, "COMPLETED")
    BY CompleteWrites, Rests DEF CalmStep, Complete, rows, hedging, WorkerOnly
<1>3. \A i \in DOMAIN commands : /\ commands'[i].type = commands[i].type /\ commands'[i].new = commands[i].new
                                 /\ commands'[i].old = commands[i].old /\ (Undone(i)' <=> Undone(i) /\ i # c)
    BY <1>2 DEF Rewritten, Undone
<1>4. DOMAIN commands' = DOMAIN commands
    BY <1>2 DEF Rewritten
<1>5. Current.type \in Creating => New \in recorded
    BY <1>0 DEF Achieved, PropRegistered, Creating, Replaces, Replacing
<1>6. Passed
    BY <1>1, <1>2, <1>3, <1>4, <1>5 DEF Passed
<1>7. QueueOrdered'
    <2>1. ASSUME NEW i \in DOMAIN commands', Undone(i)'
          PROVE  (commands'[i].status = "PENDING" /\ commands'[i].due)
        <3>1. i \in DOMAIN commands /\ Undone(i) /\ i # c /\ commands'[i] = commands[i]
            BY <1>2, <1>3, <1>4, <2>1 DEF Rewritten
        <3> QED BY <1>0, <3>1 DEF QueueOrdered
    <2> QED BY <1>2, <2>1 DEF QueueOrdered
<1>8. BrokersKnown'
    <2>1. \A i \in DOMAIN commands : Undone(i) /\ ~Removed(i) => Undone(i)' /\ ~Removed(i)'
        BY <1>0, <1>2, <1>3 DEF Removed
    <2> QED BY <1>2, <1>6, <2>1, RestBrokers
<1>9. BrokerFollows' /\ PropCurrent'
    <2>1. ASSUME NEW kind \in {"prop", "broker"}, NEW a, Follows(kind, a) PROVE Follows(kind, a)'
        <3>1. commands[c].type \in Writes(kind) => hedge[kind] = commands[c].new
            BY <1>0, <1>1, <2>1 DEF Achieved, Writes, Replaces, Selects, Replacing, Kind
        <3> QED BY <1>0, <1>1, <1>2, <2>1, <3>1, FollowsComplete
    <2> QED BY <1>2, <2>1, RestFollows
<1>10. PropRegistered'
    <2>1. Current.type = "PROP_ROTATION" => provision.prop = New
        BY <1>0 DEF Achieved, Replaces, Replacing, Kind
    <2> QED BY <1>0, <1>2, <2>1 DEF PropRegistered
<1> QED BY <1>2, <1>6, <1>7, <1>8, <1>9, <1>10, PassCalm DEF Calm

-----------------------------------------------------------------------------

\* No request is under way beside this one.
Alone(k) == \A j \in Clients \ {k} : client[j].pc = "idle" /\ client'[j] = client[j]

\* What a request leaves that writes rows only.
LEMMA RowsOnly ==
    ASSUME CalmStep, UNCHANGED <<commands, worker, recorded, registered, provision, hedge>>,
           \A a \in Accounts : Exists(a) => Exists(a)'
    PROVE  /\ QueueOrdered' /\ PropRegistered'
           /\ \A i \in DOMAIN commands' : Ordered(i)'
           /\ \A kind, a : Follows(kind, a) => Follows(kind, a)'
           /\ \A a : Expected(a) => Expected(a)'
           /\ \A b : Gone(b) => Gone(b)'
<1>0. Payloads
    BY CalmFacts
<1>1. QueueOrdered' /\ PropRegistered'
    BY DEF CalmStep, Calm, QueueOrdered, Before, Undone, PropRegistered, Current, New
<1>2. ASSUME NEW i \in DOMAIN commands' PROVE Ordered(i)'
    <2>1. i \in DOMAIN commands /\ Ordered(i)
        BY CalmFacts
    <2>2. Undone(i) /\ commands[i].type \in Creating => Exists(commands[i].new)'
        <3>1. commands[i].type \in Creating => commands[i].new \in Accounts
            BY <1>0, <2>1 DEF Payloads, Payload, Creating, Accounts
        <3> QED BY <2>1, <3>1 DEF Ordered, Exists
    <2> QED BY <2>1, <2>2 DEF Ordered, Undone, Makes, Subject
<1>3. \A kind, a : Follows(kind, a) => Follows(kind, a)'
    BY DEF Follows, Final, Undone, Writes
<1>4. \A a : Expected(a) => Expected(a)'
    BY DEF Expected, WillMake, Makes, Undone
<1>5. \A b : Gone(b) => Gone(b)'
    BY DEF Gone, WillMake, Makes, Undone
<1> QED BY <1>1, <1>2, <1>3, <1>4, <1>5

\* A request that begins has found the accounts it names in place.
LEMMA BeginCalm ==
    ASSUME CalmStep, NEW k \in Clients, NEW z \in ClientType, Begun(z), Begin(k, z)
    PROVE  Calm'
<1>0. SyncTypeOK /\ Knows /\ Payloads /\ QueueOrdered /\ RowsKnown
    BY CalmFacts DEF CalmStep, Calm
<1>1. /\ client'[k] = z /\ (\A j \in Clients \ {k} : client'[j] = client[j])
      /\ UNCHANGED <<row, recorded, registered, provision, hedge, commands, worker>>
    BY <1>0, ClientSet DEF Begin, rows, hedging
<1>2. \A j \in Clients : client[j].pc = "idle"
    BY CalmFacts DEF Begin, Overlaps
<1>3. /\ QueueOrdered' /\ PropRegistered'
      /\ \A i \in DOMAIN commands' : Ordered(i)'
      /\ \A kind, a : Follows(kind, a) => Follows(kind, a)'
      /\ \A a : Expected(a) => Expected(a)'
      /\ \A b : Gone(b) => Gone(b)'
    BY <1>1, RowsOnly DEF Exists
<1>4. \A b \in Brokers : Exists(b) => Expected(b)
    BY <1>0, <1>2 DEF RowsKnown, Asks
<1>5. z.pc # "remove"
    <2>1. SUFFICES ASSUME z.pc = "remove" PROVE FALSE
        OBVIOUS
    <2>2. Unfinished = {}
        BY <2>1, CalmFacts DEF Begin
    <2>3. \A i \in DOMAIN commands : ~Undone(i)
        BY <1>0, <2>2 DEF Unfinished, WithStatus, QueueOrdered, Knows, Current
    <2>4. z.new \in Brokers /\ Exists(z.new) /\ z.new \notin recorded
        BY <2>1 DEF Begun
    <2> QED BY <1>4, <2>3, <2>4 DEF Expected, WillMake
<1>6. OneRequest'
    BY <1>1, <1>2 DEF OneRequest
<1>7. RowsKnown'
    BY <1>1, <1>3, <1>4 DEF RowsKnown, Exists
<1>8. BrokersKnown'
    <2>1. SUFFICES ASSUME NEW b \in Brokers, row[b] # "active" PROVE Gone(b)' \/ Replaced(b)'
        BY <1>1 DEF BrokersKnown
    <2>2. CASE Gone(b)
        BY <1>3, <2>2
    <2>3. CASE Replaced(b)
        BY <1>1, <1>2, <2>3 DEF Replaced, Undone, Removed
    <2> QED BY <2>1, <2>2, <2>3 DEF CalmStep, Calm, BrokersKnown
<1>9. BrokerFollows'
    BY <1>1, <1>2, <1>3 DEF CalmStep, Calm, BrokerFollows
<1>10. PropCurrent'
    <2>0. SUFFICES ASSUME PropFollows PROVE PropFollows'
        BY PropStays
    <2>1. PICK p \in Props : Only(p) /\ Follows("prop", p)
        BY <1>2, <2>0 DEF PropFollows, Rotates
    <2>2. Only(p)'
        BY <1>1, <2>1 DEF Only
    <2>3. \A j \in Clients : ~Rotates(j)'
        BY <1>1, <1>2 DEF Rotates, Begun
    <2> QED BY <1>3, <2>1, <2>2, <2>3 DEF PropFollows
<1>11. Asked(k)'
    <2>0. z.form => z.type = "PROP_ROTATION" /\ "unsynced" \in raced'
        <3>1. "unregistered" \notin raced'
            BY CalmFacts
        <3>2. z.form => z.type \in {"PROP_ROTATION", "BROKER_ADD"}
            BY DEF Begun
        <3> QED BY <3>1, <3>2 DEF Begin
    <2>1. /\ z.pc = "clear" /\ ~z.form => z.seen = {p \in Props : row[p] = "active"}
          /\ z.pc \in {"clear", "create", "enqueue"}
          /\ z.pc = "create" /\ z.type = "BROKER_REPLACE" => Exists(z.old)
          /\ z.pc = "enqueue" /\ z.type # "DELETE" => row[z.new] = "active"
        BY <1>5 DEF Begun, Exists
    <2>2. z.type = "BROKER_REPLACE" => z.old # z.new /\ z.old \in Brokers /\ Exists(z.old)
        BY <2>1 DEF Begun, InUse, Payload, Exists
    <2>3. z.type = "SET_HEDGE_BROKER" => z.new \in Brokers /\ Exists(z.new)
        BY <2>1 DEF Begun, Payload, Exists
    <2>4. z.type \in {"BROKER_REPLACE", "SET_HEDGE_BROKER"} => Expected(Subject(z))
        BY <1>4, <2>2, <2>3 DEF Subject
    <2>5. z.type \in Creating => row[z.new] = "none"
        BY <2>1 DEF Begun, InUse, Creating
    <2>6. z.type \in Creating => \A i \in DOMAIN commands :
              ~Makes(i, z.new) /\ (commands[i].type = "BROKER_REPLACE" => commands[i].old # z.new)
        BY <2>5 DEF CalmStep, NamesInv, Names, Makes, Creating
    <2>7. PICK a : a = Subject(z)
        OBVIOUS
    <2>8. Subject(client[k])' = a
        BY <1>1, <2>7 DEF Subject
    <2>9. z.type \in {"BROKER_REPLACE", "SET_HEDGE_BROKER"} => Expected(Subject(client[k]))'
        <3>1. Expected(a)' <=> Expected(Subject(client[k]))'
            BY <2>8 DEF Expected, WillMake, Makes
        <3> QED BY <1>3, <2>4, <2>7, <3>1
    <2> QED BY <1>1, <2>0, <2>1, <2>2, <2>6, <2>9 DEF Asked, Exists, Makes
<1>12. \A j \in Clients : Asked(j)'
    BY <1>1, <1>2, <1>11 DEF Asked
<1> QED BY <1>3, <1>6, <1>7, <1>8, <1>9, <1>10, <1>12 DEF Calm

\* A request that goes on is alone, and knows what it knew.
LEMMA GoesOnCalm ==
    ASSUME CalmStep, NEW k \in Clients, ClearProps(k) \/ CreateRow(k) \/ ArchiveOld(k),
           NEW pc \in {"create", "archive", "enqueue"}, GoOn(k, pc)
    PROVE  /\ UNCHANGED <<commands, worker, recorded, registered, provision, hedge>>
           /\ Alone(k) /\ OneRequest' /\ Asked(k) /\ Payload(client[k]) /\ ClientKnows(k) /\ client[k] \in ClientType
           /\ client'[k].pc = pc /\ client'[k].type = client[k].type
           /\ client'[k].new = client[k].new /\ client'[k].old = client[k].old /\ client'[k].form = client[k].form
           /\ client[k].pc \in {"clear", "create", "archive"}
<1>0. SyncTypeOK /\ Payloads /\ client[k] \in ClientType
    BY CalmFacts DEF SyncTypeOK
<1>1. client[k].pc \in {"clear", "create", "archive"}
    BY DEF ClearProps, CreateRow, ArchiveOld
<1>2. UNCHANGED <<commands, worker, recorded, registered, provision, hedge>>
    BY DEF ClearProps, CreateRow, ArchiveOld, RequestOnly, hedging
<1>3. /\ client'[k].pc = pc /\ client'[k].type = client[k].type
      /\ client'[k].new = client[k].new /\ client'[k].old = client[k].old /\ client'[k].form = client[k].form
      /\ \A j \in Clients \ {k} : client'[j] = client[j]
    BY <1>0 DEF GoOn, SyncTypeOK, ClientType
<1>4. \A j \in Clients \ {k} : client[j].pc = "idle"
    BY <1>1 DEF CalmStep, Calm, OneRequest
<1>5. OneRequest'
    BY <1>3, <1>4 DEF OneRequest
<1>6. Asked(k) /\ ClientKnows(k) /\ Payload(client[k])
    BY <1>0, CalmFacts DEF CalmStep, RowsInv, Payloads
<1> QED BY <1>0, <1>1, <1>2, <1>3, <1>4, <1>5, <1>6 DEF Alone

\* What it names is still in place when it goes on.
LEMMA AskedOn ==
    ASSUME CalmStep, NEW k \in Clients, ClearProps(k) \/ CreateRow(k) \/ ArchiveOld(k),
           NEW pc \in {"create", "archive", "enqueue"}, GoOn(k, pc), \A a \in Accounts : Exists(a) => Exists(a)',
           pc = "archive" => client[k].type = "BROKER_REPLACE",
           pc \in {"create", "archive"} /\ client[k].type = "BROKER_REPLACE" => client[k].pc = "create",
           pc \in {"archive", "enqueue"} => row'[client[k].new] = "active"
    PROVE  \A j \in Clients : Asked(j)'
<1>0. /\ UNCHANGED <<commands, worker, recorded, registered, provision, hedge>>
      /\ Alone(k) /\ Asked(k) /\ Payload(client[k])
      /\ client'[k].pc = pc /\ client'[k].type = client[k].type
      /\ client'[k].new = client[k].new /\ client'[k].old = client[k].old /\ client'[k].form = client[k].form
      /\ client[k].pc \in {"clear", "create", "archive"} /\ raced \subseteq raced'
    BY GoesOnCalm, CalmFacts
<1>1. PICK a : a = Subject(client[k])
    OBVIOUS
<1>2. client[k].type \in {"BROKER_REPLACE", "SET_HEDGE_BROKER"} => Expected(Subject(client[k]))'
    <2>1. Subject(client[k])' = a
        BY <1>0, <1>1 DEF Subject
    <2>2. Expected(a)' <=> Expected(Subject(client[k]))'
        BY <2>1 DEF Expected, WillMake, Makes
    <2>3. Expected(a) => Expected(a)'
        BY <1>0, RowsOnly
    <2> QED BY <1>0, <1>1, <2>2, <2>3 DEF Asked
<1>3. pc \in {"create", "archive"} /\ client[k].type = "BROKER_REPLACE" => Exists(client[k].old)'
    <2>1. client[k].type = "BROKER_REPLACE" => client[k].old \in Accounts
        BY <1>0 DEF Payload, Accounts
    <2>2. pc \in {"create", "archive"} /\ client[k].type = "BROKER_REPLACE" => Exists(client[k].old)
        BY <1>0 DEF Asked
    <2> QED BY <1>0, <2>1, <2>2 DEF Exists
<1>4. Asked(k)'
    BY <1>0, <1>2, <1>3 DEF Asked, Makes
<1>5. ASSUME NEW j \in Clients \ {k} PROVE Asked(j)'
    BY <1>0 DEF Alone, Asked
<1> QED BY <1>4, <1>5

\* createPropAccount archives the accounts that it has listed.
LEMMA ClearCalm ==
    ASSUME CalmStep, NEW k \in Clients, ClearProps(k)
    PROVE  Calm'
<1>1. GoOn(k, "create") /\ client[k].pc = "clear"
    BY DEF ClearProps
<1>2. /\ UNCHANGED <<commands, worker, recorded, registered, provision, hedge>>
      /\ Alone(k) /\ OneRequest' /\ Asked(k) /\ client[k] \in ClientType
      /\ client'[k].pc = "create" /\ client'[k].type = client[k].type /\ client'[k].new = client[k].new
      /\ client[k].type = "PROP_ROTATION"
    BY <1>1, GoesOnCalm DEF ClientKnows
<1>3. Cleared(k) = {p \in Props : row[p] = "active"}
    BY <1>1, <1>2 DEF Asked, Cleared
<1>4. \A a \in Accounts : row'[a] = IF a \in Cleared(k) THEN "archived" ELSE row[a]
    BY DEF ClearProps
<1>5. \A b \in Brokers : row'[b] = row[b]
    BY <1>3, <1>4, SyncAssumption DEF Accounts
<1>6. \A p \in Props : row'[p] # "active"
    BY <1>3, <1>4 DEF Accounts
<1>7. \A a \in Accounts : Exists(a) => Exists(a)'
    BY <1>4 DEF Exists
<1>8. /\ QueueOrdered' /\ PropRegistered'
      /\ \A i \in DOMAIN commands' : Ordered(i)'
      /\ \A kind, a : Follows(kind, a) => Follows(kind, a)'
      /\ \A a : Expected(a) => Expected(a)'
      /\ \A b : Gone(b) => Gone(b)'
    BY <1>2, <1>7, RowsOnly
<1>9. \A j \in Clients : Asked(j)'
    BY <1>1, <1>2, <1>7, AskedOn
<1>10. RowsKnown'
    BY <1>1, <1>2, <1>5, <1>8 DEF CalmStep, Calm, RowsKnown, Exists, Asks, Alone
<1>11. BrokersKnown'
    <2>1. \A b \in Brokers : Replaced(b) => Replaced(b)'
        BY <1>1, <1>2 DEF Replaced, Undone, Removed, Alone
    <2> QED BY <1>5, <1>8, <2>1 DEF CalmStep, Calm, BrokersKnown
<1>12. BrokerFollows'
    <2>1. PICK b \in Brokers : row[b] = "active" /\ Follows("broker", b)
        BY <1>1, <1>2 DEF CalmStep, Calm, BrokerFollows, Alone
    <2> QED BY <1>5, <1>8, <2>1 DEF BrokerFollows
<1>13. PropCurrent'
    BY <1>2, <1>6, PropStays DEF PropFollows, Rotates
<1> QED BY <1>2, <1>8, <1>9, <1>10, <1>11, <1>12, <1>13 DEF Calm

\* A row of a prop account is written that nobody carries over, and no
\* request is left.
LEMMA WrittenCalm ==
    ASSUME CalmStep, UNCHANGED <<commands, worker, recorded, registered, provision, hedge>>,
           \A a \in Accounts : Exists(a) => Exists(a)', \A b \in Brokers : row'[b] = row[b],
           \A j \in Clients : client'[j].pc = "idle",
           \A j \in Clients : client[j].pc = "idle" \/ (client[j].pc = "create" /\ client[j].new \in Props),
           "unsynced" \in raced'
    PROVE  Calm'
<1>1. /\ QueueOrdered' /\ PropRegistered'
      /\ \A i \in DOMAIN commands' : Ordered(i)'
      /\ \A kind, a : Follows(kind, a) => Follows(kind, a)'
      /\ \A a : Expected(a) => Expected(a)'
      /\ \A b : Gone(b) => Gone(b)'
    BY RowsOnly
<1>2. OneRequest' /\ \A j \in Clients : Asked(j)'
    BY DEF OneRequest, Asked
<1>3. RowsKnown'
    <2>1. ASSUME NEW b \in Brokers PROVE ~ \E j \in Clients : Asks(j, b)
        BY SyncAssumption DEF Asks
    <2> QED BY <1>1, <2>1 DEF CalmStep, Calm, RowsKnown, Exists
<1>4. BrokersKnown'
    <2>1. \A b \in Brokers : Replaced(b) => Replaced(b)'
        BY DEF Replaced, Undone, Removed
    <2> QED BY <1>1, <2>1 DEF CalmStep, Calm, BrokersKnown
<1>5. BrokerFollows'
    <2>1. PICK b \in Brokers : row[b] = "active" /\ Follows("broker", b)
        BY DEF CalmStep, Calm, BrokerFollows
    <2> QED BY <1>1, <2>1 DEF BrokerFollows
<1> QED BY <1>1, <1>2, <1>3, <1>4, <1>5 DEF Calm, PropCurrent

\* The form of the wizard creates the row of a prop account, and ends.
LEMMA FormCalm ==
    ASSUME CalmStep, NEW k \in Clients, CreateRow(k), client[k].form
    PROVE  Calm'
<1>0. SyncTypeOK /\ Payloads /\ Asked(k) /\ client[k].pc = "create" /\ raced \subseteq raced'
    BY CalmFacts DEF CreateRow
<1>1. client[k].new \in Props /\ "unsynced" \in raced'
    BY <1>0 DEF Asked, Payloads, Payload
<1>2. /\ UNCHANGED <<commands, worker, recorded, registered, provision, hedge>>
      /\ row' = [row EXCEPT ![client[k].new] = "active"] /\ client' = [client EXCEPT ![k] = Idle]
    BY DEF CreateRow, RequestOnly, hedging
<1>3. client[k].new \in Accounts /\ Props \cap Brokers = {} /\ Brokers \subseteq Accounts
    BY <1>1, SyncAssumption DEF Accounts
<1>4. (\A a \in Accounts : Exists(a) => Exists(a)') /\ \A b \in Brokers : row'[b] = row[b]
    BY <1>0, <1>1, <1>2, <1>3 DEF SyncTypeOK, Exists
<1>5. \A j \in Clients : client[j].pc = "idle" \/ j = k
    BY <1>0 DEF CalmStep, Calm, OneRequest
<1>6. \A j \in Clients : client'[j].pc = "idle"
    BY <1>0, <1>2, <1>5 DEF SyncTypeOK, Idle
<1> QED BY <1>0, <1>1, <1>2, <1>4, <1>5, <1>6, WrittenCalm

\* An edit of a prop account.
LEMMA EditCalm ==
    ASSUME CalmStep, NEW k \in Clients, EditProp(k)
    PROVE  Calm'
<1>0. SyncTypeOK /\ raced' \subseteq {"unsynced"}
    BY CalmFacts
<1>1. /\ UNCHANGED <<recorded, registered, provision, hedge, commands, client, worker>>
      /\ \A a \in Accounts : row'[a] = row[a] \/ (a \in Props /\ Exists(a) /\ Exists(a)')
      /\ "unsynced" \in raced' /\ ~Overlaps
    BY <1>0, EditWrites
<1>2. (\A a \in Accounts : Exists(a) => Exists(a)') /\ \A b \in Brokers : row'[b] = row[b]
    BY <1>1, SyncAssumption DEF Accounts, Exists
<1> QED BY <1>1, <1>2, WrittenCalm DEF Overlaps

\* A request creates the row of its account.
LEMMA CreateCalm ==
    ASSUME CalmStep, NEW k \in Clients, CreateRow(k), ~client[k].form
    PROVE  Calm'
<1> PICK new : new = client[k].new
    OBVIOUS
<1> PICK pc : pc = IF client[k].type = "BROKER_REPLACE" THEN "archive" ELSE "enqueue"
    OBVIOUS
<1>0. SyncTypeOK
    BY CalmFacts
<1>1. GoOn(k, pc) /\ client[k].pc = "create" /\ pc \in {"archive", "enqueue"}
    BY DEF CreateRow
<1>2. /\ UNCHANGED <<commands, worker, recorded, registered, provision, hedge>>
      /\ Alone(k) /\ OneRequest' /\ Asked(k) /\ Payload(client[k])
      /\ client'[k].pc = pc /\ client'[k].type = client[k].type /\ client'[k].new = new
      /\ client[k].type \in Creating
    BY <1>1, GoesOnCalm DEF ClientKnows
<1>3. new \in Accounts /\ row' = [row EXCEPT ![new] = "active"]
    BY <1>1, NewIs DEF CreateRow, CalmStep
<1>4. \A a \in Accounts : row'[a] = IF a = new THEN "active" ELSE row[a]
    BY <1>0, <1>3 DEF SyncTypeOK
<1>5. \A a \in Accounts : Exists(a) => Exists(a)'
    BY <1>4 DEF Exists
<1>6. /\ QueueOrdered' /\ PropRegistered'
      /\ \A i \in DOMAIN commands' : Ordered(i)'
      /\ \A kind, a : Follows(kind, a) => Follows(kind, a)'
      /\ \A a : Expected(a) => Expected(a)'
      /\ \A b : Gone(b) => Gone(b)'
    BY <1>2, <1>5, RowsOnly
<1>7. \A j \in Clients : Asked(j)'
    BY <1>1, <1>3, <1>4, <1>5, AskedOn
<1>8. Brokers \subseteq Accounts /\ Props \subseteq Accounts /\ Props \cap Brokers = {}
    BY SyncAssumption DEF Accounts
<1>9. RowsKnown'
    <2>1. SUFFICES ASSUME NEW b \in Brokers, Exists(b)' PROVE Expected(b)' \/ \E j \in Clients : Asks(j, b)'
        BY DEF RowsKnown
    <2>2. CASE b = new
        BY <1>1, <1>2, <2>2 DEF Asks
    <2>3. CASE b # new
        <3>1. Exists(b)
            BY <1>4, <1>8, <2>1, <2>3 DEF Exists
        <3>2. CASE Expected(b)
            BY <1>6, <3>2
        <3>3. CASE \E j \in Clients : Asks(j, b)
            BY <1>2, <2>3, <3>3 DEF Asks, Alone
        <3> QED BY <3>1, <3>2, <3>3 DEF CalmStep, Calm, RowsKnown
    <2> QED BY <2>2, <2>3
<1>10. BrokersKnown'
    <2>1. \A b \in Brokers : Replaced(b) => Replaced(b)'
        BY <1>1, <1>2 DEF Replaced, Undone, Removed, Alone
    <2> QED BY <1>4, <1>6, <1>8, <2>1 DEF CalmStep, Calm, BrokersKnown
<1>11. BrokerFollows'
    <2>1. PICK b \in Brokers : row[b] = "active" /\ Follows("broker", b)
        BY <1>1, <1>2 DEF CalmStep, Calm, BrokerFollows, Alone
    <2> QED BY <1>4, <1>6, <1>8, <2>1 DEF BrokerFollows
<1>12. PropCurrent'
    <2>0. SUFFICES ASSUME PropFollows PROVE PropFollows'
        BY PropStays
    <2>1. CASE client[k].type = "PROP_ROTATION"
        <3>1. \A q \in Props : row[q] # "active"
            BY <1>1, <1>2, <2>0, <2>1 DEF PropFollows, Rotates, Alone
        <3>2. new \in Props /\ pc = "enqueue"
            BY <1>2, <2>1 DEF Payload
        <3>3. \A q \in Props : row'[q] = "active" <=> q = new
            BY <1>4, <1>8, <3>1
        <3>4. Rotates(k)' /\ client'[k].pc = "enqueue" /\ Only(client[k].new)'
            BY <1>2, <2>1, <3>2, <3>3 DEF Rotates, Only
        <3> QED BY <3>4 DEF PropFollows
    <2>2. CASE client[k].type # "PROP_ROTATION"
        <3>1. PICK p \in Props : Only(p) /\ Follows("prop", p)
            BY <1>1, <1>2, <2>0, <2>2 DEF PropFollows, Rotates, Alone
        <3>2. new \in Brokers
            BY <1>2, <2>2 DEF Payload, Creating
        <3>3. \A q \in Props : row'[q] = row[q]
            BY <1>4, <1>8, <3>2
        <3>4. Only(p)' /\ Follows("prop", p)'
            BY <1>6, <3>1, <3>3 DEF Only
        <3>5. \A j \in Clients : ~Rotates(j)'
            BY <1>2, <2>2 DEF Rotates, Alone
        <3> QED BY <3>4, <3>5 DEF PropFollows
    <2> QED BY <2>1, <2>2
<1> QED BY <1>2, <1>6, <1>7, <1>9, <1>10, <1>11, <1>12 DEF Calm

\* The broker that is replaced is archived.
LEMMA ArchiveCalm ==
    ASSUME CalmStep, NEW k \in Clients, ArchiveOld(k)
    PROVE  Calm'
<1> PICK old : old = client[k].old
    OBVIOUS
<1>0. SyncTypeOK /\ Payloads /\ Asked(k)
    BY CalmFacts
<1>1. /\ client[k].pc = "archive" /\ client[k].type = "BROKER_REPLACE" /\ Exists(old) /\ old \in Brokers
      /\ client[k].new \in Brokers /\ client[k].new # old /\ row[client[k].new] = "active"
    BY <1>0 DEF ArchiveOld, Asked, Payloads, Payload
<1>2. GoOn(k, "enqueue") /\ row' = [row EXCEPT ![old] = "archived"]
    BY <1>1 DEF ArchiveOld
<1>3. /\ UNCHANGED <<commands, worker, recorded, registered, provision, hedge>>
      /\ Alone(k) /\ OneRequest'
      /\ client'[k].pc = "enqueue" /\ client'[k].type = "BROKER_REPLACE"
      /\ client'[k].new = client[k].new /\ client'[k].old = old
    BY <1>1, <1>2, GoesOnCalm
<1>4. Brokers \subseteq Accounts /\ Props \subseteq Accounts /\ Props \cap Brokers = {}
    BY SyncAssumption DEF Accounts
<1>5. \A a \in Accounts : row'[a] = IF a = old THEN "archived" ELSE row[a]
    BY <1>0, <1>1, <1>2, <1>4 DEF SyncTypeOK
<1>6. \A a \in Accounts : Exists(a) => Exists(a)'
    BY <1>5 DEF Exists
<1>7. /\ QueueOrdered' /\ PropRegistered'
      /\ \A i \in DOMAIN commands' : Ordered(i)'
      /\ \A kind, a : Follows(kind, a) => Follows(kind, a)'
      /\ \A a : Expected(a) => Expected(a)'
      /\ \A b : Gone(b) => Gone(b)'
    BY <1>3, <1>6, RowsOnly
<1>8. \A j \in Clients : Asked(j)'
    BY <1>1, <1>2, <1>4, <1>5, <1>6, AskedOn
<1>9. RowsKnown'
    <2>1. ASSUME NEW b \in Brokers, Exists(b)' PROVE Exists(b)
        BY <1>1, <1>4, <1>5, <2>1 DEF Exists
    <2> QED BY <1>1, <1>3, <1>7, <2>1 DEF CalmStep, Calm, RowsKnown, Asks, Alone
<1>10. BrokersKnown'
    <2>1. \A b \in Brokers : Replaced(b) => Replaced(b)'
        BY <1>1, <1>3 DEF Replaced, Undone, Removed, Alone
    <2>2. Replaced(old)'
        BY <1>3 DEF Replaced
    <2> QED BY <1>4, <1>5, <1>7, <2>1, <2>2 DEF CalmStep, Calm, BrokersKnown
<1>11. BrokerFollows'
    BY <1>3 DEF BrokerFollows
<1>12. PropCurrent'
    <2>0. SUFFICES ASSUME PropFollows PROVE PropFollows'
        BY PropStays
    <2>1. PICK p \in Props : Only(p) /\ Follows("prop", p)
        BY <1>1, <1>3, <2>0 DEF PropFollows, Rotates, Alone
    <2>2. \A q \in Props : row'[q] = row[q]
        BY <1>1, <1>4, <1>5
    <2>3. Only(p)' /\ Follows("prop", p)'
        BY <1>7, <2>1, <2>2 DEF Only
    <2>4. \A j \in Clients : ~Rotates(j)'
        BY <1>3 DEF Rotates, Alone
    <2> QED BY <2>3, <2>4 DEF PropFollows
<1> QED BY <1>3, <1>7, <1>8, <1>9, <1>10, <1>11, <1>12 DEF Calm

\* enqueueServiceCommand adds a command, unless the same designation waits.
LEMMA EnqueueAdds ==
    ASSUME CalmStep, NEW k \in Clients, Enqueue(k)
    PROVE  \/ client[k].type \in Creating \cup {"SET_HEDGE_BROKER"} /\ \E n \in Nat : Added(n, client[k]) /\ n > Len(commands)
           \/ client[k].type = "SET_HEDGE_BROKER" /\ commands' = commands
<1>0. SyncTypeOK /\ Asked(k) /\ client[k].pc = "enqueue" /\ ~provision.ended /\ client[k].type \in Types
    BY CalmFacts DEF Enqueue, SyncTypeOK, ClientType
<1>1. CASE commands' = commands
    <2>1. Waits(client[k].type, client[k].new, client[k].old)
        <3>1. SUFFICES ASSUME ~Waits(client[k].type, client[k].new, client[k].old) PROVE FALSE
            OBVIOUS
        <3>2. \E c : commands' = Append(commands, c)
            BY <1>0, <3>1 DEF Enqueue
        <3>3. commands \in Seq(Command)
            BY <1>0 DEF SyncTypeOK
        <3>4. Len(commands') = Len(commands) + 1 /\ Len(commands) \in Nat
            BY <3>2, <3>3
        <3> QED BY <1>1, <3>4
    <2>2. PICK i \in DOMAIN commands :
              commands[i].status = "PENDING" /\ commands[i].type = client[k].type /\ commands[i].new = client[k].new
        BY <2>1 DEF Waits
    <2>3. client[k].type # "DELETE"
        BY <2>2, CalmFacts DEF Undone
    <2>4. client[k].type \notin Creating
        BY <1>0, <2>2 DEF Asked, Makes
    <2> QED BY <1>0, <1>1, <2>3, <2>4 DEF Types, Creating
<1>2. CASE commands' # commands
    <2>1. PICK n \in Nat : Added(n, client[k]) /\ n > Len(commands)
        BY <1>0, <1>2, EnqueueWrites
    <2>2. client[k].type # "DELETE"
        BY <2>1, CalmFacts DEF Added, Undone
    <2> QED BY <1>0, <2>1, <2>2 DEF Types, Creating
<1> QED BY <1>1, <1>2

\* A command that is added last.
LEMMA AddedLast ==
    ASSUME SyncTypeOK, NEW n \in Nat, NEW k \in Clients, Added(n, client[k]), n > Len(commands)
    PROVE  /\ DOMAIN commands' = DOMAIN commands \cup {n} /\ n \notin DOMAIN commands
           /\ \A i \in DOMAIN commands : i < n /\ ~(n < i)
           /\ \A i \in DOMAIN commands : commands'[i] = commands[i] /\ (Undone(i)' <=> Undone(i))
           /\ commands'[n].type = client[k].type /\ commands'[n].new = client[k].new /\ commands'[n].old = client[k].old
           /\ commands'[n].status = "PENDING" /\ commands'[n].due /\ Undone(n)'
           /\ \A a : WillMake(a) => WillMake(a)'
           /\ \A a : WillMake(a)' => WillMake(a) \/ (client[k].type \in Creating /\ client[k].new = a)
<1>1. commands \in Seq(Command)
    BY DEF SyncTypeOK
<1>2. \A i \in DOMAIN commands : i < n /\ ~(n < i)
    BY <1>1
<1>3. /\ DOMAIN commands' = DOMAIN commands \cup {n} /\ n \notin DOMAIN commands
      /\ \A i \in DOMAIN commands : commands'[i] = commands[i] /\ (Undone(i)' <=> Undone(i))
      /\ commands'[n].type = client[k].type /\ commands'[n].new = client[k].new /\ commands'[n].old = client[k].old
      /\ commands'[n].status = "PENDING" /\ commands'[n].due /\ Undone(n)'
    BY DEF Added, Undone
<1>4. \A a : WillMake(a) => WillMake(a)'
    BY <1>3 DEF WillMake, Makes
<1>5. \A a : WillMake(a)' => WillMake(a) \/ (client[k].type \in Creating /\ client[k].new = a)
    BY <1>3 DEF WillMake, Makes
<1> QED BY <1>2, <1>3, <1>4, <1>5

\* What is followed once a command is added.
LEMMA AddedFollows ==
    ASSUME SyncTypeOK, NEW n \in Nat, NEW k \in Clients, Added(n, client[k]), n > Len(commands), UNCHANGED hedge,
           NEW kind, NEW a
    PROVE  IF client[k].type \in Writes(kind) THEN a = client[k].new => Follows(kind, a)'
           ELSE Follows(kind, a) => Follows(kind, a)'
<1>1. /\ DOMAIN commands' = DOMAIN commands \cup {n} /\ n \notin DOMAIN commands
      /\ \A i \in DOMAIN commands : i < n /\ ~(n < i)
      /\ \A i \in DOMAIN commands : commands'[i] = commands[i] /\ (Undone(i)' <=> Undone(i))
      /\ commands'[n].type = client[k].type /\ commands'[n].new = client[k].new /\ Undone(n)'
    BY AddedLast
<1>2. CASE client[k].type \in Writes(kind)
    <2>1. ~(n < n)
        OBVIOUS
    <2>2. Final(kind, n)'
        BY <1>1, <1>2, <2>1 DEF Final, Writes
    <2> QED BY <1>1, <1>2, <2>2 DEF Follows
<1>3. CASE client[k].type \notin Writes(kind)
    <2>1. \A i \in DOMAIN commands : Final(kind, i) => Final(kind, i)'
        BY <1>1, <1>3 DEF Final, Writes
    <2>2. CASE \E i \in DOMAIN commands : Final(kind, i) /\ commands[i].new = a
        BY <1>1, <1>3, <2>1, <2>2 DEF Follows
    <2>3. CASE (\A i \in DOMAIN commands : Undone(i) => commands[i].type \notin Writes(kind)) /\ hedge[kind] = a
        BY <1>1, <1>3, <2>3 DEF Follows, Writes
    <2> QED BY <1>3, <2>2, <2>3 DEF Follows
<1> QED BY <1>2, <1>3

\* The command is there that the request has asked for.
LEMMA EnqueueCalm ==
    ASSUME CalmStep, NEW k \in Clients, Enqueue(k)
    PROVE  Calm'
<1> PICK c : c = client[k]
    OBVIOUS
<1>0. SyncTypeOK /\ Knows /\ Payloads /\ Asked(k) /\ Payload(c) /\ c.pc = "enqueue" /\ c \in ClientType
      /\ QueueOrdered /\ PropRegistered
    BY CalmFacts DEF Enqueue, Payloads, SyncTypeOK, CalmStep, Calm
<1>1. /\ UNCHANGED <<row, recorded, registered, provision, hedge, worker>>
      /\ \A j \in Clients : client'[j].pc = "idle"
      /\ \A j \in Clients \ {k} : client[j].pc = "idle"
    <2>1. \A j \in Clients \ {k} : client[j].pc = "idle"
        BY <1>0 DEF CalmStep, Calm, OneRequest
    <2>2. client'[k] = Idle /\ \A j \in Clients \ {k} : client'[j] = client[j]
        BY <1>0 DEF Enqueue, SyncTypeOK
    <2> QED BY <2>1, <2>2 DEF Enqueue, RequestOnly, rows, hedging, Idle
<1>2. OneRequest' /\ \A j \in Clients : Asked(j)'
    BY <1>1 DEF OneRequest, Asked
<1>3. CASE c.type = "SET_HEDGE_BROKER" /\ commands' = commands
    <2>1. /\ QueueOrdered' /\ PropRegistered'
          /\ \A i \in DOMAIN commands' : Ordered(i)'
          /\ \A kind, a : Follows(kind, a) => Follows(kind, a)'
          /\ \A a : Expected(a) => Expected(a)'
          /\ \A b : Gone(b) => Gone(b)'
        BY <1>1, <1>3, RowsOnly DEF Exists
    <2>2. RowsKnown'
        <3>1. \A b : ~ \E j \in Clients : Asks(j, b)
            BY <1>0, <1>1, <1>3 DEF Asks, Creating
        <3> QED BY <1>1, <2>1, <3>1 DEF CalmStep, Calm, RowsKnown, Exists
    <2>3. BrokersKnown'
        <3>1. \A b \in Brokers : Replaced(b) => Replaced(b)'
            BY <1>0, <1>1, <1>3 DEF Replaced, Undone, Removed
        <3> QED BY <1>1, <2>1, <3>1 DEF CalmStep, Calm, BrokersKnown
    <2>4. BrokerFollows'
        BY <1>0, <1>1, <1>3, <2>1 DEF CalmStep, Calm, BrokerFollows
    <2>5. PropCurrent'
        <3>0. SUFFICES ASSUME PropFollows PROVE PropFollows'
            BY PropStays
        <3>1. PICK p \in Props : Only(p) /\ Follows("prop", p)
            BY <1>0, <1>1, <1>3, <3>0 DEF PropFollows, Rotates
        <3> QED BY <1>1, <2>1, <3>1 DEF PropFollows, Only, Rotates
    <2> QED BY <1>2, <2>1, <2>2, <2>3, <2>4, <2>5 DEF Calm
<1>4. ASSUME NEW n \in Nat, Added(n, client[k]), n > Len(commands), c.type \in Creating \cup {"SET_HEDGE_BROKER"}
      PROVE  Calm'
    <2>0. row[c.new] = "active" /\ (c.type = "BROKER_REPLACE" => c.old # c.new)
        BY <1>0, <1>4 DEF Asked, Creating
    <2>1. /\ DOMAIN commands' = DOMAIN commands \cup {n} /\ n \notin DOMAIN commands
          /\ \A i \in DOMAIN commands : i < n /\ ~(n < i)
          /\ \A i \in DOMAIN commands : commands'[i] = commands[i] /\ (Undone(i)' <=> Undone(i))
          /\ commands'[n].type = c.type /\ commands'[n].new = c.new /\ commands'[n].old = c.old
          /\ commands'[n].status = "PENDING" /\ commands'[n].due /\ Undone(n)'
          /\ \A a : WillMake(a) => WillMake(a)'
          /\ \A a : WillMake(a)' => WillMake(a) \/ (c.type \in Creating /\ c.new = a)
        <3>1. /\ DOMAIN commands' = DOMAIN commands \cup {n} /\ n \notin DOMAIN commands
              /\ \A i \in DOMAIN commands : i < n /\ ~(n < i)
              /\ \A i \in DOMAIN commands : commands'[i] = commands[i] /\ (Undone(i)' <=> Undone(i))
              /\ commands'[n].type = client[k].type /\ commands'[n].new = client[k].new /\ commands'[n].old = client[k].old
              /\ commands'[n].status = "PENDING" /\ commands'[n].due /\ Undone(n)'
              /\ \A a : WillMake(a) => WillMake(a)'
              /\ \A a : WillMake(a)' => WillMake(a) \/ (client[k].type \in Creating /\ client[k].new = a)
            BY <1>0, <1>4, AddedLast
        <3> QED BY <3>1
    <2>2. worker.pc # "idle" => worker.cmd \in DOMAIN commands /\ Current' = Current /\ New' = New
        BY <1>0, <1>1, <2>1 DEF Knows, Current, New
    <2>3. QueueOrdered'
        <3>1. worker.pc # "idle" => Before(worker.cmd)'
            BY <1>0, <1>1, <2>1, <2>2 DEF QueueOrdered, Before
        <3> QED BY <1>0, <1>1, <2>1, <3>1 DEF QueueOrdered
    <2>4. PropRegistered'
        BY <1>0, <1>1, <2>2 DEF PropRegistered
    <2>5. RowsKnown'
        <3>1. SUFFICES ASSUME NEW b \in Brokers, Exists(b) PROVE Expected(b)'
            BY <1>1 DEF RowsKnown, Exists
        <3>2. CASE Expected(b)
            BY <1>1, <2>1, <3>2 DEF Expected
        <3>3. CASE \E j \in Clients : Asks(j, b)
            <4>1. c.type \in Creating /\ c.new = b
                BY <1>1, <3>3 DEF Asks
            <4>2. Makes(n, b)'
                BY <2>1, <4>1 DEF Makes
            <4> QED BY <2>1, <4>2 DEF Expected, WillMake
        <3> QED BY <3>1, <3>2, <3>3 DEF CalmStep, Calm, RowsKnown
    <2>6. ASSUME NEW i \in DOMAIN commands' PROVE Ordered(i)'
        <3>1. CASE i \in DOMAIN commands
            <4>1. Ordered(i) /\ i # n
                BY <2>1, <3>1, CalmFacts
            <4>2. commands[i].type = "BROKER_REPLACE" => \A j \in DOMAIN commands' : Makes(j, commands[i].old)' => j < i
                <5>1. c.type \in Creating /\ commands[i].type = "BROKER_REPLACE" => commands[i].old # c.new
                    BY <1>0, <3>1 DEF Asked
                <5> QED BY <2>1, <3>1, <4>1, <5>1 DEF Ordered, Makes
            <4>3. Undone(i) /\ commands[i].type \in {"BROKER_REPLACE", "SET_HEDGE_BROKER"} =>
                      \/ Subject(commands[i]) \in recorded
                      \/ \E j \in DOMAIN commands' : j < i /\ Undone(j)' /\ Makes(j, Subject(commands[i]))'
                BY <2>1, <3>1, <4>1 DEF Ordered, Makes, Subject
            <4> QED BY <1>1, <2>1, <3>1, <4>1, <4>2, <4>3 DEF Ordered, Subject, Makes, Exists
        <3>2. CASE i = n
            <4>1. Subject(commands[n])' = Subject(c)
                BY <2>1 DEF Subject
            <4>2. c.type \in {"BROKER_REPLACE", "SET_HEDGE_BROKER"} => Expected(Subject(c))
                BY <1>0 DEF Asked
            <4>3. PICK a : a = Subject(c)
                OBVIOUS
            <4>4. WillMake(a) => \E j \in DOMAIN commands' : j < n /\ Undone(j)' /\ Makes(j, a)'
                BY <2>1 DEF WillMake, Makes
            <4>5. c.type \in {"BROKER_REPLACE", "SET_HEDGE_BROKER"} =>
                      a \in recorded \/ \E j \in DOMAIN commands' : j < n /\ Undone(j)' /\ Makes(j, a)'
                BY <4>2, <4>3, <4>4 DEF Expected
            <4>6. c.type = "BROKER_REPLACE" => \A j \in DOMAIN commands' : Makes(j, c.old)' => j < n
                BY <2>0, <2>1 DEF Makes
            <4>7. Exists(c.new)
                BY <2>0 DEF Exists
            <4> QED BY <1>1, <2>0, <2>1, <3>2, <4>1, <4>3, <4>5, <4>6, <4>7 DEF Ordered, Makes, Exists
        <3> QED BY <2>1, <3>1, <3>2
    <2>7. BrokersKnown'
        <3>1. SUFFICES ASSUME NEW b \in Brokers, row[b] # "active" PROVE Gone(b)' \/ Replaced(b)'
            BY <1>1 DEF BrokersKnown
        <3>2. CASE Gone(b)
            BY <1>1, <2>0, <2>1, <3>1, <3>2 DEF Gone
        <3>3. CASE \E j \in Clients : client[j].pc = "enqueue" /\ client[j].type = "BROKER_REPLACE" /\ client[j].old = b
            <4>1. c.type = "BROKER_REPLACE" /\ c.old = b
                BY <1>1, <3>3
            <4>2. ~Removed(n)'
                BY <1>0, <1>1, <2>1 DEF Removed, Knows
            <4> QED BY <2>1, <4>1, <4>2 DEF Replaced
        <3>4. CASE \E i \in DOMAIN commands :
                       Undone(i) /\ commands[i].type = "BROKER_REPLACE" /\ commands[i].old = b /\ ~Removed(i)
            BY <1>1, <2>1, <3>4 DEF Replaced, Removed
        <3> QED BY <3>1, <3>2, <3>3, <3>4 DEF CalmStep, Calm, BrokersKnown, Replaced
    <2>8. \A kind, a : IF c.type \in Writes(kind) THEN a = c.new => Follows(kind, a)'
                       ELSE Follows(kind, a) => Follows(kind, a)'
        BY <1>0, <1>1, <1>4, AddedFollows
    <2>9. BrokerFollows'
        <3>1. CASE c.type \in Writes("broker")
            <4>1. c.new \in Brokers /\ Follows("broker", c.new)'
                BY <1>0, <2>8, <3>1 DEF Payload, Writes
            <4> QED BY <1>1, <2>0, <4>1 DEF BrokerFollows
        <3>2. CASE c.type \notin Writes("broker")
            <4>1. PICK b \in Brokers : row[b] = "active" /\ Follows("broker", b)
                BY <1>1, <3>2 DEF CalmStep, Calm, BrokerFollows, Writes
            <4> QED BY <1>1, <2>8, <3>2, <4>1 DEF BrokerFollows
        <3> QED BY <3>1, <3>2
    <2>10. PropCurrent'
        <3>3. SUFFICES ASSUME PropFollows PROVE PropFollows'
            BY PropStays
        <3>0. \A j \in Clients : ~Rotates(j)'
            BY <1>1 DEF Rotates
        <3>1. CASE c.type = "PROP_ROTATION"
            <4>1. Only(c.new)
                BY <1>0, <1>1, <3>1, <3>3 DEF PropFollows, Rotates
            <4>2. c.new \in Props /\ Follows("prop", c.new)'
                BY <1>0, <2>8, <3>1 DEF Payload, Writes
            <4>3. Only(c.new)'
                BY <1>1, <4>1 DEF Only
            <4> QED BY <3>0, <4>2, <4>3 DEF PropFollows
        <3>2. CASE c.type # "PROP_ROTATION"
            <4>1. PICK p \in Props : Only(p) /\ Follows("prop", p)
                BY <1>0, <1>1, <3>2, <3>3 DEF PropFollows, Rotates
            <4>2. Follows("prop", p)' /\ Only(p)'
                BY <1>1, <2>8, <3>2, <4>1 DEF Writes, Only
            <4> QED BY <3>0, <4>2 DEF PropFollows
        <3> QED BY <3>1, <3>2
    <2> QED BY <1>2, <2>3, <2>4, <2>5, <2>6, <2>7, <2>9, <2>10 DEF Calm
<1> QED BY <1>3, <1>4, EnqueueAdds

\* Every step keeps the invariant.
LEMMA NextCurrent ==
    SyncInv /\ RowsInv /\ RemovalInv /\ NamesInv /\ TradeInv /\ CurrentInv /\ [SyncNext]_syncVars => CurrentInv'
<1> SUFFICES ASSUME SyncInv, RowsInv, RemovalInv, NamesInv, TradeInv, CurrentInv, [SyncNext]_syncVars, ~Disturbed'
             PROVE  Calm'
    BY DEF CurrentInv
<1>1. ~Disturbed
    BY DisturbedStays
<1>2. CalmStep
    BY <1>1, HistoryStays DEF CalmStep, CurrentInv, TradeInv, Troubled, Disturbed
<1>3. ASSUME NEW k \in Clients, ClientStep(k) PROVE Calm'
    <2>1. CASE Begins(k)
        <3>1. PICK z \in ClientType : Begun(z) /\ Begin(k, z)
            BY <1>2, <2>1, CalmFacts, WhatBegins
        <3> QED BY <1>2, <3>1, BeginCalm
    <2>2. ~RemoveRow(k)
        BY <1>2, CalmFacts DEF RemoveRow, Asked
    <2> QED BY <1>2, <1>3, <2>1, <2>2, ClearCalm, CreateCalm, FormCalm, EditCalm,
              ArchiveCalm, EnqueueCalm DEF ClientStep, Begins
<1>4. CASE Requeue \/ StartCommand \/ WorkerStep \/ BecomesDue \/ Restart
    BY <1>2, <1>4, CalmSteps, StartCalm, MiddleCalm, CompleteCalm DEF Middle
<1>5. CASE UNCHANGED syncVars
    <2>1. /\ UNCHANGED <<row, recorded, registered, provision, hedge, commands, client, worker>>
          /\ Calm
        BY <1>2, <1>5 DEF syncVars, rows, hedging, CalmStep
    <2>2. QueueOrdered' /\ OneRequest' /\ RowsKnown' /\ PropRegistered'
        BY <2>1 DEF Calm, QueueOrdered, Before, OneRequest, RowsKnown, Exists, Expected, WillMake, Makes, Undone,
                    Asks, PropRegistered, Current, New
    <2>3. BrokersKnown' /\ BrokerFollows'
        BY <2>1 DEF Calm, BrokersKnown, Gone, Replaced, Removed, WillMake, Makes, Undone, BrokerFollows,
                    Follows, Final, Writes
    <2>6. PropCurrent'
        BY <1>2, <2>1, PropStays DEF PropFollows, Follows, Final, Writes, Undone, Only, Rotates
    <2>4. \A k \in Clients : Asked(k)'
        BY <1>2, <2>1, CalmFacts DEF Calm, Asked, Exists, Expected, Subject, WillMake, Makes, Undone
    <2>5. \A i \in DOMAIN commands' : Ordered(i)'
        BY <2>1 DEF Calm, Ordered, Exists, Subject, Makes, Undone
    <2> QED BY <2>2, <2>3, <2>4, <2>5, <2>6 DEF Calm
<1> QED BY <1>3, <1>4, <1>5 DEF SyncNext

\* HedgeIsCurrent: when the requests of the client came one after the other,
\* nothing failed and every command has been executed, the hedge setup trades
\* with an active broker, and EasierProp has no broker that was archived and no
\* prop account but the hedge setup's, for any number of accounts and of
\* changes (createPropAccount, replaceBrokerAccount and setHedgeBroker, and the
\* order in which processDueServiceCommands takes what they enqueue), whatever
\* props were edited or sent with the wizard in between; and when none was, it
\* trades with the one prop account that is active.
THEOREM HedgesTradeCurrent == SyncSpec => []HedgeIsCurrent
<1>1. SyncInv /\ TradeInv /\ CurrentInv => HedgeIsCurrent
    <2>1. SUFFICES ASSUME SyncInv, TradeInv, CurrentInv, Quiet, failures = 0, raced \subseteq {"unsynced"}, ~hedge.ended
                   PROVE  /\ row[hedge.broker] = "active" /\ \A b \in registered \cap Brokers : row[b] = "active"
                          /\ registered \cap Props = {hedge.prop}
                          /\ raced = {} => {p \in Props : row[p] = "active"} = {hedge.prop}
        BY DEF HedgeIsCurrent
    <2>2. /\ \A i \in DOMAIN commands : ~Undone(i)
          /\ \A k \in Clients : client[k].pc = "idle"
          /\ worker.pc = "idle" /\ \A types : ~Open(types)
        BY <2>1 DEF Quiet, Undone, Open
    <2>3. Calm /\ Trades /\ hedge.prop \in Props
        BY <2>1, <2>2 DEF CurrentInv, Disturbed, Hopeless, TradeInv, Troubled, SyncInv, SyncTypeOK, Pair
    <2>4. provision.prop = hedge.prop /\ hedge.prop \in registered
        BY <2>2, <2>3 DEF Trades, PropTrades
    <2>5. row[hedge.broker] = "active"
        BY <2>2, <2>3 DEF Calm, BrokerFollows, Follows, Final
    <2>6. raced = {} => {p \in Props : row[p] = "active"} = {hedge.prop}
        <3>1. raced = {} => Only(hedge.prop)
            BY <2>2, <2>3 DEF Calm, PropCurrent, PropFollows, Rotates, Follows, Final
        <3> QED BY <2>3, <3>1 DEF Only
    <2>7. registered \cap Props = {hedge.prop}
        BY <2>2, <2>3, <2>4 DEF Calm, PropRegistered
    <2>8. \A b \in registered \cap Brokers : row[b] = "active"
        BY <2>2, <2>3 DEF Calm, BrokersKnown, Gone, Replaced
    <2> QED BY <2>5, <2>6, <2>7, <2>8
<1>2. SyncInit => CurrentInv
    BY InitCalm DEF CurrentInv
<1>3. SyncInv /\ RowsInv /\ RemovalInv /\ NamesInv /\ [SyncNext]_syncVars => NamesInv'
    BY NextNames
<1> QED BY <1>1, <1>2, <1>3, InitSync, InitRows, InitTrades, InitNames, NextSync, NextRows, NextTrades, NextCurrent,
           PTL DEF SyncSpec
=============================================================================
