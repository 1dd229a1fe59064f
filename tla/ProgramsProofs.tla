---------------------------- MODULE ProgramsProofs ----------------------------
(***************************************************************************)
(* For any challenges, dashboards and administrators: the leaderboard the  *)
(* cron freezes covers its window, a dashboard undoes no decision of the   *)
(* administrator, and an activation leaves no plan active that it saw.     *)
(*                                                                         *)
(* Each is about a row that was read some awaits ago, and each proof says  *)
(* what its reader still knows of it: the cron, that the end it read is    *)
(* stored and past; the dashboard, that the progress moved to REACHED if   *)
(* at all; the transaction, that what it saw and did not lock is inactive. *)
(***************************************************************************)
EXTENDS Programs, TLAPS

\* What a dashboard that is under way has read of the progress is what is
\* stored, or another dashboard has stored REACHED meanwhile; who is about to
\* store has read a progress below REACHED.
ReaderKnows(r) ==
    reader[r] # Idle =>
        /\ promo.progress \in {reader[r].read.progress, "REACHED"}
        /\ reader[r].pc = "write" => NotYetReached(reader[r].read)

PromoInv == "promo" \notin raced => \A r \in Readers : ReaderKnows(r)

\* A transaction has seen and locked nothing before it looks; what it has seen
\* exists, and once it has locked, is locked or was deactivated by another.
TxnKnows(a) ==
    /\ txn[a].pc \in {"idle", "update"} => txn[a].seen = {}
    /\ \A p \in txn[a].seen : plan[p] # "none"
    /\ txn[a].pc = "create" => \A p \in txn[a].seen : p \in txn[a].held \/ plan[p] = "inactive"

PlanInv == \A a \in Admins : TxnKnows(a)

\* A challenge the cron has listed is past its end, and the end it has read of
\* it is the one that is stored.
CronKnows(c) ==
    /\ c \in todo \/ Freezes("cron", c) => challenge[c].end < now
    /\ Freezes("cron", c) /\ freezer["cron"].pc \in {"compute", "write"} =>
         freezer["cron"].end = challenge[c].end
    /\ Freezes("cron", c) /\ freezer["cron"].pc = "write" =>
         freezer["cron"].log.upTo = challenge[c].end

\* A log bears the name of who wrote it.
Signed == \A f \in Freezers : freezer[f].pc = "write" => freezer[f].log.by = f

WindowInv == Signed /\ (\A c \in Challenges \ raced : CronKnows(c)) /\ WindowIsCovered

-----------------------------------------------------------------------------
(* Types *)

\* The programs begin with values of their types.
LEMMA InitTypes == Init => TypeOK
BY ProgramsAssumption
   DEF Init, TypeOK, ChallengeRow, NoLog, Log, Idle, Promo, Progress, NoTxn, Txn

\* The leaderboard of a window that is over reaches to its end.
LEMMA MinIs ==
    ASSUME NEW a \in Nat, NEW b \in Nat
    PROVE  Min({a, b}) \in {a, b} /\ (a < b => Min({a, b}) = a)
<1>1. \E x \in {a, b} : \A y \in {a, b} : x <= y
    OBVIOUS
<1>2. Min({a, b}) \in {a, b} /\ \A y \in {a, b} : Min({a, b}) <= y
    BY <1>1 DEF Min
<1> QED BY <1>2

\* What freezeChallenge has in hand is a freezing again after its next await.
LEMMA Freezings ==
    ASSUME NEW z \in Freezing, NEW e \in Nat
    PROVE  [z EXCEPT !.pc = "compute", !.end = e] \in Freezing
BY DEF Freezing

\* What a freezeChallenge under way holds between its awaits.
LEMMA FreezerHolds ==
    ASSUME TypeOK, NEW f \in Freezers, freezer[f].pc \in {"read", "compute", "write"}
    PROVE  /\ freezer[f] \in Freezing /\ freezer[f] # Idle
           /\ freezer[f].of \in Challenges /\ freezer[f].end \in Nat /\ freezer[f].log \in Log
BY DEF TypeOK, Freezing, Idle

\* One freezeChallenge moves on and leaves the others alone.
LEMMA FreezerSet ==
    ASSUME TypeOK, NEW f \in Freezers, NEW z \in Freezing \cup {Idle},
           freezer' = [freezer EXCEPT ![f] = z]
    PROVE  /\ freezer' \in [Freezers -> Freezing \cup {Idle}]
           /\ freezer'[f] = z
           /\ \A g \in Freezers \ {f} : freezer'[g] = freezer[g]
BY DEF TypeOK

\* What freezeChallenge holds when it is called.
LEMMA Begins ==
    ASSUME NEW c \in Challenges
    PROVE  [pc |-> "read", of |-> c, end |-> 0, log |-> NoLog] \in Freezing
BY DEF Freezing, NoLog, Log

\* A challenge is a row with an end and a log.
LEMMA Rows ==
    ASSUME TypeOK, NEW c \in Challenges
    PROVE  /\ challenge[c] \in ChallengeRow /\ challenge[c].end \in Nat /\ challenge[c].log \in Log
BY DEF TypeOK, ChallengeRow

\* After its read, freezeChallenge returns, or has the end that is stored.
LEMMA ReadSet ==
    ASSUME TypeOK, NEW f \in Freezers, ReadChallenge(f)
    PROVE  \E z \in Freezing \cup {Idle} :
               /\ freezer' = [freezer EXCEPT ![f] = z]
               /\ z # Idle => /\ z = [freezer[f] EXCEPT !.pc = "compute",
                                                        !.end = challenge[freezer[f].of].end]
                              /\ z.of = freezer[f].of /\ z.end = challenge[freezer[f].of].end
                              /\ z.pc = "compute"
<1> DEFINE c == freezer[f].of
           z == IF AlreadyClosed(challenge[c]) THEN Idle
                ELSE [freezer[f] EXCEPT !.pc = "compute", !.end = challenge[c].end]
<1>1. freezer[f] \in Freezing /\ c \in Challenges
    BY FreezerHolds DEF ReadChallenge
<1>2. freezer' = [freezer EXCEPT ![f] = z]
    BY DEF ReadChallenge
<1>3. challenge[c].end \in Nat
    BY <1>1, Rows
<1>4. [freezer[f] EXCEPT !.pc = "compute", !.end = challenge[c].end] \in Freezing
    BY <1>1, <1>3, Freezings
<1>5. ASSUME z # Idle PROVE z = [freezer[f] EXCEPT !.pc = "compute", !.end = challenge[c].end]
                            /\ z.of = c /\ z.end = challenge[c].end /\ z.pc = "compute"
    BY <1>1, <1>5 DEF Freezing
<1> QED BY <1>2, <1>4, <1>5

\* After computeLeaderboard, freezeChallenge has a log of that window.
LEMMA ComputeSet ==
    ASSUME TypeOK, NEW f \in Freezers, Compute(f)
    PROVE  \E z \in Freezing :
               /\ freezer' = [freezer EXCEPT ![f] = z]
               /\ z.pc = "write" /\ z.of = freezer[f].of /\ z.end = freezer[f].end
               /\ z.log = Leaderboard(f, freezer[f].end)
<1> DEFINE l == Leaderboard(f, freezer[f].end)
           z == [freezer[f] EXCEPT !.pc = "write", !.log = l]
<1>1. freezer[f] \in Freezing /\ freezer[f].end \in Nat
    BY FreezerHolds DEF Compute
<1>2. now \in Nat
    BY DEF TypeOK
<1>3. Min({freezer[f].end, now}) \in Nat
    BY <1>1, <1>2, MinIs
<1>4. l \in Log
    BY <1>2, <1>3 DEF Log, Leaderboard, Freezers
<1>5. z \in Freezing /\ z.pc = "write" /\ z.of = freezer[f].of /\ z.end = freezer[f].end /\ z.log = l
    BY <1>1, <1>4 DEF Freezing
<1>6. freezer' = [freezer EXCEPT ![f] = z]
    BY DEF Compute
<1> QED BY <1>5, <1>6

\* Freezing, closing and editing challenges keep the types.
LEMMA ChallengeTypes ==
    ASSUME TypeOK, ChallengeNext
    PROVE  TypeOK'
<1> USE DEF OnChallenges, challengeVars, promoVars, planVars
<1>0. /\ UNCHANGED <<about, promo, metric, reader, plan, txn>>
      /\ about' \in {"challenges", "promo", "plan"} /\ promo' \in Promo /\ metric' \in 0 .. Top
      /\ reader' \in [Readers -> Reading \cup {Idle}]
      /\ plan' \in [Plans -> {"none", "inactive", "active"}] /\ txn' \in [Admins -> Txn]
    BY DEF TypeOK, ChallengeNext, Tick, Cron, CronLists, CronTakes, Freeze, ReadChallenge,
           Compute, WriteFrozen, FreezeFails, AdminCloses, EditChallenge
<1> DEFINE Rest == /\ now' \in Nat /\ challenge' \in [Challenges -> ChallengeRow]
                   /\ freezer' \in [Freezers -> Freezing \cup {Idle}] /\ todo' \subseteq Challenges
                   /\ raced' \subseteq Challenges \cup {"promo"} /\ edits' \in Nat /\ failures' \in Nat
<1>1. CASE Tick
    <2>1. Rest BY <1>1 DEF TypeOK, Tick
    <2> QED BY <1>0, <2>1 DEF TypeOK
<1>2. CASE CronLists
    <2>1. Rest BY <1>2 DEF TypeOK, CronLists, Listed
    <2> QED BY <1>0, <2>1 DEF TypeOK
<1>3. CASE CronTakes
    <2>1. PICK c \in todo : Begin("cron", c) /\ todo' = todo \ {c} /\ raced' \subseteq raced \cup {c}
        BY <1>3 DEF CronTakes
    <2>2. c \in Challenges
        BY DEF TypeOK
    <2>3. freezer' \in [Freezers -> Freezing \cup {Idle}]
        BY <2>1, <2>2, Begins, FreezerSet DEF Begin, Freezers
    <2>4. Rest BY <1>3, <2>1, <2>2, <2>3 DEF TypeOK, CronTakes
    <2> QED BY <1>0, <2>4 DEF TypeOK
<1>4. ASSUME NEW f \in Freezers, Freeze(f) PROVE TypeOK'
    <2>1. CASE ReadChallenge(f)
        <3>1. freezer' \in [Freezers -> Freezing \cup {Idle}]
            BY <2>1, ReadSet, FreezerSet
        <3>2. Rest BY <2>1, <3>1 DEF TypeOK, ReadChallenge
        <3> QED BY <1>0, <3>2 DEF TypeOK
    <2>2. CASE Compute(f)
        <3>1. freezer' \in [Freezers -> Freezing \cup {Idle}]
            BY <2>2, ComputeSet, FreezerSet
        <3>2. Rest BY <2>2, <3>1 DEF TypeOK, Compute
        <3> QED BY <1>0, <3>2 DEF TypeOK
    <2>3. CASE WriteFrozen(f)
        <3> DEFINE c == freezer[f].of
                   row == [challenge[c] EXCEPT !.status = "FROZEN", !.log = freezer[f].log]
        <3>1. c \in Challenges /\ freezer[f].log \in Log
            BY <2>3, FreezerHolds DEF WriteFrozen
        <3>2. row \in ChallengeRow
            BY <3>1, Rows DEF ChallengeRow
        <3>3. challenge' = [challenge EXCEPT ![c] = row]
            BY <2>3 DEF WriteFrozen
        <3>4. challenge' \in [Challenges -> ChallengeRow]
            BY <3>1, <3>2, <3>3 DEF TypeOK
        <3>5. Rest BY <2>3, <3>4 DEF TypeOK, WriteFrozen
        <3> QED BY <1>0, <3>5 DEF TypeOK
    <2> QED BY <1>4, <2>1, <2>2, <2>3 DEF Freeze
<1>5. CASE FreezeFails
    <2>1. freezer' \in [Freezers -> Freezing \cup {Idle}] /\ todo' \subseteq Challenges
        BY <1>5 DEF TypeOK, FreezeFails, Freezers
    <2>2. Rest BY <1>5, <2>1, ProgramsAssumption DEF TypeOK, FreezeFails, Fail
    <2> QED BY <1>0, <2>2 DEF TypeOK
<1>6. ASSUME NEW c \in Challenges, AdminCloses(c) PROVE TypeOK'
    <2>1. freezer' \in [Freezers -> Freezing \cup {Idle}]
        BY <1>6, Begins, FreezerSet DEF AdminCloses, Begin, Freezers
    <2>2. Rest BY <1>6, <2>1 DEF TypeOK, AdminCloses, Edit
    <2> QED BY <1>0, <2>2 DEF TypeOK
<1>7. ASSUME NEW c \in Challenges, NEW end \in 1 .. MaxTime, EditChallenge(c, end) PROVE TypeOK'
    <2>1. end \in Nat
        BY ProgramsAssumption
    <2>2. challenge' = [challenge EXCEPT ![c] = [challenge[c] EXCEPT !.end = end]]
        BY <1>7 DEF EditChallenge
    <2>3. [challenge[c] EXCEPT !.end = end] \in ChallengeRow
        BY <2>1, Rows DEF ChallengeRow
    <2>4. challenge' \in [Challenges -> ChallengeRow]
        BY <2>2, <2>3 DEF TypeOK
    <2>5. Rest BY <1>7, <2>4 DEF TypeOK, EditChallenge, Edit
    <2> QED BY <1>0, <2>5 DEF TypeOK
<1> QED BY <1>1, <1>2, <1>3, <1>4, <1>5, <1>6, <1>7 DEF ChallengeNext, Cron, Freezers

\* Dashboards and administrators keep the types.
LEMMA PromoTypes ==
    ASSUME TypeOK, PromoNext
    PROVE  TypeOK'
<1> USE DEF OnPromo, challengeVars, planVars
<1>0. promo \in Promo /\ promo.threshold \in 1 .. Top /\ promo.progress \in Progress
    BY DEF TypeOK, Promo
<1>1. ASSUME NEW value \in 0 .. Top, MetricMoves(value) PROVE TypeOK'
    BY <1>1 DEF TypeOK, MetricMoves
<1>2. ASSUME NEW r \in Readers, ReadPromo(r) PROVE TypeOK'
    <2>1. [pc |-> "metric", read |-> promo] \in Reading
        BY <1>0 DEF Reading
    <2>2. reader' \in [Readers -> Reading \cup {Idle}]
        BY <1>2, <2>1 DEF TypeOK, ReadPromo
    <2> QED BY <1>2, <2>2 DEF TypeOK, ReadPromo
<1>3. ASSUME NEW r \in Readers, ReadMetric(r) PROVE TypeOK'
    <2>1. reader[r] \in Reading
        BY <1>3 DEF TypeOK, ReadMetric, Idle
    <2>2. [reader[r] EXCEPT !.pc = "write"] \in Reading
        BY <2>1 DEF Reading
    <2>3. reader' \in [Readers -> Reading \cup {Idle}]
        BY <1>3, <2>2 DEF TypeOK, ReadMetric
    <2> QED BY <1>3, <2>3 DEF TypeOK, ReadMetric
<1>4. ASSUME NEW r \in Readers, WriteReached(r) PROVE TypeOK'
    <2>1. promo' \in Promo
        BY <1>0, <1>4 DEF WriteReached, Promo, Progress
    <2> QED BY <1>4, <2>1 DEF TypeOK, WriteReached
<1>5. ASSUME NEW r \in Readers, ReadFails(r) PROVE TypeOK'
    BY <1>5, ProgramsAssumption DEF TypeOK, ReadFails, Fail
<1>6. ASSUME NEW row \in Promo, AdminWrites(row) PROVE TypeOK'
    BY <1>6 DEF TypeOK, AdminWrites, Edit
<1>7. ASSUME NEW status \in Progress, SetPromoProgress(status) PROVE TypeOK'
    <2>1. [promo EXCEPT !.progress = status] \in Promo
        BY <1>0 DEF Promo
    <2> QED BY <1>6, <1>7, <2>1 DEF SetPromoProgress
<1>8. ASSUME NEW t \in 1 .. Top, EditPromo(t) PROVE TypeOK'
    <2>1. [promo EXCEPT !.threshold = t] \in Promo
        BY <1>0 DEF Promo
    <2> QED BY <1>6, <1>8, <2>1 DEF EditPromo
<1> QED BY <1>1, <1>2, <1>3, <1>4, <1>5, <1>7, <1>8 DEF PromoNext

\* One transaction moves on and leaves the others alone.
LEMMA Txns ==
    ASSUME TypeOK, NEW a \in Admins, NEW t \in Txn, txn' = [txn EXCEPT ![a] = t]
    PROVE  /\ txn' \in [Admins -> Txn] /\ txn'[a] = t
           /\ \A b \in Admins \ {a} : txn'[b] = txn[b]
BY DEF TypeOK

\* What each step of upsertPlan makes of its transaction.
LEMMA TxnSteps ==
    ASSUME TypeOK, NEW a \in Admins
    PROVE  /\ BeginPlan(a) => \E t \in Txn : /\ txn' = [txn EXCEPT ![a] = t]
                                            /\ t.seen = {} /\ t.held = {} /\ t # NoTxn
           /\ StartUpdate(a) => \E t \in Txn : /\ txn' = [txn EXCEPT ![a] = t]
                                              /\ t.pc = "lock" /\ t.seen = Activated
           /\ LockActive(a) => \E t \in Txn : /\ txn' = [txn EXCEPT ![a] = t]
                                             /\ t.pc = "create" /\ t.seen = txn[a].seen
                                             /\ t.held = txn[a].seen \cap Activated
           /\ NoTxn \in Txn
<1>1. txn[a] \in Txn /\ txn[a].seen \subseteq Plans /\ Activated \subseteq Plans
    BY DEF TypeOK, Txn, Activated
<1>2. NoTxn \in Txn
    BY DEF Txn, NoTxn
<1>3. ASSUME BeginPlan(a)
      PROVE  \E t \in Txn : /\ txn' = [txn EXCEPT ![a] = t]
                            /\ t.seen = {} /\ t.held = {} /\ t # NoTxn
    <2>1. PICK activate \in BOOLEAN :
              txn' = [txn EXCEPT ![a] = [pc |-> IF activate THEN "update" ELSE "create",
                                   activate |-> activate, seen |-> {}, held |-> {}]]
        BY <1>3 DEF BeginPlan
    <2> DEFINE t == [pc |-> IF activate THEN "update" ELSE "create",
                     activate |-> activate, seen |-> {}, held |-> {}]
    <2>2. t \in Txn /\ t.pc # NoTxn.pc
        BY DEF Txn, NoTxn
    <2>3. t.seen = {} /\ t.held = {} /\ t # NoTxn
        BY <2>2
    <2> QED BY <2>1, <2>2, <2>3
<1>4. ASSUME StartUpdate(a)
      PROVE  \E t \in Txn : txn' = [txn EXCEPT ![a] = t] /\ t.pc = "lock" /\ t.seen = Activated
    <2> DEFINE t == [txn[a] EXCEPT !.pc = "lock", !.seen = Activated]
    <2>1. t \in Txn /\ t.pc = "lock" /\ t.seen = Activated
        BY <1>1 DEF Txn
    <2>2. txn' = [txn EXCEPT ![a] = t]
        BY <1>4 DEF StartUpdate
    <2> QED BY <2>1, <2>2
<1>5. ASSUME LockActive(a)
      PROVE  \E t \in Txn : /\ txn' = [txn EXCEPT ![a] = t] /\ t.pc = "create"
                            /\ t.seen = txn[a].seen /\ t.held = txn[a].seen \cap Activated
    <2> DEFINE t == [txn[a] EXCEPT !.pc = "create", !.held = txn[a].seen \cap Activated]
    <2>1. t \in Txn /\ t.pc = "create" /\ t.seen = txn[a].seen
          /\ t.held = txn[a].seen \cap Activated
        BY <1>1 DEF Txn
    <2>2. txn' = [txn EXCEPT ![a] = t]
        BY <1>5 DEF LockActive
    <2> QED BY <2>1, <2>2
<1> QED BY <1>2, <1>3, <1>4, <1>5

\* Every step of upsertPlan keeps the types.
LEMMA PlanTypes ==
    ASSUME TypeOK, PlanNext
    PROVE  TypeOK'
<1> USE DEF OnPlan, challengeVars, promoVars
<1>1. PICK a \in Admins : BeginPlan(a) \/ StartUpdate(a) \/ LockActive(a) \/ CommitPlan(a) \/ AbortPlan(a)
    BY DEF PlanNext
<1>2. \E t \in Txn : txn' = [txn EXCEPT ![a] = t]
    BY <1>1, TxnSteps DEF CommitPlan, AbortPlan
<1>3. txn' \in [Admins -> Txn]
    BY <1>2, Txns
<1>4. plan' \in [Plans -> {"none", "inactive", "active"}] /\ failures' \in Nat
    BY <1>1, ProgramsAssumption
       DEF TypeOK, BeginPlan, StartUpdate, LockActive, CommitPlan, AbortPlan, Fail
<1>5. UNCHANGED <<about, now, challenge, freezer, todo, promo, metric, reader, raced, edits>>
    BY <1>1 DEF BeginPlan, StartUpdate, LockActive, CommitPlan, AbortPlan
<1> QED BY <1>3, <1>4, <1>5 DEF TypeOK

\* So does every step.
LEMMA NextTypes == TypeOK /\ [Next]_vars => TypeOK'
<1> SUFFICES ASSUME TypeOK, [Next]_vars PROVE TypeOK'
    OBVIOUS
<1>1. CASE Next
    BY <1>1, ChallengeTypes, PromoTypes, PlanTypes DEF Next
<1>2. CASE UNCHANGED vars
    BY <1>2 DEF TypeOK, vars, challengeVars, promoVars, planVars
<1> QED BY <1>1, <1>2

\* The rows, the freezers, the dashboards and the transactions keep their
\* types: what is stored of challenges, promos and plans is a row of its table.
THEOREM TypeCorrect == Spec => []TypeOK
BY InitTypes, NextTypes, PTL DEF Spec

-----------------------------------------------------------------------------
(* Travel promos *)

\* What a dashboard knows stays true, and its step is one the property allows:
\* who stores REACHED read a progress below it, which has not moved since but
\* to REACHED.
LEMMA PromoStep ==
    ASSUME TypeOK, PromoInv, [Next]_vars
    PROVE  /\ PromoInv'
           /\ promo'.progress # promo.progress /\ edits' = edits /\ "promo" \notin raced =>
                promo.progress \in {"none", "NOT_REACHED"} /\ promo'.progress = "REACHED"
<1> DEFINE Stands ==
        promo'.progress # promo.progress /\ edits' = edits /\ "promo" \notin raced =>
            promo.progress \in {"none", "NOT_REACHED"} /\ promo'.progress = "REACHED"
<1>0. promo \in Promo /\ promo.progress \in Progress /\ edits \in Nat
    BY DEF TypeOK, Promo
<1>1. ASSUME UNCHANGED <<promo, reader, raced>> PROVE PromoInv' /\ Stands
    BY <1>1 DEF PromoInv, ReaderKnows
<1>2. CASE ChallengeNext
    <2>1. UNCHANGED <<promo, reader>> /\ ("promo" \in raced => "promo" \in raced')
        BY <1>2 DEF ChallengeNext, Tick, Cron, CronLists, CronTakes, Freeze, ReadChallenge, Compute,
                    WriteFrozen, FreezeFails, AdminCloses, EditChallenge, OnChallenges, promoVars
    <2> QED BY <2>1 DEF PromoInv, ReaderKnows
<1>3. CASE PlanNext
    <2>1. UNCHANGED <<promo, reader, raced>>
        BY <1>3 DEF PlanNext, BeginPlan, StartUpdate, LockActive, CommitPlan, AbortPlan, OnPlan, promoVars
    <2> QED BY <1>1, <2>1
<1>4. CASE UNCHANGED vars
    BY <1>1, <1>4 DEF vars, promoVars
<1>5. ASSUME NEW value \in 0 .. Top, MetricMoves(value) PROVE PromoInv' /\ Stands
    BY <1>1, <1>5 DEF MetricMoves
<1>6. ASSUME NEW r \in Readers, NEW z \in Reading \cup {Idle}, reader' = [reader EXCEPT ![r] = z],
             UNCHANGED <<promo, raced>>, "promo" \notin raced => ReaderKnows(r)'
      PROVE  PromoInv' /\ Stands
    <2>1. \A s \in Readers \ {r} : reader'[s] = reader[s]
        BY <1>6 DEF TypeOK
    <2>2. "promo" \notin raced => \A s \in Readers : ReaderKnows(s)'
        BY <1>6, <2>1 DEF PromoInv, ReaderKnows
    <2> QED BY <1>6, <2>2 DEF PromoInv
<1>7. ASSUME NEW r \in Readers, ReadPromo(r) PROVE PromoInv' /\ Stands
    <2> DEFINE z == [pc |-> "metric", read |-> promo]
    <2>1. z \in Reading /\ reader' = [reader EXCEPT ![r] = z] /\ UNCHANGED <<promo, raced>>
        BY <1>0, <1>7 DEF Reading, ReadPromo
    <2>2. reader'[r] = z
        BY <2>1 DEF TypeOK
    <2>3. ReaderKnows(r)'
        BY <2>1, <2>2 DEF ReaderKnows
    <2> QED BY <1>6, <2>1, <2>3
<1>8. ASSUME NEW r \in Readers, ReadMetric(r) PROVE PromoInv' /\ Stands
    <2> DEFINE z == IF metric >= reader[r].read.threshold /\ NotYetReached(reader[r].read)
                    THEN [reader[r] EXCEPT !.pc = "write"] ELSE Idle
    <2>1. reader[r] \in Reading /\ reader[r] # Idle
        BY <1>8 DEF TypeOK, ReadMetric, Idle
    <2>2. z \in Reading \cup {Idle} /\ (z # Idle => z.read = reader[r].read /\ NotYetReached(reader[r].read))
        BY <2>1 DEF Reading
    <2>3. reader' = [reader EXCEPT ![r] = z] /\ UNCHANGED <<promo, raced>>
        BY <1>8 DEF ReadMetric
    <2>4. reader'[r] = z
        BY <2>3 DEF TypeOK
    <2>5. "promo" \notin raced => ReaderKnows(r)'
        BY <2>1, <2>2, <2>3, <2>4 DEF PromoInv, ReaderKnows, NotYetReached
    <2> QED BY <1>6, <2>2, <2>3, <2>5
<1>9. ASSUME NEW r \in Readers, WriteReached(r) PROVE PromoInv' /\ Stands
    <2>1. reader[r] # Idle /\ reader[r].pc = "write"
        BY <1>9 DEF WriteReached, Idle
    <2>2. promo'.progress = "REACHED" /\ UNCHANGED raced
        BY <1>0, <1>9 DEF WriteReached, Promo
    <2>3. reader'[r] = Idle /\ \A s \in Readers \ {r} : reader'[s] = reader[s]
        BY <1>9 DEF TypeOK, WriteReached
    <2>4. "promo" \notin raced => \A s \in Readers : ReaderKnows(s)'
        BY <2>2, <2>3 DEF PromoInv, ReaderKnows
    <2>5. "promo" \notin raced =>
              promo.progress \in {"none", "NOT_REACHED"} \/ promo.progress = "REACHED"
        BY <2>1 DEF PromoInv, ReaderKnows, NotYetReached
    <2> QED BY <2>2, <2>4, <2>5 DEF PromoInv
<1>10. ASSUME NEW r \in Readers, ReadFails(r) PROVE PromoInv' /\ Stands
    <2>1. reader' = [reader EXCEPT ![r] = Idle] /\ UNCHANGED <<promo, raced>>
        BY <1>10 DEF ReadFails
    <2>2. reader'[r] = Idle
        BY <2>1 DEF TypeOK
    <2> QED BY <1>6, <2>1, <2>2 DEF ReaderKnows
<1>11. ASSUME NEW row, AdminWrites(row) PROVE PromoInv' /\ Stands
    <2>1. edits' # edits /\ UNCHANGED reader
        BY <1>0, <1>11 DEF AdminWrites, Edit
    <2>2. "promo" \notin raced' => \A r \in Readers : reader[r] = Idle
        BY <1>11 DEF AdminWrites
    <2> QED BY <2>1, <2>2 DEF PromoInv, ReaderKnows
<1>12. CASE PromoNext
    BY <1>5, <1>7, <1>8, <1>9, <1>10, <1>11, <1>12 DEF PromoNext, SetPromoProgress, EditPromo
<1> QED BY <1>2, <1>3, <1>4, <1>12 DEF Next

\* AdminTransitionsStand: "CONFIRMED/REDEEMED are admin-only transitions" of
\* getPromosForAgent, for any number of dashboards of the collaborator that
\* read and write at once, unless the administrator writes while one reads.
THEOREM AdminDecisionsStand == Spec => AdminTransitionsStand
<1>1. Init => PromoInv
    BY DEF Init, PromoInv, ReaderKnows
<1>2. TypeOK /\ PromoInv /\ [Next]_vars => PromoInv'
    BY PromoStep
<1>3. TypeOK /\ PromoInv /\ [Next]_vars =>
          [promo'.progress # promo.progress /\ edits' = edits /\ "promo" \notin raced =>
               /\ promo.progress \in {"none", "NOT_REACHED"} /\ promo'.progress = "REACHED"]_vars
    BY PromoStep
<1> QED BY <1>1, <1>2, <1>3, TypeCorrect, PTL DEF Spec, AdminTransitionsStand

-----------------------------------------------------------------------------
(* The compensation plan *)

\* What a transaction knows stays true, and leaves nothing that it saw active:
\* a plan never leaves "inactive", and the new plan of another is none of those
\* that were seen.
LEMMA PlanStep ==
    ASSUME TypeOK, PlanInv, [Next]_vars
    PROVE  /\ PlanInv'
           /\ \A a \in Admins : txn[a] # NoTxn /\ txn'[a] = NoTxn /\ failures' = failures =>
                \A p \in txn[a].seen : plan'[p] = "inactive"
<1> DEFINE Replaces ==
        \A a \in Admins : txn[a] # NoTxn /\ txn'[a] = NoTxn /\ failures' = failures =>
            \A p \in txn[a].seen : plan'[p] = "inactive"
<1>1. ASSUME UNCHANGED <<plan, txn>> PROVE PlanInv' /\ Replaces
    BY <1>1 DEF PlanInv, TxnKnows
<1>2. CASE ChallengeNext
    <2>1. UNCHANGED <<plan, txn>>
        BY <1>2 DEF ChallengeNext, Tick, Cron, CronLists, CronTakes, Freeze, ReadChallenge, Compute,
                    WriteFrozen, FreezeFails, AdminCloses, EditChallenge, OnChallenges, planVars
    <2> QED BY <1>1, <2>1
<1>3. CASE PromoNext
    <2>1. UNCHANGED <<plan, txn>>
        BY <1>3 DEF PromoNext, MetricMoves, ReadPromo, ReadMetric, WriteReached, ReadFails,
                    SetPromoProgress, EditPromo, AdminWrites, OnPromo, planVars
    <2> QED BY <1>1, <2>1
<1>4. CASE UNCHANGED vars
    BY <1>1, <1>4 DEF vars, planVars
<1>5. ASSUME NEW a \in Admins PROVE txn[a] \in Txn /\ txn[a].seen \subseteq Plans
    BY <1>5 DEF TypeOK, Txn
<1>6. NoTxn.seen = {} /\ NoTxn.pc = "idle"
    BY DEF NoTxn
<1>7. ASSUME NEW a \in Admins, NEW t \in Txn, txn' = [txn EXCEPT ![a] = t], UNCHANGED plan,
             TxnKnows(a)', t = NoTxn => failures' # failures
      PROVE  PlanInv' /\ Replaces
    <2>1. txn'[a] = t /\ \A b \in Admins \ {a} : txn'[b] = txn[b]
        BY <1>7, Txns
    <2> QED BY <1>7, <2>1 DEF PlanInv, TxnKnows
<1>8. ASSUME NEW a \in Admins, BeginPlan(a) PROVE PlanInv' /\ Replaces
    <2>1. PICK t \in Txn : txn' = [txn EXCEPT ![a] = t] /\ t.seen = {} /\ t # NoTxn
        BY <1>8, TxnSteps
    <2>2. txn'[a] = t
        BY <2>1, Txns
    <2>3. TxnKnows(a)'
        BY <2>1, <2>2 DEF TxnKnows
    <2> QED BY <1>7, <1>8, <2>1, <2>3 DEF BeginPlan
<1>9. ASSUME NEW a \in Admins, StartUpdate(a) PROVE PlanInv' /\ Replaces
    <2>1. PICK t \in Txn : txn' = [txn EXCEPT ![a] = t] /\ t.pc = "lock" /\ t.seen = Activated
        BY <1>9, TxnSteps
    <2>2. txn'[a] = t /\ UNCHANGED plan
        BY <1>9, <2>1, Txns DEF StartUpdate
    <2>3. TxnKnows(a)'
        BY <2>1, <2>2 DEF TxnKnows, Activated
    <2> QED BY <1>6, <1>7, <2>1, <2>2, <2>3
<1>10. ASSUME NEW a \in Admins, LockActive(a) PROVE PlanInv' /\ Replaces
    <2>1. PICK t \in Txn : /\ txn' = [txn EXCEPT ![a] = t] /\ t.pc = "create"
                           /\ t.seen = txn[a].seen /\ t.held = txn[a].seen \cap Activated
        BY <1>10, TxnSteps
    <2>2. txn'[a] = t /\ UNCHANGED plan
        BY <1>10, <2>1, Txns DEF LockActive
    <2>3. \A p \in t.seen : p \in t.held \/ plan[p] = "inactive"
        BY <1>5, <2>1 DEF PlanInv, TxnKnows, Activated, TypeOK
    <2>4. TxnKnows(a)'
        BY <2>1, <2>2, <2>3 DEF TxnKnows, PlanInv
    <2> QED BY <1>6, <1>7, <2>1, <2>2, <2>4
<1>11. ASSUME NEW a \in Admins, CommitPlan(a) PROVE PlanInv' /\ Replaces
    <2>1. txn'[a] = NoTxn /\ (\A b \in Admins \ {a} : txn'[b] = txn[b]) /\ txn[a].pc = "create"
        BY <1>11, TxnSteps, Txns DEF CommitPlan
    <2>2. PICK new \in Unused :
              plan' = [p \in Plans |->
                          IF p = new THEN IF txn[a].activate THEN "active" ELSE "inactive"
                          ELSE IF p \in txn[a].held THEN "inactive" ELSE plan[p]]
        BY <1>11 DEF CommitPlan, Replaced
    <2>3. ASSUME NEW b \in Admins, NEW p \in txn[b].seen
          PROVE  /\ plan'[p] \in {"inactive", plan[p]} /\ plan'[p] # "none"
                 /\ p \in txn[a].held => plan'[p] = "inactive"
        <3>1. p \in Plans /\ plan[p] # "none" /\ p # new
            BY <1>5, <2>2, <2>3 DEF PlanInv, TxnKnows, Unused
        <3> QED BY <2>2, <3>1
    <2>4. \A p \in txn[a].seen : plan'[p] = "inactive"
        BY <2>1, <2>3 DEF PlanInv, TxnKnows
    <2>5. ASSUME NEW b \in Admins \ {a} PROVE TxnKnows(b)'
        BY <2>1, <2>3 DEF PlanInv, TxnKnows
    <2>6. TxnKnows(a)'
        BY <1>6, <2>1 DEF TxnKnows
    <2> QED BY <2>1, <2>4, <2>5, <2>6 DEF PlanInv
<1>12. ASSUME NEW a \in Admins, AbortPlan(a) PROVE PlanInv' /\ Replaces
    <2>1. txn' = [txn EXCEPT ![a] = NoTxn] /\ NoTxn \in Txn /\ UNCHANGED plan /\ failures' # failures
        BY <1>12, TxnSteps DEF AbortPlan, Fail, TypeOK
    <2>2. txn'[a] = NoTxn
        BY <2>1, Txns
    <2>3. TxnKnows(a)'
        BY <1>6, <2>2 DEF TxnKnows
    <2> QED BY <1>7, <2>1, <2>3
<1>13. CASE PlanNext
    BY <1>8, <1>9, <1>10, <1>11, <1>12, <1>13 DEF PlanNext
<1> QED BY <1>2, <1>3, <1>4, <1>13 DEF Next

\* OthersDeactivated: "Activating deactivates any other plan" of upsertPlan,
\* for any number of administrators who configure plans at the same time: the
\* plans that were active when an activation began its update are not when it
\* has committed.
THEOREM ActivationReplaces == Spec => OthersDeactivated
<1>1. Init => PlanInv
    BY DEF Init, PlanInv, TxnKnows, NoTxn
<1>2. TypeOK /\ PlanInv /\ [Next]_vars => PlanInv'
    BY PlanStep
<1>3. TypeOK /\ PlanInv /\ [Next]_vars =>
          [\A a \in Admins : txn[a] # NoTxn /\ txn'[a] = NoTxn /\ failures' = failures =>
               \A p \in txn[a].seen : plan'[p] = "inactive"]_vars
    BY PlanStep
<1> QED BY <1>1, <1>2, <1>3, TypeCorrect, PTL DEF Spec, OthersDeactivated

-----------------------------------------------------------------------------
(* Challenges *)

\* One challenge, as the proof of a step looks at it.
Covered(c) == Frozen(c) /\ challenge[c].log.by = "cron" => challenge[c].log.upTo = challenge[c].end

\* A challenge the step leaves alone, while neither the cron nor the list
\* turns to it, stays as it is.
LEMMA LeftAlone ==
    ASSUME TypeOK, NEW c \in Challenges, CronKnows(c), Covered(c),
           challenge'[c] = challenge[c], now' \in Nat, now <= now',
           c \in todo' => c \in todo \/ challenge[c].end < now',
           Freezes("cron", c)' => freezer'["cron"] = freezer["cron"]
    PROVE  CronKnows(c)' /\ Covered(c)'
<1>1. challenge[c].end \in Nat /\ now \in Nat
    BY Rows DEF TypeOK
<1>2. Covered(c)'
    BY DEF Covered, Frozen
<1>3. Freezes("cron", c)' => Freezes("cron", c)
    BY DEF Freezes
<1> QED BY <1>1, <1>2, <1>3 DEF CronKnows

\* What the cron knows stays true: the end of a challenge that is past stays
\* past, and only an edit moves it, which counts as a race.
LEMMA WindowStep ==
    ASSUME TypeOK, WindowInv, [Next]_vars
    PROVE  WindowInv'
<1>0. /\ now \in Nat /\ "cron" \in Freezers /\ "admin" \in Freezers
      /\ freezer \in [Freezers -> Freezing \cup {Idle}]
    BY DEF TypeOK, Freezers
<1>1. \A c \in Challenges \ raced : CronKnows(c) /\ Covered(c)
    BY DEF WindowInv, WindowIsCovered, Covered
<1>2. SUFFICES Signed' /\ \A c \in Challenges \ raced' : CronKnows(c)' /\ Covered(c)'
    BY DEF WindowInv, WindowIsCovered, Covered
<1> DEFINE Holds == Signed' /\ \A c \in Challenges \ raced' : CronKnows(c)' /\ Covered(c)'
<1>3. ASSUME UNCHANGED <<challenge, freezer, todo, raced>>, now' \in Nat, now <= now' PROVE Holds
    <2>1. Signed'
        BY <1>3 DEF WindowInv, Signed
    <2> QED BY <1>1, <1>3, <2>1, LeftAlone
<1>4. CASE PromoNext
    <2>1. UNCHANGED <<now, challenge, freezer, todo>> /\ raced \subseteq raced'
        BY <1>4 DEF PromoNext, MetricMoves, ReadPromo, ReadMetric, WriteReached, ReadFails,
                    SetPromoProgress, EditPromo, AdminWrites, OnPromo, challengeVars
    <2>2. Signed'
        BY <2>1 DEF WindowInv, Signed
    <2> QED BY <1>0, <1>1, <2>1, <2>2, LeftAlone
<1>5. CASE PlanNext
    <2>1. UNCHANGED <<now, challenge, freezer, todo, raced>>
        BY <1>5 DEF PlanNext, BeginPlan, StartUpdate, LockActive, CommitPlan, AbortPlan, OnPlan, challengeVars
    <2> QED BY <1>0, <1>3, <2>1
<1>6. CASE UNCHANGED vars
    BY <1>0, <1>3, <1>6 DEF vars, challengeVars
<1>7. CASE Tick
    <2>1. now' \in Nat /\ now <= now'
        BY <1>0, <1>7 DEF Tick
    <2> QED BY <1>3, <1>7, <2>1 DEF Tick
<1>8. CASE CronLists
    <2>1. \A c \in todo' : challenge[c].end < now
        BY <1>8 DEF CronLists, Listed, Expired
    <2>2. Signed'
        BY <1>8 DEF WindowInv, Signed, CronLists
    <2> QED BY <1>0, <1>1, <1>8, <2>1, <2>2, LeftAlone DEF CronLists
\* One freezer moves on, with a challenge that is not the cron's or whose
\* knowledge is still good.
<1>9. ASSUME NEW f \in Freezers, NEW z \in Freezing \cup {Idle}, freezer' = [freezer EXCEPT ![f] = z],
             UNCHANGED <<now, challenge>>, todo' \subseteq todo, raced \subseteq raced',
             z.pc = "write" => z.log.by = f,
             \A c \in Challenges \ raced' : f = "cron" /\ Freezes("cron", c)' => CronKnows(c)'
      PROVE  Holds
    <2>1. freezer'[f] = z /\ \A g \in Freezers \ {f} : freezer'[g] = freezer[g]
        BY <1>9, FreezerSet
    <2>2. Signed'
        BY <1>9, <2>1 DEF WindowInv, Signed
    <2>3. ASSUME NEW c \in Challenges \ raced' PROVE CronKnows(c)' /\ Covered(c)'
        <3>1. CASE f = "cron" /\ Freezes("cron", c)'
            BY <1>1, <1>9, <2>3, <3>1 DEF Covered, Frozen
        <3>2. CASE ~(f = "cron" /\ Freezes("cron", c)')
            BY <1>0, <1>1, <1>9, <2>1, <2>3, <3>2, LeftAlone
        <3> QED BY <3>1, <3>2
    <2> QED BY <2>2, <2>3
<1>10. ASSUME NEW f \in Freezers, NEW c \in Challenges, Begin(f, c), UNCHANGED <<now, challenge>>,
              todo' \subseteq todo, raced \subseteq raced', f = "cron" => c \in todo
       PROVE  Holds
    <2> DEFINE z == [pc |-> "read", of |-> c, end |-> 0, log |-> NoLog]
    <2>1. z \in Freezing /\ freezer' = [freezer EXCEPT ![f] = z]
        BY <1>10, Begins DEF Begin
    <2>2. freezer'[f] = z
        BY <2>1, FreezerSet
    <2>3. ASSUME NEW d \in Challenges \ raced', f = "cron", Freezes("cron", d)' PROVE CronKnows(d)'
        <3>1. d = c /\ freezer'["cron"].pc = "read"
            BY <2>2, <2>3 DEF Freezes
        <3>2. challenge[c].end < now
            BY <1>1, <1>10, <2>3, <3>1 DEF CronKnows
        <3> QED BY <1>10, <3>1, <3>2 DEF CronKnows
    <2> QED BY <1>9, <1>10, <2>1, <2>3
<1>11. CASE CronTakes
    <2>1. PICK c \in todo : Begin("cron", c) /\ todo' = todo \ {c} /\ raced \subseteq raced'
        BY <1>11 DEF CronTakes
    <2>2. c \in Challenges
        BY DEF TypeOK
    <2> QED BY <1>0, <1>10, <1>11, <2>1, <2>2 DEF CronTakes
<1>12. ASSUME NEW c \in Challenges, AdminCloses(c) PROVE Holds
    <2>1. Begin("admin", c) /\ UNCHANGED <<now, challenge, todo>> /\ raced \subseteq raced'
        BY <1>12 DEF AdminCloses
    <2> QED BY <1>0, <1>10, <2>1
<1>13. ASSUME NEW f \in Freezers, ReadChallenge(f) PROVE Holds
    <2> DEFINE c == freezer[f].of
    <2>1. PICK z \in Freezing \cup {Idle} :
              /\ freezer' = [freezer EXCEPT ![f] = z]
              /\ z # Idle => z.of = c /\ z.end = challenge[c].end /\ z.pc = "compute"
        BY <1>13, ReadSet
    <2>2. freezer'[f] = z /\ freezer[f] # Idle /\ UNCHANGED <<now, challenge, todo, raced>>
        BY <1>13, <2>1, FreezerSet, FreezerHolds DEF ReadChallenge
    <2>3. ASSUME NEW d \in Challenges \ raced', f = "cron", Freezes("cron", d)' PROVE CronKnows(d)'
        <3>1. d = c /\ z # Idle
            BY <2>1, <2>2, <2>3 DEF Freezes
        <3>2. challenge[d].end < now
            BY <1>1, <2>2, <2>3, <3>1 DEF CronKnows, Freezes
        <3> QED BY <2>1, <2>2, <2>3, <3>1, <3>2 DEF CronKnows
    <2>4. z.pc # "write"
        BY <2>1 DEF Idle
    <2> QED BY <1>9, <2>1, <2>2, <2>3, <2>4
<1>14. ASSUME NEW f \in Freezers, Compute(f) PROVE Holds
    <2> DEFINE c == freezer[f].of
    <2>1. PICK z \in Freezing :
              /\ freezer' = [freezer EXCEPT ![f] = z]
              /\ z.pc = "write" /\ z.of = c /\ z.end = freezer[f].end
              /\ z.log = Leaderboard(f, freezer[f].end)
        BY <1>14, ComputeSet
    <2>2. /\ freezer'[f] = z /\ freezer[f] # Idle /\ freezer[f].end \in Nat
          /\ UNCHANGED <<now, challenge, todo, raced>>
        BY <1>14, <2>1, FreezerSet, FreezerHolds DEF Compute
    <2>3. z.log.by = f /\ z.log.upTo = Min({freezer[f].end, now})
        BY <2>1 DEF Leaderboard
    <2>4. ASSUME NEW d \in Challenges \ raced', f = "cron", Freezes("cron", d)' PROVE CronKnows(d)'
        <3>1. d = c
            BY <2>1, <2>2, <2>4 DEF Freezes
        <3>2. challenge[d].end < now /\ freezer[f].end = challenge[d].end
            BY <1>1, <1>14, <2>2, <2>4, <3>1 DEF CronKnows, Freezes, Compute
        <3>3. z.log.upTo = challenge[d].end
            BY <1>0, <2>2, <2>3, <3>2, MinIs
        <3> QED BY <2>1, <2>2, <2>4, <3>2, <3>3 DEF CronKnows
    <2> QED BY <1>9, <2>1, <2>2, <2>3, <2>4
<1>15. ASSUME NEW f \in Freezers, WriteFrozen(f) PROVE Holds
    <2> DEFINE c == freezer[f].of
    <2>1. /\ freezer[f] # Idle /\ c \in Challenges /\ freezer[f].pc = "write"
          /\ freezer' = [freezer EXCEPT ![f] = Idle] /\ UNCHANGED <<now, todo, raced>>
        BY <1>15, FreezerHolds DEF WriteFrozen
    <2>2. freezer'[f] = Idle /\ \A g \in Freezers \ {f} : freezer'[g] = freezer[g]
        BY <2>1, FreezerSet
    <2>3. /\ challenge'[c].end = challenge[c].end /\ challenge'[c].log = freezer[f].log
          /\ \A d \in Challenges \ {c} : challenge'[d] = challenge[d]
        <3>1. challenge[c] \in ChallengeRow
            BY <2>1, Rows
        <3>2. challenge' = [challenge EXCEPT ![c] =
                               [challenge[c] EXCEPT !.status = "FROZEN", !.log = freezer[f].log]]
            BY <1>15 DEF WriteFrozen
        <3> QED BY <2>1, <3>1, <3>2 DEF TypeOK, ChallengeRow
    <2>4. Signed'
        BY <2>2 DEF WindowInv, Signed, Idle
    <2>5. freezer[f].log.by = f
        BY <2>1 DEF WindowInv, Signed
    <2>6. ASSUME NEW d \in Challenges \ raced PROVE CronKnows(d)' /\ Covered(d)'
        <3>1. CASE d # c
            <4>1. Freezes("cron", d)' => freezer'["cron"] = freezer["cron"]
                BY <1>0, <2>2 DEF Freezes
            <4> QED BY <1>0, <1>1, <2>1, <2>3, <2>6, <3>1, <4>1, LeftAlone
        <3>2. CASE d = c
            <4>1. CronKnows(d)'
                BY <1>0, <1>1, <2>1, <2>2, <2>3, <2>6, <3>2 DEF CronKnows, Freezes
            <4>2. f = "cron" => freezer[f].log.upTo = challenge[c].end
                BY <1>1, <2>1, <2>6, <3>2 DEF CronKnows, Freezes
            <4>3. Covered(d)'
                BY <2>3, <2>5, <3>2, <4>2 DEF Covered
            <4> QED BY <4>1, <4>3
        <3> QED BY <3>1, <3>2
    <2> QED BY <2>1, <2>4, <2>6
<1>16. CASE FreezeFails
    <2>1. PICK f \in Freezers : freezer' = [freezer EXCEPT ![f] = Idle] /\ todo' \subseteq todo
        BY <1>0, <1>16 DEF FreezeFails
    <2>2. freezer'[f] = Idle
        BY <2>1, FreezerSet
    <2>3. Idle.pc # "write"
        BY DEF Idle
    <2>4. \A c \in Challenges : f = "cron" => ~Freezes("cron", c)'
        BY <2>2 DEF Freezes
    <2> QED BY <1>9, <1>16, <2>1, <2>3, <2>4 DEF FreezeFails
<1>17. ASSUME NEW c \in Challenges, NEW end \in 1 .. MaxTime, EditChallenge(c, end) PROVE Holds
    <2>1. /\ \A d \in Challenges \ {c} : challenge'[d] = challenge[d]
          /\ Frozen(c)' <=> Frozen(c)
        <3>1. challenge[c] \in ChallengeRow
            BY Rows
        <3>2. challenge' = [challenge EXCEPT ![c] = [challenge[c] EXCEPT !.end = end]]
            BY <1>17 DEF EditChallenge
        <3> QED BY <3>1, <3>2 DEF TypeOK, ChallengeRow, Frozen
    <2>2. Signed' /\ raced \subseteq raced' /\ UNCHANGED <<now, freezer, todo>>
        BY <1>17 DEF WindowInv, Signed, EditChallenge
    <2>3. ASSUME NEW d \in Challenges \ raced' PROVE CronKnows(d)' /\ Covered(d)'
        <3>1. CASE d # c
            BY <1>0, <1>1, <2>1, <2>2, <2>3, <3>1, LeftAlone
        <3>2. CASE d = c
            <4>1. ~Frozen(c) /\ ~UnderWay(c)
                BY <1>17, <2>3, <3>2 DEF EditChallenge
            <4>2. ~Frozen(c)' /\ c \notin todo' /\ ~Freezes("cron", c)'
                BY <1>0, <2>1, <2>2, <4>1 DEF UnderWay, Freezes
            <4> QED BY <3>2, <4>2 DEF CronKnows, Covered
        <3> QED BY <3>1, <3>2
    <2> QED BY <2>2, <2>3
<1>18. CASE ChallengeNext
    BY <1>0, <1>7, <1>8, <1>11, <1>12, <1>13, <1>14, <1>15, <1>16, <1>17, <1>18
       DEF ChallengeNext, Cron, Freeze
<1> QED BY <1>4, <1>5, <1>6, <1>18 DEF Next

\* WindowIsCovered: the leaderboard that freezeExpiredChallenges stores covers
\* the window of the challenge to its end, for any number of challenges and
\* of runs of the cron that fail half way, unless an administrator moves the
\* end of a challenge that is being frozen or has been.
THEOREM WindowsAreCovered == Spec => []WindowIsCovered
<1>1. Init => WindowInv
    BY DEF Init, WindowInv, Signed, CronKnows, WindowIsCovered, Freezes, Frozen, Idle, Freezers
<1>2. TypeOK /\ WindowInv /\ [Next]_vars => WindowInv'
    BY WindowStep
<1>3. WindowInv => WindowIsCovered
    BY DEF WindowInv
<1> QED BY <1>1, <1>2, <1>3, TypeCorrect, PTL DEF Spec
=============================================================================
