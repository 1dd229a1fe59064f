------------------------------ MODULE Programs ------------------------------
(***************************************************************************)
(* The programs an administrator runs: challenges, which a cron or an      *)
(* administrator freezes, travel promos, whose progress the dashboard      *)
(* advances when a collaborator looks at it (src/src/modules/challenge/    *)
(* challenge.service.ts, src/src/cron/network.cron.ts), and the            *)
(* compensation plan in force (upsertPlan of src/src/modules/commission/   *)
(* commission.service.ts).                                                 *)
(*                                                                         *)
(* The three share no rows, so two of them interleaved show nothing that   *)
(* one of them alone does not: a behaviour is about one program.           *)
(***************************************************************************)
EXTENDS Naturals, FiniteSetsExt

CONSTANTS
    Challenges,  \* the challenges that are open
    Plans,       \* plans that are configured, in any order
    Admins,      \* administrators who configure plans at the same time
    Readers,     \* dashboards of one collaborator
    Top,         \* the largest value of a promo's metric and threshold
    MaxTime,     \* the last day
    MaxEdits,    \* what administrators change
    MaxFailures  \* awaits that fail, crashes

ASSUME ProgramsAssumption ==
    /\ Top \in Nat \ {0} /\ MaxTime \in Nat /\ MaxEdits \in Nat /\ MaxFailures \in Nat

VARIABLES
    about,     \* the program this behaviour is about
    now,       \* the day
    challenge, \* Challenge rows
    freezer,   \* freezeChallenge, for the cron and for an administrator
    todo,      \* the expired challenges the cron has listed
    promo,     \* the threshold of the promo and the collaborator's progress
    metric,    \* what computePromoMetric would return
    reader,    \* getPromosForAgent, for each dashboard
    plan,      \* CommissionPlan.isActive, of the plans that exist
    txn,       \* the transaction of upsertPlan, for each administrator
    raced,     \* history: challenges and promos on which activities overlapped
    edits,     \* changes by administrators so far
    failures   \* failures so far

challengeVars == <<now, challenge, freezer, todo>>
promoVars == <<promo, metric, reader>>
planVars == <<plan, txn>>
vars == <<about, challengeVars, promoVars, planVars, raced, edits, failures>>

-----------------------------------------------------------------------------
(* State *)

Freezers == {"cron", "admin"}
Log == [upTo : Nat, at : Nat, by : Freezers \cup {"nobody"}]
NoLog == [upTo |-> 0, at |-> 0, by |-> "nobody"]
ChallengeRow == [status : {"ACTIVE", "FROZEN"}, end : Nat, log : Log]
Freezing == [pc : {"read", "compute", "write"}, of : Challenges, end : Nat, log : Log]
Idle == [pc |-> "idle"]

\* "none": there is no TravelPromoProgress row.
Progress == {"none", "NOT_REACHED", "REACHED", "CONFIRMED", "REDEEMED"}
Promo == [threshold : 1 .. Top, progress : Progress]
Reading == [pc : {"metric", "write"}, read : Promo]

Txn == [pc : {"idle", "update", "lock", "create"}, activate : BOOLEAN,
        seen : SUBSET Plans, held : SUBSET Plans]
NoTxn == [pc |-> "idle", activate |-> FALSE, seen |-> {}, held |-> {}]

TypeOK ==
    /\ about \in {"challenges", "promo", "plan"} /\ now \in Nat
    /\ challenge \in [Challenges -> ChallengeRow]
    /\ freezer \in [Freezers -> Freezing \cup {Idle}] /\ todo \subseteq Challenges
    /\ promo \in Promo /\ metric \in 0 .. Top
    /\ reader \in [Readers -> Reading \cup {Idle}]
    /\ plan \in [Plans -> {"none", "inactive", "active"}]
    /\ txn \in [Admins -> Txn]
    /\ raced \subseteq Challenges \cup {"promo"}
    /\ edits \in Nat /\ failures \in Nat

Init ==
    /\ about \in {"challenges", "promo", "plan"}
    /\ now = 0
    /\ challenge = [c \in Challenges |-> [status |-> "ACTIVE", end |-> 1, log |-> NoLog]]
    /\ freezer = [f \in Freezers |-> Idle] /\ todo = {}
    /\ promo = [threshold |-> 1, progress |-> "none"] /\ metric = 0
    /\ reader = [r \in Readers |-> Idle]
    /\ plan = [p \in Plans |-> "none"] /\ txn = [a \in Admins |-> NoTxn]
    /\ raced = {} /\ edits = 0 /\ failures = 0

Edit == edits < MaxEdits /\ edits' = edits + 1
Fail == failures < MaxFailures /\ failures' = failures + 1

-----------------------------------------------------------------------------
(* Challenges *)

OnChallenges == about = "challenges" /\ UNCHANGED <<about, promoVars, planVars>>

Tick ==
    /\ OnChallenges /\ now < MaxTime
    /\ now' = now + 1
    /\ UNCHANGED <<challenge, freezer, todo, raced, edits, failures>>

Frozen(c) == challenge[c].status = "FROZEN"
Expired(c) == ~Frozen(c) /\ challenge[c].end < now
Freezes(f, c) == freezer[f] # Idle /\ freezer[f].of = c
UnderWay(c) == c \in todo \/ \E f \in Freezers : Freezes(f, c)

Begin(f, c) == freezer' = [freezer EXCEPT ![f] = [pc |-> "read", of |-> c, end |-> 0, log |-> NoLog]]

\* Mutant: every open challenge is listed.
EveryOpen == {c \in Challenges : ~Frozen(c)}

\* Mutant: only those that expired the day before are listed.
JustExpired == {c \in Challenges : ~Frozen(c) /\ challenge[c].end + 1 = now}

Listed == {c \in Challenges : Expired(c)}

\* freezeExpiredChallenges lists what has expired ...
CronLists ==
    /\ OnChallenges /\ todo = {} /\ freezer["cron"] = Idle /\ Listed # {}
    /\ todo' = Listed
    /\ UNCHANGED <<now, challenge, freezer, raced, edits, failures>>

\* ... and freezes one after the other.
CronTakes ==
    /\ OnChallenges /\ freezer["cron"] = Idle
    /\ \E c \in todo :
        /\ Begin("cron", c)
        /\ todo' = todo \ {c}
        /\ raced' = IF \E f \in Freezers : Freezes(f, c) THEN raced \cup {c} ELSE raced
    /\ UNCHANGED <<now, challenge, edits, failures>>

\* An administrator closes a challenge, at its end or before.
AdminCloses(c) ==
    /\ OnChallenges /\ freezer["admin"] = Idle /\ Edit
    /\ Begin("admin", c)
    /\ raced' = IF \E f \in Freezers : Freezes(f, c) THEN raced \cup {c} ELSE raced
    /\ UNCHANGED <<now, challenge, todo, failures>>

AlreadyClosed(row) == row.status = "FROZEN"

ReadChallenge(f) ==
    /\ OnChallenges /\ freezer[f].pc = "read"
    /\ LET row == challenge[freezer[f].of] IN
       freezer' = [freezer EXCEPT ![f] =
           IF AlreadyClosed(row) THEN Idle ELSE [@ EXCEPT !.pc = "compute", !.end = row.end]]
    /\ UNCHANGED <<now, challenge, todo, raced, edits, failures>>

\* computeLeaderboard: over the window that has passed, with the
\* subscriptions and commissions of the day.
Leaderboard(f, end) == [upTo |-> Min({end, now}), at |-> now, by |-> f]

Compute(f) ==
    /\ OnChallenges /\ freezer[f].pc = "compute"
    /\ freezer' = [freezer EXCEPT ![f].pc = "write", ![f].log = Leaderboard(f, freezer[f].end)]
    /\ UNCHANGED <<now, challenge, todo, raced, edits, failures>>

WriteFrozen(f) ==
    /\ OnChallenges /\ freezer[f].pc = "write"
    /\ challenge' = [challenge EXCEPT ![freezer[f].of] =
           [@ EXCEPT !.status = "FROZEN", !.log = freezer[f].log]]
    /\ freezer' = [freezer EXCEPT ![f] = Idle]
    /\ UNCHANGED <<now, todo, raced, edits, failures>>

\* An await fails: the cron leaves the rest for its next run.
FreezeFails ==
    /\ OnChallenges /\ Fail
    /\ \/ freezer["cron"] # Idle /\ freezer' = [freezer EXCEPT !["cron"] = Idle] /\ todo' = {}
       \/ freezer["admin"] # Idle /\ freezer' = [freezer EXCEPT !["admin"] = Idle] /\ UNCHANGED todo
    /\ UNCHANGED <<now, challenge, raced, edits>>

\* adminUpsertChallenge moves the end, of a challenge in whatever state.
EditChallenge(c, end) ==
    /\ OnChallenges /\ Edit
    /\ challenge' = [challenge EXCEPT ![c].end = end]
    /\ raced' = IF Frozen(c) \/ UnderWay(c) THEN raced \cup {c} ELSE raced
    /\ UNCHANGED <<now, freezer, todo, failures>>

-----------------------------------------------------------------------------
(* Travel promos *)

OnPromo == about = "promo" /\ UNCHANGED <<about, challengeVars, planVars>>

\* Directs come and go, commissions are earned and reversed.
MetricMoves(value) ==
    /\ OnPromo
    /\ value # metric /\ metric' = value
    /\ UNCHANGED <<promo, reader, raced, edits, failures>>

\* getPromosForAgent reads the promo with the progress ...
ReadPromo(r) ==
    /\ OnPromo /\ reader[r] = Idle
    /\ reader' = [reader EXCEPT ![r] = [pc |-> "metric", read |-> promo]]
    /\ UNCHANGED <<promo, metric, raced, edits, failures>>

\* Mutant: the progress that was read is not looked at.
AnyProgress(read) == TRUE

NotYetReached(read) == read.progress \in {"none", "NOT_REACHED"}

\* ... awaits the metric ...
ReadMetric(r) ==
    /\ OnPromo /\ reader[r].pc = "metric"
    /\ LET read == reader[r].read IN
       reader' = [reader EXCEPT ![r] =
           IF metric >= read.threshold /\ NotYetReached(read) THEN [@ EXCEPT !.pc = "write"] ELSE Idle]
    /\ UNCHANGED <<promo, metric, raced, edits, failures>>

\* ... and stores REACHED by what it read.
WriteReached(r) ==
    /\ OnPromo /\ reader[r].pc = "write"
    /\ promo' = [promo EXCEPT !.progress = "REACHED"]
    /\ reader' = [reader EXCEPT ![r] = Idle]
    /\ UNCHANGED <<metric, raced, edits, failures>>

\* adminSetPromoProgress and adminUpsertPromo
AdminWrites(row) ==
    /\ OnPromo /\ Edit
    /\ promo' = row
    /\ raced' = IF \E r \in Readers : reader[r] # Idle THEN raced \cup {"promo"} ELSE raced
    /\ UNCHANGED <<metric, reader, failures>>

SetPromoProgress(status) == AdminWrites([promo EXCEPT !.progress = status])
EditPromo(threshold) == AdminWrites([promo EXCEPT !.threshold = threshold])

ReadFails(r) ==
    /\ OnPromo /\ reader[r] # Idle /\ Fail
    /\ reader' = [reader EXCEPT ![r] = Idle]
    /\ UNCHANGED <<promo, metric, raced, edits>>

-----------------------------------------------------------------------------
(* The compensation plan *)

OnPlan == about = "plan" /\ UNCHANGED <<about, challengeVars, promoVars, raced, edits>>

Activated == {p \in Plans : plan[p] = "active"}
Unused == {p \in Plans : plan[p] = "none"}
Goto(a, pc) == txn' = [txn EXCEPT ![a].pc = pc]

\* upsertPlan opens its transaction.
BeginPlan(a) ==
    /\ OnPlan /\ txn[a] = NoTxn
    /\ Cardinality(Unused) > Cardinality({b \in Admins : txn[b] # NoTxn})
    /\ \E activate \in BOOLEAN :
        txn' = [txn EXCEPT ![a] = [pc |-> IF activate THEN "update" ELSE "create",
                                   activate |-> activate, seen |-> {}, held |-> {}]]
    /\ UNCHANGED <<plan, failures>>

\* updateMany sees the plans that are active when it starts ...
StartUpdate(a) ==
    /\ OnPlan /\ txn[a].pc = "update"
    /\ txn' = [txn EXCEPT ![a].pc = "lock", ![a].seen = Activated]
    /\ UNCHANGED <<plan, failures>>

\* ... waits for the rows another transaction has written, and looks at its
\* condition again (READ COMMITTED).
LockActive(a) ==
    /\ OnPlan /\ txn[a].pc = "lock"
    /\ \A b \in Admins \ {a} : txn[b].held \cap txn[a].seen = {}
    /\ txn' = [txn EXCEPT ![a].pc = "create", ![a].held = txn[a].seen \cap Activated]
    /\ UNCHANGED <<plan, failures>>

\* Mutant: the other plans are left active.
NoneReplaced(a) == {}

Replaced(a) == txn[a].held

\* The plan is created and the transaction commits.
CommitPlan(a) ==
    /\ OnPlan /\ txn[a].pc = "create"
    /\ \E new \in Unused :
        plan' = [p \in Plans |->
            IF p = new THEN IF txn[a].activate THEN "active" ELSE "inactive"
            ELSE IF p \in Replaced(a) THEN "inactive" ELSE plan[p]]
    /\ txn' = [txn EXCEPT ![a] = NoTxn]
    /\ UNCHANGED failures

\* A transaction that fails leaves the plans as they were.
AbortPlan(a) ==
    /\ OnPlan /\ txn[a] # NoTxn /\ Fail
    /\ txn' = [txn EXCEPT ![a] = NoTxn]
    /\ UNCHANGED plan

-----------------------------------------------------------------------------
(* The specification *)

Freeze(f) == ReadChallenge(f) \/ Compute(f) \/ WriteFrozen(f)
Cron == CronLists \/ CronTakes \/ Freeze("cron")

ChallengeNext ==
    \/ Tick \/ Cron \/ Freeze("admin") \/ FreezeFails
    \/ \E c \in Challenges : AdminCloses(c) \/ \E end \in 1 .. MaxTime : EditChallenge(c, end)

PromoNext ==
    \/ \E value \in 0 .. Top : MetricMoves(value)
    \/ \E r \in Readers : ReadPromo(r) \/ ReadMetric(r) \/ WriteReached(r) \/ ReadFails(r)
    \/ \E status \in Progress \ {"none"} : SetPromoProgress(status)
    \/ \E threshold \in 1 .. Top : EditPromo(threshold)

PlanNext ==
    \E a \in Admins : BeginPlan(a) \/ StartUpdate(a) \/ LockActive(a) \/ CommitPlan(a) \/ AbortPlan(a)

Next == ChallengeNext \/ PromoNext \/ PlanNext

Spec == Init /\ [][Next]_vars

\* The cron fires every ten minutes and its awaits end.
FairSpec == Spec /\ WF_vars(Cron)

-----------------------------------------------------------------------------
(* Properties *)

\* "Freezes every expired ACTIVE challenge": whichever of them fails first,
\* none stays open for good, unless its end is moved.
ExpiredAreFrozen == \A c \in Challenges : Expired(c) ~> ~Expired(c)

\* "Leaderboard frozen at expiry": the log of the cron covers the window of
\* the challenge, to the end that is shown with it, unless an administrator
\* moves the end of a challenge that is being frozen or has been.
WindowIsCovered ==
    \A c \in Challenges \ raced :
        Frozen(c) /\ challenge[c].log.by = "cron" => challenge[c].log.upTo = challenge[c].end

\* "CONFIRMED/REDEEMED are admin-only transitions": no dashboard moves a
\* collaborator out of them, or back to NOT_REACHED, unless the administrator
\* writes while it reads.
AdminTransitionsStand ==
    [][promo'.progress # promo.progress /\ edits' = edits /\ "promo" \notin raced =>
         /\ promo.progress \in {"none", "NOT_REACHED"} /\ promo'.progress = "REACHED"]_vars

\* "Activating deactivates any other plan": the plans that were active when
\* an activation began its update are not when it has been committed, even
\* when others are activated at the same time.
OthersDeactivated ==
    [][\A a \in Admins : txn[a] # NoTxn /\ txn'[a] = NoTxn /\ failures' = failures =>
         \A p \in txn[a].seen : plan'[p] = "inactive"]_vars

\* Three statements of the comments taken at their word, which hold only when
\* nobody acts in between: "frozen at expiry with a winners log", "admin-only
\* transitions" and "Activating deactivates any other plan".
WinnersAreFinal == [][\A c \in Challenges : Frozen(c) => challenge'[c].log = challenge[c].log]_vars
AdminOnlyTransitions ==
    [][promo.progress \in {"CONFIRMED", "REDEEMED"} /\ promo'.progress # promo.progress => edits' # edits]_vars
OneActivePlan == Cardinality(Activated) <= 1
=============================================================================
