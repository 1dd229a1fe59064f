---------------------------- MODULE CommissionRun ---------------------------
(***************************************************************************)
(* Who earns the commissions of a payment: the upline walk, the frozen     *)
(* qualifications and the compression of processPaymentCommissions in      *)
(* src/src/modules/commission/commission.service.ts, with the snapshots of *)
(* src/src/modules/commission/qualification.service.ts, while sponsors     *)
(* move (ReferralTree), subscriptions start and end, and administrators    *)
(* activate another compensation plan.                                     *)
(*                                                                         *)
(* Several payments are processed at the same time and all of them fall in *)
(* one billing period.  What is done with the rows once they are inserted  *)
(* is in PayoutLedger, how plans replace one another in Programs.          *)
(***************************************************************************)
EXTENDS ReferralTree, Naturals, FiniteSetsExt, SequencesExt

CONSTANTS
    Trees,         \* the sponsorship links the period may begin with
    Payments,      \* payments of the period
    PayerOf,       \* payment -> the user who pays
    Plans,         \* compensation plans
    MinDirects,    \* plan -> level -> CommissionPlanLevel.minActiveDirects
    Freezers,      \* runs of the cron, and agents who look at their qualification
    MaxUplineWalk, \* MAX_UPLINE_WALK
    MaxChanges     \* subscriptions that start or end, plans that are activated:
                   \* the bound on them

ASSUME RunAssumption ==
    /\ Trees \subseteq [Users -> Users \cup {None}]
    /\ PayerOf \in [Payments -> Users]
    /\ None \notin Plans /\ DOMAIN MinDirects = Plans
    /\ \A p \in Plans : /\ DOMAIN MinDirects[p] \subseteq Nat \ {0}
                        /\ MinDirects[p] \in [DOMAIN MinDirects[p] -> Nat]
    /\ MaxUplineWalk \in Nat /\ IsFiniteSet(Users)

VARIABLES
    paying,   \* users with an ACTIVE or TRIALING subscription
    plan,     \* the active CommissionPlan
    changes,  \* subscriptions and plans that changed so far
    snapshot, \* QualificationSnapshot rows of the period
    freezer,  \* what each getOrCreateSnapshot outside of a payment has read
    run       \* what each payment's handler has computed

runVars == <<paying, plan, changes, snapshot, freezer, run>>
vars == <<treeVars, runVars>>

Levels(p) == IF p = None THEN {} ELSE DOMAIN MinDirects[p]
AllLevels == UNION {Levels(p) : p \in Plans}

\* The thresholds of levels 2 and 3, with the defaults of a plan without them.
Threshold(p, l) ==
    IF l \in Levels(p) THEN MinDirects[p][l] ELSE IF l = 2 THEN 3 ELSE 5

Flags == {2, 3}
Row == [count : Nat, unlocked : SUBSET Flags]
Rows == Row \cup {None}   \* None: no snapshot yet

\* qualifiesLevel2 and qualifiesLevel3 are frozen with the count.
Freeze(count, p) == [count |-> count, unlocked |-> {l \in Flags : count >= Threshold(p, l)}]

RunPCs == {"new", "walk", "level", "find", "count", "create", "done"}
RunType == [pc     : RunPCs,
            plan   : Plans \cup {None},                \* the plan as it was read
            chain  : Seq(Users),                       \* chain[1] is the sponsor
            level  : Nat,                              \* the level being assigned
            index  : Nat,                              \* the candidate in the chain
            count  : Nat,                              \* the count to be frozen
            cache  : [Users -> Rows],                  \* snapshotCache
            earner : [AllLevels -> Users \cup {None}]] \* commissions pushed
NewRun == [pc |-> "new", plan |-> None, chain |-> <<>>, level |-> 0, index |-> 0, count |-> 0,
           cache |-> [u \in Users |-> None], earner |-> [l \in AllLevels |-> None]]

FreezerType == [pc : {"idle", "count", "create"}, plan : Plans \cup {None},
                user : Users \cup {None}, count : Nat]
Resting == [pc |-> "idle", plan |-> None, user |-> None, count |-> 0]

TypeOK ==
    /\ TreeTypeOK
    /\ paying \subseteq Users /\ plan \in Plans \cup {None} /\ changes \in Nat
    /\ snapshot \in [Users -> Rows] /\ freezer \in [Freezers -> FreezerType]
    /\ run \in [Payments -> RunType]

Init ==
    /\ sponsor \in Trees /\ mover = [m \in Movers |-> Idle]
    /\ paying \in SUBSET Users /\ plan \in Plans \cup {None} /\ changes = 0
    /\ snapshot = [u \in Users |-> None] /\ freezer = [f \in Freezers |-> Resting]
    /\ run = [p \in Payments |-> NewRun]

-----------------------------------------------------------------------------
(* Subscriptions, plans and the snapshots that are frozen beside payments *)

\* A subscription of the user becomes active, or is no longer.
ChangeSubscription(u) ==
    /\ changes < MaxChanges
    /\ changes' = changes + 1
    /\ paying' = IF u \in paying THEN paying \ {u} ELSE paying \cup {u}
    /\ UNCHANGED <<treeVars, plan, snapshot, freezer, run>>

\* upsertPlan: the plan replaces the one that was active.
ActivatePlan(p) ==
    /\ changes < MaxChanges /\ p # plan
    /\ changes' = changes + 1
    /\ plan' = p
    /\ UNCHANGED <<treeVars, paying, snapshot, freezer, run>>

\* A request that moves a sponsor, query by query.
ChangeTree(m) ==
    /\ TreeStep(m)
    /\ IF mover[m] = Idle THEN changes < MaxChanges /\ changes' = changes + 1 ELSE UNCHANGED changes
    /\ UNCHANGED <<paying, plan, snapshot, freezer, run>>

ActiveDirects(u) == Cardinality({d \in paying : sponsor[d] = u})

\* The thresholds are read, and a user without a snapshot is found: one after
\* the other by the monthly cron, the agent by the page of the agent.
BeginFreezing(f) ==
    /\ freezer[f].pc = "idle"
    /\ \E u \in Users :
        /\ snapshot[u] = None
        /\ freezer' = [freezer EXCEPT ![f].pc = "count", ![f].plan = plan, ![f].user = u]
    /\ UNCHANGED <<treeVars, paying, plan, changes, snapshot, run>>

FreezerCounts(f) ==
    /\ freezer[f].pc = "count"
    /\ freezer' = [freezer EXCEPT ![f].pc = "create", ![f].count = ActiveDirects(freezer[f].user)]
    /\ UNCHANGED <<treeVars, paying, plan, changes, snapshot, run>>

\* A row that came first stays.  The cron goes on with the thresholds it has.
FreezerCreates(f) ==
    /\ freezer[f].pc = "create"
    /\ LET r == freezer[f] IN
       snapshot' = IF snapshot[r.user] = None
                   THEN [snapshot EXCEPT ![r.user] = Freeze(r.count, r.plan)] ELSE snapshot
    /\ \/ freezer' = [freezer EXCEPT ![f] = Resting]
       \/ \E u \in Users :
             /\ snapshot'[u] = None
             /\ freezer' = [freezer EXCEPT ![f].pc = "count", ![f].user = u, ![f].count = 0]
    /\ UNCHANGED <<treeVars, paying, plan, changes, run>>

-----------------------------------------------------------------------------
(* The upline walk *)

\* The active plan is read; without one, or without levels, nobody earns.
Begin(p) ==
    /\ run[p].pc = "new"
    /\ run' = [run EXCEPT ![p] =
           [@ EXCEPT !.pc = IF Levels(plan) = {} THEN "done" ELSE "walk", !.plan = plan]]
    /\ UNCHANGED <<treeVars, paying, plan, changes, snapshot, freezer>>

Current(p) == IF run[p].chain = <<>> THEN PayerOf[p] ELSE Last(run[p].chain)

\* visited, with the NULL that ends the walk too.
Visited(p) == {None, PayerOf[p]} \cup ToSet(run[p].chain)

\* Mutant: the level that was just assigned comes again.
LevelSame(p, l) ==
    LET left == {k \in Levels(p) : k >= l} IN IF left = {} THEN 0 ELSE Min(left)

\* The levels of the plan in ascending order; 0 when none is left.
LevelAfter(p, l) ==
    LET left == {k \in Levels(p) : k > l} IN IF left = {} THEN 0 ELSE Min(left)

\* The run with level l as its next one, beginning with the natural
\* beneficiary; it is over when no level or no upline is left.
AtLevel(r, l) ==
    IF l = 0 \/ l > Len(r.chain)
    THEN [r EXCEPT !.pc = "done", !.level = 0, !.index = 0, !.cache = NewRun.cache]
    ELSE [r EXCEPT !.pc = "level", !.level = l, !.index = l]

\* One query of the walk.
ClimbOne(p) ==
    /\ run[p].pc = "walk"
    /\ LET r == run[p]  a == sponsor[Current(p)] IN
       run' = [run EXCEPT ![p] =
           IF Len(r.chain) < MaxUplineWalk /\ a \notin Visited(p)
           THEN [r EXCEPT !.chain = Append(r.chain, a)]
           ELSE AtLevel(r, LevelAfter(r.plan, 0))]
    /\ UNCHANGED <<treeVars, paying, plan, changes, snapshot, freezer>>

-----------------------------------------------------------------------------
(* qualifiesFor and getOrCreateSnapshot *)

Candidate(r) == r.chain[r.index]
Asked(r) == MinDirects[r.plan][r.level]
Known(r) == Asked(r) = 0 \/ r.cache[Candidate(r)] # None

\* The candidate's snapshot is looked for unless it is cached or not needed.
LookUp(p) ==
    /\ run[p].pc = "level" /\ ~Known(run[p])
    /\ LET u == Candidate(run[p]) IN
       run' = [run EXCEPT ![p] =
           IF snapshot[u] # None
           THEN [@ EXCEPT !.cache[u] = snapshot[u]]
           ELSE [@ EXCEPT !.pc = "count"]]
    /\ UNCHANGED <<treeVars, paying, plan, changes, snapshot, freezer>>

CountDirects(p) ==
    /\ run[p].pc = "count"
    /\ run' = [run EXCEPT ![p].pc = "create", ![p].count = ActiveDirects(Candidate(run[p]))]
    /\ UNCHANGED <<treeVars, paying, plan, changes, snapshot, freezer>>

\* Mutant: the loser of the race goes on with its own row.
OwnRow(p) == Freeze(run[p].count, run[p].plan)

\* The frozen row wins over the row of a run that lost the race.
FrozenRow(p) ==
    LET u == Candidate(run[p]) IN
    IF snapshot[u] = None THEN Freeze(run[p].count, run[p].plan) ELSE snapshot[u]

\* The insertion fails on the unique key when another one came first; the row
\* is read again.
CreateSnapshot(p) ==
    /\ run[p].pc = "create"
    /\ LET u == Candidate(run[p]) IN
       /\ snapshot' = IF snapshot[u] = None
                      THEN [snapshot EXCEPT ![u] = Freeze(run[p].count, run[p].plan)] ELSE snapshot
       /\ run' = [run EXCEPT ![p].pc = "level", ![p].count = 0, ![p].cache[u] = FrozenRow(p)]
    /\ UNCHANGED <<treeVars, paying, plan, changes, freezer>>

\* What a row says of a level: levels 2 and 3 by the flags that were frozen
\* with the plan of that moment, every other level by the count.
Unlocks(row, l, min) == IF l \in Flags THEN l \in row.unlocked ELSE row.count >= min

Qualified(r) == Asked(r) = 0 \/ Unlocks(r.cache[Candidate(r)], r.level, Asked(r))

-----------------------------------------------------------------------------
(* Assignment and compression *)

\* The candidate earns the level, or the search moves up; past the root the
\* level is dropped.
Assign(p) ==
    /\ run[p].pc = "level" /\ Known(run[p])
    /\ LET r == run[p] IN
       run' = [run EXCEPT ![p] =
           IF Qualified(r)
           THEN AtLevel([r EXCEPT !.earner[r.level] = Candidate(r)], LevelAfter(r.plan, r.level))
           ELSE IF r.index + 1 <= Len(r.chain)
                THEN [r EXCEPT !.index = r.index + 1]
                ELSE AtLevel(r, LevelAfter(r.plan, r.level))]
    /\ UNCHANGED <<treeVars, paying, plan, changes, snapshot, freezer>>

RunStep(p) ==
    \/ Begin(p) \/ ClimbOne(p) \/ LookUp(p) \/ CountDirects(p)
    \/ CreateSnapshot(p) \/ Assign(p)

Next ==
    \/ \E m \in Movers : ChangeTree(m)
    \/ \E u \in Users : ChangeSubscription(u)
    \/ \E p \in Plans : ActivatePlan(p)
    \/ \E f \in Freezers : BeginFreezing(f) \/ FreezerCounts(f) \/ FreezerCreates(f)
    \/ \E p \in Payments : RunStep(p)

Spec == Init /\ [][Next]_vars

\* A webhook handler runs on until it answers.
FairSpec == Spec /\ \A p \in Payments : WF_vars(run[p].pc # "new" /\ RunStep(p))

-----------------------------------------------------------------------------
(* Properties *)

\* Nobody earns from their own payment and nobody stands twice in an upline,
\* even when moves under way close a cycle while the walk climbs it.
UplineIsSimple ==
    \A p \in Payments : LET chain == run[p].chain IN
        \A i \in DOMAIN chain : chain[i] # PayerOf[p] /\ \A j \in DOMAIN chain : chain[i] = chain[j] => i = j

\* A threshold of zero asks for nothing; the flags of levels 2 and 3 are those
\* that were frozen, whatever plan has come since; the rest goes by the count.
FrozenQualified(p, u, l) ==
    \/ MinDirects[p][l] = 0
    \/ snapshot[u] # None /\ l \in Flags /\ l \in snapshot[u].unlocked
    \/ snapshot[u] # None /\ l \notin Flags /\ snapshot[u].count >= MinDirects[p][l]

\* Reference: the nearest ancestor at or above the level whose frozen row
\* qualifies; nobody when there is none.
NearestQualified(p, chain, l) ==
    LET able == {i \in l .. Len(chain) : FrozenQualified(p, chain[i], l)} IN
    IF able = {} THEN None ELSE chain[Min(able)]

\* "Skip exactly the unqualified nodes, stop at the first sponsor above": a
\* finished run agrees with the reference, and goes on agreeing whatever the
\* other runs freeze, and subscriptions and plans change, afterwards.  "The
\* frozen row wins", so two runs of the period that read the same plan and
\* climb the same upline agree too.
CompressesToNearest ==
    \A p \in Payments : run[p].pc = "done" =>
        \A l \in AllLevels : run[p].earner[l] =
            IF l \in Levels(run[p].plan) THEN NearestQualified(run[p].plan, run[p].chain, l) ELSE None

\* A run ends although the links above it may form a cycle or keep moving.
RunEnds == \A p \in Payments : run[p].pc # "new" ~> run[p].pc = "done"
=============================================================================
