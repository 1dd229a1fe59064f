---------------------------- MODULE NetworkProofs ---------------------------
(***************************************************************************)
(* Proofs about the referral network, for any set of users.                *)
(*                                                                         *)
(* ReferralTree: the network stays a forest as long as the requests that   *)
(* set a sponsor do not overlap, whatever order the links are made in.     *)
(* CommissionRun: a finished run gave every level to the nearest ancestor  *)
(* whose frozen row unlocks it, whatever else ran beside it.               *)
(***************************************************************************)
EXTENDS CommissionRun, FiniteSetTheorems, TLAPS

\* One request at a time.
Sequential == \A a, b \in Movers : a = b

\* What a request knows while it walks: the users it met lead up to one
\* another or to its cursor, and the user it moves is not among them.
Walked(m) ==
    LET r == mover[m] IN
    /\ r.pc \in {"walk", "write"} => /\ r.user \in Users /\ r.to \in Users
                                     /\ r.user # r.to /\ r.user \notin r.visited
    /\ r.pc = "walk" => /\ r.to \in r.visited \/ (r.cursor = r.to /\ r.visited = {})
                        /\ \A w \in r.visited : sponsor[w] \in r.visited \cup {r.cursor, None}
    /\ r.pc = "write" => /\ r.to \in r.visited
                         /\ \A w \in r.visited : sponsor[w] \in r.visited \cup {None}

\* That a link may be written rests on the walk that came before it.
WalkInv == TreeTypeOK /\ \A m \in Movers : Walked(m)

LEMMA InitInv ==
    ASSUME TreeTypeOK, \A m \in Movers : mover[m] = Idle
    PROVE  WalkInv
BY DEF WalkInv, Walked, Idle

\* The step that matters: above the new sponsor there is a set of users that
\* leads nowhere but to a root and does not hold the moved user, so a rootless
\* set of the new network holds a rootless set of the old one.
LEMMA LinkClosesNoCycle ==
    ASSUME TreeTypeOK, NEW m \in Movers, Walked(m), SetSponsor(m),
           NEW S \in SUBSET Users, Rootless(S)'
    PROVE  \E T \in SUBSET S : Rootless(T)
<1> DEFINE u == mover[m].user
           s == mover[m].to
           V == mover[m].visited
<1>1. /\ u \in Users /\ s \in Users /\ s \in V /\ u \notin V
      /\ \A w \in V : sponsor[w] \in V \cup {None}
    BY DEF SetSponsor, Walked
<1>2. V \subseteq Users
    BY DEF TreeTypeOK, MoverType
<1>3. sponsor' = [sponsor EXCEPT ![u] = s]
    BY DEF SetSponsor
<1> HIDE DEF u, s, V
<1>4. sponsor'[u] = s /\ \A w \in Users : w # u => sponsor'[w] = sponsor[w]
    BY <1>1, <1>3 DEF TreeTypeOK
<1>5. S # {} /\ \A w \in S : sponsor'[w] \in S
    BY DEF Rootless
<1>6. CASE u \notin S
    <2>1. \A w \in S : sponsor[w] \in S
        BY <1>4, <1>5, <1>6
    <2> QED BY <1>5, <2>1 DEF Rootless
<1>7. CASE u \in S
    <2>1. s \in S \cap V
        BY <1>1, <1>4, <1>5, <1>7
    <2>2. \A w \in S \cap V : sponsor[w] \in S \cap V
        BY <1>1, <1>4, <1>5, TreeAssumption
    <2>3. S \cap V \in SUBSET S
        OBVIOUS
    <2> QED BY <2>1, <2>2, <2>3 DEF Rootless
<1> QED BY <1>6, <1>7

LEMMA StepInv ==
    ASSUME Sequential, WalkInv, [TreeNext]_treeVars
    PROVE  WalkInv'
<1> USE DEF WalkInv
<1>1. CASE UNCHANGED treeVars
    BY <1>1 DEF treeVars, TreeTypeOK, Walked
<1>2. CASE TreeNext
    <2>1. PICK m \in Movers : TreeStep(m)
        BY <1>2 DEF TreeNext
    <2>2. \A n \in Movers : n = m
        BY DEF Sequential
    <2>3. mover[m] \in MoverType /\ sponsor \in [Users -> Users \cup {None}]
        BY DEF TreeTypeOK
    <2> SUFFICES TreeTypeOK' /\ Walked(m)'
        BY <2>2
    <2>4. CASE Propose(m)
        <3>1. PICK user, to \in Users :
                 /\ user # to
                 /\ mover' = [mover EXCEPT ![m] =
                      [pc |-> "walk", user |-> user, to |-> to, cursor |-> to, visited |-> {}]]
            BY <2>4 DEF Propose, Allowed
        <3>2. mover'[m] = [pc |-> "walk", user |-> user, to |-> to, cursor |-> to, visited |-> {}]
            BY <3>1 DEF TreeTypeOK
        <3>3. sponsor' = sponsor
            BY <2>4 DEF Propose
        <3>4. TreeTypeOK'
            BY <3>1, <3>3 DEF TreeTypeOK, MoverType
        <3>5. Walked(m)'
            BY <3>1, <3>2 DEF Walked
        <3> QED BY <3>4, <3>5
    <2>5. CASE Refuse(m)
        <3>1. mover'[m] = Idle /\ sponsor' = sponsor
            BY <2>5 DEF Refuse, TreeTypeOK
        <3>2. TreeTypeOK'
            BY <2>5 DEF Refuse, TreeTypeOK, MoverType, Idle
        <3>3. Walked(m)'
            BY <3>1 DEF Walked, Idle
        <3> QED BY <3>2, <3>3
    <2>6. CASE WalkUp(m)
        <3> DEFINE r == mover[m]
        <3>1. r.cursor \in Users /\ r.cursor # r.user /\ r.pc = "walk"
            BY <2>3, <2>6 DEF WalkUp, WalkOver, Reached, MoverType
        <3>2. /\ mover' = [mover EXCEPT ![m] =
                    [r EXCEPT !.visited = r.visited \cup {r.cursor}, !.cursor = sponsor[r.cursor]]]
              /\ sponsor' = sponsor
            BY <2>6 DEF WalkUp
        <3>3. mover'[m] = [r EXCEPT !.visited = r.visited \cup {r.cursor}, !.cursor = sponsor[r.cursor]]
            BY <3>2 DEF TreeTypeOK
        <3>4. /\ mover'[m].pc = "walk" /\ mover'[m].user = r.user /\ mover'[m].to = r.to
              /\ mover'[m].visited = r.visited \cup {r.cursor}
              /\ mover'[m].cursor = sponsor[r.cursor]
              /\ mover'[m] \in MoverType
            <4> DEFINE seen == r.visited \cup {r.cursor}
                       up == sponsor[r.cursor]
                       left == [r EXCEPT !.visited = seen]
            <4>1. r = [pc |-> r.pc, user |-> r.user, to |-> r.to, cursor |-> r.cursor,
                       visited |-> r.visited]
                BY <2>3 DEF MoverType
            <4>2. left = [pc |-> r.pc, user |-> r.user, to |-> r.to, cursor |-> r.cursor,
                          visited |-> seen]
                BY ONLY <4>1
            <4>3. mover'[m] = [left EXCEPT !.cursor = up]
                BY <3>3
            <4> HIDE DEF left
            <4>4. mover'[m] = [pc |-> r.pc, user |-> r.user, to |-> r.to, cursor |-> up,
                               visited |-> seen]
                BY ONLY <4>2, <4>3
            <4>5. seen \in SUBSET Users /\ up \in Users \cup {None}
                BY <2>3, <3>1 DEF TreeTypeOK, MoverType
            <4>6. r.user \in Users \cup {None} /\ r.to \in Users \cup {None}
                BY <2>3 DEF MoverType
            <4> HIDE DEF seen, up
            <4>7. mover'[m] \in MoverType
                BY <4>4, <4>5, <4>6, <3>1 DEF MoverType
            <4> QED BY <4>4, <4>7, <3>1 DEF seen, up
        <3>5. TreeTypeOK'
            BY <3>2, <3>3, <3>4 DEF TreeTypeOK
        <3>6. Walked(m)'
            BY <3>1, <3>2, <3>4 DEF Walked
        <3> QED BY <3>5, <3>6
    <2>7. CASE EndWalk(m)
        <3> DEFINE r == mover[m]
        <3>1. r.pc = "walk" /\ (r.cursor = None \/ r.cursor \in r.visited)
            BY <2>7 DEF EndWalk, WalkOver
        <3>2. mover' = [mover EXCEPT ![m] = [r EXCEPT !.pc = "write"]] /\ sponsor' = sponsor
            BY <2>7 DEF EndWalk
        <3>3. mover'[m] = [r EXCEPT !.pc = "write"]
            BY <3>2 DEF TreeTypeOK
        <3>4. /\ mover'[m].pc = "write" /\ mover'[m].user = r.user /\ mover'[m].to = r.to
              /\ mover'[m].visited = r.visited /\ mover'[m] \in MoverType
            BY <2>3, <3>3 DEF MoverType
        <3>5. TreeTypeOK'
            BY <3>2, <3>3, <3>4 DEF TreeTypeOK
        <3>6. Walked(m)'
            BY <3>1, <3>2, <3>4, TreeAssumption DEF Walked
        <3> QED BY <3>5, <3>6
    <2>8. CASE SetSponsor(m)
        <3>2. mover[m].user \in Users /\ mover[m].to \in Users
            BY <2>8 DEF SetSponsor, Walked
        <3>3. TreeTypeOK'
            BY <2>8, <3>2 DEF SetSponsor, TreeTypeOK, MoverType, Idle
        <3>4. mover'[m] = Idle
            BY <2>8 DEF SetSponsor, TreeTypeOK
        <3>5. Walked(m)'
            BY <3>4 DEF Walked, Idle
        <3> QED BY <3>3, <3>5
    <2> QED BY <2>1, <2>4, <2>5, <2>6, <2>7, <2>8 DEF TreeStep
<1> QED BY <1>1, <1>2

LEMMA StepClosesNoCycle ==
    ASSUME WalkInv, [TreeNext]_treeVars, NEW S \in SUBSET Users, Rootless(S)'
    PROVE  \E T \in SUBSET S : Rootless(T)
<1>1. CASE UNCHANGED sponsor
    BY <1>1 DEF Rootless
<1>2. CASE \E m \in Movers : SetSponsor(m)
    BY <1>2, LinkClosesNoCycle DEF WalkInv
<1> QED BY <1>1, <1>2 DEF TreeNext, TreeStep, Propose, Refuse, WalkUp, EndWalk, treeVars

\* Whatever the network is like when the requests begin, one that has a cycle
\* included: when they do not overlap, none of them closes another cycle
\* (assertNoSponsorCycle).
THEOREM MovesCloseNoCycle ==
    ASSUME Sequential
    PROVE  TreeTypeOK /\ (\A m \in Movers : mover[m] = Idle) /\ [][TreeNext]_treeVars
               => NoNewCycle
<1>1. WalkInv /\ [TreeNext]_treeVars => WalkInv'
    BY StepInv
<1>2. WalkInv /\ [TreeNext]_treeVars =>
          [\A S \in SUBSET Users : Rootless(S)' => \E T \in SUBSET S : Rootless(T)]_sponsor
    BY StepClosesNoCycle
<1> QED BY InitInv, <1>1, <1>2, PTL DEF NoNewCycle

\* A network that begins without sponsors stays a forest: no sequence of
\* registrations and moves, one at a time, closes a cycle.
THEOREM NetworkIsForest ==
    ASSUME Sequential
    PROVE  TreeSpec => []Acyclic
<1>1. TreeInit => WalkInv /\ Acyclic
    <2> SUFFICES ASSUME TreeInit PROVE WalkInv /\ Acyclic
        OBVIOUS
    <2>1. TreeTypeOK /\ \A m \in Movers : mover[m] = Idle
        BY DEF TreeInit, TreeTypeOK, MoverType, Idle
    <2>2. Acyclic
        BY TreeAssumption DEF TreeInit, Acyclic, Rootless
    <2> QED BY <2>1, <2>2, InitInv
<1>2. WalkInv /\ [TreeNext]_treeVars => WalkInv'
    BY StepInv
<1>3. WalkInv /\ Acyclic /\ [TreeNext]_treeVars => Acyclic'
    BY StepClosesNoCycle DEF Acyclic
<1> QED BY <1>1, <1>2, <1>3, PTL DEF TreeSpec

-----------------------------------------------------------------------------
(* The least of a set of numbers *)

\* A set of natural numbers has a least element: the intervals below its
\* members are finite sets, which strict inclusion orders well.
LEMMA Least == ASSUME NEW S \in SUBSET Nat, S # {} PROVE \E m \in S : \A n \in S : m <= n
<1> DEFINE T == {0 .. n : n \in S}
<1>1. T \subseteq FiniteSubsetsOf(Nat) /\ T # {}
    <2>1. ASSUME NEW n \in S PROVE 0 .. n \in FiniteSubsetsOf(Nat)
        <3>1. IsFiniteSet(0 .. n)
            BY FS_Interval
        <3> QED BY <3>1 DEF FiniteSubsetsOf
    <2> QED BY <2>1
<1>2. \E x \in T : \A y \in T : ~(<<y, x>> \in StrictSubsetOrdering(Nat))
    BY <1>1, FS_StrictSubsetOrderingWellFounded, WFMin, Zenon
<1>3. PICK m \in S : \A n \in S : ~(<<0 .. n, 0 .. m>> \in StrictSubsetOrdering(Nat))
    BY <1>2
<1>4. ASSUME NEW n \in S, n < m PROVE FALSE
    <2>1. 0 .. n \subseteq 0 .. m /\ 0 .. n # 0 .. m /\ 0 .. n \in SUBSET Nat /\ 0 .. m \in SUBSET Nat
        <3>1. m \in 0 .. m /\ m \notin 0 .. n
            BY <1>4
        <3> QED BY <1>4, <3>1
    <2>2. <<0 .. n, 0 .. m>> \in StrictSubsetOrdering(Nat)
        BY <2>1 DEF StrictSubsetOrdering
    <2> QED BY <1>3, <2>2
<1> QED BY <1>4

LEMMA MinIs ==
    ASSUME NEW S \in SUBSET Nat, NEW m \in S, \A n \in S : m <= n
    PROVE  Min(S) = m
<1>1. \E x \in S : \A y \in S : x =< y
    OBVIOUS
<1>2. Min(S) \in S /\ \A y \in S : Min(S) =< y
    BY <1>1 DEF Min
<1>3. Min(S) \in Nat /\ m \in Nat /\ Min(S) =< m /\ m =< Min(S)
    BY <1>2
<1> QED BY <1>3

\* The levels of a plan, none when no plan is active.
LEMMA PlanLevels ==
    ASSUME NEW p \in Plans \cup {None}
    PROVE  Levels(p) \subseteq Nat \ {0} /\ Levels(p) \subseteq AllLevels
<1>1. CASE p = None
    BY <1>1 DEF Levels
<1>2. CASE p # None
    BY <1>2, RunAssumption DEF Levels, AllLevels
<1> QED BY <1>1, <1>2

\* No level is skipped.
LEMMA NextLevel ==
    ASSUME NEW p \in Plans \cup {None}, NEW k \in Nat
    PROVE  \/ LevelAfter(p, k) = 0 /\ \A l \in Levels(p) : l <= k
           \/ /\ LevelAfter(p, k) \in Levels(p) /\ LevelAfter(p, k) > k
              /\ \A l \in Levels(p) : l <= k \/ l >= LevelAfter(p, k)
<1> DEFINE left == {j \in Levels(p) : j > k}
<1>1. left \in SUBSET Nat /\ Levels(p) \in SUBSET Nat
    BY PlanLevels
<1>2. CASE left = {}
    <2>1. LevelAfter(p, k) = 0
        BY <1>2 DEF LevelAfter
    <2>2. \A l \in Levels(p) : ~(l > k)
        BY <1>2
    <2> QED BY <1>1, <2>1, <2>2
<1>3. CASE left # {}
    <2>1. PICK m \in left : \A n \in left : m <= n
        BY <1>1, <1>3, Least
    <2>2. LevelAfter(p, k) = m
        BY <1>1, <1>3, <2>1, MinIs DEF LevelAfter
    <2>3. \A l \in Levels(p) : l <= k \/ l >= m
        BY <1>1, <2>1
    <2> QED BY <2>1, <2>2, <2>3
<1> QED BY <1>2, <1>3

-----------------------------------------------------------------------------
(* What a run knows *)

\* Nobody is twice in an upline, and the payer is not in it.
SimpleChain(chain, payer) ==
    \A i \in DOMAIN chain : chain[i] # payer /\ \A j \in DOMAIN chain : chain[i] = chain[j] => i = j

\* A frozen row that does not qualify.
Refused(p, u, l) == snapshot[u] # None /\ ~FrozenQualified(p, u, l)

\* The search for level l is over: everybody below its earner is refused for good.
Decided(r, l) ==
    \/ r.earner[l] = None /\ \A i \in l .. Len(r.chain) : Refused(r.plan, r.chain[i], l)
    \/ \E k \in l .. Len(r.chain) :
          /\ r.earner[l] = r.chain[k] /\ FrozenQualified(r.plan, r.chain[k], l)
          /\ \A i \in l .. (k - 1) : Refused(r.plan, r.chain[i], l)

Searching == {"level", "count", "create"}

\* The levels a run has done with.
Past(r) ==
    {l \in Levels(r.plan) : r.pc = "done" \/ (r.pc \in Searching /\ l < r.level)}

\* What a run knows while it climbs and searches.
Knows(r, payer) ==
    /\ SimpleChain(r.chain, payer)
    /\ \A l \in Past(r) : Decided(r, l)
    /\ \A l \in Levels(r.plan) : r.pc # "done" /\ l \notin Past(r) => r.earner[l] = None
    /\ \A l \in AllLevels \ Levels(r.plan) : r.earner[l] = None
    /\ r.pc = "new" => r.plan = None
    /\ \A u \in Users : r.cache[u] # None => snapshot[u] = r.cache[u]
    /\ r.pc \in Searching =>
          /\ r.level \in Levels(r.plan) /\ r.index \in r.level .. Len(r.chain)
          /\ \A i \in r.level .. (r.index - 1) : Refused(r.plan, r.chain[i], r.level)
    /\ r.pc \in {"count", "create"} => MinDirects[r.plan][r.level] # 0

SearchInv == TypeOK /\ \A p \in Payments : Knows(run[p], PayerOf[p])

\* A snapshot that is there is never written again.
Frozen == \A u \in Users : snapshot[u] # None => snapshot'[u] = snapshot[u]

LEMMA KnowsStays ==
    ASSUME NEW r \in RunType, NEW payer, Knows(r, payer), Frozen
    PROVE  Knows(r, payer)'
<1>1. \A i \in DOMAIN r.chain : r.chain[i] \in Users
    BY DEF RunType
<1>2. Len(r.chain) \in Nat /\ DOMAIN r.chain = 1 .. Len(r.chain) /\ r.level \in Nat
    BY DEF RunType
<1>3. Levels(r.plan) \subseteq Nat \ {0}
    BY PlanLevels DEF RunType
<1>4. \A u \in Users, l \in Levels(r.plan) : Refused(r.plan, u, l) => Refused(r.plan, u, l)'
    BY DEF Refused, FrozenQualified, Frozen
<1>5. \A u \in Users, l \in Levels(r.plan) : FrozenQualified(r.plan, u, l) => FrozenQualified(r.plan, u, l)'
    BY DEF FrozenQualified, Frozen
<1>6. ASSUME NEW l \in Past(r) PROVE Decided(r, l)'
    <2>1. l \in Levels(r.plan) /\ l >= 1
        BY <1>3 DEF Past
    <2>2. \A i \in l .. Len(r.chain) : r.chain[i] \in Users
        BY <1>1, <1>2, <1>3, <2>1
    <2>3. CASE r.earner[l] = None /\ \A i \in l .. Len(r.chain) : Refused(r.plan, r.chain[i], l)
        BY <1>4, <2>1, <2>2, <2>3 DEF Decided
    <2>4. CASE \E k \in l .. Len(r.chain) :
                  /\ r.earner[l] = r.chain[k] /\ FrozenQualified(r.plan, r.chain[k], l)
                  /\ \A i \in l .. (k - 1) : Refused(r.plan, r.chain[i], l)
        <3>1. PICK k \in l .. Len(r.chain) :
                  /\ r.earner[l] = r.chain[k] /\ FrozenQualified(r.plan, r.chain[k], l)
                  /\ \A i \in l .. (k - 1) : Refused(r.plan, r.chain[i], l)
            BY <2>4
        <3>2. \A i \in l .. (k - 1) : i \in l .. Len(r.chain)
            BY <1>2, <1>3, <2>1
        <3>3. /\ FrozenQualified(r.plan, r.chain[k], l)'
              /\ \A i \in l .. (k - 1) : Refused(r.plan, r.chain[i], l)'
            BY <1>4, <1>5, <2>1, <2>2, <3>1, <3>2
        <3> QED BY <3>1, <3>3 DEF Decided
    <2> QED BY <2>3, <2>4 DEF Knows, Decided
<1>7. \A u \in Users : r.cache[u] # None => snapshot'[u] = r.cache[u]
    BY DEF Knows, Frozen
<1>8. ASSUME r.pc \in Searching, NEW i \in r.level .. (r.index - 1) PROVE Refused(r.plan, r.chain[i], r.level)'
    <2>1. r.level \in Levels(r.plan) /\ r.index \in r.level .. Len(r.chain) /\ Refused(r.plan, r.chain[i], r.level)
        BY <1>8 DEF Knows
    <2>2. i \in DOMAIN r.chain
        BY <1>2, <1>3, <1>8, <2>1
    <2> QED BY <1>1, <1>4, <2>1, <2>2
<1>9. /\ SimpleChain(r.chain, payer)
      /\ \A l \in Levels(r.plan) : r.pc # "done" /\ l \notin Past(r) => r.earner[l] = None
      /\ \A l \in AllLevels \ Levels(r.plan) : r.earner[l] = None
      /\ r.pc = "new" => r.plan = None
      /\ r.pc \in Searching => r.level \in Levels(r.plan) /\ r.index \in r.level .. Len(r.chain)
      /\ r.pc \in {"count", "create"} => MinDirects[r.plan][r.level] # 0
    BY DEF Knows
<1>10. Past(r)' = Past(r)
    BY DEF Past
<1> QED BY <1>6, <1>7, <1>8, <1>9, <1>10 DEF Knows

\* A run that has done with the levels up to k goes on with the next one.
LEMMA AtLevelKnows ==
    ASSUME NEW r \in RunType, NEW payer, NEW k \in Nat,
           SimpleChain(r.chain, payer),
           \A l \in Levels(r.plan) : l <= k => Decided(r, l),
           \A l \in Levels(r.plan) : l > k => r.earner[l] = None,
           \A l \in AllLevels \ Levels(r.plan) : r.earner[l] = None,
           \A u \in Users : r.cache[u] # None => snapshot[u] = r.cache[u]
    PROVE  AtLevel(r, LevelAfter(r.plan, k)) \in RunType /\ Knows(AtLevel(r, LevelAfter(r.plan, k)), payer)
<1>1. PICK n : n = LevelAfter(r.plan, k)
    OBVIOUS
<1>2. \/ n = 0 /\ \A l \in Levels(r.plan) : l <= k
      \/ n \in Levels(r.plan) /\ n > k /\ \A l \in Levels(r.plan) : l <= k \/ l >= n
    BY <1>1, NextLevel DEF RunType
<1>3. Levels(r.plan) \subseteq Nat \ {0} /\ n \in Nat
    <2>1. Levels(r.plan) \subseteq Nat \ {0}
        BY PlanLevels DEF RunType
    <2>2. CASE n = 0
        BY <2>1, <2>2
    <2>3. CASE n \in Levels(r.plan)
        BY <2>1, <2>3
    <2> QED BY <1>2, <2>2, <2>3
<1>4. Len(r.chain) \in Nat
    BY DEF RunType
<1>5. CASE n = 0 \/ n > Len(r.chain)
    <2> DEFINE cache == NewRun.cache
    <2>1. cache \in [Users -> Rows] /\ \A u \in Users : cache[u] = None
        BY DEF NewRun, Rows
    <2> HIDE DEF cache
    <2>2. PICK v : v = [r EXCEPT !.pc = "done", !.level = 0, !.index = 0, !.cache = cache]
        OBVIOUS
    <2>3. /\ v \in RunType /\ v.pc = "done" /\ v.plan = r.plan /\ v.chain = r.chain /\ v.earner = r.earner /\ v.cache = cache
        BY <2>1, <2>2 DEF RunType, RunPCs
    <2>4. AtLevel(r, n) = v
        BY <1>5, <2>2 DEF AtLevel, cache
    <2>5. ASSUME NEW l \in Levels(r.plan) PROVE Decided(v, l)
        <3>1. CASE l <= k
            BY <2>3, <3>1 DEF Decided
        <3>2. CASE l > k
            <4>1. l > Len(r.chain)
                BY <1>2, <1>3, <1>4, <1>5, <3>2
            <4>2. l .. Len(r.chain) = {}
                BY <1>3, <1>4, <4>1
            <4>3. v.earner[l] = None
                BY <2>3, <3>2
            <4> QED BY <2>3, <4>2, <4>3 DEF Decided
        <3> QED BY <1>3, <3>1, <3>2
    <2>6. Knows(v, payer)
        BY <2>1, <2>3, <2>5 DEF Knows, Past, Searching
    <2> QED BY <1>1, <2>3, <2>4, <2>6
<1>6. CASE ~(n = 0 \/ n > Len(r.chain))
    <2>1. PICK v : v = [r EXCEPT !.pc = "level", !.level = n, !.index = n]
        OBVIOUS
    <2>2. /\ v \in RunType /\ v.pc = "level" /\ v.plan = r.plan /\ v.chain = r.chain /\ v.earner = r.earner /\ v.cache = r.cache
          /\ v.level = n /\ v.index = n
        BY <1>3, <2>1 DEF RunType, RunPCs
    <2>3. AtLevel(r, n) = v
        BY <1>6, <2>1 DEF AtLevel
    <2>4. n \in Levels(r.plan) /\ n \in n .. Len(r.chain) /\ n .. (n - 1) = {}
        BY <1>2, <1>3, <1>4, <1>6
    <2>5. ASSUME NEW l \in Past(v) PROVE Decided(v, l)
        <3>1. l \in Levels(r.plan) /\ l < n
            BY <2>2, <2>5 DEF Past
        <3>2. Decided(r, l)
            BY <1>2, <1>3, <3>1
        <3> QED BY <2>2, <3>2 DEF Decided
    <2>6. ASSUME NEW l \in Levels(r.plan), l \notin Past(v) PROVE v.earner[l] = None
        <3>1. ~(l < n)
            BY <2>2, <2>6 DEF Past, Searching
        <3>2. l > k
            BY <1>2, <1>3, <2>4, <3>1
        <3> QED BY <2>2, <3>2
    <2>7. Knows(v, payer)
        BY <2>2, <2>4, <2>5, <2>6 DEF Knows, Searching
    <2> QED BY <1>1, <2>2, <2>3, <2>7
<1> QED BY <1>5, <1>6

-----------------------------------------------------------------------------
(* The network, the snapshots and the runs step by step *)

LEMMA TreeTypeStep == ASSUME TreeTypeOK, TreeNext PROVE TreeTypeOK'
<1>1. PICK m \in Movers : TreeStep(m)
    BY DEF TreeNext
<1>2. mover[m] \in MoverType /\ sponsor \in [Users -> Users \cup {None}]
    BY DEF TreeTypeOK
<1>3. CASE Propose(m)
    BY <1>3 DEF Propose, TreeTypeOK, MoverType
<1>4. CASE Refuse(m)
    BY <1>4 DEF Refuse, TreeTypeOK, MoverType, Idle
<1>5. CASE WalkUp(m)
    <2>1. mover[m].cursor \in Users
        BY <1>2, <1>5 DEF WalkUp, WalkOver, MoverType
    <2>2. PICK seen \in SUBSET Users, up \in Users \cup {None} :
              seen = mover[m].visited \cup {mover[m].cursor} /\ up = sponsor[mover[m].cursor]
        BY <1>2, <2>1 DEF MoverType
    <2>3. mover' = [mover EXCEPT ![m] = [mover[m] EXCEPT !.visited = seen, !.cursor = up]] /\ sponsor' = sponsor
        BY <1>5, <2>2 DEF WalkUp
    <2>4. [mover[m] EXCEPT !.visited = seen, !.cursor = up] \in MoverType
        BY <1>2 DEF MoverType
    <2> QED BY <2>3, <2>4 DEF TreeTypeOK
<1>6. CASE EndWalk(m)
    <2>1. mover' = [mover EXCEPT ![m] = [mover[m] EXCEPT !.pc = "write"]] /\ sponsor' = sponsor
        BY <1>6 DEF EndWalk
    <2>2. [mover[m] EXCEPT !.pc = "write"] \in MoverType
        BY <1>2 DEF MoverType
    <2> QED BY <2>1, <2>2 DEF TreeTypeOK
<1>7. CASE SetSponsor(m)
    BY <1>2, <1>7 DEF SetSponsor, TreeTypeOK, MoverType, Idle
<1> QED BY <1>1, <1>3, <1>4, <1>5, <1>6, <1>7 DEF TreeStep

\* A handler's step is a step of its own run.
LEMMA OneRun ==
    ASSUME SearchInv, NEW p \in Payments, NEW r \in RunType, run' = [run EXCEPT ![p] = r],
           Knows(r, PayerOf[p])', Frozen, TreeTypeOK', UNCHANGED <<paying, plan, changes, freezer>>,
           snapshot' \in [Users -> Rows]
    PROVE  SearchInv'
<1>1. run'[p] = r /\ \A q \in Payments : q # p => run'[q] = run[q]
    BY DEF SearchInv, TypeOK
<1>2. ASSUME NEW q \in Payments PROVE Knows(run[q], PayerOf[q])'
    <2>1. CASE q = p
        BY <1>1, <2>1
    <2>2. CASE q # p
        <3>1. PICK v \in RunType : v = run[q]
            BY DEF SearchInv, TypeOK
        <3>2. Knows(v, PayerOf[q])
            BY <3>1 DEF SearchInv
        <3>3. Knows(v, PayerOf[q])'
            BY <3>2, KnowsStays
        <3> QED BY <1>1, <2>2, <3>1, <3>3
    <2> QED BY <2>1, <2>2
<1>3. TypeOK'
    BY DEF SearchInv, TypeOK
<1> QED BY <1>2, <1>3 DEF SearchInv

\* What a run knows of a run that has not begun its search.
LEMMA FirstLevel ==
    ASSUME NEW r \in RunType, NEW payer, Knows(r, payer), r.pc = "walk"
    PROVE  AtLevel(r, LevelAfter(r.plan, 0)) \in RunType /\ Knows(AtLevel(r, LevelAfter(r.plan, 0)), payer)
<1>1. /\ SimpleChain(r.chain, payer)
      /\ \A u \in Users : r.cache[u] # None => snapshot[u] = r.cache[u]
      /\ \A l \in Levels(r.plan) : r.earner[l] = None
      /\ \A l \in AllLevels \ Levels(r.plan) : r.earner[l] = None
    BY DEF Knows, Past, Searching
<1>2. Levels(r.plan) \subseteq Nat \ {0}
    BY PlanLevels DEF RunType
<1>3. \A l \in Levels(r.plan) : ~(l <= 0)
    BY ONLY <1>2
<1> QED BY <1>1, <1>3, AtLevelKnows

\* A step that changes the place of the handler and nothing of its search.
LEMMA SamePlace ==
    ASSUME NEW r \in RunType, NEW payer, Knows(r, payer), NEW s \in RunType,
           s.plan = r.plan, s.chain = r.chain, s.level = r.level, s.index = r.index, s.earner = r.earner,
           \A u \in Users : s.cache[u] # None => snapshot[u] = s.cache[u],
           r.pc \in Searching /\ s.pc \in Searching,
           s.pc \in {"count", "create"} => MinDirects[r.plan][r.level] # 0
    PROVE  Knows(s, payer)
<1>1. Past(s) = Past(r) /\ r.pc # "done" /\ s.pc # "done"
    BY DEF Past, Searching
<1>2. \A l \in Past(s) : Decided(s, l)
    BY <1>1 DEF Knows, Decided
<1> QED BY <1>1, <1>2 DEF Knows, Searching

LEMMA BeginKnows ==
    ASSUME SearchInv, NEW p \in Payments, Begin(p)
    PROVE  SearchInv'
<1> DEFINE r == run[p]
<1>1. r \in RunType /\ r.pc = "new" /\ Knows(r, PayerOf[p])
    BY DEF SearchInv, TypeOK, Begin
<1>2. PICK s : s = [r EXCEPT !.pc = IF Levels(plan) = {} THEN "done" ELSE "walk", !.plan = plan]
    OBVIOUS
<1>3. /\ s \in RunType /\ s.pc = IF Levels(plan) = {} THEN "done" ELSE "walk"
      /\ s.plan = plan /\ s.chain = r.chain /\ s.cache = r.cache /\ s.earner = r.earner
    BY <1>1, <1>2 DEF RunType, RunPCs, SearchInv, TypeOK
<1>8. \A l \in AllLevels : r.earner[l] = None
    BY <1>1 DEF Knows, Past, Levels, Searching
<1>9. Levels(plan) \subseteq AllLevels
    BY PlanLevels DEF SearchInv, TypeOK
<1>4. run' = [run EXCEPT ![p] = s] /\ UNCHANGED <<treeVars, paying, plan, changes, snapshot, freezer>>
    BY <1>2 DEF Begin
<1>5. Knows(s, PayerOf[p])
    BY <1>1, <1>3, <1>8, <1>9 DEF Knows, Past, Searching
<1>6. Frozen /\ TreeTypeOK' /\ snapshot' \in [Users -> Rows]
    BY <1>4 DEF Frozen, SearchInv, TypeOK, TreeTypeOK, treeVars
<1>7. Knows(s, PayerOf[p])'
    BY <1>3, <1>5, <1>6, KnowsStays
<1> QED BY <1>3, <1>4, <1>6, <1>7, OneRun

\* A step of a handler that writes nothing but its run.
LEMMA QuietRun ==
    ASSUME SearchInv, NEW p \in Payments, NEW s \in RunType, Knows(s, PayerOf[p]),
           run' = [run EXCEPT ![p] = s], UNCHANGED <<treeVars, paying, plan, changes, snapshot, freezer>>
    PROVE  SearchInv'
<1>1. Frozen /\ TreeTypeOK' /\ snapshot' \in [Users -> Rows]
    BY DEF Frozen, SearchInv, TypeOK, TreeTypeOK, treeVars
<1>2. Knows(s, PayerOf[p])'
    BY <1>1, KnowsStays
<1> QED BY <1>1, <1>2, OneRun

LEMMA ClimbKnows ==
    ASSUME SearchInv, NEW p \in Payments, ClimbOne(p)
    PROVE  SearchInv'
<1> DEFINE a == sponsor[Current(p)]
<1>1. PICK r \in RunType : r = run[p] /\ r.pc = "walk" /\ Knows(r, PayerOf[p])
    BY DEF SearchInv, TypeOK, ClimbOne
<1>2. r.chain \in Seq(Users) /\ Len(r.chain) \in Nat /\ DOMAIN r.chain = 1 .. Len(r.chain)
    BY <1>1 DEF RunType
<1>3. UNCHANGED <<treeVars, paying, plan, changes, snapshot, freezer>>
    BY DEF ClimbOne
<1>4. CASE Len(r.chain) < MaxUplineWalk /\ a \notin Visited(p)
    <2>1. a \in Users /\ a # PayerOf[p] /\ \A i \in DOMAIN r.chain : r.chain[i] # a
        <3>1. PayerOf[p] \in Users
            BY RunAssumption
        <3>2. Current(p) \in Users
            BY <1>1, <1>2, <3>1 DEF Current, Last
        <3>3. a \in Users \cup {None}
            BY <3>2 DEF SearchInv, TypeOK, TreeTypeOK
        <3> QED BY <1>1, <1>4, <3>3 DEF Visited, ToSet
    <2>2. PICK u \in Users : u = a
        BY <2>1
    <2>3. PICK chain : chain = Append(r.chain, u)
        OBVIOUS
    <2>4. /\ chain \in Seq(Users) /\ Len(chain) = Len(r.chain) + 1 /\ DOMAIN chain = 1 .. Len(chain)
          /\ chain[Len(chain)] = u /\ \A i \in 1 .. Len(r.chain) : chain[i] = r.chain[i]
        BY <1>2, <2>3
    <2>5. SimpleChain(chain, PayerOf[p])
        <3> DEFINE n == Len(r.chain)
        <3>1. SimpleChain(r.chain, PayerOf[p])
            BY <1>1 DEF Knows
        <3>2. \A i \in 1 .. n :
                 /\ chain[i] = r.chain[i] /\ chain[i] # u /\ chain[i] # PayerOf[p]
                 /\ \A j \in 1 .. n : chain[i] = chain[j] => i = j
            BY <1>2, <2>1, <2>2, <2>4, <3>1 DEF SimpleChain
        <3>3. n \in Nat /\ DOMAIN chain = 1 .. (n + 1) /\ chain[n + 1] = u
            BY <1>2, <2>4
        <3>4. \A i \in DOMAIN chain : i \in 1 .. n \/ i = n + 1
            BY ONLY <3>3
        <3>5. u # PayerOf[p]
            BY <2>1, <2>2
        <3> HIDE DEF n
        <3>6. ASSUME NEW i \in DOMAIN chain PROVE chain[i] # PayerOf[p]
            BY <3>2, <3>3, <3>4, <3>5
        <3>7. ASSUME NEW i \in DOMAIN chain, NEW j \in DOMAIN chain, chain[i] = chain[j] PROVE i = j
            BY <3>2, <3>3, <3>4, <3>7
        <3> QED BY <3>6, <3>7 DEF SimpleChain
    <2>6. PICK s : s = [r EXCEPT !.chain = chain]
        OBVIOUS
    <2>7. s \in RunType /\ s.pc = "walk" /\ s.plan = r.plan /\ s.chain = chain /\ s.cache = r.cache /\ s.earner = r.earner
        BY <1>1, <2>4, <2>6 DEF RunType
    <2>8. Knows(s, PayerOf[p])
        BY <1>1, <2>5, <2>7 DEF Knows, Past, Searching
    <2>9. run' = [run EXCEPT ![p] = s]
        <3>1. run' = [run EXCEPT ![p] =
                  IF Len(run[p].chain) < MaxUplineWalk /\ a \notin Visited(p)
                  THEN [run[p] EXCEPT !.chain = Append(run[p].chain, a)]
                  ELSE AtLevel(run[p], LevelAfter(run[p].plan, 0))]
            BY DEF ClimbOne
        <3>2. s = [run[p] EXCEPT !.chain = Append(run[p].chain, a)]
            BY <1>1, <2>2, <2>3, <2>6
        <3>3. Len(run[p].chain) < MaxUplineWalk /\ a \notin Visited(p)
            BY <1>1, <1>4
        <3> QED BY <3>1, <3>2, <3>3
    <2> QED BY <1>3, <2>7, <2>8, <2>9, QuietRun
<1>5. CASE ~(Len(r.chain) < MaxUplineWalk /\ a \notin Visited(p))
    <2>1. PICK s \in RunType : s = AtLevel(r, LevelAfter(r.plan, 0)) /\ Knows(s, PayerOf[p])
        BY <1>1, FirstLevel
    <2>2. run' = [run EXCEPT ![p] = s]
        BY <1>1, <1>5, <2>1 DEF ClimbOne
    <2> QED BY <1>3, <2>1, <2>2, QuietRun
<1> QED BY <1>4, <1>5

\* The candidate is a user of the chain, at or above the level.
LEMMA CandidateIs ==
    ASSUME NEW r \in RunType, NEW payer, Knows(r, payer), r.pc \in Searching
    PROVE  /\ r.level \in Levels(r.plan) /\ r.index \in r.level .. Len(r.chain) /\ r.index \in DOMAIN r.chain
           /\ Candidate(r) = r.chain[r.index] /\ Candidate(r) \in Users
<1>1. Levels(r.plan) \subseteq Nat \ {0}
    BY PlanLevels DEF RunType
<1>2. r.level \in Levels(r.plan) /\ r.index \in r.level .. Len(r.chain)
    BY DEF Knows
<1>3. r.chain \in Seq(Users) /\ DOMAIN r.chain = 1 .. Len(r.chain) /\ Len(r.chain) \in Nat
    BY DEF RunType
<1>4. r.index \in DOMAIN r.chain
    <2>1. PICK l \in Nat \ {0} : l = r.level
        BY <1>1, <1>2
    <2>2. PICK n \in Nat : n = Len(r.chain)
        BY <1>3
    <2>3. r.index \in l .. n
        BY <1>2, <2>1, <2>2
    <2>4. l .. n \subseteq 1 .. n
        BY ONLY <2>1, <2>2
    <2> QED BY <1>3, <2>2, <2>3, <2>4
<1>5. r.chain[r.index] \in Users
    BY <1>3, <1>4
<1> QED BY <1>2, <1>4, <1>5 DEF Candidate

LEMMA LookUpKnows ==
    ASSUME SearchInv, NEW p \in Payments, LookUp(p)
    PROVE  SearchInv'
<1>1. PICK r \in RunType : r = run[p] /\ r.pc = "level" /\ Knows(r, PayerOf[p]) /\ ~Known(r)
    BY DEF SearchInv, TypeOK, LookUp
<1>2. UNCHANGED <<treeVars, paying, plan, changes, snapshot, freezer>> /\ snapshot \in [Users -> Rows]
    BY DEF LookUp, SearchInv, TypeOK
<1>3. PICK u \in Users : u = Candidate(r)
    BY <1>1, CandidateIs DEF Searching
<1>4. r.pc \in Searching /\ MinDirects[r.plan][r.level] # 0
    BY <1>1 DEF Known, Asked, Searching
<1>5. \A x \in Users : r.cache[x] # None => snapshot[x] = r.cache[x]
    BY <1>1 DEF Knows
<1>6. CASE snapshot[u] # None
    <2>1. PICK c : c = snapshot[u]
        OBVIOUS
    <2>2. PICK s : s = [r EXCEPT !.cache[u] = c]
        OBVIOUS
    <2>3. /\ s \in RunType /\ s.pc = r.pc /\ s.plan = r.plan /\ s.chain = r.chain /\ s.level = r.level /\ s.index = r.index
          /\ s.earner = r.earner /\ s.cache = [r.cache EXCEPT ![u] = c]
        BY <1>1, <1>2, <2>1, <2>2 DEF RunType
    <2>4. r.cache \in [Users -> Rows]
        BY <1>1 DEF RunType
    <2>5. \A x \in Users : s.cache[x] # None => snapshot[x] = s.cache[x]
        BY <1>5, <2>1, <2>3, <2>4
    <2>6. Knows(s, PayerOf[p])
        BY <1>1, <1>4, <2>3, <2>5, SamePlace
    <2>7. run' = [run EXCEPT ![p] = s]
        BY <1>1, <1>3, <1>6, <2>1, <2>2 DEF LookUp
    <2> QED BY <1>2, <2>3, <2>6, <2>7, QuietRun
<1>7. CASE snapshot[u] = None
    <2>1. PICK s : s = [r EXCEPT !.pc = "count"]
        OBVIOUS
    <2>2. /\ s \in RunType /\ s.pc = "count" /\ s.plan = r.plan /\ s.chain = r.chain /\ s.level = r.level /\ s.index = r.index
          /\ s.earner = r.earner /\ s.cache = r.cache
        BY <1>1, <2>1 DEF RunType, RunPCs
    <2>3. Knows(s, PayerOf[p])
        BY <1>1, <1>4, <1>5, <2>2, SamePlace DEF Searching
    <2>4. run' = [run EXCEPT ![p] = s]
        BY <1>1, <1>3, <1>7, <2>1 DEF LookUp
    <2> QED BY <1>2, <2>2, <2>3, <2>4, QuietRun
<1> QED BY <1>6, <1>7

LEMMA CountType == ASSUME TypeOK, NEW u PROVE ActiveDirects(u) \in Nat
<1>1. IsFiniteSet(Users) /\ {d \in paying : sponsor[d] = u} \in SUBSET Users
    BY RunAssumption DEF TypeOK
<1>2. IsFiniteSet({d \in paying : sponsor[d] = u})
    BY <1>1, FS_Subset
<1> QED BY <1>2, FS_CardinalityType DEF ActiveDirects

\* A frozen row has the shape of a row.
LEMMA FrozenType == ASSUME NEW n \in Nat, NEW p PROVE Freeze(n, p) \in Row
BY DEF Freeze, Row

LEMMA CountKnows ==
    ASSUME SearchInv, NEW p \in Payments, CountDirects(p)
    PROVE  SearchInv'
<1>1. PICK r \in RunType : r = run[p] /\ r.pc = "count" /\ Knows(r, PayerOf[p])
    BY DEF SearchInv, TypeOK, CountDirects
<1>2. UNCHANGED <<treeVars, paying, plan, changes, snapshot, freezer>>
    BY DEF CountDirects
<1>3. PICK n \in Nat : n = ActiveDirects(Candidate(r))
    BY <1>1, CandidateIs, CountType DEF Searching, SearchInv
<1>4. PICK s : s = [r EXCEPT !.pc = "create", !.count = n]
    OBVIOUS
<1>5. /\ s \in RunType /\ s.pc = "create" /\ s.plan = r.plan /\ s.chain = r.chain /\ s.level = r.level /\ s.index = r.index
      /\ s.earner = r.earner /\ s.cache = r.cache
    BY <1>1, <1>3, <1>4 DEF RunType, RunPCs
<1>6. r.pc \in Searching /\ MinDirects[r.plan][r.level] # 0 /\ \A x \in Users : r.cache[x] # None => snapshot[x] = r.cache[x]
    BY <1>1 DEF Knows, Searching
<1>7. Knows(s, PayerOf[p])
    BY <1>1, <1>5, <1>6, SamePlace DEF Searching
<1>8. run' = [run EXCEPT ![p] = s]
    BY <1>1, <1>3, <1>4 DEF CountDirects
<1> QED BY <1>2, <1>5, <1>7, <1>8, QuietRun

LEMMA CreateKnows ==
    ASSUME SearchInv, NEW p \in Payments, CreateSnapshot(p)
    PROVE  SearchInv'
<1>1. PICK r \in RunType : r = run[p] /\ r.pc = "create" /\ Knows(r, PayerOf[p])
    BY DEF SearchInv, TypeOK, CreateSnapshot
<1>2. UNCHANGED <<treeVars, paying, plan, changes, freezer>> /\ snapshot \in [Users -> Rows] /\ r.count \in Nat
    BY <1>1 DEF CreateSnapshot, SearchInv, TypeOK, RunType
<1>3. PICK u \in Users : u = Candidate(r)
    BY <1>1, CandidateIs DEF Searching
<1>4. PICK c \in Rows : c = IF snapshot[u] = None THEN Freeze(r.count, r.plan) ELSE snapshot[u]
    BY <1>2, FrozenType DEF Rows
<1>5. PICK s : s = [r EXCEPT !.pc = "level", !.count = 0, !.cache[u] = c]
    OBVIOUS
<1>6. /\ s \in RunType /\ s.pc = "level" /\ s.plan = r.plan /\ s.chain = r.chain /\ s.level = r.level /\ s.index = r.index
      /\ s.earner = r.earner /\ s.cache = [r.cache EXCEPT ![u] = c]
    BY <1>1, <1>5 DEF RunType, RunPCs
<1>7. run' = [run EXCEPT ![p] = s]
      /\ snapshot' = IF snapshot[u] = None THEN [snapshot EXCEPT ![u] = Freeze(r.count, r.plan)] ELSE snapshot
    BY <1>1, <1>3, <1>4, <1>5 DEF CreateSnapshot, FrozenRow
<1>8. /\ snapshot' \in [Users -> Rows] /\ Frozen /\ snapshot'[u] = c
      /\ \A x \in Users : x # u => snapshot'[x] = snapshot[x]
    BY <1>2, <1>4, <1>7 DEF Frozen
<1>9. Knows(s, PayerOf[p])'
    <2>1. PICK t : t = [r EXCEPT !.pc = "level", !.count = 0]
        OBVIOUS
    <2>2. /\ t \in RunType /\ t.pc = "level" /\ t.plan = r.plan /\ t.chain = r.chain /\ t.level = r.level /\ t.index = r.index
          /\ t.earner = r.earner /\ t.cache = r.cache
        BY <1>1, <2>1 DEF RunType, RunPCs
    <2>3. r.pc \in Searching /\ \A x \in Users : r.cache[x] # None => snapshot[x] = r.cache[x]
        BY <1>1 DEF Knows, Searching
    <2>4. Knows(t, PayerOf[p])
        BY <1>1, <2>2, <2>3, SamePlace DEF Searching
    <2>5. Knows(t, PayerOf[p])'
        BY <1>8, <2>2, <2>4, KnowsStays
    <2>6. r.cache \in [Users -> Rows]
        BY <1>1 DEF RunType
    <2>7. \A x \in Users : s.cache[x] # None => snapshot'[x] = s.cache[x]
        <3>1. \A x \in Users : t.cache[x] # None => snapshot'[x] = t.cache[x]
            BY <2>5 DEF Knows
        <3> QED BY <1>6, <1>8, <2>2, <2>6, <3>1
    <2>8. \A l \in Levels(r.plan) : Decided(t, l)' => Decided(s, l)'
        BY <1>6, <2>2 DEF Decided
    <2>9. Past(s)' = Past(t)'
        BY <1>6, <2>2 DEF Past
    <2>10. \A l \in Past(s)' : Decided(s, l)'
        BY <1>6, <2>2, <2>5, <2>8, <2>9 DEF Knows, Past
    <2> QED BY <1>6, <2>2, <2>5, <2>7, <2>9, <2>10 DEF Knows
<1>10. TreeTypeOK'
    BY <1>2 DEF SearchInv, TypeOK, TreeTypeOK, treeVars
<1> QED BY <1>2, <1>6, <1>7, <1>8, <1>9, <1>10, OneRun

LEMMA AssignKnows ==
    ASSUME SearchInv, NEW p \in Payments, Assign(p)
    PROVE  SearchInv'
<1>1. PICK r \in RunType : r = run[p] /\ r.pc = "level" /\ Knows(r, PayerOf[p]) /\ Known(r)
    BY DEF SearchInv, TypeOK, Assign
<1>2. UNCHANGED <<treeVars, paying, plan, changes, snapshot, freezer>>
    BY DEF Assign
<1>3. PICK l \in Levels(r.plan) : l = r.level
    BY <1>1, CandidateIs DEF Searching
<1>4. PICK n \in Nat : n = Len(r.chain)
    BY DEF RunType
<1>5. l \in Nat \ {0}
    BY PlanLevels DEF RunType
<1>6. PICK k \in l .. n : k = r.index
    BY <1>1, <1>3, <1>4, CandidateIs DEF Searching
<1>7. k \in Nat /\ l <= k /\ k <= n
    BY <1>5, <1>6
<1>8. PICK u \in Users : u = Candidate(r) /\ u = r.chain[k]
    BY <1>1, <1>6, CandidateIs DEF Searching
<1>9. \A i \in l .. (k - 1) : Refused(r.plan, r.chain[i], l)
    BY <1>1, <1>3, <1>6 DEF Knows, Searching
<1>10. \A j \in Levels(r.plan) : j < l => Decided(r, j)
    BY <1>1, <1>3 DEF Knows, Past, Searching
<1>11. \A j \in Levels(r.plan) : ~(j < l) => r.earner[j] = None
    BY <1>1, <1>3 DEF Knows, Past, Searching
<1>12. SimpleChain(r.chain, PayerOf[p]) /\ \A x \in Users : r.cache[x] # None => snapshot[x] = r.cache[x]
    BY <1>1 DEF Knows
<1>13. Levels(r.plan) \subseteq Nat \ {0} /\ Levels(r.plan) \subseteq AllLevels
    BY PlanLevels DEF RunType
<1>16. \A j \in AllLevels \ Levels(r.plan) : r.earner[j] = None
    BY <1>1 DEF Knows
<1>14. CASE Qualified(r)
    <2>1. FrozenQualified(r.plan, u, l)
        <3>1. CASE MinDirects[r.plan][l] = 0
            BY <3>1 DEF FrozenQualified
        <3>2. CASE MinDirects[r.plan][l] # 0
            BY <1>1, <1>3, <1>8, <1>12, <1>14, <3>2 DEF FrozenQualified, Qualified, Known, Asked, Unlocks
        <3> QED BY <3>1, <3>2
    <2>2. PICK t : t = [r EXCEPT !.earner[l] = u]
        OBVIOUS
    <2>3. /\ t \in RunType /\ t.plan = r.plan /\ t.chain = r.chain /\ t.cache = r.cache
          /\ t.earner = [r.earner EXCEPT ![l] = u] /\ r.earner \in [AllLevels -> Users \cup {None}]
        BY <1>1, <1>13, <2>2 DEF RunType
    <2>4. t.earner[l] = u /\ \A j \in AllLevels : j # l => t.earner[j] = r.earner[j]
        BY <1>13, <2>3
    <2>10. \A j \in AllLevels \ Levels(t.plan) : t.earner[j] = None
        BY <1>3, <1>16, <2>3, <2>4
    <2>5. Decided(t, l)
        BY <1>4, <1>6, <1>8, <1>9, <2>1, <2>3, <2>4 DEF Decided
    <2>6. ASSUME NEW j \in Levels(r.plan), j <= l PROVE Decided(t, j)
        <3>1. CASE j = l
            BY <2>5, <3>1
        <3>2. CASE j # l
            <4>1. j < l
                BY <1>5, <1>13, <2>6, <3>2
            <4>2. Decided(r, j)
                BY <1>10, <4>1
            <4> QED BY <1>13, <2>3, <2>4, <3>2, <4>2 DEF Decided
        <3> QED BY <3>1, <3>2
    <2>7. ASSUME NEW j \in Levels(r.plan), j > l PROVE t.earner[j] = None
        <3>1. ~(j < l) /\ j # l
            BY <1>5, <1>13, <2>7
        <3> QED BY <1>11, <1>13, <2>4, <3>1
    <2>11. /\ t.plan = r.plan /\ SimpleChain(t.chain, PayerOf[p])
           /\ \A x \in Users : t.cache[x] # None => snapshot[x] = t.cache[x]
           /\ \A j \in Levels(t.plan) : j <= l => Decided(t, j)
           /\ \A j \in Levels(t.plan) : j > l => t.earner[j] = None
        BY <1>12, <2>3, <2>6, <2>7
    <2>8. PICK s \in RunType : s = AtLevel(t, LevelAfter(t.plan, l)) /\ Knows(s, PayerOf[p])
        BY <1>5, <2>3, <2>10, <2>11, AtLevelKnows
    <2>9. run' = [run EXCEPT ![p] = s]
        BY <1>1, <1>3, <1>8, <1>14, <2>2, <2>8, <2>11 DEF Assign
    <2> QED BY <1>2, <2>8, <2>9, QuietRun
<1>15. CASE ~Qualified(r)
    <2>1. Refused(r.plan, u, l)
        BY <1>1, <1>3, <1>8, <1>12, <1>15 DEF Refused, FrozenQualified, Qualified, Known, Asked, Unlocks
    <2>2. ASSUME NEW i \in l .. k PROVE Refused(r.plan, r.chain[i], l)
        <3>1. CASE i = k
            BY <1>8, <2>1, <3>1
        <3>2. CASE i # k
            <4>1. i \in l .. (k - 1)
                BY <1>5, <1>7, <2>2, <3>2
            <4> QED BY <1>9, <4>1
        <3> QED BY <3>1, <3>2
    <2>3. CASE k + 1 <= n
        <3>1. PICK m : m = k + 1
            OBVIOUS
        <3>2. m \in Nat /\ m \in l .. n /\ l .. (m - 1) = l .. k
            BY <1>5, <1>7, <2>3, <3>1
        <3>3. PICK s : s = [r EXCEPT !.index = m]
            OBVIOUS
        <3>4. /\ s \in RunType /\ s.pc = "level" /\ s.plan = r.plan /\ s.chain = r.chain /\ s.level = l /\ s.index = m
              /\ s.earner = r.earner /\ s.cache = r.cache
            BY <1>1, <1>3, <3>2, <3>3 DEF RunType
        <3>5. \A j \in Past(s) : Decided(s, j)
            BY <1>10, <3>4 DEF Past, Decided
        <3>6. \A j \in Levels(r.plan) : s.pc # "done" /\ j \notin Past(s) => s.earner[j] = None
            BY <1>11, <3>4 DEF Past, Searching
        <3>7. \A i \in s.level .. (s.index - 1) : Refused(r.plan, s.chain[i], s.level)
            BY <2>2, <3>2, <3>4
        <3>8. s.level \in Levels(r.plan) /\ s.index \in s.level .. Len(s.chain)
            BY <1>3, <1>4, <3>2, <3>4
        <3>9. Knows(s, PayerOf[p])
            BY <1>12, <1>16, <3>4, <3>5, <3>6, <3>7, <3>8 DEF Knows
        <3>10. run' = [run EXCEPT ![p] = s]
            BY <1>1, <1>4, <1>6, <1>15, <2>3, <3>1, <3>3 DEF Assign
        <3> QED BY <1>2, <3>4, <3>9, <3>10, QuietRun
    <2>4. CASE ~(k + 1 <= n)
        <3>1. l .. k = l .. n
            BY <1>7, <2>4
        <3>2. Decided(r, l)
            <4>1. r.earner[l] = None
                BY <1>5, <1>11
            <4> QED BY <1>4, <2>2, <3>1, <4>1 DEF Decided
        <3>3. ASSUME NEW j \in Levels(r.plan), j <= l PROVE Decided(r, j)
            <4>1. CASE j = l
                BY <3>2, <4>1
            <4>2. CASE j # l
                <5>1. j < l
                    BY <1>5, <1>13, <3>3, <4>2
                <5> QED BY <1>10, <5>1
            <4> QED BY <4>1, <4>2
        <3>4. ASSUME NEW j \in Levels(r.plan), j > l PROVE r.earner[j] = None
            <4>1. ~(j < l)
                BY <1>5, <1>13, <3>4
            <4> QED BY <1>11, <4>1
        <3>5. PICK s \in RunType : s = AtLevel(r, LevelAfter(r.plan, l)) /\ Knows(s, PayerOf[p])
            BY <1>5, <1>12, <1>16, <3>3, <3>4, AtLevelKnows
        <3>6. run' = [run EXCEPT ![p] = s]
            BY <1>1, <1>3, <1>4, <1>6, <1>15, <2>4, <3>5 DEF Assign
        <3> QED BY <1>2, <3>5, <3>6, QuietRun
    <2> QED BY <2>3, <2>4
<1> QED BY <1>14, <1>15

-----------------------------------------------------------------------------
(* The invariant of the runs *)

\* A step of something else than a run.
LEMMA OthersKnow ==
    ASSUME SearchInv, run' = run, Frozen, TypeOK'
    PROVE  SearchInv'
<1>1. ASSUME NEW q \in Payments PROVE Knows(run[q], PayerOf[q])'
    <2>1. PICK v \in RunType : v = run[q]
        BY DEF SearchInv, TypeOK
    <2>2. Knows(v, PayerOf[q])
        BY <2>1 DEF SearchInv
    <2>3. Knows(v, PayerOf[q])'
        BY <2>2, KnowsStays
    <2> QED BY <2>1, <2>3
<1> QED BY <1>1 DEF SearchInv

LEMMA InitSearch == ASSUME Init PROVE SearchInv
<1>1. NewRun \in RunType
    BY DEF NewRun, RunType, RunPCs, Rows
<1>2. TreeTypeOK
    BY RunAssumption DEF Init, TreeTypeOK, MoverType, Idle
<1>3. TypeOK
    BY <1>1, <1>2 DEF Init, TypeOK, Rows, FreezerType, Resting
<1>4. ASSUME NEW p \in Payments PROVE Knows(run[p], PayerOf[p])
    <2>1. PICK r : r = NewRun
        OBVIOUS
    <2>2. /\ r.pc = "new" /\ r.chain = <<>> /\ \A u \in Users : r.cache[u] = None
          /\ r.plan = None /\ \A l \in AllLevels : r.earner[l] = None
        BY <2>1 DEF NewRun
    <2>3. Knows(r, PayerOf[p])
        BY <2>2 DEF Knows, Past, Searching, SimpleChain, Levels
    <2>4. run[p] = r
        BY <2>1 DEF Init
    <2> QED BY <2>3, <2>4
<1> QED BY <1>3, <1>4 DEF SearchInv

\* The cron and the pages of the agents write a row that was not there, or none.
LEMMA FreezerKnows ==
    ASSUME SearchInv, NEW f \in Freezers,
           BeginFreezing(f) \/ FreezerCounts(f) \/ FreezerCreates(f)
    PROVE  SearchInv'
<1>1. PICK r \in FreezerType : r = freezer[f]
    BY DEF SearchInv, TypeOK
<1>2. TreeTypeOK' /\ UNCHANGED <<paying, plan, changes, run>>
    BY DEF SearchInv, TypeOK, TreeTypeOK, treeVars, BeginFreezing, FreezerCounts, FreezerCreates
<1>3. CASE BeginFreezing(f)
    <2>1. PICK u \in Users :
              freezer' = [freezer EXCEPT ![f] = [r EXCEPT !.pc = "count", !.plan = plan, !.user = u]]
        BY <1>1, <1>3 DEF BeginFreezing
    <2>4. [r EXCEPT !.pc = "count", !.plan = plan, !.user = u] \in FreezerType
        BY DEF SearchInv, TypeOK, FreezerType
    <2>2. freezer' \in [Freezers -> FreezerType] /\ snapshot' = snapshot
        BY <1>3, <2>1, <2>4 DEF SearchInv, TypeOK, BeginFreezing
    <2>3. TypeOK' /\ Frozen
        BY <1>2, <2>2 DEF SearchInv, TypeOK, Frozen
    <2> QED BY <1>2, <2>3, OthersKnow
<1>4. CASE FreezerCounts(f)
    <2>1. r.user \in Users \cup {None} /\ r.pc = "count"
        BY <1>1, <1>4 DEF FreezerType, FreezerCounts
    <2>2. PICK n \in Nat : n = ActiveDirects(r.user)
        BY <2>1, CountType DEF SearchInv
    <2>3. freezer' = [freezer EXCEPT ![f] = [r EXCEPT !.pc = "create", !.count = n]] /\ snapshot' = snapshot
        BY <1>1, <1>4, <2>2 DEF FreezerCounts
    <2>4. [r EXCEPT !.pc = "create", !.count = n] \in FreezerType
        BY DEF FreezerType
    <2>5. TypeOK' /\ Frozen
        BY <1>2, <2>3, <2>4 DEF SearchInv, TypeOK, Frozen
    <2> QED BY <1>2, <2>5, OthersKnow
<1>5. CASE FreezerCreates(f)
    <2>1. PICK c \in Row : c = Freeze(r.count, r.plan)
        BY FrozenType DEF FreezerType
    <2>2. snapshot' = IF snapshot[r.user] = None THEN [snapshot EXCEPT ![r.user] = c] ELSE snapshot
        BY <1>1, <1>5, <2>1 DEF FreezerCreates
    <2>3. snapshot' \in [Users -> Rows] /\ Frozen
        BY <2>2 DEF SearchInv, TypeOK, Frozen, Rows
    <2>4. freezer' \in [Freezers -> FreezerType]
        <3>1. CASE freezer' = [freezer EXCEPT ![f] = Resting]
            BY <3>1 DEF SearchInv, TypeOK, FreezerType, Resting
        <3>2. ASSUME NEW u \in Users,
                     freezer' = [freezer EXCEPT ![f].pc = "count", ![f].user = u, ![f].count = 0]
              PROVE  freezer' \in [Freezers -> FreezerType]
            BY <3>2 DEF SearchInv, TypeOK, FreezerType
        <3> QED BY <1>5, <3>1, <3>2 DEF FreezerCreates
    <2>5. TypeOK'
        BY <1>2, <2>3, <2>4 DEF SearchInv, TypeOK
    <2> QED BY <1>2, <2>3, <2>5, OthersKnow
<1> QED BY <1>3, <1>4, <1>5

LEMMA NextSearch == ASSUME SearchInv, Next PROVE SearchInv'
<1>1. ASSUME NEW m \in Movers, ChangeTree(m) PROVE SearchInv'
    <2>1. TreeNext /\ UNCHANGED <<paying, plan, snapshot, freezer, run>>
        BY <1>1 DEF ChangeTree, TreeNext
    <2>2. TreeTypeOK'
        BY <2>1, TreeTypeStep DEF SearchInv, TypeOK
    <2>3. changes' \in Nat
        BY <1>1 DEF ChangeTree, SearchInv, TypeOK
    <2>4. TypeOK' /\ Frozen
        BY <2>1, <2>2, <2>3 DEF SearchInv, TypeOK, Frozen
    <2> QED BY <2>1, <2>4, OthersKnow
<1>2. ASSUME NEW u \in Users, ChangeSubscription(u) PROVE SearchInv'
    <2>1. TreeTypeOK' /\ UNCHANGED <<plan, snapshot, freezer, run>>
        BY <1>2 DEF SearchInv, TypeOK, TreeTypeOK, treeVars, ChangeSubscription
    <2>2. paying' \subseteq Users /\ changes' \in Nat
        BY <1>2 DEF SearchInv, TypeOK, ChangeSubscription
    <2>3. TypeOK' /\ Frozen
        BY <2>1, <2>2 DEF SearchInv, TypeOK, Frozen
    <2> QED BY <2>1, <2>3, OthersKnow
<1>3. ASSUME NEW c \in Plans, ActivatePlan(c) PROVE SearchInv'
    <2>1. TreeTypeOK' /\ UNCHANGED <<paying, snapshot, freezer, run>> /\ plan' = c /\ changes' \in Nat
        BY <1>3 DEF SearchInv, TypeOK, TreeTypeOK, treeVars, ActivatePlan
    <2>2. TypeOK' /\ Frozen
        BY <2>1 DEF SearchInv, TypeOK, Frozen
    <2> QED BY <2>1, <2>2, OthersKnow
<1>5. ASSUME NEW f \in Freezers, BeginFreezing(f) \/ FreezerCounts(f) \/ FreezerCreates(f) PROVE SearchInv'
    BY <1>5, FreezerKnows
<1>4. ASSUME NEW p \in Payments, RunStep(p) PROVE SearchInv'
    BY <1>4, BeginKnows, ClimbKnows, LookUpKnows, CountKnows, CreateKnows, AssignKnows DEF RunStep
<1> QED BY <1>1, <1>2, <1>3, <1>4, <1>5 DEF Next

LEMMA SearchSpec == Spec => []SearchInv
<1>1. SearchInv /\ [Next]_vars => SearchInv'
    <2>1. ASSUME SearchInv, UNCHANGED vars PROVE SearchInv'
        <3>1. run' = run /\ TypeOK' /\ Frozen
            BY <2>1 DEF vars, treeVars, runVars, SearchInv, TypeOK, TreeTypeOK, Frozen
        <3> QED BY <2>1, <3>1, OthersKnow
    <2> QED BY <2>1, NextSearch
<1> QED BY <1>1, InitSearch, PTL DEF Spec

\* The state of the network, of the snapshots and of processPaymentCommissions
\* has the shape its declarations give it.
THEOREM RunTypeCorrect == Spec => []TypeOK
<1>1. SearchInv => TypeOK
    BY DEF SearchInv
<1> QED BY <1>1, SearchSpec, PTL

\* The visited set of the upline walk: nobody earns from their own payment and
\* nobody stands twice in an upline, whatever moves are under way above it.
THEOREM UplinesAreSimple == Spec => []UplineIsSimple
<1>1. SearchInv => UplineIsSimple
    BY DEF SearchInv, Knows, SimpleChain, UplineIsSimple
<1> QED BY <1>1, SearchSpec, PTL

\* A decided level went to the nearest qualified ancestor.
LEMMA DecidedIsNearest ==
    ASSUME NEW r \in RunType, NEW l \in Levels(r.plan), Decided(r, l)
    PROVE  r.earner[l] = NearestQualified(r.plan, r.chain, l)
<1> DEFINE able == {i \in l .. Len(r.chain) : FrozenQualified(r.plan, r.chain[i], l)}
<1>1. PICK n \in Nat : n = Len(r.chain)
    BY DEF RunType
<1>2. l \in Nat
    BY PlanLevels DEF RunType
<1>3. ASSUME NEW u, Refused(r.plan, u, l) PROVE ~FrozenQualified(r.plan, u, l)
    BY <1>3 DEF Refused, FrozenQualified
<1>4. CASE r.earner[l] = None /\ \A i \in l .. Len(r.chain) : Refused(r.plan, r.chain[i], l)
    <2>1. able = {}
        BY <1>3, <1>4
    <2> QED BY <1>4, <2>1 DEF NearestQualified
<1>5. CASE \E k \in l .. Len(r.chain) :
              /\ r.earner[l] = r.chain[k] /\ FrozenQualified(r.plan, r.chain[k], l)
              /\ \A i \in l .. (k - 1) : Refused(r.plan, r.chain[i], l)
    <2>1. PICK k \in l .. n :
              /\ r.earner[l] = r.chain[k] /\ FrozenQualified(r.plan, r.chain[k], l)
              /\ \A i \in l .. (k - 1) : Refused(r.plan, r.chain[i], l)
        BY <1>1, <1>5
    <2>2. k \in able /\ able \in SUBSET Nat
        BY <1>1, <1>2, <2>1
    <2>3. ASSUME NEW i \in able PROVE k <= i
        <3>1. i \in l .. n /\ FrozenQualified(r.plan, r.chain[i], l)
            BY <1>1, <2>3
        <3>2. i \notin l .. (k - 1)
            BY <1>3, <2>1, <3>1
        <3> QED BY <1>2, <2>1, <3>1, <3>2
    <2> HIDE DEF able
    <2>4. Min(able) = k
        BY <2>2, <2>3, MinIs
    <2>5. NearestQualified(r.plan, r.chain, l) = IF able = {} THEN None ELSE r.chain[Min(able)]
        BY DEF NearestQualified, able
    <2> QED BY <2>1, <2>2, <2>4, <2>5
<1> QED BY <1>4, <1>5 DEF Decided

\* The compression of processPaymentCommissions: when a run is over every level
\* has gone to the nearest ancestor whose frozen row unlocks it, it stays so
\* whatever is frozen and moved later, and a level nobody qualifies for is dropped.
THEOREM RunsCompress == Spec => []CompressesToNearest
<1>1. SearchInv => CompressesToNearest
    <2> SUFFICES ASSUME SearchInv, NEW p \in Payments, NEW l \in AllLevels, run[p].pc = "done"
                 PROVE  run[p].earner[l] = IF l \in Levels(run[p].plan)
                                           THEN NearestQualified(run[p].plan, run[p].chain, l) ELSE None
        BY DEF CompressesToNearest
    <2>1. PICK r \in RunType : r = run[p] /\ Knows(r, PayerOf[p])
        BY DEF SearchInv, TypeOK
    <2>2. CASE l \in Levels(r.plan)
        <3>1. Decided(r, l)
            BY <2>1, <2>2 DEF Knows, Past
        <3> QED BY <2>1, <2>2, <3>1, DecidedIsNearest
    <2>3. CASE l \notin Levels(r.plan)
        BY <2>1, <2>3 DEF Knows
    <2> QED BY <2>1, <2>2, <2>3
<1> QED BY <1>1, SearchSpec, PTL
=============================================================================
