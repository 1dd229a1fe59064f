---------------------------- MODULE ReferralTree ----------------------------
(***************************************************************************)
(* The sponsorship links of the referral network (User.referredByUserId)   *)
(* and the three functions that write them: processReferralOnRegistration  *)
(* of src/src/modules/network/network.service.ts, assignUpline and         *)
(* changeUpline of src/src/modules/network/admin.network.service.ts.  All  *)
(* three call assertNoSponsorCycle, which walks up from the new sponsor    *)
(* one query at a time, and then write the link without a condition.       *)
(***************************************************************************)
EXTENDS FiniteSets

CONSTANTS
    Users,   \* the users of the CRM; a new user has no sponsor
    None,    \* the SQL NULL
    Movers   \* requests that set a sponsor at the same time

ASSUME TreeAssumption == None \notin Users

VARIABLES
    sponsor, \* User.referredByUserId
    mover    \* what each request has checked so far

treeVars == <<sponsor, mover>>

MoverType == [pc : {"idle", "walk", "write"}, user : Users \cup {None},
              to : Users \cup {None}, cursor : Users \cup {None}, visited : SUBSET Users]

Idle == [pc |-> "idle", user |-> None, to |-> None, cursor |-> None, visited |-> {}]

TreeTypeOK ==
    /\ sponsor \in [Users -> Users \cup {None}]
    /\ mover \in [Movers -> MoverType]

TreeInit ==
    /\ sponsor = [u \in Users |-> None]
    /\ mover = [m \in Movers |-> Idle]

Allowed(user, to) == user # to

\* A request to make `to` the sponsor of `user`: a registration with a
\* referral code, or a move by an admin.
Propose(m) ==
    /\ mover[m].pc = "idle"
    /\ \E user, to \in Users :
        /\ Allowed(user, to)
        /\ mover' = [mover EXCEPT ![m] =
               [pc |-> "walk", user |-> user, to |-> to, cursor |-> to, visited |-> {}]]
    /\ UNCHANGED sponsor

\* Mutant: only the direct sponsor is compared.
ReachedAtOnce(m) == mover[m].cursor = mover[m].user /\ mover[m].visited = {}

Reached(m) == mover[m].cursor = mover[m].user

\* A loop that was there before ends the walk, like the root.
WalkOver(m) == mover[m].cursor = None \/ mover[m].cursor \in mover[m].visited

Refuse(m) ==
    /\ mover[m].pc = "walk" /\ Reached(m)
    /\ mover' = [mover EXCEPT ![m] = Idle]
    /\ UNCHANGED sponsor

WalkUp(m) ==
    /\ mover[m].pc = "walk" /\ ~Reached(m) /\ ~WalkOver(m)
    /\ mover' = [mover EXCEPT ![m].visited = @ \cup {mover[m].cursor},
                              ![m].cursor = sponsor[@]]
    /\ UNCHANGED sponsor

EndWalk(m) ==
    /\ mover[m].pc = "walk" /\ ~Reached(m) /\ WalkOver(m)
    /\ mover' = [mover EXCEPT ![m].pc = "write"]
    /\ UNCHANGED sponsor

SetSponsor(m) ==
    /\ mover[m].pc = "write"
    /\ sponsor' = [sponsor EXCEPT ![mover[m].user] = mover[m].to]
    /\ mover' = [mover EXCEPT ![m] = Idle]

TreeStep(m) == Propose(m) \/ Refuse(m) \/ WalkUp(m) \/ EndWalk(m) \/ SetSponsor(m)

TreeNext == \E m \in Movers : TreeStep(m)

TreeSpec == TreeInit /\ [][TreeNext]_treeVars

-----------------------------------------------------------------------------
(* Properties *)

\* A set of users whose sponsors are all in the set has no way to a root: it
\* holds a cycle, and in a finite network every cycle is such a set.
Rootless(S) == S # {} /\ \A u \in S : sponsor[u] \in S

\* "A user can never become the sponsor of one of their own ancestors": every
\* upline ends at a root, so the walks of the network end too.
Acyclic == \A S \in SUBSET Users : ~Rootless(S)

\* Anti-cycle validation: whatever the network was like before, a registration
\* or a move closes no cycle that was not there, above the moved user or below.
NoNewCycle ==
    [][\A S \in SUBSET Users : Rootless(S)' => \E T \in SUBSET S : Rootless(T)]_sponsor
=============================================================================
