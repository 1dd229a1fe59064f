-------------------------- MODULE ClientSessionProofs --------------------------
(***************************************************************************)
(* The session of a tab, for any number of calls, logins, expired tokens   *)
(* and lost refreshes: calls share one refresh (OneRefresh), and as long   *)
(* as no logout leaves calls behind the stored session is the shown one    *)
(* and ends for a reason only.                                             *)
(***************************************************************************)
EXTENDS ClientSession, TLAPS

\* A session that names no login is no session.
Named(s) == s.login = 0 => s = NoSession

\* What holds as long as no logout left calls behind, on a page that is not
\* being left: no promise of null is kept, and calls, profile forms and the
\* refresh are those of the session the pages show.
Orderly ==
    /\ promise # "null"
    /\ \A r \in Profiles : InFlight(r) => call[r].user.login = shown.login
    /\ (\E r \in Requests : InFlight(r)) => path = "app" /\ stored # NoSession
    /\ stored.login = shown.login
    /\ \A f \in fetching : f.session.login = stored.login

SessionInv ==
    /\ TypeOK
    /\ OneRefresh
    /\ Named(stored) /\ Named(shown)
    /\ \A f \in fetching : f.session.login # 0
    /\ \A r \in Requests : Named(call[r].user)
    /\ calm /\ path # "leaving" => Orderly

\* The initial state is a tab without a session.
LEMMA InitInv == Init => SessionInv
  <1> SUFFICES ASSUME Init PROVE SessionInv
    OBVIOUS
  <1>1. TypeOK
    BY DEF Init, TypeOK, Session, NoSession, CallType, Unsent
  <1> QED
    BY <1>1, SessionAssumption DEF Init, Unsent, SessionInv, OneRefresh, Named, Orderly, InFlight, Waiting

\* A call that has ended is one of its type.
LEMMA EndedType == Ended \in CallType
  BY DEF Ended, Unsent, CallType, Session, NoSession

\* The end of a session keeps the types.
LEMMA ExpiredType ==
  ASSUME TypeOK, NEW over, HandleSessionExpired(over)
  PROVE  /\ stored' \in Session /\ shown' \in Session /\ path' \in {"app", "leaving", "login"}
         /\ call' \in [Requests -> CallType]
  <1>1. stored' \in Session /\ shown' \in Session /\ path' \in {"app", "leaving", "login"}
    BY DEF HandleSessionExpired, TypeOK, Session, NoSession
  <1>2. call' \in [Requests -> CallType]
    BY EndedType DEF HandleSessionExpired, TypeOK
  <1> QED
    BY <1>1, <1>2

\* Every step keeps the types.
LEMMA TypeStep == TypeOK /\ [Next]_vars => TypeOK'
  <1> SUFFICES ASSUME TypeOK, [Next]_vars PROVE TypeOK'
    OBVIOUS
  <1> USE DEF TypeOK
  <1>1. CASE Login
    BY <1>1 DEF Login, Session
  <1>2. CASE Logout
    BY <1>2 DEF Logout, Session, NoSession, server
  <1>3. CASE Navigate
    BY <1>3 DEF Navigate, server
  <1>4. CASE Reload
    BY <1>4, EndedType DEF Reload, Load, server
  <1>4a. CASE Unload
    BY <1>4a, EndedType DEF Unload, Load, server
  <1>5. ASSUME NEW r \in Requests, Send(r) PROVE TypeOK'
    BY <1>5 DEF Send, CallType, Session, NoSession, server
  <1>6. ASSUME NEW r \in Requests, Accepted(r) PROVE TypeOK'
    <2>1. call[r].user \in Session
      BY <1>6 DEF CallType
    <2> QED
      BY <1>6, <2>1, EndedType DEF Accepted, server
  <1>7. ASSUME NEW r \in Requests, RefusedAgain(r) PROVE TypeOK'
    BY <1>7, EndedType DEF RefusedAgain, server
  <1>8. ASSUME NEW r \in Requests, StartRefresh(r) PROVE TypeOK'
    BY <1>8 DEF StartRefresh, CallType, Refresh, server
  <1>9. ASSUME NEW r \in Requests, ShareRefresh(r) PROVE TypeOK'
    BY <1>9 DEF ShareRefresh, CallType, server
  <1>10. ASSUME NEW r \in Requests, NoRefresh(r) PROVE TypeOK'
    BY <1>10, ExpiredType DEF NoRefresh, server
  <1>11. ASSUME NEW f \in fetching, RefreshSucceeds(f) PROVE TypeOK'
    <2>1. issued' \in Nat /\ stored' \in Session /\ fetching' \subseteq Refresh
      BY <1>11 DEF RefreshSucceeds, Refresh, Session
    <2>2. call' \in [Requests -> CallType]
      <3>1. ASSUME NEW q \in Requests PROVE Again(q, issued') \in CallType
        BY <2>1 DEF Again, CallType
      <3> QED
        BY <1>11, <3>1 DEF RefreshSucceeds
    <2> QED
      BY <1>11, <2>1, <2>2 DEF RefreshSucceeds
  <1>12. ASSUME NEW f \in fetching, RefreshFails(f) PROVE TypeOK'
    BY <1>12, ExpiredType DEF RefreshFails, server
  <1>13. CASE \E token \in 1 .. issued : ExpireAccess(token)
    BY <1>13 DEF ExpireAccess, tab
  <1>14. CASE \E login \in 1 .. logins : ExpireRefresh(login)
    BY <1>14 DEF ExpireRefresh, tab
  <1>15. CASE UNCHANGED vars
    BY <1>15 DEF vars, tab, server
  <1> QED
    BY <1>1, <1>2, <1>3, <1>4, <1>4a, <1>5, <1>6, <1>7, <1>8, <1>9, <1>10, <1>11, <1>12,
       <1>13, <1>14, <1>15 DEF Next, Answered, RefreshEnds

\* While the pages are orderly, a refused call never finds the session gone
\* or a promise of null.
LEMMA RefreshIsFound ==
  ASSUME SessionInv, calm, path # "leaving", NEW r \in Requests
  PROVE  ~NoRefresh(r)
  BY DEF SessionInv, Orderly, NoRefresh, Refused, InFlight

\* A refresh that is under way is the only one, somebody waits for it, and in
\* an orderly tab it refreshes the session of the pages.
LEMMA RefreshIsWaitedFor ==
  ASSUME SessionInv, NEW f \in fetching
  PROVE  /\ fetching = {f} /\ promise = "pending"
         /\ \E r \in Requests : Waiting(r)
         /\ calm /\ path # "leaving" => path = "app" /\ stored # NoSession /\ f.session.login = stored.login
  BY DEF SessionInv, OneRefresh, Orderly, InFlight, Waiting

\* Every step keeps the invariant.
LEMMA StepInv == SessionInv /\ [Next]_vars => SessionInv'
  <1> SUFFICES ASSUME SessionInv, [Next]_vars PROVE SessionInv'
    OBVIOUS
  <1>0. TypeOK /\ TypeOK'
    BY TypeStep DEF SessionInv
  <1> USE <1>0
  <1>0a. \A r \in Requests : call[r] \in CallType /\ call[r].user \in Session
    BY DEF TypeOK, CallType
  <1>1. CASE Login
    <2>1. \A r \in Requests : calm => ~InFlight(r)
      BY <1>1 DEF Login, SessionInv, Orderly
    <2>2. calm => fetching = {}
      BY <2>1 DEF SessionInv, OneRefresh, InFlight, Waiting
    <2>3. stored'.login # 0
      BY <1>1 DEF Login, TypeOK
    <2> QED
      BY <1>1, <2>1, <2>2, <2>3, SessionAssumption
      DEF Login, SessionInv, OneRefresh, Orderly, Named, InFlight, Waiting, NoSession
  <1>2. CASE Logout
    <2>1. calm' => \A r \in Requests : ~InFlight(r)
      BY <1>2 DEF Logout
    <2>2. calm' => fetching = {}
      BY <2>1 DEF SessionInv, OneRefresh, InFlight, Waiting
    <2> QED
      BY <1>2, <2>1, <2>2, SessionAssumption
      DEF Logout, SessionInv, OneRefresh, Orderly, Named, InFlight, Waiting, NoSession, server
  <1>3. CASE Navigate
    <2>1. calm /\ path # "leaving" /\ shown = NoSession => \A r \in Requests : ~InFlight(r)
      BY DEF SessionInv, Orderly, Named, NoSession
    <2> QED
      BY <1>3, <2>1, SessionAssumption DEF Navigate, SessionInv, OneRefresh, Orderly, Named, InFlight, Waiting, server
  <1>4. CASE Reload \/ Unload
    <2>1. /\ promise' = "none" /\ fetching' = {} /\ stored' = stored /\ shown' = stored
          /\ call' = [r \in Requests |-> IF InFlight(r) THEN Ended ELSE call[r]]
      BY <1>4 DEF Reload, Unload, Load
    <2>2. \A r \in Requests : ~InFlight(r)' /\ Named(call'[r].user)
      BY <2>1 DEF SessionInv, InFlight, Ended, Unsent, Named, NoSession
    <2> QED
      BY <2>1, <2>2, SessionAssumption DEF SessionInv, OneRefresh, Orderly, Named, InFlight, Waiting
  <1>5. ASSUME NEW r \in Requests, Send(r) PROVE SessionInv'
    <2>1. \A q \in Requests : Waiting(q)' <=> Waiting(q)
      BY <1>5 DEF Send, Waiting, TypeOK
    <2>2. \A q \in Requests : q # r => call'[q] = call[q]
      BY <1>5 DEF Send, TypeOK
    <2>3. call'[r].user = (IF r \in Profiles THEN shown ELSE NoSession)
      BY <1>5 DEF Send, TypeOK
    <2>4. \A q \in Requests : Named(call'[q].user)
      BY <2>2, <2>3 DEF SessionInv, Named
    <2>5. ASSUME calm, path # "leaving" PROVE Orderly'
      <3>1. \A q \in Profiles : InFlight(q)' => call'[q].user.login = shown.login
        BY <2>2, <2>3, <2>5, SessionAssumption DEF SessionInv, Orderly, InFlight
      <3> QED
        BY <1>5, <2>5, <3>1 DEF Send, SessionInv, Orderly, server
    <2> QED
      BY <1>5, <2>1, <2>4, <2>5 DEF Send, SessionInv, OneRefresh, Named, server
  <1>6. ASSUME NEW r \in Requests, Accepted(r) PROVE SessionInv'
    <2>1. \A q \in Requests : Waiting(q)' <=> Waiting(q)
      BY <1>6 DEF Accepted, Ended, Unsent, Waiting, TypeOK
    <2>2. /\ \A q \in Requests : q # r => call'[q] = call[q]
          /\ ~InFlight(r)' /\ InFlight(r) /\ Named(call'[r].user)
      BY <1>6 DEF Accepted, Ended, Unsent, InFlight, Named, NoSession, TypeOK
    <2>3. Named(stored)' /\ Named(shown)' /\ \A q \in Requests : Named(call'[q].user)
      BY <1>6, <2>2 DEF Accepted, SessionInv, Named
    <2>4. ASSUME calm, path # "leaving" PROVE Orderly'
      <3>1. stored # NoSession /\ stored.login # 0 /\ stored.login = shown.login
        BY <2>2, <2>4 DEF SessionInv, Orderly, Named
      <3>2. stored'.login = stored.login /\ shown'.login = stored.login
        BY <1>6, <2>2, <2>4, <3>1 DEF Accepted, SessionInv, Orderly
      <3>3. stored' # NoSession
        BY <3>1, <3>2 DEF NoSession
      <3>4. \A q \in Requests : InFlight(q)' => InFlight(q) /\ call'[q] = call[q]
        BY <2>2 DEF InFlight
      <3> QED
        BY <1>6, <2>2, <2>4, <3>1, <3>2, <3>3, <3>4, SessionAssumption DEF Accepted, SessionInv, Orderly, server
    <2> QED
      BY <1>6, <2>1, <2>3, <2>4 DEF Accepted, SessionInv, OneRefresh, Named, server
  <1>7. ASSUME NEW r \in Requests, RefusedAgain(r) PROVE SessionInv'
    <2>1. \A q \in Requests : Waiting(q)' <=> Waiting(q)
      BY <1>7 DEF RefusedAgain, Refused, Ended, Unsent, Waiting, TypeOK
    <2>2. \A q \in Requests : /\ InFlight(q)' => InFlight(q) /\ call'[q] = call[q]
                              /\ Named(call'[q].user)
      BY <1>7 DEF RefusedAgain, Ended, Unsent, InFlight, SessionInv, Named, NoSession, TypeOK
    <2> QED
      BY <1>7, <2>1, <2>2, SessionAssumption DEF RefusedAgain, SessionInv, OneRefresh, Orderly, Named, server
  <1>8. ASSUME NEW r \in Requests, StartRefresh(r) PROVE SessionInv'
    <2>1. fetching' = {[by |-> r, session |-> stored]} /\ promise' = "pending"
      BY <1>8 DEF StartRefresh, Shared, SessionInv, OneRefresh
    <2>2. Waiting(r)' /\ InFlight(r)
      BY <1>8 DEF StartRefresh, Refused, Waiting, InFlight, TypeOK
    <2>3. stored.login # 0
      BY <1>8 DEF StartRefresh, SessionInv, Named
    <2>4. OneRefresh'
      BY <2>1, <2>2 DEF OneRefresh
    <2>5. \A q \in Requests : call'[q].user = call[q].user /\ (InFlight(q)' => InFlight(q))
      BY <1>8, <2>2 DEF StartRefresh, InFlight, TypeOK, CallType
    <2>6. calm /\ path # "leaving" => Orderly'
      BY <1>8, <2>1, <2>2, <2>5, SessionAssumption DEF StartRefresh, SessionInv, Orderly
    <2> QED
      BY <1>8, <2>1, <2>3, <2>4, <2>5, <2>6 DEF StartRefresh, SessionInv, Named
  <1>9. ASSUME NEW r \in Requests, ShareRefresh(r) PROVE SessionInv'
    <2>1. Waiting(r)' /\ InFlight(r)
      BY <1>9 DEF ShareRefresh, Refused, Waiting, InFlight, TypeOK
    <2>2. \A q \in Requests : call'[q].user = call[q].user /\ (InFlight(q)' => InFlight(q))
      BY <1>9, <2>1 DEF ShareRefresh, InFlight, TypeOK, CallType
    <2> QED
      BY <1>9, <2>1, <2>2, SessionAssumption
      DEF ShareRefresh, Shared, SessionInv, OneRefresh, Orderly, Named, server
  <1>10. ASSUME NEW r \in Requests, NoRefresh(r) PROVE SessionInv'
    <2>1. promise # "pending" /\ promise' # "pending" /\ fetching = {} /\ fetching' = {}
      BY <1>10 DEF NoRefresh, SessionInv, OneRefresh
    <2>2. \A q \in Requests : ~Waiting(q)
      BY <2>1 DEF SessionInv, OneRefresh
    <2>3. \A q \in Requests : ~Waiting(q)' /\ Named(call'[q].user)
      BY <1>10, <2>2 DEF NoRefresh, HandleSessionExpired, Waiting, Ended, Unsent, SessionInv, Named, NoSession
    <2>4. ~(calm' /\ path' # "leaving")
      BY <1>10, RefreshIsFound DEF NoRefresh, HandleSessionExpired
    <2> QED
      BY <1>10, <2>1, <2>3, <2>4
      DEF NoRefresh, HandleSessionExpired, SessionInv, OneRefresh, Named, NoSession
  <1>11. ASSUME NEW f \in fetching, RefreshSucceeds(f) PROVE SessionInv'
    <2>1. promise' = "none" /\ fetching' = {}
      BY <1>11, RefreshIsWaitedFor DEF RefreshSucceeds
    <2>2. \A q \in Requests : /\ ~Waiting(q)' /\ call'[q].user = call[q].user
                              /\ InFlight(q)' => InFlight(q)
      BY <1>0a, <1>11 DEF RefreshSucceeds, Waiting, InFlight, Again, CallType
    <2>3. stored'.login = f.session.login /\ stored'.login # 0
      BY <1>11 DEF RefreshSucceeds, SessionInv, TypeOK, Refresh, Session
    <2>4. UNCHANGED <<shown, path, calm>>
      BY <1>11 DEF RefreshSucceeds
    <2>5. ASSUME calm, path # "leaving" PROVE Orderly'
      <3>1. path = "app" /\ f.session.login = stored.login /\ Orderly
        BY <2>5, RefreshIsWaitedFor DEF SessionInv
      <3>2. stored' # NoSession
        BY <2>3 DEF NoSession
      <3>3. \A q \in Profiles : InFlight(q)' => call'[q].user.login = shown.login
        BY <2>2, <3>1, SessionAssumption DEF Orderly
      <3> QED
        BY <2>1, <2>3, <2>4, <3>1, <3>2, <3>3 DEF Orderly
    <2>6. OneRefresh'
      BY <2>1, <2>2 DEF OneRefresh
    <2>7. Named(stored)' /\ Named(shown)' /\ \A q \in Requests : Named(call'[q].user)
      BY <2>2, <2>3, <2>4 DEF SessionInv, Named
    <2> QED
      BY <2>1, <2>4, <2>5, <2>6, <2>7 DEF SessionInv
  <1>12. ASSUME NEW f \in fetching, RefreshFails(f) PROVE SessionInv'
    <2>1. promise' = "none" /\ fetching' = {}
      BY <1>12, RefreshIsWaitedFor DEF RefreshFails
    <2>2. \A q \in Requests : ~Waiting(q)' /\ Named(call'[q].user)
      BY <1>12 DEF RefreshFails, HandleSessionExpired, WhoWaited, Waiting, Ended, Unsent, SessionInv, Named,
                   NoSession
    <2>3. stored' = NoSession /\ shown' = shown
      BY <1>12 DEF RefreshFails, HandleSessionExpired
    <2>4. ~(calm' /\ path' # "leaving")
      BY <1>12, RefreshIsWaitedFor DEF RefreshFails, HandleSessionExpired
    <2> QED
      BY <2>1, <2>2, <2>3, <2>4 DEF SessionInv, OneRefresh, Named
  <1>13. CASE \E token \in 1 .. issued : ExpireAccess(token)
    BY <1>13 DEF ExpireAccess, tab, SessionInv, OneRefresh, Orderly, Named, InFlight, Waiting
  <1>14. CASE \E login \in 1 .. logins : ExpireRefresh(login)
    BY <1>14 DEF ExpireRefresh, tab, SessionInv, OneRefresh, Orderly, Named, InFlight, Waiting
  <1>15. CASE UNCHANGED vars
    BY <1>15 DEF vars, tab, SessionInv, OneRefresh, Orderly, Named, InFlight, Waiting
  <1> QED
    BY <1>1, <1>2, <1>3, <1>4, <1>5, <1>6, <1>7, <1>8, <1>9, <1>10, <1>11, <1>12,
       <1>13, <1>14, <1>15 DEF Next, Answered, RefreshEnds

\* The inductive invariant holds of every history of the tab.
LEMMA Invariant == Spec => []SessionInv
  BY InitInv, StepInv, PTL DEF Spec

\* However many calls are refused at once, and whatever a logout, a reload
\* or a lost answer does between them, they share one refresh, and no call
\* waits for a refresh that is not under way
\* (src/frontend/lib/api.ts, refreshAccessToken).
THEOREM CallsShareOneRefresh == Spec => []OneRefresh
  <1>1. SessionInv => OneRefresh
    BY DEF SessionInv
  <1> QED
    BY <1>1, Invariant, PTL

\* As long as no logout leaves calls behind, and on any page that has not been
\* left for the login page, neither a refresh nor the profile form stores
\* another login than the one the pages show (components/forms/ProfileForm.tsx,
\* handleSave).
THEOREM NoOtherSessionComesBack == Spec => []StoredIsShown
  <1>1. SessionInv => StoredIsShown
    BY DEF SessionInv, Orderly, StoredIsShown
  <1> QED
    BY <1>1, Invariant, PTL

\* A step of an orderly tab that ends the session has a reason.
LEMMA StepKeepsSession ==
  ASSUME SessionInv, [Next]_vars, calm, path # "leaving", stored # NoSession, stored' = NoSession
  PROVE  Logout \/ stored.login \in dead \/ failures' # failures
  <1>0. TypeOK
    BY DEF SessionInv
  <1>1. CASE Login
    BY <1>0, <1>1 DEF Login, NoSession, TypeOK
  <1>2. ASSUME NEW r \in Requests, Send(r) \/ Answered(r) PROVE FALSE
    <2>1. CASE Accepted(r) /\ r \in Profiles
      <3>1. call[r].user.login = shown.login /\ stored.login = shown.login /\ stored.login # 0
        BY <2>1 DEF Accepted, SessionInv, Orderly, InFlight, Named
      <3> QED
        BY <2>1, <3>1 DEF Accepted, NoSession
    <2>2. CASE ~(Accepted(r) /\ r \in Profiles)
      BY <1>2, <2>2, RefreshIsFound DEF Send, Answered, Accepted, RefusedAgain, StartRefresh, ShareRefresh
    <2> QED
      BY <2>1, <2>2
  <1>3. ASSUME NEW f \in fetching, RefreshSucceeds(f) PROVE FALSE
    <2>1. stored'.login = f.session.login
      BY <1>0, <1>3 DEF RefreshSucceeds, TypeOK, Refresh, Session
    <2> QED
      BY <2>1 DEF SessionInv, NoSession
  <1>4. ASSUME NEW f \in fetching, RefreshFails(f) PROVE stored.login \in dead \/ failures' # failures
    <2>1. f.session.login = stored.login
      BY RefreshIsWaitedFor
    <2>2. failures' = failures + 1 => failures' # failures
      BY <1>0 DEF TypeOK
    <2> QED
      BY <1>4, <2>1, <2>2 DEF RefreshFails
  <1> QED
    BY <1>1, <1>2, <1>3, <1>4
    DEF Next, RefreshEnds, Navigate, Reload, Unload, Load, ExpireAccess, ExpireRefresh, tab, vars

\* However many calls find the access token expired at once: as long as no
\* logout leaves calls behind, and on any page that has not been left for the
\* login page, a session ends only by a logout, a dead refresh token or a lost
\* refresh (src/frontend/lib/api.ts, request).
THEOREM SessionsEndForAReason == Spec => ValidSessionKept
  <1>1. SessionInv /\ [Next]_vars =>
          [calm /\ path # "leaving" /\ stored # NoSession /\ stored' = NoSession
             => Logout \/ stored.login \in dead \/ failures' # failures]_vars
    BY StepKeepsSession
  <1> QED
    BY <1>1, Invariant, PTL DEF Spec, ValidSessionKept
================================================================================
