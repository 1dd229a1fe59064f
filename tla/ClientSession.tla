---------------------------- MODULE ClientSession ----------------------------
(***************************************************************************)
(* The session of a browser tab: ApiClient.request, its single-flight      *)
(* refresh of the access token and the end of a session                    *)
(* (src/frontend/lib/api.ts), login, logout and the profile form           *)
(* (src/frontend/lib/auth-context.tsx, components/forms/ProfileForm.tsx),  *)
(* against the two kinds of token the server issues (src/src/modules/auth/ *)
(* auth.service.ts): access tokens that expire soon and a refresh token    *)
(* per login that expires late.                                            *)
(*                                                                         *)
(* JavaScript runs to completion: an action is what happens from one       *)
(* network answer or click to the next await, with the promise reactions   *)
(* that follow at once.                                                    *)
(***************************************************************************)
EXTENDS Naturals

CONSTANTS
    Requests,   \* API calls the pages make, each once
    Profiles,   \* those of them that save the profile form
    MaxLogins,  \* logins in this tab
    MaxFailures \* refresh calls lost by the network

ASSUME SessionAssumption ==
    /\ Profiles \subseteq Requests
    /\ MaxLogins \in Nat /\ MaxFailures \in Nat

VARIABLES
    stored,   \* "auth-user" in sessionStorage
    shown,    \* the user of AuthContext
    path,     \* the page the tab is at, or that the browser is leaving it
    promise,  \* refreshPromise
    fetching, \* refresh calls under way: who began each, and with which session
    call,     \* what each API call is waiting for
    issued,   \* access tokens issued so far
    expired,  \* access tokens that have expired
    dead,     \* logins whose refresh token is no longer good
    logins,   \* logins so far
    failures, \* refresh calls lost so far
    calm      \* history: every logout found no call under way

tab == <<stored, shown, path, promise, fetching, call>>
server == <<issued, expired, dead, logins>>
vars == <<tab, server, failures, calm>>

-----------------------------------------------------------------------------
(* State *)

Session == [login : Nat, token : Nat]
NoSession == [login |-> 0, token |-> 0]
Refresh == [by : Requests, session : Session]

\* The profile form keeps the user it was shown with.
CallType == [pc : {"new", "sent", "waiting", "done"}, token : Nat, retry : BOOLEAN, user : Session]
Unsent == [pc |-> "new", token |-> 0, retry |-> FALSE, user |-> NoSession]
Ended == [Unsent EXCEPT !.pc = "done"]

TypeOK ==
    /\ stored \in Session /\ shown \in Session /\ path \in {"app", "leaving", "login"}
    /\ promise \in {"none", "pending", "null"} /\ fetching \subseteq Refresh
    /\ call \in [Requests -> CallType]
    /\ issued \in Nat /\ expired \subseteq Nat /\ dead \subseteq Nat /\ logins \in Nat
    /\ failures \in Nat /\ calm \in BOOLEAN

Init ==
    /\ stored = NoSession /\ shown = NoSession /\ path = "login"
    /\ promise = "none" /\ fetching = {}
    /\ call = [r \in Requests |-> Unsent]
    /\ issued = 0 /\ expired = {} /\ dead = {} /\ logins = 0 /\ failures = 0
    /\ calm = TRUE

InFlight(r) == call[r].pc \in {"sent", "waiting"}
Waiting(r) == call[r].pc = "waiting"
Again(r, token) == [call[r] EXCEPT !.pc = "sent", !.token = token, !.retry = TRUE]

-----------------------------------------------------------------------------
(* The user *)

Login ==
    /\ path = "login" /\ shown = NoSession
    /\ logins < MaxLogins
    /\ logins' = logins + 1 /\ issued' = issued + 1
    /\ stored' = [login |-> logins', token |-> issued']
    /\ shown' = stored'
    /\ UNCHANGED <<path, promise, fetching, call, expired, dead, failures, calm>>

\* Neither calls nor a refresh under way are given up.
Logout ==
    /\ path = "app" /\ shown # NoSession
    /\ stored' = NoSession /\ shown' = NoSession
    /\ calm' = (calm /\ \A r \in Requests : ~InFlight(r))
    /\ UNCHANGED <<path, promise, fetching, call, server, failures>>

\* router.push changes the page and keeps the module's state.
Navigate ==
    /\ path # "leaving" /\ path # (IF shown = NoSession THEN "login" ELSE "app")
    /\ path' = IF path = "app" THEN "login" ELSE "app"
    /\ UNCHANGED <<stored, shown, promise, fetching, call, server, failures, calm>>

\* A page that is loaded again knows only what is in sessionStorage, and
\* drops what was under way.
Load(session) ==
    /\ stored' = session /\ shown' = session
    /\ promise' = "none" /\ fetching' = {}
    /\ call' = [r \in Requests |-> IF InFlight(r) THEN Ended ELSE call[r]]

Reload ==
    /\ Load(stored)
    /\ UNCHANGED <<path, server, failures, calm>>

\* After an expiry the browser has fetched the login page.
Unload ==
    /\ path = "leaving"
    /\ path' = "login"
    /\ Load(stored)
    /\ UNCHANGED <<server, failures, calm>>

-----------------------------------------------------------------------------
(* request *)

\* A page calls the API with the stored access token.
Send(r) ==
    /\ call[r].pc = "new" /\ path = "app" /\ stored # NoSession
    /\ call' = [call EXCEPT ![r] = [pc |-> "sent", token |-> stored.token, retry |-> FALSE,
                                   user |-> IF r \in Profiles THEN shown ELSE NoSession]]
    /\ UNCHANGED <<stored, shown, path, promise, fetching, server, failures, calm>>

\* The call succeeds.  The profile form then makes the user it was shown with
\* the user of AuthContext and stores it, with the tokens it has.
Accepted(r) ==
    /\ call[r].pc = "sent" /\ call[r].token \notin expired
    /\ call' = [call EXCEPT ![r] = Ended]
    /\ IF r \in Profiles
       THEN stored' = call[r].user /\ shown' = call[r].user
       ELSE UNCHANGED <<stored, shown>>
    /\ UNCHANGED <<path, promise, fetching, server, failures, calm>>

\* Mutant: the page is not loaded again.
ExpireInPlace(over) ==
    /\ stored' = NoSession
    /\ call' = [q \in Requests |-> IF q \in over THEN Ended ELSE call[q]]
    /\ UNCHANGED <<shown, path>>

\* handleSessionExpired, for the calls it ends: from any page but the login
\* page the browser is sent to that page, and goes on until it has it.
HandleSessionExpired(over) ==
    /\ stored' = NoSession
    /\ path' = IF path = "login" THEN path ELSE "leaving"
    /\ call' = [q \in Requests |-> IF q \in over THEN Ended ELSE call[q]]
    /\ UNCHANGED shown

Refused(r) == call[r].pc = "sent" /\ call[r].token \in expired

\* Mutant: a second refusal ends the session.
ExpireOnSecondRefusal(r) ==
    /\ Refused(r) /\ call[r].retry
    /\ HandleSessionExpired({r})
    /\ UNCHANGED <<promise, fetching, server, failures, calm>>

\* A call is retried once.
RefusedAgain(r) ==
    /\ Refused(r) /\ call[r].retry
    /\ call' = [call EXCEPT ![r] = Ended]
    /\ UNCHANGED <<stored, shown, path, promise, fetching, server, failures, calm>>

\* Mutant: whoever is refused starts a refresh of its own.
NeverShared == FALSE

Shared == promise = "pending"

\* refreshAccessToken: the first call that is refused starts a refresh ...
StartRefresh(r) ==
    /\ Refused(r) /\ ~call[r].retry
    /\ ~Shared /\ promise # "null" /\ stored # NoSession
    /\ promise' = "pending" /\ fetching' = fetching \cup {[by |-> r, session |-> stored]}
    /\ call' = [call EXCEPT ![r].pc = "waiting"]
    /\ UNCHANGED <<stored, shown, path, server, failures, calm>>

\* ... and the others wait for it.
ShareRefresh(r) ==
    /\ Refused(r) /\ ~call[r].retry /\ Shared
    /\ call' = [call EXCEPT ![r].pc = "waiting"]
    /\ UNCHANGED <<stored, shown, path, promise, fetching, server, failures, calm>>

\* With nothing in sessionStorage the function returns before its first
\* await.  Its finally block runs before the promise is assigned, so the
\* promise of null stays where every later refresh will find it.
NoRefresh(r) ==
    /\ Refused(r) /\ ~call[r].retry
    /\ promise = "null" \/ (promise = "none" /\ stored = NoSession)
    /\ promise' = "null"
    /\ HandleSessionExpired({r})
    /\ UNCHANGED <<fetching, server, failures, calm>>

\* The new access token is stored with the session the refresh began with,
\* and every call that waited is sent again.
RefreshSucceeds(f) ==
    /\ f \in fetching /\ f.session.login \notin dead
    /\ issued' = issued + 1
    /\ stored' = [f.session EXCEPT !.token = issued']
    /\ promise' = "none" /\ fetching' = fetching \ {f}
    /\ call' = [r \in Requests |-> IF Waiting(r) THEN Again(r, issued') ELSE call[r]]
    /\ UNCHANGED <<shown, path, expired, dead, logins, failures, calm>>

\* Mutant: the calls that waited for a refresh that failed are forgotten.
FirstOnly == {}

WhoWaited == {r \in Requests : Waiting(r)}

\* The refresh is refused or lost: the session has expired.
RefreshFails(f) ==
    /\ f \in fetching
    /\ \/ f.session.login \in dead /\ UNCHANGED failures
       \/ failures < MaxFailures /\ failures' = failures + 1
    /\ promise' = "none" /\ fetching' = fetching \ {f}
    /\ HandleSessionExpired(WhoWaited)
    /\ UNCHANGED <<server, calm>>

-----------------------------------------------------------------------------
(* The server *)

ExpireAccess(token) ==
    /\ token \in 1 .. issued /\ token \notin expired
    /\ expired' = expired \cup {token}
    /\ UNCHANGED <<tab, issued, dead, logins, failures, calm>>

\* The refresh token expires, or the account is deactivated.
ExpireRefresh(login) ==
    /\ login \in 1 .. logins /\ login \notin dead
    /\ dead' = dead \cup {login}
    /\ UNCHANGED <<tab, issued, expired, logins, failures, calm>>

-----------------------------------------------------------------------------
(* The specification *)

Answered(r) == Accepted(r) \/ RefusedAgain(r) \/ StartRefresh(r) \/ ShareRefresh(r) \/ NoRefresh(r)
RefreshEnds == \E f \in fetching : RefreshSucceeds(f) \/ RefreshFails(f)

Next ==
    \/ Login \/ Logout \/ Navigate \/ Reload \/ Unload
    \/ \E r \in Requests : Send(r) \/ Answered(r)
    \/ RefreshEnds
    \/ \E token \in 1 .. issued : ExpireAccess(token)
    \/ \E login \in 1 .. logins : ExpireRefresh(login)

Spec == Init /\ [][Next]_vars

\* The network answers, or the browser gives up.
FairSpec == Spec /\ WF_vars(RefreshEnds) /\ \A r \in Requests : WF_vars(Answered(r))

-----------------------------------------------------------------------------
(* Properties *)

\* Concurrent refusals share one refresh call: there is never a second, and
\* every call that waits has one to wait for.
OneRefresh ==
    /\ \A f, g \in fetching : f = g
    /\ promise = "pending" <=> fetching # {}
    /\ (\E r \in Requests : Waiting(r)) <=> promise = "pending"

\* A session ends only when the user logs out, its refresh token is no
\* longer good, or the refresh call is lost, however many calls find the
\* access token expired at once, as long as no logout leaves calls behind and
\* on any page that has not been left for the login page.
ValidSessionKept ==
    [][calm /\ path # "leaving" /\ stored # NoSession /\ stored' = NoSession
         => Logout \/ stored.login \in dead \/ failures' # failures]_vars

\* The session in sessionStorage is the one the pages show: no refresh and
\* no profile form brings another one back, under the same two conditions.
StoredIsShown == calm /\ path # "leaving" => stored.login = shown.login

\* Every API call ends: with an answer, with an error, or with its page.
CallsSettle == \A r \in Requests : InFlight(r) ~> call[r].pc = "done"

\* "Access token expired: refresh once and retry the original request": the
\* same without a condition on logouts.
ExpiredTokenIsRefreshed ==
    [][path # "leaving" /\ stored # NoSession /\ stored' = NoSession
         => Logout \/ stored.login \in dead \/ failures' # failures]_vars

\* A session that has ended stays so until the user logs in again.
OnlyLoginsBegin == [][calm /\ stored = NoSession /\ stored' # NoSession => Login]_vars
=============================================================================
