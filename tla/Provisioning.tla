---------------------------- MODULE Provisioning ----------------------------
(***************************************************************************)
(* The provisioning of one user on EasierProp: the record EasierPropProvi- *)
(* sion and the functions that move it, of                                 *)
(* src/src/modules/provisioning/provisioning.service.ts, driven by         *)
(* src/src/cron/provisioning.cron.ts.                                      *)
(*                                                                         *)
(* The record of a user shares nothing with the record of another, so one  *)
(* user is enough.  The worker's ticks, the handlers that trigger the      *)
(* provisioning and the requests of the admins interleave at every await   *)
(* that reads or writes the record, the hedge setups or EasierProp.  A     *)
(* call to EasierProp may fail, and may fail after EasierProp has done it. *)
(***************************************************************************)
EXTENDS Naturals, FiniteSets, Sequences

CONSTANTS
    Callers,      \* the sides of the trigger: payment, onboarding
    Ticks,        \* ticks of the cron that may be under way at once
    Retries,      \* "retry" requests of the admins, each made at most once
    Reprovisions, \* "reprovision" requests, each made at most once
    Concurrency,  \* how many ticks and requests are under way together
    MaxAttempts,  \* MAX_ATTEMPTS, EASIERPROP_MAX_RETRY
    MaxLost,      \* answers of EasierProp lost after it did what was asked
    MaxCrashes    \* crashes of the process

Requests == Retries \cup Reprovisions
Kinds == {"prop", "broker"}
Working == {"PENDING", "KEY_CREATED", "PROP_ACCOUNT_CREATED", "BROKER_ACCOUNT_CREATED"}
Terminal == {"COMPLETED", "FAILED"}
Statuses == {"ABSENT"} \cup Working \cup Terminal
NoStep == "none"
Steps == {"create_key", "create_prop_account", "create_broker_account", "finalize"}

ASSUME ProvisioningAssumption ==
    /\ Callers # {} /\ MaxAttempts \in Nat \ {0}
    /\ Concurrency \in Nat /\ MaxLost \in Nat /\ MaxCrashes \in Nat
    /\ Retries \cap Reprovisions = {}

VARIABLES
    prov,      \* the row of the user in EasierPropProvision
    facts,     \* what is stored of {payment, onboarding}: each side of the trigger
    caller,    \* where each trigger's handler is
    running,   \* the flag of the cron that keeps ticks apart
    tick,      \* what each tick is doing and the row it holds in memory
    request,   \* what each admin request is doing and the row it read
    keys,      \* API keys EasierProp has issued for the user
    accounts,  \* accounts registered on EasierProp under the stored key
    issued,    \* accounts EasierProp ever registered: the last id it gave
    crm,       \* epAccountId of the user's prop and broker account
    live,      \* the hedge setups of the user that are not archived
    lost,      \* answers lost so far
    crashes,   \* crashes so far
    cleaning   \* history: a reprovision has begun its cleanup and not reset the row

ep == <<keys, accounts, issued, lost>>
history == <<crashes, cleaning>>
vars == <<prov, facts, caller, running, tick, request, ep, crm, live, history>>

-----------------------------------------------------------------------------
(* The record and its steps *)

Ids == [Kinds -> Nat]        \* an EasierProp id per kind; 0 is NULL
NoIds == [k \in Kinds |-> 0]

Row == [status : Statuses, key : Nat, ids : Ids, failedStep : Steps \cup {NoStep},
        attempts : Nat, due : BOOLEAN]

Absent == [status |-> "ABSENT", key |-> 0, ids |-> NoIds, failedStep |-> NoStep,
           attempts |-> 0, due |-> TRUE]

StepOf == [PENDING |-> "create_key", KEY_CREATED |-> "create_prop_account",
           PROP_ACCOUNT_CREATED |-> "create_broker_account",
           BROKER_ACCOUNT_CREATED |-> "finalize"]

NextStatus == [PENDING |-> "KEY_CREATED", KEY_CREATED |-> "PROP_ACCOUNT_CREATED",
               PROP_ACCOUNT_CREATED |-> "BROKER_ACCOUNT_CREATED",
               BROKER_ACCOUNT_CREATED |-> "COMPLETED"]

\* Mutant: an off-by-one in the table, which resumes one step too far.
ResumeLater(step) ==
    IF step \in {NoStep, "finalize"} THEN "PENDING"
    ELSE NextStatus[CHOOSE s \in Working : StepOf[s] = step]

\* STEP_TO_RESUME_STATUS
ResumeStatus(step) ==
    IF step = NoStep THEN "PENDING" ELSE CHOOSE s \in Working : StepOf[s] = step

\* The account a step registers.
KindOf == [KEY_CREATED |-> "prop", PROP_ACCOUNT_CREATED |-> "broker"]

Due == prov.status \in Working /\ prov.due

-----------------------------------------------------------------------------
(* Activities *)

TickPCs == {"idle", "step", "create", "register", "advance", "createHedge",
            "fail", "conflict"}

\* stale: an admin has written the row since the tick read it (history).
TickType == [pc : TickPCs, row : Row, got : Nat, stale : BOOLEAN]
IdleTick == [pc |-> "idle", row |-> Absent, got |-> 0, stale |-> FALSE]

RequestPCs == {"new", "write", "delete", "archive", "reset", "done"}
RequestType == [pc : RequestPCs, row : Row, todo : SUBSET Kinds]
NewRequest == [pc |-> "new", row |-> Absent, todo |-> {}]

CallerPCs == {"idle", "check", "create", "done"}

Active == {t \in Ticks : tick[t].pc # "idle"}
          \cup {r \in Requests : request[r].pc \notin {"new", "done"}}
Free == Cardinality(Active) < Concurrency

Init ==
    /\ prov = Absent
    /\ facts = {} /\ caller = [c \in Callers |-> "idle"]
    /\ running = FALSE /\ tick = [t \in Ticks |-> IdleTick]
    /\ request = [r \in Requests |-> NewRequest]
    /\ keys = 0 /\ accounts = {} /\ issued = 0 /\ lost = 0
    /\ crm = NoIds /\ live = <<>>
    /\ crashes = 0 /\ cleaning = FALSE

TypeOK ==
    /\ prov \in Row
    /\ facts \subseteq Callers /\ caller \in [Callers -> CallerPCs]
    /\ running \in BOOLEAN /\ tick \in [Ticks -> TickType]
    /\ request \in [Requests -> RequestType]
    /\ keys \in Nat /\ issued \in Nat /\ lost \in Nat
    /\ accounts \subseteq [id : Nat, kind : Kinds]
    /\ crm \in Ids /\ live \in Seq(Ids)
    /\ crashes \in Nat /\ cleaning \in BOOLEAN

-----------------------------------------------------------------------------
(* maybeTriggerProvisioning: called once the payment or the last onboarding *)
(* step is stored, by whichever of the two comes second.                    *)

StoreFact(c) ==
    /\ caller[c] = "idle"
    /\ facts' = facts \cup {c}
    /\ caller' = [caller EXCEPT ![c] = "check"]
    /\ UNCHANGED <<prov, running, tick, request, ep, crm, live, history>>

\* Mutant: the onboarding steps are not looked at.
EligibleOncePaid == "payment" \in facts /\ prov.status = "ABSENT"

Eligible == facts = Callers /\ prov.status = "ABSENT"

CheckTrigger(c) ==
    /\ caller[c] = "check"
    /\ caller' = [caller EXCEPT ![c] = IF Eligible THEN "create" ELSE "done"]
    /\ UNCHANGED <<prov, facts, running, tick, request, ep, crm, live, history>>

\* userId is unique: the insertion of a second record fails.
CreateRecord(c) ==
    /\ caller[c] = "create"
    /\ caller' = [caller EXCEPT ![c] = "done"]
    /\ prov' = IF prov.status = "ABSENT" THEN [Absent EXCEPT !.status = "PENDING"] ELSE prov
    /\ UNCHANGED <<facts, running, tick, request, ep, crm, live, history>>

-----------------------------------------------------------------------------
(* The worker *)

\* Mutant: ticks overlap.
FlagIgnored == TRUE

MayStart == ~running

\* The tick starts, and processProvision reads the row.
StartTick(t) ==
    /\ MayStart /\ Free /\ tick[t].pc = "idle" /\ Due
    /\ running' = TRUE
    /\ tick' = [tick EXCEPT ![t] = [pc |-> "step", row |-> prov, got |-> 0, stale |-> FALSE]]
    /\ UNCHANGED <<prov, facts, caller, request, ep, crm, live, history>>

AtStep(t, statuses) == tick[t].pc = "step" /\ tick[t].row.status \in statuses

Goto(t, pc) == tick' = [tick EXCEPT ![t].pc = pc]

EndTick(t) ==
    /\ running' = FALSE
    /\ tick' = [tick EXCEPT ![t] = IdleTick]

\* Mutant: a stored key is not looked for.
KeyNotLookedFor(row) == FALSE

KeyStored(row) == row.key # 0

\* stepCreateKey finds the key already stored.
ReuseKey(t) ==
    /\ AtStep(t, {"PENDING"}) /\ KeyStored(tick[t].row)
    /\ Goto(t, "advance")
    /\ UNCHANGED <<prov, facts, caller, running, request, ep, crm, live, history>>

\* POST /admin/keys.  The client sends the request again when the answer is
\* lost, and gives up in the end.
CreateKey(t) ==
    /\ AtStep(t, {"PENDING"}) /\ ~KeyStored(tick[t].row)
    /\ \E n \in 0 .. (MaxLost - lost), answered \in BOOLEAN :
        /\ lost' = lost + n
        /\ keys' = keys + n + (IF answered THEN 1 ELSE 0)
        /\ tick' = [tick EXCEPT ![t].pc = IF answered THEN "advance" ELSE "fail",
                                ![t].got = IF answered THEN keys' ELSE 0]
    /\ UNCHANGED <<prov, facts, caller, running, request, accounts, issued, crm, live, history>>

OfKind(kind) == {a \in accounts : a.kind = kind}

\* Mutant: ensureEpAccount does not list the accounts first.
NotListed(kind) == {}

\* listAccounts, and the match on login and server.
Listed(kind) == OfKind(kind)

\* ensureEpAccount finds the account on EasierProp.
FindAccount(t) ==
    /\ AtStep(t, DOMAIN KindOf)
    /\ LET found == Listed(KindOf[tick[t].row.status]) IN
        IF found = {}
        THEN Goto(t, "create")
        ELSE \E a \in found : tick' = [tick EXCEPT ![t].pc = "register", ![t].got = a.id]
    /\ UNCHANGED <<prov, facts, caller, running, request, ep, crm, live, history>>

\* POST /api/accounts, with the same retries of the client.
CreateAccount(t) ==
    /\ tick[t].pc = "create"
    /\ \E n \in 0 .. (MaxLost - lost), answered \in BOOLEAN :
        LET last == issued + n + (IF answered THEN 1 ELSE 0) IN
        /\ lost' = lost + n
        /\ issued' = last
        /\ accounts' = accounts \cup
               {[id |-> i, kind |-> KindOf[tick[t].row.status]] : i \in (issued + 1) .. last}
        /\ tick' = [tick EXCEPT ![t].pc = IF answered THEN "register" ELSE "fail",
                                ![t].got = IF answered THEN last ELSE 0]
    /\ UNCHANGED <<prov, facts, caller, running, request, keys, crm, live, history>>

\* EasierProp answers 409: the key's max_accounts cap is reached.
CapReached(t) ==
    /\ tick[t].pc = "create"
    /\ Goto(t, "conflict")
    /\ UNCHANGED <<prov, facts, caller, running, request, ep, crm, live, history>>

\* The CRM account gets its epAccountId.
RegisterAccount(t) ==
    /\ tick[t].pc = "register"
    /\ crm' = [crm EXCEPT ![KindOf[tick[t].row.status]] = tick[t].got]
    /\ Goto(t, "advance")
    /\ UNCHANGED <<prov, facts, caller, running, request, ep, live, history>>

\* stepFinalize looks for the CRM accounts by the ids of the row and archives
\* the hedge setups that are left.
ArchiveHedges(t) ==
    /\ AtStep(t, {"BROKER_ACCOUNT_CREATED"})
    /\ IF tick[t].row.ids = crm
       THEN live' = <<>> /\ Goto(t, "createHedge")
       ELSE Goto(t, "fail") /\ UNCHANGED live
    /\ UNCHANGED <<prov, facts, caller, running, request, ep, crm, history>>

CreateHedge(t) ==
    /\ tick[t].pc = "createHedge"
    /\ live' = Append(live, tick[t].row.ids)
    /\ Goto(t, "advance")
    /\ UNCHANGED <<prov, facts, caller, running, request, ep, crm, history>>

\* transition: the row is named by its id and nothing else is compared.
Advanced(t) ==
    LET row == tick[t].row got == tick[t].got IN
    [status     |-> NextStatus[row.status],
     key        |-> IF row.status = "PENDING" /\ got # 0 THEN got ELSE prov.key,
     ids        |-> IF row.status \in DOMAIN KindOf
                    THEN [prov.ids EXCEPT ![KindOf[row.status]] = got] ELSE prov.ids,
     failedStep |-> NoStep, attempts |-> 0, due |-> TRUE]

\* The row advances and the next step begins with the row the update
\* returned, unless the audit event that follows the update fails.
Advance(t) ==
    /\ tick[t].pc = "advance"
    /\ prov' = Advanced(t)
    /\ \/ /\ prov'.status # "COMPLETED"
          /\ tick' = [tick EXCEPT ![t] = [pc |-> "step", row |-> prov', got |-> 0, stale |-> FALSE]]
          /\ UNCHANGED running
       \/ /\ prov'.status = "COMPLETED"
          /\ EndTick(t)
       \/ Goto(t, "fail") /\ UNCHANGED running
    /\ UNCHANGED <<facts, caller, request, ep, crm, live, history>>

\* A query fails, a CRM account is missing, EasierProp refuses or does not
\* answer: processProvision catches the error.
FailStep(t) ==
    /\ tick[t].pc \in {"step", "create", "register", "advance", "createHedge"}
    /\ Goto(t, "fail")
    /\ UNCHANGED <<prov, facts, caller, running, request, ep, crm, live, history>>

\* The optimistic guard of handleStepFailure.
Unmoved(row) == prov.status = row.status /\ prov.attempts = row.attempts

\* Mutant: the attempts are not counted.
FailedUncounted(row, conflict) ==
    [prov EXCEPT !.failedStep = StepOf[row.status], !.due = FALSE]

Failed(row, conflict) ==
    LET n == row.attempts + 1 step == StepOf[row.status] IN
    IF conflict \/ n >= MaxAttempts
    THEN [prov EXCEPT !.status = "FAILED", !.failedStep = step, !.attempts = n, !.due = TRUE]
    ELSE [prov EXCEPT !.failedStep = step, !.attempts = n, !.due = FALSE]

\* handleStepFailure: the retry is scheduled or the row FAILED, unless the row moved.
HandleFailure(t) ==
    /\ tick[t].pc \in {"fail", "conflict"}
    /\ prov' = IF Unmoved(tick[t].row) THEN Failed(tick[t].row, tick[t].pc = "conflict") ELSE prov
    /\ EndTick(t)
    /\ UNCHANGED <<facts, caller, request, ep, crm, live, history>>

\* nextRetryAt passes.
BackoffEnds ==
    /\ ~prov.due
    /\ prov' = [prov EXCEPT !.due = TRUE]
    /\ UNCHANGED <<facts, caller, running, tick, request, ep, crm, live, history>>

-----------------------------------------------------------------------------
(* The admins *)

MarkStale == tick' = [t \in Ticks |-> [tick[t] EXCEPT !.stale = tick[t].pc # "idle"]]
Done(r) == request' = [request EXCEPT ![r] = [NewRequest EXCEPT !.pc = "done"]]

ReadForRetry(r) ==
    /\ r \in Retries /\ Free
    /\ request[r].pc = "new" /\ prov.status # "ABSENT"
    /\ request' = [request EXCEPT ![r].pc = "write", ![r].row = prov]
    /\ UNCHANGED <<prov, facts, caller, running, tick, ep, crm, live, history>>

\* retryProvision writes the status it computed from the row it read.
Retry(r) ==
    LET row == request[r].row IN
    /\ request[r].pc = "write"
    /\ prov' = [prov EXCEPT !.status = IF row.status = "FAILED" THEN ResumeStatus(row.failedStep) ELSE row.status,
                            !.attempts = 0, !.due = TRUE, !.failedStep = NoStep]
    /\ Done(r)
    /\ MarkStale
    /\ UNCHANGED <<facts, caller, running, ep, crm, live, history>>

ReadForReprovision(r) ==
    /\ r \in Reprovisions /\ Free
    /\ request[r].pc = "new" /\ prov.status # "ABSENT"
    /\ LET todo == {k \in Kinds : KeyStored(prov) /\ prov.ids[k] # 0} IN
       request' = [request EXCEPT ![r] =
           [pc |-> IF todo = {} THEN "archive" ELSE "delete", row |-> prov, todo |-> todo]]
    /\ cleaning' = TRUE
    /\ UNCHANGED <<prov, facts, caller, running, tick, ep, crm, live, crashes>>

\* Best effort: the account is deleted, or stays and the reprovision goes on.
DeleteAccount(r) ==
    /\ request[r].pc = "delete"
    /\ \E k \in request[r].todo :
        /\ accounts' \in {accounts, {a \in accounts : a.id # request[r].row.ids[k]}}
        /\ LET todo == request[r].todo \ {k} IN
           request' = [request EXCEPT ![r].todo = todo, ![r].pc = IF todo = {} THEN "archive" ELSE @]
    /\ UNCHANGED <<prov, facts, caller, running, tick, keys, issued, lost, crm, live, history>>

ArchiveAll(r) ==
    /\ request[r].pc = "archive"
    /\ live' = <<>>
    /\ request' = [request EXCEPT ![r].pc = "reset"]
    /\ UNCHANGED <<prov, facts, caller, running, tick, ep, crm, history>>

\* Mutant: the status is not reset.
RestartedInPlace(row) == [prov EXCEPT !.ids = NoIds, !.attempts = 0]

\* The key survives: the row restarts behind it.
Restarted(row) ==
    [prov EXCEPT !.status = IF KeyStored(row) THEN "KEY_CREATED" ELSE "PENDING",
                 !.ids = NoIds, !.attempts = 0, !.due = TRUE, !.failedStep = NoStep]

Reset(r) ==
    /\ request[r].pc = "reset"
    /\ prov' = Restarted(request[r].row)
    /\ Done(r)
    /\ MarkStale
    /\ cleaning' = FALSE
    /\ UNCHANGED <<facts, caller, running, ep, crm, live, crashes>>

\* The process restarts: ticks and requests are gone, and so is what they
\* held in memory.
Crash ==
    /\ crashes < MaxCrashes
    /\ crashes' = crashes + 1
    /\ running' = FALSE
    /\ tick' = [t \in Ticks |-> IdleTick]
    /\ request' = [r \in Requests |->
           IF request[r].pc = "new" THEN request[r] ELSE [NewRequest EXCEPT !.pc = "done"]]
    /\ caller' = [c \in Callers |-> IF caller[c] = "done" THEN "done" ELSE "idle"]
    /\ UNCHANGED <<prov, facts, ep, crm, live, cleaning>>

-----------------------------------------------------------------------------
(* The specification *)

TickStep(t) ==
    \/ ReuseKey(t) \/ CreateKey(t) \/ FindAccount(t) \/ CreateAccount(t)
    \/ CapReached(t) \/ RegisterAccount(t) \/ ArchiveHedges(t) \/ CreateHedge(t)
    \/ Advance(t) \/ FailStep(t) \/ HandleFailure(t)

RequestStep(r) ==
    \/ Retry(r) \/ DeleteAccount(r) \/ ArchiveAll(r) \/ Reset(r)

Next ==
    \/ \E c \in Callers : StoreFact(c) \/ CheckTrigger(c) \/ CreateRecord(c)
    \/ \E t \in Ticks : StartTick(t) \/ TickStep(t)
    \/ \E r \in Requests : ReadForRetry(r) \/ ReadForReprovision(r) \/ RequestStep(r)
    \/ BackoffEnds
    \/ Crash

Spec == Init /\ [][Next]_vars

\* The cron fires every minute, a started step ends (the client gives up
\* after 30 seconds), a started request ends, and time passes.
Fairness ==
    /\ WF_vars(\E t \in Ticks : StartTick(t))
    /\ \A t \in Ticks : WF_vars(TickStep(t))
    /\ \A r \in Requests : WF_vars(RequestStep(r))
    /\ WF_vars(BackoffEnds)

FairSpec == Spec /\ Fairness

-----------------------------------------------------------------------------
(* Properties *)

\* "Never recreate a key that is already stored": the key of the row is
\* neither replaced nor lost, whatever stale row a tick or a request writes
\* from, because EasierProp shows a key only once.
StoredKeyKept == [][prov.key # 0 => prov'.key = prov.key]_vars

\* "One active hedge setup per user": archiving and creating are two
\* statements, and only the flag of the cron keeps two ticks from creating
\* one each.
OneLiveHedge == Len(live) <= 1

\* The steps after create_key decrypt the stored key, so no retry, restart
\* or stale write may leave the row behind that step without a key.
KeyBeforeAccounts ==
    prov.status \notin {"ABSENT", "PENDING"} =>
        \/ prov.key # 0
        \/ prov.status = "FAILED" /\ prov.failedStep = "create_key"

\* Onboarding and payment come in either order: the record appears once both
\* are stored and never before, although each side looks only once.
TriggeredInEitherOrder ==
    /\ prov.status # "ABSENT" => facts = Callers
    /\ (\A c \in Callers : caller[c] = "done") => prov.status # "ABSENT"

\* ensureEpAccount is idempotent: an account is registered once, through
\* retries, crashes between the registration and its record, and restarts.
RegisteredOnce == \A k \in Kinds : Cardinality(OfKind(k)) <= 1

\* What COMPLETED tells the client: the live hedge setup and the row name
\* the same accounts, and EasierProp has them.  (A reprovision that began
\* its cleanup may have removed them.)
CompletedMeansLive ==
    prov.status = "COMPLETED" /\ ~cleaning =>
        /\ live = <<prov.ids>>
        /\ \A k \in Kinds : \E a \in OfKind(k) : a.id = prov.ids[k]

\* A completed provisioning is undone by an admin only: an error after the
\* last update (the audit event, a notification) does not fail it.
CompletedIsFinal ==
    [][prov.status = "COMPLETED" => prov'.status = "COMPLETED" 
        \/ \E r \in Requests : request[r].pc # "done" /\ request'[r].pc = "done"]_vars

\* Wherever a retry resumes, the steps behind it left what it needs: the
\* status the row has, or resumes with, is never ahead of its ids.
ResumesWithItsInputs ==
    LET status == IF prov.status = "FAILED" THEN ResumeStatus(prov.failedStep) ELSE prov.status IN
    /\ status \in {"PROP_ACCOUNT_CREATED", "BROKER_ACCOUNT_CREATED"} => prov.ids["prop"] # 0
    /\ status = "BROKER_ACCOUNT_CREATED" => prov.ids["broker"] # 0

\* The failure write never touches a row that an admin has reset since the
\* tick read it.
ResetRespected ==
    [][\A t \in Ticks : tick[t].pc \in {"fail", "conflict"} /\ tick'[t].pc = "idle" /\ prov' # prov
            => ~tick[t].stale]_vars

\* EasierProp issues one key for the user.
OneKeyIssued == keys <= 1

\* The worker never leaves a record in the middle: it completes or fails,
\* whatever EasierProp answers.
Settles == (prov.status \in Working) ~> (prov.status \in Terminal)
=============================================================================
