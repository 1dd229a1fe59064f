--------------------------- MODULE ServiceControl ---------------------------
(***************************************************************************)
(* The queue of service commands of one user and the entitlement that      *)
(* feeds it: the commands START, STOP and DELETE of                        *)
(* src/src/modules/provisioning/service-control.service.ts, and the        *)
(* payment and lapse handlers of                                           *)
(* src/src/modules/subscription/subscription.service.ts that enqueue them. *)
(*                                                                         *)
(* The worker takes one command of a user at a time and the queues of two  *)
(* users never meet, so one user is enough.  Handlers and worker inter-    *)
(* leave at every await.  The commands that move an account between        *)
(* brokers and prop firms are not in this module.                          *)
(***************************************************************************)
EXTENDS Naturals, FiniteSets, Sequences

CONSTANTS
    Payments,      \* confirmed payments of the user
    Lapses,        \* payment failures and expiries of the user
    AdminCommands, \* commands the admin requests, each at most once
    Concurrency,   \* how many handlers and commands are under way together
    MaxAttempts,   \* MAX_ATTEMPTS, EASIERPROP_MAX_RETRY
    MaxCrashes     \* crashes of the process

Types == {"START", "STOP", "DELETE"}
Events == Payments \cup Lapses \cup AdminCommands
Kinds == {"prop", "broker"}

ASSUME ServiceAssumption ==
    /\ AdminCommands \subseteq Types
    /\ Payments \cap Lapses = {} /\ (Payments \cup Lapses) \cap AdminCommands = {}
    /\ MaxAttempts \in Nat \ {0} /\ Concurrency \in Nat /\ MaxCrashes \in Nat

VARIABLES
    subscribed, \* the subscription is ACTIVE and its period has not ended
    userActive, \* User.status is ACTIVE
    hedge,      \* status of the user's hedge setup
    on,         \* accounts enabled and connected on EasierProp
    commands,   \* the ServiceCommand rows, oldest first
    handler,    \* where the handler of each event is
    worker,     \* the command the worker executes and what it holds in memory
    crashes,    \* crashes so far
    alone       \* history: never two under way together, and no crash

vars == <<subscribed, userActive, hedge, on, commands, handler, worker, crashes, alone>>

HedgeStatuses == {"active", "paused", "archived"}
Command == [type : Types, status : {"PENDING", "RUNNING", "COMPLETED", "FAILED"},
            attempts : Nat, due : BOOLEAN]

\* "again": interrupted by a crash, and delivered again by Stripe.  "lost":
\* interrupted, and nobody's to repeat.
HandlerPCs == {"new", "again", "lost", "user", "cancel", "look", "find", "create", "done"}
WorkerPCs == {"idle", "mark", "check", "context", "call", "write", "complete", "fail"}
NoCommand == [pc |-> "idle", cmd |-> 0, attempts |-> 0, todo |-> {}]

TypeOK ==
    /\ subscribed \in BOOLEAN /\ userActive \in BOOLEAN
    /\ hedge \in HedgeStatuses /\ on \subseteq Kinds
    /\ commands \in Seq(Command)
    /\ handler \in [Events -> [pc : HandlerPCs, cancelled : BOOLEAN]]
    /\ worker \in [pc : WorkerPCs, cmd : Nat, attempts : Nat, todo : SUBSET Kinds]
    /\ crashes \in Nat /\ alone \in BOOLEAN

\* A provisioned, paying user.
Init ==
    /\ subscribed = TRUE /\ userActive = TRUE
    /\ hedge = "active" /\ on = Kinds
    /\ commands = <<>>
    /\ handler = [e \in Events |-> [pc |-> "new", cancelled |-> FALSE]]
    /\ worker = NoCommand
    /\ crashes = 0 /\ alone = TRUE

Busy(e) == handler[e].pc \notin {"new", "again", "lost", "done"}
Active == Cardinality({e \in Events : Busy(e)}) + (IF worker.pc = "idle" THEN 0 ELSE 1)
Free == Active < Concurrency

\* A handler or a command begins.
Note == alone' = (alone /\ Active = 0)

WithStatus(status) == {i \in DOMAIN commands : commands[i].status = status}

\* Mutant: a command that failed once is not looked for again.
DueFirstTime == {i \in WithStatus("PENDING") : commands[i].due /\ commands[i].attempts = 0}

DuePending == {i \in WithStatus("PENDING") : commands[i].due}
Goto(e, pc) == handler' = [handler EXCEPT ![e].pc = pc]

-----------------------------------------------------------------------------
(* activateSubscriptionFromPayment and applyPaymentFailure *)

MayBegin(e) == handler[e].pc \in {"new", "again"} /\ Free

\* The subscription is written first.
BeginPayment(e) ==
    /\ e \in Payments /\ MayBegin(e)
    /\ subscribed' = TRUE
    /\ Goto(e, "user")
    /\ Note
    /\ UNCHANGED <<userActive, hedge, on, commands, worker, crashes>>

BeginLapse(e) ==
    /\ e \in Lapses /\ MayBegin(e)
    /\ subscribed' = FALSE
    /\ Goto(e, "user")
    /\ Note
    /\ UNCHANGED <<userActive, hedge, on, commands, worker, crashes>>

\* Then the user.
WriteUser(e) ==
    /\ handler[e].pc = "user"
    /\ userActive' = (e \in Payments)
    /\ Goto(e, IF e \in Payments THEN "cancel" ELSE "look")
    /\ UNCHANGED <<subscribed, hedge, on, commands, worker, crashes, alone>>

\* Mutant: the STOPs that wait are left in the queue and forgotten.
NoneCancelled == {}

Cancellable == {i \in WithStatus("PENDING") : commands[i].type = "STOP"}

\* reactivateServiceIfPaused fails every STOP that still waits.
CancelStops(e) ==
    /\ handler[e].pc = "cancel"
    /\ commands' = [i \in DOMAIN commands |->
           IF i \in Cancellable THEN [commands[i] EXCEPT !.status = "FAILED"] ELSE commands[i]]
    /\ handler' = [handler EXCEPT ![e] = [pc |-> "look", cancelled |-> Cancellable # {}]]
    /\ UNCHANGED <<subscribed, userActive, hedge, on, worker, crashes, alone>>

Wanted(e) ==
    IF e \in Payments THEN hedge = "paused" \/ handler[e].cancelled ELSE hedge = "active"

\* Both look at the hedge setup before they enqueue a command.
LookAtHedge(e) ==
    /\ handler[e].pc = "look"
    /\ Goto(e, IF Wanted(e) THEN "find" ELSE "done")
    /\ UNCHANGED <<subscribed, userActive, hedge, on, commands, worker, crashes, alone>>

-----------------------------------------------------------------------------
(* enqueueServiceCommand *)

TypeFor(e) == CASE e \in Payments -> "START" [] e \in Lapses -> "STOP" [] OTHER -> e

\* Only a command that still waits is a duplicate.
FindDuplicate(e) ==
    /\ \/ handler[e].pc = "find"
       \/ e \in AdminCommands /\ handler[e].pc = "new" /\ Free
    /\ Goto(e, IF \E i \in WithStatus("PENDING") : commands[i].type = TypeFor(e)
               THEN "done" ELSE "create")
    /\ IF handler[e].pc = "new" THEN Note ELSE UNCHANGED alone
    /\ UNCHANGED <<subscribed, userActive, hedge, on, commands, worker, crashes>>

CreateCommand(e) ==
    /\ handler[e].pc = "create"
    /\ commands' = Append(commands,
           [type |-> TypeFor(e), status |-> "PENDING", attempts |-> 0, due |-> TRUE])
    /\ Goto(e, "done")
    /\ UNCHANGED <<subscribed, userActive, hedge, on, worker, crashes, alone>>

-----------------------------------------------------------------------------
(* The worker *)

Type == commands[worker.cmd].type

\* A command a crash left RUNNING is requeued when its lease is over.
Requeue ==
    /\ worker.pc = "idle"
    /\ \E i \in WithStatus("RUNNING") :
           commands' = [commands EXCEPT ![i] = [@ EXCEPT !.status = "PENDING", !.due = TRUE]]
    /\ UNCHANGED <<subscribed, userActive, hedge, on, handler, worker, crashes, alone>>

\* The oldest command that is due; those in backoff are passed over.
StartCommand ==
    /\ worker.pc = "idle" /\ Free
    /\ \E i \in DuePending :
          /\ \A j \in DuePending : i <= j
          /\ worker' = [pc |-> "mark", cmd |-> i, attempts |-> commands[i].attempts, todo |-> {}]
    /\ Note
    /\ UNCHANGED <<subscribed, userActive, hedge, on, commands, handler, crashes>>

\* The command may have been cancelled since it was read.
MarkRunning ==
    /\ worker.pc = "mark"
    /\ commands' = [commands EXCEPT ![worker.cmd].status = "RUNNING"]
    /\ worker' = [worker EXCEPT !.pc = IF Type = "STOP" THEN "check" ELSE "context"]
    /\ UNCHANGED <<subscribed, userActive, hedge, on, handler, crashes, alone>>

Entitled == subscribed /\ userActive

\* executeStop looks again whether the user pays.
CheckEntitlement ==
    /\ worker.pc = "check"
    /\ worker' = [worker EXCEPT !.pc = IF Entitled THEN "complete" ELSE "context"]
    /\ UNCHANGED <<subscribed, userActive, hedge, on, commands, handler, crashes, alone>>

\* Mutant: archived hedge setups are found too.
AnyHedge == TRUE

HasHedge == hedge # "archived"

\* getProvisionedContext: START and STOP need a hedge setup.
ReadContext ==
    /\ worker.pc = "context"
    /\ worker' = IF HasHedge \/ Type = "DELETE"
                 THEN [worker EXCEPT !.pc = "call", !.todo = Kinds]
                 ELSE [worker EXCEPT !.pc = "fail"]
    /\ UNCHANGED <<subscribed, userActive, hedge, on, commands, handler, crashes, alone>>

NextAccount == IF "prop" \in worker.todo THEN "prop" ELSE "broker"

\* EasierProp enables or disables (or deletes) an account; the call may fail,
\* and may fail after the account has changed.
CallEasierProp ==
    /\ worker.pc = "call"
    /\ \/ /\ on' = IF Type = "START" THEN on \cup {NextAccount} ELSE on \ {NextAccount}
          /\ LET todo == worker.todo \ {NextAccount} IN
             worker' \in {[worker EXCEPT !.todo = todo, !.pc = IF todo = {} THEN "write" ELSE @],
                          [worker EXCEPT !.pc = "fail"]}
       \/ worker' = [worker EXCEPT !.pc = "fail"] /\ UNCHANGED on
    /\ UNCHANGED <<subscribed, userActive, hedge, commands, handler, crashes, alone>>

\* Mutant: a stop writes a status the hedge setups do not have.
HedgeStopped(type) ==
    CASE type = "START" -> "active" [] type = "STOP" -> "stopped" [] OTHER -> "archived"

HedgeAfter(type) ==
    CASE type = "START" -> "active" [] type = "STOP" -> "paused" [] OTHER -> "archived"

WriteHedge ==
    /\ worker.pc = "write"
    /\ hedge' = IF HasHedge THEN HedgeAfter(Type) ELSE hedge
    /\ worker' = [worker EXCEPT !.pc = "complete"]
    /\ UNCHANGED <<subscribed, userActive, on, commands, handler, crashes, alone>>

Complete ==
    /\ worker.pc = "complete"
    /\ commands' = [commands EXCEPT ![worker.cmd].status = "COMPLETED"]
    /\ worker' = NoCommand
    /\ UNCHANGED <<subscribed, userActive, hedge, on, handler, crashes, alone>>

\* A query of the executor fails, or one of the audit event, the notification
\* and the row that follow its work: all are inside one try.
StepFails ==
    /\ worker.pc \in {"check", "context", "write", "complete"}
    /\ worker' = [worker EXCEPT !.pc = "fail"]
    /\ UNCHANGED <<subscribed, userActive, hedge, on, commands, handler, crashes, alone>>

Exhausted(n) == n >= MaxAttempts

\* handleCommandFailure.  A conflict (409) would be final at once, but it is the
\* cap on accounts, and none of the three commands registers one.
HandleFailure ==
    /\ worker.pc = "fail"
    /\ LET n == worker.attempts + 1 IN
       commands' = [commands EXCEPT
           ![worker.cmd] = [@ EXCEPT !.status = IF Exhausted(n) THEN "FAILED" ELSE "PENDING",
                                     !.attempts = n, !.due = FALSE]]
    /\ worker' = NoCommand
    /\ UNCHANGED <<subscribed, userActive, hedge, on, handler, crashes, alone>>

\* nextRetryAt of a waiting command passes.
BackoffEnds(i) ==
    /\ i \in WithStatus("PENDING") /\ ~commands[i].due
    /\ commands' = [commands EXCEPT ![i].due = TRUE]
    /\ UNCHANGED <<subscribed, userActive, hedge, on, handler, worker, crashes, alone>>

\* Stripe delivers an unanswered event again.  A request of the admin is lost,
\* and so may be a lapse: one the daily cron has found is not found again once
\* its row is written.
AfterCrash(e) ==
    CASE e \in Payments -> {"again"} [] e \in Lapses -> {"again", "lost"} [] OTHER -> {"lost"}

\* The process restarts.
Crash ==
    /\ crashes < MaxCrashes
    /\ crashes' = crashes + 1 /\ alone' = FALSE
    /\ worker' = NoCommand
    /\ \E pc \in [Events -> {"again", "lost"}] :
          /\ \A e \in Events : pc[e] \in AfterCrash(e)
          /\ handler' = [e \in Events |->
                 IF Busy(e) THEN [pc |-> pc[e], cancelled |-> FALSE] ELSE handler[e]]
    /\ UNCHANGED <<subscribed, userActive, hedge, on, commands>>

-----------------------------------------------------------------------------
(* The specification *)

HandlerStep(e) ==
    WriteUser(e) \/ CancelStops(e) \/ LookAtHedge(e) \/ FindDuplicate(e) \/ CreateCommand(e)

WorkerStep ==
    \/ MarkRunning \/ CheckEntitlement \/ ReadContext \/ CallEasierProp
    \/ WriteHedge \/ Complete \/ StepFails \/ HandleFailure

Next ==
    \/ \E e \in Events : BeginPayment(e) \/ BeginLapse(e) \/ HandlerStep(e)
    \/ Requeue \/ StartCommand \/ WorkerStep
    \/ \E i \in DOMAIN commands : BackoffEnds(i)
    \/ Crash

Spec == Init /\ [][Next]_vars

\* The cron fires every minute, every await ends, and time passes.
FairSpec ==
    /\ Spec
    /\ WF_vars(StartCommand) /\ WF_vars(WorkerStep) /\ WF_vars(Requeue)
    /\ WF_vars(\E i \in DOMAIN commands : BackoffEnds(i))
    /\ \A e \in Events : WF_vars(Busy(e) /\ HandlerStep(e))

-----------------------------------------------------------------------------
(* Properties *)

\* Nothing is under way, interrupted or waiting, and no command was given up.
Quiet ==
    /\ Active = 0 /\ \A e \in Events : handler[e].pc # "again"
    /\ WithStatus("PENDING") \cup WithStatus("RUNNING") = {}
    /\ \A i \in DOMAIN commands : ~Exhausted(commands[i].attempts)

Served == hedge = "active" /\ on = Kinds
Off == hedge = "paused" /\ on = {}

\* A user who pays is served once the queue is empty: no STOP that was
\* enqueued, retried or in backoff before the payment outlives it, as long as
\* no two activities overlapped and none was cut short by a crash.
PayingUserServed == Quiet /\ alone /\ Entitled /\ hedge # "archived" => Served

\* A user whose payment failed is stopped once the queue is empty, whatever
\* overlapped, failed or crashed, as long as no payment put a START in it and
\* the process did not die on a lapse that nobody reports again.
LapsedUserStopped ==
    Quiet /\ ~Entitled /\ hedge # "archived" /\ (\A e \in Payments : handler[e].pc = "new")
        /\ (\A e \in Lapses : handler[e].pc # "lost") => Off

\* Deleting the service is final: no START that waited behind the DELETE or
\* is retried after it brings the accounts or the hedge setup back.
DeleteIsFinal ==
    [][hedge = "archived" => hedge' = "archived" /\ on' \subseteq on]_vars

\* Every command is executed or given up: none is left RUNNING by a crash or
\* PENDING by a failure.
CommandsSettle ==
    []<>(WithStatus("PENDING") \cup WithStatus("RUNNING") = {})

\* What the comments promise without those conditions: "a STOP queued before
\* a renewal payment landed must not suspend a now-paying user", "Payment
\* failed -> [...] service Stop".
PayingUserAlwaysServed == Quiet /\ Entitled /\ hedge # "archived" => Served
LapsedUserAlwaysStopped == Quiet /\ ~Entitled /\ hedge # "archived" => Off

\* The commands of a user are executed in the order they were enqueued.
InOrder ==
    [][\A i \in DOMAIN commands :
         commands[i].status = "PENDING" /\ commands'[i].status = "RUNNING"
             => \A j \in WithStatus("PENDING") : j >= i]_vars

\* Commands that wait are not duplicates of one another.
DuplicatesCollapsed ==
    \A i, j \in WithStatus("PENDING") : commands[i].type = commands[j].type => i = j
=============================================================================
