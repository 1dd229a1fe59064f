----------------------------- MODULE CardBilling -----------------------------
(***************************************************************************)
(* Who writes the status of one user: the events of the user's card        *)
(* subscription (src/src/webhooks/stripe.webhook.ts), the transitions they *)
(* share with crypto payments and the daily cron (src/src/modules/         *)
(* subscription/subscription.service.ts, src/src/cron/subscription.cron.-  *)
(* ts), and the onboarding steps, which recompute the status (src/src/     *)
(* modules/onboarding/onboarding.service.ts).                              *)
(*                                                                         *)
(* Stripe delivers events in any order, more than once, and again until    *)
(* they are answered with 200.  The webhook handles one event at a time;   *)
(* Stripe itself, the client's forms and requests, and failures come in    *)
(* between its awaits.  The crypto subscription is in CryptoBilling and    *)
(* the queue of service commands in ServiceControl: here a crypto payment, *)
(* a run of the cron and the execution of a command are one step.          *)
(***************************************************************************)
EXTENDS Naturals, Sequences, TLC

CONSTANTS
    Forms,         \* the onboarding steps with a form: broker and prop
    Period,        \* days a payment is good for
    Grace,         \* GRACE_PERIOD_DAYS
    MaxTime,       \* the last day
    MaxEvents,     \* events Stripe sends
    MaxFailures,   \* awaits that fail, answers that are lost
    MaxExtra       \* payments by crypto, forms sent again

Steps == Forms \cup {"payment"}

ASSUME CardAssumption ==
    /\ "payment" \notin Forms
    /\ Period \in Nat \ {0} /\ Grace \in Nat /\ MaxTime \in Nat
    /\ MaxEvents \in Nat /\ MaxFailures \in Nat /\ MaxExtra \in Nat

VARIABLES
    now,       \* the day
    gate,      \* the subscription as Stripe has it
    sent,      \* the events Stripe has sent, oldest first
    answered,  \* events answered with 200
    card,      \* the Subscription row of the card
    crypto,    \* the Subscription row of the crypto payments
    user,      \* User.status
    steps,     \* OnboardingStep rows that are COMPLETED
    progress,  \* User.onboardingProgress, as the steps it names
    service,   \* the hedge setup with the command that waits for it
    rewarded,  \* events whose invoice was given to the commission engine
    webhook,   \* the event being handled and what its handler holds
    completing,\* completeStep, for the webhook and for a form
    lost,      \* history: forms that failed past their step and were not sent again
    client,    \* the cancellation request under way
    ordered,   \* history: events came in order and none after a younger one
    raced,     \* history: a status was written over one it was not computed from
    budget     \* failures and extras so far

stripe == <<gate, sent>>
rows == <<card, crypto, service>>
onboarding == <<steps, progress, completing, lost>>
vars == <<now, stripe, answered, rows, user, onboarding, rewarded, webhook, client,
          ordered, raced, budget>>

-----------------------------------------------------------------------------
(* State *)

Statuses == {"NEW", "ONBOARDING", "ACTIVE", "SUSPENDED", "INACTIVE"}
EventTypes == {"created", "updated", "paid", "failed", "deleted"}
GateStatuses == {"none", "incomplete", "active", "past_due", "canceled"}
GateType == [status : GateStatuses, end : Nat, cancel : BOOLEAN]
Event == [type : EventTypes, sub : GateType]

RowType == [status : {"none", "ACTIVE", "PAST_DUE", "UNPAID", "CANCELED"},
            end : Nat, grace : Nat, cancel : BOOLEAN]
NoRow == [status |-> "none", end |-> 0, grace |-> 0, cancel |-> FALSE]

WebhookPCs == {"idle", "retrieve", "find", "write", "user", "complete", "resume", "commission",
               "fail", "suspend", "stop", "flag", "cancel", "deactivate"}
IdleWebhook == [pc |-> "idle", event |-> 0, end |-> 0]

CompletingPCs == {"idle", "steps", "status", "write"}
Callers == {"webhook", "form"}
CompletingRecord == [pc : CompletingPCs, step : Steps, seen : SUBSET Steps, status : Statuses]
NotCompleting == [pc |-> "idle", step |-> "payment", seen |-> {}, status |-> "NEW"]

Completing(c) == completing[c].pc # "idle"

\* No provision yet; a provision without its hedge setup; an active hedge
\* setup, with a STOP that waits or without; a paused one, with a START or
\* without.  `missed': it was to be suspended and was not active.
ServiceStates == {"none", "provisioning", "active", "STOP", "paused", "START"}
Serving == {"provisioning", "active", "START"}
ServiceType == [state : ServiceStates, missed : BOOLEAN]

TypeOK ==
    /\ now \in Nat /\ gate \in GateType /\ sent \in Seq(Event)
    /\ answered \subseteq DOMAIN sent /\ rewarded \subseteq DOMAIN sent
    /\ card \in RowType /\ crypto \in RowType /\ user \in Statuses
    /\ steps \subseteq Steps /\ progress \subseteq Steps
    /\ service \in ServiceType /\ lost \subseteq Forms
    /\ webhook \in [pc : WebhookPCs, event : Nat, end : Nat]
    /\ completing \in [Callers -> CompletingRecord]
    /\ client \in {"idle", "cancel", "reactivate"}
    /\ ordered \in BOOLEAN /\ raced \in BOOLEAN
    /\ budget \in [failures : Nat, extra : Nat]

\* A user who has registered, one who has paid by card and is served, or one
\* whose renewal was refused today.
Init ==
    /\ now = 0 /\ sent = <<>> /\ answered = {} /\ rewarded = {}
    /\ crypto = NoRow
    /\ \/ /\ gate = [status |-> "none", end |-> 0, cancel |-> FALSE] /\ card = NoRow
          /\ user = "NEW" /\ steps = {} /\ service = [state |-> "none", missed |-> FALSE]
       \/ /\ gate = [status |-> "active", end |-> Period, cancel |-> FALSE]
          /\ card = [status |-> "ACTIVE", end |-> Period, grace |-> 0, cancel |-> FALSE]
          /\ user = "ACTIVE" /\ steps = Steps /\ service = [state |-> "active", missed |-> FALSE]
       \/ /\ gate = [status |-> "past_due", end |-> Period, cancel |-> FALSE]
          /\ card = [status |-> "PAST_DUE", end |-> 0, grace |-> Grace, cancel |-> FALSE]
          /\ user = "SUSPENDED" /\ steps = Steps
          /\ service = [state |-> "paused", missed |-> FALSE]
    /\ progress = steps /\ lost = {}
    /\ webhook = IdleWebhook
    /\ completing = [c \in Callers |-> NotCompleting]
    /\ client = "idle"
    /\ ordered = TRUE /\ raced = FALSE
    /\ budget = [failures |-> 0, extra |-> 0]

Spend(what) == budget' = [budget EXCEPT ![what] = @ + 1]

-----------------------------------------------------------------------------
(* Stripe *)

\* Only Retrieve reads what Stripe has, and the other steps of a handler
\* commute with Stripe's: it is enough to let Stripe move before Retrieve and
\* between handlers.
StripeMoves == webhook.pc \in {"idle", "retrieve"}

Emit(types) ==
    /\ StripeMoves
    /\ Len(sent) + Len(types) <= MaxEvents
    /\ sent' = sent \o [i \in DOMAIN types |-> [type |-> types[i], sub |-> gate']]
StripeOnly ==
    UNCHANGED <<now, answered, rows, user, onboarding, rewarded, webhook, client, ordered,
                raced, budget>>

\* The client completes a checkout; the first invoice is not yet paid.
Subscribe ==
    /\ gate.status = "none"
    /\ gate' = [status |-> "incomplete", end |-> now + Period, cancel |-> FALSE]
    /\ Emit(<<"created">>)
    /\ StripeOnly

RenewalIsDue == gate.status = "active" /\ now >= gate.end /\ ~gate.cancel
Charged == IF RenewalIsDue THEN now + Period ELSE gate.end
Collecting == gate.status \in {"incomplete", "past_due"} \/ RenewalIsDue

\* An invoice is paid: the first one, a renewal or one that was overdue.
InvoicePaid ==
    /\ Collecting
    /\ gate' = [gate EXCEPT !.status = "active", !.end = Charged]
    /\ \E types \in {<<"paid", "updated">>, <<"updated", "paid">>} : Emit(types)
    /\ StripeOnly

\* The card is refused.
InvoiceFails ==
    /\ Collecting
    /\ gate' = [gate EXCEPT !.status = IF @ = "active" THEN "past_due" ELSE @, !.end = Charged]
    /\ Emit(IF RenewalIsDue THEN <<"failed", "updated">> ELSE <<"failed">>)
    /\ StripeOnly

\* Stripe gives up collecting, or a cancelled subscription reaches its end.
SubscriptionEnds ==
    /\ \/ gate.status = "past_due"
       \/ gate.status = "active" /\ gate.cancel /\ now >= gate.end
    /\ gate' = [gate EXCEPT !.status = "canceled"]
    /\ Emit(<<"deleted">>)
    /\ StripeOnly

\* Handlers, forms and requests take less than a day.
NextDay ==
    /\ now < MaxTime /\ webhook.pc = "idle" /\ client = "idle"
    /\ \A c \in Callers : ~Completing(c)
    /\ now' = now + 1
    /\ UNCHANGED <<stripe, answered, rows, user, onboarding, rewarded, webhook, client, ordered,
                   raced, budget>>

-----------------------------------------------------------------------------
(* completeStep and recomputeOnboardingProgress *)

AllDone(seen) == Steps \subseteq seen

\* The step is stored (upsert) and the recomputation begins.
BeginStep(c, step) ==
    /\ steps' = steps \cup {step}
    /\ completing' = [completing EXCEPT ![c] = [@ EXCEPT !.pc = "steps", !.step = step]]

ReadSteps(c) ==
    /\ completing[c].pc = "steps"
    /\ completing' = [completing EXCEPT ![c] = [@ EXCEPT !.pc = "status", !.seen = steps]]
    /\ UNCHANGED <<now, stripe, answered, rows, user, steps, progress, lost, rewarded, webhook, client,
                   ordered, raced, budget>>

ReadStatus(c) ==
    /\ completing[c].pc = "status"
    /\ completing' = [completing EXCEPT ![c] = [@ EXCEPT !.pc = "write", !.status = user]]
    /\ UNCHANGED <<now, stripe, answered, rows, user, steps, progress, lost, rewarded, webhook, client,
                   ordered, raced, budget>>

\* Mutant: a user who has completed the last step is left in ONBOARDING.
NeverActive(seen, status, current) ==
    IF ~AllDone(seen) /\ seen # {} /\ status = "NEW" THEN "ONBOARDING" ELSE current

\* The status is written only where the one that was read calls for it.
StatusAfter(seen, status, current) ==
    CASE AllDone(seen) /\ status = "ONBOARDING" -> "ACTIVE"
      [] ~AllDone(seen) /\ seen # {} /\ status = "NEW" -> "ONBOARDING"
      [] OTHER -> current

Live(row) == row.status = "ACTIVE" /\ row.end > now

\* maybeTriggerProvisioning: in whichever order steps and payment came.
Triggered(done) ==
    IF service.state = "none" /\ AllDone(done) /\ (Live(card) \/ Live(crypto))
    THEN "provisioning" ELSE service.state

\* Progress and status are written in one update, then the trigger is tried.
\* A form that comes to its end is no longer lost.
WriteProgress(c) ==
    /\ completing[c].pc = "write"
    /\ LET done == completing[c].seen
           read == completing[c].status IN
       /\ progress' = done
       /\ user' = StatusAfter(done, read, user)
       /\ raced' = (raced \/ done # steps \/ (read # user /\ user' # user))
       /\ service' = IF AllDone(done) THEN [service EXCEPT !.state = Triggered(steps)] ELSE service
    /\ lost' = lost \ {completing[c].step}
    /\ completing' = [completing EXCEPT ![c] = NotCompleting]
    /\ UNCHANGED <<now, stripe, answered, card, crypto, steps, rewarded, webhook, client,
                   ordered, budget>>

\* The client submits a form of the wizard, one at a time, and may submit it
\* again.
SubmitForm(step) ==
    /\ ~Completing("form")
    /\ step \in steps => budget.extra < MaxExtra
    /\ IF step \in steps THEN Spend("extra") ELSE UNCHANGED budget
    /\ BeginStep("form", step)
    /\ UNCHANGED <<now, stripe, answered, rows, user, progress, lost, rewarded, webhook, client,
                   ordered, raced>>

\* An await of the recomputation fails: the step stays COMPLETED, and only the
\* client can send the form again.
FormFails ==
    /\ Completing("form") /\ budget.failures < MaxFailures
    /\ Spend("failures")
    /\ lost' = lost \cup {completing["form"].step}
    /\ completing' = [completing EXCEPT !["form"] = NotCompleting]
    /\ UNCHANGED <<now, stripe, answered, rows, user, steps, progress, rewarded, webhook, client,
                   ordered, raced>>

-----------------------------------------------------------------------------
(* The webhook *)

Kind == sent[webhook.event].type
Snapshot == sent[webhook.event].sub
Goto(pc) ==
    /\ webhook' = [webhook EXCEPT !.pc = pc]
    /\ UNCHANGED answered

\* The handler ends and Stripe gets its 200.
Answer ==
    /\ webhook' = IdleWebhook
    /\ answered' = answered \cup {webhook.event}

\* The handler throws and Stripe gets a 500.
Refuse == webhook' = IdleWebhook /\ UNCHANGED answered

InOrder(i) == \A j \in DOMAIN sent : (j < i => j \in answered) /\ (j > i => j \notin answered)

\* An event arrives: for the first time, again after a failure, or again
\* because the answer was lost.
Deliver(i) ==
    /\ webhook.pc = "idle"
    /\ i \in answered => budget.failures < MaxFailures
    /\ IF i \in answered THEN Spend("failures") ELSE UNCHANGED budget
    /\ answered' = answered \ {i}
    /\ ordered' = (ordered /\ InOrder(i))
    /\ webhook' = [pc |-> IF sent[i].type = "paid" THEN "retrieve" ELSE "find", event |-> i,
                   end |-> sent[i].sub.end]
    /\ UNCHANGED <<now, stripe, rows, user, onboarding, rewarded, client, raced>>

\* handleInvoicePaymentSucceeded asks Stripe for the subscription.
Retrieve ==
    /\ webhook.pc = "retrieve"
    /\ webhook' = [webhook EXCEPT !.pc = "find", !.end = gate.end]
    /\ UNCHANGED <<now, stripe, answered, rows, user, onboarding, rewarded, client, ordered,
                   raced, budget>>

\* What the handler does once it has looked for the row of the subscription.
AfterFind ==
    IF Kind \in {"created", "paid"} THEN "write"
    ELSE IF card.status = "none" THEN "none"
    ELSE CASE Kind = "failed" -> "fail"
           [] Kind = "deleted" -> "cancel"
           [] Kind = "updated" /\ Snapshot.status = "active" -> "write"
           [] Kind = "updated" /\ Snapshot.status = "past_due" -> "fail"
           [] OTHER -> "flag"

\* The row is looked for by the subscription's id.  Only the event of a
\* deletion insists on it: its handler throws, and Stripe tries again.
Find ==
    /\ webhook.pc = "find"
    /\ IF AfterFind = "none"
       THEN IF Kind = "deleted" THEN Refuse ELSE Answer
       ELSE Goto(AfterFind)
    /\ UNCHANGED <<now, stripe, rows, user, onboarding, rewarded, client, ordered,
                   raced, budget>>

\* The row becomes ACTIVE with the period; an activation ends its grace and
\* goes on, an update leaves the user alone.
WriteRow ==
    /\ webhook.pc = "write"
    /\ card' = [card EXCEPT !.status = "ACTIVE", !.end = webhook.end,
                            !.grace = IF Kind = "updated" THEN @ ELSE 0]
    /\ Goto(IF Kind = "updated" THEN "flag" ELSE "user")
    /\ UNCHANGED <<now, stripe, crypto, service, user, onboarding, rewarded, client,
                   ordered, raced, budget>>

ActivateUser ==
    /\ webhook.pc = "user"
    /\ user' = "ACTIVE"
    /\ Goto("complete")
    /\ UNCHANGED <<now, stripe, rows, onboarding, rewarded, client, ordered, raced, budget>>

CompletePayment ==
    /\ webhook.pc = "complete" /\ ~Completing("webhook")
    /\ BeginStep("webhook", "payment")
    /\ Goto("resume")
    /\ UNCHANGED <<now, stripe, rows, user, progress, lost, rewarded, client, ordered, raced, budget>>

\* A STOP that waits is cancelled; a START on an active hedge setup changes
\* nothing.
Resumed(state) == CASE state = "STOP" -> "active" [] state = "paused" -> "START" [] OTHER -> state

\* maybeTriggerProvisioning again, then reactivateServiceIfPaused.
Resume ==
    /\ webhook.pc = "resume" /\ ~Completing("webhook")
    /\ service' = [service EXCEPT !.state = Resumed(Triggered(steps))]
    /\ IF Kind = "paid" THEN Goto("commission") ELSE Answer
    /\ UNCHANGED <<now, stripe, card, crypto, user, onboarding, rewarded, client,
                   ordered, raced, budget>>

PayCommission ==
    /\ webhook.pc = "commission"
    /\ rewarded' = rewarded \cup {webhook.event}
    /\ Answer
    /\ UNCHANGED <<now, stripe, rows, user, onboarding, client, ordered, raced, budget>>

\* applyPaymentFailure, in its three writes.
FailRow ==
    /\ webhook.pc = "fail"
    /\ card' = [card EXCEPT !.status = "PAST_DUE", !.grace = now + Grace]
    /\ Goto("suspend")
    /\ UNCHANGED <<now, stripe, crypto, service, user, onboarding, rewarded, client,
                   ordered, raced, budget>>

SuspendUser ==
    /\ webhook.pc = "suspend"
    /\ user' = "SUSPENDED"
    /\ Goto("stop")
    /\ UNCHANGED <<now, stripe, rows, onboarding, rewarded, client, ordered, raced, budget>>

\* Mutant: a suspension leaves the service running.
StoppedNever(s) == s

\* suspendServiceIfActive: no STOP for a hedge setup that is yet to be made, or
\* that is paused, a START behind which waits or not.
Stopped(s) ==
    [state |-> IF s.state = "active" THEN "STOP" ELSE s.state,
     missed |-> s.state \in {"provisioning", "START"}]

StopService ==
    /\ webhook.pc = "stop"
    /\ service' = Stopped(service)
    /\ IF Kind = "updated" THEN Goto("flag") ELSE Answer
    /\ UNCHANGED <<now, stripe, card, crypto, user, onboarding, rewarded, client,
                   ordered, raced, budget>>

\* Mutant: the flag of the event is not stored.
FlagForgotten ==
    /\ webhook.pc = "flag"
    /\ Answer
    /\ UNCHANGED <<now, stripe, rows, user, onboarding, rewarded, client, ordered,
                   raced, budget>>

\* handleSubscriptionUpdated copies cancel_at_period_end last.
WriteFlag ==
    /\ webhook.pc = "flag"
    /\ card' = [card EXCEPT !.cancel = Snapshot.cancel]
    /\ Answer
    /\ UNCHANGED <<now, stripe, crypto, service, user, onboarding, rewarded, client,
                   ordered, raced, budget>>

\* handleSubscriptionDeleted
CancelRow ==
    /\ webhook.pc = "cancel"
    /\ card' = [card EXCEPT !.status = "CANCELED"]
    /\ Goto("deactivate")
    /\ UNCHANGED <<now, stripe, crypto, service, user, onboarding, rewarded, client,
                   ordered, raced, budget>>

\* Mutant: a deletion leaves the user's status alone.
RowOnly ==
    /\ webhook.pc = "deactivate"
    /\ Goto("stop")
    /\ UNCHANGED <<now, stripe, rows, user, onboarding, rewarded, client, ordered,
                   raced, budget>>

DeactivateUser ==
    /\ webhook.pc = "deactivate"
    /\ user' = "INACTIVE"
    /\ Goto("stop")
    /\ UNCHANGED <<now, stripe, rows, onboarding, rewarded, client, ordered, raced, budget>>

\* Mutant: an event whose handling failed is answered with 200 all the same.
AnswerAnyway ==
    /\ webhook.pc # "idle" /\ budget.failures < MaxFailures
    /\ Spend("failures")
    /\ answered' = answered \cup {webhook.event}
    /\ webhook' = IdleWebhook
    /\ completing' = [completing EXCEPT !["webhook"] = NotCompleting]
    /\ UNCHANGED <<now, stripe, rows, user, steps, progress, lost, rewarded, client, ordered, raced>>

\* An await fails: what was written stays, Stripe gets no 200 and delivers the
\* event again.
HandlingFails ==
    /\ webhook.pc # "idle" /\ budget.failures < MaxFailures
    /\ Spend("failures")
    /\ webhook' = IdleWebhook
    /\ completing' = [completing EXCEPT !["webhook"] = NotCompleting]
    /\ UNCHANGED <<now, stripe, answered, rows, user, steps, progress, lost, rewarded, client, ordered,
                   raced>>

HandlerStep ==
    \/ Retrieve \/ Find \/ WriteRow \/ ActivateUser \/ CompletePayment \/ Resume \/ PayCommission
    \/ FailRow \/ SuspendUser \/ StopService \/ WriteFlag \/ CancelRow \/ DeactivateUser

-----------------------------------------------------------------------------
(* The client, CoinGate and the cron *)

\* cancelSubscription and reactivateSubscription of a card subscription that
\* is the newest: Stripe is told first.
AskStripe(wish) ==
    /\ client = "idle" /\ card.status # "none" /\ crypto.status = "none"
    /\ gate.status \in {"active", "past_due"} /\ gate.cancel # (wish = "cancel")
    /\ gate' = [gate EXCEPT !.cancel = (wish = "cancel")]
    /\ Emit(<<"updated">>)
    /\ client' = wish
    /\ UNCHANGED <<now, answered, rows, user, onboarding, rewarded, webhook, ordered, raced, budget>>

\* Or Stripe is told to end the subscription at once.
CancelNow ==
    /\ client = "idle" /\ card.status # "none" /\ crypto.status = "none"
    /\ gate.status \notin {"none", "canceled"}
    /\ gate' = [gate EXCEPT !.status = "canceled"]
    /\ Emit(<<"deleted">>)
    /\ client' = "cancel"
    /\ UNCHANGED <<now, answered, rows, user, onboarding, rewarded, webhook, ordered, raced, budget>>

\* Then the row, before or after a handler writes the same column.
StoreWish ==
    /\ client # "idle" /\ webhook.pc \in {"idle", "flag"}
    /\ card' = [card EXCEPT !.cancel = (client = "cancel")]
    /\ client' = "idle"
    /\ UNCHANGED <<now, stripe, answered, crypto, service, user, onboarding, rewarded, webhook,
                   ordered, raced, budget>>

RequestFails ==
    /\ client # "idle" /\ webhook.pc = "idle" /\ budget.failures < MaxFailures
    /\ Spend("failures")
    /\ client' = "idle"
    /\ UNCHANGED <<now, stripe, answered, rows, user, onboarding, rewarded, webhook, ordered, raced>>

\* The process dies with whatever is under way.
ProcessDies ==
    /\ budget.failures < MaxFailures
    /\ Spend("failures")
    /\ webhook' = IdleWebhook /\ client' = "idle"
    /\ lost' = IF Completing("form") THEN lost \cup {completing["form"].step} ELSE lost
    /\ completing' = [c \in Callers |-> NotCompleting]
    /\ UNCHANGED <<now, stripe, answered, rows, user, steps, progress, rewarded, ordered, raced>>

\* A crypto payment is activated (CryptoBilling has its awaits).
CryptoPaid ==
    /\ webhook.pc = "idle" /\ ~Completing("form") /\ budget.extra < MaxExtra
    /\ Spend("extra")
    /\ crypto' = [status |-> "ACTIVE", grace |-> 0, cancel |-> FALSE,
                  end |-> (IF Live(crypto) THEN crypto.end ELSE now) + Period]
    /\ user' = "ACTIVE" /\ steps' = steps \cup {"payment"} /\ progress' = steps'
    /\ service' = [service EXCEPT !.state =
           IF @ = "none" /\ AllDone(steps') THEN "provisioning" ELSE Resumed(@)]
    /\ UNCHANGED <<now, stripe, answered, card, completing, lost, rewarded, webhook, client, ordered,
                   raced>>

\* processSubscriptionLifecycle: an ACTIVE row whose period is over, or one
\* whose grace is over, of either provider.
Lapsed(row) == row.status = "ACTIVE" /\ row.end < now
GraceOver(row) == row.status = "PAST_DUE" /\ row.grace < now

AfterCron(row) ==
    CASE Lapsed(row) -> [row EXCEPT !.status = "PAST_DUE", !.grace = now + Grace]
      [] GraceOver(row) -> [row EXCEPT !.status = "UNPAID"]
      [] OTHER -> row

LifecycleCron ==
    /\ webhook.pc = "idle" /\ ~Completing("form")
    /\ \E row \in {card, crypto} : Lapsed(row) \/ GraceOver(row)
    /\ card' = AfterCron(card) /\ crypto' = AfterCron(crypto)
    /\ user' = IF GraceOver(card) \/ GraceOver(crypto) THEN "INACTIVE" ELSE "SUSPENDED"
    /\ service' = Stopped(service)
    /\ UNCHANGED <<now, stripe, answered, onboarding, rewarded, webhook, client, ordered, raced, budget>>

-----------------------------------------------------------------------------
(* The workers *)

\* executeStop looks again whether the user pays.
Entitled == user = "ACTIVE" /\ (Live(card) \/ Live(crypto))

\* The provisioning ends in an active hedge setup, a START in an active one,
\* a STOP in a paused one (Provisioning and ServiceControl have their awaits).
\* At other places of a handler it would find what it finds at one of these.
ServiceWorks ==
    /\ webhook.pc \in {"idle", "resume", "stop"}
    /\ service.state \in {"provisioning", "STOP", "START"}
    /\ service' = [service EXCEPT !.state = IF @ = "STOP" /\ ~Entitled THEN "paused" ELSE "active"]
    /\ UNCHANGED <<now, stripe, answered, card, crypto, user, onboarding, rewarded, webhook, client,
                   ordered, raced, budget>>

-----------------------------------------------------------------------------
(* The specification *)

Next ==
    \/ Subscribe \/ InvoicePaid \/ InvoiceFails \/ SubscriptionEnds \/ NextDay
    \/ \E c \in Callers : ReadSteps(c) \/ ReadStatus(c) \/ WriteProgress(c)
    \/ \E step \in Forms : SubmitForm(step)
    \/ FormFails \/ ProcessDies
    \/ \E i \in DOMAIN sent : Deliver(i)
    \/ HandlerStep \/ HandlingFails
    \/ \E wish \in {"cancel", "reactivate"} : AskStripe(wish)
    \/ CancelNow \/ StoreWish \/ RequestFails
    \/ CryptoPaid \/ LifecycleCron \/ ServiceWorks

Spec == Init /\ [][Next]_vars

Symmetry == Permutations(Forms)

-----------------------------------------------------------------------------
(* Properties *)

\* Every event is answered, and no handler, form or request is under way.
Quiet ==
    /\ answered = DOMAIN sent /\ webhook.pc = "idle" /\ client = "idle"
    /\ \A c \in Callers : ~Completing(c)

\* What Stripe was answered for is done: however often a handler failed half
\* way, an answered payment has been given to the commission engine and has
\* completed the payment step.
AnsweredIsDone ==
    \A i \in answered :
        /\ sent[i].type = "paid" => i \in rewarded
        /\ sent[i].type \in {"paid", "created"} => "payment" \in steps

\* Once the events have been handled in the order they were sent, failed
\* deliveries and duplicates included, row, user and service say what Stripe
\* says: a paying user is ACTIVE for the whole period, one whose renewal was
\* refused or whose subscription has ended is not.  The service runs for the
\* ACTIVE user, or is on its way to; for any other it is paused or on its way
\* to, unless the suspension found no active hedge setup and missed it.
AgreesWithStripe ==
    Quiet /\ ordered /\ ~raced /\ crypto.status = "none" =>
        /\ gate.status = "active" /\ now <= gate.end =>
               user = "ACTIVE" /\ card.status = "ACTIVE" /\ card.end = gate.end
        /\ gate.status = "past_due" =>
               user \in {"SUSPENDED", "INACTIVE"} /\ card.status \in {"PAST_DUE", "UNPAID"}
        /\ gate.status = "canceled" => user = "INACTIVE" /\ card.status = "CANCELED"
        /\ service.state # "none" /\ user = "ACTIVE" => service.state \in Serving
        /\ service.state \in Serving => user = "ACTIVE" \/ service.missed

\* "Payment failed -> PAST_DUE + grace period + notifications + service Stop",
\* without the exception.  It does not hold: no STOP is enqueued while the
\* provisioning is under way or a START waits, and both end in a service that
\* runs for a SUSPENDED user.
SuspendedIsStopped ==
    Quiet /\ ordered /\ ~raced /\ crypto.status = "none" /\ service.state \in Serving =>
        user = "ACTIVE"

\* The row knows whether Stripe will renew: the client's own write and the
\* events of the change, in whatever interleaving, end in what Stripe has,
\* even when the client's write is lost.
CancelAgrees ==
    Quiet /\ ordered /\ gate.status \in {"active", "past_due"} => card.cancel = gate.cancel

\* In whatever order events come, a user is ACTIVE only with a subscription
\* that is, by card or by crypto.
ActiveIsSubscribed ==
    Quiet /\ ~raced /\ user = "ACTIVE" => "ACTIVE" \in {card.status, crypto.status}

\* A user who has paid and filled in both forms does not stay in onboarding:
\* a status computed before the payment landed and written after it is put
\* right by the step that comes last, and what a form left undone that failed
\* past its step, by that form once it is sent again.  The progress the user is
\* shown is that of the steps stored.
OnboardingEnds ==
    Quiet /\ AllDone(steps) /\ lost = {} =>
        user \notin {"NEW", "ONBOARDING"} /\ (~raced => progress = steps)

\* "Marks an onboarding step COMPLETED and recomputes overall progress",
\* without the exception: it does not hold, because the two are not one
\* transaction and nothing but the form itself repeats the second.
OnboardingAlwaysEnds ==
    Quiet /\ AllDone(steps) =>
        user \notin {"NEW", "ONBOARDING"} /\ (~raced => progress = steps)
=============================================================================
