--------------------------- MODULE CardBillingProofs ---------------------------
(***************************************************************************)
(* The invariants of CardBilling, for any number of events, in any order   *)
(* and again, with failures after every await, beside the client's forms   *)
(* and requests, crypto payments and the cron: what Stripe was answered    *)
(* for is done (AnsweredIsDone), a user who has paid leaves onboarding     *)
(* (OnboardingEnds), an ACTIVE user is subscribed (ActiveIsSubscribed),    *)
(* the row knows whether Stripe will renew (CancelAgrees), and row, user   *)
(* and service say what Stripe says (AgreesWithStripe).                    *)
(*                                                                         *)
(* Each but the first says of a quiet state what an event on its way makes *)
(* true of any other: the invariants name that event.                      *)
(***************************************************************************)
EXTENDS CardBilling, SequenceTheorems, TLAPS

\* The parts of the handler that lead to the answer of a payment, and those
\* after its step has been completed.
PaymentPCs == {"find", "write", "user", "complete", "resume"}

GateOK == now \in Nat /\ gate \in GateType /\ sent \in Seq(Event)

\* A handler is at an event that is not answered, on the way that the type
\* of the event prescribes.
HandlerInv ==
    webhook.pc # "idle" =>
        /\ webhook.event \in DOMAIN sent \ answered
        /\ Kind = "paid" => webhook.pc \in PaymentPCs \cup {"retrieve", "commission"}
        /\ Kind = "created" => webhook.pc \in PaymentPCs
        /\ webhook.pc \in {"user", "complete", "resume", "commission"} => Kind \in {"created", "paid"}
        /\ webhook.pc = "write" => Kind \in {"created", "paid", "updated"}
        /\ webhook.pc \in {"retrieve", "commission"} => Kind = "paid"
        /\ webhook.pc \in {"resume", "commission"} => "payment" \in steps

AnswerInv ==
    /\ GateOK
    /\ answered \subseteq DOMAIN sent
    /\ webhook \in [pc : WebhookPCs, event : Nat, end : Nat]
    /\ steps \subseteq Steps
    /\ HandlerInv
    /\ AnsweredIsDone

LEMMA InitInv == Init => AnswerInv
  <1> SUFFICES ASSUME Init PROVE AnswerInv
    OBVIOUS
  <1>1. now \in Nat /\ gate \in GateType
    <2>1. [status |-> "none", end |-> 0, cancel |-> FALSE] \in GateType
      BY DEF GateType, GateStatuses
    <2>2. [status |-> "active", end |-> Period, cancel |-> FALSE] \in GateType
      BY CardAssumption DEF GateType, GateStatuses
    <2>3. [status |-> "past_due", end |-> Period, cancel |-> FALSE] \in GateType
      BY CardAssumption DEF GateType, GateStatuses
    <2> QED
      BY <2>1, <2>2, <2>3 DEF Init
  <1>2. sent \in Seq(Event) /\ DOMAIN sent = {}
    BY DEF Init
  <1> QED
    BY <1>1, <1>2 DEF Init, AnswerInv, GateOK, HandlerInv, AnsweredIsDone, IdleWebhook, WebhookPCs

\* An event Stripe sends follows those it has sent.

LEMMA Emitted ==
  ASSUME AnswerInv, gate' \in GateType, NEW types \in Seq(EventTypes), Emit(types),
         UNCHANGED <<now, answered, steps, rewarded, webhook>>
  PROVE  AnswerInv'
  <1> DEFINE new == [i \in DOMAIN types |-> [type |-> types[i], sub |-> gate']]
  <1>1. new \in Seq(Event)
    <2>1. \A i \in 1 .. Len(types) : [type |-> types[i], sub |-> gate'] \in Event
      BY DEF Event
    <2>2. DOMAIN types = 1 .. Len(types) /\ Len(types) \in Nat
      OBVIOUS
    <2> QED
      BY <2>1, <2>2 DEF Event
  <1>2. sent \in Seq(Event) /\ sent' = sent \o new
    BY DEF Emit, AnswerInv, GateOK
  <1> HIDE DEF new
  <1>3. sent' \in Seq(Event)
    BY <1>1, <1>2
  <1>4. \A i \in DOMAIN sent : i \in DOMAIN sent' /\ sent'[i] = sent[i]
    BY <1>1, <1>2
  <1> QED
    BY <1>3, <1>4 DEF AnswerInv, GateOK, HandlerInv, AnsweredIsDone, Kind

\* Stripe's own steps.
LEMMA StripeStep ==
  ASSUME AnswerInv, Subscribe \/ InvoicePaid \/ InvoiceFails \/ SubscriptionEnds
  PROVE  AnswerInv'
  <1>1. UNCHANGED <<now, answered, steps, rewarded, webhook>>
    BY DEF Subscribe, InvoicePaid, InvoiceFails, SubscriptionEnds, StripeOnly, onboarding
  <1>2. Charged \in Nat
    BY CardAssumption DEF Charged, AnswerInv, GateOK, GateType
  <1>3. gate' \in GateType
    <2>0. gate \in GateType /\ now + Period \in Nat
      BY CardAssumption DEF AnswerInv, GateOK
    <2>1. CASE Subscribe
      BY <2>0, <2>1 DEF Subscribe, GateType, GateStatuses
    <2>2. CASE InvoicePaid
      BY <1>2, <2>0, <2>2 DEF InvoicePaid, GateType, GateStatuses
    <2>3. CASE InvoiceFails
      BY <1>2, <2>0, <2>3 DEF InvoiceFails, GateType, GateStatuses
    <2>4. CASE SubscriptionEnds
      BY <2>0, <2>4 DEF SubscriptionEnds, GateType, GateStatuses
    <2> QED
      BY <2>1, <2>2, <2>3, <2>4
  <1>4. PICK types \in Seq(EventTypes) : Emit(types)
    <2>1. \A e, f \in EventTypes : <<e>> \in Seq(EventTypes) /\ <<e, f>> \in Seq(EventTypes)
      OBVIOUS
    <2>2. {"created", "updated", "paid", "failed", "deleted"} \subseteq EventTypes
      BY DEF EventTypes
    <2>3. \E types \in {<<"created">>, <<"paid", "updated">>, <<"updated", "paid">>,
                        <<"failed", "updated">>, <<"failed">>, <<"deleted">>} : Emit(types)
      BY DEF Subscribe, InvoicePaid, InvoiceFails, SubscriptionEnds
    <2> QED
      BY <2>1, <2>2, <2>3
  <1> QED
    BY <1>1, <1>3, <1>4, Emitted

\* A cancellation that is sent to Stripe.
LEMMA AskStep ==
  ASSUME AnswerInv, NEW wish \in {"cancel", "reactivate"}, AskStripe(wish)
  PROVE  AnswerInv'
  <1>1. gate' \in GateType
    BY DEF AskStripe, AnswerInv, GateOK, GateType
  <1>2. <<"updated">> \in Seq(EventTypes)
    BY DEF EventTypes
  <1> QED
    BY <1>1, <1>2, Emitted DEF AskStripe, onboarding

LEMMA CancelStep ==
  ASSUME AnswerInv, CancelNow
  PROVE  AnswerInv'
  <1>1. gate' \in GateType
    BY DEF CancelNow, AnswerInv, GateOK, GateType, GateStatuses
  <1>2. <<"deleted">> \in Seq(EventTypes)
    BY DEF EventTypes
  <1> QED
    BY <1>1, <1>2, Emitted DEF CancelNow, onboarding

\* The steps that neither answer Stripe nor move the handler: steps only grow.
LEMMA OtherStep ==
  ASSUME AnswerInv, UNCHANGED <<gate, sent, answered, rewarded, webhook>>,
         now' \in Nat, steps \subseteq steps', steps' \subseteq Steps
  PROVE  AnswerInv'
  BY DEF AnswerInv, GateOK, HandlerInv, AnsweredIsDone, Kind

\* An event arrives; it is no longer answered.
LEMMA DeliverStep ==
  ASSUME AnswerInv, NEW i \in DOMAIN sent, Deliver(i)
  PROVE  AnswerInv'
  <1>1. webhook' = [pc |-> IF sent[i].type = "paid" THEN "retrieve" ELSE "find",
                    event |-> i, end |-> sent[i].sub.end]
    BY DEF Deliver
  <1>2. UNCHANGED <<now, gate, sent, steps, rewarded>> /\ answered' = answered \ {i}
    BY DEF Deliver, stripe, onboarding
  <1>3. sent[i] \in Event /\ i \in Nat
    BY DEF AnswerInv, GateOK
  <1>4. sent[i].sub.end \in Nat
    BY <1>3 DEF Event, GateType
  <1>5. webhook' \in [pc : WebhookPCs, event : Nat, end : Nat]
    BY <1>1, <1>3, <1>4 DEF WebhookPCs
  <1> QED
    BY <1>1, <1>2, <1>5 DEF AnswerInv, GateOK, HandlerInv, AnsweredIsDone, Kind, PaymentPCs

\* The handler goes on to pc, at the same event.
LEMMA GoOn ==
  ASSUME AnswerInv, NEW pc \in WebhookPCs, webhook.pc # "idle",
         webhook'.pc = pc, webhook'.event = webhook.event, webhook' \in [pc : WebhookPCs, event : Nat, end : Nat],
         UNCHANGED <<now, gate, sent, answered, rewarded>>,
         steps \subseteq steps', steps' \subseteq Steps,
         Kind = "paid" => pc \in PaymentPCs \cup {"commission"},
         Kind = "created" => pc \in PaymentPCs,
         pc \in {"user", "complete", "resume", "commission"} => Kind \in {"created", "paid"},
         pc = "write" => Kind \in {"created", "paid", "updated"},
         pc # "retrieve", pc = "commission" => Kind = "paid",
         pc \in {"resume", "commission"} => "payment" \in steps'
  PROVE  AnswerInv'
  BY DEF AnswerInv, GateOK, HandlerInv, AnsweredIsDone, Kind

\* The handler answers: what the event's type asks for is done.
LEMMA AnswerStep ==
  ASSUME AnswerInv, webhook.pc # "idle", Answer, UNCHANGED <<now, gate, sent, steps>>,
         rewarded \subseteq rewarded',
         Kind = "paid" => webhook.event \in rewarded',
         Kind \in {"paid", "created"} => "payment" \in steps
  PROVE  AnswerInv'
  BY DEF AnswerInv, GateOK, HandlerInv, AnsweredIsDone, Kind, Answer, IdleWebhook, WebhookPCs

\* The handler gives up: nothing is answered.
LEMMA RefuseStep ==
  ASSUME AnswerInv, webhook' = IdleWebhook, UNCHANGED <<now, gate, sent, answered, steps, rewarded>>
  PROVE  AnswerInv'
  BY DEF AnswerInv, GateOK, HandlerInv, AnsweredIsDone, IdleWebhook, WebhookPCs

\* Every await of the handler.
LEMMA WebhookStep == AnswerInv /\ HandlerStep => AnswerInv'
  <1> SUFFICES ASSUME AnswerInv, HandlerStep PROVE AnswerInv'
    OBVIOUS
  <1>0. webhook.pc # "idle" /\ webhook \in [pc : WebhookPCs, event : Nat, end : Nat]
    BY DEF AnswerInv, HandlerStep, Retrieve, Find, WriteRow, ActivateUser, CompletePayment, Resume,
           PayCommission, FailRow, SuspendUser, StopService, WriteFlag, CancelRow, DeactivateUser
  <1>1. HandlerInv /\ steps \subseteq Steps
    BY DEF AnswerInv
  <1>2. CASE Retrieve
    <2>1. webhook' = [webhook EXCEPT !.pc = "find", !.end = gate.end] /\ gate.end \in Nat
      BY <1>2 DEF Retrieve, AnswerInv, GateOK, GateType
    <2>2. UNCHANGED <<now, gate, sent, answered, rewarded, steps>>
      BY <1>2 DEF Retrieve, stripe, onboarding
    <2> QED
      BY <1>0, <1>1, <2>1, <2>2, GoOn DEF PaymentPCs, WebhookPCs
  <1>3. CASE Find
    <2>1. UNCHANGED <<now, gate, sent, rewarded, steps>>
      BY <1>3 DEF Find, stripe, onboarding
    <2>2. CASE AfterFind = "none" /\ Kind = "deleted"
      BY <1>3, <2>1, <2>2, RefuseStep DEF Find, Refuse
    <2>3. CASE AfterFind = "none" /\ Kind # "deleted"
      <3>1. Kind \notin {"created", "paid"}
        BY <2>3 DEF AfterFind
      <3> QED
        BY <1>0, <1>3, <2>1, <2>3, <3>1, AnswerStep DEF Find
    <2>4. CASE AfterFind # "none"
      <3>1. webhook' = [webhook EXCEPT !.pc = AfterFind] /\ UNCHANGED answered
        BY <1>3, <2>4 DEF Find, Goto
      <3>2. AfterFind \in {"write", "fail", "cancel", "flag"}
        BY <2>4 DEF AfterFind
      <3>3. /\ Kind \in {"created", "paid"} => AfterFind = "write"
            /\ AfterFind = "write" => Kind \in {"created", "paid", "updated"}
        BY DEF AfterFind
      <3> QED
        BY <1>0, <2>1, <3>1, <3>2, <3>3, <1>1, GoOn DEF PaymentPCs, WebhookPCs
    <2> QED
      BY <2>2, <2>3, <2>4
  <1>4. CASE WriteRow
    BY <1>0, <1>1, <1>4, GoOn DEF WriteRow, Goto, stripe, onboarding, HandlerInv, PaymentPCs, WebhookPCs
  <1>5. CASE ActivateUser
    BY <1>0, <1>1, <1>5, GoOn DEF ActivateUser, Goto, stripe, onboarding, HandlerInv, PaymentPCs, WebhookPCs
  <1>6. CASE CompletePayment
    <2>1. steps' = steps \cup {"payment"} /\ "payment" \in Steps
      BY <1>6 DEF CompletePayment, BeginStep, Steps
    <2> QED
      BY <1>0, <1>1, <1>6, <2>1, GoOn
      DEF CompletePayment, Goto, stripe, HandlerInv, PaymentPCs, WebhookPCs
  <1>7. CASE Resume
    <2>1. CASE Kind = "paid"
      BY <1>0, <1>1, <1>7, <2>1, GoOn
      DEF Resume, Goto, stripe, onboarding, HandlerInv, PaymentPCs, WebhookPCs
    <2>2. CASE Kind # "paid"
      BY <1>0, <1>1, <1>7, <2>2, AnswerStep DEF Resume, stripe, onboarding, HandlerInv
    <2> QED
      BY <2>1, <2>2
  <1>8. CASE PayCommission
    BY <1>0, <1>1, <1>8, AnswerStep DEF PayCommission, stripe, onboarding, HandlerInv
  <1>9. CASE FailRow
    BY <1>0, <1>1, <1>9, GoOn DEF FailRow, Goto, stripe, onboarding, HandlerInv, PaymentPCs, WebhookPCs
  <1>10. CASE SuspendUser
    BY <1>0, <1>1, <1>10, GoOn DEF SuspendUser, Goto, stripe, onboarding, HandlerInv, PaymentPCs, WebhookPCs
  <1>11. CASE StopService
    <2>1. Kind \notin {"created", "paid"}
      BY <1>0, <1>1, <1>11 DEF StopService, HandlerInv, PaymentPCs
    <2>2. CASE Kind = "updated"
      BY <1>0, <1>1, <1>11, <2>1, <2>2, GoOn
      DEF StopService, Goto, stripe, onboarding, WebhookPCs
    <2>3. CASE Kind # "updated"
      BY <1>0, <1>11, <2>1, <2>3, AnswerStep DEF StopService, stripe, onboarding
    <2> QED
      BY <2>2, <2>3
  <1>12. CASE WriteFlag
    <2>1. Kind \notin {"created", "paid"}
      BY <1>0, <1>1, <1>12 DEF WriteFlag, HandlerInv, PaymentPCs
    <2> QED
      BY <1>0, <1>12, <2>1, AnswerStep DEF WriteFlag, stripe, onboarding
  <1>13. CASE CancelRow
    BY <1>0, <1>1, <1>13, GoOn DEF CancelRow, Goto, stripe, onboarding, HandlerInv, PaymentPCs, WebhookPCs
  <1>14. CASE DeactivateUser
    BY <1>0, <1>1, <1>14, GoOn DEF DeactivateUser, Goto, stripe, onboarding, HandlerInv, PaymentPCs, WebhookPCs
  <1> QED
    BY <1>2, <1>3, <1>4, <1>5, <1>6, <1>7, <1>8, <1>9, <1>10, <1>11, <1>12, <1>13, <1>14 DEF HandlerStep

LEMMA StepInv == AnswerInv /\ [Next]_vars => AnswerInv'
  <1> SUFFICES ASSUME AnswerInv, [Next]_vars PROVE AnswerInv'
    OBVIOUS
  <1>0. now \in Nat /\ steps \subseteq Steps
    BY DEF AnswerInv, GateOK
  <1>1. CASE Subscribe \/ InvoicePaid \/ InvoiceFails \/ SubscriptionEnds
    BY <1>1, StripeStep
  <1>2. CASE NextDay
    BY <1>0, <1>2, OtherStep DEF NextDay, stripe, onboarding
  <1>3. CASE \E c \in Callers : ReadSteps(c) \/ ReadStatus(c) \/ WriteProgress(c)
    BY <1>0, <1>3, OtherStep DEF ReadSteps, ReadStatus, WriteProgress, stripe
  <1>4. CASE \E step \in Forms : SubmitForm(step)
    <2>1. steps \subseteq steps' /\ steps' \subseteq Steps
      BY <1>0, <1>4 DEF SubmitForm, BeginStep, Steps
    <2> QED
      BY <1>0, <1>4, <2>1, OtherStep DEF SubmitForm, stripe
  <1>5. CASE \E i \in DOMAIN sent : Deliver(i)
    BY <1>5, DeliverStep
  <1>6. CASE HandlerStep
    BY <1>6, WebhookStep
  <1>7. CASE HandlingFails \/ ProcessDies
    BY <1>7, RefuseStep DEF HandlingFails, ProcessDies, stripe
  <1>8. CASE CancelNow \/ \E wish \in {"cancel", "reactivate"} : AskStripe(wish)
    BY <1>8, AskStep, CancelStep
  <1>9. CASE StoreWish \/ RequestFails \/ LifecycleCron \/ FormFails \/ ServiceWorks
    BY <1>0, <1>9, OtherStep
    DEF StoreWish, RequestFails, LifecycleCron, FormFails, ServiceWorks, stripe, onboarding
  <1>10. CASE CryptoPaid
    <2>1. steps \subseteq steps' /\ steps' \subseteq Steps
      BY <1>0, <1>10 DEF CryptoPaid, Steps
    <2> QED
      BY <1>0, <1>10, <2>1, OtherStep DEF CryptoPaid, stripe
  <1>11. CASE UNCHANGED vars
    BY <1>0, <1>11, OtherStep DEF vars, stripe, onboarding
  <1> QED
    BY <1>1, <1>2, <1>3, <1>4, <1>5, <1>6, <1>7, <1>8, <1>9, <1>10, <1>11 DEF Next

\* Whatever order events come in, however often a handler fails half way or
\* an answer is lost: a payment Stripe was answered for has been given to the
\* commission engine and has completed the payment step
\* (src/src/webhooks/stripe.webhook.ts, stripeWebhookHandler).
THEOREM AnsweredPaymentsAreDone == Spec => []AnsweredIsDone
  <1>1. AnswerInv => AnsweredIsDone
    BY DEF AnswerInv
  <1> QED
    BY <1>1, InitInv, StepInv, PTL DEF Spec
-----------------------------------------------------------------------------
(* What completeStep and the rows hold *)

CompletingType == [Callers -> CompletingRecord]

HeldOK ==
    /\ card \in RowType /\ crypto \in RowType /\ user \in Statuses
    /\ completing \in CompletingType /\ service \in ServiceType

HeldInv == AnswerInv /\ HeldOK

\* One caller's record changes, the other's does not.
LEMMA CompletingAt ==
  ASSUME completing \in CompletingType, NEW c \in Callers,
         NEW v \in CompletingRecord,
         completing' = [completing EXCEPT ![c] = v]
  PROVE  /\ completing' \in CompletingType
         /\ completing'[c] = v
         /\ \A d \in Callers : d # c => completing'[d] = completing[d]
  BY DEF CompletingType

LEMMA InitHeld == Init => HeldInv
  <1> SUFFICES ASSUME Init PROVE HeldInv
    OBVIOUS
  <1>1. NoRow \in RowType
    BY DEF NoRow, RowType
  <1>2. [status |-> "ACTIVE", end |-> Period, grace |-> 0, cancel |-> FALSE] \in RowType
    BY CardAssumption DEF RowType
  <1>3. completing \in CompletingType /\ service \in ServiceType
    <2>1. NotCompleting \in CompletingRecord
      BY DEF NotCompleting, CompletingRecord, CompletingPCs, Statuses, Steps
    <2>2. completing \in CompletingType
      BY <2>1 DEF Init, CompletingType
    <2>3. service \in ServiceType
      <3>1. \A s \in ServiceStates : [state |-> s, missed |-> FALSE] \in ServiceType
        BY DEF ServiceType
      <3>2. {"none", "active", "paused"} \subseteq ServiceStates
        BY DEF ServiceStates
      <3> QED
        BY <3>1, <3>2 DEF Init
    <2> QED
      BY <2>2, <2>3
  <1>4. card \in RowType /\ crypto \in RowType /\ user \in Statuses
    <2>1. [status |-> "PAST_DUE", end |-> 0, grace |-> Grace, cancel |-> FALSE] \in RowType
      BY CardAssumption DEF RowType
    <2> QED
      BY <1>1, <1>2, <2>1 DEF Init, Statuses
  <1> QED
    BY <1>3, <1>4, InitInv DEF HeldInv, HeldOK

\* The awaits of completeStep, one by one.
LEMMA ReadStepsAt ==
  ASSUME HeldOK, steps \subseteq Steps, NEW c \in Callers, ReadSteps(c)
  PROVE  /\ completing[c].pc = "steps"
         /\ completing' \in CompletingType
         /\ completing'[c].pc = "status" /\ completing'[c].seen = steps
         /\ completing'[c].step = completing[c].step
         /\ \A d \in Callers : d # c => completing'[d] = completing[d]
         /\ UNCHANGED <<gate, sent, answered, card, crypto, service, user, steps, progress, lost, webhook,
                        client, ordered, raced>>
  <1> DEFINE v == [completing[c] EXCEPT !.pc = "status", !.seen = steps]
  <1>1. completing[c] \in CompletingRecord
    BY DEF HeldOK, CompletingType
  <1>2. /\ v \in CompletingRecord
        /\ v.pc = "status" /\ v.seen = steps /\ v.step = completing[c].step
    BY <1>1 DEF CompletingRecord, CompletingPCs
  <1>3. completing' = [completing EXCEPT ![c] = v] /\ completing[c].pc = "steps"
    BY DEF ReadSteps, HeldOK, CompletingType
  <1>4. UNCHANGED <<gate, sent, answered, card, crypto, service, user, steps, progress, lost, webhook,
                    client, ordered, raced>>
    BY DEF ReadSteps, stripe, rows
  <1> HIDE DEF v
  <1> QED
    BY <1>2, <1>3, <1>4, CompletingAt DEF HeldOK

LEMMA ReadStatusAt ==
  ASSUME HeldOK, NEW c \in Callers, ReadStatus(c)
  PROVE  /\ completing[c].pc = "status"
         /\ completing' \in CompletingType
         /\ completing'[c].pc = "write" /\ completing'[c].seen = completing[c].seen
         /\ completing'[c].status = user /\ completing'[c].step = completing[c].step
         /\ \A d \in Callers : d # c => completing'[d] = completing[d]
         /\ UNCHANGED <<gate, sent, answered, card, crypto, service, user, steps, progress, lost, webhook,
                        client, ordered, raced>>
  <1> DEFINE v == [completing[c] EXCEPT !.pc = "write", !.status = user]
  <1>1. completing[c] \in CompletingRecord
    BY DEF HeldOK, CompletingType
  <1>2. /\ v \in CompletingRecord
        /\ v.pc = "write" /\ v.seen = completing[c].seen /\ v.status = user /\ v.step = completing[c].step
    BY <1>1 DEF CompletingRecord, CompletingPCs, HeldOK
  <1>3. completing' = [completing EXCEPT ![c] = v] /\ completing[c].pc = "status"
    BY DEF ReadStatus, HeldOK, CompletingType
  <1>4. UNCHANGED <<gate, sent, answered, card, crypto, service, user, steps, progress, lost, webhook,
                    client, ordered, raced>>
    BY DEF ReadStatus, stripe, rows
  <1> HIDE DEF v
  <1> QED
    BY <1>2, <1>3, <1>4, CompletingAt DEF HeldOK

LEMMA WriteProgressAt ==
  ASSUME HeldOK, NEW c \in Callers, WriteProgress(c)
  PROVE  /\ completing[c].pc = "write"
         /\ completing' \in CompletingType
         /\ completing'[c].pc = "idle"
         /\ \A d \in Callers : d # c => completing'[d] = completing[d]
         /\ progress' = completing[c].seen /\ lost' = lost \ {completing[c].step}
         /\ user' = StatusAfter(completing[c].seen, completing[c].status, user)
         /\ raced' = \/ raced \/ completing[c].seen # steps
                     \/ (completing[c].status # user /\ user' # user)
         /\ UNCHANGED <<gate, sent, answered, card, crypto, steps, webhook, client, ordered>>
  <1>1. /\ NotCompleting \in CompletingRecord
        /\ NotCompleting.pc = "idle"
    BY DEF NotCompleting, CompletingRecord, CompletingPCs, Statuses, Steps
  <1>2. completing' = [completing EXCEPT ![c] = NotCompleting]
    BY DEF WriteProgress
  <1>3. /\ completing' \in CompletingType
        /\ completing'[c].pc = "idle"
        /\ \A d \in Callers : d # c => completing'[d] = completing[d]
    BY <1>1, <1>2, CompletingAt DEF HeldOK
  <1>4. UNCHANGED <<gate, sent, answered, card, crypto, steps, webhook, client, ordered>>
    BY DEF WriteProgress, stripe
  <1> QED
    BY <1>3, <1>4 DEF WriteProgress

LEMMA BeginStepAt ==
  ASSUME HeldOK, NEW c \in Callers, NEW step \in Steps, BeginStep(c, step)
  PROVE  /\ completing' \in CompletingType
         /\ completing'[c].pc = "steps" /\ completing'[c].step = step
         /\ \A d \in Callers : d # c => completing'[d] = completing[d]
         /\ steps' = steps \cup {step}
  <1> DEFINE v == [completing[c] EXCEPT !.pc = "steps", !.step = step]
  <1>1. completing[c] \in CompletingRecord
    BY DEF HeldOK, CompletingType
  <1>2. /\ v \in CompletingRecord
        /\ v.pc = "steps" /\ v.step = step
    BY <1>1 DEF CompletingRecord, CompletingPCs
  <1>3. completing' = [completing EXCEPT ![c] = v] /\ steps' = steps \cup {step}
    BY DEF BeginStep, HeldOK, CompletingType
  <1> HIDE DEF v
  <1> QED
    BY <1>2, <1>3, CompletingAt DEF HeldOK

\* The status is computed from what is one.
LEMMA StatusAfterOK ==
  ASSUME NEW seen, NEW read \in Statuses, NEW current \in Statuses
  PROVE  /\ StatusAfter(seen, read, current) \in Statuses
         /\ StatusAfter(seen, read, current) # current =>
               \/ AllDone(seen) /\ read = "ONBOARDING" /\ StatusAfter(seen, read, current) = "ACTIVE"
               \/ ~AllDone(seen) /\ seen # {} /\ read = "NEW"
                     /\ StatusAfter(seen, read, current) = "ONBOARDING"
         /\ AllDone(seen) /\ read = "ONBOARDING" => StatusAfter(seen, read, current) = "ACTIVE"
         /\ ~AllDone(seen) /\ seen # {} /\ read = "NEW" =>
               StatusAfter(seen, read, current) = "ONBOARDING"
  BY DEF StatusAfter, Statuses

\* The handler's attempt is over: its step is not being completed any more.
LEMMA HandlingFailsAt ==
  ASSUME HeldOK, HandlingFails
  PROVE  /\ webhook.pc # "idle" /\ webhook' = IdleWebhook
         /\ completing' \in CompletingType
         /\ completing'["webhook"].pc = "idle" /\ completing'["form"] = completing["form"]
         /\ UNCHANGED <<now, gate, sent, answered, card, crypto, service, user, steps, progress, lost,
                        client, ordered, raced>>
  <1>1. /\ NotCompleting \in CompletingRecord
        /\ NotCompleting.pc = "idle"
    BY DEF NotCompleting, CompletingRecord, CompletingPCs, Statuses, Steps
  <1>2. completing' = [completing EXCEPT !["webhook"] = NotCompleting]
    BY DEF HandlingFails
  <1>3. "webhook" \in Callers /\ "form" \in Callers
    BY DEF Callers
  <1>4. /\ completing' \in CompletingType
        /\ completing'["webhook"].pc = "idle" /\ completing'["form"] = completing["form"]
    BY <1>1, <1>2, <1>3, CompletingAt DEF HeldOK
  <1> QED
    BY <1>4 DEF HandlingFails, stripe, rows

\* A form's attempt is over, and so is every attempt when the process dies.
LEMMA FormFailsAt ==
  ASSUME HeldOK, FormFails \/ ProcessDies
  PROVE  /\ completing' \in CompletingType /\ completing'["form"].pc = "idle"
         /\ lost' = IF Completing("form") THEN lost \cup {completing["form"].step} ELSE lost
         /\ \/ webhook' = webhook /\ completing'["webhook"] = completing["webhook"]
            \/ webhook'.pc = "idle" /\ completing'["webhook"].pc = "idle"
         /\ client' \in {client, "idle"}
         /\ UNCHANGED <<now, gate, sent, answered, card, crypto, service, user, steps, progress, ordered, raced>>
  <1>1. /\ NotCompleting \in CompletingRecord
        /\ NotCompleting.pc = "idle"
    BY DEF NotCompleting, CompletingRecord, CompletingPCs, Statuses, Steps
  <1>2. "webhook" \in Callers /\ "form" \in Callers
    BY DEF Callers
  <1>3. CASE FormFails
    <2>1. /\ completing' \in CompletingType /\ completing'["form"].pc = "idle"
          /\ completing'["webhook"] = completing["webhook"]
      BY <1>1, <1>2, <1>3, CompletingAt DEF FormFails, HeldOK
    <2> QED
      BY <1>3, <2>1 DEF FormFails, stripe, rows
  <1>4. CASE ProcessDies
    <2>1. completing' = [c \in Callers |-> NotCompleting] /\ webhook'.pc = "idle"
      BY <1>4 DEF ProcessDies, IdleWebhook
    <2>2. /\ completing' \in CompletingType /\ completing'["form"].pc = "idle"
          /\ completing'["webhook"].pc = "idle"
      BY <1>1, <1>2, <2>1 DEF CompletingType
    <2> QED
      BY <1>4, <2>1, <2>2 DEF ProcessDies, stripe, rows
  <1> QED
    BY <1>3, <1>4

\* What the service is asked for.
LEMMA ServiceAt ==
  ASSUME HeldOK, NEW state \in ServiceStates
  PROVE  /\ [service EXCEPT !.state = state] \in ServiceType
         /\ [service EXCEPT !.state = state].state = state
         /\ [service EXCEPT !.state = state].missed = service.missed
         /\ \A done : Triggered(done) \in ServiceStates
         /\ Resumed(state) \in ServiceStates \ {"STOP", "paused"}
         /\ Stopped(service) \in ServiceType
  <1>1. service \in ServiceType
    BY DEF HeldOK
  <1>2. \A done : Triggered(done) \in ServiceStates
    BY <1>1 DEF Triggered, ServiceType, ServiceStates
  <1>3. Resumed(state) \in ServiceStates \ {"STOP", "paused"}
    BY DEF Resumed, ServiceStates
  <1>4. Stopped(service) \in ServiceType
    BY <1>1 DEF Stopped, ServiceType, ServiceStates
  <1> QED
    BY <1>1, <1>2, <1>3, <1>4 DEF ServiceType

\* The handler's writes to the row and to the user keep their types.
LEMMA RowsStep == HeldInv /\ HandlerStep => HeldOK'
  <1> SUFFICES ASSUME HeldInv, HandlerStep PROVE HeldOK'
    OBVIOUS
  <1>0. /\ HeldOK /\ card \in RowType /\ crypto \in RowType /\ user \in Statuses
        /\ service \in ServiceType
        /\ completing \in CompletingType /\ now \in Nat /\ now + Grace \in Nat /\ webhook.end \in Nat
    BY CardAssumption DEF HeldInv, HeldOK, AnswerInv, GateOK
  <1>1. CASE Retrieve
    BY <1>0, <1>1 DEF Retrieve, HeldOK, rows, onboarding
  <1>2. CASE Find
    BY <1>0, <1>2 DEF Find, HeldOK, rows, onboarding
  <1>3. CASE WriteRow
    <2>1. card' \in RowType
      BY <1>0, <1>3 DEF WriteRow, RowType
    <2> QED
      BY <1>0, <1>3, <2>1 DEF WriteRow, HeldOK, onboarding
  <1>4. CASE ActivateUser
    BY <1>0, <1>4 DEF ActivateUser, HeldOK, rows, onboarding, Statuses
  <1>5. CASE CompletePayment
    <2>1. completing' \in CompletingType
      BY <1>0, <1>5, BeginStepAt DEF CompletePayment, Callers, Steps
    <2> QED
      BY <1>0, <1>5, <2>1 DEF CompletePayment, HeldOK, rows
  <1>6. CASE Resume
    <2>1. Triggered(steps) \in ServiceStates
      <3>1. "none" \in ServiceStates
        BY DEF ServiceStates
      <3> QED
        BY <1>0, <3>1, ServiceAt
    <2>2. service' \in ServiceType
      <3>1. Resumed(Triggered(steps)) \in ServiceStates
        BY <1>0, <2>1, ServiceAt
      <3> QED
        BY <1>0, <1>6, <3>1, ServiceAt DEF Resume
    <2> QED
      BY <1>0, <1>6, <2>2 DEF Resume, HeldOK, onboarding
  <1>7. CASE PayCommission
    BY <1>0, <1>7 DEF PayCommission, HeldOK, rows, onboarding
  <1>8. CASE FailRow
    <2>1. card' \in RowType
      BY <1>0, <1>8 DEF FailRow, RowType
    <2> QED
      BY <1>0, <1>8, <2>1 DEF FailRow, HeldOK, onboarding
  <1>9. CASE SuspendUser
    BY <1>0, <1>9 DEF SuspendUser, HeldOK, rows, onboarding, Statuses
  <1>10. CASE StopService
    <2>1. service' \in ServiceType
      BY <1>0, <1>10 DEF StopService, Stopped, ServiceType, ServiceStates
    <2> QED
      BY <1>0, <1>10, <2>1 DEF StopService, HeldOK, onboarding
  <1>11. CASE WriteFlag
    <2>0. webhook.event \in DOMAIN sent /\ sent \in Seq(Event)
      BY <1>11 DEF WriteFlag, HeldInv, AnswerInv, HandlerInv, GateOK
    <2>1. Snapshot.cancel \in BOOLEAN
      <3>1. sent[webhook.event] \in Event
        BY <2>0
      <3> QED
        BY <3>1 DEF Snapshot, Event, GateType
    <2>2. card' \in RowType
      BY <1>0, <1>11, <2>1 DEF WriteFlag, RowType
    <2> QED
      BY <1>0, <1>11, <2>2 DEF WriteFlag, HeldOK, onboarding
  <1>12. CASE CancelRow
    <2>1. card' \in RowType
      BY <1>0, <1>12 DEF CancelRow, RowType
    <2> QED
      BY <1>0, <1>12, <2>1 DEF CancelRow, HeldOK, onboarding
  <1>13. CASE DeactivateUser
    BY <1>0, <1>13 DEF DeactivateUser, HeldOK, rows, onboarding, Statuses
  <1> QED
    BY <1>1, <1>2, <1>3, <1>4, <1>5, <1>6, <1>7, <1>8, <1>9, <1>10, <1>11, <1>12, <1>13 DEF HandlerStep

LEMMA StepHeld == HeldInv /\ [Next]_vars => HeldInv'
  <1> SUFFICES ASSUME HeldInv, [Next]_vars PROVE HeldOK'
    BY StepInv DEF HeldInv
  <1>0. /\ HeldOK /\ card \in RowType /\ crypto \in RowType /\ user \in Statuses
        /\ completing \in CompletingType /\ now \in Nat /\ now + Grace \in Nat /\ now + Period \in Nat
        /\ steps \subseteq Steps /\ service \in ServiceType
    BY CardAssumption DEF HeldInv, HeldOK, AnswerInv, GateOK
  <1>1. CASE \/ Subscribe \/ InvoicePaid \/ InvoiceFails \/ SubscriptionEnds \/ NextDay
             \/ (\E i \in DOMAIN sent : Deliver(i)) \/ RequestFails
             \/ (\E wish \in {"cancel", "reactivate"} : AskStripe(wish)) \/ CancelNow
    BY <1>0, <1>1 DEF Subscribe, InvoicePaid, InvoiceFails, SubscriptionEnds, StripeOnly, NextDay,
       Deliver, RequestFails, AskStripe, CancelNow, HeldOK, rows, onboarding
  <1>2. ASSUME NEW c \in Callers, ReadSteps(c) \/ ReadStatus(c) \/ WriteProgress(c) PROVE HeldOK'
    <2>1. CASE ReadSteps(c)
      BY <1>0, <2>1, ReadStepsAt DEF HeldOK
    <2>2. CASE ReadStatus(c)
      BY <1>0, <2>2, ReadStatusAt DEF HeldOK
    <2>3. CASE WriteProgress(c)
      <3>1. completing[c].status \in Statuses
        BY <1>0 DEF CompletingType, CompletingRecord
      <3>3. service' \in ServiceType
        <4>1. Triggered(steps) \in ServiceStates
          <5>1. "none" \in ServiceStates
            BY DEF ServiceStates
          <5> QED
            BY <1>0, <5>1, ServiceAt
        <4> QED
          BY <1>0, <2>3, <4>1, ServiceAt DEF WriteProgress
      <3>2. user' \in Statuses
        <4>1. user' = StatusAfter(completing[c].seen, completing[c].status, user)
          BY <1>0, <2>3, WriteProgressAt
        <4> QED
          BY <1>0, <3>1, <4>1, StatusAfterOK
      <3> QED
        BY <1>0, <2>3, <3>2, <3>3, WriteProgressAt DEF HeldOK
    <2> QED
      BY <1>2, <2>1, <2>2, <2>3
  <1>3. ASSUME NEW step \in Forms, SubmitForm(step) PROVE HeldOK'
    <2>1. completing' \in CompletingType
      BY <1>0, <1>3, BeginStepAt DEF SubmitForm, Callers, Steps
    <2> QED
      BY <1>0, <1>3, <2>1 DEF SubmitForm, HeldOK, rows
  <1>4. CASE HandlerStep
    BY <1>4, RowsStep
  <1>5. CASE HandlingFails
    BY <1>0, <1>5, HandlingFailsAt DEF HeldOK
  <1>10. CASE FormFails \/ ProcessDies
    BY <1>0, <1>10, FormFailsAt DEF HeldOK
  <1>11. CASE ServiceWorks
    <2>1. PICK state \in ServiceStates : service' = [service EXCEPT !.state = state]
      BY <1>11 DEF ServiceWorks, ServiceStates
    <2>2. service' \in ServiceType
      BY <1>0, <2>1, ServiceAt
    <2> QED
      BY <1>0, <1>11, <2>2 DEF ServiceWorks, HeldOK, onboarding
  <1>6. CASE StoreWish
    <2>1. card' \in RowType
      BY <1>0, <1>6 DEF StoreWish, RowType
    <2> QED
      BY <1>0, <1>6, <2>1 DEF StoreWish, HeldOK, onboarding
  <1>7. CASE CryptoPaid
    <2>1. (IF Live(crypto) THEN crypto.end ELSE now) + Period \in Nat
      BY <1>0, CardAssumption DEF RowType
    <2>2. crypto' \in RowType
      BY <1>7, <2>1 DEF CryptoPaid, RowType
    <2>3. service' \in ServiceType
      <3>1. PICK state : /\ service' = [service EXCEPT !.state = state]
                         /\ state = "provisioning" \/ state = Resumed(service.state)
        BY <1>7 DEF CryptoPaid
      <3>2. service.state \in ServiceStates /\ "provisioning" \in ServiceStates
        BY <1>0 DEF ServiceType, ServiceStates
      <3>3. state \in ServiceStates
        BY <1>0, <3>1, <3>2, ServiceAt
      <3> QED
        BY <1>0, <3>1, <3>3, ServiceAt
    <2> QED
      BY <1>0, <1>7, <2>2, <2>3 DEF CryptoPaid, HeldOK, Statuses
  <1>8. CASE LifecycleCron
    <2>1. \A row \in RowType : AfterCron(row) \in RowType
      BY <1>0 DEF AfterCron, RowType
    <2>2. service' \in ServiceType
      BY <1>0, <1>8 DEF LifecycleCron, Stopped, ServiceType, ServiceStates
    <2> QED
      BY <1>0, <1>8, <2>1, <2>2 DEF LifecycleCron, HeldOK, onboarding, Statuses
  <1>9. CASE UNCHANGED vars
    BY <1>0, <1>9 DEF vars, HeldOK, rows, onboarding
  <1> QED
    BY <1>1, <1>2, <1>3, <1>4, <1>5, <1>6, <1>7, <1>8, <1>9, <1>10, <1>11 DEF Next

\* An event Stripe sends follows those it has sent and carries what it has.
LEMMA EmittedAt ==
  ASSUME AnswerInv, NEW types \in Seq(EventTypes), Emit(types)
  PROVE  /\ DOMAIN sent' = 1 .. Len(sent')
         /\ Len(sent) \in Nat /\ DOMAIN sent = 1 .. Len(sent) /\ Len(types) \in Nat
         /\ Len(sent') = Len(sent) + Len(types)
         /\ \A i \in DOMAIN sent : sent'[i] = sent[i]
         /\ \A i \in 1 .. Len(types) :
               sent'[Len(sent) + i] = [type |-> types[i], sub |-> gate']
  <1> DEFINE new == [i \in DOMAIN types |-> [type |-> types[i], sub |-> gate']]
  <1>1. DOMAIN types = 1 .. Len(types) /\ Len(types) \in Nat
    OBVIOUS
  <1>2. /\ new \in Seq([type : EventTypes, sub : {gate'}])
        /\ Len(new) = Len(types)
        /\ \A i \in 1 .. Len(types) : new[i] = [type |-> types[i], sub |-> gate']
    <2>1. \A i \in 1 .. Len(types) : [type |-> types[i], sub |-> gate'] \in [type : EventTypes, sub : {gate'}]
      OBVIOUS
    <2> QED
      BY <1>1, <2>1
  <1>3. sent \in Seq(Event) /\ sent' = sent \o new
    BY DEF Emit, AnswerInv, GateOK
  <1> HIDE DEF new
  <1>4. /\ Len(sent') = Len(sent) + Len(types) /\ DOMAIN sent' = 1 .. Len(sent')
        /\ Len(sent) \in Nat /\ DOMAIN sent = 1 .. Len(sent)
        /\ \A i \in 1 .. Len(sent) + Len(new) :
              sent'[i] = IF i <= Len(sent) THEN sent[i] ELSE new[i - Len(sent)]
    <2> DEFINE Both == Event \cup [type : EventTypes, sub : {gate'}]
    <2>1. sent \in Seq(Both)
      BY <1>3, SeqMonotonic
    <2>2. new \in Seq(Both)
      BY <1>2, SeqMonotonic
    <2> HIDE DEF Both
    <2>3. /\ sent' \in Seq(Both) /\ Len(sent') = Len(sent) + Len(new)
          /\ \A i \in 1 .. Len(sent) + Len(new) :
                sent'[i] = IF i <= Len(sent) THEN sent[i] ELSE new[i - Len(sent)]
      BY <1>3, <2>1, <2>2, ConcatProperties
    <2>4. /\ Len(sent) \in Nat /\ DOMAIN sent = 1 .. Len(sent) /\ DOMAIN sent' = 1 .. Len(sent')
      BY <2>1, <2>3, LenProperties
    <2> QED
      BY <1>2, <2>3, <2>4
  <1>5. \A i \in DOMAIN sent : sent'[i] = sent[i]
    BY <1>1, <1>2, <1>4
  <1>6. ASSUME NEW i \in 1 .. Len(types) PROVE sent'[Len(sent) + i] = new[i]
    <2>1. Len(sent) + i \in 1 .. Len(sent) + Len(new) /\ ~(Len(sent) + i <= Len(sent))
          /\ (Len(sent) + i) - Len(sent) = i
      BY <1>1, <1>2, <1>4
    <2> QED
      BY <1>4, <2>1
  <1> QED
    BY <1>1, <1>2, <1>4, <1>5, <1>6

StripeActs ==
    \/ Subscribe \/ InvoicePaid \/ InvoiceFails \/ SubscriptionEnds
    \/ CancelNow \/ \E wish \in {"cancel", "reactivate"} : AskStripe(wish)

LEMMA SentGrows ==
  ASSUME AnswerInv, StripeActs
  PROVE  /\ \A i \in DOMAIN sent : i \in DOMAIN sent' /\ sent'[i] = sent[i]
         /\ \A i \in DOMAIN sent' : i \notin DOMAIN sent =>
               sent'[i].sub = gate' /\ \A j \in DOMAIN sent : j < i
         /\ UNCHANGED <<now, answered, crypto, card, user, completing, steps, progress, lost,
                        service, webhook, ordered, raced>>
  <1>1. PICK types \in Seq(EventTypes) : Emit(types)
    <2>1. \A e, f \in EventTypes : <<e>> \in Seq(EventTypes) /\ <<e, f>> \in Seq(EventTypes)
      OBVIOUS
    <2>2. {"created", "updated", "paid", "failed", "deleted"} \subseteq EventTypes
      BY DEF EventTypes
    <2>3. \E types \in {<<"created">>, <<"paid", "updated">>, <<"updated", "paid">>,
                        <<"failed", "updated">>, <<"failed">>, <<"deleted">>, <<"updated">>} : Emit(types)
      BY DEF StripeActs, Subscribe, InvoicePaid, InvoiceFails, SubscriptionEnds, AskStripe, CancelNow
    <2> QED
      BY <2>1, <2>2, <2>3
  <1>2. /\ DOMAIN sent' = 1 .. Len(sent')
        /\ Len(sent) \in Nat /\ DOMAIN sent = 1 .. Len(sent) /\ Len(types) \in Nat
        /\ Len(sent') = Len(sent) + Len(types)
        /\ \A i \in DOMAIN sent : sent'[i] = sent[i]
        /\ \A i \in 1 .. Len(types) :
              sent'[Len(sent) + i] = [type |-> types[i], sub |-> gate']
    BY <1>1, EmittedAt
  <1>3. \A i \in DOMAIN sent : i \in DOMAIN sent' /\ sent'[i] = sent[i]
    BY <1>2
  <1>4. ASSUME NEW i \in DOMAIN sent', i \notin DOMAIN sent
        PROVE  sent'[i].sub = gate' /\ \A j \in DOMAIN sent : j < i
    <2>0. i \in 1 .. Len(sent) + Len(types) /\ i \notin 1 .. Len(sent)
      BY <1>2, <1>4
    <2>1. i - Len(sent) \in 1 .. Len(types) /\ Len(sent) + (i - Len(sent)) = i
      BY <1>2, <2>0
    <2>2. PICK k \in 1 .. Len(types) : i = Len(sent) + k
      BY <2>1
    <2>3. sent'[Len(sent) + k] = [type |-> types[k], sub |-> gate']
      BY <1>2
    <2>4. sent'[i].sub = gate'
      BY <2>2, <2>3
    <2> QED
      BY <1>2, <2>0, <2>4
  <1>5. UNCHANGED <<now, answered, crypto, card, user, completing, steps, progress, lost,
                    service, webhook, ordered, raced>>
    BY DEF StripeActs, Subscribe, InvoicePaid, InvoiceFails, SubscriptionEnds, AskStripe, CancelNow,
       StripeOnly, rows, onboarding
  <1> QED
    BY <1>3, <1>4, <1>5

\* A first payment, a renewal or a payment that was overdue.
IsPayment(i) == sent[i].type \in {"created", "paid"}

\* The handler goes on with its event, gives up, or answers; a payment is
\* answered only after its step was completed.
LEMMA HandlerMoves ==
  ASSUME AnswerInv, HandlerStep
  PROVE  /\ webhook.pc # "idle" /\ webhook.event \in DOMAIN sent \ answered
         /\ UNCHANGED <<now, gate, sent, client, ordered, crypto, raced>>
         /\ \/ /\ answered' = answered /\ webhook'.event = webhook.event
               /\ webhook'.pc = "complete" => ActivateUser
               /\ webhook'.pc = "resume" => CompletePayment
               /\ webhook'.pc = "commission" => webhook.pc = "resume"
               /\ webhook'.pc # "idle"
            \/ answered' = answered /\ webhook'.pc = "idle"
            \/ /\ answered' = answered \cup {webhook.event} /\ webhook'.pc = "idle"
               /\ IsPayment(webhook.event) => webhook.pc \in {"resume", "commission"}
  <1>0. webhook.pc # "idle" /\ webhook \in [pc : WebhookPCs, event : Nat, end : Nat]
    BY DEF AnswerInv, HandlerStep, Retrieve, Find, WriteRow, ActivateUser, CompletePayment, Resume,
           PayCommission, FailRow, SuspendUser, StopService, WriteFlag, CancelRow, DeactivateUser
  <1>1. HandlerInv /\ webhook.event \in DOMAIN sent \ answered
    BY <1>0 DEF AnswerInv, HandlerInv
  <1>2. UNCHANGED <<now, gate, sent, client, ordered, crypto, raced>>
    BY DEF HandlerStep, Retrieve, Find, WriteRow, ActivateUser, CompletePayment, Resume,
           PayCommission, FailRow, SuspendUser, StopService, WriteFlag, CancelRow, DeactivateUser,
           stripe, rows
  <1>3. CASE Retrieve
    BY <1>0, <1>1, <1>2, <1>3 DEF Retrieve
  <1>4. CASE Find
    <2>1. CASE AfterFind = "none" /\ Kind = "deleted"
      BY <1>1, <1>0, <1>2, <1>4, <2>1 DEF Find, Refuse, IdleWebhook
    <2>2. CASE AfterFind = "none" /\ Kind # "deleted"
      <3>1. ~IsPayment(webhook.event)
        BY <2>2 DEF AfterFind, IsPayment, Kind
      <3> QED
        BY <1>1, <1>0, <1>2, <1>4, <2>2, <3>1 DEF Find, Answer, IdleWebhook
    <2>3. CASE AfterFind # "none"
      <3>1. AfterFind \in {"write", "fail", "cancel", "flag"}
        BY <2>3 DEF AfterFind
      <3> QED
        BY <1>1, <1>0, <1>2, <1>4, <2>3, <3>1 DEF Find, Goto
    <2> QED
      BY <2>1, <2>2, <2>3
  <1>5. CASE WriteRow
    BY <1>1, <1>0, <1>2, <1>5 DEF WriteRow, Goto
  <1>6. CASE ActivateUser
    BY <1>1, <1>0, <1>2, <1>6 DEF ActivateUser, Goto
  <1>7. CASE CompletePayment
    BY <1>1, <1>0, <1>2, <1>7 DEF CompletePayment, Goto
  <1>8. CASE Resume
    BY <1>1, <1>0, <1>2, <1>8 DEF Resume, Goto, Answer, IdleWebhook
  <1>9. CASE PayCommission
    BY <1>1, <1>0, <1>2, <1>9 DEF PayCommission, Answer, IdleWebhook
  <1>10. CASE FailRow \/ SuspendUser \/ CancelRow \/ DeactivateUser
    BY <1>1, <1>0, <1>2, <1>10 DEF FailRow, SuspendUser, CancelRow, DeactivateUser, Goto
  <1>11. CASE StopService \/ WriteFlag
    <2>1. ~IsPayment(webhook.event)
      BY <1>0, <1>1, <1>11 DEF StopService, WriteFlag, HandlerInv, PaymentPCs, IsPayment, Kind
    <2> QED
      BY <1>1, <1>0, <1>2, <1>11, <2>1 DEF StopService, WriteFlag, Goto, Answer, IdleWebhook
  <1> QED
    BY <1>3, <1>4, <1>5, <1>6, <1>7, <1>8, <1>9, <1>10, <1>11 DEF HandlerStep

-----------------------------------------------------------------------------
(* Onboarding ends *)

\* A status that puts a newcomer into onboarding is written over one that a
\* payment wrote only while the first form is being completed: the wizard has
\* a second form, whose completion puts it right.
TwoForms == \E f, g \in Forms : f # g
OneForm == \A f, g \in steps \cap Forms : f = g

InOnboarding == user \in {"NEW", "ONBOARDING"}

\* What completeStep has read is true or older than what is stored.
ReadIsOlder ==
    /\ \A c \in Callers :
          /\ completing[c].pc \in {"status", "write"} => completing[c].seen \subseteq steps
          /\ completing[c].pc = "write" /\ user = "NEW" => completing[c].status = "NEW"
    /\ Completing("form") => steps # {}
    /\ completing["form"].pc \in {"status", "write"} => completing["form"].seen # {}

\* The webhook completes the payment step of a user it has activated.
PayerCompletes ==
    /\ Completing("webhook") =>
           /\ webhook.pc = "resume" /\ "payment" \in steps
           /\ completing["webhook"].step = "payment"
    /\ completing["webhook"].pc = "write" => completing["webhook"].status # "NEW"
    /\ webhook.pc = "complete" => user # "NEW"

FormCompletes(f) == Completing("form") /\ completing["form"].step = f

\* A form that failed past its step is not being sent again.
StillLost == \E f \in lost : ~FormCompletes(f)

LostAreForms ==
    /\ lost \subseteq Forms
    /\ Completing("form") => completing["form"].step \in Forms

\* A user is NEW, or is taken for NEW, until the first form is completed that
\* does not fail.
NewIsFirst ==
    /\ user = "NEW" => "payment" \notin steps /\ \A f \in steps : f \in lost \/ FormCompletes(f)
    /\ completing["form"].pc = "write" /\ completing["form"].status = "NEW" => OneForm \/ StillLost

WillActivate(c) ==
    \/ completing[c].pc = "steps"
    \/ completing[c].pc = "status" /\ AllDone(completing[c].seen)
    \/ completing[c].pc = "write" /\ AllDone(completing[c].seen) /\ completing[c].status = "ONBOARDING"

\* A payment is yet to be handled, from the user's status or from its step on.
AwaitsActivation ==
    \E i \in DOMAIN sent \ answered :
        IsPayment(i) /\ ~(webhook.event = i /\ webhook.pc \in {"complete", "resume", "commission"})
AwaitsStep ==
    \E i \in DOMAIN sent \ answered :
        IsPayment(i) /\ ~(webhook.event = i /\ webhook.pc \in {"resume", "commission"})

WillLeave == (\E c \in Callers : WillActivate(c)) \/ AwaitsActivation \/ StillLost
WillFollow == (\E c \in Callers : Completing(c)) \/ AwaitsStep \/ StillLost

LeavesOnboarding == AllDone(steps) /\ InOnboarding => WillLeave
ProgressFollows == ~raced /\ progress # steps => WillFollow

OnboardInv ==
    /\ HeldInv /\ ReadIsOlder /\ PayerCompletes /\ LostAreForms /\ NewIsFirst
    /\ LeavesOnboarding /\ ProgressFollows

LEMMA CallersAre == Callers = {"webhook", "form"} /\ "webhook" \in Callers /\ "form" \in Callers
  BY DEF Callers

LEMMA InitOnboard == Init => OnboardInv
  <1> SUFFICES ASSUME Init PROVE OnboardInv
    OBVIOUS
  <1>1. \A c \in Callers : completing[c].pc = "idle" /\ ~Completing(c)
    BY DEF Init, NotCompleting, Completing
  <1>2. webhook.pc = "idle" /\ progress = steps
    BY DEF Init, IdleWebhook
  <1>3. ReadIsOlder /\ PayerCompletes /\ LostAreForms
    <2>1. lost = {}
      BY DEF Init
    <2> QED
      BY <1>1, <1>2, <2>1, CallersAre DEF ReadIsOlder, PayerCompletes, LostAreForms
  <1>4. CASE user = "NEW"
    <2>1. steps = {}
      BY <1>4 DEF Init
    <2>2. ~AllDone(steps)
      BY <2>1 DEF AllDone, Steps
    <2> QED
      BY <1>1, <1>2, <1>3, <2>1, <2>2, InitHeld, CallersAre
      DEF OnboardInv, NewIsFirst, LeavesOnboarding, ProgressFollows
  <1>5. CASE user \in {"ACTIVE", "SUSPENDED"}
    BY <1>1, <1>2, <1>3, <1>5, InitHeld, CallersAre
    DEF OnboardInv, NewIsFirst, LeavesOnboarding, ProgressFollows, InOnboarding
  <1> QED
    BY <1>4, <1>5 DEF Init

\* A step of the handler that neither activates nor completes leaves what is
\* awaited awaited.
LEMMA StaysAwaited ==
  ASSUME AnswerInv, HandlerStep
  PROVE  /\ AwaitsActivation /\ ~ActivateUser /\ ~CompletePayment => AwaitsActivation'
         /\ AwaitsStep /\ ~CompletePayment => AwaitsStep'
  <1>1. /\ webhook.pc # "idle" /\ webhook.event \in DOMAIN sent \ answered /\ sent' = sent
        /\ \/ /\ answered' = answered /\ webhook'.event = webhook.event
              /\ webhook'.pc = "complete" => ActivateUser
              /\ webhook'.pc = "resume" => CompletePayment
              /\ webhook'.pc = "commission" => webhook.pc = "resume"
           \/ answered' = answered /\ webhook'.pc = "idle"
           \/ /\ answered' = answered \cup {webhook.event} /\ webhook'.pc = "idle"
              /\ IsPayment(webhook.event) => webhook.pc \in {"resume", "commission"}
    BY HandlerMoves
  <1>2. ASSUME AwaitsActivation, ~ActivateUser, ~CompletePayment PROVE AwaitsActivation'
    <2>1. PICK i \in DOMAIN sent \ answered :
             IsPayment(i) /\ ~(webhook.event = i /\ webhook.pc \in {"complete", "resume", "commission"})
      BY <1>2 DEF AwaitsActivation
    <2>2. i \in DOMAIN sent' \ answered' /\ sent'[i].type \in {"created", "paid"}
      BY <1>1, <2>1 DEF IsPayment
    <2>3. ~(webhook'.event = i /\ webhook'.pc \in {"complete", "resume", "commission"})
      BY <1>1, <1>2, <2>1
    <2> QED
      BY <2>2, <2>3 DEF AwaitsActivation, IsPayment
  <1>3. ASSUME AwaitsStep, ~CompletePayment PROVE AwaitsStep'
    <2>1. PICK i \in DOMAIN sent \ answered :
             IsPayment(i) /\ ~(webhook.event = i /\ webhook.pc \in {"resume", "commission"})
      BY <1>3 DEF AwaitsStep
    <2>2. i \in DOMAIN sent' \ answered' /\ sent'[i].type \in {"created", "paid"}
      BY <1>1, <2>1 DEF IsPayment
    <2>3. ~(webhook'.event = i /\ webhook'.pc \in {"resume", "commission"})
      BY <1>1, <1>3, <2>1
    <2> QED
      BY <2>2, <2>3 DEF AwaitsStep, IsPayment
  <1> QED
    BY <1>2, <1>3

\* Outside a handler, Stripe's steps and an arrival leave it awaited too.
LEMMA StaysSent ==
  ASSUME \A i \in DOMAIN sent : i \in DOMAIN sent' /\ sent'[i] = sent[i],
         answered' \subseteq answered \/ answered' \cap DOMAIN sent = answered \cap DOMAIN sent,
         webhook' = webhook \/ webhook'.pc \in {"idle", "find", "retrieve"}
  PROVE  /\ AwaitsActivation => AwaitsActivation'
         /\ AwaitsStep => AwaitsStep'
  <1>1. ASSUME AwaitsActivation PROVE AwaitsActivation'
    <2>1. PICK i \in DOMAIN sent \ answered :
             IsPayment(i) /\ ~(webhook.event = i /\ webhook.pc \in {"complete", "resume", "commission"})
      BY <1>1 DEF AwaitsActivation
    <2>2. i \in DOMAIN sent' \ answered' /\ sent'[i].type \in {"created", "paid"}
      BY <2>1 DEF IsPayment
    <2> QED
      BY <2>1, <2>2 DEF AwaitsActivation, IsPayment
  <1>2. ASSUME AwaitsStep PROVE AwaitsStep'
    <2>1. PICK i \in DOMAIN sent \ answered :
             IsPayment(i) /\ ~(webhook.event = i /\ webhook.pc \in {"resume", "commission"})
      BY <1>2 DEF AwaitsStep
    <2>2. i \in DOMAIN sent' \ answered' /\ sent'[i].type \in {"created", "paid"}
      BY <2>1 DEF IsPayment
    <2> QED
      BY <2>1, <2>2 DEF AwaitsStep, IsPayment
  <1> QED
    BY <1>1, <1>2

\* Nothing of the onboarding changes.
LEMMA OnboardFrame ==
  ASSUME OnboardInv, HeldInv', UNCHANGED <<user, steps, progress, completing, lost, raced>>,
         AwaitsActivation => AwaitsActivation', AwaitsStep => AwaitsStep',
         webhook'.pc = "complete" => webhook.pc = "complete",
         Completing("webhook") => webhook'.pc = "resume"
  PROVE  OnboardInv'
  <1>1. ReadIsOlder' /\ PayerCompletes' /\ LostAreForms'
    BY DEF OnboardInv, ReadIsOlder, PayerCompletes, LostAreForms, Completing
  <1>2. NewIsFirst' /\ (StillLost => StillLost')
    BY DEF OnboardInv, NewIsFirst, OneForm, StillLost, FormCompletes, Completing
  <1>3. WillLeave => WillLeave'
    BY <1>2 DEF WillLeave, WillActivate, AllDone
  <1>4. WillFollow => WillFollow'
    BY <1>2 DEF WillFollow, Completing
  <1>5. LeavesOnboarding' /\ ProgressFollows'
    BY <1>3, <1>4 DEF OnboardInv, LeavesOnboarding, ProgressFollows, InOnboarding, AllDone
  <1> QED
    BY <1>1, <1>2, <1>5 DEF OnboardInv

\* The user's status is set to one outside onboarding.
LEMMA OnboardUser ==
  ASSUME OnboardInv, HeldInv', user' \notin {"NEW", "ONBOARDING"},
         UNCHANGED <<steps, progress, completing, lost, raced>>,
         AwaitsStep => AwaitsStep', Completing("webhook") => webhook'.pc = "resume"
  PROVE  OnboardInv'
  <1>1. ReadIsOlder' /\ PayerCompletes' /\ LostAreForms'
    BY DEF OnboardInv, ReadIsOlder, PayerCompletes, LostAreForms, Completing
  <1>2. NewIsFirst' /\ (StillLost => StillLost')
    BY DEF OnboardInv, NewIsFirst, OneForm, StillLost, FormCompletes, Completing
  <1>3. WillFollow => WillFollow'
    BY <1>2 DEF WillFollow, Completing
  <1>4. LeavesOnboarding' /\ ProgressFollows'
    BY <1>3 DEF OnboardInv, LeavesOnboarding, ProgressFollows, InOnboarding
  <1> QED
    BY <1>1, <1>2, <1>4 DEF OnboardInv

\* While completeStep goes on, its form is still the one it completes.
LEMMA StillCompletes ==
  ASSUME HeldOK, NEW c \in Callers, Completing(c), Completing(c)',
         completing'[c].step = completing[c].step,
         \A d \in Callers : d # c => completing'[d] = completing[d],
         UNCHANGED lost
  PROVE  /\ \A f : FormCompletes(f)' <=> FormCompletes(f)
         /\ StillLost => StillLost'
         /\ LostAreForms => LostAreForms'
  <1>1. \A f : FormCompletes(f)' <=> FormCompletes(f)
    BY CallersAre DEF FormCompletes, Completing
  <1>2. LostAreForms => LostAreForms'
    BY CallersAre DEF LostAreForms, Completing
  <1> QED
    BY <1>1, <1>2 DEF StillLost

\* completeStep reads the steps.
LEMMA OnboardReadSteps ==
  ASSUME OnboardInv, HeldInv', NEW c \in Callers, ReadSteps(c)
  PROVE  OnboardInv'
  <1>0. HeldOK /\ steps \subseteq Steps
    BY DEF OnboardInv, HeldInv, AnswerInv
  <1>1. /\ completing[c].pc = "steps"
        /\ completing'[c].pc = "status" /\ completing'[c].seen = steps
        /\ completing'[c].step = completing[c].step
        /\ \A d \in Callers : d # c => completing'[d] = completing[d]
        /\ UNCHANGED <<sent, answered, user, steps, progress, lost, webhook, raced>>
    BY <1>0, ReadStepsAt
  <1>6. /\ \A f : FormCompletes(f)' <=> FormCompletes(f)
        /\ StillLost => StillLost'
        /\ LostAreForms'
    BY <1>0, <1>1, StillCompletes DEF Completing, OnboardInv
  <1>2. ReadIsOlder'
    BY <1>1, CallersAre DEF OnboardInv, ReadIsOlder, Completing
  <1>3. PayerCompletes' /\ NewIsFirst'
    <2>1. PayerCompletes'
      BY <1>1, CallersAre DEF OnboardInv, PayerCompletes, Completing
    <2> QED
      BY <1>1, <1>6, <2>1, CallersAre DEF OnboardInv, NewIsFirst, OneForm
  <1>4. LeavesOnboarding'
    <2>1. SUFFICES ASSUME AllDone(steps)', InOnboarding' PROVE WillLeave'
      BY DEF LeavesOnboarding
    <2>2. AllDone(steps)
      BY <1>1, <2>1 DEF AllDone
    <2>3. WillActivate(c)'
      BY <1>1, <2>2 DEF WillActivate, AllDone
    <2> QED
      BY <2>3 DEF WillLeave
  <1>5. ProgressFollows'
    BY <1>1 DEF ProgressFollows, WillFollow, Completing
  <1> QED
    BY <1>2, <1>3, <1>4, <1>5, <1>6 DEF OnboardInv

\* completeStep reads the status.
LEMMA OnboardReadStatus ==
  ASSUME OnboardInv, HeldInv', NEW c \in Callers, ReadStatus(c)
  PROVE  OnboardInv'
  <1>0. HeldOK
    BY DEF OnboardInv, HeldInv
  <1>1. /\ completing[c].pc = "status"
        /\ completing'[c].pc = "write" /\ completing'[c].seen = completing[c].seen
        /\ completing'[c].status = user /\ completing'[c].step = completing[c].step
        /\ \A d \in Callers : d # c => completing'[d] = completing[d]
        /\ UNCHANGED <<sent, answered, user, steps, progress, lost, webhook, raced>>
    BY <1>0, ReadStatusAt
  <1>7. /\ \A f : FormCompletes(f)' <=> FormCompletes(f)
        /\ StillLost => StillLost'
        /\ LostAreForms'
    BY <1>0, <1>1, StillCompletes DEF Completing, OnboardInv
  <1>2. ReadIsOlder'
    BY <1>1, CallersAre DEF OnboardInv, ReadIsOlder, Completing
  <1>3. PayerCompletes'
    BY <1>1, CallersAre DEF OnboardInv, PayerCompletes, NewIsFirst, Completing
  <1>4. NewIsFirst'
    <2>1. ASSUME user = "NEW" PROVE OneForm \/ StillLost
      <3>1. \A f \in steps \cap Forms : f \in lost \/ FormCompletes(f)
        BY <2>1 DEF OnboardInv, NewIsFirst
      <3> QED
        BY <3>1 DEF OneForm, StillLost, FormCompletes
    <2>2. OneForm => OneForm'
      BY <1>1 DEF OneForm
    <2> QED
      BY <1>1, <1>7, <2>1, <2>2, CallersAre DEF OnboardInv, NewIsFirst
  <1>5. LeavesOnboarding'
    <2>1. SUFFICES ASSUME AllDone(steps)', InOnboarding' PROVE WillLeave'
      BY DEF LeavesOnboarding
    <2>2. AllDone(steps) /\ InOnboarding /\ "payment" \in steps
      BY <1>1, <2>1 DEF AllDone, Steps, InOnboarding
    <2>3. user = "ONBOARDING"
      BY <2>2 DEF OnboardInv, NewIsFirst, InOnboarding
    <2>4. CASE AwaitsActivation
      BY <1>1, <2>4 DEF WillLeave, AwaitsActivation, IsPayment
    <2>5. ASSUME NEW d \in Callers, WillActivate(d) PROVE WillActivate(d)'
      BY <1>1, <2>3, <2>5 DEF WillActivate, AllDone
    <2> QED
      BY <1>7, <2>2, <2>4, <2>5 DEF OnboardInv, LeavesOnboarding, WillLeave
  <1>6. ProgressFollows'
    BY <1>1 DEF ProgressFollows, WillFollow, Completing
  <1> QED
    BY <1>2, <1>3, <1>4, <1>5, <1>6, <1>7 DEF OnboardInv

\* completeStep writes progress and status.
LEMMA OnboardWrite ==
  ASSUME TwoForms, OnboardInv, HeldInv', NEW c \in Callers, WriteProgress(c)
  PROVE  OnboardInv'
  <1> DEFINE seen == completing[c].seen
             read == completing[c].status
  <1>0. HeldOK /\ user \in Statuses /\ read \in Statuses
    BY DEF OnboardInv, HeldInv, HeldOK, CompletingType, CompletingRecord
  <1>1. /\ completing[c].pc = "write" /\ completing'[c].pc = "idle"
        /\ \A d \in Callers : d # c => completing'[d] = completing[d]
        /\ progress' = seen
        /\ user' = StatusAfter(seen, read, user)
        /\ raced' = (raced \/ seen # steps \/ (read # user /\ user' # user))
        /\ lost' = lost \ {completing[c].step}
        /\ UNCHANGED <<sent, answered, steps, webhook>>
    BY <1>0, WriteProgressAt
  <1>13. /\ LostAreForms' /\ (StillLost => StillLost')
         /\ c = "webhook" => lost' = lost
    <2>1. Completing(c) /\ LostAreForms
      BY <1>1 DEF Completing, OnboardInv
    <2>2. CASE c = "webhook"
      <3>1. completing[c].step = "payment"
        BY <2>1, <2>2 DEF OnboardInv, PayerCompletes
      <3>2. lost' = lost
        BY <1>1, <2>1, <3>1, CardAssumption DEF LostAreForms
      <3> QED
        BY <1>1, <2>1, <2>2, <3>2, CallersAre DEF LostAreForms, StillLost, FormCompletes, Completing
    <2>3. CASE c = "form"
      BY <1>1, <2>1, <2>3, CallersAre DEF LostAreForms, StillLost, FormCompletes, Completing
    <2> QED
      BY <2>2, <2>3, CallersAre
  <1>2. seen \subseteq steps /\ (user = "NEW" => read = "NEW")
    BY <1>1 DEF OnboardInv, ReadIsOlder
  <1>3. /\ user' # user =>
              \/ AllDone(seen) /\ read = "ONBOARDING" /\ user' = "ACTIVE"
              \/ ~AllDone(seen) /\ seen # {} /\ read = "NEW" /\ user' = "ONBOARDING"
        /\ AllDone(seen) /\ read = "ONBOARDING" => user' = "ACTIVE"
        /\ ~AllDone(seen) /\ seen # {} /\ read = "NEW" => user' = "ONBOARDING"
    BY <1>0, <1>1, StatusAfterOK
  <1>4. c = "webhook" => read # "NEW"
    BY <1>1 DEF OnboardInv, PayerCompletes
  <1>5. c = "form" => seen # {}
    BY <1>1 DEF OnboardInv, ReadIsOlder
  <1> HIDE DEF seen, read
  <1>6. user' = "NEW" => user = "NEW"
    BY <1>3
  <1>7. c = "form" => user' # "NEW"
    <2> SUFFICES ASSUME c = "form", user = "NEW", user' = "NEW" PROVE FALSE
      BY <1>6
    <2>1. "payment" \notin steps
      BY DEF OnboardInv, NewIsFirst
    <2>2. ~AllDone(seen)
      BY <1>2, <2>1 DEF AllDone, Steps
    <2> QED
      BY <1>2, <1>3, <1>5, <2>2
  <1>8. ReadIsOlder'
    BY <1>1, <1>6, CallersAre DEF OnboardInv, ReadIsOlder, Completing
  <1>9. PayerCompletes'
    BY <1>1, <1>6, CallersAre DEF OnboardInv, PayerCompletes, Completing
  <1>10. NewIsFirst'
    <2>1. user' # "NEW"
      BY <1>2, <1>4, <1>6, <1>7, CallersAre
    <2>2. completing'["form"].pc = "write" => c = "webhook" /\ completing'["form"] = completing["form"]
      BY <1>1, CallersAre
    <2>3. OneForm => OneForm'
      BY <1>1 DEF OneForm
    <2> QED
      BY <1>13, <2>1, <2>2, <2>3 DEF OnboardInv, NewIsFirst
  <1>11. LeavesOnboarding'
    <2>1. SUFFICES ASSUME AllDone(steps)', InOnboarding' PROVE WillLeave'
      BY DEF LeavesOnboarding
    <2>2. AllDone(steps) /\ "payment" \in steps /\ ~OneForm
      BY <1>1, <2>1 DEF AllDone, Steps, OneForm, TwoForms
    <2>3. user' = "ONBOARDING"
      BY <1>6, <2>1, <2>2 DEF InOnboarding, OnboardInv, NewIsFirst
    <2>4. user = "ONBOARDING" \/ StillLost
      <3> SUFFICES ASSUME user # "ONBOARDING" PROVE StillLost
        OBVIOUS
      <3>1. read = "NEW"
        BY <1>3, <2>3
      <3>2. c = "form"
        BY <1>4, <3>1, CallersAre
      <3> QED
        BY <1>1, <2>2, <3>1, <3>2 DEF OnboardInv, NewIsFirst, read
    <2>5. CASE AwaitsActivation
      BY <1>1, <2>5 DEF WillLeave, AwaitsActivation, IsPayment
    <2>6. ASSUME NEW d \in Callers, WillActivate(d) PROVE WillActivate(d)'
      <3>1. d # c
        BY <1>1, <1>3, <2>3, <2>6 DEF WillActivate, seen, read
      <3> QED
        BY <1>1, <2>6, <3>1 DEF WillActivate, AllDone
    <2> QED
      BY <1>13, <2>2, <2>4, <2>5, <2>6 DEF OnboardInv, LeavesOnboarding, WillLeave, InOnboarding
  <1>12. ProgressFollows'
    BY <1>1 DEF ProgressFollows
  <1> QED
    BY <1>8, <1>9, <1>10, <1>11, <1>12, <1>13 DEF OnboardInv

\* A form is submitted, for the first time or again.
LEMMA OnboardSubmit ==
  ASSUME OnboardInv, HeldInv', NEW step \in Forms, SubmitForm(step)
  PROVE  OnboardInv'
  <1>0. HeldOK /\ "payment" \notin Forms /\ step \in Steps
    BY CardAssumption DEF OnboardInv, HeldInv, Steps
  <1>1. /\ completing'["form"].pc = "steps" /\ steps' = steps \cup {step}
        /\ completing'["form"].step = step
        /\ \A d \in Callers : d # "form" => completing'[d] = completing[d]
    BY <1>0, BeginStepAt, CallersAre DEF SubmitForm
  <1>2. /\ UNCHANGED <<sent, answered, user, progress, lost, webhook, raced>> /\ ~Completing("form")
    BY DEF SubmitForm, stripe
  <1>3. ReadIsOlder'
    BY <1>1, <1>2, CallersAre DEF OnboardInv, ReadIsOlder, Completing
  <1>4. PayerCompletes' /\ LostAreForms'
    BY <1>1, <1>2, CallersAre DEF OnboardInv, PayerCompletes, LostAreForms, Completing
  <1>5. NewIsFirst'
    <2>1. ASSUME user' = "NEW"
          PROVE  "payment" \notin steps' /\ \A f \in steps' : f \in lost' \/ FormCompletes(f)'
      <3>1. "payment" \notin steps /\ \A f \in steps : f \in lost
        BY <1>2, <2>1 DEF OnboardInv, NewIsFirst, FormCompletes
      <3>2. FormCompletes(step)'
        BY <1>1 DEF FormCompletes, Completing
      <3> QED
        BY <1>0, <1>1, <1>2, <3>1, <3>2
    <2> QED
      BY <1>1, <2>1 DEF NewIsFirst
  <1>6. WillLeave' /\ WillFollow'
    BY <1>1, CallersAre DEF WillLeave, WillFollow, WillActivate, Completing
  <1> QED
    BY <1>3, <1>4, <1>5, <1>6 DEF OnboardInv, LeavesOnboarding, ProgressFollows

\* The webhook completes the payment step.
LEMMA OnboardPayment ==
  ASSUME OnboardInv, HeldInv', CompletePayment
  PROVE  OnboardInv'
  <1>0. HeldOK /\ webhook \in [pc : WebhookPCs, event : Nat, end : Nat]
    BY DEF OnboardInv, HeldInv, AnswerInv
  <1>1. /\ completing'["webhook"].pc = "steps" /\ steps' = steps \cup {"payment"}
        /\ completing'["webhook"].step = "payment"
        /\ \A d \in Callers : d # "webhook" => completing'[d] = completing[d]
    BY <1>0, BeginStepAt, CallersAre DEF CompletePayment, Steps
  <1>2. /\ UNCHANGED <<sent, answered, user, progress, lost, raced>> /\ ~Completing("webhook")
        /\ webhook.pc = "complete" /\ webhook'.pc = "resume" /\ user # "NEW"
    BY <1>0 DEF CompletePayment, Goto, stripe, OnboardInv, PayerCompletes
  <1>3. ReadIsOlder'
    BY <1>1, <1>2, CallersAre DEF OnboardInv, ReadIsOlder, Completing
  <1>4. PayerCompletes' /\ LostAreForms'
    BY <1>1, <1>2, CallersAre DEF OnboardInv, PayerCompletes, LostAreForms, Completing
  <1>5. NewIsFirst'
    <2>1. OneForm => OneForm'
      BY <1>1, CardAssumption DEF OneForm
    <2>2. StillLost => StillLost'
      BY <1>1, <1>2, CallersAre DEF StillLost, FormCompletes, Completing
    <2> QED
      BY <1>1, <1>2, <2>1, <2>2, CallersAre DEF OnboardInv, NewIsFirst
  <1>6. WillLeave' /\ WillFollow'
    BY <1>1, CallersAre DEF WillLeave, WillFollow, WillActivate, Completing
  <1> QED
    BY <1>3, <1>4, <1>5, <1>6 DEF OnboardInv, LeavesOnboarding, ProgressFollows

\* What completeStep does is broken off: for the webhook, whose event is
\* handled again, or for a form, which is lost.
LEMMA OnboardFails ==
  ASSUME OnboardInv, HeldInv',
         UNCHANGED <<sent, answered, user, steps, progress, raced>>,
         \/ webhook' = webhook /\ completing'["webhook"] = completing["webhook"]
         \/ webhook'.pc = "idle" /\ completing'["webhook"].pc = "idle",
         \/ lost' = lost /\ completing'["form"] = completing["form"]
         \/ /\ completing'["form"].pc = "idle"
            /\ lost' = IF Completing("form") THEN lost \cup {completing["form"].step} ELSE lost
  PROVE  OnboardInv'
  <1>0. HeldOK /\ HandlerInv
    BY DEF OnboardInv, HeldInv, AnswerInv
  <1>1. ReadIsOlder' /\ PayerCompletes' /\ LostAreForms'
    <2>1. ReadIsOlder'
      BY CallersAre DEF OnboardInv, ReadIsOlder, Completing
    <2>2. PayerCompletes'
      BY DEF OnboardInv, PayerCompletes, Completing
    <2>3. LostAreForms'
      BY DEF OnboardInv, LostAreForms, Completing
    <2> QED
      BY <2>1, <2>2, <2>3
  <1>2. /\ \A f : FormCompletes(f) => f \in lost' \/ FormCompletes(f)'
        /\ lost \subseteq lost' /\ (StillLost => StillLost')
        /\ Completing("form") => Completing("form")' \/ StillLost'
        /\ WillActivate("form") => WillActivate("form")' \/ StillLost'
    <2>1. CASE lost' = lost /\ completing'["form"] = completing["form"]
      BY <2>1 DEF FormCompletes, StillLost, Completing, WillActivate, AllDone
    <2>2. CASE /\ completing'["form"].pc = "idle"
               /\ lost' = IF Completing("form") THEN lost \cup {completing["form"].step} ELSE lost
      <3>1. \A f : ~FormCompletes(f)'
        BY <2>2 DEF FormCompletes, Completing
      <3> QED
        BY <2>2, <3>1 DEF FormCompletes, StillLost, Completing, WillActivate
    <2> QED
      BY <2>1, <2>2
  <1>3. NewIsFirst'
    <2>1. OneForm => OneForm'
      BY DEF OneForm
    <2>2. user' = "NEW" => /\ "payment" \notin steps'
                           /\ \A f \in steps' : f \in lost' \/ FormCompletes(f)'
      BY <1>2 DEF OnboardInv, NewIsFirst
    <2>3. completing'["form"].pc = "write" => completing'["form"] = completing["form"]
      OBVIOUS
    <2> QED
      BY <1>2, <2>1, <2>2, <2>3 DEF OnboardInv, NewIsFirst
  <1>5. /\ AwaitsActivation => AwaitsActivation'
        /\ AwaitsStep => AwaitsStep'
    BY StaysSent
  <1>6. Completing("webhook") => Completing("webhook")' \/ (AwaitsActivation' /\ AwaitsStep')
    <2> SUFFICES ASSUME Completing("webhook"), webhook'.pc = "idle" PROVE AwaitsActivation' /\ AwaitsStep'
      BY DEF Completing
    <2>0. webhook.pc # "idle"
      BY DEF OnboardInv, PayerCompletes
    <2>1. webhook.event \in DOMAIN sent \ answered /\ IsPayment(webhook.event)
      BY <1>0, <2>0 DEF OnboardInv, PayerCompletes, HandlerInv, IsPayment, Kind
    <2>2. PICK i \in DOMAIN sent \ answered : IsPayment(i)
      BY <2>1
    <2> QED
      BY <2>2 DEF AwaitsActivation, AwaitsStep, IsPayment
  <1>7. WillLeave => WillLeave'
    <2>1. WillActivate("webhook") => WillActivate("webhook")' \/ AwaitsActivation'
      <3>1. CASE completing'["webhook"] = completing["webhook"]
        BY <3>1 DEF WillActivate, AllDone
      <3>2. CASE completing'["webhook"].pc = "idle"
        BY <1>6, <3>2 DEF WillActivate, Completing
      <3> QED
        BY <3>1, <3>2
    <2> QED
      BY <1>2, <1>5, <2>1, CallersAre DEF WillLeave
  <1>8. WillFollow => WillFollow'
    BY <1>2, <1>5, <1>6, CallersAre DEF WillFollow
  <1> QED
    BY <1>1, <1>3, <1>7, <1>8
    DEF OnboardInv, LeavesOnboarding, ProgressFollows, InOnboarding, AllDone

\* A crypto payment activates the user and completes the step at once.
LEMMA OnboardCrypto ==
  ASSUME OnboardInv, HeldInv', CryptoPaid
  PROVE  OnboardInv'
  <1>1. /\ webhook.pc = "idle" /\ ~Completing("form") /\ ~Completing("webhook")
        /\ user' = "ACTIVE" /\ progress' = steps' /\ steps' = steps \cup {"payment"}
        /\ UNCHANGED <<webhook, completing, lost>>
    BY DEF CryptoPaid, OnboardInv, PayerCompletes
  <1>2. ReadIsOlder' /\ PayerCompletes' /\ NewIsFirst' /\ LostAreForms'
    BY <1>1, CallersAre
    DEF OnboardInv, ReadIsOlder, PayerCompletes, NewIsFirst, LostAreForms, Completing
  <1> QED
    BY <1>1, <1>2 DEF OnboardInv, LeavesOnboarding, ProgressFollows, InOnboarding

LEMMA StepOnboard == TwoForms /\ OnboardInv /\ [Next]_vars => OnboardInv'
  <1> SUFFICES ASSUME TwoForms, OnboardInv, [Next]_vars PROVE OnboardInv'
    OBVIOUS
  <1>0. HeldInv /\ HeldInv' /\ AnswerInv /\ PayerCompletes
    BY StepHeld DEF OnboardInv, HeldInv
  <1>1. CASE StripeActs
    <2>1. /\ \A i \in DOMAIN sent : i \in DOMAIN sent' /\ sent'[i] = sent[i]
          /\ UNCHANGED <<answered, user, completing, steps, progress, lost, webhook, raced>>
      BY <1>0, <1>1, SentGrows
    <2>2. /\ AwaitsActivation => AwaitsActivation'
          /\ AwaitsStep => AwaitsStep'
      BY <2>1, StaysSent
    <2> QED
      BY <1>0, <2>1, <2>2, OnboardFrame DEF PayerCompletes
  <1>2. CASE NextDay \/ StoreWish \/ RequestFails \/ ServiceWorks \/ UNCHANGED vars
    <2>1. UNCHANGED <<sent, answered, user, completing, steps, progress, lost, webhook, raced>>
      BY <1>2 DEF NextDay, StoreWish, RequestFails, ServiceWorks, vars, stripe, onboarding
    <2>2. /\ AwaitsActivation => AwaitsActivation'
          /\ AwaitsStep => AwaitsStep'
      BY <2>1, StaysSent
    <2> QED
      BY <1>0, <2>1, <2>2, OnboardFrame DEF PayerCompletes
  <1>3. CASE \E c \in Callers : ReadSteps(c) \/ ReadStatus(c) \/ WriteProgress(c)
    BY <1>0, <1>3, OnboardReadSteps, OnboardReadStatus, OnboardWrite
  <1>4. CASE \E step \in Forms : SubmitForm(step)
    BY <1>0, <1>4, OnboardSubmit
  <1>5. CASE \E i \in DOMAIN sent : Deliver(i)
    <2>1. /\ UNCHANGED <<sent, user, completing, steps, progress, lost, raced>>
          /\ answered' \subseteq answered /\ webhook.pc = "idle"
          /\ webhook'.pc \in {"idle", "find", "retrieve"}
      BY <1>5 DEF Deliver, stripe, onboarding
    <2>2. /\ AwaitsActivation => AwaitsActivation'
          /\ AwaitsStep => AwaitsStep'
      BY <2>1, StaysSent
    <2> QED
      BY <1>0, <2>1, <2>2, OnboardFrame DEF PayerCompletes
  <1>6. CASE HandlerStep
    <2>1. /\ AwaitsActivation /\ ~ActivateUser /\ ~CompletePayment => AwaitsActivation'
          /\ AwaitsStep /\ ~CompletePayment => AwaitsStep'
      BY <1>0, <1>6, StaysAwaited
    <2>2. CASE CompletePayment
      BY <1>0, <2>2, OnboardPayment
    <2>3. ASSUME HandlerStep, ~CompletePayment PROVE Completing("webhook") => webhook'.pc = "resume"
      <3> SUFFICES ASSUME Completing("webhook") PROVE FALSE
        OBVIOUS
      <3>1. webhook.pc = "resume"
        BY <1>0 DEF PayerCompletes
      <3> QED
        BY <2>3, <3>1 DEF HandlerStep, Retrieve, Find, WriteRow, ActivateUser, Resume, PayCommission,
           FailRow, SuspendUser, StopService, WriteFlag, CancelRow, DeactivateUser
    <2>4. CASE ActivateUser \/ SuspendUser \/ DeactivateUser
      <3>1. /\ user' \notin {"NEW", "ONBOARDING"} /\ ~CompletePayment
            /\ UNCHANGED <<steps, progress, completing, lost, raced>>
        BY <2>4 DEF ActivateUser, SuspendUser, DeactivateUser, CompletePayment, onboarding
      <3> QED
        BY <1>0, <1>6, <2>1, <2>3, <3>1, OnboardUser
    <2>5. CASE \/ Retrieve \/ Find \/ WriteRow \/ Resume \/ PayCommission \/ FailRow \/ StopService
               \/ WriteFlag \/ CancelRow
      <3>1. /\ ~CompletePayment /\ ~ActivateUser
            /\ UNCHANGED <<user, steps, progress, completing, lost, raced>>
        BY <2>5 DEF Retrieve, Find, WriteRow, Resume, PayCommission, FailRow, StopService, WriteFlag,
           CancelRow, CompletePayment, ActivateUser, onboarding
      <3>2. webhook'.pc # "complete"
        BY <1>0, <1>6, <3>1, HandlerMoves
      <3> QED
        BY <1>0, <1>6, <2>1, <2>3, <3>1, <3>2, OnboardFrame
    <2> QED
      BY <1>6, <2>2, <2>4, <2>5 DEF HandlerStep
  <1>7. CASE HandlingFails \/ FormFails \/ ProcessDies
    <2>1. CASE HandlingFails
      <3>1. /\ webhook'.pc = "idle" /\ completing'["webhook"].pc = "idle"
            /\ completing'["form"] = completing["form"]
            /\ UNCHANGED <<sent, answered, user, steps, progress, lost, raced>>
        BY <1>0, <2>1, HandlingFailsAt DEF HeldInv, IdleWebhook
      <3> QED
        BY <1>0, <3>1, OnboardFails
    <2>2. CASE FormFails \/ ProcessDies
      <3>1. HeldOK
        BY <1>0 DEF HeldInv
      <3>2. /\ completing'["form"].pc = "idle"
            /\ lost' = IF Completing("form") THEN lost \cup {completing["form"].step} ELSE lost
            /\ \/ webhook' = webhook /\ completing'["webhook"] = completing["webhook"]
               \/ webhook'.pc = "idle" /\ completing'["webhook"].pc = "idle"
            /\ UNCHANGED <<sent, answered, user, steps, progress, raced>>
        BY <2>2, <3>1, FormFailsAt
      <3> QED
        BY <1>0, <3>2, OnboardFails
    <2> QED
      BY <1>7, <2>1, <2>2
  <1>8. CASE CryptoPaid
    BY <1>0, <1>8, OnboardCrypto
  <1>9. CASE LifecycleCron
    <2>1. /\ user' \notin {"NEW", "ONBOARDING"} /\ webhook.pc = "idle"
          /\ UNCHANGED <<sent, answered, steps, progress, completing, lost, raced, webhook>>
      BY <1>9 DEF LifecycleCron, onboarding, stripe
    <2>2. AwaitsStep => AwaitsStep'
      BY <2>1, StaysSent
    <2> QED
      BY <1>0, <2>1, <2>2, OnboardUser DEF PayerCompletes
  <1> QED
    BY <1>1, <1>2, <1>3, <1>4, <1>5, <1>6, <1>7, <1>8, <1>9 DEF Next, StripeActs

\* Whatever status was computed before a payment landed and written after it,
\* however often the handler of the payment failed on the way, and although a
\* form may fail past its step too: a user who has paid and completed both
\* forms is out of onboarding when all is quiet, unless a form that failed was
\* not sent again (src/src/modules/onboarding/onboarding.service.ts,
\* completeStep and recomputeOnboardingProgress).  With one form only it would
\* not be so.
THEOREM OnboardingIsLeft ==
  ASSUME TwoForms
  PROVE  Spec => []OnboardingEnds
  <1>1. OnboardInv => OnboardingEnds
    <2> SUFFICES ASSUME OnboardInv, Quiet, lost = {} PROVE ~WillLeave /\ ~WillFollow
      BY DEF OnboardInv, OnboardingEnds, LeavesOnboarding, ProgressFollows, InOnboarding
    <2>1. ~AwaitsActivation /\ ~AwaitsStep
      BY DEF Quiet, AwaitsActivation, AwaitsStep
    <2>2. \A c \in Callers : ~Completing(c) /\ ~WillActivate(c)
      BY DEF Quiet, Completing, WillActivate
    <2> QED
      BY <2>1, <2>2 DEF WillLeave, WillFollow, StillLost
  <1>2. Init => OnboardInv
    BY InitOnboard
  <1>3. OnboardInv /\ [Next]_vars => OnboardInv'
    BY StepOnboard
  <1> QED
    BY <1>1, <1>2, <1>3, PTL DEF Spec

-----------------------------------------------------------------------------
(* An active user is subscribed *)

\* A refused renewal or the end of the subscription.
IsStop(i) ==
    \/ sent[i].type \in {"failed", "deleted"}
    \/ sent[i].type = "updated" /\ sent[i].sub.status = "past_due"

Subscribed == "ACTIVE" \in {card.status, crypto.status}

SeenIsStored ==
    \A c \in Callers : completing[c].pc \in {"status", "write"} => completing[c].seen \subseteq steps

\* A payment that is recorded has taken the user out of onboarding.
PayersAreNotNew ==
    ~raced /\ ("payment" \in steps \/ webhook.pc = "complete") => ~InOnboarding

\* What a handler is about to write to the row or the user.
HandlerKnows ==
    /\ webhook.pc \in {"fail", "suspend", "cancel", "deactivate"} =>
           IsStop(webhook.event) /\ card.status # "none"
    /\ webhook.pc = "user" => card.status = "ACTIVE"

\* An event that takes the status from the user is yet to do so.
AwaitsStop ==
    \E i \in DOMAIN sent \ answered :
        IsStop(i) /\ ~(webhook.event = i /\ webhook.pc \in {"stop", "flag"})

StopIsComing ==
    ~raced /\ user = "ACTIVE" /\ ~Subscribed => card.status # "none" /\ AwaitsStop

SubscribedInv ==
    HeldInv /\ SeenIsStored /\ PayersAreNotNew /\ HandlerKnows /\ StopIsComing

LEMMA InitSubscribed == Init => SubscribedInv
  <1> SUFFICES ASSUME Init PROVE SubscribedInv
    OBVIOUS
  <1>1. SeenIsStored /\ HandlerKnows
    BY DEF Init, SeenIsStored, HandlerKnows, NotCompleting, IdleWebhook
  <1>2. PayersAreNotNew /\ StopIsComing
    BY DEF Init, PayersAreNotNew, StopIsComing, InOnboarding, Subscribed, IdleWebhook
  <1> QED
    BY <1>1, <1>2, InitHeld DEF SubscribedInv

\* A step of the handler that does not write the user's status, nor makes the
\* row ACTIVE, leaves the stop awaited.
LEMMA StopStaysAwaited ==
  ASSUME AnswerInv, HandlerStep, card.status # "none", AwaitsStop,
         ~SuspendUser, ~DeactivateUser, ~WriteRow
  PROVE  AwaitsStop'
  <1>0. webhook.pc # "idle" /\ webhook \in [pc : WebhookPCs, event : Nat, end : Nat]
    BY DEF AnswerInv, HandlerStep, Retrieve, Find, WriteRow, ActivateUser, CompletePayment, Resume,
           PayCommission, FailRow, SuspendUser, StopService, WriteFlag, CancelRow, DeactivateUser
  <1>1. HandlerInv /\ sent' = sent
    BY HandlerMoves DEF AnswerInv
  <1>2. \/ /\ answered' = answered /\ webhook'.event = webhook.event
           /\ webhook'.pc \in {"stop", "flag"} =>
                  webhook.pc \in {"stop", "flag"} \/ ~IsStop(webhook.event)
        \/ answered' = answered /\ webhook'.pc = "idle"
        \/ /\ answered' = answered \cup {webhook.event} /\ webhook'.pc = "idle"
           /\ IsStop(webhook.event) => webhook.pc \in {"stop", "flag"}
    <2>1. CASE Retrieve
      BY <1>0, <2>1 DEF Retrieve
    <2>2. CASE Find
      <3>1. AfterFind \in {"write", "fail", "cancel", "flag"}
        BY DEF AfterFind
      <3>2. AfterFind = "flag" => ~IsStop(webhook.event)
        BY DEF AfterFind, IsStop, Kind, Snapshot
      <3> QED
        BY <1>0, <2>2, <3>1, <3>2 DEF Find, Goto
    <2>3. CASE ActivateUser \/ CompletePayment \/ FailRow \/ CancelRow
      BY <1>0, <2>3 DEF ActivateUser, CompletePayment, FailRow, CancelRow, Goto
    <2>4. CASE Resume \/ PayCommission
      <3>1. ~IsStop(webhook.event)
        BY <1>0, <1>1, <2>4 DEF Resume, PayCommission, HandlerInv, IsStop, Kind
      <3> QED
        BY <1>0, <2>4, <3>1 DEF Resume, PayCommission, Goto, Answer, IdleWebhook
    <2>5. CASE StopService \/ WriteFlag
      BY <1>0, <2>5 DEF StopService, WriteFlag, Goto, Answer, IdleWebhook
    <2> QED
      BY <2>1, <2>2, <2>3, <2>4, <2>5 DEF HandlerStep
  <1>3. PICK i \in DOMAIN sent \ answered :
           IsStop(i) /\ ~(webhook.event = i /\ webhook.pc \in {"stop", "flag"})
    BY DEF AwaitsStop
  <1>4. i \in DOMAIN sent' \ answered' /\ IsStop(i)'
    BY <1>1, <1>2, <1>3 DEF IsStop
  <1>5. ~(webhook'.event = i /\ webhook'.pc \in {"stop", "flag"})
    BY <1>2, <1>3
  <1> QED
    BY <1>4, <1>5 DEF AwaitsStop

\* So do the steps outside a handler.
LEMMA StopStaysSent ==
  ASSUME AwaitsStop,
         \A i \in DOMAIN sent : i \in DOMAIN sent' /\ sent'[i] = sent[i],
         answered' \subseteq answered,
         webhook' = webhook \/ webhook'.pc \in {"idle", "find", "retrieve"}
  PROVE  AwaitsStop'
  <1>1. PICK i \in DOMAIN sent \ answered :
           IsStop(i) /\ ~(webhook.event = i /\ webhook.pc \in {"stop", "flag"})
    BY DEF AwaitsStop
  <1>2. i \in DOMAIN sent' \ answered' /\ IsStop(i)'
    BY <1>1 DEF IsStop
  <1> QED
    BY <1>1, <1>2 DEF AwaitsStop

\* Rows and user are as they were.
LEMMA SubscribedFrame ==
  ASSUME SubscribedInv, HeldInv', SeenIsStored', HandlerKnows',
         UNCHANGED <<user, crypto>>, ~raced' => ~raced, card'.status = card.status,
         "payment" \in steps' => "payment" \in steps \/ webhook.pc = "complete",
         webhook'.pc = "complete" => webhook.pc = "complete",
         card.status # "none" /\ AwaitsStop => AwaitsStop'
  PROVE  SubscribedInv'
  <1>1. PayersAreNotNew'
    BY DEF SubscribedInv, PayersAreNotNew, InOnboarding
  <1>2. StopIsComing'
    BY DEF SubscribedInv, StopIsComing, Subscribed
  <1> QED
    BY <1>1, <1>2 DEF SubscribedInv

\* A step outside a handler that leaves the rows and the user alone.
LEMMA SubscribedOutside ==
  ASSUME SubscribedInv, HeldInv', SeenIsStored',
         UNCHANGED <<user, raced, crypto, card>>,
         "payment" \in steps' => "payment" \in steps,
         \A i \in DOMAIN sent : i \in DOMAIN sent' /\ sent'[i] = sent[i],
         answered' \subseteq answered,
         webhook' = webhook \/ webhook'.pc \in {"idle", "find", "retrieve"}
  PROVE  SubscribedInv'
  <1>1. AwaitsStop => AwaitsStop'
    BY StopStaysSent
  <1>2. HandlerKnows'
    <2>1. CASE webhook' = webhook
      <3>1. webhook.pc # "idle" => webhook.event \in DOMAIN sent
        BY DEF SubscribedInv, HeldInv, AnswerInv, HandlerInv
      <3>2. ASSUME webhook.pc # "idle", IsStop(webhook.event) PROVE IsStop(webhook.event)'
        BY <2>1, <3>1, <3>2 DEF IsStop
      <3> QED
        BY <2>1, <3>2 DEF SubscribedInv, HandlerKnows
    <2>2. CASE webhook'.pc \in {"idle", "find", "retrieve"}
      BY <2>2 DEF HandlerKnows
    <2> QED
      BY <2>1, <2>2
  <1> QED
    BY <1>1, <1>2, SubscribedFrame

\* The steps of the handler.
LEMMA SubscribedHandler ==
  ASSUME SubscribedInv, HeldInv', HandlerStep
  PROVE  SubscribedInv'
  <1>0. /\ HeldInv /\ AnswerInv /\ HandlerInv /\ HandlerKnows /\ SeenIsStored
        /\ card \in RowType /\ completing \in CompletingType
    BY DEF SubscribedInv, HeldInv, HeldOK, AnswerInv
  <1>1. /\ webhook.pc # "idle" /\ webhook \in [pc : WebhookPCs, event : Nat, end : Nat]
        /\ webhook.event \in DOMAIN sent \ answered
        /\ UNCHANGED <<sent, crypto, raced>>
    BY <1>0, HandlerMoves DEF AnswerInv
  <1>2. CASE \/ Retrieve \/ Find \/ Resume \/ PayCommission \/ StopService \/ WriteFlag
    <2>1. /\ UNCHANGED <<user, steps, completing>> /\ card'.status = card.status
          /\ ~SuspendUser /\ ~DeactivateUser /\ ~WriteRow
      <3>1. CASE WriteFlag
        BY <1>0, <3>1 DEF WriteFlag, onboarding, SuspendUser, DeactivateUser, WriteRow, RowType
      <3>2. CASE Retrieve \/ Find \/ Resume \/ PayCommission \/ StopService
        BY <3>2 DEF Retrieve, Find, Resume, PayCommission, StopService, rows, onboarding, SuspendUser,
           DeactivateUser, WriteRow
      <3> QED
        BY <1>2, <3>1, <3>2
    <2>2. card.status # "none" /\ AwaitsStop => AwaitsStop'
      BY <1>0, <2>1, StopStaysAwaited
    <2>3. SeenIsStored'
      BY <1>0, <2>1 DEF SeenIsStored
    <2>4. HandlerKnows' /\ webhook'.pc # "complete"
      <3>1. CASE Find
        <4>1. CASE AfterFind = "none"
          BY <3>1, <4>1 DEF Find, Refuse, Answer, IdleWebhook, HandlerKnows
        <4>2. CASE AfterFind # "none"
          <5>1. /\ AfterFind \in {"write", "flag", "fail", "cancel"}
                /\ AfterFind \in {"fail", "cancel"} => IsStop(webhook.event) /\ card.status # "none"
            BY <4>2 DEF AfterFind, IsStop, Kind, Snapshot
          <5>2. webhook'.pc = AfterFind /\ webhook'.event = webhook.event
            BY <1>1, <3>1, <4>2 DEF Find, Goto
          <5>3. IsStop(webhook.event) => IsStop(webhook.event)'
            BY <1>1, <5>2 DEF IsStop
          <5> QED
            BY <2>1, <5>1, <5>2, <5>3 DEF HandlerKnows, IsStop
        <4> QED
          BY <4>1, <4>2
      <3>2. CASE Retrieve \/ Resume \/ PayCommission \/ StopService \/ WriteFlag
        <4>1. webhook'.pc \in {"find", "commission", "flag", "idle"}
          <5>1. CASE Retrieve
            BY <1>1, <5>1 DEF Retrieve
          <5>2. CASE Resume
            BY <1>1, <5>2 DEF Resume, Goto, Answer, IdleWebhook
          <5>3. CASE StopService
            BY <1>1, <5>3 DEF StopService, Goto, Answer, IdleWebhook
          <5>4. CASE PayCommission \/ WriteFlag
            BY <5>4 DEF PayCommission, WriteFlag, Answer, IdleWebhook
          <5> QED
            BY <3>2, <5>1, <5>2, <5>3, <5>4
        <4> QED
          BY <4>1 DEF HandlerKnows
      <3> QED
        BY <1>2, <3>1, <3>2
    <2> QED
      BY <1>1, <2>1, <2>2, <2>3, <2>4, SubscribedFrame
  <1>3. CASE CompletePayment
    <2>0. "payment" \in Steps
      BY DEF Steps
    <2>1. /\ UNCHANGED <<user, card>> /\ webhook.pc = "complete" /\ webhook'.pc = "resume"
          /\ ~SuspendUser /\ ~DeactivateUser /\ ~WriteRow
      BY <1>1, <1>3 DEF CompletePayment, Goto, rows, SuspendUser, DeactivateUser, WriteRow
    <2>2. card.status # "none" /\ AwaitsStop => AwaitsStop'
      BY <1>0, <1>3, <2>1, StopStaysAwaited DEF HandlerStep
    <2>3. SeenIsStored'
      <3>1. /\ completing'["webhook"].pc = "steps" /\ steps \subseteq steps'
            /\ \A d \in Callers : d # "webhook" => completing'[d] = completing[d]
        BY <1>0, <1>3, <2>0, BeginStepAt, CallersAre DEF CompletePayment, HeldInv
      <3> QED
        BY <1>0, <3>1 DEF SeenIsStored
    <2>4. HandlerKnows'
      BY <2>1 DEF HandlerKnows
    <2> QED
      BY <1>1, <2>1, <2>2, <2>3, <2>4, SubscribedFrame
  <1>4. CASE WriteRow
    <2>1. /\ card'.status = "ACTIVE" /\ UNCHANGED <<user, steps, completing>>
          /\ webhook'.pc \in {"flag", "user"}
      BY <1>0, <1>1, <1>4 DEF WriteRow, RowType, Goto, onboarding
    <2>2. HandlerKnows' /\ SeenIsStored' /\ StopIsComing'
      BY <1>0, <2>1 DEF HandlerKnows, SeenIsStored, StopIsComing, Subscribed
    <2>3. PayersAreNotNew'
      BY <1>1, <2>1 DEF SubscribedInv, PayersAreNotNew, InOnboarding
    <2> QED
      BY <2>2, <2>3 DEF SubscribedInv
  <1>5. CASE ActivateUser
    <2>1. /\ user' = "ACTIVE" /\ card'.status = "ACTIVE" /\ UNCHANGED <<steps, completing>>
          /\ webhook'.pc = "complete"
      BY <1>0, <1>1, <1>5 DEF ActivateUser, rows, Goto, onboarding, HandlerKnows
    <2>2. HandlerKnows' /\ SeenIsStored' /\ StopIsComing' /\ PayersAreNotNew'
      BY <1>0, <2>1
      DEF HandlerKnows, SeenIsStored, StopIsComing, Subscribed, PayersAreNotNew, InOnboarding
    <2> QED
      BY <2>2 DEF SubscribedInv
  <1>6. CASE FailRow \/ CancelRow
    <2>1. /\ card'.status \in {"PAST_DUE", "CANCELED"} /\ UNCHANGED <<user, steps, completing, answered>>
          /\ webhook'.pc \in {"suspend", "deactivate"} /\ webhook'.event = webhook.event
      BY <1>0, <1>1, <1>6 DEF FailRow, CancelRow, RowType, Goto, onboarding
    <2>2. IsStop(webhook.event)
      BY <1>0, <1>6 DEF FailRow, CancelRow, HandlerKnows
    <2>3. IsStop(webhook.event)'
      BY <1>1, <2>1, <2>2 DEF IsStop
    <2>4. AwaitsStop'
      <3>1. PICK i \in DOMAIN sent \ answered : i = webhook.event
        BY <1>1
      <3> QED
        BY <1>1, <2>1, <2>2, <3>1 DEF AwaitsStop, IsStop
    <2>5. HandlerKnows' /\ SeenIsStored' /\ StopIsComing'
      BY <1>0, <2>1, <2>3, <2>4 DEF HandlerKnows, SeenIsStored, StopIsComing
    <2>6. PayersAreNotNew'
      BY <1>1, <2>1 DEF SubscribedInv, PayersAreNotNew, InOnboarding
    <2> QED
      BY <2>5, <2>6 DEF SubscribedInv
  <1>7. CASE SuspendUser \/ DeactivateUser
    <2>1. /\ user' \in {"SUSPENDED", "INACTIVE"} /\ UNCHANGED <<steps, completing>>
          /\ webhook'.pc = "stop"
      BY <1>0, <1>1, <1>7 DEF SuspendUser, DeactivateUser, Goto, onboarding
    <2>2. HandlerKnows' /\ SeenIsStored' /\ StopIsComing' /\ PayersAreNotNew'
      BY <1>0, <2>1 DEF HandlerKnows, SeenIsStored, StopIsComing, PayersAreNotNew, InOnboarding
    <2> QED
      BY <2>2 DEF SubscribedInv
  <1> QED
    BY <1>2, <1>3, <1>4, <1>5, <1>6, <1>7 DEF HandlerStep

\* completeStep writes the status: one it did not compute from what is stored
\* is a race, and the one it computes never makes a payer ACTIVE.
LEMMA SubscribedWrite ==
  ASSUME SubscribedInv, HeldInv', NEW c \in Callers, WriteProgress(c)
  PROVE  SubscribedInv'
  <1> DEFINE seen == completing[c].seen
             read == completing[c].status
  <1>0. HeldOK /\ user \in Statuses /\ read \in Statuses
    BY DEF SubscribedInv, HeldInv, HeldOK, CompletingType, CompletingRecord
  <1>1. /\ completing[c].pc = "write" /\ completing'[c].pc = "idle"
        /\ \A d \in Callers : d # c => completing'[d] = completing[d]
        /\ user' = StatusAfter(seen, read, user)
        /\ raced' = (raced \/ seen # steps \/ (read # user /\ user' # user))
        /\ UNCHANGED <<sent, answered, card, crypto, steps, webhook>>
    BY <1>0, WriteProgressAt
  <1>2. user' # user =>
              \/ AllDone(seen) /\ read = "ONBOARDING" /\ user' = "ACTIVE"
              \/ read = "NEW" /\ user' = "ONBOARDING"
    BY <1>0, <1>1, StatusAfterOK
  <1>3. seen \subseteq steps
    BY <1>1 DEF SubscribedInv, SeenIsStored
  <1> HIDE DEF seen, read
  <1>4. SeenIsStored'
    BY <1>1 DEF SubscribedInv, SeenIsStored
  <1>5. HandlerKnows'
    BY <1>1 DEF SubscribedInv, HandlerKnows, IsStop
  <1>6. AwaitsStop => AwaitsStop'
    BY <1>1, StopStaysSent
  <1>7. CASE user' = user /\ ~raced'
    BY <1>1, <1>4, <1>5, <1>6, <1>7, SubscribedFrame
  <1>8. CASE raced'
    BY <1>4, <1>5, <1>8 DEF SubscribedInv, PayersAreNotNew, StopIsComing
  <1>9. CASE user' # user /\ ~raced'
    <2>1. ~raced /\ read = user /\ InOnboarding
      BY <1>1, <1>2, <1>9 DEF InOnboarding
    <2>2. "payment" \notin steps /\ webhook.pc # "complete"
      BY <2>1 DEF SubscribedInv, PayersAreNotNew
    <2>3. ~AllDone(seen)
      BY <1>3, <2>2 DEF AllDone, Steps
    <2>4. user' = "ONBOARDING"
      BY <1>2, <1>9, <2>3
    <2> QED
      BY <1>1, <1>4, <1>5, <2>2, <2>4 DEF SubscribedInv, PayersAreNotNew, StopIsComing
  <1> QED
    BY <1>7, <1>8, <1>9

LEMMA StepSubscribed == SubscribedInv /\ [Next]_vars => SubscribedInv'
  <1> SUFFICES ASSUME SubscribedInv, [Next]_vars PROVE SubscribedInv'
    OBVIOUS
  <1>0. HeldInv /\ HeldInv' /\ AnswerInv /\ SeenIsStored /\ HeldOK /\ steps \subseteq Steps /\ card \in RowType
    BY StepHeld DEF SubscribedInv, HeldInv, AnswerInv, HeldOK
  <1>1. CASE StripeActs
    <2>1. /\ \A i \in DOMAIN sent : i \in DOMAIN sent' /\ sent'[i] = sent[i]
          /\ UNCHANGED <<answered, card, crypto, user, completing, steps, webhook, raced>>
      BY <1>0, <1>1, SentGrows
    <2>2. SeenIsStored'
      BY <1>0, <2>1 DEF SeenIsStored
    <2> QED
      BY <1>0, <2>1, <2>2, SubscribedOutside
  <1>2. CASE NextDay \/ RequestFails \/ ServiceWorks \/ UNCHANGED vars \/ \E i \in DOMAIN sent : Deliver(i)
    <2>1. /\ UNCHANGED <<sent, card, crypto, user, completing, steps, raced>>
          /\ answered' \subseteq answered
          /\ webhook' = webhook \/ webhook'.pc \in {"idle", "find", "retrieve"}
      BY <1>2 DEF NextDay, RequestFails, ServiceWorks, vars, Deliver, stripe, rows, onboarding
    <2>2. SeenIsStored'
      BY <1>0, <2>1 DEF SeenIsStored
    <2> QED
      BY <1>0, <2>1, <2>2, SubscribedOutside
  <1>3. ASSUME NEW c \in Callers, ReadSteps(c) \/ ReadStatus(c) \/ WriteProgress(c) PROVE SubscribedInv'
    <2>1. CASE ReadSteps(c)
      <3>1. /\ completing'[c].seen = steps
            /\ \A d \in Callers : d # c => completing'[d] = completing[d]
            /\ UNCHANGED <<sent, answered, card, crypto, user, steps, webhook, raced>>
        BY <1>0, <2>1, ReadStepsAt
      <3>2. SeenIsStored'
        BY <1>0, <3>1 DEF SeenIsStored
      <3> QED
        BY <1>0, <3>1, <3>2, SubscribedOutside
    <2>2. CASE ReadStatus(c)
      <3>1. /\ completing[c].pc = "status" /\ completing'[c].seen = completing[c].seen
            /\ \A d \in Callers : d # c => completing'[d] = completing[d]
            /\ UNCHANGED <<sent, answered, card, crypto, user, steps, webhook, raced>>
        BY <1>0, <2>2, ReadStatusAt
      <3>2. SeenIsStored'
        BY <1>0, <3>1 DEF SeenIsStored
      <3> QED
        BY <1>0, <3>1, <3>2, SubscribedOutside
    <2>3. CASE WriteProgress(c)
      BY <1>0, <2>3, SubscribedWrite
    <2> QED
      BY <1>3, <2>1, <2>2, <2>3
  <1>4. ASSUME NEW step \in Forms, SubmitForm(step) PROVE SubscribedInv'
    <2>1. /\ completing'["form"].pc = "steps" /\ steps' = steps \cup {step}
          /\ \A d \in Callers : d # "form" => completing'[d] = completing[d]
      BY <1>0, <1>4, BeginStepAt, CallersAre DEF SubmitForm, Steps
    <2>2. /\ UNCHANGED <<sent, answered, card, crypto, user, webhook, raced>>
          /\ "payment" \in steps' => "payment" \in steps
      BY <1>4, <2>1, CardAssumption DEF SubmitForm, stripe, rows
    <2>3. SeenIsStored'
      BY <1>0, <2>1 DEF SeenIsStored
    <2> QED
      BY <1>0, <2>2, <2>3, SubscribedOutside
  <1>5. CASE HandlerStep
    BY <1>0, <1>5, SubscribedHandler
  <1>6. CASE HandlingFails
    <2>1. /\ webhook'.pc = "idle"
          /\ completing'["webhook"].pc = "idle" /\ completing'["form"] = completing["form"]
          /\ UNCHANGED <<sent, answered, card, crypto, user, steps, raced>>
      BY <1>0, <1>6, HandlingFailsAt DEF IdleWebhook
    <2>2. SeenIsStored'
      BY <1>0, <2>1, CallersAre DEF SeenIsStored
    <2> QED
      BY <1>0, <2>1, <2>2, SubscribedOutside
  <1>10. CASE FormFails \/ ProcessDies
    <2>1. /\ completing'["form"].pc = "idle"
          /\ \/ webhook' = webhook /\ completing'["webhook"] = completing["webhook"]
             \/ webhook'.pc = "idle" /\ completing'["webhook"].pc = "idle"
          /\ UNCHANGED <<sent, answered, card, crypto, user, steps, raced>>
      BY <1>0, <1>10, FormFailsAt
    <2>2. SeenIsStored'
      BY <1>0, <2>1, CallersAre DEF SeenIsStored
    <2> QED
      BY <1>0, <2>1, <2>2, SubscribedOutside
  <1>7. CASE StoreWish
    <2>1. /\ UNCHANGED <<sent, answered, crypto, user, completing, steps, webhook, raced>>
          /\ card'.status = card.status
      BY <1>0, <1>7 DEF StoreWish, stripe, onboarding, RowType
    <2>2. SeenIsStored' /\ HandlerKnows'
      BY <1>0, <2>1 DEF SubscribedInv, SeenIsStored, HandlerKnows, IsStop
    <2>3. AwaitsStop => AwaitsStop'
      BY <2>1, StopStaysSent
    <2> QED
      BY <1>0, <2>1, <2>2, <2>3, SubscribedFrame
  <1>8. CASE CryptoPaid
    <2>1. /\ webhook.pc = "idle" /\ UNCHANGED <<completing, webhook>> /\ user' = "ACTIVE"
          /\ crypto'.status = "ACTIVE" /\ steps \subseteq steps'
      BY <1>8 DEF CryptoPaid
    <2>2. SeenIsStored' /\ HandlerKnows'
      BY <1>0, <2>1 DEF SeenIsStored, HandlerKnows
    <2> QED
      BY <1>0, <2>1, <2>2 DEF SubscribedInv, PayersAreNotNew, StopIsComing, InOnboarding, Subscribed
  <1>9. CASE LifecycleCron
    <2>1. /\ webhook.pc = "idle" /\ UNCHANGED <<completing, webhook, steps>>
          /\ user' \in {"SUSPENDED", "INACTIVE"}
      BY <1>9 DEF LifecycleCron, onboarding
    <2>2. SeenIsStored' /\ HandlerKnows'
      BY <1>0, <2>1 DEF SeenIsStored, HandlerKnows
    <2> QED
      BY <1>0, <2>1, <2>2 DEF SubscribedInv, PayersAreNotNew, StopIsComing, InOnboarding
  <1> QED
    BY <1>1, <1>2, <1>3, <1>4, <1>5, <1>6, <1>7, <1>8, <1>9, <1>10 DEF Next, StripeActs

\* In whatever order events come and however often their handlers fail, a
\* user who is ACTIVE when all is quiet has an ACTIVE row, of the card or of
\* crypto: an event that takes the row from ACTIVE is not answered before it
\* has taken the status too (src/src/modules/subscription/
\* subscription.service.ts, applyPaymentFailure; src/src/webhooks/
\* stripe.webhook.ts, handleSubscriptionDeleted).
THEOREM ActiveUsersAreSubscribed == Spec => []ActiveIsSubscribed
  <1>1. SubscribedInv => ActiveIsSubscribed
    BY DEF SubscribedInv, ActiveIsSubscribed, StopIsComing, Subscribed, AwaitsStop, Quiet
  <1>2. Init => SubscribedInv
    BY InitSubscribed
  <1>3. SubscribedInv /\ [Next]_vars => SubscribedInv'
    BY StepSubscribed
  <1> QED
    BY <1>1, <1>2, <1>3, PTL DEF Spec

-----------------------------------------------------------------------------
(* The row knows whether Stripe will renew *)

Wishes == {"idle", "cancel", "reactivate"}

\* Only a subscription that has a row can be cancelled, and a request under
\* way is about what Stripe was told last, or about its end.
WishHasRow ==
    /\ client \in Wishes
    /\ card.status = "none" => card.cancel = gate.cancel
    /\ gate.status = "none" => gate.cancel = FALSE
    /\ client # "idle" =>
           /\ card.status # "none"
           /\ gate.status = "canceled" \/ gate.cancel = (client = "cancel")

\* A handler past its lookup has found a row, or is about to write one.
RowIsFound == webhook.pc \notin {"idle", "retrieve", "find", "write"} => card.status # "none"

\* An event that tells the flag Stripe has now, and after which no event
\* tells another.
Bears(i) ==
    /\ sent[i].type = "updated"
    /\ \A j \in DOMAIN sent : i <= j => sent[j].sub.cancel = gate.cancel

\* In order, no event after the one being handled has been answered.
LaterUnanswered ==
    ordered /\ webhook.pc # "idle" => \A j \in DOMAIN sent : webhook.event < j => j \notin answered

FlagIsSent ==
    \A i \in DOMAIN sent :
        sent[i].sub.cancel # gate.cancel => \E j \in DOMAIN sent : i < j /\ Bears(j)

FlagIsComing ==
    ordered /\ gate.status # "canceled" /\ card.cancel # gate.cancel =>
        \E j \in DOMAIN sent \ answered : Bears(j)

WishInv ==
    /\ HeldInv /\ WishHasRow /\ RowIsFound /\ LaterUnanswered /\ FlagIsSent /\ FlagIsComing

LEMMA InitWish == Init => WishInv
  <1> SUFFICES ASSUME Init PROVE WishInv
    OBVIOUS
  <1>1. webhook.pc = "idle" /\ DOMAIN sent = {} /\ client = "idle"
    BY DEF Init, IdleWebhook
  <1>2. card.cancel = FALSE /\ gate.cancel = FALSE
    BY DEF Init, NoRow
  <1> QED
    BY <1>1, <1>2, InitHeld
    DEF WishInv, WishHasRow, RowIsFound, LaterUnanswered, FlagIsSent, FlagIsComing, Wishes

\* Neither the flag, of the row or at Stripe, nor an event changes.
LEMMA WishFrame ==
  ASSUME WishInv, HeldInv', UNCHANGED <<gate, sent>>, client' \in {client, "idle"},
         card'.cancel = card.cancel, card'.status = "none" <=> card.status = "none",
         ordered' => ordered, RowIsFound', LaterUnanswered',
         \A j \in DOMAIN sent \ answered : Bears(j) /\ card.status # "none" => j \notin answered'
  PROVE  WishInv'
  <1>1. WishHasRow'
    BY DEF WishInv, WishHasRow, Wishes
  <1>2. \A j \in DOMAIN sent : Bears(j) => Bears(j)'
    BY DEF Bears
  <1>3. FlagIsSent'
    BY <1>2 DEF WishInv, FlagIsSent
  <1>4. FlagIsComing'
    <2> SUFFICES ASSUME ordered', card'.cancel # gate'.cancel,
                        gate'.status # "canceled"
                 PROVE  \E j \in DOMAIN sent' \ answered' : Bears(j)'
      BY DEF FlagIsComing
    <2>1. card.cancel # gate.cancel /\ ordered /\ gate.status # "canceled"
      OBVIOUS
    <2>2. card.status # "none"
      BY <2>1 DEF WishInv, WishHasRow
    <2>3. PICK j \in DOMAIN sent \ answered : Bears(j)
      BY <2>1 DEF WishInv, FlagIsComing
    <2> QED
      BY <1>2, <2>2, <2>3
  <1> QED
    BY <1>1, <1>3, <1>4 DEF WishInv

\* Events follow that tell what Stripe has.
LEMMA WishEmits ==
  ASSUME WishInv, StripeActs, HeldInv'
  PROVE  WishInv'
  <1>0. AnswerInv /\ answered \subseteq DOMAIN sent /\ gate \in GateType /\ sent \in Seq(Event)
    BY DEF WishInv, HeldInv, AnswerInv, GateOK
  <1>1. /\ \A i \in DOMAIN sent : i \in DOMAIN sent' /\ sent'[i] = sent[i]
        /\ \A i \in DOMAIN sent' : i \notin DOMAIN sent =>
              sent'[i].sub = gate' /\ \A j \in DOMAIN sent : j < i
        /\ UNCHANGED <<answered, card, webhook, ordered>>
    BY <1>0, SentGrows
  <1>2. RowIsFound' /\ LaterUnanswered'
    BY <1>0, <1>1 DEF WishInv, RowIsFound, LaterUnanswered
  <1>6. ASSUME gate'.cancel = gate.cancel
        PROVE  FlagIsSent' /\ \A j \in DOMAIN sent : Bears(j) => j \in DOMAIN sent' /\ Bears(j)'
    <2>2. ASSUME NEW j \in DOMAIN sent, Bears(j) PROVE j \in DOMAIN sent' /\ Bears(j)'
      <3>1. sent'[j].type = "updated" /\ j \in DOMAIN sent'
        BY <1>1, <2>2 DEF Bears
      <3>2. ASSUME NEW k \in DOMAIN sent', j <= k PROVE sent'[k].sub.cancel = gate'.cancel
        BY <1>1, <1>6, <2>2, <3>2 DEF Bears
      <3> QED
        BY <3>1, <3>2 DEF Bears
    <2>3. FlagIsSent'
      <3> SUFFICES ASSUME NEW i \in DOMAIN sent', sent'[i].sub.cancel # gate'.cancel
                   PROVE  \E j \in DOMAIN sent' : i < j /\ Bears(j)'
        BY DEF FlagIsSent
      <3>1. i \in DOMAIN sent /\ sent[i].sub.cancel # gate.cancel
        BY <1>1, <1>6
      <3>2. PICK j \in DOMAIN sent : i < j /\ Bears(j)
        BY <3>1 DEF WishInv, FlagIsSent
      <3> QED
        BY <2>2, <3>2
    <2> QED
      BY <2>2, <2>3
  <1>3. CASE gate'.cancel = gate.cancel /\ UNCHANGED client
                /\ (gate'.status = "none" => gate.status = "none")
                /\ (gate.status = "canceled" => gate'.status = "canceled")
    <2>1. WishHasRow'
      BY <1>1, <1>3 DEF WishInv, WishHasRow
    <2>4. FlagIsComing'
      <3> SUFFICES ASSUME ordered', card'.cancel # gate'.cancel, gate'.status # "canceled"
                   PROVE  \E j \in DOMAIN sent' \ answered' : Bears(j)'
        BY DEF FlagIsComing
      <3>1. PICK j \in DOMAIN sent \ answered : Bears(j)
        BY <1>1, <1>3 DEF WishInv, FlagIsComing
      <3> QED
        BY <1>1, <1>3, <1>6, <3>1
    <2> QED
      BY <1>2, <1>3, <1>6, <2>1, <2>4 DEF WishInv
  <1>7. ASSUME CancelNow PROVE WishInv'
    <2>1. /\ gate'.cancel = gate.cancel /\ gate'.status = "canceled" /\ client' = "cancel"
          /\ card.status # "none"
      BY <1>0, <1>7 DEF CancelNow, GateType
    <2>2. WishHasRow' /\ FlagIsComing'
      BY <1>1, <2>1 DEF WishHasRow, FlagIsComing, Wishes
    <2> QED
      BY <1>2, <1>6, <2>1, <2>2 DEF WishInv
  <1>4. ASSUME NEW wish \in {"cancel", "reactivate"}, AskStripe(wish) PROVE WishInv'
    <2>1. /\ gate'.cancel = (wish = "cancel") /\ gate'.status \in {"active", "past_due"}
          /\ card.status # "none" /\ client' = wish /\ Emit(<<"updated">>)
      BY <1>0, <1>4 DEF AskStripe, GateType
    <2>2. WishHasRow'
      BY <1>1, <2>1 DEF WishHasRow, Wishes
    <2>3. PICK n : n = Len(sent) + 1
      OBVIOUS
    <2>4. /\ n \in DOMAIN sent' /\ n \notin DOMAIN sent /\ sent'[n].type = "updated"
          /\ \A i \in DOMAIN sent' : i <= n
          /\ \A i \in DOMAIN sent' : n <= i => i = n
          /\ sent'[n].sub = gate'
      <3>1. PICK types \in Seq(EventTypes) : types = <<"updated">>
        <4>1. \A e \in EventTypes : <<e>> \in Seq(EventTypes)
          OBVIOUS
        <4>2. "updated" \in EventTypes
          BY DEF EventTypes
        <4> QED
          BY <4>1, <4>2
      <3>2. Len(types) = 1 /\ types[1] = "updated"
        BY <3>1
      <3>3. /\ DOMAIN sent' = 1 .. Len(sent')
            /\ Len(sent) \in Nat /\ DOMAIN sent = 1 .. Len(sent)
            /\ Len(sent') = Len(sent) + Len(types)
            /\ \A i \in 1 .. Len(types) :
                  sent'[Len(sent) + i] = [type |-> types[i], sub |-> gate']
        BY <1>0, <2>1, <3>1, EmittedAt
      <3>4. sent'[Len(sent) + 1] = [type |-> "updated", sub |-> gate']
        BY <3>2, <3>3
      <3> QED
        BY <2>3, <3>2, <3>3, <3>4
    <2>5. Bears(n)'
      BY <2>4 DEF Bears
    <2>6. \A i \in DOMAIN sent : i < n
      BY <1>1, <2>4
    <2>7. FlagIsSent'
      BY <1>1, <2>4, <2>5, <2>6 DEF FlagIsSent
    <2>8. FlagIsComing'
      BY <1>0, <1>1, <2>4, <2>5 DEF FlagIsComing
    <2> QED
      BY <1>2, <2>2, <2>7, <2>8 DEF WishInv
  <1>5. ASSUME Subscribe \/ InvoicePaid \/ InvoiceFails \/ SubscriptionEnds
        PROVE  gate'.cancel = gate.cancel /\ UNCHANGED client
                  /\ (gate'.status = "none" => gate.status = "none")
                  /\ (gate.status = "canceled" => gate'.status = "canceled")
    <2>1. CASE Subscribe
      BY <2>1 DEF Subscribe, StripeOnly, WishInv, WishHasRow
    <2>2. CASE InvoicePaid
      BY <1>0, <2>2 DEF InvoicePaid, StripeOnly, GateType, Collecting, RenewalIsDue
    <2>3. CASE InvoiceFails
      BY <1>0, <2>3 DEF InvoiceFails, StripeOnly, GateType, Collecting, RenewalIsDue
    <2>4. CASE SubscriptionEnds
      BY <1>0, <2>4 DEF SubscriptionEnds, StripeOnly, GateType
    <2> QED
      BY <1>5, <2>1, <2>2, <2>3, <2>4
  <1> QED
    BY <1>3, <1>4, <1>5, <1>7 DEF StripeActs

\* A step of the handler that writes nothing into the flag answers no event
\* that bears one, unless there is no row to write it to.
LEMMA WishHandler ==
  ASSUME WishInv, HeldInv', HandlerStep
  PROVE  WishInv'
  <1>0. /\ AnswerInv /\ HandlerInv /\ card \in RowType
    BY DEF WishInv, HeldInv, HeldOK, AnswerInv
  <1>1. /\ webhook.pc # "idle" /\ webhook \in [pc : WebhookPCs, event : Nat, end : Nat]
        /\ webhook.event \in DOMAIN sent \ answered
        /\ UNCHANGED <<gate, sent, client, ordered>>
    BY <1>0, HandlerMoves DEF AnswerInv
  <1>2. LaterUnanswered'
    <2>1. \/ answered' = answered /\ webhook'.event = webhook.event
          \/ webhook'.pc = "idle"
      BY <1>0, HandlerMoves
    <2> QED
      BY <1>1, <2>1 DEF WishInv, LaterUnanswered
  <1>3. CASE WriteFlag
    <2>1. /\ card'.cancel = sent[webhook.event].sub.cancel /\ card'.status = card.status
          /\ answered' = answered \cup {webhook.event} /\ webhook'.pc = "idle"
      BY <1>0, <1>3 DEF WriteFlag, RowType, Snapshot, Answer, IdleWebhook
    <2>2. RowIsFound'
      BY <2>1 DEF RowIsFound
    <2>3. card'.status # "none"
      BY <1>3, <2>1 DEF WishInv, RowIsFound, WriteFlag
    <2>4. WishHasRow'
      BY <1>1, <2>3 DEF WishInv, WishHasRow
    <2>5. \A j \in DOMAIN sent : Bears(j) => Bears(j)'
      BY <1>1 DEF Bears
    <2>6. FlagIsSent'
      BY <1>1, <2>5 DEF WishInv, FlagIsSent
    <2>7. FlagIsComing'
      <3> SUFFICES ASSUME ordered', card'.cancel # gate'.cancel, gate'.status # "canceled"
                   PROVE  \E j \in DOMAIN sent' \ answered' : Bears(j)'
        BY DEF FlagIsComing
      <3>1. PICK j \in DOMAIN sent : webhook.event < j /\ Bears(j)
        BY <1>1, <2>1 DEF WishInv, FlagIsSent
      <3>2. j \notin answered /\ j # webhook.event
        BY <1>1, <3>1 DEF WishInv, LaterUnanswered
      <3> QED
        BY <1>1, <2>1, <2>5, <3>1, <3>2
    <2> QED
      BY <1>2, <2>2, <2>4, <2>6, <2>7 DEF WishInv
  <1>4. CASE Find
    <2>1. card' = card
      BY <1>4 DEF Find, rows
    <2>2. CASE AfterFind = "none"
      <3>1. card.status = "none" /\ webhook'.pc = "idle"
        BY <1>4, <2>2 DEF AfterFind, Find, Answer, Refuse, IdleWebhook
      <3>2. RowIsFound'
        BY <3>1 DEF RowIsFound
      <3> QED
        BY <1>1, <1>2, <2>1, <3>1, <3>2, WishFrame
    <2>3. CASE AfterFind # "none"
      <3>1. webhook'.pc = AfterFind /\ answered' = answered
        BY <1>1, <1>4, <2>3 DEF Find, Goto
      <3>2. AfterFind = "write" \/ card.status # "none"
        BY <2>3 DEF AfterFind
      <3>3. RowIsFound'
        BY <2>1, <3>1, <3>2 DEF RowIsFound
      <3> QED
        BY <1>1, <1>2, <2>1, <3>1, <3>3, WishFrame
    <2> QED
      BY <2>2, <2>3
  <1>5. CASE WriteRow
    <2>1. card'.status = "ACTIVE" /\ card'.cancel = card.cancel /\ answered' = answered
      BY <1>0, <1>5 DEF WriteRow, RowType, Goto
    <2>2. RowIsFound'
      BY <2>1 DEF RowIsFound
    <2>3. CASE card.status # "none"
      BY <1>1, <1>2, <2>1, <2>2, <2>3, WishFrame
    <2>4. CASE card.status = "none"
      <3>1. card'.cancel = gate'.cancel
        BY <1>1, <2>1, <2>4 DEF WishInv, WishHasRow
      <3>2. WishHasRow'
        BY <1>1, <2>1, <3>1 DEF WishInv, WishHasRow
      <3>3. \A j \in DOMAIN sent : Bears(j) => Bears(j)'
        BY <1>1 DEF Bears
      <3>4. FlagIsSent'
        BY <1>1, <3>3 DEF WishInv, FlagIsSent
      <3> QED
        BY <1>2, <2>2, <3>1, <3>2, <3>4 DEF WishInv, FlagIsComing
    <2> QED
      BY <2>3, <2>4
  <1>6. CASE FailRow \/ CancelRow
    <2>1. /\ card'.status # "none" /\ card'.cancel = card.cancel /\ answered' = answered
          /\ card.status # "none"
      BY <1>0, <1>6 DEF FailRow, CancelRow, RowType, Goto, WishInv, RowIsFound
    <2>2. RowIsFound'
      BY <2>1 DEF RowIsFound
    <2> QED
      BY <1>1, <1>2, <2>1, <2>2, WishFrame
  <1>7. CASE \/ Retrieve \/ ActivateUser \/ CompletePayment \/ SuspendUser \/ DeactivateUser
             \/ Resume \/ PayCommission \/ StopService
    <2>1. card' = card
      BY <1>7 DEF Retrieve, ActivateUser, CompletePayment, SuspendUser, DeactivateUser, Resume,
         PayCommission, StopService, rows
    <2>2. RowIsFound'
      <3>1. CASE Retrieve
        BY <1>1, <3>1 DEF Retrieve, RowIsFound
      <3>2. CASE \/ ActivateUser \/ CompletePayment \/ SuspendUser \/ DeactivateUser
                 \/ Resume \/ PayCommission \/ StopService
        <4>1. card.status # "none"
          BY <3>2 DEF WishInv, RowIsFound, ActivateUser, CompletePayment, SuspendUser, DeactivateUser,
             Resume, PayCommission, StopService
        <4> QED
          BY <2>1, <4>1 DEF RowIsFound
      <3> QED
        BY <1>7, <3>1, <3>2
    <2>3. \/ answered' = answered
          \/ answered' = answered \cup {webhook.event} /\ sent[webhook.event].type # "updated"
      <3>1. CASE Retrieve \/ ActivateUser \/ CompletePayment \/ SuspendUser \/ DeactivateUser
        BY <3>1 DEF Retrieve, ActivateUser, CompletePayment, SuspendUser, DeactivateUser, Goto
      <3>2. CASE Resume \/ PayCommission
        <4>1. sent[webhook.event].type # "updated"
          BY <1>0, <1>1, <3>2 DEF Resume, PayCommission, HandlerInv, Kind
        <4> QED
          BY <3>2, <4>1 DEF Resume, PayCommission, Goto, Answer
      <3>3. CASE StopService
        BY <3>3 DEF StopService, Goto, Answer, Kind
      <3> QED
        BY <1>7, <3>1, <3>2, <3>3
    <2>4. \A j \in DOMAIN sent \ answered : Bears(j) => j \notin answered'
      BY <2>3 DEF Bears
    <2> QED
      BY <1>1, <1>2, <2>1, <2>2, <2>4, WishFrame
  <1> QED
    BY <1>3, <1>4, <1>5, <1>6, <1>7 DEF HandlerStep

LEMMA StepWish == WishInv /\ [Next]_vars => WishInv'
  <1> SUFFICES ASSUME WishInv, [Next]_vars PROVE WishInv'
    OBVIOUS
  <1>0. HeldInv /\ HeldInv' /\ HeldOK /\ card \in RowType /\ steps \subseteq Steps
    BY StepHeld DEF WishInv, HeldInv, HeldOK, AnswerInv
  <1>1. CASE StripeActs
    BY <1>0, <1>1, WishEmits
  <1>2. CASE \/ NextDay \/ RequestFails \/ FormFails \/ ServiceWorks \/ UNCHANGED vars
             \/ \E step \in Forms : SubmitForm(step)
             \/ \E c \in Callers : ReadSteps(c) \/ ReadStatus(c) \/ WriteProgress(c)
    <2>1. UNCHANGED <<gate, sent, answered, card, webhook, ordered>> /\ client' \in {client, "idle"}
      BY <1>2 DEF NextDay, RequestFails, FormFails, ServiceWorks, vars, SubmitForm, ReadSteps,
         ReadStatus, WriteProgress, stripe, rows
    <2>2. RowIsFound' /\ LaterUnanswered'
      BY <2>1 DEF WishInv, RowIsFound, LaterUnanswered
    <2> QED
      BY <1>0, <2>1, <2>2, WishFrame
  <1>3. ASSUME NEW i \in DOMAIN sent, Deliver(i) PROVE WishInv'
    <2>1. /\ UNCHANGED <<gate, sent, client, card>> /\ answered' = answered \ {i}
          /\ webhook'.event = i /\ webhook'.pc \in {"retrieve", "find"}
          /\ ordered' => ordered /\ InOrder(i)
      BY <1>3 DEF Deliver, stripe, rows
    <2>2. RowIsFound'
      BY <2>1 DEF RowIsFound
    <2>3. LaterUnanswered'
      BY <2>1 DEF LaterUnanswered, InOrder
    <2> QED
      BY <1>0, <2>1, <2>2, <2>3, WishFrame
  <1>4. CASE HandlerStep
    BY <1>0, <1>4, WishHandler
  <1>5. CASE HandlingFails \/ ProcessDies
    <2>1. /\ UNCHANGED <<gate, sent, answered, card, ordered>> /\ webhook'.pc = "idle"
          /\ client' \in {client, "idle"}
      BY <1>5 DEF HandlingFails, ProcessDies, stripe, rows, IdleWebhook
    <2>2. RowIsFound' /\ LaterUnanswered'
      BY <2>1 DEF RowIsFound, LaterUnanswered
    <2> QED
      BY <1>0, <2>1, <2>2, WishFrame
  <1>6. CASE StoreWish
    <2>1. /\ card'.cancel = (client = "cancel") /\ card'.status = card.status /\ client # "idle"
          /\ client' = "idle" /\ UNCHANGED <<gate, sent, answered, webhook, ordered>>
      BY <1>0, <1>6 DEF StoreWish, RowType, stripe
    <2>2. gate'.status = "canceled" \/ card'.cancel = gate'.cancel
      BY <2>1 DEF WishInv, WishHasRow
    <2>3. WishHasRow' /\ FlagIsComing'
      BY <2>1, <2>2 DEF WishInv, WishHasRow, FlagIsComing, Wishes
    <2>4. RowIsFound' /\ LaterUnanswered'
      BY <2>1 DEF WishInv, RowIsFound, LaterUnanswered
    <2>5. \A j \in DOMAIN sent : Bears(j) => Bears(j)'
      BY <2>1 DEF Bears
    <2>6. FlagIsSent'
      BY <2>1, <2>5 DEF WishInv, FlagIsSent
    <2> QED
      BY <1>0, <2>3, <2>4, <2>6 DEF WishInv
  <1>7. CASE CryptoPaid
    <2>1. UNCHANGED <<gate, sent, answered, card, webhook, ordered, client>>
      BY <1>7 DEF CryptoPaid, stripe
    <2>2. RowIsFound' /\ LaterUnanswered'
      BY <2>1 DEF WishInv, RowIsFound, LaterUnanswered
    <2> QED
      BY <1>0, <2>1, <2>2, WishFrame
  <1>8. CASE LifecycleCron
    <2>1. UNCHANGED <<gate, sent, answered, webhook, ordered, client>> /\ webhook.pc = "idle"
      BY <1>8 DEF LifecycleCron, stripe
    <2>2. card'.cancel = card.cancel /\ (card'.status = "none" <=> card.status = "none")
      BY <1>0, <1>8 DEF LifecycleCron, AfterCron, RowType, Lapsed, GraceOver
    <2>3. RowIsFound' /\ LaterUnanswered'
      BY <2>1 DEF RowIsFound, LaterUnanswered
    <2> QED
      BY <1>0, <2>1, <2>2, <2>3, WishFrame
  <1> QED
    BY <1>1, <1>2, <1>3, <1>4, <1>5, <1>6, <1>7, <1>8 DEF Next, StripeActs

\* When events have been handled in order, the row knows whether Stripe will
\* renew, whatever came between the two writes of a cancellation and however
\* often the client's own write was lost (src/src/modules/subscription/
\* subscription.service.ts, cancelSubscription; src/src/webhooks/
\* stripe.webhook.ts, handleSubscriptionUpdated).
THEOREM CancellationsAgree == Spec => []CancelAgrees
  <1>1. WishInv => CancelAgrees
    <2> SUFFICES ASSUME WishInv, Quiet, ordered, gate.status \in {"active", "past_due"}
                 PROVE  card.cancel = gate.cancel
      BY DEF CancelAgrees
    <2>1. DOMAIN sent \ answered = {}
      BY DEF Quiet
    <2> QED
      BY <2>1 DEF WishInv, FlagIsComing
  <1>2. Init => WishInv
    BY InitWish
  <1>3. WishInv /\ [Next]_vars => WishInv'
    BY StepWish
  <1> QED
    BY <1>1, <1>2, <1>3, PTL DEF Spec

-----------------------------------------------------------------------------
(* What the events say of the subscription at Stripe *)

\* An event whose handler writes the user's status.
Writes(i) == IsPayment(i) \/ IsStop(i)

\* The snapshot an event of each type carries.
Carries(type, status) ==
    /\ type = "created" => status = "incomplete"
    /\ type = "paid" => status = "active"
    /\ type = "deleted" => status = "canceled"
    /\ type = "failed" => status \in {"incomplete", "past_due"}
    /\ type = "updated" => status \in {"active", "past_due"}

SentOK ==
    \A i \in DOMAIN sent :
        sent[i].sub.end <= gate.end /\ Carries(sent[i].type, sent[i].sub.status)

\* An event that says what Stripe has now.
Agrees(i) ==
    /\ sent[i].sub.status = gate.status
    /\ gate.status = "active" => sent[i].sub.end = gate.end

\* An event that writes the user's status, and after which all agree.
Decides(i) == Writes(i) /\ \A j \in DOMAIN sent : i <= j => Agrees(j)

\* An event that does not say what Stripe has is followed by one that decides.
Decided == \A i \in DOMAIN sent : Agrees(i) \/ \E j \in DOMAIN sent : i < j /\ Decides(j)

NothingSent == gate.status = "none" => DOMAIN sent = {} /\ gate.end = 0

SentInv == HeldInv /\ SentOK /\ Decided /\ NothingSent

\* The events of a change at Stripe, by their types.
LEMMA EmitsTypes ==
  ASSUME AnswerInv, NEW types \in Seq(EventTypes), Emit(types)
  PROVE  /\ \A i \in DOMAIN sent' : i \notin DOMAIN sent =>
               \E k \in 1 .. Len(types) : sent'[i].type = types[k]
         /\ \A k \in 1 .. Len(types) :
               \E i \in DOMAIN sent' : i \notin DOMAIN sent /\ sent'[i].type = types[k]
         /\ DOMAIN sent = {} /\ Len(types) > 0 => 1 \in DOMAIN sent' /\ sent'[1].type = types[1]
         /\ DOMAIN sent # {} => 1 \in DOMAIN sent
  <1>1. /\ DOMAIN sent' = 1 .. Len(sent')
        /\ Len(sent) \in Nat /\ DOMAIN sent = 1 .. Len(sent) /\ Len(types) \in Nat
        /\ Len(sent') = Len(sent) + Len(types)
        /\ \A i \in 1 .. Len(types) :
              sent'[Len(sent) + i] = [type |-> types[i], sub |-> gate']
    BY EmittedAt
  <1>2. ASSUME NEW i \in DOMAIN sent', i \notin DOMAIN sent
        PROVE  \E k \in 1 .. Len(types) : sent'[i].type = types[k]
    <2>1. i \in 1 .. Len(sent) + Len(types) /\ i \notin 1 .. Len(sent)
      BY <1>1, <1>2
    <2>2. i - Len(sent) \in 1 .. Len(types) /\ Len(sent) + (i - Len(sent)) = i
      BY <1>1, <2>1
    <2>3. PICK k \in 1 .. Len(types) : i = Len(sent) + k
      BY <2>2
    <2>4. sent'[Len(sent) + k] = [type |-> types[k], sub |-> gate']
      BY <1>1
    <2>5. sent'[i].type = types[k]
      BY <2>3, <2>4
    <2> QED
      BY <2>5
  <1>3. ASSUME NEW k \in 1 .. Len(types)
        PROVE  \E i \in DOMAIN sent' : i \notin DOMAIN sent /\ sent'[i].type = types[k]
    <2>1. PICK i : i = Len(sent) + k
      OBVIOUS
    <2>2. i \in DOMAIN sent' /\ i \notin DOMAIN sent
      BY <1>1, <2>1
    <2>3. sent'[Len(sent) + k] = [type |-> types[k], sub |-> gate']
      BY <1>1
    <2>4. sent'[i].type = types[k]
      BY <2>1, <2>3
    <2> QED
      BY <2>2, <2>4
  <1>4. ASSUME DOMAIN sent = {}, Len(types) > 0 PROVE 1 \in DOMAIN sent' /\ sent'[1].type = types[1]
    <2>1. Len(sent) = 0 /\ 1 \in 1 .. Len(types) /\ Len(sent) + 1 = 1
      BY <1>1, <1>4
    <2>2. sent'[1] = [type |-> types[1], sub |-> gate']
      BY <1>1, <2>1
    <2> QED
      BY <1>1, <2>1, <2>2
  <1>5. DOMAIN sent # {} => 1 \in DOMAIN sent
    BY <1>1
  <1> QED
    BY <1>2, <1>3, <1>4, <1>5

\* Every change of status or period sends an event that writes the user's.
LEMMA StripeSends ==
  ASSUME SentInv, StripeActs
  PROVE  /\ gate.end <= gate'.end /\ gate'.status # "none"
         /\ \A i \in DOMAIN sent' : i \notin DOMAIN sent => Carries(sent'[i].type, gate'.status)
         /\ \/ gate'.status = gate.status /\ gate'.end = gate.end
            \/ \E i \in DOMAIN sent' : i \notin DOMAIN sent /\ Writes(i)'
         /\ DOMAIN sent = {} /\ gate.status = "none" => 1 \in DOMAIN sent' /\ sent'[1].type = "created"
         /\ DOMAIN sent # {} => 1 \in DOMAIN sent
  <1>0. /\ AnswerInv /\ gate \in GateType /\ now \in Nat /\ gate.end \in Nat /\ NothingSent
        /\ now + Period \in Nat /\ Period \in Nat
    BY CardAssumption DEF SentInv, HeldInv, AnswerInv, GateOK, GateType
  <1>1. \A e, f \in EventTypes :
           /\ <<e>> \in Seq(EventTypes) /\ <<e, f>> \in Seq(EventTypes)
           /\ Len(<<e>>) = 1 /\ Len(<<e, f>>) = 2
           /\ <<e>>[1] = e /\ <<e, f>>[1] = e /\ <<e, f>>[2] = f
    OBVIOUS
  <1>2. {"created", "updated", "paid", "failed", "deleted"} \subseteq EventTypes
    BY DEF EventTypes
  <1>3. ASSUME NEW e \in EventTypes, Emit(<<e>>)
        PROVE  /\ \A i \in DOMAIN sent' : i \notin DOMAIN sent => sent'[i].type = e
               /\ \E i \in DOMAIN sent' : i \notin DOMAIN sent /\ sent'[i].type = e
               /\ DOMAIN sent = {} => 1 \in DOMAIN sent' /\ sent'[1].type = e
               /\ DOMAIN sent # {} => 1 \in DOMAIN sent
    <2>1. PICK types \in Seq(EventTypes) : types = <<e>> /\ Len(types) = 1 /\ types[1] = e
      BY <1>1
    <2>2. \A k \in 1 .. Len(types) : types[k] = e
      BY <2>1
    <2>3. Emit(types) /\ 1 \in 1 .. Len(types) /\ Len(types) > 0
      BY <1>3, <2>1
    <2>4. /\ \A i \in DOMAIN sent' : i \notin DOMAIN sent =>
               \E k \in 1 .. Len(types) : sent'[i].type = types[k]
          /\ \A k \in 1 .. Len(types) :
               \E i \in DOMAIN sent' : i \notin DOMAIN sent /\ sent'[i].type = types[k]
          /\ DOMAIN sent = {} /\ Len(types) > 0 => 1 \in DOMAIN sent' /\ sent'[1].type = types[1]
          /\ DOMAIN sent # {} => 1 \in DOMAIN sent
      BY <1>0, <2>3, EmitsTypes
    <2>5. \E i \in DOMAIN sent' : i \notin DOMAIN sent /\ sent'[i].type = e
      BY <2>1, <2>3, <2>4
    <2>6. \A i \in DOMAIN sent' : i \notin DOMAIN sent => sent'[i].type = e
      BY <2>2, <2>4
    <2> QED
      BY <2>1, <2>3, <2>4, <2>5, <2>6
  <1>4. ASSUME NEW e \in EventTypes, NEW f \in EventTypes, Emit(<<e, f>>)
        PROVE  /\ \A i \in DOMAIN sent' : i \notin DOMAIN sent => sent'[i].type \in {e, f}
               /\ \E i \in DOMAIN sent' : i \notin DOMAIN sent /\ sent'[i].type = e
               /\ \E i \in DOMAIN sent' : i \notin DOMAIN sent /\ sent'[i].type = f
               /\ DOMAIN sent # {} => 1 \in DOMAIN sent
    <2>1. PICK types \in Seq(EventTypes) :
             types = <<e, f>> /\ Len(types) = 2 /\ types[1] = e /\ types[2] = f
      <3>1. /\ <<e, f>> \in Seq(EventTypes) /\ Len(<<e, f>>) = 2
            /\ <<e, f>>[1] = e /\ <<e, f>>[2] = f
        OBVIOUS
      <3> QED
        BY <3>1
    <2>2. 1 \in 1 .. Len(types) /\ 2 \in 1 .. Len(types) /\ \A k \in 1 .. Len(types) : k = 1 \/ k = 2
      BY <2>1
    <2>3. Emit(types)
      BY <1>4, <2>1
    <2>4. /\ \A i \in DOMAIN sent' : i \notin DOMAIN sent =>
               \E k \in 1 .. Len(types) : sent'[i].type = types[k]
          /\ \A k \in 1 .. Len(types) :
               \E i \in DOMAIN sent' : i \notin DOMAIN sent /\ sent'[i].type = types[k]
          /\ DOMAIN sent # {} => 1 \in DOMAIN sent
      BY <1>0, <2>3, EmitsTypes
    <2>5. ASSUME NEW i \in DOMAIN sent', i \notin DOMAIN sent PROVE sent'[i].type \in {e, f}
      BY <2>1, <2>2, <2>4, <2>5
    <2>6. /\ \E i \in DOMAIN sent' : i \notin DOMAIN sent /\ sent'[i].type = e
          /\ \E i \in DOMAIN sent' : i \notin DOMAIN sent /\ sent'[i].type = f
      BY <2>1, <2>2, <2>4
    <2> QED
      BY <2>4, <2>5, <2>6
  <1>5. CASE Subscribe
    <2>1. Emit(<<"created">>) /\ gate.status = "none" /\ gate'.status = "incomplete" /\ gate.end <= gate'.end
      BY <1>0, <1>5 DEF Subscribe, NothingSent
    <2> QED
      BY <1>2, <1>3, <2>1 DEF Carries, Writes, IsPayment
  <1>6. CASE InvoicePaid
    <2>1. /\ Emit(<<"paid", "updated">>) \/ Emit(<<"updated", "paid">>)
          /\ gate.status # "none" /\ gate'.status = "active"
      BY <1>0, <1>6 DEF InvoicePaid, Collecting, RenewalIsDue, GateType
    <2>2. gate.end <= gate'.end
      BY <1>0, <1>6 DEF InvoicePaid, Charged, RenewalIsDue, GateType
    <2>3. CASE Emit(<<"paid", "updated">>)
      BY <1>2, <1>4, <2>1, <2>2, <2>3 DEF Carries, Writes, IsPayment
    <2>4. CASE Emit(<<"updated", "paid">>)
      BY <1>2, <1>4, <2>1, <2>2, <2>4 DEF Carries, Writes, IsPayment
    <2> QED
      BY <2>1, <2>3, <2>4
  <1>7. CASE InvoiceFails
    <2>1. gate.end <= gate'.end
      BY <1>0, <1>7 DEF InvoiceFails, Charged, RenewalIsDue, GateType
    <2>2. CASE RenewalIsDue
      <3>1. Emit(<<"failed", "updated">>) /\ gate.status # "none" /\ gate'.status = "past_due"
        BY <1>0, <1>7, <2>2 DEF InvoiceFails, RenewalIsDue, GateType
      <3> QED
        BY <1>2, <1>4, <2>1, <3>1 DEF Carries, Writes, IsStop
    <2>3. CASE ~RenewalIsDue
      <3>1. Emit(<<"failed">>) /\ gate.status # "none" /\ gate'.status \in {"incomplete", "past_due"}
        BY <1>0, <1>7, <2>3 DEF InvoiceFails, Collecting, GateType
      <3> QED
        BY <1>2, <1>3, <2>1, <3>1 DEF Carries, Writes, IsStop
    <2> QED
      BY <2>2, <2>3
  <1>8. CASE SubscriptionEnds
    <2>1. /\ Emit(<<"deleted">>) /\ gate.status # "none" /\ gate'.status = "canceled"
          /\ gate.end <= gate'.end
      BY <1>0, <1>8 DEF SubscriptionEnds, GateType
    <2> QED
      BY <1>2, <1>3, <2>1 DEF Carries, Writes, IsStop
  <1>11. CASE CancelNow
    <2>1. /\ Emit(<<"deleted">>) /\ gate.status # "none" /\ gate'.status = "canceled"
          /\ gate.end <= gate'.end
      BY <1>0, <1>11 DEF CancelNow, GateType
    <2> QED
      BY <1>2, <1>3, <2>1 DEF Carries, Writes, IsStop
  <1>9. ASSUME NEW wish \in {"cancel", "reactivate"}, AskStripe(wish)
        PROVE  /\ Emit(<<"updated">>) /\ gate.status \in {"active", "past_due"}
               /\ gate'.status = gate.status /\ gate'.end = gate.end
    BY <1>0, <1>9 DEF AskStripe, GateType
  <1>10. CASE \E wish \in {"cancel", "reactivate"} : AskStripe(wish)
    <2>1. /\ Emit(<<"updated">>) /\ gate.status \in {"active", "past_due"}
          /\ gate'.status = gate.status /\ gate'.end = gate.end
      BY <1>9, <1>10
    <2> QED
      BY <1>0, <1>2, <1>3, <2>1 DEF Carries
  <1> QED
    BY <1>5, <1>6, <1>7, <1>8, <1>10, <1>11 DEF StripeActs

\* A change of status or period sends an event that decides.
LEMMA StripeDecides ==
  ASSUME SentInv, StripeActs
  PROVE  \/ gate'.status = gate.status /\ gate'.end = gate.end
         \/ \E j \in DOMAIN sent' : j \notin DOMAIN sent /\ Decides(j)'
  <1>0. AnswerInv /\ DOMAIN sent' \subseteq Nat
    <2>1. AnswerInv /\ AnswerInv'
      BY StepInv DEF StripeActs, SentInv, HeldInv, Next
    <2> QED
      BY <2>1 DEF AnswerInv, GateOK
  <1>1. \A j \in DOMAIN sent' : j \notin DOMAIN sent =>
           sent'[j].sub = gate' /\ \A k \in DOMAIN sent : k < j
    BY <1>0, SentGrows
  <1>2. ASSUME NEW j \in DOMAIN sent', j \notin DOMAIN sent, Writes(j)' PROVE Decides(j)'
    <2>1. \A k \in DOMAIN sent' : j <= k => k \notin DOMAIN sent
      BY <1>0, <1>1, <1>2
    <2>2. \A k \in DOMAIN sent' : k \notin DOMAIN sent => Agrees(k)'
      BY <1>1 DEF Agrees
    <2> QED
      BY <1>2, <2>1, <2>2 DEF Decides
  <1> QED
    BY <1>2, StripeSends

LEMMA InitSent == Init => SentInv
  <1> SUFFICES ASSUME Init PROVE SentInv
    OBVIOUS
  <1>1. DOMAIN sent = {}
    BY DEF Init
  <1>2. NothingSent
    BY <1>1 DEF Init, NothingSent
  <1> QED
    BY <1>1, <1>2, InitHeld DEF SentInv, SentOK, Decided

\* An event that decides goes on deciding until one follows that does.
LEMMA DecidesOn ==
  ASSUME SentInv, StripeActs, NEW i \in DOMAIN sent, Decides(i)
  PROVE  \E j \in DOMAIN sent' : i <= j /\ (j \in DOMAIN sent => j = i) /\ Decides(j)'
  <1>0. AnswerInv /\ i \in Nat /\ DOMAIN sent' \subseteq Nat
    <2>1. AnswerInv /\ AnswerInv'
      BY StepInv DEF StripeActs, SentInv, HeldInv, Next
    <2> QED
      BY <2>1 DEF AnswerInv, GateOK
  <1>1. /\ \A j \in DOMAIN sent : j \in DOMAIN sent' /\ sent'[j] = sent[j]
        /\ \A j \in DOMAIN sent' : j \notin DOMAIN sent =>
              sent'[j].sub = gate' /\ \A k \in DOMAIN sent : k < j
    BY <1>0, SentGrows
  <1>2. \A j \in DOMAIN sent' : j \notin DOMAIN sent => Agrees(j)'
    BY <1>1 DEF Agrees
  <1>3. CASE gate'.status = gate.status /\ gate'.end = gate.end
    <2>1. \A j \in DOMAIN sent : Agrees(j) => Agrees(j)'
      BY <1>1, <1>3 DEF Agrees
    <2>2. Writes(i)'
      BY <1>1 DEF Decides, Writes, IsPayment, IsStop
    <2>3. Decides(i)'
      BY <1>2, <2>1, <2>2 DEF Decides
    <2> QED
      BY <1>0, <1>1, <2>3
  <1>4. ASSUME NEW j \in DOMAIN sent', j \notin DOMAIN sent, Decides(j)' PROVE i <= j
    BY <1>0, <1>1, <1>4
  <1> QED
    BY <1>3, <1>4, StripeDecides

LEMMA SentStripe ==
  ASSUME SentInv, StripeActs, HeldInv'
  PROVE  SentInv'
  <1>0. AnswerInv /\ gate \in GateType /\ sent \in Seq(Event) /\ gate' \in GateType /\ DOMAIN sent' \subseteq Nat
    BY DEF SentInv, HeldInv, AnswerInv, GateOK
  <1>1. /\ \A i \in DOMAIN sent : i \in DOMAIN sent' /\ sent'[i] = sent[i]
        /\ \A i \in DOMAIN sent' : i \notin DOMAIN sent =>
              sent'[i].sub = gate' /\ \A j \in DOMAIN sent : j < i
    BY <1>0, SentGrows
  <1>2. /\ gate.end <= gate'.end /\ gate'.status # "none"
        /\ \A i \in DOMAIN sent' : i \notin DOMAIN sent => Carries(sent'[i].type, gate'.status)
    BY StripeSends
  <1>3. NothingSent'
    BY <1>2 DEF NothingSent
  <1>4. SentOK'
    <2>1. ASSUME NEW i \in DOMAIN sent
          PROVE  sent'[i].sub.end <= gate'.end /\ Carries(sent'[i].type, sent'[i].sub.status)
      <3>1. sent[i].sub.end <= gate.end /\ Carries(sent[i].type, sent[i].sub.status)
        BY DEF SentInv, SentOK
      <3>2. sent[i] \in Event
        BY <1>0
      <3>3. sent[i].sub.end \in Nat /\ gate.end \in Nat /\ gate'.end \in Nat
        BY <1>0, <3>2 DEF Event, GateType
      <3> QED
        BY <1>1, <1>2, <3>1, <3>3
    <2>2. ASSUME NEW i \in DOMAIN sent', i \notin DOMAIN sent
          PROVE  sent'[i].sub.end <= gate'.end /\ Carries(sent'[i].type, sent'[i].sub.status)
      BY <1>0, <1>1, <1>2, <2>2 DEF GateType
    <2> QED
      BY <2>1, <2>2 DEF SentOK
  <1>5. \A i \in DOMAIN sent' : i \notin DOMAIN sent => Agrees(i)'
    BY <1>1 DEF Agrees
  <1>6. CASE gate'.status = gate.status /\ gate'.end = gate.end
    <2>1. \A j \in DOMAIN sent : Agrees(j) => Agrees(j)'
      BY <1>1, <1>6 DEF Agrees
    <2>2. ASSUME NEW i \in DOMAIN sent, ~Agrees(i) PROVE \E j \in DOMAIN sent' : i < j /\ Decides(j)'
      <3>1. PICK j \in DOMAIN sent : i < j /\ Decides(j)
        BY <2>2 DEF SentInv, Decided
      <3>2. PICK k \in DOMAIN sent' : j <= k /\ Decides(k)'
        BY <3>1, DecidesOn
      <3> QED
        BY <1>0, <1>1, <3>1, <3>2
    <2> QED
      BY <1>3, <1>4, <1>5, <2>1, <2>2 DEF SentInv, Decided
  <1>7. ASSUME NEW j \in DOMAIN sent', j \notin DOMAIN sent, Decides(j)' PROVE SentInv'
    <2>1. \A i \in DOMAIN sent : i < j
      BY <1>1, <1>7
    <2> QED
      BY <1>3, <1>4, <1>5, <1>7, <2>1 DEF SentInv, Decided
  <1> QED
    BY <1>6, <1>7, StripeDecides

\* Only Stripe sends.
LEMMA StepSent == SentInv /\ [Next]_vars => SentInv'
  <1> SUFFICES ASSUME SentInv, [Next]_vars PROVE SentInv'
    OBVIOUS
  <1>0. HeldInv'
    BY StepHeld DEF SentInv
  <1>1. CASE StripeActs
    BY <1>0, <1>1, SentStripe
  <1>2. CASE UNCHANGED <<gate, sent>>
    BY <1>0, <1>2 DEF SentInv, SentOK, Decided, Decides, Agrees, Writes, IsPayment, IsStop, NothingSent
  <1>3. CASE HandlerStep
    BY <1>2, <1>3, HandlerMoves DEF SentInv, HeldInv
  <1> QED
    BY <1>1, <1>2, <1>3 DEF Next, StripeActs, NextDay, ReadSteps, ReadStatus, WriteProgress,
       SubmitForm, FormFails, ProcessDies, Deliver, HandlingFails, StoreWish, RequestFails, CryptoPaid,
       LifecycleCron, ServiceWorks, stripe, vars

-----------------------------------------------------------------------------
(* What a handler holds of the row *)

\* The event being handled stops the service.
StopEvent == IsStop(webhook.event)

\* A subscription without a row has sent the event that creates it first.
RowComes ==
    card.status = "none" =>
        /\ DOMAIN sent = {} => gate.status = "none"
        /\ DOMAIN sent # {} => sent[1].type = "created"
        /\ \A i \in answered : sent[i].type # "created"
        /\ crypto.status = "none" => service.state = "none"

\* In order, the events before the one being handled are answered.
EarlierAnswered ==
    ordered /\ webhook.pc # "idle" => \A j \in DOMAIN sent : j < webhook.event => j \in answered

\* The period a handler writes is the event's or a later one.
PeriodHolds ==
    webhook.pc # "idle" =>
        /\ Snapshot.end <= webhook.end /\ webhook.end <= gate.end
        /\ Kind # "paid" => webhook.end = Snapshot.end

\* The way a handler takes, and the row it has written on it.
PathHolds ==
    /\ webhook.pc = "write" /\ Kind = "updated" => Snapshot.status = "active"
    /\ webhook.pc \in {"user", "complete", "resume", "commission"} =>
           card.status = "ACTIVE" /\ card.end = webhook.end
    /\ webhook.pc \in {"fail", "suspend", "cancel", "deactivate", "stop"} => StopEvent
    /\ webhook.pc \in {"cancel", "deactivate"} => Kind = "deleted"
    /\ webhook.pc \in {"fail", "suspend"} => Kind # "deleted"
    /\ webhook.pc = "flag" => Kind = "updated"
    /\ webhook.pc = "suspend" => card.status = "PAST_DUE"
    /\ webhook.pc = "deactivate" => card.status = "CANCELED"
    /\ webhook.pc \in {"stop", "flag"} /\ StopEvent =>
           card.status = (IF Kind = "deleted" THEN "CANCELED" ELSE "PAST_DUE")
    /\ webhook.pc \notin {"idle", "retrieve", "find", "write"} => card.status # "none"

RowInv ==
    /\ SentInv /\ RowComes /\ EarlierAnswered /\ LaterUnanswered /\ PeriodHolds /\ PathHolds

LEMMA InitRow == Init => RowInv
  <1> SUFFICES ASSUME Init PROVE RowInv
    OBVIOUS
  <1>1. webhook.pc = "idle" /\ DOMAIN sent = {} /\ answered = {}
    BY DEF Init, IdleWebhook
  <1>2. RowComes
    BY <1>1 DEF Init, RowComes, NoRow
  <1>3. EarlierAnswered /\ LaterUnanswered /\ PeriodHolds /\ PathHolds
    BY <1>1 DEF EarlierAnswered, LaterUnanswered, PeriodHolds, PathHolds
  <1> QED
    BY <1>2, <1>3, InitSent DEF RowInv

\* The handler stays at its event, or ends.
LEMMA InOrderHandler ==
  ASSUME RowInv, HandlerStep
  PROVE  EarlierAnswered' /\ LaterUnanswered'
  <1>1. /\ webhook.pc # "idle" /\ sent' = sent /\ ordered' = ordered
        /\ \/ answered' = answered /\ webhook'.event = webhook.event
           \/ webhook'.pc = "idle"
    BY HandlerMoves DEF RowInv, SentInv, HeldInv
  <1> QED
    BY <1>1 DEF RowInv, EarlierAnswered, LaterUnanswered

\* Its event is the one it was.
LEMMA SameEvent ==
  ASSUME webhook'.event = webhook.event, sent'[webhook.event] = sent[webhook.event]
  PROVE  Kind' = Kind /\ Snapshot' = Snapshot /\ (StopEvent' <=> StopEvent)
  BY DEF Kind, Snapshot, StopEvent, IsStop

\* A payment reads the period at Stripe, which only moves on.
LEMMA PeriodHandler ==
  ASSUME RowInv, HandlerStep
  PROVE  PeriodHolds'
  <1>0. AnswerInv /\ HandlerInv /\ PeriodHolds /\ gate \in GateType /\ sent \in Seq(Event)
    BY DEF RowInv, SentInv, HeldInv, AnswerInv, GateOK
  <1>1. /\ webhook.pc # "idle" /\ sent' = sent /\ gate' = gate
        /\ webhook \in [pc : WebhookPCs, event : Nat, end : Nat]
        /\ webhook.event \in DOMAIN sent
    BY <1>0, HandlerMoves DEF AnswerInv
  <1>2. CASE webhook'.event = webhook.event /\ webhook'.end = webhook.end
    BY <1>0, <1>1, <1>2, SameEvent DEF PeriodHolds
  <1>3. CASE webhook'.pc = "idle"
    BY <1>3 DEF PeriodHolds
  <1>4. CASE Retrieve
    <2>1. webhook'.event = webhook.event /\ webhook'.end = gate.end /\ Kind = "paid"
      BY <1>0, <1>1, <1>4 DEF Retrieve, HandlerInv
    <2>2. Snapshot.end <= gate.end /\ gate.end <= gate.end
      BY <1>0, <1>1 DEF RowInv, SentInv, SentOK, Snapshot, GateType
    <2> QED
      BY <1>1, <2>1, <2>2, SameEvent DEF PeriodHolds
  <1>5. ASSUME NEW pc, Goto(pc) PROVE webhook'.event = webhook.event /\ webhook'.end = webhook.end
    BY <1>1, <1>5 DEF Goto
  <1>6. Answer \/ Refuse => webhook'.pc = "idle"
    BY DEF Answer, Refuse, IdleWebhook
  <1> QED
    BY <1>2, <1>3, <1>4, <1>5, <1>6 DEF HandlerStep, Find, WriteRow, ActivateUser, CompletePayment,
       Resume, PayCommission, FailRow, SuspendUser, StopService, WriteFlag, CancelRow, DeactivateUser

\* Where the handler goes next, and what it has written by then.
LEMMA PathHandler ==
  ASSUME RowInv, HandlerStep
  PROVE  PathHolds'
  <1>0. AnswerInv /\ HandlerInv /\ PathHolds /\ card \in RowType /\ sent \in Seq(Event)
    BY DEF RowInv, SentInv, HeldInv, HeldOK, AnswerInv, GateOK
  <1>1. /\ webhook.pc # "idle" /\ sent' = sent
        /\ webhook \in [pc : WebhookPCs, event : Nat, end : Nat]
        /\ webhook.event \in DOMAIN sent
    BY <1>0, HandlerMoves DEF AnswerInv
  <1>2. webhook'.event = webhook.event =>
           Kind' = Kind /\ Snapshot' = Snapshot /\ (StopEvent' <=> StopEvent)
    BY <1>1, SameEvent
  <1>3. webhook'.pc \in {"idle", "retrieve", "find"} => PathHolds'
    BY DEF PathHolds
  <1>4. Answer \/ Refuse => PathHolds'
    BY <1>3 DEF Answer, Refuse, IdleWebhook
  <1>5. ASSUME NEW pc, Goto(pc)
        PROVE  webhook'.event = webhook.event /\ webhook'.end = webhook.end /\ webhook'.pc = pc
    BY <1>1, <1>5 DEF Goto
  <1>6. CASE Retrieve
    BY <1>1, <1>3, <1>6 DEF Retrieve
  <1>7. CASE Find
    <2>1. card' = card
      BY <1>7 DEF Find, rows
    <2>2. CASE AfterFind = "none"
      BY <1>4, <1>7, <2>2 DEF Find
    <2>3. CASE AfterFind # "none"
      <3>1. Goto(AfterFind)
        BY <1>7, <2>3 DEF Find
      <3>2. /\ AfterFind \in {"write", "fail", "cancel", "flag"}
            /\ AfterFind = "write" /\ Kind = "updated" => Snapshot.status = "active"
            /\ AfterFind \in {"fail", "cancel"} => StopEvent
            /\ AfterFind = "cancel" => Kind = "deleted"
            /\ AfterFind = "fail" => Kind # "deleted"
            /\ AfterFind # "write" => card.status # "none"
        BY <2>3 DEF AfterFind, StopEvent, IsStop, Kind, Snapshot
      <3>3. AfterFind = "flag" => Kind = "updated" /\ ~StopEvent
        <4>1. Kind \in EventTypes
          <5>1. sent[webhook.event] \in Event
            BY <1>0, <1>1
          <5> QED
            BY <5>1 DEF Kind, Event
        <4> QED
          BY <2>3, <4>1 DEF AfterFind, StopEvent, IsStop, Kind, Snapshot, EventTypes
      <3>4. webhook'.event = webhook.event /\ webhook'.pc = AfterFind
        BY <1>5, <3>1
      <3> HIDE DEF AfterFind
      <3> QED
        BY <1>2, <2>1, <3>2, <3>3, <3>4 DEF PathHolds
    <2> QED
      BY <2>2, <2>3
  <1>8. CASE WriteRow
    <2>1. card'.status = "ACTIVE" /\ card'.end = webhook.end
      BY <1>0, <1>1, <1>8 DEF WriteRow, RowType
    <2>2. CASE Kind = "updated"
      <3>1. Goto("flag") /\ Snapshot.status = "active"
        BY <1>0, <1>8, <2>2 DEF WriteRow, PathHolds
      <3>2. ~StopEvent
        BY <2>2, <3>1 DEF StopEvent, IsStop, Kind, Snapshot
      <3> QED
        BY <1>2, <1>5, <2>1, <2>2, <3>1, <3>2 DEF PathHolds
    <2>3. CASE Kind # "updated"
      <3>1. Goto("user")
        BY <1>8, <2>3 DEF WriteRow
      <3> QED
        BY <1>2, <1>5, <2>1, <3>1 DEF PathHolds
    <2> QED
      BY <2>2, <2>3
  <1>9. CASE ActivateUser \/ CompletePayment
    <2>1. card' = card /\ webhook.pc \in {"user", "complete"} /\ (Goto("complete") \/ Goto("resume"))
      BY <1>9 DEF ActivateUser, CompletePayment, rows
    <2> QED
      BY <1>0, <1>2, <1>5, <2>1 DEF PathHolds
  <1>10. CASE Resume
    <2>1. card' = card /\ webhook.pc = "resume" /\ (Goto("commission") \/ Answer)
      BY <1>10 DEF Resume
    <2> QED
      BY <1>0, <1>2, <1>4, <1>5, <2>1 DEF PathHolds
  <1>11. CASE PayCommission \/ WriteFlag
    BY <1>4, <1>11 DEF PayCommission, WriteFlag
  <1>12. CASE FailRow
    <2>1. card'.status = "PAST_DUE" /\ Goto("suspend") /\ webhook.pc = "fail"
      BY <1>0, <1>12 DEF FailRow, RowType
    <2> QED
      BY <1>0, <1>2, <1>5, <2>1 DEF PathHolds
  <1>13. CASE SuspendUser \/ DeactivateUser
    <2>1. card' = card /\ Goto("stop") /\ webhook.pc \in {"suspend", "deactivate"}
      BY <1>13 DEF SuspendUser, DeactivateUser, rows
    <2> QED
      BY <1>0, <1>2, <1>5, <2>1 DEF PathHolds
  <1>14. CASE StopService
    <2>1. card' = card /\ webhook.pc = "stop" /\ ((Kind = "updated" /\ Goto("flag")) \/ Answer)
      BY <1>14 DEF StopService
    <2> QED
      BY <1>0, <1>2, <1>4, <1>5, <2>1 DEF PathHolds
  <1>15. CASE CancelRow
    <2>1. card'.status = "CANCELED" /\ Goto("deactivate") /\ webhook.pc = "cancel"
      BY <1>0, <1>15 DEF CancelRow, RowType
    <2> QED
      BY <1>0, <1>2, <1>5, <2>1 DEF PathHolds
  <1> QED
    BY <1>6, <1>7, <1>8, <1>9, <1>10, <1>11, <1>12, <1>13, <1>14, <1>15 DEF HandlerStep

\* The row is written before the event that creates it is answered.
LEMMA RowComesHandler ==
  ASSUME RowInv, HandlerStep
  PROVE  RowComes'
  <1>0. AnswerInv /\ HandlerInv /\ PathHolds /\ card \in RowType /\ RowComes
    BY DEF RowInv, SentInv, HeldInv, HeldOK, AnswerInv
  <1>1. /\ webhook.pc # "idle" /\ sent' = sent /\ gate' = gate /\ crypto' = crypto
        /\ webhook \in [pc : WebhookPCs, event : Nat, end : Nat]
    BY <1>0, HandlerMoves DEF AnswerInv
  <1>2. CASE Retrieve
    BY <1>0, <1>1, <1>2 DEF Retrieve, RowComes, rows
  <1>3. CASE Find
    <2>1. UNCHANGED <<card, service>>
      BY <1>3 DEF Find, rows
    <2>2. answered' = answered \/ (answered' = answered \cup {webhook.event} /\ Kind # "created")
      BY <1>3 DEF Find, AfterFind, Goto, Answer, Refuse
    <2> QED
      BY <1>0, <1>1, <2>1, <2>2 DEF RowComes, Kind
  <1>4. CASE WriteRow
    <2>1. card'.status # "none"
      BY <1>0, <1>4 DEF WriteRow, RowType
    <2> QED
      BY <2>1 DEF RowComes
  <1>5. CASE ~(Retrieve \/ Find \/ WriteRow)
    <2>1. webhook.pc \notin {"idle", "retrieve", "find", "write"}
      BY <1>5 DEF HandlerStep, ActivateUser, CompletePayment, Resume, PayCommission, FailRow, SuspendUser,
         StopService, WriteFlag, CancelRow, DeactivateUser
    <2>2. card.status # "none"
      BY <1>0, <2>1 DEF PathHolds
    <2>3. card'.status # "none"
      <3>1. CASE FailRow \/ WriteFlag \/ CancelRow
        BY <1>0, <2>2, <3>1 DEF FailRow, WriteFlag, CancelRow, RowType
      <3>2. CASE card' = card
        BY <2>2, <3>2
      <3> QED
        BY <1>5, <3>1, <3>2 DEF HandlerStep, ActivateUser, CompletePayment, Resume, PayCommission, SuspendUser,
           StopService, DeactivateUser, rows
    <2> QED
      BY <2>3 DEF RowComes
  <1> QED
    BY <1>2, <1>3, <1>4, <1>5

\* Stripe's steps come around the handler's lookup.
LEMMA RowStripe ==
  ASSUME RowInv, StripeActs, SentInv'
  PROVE  RowInv'
  <1>0. /\ SentInv /\ AnswerInv /\ HandlerInv /\ answered \subseteq DOMAIN sent
        /\ gate \in GateType /\ gate' \in GateType
        /\ webhook \in [pc : WebhookPCs, event : Nat, end : Nat]
    BY DEF RowInv, SentInv, HeldInv, AnswerInv, GateOK
  <1>1. /\ \A i \in DOMAIN sent : i \in DOMAIN sent' /\ sent'[i] = sent[i]
        /\ \A i \in DOMAIN sent' : i \notin DOMAIN sent =>
              sent'[i].sub = gate' /\ \A j \in DOMAIN sent : j < i
        /\ UNCHANGED <<answered, crypto, card, service, webhook, ordered>>
    BY <1>0, SentGrows
  <1>2. /\ gate.end <= gate'.end
        /\ DOMAIN sent = {} /\ gate.status = "none" => 1 \in DOMAIN sent' /\ sent'[1].type = "created"
        /\ DOMAIN sent # {} => 1 \in DOMAIN sent
    BY <1>0, StripeSends
  <1>3. webhook.pc \in {"idle", "retrieve", "find"}
    BY DEF StripeActs, Subscribe, InvoicePaid, InvoiceFails, SubscriptionEnds, AskStripe, CancelNow,
       Emit, StripeMoves
  <1>4. webhook.pc # "idle" => webhook.event \in DOMAIN sent
    BY <1>0 DEF HandlerInv
  <1>5. RowComes'
    <2> SUFFICES ASSUME card'.status = "none"
                 PROVE  /\ DOMAIN sent' # {} /\ sent'[1].type = "created"
                        /\ \A i \in answered' : sent'[i].type # "created"
                        /\ crypto'.status = "none" => service'.state = "none"
      BY DEF RowComes
    <2>1. /\ DOMAIN sent = {} => gate.status = "none"
          /\ DOMAIN sent # {} => sent[1].type = "created"
          /\ \A i \in answered : sent[i].type # "created"
          /\ crypto.status = "none" => service.state = "none"
      BY <1>1 DEF RowInv, RowComes
    <2> QED
      BY <1>0, <1>1, <1>2, <2>1
  <1>6. EarlierAnswered'
    <2> SUFFICES ASSUME ordered', webhook'.pc # "idle", NEW j \in DOMAIN sent', j < webhook'.event
                 PROVE  j \in answered'
      BY DEF EarlierAnswered
    <2>1. webhook.event \in DOMAIN sent /\ ordered
      BY <1>1, <1>4
    <2>2. DOMAIN sent' \subseteq Nat
      BY DEF SentInv, HeldInv, AnswerInv, GateOK
    <2>3. j \in DOMAIN sent
      BY <1>0, <1>1, <2>1, <2>2
    <2> QED
      BY <1>1, <1>4, <2>1, <2>3 DEF RowInv, EarlierAnswered
  <1>7. LaterUnanswered'
    BY <1>0, <1>1, <1>4 DEF RowInv, LaterUnanswered
  <1>8. PeriodHolds'
    <2> SUFFICES ASSUME webhook.pc # "idle" PROVE PeriodHolds'
      BY <1>1 DEF PeriodHolds
    <2>1. Kind' = Kind /\ Snapshot' = Snapshot
      BY <1>1, <1>4, SameEvent
    <2>2. Snapshot.end <= webhook.end /\ webhook.end <= gate.end /\ (Kind # "paid" => webhook.end = Snapshot.end)
      BY DEF RowInv, PeriodHolds
    <2>3. webhook.end <= gate'.end
      BY <1>0, <1>2, <2>2 DEF GateType
    <2> QED
      BY <1>1, <2>1, <2>2, <2>3 DEF PeriodHolds
  <1>9. PathHolds'
    BY <1>1, <1>3 DEF PathHolds
  <1> QED
    BY <1>5, <1>6, <1>7, <1>8, <1>9 DEF RowInv

\* Nothing of the events changes, nor which are answered, nor the handler
\* unless it ends.
LEMMA RowFrame ==
  ASSUME RowInv, SentInv', UNCHANGED <<gate, sent, answered>>, ordered' => ordered,
         webhook' = webhook \/ webhook'.pc = "idle",
         card'.status = "none" <=> card.status = "none",
         card'.status = "none" =>
             (crypto'.status = "none" => crypto.status = "none" /\ service'.state = service.state),
         webhook.pc = "idle" \/ (card'.status = card.status /\ card'.end = card.end)
  PROVE  RowInv'
  <1>1. RowComes'
    BY DEF RowInv, RowComes
  <1>2. EarlierAnswered' /\ LaterUnanswered'
    BY DEF RowInv, EarlierAnswered, LaterUnanswered
  <1>3. CASE webhook'.pc = "idle"
    <2>1. PeriodHolds' /\ PathHolds'
      BY <1>3 DEF PeriodHolds, PathHolds
    <2> QED
      BY <1>1, <1>2, <2>1 DEF RowInv
  <1>4. CASE webhook' = webhook /\ webhook.pc # "idle"
    <2>1. Kind' = Kind /\ Snapshot' = Snapshot /\ (StopEvent' <=> StopEvent)
      BY <1>4, SameEvent
    <2>2. PeriodHolds'
      BY <1>4, <2>1 DEF RowInv, PeriodHolds
    <2>3. PathHolds'
      BY <1>4, <2>1 DEF RowInv, PathHolds
    <2> QED
      BY <1>1, <1>2, <2>2, <2>3 DEF RowInv
  <1> QED
    BY <1>3, <1>4

LEMMA StepRow == RowInv /\ [Next]_vars => RowInv'
  <1> SUFFICES ASSUME RowInv, [Next]_vars PROVE RowInv'
    OBVIOUS
  <1>0. SentInv' /\ SentInv /\ HeldOK /\ card \in RowType /\ AnswerInv /\ sent \in Seq(Event) /\ answered \subseteq DOMAIN sent
    BY StepSent DEF RowInv, SentInv, HeldInv, HeldOK, AnswerInv, GateOK
  <1>1. CASE StripeActs
    BY <1>0, <1>1, RowStripe
  <1>2. CASE \/ NextDay \/ RequestFails \/ UNCHANGED vars \/ HandlingFails \/ FormFails \/ ProcessDies
             \/ \E step \in Forms : SubmitForm(step)
             \/ \E c \in Callers : ReadSteps(c) \/ ReadStatus(c)
    <2>1. /\ UNCHANGED <<gate, sent, answered, card, crypto, service, ordered>>
          /\ webhook' = webhook \/ webhook'.pc = "idle"
      <3>1. CASE NextDay \/ RequestFails \/ UNCHANGED vars
        BY <3>1 DEF NextDay, RequestFails, vars, stripe, rows
      <3>2. CASE HandlingFails \/ FormFails \/ ProcessDies
        BY <3>2 DEF HandlingFails, FormFails, ProcessDies, stripe, rows, IdleWebhook
      <3>3. CASE \/ \E step \in Forms : SubmitForm(step)
                 \/ \E c \in Callers : ReadSteps(c) \/ ReadStatus(c)
        BY <3>3 DEF SubmitForm, ReadSteps, ReadStatus, stripe, rows
      <3> QED
        BY <1>2, <3>1, <3>2, <3>3
    <2> QED
      BY <1>0, <2>1, RowFrame
  <1>3. ASSUME NEW c \in Callers, WriteProgress(c) PROVE RowInv'
    <2>1. /\ UNCHANGED <<gate, sent, answered, card, crypto, ordered, webhook>>
          /\ service' = service \/ service' = [service EXCEPT !.state = Triggered(steps)]
      BY <1>3 DEF WriteProgress, stripe
    <2>2. card'.status = "none" /\ crypto'.status = "none" => service'.state = service.state
      <3> SUFFICES ASSUME card.status = "none", crypto.status = "none" PROVE service'.state = service.state
        BY <2>1
      <3>1. Triggered(steps) = service.state
        BY DEF Triggered, Live
      <3>2. service \in ServiceType
        BY <1>0 DEF HeldOK
      <3> QED
        BY <2>1, <3>1, <3>2 DEF ServiceType
    <2> QED
      BY <1>0, <2>1, <2>2, RowFrame
  <1>4. ASSUME NEW i \in DOMAIN sent, Deliver(i) PROVE RowInv'
    <2>1. /\ UNCHANGED <<gate, sent, card, crypto, service>> /\ answered' = answered \ {i}
          /\ webhook'.event = i /\ webhook'.pc \in {"retrieve", "find"} /\ webhook'.end = sent[i].sub.end
          /\ ordered' => ordered /\ InOrder(i)
      BY <1>4 DEF Deliver, stripe, rows
    <2>2. RowComes' /\ PathHolds'
      BY <2>1 DEF RowInv, RowComes, PathHolds
    <2>3. EarlierAnswered' /\ LaterUnanswered'
      <3>1. i \in Nat /\ DOMAIN sent \subseteq Nat
        BY <1>0
      <3> QED
        BY <2>1, <3>1 DEF EarlierAnswered, LaterUnanswered, InOrder
    <2>4. PeriodHolds'
      <3>1. sent[i] \in Event
        BY <1>0
      <3>2. sent[i].sub.end \in Nat /\ sent[i].sub.end <= gate.end
        BY <1>0, <3>1 DEF SentInv, SentOK, Event, GateType
      <3>3. Snapshot'.end = sent[i].sub.end /\ webhook'.end = sent[i].sub.end
        BY <2>1 DEF Snapshot
      <3>4. Snapshot'.end <= webhook'.end /\ webhook'.end <= gate'.end /\ webhook'.end = Snapshot'.end
        BY <2>1, <3>2, <3>3
      <3> QED
        BY <3>4 DEF PeriodHolds
    <2> QED
      BY <1>0, <2>2, <2>3, <2>4 DEF RowInv
  <1>5. CASE HandlerStep
    BY <1>0, <1>5, InOrderHandler, PeriodHandler, PathHandler, RowComesHandler DEF RowInv
  <1>6. CASE StoreWish
    <2>1. /\ card'.status = card.status /\ card'.end = card.end
          /\ UNCHANGED <<gate, sent, answered, webhook, ordered, crypto, service>>
      BY <1>0, <1>6 DEF StoreWish, RowType, stripe
    <2> QED
      BY <1>0, <2>1, RowFrame
  <1>7. CASE CryptoPaid
    <2>1. UNCHANGED <<gate, sent, answered, card, webhook, ordered>> /\ crypto'.status = "ACTIVE"
      BY <1>7 DEF CryptoPaid, stripe
    <2> QED
      BY <1>0, <2>1, RowFrame
  <1>8. CASE LifecycleCron
    <2>1. UNCHANGED <<gate, sent, answered, webhook, ordered>> /\ webhook.pc = "idle"
      BY <1>8 DEF LifecycleCron, stripe
    <2>2. /\ card'.status = "none" <=> card.status = "none"
          /\ crypto'.status = "none" => crypto.status = "none"
      <3>1. crypto \in RowType
        BY <1>0 DEF HeldOK
      <3> QED
        BY <1>0, <1>8, <3>1 DEF LifecycleCron, AfterCron, RowType, Lapsed, GraceOver
    <2>3. card.status = "none" /\ crypto.status = "none" => FALSE
      BY <1>8 DEF LifecycleCron, Lapsed, GraceOver
    <2> QED
      BY <1>0, <2>1, <2>2, <2>3, RowFrame
  <1>9. CASE ServiceWorks
    <2>1. /\ UNCHANGED <<gate, sent, answered, webhook, ordered, card, crypto>>
          /\ service.state # "none"
      BY <1>9 DEF ServiceWorks, stripe
    <2>2. ~(card.status = "none" /\ crypto.status = "none")
      BY <2>1 DEF RowInv, RowComes
    <2> QED
      BY <1>0, <2>1, <2>2, RowFrame
  <1> QED
    BY <1>1, <1>2, <1>3, <1>4, <1>5, <1>6, <1>7, <1>8, <1>9 DEF Next, StripeActs

-----------------------------------------------------------------------------
(* Row, user and service say what Stripe says *)

\* The events come in order, nothing else writes the status.
CardAlone == ordered /\ ~raced /\ crypto.status = "none"

Served ==
    /\ gate.status = "active" /\ now <= gate.end =>
           user = "ACTIVE" /\ card.status = "ACTIVE" /\ card.end = gate.end
    /\ gate.status = "past_due" =>
           user \in {"SUSPENDED", "INACTIVE"} /\ card.status \in {"PAST_DUE", "UNPAID"}
    /\ gate.status = "canceled" => user = "INACTIVE" /\ card.status = "CANCELED"

ServiceMatches ==
    /\ service.state # "none" /\ user = "ACTIVE" => service.state \in Serving
    /\ service.state \in Serving => user = "ACTIVE" \/ service.missed

WriteIsComing == \E i \in DOMAIN sent \ answered : Writes(i)
DecisionIsComing == \E i \in DOMAIN sent \ answered : Decides(i)

\* What a handler has written to the user and the service is still there.
UserFollows ==
    ~raced =>
        /\ webhook.pc \in {"complete", "resume", "commission"} => user = "ACTIVE"
        /\ webhook.pc \in {"stop", "flag"} /\ StopEvent =>
               user = (IF Kind = "deleted" THEN "INACTIVE" ELSE "SUSPENDED")
        /\ webhook.pc = "commission" => service.state \notin {"STOP", "paused"}
        /\ webhook.pc = "flag" /\ StopEvent /\ crypto.status = "none" =>
               (service.state \in Serving => service.missed)

\* What does not agree yet will be put right by an event on its way.
Settled == CardAlone => Served \/ DecisionIsComing
ServiceFollows == CardAlone => ServiceMatches \/ WriteIsComing
LiveIsActive == CardAlone /\ Live(card) /\ user # "ACTIVE" => WriteIsComing

Settling == Settled /\ ServiceFollows /\ LiveIsActive

AgreeInv == RowInv /\ SubscribedInv /\ UserFollows /\ Settling

LEMMA InitAgree == Init => AgreeInv
  <1> SUFFICES ASSUME Init PROVE AgreeInv
    OBVIOUS
  <1>1. UserFollows
    BY DEF Init, UserFollows, IdleWebhook
  <1>2. Served /\ ServiceMatches
    BY CardAssumption DEF Init, Served, ServiceMatches, Serving, NoRow
  <1>3. Live(card) => user = "ACTIVE"
    BY DEF Init, Live, NoRow
  <1>4. Settling
    BY <1>2, <1>3 DEF Settling, Settled, ServiceFollows, LiveIsActive
  <1> QED
    BY <1>1, <1>4, InitRow, InitSubscribed DEF AgreeInv

\* A service that is stopped and runs was missed; one that is resumed does not
\* stand still.
LEMMA StoppedIs ==
  ASSUME service \in ServiceType, service' = Stopped(service)
  PROVE  service'.state \in Serving => service'.missed
  BY DEF Stopped, Serving, ServiceType, ServiceStates

LEMMA ResumedIs ==
  ASSUME service \in ServiceType, service' = [service EXCEPT !.state = Resumed(Triggered(steps))]
  PROVE  service'.state \in {"none"} \cup Serving
  <1>1. PICK state : state = Triggered(steps)
    OBVIOUS
  <1>2. state \in ServiceStates
    BY <1>1 DEF Triggered, ServiceType, ServiceStates
  <1>3. Resumed(state) \in {"none"} \cup Serving
    BY <1>2 DEF Resumed, ServiceStates, Serving
  <1> QED
    BY <1>1, <1>3 DEF ServiceType

\* An event on its way that decides settles everything.
LEMMA DecisionSettles ==
  ASSUME DecisionIsComing
  PROVE  Settling
  <1>1. WriteIsComing
    BY DEF DecisionIsComing, WriteIsComing, Decides
  <1> QED
    BY <1>1 DEF Settling, Settled, ServiceFollows, LiveIsActive

\* In order, an event that says what Stripe does not have any more has one
\* on its way behind it that decides.
LEMMA OutOfDate ==
  ASSUME RowInv, ordered, webhook.pc # "idle"
  PROVE  /\ ~Agrees(webhook.event) =>
               \E j \in DOMAIN sent \ answered : j # webhook.event /\ Decides(j)
         /\ Writes(webhook.event) => DecisionIsComing
  <1>0. /\ webhook.event \in DOMAIN sent \ answered /\ webhook.event \in Nat
        /\ DOMAIN sent \subseteq Nat
    BY DEF RowInv, SentInv, HeldInv, AnswerInv, HandlerInv, GateOK
  <1>1. ASSUME NEW k \in DOMAIN sent, webhook.event <= k, ~Agrees(k)
        PROVE  \E j \in DOMAIN sent \ answered : j # webhook.event /\ Decides(j)
    <2>1. PICK j \in DOMAIN sent : k < j /\ Decides(j)
      BY <1>1 DEF RowInv, SentInv, Decided
    <2>2. webhook.event < j
      BY <1>0, <1>1, <2>1
    <2>3. j \notin answered /\ j # webhook.event
      BY <1>0, <2>2 DEF RowInv, LaterUnanswered
    <2> QED
      BY <2>1, <2>3
  <1>2. ~Agrees(webhook.event) => \E j \in DOMAIN sent \ answered : j # webhook.event /\ Decides(j)
    BY <1>0, <1>1
  <1>3. Writes(webhook.event) => DecisionIsComing
    <2>1. CASE \E k \in DOMAIN sent : webhook.event <= k /\ ~Agrees(k)
      BY <1>1, <2>1 DEF DecisionIsComing
    <2>2. CASE \A k \in DOMAIN sent : webhook.event <= k => Agrees(k)
      BY <1>0, <2>2 DEF DecisionIsComing, Decides
    <2> QED
      BY <2>1, <2>2
  <1> QED
    BY <1>2, <1>3

\* Neither the events change nor which of those that write are answered, and
\* what agreed agrees.
LEMMA SettlingFrame ==
  ASSUME Settling, UNCHANGED <<gate, sent>>, CardAlone' => CardAlone,
         \A i \in DOMAIN sent \ answered : Writes(i) => i \notin answered',
         CardAlone' /\ Served => Served',
         CardAlone' /\ ServiceMatches => ServiceMatches' \/ WriteIsComing,
         CardAlone' /\ Live(card)' /\ user' # "ACTIVE" =>
             WriteIsComing \/ (Live(card) /\ user # "ACTIVE")
  PROVE  Settling'
  <1>1. WriteIsComing => WriteIsComing'
    BY DEF WriteIsComing, Writes, IsPayment, IsStop
  <1>2. DecisionIsComing => DecisionIsComing'
    BY DEF DecisionIsComing, Decides, Agrees, Writes, IsPayment, IsStop
  <1>3. CardAlone' => (Served' \/ DecisionIsComing')
    BY <1>2 DEF Settling, Settled
  <1>4. CardAlone' => (ServiceMatches' \/ WriteIsComing')
    BY <1>1 DEF Settling, ServiceFollows
  <1>5. CardAlone' /\ Live(card)' /\ user' # "ACTIVE" => WriteIsComing'
    BY <1>1 DEF Settling, LiveIsActive
  <1>6. Settled' /\ ServiceFollows'
    BY <1>3, <1>4 DEF Settled, ServiceFollows
  <1>7. LiveIsActive'
    BY <1>5 DEF LiveIsActive
  <1> QED
    BY <1>6, <1>7 DEF Settling

\* A handler writes the user, then the service, and keeps to its event.
LEMMA UserHandler ==
  ASSUME AgreeInv, HandlerStep
  PROVE  UserFollows'
  <1>0. /\ RowInv /\ AnswerInv /\ HandlerInv /\ PathHolds /\ UserFollows /\ service \in ServiceType
        /\ sent \in Seq(Event)
    BY DEF AgreeInv, RowInv, SentInv, HeldInv, HeldOK, AnswerInv, GateOK
  <1>1. /\ webhook.pc # "idle" /\ UNCHANGED <<sent, raced, crypto>>
        /\ webhook \in [pc : WebhookPCs, event : Nat, end : Nat]
        /\ webhook.event \in DOMAIN sent
    BY <1>0, HandlerMoves DEF AnswerInv
  <1>2. webhook'.event = webhook.event => Kind' = Kind /\ (StopEvent' <=> StopEvent)
    BY <1>1, SameEvent
  <1>3. webhook'.pc \notin {"complete", "resume", "commission", "stop", "flag"} => UserFollows'
    BY DEF UserFollows
  <1>4. Answer \/ Refuse => webhook'.pc = "idle"
    BY DEF Answer, Refuse, IdleWebhook
  <1>5. ASSUME NEW pc, Goto(pc) PROVE webhook'.event = webhook.event /\ webhook'.pc = pc
    BY <1>1, <1>5 DEF Goto
  <1>6. CASE Retrieve
    BY <1>0, <1>1, <1>3, <1>6 DEF Retrieve
  <1>7. CASE Find
    <2>1. user' = user /\ service' = service
      BY <1>7 DEF Find, rows
    <2>2. CASE AfterFind = "none"
      BY <1>0, <1>3, <1>4, <1>7, <2>1, <2>2 DEF Find
    <2>3. CASE AfterFind # "none"
      <3>1. /\ AfterFind \in {"write", "flag", "fail", "cancel"}
            /\ AfterFind = "flag" => ~StopEvent
        BY <2>3 DEF AfterFind, StopEvent, IsStop, Kind, Snapshot
      <3>2. webhook'.pc = AfterFind /\ webhook'.event = webhook.event
        BY <1>1, <1>7, <2>3 DEF Find, Goto
      <3> HIDE DEF AfterFind
      <3> QED
        BY <1>0, <1>2, <2>1, <3>1, <3>2 DEF UserFollows
    <2> QED
      BY <2>2, <2>3
  <1>8. CASE WriteRow
    <2>1. user' = user /\ service' = service
      BY <1>8 DEF WriteRow
    <2>2. CASE Kind = "updated"
      <3>1. Goto("flag") /\ Snapshot.status = "active"
        BY <1>0, <1>8, <2>2 DEF WriteRow, PathHolds
      <3>2. ~StopEvent
        BY <2>2, <3>1 DEF StopEvent, IsStop, Kind, Snapshot
      <3> QED
        BY <1>0, <1>2, <1>5, <2>1, <3>1, <3>2 DEF UserFollows
    <2>3. CASE Kind # "updated"
      <3>1. Goto("user")
        BY <1>8, <2>3 DEF WriteRow
      <3> QED
        BY <1>0, <1>3, <1>5, <2>1, <3>1
    <2> QED
      BY <2>2, <2>3
  <1>9. CASE ActivateUser
    <2>1. user' = "ACTIVE" /\ service' = service /\ webhook'.pc = "complete"
      BY <1>5, <1>9 DEF ActivateUser, rows
    <2> QED
      BY <1>0, <2>1 DEF UserFollows
  <1>10. CASE CompletePayment
    <2>1. /\ user' = user /\ service' = service /\ webhook'.pc = "resume"
          /\ webhook.pc = "complete"
      BY <1>5, <1>10 DEF CompletePayment, rows
    <2> QED
      BY <1>0, <1>1, <2>1 DEF UserFollows
  <1>11. CASE Resume
    <2>1. /\ user' = user /\ webhook.pc = "resume" /\ webhook'.pc \in {"commission", "idle"}
          /\ service' = [service EXCEPT !.state = Resumed(Triggered(steps))]
      BY <1>4, <1>5, <1>11 DEF Resume
    <2>2. service'.state \in {"none"} \cup Serving
      BY <1>0, <2>1, ResumedIs
    <2> QED
      BY <1>0, <1>1, <2>1, <2>2 DEF UserFollows, Serving
  <1>12. CASE PayCommission \/ WriteFlag
    <2>1. service' = service /\ webhook'.pc = "idle"
      BY <1>4, <1>12 DEF PayCommission, WriteFlag, rows
    <2> QED
      BY <1>0, <1>3, <2>1
  <1>13. CASE FailRow \/ CancelRow
    <2>1. service' = service /\ webhook'.pc \in {"suspend", "deactivate"}
      BY <1>5, <1>13 DEF FailRow, CancelRow
    <2> QED
      BY <1>0, <1>3, <2>1
  <1>14. CASE SuspendUser \/ DeactivateUser
    <2>1. /\ service' = service /\ webhook'.pc = "stop" /\ webhook'.event = webhook.event
          /\ user' = (IF Kind = "deleted" THEN "INACTIVE" ELSE "SUSPENDED")
      <3>1. CASE SuspendUser
        BY <1>0, <1>5, <3>1 DEF SuspendUser, rows, PathHolds
      <3>2. CASE DeactivateUser
        BY <1>0, <1>5, <3>2 DEF DeactivateUser, rows, PathHolds
      <3> QED
        BY <1>14, <3>1, <3>2
    <2> QED
      BY <1>0, <1>2, <2>1 DEF UserFollows
  <1>15. CASE StopService
    <2>1. user' = user /\ webhook.pc = "stop" /\ service' = Stopped(service)
      BY <1>15 DEF StopService
    <2>2. service'.state \in Serving => service'.missed
      BY <1>0, <2>1, StoppedIs
    <2>3. webhook'.pc = "idle" \/ (webhook'.pc = "flag" /\ webhook'.event = webhook.event)
      BY <1>4, <1>5, <1>15 DEF StopService
    <2> QED
      BY <1>0, <1>1, <1>2, <2>1, <2>2, <2>3 DEF UserFollows
  <1> QED
    BY <1>6, <1>7, <1>8, <1>9, <1>10, <1>11, <1>12, <1>13, <1>14, <1>15 DEF HandlerStep

\* An event that writes nothing of the user's leaves what agreed.
LEMMA SettlingUpdated ==
  ASSUME AgreeInv, HandlerStep, ~Writes(webhook.event)
  PROVE  Settling'
  <1>0. /\ RowInv /\ AnswerInv /\ HandlerInv /\ PathHolds /\ PeriodHolds /\ RowComes /\ Settling
        /\ sent \in Seq(Event) /\ card \in RowType /\ gate \in GateType
    BY DEF AgreeInv, RowInv, SentInv, HeldInv, HeldOK, AnswerInv, GateOK
  <1>1. /\ webhook.pc # "idle" /\ UNCHANGED <<now, gate, sent, ordered, raced, crypto>>
        /\ webhook \in [pc : WebhookPCs, event : Nat, end : Nat]
        /\ webhook.event \in DOMAIN sent
        /\ \A i \in DOMAIN sent \ answered : Writes(i) => i \notin answered'
        /\ CardAlone' => CardAlone
    <2>1. answered' = answered \/ answered' = answered \cup {webhook.event}
      BY <1>0, HandlerMoves
    <2> QED
      BY <1>0, <2>1, HandlerMoves DEF AnswerInv, CardAlone
  <1>2. Kind = "updated" /\ ~StopEvent /\ Snapshot.status = "active"
    <2>1. sent[webhook.event] \in Event
      BY <1>0, <1>1
    <2>2. Kind \in EventTypes /\ Carries(Kind, Snapshot.status)
      BY <1>0, <1>1, <2>1 DEF RowInv, SentInv, SentOK, Kind, Snapshot, Event
    <2> QED
      BY <2>2 DEF Writes, IsPayment, IsStop, StopEvent, Kind, Snapshot, Carries, EventTypes
  <1>3. webhook.pc \in {"find", "write", "flag"}
    BY <1>0, <1>1, <1>2 DEF HandlerInv, PathHolds, WebhookPCs
  <1>4. CASE Find \/ WriteFlag
    <2>1. user' = user /\ service' = service /\ card'.status = card.status /\ card'.end = card.end
      <3>1. CASE Find
        BY <3>1 DEF Find, rows
      <3>2. CASE WriteFlag
        BY <1>0, <3>2 DEF WriteFlag, RowType
      <3> QED
        BY <1>4, <3>1, <3>2
    <2>2. (Served => Served') /\ (ServiceMatches => ServiceMatches') /\ (Live(card)' <=> Live(card))
      BY <1>1, <2>1 DEF Served, ServiceMatches, Live
    <2> QED
      BY <1>0, <1>1, <2>1, <2>2, SettlingFrame
  <1>5. CASE WriteRow
    <2>1. /\ user' = user /\ service' = service
          /\ card'.status = "ACTIVE" /\ card'.end = webhook.end /\ webhook.end = Snapshot.end
      BY <1>0, <1>1, <1>2, <1>5 DEF WriteRow, RowType, PeriodHolds
    <2>2. CASE ordered /\ ~Agrees(webhook.event)
      <3>1. PICK j \in DOMAIN sent \ answered : Decides(j)
        BY <1>0, <1>1, <2>2, OutOfDate
      <3>2. j \in DOMAIN sent' \ answered' /\ Decides(j)'
        BY <1>1, <3>1 DEF Decides, Agrees, Writes, IsPayment, IsStop
      <3>3. DecisionIsComing'
        BY <3>2 DEF DecisionIsComing
      <3>4. WriteIsComing'
        BY <3>2 DEF WriteIsComing, Decides
      <3> QED
        BY <3>3, <3>4 DEF Settling, Settled, ServiceFollows, LiveIsActive
    <2>3. CASE Agrees(webhook.event)
      <3>1. gate.status = "active" /\ card'.end = gate.end
        BY <1>2, <2>1, <2>3 DEF Agrees, Snapshot
      <3>2. Served => Served'
        BY <1>1, <2>1, <3>1 DEF Served
      <3>3. ServiceMatches => ServiceMatches'
        BY <2>1 DEF ServiceMatches
      <3>4. CardAlone /\ Live(card)' /\ user' # "ACTIVE" => WriteIsComing
        <4>1. Live(card)' => now <= gate.end
          <5>1. now \in Nat /\ gate.end \in Nat
            BY <1>0 DEF GateType, AnswerInv, GateOK
          <5> QED
            BY <1>1, <3>1, <5>1 DEF Live
        <4>2. Live(card)' /\ user' # "ACTIVE" => ~Served
          BY <2>1, <3>1, <4>1 DEF Served
        <4>3. DecisionIsComing => WriteIsComing
          BY DEF DecisionIsComing, WriteIsComing, Decides
        <4> QED
          BY <1>0, <4>2, <4>3 DEF Settling, Settled
      <3> QED
        BY <1>0, <1>1, <3>2, <3>3, <3>4, SettlingFrame
    <2>4. CASE ~ordered
      BY <1>1, <2>4 DEF Settling, Settled, ServiceFollows, LiveIsActive, CardAlone
    <2> QED
      BY <2>2, <2>3, <2>4
  <1> QED
    BY <1>3, <1>4, <1>5 DEF HandlerStep, Retrieve, ActivateUser, CompletePayment, Resume, PayCommission,
       FailRow, SuspendUser, StopService, CancelRow, DeactivateUser

\* An event that writes the user's status is on its way until it is answered;
\* then all agree with it, or one behind it decides.
LEMMA SettlingWrites ==
  ASSUME AgreeInv, HandlerStep, Writes(webhook.event)
  PROVE  Settling'
  <1>0. /\ RowInv /\ AnswerInv /\ HandlerInv /\ PathHolds /\ PeriodHolds /\ RowComes /\ Settling
        /\ UserFollows /\ service \in ServiceType
        /\ sent \in Seq(Event) /\ card \in RowType /\ gate \in GateType /\ DOMAIN sent \subseteq Nat
    BY DEF AgreeInv, RowInv, SentInv, HeldInv, HeldOK, AnswerInv, GateOK
  <1>1. /\ webhook.pc # "idle" /\ UNCHANGED <<now, gate, sent, ordered, raced, crypto>>
        /\ webhook.event \in DOMAIN sent \ answered
        /\ answered' = answered \/ (answered' = answered \cup {webhook.event} /\ webhook'.pc = "idle")
        /\ CardAlone' => CardAlone
    BY <1>0, HandlerMoves DEF AnswerInv, CardAlone
  <1>2. \A j \in DOMAIN sent : Decides(j) => Decides(j)'
    BY <1>1 DEF Decides, Agrees, Writes, IsPayment, IsStop
  <1>3. CASE ~ordered
    BY <1>1, <1>3 DEF Settling, Settled, ServiceFollows, LiveIsActive, CardAlone
  <1>4. CASE ordered /\ answered' = answered
    <2>1. DecisionIsComing
      BY <1>0, <1>1, <1>4, OutOfDate
    <2>2. DecisionIsComing'
      BY <1>1, <1>2, <1>4, <2>1 DEF DecisionIsComing
    <2>3. WriteIsComing'
      BY <2>2 DEF DecisionIsComing, WriteIsComing, Decides
    <2> QED
      BY <2>2, <2>3 DEF Settling, Settled, ServiceFollows, LiveIsActive
  <1>5. CASE ordered /\ ~Agrees(webhook.event)
    <2>1. PICK j \in DOMAIN sent \ answered : j # webhook.event /\ Decides(j)
      BY <1>0, <1>1, <1>5, OutOfDate
    <2>2. j \in DOMAIN sent' \ answered' /\ Decides(j)'
      BY <1>1, <1>2, <2>1
    <2>3. DecisionIsComing' /\ WriteIsComing'
      BY <2>2 DEF DecisionIsComing, WriteIsComing, Decides
    <2> QED
      BY <2>3 DEF Settling, Settled, ServiceFollows, LiveIsActive
  <1>6. CASE ordered /\ answered' # answered /\ Agrees(webhook.event)
    <2>1. /\ Carries(Kind, Snapshot.status) /\ Kind \in EventTypes
          /\ Snapshot.status = gate.status
          /\ gate.status = "active" => Snapshot.end = gate.end
          /\ Writes(webhook.event)
          /\ Snapshot.end \in Nat
      <3>1. sent[webhook.event] \in Event
        BY <1>0, <1>1
      <3> QED
        BY <1>0, <1>1, <1>6, <3>1 DEF RowInv, SentInv, SentOK, Kind, Snapshot, Event, Agrees, GateType
    <2>2. ASSUME CardAlone',
                 Served', ServiceMatches', Live(card)' => user' = "ACTIVE"
          PROVE  Settling'
      BY <2>2 DEF Settling, Settled, ServiceFollows, LiveIsActive
    <2>3. ~CardAlone' => Settling'
      BY DEF Settling, Settled, ServiceFollows, LiveIsActive
    <2>4. SUFFICES ASSUME CardAlone'
                   PROVE  Served' /\ ServiceMatches' /\ (Live(card)' => user' = "ACTIVE")
      BY <2>2, <2>3
    <2>5. ~raced /\ crypto.status = "none"
      BY <1>1, <2>4 DEF CardAlone
    <2>6. CASE Find
      <3>1. AfterFind = "none"
        BY <1>6, <2>6 DEF Find, Goto
      <3>2. card.status = "none" /\ Kind # "created"
        BY <3>1 DEF AfterFind
      <3>3. 1 \in DOMAIN sent /\ sent[1].type = "created" /\ 1 \notin answered
        <4>1. 1 \in DOMAIN sent
          BY <1>0, <1>1
        <4> QED
          BY <1>0, <3>2, <4>1 DEF RowComes
      <3>4. 1 < webhook.event
        BY <1>0, <1>1, <3>2, <3>3 DEF Kind
      <3>5. 1 \in answered
        BY <1>0, <1>1, <1>6, <3>3, <3>4 DEF RowInv, EarlierAnswered
      <3> QED
        BY <3>3, <3>5
    <2>7. CASE Resume
      <3>1. Kind = "created"
        BY <1>0, <1>1, <1>6, <2>7 DEF Resume, Goto, HandlerInv
      <3>2. gate'.status = "incomplete"
        BY <1>1, <2>1, <3>1 DEF Carries
      <3>3. user' = "ACTIVE" /\ service'.state \in {"none"} \cup Serving
        BY <1>0, <1>1, <2>5, <2>7, ResumedIs DEF Resume, UserFollows
      <3> QED
        BY <3>2, <3>3 DEF Served, ServiceMatches
    <2>8. CASE PayCommission
      <3>1. Kind = "paid" /\ gate.status = "active"
        BY <1>0, <1>1, <2>1, <2>8 DEF PayCommission, HandlerInv, Carries
      <3>2. user' = "ACTIVE" /\ service'.state \in {"none"} \cup Serving
        <4>1. user' = "ACTIVE" /\ service' = service /\ service.state \notin {"STOP", "paused"}
          BY <1>0, <1>1, <2>5, <2>8 DEF PayCommission, UserFollows, rows
        <4> QED
          BY <1>0, <4>1 DEF ServiceType, ServiceStates, Serving
      <3>3. card'.status = "ACTIVE" /\ card'.end = webhook.end
        BY <1>0, <2>8 DEF PayCommission, PathHolds, rows
      <3>4. webhook.end = gate.end
        <4>1. Snapshot.end = gate.end /\ Snapshot.end <= webhook.end /\ webhook.end <= gate.end
          BY <1>0, <1>1, <2>1, <3>1 DEF PeriodHolds
        <4>2. webhook.end \in Nat /\ gate.end \in Nat
          BY <1>0 DEF AnswerInv, GateType
        <4> QED
          BY <4>1, <4>2
      <3> QED
        BY <1>1, <3>1, <3>2, <3>3, <3>4 DEF Served, ServiceMatches
    <2>9. CASE StopService \/ WriteFlag
      <3>1. webhook.pc \in {"stop", "flag"} /\ user' = user /\ card'.status = card.status
        <4>1. CASE StopService
          BY <4>1 DEF StopService
        <4>2. CASE WriteFlag
          BY <1>0, <4>2 DEF WriteFlag, RowType
        <4> QED
          BY <2>9, <4>1, <4>2
      <3>2. StopEvent
        <4>1. webhook.pc = "flag" => Kind = "updated"
          BY <1>0 DEF PathHolds
        <4>2. webhook.pc = "stop" => StopEvent
          BY <1>0 DEF PathHolds
        <4> QED
          BY <2>1, <3>1, <4>1, <4>2 DEF Writes, IsPayment, StopEvent, Kind
      <3>3. /\ user' = (IF Kind = "deleted" THEN "INACTIVE" ELSE "SUSPENDED")
            /\ card'.status = (IF Kind = "deleted" THEN "CANCELED" ELSE "PAST_DUE")
        BY <1>0, <2>5, <3>1, <3>2 DEF UserFollows, PathHolds
      <3>4. service'.state \in Serving => service'.missed
        <4>1. CASE StopService
          BY <1>0, <4>1, StoppedIs DEF StopService
        <4>2. CASE WriteFlag
          BY <1>0, <2>5, <3>2, <4>2 DEF WriteFlag, UserFollows
        <4> QED
          BY <2>9, <4>1, <4>2
      <3>5. gate'.status = gate.status /\ gate.status # "active"
            /\ (gate.status = "canceled" => Kind = "deleted")
            /\ (gate.status = "past_due" => Kind # "deleted")
        <4>1. Kind \in {"failed", "deleted"} \/ (Kind = "updated" /\ Snapshot.status = "past_due")
          BY <3>2 DEF StopEvent, IsStop, Kind, Snapshot
        <4> QED
          BY <1>1, <2>1, <4>1 DEF Carries
      <3> QED
        BY <3>3, <3>4, <3>5 DEF Served, ServiceMatches, Live
    <2>10. \/ Find \/ Resume \/ PayCommission \/ StopService \/ WriteFlag
      BY <1>6 DEF HandlerStep, Retrieve, WriteRow, ActivateUser, CompletePayment, FailRow, SuspendUser,
         CancelRow, DeactivateUser, Goto
    <2> QED
      BY <2>6, <2>7, <2>8, <2>9, <2>10
  <1> QED
    BY <1>1, <1>3, <1>4, <1>5, <1>6

\* What Stripe does sends an event that decides, or changes nothing of it.
LEMMA SettlingStripe ==
  ASSUME AgreeInv, StripeActs
  PROVE  Settling'
  <1>0. /\ SentInv /\ AnswerInv /\ answered \subseteq DOMAIN sent /\ Settling
    BY DEF AgreeInv, RowInv, SentInv, HeldInv, AnswerInv
  <1>1. /\ \A i \in DOMAIN sent : i \in DOMAIN sent' /\ sent'[i] = sent[i]
        /\ UNCHANGED <<now, answered, crypto, card, user, service, ordered, raced>>
    BY <1>0, SentGrows
  <1>2. CardAlone' <=> CardAlone
    BY <1>1 DEF CardAlone
  <1>3. WriteIsComing => WriteIsComing'
    BY <1>1 DEF WriteIsComing, Writes, IsPayment, IsStop
  <1>4. ASSUME NEW j \in DOMAIN sent', j \notin answered', Decides(j)' PROVE Settling'
    <2>1. DecisionIsComing'
      BY <1>4 DEF DecisionIsComing
    <2>2. WriteIsComing'
      BY <1>4 DEF WriteIsComing, Decides
    <2> QED
      BY <2>1, <2>2 DEF Settling, Settled, ServiceFollows, LiveIsActive
  <1>5. CASE DecisionIsComing
    <2>1. PICK i \in DOMAIN sent \ answered : Decides(i)
      BY <1>5 DEF DecisionIsComing
    <2>2. PICK j \in DOMAIN sent' : (j \in DOMAIN sent => j = i) /\ Decides(j)'
      BY <1>0, <2>1, DecidesOn
    <2>3. j \notin answered'
      BY <1>0, <1>1, <2>1, <2>2
    <2> QED
      BY <1>4, <2>2, <2>3
  <1>6. CASE \E j \in DOMAIN sent' : j \notin DOMAIN sent /\ Decides(j)'
    BY <1>0, <1>1, <1>4, <1>6
  <1>7. CASE ~DecisionIsComing /\ gate'.status = gate.status /\ gate'.end = gate.end
    <2>1. Settled'
      BY <1>0, <1>1, <1>2, <1>7 DEF Settling, Settled, Served
    <2>2. ServiceFollows'
      BY <1>0, <1>1, <1>2, <1>3 DEF Settling, ServiceFollows, ServiceMatches
    <2>3. LiveIsActive'
      BY <1>0, <1>1, <1>2, <1>3 DEF Settling, LiveIsActive, Live
    <2> QED
      BY <2>1, <2>2, <2>3 DEF Settling
  <1> QED
    BY <1>0, <1>5, <1>6, <1>7, StripeDecides

\* completeStep, unless it races, moves a user within onboarding only, and
\* triggers the provisioning only of a card that is paid for.
LEMMA WriteKeeps ==
  ASSUME AgreeInv, NEW c \in Callers, WriteProgress(c), ~raced'
  PROVE  /\ UNCHANGED <<now, gate, sent, answered, card, crypto, webhook, ordered>> /\ ~raced
         /\ user' = user \/ (user = "NEW" /\ user' = "ONBOARDING")
         /\ service'.missed = service.missed
         /\ \/ service'.state = service.state
            \/ service.state = "none" /\ service'.state = "provisioning" /\ (Live(card) \/ Live(crypto))
  <1>0. HeldOK /\ service \in ServiceType /\ user \in Statuses /\ completing[c].status \in Statuses
    <2>1. HeldOK
      BY DEF AgreeInv, SubscribedInv, HeldInv
    <2> QED
      BY <2>1 DEF HeldOK, CompletingType, CompletingRecord
  <1>1. /\ completing[c].pc = "write"
        /\ user' = StatusAfter(completing[c].seen, completing[c].status, user)
        /\ ~raced /\ completing[c].seen = steps
        /\ user' # user => completing[c].status = user
        /\ UNCHANGED <<gate, sent, answered, card, crypto, webhook, ordered>>
    BY <1>0, WriteProgressAt
  <1>2. now' = now
    BY DEF WriteProgress
  <1>3. user = "ONBOARDING" => ~AllDone(steps)
    <2>1. AllDone(steps) => "payment" \in steps
      BY DEF AllDone, Steps
    <2> QED
      BY <1>1, <2>1 DEF AgreeInv, SubscribedInv, PayersAreNotNew, InOnboarding
  <1>4. user' = user \/ (user = "NEW" /\ user' = "ONBOARDING")
    <2>1. ASSUME user' # user PROVE user = "NEW" /\ user' = "ONBOARDING"
      BY <1>0, <1>1, <1>3, <2>1, StatusAfterOK
    <2> QED
      BY <2>1
  <1>5. /\ service'.missed = service.missed
        /\ \/ service'.state = service.state
           \/ service.state = "none" /\ service'.state = "provisioning" /\ (Live(card) \/ Live(crypto))
    <2>1. PICK state : /\ state = Triggered(steps)
                       /\ service' = service \/ service' = [service EXCEPT !.state = state]
      BY DEF WriteProgress
    <2>2. \/ state = service.state
          \/ service.state = "none" /\ state = "provisioning" /\ (Live(card) \/ Live(crypto))
      BY <2>1 DEF Triggered
    <2> QED
      BY <1>0, <2>1, <2>2 DEF ServiceType
  <1> QED
    BY <1>1, <1>2, <1>4, <1>5

LEMMA SettlingWriteProgress ==
  ASSUME AgreeInv, NEW c \in Callers, WriteProgress(c)
  PROVE  Settling' /\ UserFollows'
  <1>0. /\ Settling /\ UserFollows /\ AnswerInv /\ HandlerInv /\ RowInv /\ PathHolds
    BY DEF AgreeInv, RowInv, SentInv, HeldInv, AnswerInv
  <1>2. CASE raced'
    BY <1>2 DEF Settling, Settled, ServiceFollows, LiveIsActive, CardAlone, UserFollows
  <1>3. CASE ~raced'
    <2>1. /\ UNCHANGED <<now, gate, sent, answered, card, crypto, webhook, ordered>> /\ ~raced
          /\ user' = user \/ (user = "NEW" /\ user' = "ONBOARDING")
          /\ service'.missed = service.missed
          /\ \/ service'.state = service.state
             \/ /\ service.state = "none" /\ service'.state = "provisioning"
                /\ Live(card) \/ Live(crypto)
      BY <1>3, WriteKeeps
    <2>2. CardAlone' => CardAlone
      BY <2>1 DEF CardAlone
    <2>3. Served => Served'
      BY <2>1 DEF Served
    <2>4. CardAlone /\ ServiceMatches => ServiceMatches' \/ WriteIsComing
      <3>1. CASE service'.state = service.state
        BY <2>1, <3>1 DEF ServiceMatches
      <3>2. CASE service'.state = "provisioning" /\ (Live(card) \/ Live(crypto))
        <4>1. CardAlone => Live(card)
          BY <3>2 DEF CardAlone, Live
        <4>2. CardAlone /\ user # "ACTIVE" => WriteIsComing
          BY <1>0, <4>1 DEF Settling, LiveIsActive
        <4>3. user = "ACTIVE" => ServiceMatches'
          BY <2>1, <3>2 DEF ServiceMatches, Serving
        <4> QED
          BY <4>2, <4>3
      <3> QED
        BY <2>1, <3>1, <3>2
    <2>5. CardAlone' /\ Live(card)' /\ user' # "ACTIVE" =>
              WriteIsComing \/ (Live(card) /\ user # "ACTIVE")
      BY <2>1 DEF Live
    <2>6. Settling'
      <3>1. CardAlone' /\ Served => Served'
        BY <2>3
      <3>2. CardAlone' /\ ServiceMatches => ServiceMatches' \/ WriteIsComing
        BY <2>2, <2>4
      <3>3. \A i \in DOMAIN sent \ answered : Writes(i) => i \notin answered'
        BY <2>1
      <3> QED
        BY <1>0, <2>1, <2>2, <2>5, <3>1, <3>2, <3>3, SettlingFrame
    <2>7. UserFollows'
      <3>1. Kind' = Kind /\ (StopEvent' <=> StopEvent)
        BY <2>1 DEF Kind, StopEvent, IsStop
      <3>2. webhook.pc = "flag" /\ StopEvent /\ crypto.status = "none" => ~(Live(card) \/ Live(crypto))
        BY <1>0 DEF PathHolds, Live
      <3> QED
        BY <1>0, <2>1, <3>1, <3>2 DEF UserFollows
    <2> QED
      BY <2>6, <2>7
  <1> QED
    BY <1>2, <1>3

\* The cron lapses a row whose period or grace is over: Stripe has either
\* not renewed it, or has sent what is yet to be handled.
LEMMA SettlingCron ==
  ASSUME AgreeInv, LifecycleCron
  PROVE  Settling' /\ UserFollows'
  <1>0. /\ Settling /\ service \in ServiceType /\ card \in RowType /\ crypto \in RowType
        /\ now \in Nat /\ gate \in GateType
    BY DEF AgreeInv, RowInv, SentInv, HeldInv, HeldOK, AnswerInv, GateOK
  <1>1. /\ UNCHANGED <<now, gate, sent, answered, webhook, ordered, raced>>
        /\ webhook.pc = "idle" /\ webhook'.pc = "idle"
        /\ card' = AfterCron(card) /\ crypto' = AfterCron(crypto)
        /\ user' = (IF GraceOver(card) \/ GraceOver(crypto) THEN "INACTIVE" ELSE "SUSPENDED")
        /\ service' = Stopped(service)
    BY DEF LifecycleCron, stripe
  <1>2. service'.state \in Serving => service'.missed
    BY <1>0, <1>1, StoppedIs
  <1>3. UserFollows'
    BY <1>1 DEF UserFollows
  <1>4. ASSUME crypto'.status = "none"
        PROVE  /\ crypto.status = "none"
               /\ \/ Lapsed(card) /\ card'.status = "PAST_DUE" /\ user' = "SUSPENDED"
                  \/ GraceOver(card) /\ card'.status = "UNPAID" /\ user' = "INACTIVE"
    <2>1. crypto.status = "none"
      BY <1>0, <1>1, <1>4 DEF AfterCron, RowType
    <2>2. Lapsed(card) \/ GraceOver(card)
      BY <2>1 DEF LifecycleCron, Lapsed, GraceOver
    <2>3. ~GraceOver(crypto)
      BY <2>1 DEF GraceOver
    <2>4. CASE Lapsed(card)
      BY <1>0, <1>1, <2>1, <2>3, <2>4 DEF AfterCron, Lapsed, GraceOver, RowType
    <2>5. CASE GraceOver(card)
      BY <1>0, <1>1, <2>1, <2>5 DEF AfterCron, Lapsed, GraceOver, RowType
    <2> QED
      BY <2>2, <2>4, <2>5
  <1>5. CardAlone' => CardAlone
    BY <1>1, <1>4 DEF CardAlone
  <1>6. CardAlone' /\ Served => Served'
    <2> SUFFICES ASSUME CardAlone', Served PROVE Served'
      OBVIOUS
    <2>1. \/ Lapsed(card) /\ card'.status = "PAST_DUE" /\ user' = "SUSPENDED"
          \/ GraceOver(card) /\ card'.status = "UNPAID" /\ user' = "INACTIVE"
      BY <1>4 DEF CardAlone
    <2>2. ~(gate.status = "active" /\ now <= gate.end)
      BY <1>0, <2>1 DEF Served, Lapsed, GraceOver, GateType
    <2>3. gate.status # "canceled"
      BY <2>1 DEF Served, Lapsed, GraceOver
    <2> QED
      BY <1>1, <2>1, <2>2, <2>3 DEF Served
  <1>7. CardAlone' => ServiceMatches' /\ ~Live(card)'
    <2> SUFFICES ASSUME CardAlone' PROVE ServiceMatches' /\ ~Live(card)'
      OBVIOUS
    <2>1. card'.status # "ACTIVE" /\ user' # "ACTIVE"
      BY <1>4 DEF CardAlone
    <2> QED
      BY <1>2, <2>1 DEF ServiceMatches, Live
  <1>8. \A i \in DOMAIN sent \ answered : Writes(i) => i \notin answered'
    BY <1>1
  <1>9. Settling'
    BY <1>0, <1>1, <1>5, <1>6, <1>7, <1>8, SettlingFrame
  <1> QED
    BY <1>3, <1>9

LEMMA StepAgree == AgreeInv /\ [Next]_vars => AgreeInv'
  <1> SUFFICES ASSUME AgreeInv, [Next]_vars PROVE Settling' /\ UserFollows'
    BY StepRow, StepSubscribed DEF AgreeInv
  <1>0. /\ Settling /\ UserFollows /\ RowInv /\ AnswerInv /\ HandlerInv /\ card \in RowType
        /\ service \in ServiceType
        /\ sent \in Seq(Event) /\ now \in Nat /\ gate \in GateType
    BY DEF AgreeInv, RowInv, SentInv, HeldInv, HeldOK, AnswerInv, GateOK
  <1>1. ASSUME UNCHANGED <<gate, sent, answered, user, crypto, service, raced>>,
               webhook' = webhook \/ webhook'.pc \in {"idle", "retrieve", "find"},
               ordered' => ordered, card'.status = card.status, card'.end = card.end,
               now' = now \/ now' = now + 1
        PROVE  Settling' /\ UserFollows'
    <2>1. CardAlone' => CardAlone
      BY <1>1 DEF CardAlone
    <2>2. (Served => Served') /\ (ServiceMatches => ServiceMatches')
      BY <1>0, <1>1 DEF Served, ServiceMatches, GateType
    <2>3. Live(card)' => Live(card)
      BY <1>0, <1>1 DEF Live, RowType
    <2>4. Settling'
      BY <1>0, <1>1, <2>1, <2>2, <2>3, SettlingFrame
    <2>5. UserFollows'
      <3>1. CASE webhook' = webhook
        BY <1>0, <1>1, <3>1 DEF UserFollows, StopEvent, IsStop, Kind
      <3>2. CASE webhook'.pc \in {"idle", "retrieve", "find"}
        BY <3>2 DEF UserFollows
      <3> QED
        BY <1>1, <3>1, <3>2
    <2> QED
      BY <2>4, <2>5
  <1>2. CASE StripeActs
    <2>1. /\ \A i \in DOMAIN sent : i \in DOMAIN sent' /\ sent'[i] = sent[i]
          /\ UNCHANGED <<crypto, user, service, webhook, raced>>
      BY <1>0, <1>2, SentGrows
    <2>2. webhook.pc \in {"idle", "retrieve", "find"}
      BY <1>2 DEF StripeActs, Subscribe, InvoicePaid, InvoiceFails, SubscriptionEnds, AskStripe,
         CancelNow, Emit, StripeMoves
    <2>3. UserFollows'
      BY <1>0, <2>1, <2>2 DEF UserFollows
    <2> QED
      BY <1>2, <2>3, SettlingStripe
  <1>3. CASE NextDay
    BY <1>1, <1>3 DEF NextDay, stripe, rows
  <1>4. CASE \/ \E c \in Callers : ReadSteps(c) \/ ReadStatus(c)
             \/ \E step \in Forms : SubmitForm(step)
    BY <1>1, <1>4 DEF ReadSteps, ReadStatus, SubmitForm, stripe, rows
  <1>5. CASE \E c \in Callers : WriteProgress(c)
    BY <1>5, SettlingWriteProgress
  <1>6. ASSUME NEW i \in DOMAIN sent, Deliver(i) PROVE Settling' /\ UserFollows'
    <2>1. /\ UNCHANGED <<now, gate, sent, card, crypto, service, user, raced>> /\ answered' = answered \ {i}
          /\ webhook'.pc \in {"retrieve", "find"}
      BY <1>6 DEF Deliver, stripe, rows
    <2>2. CardAlone' => CardAlone
      BY <1>6 DEF CardAlone, Deliver, rows
    <2>3. (Served => Served') /\ (ServiceMatches => ServiceMatches') /\ (Live(card)' <=> Live(card))
      BY <2>1 DEF Served, ServiceMatches, Live
    <2>4. Settling'
      BY <1>0, <2>1, <2>2, <2>3, SettlingFrame
    <2> QED
      BY <1>0, <2>1, <2>4 DEF UserFollows
  <1>7. CASE HandlerStep
    <2>1. Settling'
      BY <1>7, SettlingUpdated, SettlingWrites
    <2> QED
      BY <1>7, <2>1, UserHandler
  <1>8. CASE HandlingFails
    BY <1>1, <1>8 DEF HandlingFails, stripe, rows, IdleWebhook
  <1>9. CASE StoreWish
    BY <1>0, <1>1, <1>9 DEF StoreWish, stripe, RowType
  <1>10. CASE RequestFails \/ UNCHANGED vars
    BY <1>1, <1>10 DEF RequestFails, vars, stripe, rows
  <1>11. CASE CryptoPaid
    <2>1. crypto'.status = "ACTIVE" /\ webhook'.pc = "idle"
      BY <1>11 DEF CryptoPaid
    <2> QED
      BY <2>1 DEF Settling, Settled, ServiceFollows, LiveIsActive, CardAlone, UserFollows
  <1>12. CASE LifecycleCron
    BY <1>12, SettlingCron
  <1>13. CASE FormFails \/ ProcessDies
    <2>1. HeldOK
      BY <1>0 DEF RowInv, SentInv, HeldInv
    <2>2. /\ UNCHANGED <<now, gate, sent, answered, user, card, crypto, service, ordered, raced>>
          /\ webhook' = webhook \/ webhook'.pc = "idle"
      BY <1>13, <2>1, FormFailsAt
    <2> QED
      BY <1>1, <2>2
  <1>14. CASE ServiceWorks
    <2>1. /\ UNCHANGED <<now, gate, sent, answered, user, card, crypto, webhook, ordered, raced>>
          /\ webhook.pc \in {"idle", "resume", "stop"}
          /\ service' = [service EXCEPT !.state = IF @ = "STOP" /\ ~Entitled THEN "paused" ELSE "active"]
          /\ service.state \in {"provisioning", "STOP", "START"}
      BY <1>14 DEF ServiceWorks, stripe, onboarding
    <2>2. CardAlone' => CardAlone
      BY <2>1 DEF CardAlone
    <2>3. /\ service'.missed = service.missed
          /\ service.state \in Serving => service'.state = "active"
          /\ service.state = "STOP" => \/ service'.state = "paused"
                                       \/ service'.state = "active" /\ user = "ACTIVE"
      <3>1. service \in ServiceType
        BY <1>0
      <3>2. /\ service'.missed = service.missed
            /\ service'.state = IF service.state = "STOP" /\ ~Entitled THEN "paused" ELSE "active"
        BY <2>1, <3>1 DEF ServiceType
      <3>3. CASE service.state = "STOP"
        BY <3>2, <3>3 DEF Serving, Entitled
      <3>4. CASE service.state # "STOP"
        BY <3>2, <3>4 DEF Serving
      <3> QED
        BY <3>3, <3>4
    <2>4. ServiceMatches => ServiceMatches'
      BY <2>1, <2>3 DEF ServiceMatches, Serving
    <2>5. (Served => Served') /\ (Live(card)' <=> Live(card))
      BY <2>1 DEF Served, Live
    <2>6. Settling'
      BY <1>0, <2>1, <2>2, <2>4, <2>5, SettlingFrame
    <2>7. UserFollows'
      BY <1>0, <2>1 DEF UserFollows, StopEvent, IsStop, Kind
    <2> QED
      BY <2>6, <2>7
  <1> QED
    BY <1>2, <1>3, <1>4, <1>5, <1>6, <1>7, <1>8, <1>9, <1>10, <1>11, <1>12, <1>13, <1>14 DEF Next, StripeActs

\* Whatever fails and is delivered again, and with a status that the forms
\* and the cron write too: once the events of a card have been handled in
\* order, the row, the user's status and the service say what Stripe says,
\* the service up to a suspension that found no active hedge setup to stop
\* (src/src/webhooks/stripe.webhook.ts with src/src/modules/subscription/-
\* subscription.service.ts, activateSubscriptionFromPayment and
\* applyPaymentFailure).
THEOREM StatusFollowsStripe == Spec => []AgreesWithStripe
  <1>1. AgreeInv => AgreesWithStripe
    <2> SUFFICES ASSUME AgreeInv, Quiet, CardAlone PROVE Served /\ ServiceMatches
      BY DEF AgreesWithStripe, CardAlone, Served, ServiceMatches
    <2>1. ~DecisionIsComing /\ ~WriteIsComing
      BY DEF Quiet, DecisionIsComing, WriteIsComing
    <2> QED
      BY <2>1 DEF AgreeInv, Settling, Settled, ServiceFollows
  <1> QED
    BY <1>1, InitAgree, StepAgree, PTL DEF Spec
================================================================================
