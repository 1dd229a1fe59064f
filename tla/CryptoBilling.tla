---------------------------- MODULE CryptoBilling ----------------------------
(***************************************************************************)
(* The crypto payments of one user: the orders at CoinGate and their IPN   *)
(* callbacks (src/src/webhooks/coingate.webhook.ts), the subscription they *)
(* pay for and its checkout (src/src/modules/subscription/subscription.-   *)
(* service.ts), and the two daily crons that renew and lapse it            *)
(* (src/src/cron/crypto-renewal.cron.ts, subscription.cron.ts).            *)
(*                                                                         *)
(* Callbacks arrive in any order, more than once, and again until they are *)
(* answered.  Handlers, checkouts and crons interleave at every await; a   *)
(* call may fail and the process may crash.  Time counts days.             *)
(***************************************************************************)
EXTENDS Naturals, Sequences

CONSTANTS
    Orders,      \* the orders the user may place
    None,        \* no order
    Handlers,    \* IPN requests handled at the same time
    Period,      \* days a payment is good for
    Window,      \* CRYPTO_RENEWAL_DAYS_BEFORE
    Grace,       \* GRACE_PERIOD_DAYS
    MaxTime,     \* the last day
    MaxFailures, \* calls that fail
    MaxCrashes,  \* crashes of the process
    Overlap      \* whether handlers, checkouts and crons overlap

Crons == {"lifecycle", "renewal"}
Checkouts == {"client", "renewal"}
OrderStatuses == {"none", "new", "pending", "paid", "expired"}
IpnStatuses == {"pending", "paid", "expired"}
Ipns == [order : Orders, status : IpnStatuses]

ASSUME BillingAssumption ==
    /\ None \notin Orders
    /\ Period \in Nat \ {0} /\ Window \in Nat /\ Grace \in Nat
    /\ MaxTime \in Nat /\ MaxFailures \in Nat /\ MaxCrashes \in Nat
    /\ Overlap \in BOOLEAN

VARIABLES
    now,       \* the day
    due,       \* crons that have not run today
    order,     \* CryptoOrder rows
    gate,      \* the orders as CoinGate sees them
    offered,   \* orders whose payment link has reached the user
    ipns,      \* callbacks CoinGate has sent
    answered,  \* callbacks answered with 200
    subs,      \* the user's Subscription rows, oldest first
    user,      \* User.status
    handler,   \* what each IPN request has done
    checkout,  \* what createCryptoCheckout is doing, for the client and the cron
    cron,      \* what the lifecycle cron is doing and the rows it listed
    activated, \* history: how often each order has been turned into a period
    rewarded,  \* history: orders given to the commission engine
    paidUntil, \* history: the last day any payment was good for
    overtaken, \* history: expired orders an earlier callback was stored over
    troubles   \* failures and crashes so far

world == <<now, due>>
coingate == <<gate, offered, ipns, answered>>
history == <<activated, rewarded, paidUntil, overtaken>>
vars == <<world, order, coingate, subs, user, handler, checkout, cron, history, troubles>>

-----------------------------------------------------------------------------
(* State *)

OrderRow == [status : OrderStatuses, renewal : BOOLEAN, created : Nat]
NoOrder == [status |-> "none", renewal |-> FALSE, created |-> 0]

SubRow == [status : {"ACTIVE", "PAST_DUE", "UNPAID"}, start : Nat, end : Nat, grace : Nat,
           cancel : BOOLEAN]

\* The awaits of the handler, in order; those from "base" on are only
\* reached by the handler that won the claim.
HandlerPCs == {"idle", "claim", "base", "find", "write", "user", "commission", "reply"}
HandlerType == [pc : HandlerPCs, order : Orders \cup {None}, status : IpnStatuses,
                start : Nat, end : Nat, row : Nat]
IdleHandler ==
    [pc |-> "idle", order |-> None, status |-> "pending", start |-> 0, end |-> 0, row |-> 0]

CheckoutType == [pc : {"idle", "check", "create", "call", "update", "email"},
                 order : Orders \cup {None}, todo : Seq(SubRow)]
IdleCheckout == [pc |-> "idle", order |-> None, todo |-> <<>>]

CronType == [pc : {"idle", "fail", "suspend", "list", "unpaid", "deactivate"}, rows : SUBSET Nat]
IdleCron == [pc |-> "idle", rows |-> {}]

TypeOK ==
    /\ now \in Nat /\ due \subseteq Crons
    /\ order \in [Orders -> OrderRow]
    /\ gate \in [Orders -> {"none", "open", "paid", "expired"}]
    /\ offered \subseteq Orders /\ ipns \subseteq Ipns /\ answered \subseteq Ipns
    /\ subs \in Seq(SubRow)
    /\ user \in {"ONBOARDING", "ACTIVE", "SUSPENDED", "INACTIVE"}
    /\ handler \in [Handlers -> HandlerType]
    /\ checkout \in [Checkouts -> CheckoutType]
    /\ cron \in CronType
    /\ activated \in [Orders -> Nat] /\ rewarded \subseteq Orders /\ paidUntil \in Nat
    /\ overtaken \subseteq Orders
    /\ troubles \in [failures : Nat, crashes : Nat]

\* A user who has never paid, or one who paid on the first day.
Init ==
    /\ now = 0 /\ due = {}
    /\ order = [o \in Orders |-> NoOrder]
    /\ gate = [o \in Orders |-> "none"]
    /\ offered = {} /\ ipns = {} /\ answered = {}
    /\ \/ subs = <<>> /\ user = "ONBOARDING" /\ paidUntil = 0
       \/ /\ subs = <<[status |-> "ACTIVE", start |-> 0, end |-> Period, grace |-> 0, cancel |-> FALSE]>>
          /\ user = "ACTIVE" /\ paidUntil = Period
    /\ handler = [h \in Handlers |-> IdleHandler]
    /\ checkout = [c \in Checkouts |-> IdleCheckout]
    /\ cron = IdleCron
    /\ activated = [o \in Orders |-> 0] /\ rewarded = {} /\ overtaken = {}
    /\ troubles = [failures |-> 0, crashes |-> 0]

Idle ==
    /\ \A h \in Handlers : handler[h].pc = "idle"
    /\ \A c \in Checkouts : checkout[c].pc = "idle"
    /\ cron.pc = "idle"
MayStart == Overlap \/ Idle

Newest(rows) == Len(rows)   \* findFirst by descending createdAt; 0: no row

-----------------------------------------------------------------------------
(* createCryptoCheckout *)

GoCheckout(c, pc) == checkout' = [checkout EXCEPT ![c] = [@ EXCEPT !.pc = pc]]

\* The client asks for a checkout, as long as the model has an order left.
BeginCheckout ==
    /\ MayStart /\ checkout["client"].pc = "idle"
    /\ \E o \in Orders : order[o].status = "none"
    /\ GoCheckout("client", "create")
    /\ UNCHANGED <<world, order, coingate, subs, user, handler, cron, history, troubles>>

\* The renewal cron lists the subscriptions that end soon, at an hour before
\* the one it runs at, or after it.
EndsEarlier(row) ==
    row.status = "ACTIVE" /\ ~row.cancel /\ row.end > now /\ row.end <= now + Window
EndsLater(row) ==
    row.status = "ACTIVE" /\ ~row.cancel /\ row.end >= now /\ row.end < now + Window

\* The renewals that are left of a run: the rows as they were listed.
Renew(todo) ==
    IF todo = <<>> THEN IdleCheckout ELSE [pc |-> "check", order |-> None, todo |-> todo]

BeginRenewals ==
    /\ MayStart /\ "renewal" \in due /\ checkout["renewal"].pc = "idle"
    /\ due' = due \ {"renewal"}
    /\ \E rows \in {SelectSeq(subs, EndsEarlier), SelectSeq(subs, EndsLater)} :
        checkout' = [checkout EXCEPT !["renewal"] = Renew(rows)]
    /\ UNCHANGED <<now, order, coingate, subs, user, handler, cron, history, troubles>>

\* Mutant: an order that expired still counts as pending.
PendingForEver(o, start) ==
    order[o].renewal /\ order[o].status \in {"new", "pending", "expired"} /\ order[o].created > start

PendingRenewal(o, start) ==
    order[o].renewal /\ order[o].status \in {"new", "pending"} /\ order[o].created > start

CheckPending ==
    /\ checkout["renewal"].pc = "check"
    /\ checkout' = [checkout EXCEPT !["renewal"] =
           IF \E o \in Orders : PendingRenewal(o, Head(@.todo).start)
           THEN Renew(Tail(@.todo)) ELSE [@ EXCEPT !.pc = "create"]]
    /\ UNCHANGED <<world, order, coingate, subs, user, handler, cron, history, troubles>>

\* The order is stored before CoinGate is asked.
CreateRecord(c) ==
    /\ checkout[c].pc = "create"
    /\ \E o \in Orders :
        /\ order[o].status = "none"
        /\ order' = [order EXCEPT ![o] = [status |-> "new", renewal |-> c = "renewal", created |-> now]]
        /\ checkout' = [checkout EXCEPT ![c] = [@ EXCEPT !.pc = "call", !.order = o]]
    /\ UNCHANGED <<world, coingate, subs, user, handler, cron, history, troubles>>

CreateOrder(c) ==
    /\ checkout[c].pc = "call"
    /\ gate' = [gate EXCEPT ![checkout[c].order] = "open"]
    /\ GoCheckout(c, "update")
    /\ UNCHANGED <<world, order, offered, ipns, answered, subs, user, handler, cron, history, troubles>>

StoredStatus(o) == "new"

\* CoinGate's answer is stored without a look at the row; the link goes to
\* the client or into the e-mail.
StoreUrl(c) ==
    /\ checkout[c].pc = "update"
    /\ order' = [order EXCEPT ![checkout[c].order].status = StoredStatus(checkout[c].order)]
    /\ IF c = "client"
       THEN /\ offered' = offered \cup {checkout[c].order}
            /\ checkout' = [checkout EXCEPT ![c] = IdleCheckout]
       ELSE GoCheckout(c, "email") /\ UNCHANGED offered
    /\ UNCHANGED <<world, gate, ipns, answered, subs, user, handler, cron, history, troubles>>

SendEmail ==
    /\ checkout["renewal"].pc = "email"
    /\ offered' = offered \cup {checkout["renewal"].order}
    /\ checkout' = [checkout EXCEPT !["renewal"] = Renew(Tail(@.todo))]
    /\ UNCHANGED <<world, order, gate, ipns, answered, subs, user, handler, cron, history, troubles>>

-----------------------------------------------------------------------------
(* CoinGate *)

Send(o, statuses) == ipns' = ipns \cup {[order |-> o, status |-> s] : s \in statuses}

\* The user opens the link and chooses a coin.
AwaitPayment(o) ==
    /\ o \in offered /\ gate[o] = "open"
    /\ Send(o, {"pending"})
    /\ UNCHANGED <<world, order, gate, offered, answered, subs, user, handler, checkout, cron, history,
                   troubles>>

\* The user pays by the link.
Pay(o) ==
    /\ o \in offered /\ gate[o] = "open"
    /\ gate' = [gate EXCEPT ![o] = "paid"]
    /\ Send(o, {"pending", "paid"})
    /\ UNCHANGED <<world, order, offered, answered, subs, user, handler, checkout, cron, history, troubles>>

\* Or lets the order expire.  An order being stored is minutes old at most.
Expire(o) ==
    /\ gate[o] = "open" /\ \A c \in Checkouts : checkout[c].order # o
    /\ gate' = [gate EXCEPT ![o] = "expired"]
    /\ Send(o, {"expired"})
    /\ UNCHANGED <<world, order, offered, answered, subs, user, handler, checkout, cron, history, troubles>>

-----------------------------------------------------------------------------
(* handleCoinGateIpn *)

Deliver(h) ==
    /\ MayStart /\ handler[h].pc = "idle"
    /\ \E m \in ipns :
        handler' = [handler EXCEPT ![h] =
            [@ EXCEPT !.pc = "claim", !.order = m.order, !.status = m.status]]
    /\ UNCHANGED <<world, order, coingate, subs, user, checkout, cron, history, troubles>>

GoHandler(h, pc) == handler' = [handler EXCEPT ![h] = [@ EXCEPT !.pc = pc]]

\* Mutant: the claim does not look at the status.
ClaimableAlways(o) == TRUE

\* Mutant: only an order nothing has been heard of is claimed.
ClaimableNew(o) == order[o].status = "new"

Claimable(o) == order[o].status # "paid"

\* The atomic claim: one paid callback moves the order to paid, and a later
\* one of any status changes nothing.
Claim(h) ==
    /\ handler[h].pc = "claim"
    /\ LET o == handler[h].order status == handler[h].status IN
       IF Claimable(o)
       THEN /\ order' = [order EXCEPT ![o].status = status]
            /\ overtaken' = CASE status = "expired" -> overtaken \ {o}
                              [] status = "pending" /\ order[o].status = "expired" -> overtaken \cup {o}
                              [] OTHER -> overtaken
            /\ GoHandler(h, IF status = "paid" THEN "base" ELSE "reply")
       ELSE GoHandler(h, "reply") /\ UNCHANGED <<order, overtaken>>
    /\ UNCHANGED <<world, coingate, subs, user, checkout, cron, activated, rewarded, paidUntil, troubles>>

\* Mutant: a renewal begins today.
BaseToday(rows) == now

\* Renewals extend from the current period end when still in the future.
Base(rows) ==
    LET i == Newest(rows) IN
    IF i # 0 /\ rows[i].status = "ACTIVE" /\ rows[i].end > now THEN rows[i].end ELSE now

ReadBase(h) ==
    /\ handler[h].pc = "base"
    /\ handler' = [handler EXCEPT ![h] =
           [@ EXCEPT !.pc = "find", !.start = now, !.end = Base(subs) + Period]]
    /\ UNCHANGED <<world, order, coingate, subs, user, checkout, cron, history, troubles>>

\* activateSubscriptionFromPayment reads the newest row again, writes it or
\* a first one,
FindExisting(h) ==
    /\ handler[h].pc = "find"
    /\ handler' = [handler EXCEPT ![h] = [@ EXCEPT !.pc = "write", !.row = Newest(subs)]]
    /\ UNCHANGED <<world, order, coingate, subs, user, checkout, cron, history, troubles>>

WriteSubscription(h) ==
    /\ handler[h].pc = "write"
    /\ LET i == handler[h].row start == handler[h].start end == handler[h].end IN
       /\ subs' = IF i = 0
                  THEN Append(subs, [status |-> "ACTIVE", start |-> start, end |-> end, grace |-> 0,
                                     cancel |-> FALSE])
                  ELSE [subs EXCEPT ![i] = [@ EXCEPT !.status = "ACTIVE", !.start = start, !.end = end,
                                                     !.grace = 0]]
       /\ paidUntil' = IF end > paidUntil THEN end ELSE paidUntil
    /\ activated' = [activated EXCEPT ![handler[h].order] = @ + 1]
    /\ GoHandler(h, "user")
    /\ UNCHANGED <<world, order, coingate, user, checkout, cron, rewarded, overtaken, troubles>>

\* and makes the user ACTIVE.
WriteUser(h) ==
    /\ handler[h].pc = "user"
    /\ user' = "ACTIVE"
    /\ GoHandler(h, "commission")
    /\ UNCHANGED <<world, order, coingate, subs, checkout, cron, history, troubles>>

\* processPaymentCommissions, which PayoutLedger models.
Reward(h) ==
    /\ handler[h].pc = "commission"
    /\ rewarded' = rewarded \cup {handler[h].order}
    /\ GoHandler(h, "reply")
    /\ UNCHANGED <<world, order, coingate, subs, user, checkout, cron, activated, paidUntil, overtaken, troubles>>

Reply(h) ==
    /\ handler[h].pc = "reply"
    /\ answered' = answered \cup {[order |-> handler[h].order, status |-> handler[h].status]}
    /\ handler' = [handler EXCEPT ![h] = IdleHandler]
    /\ UNCHANGED <<world, order, gate, offered, ipns, subs, user, checkout, cron, history, troubles>>

-----------------------------------------------------------------------------
(* cancelSubscription, reactivateSubscription *)

SetCancel(value) ==
    /\ MayStart /\ subs # <<>>
    /\ subs' = [subs EXCEPT ![Len(subs)].cancel = value]
    /\ UNCHANGED <<world, order, coingate, user, handler, checkout, cron, history, troubles>>

-----------------------------------------------------------------------------
(* processSubscriptionLifecycle *)

\* Mutant: the last day of a period counts as over.
ExpiredToday == {i \in DOMAIN subs : subs[i].status = "ACTIVE" /\ subs[i].end <= now}

Expired == {i \in DOMAIN subs : subs[i].status = "ACTIVE" /\ subs[i].end < now}
\* A grace period begins at midnight and ends at midnight, a moment before or
\* after the cron reads the clock.
GraceExpired(today) == {i \in DOMAIN subs : subs[i].status = "PAST_DUE" /\ subs[i].grace < today}

\* The loop over rows, or what comes after it.
LoopOver(rows, pc, then) == [pc |-> IF rows = {} THEN then ELSE pc, rows |-> rows]
NextRow == CHOOSE i \in cron.rows : \A j \in cron.rows : i <= j

ListExpired ==
    /\ MayStart /\ "lifecycle" \in due /\ cron.pc = "idle"
    /\ due' = due \ {"lifecycle"}
    /\ cron' = LoopOver(Expired, "fail", "list")
    /\ UNCHANGED <<now, order, coingate, subs, user, handler, checkout, history, troubles>>

\* applyPaymentFailure: the row by its id, then the user.
FailRow ==
    /\ cron.pc = "fail"
    /\ subs' = [subs EXCEPT ![NextRow].status = "PAST_DUE", ![NextRow].grace = now + Grace]
    /\ cron' = [cron EXCEPT !.pc = "suspend"]
    /\ UNCHANGED <<world, order, coingate, user, handler, checkout, history, troubles>>

SuspendUser ==
    /\ cron.pc = "suspend"
    /\ user' = "SUSPENDED"
    /\ cron' = LoopOver(cron.rows \ {NextRow}, "fail", "list")
    /\ UNCHANGED <<world, order, coingate, subs, handler, checkout, history, troubles>>

ListGraceExpired ==
    /\ cron.pc = "list"
    /\ \E today \in {now, now + 1} : cron' = LoopOver(GraceExpired(today), "unpaid", "idle")
    /\ UNCHANGED <<world, order, coingate, subs, user, handler, checkout, history, troubles>>

MarkUnpaid ==
    /\ cron.pc = "unpaid"
    /\ subs' = [subs EXCEPT ![NextRow].status = "UNPAID"]
    /\ cron' = [cron EXCEPT !.pc = "deactivate"]
    /\ UNCHANGED <<world, order, coingate, user, handler, checkout, history, troubles>>

DeactivateUser ==
    /\ cron.pc = "deactivate"
    /\ user' = "INACTIVE"
    /\ cron' = LoopOver(cron.rows \ {NextRow}, "unpaid", "idle")
    /\ UNCHANGED <<world, order, coingate, subs, handler, checkout, history, troubles>>

-----------------------------------------------------------------------------
(* Time, failures and crashes *)

\* Both crons have run before the day ends.
Tick ==
    /\ now < MaxTime /\ due = {} /\ cron.pc = "idle" /\ checkout["renewal"].pc = "idle"
    /\ now' = now + 1 /\ due' = Crons
    /\ UNCHANGED <<order, coingate, subs, user, handler, checkout, cron, history, troubles>>

\* A query, CoinGate or the mail server fails: the handler answers 500, the
\* checkout ends, the cron gives up this user or the run.
Failure ==
    /\ troubles.failures < MaxFailures
    /\ troubles' = [troubles EXCEPT !.failures = @ + 1]
    /\ \/ \E h \in Handlers : /\ handler[h].pc # "idle"
                              /\ handler' = [handler EXCEPT ![h] = IdleHandler]
                              /\ UNCHANGED <<checkout, cron>>
       \/ \E c \in Checkouts : /\ checkout[c].pc # "idle"
                               /\ checkout' = [checkout EXCEPT ![c] =
                                      IF @.todo = <<>> \/ @.pc = "check" THEN IdleCheckout
                                      ELSE Renew(Tail(@.todo))]
                               /\ UNCHANGED <<handler, cron>>
       \/ cron.pc # "idle" /\ cron' = IdleCron /\ UNCHANGED <<handler, checkout>>
    /\ UNCHANGED <<world, order, coingate, subs, user, history>>

Crash ==
    /\ troubles.crashes < MaxCrashes
    /\ troubles' = [troubles EXCEPT !.crashes = @ + 1]
    /\ handler' = [h \in Handlers |-> IdleHandler]
    /\ checkout' = [c \in Checkouts |-> IdleCheckout]
    /\ cron' = IdleCron
    /\ UNCHANGED <<world, order, coingate, subs, user, history>>

-----------------------------------------------------------------------------
(* The specification *)

HandlerStep(h) ==
    \/ Deliver(h) \/ Claim(h) \/ ReadBase(h) \/ FindExisting(h) \/ WriteSubscription(h)
    \/ WriteUser(h) \/ Reward(h) \/ Reply(h)

CheckoutStep ==
    \/ BeginCheckout \/ BeginRenewals \/ CheckPending \/ SendEmail
    \/ \E c \in Checkouts : CreateRecord(c) \/ CreateOrder(c) \/ StoreUrl(c)

CronStep ==
    \/ ListExpired \/ FailRow \/ SuspendUser \/ ListGraceExpired \/ MarkUnpaid \/ DeactivateUser

Next ==
    \/ \E h \in Handlers : HandlerStep(h)
    \/ \E o \in Orders : Pay(o) \/ AwaitPayment(o) \/ Expire(o)
    \/ \E value \in BOOLEAN : SetCancel(value)
    \/ CheckoutStep \/ CronStep \/ Tick \/ Failure \/ Crash

Spec == Init /\ [][Next]_vars

-----------------------------------------------------------------------------
(* Properties *)

\* Nothing is under way, every callback is answered and today's crons have run.
Quiet == Idle /\ ipns \subseteq answered /\ due = {}

\* "A repeated or concurrent paid IPN activates once": duplicates, reordered
\* callbacks and retries never turn one payment into two periods.
ActivatedOnce == \A o \in Orders : activated[o] <= 1

\* "Late non-paid statuses never downgrade it", and neither does the checkout,
\* which stores CoinGate's answer without a condition.
PaidStaysPaid ==
    [][\A o \in Orders : order[o].status = "paid" => order'[o].status = "paid"]_vars

\* A payment CoinGate has taken is a period and a commission once its
\* callbacks are answered.
PaymentIsHonoured ==
    Quiet => \A o \in Orders : gate[o] = "paid" => activated[o] > 0 /\ o \in rewarded

\* "Renewals extend from the current period end when still in the future": a
\* payment adds a whole period to the days that are left.
PaymentExtends ==
    [][\A h \in Handlers :
         LET i == handler[h].row IN
         handler[h].pc = "write" /\ handler'[h].pc = "user" /\ Newest(subs) # 0
             => LET row == subs[Len(subs)] IN
                /\ Len(subs') = Len(subs)
                /\ row.status = "ACTIVE" /\ row.end > now => subs'[i].end = row.end + Period]_vars

\* The days a user has paid for are served: no cron takes a subscription
\* that a payment has renewed for a lapsed one.
PaidDaysServed ==
    Quiet /\ subs # <<>> /\ now <= paidUntil =>
        user = "ACTIVE" /\ \E i \in DOMAIN subs : subs[i].status = "ACTIVE"

\* Nobody is served for ever: the day after the period the user is suspended,
\* and INACTIVE when the grace period is over.
LapseIsNoticed ==
    Quiet /\ subs # <<>> =>
        /\ now > paidUntil => user \in {"SUSPENDED", "INACTIVE"}
        /\ now > paidUntil + 1 + Grace => user = "INACTIVE"

\* UNPAID subscription, INACTIVE user.
UnpaidIsInactive ==
    Idle /\ subs # <<>> /\ subs[Len(subs)].status = "UNPAID" => user = "INACTIVE"

\* The renewal cron passes over a subscription that is about to end only when
\* the user holds a link to an order that can still be paid, or that CoinGate
\* has not yet said to be over, or whose end was stored and then overwritten by
\* a callback CoinGate had sent before it.
PassesOver ==
    /\ checkout["renewal"].pc = "check" /\ checkout'["renewal"] # checkout["renewal"]
    /\ checkout'["renewal"].pc # "create" /\ troubles' = troubles

RenewalOffered ==
    [][PassesOver =>
         \E o \in offered :
            /\ order[o].renewal
            /\ gate[o] = "expired" =>
                  [order |-> o, status |-> "expired"] \notin answered \/ o \in overtaken]_vars

\* "One pending renewal order per user at a time", without the exception: it
\* does not hold, because the claim of a pending callback looks for paid orders
\* only.  Nothing else is sent for the order, and the cron waits for it until
\* the period is over.
EveryRenewalOffered ==
    [][PassesOver =>
         \E o \in offered :
            /\ order[o].renewal
            /\ gate[o] = "expired" => [order |-> o, status |-> "expired"] \notin answered]_vars
=============================================================================
