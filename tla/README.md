# EIDOS CRM: TLA+ models, model checking and proofs

This directory holds a formal model of the parts of the EIDOS CRM in which several
actors write the same state: webhooks that Stripe and CoinGate deliver more than once
and in any order, cron ticks, requests of clients and admins, the API calls of a browser
tab, and a process that may die between any two statements.  The system is an Express 5 / TypeScript backend over
PostgreSQL (Prisma), with a Next.js frontend.  It sells a subscription, provisions two
trading accounts of the subscriber on EasierProp (an external trade copier), and pays
commissions to the sponsors of a referral network.

Paths below are relative to the repository.  The backend is `src/src/`, the schema
`src/prisma/schema.prisma`.

- [The system](#the-system)
- [Modules](#modules)
- [Runs](#runs)
- [Fairness and deadlock](#fairness-and-deadlock)
- [What the code does not keep](#what-the-code-does-not-keep)
- [Proofs](#proofs)
- [Not modelled](#not-modelled)
- [Plan](#plan)

## The system

How the parts call one another:

```
  Stripe events --> stripe.webhook ---+                 +--> commission.service (earn, reverse)
                                      +--> subscription.service --+--> provisioning.service (trigger)
  CoinGate IPNs --> coingate.webhook -+                 |         +--> service-control.service (enqueue)
  daily crons   --> renewal, lifecycle -----------------+
  onboarding.service --(last step)--> provisioning.service
  minute cron   --> provisioning tick, service commands  --> EasierProp client
  monthly cron  --> qualification snapshots --> commission.service
  ten-min. cron --> challenge.service (freeze)
  clients       --> broker.service, prop.service --> service-control.service (account-sync commands)
  admins        --> payout batches, sponsor moves, retry / reprovision, start / stop / delete,
                    challenges, promos, plans
  browser tab   --> ApiClient (one refresh of the token for all its calls) --> all requests above
```

All state of the server is in PostgreSQL.  Between two `await`s nothing else runs in the process; at
every `await` anything may.  Most handlers write several rows in separate statements
without a transaction.  There are interactive transactions (READ COMMITTED) only
around payout batches, plans and a few account changes.

| Component | State | Operations | What is hard | What makes it correct |
|---|---|---|---|---|
| Commission ledger (`modules/commission/commission.service.ts`) | `Commission`, `PayoutBatch` rows | process and reverse a payment; create, export and pay a batch | transactions of several statements against single updates by id; refunds at any moment; redelivery | a row is in one batch, paid once, and a refund either voids it or is owed and deducted once |
| Referral network (`utils/network.utils.ts`, `modules/network/`) | `User.referredByUserId` | register with a code, assign and move a sponsor | the walk that looks for a cycle takes many queries | the links form a forest |
| Commission run (`commission.service.ts`, `qualification.service.ts`, `cron/network.cron.ts`) | `QualificationSnapshot` | walk up, freeze counts and flags, compress levels | network, counts and plan change during the walk; runs, cron and pages race for one snapshot | each level goes to the nearest sponsor whose frozen row unlocks it; the walk ends |
| Provisioning (`modules/provisioning/provisioning.service.ts`) | `EasierPropProvision`, hedge setups, accounts and keys at EasierProp | trigger, five idempotent steps, backoff, failure, retry, reprovision | stale rows held over slow calls, lost answers, crashes between a call and its record | one key, one account of a kind, one live hedge setup; COMPLETED is true; no record is stuck |
| Service commands (`service-control.service.ts`, `subscription.service.ts`) | `ServiceCommand` queue, `HedgeSetup.status`, accounts enabled at EasierProp | enqueue, cancel, execute, back off, requeue | payments and lapses land while a command runs or waits | a paying user is served, a lapsed one is not, DELETE is final |
| Crypto billing (`webhooks/coingate.webhook.ts`, `subscription.service.ts`, `cron/crypto-renewal.cron.ts`, `cron/subscription.cron.ts`) | `CryptoOrder`, `Subscription`, `User.status` | checkout, callbacks, activation, renewal, lapse | duplicated, reordered and retried callbacks; claim and activation are separate commits | a payment is one period exactly, paid days are served, unpaid ones end |
| Stripe billing (`webhooks/stripe.webhook.ts`, `subscription.service.ts`) | `Subscription`, `User.status`, what the service queue was asked | created, updated, paid, failed, deleted; cancel and reactivate | events in any order, again, and failing half way; two subscriptions of a user; the client writes the same column | an answered payment is rewarded; handled in order, row, user and service agree with Stripe |
| Onboarding (`modules/onboarding/`) | `OnboardingStep`, `User.onboardingProgress`, `User.status` | complete a step, recompute progress and status | three reads and a write, for the webhook and for a form at once | who has done every step leaves onboarding |
| Broker and prop accounts (`modules/broker/`, `modules/prop/`, `service-control.service.ts`) | account rows, `epAccountId`, the provision, the hedge setup, accounts at EasierProp | add, replace, designate, delete; rotate, replace, add, set broker, delete on EasierProp | commands work on accounts that change; each is retried from its start | the hedge setup trades with registered accounts, and with the current ones |
| Challenges and travel promos (`modules/challenge/`, `cron/network.cron.ts`) | challenges with their winners log, promo progress | freeze, edit, close; evaluate, confirm, redeem | cron, admins and dashboards write one row from what they read earlier | every expired challenge is frozen, over its whole window; a dashboard undoes no admin's decision |
| Compensation plans (`upsertPlan` of `commission.service.ts`) | `CommissionPlan.isActive` | create and activate | two transactions, each blind to the other's new row | an activation deactivates what was active |
| Browser session (`frontend/lib/api.ts`, `lib/auth-context.tsx`, token part of `modules/auth/`) | `sessionStorage`, the user of the pages, `refreshPromise`, calls under way | login, logout, reload, call, refresh, retry, save the profile | many calls find one token expired; a refresh outlives its session | one refresh; no session ends or returns without a reason; no call hangs |
| Registration and e-mailed codes, administration, dashboard reads, notifications, audit log, HTTP layer, encryption | own rows or none | | no protocol between actors | not modelled |
| `modules/{apikey,billing,config,device,ea,vps}`, pages of the frontend, tests, scripts | | | not mounted by `server.ts`, or display | not modelled |

`PROJECT.json` lists the components with their files, the hazards of this code at the
line where each bites, the lines every definition stands for, the runs, the mutants and
the theorems.

## Modules

One action is one statement, one call to the outside, or a run of statements nobody
can interleave with; `pc` fields are the `await`s of a handler.  Actions are named for
the function or the statement they model, variables for the column.  Where a module
has a definition whose comment begins with "Mutant", it is a plausible slip in the
definition that follows it; each property is checked to be violated by one.

**PayoutLedger** models `commission.service.ts`.  A commission is a row
`<<payment, level>>`, the unique key of the table.  A handler holds in `job` what the
code holds in memory (rows read, statuses seen) and what an open transaction has
written: `locked` rows are invisible to reads and block other writers until the commit
(`Unlocked`), and a statement that waited evaluates its condition again, as READ
COMMITTED does.  `ProcessPayment`/`InsertCommissions`, `StartReversal`/`ReverseRow`,
`CreateBatch`/`AttachRows`/`ReadCarryOvers`/`SettleAndCommit`, `MarkPaid`/
`DetachReversed`/`PayAndCommit` and `ExportCsv`/`MarkExported` are the five functions
that write.  `Crash` also stands for a failing statement: an open transaction rolls
back, a loop of single updates stops where it is.  **CommissionLifecycle** is what the
ledger promises of a row (none, earned, batched, paid, void, owed, settled), with no
batches, handlers or tables; `PayoutLedger!Lifecycle` maps the columns of a row to its
stage.

**ReferralTree** models the sponsor links and `assertNoSponsorCycle`, which climbs one
query at a time (`WalkUp`) before an unconditional write (`SetSponsor`).
**CommissionRun** extends it with the handlers of payments: the plan that is read first
(`Begin`), the upline walk (`ClimbOne`), `getOrCreateSnapshot` as a look-up, a count and an
insertion that may lose a race on the unique key (`LookUp`, `CountDirects`,
`CreateSnapshot`), and the compression (`Assign`).  A row freezes the count and two flags,
`qualifiesLevel2` and `qualifiesLevel3`, computed with the thresholds of the plan its writer
has read (`Freeze`); levels 2 and 3 go by the flags, every other level by the count and the
plan of the payment (`Unlocks`).  Beside the payments the monthly cron, user by user with the
thresholds it began with, and the page of an agent freeze rows (`BeginFreezing`,
`FreezerCounts`, `FreezerCreates`), sponsors move, subscriptions change, and administrators
activate another plan.  A plan of no levels is an active plan nobody earns from; `plan = None`
is none at all.  `NearestQualified` is the reference definition the finished run is compared with.

**Provisioning** models one user's record.  `tick` holds the row a tick has read and
still writes from; `request` the same for a retry or a reprovision; `keys` and
`accounts` are what EasierProp really has, so a lost answer or a crash can leave the two
sides apart.  `CreateKey`, `CreateAccount` and the like fail, succeed, or succeed and
lose the answer.  The rows of two users share nothing, so one user is enough.
DECOMMISSIONED, which a DELETE makes of a record, is in `AccountSync`.

**ServiceControl** models one user's queue of START, STOP and DELETE, with its backoff
and its lease, the executors, and what `activateSubscriptionFromPayment`,
`applyPaymentFailure` and `reactivateServiceIfPaused` do to it, statement by statement.
Any statement of an executor may fail, the audit event and the notification after its work
included (`StepFails`).  A 409 of EasierProp, which the code does not retry, is its cap on
accounts and cannot meet these three commands, which register none.  After a crash Stripe
repeats a payment or a lapse; a request of the admin, and a lapse the daily cron had found, is
`"lost"` (`AfterCrash`).

**CryptoBilling** models one user who pays by crypto, in days: CoinGate (`gate`, the
callbacks in `ipns`), the IPN handler from the claim to the answer, `createCryptoCheckout`
for the client and for the renewal cron, and the lifecycle cron with the rows it listed.
`activated`, `rewarded` and `paidUntil` are history variables: what the user is owed.
`overtaken` is another: the expired orders over whose end an earlier callback was stored, the
one case in which the renewal cron waits for an order nobody can pay.

**CardBilling** models a card payer: Stripe's own moves, the webhook `await` by `await`,
`completeStep` for the webhook and for a form of the onboarding wizard (`ReadSteps`,
`ReadStatus`, `WriteProgress`), the client who cancels, at the end of the period or at once
(`CancelNow`), and reactivates, and, as one step each, a crypto payment and the lifecycle cron of
the same user (`CryptoBilling` has their `await`s).  A handler, a form (`FormFails`) and the
process (`ProcessDies`) may fail after any `await`; Stripe delivers its event again, whereas only
the client can send a form again.  `service` is the hedge setup together with the command that
waits for it: `suspendServiceIfActive` enqueues a STOP only where a hedge setup is active, so a
suspension that finds the provisioning under way, or a START waiting, changes nothing
(`Stopped`), and the worker then goes on (`ServiceWorks`; `Provisioning` and `ServiceControl` have
its `await`s).  The webhook handles one event at a time, and a client has one request under way.
Four history variables name what a promise may depend on: that events are handled in order
(`ordered`), that no status is written over one it was not computed from (`raced`), that a
suspension found something to stop (`service.missed`), and that a form which failed after it had
stored its step was sent again (`lost`).

**AccountSync** models one provisioned user's accounts: the requests of
`prop.service.ts` and `broker.service.ts`, statement by statement, and the worker that
executes `SYNC_PROP_ROTATION`, `SYNC_BROKER_REPLACE`, `SYNC_BROKER_ADD`, `SET_HEDGE_BROKER` and
`DELETE`, call by call, with failures and retries.  A command that fails starts again from its
beginning, unless EasierProp has no room for the account (a 409), which ends it at once.  Some
requests write a row and enqueue no command: `archivePropAccount` and the `isActive` of
`updatePropAccount` (`EditProp`), and the forms of the wizard when a provisioned user sends them
again (`OnboardProp`, `OnboardBroker`).  `raced` records that one of them did.  A DELETE ends
the hedge setup and the provision (`ended`: archived, DECOMMISSIONED).  Enqueuing is one step here; `ServiceControl` has its two statements, as it has
leases and requeuing.

**Programs** models `challenge.service.ts` (the freeze of `cron` and administrator from the read to the
write, edits, promo progress as dashboards and administrators write it) and the
transaction of `upsertPlan` with its row locks.  The three share no rows, so a behaviour
is about one of them (`about`).

**ClientSession** models `ApiClient` in one browser tab: JavaScript runs to completion, so an action
reaches from one answer of the network or click to the next `await`.  `promise` is `refreshPromise`
of `api.ts` and may be the `null` that a refresh without a session leaves behind.  An expired
session sends the browser to the login page by an assignment of `location.href`; until that page
has come (`Unload`) the old one is `"leaving"` and its code goes on.  The profile form stores the
user it was rendered with (`call[r].user`).

`MC*.tla` give the constants values and declare symmetry; `*Proofs.tla` hold the proofs.

| Boundary | Its abstraction |
|---|---|
| PostgreSQL | row locks and the re-evaluation of a waiting statement, in `PayoutLedger`; elsewhere the code has single statements, which are atomic |
| EasierProp | registers, lists, enables and deletes; any call may fail, before or after it has done its work |
| Stripe | emits an event for each change of a subscription and delivers it in any order, again until it is answered with 200, and again when the answer is lost |
| CoinGate | sends a callback for each change of an order, again and in any order until it is answered with 200 |
| browser | a page load drops what is under way and keeps `sessionStorage`; a call is answered or given up |
| amounts | integers (cents), one currency; rates and rounding are constants of a row (`AmountOf`) |

## Runs

Every run is exhaustive over its instance.  `tlc -config <name>.cfg <module>`:

| Run | Instance | What it shows |
|---|---|---|
| `ledger_seq` (MCPayoutLedger) | 3 payments, 1 level, 1 agent, 3 batches, 1 handler; crashes | requests one at a time: the ledger implements `CommissionLifecycle`; paid totals equal the money that left (`Reconciled`); an answered refund has reversed every row |
| `ledger_conc` (MCPayoutLedger) | 2 payments, 2 batches, 2 handlers, events in any order | every interleaving of statements: a commission is in one batch (`AttachedOnce`), PAID rows are in paid batches, an open batch covers what it deducts |
| `network` (MCCommissionRun) | 3 users, every set of links (cycles too), 1 payment, 2 plans of 2 levels or none, 1 cron or page, 1 change (a move, a subscription or a plan), fair | a move closes no cycle that was not there; each earner is the nearest sponsor of the chain whose frozen row unlocks the level; every run ends |
| `prov_seq` (MCProvisioning) | both callers, 2 ticks, 2 retries, 2 reprovisions, 2 attempts, 1 crash; one at a time | the trigger works in either order; COMPLETED means live; a retry resumes where its inputs are |
| `prov_conc` (MCProvisioning) | 2 ticks, 1 retry, 1 reprovision, two at a time, 1 crash, fair | the stored key is never lost, one live hedge setup, one account of a kind, and every record settles |
| `svc` (MCServiceControl) | 1 payment, 1 lapse, DELETE of an admin, 2 attempts, 1 crash, two at a time, fair | DELETE is final and every command is executed or given up, whatever overlaps; a lapsed user is off once the queue is empty, unless a crash lost the lapse; a paying user is served if nothing overlapped or crashed |
| `bill_seq` (MCCryptoBilling) | 2 orders, 6 days, period 3, window 2, grace 1; one at a time | paid days are served, a payment adds a whole period, a renewal is offered unless its order's end was overwritten, a payment is honoured |
| `bill_conc` (MCCryptoBilling) | 1 order, 2 callbacks handled at once, 2 days, 2 failures, 1 crash, all overlapping | a payment activates once |
| `card` (CardBilling) | a newcomer, a payer or a user whose renewal was refused; 3 events in any order and again, 1 failure, 1 crypto payment or repeated form, 2 days, period 1, grace 1 | what was answered is done; in order, row, user and service agree with Stripe, unless a suspension came too early to stop anything; the row knows whether Stripe will renew; nobody is ACTIVE without a subscription, or stuck in onboarding unless a failed form was not sent again |
| `session` (ClientSession) | 3 calls (one saves the profile), 2 logins, 1 lost refresh, fair | calls share one refresh and end; no session ends or comes back without a reason, unless a logout left calls behind or the page is being left |
| `programs` (Programs) | 2 challenges, 4 plans, 2 administrators, 2 dashboards, 3 days, 3 edits, 1 failure, fair | expired challenges are frozen, over their whole window; dashboards leave what an administrator decided; an activation deactivates what was active |
| `sync` (AccountSync) | 3 prop and 3 broker accounts, 3 requests, two at a time, 2 attempts, 1 failure | edits and wizard forms among the requests: the hedge setup trades with accounts EasierProp has and, in order, with those the commands named last, which are the ones the user has now unless one was changed without a command |

All of them pass; the largest are `card` (8.2 million states), `bill_seq` (5.1 million), and, with
liveness, `network` (1.1 million) and `session` (0.5 million), at one to three minutes each.

Why the bounds are enough to be interesting:

- Three payments and three batches are the least in which a row is paid, refunded,
  deducted by a second batch, and could be deducted again by a third.  Amounts differ,
  so a wrong sum shows.  Two handlers are the least that race; for more
  of them the theorems below hold.
- Three users give uplines of two sponsors, so one can be skipped and the search can
  run out.  `network` begins in every set of links, so a mover also meets the cycles
  that two moves at once can leave (`sponsor_cycle`), and `MaxUplineWalk` of 5 lies
  above the number of users, so it is the visited set that has to end the walk.  One move
  from every set of links is every move there is.  One change is enough for a row that was
  counted before it, or frozen with the thresholds of the other plan, and is used after it;
  with two the run is eight times as large and passes too, without liveness.
- Two attempts (`MAX_ATTEMPTS` is configurable) reach a retry, exhaustion and resumption.
  Two ticks with one flag are all the cron can have under way.
- In `svc` a payment, a lapse and a DELETE put three commands of three kinds in the queue, two
  of them under way together.  A second payment or lapse takes the run from two minutes to
  far beyond that without showing a new kind of step.
- A period of 3 days, a window of 2 and a grace of 1 put every boundary of the
  two crons (last day, first late day, end of grace) within six days, with a second
  payment before, at and after it.  Two orders are the least for a renewal.
- `card` begins with a user who registers, with one who has paid and with one whose renewal was
  refused, so that three events reach the first payment with its onboarding, a renewal and its
  refusal, and the recovery or the end that follows it.  One failure is one repeated delivery after
  any `await`, a form that stops after its step, or the death of the process; two subscriptions of
  a user need one crypto payment, and a form that failed needs to be sent once more.  Four events
  from the first two states pass too, with a failure and no extra or the other way round (9.5 and 6
  million states).
- `session` needs three calls: one that begins the refresh, one that shares it and one that was
  sent with the old token and is refused after it.  Two logins are the least in which a refresh
  outlives its session.
- Four plans are the least in which each of two administrators activates two plans, one after the
  other's; three accounts of a kind allow a second replacement while the first is under way.

`MaxLost`, `MaxCrashes`, `MaxFailures`, `MaxChanges`, `MaxEdits`, `MaxEvents`, `MaxExtra`,
`MaxRequests`, `MaxLogins`, `MaxTime` and the sets of requests are the only bounds on
behaviours; each is named in the guard it appears in.

`ledger_agents.cfg` (two agents and two levels: a batch deducts from its own agent only) is kept
for another instance of the ledger and passes too.

## Fairness and deadlock

Safety runs assume nothing.  The liveness runs assume what the code schedules:

- `Provisioning!Fairness`: the cron fires every minute (`cron.schedule("* * * * *")`),
  so `StartTick` is weakly fair; a step that has begun ends, because the client gives up
  after its timeout and its last retry; a request that has begun ends; backoff is over
  when its time has come.  No action by an admin or a client is fair.  `Settles` says that a
  record in a working status later completes or is FAILED.
- `ServiceControl!FairSpec`: the same cron takes the next command and requeues expired
  leases, a running command and a handler that has begun go on, and backoff ends.
  Payments, lapses and requests need never come.
- `CommissionRun!FairSpec`: a handler that has begun runs until it answers, while the
  moves, the subscriptions, the plans and the cron around it do as they like.
- `ClientSession!FairSpec`: a call or a refresh that was sent is answered, or the browser gives
  up.  Nothing the user does and no expiry is fair.
- `Programs!FairSpec`: the cron lists and freezes every ten minutes (`*/10 * * * *`) and its `await`s
  end.  Administrators and dashboards need never come.

`CHECK_DEADLOCK FALSE` is set where the instance may stop: the requests, the orders and the
days of an instance run out, which is how a bounded history ends.  The ledger has no
such end and its runs check for deadlock: at the granularity of statements no two
transactions wait for each other's rows.

## What the code does not keep

Each of these is a property that a comment or a test of the repository states without
a condition, refuted by TLC with a schedule of the code.  The first group are
configurations to run as `tlc -config <name>.cfg <module>`.  They are why some passing
runs take one activity at a time, and why some properties carry a condition: the
promise holds there, and the schedule that breaks it is the one named here.

| Configuration | Property | Schedule |
|---|---|---|
| `refund_during_mark_paid` (MCPayoutLedger) | `PaidRefundIsCarriedOver` | a refund reads EARNED, `markPayoutBatchPaid` commits PAID, the refund writes REVERSED without the flag: the money is never carried over |
| `double_settlement` | `CarrySettledOnce` | two batches read and deduct one carry-over |
| `refund_before_processing` | `RefundedRowsReversed` | a refund finds no rows; the payment's rows are inserted afterwards |
| `refund_of_covering_row` | `PaidBatchCovered` | the row that covered a deduction is refunded before the batch is paid: negative total, and the debt is not carried on |
| `sponsor_cycle` (MCReferralTree) | `Acyclic` | A moves under B while B moves under A |
| `reset_clobbered` (MCProvisioning) | `ResetRespected` | the optimistic guard compares status and attempts, which a reset can leave as they were |
| `reprovision_during_tick` | `CompletedMeansLive` | `transition` writes by id over a row that was reprovisioned meanwhile |
| `registered_twice` | `RegisteredOnce` | the client sends a POST again whose answer was lost |
| `second_key` | `OneKeyIssued` | a crash between the creation of a key and its record |
| `payment_during_stop` (MCServiceControl) | `PayingUserAlwaysServed` | a payment lands after `executeStop` has looked at the subscription |
| `stop_half_done` | `PayingUserAlwaysServed` | a STOP interrupted after its calls is skipped after a payment, with the accounts off |
| `start_after_lapse` | `LapsedUserAlwaysStopped` | a START that waits is executed after a lapse that enqueued no STOP |
| `command_overtaken` | `InOrder` | a command in backoff is overtaken by a younger one |
| `duplicate_commands` | `DuplicatesCollapsed` | two requests look for a duplicate before either inserts |
| `claim_then_fail` (MCCryptoBilling) | `PaymentIsHonoured` | the claim of a paid order is committed, a later statement fails, and CoinGate's retry is taken for a duplicate: paid, and no period |
| `two_payments` | `PaymentExtends` | two orders paid at once extend the same period end |
| `lapse_of_renewed` | `PaidDaysServed` | the lifecycle cron fails a subscription that was renewed since it was listed |
| `lapse_half_done` | `UnpaidIsInactive` | a crash between two writes, the first of which hides the row from the next run |
| `renewal_blocked` | `RenewalOffered` | an order that was stored but never offered passes for a pending renewal |
| `refresh_stuck` (ClientSession) | `ExpiredTokenIsRefreshed` | a logout leaves a call behind, which is refused on the login page: `refreshAccessToken` finds no session and returns before its first `await`, its `finally` runs before the assignment, and the promise of `null` stays for the next login, whose first expired token ends the session.  With two workers TLC may report another one of the same kind: the refresh of the old session fails after the next login and ends it |

The rest are stated in their modules and refuted on the instance of a run when they are put in
the place of its properties:

| Instance | Property | Schedule |
|---|---|---|
| `refund_during_mark_paid.cfg` | `RefundedRowsDetached` | a refund between the two statements of `markPayoutBatchPaid` stays in the batch |
| `ledger_conc.cfg` | `PaidIsFinal` | a stale export relabels a PAID batch, which can be paid again |
| `programs.cfg` | `WinnersAreFinal` | cron and administrator both read an ACTIVE challenge; the second write replaces the winners log |
| `programs.cfg` | `AdminOnlyTransitions` | a dashboard that read NOT_REACHED writes REACHED over the CONFIRMED written meanwhile |
| `programs.cfg` | `OneActivePlan` | two activations at once: the `updateMany` of neither sees the row the other creates |
| `bill_seq.cfg` | `EveryRenewalOffered` | CoinGate's `pending` is delivered after its `expired`: the claim looks for paid orders only and stores it, and the renewal cron takes the dead order for a pending renewal until the period is over |
| `card.cfg` | `SuspendedIsStopped` | "Payment failed -> PAST_DUE + grace period + notifications + service Stop" (`subscription.service.ts:207`): a payment fails before the worker has made the hedge setup, or while a START waits; no STOP is enqueued, and the service then runs for a SUSPENDED user |
| `card.cfg` | `OnboardingAlwaysEnds` | "Marks an onboarding step COMPLETED and recomputes overall progress" (`onboarding.service.ts:79`): the last form fails after the first of the two; every step is COMPLETED, the user is in ONBOARDING, and nothing but that form, sent again, changes it |
| `session.cfg` | `OnlyLoginsBegin` | a profile form is accepted while the browser is leaving the page of an expired session, and stores its user again |
| `sync.cfg` | `RowsAreTraded` | "Re-submitting archives the previous prop account (rotation semantics, §5.4)" (`onboarding.service.ts:43`): the wizard's form, and an edit that archives or deactivates an account, write the row and enqueue no command, and the hedge setup goes on with the account that was archived |
| `sync.cfg` | `DeletedIsEmpty` | the call that lists the accounts fails once, and the DELETE removes the pair of the hedge setup only: a broker that was added later stays registered |

Two more are what the other conditions of `sync` are for (`deletion`, `mistaken`; `unsynced` and
`unregistered` are the rows written without a command, above).  A broker that is deleted while a command of
its own is under way (`broker.service.ts:213`) leaves the hedge setup on an account whose row is
gone.  A `SYNC_BROKER_REPLACE` of a broker that was never registered
(`service-control.service.ts:374`) takes the account of the hedge setup for the one to
remove.  And `AgreesWithStripe` of `CardBilling` needs its `ordered`: without it TLC delivers an
`updated` event after the `deleted` one, which makes the row ACTIVE again under an
INACTIVE user, since the webhook compares no times.

## Proofs

The theorems hold for every value of the constants: any number of payments, users, handlers,
ticks, calls, events, crashes and days.  They assume the named `ASSUME`s of the modules, which
every run evaluates (types of the constants; that users and levels are finite, and that somebody
triggers the provisioning), and where the code keeps a promise under a condition only, that
condition.  Each condition is a formula over the constants which a passing run satisfies, and
the schedule that refutes the promise without it is in the section above:

| Condition | Says | Theorems | Refuted without it by |
|---|---|---|---|
| `Sequential` | ledger requests do not overlap | `PaidRefundsAreCarriedOver`, `CarryOversAreSettledOnce`, `PaidBatchesReconcile`, `LedgerImplementsLifecycle` | `refund_during_mark_paid`, `double_settlement` |
| `InOrder` | a payment's events come one after the other | `RefundIsComplete` | `refund_before_processing` |
| `Sequential` (ReferralTree) | moves do not overlap | `MovesCloseNoCycle`, `NetworkIsForest` | `sponsor_cycle` |
| `Concurrency = 1` | a tick or a request at a time | `CompletedIsLive`, `CompletedStays`, `RetriesHaveTheirInputs` | `reprovision_during_tick`, `reset_clobbered` |
| `MaxLost = 0` | EasierProp's answers arrive | `AccountsAreRegisteredOnce` | `registered_twice` |
| no START in `AdminCommands` | the admin starts nobody who does not pay | `LapsedUsersAreStopped` | a START of the admin means to do so |
| `Reliable` | no await fails, no crash | `PaymentsAreHonoured`, `RenewalsAreOffered`, `PaidDaysAreServed` | `claim_then_fail`, `renewal_blocked` |
| `~Overlap` | billing activities do not overlap | `PaymentsExtend`, `PaidDaysAreServed` | `two_payments`, `lapse_of_renewed` |
| `TwoForms` | onboarding has two forms at least | `OnboardingIsLeft` | the instance of `card` with one form: the status a newcomer gets for the form is written over the one the payment wrote, and no second form puts it right |

Some properties have their condition inside, as a history variable (`calm`, `ordered`, `raced`,
`alone`, `lost`, `missed`, `overtaken`) or a place (`path = "leaving"`): they promise something of
the behaviours in which it still holds.  What the code does outside of it is in the section above,
with the schedule.

**PayoutLedgerProofs** rests on `LockInv`: `TypeOK`; `HeldRowsUnchanged` (a row an open
transaction has written is still what its statement checked, which is what the row lock buys);
`OneHolder` (no row is locked by two transactions); `JobBatch` and `JobPayment` (what a job
names exists).  The properties alone are not inductive: when `SettleAndCommit` attaches its
rows, only the lock says that they are still EARNED and free.  From it: `NeverDoubleAttached`,
`StatusNeverGoesBack`, `PaidRowsStayInPaidBatch`, all under every interleaving.
`RefundIsComplete` adds `RefundInv`.

`OpenBatchesAreCovered` is also for every interleaving: the attached rows of an open batch sum
to at least what it deducts from each agent.  `ClockInv` says that rows of one insertion are
rows of one payment, so `created` and the level name a row: the order in which the settlement
loop reads them has a last one.  `CoverInv` says that what a transaction is about to settle is
covered by the rows it has locked, and what an open batch has settled by the rows attached to
it; those never change while it is open, whereas settled rows can only leave.  Its lemmas about
sums over finite sets of rows (a sum is that of the parts, grows with its set, and follows a row
that is added) are proved by well-founded induction on strict inclusion.

When requests do not overlap, what a job remembers is still true (`MemoryInv`) and flagged and
settled rows are what they say (`CarryInv`), hence `PaidRefundsAreCarriedOver` and
`CarryOversAreSettledOnce`.  `PaidBatchesReconcile` adds `BooksInv`: a paid row is in a paid
batch, and a request that marks or relabels a batch finds it as it checked it; what the table
calls paid is then the money that left.  `LedgerImplementsLifecycle` is the refinement: every
step is a step of `CommissionLifecycle` or a stutter.

**NetworkProofs** proves `MovesCloseNoCycle` from any set of links, and from it
`NetworkIsForest` from a forest.  A cycle of a finite network is a set of users whose sponsors
are all in it (`Rootless`), which needs no recursion.  `WalkInv` adds `Walked(m)`: the sponsors
of the users a mover has visited are visited too, or the one it is at, and the user to be moved
is not among them.  `LinkClosesNoCycle` is the argument: a set that is rootless after the write
and holds the moved user shares with the visited ones a set that was rootless before it.  For
the commission run, `SearchInv` says that the chain of a handler repeats nobody, that the levels
it is done with are decided as `NearestQualified` decides them for the plan it has read, and that
the search of a level has passed over those only whose frozen row does not unlock it; a frozen
row is never written again.  Hence `RunTypeCorrect`, `UplinesAreSimple`, and `RunsCompress`, that
a finished run is what `NearestQualified` says, whatever moves, subscriptions and plans change
beside it.

**ProvisioningProofs** proves, under every interleaving, `TypeCorrect`, `KeyNeverLost`,
`HedgeIsUnique`, `KeyComesFirst` and `TriggersInEitherOrder`.  `ProvisioningInv` has what the
stale rows know: `TickKnows` and `RequestKnows` (a row held in memory is behind the stored one
in a way that writing it back loses no key), `OneTick` (the flag of the cron), `ProvKnows` and
`OneLiveHedge`.  `TriggerInv` says that each side looks after it has stored its fact, so that
the last one to look finds both.  `RegisterInv` gives `AccountsAreRegisteredOnce`: a tick that
is about to register an account has found none, and the flag of the cron keeps every other tick
away meanwhile.  `AloneInv` gives `CompletedIsLive`, `CompletedStays` and
`RetriesHaveTheirInputs`: alone, the row a tick holds is the record, unless its update went
through and what came after failed; and the ids of the record are registered, but while a
reprovision cleans up.

The same module goes on with the accounts once they are provisioned, and proves
`HedgesTradeRegistered` of AccountSync, for requests that overlap, and failures and retries
after any call.  `SyncInv` says that what an executor has read of its context is still so,
because nobody else writes it; `RowsInv` and `RemovalInv` that no command registers an account
whose row goes away, unless that race was counted; `TradeInv` that each account of the pair is
registered, recorded and the same in the provision and the hedge setup, or a command that writes
it is not done.  `Achieved` ties the place of the executor to what its calls have achieved so
far.

`HedgesTradeCurrent` is about the order of the queue: for any number of accounts and of changes
that come one after the other, with no failure, the hedge setup ends on an active broker, EasierProp
has no broker that was replaced and no prop account but the one traded with, and that one is the one
active prop account of the user, until a prop account is edited or sent with the wizard.  No command
follows such a write, so from then on nothing is said of the rows of the props (`PropCurrent`), while
what EasierProp has stays as the commands left it (`PropRegistered`).  `CurrentInv` says that a state is `Calm` unless it is `Disturbed`: requests overlapped in a
way that is counted, a call failed, the service ends, or a designation waits whose broker is no
longer active, so that it can only be refused (`Hopeless`).  `HedgeIsCurrent` leaves each of these
aside, or they lead to what it leaves aside.  `Calm` relates the four places that know of an
account.  `RowsKnown`: a broker that has a row is recorded, or a command or a request that
registers it is on its way.  `Ordered`: it is registered before any command that replaces or
designates that broker is executed, so that the executor removes the right account.
`BrokersKnown`: what is still on EasierProp though archived is about to be removed.  `Follows`:
the hedge setup trades with an account, or the last command that writes it names that account.

**ServiceControlProofs** proves `TypeCorrect` and `DeletedStaysDeleted`.  `WorkerKnows` says why
an executor that looked at the hedge setup some `await`s ago cannot undo a DELETE: only the
worker archives it, one command of a user runs at a time, and past the look at an archived one
only a DELETE goes on.  Two more say of the quiet state what a change on its way makes true of
every other.  `LapsedUsersAreStopped` (`LapseInv`): a STOP that ought to be executed is in the
hands of a lapse handler, or in the queue and will be, or was given up, or was lost with the process
by the cron.  `PayingUsersAreServed`
(`PayInv`): an account that is off belongs to a command in the queue, or to a payment that has
cancelled the command and has its START to enqueue.

**CryptoBillingProofs** proves, for any number of callbacks at once with failures and crashes
anywhere, `PaymentActivatesOnce` and `PaidOrderStaysPaid`.  `BillingInv` says that every
callback a handler holds was sent (`HandledWasSent`), that a paid order's link was given away
(`PaidWasOffered`) and by then its checkout had written the order for the last time
(`CheckoutOwnsOrder`, `OfferedIsStored`), that of the handlers of one order at most one has won
the claim (`OneWinner`), and that an order becomes a period only when paid (`ActivatedIsPaid`).
Four more have a condition.  `PaymentsAreHonoured` (`HonourInv`): an order that is stored as
paid is a period and a commission, or a handler is on the way to them, and what CoinGate has an
answer to is stored.  `RenewalsAreOffered` (`RenewInv`): a renewal order is with the user, or
the cron is about to send it, and an expired one is stored as such or was overtaken.  `PaymentsExtend`
(`SequentialInv`): alone, the end a handler read is the stored one.  `PaidDaysAreServed`
(`ServedInv`): there is one row, it ends on the last day paid for, and what the lifecycle cron
has listed is still over.

**CardBillingProofs** proves `AnsweredPaymentsAreDone`, for any events in any order with a
failure after any `await`.  `HandlerInv` ties the place of the handler to the type of its event:
who is about to answer a payment has passed the completed step and the commission.
`OnboardingIsLeft` (`OnboardInv`): once every step is done, a caller that has seen them all, or
a payment that is yet to be handled, will take the user out of onboarding, or else a form that
failed after it had stored its step is still to be sent again (`StillLost`).  A user is NEW until
the first form comes to its end, however many have stored their step before (`NewIsFirst`).
`ActiveUsersAreSubscribed` (`SubscribedInv`), `CancellationsAgree` (`WishInv`) and
`StatusFollowsStripe` (`AgreeInv`) say why row, user, service and Stripe agree once nothing is
under way: a disagreement has an event on its way that decides it.  The service follows the user's
status (`ServiceFollows`), up to a suspension that found no active hedge setup.  In order, no event after the
one being handled has been answered (`LaterUnanswered`), so the last that speaks has the last
word.

**ProgramsProofs** proves `TypeCorrect`, and three theorems about rows that were read some
`await`s ago, each by what its reader still knows.  `WindowsAreCovered` (`CronKnows`): the end
the cron read is past and still stored, unless an administrator raced it on that challenge.
`AdminDecisionsStand` (`ReaderKnows`): the progress a dashboard read is stored still, or another
has stored REACHED, unless an administrator wrote in between.  `ActivationReplaces`
(`TxnKnows`): what a transaction has seen is, once it has its locks, locked by it or deactivated
by another.

**ClientSessionProofs** proves `CallsShareOneRefresh` without a condition, and
`NoOtherSessionComesBack` and `SessionsEndForAReason` as long as no logout leaves calls behind and
the page is not being left for the login page.
`SessionInv` adds `Orderly` for that case: no promise of `null` is kept, a call under way means
a page with a session, the profile forms under way hold a user of that session, and the refresh is
of the session the pages show.

Only model-checked: the liveness properties (`Settles`, `CommandsSettle`, `RunEnds`, `CallsSettle`,
`ExpiredAreFrozen`), which the prover cannot express since fairness speaks of ENABLED.  Every
invariant and every other action property of the runs has a theorem.  The sums are folds, so
theorems can speak of them; induction over the finite sets they range over is done with sets in
the place of predicates (the library's theorem on minimal elements), as the provers take no
theorem with an operator for a parameter.

One more property is stated, and holds on the instance of a run when it is put in the place of
its properties: `LapseIsNoticed` (`bill_seq`).  `StatusForward`, `KeyBeforeAccounts`,
`PaidStaysPaid`, `CompletedIsFinal`, `UplineIsSimple`, `CarrySettledOnce` and
`PaidRefundIsCarriedOver` are proved (the last two for requests one at a time) and in no run.

## Not modelled

- *The pages, forms, charts and components of the frontend*, by far the largest part of the
  repository (some 25 000 lines of TypeScript).  A page fetches, shows and posts
  through `ApiClient`.  Its sessions and refreshes are in `ClientSession`, what it posts is an
  operation of a component above; what is left is layout, and component state that one
  user in one tab writes.  A model of it would restate assignments.
- *Modules no route mounts* (`modules/{apikey,billing,config,device,ea,vps}`): nothing executes them.
- *Administration, dashboards, reports and tree views*: reads, and requests to components that are
  modelled.
- *Registration, passwords, e-mailed codes, encryption, validation, rate limits, middleware*:
  one row of one user in one statement, cryptography, or configuration.
- *Notifications, audit events and e-mail*, but for their failing in the middle of a handler, which is a
  failure of that handler.
- *The statements around a sponsor link*: `registerUser` writes the row, its code, the link to the inviter
  and the events of the sponsor's feed one by one, so a failure in between leaves a user without
  sponsor whom a second try finds registered.  `ReferralTree` has the walk and the link.  The
  recursive queries over a downline only read (they have no end for a user in a cycle of
  links, which is one more reason for `NoNewCycle`).
- *Credentials and phases of accounts*: an edit of them is a write of one row that `AccountSync` does not
  tell apart, since no command reads them twice.
- *Rates, rounding and currencies* of commissions, and the scores of a leaderboard.
- *Several server processes.*  The code guards its crons by a flag in memory, so two
  processes would run two ticks; the repository runs one.
- *Two Stripe events handled at once.*  `CardBilling` handles one at a time, in any order; two
  payments at once are in `ServiceControl` and `PayoutLedger`, and for crypto in `bill_conc`.
- *Stripe's Customer Portal*, where a client can cancel without the backend, and two requests of one
  client at once: a change made there reaches the code as the events of `AskStripe` do, without the
  client's own write.

## Plan

Done: the inventory, the modules, runs and proofs above.  What is left, in this order:

1. *Registration*: newcomers who register with one another's codes, twice at once or failing half way,
   beside administrators who move them: the answered are linked to their inviter, the sponsor is told,
   a milestone is announced once.
2. *Proofs*: `LapseIsNoticed` of `CryptoBilling`; `DeletedIsEmpty` of `AccountSync`, with the
   conditions under which it holds (a call that fails refutes it).
3. *Larger instances* of `svc` (a second payment) when the states of its handlers can be
   merged.

Runs stay few and each asks a question of its own; new components join
existing modules and runs where they share state.
