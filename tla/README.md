# metawhat: a verification project

TLA+ models of the parts of this repository where money, messages, plans and
production itself can go wrong: charging, sending, refunding, retrying and
replaying. TLC checks the models on small instances, TLAPS proves the most
important results for every size. Paths below are relative to the repository
(`src/...` is its `src` directory); `W` stands for `src/workers/message.worker.ts`.

Contents: [the system](#the-system) · [inventory](#inventory) ·
[modules](#modules) · [runs](#runs) · [what the models found](#what-the-models-found) ·
[what the code does not give](#what-the-code-does-not-give) ·
[proofs](#proofs) · [not modelled](#not-modelled) · [plan](#plan) ·
[running it](#running-it)

## The system

metawhat is a multi-tenant SaaS over Meta's WhatsApp API. Companies top up a
prepaid wallet, send templates to contacts (singly, in bulk batches, in
campaigns, through a public API), answer inbound messages by hand or by
automations, and buy plans through Cashfree.

* A Next.js web process serves the pages and 357 API routes. Each route
  validates its input and calls a service of `src/server/services`.
* Services keep all state in PostgreSQL through Prisma. There are no explicit
  locks: exclusion is a conditional `updateMany ... where status = ...` whose
  `count` is tested, or a unique index. Transactions run at READ COMMITTED.
* BullMQ queues in Redis (`src/lib/queue.ts`) hand work to 18 worker programs
  under PM2 (`ecosystem.config.cjs`). *Two* processes run the message worker,
  each one job at a time. A queue retries a job up to its `attempts`; a job
  whose lock is not renewed is found stalled and handed out again.
* Meta and Cashfree call back through webhooks, more than once and in any
  order. Meta's are queued, Cashfree's are processed in the route.
* A maintenance worker runs 25 periodic jobs (`src/server/jobs`).

So every handler is a sequence of separately committed statements. Between two
of them any other process may run, the process may die, and the database, Redis
or the provider may fail. The repository has no tests, and these are the
behaviours a test would hardly reach anyway. `PROJECT.json` lists forty such
hazards, each at its line.

## Inventory

| Component | State | Operations | Interacts with | What makes it correct |
|---|---|---|---|---|
| Wallet (`wallet.service.ts`) | balance; CREDIT, DEBIT, REFUND rows | top-up, charge, refund | every sender, credit purchases | balance = rows; never overdrawn; refunds follow debits |
| Single message (`single-message.service.ts`, `scheduled-single-message.service.ts`) | `Message`, its BullMQ job | create + charge, enqueue, count usage, compensate, cancel | wallet, queue, worker | a canceled message is never sent; given-up messages are refunded once |
| Message worker (`message.worker.ts`) | `Message.status`, `metaMessageId` | load, claim, send, record, retry, fail, refund | queue, Meta, wallet, batch tracking | one sender at a time; no resend after the answer is recorded; every message ends |
| Status webhooks (`webhook.worker.ts`) | `Message.status`, counters | apply a report | Meta, batch tracking | delivery never moves back |
| Dead letters (`dead-letter-queue.service.ts`) | dead-letter rows | scan, retry, dismiss | BullMQ | a retried job does not send twice |
| Bulk sends (`bulk-message.service.ts`, `campaign-cancel.service.ts`, `bulk-message-tracking.service.ts`) | batch, recipients, counters | create + charge, enqueue, compensate, cancel, track | wallet, worker, webhooks | refund worth the charge and paid once; counters match messages |
| Campaigns and launch orchestrator (`campaign.service.ts`, `campaign-launch-orchestrator.service.ts`) | campaign, run, batches, recipients, reservation | start, plan, process batch, complete, cancel | wallet, throughput guard, worker | every message charged once; a canceled launch stops; nothing charged is forgotten; a run ends |
| Throughput guard (`campaign-throughput-guard.service.ts`) | Redis counters, policy | acquire slot, record failure | launch worker | limits hold per window |
| Public API (`src/server/public-api`) | `PublicApiIdempotencyKey` | start, reclaim, claim, complete, fail, retention | message services | one execution per key at a time; one effect per lifetime |
| Credit purchases (`credit-purchase.service.ts`) | `CreditPurchase` | checkout, verify, complete, fail | Cashfree, wallet, webhook route | credited once, only if paid, finally |
| Provider webhook events (`provider-webhook-event.service.ts`) | `ProviderWebhookEvent`, `CashfreeWebhookEvent` | start, complete, fail, retention | webhook routes | one processing per event; failed attempts are retried |
| Plan checkout (`plan-upgrade.service.ts`, `plan-checkout-reconciliation.service.ts`) | `PlanCheckout`, `CompanyPlanChange` | create, complete, expire, reconcile, review | Cashfree, subscriptions | a checkout changes the plan at most once, never when closed, and none stays open |
| Subscriptions (`subscription*.ts`, `cashfree-subscription.service.ts`, `scheduled-plan-change.service.ts`) | the company's plan fields, payments, scheduled changes | activate, renew, cancel, expire, lapse, apply | plan checkout, quotas | one payment, one period; a job ends no period that is paid; a cancellation is carried out |
| Billing refunds (`billing-refund*.service.ts`) | `BillingRefund`, credit note, downgrade | create, reconcile by webhook, scan, operator | Cashfree | booked as paid out; notes follow refunds |
| Usage quotas (`usage-quota.service.ts`) | counters per period | assert, increment, decrement, sync | senders | the counter stays within its limit under racing increments |
| Developer webhooks (`developer-webhook*.ts`) | outbox rows, deliveries | publish, claim, deliver, recover, retry | every publisher | each event reaches each endpoint, once |
| Campaign sequences (`campaign-sequence.service.ts`) | executions of a step and contact | select, decide, charge, enqueue, skip | message worker, webhooks, wallet | one message and charge per step; nobody is overlooked |
| Automation runtime (`automation-runtime.service.ts`, `automation-session.service.ts`, `automation-outbound-message.service.ts`) | sessions, executions, steps, usage | trigger, continue, walk, send, wait, fail, retry | inbound messages, wallet, queue | a node is charged once; an execution is counted once and ends |
| Contact import (`contact-import.service.ts`) | job, rows, contacts, tags, lists, consent | upload, validate, start, import, cancel | queue, inbound STOP | a completed import is whole, a canceled one stops; consent is not given back |
| Production operations (`production-operation-lock.service.ts`, `src/scripts/production-*.ts`) | lock row, lock file, maintenance mode | deploy, roll back, restore, takeover, release | every worker, through maintenance mode | one operation at a time, under maintenance mode |
| Inbox, partners, templates, accounts, notifications, analytics, chatbot | their own rows | CRUD, scans | – | see [not modelled](#not-modelled) |

## Modules

| Module | Models | Composes |
|---|---|---|
| `WalletLedger` | the promise of `wallet.service.ts`: an abstract machine with `TopUp`, `Charge`, `Refund` | – |
| `MessageStatus` | the status tables shared by worker and webhooks | – |
| `MessagePipeline` | one message from request to final status: requests, cancellation, queue, two worker processes, webhooks, dead letters | `MessageStatus`; refines `WalletLedger` |
| `BulkBatch` | a batch: creation, two racing cancellations, worker, webhooks, tracking counters | `MessageStatus`; refines `WalletLedger` |
| `ApiIdempotency` | the requests and the record of one Idempotency-Key, with a clock | – |
| `CreditPurchase` | checkout, verification, Cashfree, webhook deliveries, event ledger | refines `WalletLedger` |
| `Subscription` | the subscription row of one company and everything that writes it except a plan checkout | – |
| `PlanCheckout` | plan checkouts: page, webhook, reconciliation scan, reviewer, expiry | extends `Subscription`, whose row it writes |
| `CampaignLaunch` | launch runs of one campaign next to a direct start: dry run, confirmation, batches, cancellation | – |
| `CampaignSequence` | the follow-up steps of one campaign, with the worker that sends what they charge for | – |
| `AutomationRuntime` | one published flow answering one contact: jobs, sessions, executions, nodes | – |
| `ContactImport` | one import job, its wizard and its worker, next to the contacts' own messages | – |
| `BillingRefund` | the refunds of one invoice | – |
| `WebhookOutbox` | one event of the developer webhooks | – |
| `ProductionOperation` | deploy, rollback and restore scripts, their two locks, maintenance mode | – |
| `Selection` | what a query with a condition and an order returns, for `CampaignSequence` and `AutomationRuntime` | – |
| `MC*` | small instances for TLC | `MCBulkBatch`: `BulkBatch`, `ContactImport` · `MCServices`: `CreditPurchase`, `ApiIdempotency`, `BillingRefund`, `WebhookOutbox`, `ProductionOperation` · `MCCampaigns`: `CampaignLaunch`, `CampaignSequence`, `AutomationRuntime` · the others: the module they are named after |
| `WalletLedgerProofs`, `MessagePipelineProofs`, `CreditPurchaseProofs`, `PlanCheckoutProofs` | theorems | the modules they are named after |
| `BulkBatchProofs`, `ServiceProofs`, `CampaignProofs` | theorems | `MCBulkBatch`, `MCServices`, `MCCampaigns`, whose specifications the runs check |
| `FoldLemmas` | what the sums and selections of the models compute | `Selection` |

`MCBulkBatch`, `MCServices` and `MCCampaigns` put several components side by
side. These share neither state nor processes in the models, so a behaviour is
one of one component and the others stay where they start; the state space is
the sum of theirs, and one run answers for all of them. Where components do
share state they are one specification: `PlanCheckout` on `Subscription`,
launches and direct starts in `CampaignLaunch`, worker and webhooks in
`MessagePipeline`.

Conventions, the same in every module:

* **A step ends where the code awaits**: one database statement or transaction,
  one queue call, one request to a provider. Whatever the code computes between
  two awaits belongs to the step before. A request or a worker is a program
  counter (`create`, `cancel`, `pc`, `hook`, `thread`, ...) with the local
  variables that survive an await (`cur`, `err`, `ans`, `seen`, `due`, `row`).
* **A conditional `updateMany`** is one step that tests the *current* state. A
  `findUnique` followed by an `update` is two steps, and the second writes what
  the first decided.
* **Faults** are the members of a set, `Faults` or an environment; each action
  of the environment names the kinds it needs. A model without a fault kind is
  the same module with a smaller set. A run takes a *set* of environments and
  starts in any of them. A database fault sends a handler into its catch block
  (or out of it), a crash ends it without a trace.
* **Operators nobody calls** (`ClaimableAsLoaded`, `CancelableAnytime`,
  `CreditableAsRead`, `AnyRow`, `QuotaAsAsked`, ...) are plausible bugs: each
  stands before the operator it is a wrong version of. Substituting it makes one
  of the properties fail, which is how we know that the property depends on that
  line of the code. `PROJECT.json` pairs them.

### WalletLedger

`balance`, `credited` (sum of CREDIT rows), `debits` (charged items), `refunds`
(pairs of item and refunding handler). `Charge` tests and decrements in one
statement, as `debitWalletForMessage` does. `Refund` requires the debit row and
does *not* exclude an earlier refund by another handler: `refundWalletForMessage`
looks for one in a read of its own, so two can pass. Excluding a double refund
is a matter of who calls it, and is stated where the callers are
(`SettledExactlyOnce`, `RefundedOnce`).

### MessagePipeline

| State | Code |
|---|---|
| `status`, `scheduled`, `metaId` | `Message.status`, `scheduledAt`, `metaMessageId` |
| `job`, `owner`, `attempts`, `stalls` | the BullMQ job, whose lock it holds, `attemptsMade`, stall count |
| `create[m]` | the request: `enqueue` → `quota` → done, or `compensate` |
| `cancel[m]` | the cancellation: claim → remove job → read refund → write refund |
| `pc[w]`, `cur`, `err`, `ans` | a worker: `load` → `claim` → `send` → `record` → `finish`, or `fail` → `mark_read` → `mark_write` → `refund_read` → `refund_write` → `rethrow` |
| `hook` | the one status event the webhook worker applies (concurrency 1) |
| `accepted` | how often Meta accepted the message (a history no code keeps) |

BullMQ is external and modelled from its use: a waiting job is taken by an idle
worker, a finished one is completed, retried while attempts remain, or failed;
a job whose worker died is found stalled and handed out `MaxStalls` times. A
live worker may lose its lock (`LockLost`) and goes on; only the owner's answer
to BullMQ counts. Data the properties do not tell apart (bodies, templates,
phone numbers, error texts) is left out; an error is its kind, because the kind
decides between retry, permanent failure and maintenance.

### BulkBatch

One batch with one debit for the recipients that fit the balance, and the two
handlers that may pay it back as a whole. `recipient`, `queuedCount` and
`failedCount` are the tracking rows, updated by `WriteTracking` from what
`TrackRead` saw. Each job has one execution at a time here; repeated
executions are `MessagePipeline`'s subject.

### ApiIdempotency

`record` is the row of the key, `created` numbers the rows that ever existed,
`seen` is what a request has read, `held` the row it works under. Time is a
bounded clock, each request keeps the one reading (`now`) the code takes at its
start, and every deadline is compared with that reading. `MaxDuration` is how
long a request may run, an assumption about the platform the code does not
enforce.

### CreditPurchase

Cashfree is two variables: what became of each order, and the set of events it
reports. `Deliver` hands any reported event to any delivery, so repetitions and
every order are included. A delivery walks through the route: register the
event, or find it; read and write the log row; act on the purchase; mark;
succeed; or the two catch steps. `verify` is the page the customer returns to.

### Subscription and PlanCheckout

`company` is the part of the company row that says which plan is in force and
until when. Its writers: subscription orders activated by page and webhook,
scheduled changes, cancellation and its withdrawal, the renewal scan, the expiry
and lapse jobs, and plan checkouts. Most read first and write later without
looking again; the lapse and expiry jobs claim with a conditional `updateMany`.
The renewal scan goes by the rows of its list and, company by company, by the
clock of the moment.
`checkout` adds the checkouts with their orders at Cashfree, `applied` counts the
`CompanyPlanChange` rows of each. `completer` are pages and webhook deliveries,
`scan` the reconciliation job, `reviewer` the person who approves or rejects a
checkout in manual review. `manuallyExtendSubscriptionPeriod` has no caller, and
the route of `changeSubscriptionPlan` is disabled in production: neither is here.

### CampaignLaunch

`run` and `recipient` are the launch rows; `message` records who made the one
message a contact can have (the unique `campaignContactId`). The worker takes a
batch, charges recipient by recipient (each a transaction of two steps: it reads
the run, and commits later), enqueues the batch at its end, and adds the job of
the next batch under an id of its own. `request` are dry runs, confirmations,
cancellations and direct starts. A reservation holds no money back in the code,
so it is no state here. `late` counts messages made after a cancellation.

### CampaignSequence

`mail[c, s]` is the message of a contact at a stage, `execution[c, s]` the row of
a step. A run (`ticker`) takes at most `TickBatch` contacts in the order of
`line`, decides the condition of each, charges and enqueues. `answered` is the
rank the message's status had when the contact last replied: the code compares
the reply with `Message.updatedAt`, and a message is updated when its status
changes. `DELIVERED` reports and the condition CLICKED are left out: nothing
writes the `clickedAt` a CLICKED step looks for.

### AutomationRuntime

Each inbound message has one job and one execution; the sessions are the
contact's. `hand` executes a job: find or open the session, check the limit,
create or take up the execution, walk the nodes (`Kind`, `Leads`, `Failing`),
reuse the steps that are `done`, charge and enqueue for a SEND node, open a wait,
finish or fail. A job is retried, stalls, or goes on without its lock. `touched`
orders the sessions by `updatedAt`, which every update moves, also the ones that
only note the last execution or outbound message (`Note`).

### ContactImport

`job` and `row` are the import's rows, `contact` the contact of each phone number
with its tag and list (`listed`) and consent. Clicks write the job's status from
one they read before. A thread imports batch by batch, and each row in the steps
of `importWizardRow`: read the contact, write it, its tags and lists, its consent,
the row. `WritesIn` and `Stop` are the contacts' own messages, as the webhook
worker stores them. Duplicates are
found by country and number, while contacts are unique by national number.

### BillingRefund

`refund` are the rows of one invoice's refunds with their credit notes, `payout`
what became of each at Cashfree. `admin` creates one, `handler` applies a report
by webhook, scan or operator: all call `applyRefundStatusUpdate`. A scan counts its
attempt before it applies what Cashfree answered, or in its catch block.

### WebhookOutbox

`published` is the status of the outbox row, `deliveries` and `sendable` the rows
and jobs per endpoint, `outbox` the BullMQ job. Publishers with one idempotency
key make one row, and each of them adds its job unless it found it delivered. The
recovery at worker start and the retry button hand the same event out again.

### ProductionOperation

`lock` and `maintenance` are database rows, `lockFile` the file a restore keeps
because it replaces the database. A script takes the lock (or takes an expired
one over), switches maintenance mode on, works, and undoes both; a restore puts
lock row and maintenance mode back as they were in some backup (`SavedRows`).

## Runs

Each run's result is part of the project.

| Run | Instance | What it shows |
|---|---|---|
| `Pipeline` | 1 message, 2 workers, 2 attempts, 1 stall, 2 accepted sends; five fault sets | a canceled message is not sent, one sender at a time, accepted once while nothing fails, no resend after the record, delivery never moves back, and the wallet moves as the ledger allows |
| `Settled` | 2 messages, balance for 1, 2 workers; Meta fails in every way | every queued message ends, and exactly the given-up and canceled ones are refunded, once |
| `BulkBatch` | a batch of up to 2, 2 cancellations, 2 attempts; or an import of 4 rows (1 unusable), 2 clicks, 2 threads, batches of 2 | cancellation, refunds and counters of a batch; a completed import is whole, a canceled one stops |
| `Plans` | 1 checkout, page, webhook, scan, reviewer, user, change and order; period 2, grace 1, clock to 4; five environments | plans are applied once and never by closed checkouts, jobs respect paid periods, every checkout is decided, cancellations are carried out |
| `Services` | purchase: 1 with 2 verifications, 3 deliveries · key: 3 requests, lock 2, TTL 3, clock to 4 · refunds: 2 of an invoice of 2 · outbox: 2 publishers, 2 endpoints, 2 workers, 2 attempts · scripts: 2, deploy and restore, lock for 2 | credited once, finally and as the ledger allows; one effect per key; refunds booked as paid out; events delivered once; one operation at a time, under maintenance |
| `Campaigns` | launch: 3 contacts, 2 runs, 2 users, batch 2, money for 2 or 3, quota 2 · sequence: 2 contacts, NO_REPLY then OPENED, 2 tickers, batch 1 · automation: SEND, WAIT, SEND with an error edge, END, 2 messages, 2 hands, 2 attempts, 1 stall | charged and counted once, cancellation stops a launch, nothing is left behind, launches, follow-ups and executions come to an end |
| `Credentials`, `ApiConflict`, `WebhookRetry`, `PaidExpired`, `PaidPlan`, `ConsentKept` | as small as the case allows | violations, see below |

**Bounds, and why they are enough.** Messages only meet in the wallet, so one
message shows everything about sending, and two with money for one show the
race for the balance (`Settled`). Two workers are the deployment. Two attempts
give a first and a last one; `Credentials` has three, for a retry that is not the
last. One stall is BullMQ's default. `AcceptBound` cuts behaviours in which Meta
accepts one message again and again: two is the first resend, and every property
about sending speaks of the next one. A batch of two has a recipient that is not
the last; a third cancellation adds nothing to two, since the claim lets one
through. The clock of `ApiIdempotency` reaches past a lock and past the TTL;
three requests are the owner of the expired row, the one that reclaims it and
the one that arrives between. Three deliveries are a failed first one and two
retries that race. `MaxTime` of `Plans` is a period, its grace time and a tick
beyond, or two periods. A launch of three contacts in batches of two has a full
batch, a next one and a contact on its own; money for two and three are the
cases of a purse that does and does not last, and two runs are rivals. Two
contacts with batches of one are the smallest line in which one contact can hold
another up. The flow has each kind of node that keeps state and both edges out
of one; two messages are a trigger and its reply, or two triggers at once. Three
importable rows in batches of two are a full and a last batch; two of them are
one national number under two country codes. Two scripts are an owner and a
rival or successor; a third would need both to be wrong already, and the theorem
has any number. Purchases meet only in the balance, which `CreditPurchaseProofs`
and the refinement cover for any number.

Counters the code does not bound are cut in guards and named: `AcceptBound`,
`MaxClock`, `MaxTime`, `MaxStalls`, `MaxOutboxStalls`, `MaxRecoveries`,
`MaxReconciliations`. `MaxDuration` is how long a request may run, an assumption
about the platform the code does not enforce.

Deadlock is not checked: all these systems may come to rest, when every job is
done and no request is left.

**Fairness.** Nothing is assumed about the environment: users need not cancel,
webhooks need not come, Meta may reject, time out or lose every answer.

* `Settled`: weak fairness of each request once it has started, of each worker's
  handler, of the webhook write, and of some worker taking a waiting job. Node
  runs what it has started, and BullMQ hands out waiting jobs as long as a worker
  is idle. Claimed when no process dies, no statement fails and no maintenance
  comes: with those the code really leaves messages behind (`W:1102`).
* `Plans`: the clock, the reconciliation scan and the lapse job go on; they are
  repeatable jobs of the maintenance worker, each in one process. Strong fairness
  only of the two writes that a failing database can turn away for a while
  (`ScanExpire`, `LapseClaim`).
* `Campaigns`: the launch worker and requests under way go on; the sequence
  worker ticks for ever, its process being restarted by PM2, messages get sent
  and time passes; executions of automation jobs go on. Each property names the
  environments it is claimed in.

## What the models found

Six runs show the code doing something else than a document says; the
counterexample is the run.

1. `Credentials`: `docs/message-simulation.md:10-13` promises a company without
   credentials a failed message and its money back. The worker throws an
   `UnrecoverableError` that `isPermanentMessageSendError` does not recognise, so
   before the last attempt the message is only marked for a retry that BullMQ
   will not make. It stays `RETRY_PENDING` and charged.
2. `ApiConflict`: `docs/public-api-v1.md:22` says a key used with another payload
   is refused. The payload is compared with the row as read, and the claim at
   `public-api-idempotency.service.ts:157` does not compare again. A request that
   read the row before it expired can execute after another payload took it over
   and failed.
3. `WebhookRetry`: `docs/provider-webhook-idempotency.md:39` says a retry
   reprocesses a failed attempt. If the failure could not be stored either, the
   event stays `PROCESSING`, and every retry is answered as a duplicate.
4. `PaidExpired`: `docs/plan-checkout-reconciliation.md:26` says reconciliation
   expires *unpaid* checkouts. Expiry is decided before Cashfree is asked, so a
   paid checkout nobody looked up in time is expired and never applied.
5. `PaidPlan`: `docs/scheduled-plan-changes.md:24` says a paid plan remains until
   the end of its period. A scheduled change keeps the date it was made for and
   replaces a plan bought or renewed since.
6. `ConsentKept`: `docs/contact-import-foundation.md:40-41` says an import never
   gives consent back to an opted-out contact. It decides that from a contact
   read several awaits earlier; a STOP handled in between is overwritten.

## What the code does not give

The properties name the environments they are claimed in, and each restriction is
a behaviour the model has and the code does not rule out:

* **Messages.** A recorded failure whose refund fails is never refunded. A lost
  lock together with a failing statement lets two workers send one message; a
  lost answer, or one that could not be recorded, lets it be sent twice. A
  compensated request may have been sent.
* **Batches.** One canceled and then compensated is paid back twice; a single
  failed message of a batch is not paid back.
* **Purchases and plans.** A purchase marked failed by an earlier report is not
  credited when the payment succeeds. The renewal scan ends periods by what it
  read. The page may write FAILED over a checkout that has been applied.
* **Launches.** The worker overwrites CANCELED at the end of its batch, though it
  charges nobody after it. Rivals that meet on the unique `campaignContactId`
  abort a batch whose earlier messages are charged and never enqueued. A crash
  leaves recipients PROCESSING, a failing `queue.add` after QUEUING strands the
  run, and a second confirmation may set QUEUING after COMPLETED. The quota bounds
  its counter, not the messages: a launch and a direct start that have both passed
  the assertion make more than the limit.
* **Keys.** A request that outlives the lock of its key runs next to the one that
  takes the key over; `KeyGuardsEffects` is claimed for requests that do not.
* **Sequences.** One failed message fails the campaign and stops everybody's
  follow-ups. A READ report after a reply makes a NO_REPLY step forget the reply.
  Contacts that never read can hold up an OPENED step for others. A step that
  waits for CLICKED never fires.
* **Automations.** A crash after a flow began to wait lets the retry take the
  triggering message for its own reply. A retry after a failed execution opens a
  session nothing runs. A failure after a step completed un-completes it and
  follows the error edge. A node whose enqueueing fails is FAILED while its
  charged message stays QUEUED. An error of the limit check drops the message, and
  the last execution a plan allows cannot be taken up after a crash.
* **Imports.** Two starts can set IMPORTING after COMPLETED, with no job to come.
  Overlapping validations reset imported rows, COMPLETED may overwrite CANCELLED,
  and a crash with SKIP_EXISTING leaves a contact without its tags and list.
* **Refunds.** A refund Cashfree accepted whose answer was lost is FAILED here, is
  matched by no report and can be asked for again. A late PENDING overwrites
  PROCESSED until the scan repairs it.
* **Developer webhooks.** Repeating a half-done fan-out duplicates deliveries. A
  worker that dies leaves its event PROCESSING until a worker starts again, for
  the stalled re-run skips it and its finished job id blocks others for a day.
* **Production.** A script that outlives its lock releases the lock of a successor
  of the same kind, and a restore replaces the lock row. `docs/production-deploy.md:116-132`
  names backups and maintenance among what the lock excludes; only the three
  scripts take it.

## Proofs

`tlapm` proves every obligation of eight modules, with Z3, Zenon and LS4. Every
invariant, every safety property of steps and every refinement that a passing
run checks is stated by a theorem, for any number of messages, workers,
attempts, purchases, checkouts, contacts, rows, endpoints and scripts, and any
set of faults the property itself does not exclude. The bounds of the runs are
not needed.

**Assumptions.** They are about constants alone. Most are the `ASSUME` of the
modules, which TLC evaluates in every run: sets of processes and rows are
finite, their null values are not among them, prices, batches and attempts are
positive, and fault kinds come from the set that lists them. `SequenceAssumption`
and `AutomationAssumption` say what the code's validation of steps and flows
gives: known kinds of nodes and conditions, edges that lead to nodes.
`ImportAssumption` gives every usable row a phone number; `RefundAssumption`
makes amounts natural numbers. Three sets of theorems in `ServiceProofs` name
their own: `Lifetimes` (a lock lives a positive time), `OutboxBounds` (counters
are natural numbers) and `Durations`, of which one part says something about the
world: a request ends before the record of its key expires (`MaxDuration < Ttl`,
where `PUBLIC_API_IDEMPOTENCY_TTL_HOURS` is counted in hours). The instances
of the runs satisfy all three.

**How the theorems are about the runs.** `MCBulkBatch`, `MCServices` and
`MCCampaigns` run several components side by side. `EachBulkPart`, `EachService`
and `EachCampaignPart` prove that a behaviour of such a specification is one of
each of its components, so what is proved of `ImportSpec`, `RefundSpec`,
`SequenceSpec` and so on holds of what the runs check; `BulkTypes`,
`ServicesTypes` and `CampaignsTypes` are stated of the whole.

**Sums and queries.** Credits, charges and refunds are sums over a set, and the
selections of `CampaignSequence` and `AutomationRuntime` are folds over a
sequence; the library defines both by recursion. Its induction theorems cannot
be instantiated by the installed provers, but well-foundedness can be used
directly: `FoldLemmas` takes a smallest set, or a shortest sequence, for which
the claim fails, and shows that a smaller one fails too. A sum of natural numbers
is shown to count the units it is made of (`SumCounts`), which reduces arithmetic
of sums to cardinalities; `SelectedType` and `FirstFew` say what a query returns.

The argument is always an inductive invariant; the tables say what it has that
the property lacks.

**Money and messages**

| Theorem | Says | Argument |
|---|---|---|
| `LedgerCorrect` | `BalanceMatchesLedger`, `NeverOverdrawn`, `RefundsFollowDebits` | `LedgerInv`: types, finiteness of the row sets, the three properties. Cardinality of a disjoint union gives the arithmetic (`PriceOfUnion`) |
| `TypeCorrect` | `TypeOK` of the pipeline | inductive as it stands, because it says that a busy worker has a message; one lemma per group of actions |
| `PipelineRefinesLedger` | every step is a ledger step or moves no money | `RowsFresh`: a handler about to write a refund has not written it, and its message is charged. Without it the mapped step could write a row that exists, which moves money in the code and nothing in a set |
| `PipelineWalletConsistent` | `WalletConsistent` | the refinement, and `LedgerCorrect` instantiated |
| `CancellationHolds` | `CanceledNeverSent` | `CancelInv`: a message is `QUEUED` only until its first claim, so a cancellation that finds it `QUEUED` finds it untouched by Meta; afterwards its status is never sendable again. The property alone is not inductive: it does not say what a worker in the middle may hold |
| `ClaimIsExclusive` | `ExclusiveSender` unless both `lock` and `database` are in `Faults` | `SendInv`, two ways to be alone. Without lost locks a job, and so its message, belongs to one worker (`OwnInv`). Without failing statements nobody but the claimer makes a claimed message sendable again (`HoldInv`). With both kinds of fault neither holds, and neither does the property |
| `RecordedOnce` | `NoResendAfterRecord`, same restriction | `RecordedInv`: a message with an id is in a status the worker does not send |
| `AcceptedOnce` | `SentOnce` | `OnceInv`: without failing statements and lost answers, an accepted message is in a status nobody claims, and no worker holds it to send it or to give it back for a retry |
| `SettledOnce` | `SettledExactlyOnce` | `SettleInv`: a message that failed or was canceled without an id, and whose refund nobody is on the way to write, has one refund row, any other none; and a worker between claim and record has a message that is still SENDING (`WorkInHand`). The property speaks of messages at rest only, and says nothing of the handlers in between |
| `ReportsMoveForward` | `DeliveryMonotone` | `ReportInv`: a delivery status belongs to a recorded answer, and the report the webhook worker has read and will write is not behind the status the message has now: nobody else writes it meanwhile, by `RecordedInv`, which is why locks lost together with failing statements are excluded |
| `BatchTypeCorrect` | `TypeOK` of a batch | `TypeInv`: a busy worker has an active job, and a job that may still run an attempt left |
| `BatchCancellationHolds` | `CanceledBatchNeverSent` | `ClosedInv`: a batch is `SCHEDULED` only until its first claim, so a cancellation that finds it so finds nothing sent and no worker about to send; it leaves no message in a status that can be claimed |
| `BatchRefundedOnce` | `RefundedOnce` | `RowsInv`: at most one cancellation gets through, a row belongs to a handler that has paid, and whoever is about to pay has computed the whole charge |
| `BatchRefinesLedger` | `RefinesLedger` of a batch | the same invariant: the refund computed before the transaction is worth the charge when it is paid |
| `BatchFailedTrue` | `BatchFailedMeansAllFailed` | `CountInv`: `failedCount` and the failures not yet counted are at most the failed messages, so a counter that has reached the size of the batch has counted all of them |
| `BatchFailuresCounted` | `FailuresCountedOnce` | `TrackInv`: worker and webhook never write the status of one message (until Meta's answer is recorded it is the worker's, then the webhook's), and a recipient is `FAILED` only after its failure was counted; so a step adds one failure, counts one, or does neither |

**Purchases, plans and services**

| Theorem | Says | Argument |
|---|---|---|
| `CreditsMatchPurchases` | `CreditedOnce` | `PurchaseInv` says, with types and locals, that credits count PAID; the conditional updates preserve it |
| `CreditsArePaidFor` | `CreditedOnlyIfPaid` | the same invariant: a success report, and a verification about to complete, have seen the order paid, and an order stays paid |
| `CreditIsFinal` | `PaidIsFinal` | every write to a purchase excludes PAID |
| `PurchaseTypes`, `EventsDecided` | types; `AcknowledgedIsDecided` | `DecisionInv`: a delivery past its action holds an event whose purchase is decided, a log row says PROCESSED only then, and a purchase with an order exists, so both writes that end a purchase find it. A decision is never undone |
| `PurchasesImplementLedger` | `RefinesLedger` of purchases | a step credits one purchase that had no credit, so the sum grows by the pack (`FoldLemmas`), and stays below the price of all purchases; every other step leaves the sum alone |
| `PlansTypeCorrect` | types of checkouts and subscription | one lemma per process; a busy process holds a row it read |
| `ClosedCheckoutsAreClosed` | `ClosedNeverApplies` | every step that applies a plan does so in the transaction whose conditional update finds the checkout open |
| `CheckoutAppliedOnce` | `AppliedOnce` | `AppliedOnce` is inductive with the types: an application moves an open checkout to PAID, and nothing opens an applied one again |
| `PlansArePaidFor` | `AppliedOnlyIfPaid` | whoever is about to complete a checkout has seen its order paid or holds a checkout in review for which the scan has, and an order stays paid |
| `PaymentActivatedOnce` | `ActivatedOnce` | inductive with the types: the transaction that puts a plan in force tests the status of the payment row and sets it |
| `PaidPeriodsRespected` | `JobsKeepPaidPeriod` | `JobClocks`: the clock by which a job listed the companies is not ahead of the clock at which it writes, so what its conditional update finds over is over. The renewal scan, which writes by its list, is not one of these jobs |
| `OperationsInvariant` | types, and `OperationInv` | `LockInv`: a script at work owns the lock row of its kind and it has not expired; `OneOwner`: so there is one such script; `MaintenanceInv`: from its first stage it has maintenance mode on, and a script that failed for want of the lock does not switch it off |
| `OneOperationAtATime` | `OneOperation` | from `LockInv` and `OneOwner`. The property alone is not inductive: it says nothing of scripts about to take the lock over |
| `OperationsUnderMaintenance` | `WorksUnderMaintenance` | from `MaintenanceInv` |
| `KeyTypes`, `KeyGuards` | types; `KeyGuardsEffects` | `KeyInv`: while requests end before their lock, whoever executes works under the row that is there, with a lock of its own that has not expired (`RowInv`), so nobody else can claim it. If nobody dies or fails after its transaction, an effect leaves its row COMPLETED, and a later one needs a row made after that one expired (`EffectInv`) |
| `EventNotified` | `NotifiedOnce` | `OutboxInv`: an execution has notified the endpoints before the one it is at (`EarlierNotified`), and the job has one owner; undisturbed, one execution claims the event, and those after it touch nothing |
| `RefundTypes`, `RefundBooks` | types; `BooksFollowMoney` | `RefundInv`: a row, its note, the request that makes it and what Cashfree did agree at every stage (`RowsFollow`), what a handler has heard is what became of the refund, unless it heard that it was pending (`ReportsHold`), and the refunds at Cashfree add up to no more than the invoice (`PaidOut`). Types need `ScansBounded`: a scan that was allowed may be counted late, but each handler counts one |
| `ServicesTypes` | `ServicesTypeOK` | `EachService`, with the theorems above |

**Campaigns and imports**

| Theorem | Says | Argument |
|---|---|---|
| `LaunchTypes` | types of a launch | `LaunchInv`, whose `Placed` ties program counters to rows: a request is about a run that exists, an idle worker has no job, one with messages in its hands has yet to count them |
| `LaunchCharges` | `ChargedAndCounted` | `Accounts`: the money follows the set of messages made, and the counter of the quota those of them that are counted already, up to its limit; of the direct starts, one gets through (`StartsOnce`) |
| `LaunchCancels` | `CancelStopsLaunch` | `CancelStops`: a canceled run has nobody planned or in processing, and a worker in its loop either finds its recipients in processing or its run stopped; one message is late only if its transaction was under way |
| `LaunchLeavesNothing` | `NothingLeftBehind` | `CompletedUnplanned`: a run is completed by a worker that found nothing planned; `InHand`, `Queued`: what is in processing, or charged without a job, is in the batch of the worker, if nothing failed |
| `SequenceTypes`, `StepsChargeOnce` | types; `StepChargedOnce` | `AtHand`: a run that looks at a contact has one; `ChargedRows`: a run about to add a job has just charged for its message and no other run has the same, since the unique execution row let one through |
| `AutomationTypes`, `AutomationChargesOnce` | types; `EachOnce` | `Kept`: a hand has the session and the node its program counter speaks of (`HandsPlaced`), and a job has one hand unless its lock was lost (`JobsOwned`). A charge and the message it pays for are one transaction on a unique row, so `EachOnce` needs no locks for that; it does for counting |
| `ImportTypes`, `ImportsEnd` | types; `ImportEndsAsAsked` | `ImportInv`: a job belongs to one thread unless its lock is lost (`ImportOwned`); requests that do not overlap are over when the import starts (`InOrder`); a thread that is to complete the import, and a complete one, have left no row (`Decided`); after a cancellation, the rows decided and those the threads may still decide without reading the job again stay within a batch each (`OverrunBounded`, a sum over threads); and a contact of the import's own making without its tags is in the hands of a thread that lists it or will be found by a row (`Followed`) |
| `BulkTypes`, `CampaignsTypes` | `BulkTypeOK`, `CampaignsTypeOK` | the types of the components |

**What a proof found.** `CompletedIsWhole` (a completed import leaves none of its
contacts without tags and list) used to be claimed after a crash for the strategy
`UPDATE_EXISTING` whatever else goes wrong, and after a lost lock not at all unless
with that strategy. The step of the proof that a contact is `Followed` failed for
a good reason: if one execution of the job dies after creating a contact, and
another, which had lost its lock and found no contact before, tries to create it
too, it meets the contact and marks the row SKIPPED. TLC shows this with two
rows once the proof has said where to look; the run had crashes and lost locks in
different environments. The property now excludes the two together
(`Undisturbed`), and claims lost locks alone for every strategy, which is more
than before, and proved.

**Only model-checked.** Liveness: `EventuallySettled`, `EventuallyDecided`,
`CancellationCarriedOut`, `LaunchEnds`, `EverybodyFollowedUp`, `ExecutionEnds`.
They rest on weak and strong fairness, whose `ENABLED` is out of the prover's
reach. The six claims of documents that the code violates have counterexamples
and need no proof.

## Not modelled

* Pages and their components, which are most of the repository's lines, routes
  that only validate and call one service, and formatting.
* Template, media, consent, role and plan checks before the first write of a
  request: they read state the models do not have and then do nothing.
* In the message worker: developer webhooks and audit rows, which are written
  after the state change and read by nothing modelled; the campaign bookkeeping
  (`W:637-735`) is in `CampaignSequence`, one step per message. In the webhook
  worker: inbound messages except as the automations and imports see them,
  templates, counters of campaigns.
* The HTTP delivery of a developer webhook and its worker.
* The audit chain (`audit.service.ts:19-62`): writers that meet there fork the
  chain, but nothing reads it back.
* The throughput guard, whose policy adapts to measured failures; alerts; health
  and monitoring; backups as files; retention other than of idempotency keys.
* Broadcast services: they choose audiences and times and call the launch
  orchestrator. The older one-shot import (`contact-import.service.ts:344-533`).
* Automation nodes that compute, call other services or hand over to a person;
  loop limits; `processAutomationReplyTimeouts`, which has no caller.
* Chatbot, inbox, partners, templates, accounts, notifications, orders: mostly
  single-row changes of one request. `PROJECT.json` gives a reason per component.
* A transaction whose commit is reported as failed: a failing statement leaves
  no trace here.
* BullMQ, Meta, Cashfree and PostgreSQL are external, and modelled from how the
  code uses them.

## Plan

1. Done: money and messages (`WalletLedger`, `MessagePipeline`, `BulkBatch`,
   `CreditPurchase`), plans (`Subscription`, `PlanCheckout`), the public API
   (`ApiIdempotency`), campaigns and their answers (`CampaignLaunch`,
   `CampaignSequence`, `AutomationRuntime`), imports, refunds, developer webhooks
   and production operations, with the theorems above.
2. Done: a theorem for every safety property of the passing runs. Next proofs:
   the leads-to properties as far as they are safety in disguise (a message in
   retry always has a job that will take it up, a checkout that is due is always
   in reach of the scan), and the abstract specifications still worth stating: one
   of a job with attempts, stalls and locks, which the pipeline, the automation and
   the import each implement.
3. Next models: the delivery worker behind `WebhookOutbox`; the throughput guard
   as a component of `CampaignLaunch`; retrying failed recipients of a launch;
   inbox assignment and reply approval; the chatbot.

## Running it

    tlasany MessagePipeline.tla
    tlc -workers 2 -config PipelineSettled.cfg MCMessagePipeline.tla
    tlapm MessagePipelineProofs.tla

`PROJECT.json` lists each run with its module and configuration, the lines each
definition models, and the hazards with the properties that cover them. The
largest runs take two to three minutes each.
