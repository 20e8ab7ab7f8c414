----------------------------- MODULE Subscription -----------------------------
(***************************************************************************)
(* The subscription of one company: the fields of its row that say which   *)
(* plan is in force and until when, and everything that writes them except *)
(* a plan checkout -- the subscription page, renewal orders, and the four  *)
(* periodic jobs that end, downgrade or change a plan.                     *)
(*                                                                         *)
(* A step ends where the code awaits.  Most writers read the row first and *)
(* write later without looking again; the two jobs that claim the row with *)
(* a conditional updateMany do look.  Message limits, reminders, audit     *)
(* entries and notifications follow the plan and are left out.             *)
(***************************************************************************)
EXTENDS Integers, FiniteSets

CONSTANTS
    Paid,           \* the plans that cost money
    Users,          \* requests from the subscription page
    Changes,        \* ids of scheduled plan changes
    Orders,         \* ids of subscription payments
    NoChange,
    Period, Grace,  \* length of a billing period, days of grace
    MaxTime,        \* the clock stops here
    Environments    \* sets of actors and faults, one of which is in force

ASSUME SubscriptionAssumption ==
    Period \in Nat /\ Grace \in Nat /\ MaxTime \in Nat /\ "FREE" \notin Paid

VARIABLES
    env,            \* what may move besides requests, see Kinds
    now,
    company,        \* billingPlan, subscriptionStatus, currentPeriodEnd, cancelAtPeriodEnd
    change,         \* ScheduledPlanChange rows
    payment,        \* SubscriptionPayment rows
    activated,      \* how often a payment has put its plan in force
    request,        \* pc of a request, and what it has read
    renewal,        \* the renewal scan, with the row it read
    expiry, lapse,  \* the expiry and the cancellation job, with their clocks
    apply           \* the scheduled-change scan, with the change it read

subscriptionVars ==
    <<env, now, company, change, payment, activated, request, renewal, expiry, lapse, apply>>

Kinds ==
    { "database",       \* a statement or transaction of a handler fails
      "crash",          \* a process dies between two steps
      "provider",       \* a call to Cashfree fails
      "reconciliation", \* the checkout scan and manual reviews run
      "renewals",       \* the renewal scan runs
      "expiry",         \* the expiry and cancellation jobs run
      "scheduler",      \* plan changes are scheduled and applied
      "page",           \* the subscription page is used
      "orders" }        \* subscription payments are made

Plans == Paid \cup {"FREE"}
Times == 0..(MaxTime + Period)
Live  == {"TRIALING", "ACTIVE"}

May(kind) == kind \in env

CompanyRow == [plan : Plans, status : Live \cup {"PAST_DUE", "CANCELED"},
               ends : Times, cancelAtEnd : BOOLEAN]
ChangeRow  == [status : {"NONE", "SCHEDULED", "CANCELLED", "APPLIED", "FAILED"},
               to : Plans, due : Times]
PaymentRow == [status : {"NONE", "CREATED", "PAID", "FAILED"}, plan : Plans, ends : Times,
               order : {"ACTIVE", "PAID"}]
RequestRow == [pc : {"idle", "replace", "schedule", "undo", "cancel", "resume"},
               to : Plans, due : Times, rows : SUBSET Changes]

SubscriptionTypeOK ==
    /\ env \in Environments
    /\ now \in 0..MaxTime
    /\ company \in CompanyRow
    /\ change \in [Changes -> ChangeRow]
    /\ payment \in [Orders -> PaymentRow]
    /\ activated \in [Orders -> Nat]
    /\ request \in [Users -> RequestRow]
    /\ renewal \in [pc : {"idle", "past_due", "downgrade"}, seen : CompanyRow]
    /\ expiry \in [pc : {"idle", "claim"}, asOf : 0..MaxTime]
    /\ lapse \in [pc : {"idle", "claim"}, asOf : 0..MaxTime]
    /\ apply \in [pc : {"idle", "write", "catch"}, change : Changes \cup {NoChange}]
    /\ apply.pc # "idle" => apply.change \in Changes

Idle == [pc |-> "idle", to |-> "FREE", due |-> 0, rows |-> {}]
NoRow == [plan |-> "FREE", status |-> "TRIALING", ends |-> 0, cancelAtEnd |-> FALSE]

\* A new company, or one on a paid plan, at the beginning of a period.
SubscriptionInit ==
    /\ env \in Environments
    /\ now = 0
    /\ \E plan \in Plans : company =
           [plan |-> plan, status |-> IF plan = "FREE" THEN "TRIALING" ELSE "ACTIVE",
            ends |-> Period, cancelAtEnd |-> FALSE]
    /\ change = [c \in Changes |-> [status |-> "NONE", to |-> "FREE", due |-> 0]]
    /\ payment = [o \in Orders |-> [status |-> "NONE", plan |-> "FREE", ends |-> 0,
                                    order |-> "ACTIVE"]]
    /\ activated = [o \in Orders |-> 0]
    /\ request = [u \in Users |-> Idle]
    /\ renewal = [pc |-> "idle", seen |-> NoRow]
    /\ expiry = [pc |-> "idle", asOf |-> 0] /\ lapse = [pc |-> "idle", asOf |-> 0]
    /\ apply = [pc |-> "idle", change |-> NoChange]

Tick ==
    /\ now < MaxTime
    /\ now' = now + 1
    /\ UNCHANGED <<env, company, change, payment, activated, request, renewal, expiry, lapse, apply>>

\* A new period of a plan, free of any earlier cancellation.
Started(plan, status) ==
    [plan |-> plan, status |-> status, ends |-> now + Period, cancelAtEnd |-> FALSE]

-----------------------------------------------------------------------------
(* The subscription page.                                                  *)

Ask(u, pc, to, due, rows) == request' = [request EXCEPT ![u] =
    [pc |-> pc, to |-> to, due |-> due, rows |-> rows]]

Done(u) == request' = [request EXCEPT ![u] = Idle]

\* schedulePlanCancellation and schedulePlanDowngrade.
ScheduleRead(u, to) ==
    /\ May("scheduler")
    /\ request[u] = Idle
    /\ company.plan # "FREE" /\ company.plan # to
    /\ Ask(u, "replace", to, company.ends, {})
    /\ UNCHANGED <<env, now, company, change, payment, activated, renewal, expiry, lapse, apply>>

\* First statement of the transaction: the rows it finds are canceled at the
\* commit, and rows committed in between are not among them.
ScheduleReplace(u) ==
    /\ request[u].pc = "replace"
    /\ Ask(u, "schedule", request[u].to, request[u].due,
           {c \in Changes : change[c].status = "SCHEDULED"})
    /\ UNCHANGED <<env, now, company, change, payment, activated, renewal, expiry, lapse, apply>>

Canceled(rows) == [c \in Changes |->
    IF c \in rows /\ change[c].status = "SCHEDULED"
    THEN [change[c] EXCEPT !.status = "CANCELLED"] ELSE change[c]]

ScheduleCommit(u, c) ==
    /\ request[u].pc = "schedule"
    /\ change[c].status = "NONE"
    /\ change' = [Canceled(request[u].rows) EXCEPT ![c] =
           [status |-> "SCHEDULED", to |-> request[u].to, due |-> request[u].due]]
    /\ company' = [company EXCEPT !.cancelAtEnd = (request[u].to = "FREE")]
    /\ Done(u)
    /\ UNCHANGED <<env, now, payment, activated, renewal, expiry, lapse, apply>>

\* cancelScheduledPlanChange.
UndoRead(u, c) ==
    /\ May("scheduler")
    /\ request[u] = Idle
    /\ change[c].status = "SCHEDULED"
    /\ Ask(u, "undo", "FREE", 0, {c})
    /\ UNCHANGED <<env, now, company, change, payment, activated, renewal, expiry, lapse, apply>>

UndoCommit(u) ==
    /\ request[u].pc = "undo"
    /\ change' = [c \in Changes |-> IF c \in request[u].rows
                                    THEN [change[c] EXCEPT !.status = "CANCELLED"] ELSE change[c]]
    /\ company' = [company EXCEPT !.cancelAtEnd = FALSE]
    /\ Done(u)
    /\ UNCHANGED <<env, now, payment, activated, renewal, expiry, lapse, apply>>

\* cancelSubscriptionAtPeriodEnd and resumeCanceledSubscription.
CancelRead(u) ==
    /\ May("page")
    /\ request[u] = Idle
    /\ company.plan # "FREE" /\ company.status = "ACTIVE" /\ ~company.cancelAtEnd
    /\ Ask(u, "cancel", "FREE", 0, {})
    /\ UNCHANGED <<env, now, company, change, payment, activated, renewal, expiry, lapse, apply>>

CancelCommit(u) ==
    /\ request[u].pc = "cancel"
    /\ company' = [company EXCEPT !.cancelAtEnd = TRUE]
    /\ Done(u)
    /\ UNCHANGED <<env, now, change, payment, activated, renewal, expiry, lapse, apply>>

ResumeRead(u) ==
    /\ May("page")
    /\ request[u] = Idle
    /\ company.plan # "FREE" /\ company.cancelAtEnd /\ company.ends > now
    /\ Ask(u, "resume", "FREE", 0, {})
    /\ UNCHANGED <<env, now, company, change, payment, activated, renewal, expiry, lapse, apply>>

ResumeCommit(u) ==
    /\ request[u].pc = "resume"
    /\ company' = [company EXCEPT !.cancelAtEnd = FALSE, !.status = "ACTIVE"]
    /\ Done(u)
    /\ UNCHANGED <<env, now, change, payment, activated, renewal, expiry, lapse, apply>>

\* changeWorkspaceToFreePlan.
ChooseFree ==
    /\ May("page")
    /\ company' = Started("FREE", "TRIALING")
    /\ UNCHANGED <<env, now, change, payment, activated, request, renewal, expiry, lapse, apply>>

RequestDies(u) ==
    /\ May("crash") \/ May("database")
    /\ request[u] # Idle
    /\ Done(u)
    /\ UNCHANGED <<env, now, company, change, payment, activated, renewal, expiry, lapse, apply>>

-----------------------------------------------------------------------------
(* Subscription payments: the period a payment buys is written on its row  *)
(* when the order is opened.                                               *)

CreateSubscriptionOrder(o, plan) ==
    /\ May("orders")
    /\ payment[o].status = "NONE"
    /\ payment' = [payment EXCEPT ![o] =
           [status |-> "CREATED", plan |-> plan, order |-> "ACTIVE",
            ends |-> (IF company.plan = plan /\ company.ends > now THEN company.ends ELSE now)
                     + Period]]
    /\ payment'[o].ends \in Times
    /\ UNCHANGED <<env, now, company, change, activated, request, renewal, expiry, lapse, apply>>

PaySubscriptionOrder(o) ==
    /\ payment[o].status \in {"CREATED", "FAILED"}
    /\ payment[o].order = "ACTIVE"
    /\ payment' = [payment EXCEPT ![o].order = "PAID"]
    /\ UNCHANGED <<env, now, company, change, activated, request, renewal, expiry, lapse, apply>>

ActivatableAsOrdered(o) == payment[o].order = "PAID"
Activatable(o) == payment[o].order = "PAID" /\ payment[o].status # "PAID"

\* activateSubscriptionPayment, for the page and for every webhook delivery.
ActivateSubscription(o) ==
    /\ Activatable(o)
    /\ payment' = [payment EXCEPT ![o].status = "PAID"]
    /\ activated' = [activated EXCEPT ![o] = @ + 1]
    /\ company' = [plan |-> payment[o].plan, status |-> "ACTIVE", ends |-> payment[o].ends,
                   cancelAtEnd |-> FALSE]
    /\ UNCHANGED <<env, now, change, request, renewal, expiry, lapse, apply>>

\* A failed attempt, reported by Cashfree or found by the page.
FailSubscriptionPayment(o) ==
    /\ payment[o].status = "CREATED"
    /\ payment' = [payment EXCEPT ![o].status = "FAILED"]
    /\ UNCHANGED <<env, now, company, change, activated, request, renewal, expiry, lapse, apply>>

-----------------------------------------------------------------------------
(* subscription-renewal.service.ts: one scan of the company.               *)

RenewalRead ==
    /\ May("renewals")
    /\ renewal.pc = "idle"
    /\ company.plan # "FREE"
    /\ renewal' = [pc |-> "past_due", seen |-> company]
    /\ UNCHANGED <<env, now, company, change, payment, activated, request, expiry, lapse, apply>>

\* The row is that of the list, the clock the company's own.
MarkPastDue ==
    /\ renewal.pc = "past_due"
    /\ company' = IF renewal.seen.ends < now /\ renewal.seen.status \in Live
                  THEN [company EXCEPT !.status = "PAST_DUE"] ELSE company
    /\ renewal' = [renewal EXCEPT !.pc = "downgrade"]
    /\ UNCHANGED <<env, now, change, payment, activated, request, expiry, lapse, apply>>

\* So does autoDowngradeCompany.
AutoDowngrade ==
    /\ renewal.pc = "downgrade"
    /\ company' = IF renewal.seen.ends + Grace <= now THEN Started("FREE", "ACTIVE") ELSE company
    /\ renewal' = [pc |-> "idle", seen |-> NoRow]
    /\ UNCHANGED <<env, now, change, payment, activated, request, expiry, lapse, apply>>

RenewalDies ==
    /\ May("crash") \/ May("database")
    /\ renewal.pc # "idle"
    /\ renewal' = [pc |-> "idle", seen |-> NoRow]
    /\ UNCHANGED <<env, now, company, change, payment, activated, request, expiry, lapse, apply>>

-----------------------------------------------------------------------------
(* subscription-expiry.service.ts and applyDueSubscriptionCancellations:   *)
(* both list the companies by the clock at their start and claim each row. *)

ExpiryRead ==
    /\ May("expiry")
    /\ expiry.pc = "idle"
    /\ company.plan # "FREE" /\ company.status = "ACTIVE" /\ company.ends < now
    /\ expiry' = [pc |-> "claim", asOf |-> now]
    /\ UNCHANGED <<env, now, company, change, payment, activated, request, renewal, lapse, apply>>

ExpirableAsListed == TRUE
Expirable == company.status = "ACTIVE" /\ company.ends < expiry.asOf

ExpiryClaim ==
    /\ expiry.pc = "claim"
    /\ company' = IF Expirable THEN [company EXCEPT !.status = "PAST_DUE"] ELSE company
    /\ expiry' = [pc |-> "idle", asOf |-> 0]
    /\ UNCHANGED <<env, now, change, payment, activated, request, renewal, lapse, apply>>

LapseRead ==
    /\ May("expiry")
    /\ lapse.pc = "idle"
    /\ company.plan # "FREE" /\ company.cancelAtEnd /\ company.ends < now
    /\ lapse' = [pc |-> "claim", asOf |-> now]
    /\ UNCHANGED <<env, now, company, change, payment, activated, request, renewal, expiry, apply>>

LapsableIfActive == company.cancelAtEnd /\ company.ends < lapse.asOf /\ company.status = "ACTIVE"
Lapsable == company.plan # "FREE" /\ company.cancelAtEnd /\ company.ends < lapse.asOf

LapseClaim ==
    /\ lapse.pc = "claim"
    /\ company' = IF Lapsable
                  THEN [plan |-> "FREE", status |-> "CANCELED", ends |-> lapse.asOf + Period,
                        cancelAtEnd |-> FALSE]
                  ELSE company
    /\ lapse' = [pc |-> "idle", asOf |-> 0]
    /\ UNCHANGED <<env, now, change, payment, activated, request, renewal, expiry, apply>>

JobDies ==
    /\ May("crash") \/ May("database")
    /\ \/ expiry.pc = "claim" /\ expiry' = [pc |-> "idle", asOf |-> 0] /\ UNCHANGED lapse
       \/ lapse.pc = "claim" /\ lapse' = [pc |-> "idle", asOf |-> 0] /\ UNCHANGED expiry
    /\ UNCHANGED <<env, now, company, change, payment, activated, request, renewal, apply>>

-----------------------------------------------------------------------------
(* scanScheduledPlanChanges.                                               *)

ApplyRead(c) ==
    /\ May("scheduler")
    /\ apply.pc = "idle"
    /\ change[c].status = "SCHEDULED" /\ change[c].due <= now
    /\ apply' = [pc |-> "write", change |-> c]
    /\ UNCHANGED <<env, now, company, change, payment, activated, request, renewal, expiry, lapse>>

\* One transaction, without a test of the status the change has by now.
ApplyChange ==
    /\ apply.pc = "write"
    /\ company' = Started(change[apply.change].to, "ACTIVE")
    /\ change' = [change EXCEPT ![apply.change].status = "APPLIED"]
    /\ apply' = [pc |-> "idle", change |-> NoChange]
    /\ UNCHANGED <<env, now, payment, activated, request, renewal, expiry, lapse>>

ApplyThrows ==
    /\ May("database")
    /\ apply.pc = "write"
    /\ apply' = [apply EXCEPT !.pc = "catch"]
    /\ UNCHANGED <<env, now, company, change, payment, activated, request, renewal, expiry, lapse>>

ApplyFails ==
    /\ apply.pc = "catch"
    /\ change' = [change EXCEPT ![apply.change].status = "FAILED"]
    /\ apply' = [pc |-> "idle", change |-> NoChange]
    /\ UNCHANGED <<env, now, company, payment, activated, request, renewal, expiry, lapse>>

ApplyDies ==
    /\ \/ May("crash") /\ apply.pc # "idle"
       \/ May("database") /\ apply.pc = "catch"
    /\ apply' = [pc |-> "idle", change |-> NoChange]
    /\ UNCHANGED <<env, now, company, change, payment, activated, request, renewal, expiry, lapse>>

-----------------------------------------------------------------------------
Page(u) ==
    \/ ScheduleReplace(u) \/ \E c \in Changes : ScheduleCommit(u, c)
    \/ UndoCommit(u) \/ CancelCommit(u) \/ ResumeCommit(u)

SubscriptionNext ==
    \/ Tick
    \/ \E u \in Users :
        \/ \E to \in Plans : ScheduleRead(u, to)
        \/ \E c \in Changes : UndoRead(u, c)
        \/ CancelRead(u) \/ ResumeRead(u) \/ Page(u) \/ RequestDies(u)
    \/ ChooseFree
    \/ \E o \in Orders :
        \/ \E plan \in Paid : CreateSubscriptionOrder(o, plan)
        \/ PaySubscriptionOrder(o) \/ ActivateSubscription(o) \/ FailSubscriptionPayment(o)
    \/ RenewalRead \/ MarkPastDue \/ AutoDowngrade \/ RenewalDies
    \/ ExpiryRead \/ ExpiryClaim \/ LapseRead \/ LapseClaim \/ JobDies
    \/ \E c \in Changes : ApplyRead(c)
    \/ ApplyChange \/ ApplyThrows \/ ApplyFails \/ ApplyDies
=============================================================================
