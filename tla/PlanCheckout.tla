----------------------------- MODULE PlanCheckout -----------------------------
(***************************************************************************)
(* Plan checkouts on top of the subscription they buy: a checkout is paid  *)
(* at Cashfree and completed by the customer's page, by a webhook, or by a *)
(* reviewer after the reconciliation scan has found its payment, while the *)
(* scan, the page and reports of failed payments also close it.            *)
(*                                                                         *)
(* Prices never change between order and payment, so amount and currency   *)
(* always agree; invoices, reconciliation events and notifications follow  *)
(* the row and are left out.                                               *)
(***************************************************************************)
EXTENDS Subscription

CONSTANTS
    Checkouts,
    Pages, Hooks,   \* verifications by the page, success deliveries
    Scans,          \* the reconciliation job and its manual trigger
    Reviewers,
    Expiry,         \* how long a checkout stays open
    MaxAttempts,    \* PLAN_CHECKOUT_MAX_RECONCILIATION_ATTEMPTS
    NoCheckout

ASSUME CheckoutAssumption ==
    Expiry \in Nat /\ MaxAttempts \in Nat /\ NoCheckout \notin Checkouts

VARIABLES
    checkout,       \* PlanCheckout rows, each with its order at Cashfree
    applied,        \* CompanyPlanChange rows of a checkout
    completer, scan, reviewer

checkoutVars == <<checkout, applied, completer, scan, reviewer>>
vars == <<subscriptionVars, checkoutVars>>

Completers == Pages \cup Hooks

CheckoutRow == [status : {"NONE", "CREATED", "PAID", "FAILED", "EXPIRED", "MANUAL_REVIEW"},
                to : Plans, deadline : Nat, opened : Nat, attempts : 0..MaxAttempts,
                linked : BOOLEAN, order : {"ACTIVE", "PAID"}]
Worker(pcs) == [pc : {"idle"} \cup pcs, of : Checkouts \cup {NoCheckout}]

\* A handler has a checkout as long as it is at work.
TypeOK ==
    /\ SubscriptionTypeOK
    /\ checkout \in [Checkouts -> CheckoutRow]
    /\ applied \in [Checkouts -> Nat]
    /\ completer \in [Completers -> Worker({"expire", "ask", "fail", "claim", "catch"})]
    /\ scan \in [Scans -> Worker({"expire", "ask", "count", "review"})]
    /\ reviewer \in [Reviewers -> Worker({"approve"})]
    /\ \A p \in Completers : completer[p].of = NoCheckout <=> completer[p].pc = "idle"
    /\ \A s \in Scans : scan[s].of = NoCheckout <=> scan[s].pc = "idle"
    /\ \A r \in Reviewers : reviewer[r].of = NoCheckout <=> reviewer[r].pc = "idle"

Free == [pc |-> "idle", of |-> NoCheckout]

Init ==
    /\ SubscriptionInit
    /\ checkout = [c \in Checkouts |->
           [status |-> "NONE", to |-> "FREE", deadline |-> 0, opened |-> 0, attempts |-> 0,
            linked |-> FALSE, order |-> "ACTIVE"]]
    /\ applied = [c \in Checkouts |-> 0]
    /\ completer = [p \in Completers |-> Free]
    /\ scan = [s \in Scans |-> Free]
    /\ reviewer = [r \in Reviewers |-> Free]

\* reconciliationAttempts, counted up to the number the scan compares it with.
Attempted(c) == [checkout EXCEPT ![c].attempts = IF @ < MaxAttempts THEN @ + 1 ELSE @]

\* A conditional updateMany: it writes the status if the row still has the old one.
Move(c, from, to) ==
    checkout' = [checkout EXCEPT ![c].status = IF @ = from THEN to ELSE @]

\* The transaction of a claim: the checkout is PAID, the plan starts a new
\* period, and the change is recorded.
Apply(c) ==
    /\ checkout' = [checkout EXCEPT ![c].status = "PAID"]
    /\ applied' = [applied EXCEPT ![c] = @ + 1]
    /\ company' = Started(checkout[c].to, "ACTIVE")
    /\ UNCHANGED <<env, now, change, payment, activated, request, renewal, expiry, lapse, apply>>

-----------------------------------------------------------------------------
(* The customer.                                                           *)

\* createPlanCheckout stores the row before it asks for the order.
CreatePlanCheckout(c, to) ==
    /\ checkout[c].status = "NONE"
    /\ company.plan # to
    /\ checkout' = [checkout EXCEPT ![c].status = "CREATED", ![c].to = to,
                                    ![c].deadline = now + Expiry]
    /\ UNCHANGED <<subscriptionVars, applied, completer, scan, reviewer>>

\* The order has been created and is stored on the row.  A request that fails
\* before that never takes this step.
LinkOrder(c) ==
    /\ checkout[c].status # "NONE" /\ ~checkout[c].linked
    /\ checkout' = [checkout EXCEPT ![c].linked = TRUE]
    /\ UNCHANGED <<subscriptionVars, applied, completer, scan, reviewer>>

Pay(c) ==
    /\ checkout[c].linked /\ checkout[c].order = "ACTIVE"
    /\ checkout' = [checkout EXCEPT ![c].order = "PAID"]
    /\ UNCHANGED <<subscriptionVars, applied, completer, scan, reviewer>>

\* The webhook of a failed attempt, which may come after the one that succeeded.
ReportFailure(c) ==
    /\ checkout[c].linked
    /\ checkout[c].status # "PAID"
    /\ checkout' = [checkout EXCEPT ![c].status = "FAILED"]
    /\ UNCHANGED <<subscriptionVars, applied, completer, scan, reviewer>>

-----------------------------------------------------------------------------
(* completePlanCheckout, for the page and for the webhook.  An error ends  *)
(* the page's request; the webhook counts it as an attempt.                *)

GotoUnreleased(p, pc) == completer' = [completer EXCEPT ![p].pc = pc]
Goto(p, pc) == completer' = [completer EXCEPT ![p] =
    IF pc = "idle" THEN Free ELSE [@ EXCEPT !.pc = pc]]

Throw(p) == Goto(p, IF p \in Hooks THEN "catch" ELSE "idle")

\* What the row is found to call for, "idle" if nothing.
Begins(p, row) ==
    CASE row.status \in {"NONE", "PAID"} -> "idle"
      [] row.status \notin {"NONE", "PAID", "CREATED"} -> IF p \in Hooks THEN "catch" ELSE "idle"
      [] row.status = "CREATED" /\ row.deadline < now -> "expire"
      [] row.status = "CREATED" /\ row.deadline >= now ->
            IF ~row.linked THEN "idle" ELSE IF p \in Hooks THEN "claim" ELSE "ask"

CompleteRead(p, c) ==
    /\ completer[p] = Free
    /\ p \in Hooks => checkout[c].linked /\ checkout[c].order = "PAID"
    /\ Begins(p, checkout[c]) # "idle"
    /\ completer' = [completer EXCEPT ![p] = [pc |-> Begins(p, checkout[c]), of |-> c]]
    /\ UNCHANGED <<subscriptionVars, checkout, applied, scan, reviewer>>

CompleteExpire(p) ==
    /\ completer[p].pc = "expire"
    /\ Move(completer[p].of, "CREATED", "EXPIRED")
    /\ Throw(p)
    /\ UNCHANGED <<subscriptionVars, applied, scan, reviewer>>

FoundPaid(c) == checkout[c].order = "PAID"

CompleteAsk(p) ==
    /\ completer[p].pc = "ask"
    /\ Goto(p, IF FoundPaid(completer[p].of) THEN "claim" ELSE "fail")
    /\ UNCHANGED <<subscriptionVars, checkout, applied, scan, reviewer>>

\* The order was not paid when asked; the row is written whatever it is now.
CompleteFail(p) ==
    /\ completer[p].pc = "fail"
    /\ checkout' = [checkout EXCEPT ![completer[p].of].status = "FAILED"]
    /\ Throw(p)
    /\ UNCHANGED <<subscriptionVars, applied, scan, reviewer>>

ClaimableAsRead(c) == TRUE
Claimable(c) == checkout[c].status = "CREATED"

CompleteClaim(p) ==
    /\ completer[p].pc = "claim"
    /\ LET c == completer[p].of IN
       \/ Claimable(c) /\ Apply(c) /\ Goto(p, "idle")
       \/ /\ ~Claimable(c)
          /\ IF checkout[c].status = "PAID" THEN Goto(p, "idle") ELSE Throw(p)
          /\ UNCHANGED <<subscriptionVars, checkout, applied>>
    /\ UNCHANGED <<scan, reviewer>>

CompleteCatch(p) ==
    /\ completer[p].pc = "catch"
    /\ checkout' = Attempted(completer[p].of)
    /\ Goto(p, "idle")
    /\ UNCHANGED <<subscriptionVars, applied, scan, reviewer>>

CompleteFaults(p) ==
    /\ \/ /\ May("database") \/ May("provider")
          /\ completer[p].pc \in {"expire", "ask", "fail", "claim"}
          /\ completer[p].pc # "ask" => May("database")
          /\ Throw(p)
       \/ May("database") /\ completer[p].pc = "catch" /\ Goto(p, "idle")
       \/ May("crash") /\ completer[p] # Free /\ Goto(p, "idle")
    /\ UNCHANGED <<subscriptionVars, checkout, applied, scan, reviewer>>

-----------------------------------------------------------------------------
(* reconcileSinglePlanCheckout.                                            *)

ScanTo(s, pc) == scan' = [scan EXCEPT ![s] =
    IF pc = "idle" THEN Free ELSE [@ EXCEPT !.pc = pc]]

OverdueIfLinked(c) == checkout[c].deadline < now /\ checkout[c].linked
Overdue(c) == checkout[c].deadline < now

\* Worth asking Cashfree about.
Askable(c) == checkout[c].linked /\ checkout[c].attempts < MaxAttempts

ScanRead(s, c) ==
    /\ May("reconciliation")
    /\ scan[s] = Free
    /\ checkout[c].status = "CREATED"
    /\ Overdue(c) \/ Askable(c)
    /\ scan' = [scan EXCEPT ![s] = [pc |-> IF Overdue(c) THEN "expire" ELSE "ask", of |-> c]]
    /\ UNCHANGED <<subscriptionVars, checkout, applied, completer, reviewer>>

ScanExpire(s) ==
    /\ scan[s].pc = "expire"
    /\ Move(scan[s].of, "CREATED", "EXPIRED")
    /\ ScanTo(s, "idle")
    /\ UNCHANGED <<subscriptionVars, applied, completer, reviewer>>

ScanAsk(s) ==
    /\ scan[s].pc = "ask"
    /\ ScanTo(s, IF checkout[scan[s].of].order = "PAID" THEN "review" ELSE "count")
    /\ UNCHANGED <<subscriptionVars, checkout, applied, completer, reviewer>>

\* No payment yet, or an error: either way one more attempt.
ScanCount(s) ==
    /\ scan[s].pc = "count"
    /\ checkout' = Attempted(scan[s].of)
    /\ ScanTo(s, "idle")
    /\ UNCHANGED <<subscriptionVars, applied, completer, reviewer>>

ReviewableAsRead(c) == TRUE
Reviewable(c) == checkout[c].status = "CREATED"

ScanReview(s) ==
    /\ scan[s].pc = "review"
    /\ LET c == scan[s].of IN
       checkout' = IF Reviewable(c)
                   THEN [Attempted(c) EXCEPT ![c].status = "MANUAL_REVIEW", ![c].opened = now]
                   ELSE checkout
    /\ ScanTo(s, "idle")
    /\ UNCHANGED <<subscriptionVars, applied, completer, reviewer>>

ScanFaults(s) ==
    /\ \/ May("provider") /\ scan[s].pc = "ask" /\ ScanTo(s, "count")
       \/ May("database") /\ scan[s].pc \in {"ask", "review"} /\ ScanTo(s, "count")
       \/ May("database") /\ scan[s].pc \in {"expire", "count"} /\ ScanTo(s, "idle")
       \/ May("crash") /\ scan[s] # Free /\ ScanTo(s, "idle")
    /\ UNCHANGED <<subscriptionVars, checkout, applied, completer, reviewer>>

-----------------------------------------------------------------------------
(* billing-ops.service.ts: manual reviews.                                 *)

ApproveRead(r, c) ==
    /\ reviewer[r] = Free
    /\ checkout[c].status = "MANUAL_REVIEW"
    /\ reviewer' = [reviewer EXCEPT ![r] = [pc |-> "approve", of |-> c]]
    /\ UNCHANGED <<subscriptionVars, checkout, applied, completer, scan>>

ApproveClaim(r) ==
    /\ reviewer[r].pc = "approve"
    /\ LET c == reviewer[r].of IN
       IF checkout[c].status = "MANUAL_REVIEW" THEN Apply(c) ELSE UNCHANGED <<subscriptionVars, checkout, applied>>
    /\ reviewer' = [reviewer EXCEPT ![r] = Free]
    /\ UNCHANGED <<completer, scan>>

\* Rejected, or too old for a review.
RejectReview(c) ==
    /\ checkout[c].status = "MANUAL_REVIEW"
    /\ Move(c, "MANUAL_REVIEW", "FAILED")
    /\ UNCHANGED <<subscriptionVars, applied, completer, scan, reviewer>>

ReviewerLeaves(r) ==
    /\ May("crash") \/ May("database")
    /\ reviewer[r] # Free
    /\ reviewer' = [reviewer EXCEPT ![r] = Free]
    /\ UNCHANGED <<subscriptionVars, checkout, applied, completer, scan>>

-----------------------------------------------------------------------------
CheckoutNext ==
    \/ \E c \in Checkouts :
        \/ \E to \in Paid : CreatePlanCheckout(c, to)
        \/ LinkOrder(c) \/ Pay(c) \/ ReportFailure(c) \/ RejectReview(c)
        \/ \E p \in Completers : CompleteRead(p, c)
        \/ \E s \in Scans : ScanRead(s, c)
        \/ \E r \in Reviewers : ApproveRead(r, c)
    \/ \E p \in Completers :
        \/ CompleteExpire(p) \/ CompleteAsk(p) \/ CompleteFail(p) \/ CompleteClaim(p)
        \/ CompleteCatch(p) \/ CompleteFaults(p)
    \/ \E s \in Scans :
        ScanExpire(s) \/ ScanAsk(s) \/ ScanCount(s) \/ ScanReview(s) \/ ScanFaults(s)
    \/ \E r \in Reviewers : ApproveClaim(r) \/ ReviewerLeaves(r)

Next == (SubscriptionNext /\ UNCHANGED checkoutVars) \/ CheckoutNext

Spec == Init /\ [][Next]_vars

\* The clock and the scheduled jobs go on, each job in one process, and the
\* database does not fail for ever.
FairSpec ==
    /\ Spec
    /\ WF_vars(Tick /\ UNCHANGED checkoutVars)
    /\ \A s \in Scans :
        /\ \A c \in Checkouts : WF_vars(ScanRead(s, c))
        /\ WF_vars(ScanAsk(s)) /\ WF_vars(ScanCount(s)) /\ WF_vars(ScanReview(s))
        /\ SF_vars(ScanExpire(s))
    /\ WF_vars(LapseRead /\ UNCHANGED checkoutVars)
    /\ SF_vars(LapseClaim /\ UNCHANGED checkoutVars)

-----------------------------------------------------------------------------
\* A checkout changes the plan at most once, whoever completes it: a PAID one
\* has done so, an open, expired or doubtful one has not.  A FAILED one may
\* have, since the page writes FAILED without looking at the row again.
AppliedOnce == \A c \in Checkouts :
    /\ applied[c] <= 1
    /\ checkout[c].status = "PAID" => applied[c] = 1
    /\ checkout[c].status \in {"NONE", "CREATED", "EXPIRED", "MANUAL_REVIEW"} => applied[c] = 0

\* No plan without a payment, through the page, the webhook or a reviewer.
AppliedOnlyIfPaid == \A c \in Checkouts : applied[c] > 0 => checkout[c].order = "PAID"

\* A subscription payment puts its plan in force once, whether the page or any
\* number of webhook deliveries say so, and not before it is paid.
ActivatedOnce == \A o \in Orders :
    /\ activated[o] = IF payment[o].status = "PAID" THEN 1 ELSE 0
    /\ payment[o].status = "PAID" => payment[o].order = "PAID"

\* A checkout that is closed -- expired, failed, rejected or already paid --
\* never changes the plan, although completions that began earlier still run.
ClosedNeverApplies == [][\A c \in Checkouts :
    checkout[c].status \notin {"CREATED", "MANUAL_REVIEW"} => applied'[c] = applied[c]]_vars

\* The jobs that end a plan end none whose period is not over: a period bought
\* or a cancellation taken back after they listed the company is respected.
\* The renewal scan, which writes by what it read, is the exception.
JobsKeepPaidPeriod == [][
    /\ company'.status \in {"CANCELED", "PAST_DUE"} /\ company'.status # company.status
    /\ ~May("renewals")
    => company.ends < now /\ (company'.status = "CANCELED" => company.cancelAtEnd)]_vars

\* With the scan running, no checkout stays open past its deadline.
EventuallyDecided == \A c \in Checkouts :
    (May("reconciliation") /\ checkout[c].status = "CREATED" /\ checkout[c].deadline < MaxTime)
        ~> checkout[c].status # "CREATED"

\* A cancellation at the end of the period is carried out unless it is taken
\* back or another period begins, in whatever order the jobs run.
CancellationCarriedOut ==
    (May("expiry") /\ company.cancelAtEnd /\ company.plan # "FREE" /\ company.ends < MaxTime)
        ~> (company.plan = "FREE" \/ ~company.cancelAtEnd \/ company.ends >= MaxTime)

\* docs/plan-checkout-reconciliation.md: "Scheduled reconciliation expires old
\* unpaid checkouts."
OnlyUnpaidExpire == [][\A c \in Checkouts :
    checkout[c].status = "CREATED" /\ checkout'[c].status = "EXPIRED"
        => checkout[c].order # "PAID"]_vars

\* docs/scheduled-plan-changes.md: "Existing paid plan remains active until
\* currentPeriodEnd."
PaidPlanKept == [][\A c \in Changes :
    change[c].status = "SCHEDULED" /\ change'[c].status = "APPLIED" => company.ends <= now]_vars
=============================================================================
