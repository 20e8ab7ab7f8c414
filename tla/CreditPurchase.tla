---------------------------- MODULE CreditPurchase ----------------------------
(***************************************************************************)
(* Buying credits: the checkout that opens a Cashfree order, the page that *)
(* verifies it (credit-purchase.service.ts), and the payment webhooks,     *)
(* arbitrated by the ledger of provider events                             *)
(* (provider-webhook-event.service.ts) and logged by the route             *)
(* (api/webhooks/cashfree/route.ts).                                       *)
(*                                                                         *)
(* A step ends where the code awaits.  Cashfree delivers an event any      *)
(* number of times, at any time.  The replay guard only drops deliveries,  *)
(* which is the same as not delivering them.                               *)
(***************************************************************************)
EXTENDS Integers, FiniteSets, Functions

CONSTANTS
    Purchases,      \* checkouts the company opens
    Verifiers,      \* requests to verify a checkout
    Deliveries,     \* webhook requests
    NoPurchase, NoEvent,
    Amount,         \* price of the credit pack
    Opening,        \* wallet balance at the start
    Faults          \* what may go wrong in the environment

FaultKinds ==
    { "database",       \* a statement or transaction of a handler fails
      "crash",          \* the web process dies
      "provider",       \* a call to Cashfree fails
      "lagging" }       \* Cashfree calls an order paid before it lists the payment

Events == Purchases \X {"success", "failed"}

ASSUME PurchaseAssumption ==
    /\ IsFiniteSet(Purchases)
    /\ NoPurchase \notin Purchases /\ NoEvent \notin Events
    /\ Amount \in Nat \ {0} /\ Opening \in Nat
    /\ Faults \subseteq FaultKinds

VARIABLES
    purchase,           \* CreditPurchase.status, "NONE" before the row exists
    balance, credits,   \* the wallet; CREDIT rows of each purchase
    event,              \* ProviderWebhookEvent.status
    logged,             \* CashfreeWebhookEvent.status
    order, emitted,     \* Cashfree: its orders, the events it reports
    checkout,           \* pc of the request that opens a checkout
    verify, verifying,  \* pc of a verification, and its purchase
    hook, handling,     \* pc of a delivery, and its event
    row                 \* what a delivery knows of the log row

purchaseVars == <<purchase, balance, credits>>
cashfreeVars == <<order, emitted>>
verifyVars   == <<verify, verifying>>
hookVars     == <<hook, handling, row>>
vars == <<purchaseVars, event, logged, cashfreeVars, checkout, verifyVars, hookVars>>

VerifySteps == {"idle", "ask", "mark_failed", "complete", "done"}
HookSteps   == {"idle", "register", "find", "retry", "read", "log", "act", "mark",
                "succeed", "fail_log", "fail_event", "done"}

May(fault) == fault \in Faults

TypeOK ==
    /\ purchase \in [Purchases -> {"NONE", "CREATED", "PAID", "FAILED"}]
    /\ balance \in Int
    /\ credits \in [Purchases -> Nat]
    /\ event \in [Events -> {"NONE", "PROCESSING", "SUCCEEDED", "FAILED"}]
    /\ logged \in [Events -> {"NONE", "RECEIVED", "PROCESSED", "FAILED"}]
    /\ order \in [Purchases -> {"NONE", "ACTIVE", "PAID"}]
    /\ emitted \subseteq Events
    /\ checkout \in [Purchases -> {"idle", "order", "catch", "done"}]
    /\ verify \in [Verifiers -> VerifySteps]
    /\ verifying \in [Verifiers -> Purchases \cup {NoPurchase}]
    /\ hook \in [Deliveries -> HookSteps]
    /\ handling \in [Deliveries -> Events \cup {NoEvent}]
    /\ row \in [Deliveries -> {"unknown", "found", "known"}]
    /\ \A d \in Deliveries : hook[d] \in {"act", "mark"} => row[d] = "known"

Init ==
    /\ purchase = [p \in Purchases |-> "NONE"]
    /\ balance = Opening /\ credits = [p \in Purchases |-> 0]
    /\ event = [e \in Events |-> "NONE"]
    /\ logged = [e \in Events |-> "NONE"]
    /\ order = [p \in Purchases |-> "NONE"] /\ emitted = {}
    /\ checkout = [p \in Purchases |-> "idle"]
    /\ verify = [v \in Verifiers |-> "idle"]
    /\ verifying = [v \in Verifiers |-> NoPurchase]
    /\ hook = [d \in Deliveries |-> "idle"]
    /\ handling = [d \in Deliveries |-> NoEvent]
    /\ row = [d \in Deliveries |-> "unknown"]

-----------------------------------------------------------------------------
(* Opening a checkout.                                                     *)

CreatePurchase(p) ==
    /\ checkout[p] = "idle"
    /\ purchase' = [purchase EXCEPT ![p] = "CREATED"]
    /\ checkout' = [checkout EXCEPT ![p] = "order"]
    /\ UNCHANGED <<balance, credits, event, logged, cashfreeVars, verifyVars, hookVars>>

\* An order whose answer is lost cannot be paid: the answer holds its session.
CreateOrder(p) ==
    /\ checkout[p] = "order"
    /\ \/ /\ order' = [order EXCEPT ![p] = "ACTIVE"]
          /\ checkout' = [checkout EXCEPT ![p] = "done"]
       \/ /\ May("provider")
          /\ checkout' = [checkout EXCEPT ![p] = "catch"]
          /\ UNCHANGED order
    /\ UNCHANGED <<purchaseVars, event, logged, emitted, verifyVars, hookVars>>

CheckoutFails(p) ==
    /\ checkout[p] = "catch"
    /\ purchase' = [purchase EXCEPT ![p] = "FAILED"]
    /\ checkout' = [checkout EXCEPT ![p] = "done"]
    /\ UNCHANGED <<balance, credits, event, logged, cashfreeVars, verifyVars, hookVars>>

CheckoutDies(p) ==
    /\ \/ May("crash") /\ checkout[p] \in {"order", "catch"}
       \/ May("database") /\ checkout[p] = "catch"
    /\ checkout' = [checkout EXCEPT ![p] = "done"]
    /\ UNCHANGED <<purchaseVars, event, logged, cashfreeVars, verifyVars, hookVars>>

-----------------------------------------------------------------------------
(* The customer at Cashfree: payments of an order may fail before one is   *)
(* accepted, and every outcome is reported.                                *)

PaymentFails(p) ==
    /\ order[p] = "ACTIVE"
    /\ emitted' = emitted \cup {<<p, "failed">>}
    /\ UNCHANGED <<purchaseVars, event, logged, order, checkout, verifyVars, hookVars>>

Pay(p) ==
    /\ order[p] = "ACTIVE"
    /\ order' = [order EXCEPT ![p] = "PAID"]
    /\ emitted' = emitted \cup {<<p, "success">>}
    /\ UNCHANGED <<purchaseVars, event, logged, checkout, verifyVars, hookVars>>

-----------------------------------------------------------------------------
(* What both the page and the webhooks do to a purchase.                   *)

CreditableAsRead(p) == TRUE
Creditable(p) == purchase[p] = "CREATED"

CompleteWithoutWallet(p) ==
    IF Creditable(p)
    THEN /\ purchase' = [purchase EXCEPT ![p] = "PAID"]
         /\ credits' = [credits EXCEPT ![p] = @ + 1]
         /\ UNCHANGED balance
    ELSE UNCHANGED purchaseVars

\* completeCreditPurchasePayment, one transaction.
CompletePayment(p) ==
    IF Creditable(p)
    THEN /\ purchase' = [purchase EXCEPT ![p] = "PAID"]
         /\ balance' = balance + Amount
         /\ credits' = [credits EXCEPT ![p] = @ + 1]
    ELSE UNCHANGED purchaseVars

MarkFailedWhateverItIs(p, unless) == purchase' = [purchase EXCEPT ![p] = "FAILED"]

\* A conditional update: FAILED, unless the status says otherwise.
MarkFailed(p, unless) ==
    purchase' = IF purchase[p] \in unless THEN purchase
                ELSE [purchase EXCEPT ![p] = "FAILED"]

-----------------------------------------------------------------------------
(* The page the customer returns to.                                       *)

VerifyGoto(v, step) ==
    /\ verify' = [verify EXCEPT ![v] = step]
    /\ UNCHANGED verifying

\* Only the answer of the checkout tells the ids to ask about.
VerifyRead(v, p) ==
    /\ verify[v] = "idle"
    /\ order[p] # "NONE"
    /\ purchase[p] = "CREATED"
    /\ verify' = [verify EXCEPT ![v] = "ask"]
    /\ verifying' = [verifying EXCEPT ![v] = p]
    /\ UNCHANGED <<purchaseVars, event, logged, cashfreeVars, checkout, hookVars>>

IsPaid(p) == order[p] = "PAID"

VerifyAsk(v) ==
    /\ verify[v] = "ask"
    /\ \/ IsPaid(verifying[v]) /\ VerifyGoto(v, "complete")
       \/ ~IsPaid(verifying[v]) /\ VerifyGoto(v, "mark_failed")
       \/ May("lagging") /\ VerifyGoto(v, "mark_failed")
       \/ May("provider") /\ VerifyGoto(v, "done")
    /\ UNCHANGED <<purchaseVars, event, logged, cashfreeVars, checkout, hookVars>>

\* The order may have been paid since it was asked about.
VerifyMarkFailed(v) ==
    /\ verify[v] = "mark_failed"
    /\ MarkFailed(verifying[v], {"PAID", "FAILED"})
    /\ VerifyGoto(v, "done")
    /\ UNCHANGED <<balance, credits, event, logged, cashfreeVars, checkout, hookVars>>

VerifyComplete(v) ==
    /\ verify[v] = "complete"
    /\ CompletePayment(verifying[v])
    /\ VerifyGoto(v, "done")
    /\ UNCHANGED <<event, logged, cashfreeVars, checkout, hookVars>>

VerifyDies(v) ==
    /\ May("crash") \/ May("database")
    /\ verify[v] \in {"ask", "mark_failed", "complete"}
    /\ VerifyGoto(v, "done")
    /\ UNCHANGED <<purchaseVars, event, logged, cashfreeVars, checkout, hookVars>>

-----------------------------------------------------------------------------
(* A webhook delivery.                                                     *)

HookGoto(d, step) ==
    /\ hook' = [hook EXCEPT ![d] = step]
    /\ UNCHANGED <<handling, row>>

Deliver(d, e) ==
    /\ hook[d] = "idle" /\ e \in emitted
    /\ hook' = [hook EXCEPT ![d] = "register"]
    /\ handling' = [handling EXCEPT ![d] = e]
    /\ UNCHANGED <<purchaseVars, event, logged, cashfreeVars, checkout, verifyVars, row>>

\* The unique index on the event decides who processes it first.
Register(d) ==
    LET e == handling[d] IN
    /\ hook[d] = "register"
    /\ IF event[e] = "NONE"
       THEN event' = [event EXCEPT ![e] = "PROCESSING"] /\ HookGoto(d, "read")
       ELSE UNCHANGED event /\ HookGoto(d, "find")
    /\ UNCHANGED <<purchaseVars, logged, cashfreeVars, checkout, verifyVars>>

\* An event that is being processed is a duplicate as well.
FindEvent(d) ==
    /\ hook[d] = "find"
    /\ HookGoto(d, IF event[handling[d]] = "FAILED" THEN "retry" ELSE "done")
    /\ UNCHANGED <<purchaseVars, event, logged, cashfreeVars, checkout, verifyVars>>

\* Two deliveries that both found FAILED both go on.
RetryEvent(d) ==
    /\ hook[d] = "retry"
    /\ event' = [event EXCEPT ![handling[d]] = "PROCESSING"]
    /\ HookGoto(d, "read")
    /\ UNCHANGED <<purchaseVars, logged, cashfreeVars, checkout, verifyVars>>

HandledOnceLogged(e) == logged[e] # "NONE"
Handled(e) == logged[e] = "PROCESSED"

ReadLog(d) ==
    LET e == handling[d] IN
    /\ hook[d] = "read"
    /\ hook' = [hook EXCEPT ![d] = IF Handled(e) THEN "succeed" ELSE "log"]
    /\ row' = [row EXCEPT ![d] = IF logged[e] = "NONE" THEN "unknown" ELSE "found"]
    /\ UNCHANGED <<purchaseVars, event, logged, cashfreeVars, checkout, verifyVars, handling>>

OnlyCreatedKnown(d) == IF row[d] = "found" THEN "found" ELSE "known"
RowAfterLog(d) == "known"

\* Reset the row that was found, or create one: a create may find it exists.
WriteLog(d) ==
    LET e == handling[d] IN
    /\ hook[d] = "log"
    /\ IF row[d] = "found" \/ logged[e] = "NONE"
       THEN /\ logged' = [logged EXCEPT ![e] = "RECEIVED"]
            /\ hook' = [hook EXCEPT ![d] = "act"]
            /\ row' = [row EXCEPT ![d] = RowAfterLog(d)]
       ELSE /\ hook' = [hook EXCEPT ![d] = "fail_event"]
            /\ UNCHANGED <<logged, row>>
    /\ UNCHANGED <<purchaseVars, event, cashfreeVars, checkout, verifyVars, handling>>

Act(d) ==
    LET p == handling[d][1] IN
    /\ hook[d] = "act"
    /\ IF handling[d][2] = "success"
       THEN CompletePayment(p)
       ELSE MarkFailed(p, {"PAID"}) /\ UNCHANGED <<balance, credits>>
    /\ HookGoto(d, "mark")
    /\ UNCHANGED <<event, logged, cashfreeVars, checkout, verifyVars>>

MarkProcessed(d) ==
    /\ hook[d] = "mark"
    /\ logged' = [logged EXCEPT ![handling[d]] = "PROCESSED"]
    /\ HookGoto(d, "succeed")
    /\ UNCHANGED <<purchaseVars, event, cashfreeVars, checkout, verifyVars>>

Succeed(d) ==
    /\ hook[d] = "succeed"
    /\ event' = [event EXCEPT ![handling[d]] = "SUCCEEDED"]
    /\ HookGoto(d, "done")
    /\ UNCHANGED <<purchaseVars, logged, cashfreeVars, checkout, verifyVars>>

FailLog(d) ==
    /\ hook[d] = "fail_log"
    /\ logged' = [logged EXCEPT ![handling[d]] = "FAILED"]
    /\ HookGoto(d, "fail_event")
    /\ UNCHANGED <<purchaseVars, event, cashfreeVars, checkout, verifyVars>>

FailEvent(d) ==
    /\ hook[d] = "fail_event"
    /\ event' = [event EXCEPT ![handling[d]] = "FAILED"]
    /\ HookGoto(d, "done")
    /\ UNCHANGED <<purchaseVars, logged, cashfreeVars, checkout, verifyVars>>

\* The catch block marks what it knows of, and swallows its own errors.
DatabaseFault(d) ==
    /\ May("database")
    /\ \/ hook[d] \in {"register", "find", "retry", "fail_event"} /\ HookGoto(d, "done")
       \/ /\ hook[d] \in {"read", "log", "act", "mark", "succeed"}
          /\ HookGoto(d, IF row[d] = "known" THEN "fail_log" ELSE "fail_event")
       \/ hook[d] = "fail_log" /\ HookGoto(d, "fail_event")
    /\ UNCHANGED <<purchaseVars, event, logged, cashfreeVars, checkout, verifyVars>>

HookDies(d) ==
    /\ May("crash")
    /\ hook[d] \notin {"idle", "done"}
    /\ HookGoto(d, "done")
    /\ UNCHANGED <<purchaseVars, event, logged, cashfreeVars, checkout, verifyVars>>

-----------------------------------------------------------------------------
Next ==
    \/ \E p \in Purchases :
        \/ CreatePurchase(p) \/ CreateOrder(p) \/ CheckoutFails(p) \/ CheckoutDies(p)
        \/ PaymentFails(p) \/ Pay(p)
    \/ \E v \in Verifiers :
        \/ \E p \in Purchases : VerifyRead(v, p)
        \/ VerifyAsk(v) \/ VerifyMarkFailed(v) \/ VerifyComplete(v) \/ VerifyDies(v)
    \/ \E d \in Deliveries :
        \/ \E e \in Events : Deliver(d, e)
        \/ Register(d) \/ FindEvent(d) \/ RetryEvent(d) \/ ReadLog(d) \/ WriteLog(d)
        \/ Act(d) \/ MarkProcessed(d) \/ Succeed(d) \/ FailLog(d) \/ FailEvent(d)
        \/ DatabaseFault(d) \/ HookDies(d)

Spec == Init /\ [][Next]_vars

-----------------------------------------------------------------------------
(* Properties.                                                             *)

\* Credits only enter the wallet the way WalletLedger allows, and never more
\* than the purchases are worth together.
Ledger == INSTANCE WalletLedger WITH
    Items <- {}, Refunders <- {}, Price <- 1, TopUpAmounts <- {Amount},
    CreditBound <- Amount * Cardinality(Purchases), debits <- {}, refunds <- {},
    credited <- SumFunctionOnSet([p \in Purchases |-> Amount * credits[p]], Purchases)

RefinesLedger == Ledger!Spec

\* A purchase is credited exactly once when it is PAID and never otherwise,
\* although the page, its reloads and every retry of the webhook may each
\* complete it, and an event may be processed by two deliveries at a time.
CreditedOnce == \A p \in Purchases : credits[p] = IF purchase[p] = "PAID" THEN 1 ELSE 0

\* Nothing is credited for an order the customer has not paid.
CreditedOnlyIfPaid == \A p \in Purchases : credits[p] > 0 => order[p] = "PAID"

\* A purchase that was credited is never reported as failed: not by a slow
\* verification, and not by the report of an earlier failed payment.
PaidIsFinal ==
    [][\A p \in Purchases : purchase[p] = "PAID" => purchase'[p] = "PAID"]_vars

\* Whatever fails half-way and is retried, an event only counts as processed
\* when its purchase has been decided.
AcknowledgedIsDecided ==
    \A e \in Events : event[e] = "SUCCEEDED" => purchase[e[1]] \in {"PAID", "FAILED"}

Processing(d) == hook[d] \notin {"idle", "register", "find", "retry", "done"}

\* docs/provider-webhook-idempotency.md:39: after an attempt that failed, the
\* next retry reprocesses the event.  So no delivery finds an event PROCESSING,
\* and is about to be turned away as a duplicate, when nobody processes it.
RetryReprocesses ==
    \A d \in Deliveries : hook[d] = "find" /\ event[handling[d]] = "PROCESSING" =>
        \E other \in Deliveries : handling[other] = handling[d] /\ Processing(other)
=============================================================================
