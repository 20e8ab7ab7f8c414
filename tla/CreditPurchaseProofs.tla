------------------------- MODULE CreditPurchaseProofs -------------------------
(***************************************************************************)
(* A purchase is credited once, only when paid for, and for good: for any  *)
(* number of purchases, verifications and deliveries, under any faults.    *)
(***************************************************************************)
EXTENDS CreditPurchase, FoldLemmas

VerifyOf(v) == VerifyAsk(v) \/ VerifyMarkFailed(v) \/ VerifyComplete(v) \/ VerifyDies(v)

HookOf(d) ==
    \/ Register(d) \/ FindEvent(d) \/ RetryEvent(d) \/ ReadLog(d) \/ WriteLog(d)
    \/ Act(d) \/ MarkProcessed(d) \/ Succeed(d) \/ FailLog(d) \/ FailEvent(d)
    \/ DatabaseFault(d) \/ HookDies(d)

\* The parts of the type invariant the argument needs.
LocalsOK ==
    /\ purchase \in [Purchases -> {"NONE", "CREATED", "PAID", "FAILED"}]
    /\ credits \in [Purchases -> Nat]
    /\ order \in [Purchases -> {"NONE", "ACTIVE", "PAID"}]
    /\ emitted \subseteq Events
    /\ checkout \in [Purchases -> {"idle", "order", "catch", "done"}]
    /\ verify \in [Verifiers -> VerifySteps]
    /\ verifying \in [Verifiers -> Purchases \cup {NoPurchase}]
    /\ hook \in [Deliveries -> HookSteps]
    /\ handling \in [Deliveries -> Events \cup {NoEvent}]

\* An order appears only after its checkout has nothing left to undo.
OrderAfterCheckout ==
    \A p \in Purchases : checkout[p] \in {"idle", "order", "catch"} => order[p] = "NONE"

\* Whoever is going to complete a purchase has seen it paid.
SeenPaid ==
    /\ \A p \in Purchases : <<p, "success">> \in emitted => order[p] = "PAID"
    /\ \A d \in Deliveries : hook[d] # "idle" => handling[d] \in emitted
    /\ \A v \in Verifiers : verify[v] # "idle" => verifying[v] \in Purchases
    /\ \A v \in Verifiers : verify[v] = "complete" => order[verifying[v]] = "PAID"

PaidMeansPaid == \A p \in Purchases : purchase[p] = "PAID" => order[p] = "PAID"

PurchaseInv == LocalsOK /\ OrderAfterCheckout /\ SeenPaid /\ PaidMeansPaid /\ CreditedOnce

\* Completing a payment whose order is paid, whoever does it.
LEMMA CompleteKeeps ==
    ASSUME PurchaseInv, NEW p \in Purchases, order[p] = "PAID", CompletePayment(p),
           UNCHANGED order
    PROVE  /\ purchase' \in [Purchases -> {"NONE", "CREATED", "PAID", "FAILED"}]
           /\ credits' \in [Purchases -> Nat]
           /\ PaidMeansPaid' /\ CreditedOnce'
           /\ \A q \in Purchases : purchase[q] = "PAID" => purchase'[q] = "PAID"
<1>1. CASE Creditable(p)
  BY <1>1 DEF PurchaseInv, LocalsOK, PaidMeansPaid, CreditedOnce, CompletePayment, Creditable
<1>2. CASE ~Creditable(p)
  BY <1>2 DEF PurchaseInv, LocalsOK, PaidMeansPaid, CreditedOnce, CompletePayment, purchaseVars
<1>3. QED
  BY <1>1, <1>2

\* A conditional failure leaves what was paid alone.
LEMMA FailKeeps ==
    ASSUME PurchaseInv, NEW p \in Purchases, NEW unless, "PAID" \in unless,
           MarkFailed(p, unless), UNCHANGED <<credits, order>>
    PROVE  /\ purchase' \in [Purchases -> {"NONE", "CREATED", "PAID", "FAILED"}]
           /\ PaidMeansPaid' /\ CreditedOnce'
           /\ \A q \in Purchases : purchase[q] = "PAID" => purchase'[q] = "PAID"
BY DEF PurchaseInv, LocalsOK, PaidMeansPaid, CreditedOnce, MarkFailed

\* The request that opens a checkout, and the customer.
LEMMA CheckoutStep ==
    ASSUME PurchaseInv, NEW p \in Purchases,
           CreatePurchase(p) \/ CreateOrder(p) \/ CheckoutFails(p) \/ CheckoutDies(p)
             \/ PaymentFails(p) \/ Pay(p)
    PROVE  /\ PurchaseInv'
           /\ \A q \in Purchases : purchase[q] = "PAID" => purchase'[q] = "PAID"
<1> USE DEF PurchaseInv, LocalsOK, OrderAfterCheckout, SeenPaid, PaidMeansPaid, CreditedOnce,
        cashfreeVars, verifyVars, hookVars, purchaseVars
<1>1. CASE CreatePurchase(p)
  BY <1>1 DEF CreatePurchase
<1>2. CASE CreateOrder(p)
  BY <1>2 DEF CreateOrder
<1>3. CASE CheckoutFails(p)
  BY <1>3 DEF CheckoutFails
<1>4. CASE CheckoutDies(p)
  BY <1>4 DEF CheckoutDies
<1>5. CASE PaymentFails(p)
  BY <1>5 DEF PaymentFails, Events
<1>6. CASE Pay(p)
  BY <1>6 DEF Pay, Events
<1>7. QED
  BY <1>1, <1>2, <1>3, <1>4, <1>5, <1>6

\* The page that verifies a checkout.
LEMMA VerifyStep ==
    ASSUME PurchaseInv, NEW v \in Verifiers,
           (\E p \in Purchases : VerifyRead(v, p)) \/ VerifyOf(v)
    PROVE  /\ PurchaseInv'
           /\ \A q \in Purchases : purchase[q] = "PAID" => purchase'[q] = "PAID"
<1>1. ASSUME NEW p \in Purchases, VerifyRead(v, p) PROVE PurchaseInv' /\ UNCHANGED purchase
  BY <1>1 DEF VerifyRead, PurchaseInv, LocalsOK, OrderAfterCheckout, SeenPaid, PaidMeansPaid,
     CreditedOnce, cashfreeVars, hookVars, purchaseVars, VerifySteps
<1>2. CASE VerifyAsk(v)
  BY <1>2 DEF VerifyAsk, VerifyGoto, IsPaid, PurchaseInv, LocalsOK, OrderAfterCheckout, SeenPaid,
     PaidMeansPaid, CreditedOnce, cashfreeVars, hookVars, purchaseVars, VerifySteps
<1>3. CASE VerifyMarkFailed(v)
  <2>1. verifying[v] \in Purchases
    BY <1>3 DEF VerifyMarkFailed, PurchaseInv, SeenPaid
  <2>2. /\ purchase' \in [Purchases -> {"NONE", "CREATED", "PAID", "FAILED"}]
        /\ PaidMeansPaid' /\ CreditedOnce'
        /\ \A q \in Purchases : purchase[q] = "PAID" => purchase'[q] = "PAID"
    BY <1>3, <2>1, FailKeeps DEF VerifyMarkFailed, cashfreeVars
  <2>3. QED
    BY <1>3, <2>2 DEF VerifyMarkFailed, VerifyGoto, PurchaseInv, LocalsOK, OrderAfterCheckout,
       SeenPaid, cashfreeVars, hookVars, VerifySteps
<1>4. CASE VerifyComplete(v)
  <2>1. verifying[v] \in Purchases /\ order[verifying[v]] = "PAID"
    BY <1>4 DEF VerifyComplete, PurchaseInv, SeenPaid
  <2>2. /\ purchase' \in [Purchases -> {"NONE", "CREATED", "PAID", "FAILED"}]
        /\ credits' \in [Purchases -> Nat]
        /\ PaidMeansPaid' /\ CreditedOnce'
        /\ \A q \in Purchases : purchase[q] = "PAID" => purchase'[q] = "PAID"
    BY <1>4, <2>1, CompleteKeeps DEF VerifyComplete, cashfreeVars
  <2>3. QED
    BY <1>4, <2>2 DEF VerifyComplete, VerifyGoto, PurchaseInv, LocalsOK, OrderAfterCheckout,
       SeenPaid, cashfreeVars, hookVars, VerifySteps
<1>5. CASE VerifyDies(v)
  BY <1>5 DEF VerifyDies, VerifyGoto, PurchaseInv, LocalsOK, OrderAfterCheckout, SeenPaid,
     PaidMeansPaid, CreditedOnce, cashfreeVars, hookVars, purchaseVars, VerifySteps
<1>6. QED
  BY <1>1, <1>2, <1>3, <1>4, <1>5 DEF VerifyOf

\* The steps of a delivery that leave the purchase alone.
LEMMA HookElsewhere ==
    ASSUME PurchaseInv, NEW d \in Deliveries, NEW step \in HookSteps,
           hook' = [hook EXCEPT ![d] = step], hook[d] # "idle",
           UNCHANGED <<purchaseVars, cashfreeVars, checkout, verifyVars, handling>>
    PROVE  PurchaseInv' /\ UNCHANGED purchase
BY DEF PurchaseInv, LocalsOK, OrderAfterCheckout, SeenPaid, PaidMeansPaid, CreditedOnce,
   cashfreeVars, verifyVars, purchaseVars

\* A webhook delivery.
LEMMA HookStep ==
    ASSUME PurchaseInv, NEW d \in Deliveries, (\E e \in Events : Deliver(d, e)) \/ HookOf(d)
    PROVE  /\ PurchaseInv'
           /\ \A q \in Purchases : purchase[q] = "PAID" => purchase'[q] = "PAID"
<1>1. ASSUME NEW e \in Events, Deliver(d, e) PROVE PurchaseInv' /\ UNCHANGED purchase
  BY <1>1 DEF Deliver, PurchaseInv, LocalsOK, OrderAfterCheckout, SeenPaid, PaidMeansPaid,
     CreditedOnce, cashfreeVars, verifyVars, purchaseVars, HookSteps
<1>2. CASE Act(d)
  <2> DEFINE p == handling[d][1]
  <2>1. handling[d] \in emitted /\ handling[d] \in Events
    BY <1>2 DEF Act, PurchaseInv, SeenPaid, LocalsOK
  <2>2. p \in Purchases /\ handling[d][2] \in {"success", "failed"}
    BY <2>1 DEF Events
  <2>3. handling[d] = <<p, handling[d][2]>>
    BY <2>1 DEF Events
  <2>4. /\ purchase' \in [Purchases -> {"NONE", "CREATED", "PAID", "FAILED"}]
        /\ credits' \in [Purchases -> Nat]
        /\ PaidMeansPaid' /\ CreditedOnce'
        /\ \A q \in Purchases : purchase[q] = "PAID" => purchase'[q] = "PAID"
    <3>1. CASE handling[d][2] = "success"
      <4>1. order[p] = "PAID"
        BY <2>1, <2>2, <2>3, <3>1 DEF PurchaseInv, SeenPaid
      <4>2. QED
        BY <1>2, <2>2, <3>1, <4>1, CompleteKeeps DEF Act, cashfreeVars
    <3>2. CASE handling[d][2] = "failed"
      <4>1. MarkFailed(p, {"PAID"}) /\ UNCHANGED <<credits, order>>
        BY <1>2, <3>2 DEF Act, cashfreeVars
      <4>2. QED
        BY <2>2, <4>1, FailKeeps DEF PurchaseInv, LocalsOK
    <3>3. QED
      BY <2>2, <3>1, <3>2
  <2>5. QED
    BY <1>2, <2>4 DEF Act, HookGoto, PurchaseInv, LocalsOK, OrderAfterCheckout, SeenPaid,
       cashfreeVars, verifyVars, HookSteps
<1>3. CASE Register(d) \/ FindEvent(d) \/ RetryEvent(d)
  BY <1>3, HookElsewhere DEF Register, FindEvent, RetryEvent, HookGoto, HookSteps
<1>4. CASE ReadLog(d) \/ WriteLog(d)
  BY <1>4, HookElsewhere DEF ReadLog, WriteLog, HookSteps
<1>5. CASE MarkProcessed(d) \/ Succeed(d) \/ FailLog(d) \/ FailEvent(d)
  BY <1>5, HookElsewhere DEF MarkProcessed, Succeed, FailLog, FailEvent, HookGoto, HookSteps
<1>6. CASE DatabaseFault(d) \/ HookDies(d)
  BY <1>6, HookElsewhere DEF DatabaseFault, HookDies, HookGoto, HookSteps
<1>7. QED
  BY <1>1, <1>2, <1>3, <1>4, <1>5, <1>6 DEF HookOf

\* Both facts, for every step.
LEMMA PurchaseStep ==
    ASSUME PurchaseInv, [Next]_vars
    PROVE  /\ PurchaseInv'
           /\ \A q \in Purchases : purchase[q] = "PAID" => purchase'[q] = "PAID"
<1>1. CASE UNCHANGED vars
  BY <1>1 DEF vars, PurchaseInv, LocalsOK, OrderAfterCheckout, SeenPaid, PaidMeansPaid,
     CreditedOnce, cashfreeVars, verifyVars, hookVars, purchaseVars
<1>2. CASE Next
  BY <1>2, CheckoutStep, VerifyStep, HookStep DEF Next, VerifyOf, HookOf
<1>3. QED
  BY <1>1, <1>2

\* The invariant holds at the start.
LEMMA PurchaseInit == Init => PurchaseInv
BY DEF Init, PurchaseInv, LocalsOK, OrderAfterCheckout, SeenPaid, PaidMeansPaid, CreditedOnce,
   Events, VerifySteps, HookSteps

\* A purchase has exactly one CREDIT row when it is PAID and none otherwise,
\* whatever races and whatever fails.
THEOREM CreditsMatchPurchases == Spec => []CreditedOnce
<1>1. PurchaseInv => CreditedOnce
  BY DEF PurchaseInv
<1>2. QED
  BY <1>1, PurchaseInit, PurchaseStep, PTL DEF Spec

\* Only orders the customer paid are credited.
THEOREM CreditsArePaidFor == Spec => []CreditedOnlyIfPaid
<1>1. PurchaseInv => CreditedOnlyIfPaid
  BY DEF PurchaseInv, PaidMeansPaid, CreditedOnce, CreditedOnlyIfPaid
<1>2. QED
  BY <1>1, PurchaseInit, PurchaseStep, PTL DEF Spec

\* A credited purchase never becomes a failed one.
THEOREM CreditIsFinal == Spec => PaidIsFinal
<1>1. PurchaseInv /\ [Next]_vars =>
        [\A p \in Purchases : purchase[p] = "PAID" => purchase'[p] = "PAID"]_vars
  BY PurchaseStep
<1>2. QED
  BY <1>1, PurchaseInit, PurchaseStep, PTL DEF Spec, PaidIsFinal

-----------------------------------------------------------------------------
(* What an event that counts as processed has done.                        *)

Decided(p) == purchase[p] \in {"PAID", "FAILED"}

\* A purchase exists from the first step of its checkout on, and what is
\* verified or reported belongs to an order.
Opened ==
    /\ \A p \in Purchases : checkout[p] = "idle" <=> purchase[p] = "NONE"
    /\ \A v \in Verifiers : verify[v] # "idle" => order[verifying[v]] # "NONE"
    /\ \A e \in emitted : order[e[1]] # "NONE"

\* Every record of success, at the provider ledger, in the log and in the hands
\* of a delivery, was written after the purchase was decided.
Recorded ==
    /\ \A e \in Events : logged[e] = "PROCESSED" => Decided(e[1])
    /\ \A d \in Deliveries : hook[d] \in {"mark", "succeed"} => Decided(handling[d][1])
    /\ AcknowledgedIsDecided

DecisionInv == PurchaseInv /\ TypeOK /\ Opened /\ Recorded

\* An order that is there means a purchase that is there.
LEMMA OrderedIsOpened ==
    ASSUME PurchaseInv, Opened, NEW p \in Purchases, order[p] # "NONE"
    PROVE  purchase[p] # "NONE" /\ checkout[p] # "idle"
BY DEF PurchaseInv, OrderAfterCheckout, Opened

\* Both ways to end a purchase decide one that exists, and no other.
LEMMA EndsDecided ==
    ASSUME PurchaseInv, NEW p \in Purchases, purchase[p] # "NONE",
           \/ CompletePayment(p)
           \/ \E unless \in SUBSET {"PAID", "FAILED"} : MarkFailed(p, unless)
    PROVE  /\ Decided(p)'
           /\ \A q \in Purchases : q # p => purchase'[q] = purchase[q]
<1>1. purchase \in [Purchases -> {"NONE", "CREATED", "PAID", "FAILED"}]
    BY DEF PurchaseInv, LocalsOK
<1>2. CASE CompletePayment(p)
    BY <1>1, <1>2 DEF CompletePayment, Creditable, Decided, purchaseVars
<1>3. CASE \E unless \in SUBSET {"PAID", "FAILED"} : MarkFailed(p, unless)
    BY <1>1, <1>3 DEF MarkFailed, Decided
<1> QED BY <1>2, <1>3

\* What a step leaves of purchases and orders.
Moves ==
    /\ \A p \in Purchases : /\ Decided(p) => Decided(p)'
                            /\ order[p] # "NONE" => order'[p] # "NONE"
    /\ Opened'

LEMMA CheckoutMoves ==
    ASSUME PurchaseInv, Opened, NEW p \in Purchases,
           CreatePurchase(p) \/ CreateOrder(p) \/ CheckoutFails(p) \/ CheckoutDies(p)
             \/ PaymentFails(p) \/ Pay(p)
    PROVE  Moves /\ UNCHANGED <<event, logged, hookVars>>
<1>1. /\ purchase \in [Purchases -> {"NONE", "CREATED", "PAID", "FAILED"}]
      /\ order \in [Purchases -> {"NONE", "ACTIVE", "PAID"}]
      /\ checkout \in [Purchases -> {"idle", "order", "catch", "done"}]
      /\ emitted \subseteq Events /\ \A v \in Verifiers : verify[v] # "idle" => verifying[v] \in Purchases
      /\ \A e \in Events : e[1] \in Purchases
    BY DEF PurchaseInv, LocalsOK, SeenPaid, Events
<1>2. CASE CreatePurchase(p)
    BY <1>1, <1>2 DEF CreatePurchase, Moves, Opened, Decided, cashfreeVars, verifyVars
<1>3. CASE CreateOrder(p)
    BY <1>1, <1>3 DEF CreateOrder, Moves, Opened, Decided, purchaseVars, verifyVars
<1>4. CASE CheckoutFails(p)
    BY <1>1, <1>4 DEF CheckoutFails, Moves, Opened, Decided, cashfreeVars, verifyVars
<1>5. CASE CheckoutDies(p)
    BY <1>1, <1>5 DEF CheckoutDies, Moves, Opened, Decided, cashfreeVars, purchaseVars, verifyVars
<1>6. CASE PaymentFails(p)
    BY <1>1, <1>6 DEF PaymentFails, Moves, Opened, Decided, purchaseVars, verifyVars
<1>7. CASE Pay(p)
    BY <1>1, <1>7 DEF Pay, Moves, Opened, Decided, purchaseVars, verifyVars
<1> QED BY <1>2, <1>3, <1>4, <1>5, <1>6, <1>7
        DEF CreatePurchase, CreateOrder, CheckoutFails, CheckoutDies, PaymentFails, Pay

LEMMA VerifyMoves ==
    ASSUME PurchaseInv, Opened, NEW v \in Verifiers,
           (\E p \in Purchases : VerifyRead(v, p)) \/ VerifyOf(v)
    PROVE  Moves /\ UNCHANGED <<event, logged, hookVars>>
<1>1. /\ verify \in [Verifiers -> VerifySteps] /\ verifying \in [Verifiers -> Purchases \cup {NoPurchase}]
      /\ \A w \in Verifiers : verify[w] # "idle" => verifying[w] \in Purchases
    BY DEF PurchaseInv, LocalsOK, SeenPaid
<1>2. ASSUME NEW p \in Purchases, VerifyRead(v, p) PROVE Moves /\ UNCHANGED <<event, logged, hookVars>>
    BY <1>1, <1>2 DEF VerifyRead, Moves, Opened, Decided, purchaseVars, cashfreeVars
<1>3. CASE VerifyAsk(v) \/ VerifyDies(v)
    <2>1. /\ UNCHANGED <<purchaseVars, event, logged, cashfreeVars, checkout, hookVars, verifying>>
          /\ verify[v] # "idle" /\ \E step : verify' = [verify EXCEPT ![v] = step]
        BY <1>3 DEF VerifyAsk, VerifyDies, VerifyGoto
    <2> QED BY <1>1, <2>1 DEF Moves, Opened, Decided, purchaseVars, cashfreeVars
<1>4. CASE VerifyMarkFailed(v) \/ VerifyComplete(v)
    <2>1. /\ UNCHANGED <<event, logged, cashfreeVars, checkout, hookVars, verifying>>
          /\ verify[v] # "idle" /\ verify' = [verify EXCEPT ![v] = "done"]
        BY <1>4 DEF VerifyMarkFailed, VerifyComplete, VerifyGoto
    <2>2. PICK p \in Purchases : p = verifying[v]
        BY <1>1, <2>1
    <2>3. purchase[p] # "NONE" /\ checkout[p] # "idle"
        BY <2>1, <2>2, OrderedIsOpened DEF Opened
    <2>8. CompletePayment(p) \/ \E unless \in SUBSET {"PAID", "FAILED"} : MarkFailed(p, unless)
        BY <1>4, <2>2 DEF VerifyMarkFailed, VerifyComplete
    <2>4. Decided(p)' /\ \A q \in Purchases : q # p => purchase'[q] = purchase[q]
        BY <2>3, <2>8, EndsDecided
    <2>5. purchase'[p] # "NONE"
        BY <2>4 DEF Decided
    <2>6. \A q \in Purchases : checkout'[q] = "idle" <=> purchase'[q] = "NONE"
        BY <2>1, <2>3, <2>4, <2>5 DEF Opened
    <2>7. \A q \in Purchases : Decided(q) => Decided(q)'
        BY <2>4, <2>5 DEF Decided
    <2> QED BY <1>1, <2>1, <2>6, <2>7 DEF Moves, Opened, cashfreeVars
<1> QED BY <1>2, <1>3, <1>4 DEF VerifyOf

LEMMA HookMoves ==
    ASSUME PurchaseInv, Opened, NEW d \in Deliveries, (\E e \in Events : Deliver(d, e)) \/ HookOf(d)
    PROVE  /\ Moves /\ \A c \in Deliveries \ {d} : hook'[c] = hook[c] /\ handling'[c] = handling[c]
           /\ Act(d) => Decided(handling[d][1])'
<1>1. hook \in [Deliveries -> HookSteps] /\ handling \in [Deliveries -> Events \cup {NoEvent}]
    BY DEF PurchaseInv, LocalsOK
<1>2. \A c \in Deliveries \ {d} : hook'[c] = hook[c] /\ handling'[c] = handling[c]
    BY <1>1 DEF HookOf, Deliver, Register, FindEvent, RetryEvent, ReadLog, WriteLog, Act, MarkProcessed, Succeed, FailLog,
        FailEvent, DatabaseFault, HookDies, HookGoto
<1>3. CASE ~Act(d)
    <2>1. UNCHANGED <<purchaseVars, cashfreeVars, checkout, verifyVars>>
        BY <1>3 DEF HookOf, Deliver, Register, FindEvent, RetryEvent, ReadLog, WriteLog, MarkProcessed, Succeed, FailLog,
            FailEvent, DatabaseFault, HookDies
    <2>2. UNCHANGED <<purchase, order, emitted, checkout, verify, verifying>>
        BY <2>1 DEF purchaseVars, cashfreeVars, verifyVars
    <2> QED BY <1>2, <1>3, <2>2 DEF Moves, Opened, Decided
<1>4. CASE Act(d)
    <2>1. UNCHANGED <<cashfreeVars, checkout, verifyVars>> /\ handling[d] \in emitted
        BY <1>4 DEF Act, PurchaseInv, SeenPaid
    <2>2. PICK p \in Purchases : p = handling[d][1]
        BY <2>1 DEF PurchaseInv, LocalsOK, Events
    <2>3. purchase[p] # "NONE" /\ checkout[p] # "idle"
        BY <2>1, <2>2, OrderedIsOpened DEF Opened
    <2>4. CompletePayment(p) \/ \E unless \in SUBSET {"PAID", "FAILED"} : MarkFailed(p, unless)
        BY <1>4, <2>2 DEF Act
    <2>5. Decided(p)' /\ \A q \in Purchases : q # p => purchase'[q] = purchase[q]
        BY <2>2, <2>3, <2>4, EndsDecided
    <2>6. purchase'[p] # "NONE"
        BY <2>5 DEF Decided
    <2>7. \A q \in Purchases : checkout'[q] = "idle" <=> purchase'[q] = "NONE"
        BY <2>1, <2>2, <2>3, <2>5, <2>6 DEF Opened
    <2>8. \A q \in Purchases : Decided(q) => Decided(q)'
        BY <2>5 DEF Decided
    <2>9. Moves
        BY <2>1, <2>7, <2>8 DEF Moves, Opened, cashfreeVars, verifyVars
    <2>10. Decided(handling[d][1])'
        <3>1. handling'[d] = handling[d]
            BY <1>4 DEF Act, HookGoto
        <3> QED BY <2>2, <2>5, <3>1 DEF Decided
    <2> QED BY <1>2, <2>9, <2>10
<1> QED BY <1>3, <1>4

\* The type invariant has more to say than LocalsOK of the wallet, of the two
\* ledgers of events and of the log row a delivery knows.
RestOK ==
    /\ balance \in Int
    /\ event \in [Events -> {"NONE", "PROCESSING", "SUCCEEDED", "FAILED"}]
    /\ logged \in [Events -> {"NONE", "RECEIVED", "PROCESSED", "FAILED"}]
    /\ row \in [Deliveries -> {"unknown", "found", "known"}]
    /\ \A d \in Deliveries : hook[d] \in {"act", "mark"} => row[d] = "known"

LEMMA TypeSplits == TypeOK <=> LocalsOK /\ RestOK
BY DEF TypeOK, LocalsOK, RestOK

LEMMA BalanceIsNumber ==
    ASSUME balance \in Int, NEW p, CompletePayment(p)
    PROVE  balance' \in Int
<1>1. Amount \in Nat
  BY PurchaseAssumption
<1>2. CASE Creditable(p)
  BY <1>1, <1>2 DEF CompletePayment
<1>3. CASE ~Creditable(p)
  BY <1>3 DEF CompletePayment, purchaseVars
<1>4. QED
  BY <1>2, <1>3

\* What a step may write down: nothing new, or what has been decided.
LEMMA RecordsDecided ==
    ASSUME DecisionInv, Moves,
           \A e \in Events : event'[e] = "SUCCEEDED" => event[e] = "SUCCEEDED" \/ Decided(e[1])',
           \A e \in Events : logged'[e] = "PROCESSED" => logged[e] = "PROCESSED" \/ Decided(e[1])',
           \A c \in Deliveries : hook'[c] \in {"mark", "succeed"} =>
               \/ hook[c] = hook'[c] /\ handling[c] = handling'[c]
               \/ Decided(handling[c][1])'
    PROVE  Recorded'
<1> USE DEF Decided
<1>1. \A e \in Events : Decided(e[1]) => Decided(e[1])'
  BY DEF Events, Moves
<1>2. \A e \in Events : logged'[e] = "PROCESSED" => Decided(e[1])'
  BY <1>1 DEF DecisionInv, Recorded
<1>3. AcknowledgedIsDecided'
  BY <1>1 DEF DecisionInv, Recorded, AcknowledgedIsDecided
<1>4. ASSUME NEW c \in Deliveries, hook'[c] \in {"mark", "succeed"} PROVE Decided(handling[c][1])'
  <2>1. CASE hook[c] = hook'[c] /\ handling[c] = handling'[c]
    <3>1. handling[c] \in Events /\ Decided(handling[c][1])
      BY <1>4, <2>1 DEF DecisionInv, PurchaseInv, SeenPaid, LocalsOK, Recorded
    <3>2. QED
      BY <1>1, <2>1, <3>1
  <2>2. QED
    BY <1>4, <2>1
<1>5. QED
  BY <1>2, <1>3, <1>4 DEF Recorded

\* The steps of a delivery.
LEMMA HookRecords ==
    ASSUME DecisionInv, NEW d \in Deliveries, (\E e \in Events : Deliver(d, e)) \/ HookOf(d)
    PROVE  RestOK' /\ Moves /\ Recorded'
<1> USE DEF Decided
<1>1. Moves /\ \A c \in Deliveries \ {d} : hook'[c] = hook[c] /\ handling'[c] = handling[c]
  BY HookMoves DEF DecisionInv
<1>2. /\ hook \in [Deliveries -> HookSteps] /\ handling \in [Deliveries -> Events \cup {NoEvent}]
      /\ hook[d] # "idle" => handling[d] \in Events
      /\ RestOK
  BY TypeSplits DEF DecisionInv, PurchaseInv, LocalsOK, SeenPaid
<1>3. ASSUME NEW e \in Events, Deliver(d, e) PROVE RestOK' /\ Recorded'
  <2>1. UNCHANGED <<event, logged, row, balance>> /\ hook' = [hook EXCEPT ![d] = "register"]
    BY <1>3 DEF Deliver, purchaseVars
  <2>2. RestOK'
    BY <1>2, <2>1 DEF RestOK
  <2>3. QED
    BY <1>1, <1>2, <2>1, <2>2, RecordsDecided
<1>4. CASE Register(d) \/ RetryEvent(d)
  <2>1. /\ UNCHANGED <<logged, row, balance>>
        /\ \E step \in {"read", "find"} : hook' = [hook EXCEPT ![d] = step]
        /\ event' \in {event, [event EXCEPT ![handling[d]] = "PROCESSING"]}
    BY <1>4 DEF Register, RetryEvent, HookGoto, purchaseVars
  <2>2. RestOK'
    BY <1>2, <2>1 DEF RestOK
  <2>3. \A e \in Events : event'[e] = "SUCCEEDED" => event[e] = "SUCCEEDED"
    BY <1>2, <2>1 DEF RestOK
  <2>4. hook'[d] \notin {"mark", "succeed"}
    BY <1>2, <2>1
  <2>5. QED
    BY <1>1, <2>1, <2>2, <2>3, <2>4, RecordsDecided
<1>5. CASE FindEvent(d)
  <2>1. /\ UNCHANGED <<event, logged, row, balance>>
        /\ \E step \in {"retry", "done"} : hook' = [hook EXCEPT ![d] = step]
    BY <1>5 DEF FindEvent, HookGoto, purchaseVars
  <2>2. RestOK' /\ hook'[d] \notin {"mark", "succeed"}
    BY <1>2, <2>1 DEF RestOK
  <2>3. QED
    BY <1>1, <2>1, <2>2, RecordsDecided
<1>6. CASE ReadLog(d)
  <2>1. /\ UNCHANGED <<event, logged, balance, handling>> /\ hook[d] = "read"
        /\ hook' = [hook EXCEPT ![d] = IF Handled(handling[d]) THEN "succeed" ELSE "log"]
        /\ \E known \in {"unknown", "found"} : row' = [row EXCEPT ![d] = known]
    BY <1>6 DEF ReadLog, purchaseVars
  <2>2. RestOK'
    BY <1>2, <2>1 DEF RestOK
  <2>3. ASSUME hook'[d] \in {"mark", "succeed"} PROVE Decided(handling[d][1])'
    <3>1. logged[handling[d]] = "PROCESSED" /\ handling[d] \in Events
      BY <1>2, <2>1, <2>3 DEF Handled
    <3>2. Decided(handling[d][1]) /\ handling[d][1] \in Purchases
      BY <3>1 DEF DecisionInv, Recorded, Events
    <3>3. QED
      BY <1>1, <2>1, <3>2 DEF Moves, Decided
  <2>4. QED
    BY <1>1, <2>1, <2>2, <2>3, RecordsDecided
<1>7. CASE WriteLog(d)
  <2>1. /\ UNCHANGED <<event, balance>>
        /\ \/ /\ logged' = [logged EXCEPT ![handling[d]] = "RECEIVED"]
              /\ hook' = [hook EXCEPT ![d] = "act"]
              /\ row' = [row EXCEPT ![d] = "known"]
           \/ hook' = [hook EXCEPT ![d] = "fail_event"] /\ UNCHANGED <<logged, row>>
    BY <1>7 DEF WriteLog, RowAfterLog, purchaseVars
  <2>2. RestOK'
    BY <1>2, <2>1 DEF RestOK
  <2>3. \A e \in Events : logged'[e] = "PROCESSED" => logged[e] = "PROCESSED"
    BY <1>2, <2>1 DEF RestOK
  <2>4. hook'[d] \notin {"mark", "succeed"}
    BY <1>2, <2>1
  <2>5. QED
    BY <1>1, <2>1, <2>2, <2>3, <2>4, RecordsDecided
<1>8. CASE Act(d)
  <2>1. /\ UNCHANGED <<event, logged, row>> /\ hook[d] = "act"
        /\ hook' = [hook EXCEPT ![d] = "mark"]
    BY <1>8 DEF Act, HookGoto
  <2>2. balance' \in Int
    BY <1>2, <1>8, BalanceIsNumber DEF Act, RestOK
  <2>3. RestOK'
    BY <1>2, <2>1, <2>2 DEF RestOK
  <2>4. Decided(handling[d][1])'
    BY <1>8, HookMoves DEF DecisionInv, HookOf
  <2>5. QED
    BY <1>1, <2>1, <2>3, <2>4, RecordsDecided
<1>9. CASE MarkProcessed(d)
  <2>1. /\ UNCHANGED <<event, row, balance, handling>> /\ hook[d] = "mark"
        /\ hook' = [hook EXCEPT ![d] = "succeed"]
        /\ logged' = [logged EXCEPT ![handling[d]] = "PROCESSED"]
    BY <1>9 DEF MarkProcessed, HookGoto, purchaseVars
  <2>2. RestOK'
    BY <1>2, <2>1 DEF RestOK
  <2>3. Decided(handling[d][1])'
    <3>1. Decided(handling[d][1]) /\ handling[d] \in Events /\ handling[d][1] \in Purchases
      BY <1>2, <2>1 DEF DecisionInv, Recorded, Events
    <3>2. QED
      BY <1>1, <2>1, <3>1 DEF Moves, Decided
  <2>4. \A e \in Events : logged'[e] = "PROCESSED" => logged[e] = "PROCESSED" \/ e = handling[d]
    BY <1>2, <2>1 DEF RestOK
  <2>5. \A e \in Events : logged'[e] = "PROCESSED" => logged[e] = "PROCESSED" \/ Decided(e[1])'
    BY <2>1, <2>3, <2>4 DEF Decided
  <2>6. QED
    BY <1>1, <2>1, <2>2, <2>3, <2>5, RecordsDecided
<1>10. CASE Succeed(d)
  <2>1. /\ UNCHANGED <<logged, row, balance, handling>> /\ hook[d] = "succeed"
        /\ hook' = [hook EXCEPT ![d] = "done"]
        /\ event' = [event EXCEPT ![handling[d]] = "SUCCEEDED"]
    BY <1>10 DEF Succeed, HookGoto, purchaseVars
  <2>2. RestOK' /\ hook'[d] \notin {"mark", "succeed"}
    BY <1>2, <2>1 DEF RestOK
  <2>3. Decided(handling[d][1])'
    <3>1. Decided(handling[d][1]) /\ handling[d] \in Events /\ handling[d][1] \in Purchases
      BY <1>2, <2>1 DEF DecisionInv, Recorded, Events
    <3>2. QED
      BY <1>1, <2>1, <3>1 DEF Moves, Decided
  <2>4. \A e \in Events : event'[e] = "SUCCEEDED" => event[e] = "SUCCEEDED" \/ e = handling[d]
    BY <1>2, <2>1 DEF RestOK
  <2>5. \A e \in Events : event'[e] = "SUCCEEDED" => event[e] = "SUCCEEDED" \/ Decided(e[1])'
    BY <2>1, <2>3, <2>4 DEF Decided
  <2>6. QED
    BY <1>1, <2>1, <2>2, <2>3, <2>5, RecordsDecided
<1>11. CASE FailLog(d) \/ FailEvent(d) \/ DatabaseFault(d) \/ HookDies(d)
  <2>1. /\ UNCHANGED <<row, balance>>
        /\ \E step \in {"done", "fail_log", "fail_event"} : hook' = [hook EXCEPT ![d] = step]
        /\ event' \in {event, [event EXCEPT ![handling[d]] = "FAILED"]}
        /\ logged' \in {logged, [logged EXCEPT ![handling[d]] = "FAILED"]}
    BY <1>11 DEF FailLog, FailEvent, DatabaseFault, HookDies, HookGoto, purchaseVars
  <2>2. RestOK'
    BY <1>2, <2>1 DEF RestOK
  <2>3. /\ \A e \in Events : event'[e] = "SUCCEEDED" => event[e] = "SUCCEEDED"
        /\ \A e \in Events : logged'[e] = "PROCESSED" => logged[e] = "PROCESSED"
    BY <1>2, <2>1 DEF RestOK
  <2>4. hook'[d] \notin {"mark", "succeed"}
    BY <1>2, <2>1
  <2>5. QED
    BY <1>1, <2>1, <2>2, <2>3, <2>4, RecordsDecided
<1>12. QED
  BY <1>1, <1>3, <1>4, <1>5, <1>6, <1>7, <1>8, <1>9, <1>10, <1>11 DEF HookOf

\* The other steps move money at most.
LEMMA OtherRecords ==
    ASSUME DecisionInv, Moves, balance' \in Int, UNCHANGED <<event, logged, hookVars>>
    PROVE  RestOK' /\ Recorded'
<1> USE DEF Decided
<1>1. UNCHANGED <<hook, handling, row>>
  BY DEF hookVars
<1>2. RestOK'
  BY <1>1, TypeSplits DEF DecisionInv, RestOK
<1>3. QED
  BY <1>1, <1>2, RecordsDecided

LEMMA DecisionStep == ASSUME DecisionInv, [Next]_vars PROVE DecisionInv'
<1>1. PurchaseInv' /\ LocalsOK'
  BY PurchaseStep DEF DecisionInv, PurchaseInv
<1>2. balance \in Int
  BY DEF DecisionInv, TypeOK
<1>3. CASE UNCHANGED vars
  BY <1>1, <1>3 DEF vars, DecisionInv, TypeOK, Opened, Recorded, AcknowledgedIsDecided, Decided,
     purchaseVars, cashfreeVars, verifyVars, hookVars
<1>4. ASSUME NEW p \in Purchases,
             CreatePurchase(p) \/ CreateOrder(p) \/ CheckoutFails(p) \/ CheckoutDies(p)
               \/ PaymentFails(p) \/ Pay(p)
      PROVE  RestOK' /\ Opened' /\ Recorded'
  <2>1. UNCHANGED balance
    BY <1>4 DEF CreatePurchase, CreateOrder, CheckoutFails, CheckoutDies, PaymentFails, Pay,
       purchaseVars
  <2>2. QED
    BY <1>2, <1>4, <2>1, CheckoutMoves, OtherRecords DEF DecisionInv, Moves
<1>5. ASSUME NEW v \in Verifiers, (\E p \in Purchases : VerifyRead(v, p)) \/ VerifyOf(v)
      PROVE  RestOK' /\ Opened' /\ Recorded'
  <2>1. CASE VerifyComplete(v)
    <3>1. balance' \in Int
      BY <1>2, <2>1, BalanceIsNumber DEF VerifyComplete
    <3>2. QED
      BY <1>5, <3>1, VerifyMoves, OtherRecords DEF DecisionInv, Moves
  <2>2. CASE ~VerifyComplete(v)
    <3>1. UNCHANGED balance
      BY <1>5, <2>2 DEF VerifyOf, VerifyRead, VerifyAsk, VerifyMarkFailed, VerifyDies, purchaseVars
    <3>2. QED
      BY <1>2, <1>5, <3>1, VerifyMoves, OtherRecords DEF DecisionInv, Moves
  <2>3. QED
    BY <2>1, <2>2
<1>6. ASSUME NEW d \in Deliveries, (\E e \in Events : Deliver(d, e)) \/ HookOf(d)
      PROVE  RestOK' /\ Opened' /\ Recorded'
  BY <1>6, HookRecords DEF Moves
<1>7. CASE Next
  <2>1. RestOK' /\ Opened' /\ Recorded'
    BY <1>4, <1>5, <1>6, <1>7 DEF Next, VerifyOf, HookOf
  <2>2. TypeOK'
    BY <1>1, <2>1 DEF TypeOK, LocalsOK, RestOK
  <2>3. QED
    BY <1>1, <2>1, <2>2 DEF DecisionInv
<1>8. QED
  BY <1>3, <1>7

LEMMA DecisionInit == Init => DecisionInv
<1> SUFFICES ASSUME Init PROVE DecisionInv
  OBVIOUS
<1>2. TypeOK
  BY PurchaseAssumption DEF Init, TypeOK, Events, VerifySteps, HookSteps
<1>3. Opened /\ Recorded
  BY DEF Init, Opened, Recorded, AcknowledgedIsDecided, Decided
<1>4. QED
  BY <1>2, <1>3, PurchaseInit DEF DecisionInv

\* Types of purchases, orders, events and requests, for any number of them.
THEOREM PurchaseTypes == Spec => []TypeOK
<1>1. DecisionInv => TypeOK
  BY DEF DecisionInv
<1>2. QED
  BY <1>1, DecisionInit, DecisionStep, PTL DEF Spec

\* An event counts as processed only when its purchase has been decided,
\* however often it is delivered and wherever an attempt at it fails.
THEOREM EventsDecided == Spec => []AcknowledgedIsDecided
<1>1. DecisionInv => AcknowledgedIsDecided
  BY DEF DecisionInv, Recorded
<1>2. QED
  BY <1>1, DecisionInit, DecisionStep, PTL DEF Spec

-----------------------------------------------------------------------------
(* Purchases implement the wallet: a step credits the pack of one purchase *)
(* or moves no money, and the credits never exceed what the purchases are  *)
(* worth together.                                                         *)

\* What each purchase has brought into the wallet.
Brought == [p \in Purchases |-> Amount * credits[p]]

LEMMA BroughtType ==
    ASSUME LocalsOK
    PROVE  /\ Brought \in [Purchases -> Nat] /\ IsFiniteSet(Purchases)
           /\ SumFunctionOnSet(Brought, Purchases) \in Nat
<1>1. \A a, c \in Nat : a * c \in Nat
  OBVIOUS
<1>2. Brought \in [Purchases -> Nat] /\ IsFiniteSet(Purchases)
  BY <1>1, PurchaseAssumption DEF Brought, LocalsOK
<1>3. QED
  BY <1>2, SumType

\* Whoever completes a payment tops the wallet up, or finds it done.
LEMMA CompletionTopsUp ==
    ASSUME PurchaseInv, CreditedOnce', LocalsOK', NEW p \in Purchases, CompletePayment(p)
    PROVE  Ledger!TopUp(Amount) \/ UNCHANGED Ledger!vars
<1> DEFINE sum == SumFunctionOnSet(Brought, Purchases)
<1>1. CASE ~Creditable(p)
  <2>1. UNCHANGED <<balance, credits>>
    BY <1>1 DEF CompletePayment, purchaseVars
  <2>2. QED
    BY <2>1 DEF Ledger!vars
<1>2. CASE Creditable(p)
  <2>1. balance' = balance + Amount /\ credits' = [credits EXCEPT ![p] = credits[p] + 1]
    BY <1>2 DEF CompletePayment
  <2>2. credits[p] = 0 /\ credits \in [Purchases -> Nat]
    BY <1>2 DEF PurchaseInv, CreditedOnce, Creditable, LocalsOK
  <2>3. PICK f, g : f = Brought /\ g = Brought'
    OBVIOUS
  <2>4. f \in [Purchases -> Nat] /\ g \in [Purchases -> Nat] /\ IsFiniteSet(Purchases)
    <3>1. f \in [Purchases -> Nat] /\ IsFiniteSet(Purchases)
      BY <2>3, BroughtType DEF PurchaseInv
    <3>2. \A a, c \in Nat : a * c \in Nat
      OBVIOUS
    <3>3. credits' \in [Purchases -> Nat] /\ Amount \in Nat
      BY PurchaseAssumption DEF LocalsOK
    <3>4. QED
      BY <2>3, <3>1, <3>2, <3>3 DEF Brought
  <2>5. f[p] = 0 /\ g[p] = Amount /\ \A q \in Purchases \ {p} : g[q] = f[q]
    BY <2>1, <2>2, <2>3, PurchaseAssumption DEF Brought
  <2>6. SumFunctionOnSet(g, Purchases) = SumFunctionOnSet(f, Purchases) - f[p] + g[p]
    BY <2>4, <2>5, SumDiffers
  <2>7. sum' = sum + Amount /\ sum' <= Amount * Cardinality(Purchases)
    <3>1. SumFunctionOnSet(f, Purchases) \in Nat /\ Amount \in Nat
      BY <2>4, SumType, PurchaseAssumption
    <3>2. sum' <= Amount * Cardinality(Purchases)
      <4>1. \A q \in Purchases : g[q] <= Amount
        <5>1. \A q \in Purchases : credits'[q] \in {0, 1} /\ g[q] = Amount * credits'[q]
          BY <2>3 DEF CreditedOnce, Brought
        <5>2. QED
          BY <5>1, <3>1
      <4>2. SumFunctionOnSet(g, Purchases) <= Amount * Cardinality(Purchases)
        BY <2>4, <3>1, <4>1, SumBound
      <4>3. QED
        BY <2>3, <4>2
    <3>3. QED
      BY <2>3, <2>5, <2>6, <3>1, <3>2
  <2>8. QED
    BY <2>1, <2>7 DEF Ledger!TopUp, Brought
<1>3. QED
  BY <1>1, <1>2

LEMMA PurchaseMovesMoney ==
    ASSUME PurchaseInv, [Next]_vars PROVE [Ledger!Next]_(Ledger!vars)
<1>1. PurchaseInv' /\ CreditedOnce' /\ LocalsOK'
  BY PurchaseStep DEF PurchaseInv
<1>2. Ledger!TopUp(Amount) => Ledger!Next
  BY DEF Ledger!Next
<1>3. UNCHANGED <<balance, credits>> => UNCHANGED Ledger!vars
  BY DEF Ledger!vars
<1>4. CASE UNCHANGED vars
  BY <1>3, <1>4 DEF vars, purchaseVars
<1>5. ASSUME NEW p \in Purchases,
             CreatePurchase(p) \/ CreateOrder(p) \/ CheckoutFails(p) \/ CheckoutDies(p)
               \/ PaymentFails(p) \/ Pay(p)
      PROVE  UNCHANGED <<balance, credits>>
  BY <1>5 DEF CreatePurchase, CreateOrder, CheckoutFails, CheckoutDies, PaymentFails, Pay,
     purchaseVars
<1>6. ASSUME NEW v \in Verifiers, (\E p \in Purchases : VerifyRead(v, p)) \/ VerifyOf(v)
      PROVE  UNCHANGED <<balance, credits>> \/ (verifying[v] \in Purchases /\ CompletePayment(verifying[v]))
  <2>1. CASE VerifyComplete(v)
    BY <2>1 DEF VerifyComplete, PurchaseInv, SeenPaid
  <2>2. CASE ~VerifyComplete(v)
    BY <1>6, <2>2 DEF VerifyOf, VerifyRead, VerifyAsk, VerifyMarkFailed, VerifyDies, purchaseVars
  <2>3. QED
    BY <2>1, <2>2
<1>7. ASSUME NEW d \in Deliveries, (\E e \in Events : Deliver(d, e)) \/ HookOf(d)
      PROVE  UNCHANGED <<balance, credits>>
               \/ (handling[d][1] \in Purchases /\ CompletePayment(handling[d][1]))
  <2>1. CASE Act(d)
    <3>1. handling[d][1] \in Purchases
      BY <2>1 DEF Act, PurchaseInv, SeenPaid, LocalsOK, Events
    <3>2. QED
      BY <2>1, <3>1 DEF Act
  <2>2. CASE ~Act(d)
    BY <1>7, <2>2 DEF HookOf, Deliver, Register, FindEvent, RetryEvent, ReadLog, WriteLog,
       MarkProcessed, Succeed, FailLog, FailEvent, DatabaseFault, HookDies, purchaseVars
  <2>3. QED
    BY <2>1, <2>2
<1>8. ASSUME NEW p \in Purchases, CompletePayment(p) PROVE Ledger!Next \/ UNCHANGED Ledger!vars
  BY <1>1, <1>2, <1>8, CompletionTopsUp
<1>9. CASE Next
  BY <1>3, <1>5, <1>6, <1>7, <1>8, <1>9 DEF Next, VerifyOf, HookOf
<1>10. QED
  BY <1>4, <1>9

\* Credits enter the wallet the way WalletLedger allows: each is a top-up by the
\* price of the pack, and together they stay below the price of all purchases.
THEOREM PurchasesImplementLedger == Spec => RefinesLedger
<1>1. Init => Ledger!Init
  <2> SUFFICES ASSUME Init PROVE Ledger!Init
    OBVIOUS
  <2>1. LocalsOK /\ \A p \in Purchases : Brought[p] = 0
    BY PurchaseInit, PurchaseAssumption DEF Init, PurchaseInv, Brought
  <2>2. SumFunctionOnSet(Brought, Purchases) = 0
    BY <2>1, BroughtType, SumZero
  <2>3. QED
    BY <2>2 DEF Init, Ledger!Init, Brought
<1>2. PurchaseInv /\ [Next]_vars => [Ledger!Next]_(Ledger!vars)
  BY PurchaseMovesMoney
<1>3. QED
  BY <1>1, <1>2, PurchaseInit, PurchaseStep, PTL DEF Spec, RefinesLedger, Ledger!Spec
=============================================================================
