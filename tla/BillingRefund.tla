---------------------------- MODULE BillingRefund ----------------------------
(***************************************************************************)
(* The refunds of one invoice: admins that ask for them (billing-refund),  *)
(* and the webhook and the scan that follow what Cashfree does with them   *)
(* (billing-refund-reconciliation).                                        *)
(*                                                                         *)
(* A step ends where the code awaits.  Cashfree refunds at most what was   *)
(* paid, and decides a pending refund once.  Events, audit rows, mails and *)
(* the dry-run mode are left out.                                          *)
(***************************************************************************)
EXTENDS Integers, FiniteSets, FiniteSetsExt, Functions

CONSTANTS
    Refunds,                \* BillingRefund rows
    Amounts, InvoiceTotal,  \* what is asked for, what was paid
    Handlers,               \* webhook deliveries and scans under way
    MaxReconciliations,     \* BILLING_REFUND_MAX_RECONCILIATION_ATTEMPTS
    RefundEnvironments      \* subsets of RefundKinds, one of which is in force

RefundKinds ==
    { "rivals",     \* two admins refund the invoice at a time
      "timeout",    \* Cashfree's answer is lost
      "database",   \* a statement or transaction fails
      "crash" }     \* a process dies between two steps

ASSUME RefundAssumption ==
    /\ IsFiniteSet(Refunds) /\ "none" \notin Refunds /\ IsFiniteSet(Handlers)
    /\ Amounts \subseteq Nat /\ InvoiceTotal \in Nat /\ MaxReconciliations \in Nat

VARIABLES
    refundEnv,
    refund,         \* BillingRefund with its credit note; "NONE" before it exists
    downgraded,     \* a full refund has put the company on the free plan
    payout,         \* Cashfree: what became of each refund
    admin,          \* the request that makes a refund
    handler         \* applyRefundStatusUpdate, or the scan before it

refundVars == <<refundEnv, refund, downgraded, payout, admin, handler>>

RefundStatus == {"NONE", "PROCESSING", "PROCESSED", "FAILED"}
RefundRow == [status : RefundStatus, amount : Amounts \cup {0}, linked : BOOLEAN,
              note : {"none", "ISSUED", "VOID"}, scans : 0..MaxReconciliations + Cardinality(Handlers)]
AdminRow == [pc : {"idle", "create", "ask", "commit", "fail"}, amount : Amounts \cup {0},
             full : BOOLEAN]
HandlerRow == [pc : {"idle", "count", "read", "write", "void"}, of : Refunds \cup {"none"},
               says : RefundStatus, noted : BOOLEAN]

RefundTypeOK ==
    /\ refundEnv \in RefundEnvironments
    /\ refund \in [Refunds -> RefundRow]
    /\ downgraded \in BOOLEAN
    /\ payout \in [Refunds -> {"none", "PENDING", "SUCCESS", "FAILED"}]
    /\ admin \in [Refunds -> AdminRow]
    /\ handler \in [Handlers -> HandlerRow]

NoRow     == [status |-> "NONE", amount |-> 0, linked |-> FALSE, note |-> "none", scans |-> 0]
NoAdmin   == [pc |-> "idle", amount |-> 0, full |-> FALSE]
NoHandler == [pc |-> "idle", of |-> "none", says |-> "NONE", noted |-> FALSE]

RefundInit ==
    /\ refundEnv \in RefundEnvironments
    /\ refund = [r \in Refunds |-> NoRow]
    /\ downgraded = FALSE
    /\ payout = [r \in Refunds |-> "none"]
    /\ admin = [r \in Refunds |-> NoAdmin]
    /\ handler = [h \in Handlers |-> NoHandler]

Suffers(kind) == kind \in refundEnv

-----------------------------------------------------------------------------
(* createBillingRefund.                                                    *)

\* What is refunded or being refunded counts, not what has failed.
Processed == {r \in Refunds : refund[r].status = "PROCESSED"}
CountedRefunds == {r \in Refunds : refund[r].status \in {"PROCESSING", "PROCESSED"}}
AmountOf(S) == SumFunctionOnSet([r \in Refunds |-> refund[r].amount], S)
Refundable == Max({0, InvoiceTotal - AmountOf(CountedRefunds)})

Proceed(r, pc) == admin' = [admin EXCEPT ![r].pc = pc]
Answer(r) == admin' = [admin EXCEPT ![r] = NoAdmin]

ReadInvoice(r, amount) ==
    /\ refund[r].status = "NONE" /\ admin[r] = NoAdmin
    /\ Suffers("rivals") \/ \A q \in Refunds : admin[q] = NoAdmin
    /\ amount <= Refundable
    /\ admin' = [admin EXCEPT ![r] =
           [pc |-> "create", amount |-> amount, full |-> amount = Refundable]]
    /\ UNCHANGED <<refundEnv, refund, downgraded, payout, handler>>

CreateRefund(r) ==
    /\ admin[r].pc = "create"
    /\ refund' = [refund EXCEPT ![r].status = "PROCESSING", ![r].amount = admin[r].amount]
    /\ Proceed(r, "ask")
    /\ UNCHANGED <<refundEnv, downgraded, payout, handler>>

\* Cashfree: no order is refunded beyond its amount.
AtCashfree == {r \in Refunds : payout[r] \in {"PENDING", "SUCCESS"}}

AskCashfree(r) ==
    /\ admin[r].pc = "ask"
    /\ IF AmountOf(AtCashfree) + admin[r].amount <= InvoiceTotal
       THEN /\ \E answer \in {"PENDING", "SUCCESS"} : payout' = [payout EXCEPT ![r] = answer]
            /\ \/ Proceed(r, "commit")
               \/ Suffers("timeout") /\ Proceed(r, "fail")
       ELSE Proceed(r, "fail") /\ UNCHANGED payout
    /\ UNCHANGED <<refundEnv, refund, downgraded, handler>>

\* Neither paid out nor failed: under way.
Normalized(status) ==
    IF status = "SUCCESS" THEN "PROCESSED" ELSE IF status = "FAILED" THEN "FAILED" ELSE "PROCESSING"

\* The transaction: the answer, the credit note and, after a full refund, the
\* free plan.  The answer may be outdated by now.
CommitRefund(r, answer) ==
    /\ admin[r].pc = "commit"
    /\ answer \in {"PENDING", "SUCCESS"} /\ answer = "SUCCESS" => payout[r] = "SUCCESS"
    /\ \/ /\ refund' = [refund EXCEPT ![r].status = Normalized(answer), ![r].linked = TRUE,
                                      ![r].note = "ISSUED"]
          /\ downgraded' = (downgraded \/ admin[r].full)
          /\ Answer(r)
       \/ Suffers("database") /\ Proceed(r, "fail") /\ UNCHANGED <<refund, downgraded>>
    /\ UNCHANGED <<refundEnv, payout, handler>>

\* The catch block, whatever has failed.
FailRefund(r) ==
    /\ admin[r].pc = "fail"
    /\ refund' = [refund EXCEPT ![r].status = "FAILED"]
    /\ Answer(r)
    /\ UNCHANGED <<refundEnv, downgraded, payout, handler>>

\* Cashfree.
DecideRefund(r) ==
    /\ payout[r] = "PENDING"
    /\ \E decision \in {"SUCCESS", "FAILED"} : payout' = [payout EXCEPT ![r] = decision]
    /\ UNCHANGED <<refundEnv, refund, downgraded, admin, handler>>

-----------------------------------------------------------------------------
(* Reconciliation.                                                         *)

Follow(h, pc) == handler' = [handler EXCEPT ![h].pc = pc]
Leave(h) == handler' = [handler EXCEPT ![h] = NoHandler]
Begin(h, pc, r, status) == handler' = [handler EXCEPT ![h] =
    [pc |-> pc, of |-> r, says |-> Normalized(status), noted |-> FALSE]]

\* A webhook is matched by the Cashfree id, which the transaction stores; one
\* that comes earlier is ignored, and one that is late tells of a refund that
\* was still pending.
TakeWebhook(h, r, status) ==
    /\ handler[h] = NoHandler
    /\ refund[r].linked
    /\ status \in {payout[r], "PENDING"}
    /\ Begin(h, "read", r, status)
    /\ UNCHANGED <<refundEnv, refund, downgraded, payout, admin>>

\* The scan asks Cashfree for a refund it found processing.
Scan(h, r) ==
    /\ handler[h] = NoHandler
    /\ refund[r].status = "PROCESSING" /\ refund[r].linked
    /\ refund[r].scans < MaxReconciliations
    /\ Begin(h, "count", r, payout[r])
    /\ UNCHANGED <<refundEnv, refund, downgraded, payout, admin>>

\* The attempt is counted, in the catch block too: there it is the last step.
CountScan(h) ==
    /\ handler[h].pc = "count"
    /\ refund' = [refund EXCEPT ![handler[h].of].scans = @ + 1]
    /\ \/ Follow(h, "read")
       \/ (Suffers("timeout") \/ Suffers("database")) /\ Leave(h)
    /\ UNCHANGED <<refundEnv, downgraded, payout, admin>>

ReadRefund(h) ==
    /\ handler[h].pc = "read"
    /\ LET row == refund[handler[h].of] IN
       IF row.status = handler[h].says /\ row.status # "PROCESSING" THEN Leave(h)
       ELSE handler' = [handler EXCEPT ![h].pc = "write", ![h].noted = row.note # "none"]
    /\ UNCHANGED <<refundEnv, refund, downgraded, payout, admin>>

WriteStatusAlone(h) ==
    /\ handler[h].pc = "write"
    /\ refund' = [refund EXCEPT ![handler[h].of].status = handler[h].says]
    /\ Leave(h)
    /\ UNCHANGED <<refundEnv, downgraded, payout, admin>>

\* Whatever the row says by now.
WriteStatus(h) ==
    /\ handler[h].pc = "write"
    /\ refund' = [refund EXCEPT ![handler[h].of].status = handler[h].says]
    /\ IF handler[h].says = "FAILED" /\ handler[h].noted THEN Follow(h, "void") ELSE Leave(h)
    /\ UNCHANGED <<refundEnv, downgraded, payout, admin>>

VoidNote(h) ==
    /\ handler[h].pc = "void"
    /\ refund' = [refund EXCEPT ![handler[h].of].note = "VOID"]
    /\ Leave(h)
    /\ UNCHANGED <<refundEnv, downgraded, payout, admin>>

\* A process dies, or a statement throws where nothing catches it.
RefundProcessDies ==
    /\ Suffers("crash") \/ Suffers("database")
    /\ \/ \E r \in Refunds : admin[r] # NoAdmin /\ Answer(r) /\ UNCHANGED handler
       \/ \E h \in Handlers : handler[h] # NoHandler /\ Leave(h) /\ UNCHANGED admin
    /\ UNCHANGED <<refundEnv, refund, downgraded, payout>>

-----------------------------------------------------------------------------
RefundNext ==
    \/ \E r \in Refunds :
        \/ CreateRefund(r) \/ AskCashfree(r) \/ FailRefund(r) \/ DecideRefund(r)
        \/ \E amount \in Amounts : ReadInvoice(r, amount)
        \/ \E answer \in {"PENDING", "SUCCESS"} : CommitRefund(r, answer)
    \/ \E h \in Handlers :
        \/ CountScan(h) \/ ReadRefund(h) \/ WriteStatus(h) \/ VoidNote(h)
        \/ \E r \in Refunds :
            \/ Scan(h, r)
            \/ \E status \in {"PENDING", "SUCCESS", "FAILED"} : TakeWebhook(h, r, status)
    \/ RefundProcessDies

RefundSpec == RefundInit /\ [][RefundNext]_refundVars

-----------------------------------------------------------------------------
\* A refund is booked as paid out only if Cashfree paid it out, and what is so
\* booked for an invoice is no more than was paid, although two admins may both
\* find it refundable.  Nor is money that Cashfree pays out booked as failed and
\* offered again, unless the answer or the transaction was lost.
BookedAsPaidOut ==
    /\ AmountOf(Processed) <= InvoiceTotal
    /\ \A r \in Refunds :
        /\ refund[r].status = "PROCESSED" => payout[r] = "SUCCESS"
        /\ refundEnv \cap {"timeout", "database"} = {} /\ r \in AtCashfree
               => refund[r].status # "FAILED"

\* A credit note is void if the money stays, and only then, once those who
\* found out are done: late reports that the refund is pending change nothing.
NoteFollowsMoney == \A r \in Refunds :
    /\ refund[r].note = "VOID" => payout[r] = "FAILED"
    /\ (/\ refundEnv \cap {"database", "crash"} = {}
        /\ refund[r].status = "FAILED" /\ \A h \in Handlers : handler[h].of # r)
           => refund[r].note # "ISSUED"

\* The books follow Cashfree: refunds as they are paid out, notes as refunds are.
BooksFollowMoney == BookedAsPaidOut /\ NoteFollowsMoney
=============================================================================
