------------------------------ MODULE MCServices ------------------------------
(* Five services that share neither state nor processes, checked side by side: *)
(* a behaviour is one of one service, and the others stay where they start.    *)
EXTENDS CreditPurchase, ProductionOperation, ApiIdempotency, BillingRefund, WebhookOutbox, TLC

VARIABLE service

ServicesInit ==
    /\ Init /\ ApiInit /\ RefundInit /\ OutboxInit
    /\ OperationInit
    /\ service \in {"purchase", "api", "refund", "outbox", "operation"}
    /\ service # "api"    => apiEnv = {"early", "fail"}
    /\ service # "refund" => refundEnv = {"rivals"}
    /\ service # "outbox" => outboxEnv = {"crash", "lock"}
    /\ service # "operation" => opEnv = {"crash"}

ServicesNext ==
    /\ UNCHANGED service
    /\ \/ service = "purchase" /\ Next
          /\ UNCHANGED <<apiVars, refundVars, outboxVars, operationVars>>
       \/ service = "api" /\ ApiNext
          /\ UNCHANGED <<vars, refundVars, outboxVars, operationVars>>
       \/ service = "refund" /\ RefundNext
          /\ UNCHANGED <<vars, apiVars, outboxVars, operationVars>>
       \/ service = "outbox" /\ OutboxNext
          /\ UNCHANGED <<vars, apiVars, refundVars, operationVars>>
       \/ service = "operation" /\ OperationNext
          /\ UNCHANGED <<vars, apiVars, refundVars, outboxVars>>

ServicesSpec ==
    /\ ServicesInit
    /\ [][ServicesNext]_<<service, vars, apiVars, refundVars, outboxVars, operationVars>>

\* The type invariants of the five modules.
ServicesTypeOK ==
    TypeOK /\ ApiTypeOK /\ RefundTypeOK /\ OutboxTypeOK
    /\ OperationTypeOK

MCApiEnvironments == {{"early", "fail"}, {"crash"}}
MCRefundEnvironments == {{"rivals"}, {"timeout", "crash"}, {"database"}}
MCOutboxEnvironments == {
    {"crash", "lock"},
    {"crash", "restart"},
    {"database", "redis"},
    {"database", "again"},
    {"database", "lock"} }
MCOperationEnvironments == {{"crash"}, {"force", "manual", "restore"}}
MCSymmetry == Permutations(Verifiers) \cup Permutations(Deliveries)
=============================================================================
