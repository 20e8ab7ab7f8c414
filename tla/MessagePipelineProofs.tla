------------------------ MODULE MessagePipelineProofs ------------------------
(***************************************************************************)
(* Safety of the message pipeline for every set of messages and workers,   *)
(* every number of attempts, and every combination of faults.              *)
(***************************************************************************)
EXTENDS MessagePipeline, FiniteSetTheorems, TLAPS

\* A worker that is not idle works on a message.
LEMMA BusyWorker ==
    ASSUME WorkersOK, NEW w \in Workers, pc[w] # "idle"
    PROVE  cur[w] \in Messages
  BY DEF WorkersOK

\* A step that moves a worker to another step of its handler keeps it well
\* formed.
LEMMA MovedWorker ==
    ASSUME WorkersOK, NEW w \in Workers, pc[w] # "idle",
           NEW step \in WorkerSteps \ {"idle"},
           pc' = [pc EXCEPT ![w] = step], cur' = cur,
           err' = err \/ \E e \in Errors : err' = [err EXCEPT ![w] = e],
           ans' = ans \/ \E a \in Nat \cup {Simulated} : ans' = [ans EXCEPT ![w] = a]
    PROVE  WorkersOK'
  BY DEF WorkersOK

\* Ending a job keeps the workers well formed, and its queue entry.
LEMMA EndedJob ==
    ASSUME WorkersOK, QueueOK, NEW w \in Workers, pc[w] # "idle", NEW state \in JobStates,
           EndJob(w, state)
    PROVE  WorkersOK' /\ job' \in [Messages -> JobStates]
                      /\ owner' \in [Messages -> Workers \cup {NoWorker}]
<1>1. cur[w] \in Messages
  BY BusyWorker
<1>2. WorkersOK'
  BY PipelineAssumption DEF EndJob, WorkersOK, WorkerSteps, Errors
<1>3. job' \in [Messages -> JobStates] /\ owner' \in [Messages -> Workers \cup {NoWorker}]
  BY <1>1 DEF EndJob, QueueOK
<1>4. QED
  BY <1>2, <1>3

\* A refund row is well formed.
LEMMA WrittenRefund ==
    ASSUME WalletOK, NEW m \in Messages, NEW who \in Refunders, WriteRefund(m, who)
    PROVE  WalletOK'
  BY PipelineAssumption DEF WalletOK, WriteRefund

\* A stalled job keeps its queue entry well formed.
LEMMA StalledJob ==
    ASSUME QueueOK, NEW m \in Messages, Stalled(m)
    PROVE  QueueOK'
  BY PipelineAssumption DEF QueueOK, Stalled, MayStall, JobStates

\* The typing of the parts a step leaves alone.
LEMMA UnchangedParts ==
    /\ UNCHANGED dbVars /\ DatabaseOK => DatabaseOK'
    /\ UNCHANGED walletVars /\ WalletOK => WalletOK'
    /\ UNCHANGED queueVars /\ QueueOK => QueueOK'
    /\ UNCHANGED <<create, cancel>> /\ RequestsOK => RequestsOK'
    /\ UNCHANGED workerVars /\ WorkersOK => WorkersOK'
    /\ UNCHANGED hook /\ HookOK => HookOK'
  BY DEF dbVars, walletVars, queueVars, workerVars, DatabaseOK, WalletOK, QueueOK,
         RequestsOK, WorkersOK, HookOK

\* Each handler of a request keeps the state well formed.
LEMMA RequestTyped ==
    ASSUME TypeOK, NEW m \in Messages,
           CreateMessage(m) \/ Request(m) \/ CancelClaim(m) \/ Cancellation(m)
             \/ RequestDies(m) \/ CancelDies(m)
    PROVE  TypeOK'
<1> USE UnchangedParts DEF TypeOK, DatabaseOK, RequestsOK, Statuses, Sendable, Delivery, CreateSteps, CancelSteps
<1>1. CASE CreateMessage(m)
  BY <1>1, PipelineAssumption DEF CreateMessage, Affordable, WalletOK
<1>2. CASE Enqueue(m)
  BY <1>2 DEF Enqueue, AfterThrow, QueueOK, JobStates
<1>3. CASE CountUsage(m)
  BY <1>3 DEF CountUsage, AfterThrow
<1>4. CASE Compensate(m)
  BY <1>4, WrittenRefund DEF Compensate, Refunders
<1>5. CASE CancelClaim(m)
  BY <1>5 DEF CancelClaim, Cancelable
<1>6. CASE CancelRemoveJob(m)
  BY <1>6 DEF CancelRemoveJob, QueueOK, JobStates
<1>7. CASE CancelRefundRead(m)
  BY <1>7 DEF CancelRefundRead
<1>8. CASE CancelRefundWrite(m)
  BY <1>8, WrittenRefund DEF CancelRefundWrite, Refunders
<1>9. CASE RequestDies(m)
  BY <1>9 DEF RequestDies
<1>10. CASE CancelDies(m)
  BY <1>10 DEF CancelDies
<1>11. QED
  BY <1>1, <1>2, <1>3, <1>4, <1>5, <1>6, <1>7, <1>8, <1>9, <1>10 DEF Request, Cancellation

\* BullMQ's own steps keep the state well formed.
LEMMA QueueTyped ==
    ASSUME TypeOK
    PROVE  /\ \A w \in Workers, m \in Messages : Dequeue(w, m) => TypeOK'
           /\ \A m \in Messages : LockLost(m) \/ RetryDeadLetter(m) => TypeOK'
           /\ \A w \in Workers : WorkerDies(w) => TypeOK'
<1> USE UnchangedParts DEF TypeOK
<1>1. ASSUME NEW w \in Workers, NEW m \in Messages, Dequeue(w, m) PROVE TypeOK'
  <2>1. WorkersOK'
    BY <1>1, PipelineAssumption DEF Dequeue, WorkersOK, WorkerSteps
  <2>2. QED
    BY <1>1, <2>1 DEF Dequeue, QueueOK, JobStates, RequestsOK
<1>2. ASSUME NEW m \in Messages, LockLost(m) PROVE TypeOK'
  BY <1>2, StalledJob DEF LockLost, RequestsOK
<1>3. ASSUME NEW m \in Messages, RetryDeadLetter(m) PROVE TypeOK'
  BY <1>3 DEF RetryDeadLetter, QueueOK, JobStates, RequestsOK
<1>4. ASSUME NEW w \in Workers, WorkerDies(w) PROVE TypeOK'
  <2>1. WorkersOK'
    BY <1>4, PipelineAssumption DEF WorkerDies, WorkersOK, WorkerSteps, Errors
  <2>2. cur[w] \in Messages
    BY <1>4, BusyWorker DEF WorkerDies
  <2>3. QueueOK'
    BY <1>4, <2>2, StalledJob DEF WorkerDies
  <2>4. QED
    BY <1>4, <2>1, <2>3 DEF WorkerDies, RequestsOK
<1>5. QED
  BY <1>1, <1>2, <1>3, <1>4

\* Every step of the message worker's handler keeps the state well formed.
LEMMA HandlerTyped ==
    ASSUME TypeOK, NEW w \in Workers, Handler(w) \/ DatabaseFault(w)
    PROVE  TypeOK'
<1> USE UnchangedParts DEF TypeOK
<1>0. pc[w] # "idle" /\ cur[w] \in Messages
  <2>1. pc[w] # "idle"
    BY DEF Handler, Load, Claim, Claimable, NoCredentials, MetaAccepts, MetaRejects, Record, Finish,
           DatabaseFault, Fail, MarkFailedRead, MarkFailedWrite, RefundRead, RefundWrite, Rethrow
  <2>2. QED
    BY <2>1, BusyWorker
<1> DEFINE Moves(step) ==
             /\ pc' = [pc EXCEPT ![w] = step] /\ cur' = cur
             /\ err' = err \/ \E e \in Errors : err' = [err EXCEPT ![w] = e]
             /\ ans' = ans \/ \E a \in Nat \cup {Simulated} : ans' = [ans EXCEPT ![w] = a]
<1>m. ASSUME NEW step \in WorkerSteps \ {"idle"}, Moves(step)
      PROVE  WorkersOK'
  BY <1>0, <1>m, MovedWorker
<1>g. ASSUME NEW step \in WorkerSteps \ {"idle"}, Goto(w, step)
      PROVE  WorkersOK'
  BY <1>m, <1>g DEF Goto
<1>t. ASSUME NEW step \in WorkerSteps \ {"idle"}, NEW e \in Errors, Throw(w, e, step)
      PROVE  WorkersOK'
  BY <1>m, <1>t DEF Throw
<1>e. ASSUME NEW state \in JobStates, EndJob(w, state), UNCHANGED <<attempts, stalls>>
      PROVE  WorkersOK' /\ QueueOK'
  BY <1>0, <1>e, EndedJob DEF QueueOK
<1> HIDE DEF Moves
<1>1. CASE Load(w)
  <2>1. WorkersOK' /\ QueueOK'
    BY <1>1, <1>g, <1>t, <1>e DEF Load, WorkerSteps, Errors, JobStates
  <2>2. QED
    BY <1>1, <2>1 DEF Load, RequestsOK
<1>2. CASE Claim(w)
  <2>1. WorkersOK' /\ QueueOK'
    BY <1>2, <1>g, <1>e DEF Claim, Claimable, WorkerSteps, JobStates
  <2>2. DatabaseOK'
    BY <1>2 DEF Claim, Claimable, DatabaseOK, Statuses
  <2>3. QED
    BY <1>2, <2>1, <2>2 DEF Claim, Claimable, RequestsOK
<1>3. CASE NoCredentials(w)
  <2>1. WorkersOK'
    BY <1>3, <1>m, <1>t DEF NoCredentials, WorkerSteps, Errors, Moves
  <2>2. QED
    BY <1>3, <2>1 DEF NoCredentials, RequestsOK
<1>4. CASE MetaAccepts(w)
  <2>1. accepted' \in [Messages -> Nat]
    BY <1>0, <1>4 DEF MetaAccepts
  <2>2. accepted'[cur[w]] \in Nat
    BY <1>0, <2>1
  <2>3. WorkersOK'
    BY <1>4, <1>m, <1>t, <2>2 DEF MetaAccepts, WorkerSteps, Errors, Moves
  <2>4. QED
    BY <1>4, <2>1, <2>3 DEF MetaAccepts, RequestsOK
<1>5. CASE MetaRejects(w)
  <2>1. WorkersOK'
    BY <1>5, <1>t DEF MetaRejects, WorkerSteps, Errors
  <2>2. QED
    BY <1>5, <2>1 DEF MetaRejects, RequestsOK
<1>6. CASE Record(w)
  <2>1. WorkersOK'
    BY <1>6, <1>g DEF Record, WorkerSteps
  <2>2. DatabaseOK'
    BY <1>0, <1>6 DEF Record, DatabaseOK, WorkersOK, Statuses, Delivery
  <2>3. QED
    BY <1>6, <2>1, <2>2 DEF Record, RequestsOK
<1>7. CASE Finish(w)
  BY <1>7, <1>e DEF Finish, RequestsOK, JobStates
<1>8. CASE DatabaseFault(w)
  <2>1. WorkersOK'
    BY <1>8, <1>t DEF DatabaseFault, WorkerSteps, Errors
  <2>2. QED
    BY <1>8, <2>1 DEF DatabaseFault, RequestsOK
<1>9. CASE Fail(w)
  <2>1. WorkersOK'
    BY <1>9, <1>g DEF Fail, RetryStatus, WorkerSteps
  <2>2. DatabaseOK'
    BY <1>9 DEF Fail, RetryStatus, DatabaseOK, Statuses, Sendable
  <2>3. QED
    BY <1>9, <2>1, <2>2 DEF Fail, RetryStatus, RequestsOK
<1>10. CASE MarkFailedRead(w)
  <2>1. WorkersOK'
    BY <1>10, <1>g DEF MarkFailedRead, WorkerSteps
  <2>2. QED
    BY <1>10, <2>1 DEF MarkFailedRead, RequestsOK
<1>11. CASE MarkFailedWrite(w)
  <2>1. WorkersOK'
    BY <1>11, <1>g DEF MarkFailedWrite, WorkerSteps
  <2>2. DatabaseOK'
    BY <1>11 DEF MarkFailedWrite, DatabaseOK, Statuses
  <2>3. QED
    BY <1>11, <2>1, <2>2 DEF MarkFailedWrite, RequestsOK
<1>12. CASE RefundRead(w)
  <2>1. WorkersOK'
    BY <1>12, <1>g DEF RefundRead, WorkerSteps
  <2>2. QED
    BY <1>12, <2>1 DEF RefundRead, RequestsOK
<1>13. CASE RefundWrite(w)
  <2>1. WorkersOK'
    BY <1>13, <1>g DEF RefundWrite, WorkerSteps
  <2>2. WalletOK'
    BY <1>0, <1>13, WrittenRefund DEF RefundWrite, Refunders
  <2>3. QED
    BY <1>13, <2>1, <2>2 DEF RefundWrite, RequestsOK
<1>14. CASE Rethrow(w)
  <2>1. /\ WorkersOK'
        /\ job' \in [Messages -> JobStates]
        /\ owner' \in [Messages -> Workers \cup {NoWorker}]
    BY <1>0, <1>14, EndedJob DEF Rethrow, JobStates
  <2>2. attempts' \in [Messages -> 0..MaxAttempts]
    BY <1>0, <1>14, PipelineAssumption DEF Rethrow, QueueOK
  <2>3. QED
    BY <1>14, <2>1, <2>2 DEF Rethrow, RequestsOK, QueueOK
<1>15. QED
  BY <1>1, <1>2, <1>3, <1>4, <1>5, <1>6, <1>7, <1>8, <1>9, <1>10, <1>11, <1>12, <1>13, <1>14
  DEF Handler

\* The status webhook keeps the state well formed.
LEMMA WebhookTyped ==
    ASSUME TypeOK,
           (\E m \in Messages, next \in Delivery \cup {"FAILED"} : WebhookRead(m, next))
             \/ WebhookWrite \/ WebhookDies
    PROVE  TypeOK'
<1> USE UnchangedParts DEF TypeOK
<1>1. ASSUME NEW m \in Messages, NEW next \in Delivery \cup {"FAILED"}, WebhookRead(m, next)
      PROVE  TypeOK'
  <2>1. HookOK'
    BY <1>1, PipelineAssumption DEF WebhookRead, HookOK, NoHook, Delivery, ShouldApply
  <2>2. QED
    BY <1>1, <2>1 DEF WebhookRead, RequestsOK
<1>2. HookOK /\ hook' = NoHook => HookOK'
  BY DEF HookOK, NoHook
<1>3. CASE WebhookWrite
  <2>1. DatabaseOK'
    BY <1>3 DEF WebhookWrite, DatabaseOK, HookOK, Statuses, Delivery
  <2>2. QED
    BY <1>2, <1>3, <2>1 DEF WebhookWrite, RequestsOK
<1>4. CASE WebhookDies
  BY <1>2, <1>4 DEF WebhookDies, RequestsOK
<1>5. QED
  BY <1>1, <1>3, <1>4

\* Every reachable state is well formed: each process works on a message
\* exactly while it is inside its handler.
THEOREM TypeCorrect == Spec => []TypeOK
<1>1. Init => TypeOK
  BY PipelineAssumption
  DEF Init, TypeOK, DatabaseOK, WalletOK, QueueOK, RequestsOK, WorkersOK, HookOK, NoHook,
      Statuses, JobStates, CreateSteps, CancelSteps, WorkerSteps, Errors
<1>2. TypeOK /\ [Next]_vars => TypeOK'
  <2> SUFFICES ASSUME TypeOK, [Next]_vars PROVE TypeOK'
    OBVIOUS
  <2>1. ASSUME NEW m \in Messages, CreateMessage(m) \/ Request(m) \/ CancelClaim(m) \/ Cancellation(m)
        PROVE  TypeOK'
    BY <2>1, RequestTyped
  <2>2. ASSUME NEW w \in Workers, NEW m \in Messages, Dequeue(w, m)
        PROVE  TypeOK'
    BY <2>2, QueueTyped
  <2>3. ASSUME NEW w \in Workers, Handler(w)
        PROVE  TypeOK'
    BY <2>3, HandlerTyped
  <2>4. CASE \E m \in Messages, next \in Delivery \cup {"FAILED"} : WebhookRead(m, next)
    BY <2>4, WebhookTyped
  <2>5. CASE WebhookWrite
    BY <2>5, WebhookTyped
  <2>6. CASE Environment
    <3>1. ASSUME NEW m \in Messages,
                 RequestDies(m) \/ CancelDies(m) \/ LockLost(m) \/ RetryDeadLetter(m)
          PROVE  TypeOK'
      BY <3>1, RequestTyped, QueueTyped
    <3>2. ASSUME NEW w \in Workers, WorkerDies(w) \/ DatabaseFault(w)
          PROVE  TypeOK'
      BY <3>2, QueueTyped, HandlerTyped
    <3>3. CASE WebhookDies
      BY <3>3, WebhookTyped
    <3>4. QED
      BY <2>6, <3>1, <3>2, <3>3 DEF Environment
  <2>7. CASE UNCHANGED vars
    BY <2>7, UnchangedParts DEF vars, TypeOK
  <2>8. QED
    BY <2>1, <2>2, <2>3, <2>4, <2>5, <2>6, <2>7 DEF Next
<1>3. QED
  BY <1>1, <1>2, PTL DEF Spec

-----------------------------------------------------------------------------
(* The message pipeline implements the wallet ledger: whatever the faults  *)
(* and the interleaving, each step of a handler is a charge, a refund of a *)
(* charged message under a fresh row, or no movement of money at all.      *)

\* The theorems of the wallet, for the pipeline's own wallet.
LedgerProofs == INSTANCE WalletLedgerProofs WITH
    Items <- Messages, TopUpAmounts <- {}, CreditBound <- 0, credited <- 0

\* A handler that is about to write a refund row owns a row nobody has
\* written, for a message that was charged.
RowsFresh ==
    /\ \A m \in Messages :
        /\ create[m] = "none" <=> m \notin debits
        /\ create[m] \notin {"thrown", "done"} => <<m, "request">> \notin refunds
        /\ cancel[m] # "done" => <<m, "cancel">> \notin refunds
        /\ cancel[m] = "refund_write" => m \in debits
    /\ \A w \in Workers : pc[w] = "refund_write" =>
        cur[w] \in debits /\ <<cur[w], w>> \notin refunds

\* The instances count rows as this module does.
LEMMA SameCardinality ==
    /\ \A S : Ledger!Cardinality(S) = Cardinality(S)
    /\ \A S : LedgerProofs!Cardinality(S) = Cardinality(S)
<1>1. \A S : Ledger!Cardinality(S) = Cardinality(S)
  BY Zenon DEF Ledger!Cardinality, Cardinality
<1>2. \A S : LedgerProofs!Cardinality(S) = Cardinality(S)
  BY Zenon DEF LedgerProofs!Cardinality, Cardinality
<1>3. QED
  BY <1>1, <1>2

\* What the wallet assumes of its parameters holds of the pipeline's.
LEMMA WalletParameters ==
    /\ LedgerProofs!IsFiniteSet(Messages)
    /\ LedgerProofs!IsFiniteSet(Refunders)
<1>1. \A S : LedgerProofs!IsFiniteSet(S) = IsFiniteSet(S)
  BY Zenon DEF LedgerProofs!IsFiniteSet, IsFiniteSet
<1>2. IsFiniteSet(Workers \cup {"request"})
  BY PipelineAssumption, FS_AddElement
<1>3. IsFiniteSet((Workers \cup {"request"}) \cup {"cancel"})
  BY <1>2, FS_AddElement
<1>4. Refunders = (Workers \cup {"request"}) \cup {"cancel"}
  BY DEF Refunders
<1>5. QED
  BY <1>1, <1>3, <1>4, PipelineAssumption

\* A request charges at most once, and compensates under its own fresh row.
LEMMA RequestFresh ==
    ASSUME TypeOK, RowsFresh, NEW m \in Messages,
           CreateMessage(m) \/ Request(m) \/ RequestDies(m)
    PROVE  RowsFresh'
<1> USE PipelineAssumption DEF TypeOK, RequestsOK, WorkersOK, RowsFresh
<1>1. CASE CreateMessage(m)
  BY <1>1 DEF CreateMessage, Affordable, workerVars
<1>2. CASE Enqueue(m)
  BY <1>2 DEF Enqueue, AfterThrow, workerVars, walletVars
<1>3. CASE CountUsage(m)
  BY <1>3 DEF CountUsage, AfterThrow, workerVars, walletVars
<1>4. CASE Compensate(m)
  BY <1>4 DEF Compensate, WriteRefund, workerVars
<1>5. CASE RequestDies(m)
  BY <1>5 DEF RequestDies, workerVars, walletVars
<1>6. QED
  BY <1>1, <1>2, <1>3, <1>4, <1>5 DEF Request

\* A cancellation reads before it writes, so its row is fresh.
LEMMA CancelFresh ==
    ASSUME TypeOK, RowsFresh, NEW m \in Messages,
           CancelClaim(m) \/ Cancellation(m) \/ CancelDies(m)
    PROVE  RowsFresh'
<1> USE PipelineAssumption DEF TypeOK, RequestsOK, WorkersOK, RowsFresh
<1>1. CASE CancelClaim(m)
  BY <1>1 DEF CancelClaim, Cancelable, workerVars, walletVars
<1>2. CASE CancelRemoveJob(m)
  BY <1>2 DEF CancelRemoveJob, workerVars, walletVars
<1>3. CASE CancelRefundRead(m)
  BY <1>3 DEF CancelRefundRead, workerVars, walletVars
<1>4. CASE CancelRefundWrite(m)
  BY <1>4 DEF CancelRefundWrite, WriteRefund, workerVars
<1>5. CASE CancelDies(m)
  BY <1>5 DEF CancelDies, workerVars, walletVars
<1>6. QED
  BY <1>1, <1>2, <1>3, <1>4, <1>5 DEF Cancellation

\* A worker reads before it writes, so its row is fresh.
LEMMA WorkerFresh ==
    ASSUME TypeOK, RowsFresh, NEW w \in Workers, Handler(w) \/ DatabaseFault(w) \/ WorkerDies(w)
    PROVE  RowsFresh'
<1> USE PipelineAssumption DEF TypeOK, RequestsOK, WorkersOK, RowsFresh
<1>1. CASE RefundRead(w)
  <2>1. cur[w] \in debits /\ RefundsOf(cur[w]) = {} => <<cur[w], w>> \notin refunds
    BY DEF RefundsOf
  <2>2. QED
    BY <1>1, <2>1 DEF RefundRead, Goto, walletVars
<1>2. CASE RefundWrite(w)
  BY <1>2 DEF RefundWrite, WriteRefund, Goto
<1>3. CASE Handler(w) /\ ~RefundRead(w) /\ ~RefundWrite(w)
  <2>1. /\ UNCHANGED <<walletVars, create, cancel>>
        /\ \A v \in Workers : pc'[v] = "refund_write" => pc[v] = "refund_write" /\ cur'[v] = cur[v]
    BY <1>3
    DEF Handler, Load, Claim, Claimable, NoCredentials, MetaAccepts, MetaRejects, Record, Finish, Fail, RetryStatus,
        MarkFailedRead, MarkFailedWrite, Rethrow, Goto, Throw, EndJob
  <2>2. QED
    BY <2>1 DEF walletVars
<1>4. CASE DatabaseFault(w)
  BY <1>4 DEF DatabaseFault, Throw, walletVars
<1>5. CASE WorkerDies(w)
  BY <1>5 DEF WorkerDies, walletVars
<1>6. QED
  BY <1>1, <1>2, <1>3, <1>4, <1>5

\* The queue's and the webhook's steps leave the wallet and the refunding
\* handlers alone.
LEMMA OtherFresh ==
    ASSUME RowsFresh, WorkersOK,
           \/ \E m \in Messages : LockLost(m) \/ RetryDeadLetter(m)
           \/ \E w \in Workers, m \in Messages : Dequeue(w, m)
           \/ \E m \in Messages, next \in Delivery \cup {"FAILED"} : WebhookRead(m, next)
           \/ WebhookWrite \/ WebhookDies \/ UNCHANGED vars
    PROVE  RowsFresh'
<1>1. /\ UNCHANGED <<walletVars, create, cancel>>
      /\ \A v \in Workers : pc'[v] = "refund_write" => pc[v] = "refund_write" /\ cur'[v] = cur[v]
  BY DEF WorkersOK, LockLost, RetryDeadLetter, Dequeue, WebhookRead, WebhookWrite, WebhookDies, vars, workerVars
<1>2. QED
  BY <1>1 DEF RowsFresh, walletVars

\* RowsFresh is inductive.
LEMMA RowsFreshInv == Spec => []RowsFresh
<1>1. Init => RowsFresh
  BY DEF Init, RowsFresh
<1>2. TypeOK /\ RowsFresh /\ [Next]_vars => RowsFresh'
  <2> SUFFICES ASSUME TypeOK, RowsFresh, [Next]_vars PROVE RowsFresh'
    OBVIOUS
  <2> USE RequestFresh, CancelFresh, WorkerFresh, OtherFresh
  <2>1. CASE Environment
    <3>1. ASSUME NEW m \in Messages,
                 RequestDies(m) \/ CancelDies(m) \/ LockLost(m) \/ RetryDeadLetter(m)
          PROVE  RowsFresh'
      BY <3>1 DEF TypeOK
    <3>2. ASSUME NEW w \in Workers, WorkerDies(w) \/ DatabaseFault(w)
          PROVE  RowsFresh'
      BY <3>2
    <3>3. CASE WebhookDies
      BY <3>3 DEF TypeOK
    <3>4. QED
      BY <2>1, <3>1, <3>2, <3>3 DEF Environment
  <2>2. ASSUME NEW m \in Messages, CreateMessage(m) \/ Request(m) \/ CancelClaim(m) \/ Cancellation(m)
        PROVE  RowsFresh'
    BY <2>2
  <2>3. ASSUME NEW w \in Workers, Handler(w)
        PROVE  RowsFresh'
    BY <2>3
  <2>4. QED
    BY <2>1, <2>2, <2>3 DEF Next, TypeOK
<1>3. QED
  BY <1>1, <1>2, TypeCorrect, PTL DEF Spec

\* A charge of one message is a step of the ledger.
LEMMA ChargeMaps ==
    ASSUME TypeOK, RowsFresh, NEW m \in Messages, CreateMessage(m)
    PROVE  {m} \in (SUBSET (Messages \ debits)) \ {{}} /\ Ledger!Charge({m})
<1>1. Price * Cardinality({m}) = Price
  BY FS_Singleton, PipelineAssumption
<1>2. m \notin debits
  BY DEF CreateMessage, Affordable, RowsFresh
<1>3. Ledger!Charge({m})
  BY <1>1, SameCardinality DEF CreateMessage, Affordable, Ledger!Charge, Ledger!Covered, Ledger!Cost
<1>4. QED
  BY <1>2, <1>3

\* So is a refund under a fresh row.
LEMMA RefundMaps ==
    ASSUME TypeOK, NEW m \in debits, NEW who \in Refunders, <<m, who>> \notin refunds,
           WriteRefund(m, who)
    PROVE  /\ {m} \in (SUBSET {i \in Messages : <<i, who>> \notin refunds}) \ {{}}
           /\ Ledger!Refund({m}, who)
<1>1. Price * Cardinality({<<m, who>>}) = Price
  <2>1. Cardinality({<<m, who>>}) = 1
    BY Zenon, FS_Singleton
  <2>2. QED
    BY <2>1, PipelineAssumption
<1>2. m \in Messages
  BY DEF TypeOK, WalletOK
<1>3. {m} \X {who} = {<<m, who>>}
  OBVIOUS
<1>4. Ledger!Refund({m}, who)
  BY <1>1, <1>3, SameCardinality DEF WriteRefund, Ledger!Refund, Ledger!Refundable
<1>5. QED
  BY <1>2, <1>4

\* Every step of the pipeline is a step of the ledger or leaves it alone.
LEMMA StepMaps ==
    ASSUME TypeOK, RowsFresh, [Next]_vars
    PROVE  [Ledger!Next]_(Ledger!vars)
<1> DEFINE Still == UNCHANGED walletVars
<1>1. Still => UNCHANGED Ledger!vars
  BY DEF Ledger!vars, walletVars
<1>2. ASSUME NEW m \in Messages, CreateMessage(m) PROVE Ledger!Next
  BY <1>2, ChargeMaps DEF Ledger!Next
<1>3. ASSUME NEW m \in Messages, NEW who \in Refunders, WriteRefund(m, who), m \in debits,
             <<m, who>> \notin refunds
      PROVE  Ledger!Next
  BY <1>3, RefundMaps DEF Ledger!Next
<1>4. ASSUME NEW m \in Messages, Request(m) PROVE Ledger!Next \/ Still
  <2>1. CASE Compensate(m)
    BY <2>1, <1>3 DEF Compensate, RowsFresh, Refunders
  <2>2. CASE Enqueue(m) \/ CountUsage(m)
    BY <2>2 DEF Enqueue, CountUsage
  <2>3. QED
    BY <1>4, <2>1, <2>2 DEF Request
<1>5. ASSUME NEW m \in Messages, Cancellation(m) PROVE Ledger!Next \/ Still
  <2>1. CASE CancelRefundWrite(m)
    BY <2>1, <1>3 DEF CancelRefundWrite, RowsFresh, Refunders
  <2>2. CASE CancelRemoveJob(m) \/ CancelRefundRead(m)
    BY <2>2 DEF CancelRemoveJob, CancelRefundRead
  <2>3. QED
    BY <1>5, <2>1, <2>2 DEF Cancellation
<1>6. ASSUME NEW w \in Workers, Handler(w) PROVE Ledger!Next \/ Still
  <2>1. CASE RefundWrite(w)
    <3>1. cur[w] \in debits /\ <<cur[w], w>> \notin refunds /\ cur[w] \in Messages
      BY <2>1 DEF RefundWrite, RowsFresh, TypeOK, WalletOK
    <3>2. QED
      BY <2>1, <3>1, <1>3 DEF RefundWrite, Refunders
  <2>2. CASE ~RefundWrite(w)
    BY <1>6, <2>2
    DEF Handler, Load, Claim, Claimable, NoCredentials, MetaAccepts, MetaRejects, Record, Finish, Fail, RetryStatus,
        MarkFailedRead, MarkFailedWrite, RefundRead, Rethrow
  <2>3. QED
    BY <2>1, <2>2
<1>7. Environment => Still
  BY DEF Environment, RequestDies, CancelDies, LockLost, RetryDeadLetter, WorkerDies,
         DatabaseFault, WebhookDies
<1>8. ASSUME NEW m \in Messages,
             \/ CancelClaim(m) \/ \E w \in Workers : Dequeue(w, m)
             \/ \E next \in Delivery \cup {"FAILED"} : WebhookRead(m, next)
      PROVE  Still
  BY <1>8 DEF CancelClaim, Cancelable, Dequeue, WebhookRead
<1>9. WebhookWrite \/ UNCHANGED vars => Still
  BY DEF WebhookWrite, vars
<1> HIDE DEF Still
<1>10. QED
  BY <1>1, <1>2, <1>4, <1>5, <1>6, <1>7, <1>8, <1>9 DEF Next

\* The pipeline refines the ledger: no interleaving and no fault moves money
\* without its row, charges twice, overdraws, or refunds the uncharged.
THEOREM PipelineRefinesLedger == Spec => RefinesLedger
<1>1. Init => Ledger!Init
  BY DEF Init, Ledger!Init
<1>2. TypeOK /\ RowsFresh /\ [Next]_vars => [Ledger!Next]_(Ledger!vars)
  BY StepMaps
<1>3. QED
  BY <1>1, <1>2, TypeCorrect, RowsFreshInv, PTL DEF Spec, RefinesLedger, Ledger!Spec

\* The stored balance equals the transaction rows and is never negative.
THEOREM PipelineWalletConsistent == Spec => []WalletConsistent
<1>1. Init => LedgerProofs!LedgerInv
  <2>1. Cardinality({}) = 0
    BY FS_EmptySet
  <2>2. QED
    BY <2>1, SameCardinality, PipelineAssumption
    DEF Init, LedgerProofs!LedgerInv, LedgerProofs!TypeOK, LedgerProofs!BalanceMatchesLedger,
        LedgerProofs!NeverOverdrawn, LedgerProofs!RefundsFollowDebits
<1>2. LedgerProofs!LedgerInv /\ [Ledger!Next]_(Ledger!vars) => LedgerProofs!LedgerInv'
  <2>1. [Ledger!Next]_(Ledger!vars) => [LedgerProofs!Next]_(LedgerProofs!vars)
    BY SameCardinality
    DEF Ledger!Next, LedgerProofs!Next, Ledger!vars, LedgerProofs!vars,
        Ledger!TopUp, LedgerProofs!TopUp, Ledger!Charge, LedgerProofs!Charge,
        Ledger!Refund, LedgerProofs!Refund, Ledger!Covered, LedgerProofs!Covered,
        Ledger!Cost, LedgerProofs!Cost, Ledger!Refundable, LedgerProofs!Refundable
  <2>2. LedgerProofs!LedgerInv /\ [LedgerProofs!Next]_(LedgerProofs!vars) => LedgerProofs!LedgerInv'
    BY LedgerProofs!LedgerStep, WalletParameters, PipelineAssumption DEF LedgerProofs!LedgerAssumption
  <2>3. QED
    BY <2>1, <2>2
<1>3. LedgerProofs!LedgerInv => WalletConsistent
  BY SameCardinality
  DEF LedgerProofs!LedgerInv, WalletConsistent, LedgerProofs!BalanceMatchesLedger,
         Ledger!BalanceMatchesLedger, LedgerProofs!NeverOverdrawn, Ledger!NeverOverdrawn
<1>4. TypeOK /\ RowsFresh /\ [Next]_vars => [Ledger!Next]_(Ledger!vars)
  BY StepMaps
<1>5. QED
  BY <1>1, <1>2, <1>3, <1>4, TypeCorrect, RowsFreshInv, PTL DEF Spec

-----------------------------------------------------------------------------
(* Who may send a message, and until when: cancellation, the exclusive     *)
(* claim, and the end of sending once an answer is recorded.               *)

\* Meta has never been asked to send m, and nobody is about to record that.
Untouched(m) ==
    /\ accepted[m] = 0 /\ metaId[m] = 0 /\ hook.m # m
    /\ \A w \in Workers : cur[w] = m => pc[w] \notin {"send", "record", "finish"}

\* A message is QUEUED until its first claim, so a cancellation that finds it
\* QUEUED finds it untouched, and nothing makes a canceled message sendable.
CancelInv ==
    \A m \in Messages :
        /\ create[m] = "none" =>
             status[m] = "NONE" /\ cancel[m] = "none" /\ job[m] = "none"
               /\ \A w \in Workers : cur[w] # m
        /\ status[m] \in {"NONE", "QUEUED"} => Untouched(m)
        /\ cancel[m] # "none" => status[m] \in {"CANCELED", "FAILED"} /\ Untouched(m)

\* Requests preserve CancelInv.
LEMMA RequestCancelInv ==
    ASSUME TypeOK, CancelInv, NEW m \in Messages,
           CreateMessage(m) \/ Request(m) \/ CancelClaim(m) \/ Cancellation(m)
             \/ RequestDies(m) \/ CancelDies(m)
    PROVE  CancelInv'
<1> USE DEF TypeOK, DatabaseOK, RequestsOK, CancelInv, Untouched, dbVars, workerVars, queueVars
<1>1. CASE CreateMessage(m)
  BY <1>1 DEF CreateMessage, Affordable
<1>2. CASE Enqueue(m)
  BY <1>2 DEF Enqueue, AfterThrow, QueueOK
<1>3. CASE CountUsage(m)
  BY <1>3 DEF CountUsage, AfterThrow
<1>4. CASE Compensate(m)
  BY <1>4 DEF Compensate
<1>5. CASE CancelClaim(m)
  BY <1>5 DEF CancelClaim, Cancelable
<1>6. CASE CancelRemoveJob(m)
  BY <1>6 DEF CancelRemoveJob, QueueOK
<1>7. CASE CancelRefundRead(m)
  BY <1>7 DEF CancelRefundRead
<1>8. CASE CancelRefundWrite(m)
  BY <1>8 DEF CancelRefundWrite
<1>9. CASE RequestDies(m)
  BY <1>9 DEF RequestDies
<1>10. CASE CancelDies(m)
  BY <1>10 DEF CancelDies
<1>11. QED
  BY <1>1, <1>2, <1>3, <1>4, <1>5, <1>6, <1>7, <1>8, <1>9, <1>10 DEF Request, Cancellation

\* So do the queue's steps: they start or stop a worker, never in the middle.
LEMMA QueueCancelInv ==
    ASSUME TypeOK, CancelInv
    PROVE  /\ \A w \in Workers, m \in Messages : Dequeue(w, m) => CancelInv'
           /\ \A m \in Messages : LockLost(m) \/ RetryDeadLetter(m) => CancelInv'
           /\ \A w \in Workers : WorkerDies(w) => CancelInv'
<1> USE PipelineAssumption
    DEF TypeOK, WorkersOK, QueueOK, CancelInv, Untouched, dbVars, workerVars, queueVars
<1>1. ASSUME NEW w \in Workers, NEW m \in Messages, Dequeue(w, m) PROVE CancelInv'
  BY <1>1 DEF Dequeue
<1>2. ASSUME NEW m \in Messages, LockLost(m) PROVE CancelInv'
  BY <1>2 DEF LockLost, Stalled, MayStall
<1>3. ASSUME NEW m \in Messages, RetryDeadLetter(m) PROVE CancelInv'
  BY <1>3 DEF RetryDeadLetter
<1>4. ASSUME NEW w \in Workers, WorkerDies(w) PROVE CancelInv'
  <2>1. cur[w] \in Messages
    BY <1>4, BusyWorker DEF WorkerDies
  <2>2. QED
    BY <1>4, <2>1 DEF WorkerDies, Stalled, MayStall
<1>5. QED
  BY <1>1, <1>2, <1>3, <1>4

\* So does the handler: only Claim enters the sending steps, and it takes a
\* message that is no longer QUEUED afterwards.
LEMMA HandlerCancelInv ==
    ASSUME TypeOK, CancelInv, NEW w \in Workers, Handler(w) \/ DatabaseFault(w)
    PROVE  CancelInv'
<1>0. pc[w] # "idle" /\ cur[w] \in Messages
  <2>1. pc[w] # "idle"
    BY DEF Handler, Load, Claim, Claimable, NoCredentials, MetaAccepts, MetaRejects, Record, Finish,
           DatabaseFault, Fail, MarkFailedRead, MarkFailedWrite, RefundRead, RefundWrite, Rethrow
  <2>2. QED
    BY <2>1, BusyWorker DEF TypeOK
<1> USE <1>0, PipelineAssumption
    DEF TypeOK, DatabaseOK, WorkersOK, QueueOK, CancelInv, Untouched, dbVars, queueVars
<1>1. CASE Load(w)
  BY <1>1 DEF Load, Goto, Throw, EndJob
<1>2. CASE Claim(w)
  BY <1>2 DEF Claim, Claimable, Goto, EndJob, Sendable
<1>3. CASE NoCredentials(w)
  BY <1>3 DEF NoCredentials, Throw
<1>4. CASE MetaAccepts(w)
  BY <1>4 DEF MetaAccepts, Throw
<1>5. CASE MetaRejects(w)
  BY <1>5 DEF MetaRejects, Throw
<1>6. CASE Record(w)
  BY <1>6 DEF Record, Goto
<1>7. CASE Finish(w)
  BY <1>7 DEF Finish, EndJob
<1>8. CASE DatabaseFault(w)
  BY <1>8 DEF DatabaseFault, Throw
<1>9. CASE Fail(w)
  BY <1>9 DEF Fail, RetryStatus, Goto
<1>10. CASE MarkFailedRead(w)
  BY <1>10 DEF MarkFailedRead, Goto
<1>11. CASE MarkFailedWrite(w)
  BY <1>11 DEF MarkFailedWrite, Goto
<1>12. CASE RefundRead(w)
  BY <1>12 DEF RefundRead, Goto
<1>13. CASE RefundWrite(w)
  BY <1>13 DEF RefundWrite, Goto
<1>14. CASE Rethrow(w)
  BY <1>14 DEF Rethrow, EndJob
<1>15. QED
  BY <1>1, <1>2, <1>3, <1>4, <1>5, <1>6, <1>7, <1>8, <1>9, <1>10, <1>11, <1>12, <1>13, <1>14
  DEF Handler

\* So does the webhook: it only finds messages with a recorded metaMessageId.
LEMMA WebhookCancelInv ==
    ASSUME TypeOK, CancelInv,
           (\E m \in Messages, next \in Delivery \cup {"FAILED"} : WebhookRead(m, next))
             \/ WebhookWrite \/ WebhookDies
    PROVE  CancelInv'
<1> USE PipelineAssumption
    DEF TypeOK, DatabaseOK, HookOK, CancelInv, Untouched, dbVars, workerVars, queueVars
<1>1. ASSUME NEW m \in Messages, NEW next \in Delivery \cup {"FAILED"}, WebhookRead(m, next)
      PROVE  CancelInv'
  BY <1>1 DEF WebhookRead
<1>2. CASE WebhookWrite
  BY <1>2 DEF WebhookWrite, NoHook, Delivery
<1>3. CASE WebhookDies
  BY <1>3 DEF WebhookDies, NoHook
<1>4. QED
  BY <1>1, <1>2, <1>3

\* CancelInv is inductive.
LEMMA CancelInvHolds == Spec => []CancelInv
<1>1. Init => CancelInv
  BY PipelineAssumption DEF Init, CancelInv, Untouched, NoHook
<1>2. TypeOK /\ CancelInv /\ [Next]_vars => CancelInv'
  <2> SUFFICES ASSUME TypeOK, CancelInv, [Next]_vars PROVE CancelInv'
    OBVIOUS
  <2> USE RequestCancelInv, QueueCancelInv, HandlerCancelInv, WebhookCancelInv
  <2>1. ASSUME NEW m \in Messages, CreateMessage(m) \/ Request(m) \/ CancelClaim(m) \/ Cancellation(m)
        PROVE  CancelInv'
    BY <2>1
  <2>2. ASSUME NEW w \in Workers, NEW m \in Messages, Dequeue(w, m)
        PROVE  CancelInv'
    BY <2>2
  <2>3. ASSUME NEW w \in Workers, Handler(w)
        PROVE  CancelInv'
    BY <2>3
  <2>4. CASE (\E m \in Messages, next \in Delivery \cup {"FAILED"} : WebhookRead(m, next)) \/ WebhookWrite
    BY <2>4
  <2>5. CASE Environment
    <3>1. ASSUME NEW m \in Messages,
                 RequestDies(m) \/ CancelDies(m) \/ LockLost(m) \/ RetryDeadLetter(m)
          PROVE  CancelInv'
      BY <3>1
    <3>2. ASSUME NEW w \in Workers, WorkerDies(w) \/ DatabaseFault(w)
          PROVE  CancelInv'
      BY <3>2
    <3>3. CASE WebhookDies
      BY <3>3
    <3>4. QED
      BY <2>5, <3>1, <3>2, <3>3 DEF Environment
  <2>6. CASE UNCHANGED vars
    BY <2>6 DEF vars, dbVars, queueVars, workerVars, CancelInv, Untouched
  <2>7. QED
    BY <2>1, <2>2, <2>3, <2>4, <2>5, <2>6 DEF Next
<1>3. QED
  BY <1>1, <1>2, TypeCorrect, PTL DEF Spec

\* An accepted cancellation keeps the message from Meta for good, whatever
\* fails and whoever is running the message's job.
THEOREM CancellationHolds == Spec => []CanceledNeverSent
<1>1. CancelInv => CanceledNeverSent
  BY DEF CancelInv, Untouched, CanceledNeverSent
<1>2. QED
  BY <1>1, CancelInvHolds, PTL

-----------------------------------------------------------------------------
\* A worker between its claim and the end of it.
Holding(w) == pc[w] \in {"send", "record", "fail"}

\* While no live worker loses its job's lock, a job belongs to one worker.
OwnInv ==
    "lock" \notin env =>
        /\ \A w \in Workers : pc[w] # "idle" => owner[cur[w]] = w /\ job[cur[w]] = "active"
        /\ \A m \in Messages : create[m] \in {"none", "enqueue"} => job[m] = "none"

\* While no statement fails, only the claimer holds a message, and a message
\* that can be claimed is held by nobody.
HoldInv ==
    "database" \notin env =>
        /\ \A v, w \in Workers : Holding(v) /\ Holding(w) /\ cur[v] = cur[w] => v = w
        /\ \A w \in Workers : Holding(w) => status[cur[w]] \notin {"NONE"} \cup Sendable

\* A recorded message is not sendable, and nobody is sending it.
RecordedInv == LocksOrStatementsHold =>
    \A m \in Messages : metaId[m] # 0 =>
        /\ status[m] \in Delivery \cup {"FAILED"}
        /\ \A w \in Workers : cur[w] = m => ~Sending(w)

SendInv == OwnInv /\ HoldInv

\* Either kind of exclusion gives the exclusive sender.
LEMMA SendInvExclusive ==
    ASSUME SendInv, TypeOK
    PROVE  ExclusiveSender
<1>1. CASE "lock" \notin env
  BY <1>1 DEF SendInv, OwnInv, ExclusiveSender, Sending
<1>2. CASE "database" \notin env
  BY <1>2 DEF SendInv, HoldInv, Holding, ExclusiveSender, Sending
<1>3. QED
  BY <1>1, <1>2 DEF ExclusiveSender, LocksOrStatementsHold

\* Requests preserve both.
LEMMA RequestSendInv ==
    ASSUME TypeOK, CancelInv, SendInv, NEW m \in Messages,
           CreateMessage(m) \/ Request(m) \/ CancelClaim(m) \/ Cancellation(m)
             \/ RequestDies(m) \/ CancelDies(m)
    PROVE  SendInv'
<1> USE DEF TypeOK, DatabaseOK, RequestsOK, QueueOK, WorkersOK, SendInv, OwnInv, HoldInv, Holding,
            Sendable, dbVars, workerVars, queueVars
<1>1. CASE CreateMessage(m)
  BY <1>1 DEF CreateMessage, Affordable, CancelInv
<1>2. CASE Enqueue(m)
  BY <1>2 DEF Enqueue, AfterThrow
<1>3. CASE CountUsage(m)
  BY <1>3 DEF CountUsage, AfterThrow
<1>4. CASE Compensate(m)
  BY <1>4 DEF Compensate
<1>5. CASE CancelClaim(m)
  BY <1>5 DEF CancelClaim, Cancelable
<1>6. CASE CancelRemoveJob(m)
  BY <1>6 DEF CancelRemoveJob
<1>7. CASE CancelRefundRead(m)
  BY <1>7 DEF CancelRefundRead
<1>8. CASE CancelRefundWrite(m)
  BY <1>8 DEF CancelRefundWrite
<1>9. CASE RequestDies(m)
  BY <1>9 DEF RequestDies
<1>10. CASE CancelDies(m)
  BY <1>10 DEF CancelDies
<1>11. QED
  BY <1>1, <1>2, <1>3, <1>4, <1>5, <1>6, <1>7, <1>8, <1>9, <1>10 DEF Request, Cancellation

\* A job is handed out only while it waits, and taken back only with its lock.
LEMMA QueueSendInv ==
    ASSUME TypeOK, CancelInv, SendInv
    PROVE  /\ \A w \in Workers, m \in Messages : Dequeue(w, m) => SendInv'
           /\ \A m \in Messages : LockLost(m) \/ RetryDeadLetter(m) => SendInv'
           /\ \A w \in Workers : WorkerDies(w) => SendInv'
<1> USE PipelineAssumption
    DEF TypeOK, WorkersOK, QueueOK, SendInv, OwnInv, HoldInv, Holding, dbVars, workerVars, queueVars
<1>1. ASSUME NEW w \in Workers, NEW m \in Messages, Dequeue(w, m) PROVE SendInv'
  BY <1>1 DEF Dequeue
<1>2. ASSUME NEW m \in Messages, LockLost(m) PROVE SendInv'
  BY <1>2 DEF LockLost, Stalled, MayStall, May
<1>3. ASSUME NEW m \in Messages, RetryDeadLetter(m) PROVE SendInv'
  BY <1>3 DEF RetryDeadLetter
<1>4. ASSUME NEW w \in Workers, WorkerDies(w) PROVE SendInv'
  <2>1. cur[w] \in Messages
    BY <1>4, BusyWorker DEF WorkerDies
  <2>2. QED
    BY <1>4, <2>1 DEF WorkerDies, Stalled, MayStall
<1>5. QED
  BY <1>1, <1>2, <1>3, <1>4

\* The claim is conditional on the status, and leaves one the next claim
\* refuses; only the claimer itself makes the message sendable again.
LEMMA HandlerSendInv ==
    ASSUME TypeOK, CancelInv, SendInv, NEW w \in Workers, Handler(w) \/ DatabaseFault(w)
    PROVE  SendInv'
<1>0. pc[w] # "idle" /\ cur[w] \in Messages
  <2>1. pc[w] # "idle"
    BY DEF Handler, Load, Claim, Claimable, NoCredentials, MetaAccepts, MetaRejects, Record, Finish,
           DatabaseFault, Fail, MarkFailedRead, MarkFailedWrite, RefundRead, RefundWrite, Rethrow
  <2>2. QED
    BY <2>1, BusyWorker DEF TypeOK
<1> USE <1>0, PipelineAssumption
    DEF TypeOK, DatabaseOK, WorkersOK, QueueOK, RequestsOK, SendInv, OwnInv, HoldInv, Holding,
        Sendable, dbVars, queueVars
<1>1. CASE Load(w)
  BY <1>1 DEF Load, Goto, Throw, EndJob
<1>2. CASE Claim(w)
  <2>1. CASE Claimable(cur[w])
    <3>1. /\ pc[w] = "claim" /\ status[cur[w]] \in Sendable
          /\ pc' = [pc EXCEPT ![w] = "send"]
          /\ status' = [status EXCEPT ![cur[w]] = "SENDING"]
          /\ UNCHANGED <<env, cur, job, owner, create>>
      BY <1>2, <2>1 DEF Claim, Claimable, Goto
    <3>2. OwnInv'
      BY <3>1
    <3>3. HoldInv'
      BY <3>1
    <3>4. QED
      BY <3>2, <3>3
  <2>2. CASE ~Claimable(cur[w])
    <3>1. pc[w] = "claim" /\ EndJob(w, "completed") /\ UNCHANGED <<env, status, create>>
      BY <1>2, <2>2 DEF Claim
    <3>2. OwnInv'
      BY <3>1 DEF EndJob
    <3>3. HoldInv'
      BY <3>1 DEF EndJob
    <3>4. QED
      BY <3>2, <3>3
  <2>3. QED
    BY <2>1, <2>2
<1>3. CASE NoCredentials(w)
  BY <1>3 DEF NoCredentials, Throw
<1>4. CASE MetaAccepts(w)
  BY <1>4 DEF MetaAccepts, Throw
<1>5. CASE MetaRejects(w)
  BY <1>5 DEF MetaRejects, Throw
<1>6. CASE Record(w)
  BY <1>6 DEF Record, Goto
<1>7. CASE Finish(w)
  BY <1>7 DEF Finish, EndJob
<1>8. CASE DatabaseFault(w)
  BY <1>8 DEF DatabaseFault, Throw, May
<1>9. CASE Fail(w)
  BY <1>9 DEF Fail, RetryStatus, Goto
<1>10. CASE MarkFailedRead(w)
  BY <1>10 DEF MarkFailedRead, Goto
<1>11. CASE MarkFailedWrite(w)
  BY <1>11 DEF MarkFailedWrite, Goto
<1>12. CASE RefundRead(w)
  BY <1>12 DEF RefundRead, Goto
<1>13. CASE RefundWrite(w)
  BY <1>13 DEF RefundWrite, Goto
<1>14. CASE Rethrow(w)
  BY <1>14 DEF Rethrow, EndJob
<1>15. QED
  BY <1>1, <1>2, <1>3, <1>4, <1>5, <1>6, <1>7, <1>8, <1>9, <1>10, <1>11, <1>12, <1>13, <1>14
  DEF Handler

\* The webhook never makes a message sendable again.
LEMMA WebhookSendInv ==
    ASSUME TypeOK, SendInv,
           (\E m \in Messages, next \in Delivery \cup {"FAILED"} : WebhookRead(m, next))
             \/ WebhookWrite \/ WebhookDies \/ UNCHANGED vars
    PROVE  SendInv'
<1> USE DEF SendInv, OwnInv, HoldInv, Holding, dbVars, workerVars, queueVars
<1>1. ASSUME NEW m \in Messages, NEW next \in Delivery \cup {"FAILED"}, WebhookRead(m, next)
      PROVE  SendInv'
  BY <1>1 DEF WebhookRead
<1>2. CASE WebhookWrite
  BY <1>2 DEF WebhookWrite, TypeOK, DatabaseOK, HookOK, WorkersOK, Delivery, Sendable
<1>3. CASE WebhookDies \/ UNCHANGED vars
  BY <1>3 DEF WebhookDies, vars
<1>4. QED
  BY <1>1, <1>2, <1>3

\* Both kinds of exclusion are kept by every step.
LEMMA SendInvStep ==
    ASSUME TypeOK, CancelInv, SendInv, [Next]_vars
    PROVE  SendInv'
<1> USE RequestSendInv, QueueSendInv, HandlerSendInv, WebhookSendInv
<1>1. ASSUME NEW m \in Messages, CreateMessage(m) \/ Request(m) \/ CancelClaim(m) \/ Cancellation(m)
      PROVE  SendInv'
  BY <1>1
<1>2. ASSUME NEW w \in Workers, NEW m \in Messages, Dequeue(w, m)
      PROVE  SendInv'
  BY <1>2
<1>3. ASSUME NEW w \in Workers, Handler(w)
      PROVE  SendInv'
  BY <1>3
<1>4. CASE Environment
  <2>1. ASSUME NEW m \in Messages,
               RequestDies(m) \/ CancelDies(m) \/ LockLost(m) \/ RetryDeadLetter(m)
        PROVE  SendInv'
    BY <2>1
  <2>2. ASSUME NEW w \in Workers, WorkerDies(w) \/ DatabaseFault(w)
        PROVE  SendInv'
    BY <2>2
  <2>3. CASE WebhookDies
    BY <2>3
  <2>4. QED
    BY <1>4, <2>1, <2>2, <2>3 DEF Environment
<1>5. QED
  BY <1>1, <1>2, <1>3, <1>4 DEF Next

\* SendInv is inductive.
LEMMA SendInvHolds == Spec => []SendInv
<1>1. Init => SendInv
  BY DEF Init, SendInv, OwnInv, HoldInv, Holding
<1>2. TypeOK /\ CancelInv /\ SendInv /\ [Next]_vars => SendInv'
  BY SendInvStep
<1>3. QED
  BY <1>1, <1>2, TypeCorrect, CancelInvHolds, PTL DEF Spec

\* The claim is exclusive, unless a live worker can lose its lock and a
\* statement of its successor can fail as well: then the successor's catch
\* block resets the status its predecessor set.
THEOREM ClaimIsExclusive == Spec => []ExclusiveSender
<1>1. SendInv /\ TypeOK => ExclusiveSender
  BY SendInvExclusive
<1>2. QED
  BY <1>1, SendInvHolds, TypeCorrect, PTL

\* A recorded message stays out of reach of every claim.
LEMMA RecordedInvStep ==
    ASSUME TypeOK, CancelInv, ExclusiveSender, RecordedInv, [Next]_vars
    PROVE  RecordedInv'
<1> USE PipelineAssumption
    DEF TypeOK, DatabaseOK, RequestsOK, WorkersOK, RecordedInv, LocksOrStatementsHold, Sending, Sendable,
        Delivery, dbVars, workerVars
<1>1. ASSUME NEW m \in Messages, CreateMessage(m) \/ Request(m) \/ CancelClaim(m) \/ Cancellation(m)
                                   \/ RequestDies(m) \/ CancelDies(m)
      PROVE  RecordedInv'
  BY <1>1 DEF CreateMessage, Affordable, Request, Enqueue, CountUsage, Compensate, CancelClaim, Cancelable, Cancellation,
              CancelRemoveJob, CancelRefundRead, CancelRefundWrite, RequestDies, CancelDies,
              CancelInv, Untouched
<1>2. ASSUME NEW w \in Workers, NEW m \in Messages, Dequeue(w, m)
      PROVE  RecordedInv'
  BY <1>2 DEF Dequeue
<1>3. ASSUME NEW m \in Messages, LockLost(m) \/ RetryDeadLetter(m)
      PROVE  RecordedInv'
  BY <1>3 DEF LockLost, RetryDeadLetter
<1>4. ASSUME NEW w \in Workers, WorkerDies(w) \/ DatabaseFault(w)
      PROVE  RecordedInv'
  BY <1>4 DEF WorkerDies, DatabaseFault, Throw
<1>5. ASSUME NEW w \in Workers, Handler(w)
      PROVE  RecordedInv'
  <2>0. pc[w] # "idle" => cur[w] \in Messages
    BY BusyWorker
  <2>1. CASE Claim(w)
    BY <2>0, <2>1 DEF Claim, Claimable, Goto, EndJob
  <2>2. CASE Record(w)
    BY <2>0, <2>2 DEF Record, Goto, ExclusiveSender
  <2>3. CASE NoCredentials(w) \/ MetaAccepts(w) \/ MetaRejects(w)
    BY <2>0, <2>3 DEF NoCredentials, MetaAccepts, MetaRejects, Throw
  <2>4. CASE Load(w) \/ Finish(w) \/ Rethrow(w)
    BY <2>0, <2>4 DEF Load, Finish, Rethrow, Goto, Throw, EndJob
  <2>5. CASE Fail(w) \/ MarkFailedRead(w) \/ MarkFailedWrite(w) \/ RefundRead(w) \/ RefundWrite(w)
    BY <2>0, <2>5 DEF Fail, RetryStatus, MarkFailedRead, MarkFailedWrite, RefundRead, RefundWrite, Goto
  <2>6. QED
    BY <1>5, <2>1, <2>2, <2>3, <2>4, <2>5 DEF Handler
<1>6. ASSUME NEW m \in Messages, NEW next \in Delivery \cup {"FAILED"}, WebhookRead(m, next)
      PROVE  RecordedInv'
  BY <1>6 DEF WebhookRead
<1>7. CASE WebhookWrite \/ WebhookDies
  BY <1>7 DEF WebhookWrite, WebhookDies, HookOK
<1>8. CASE UNCHANGED vars
  BY <1>8 DEF vars
<1>9. QED
  BY <1>1, <1>2, <1>3, <1>4, <1>5, <1>6, <1>7, <1>8 DEF Next, Environment

\* After Meta's answer is recorded the message is never sent again and keeps
\* its metaMessageId, whatever fails later in the job or in a retry of it.
THEOREM RecordedOnce == Spec => NoResendAfterRecord
<1>1. Init => RecordedInv
  BY DEF Init, RecordedInv
<1>2. TypeOK /\ CancelInv /\ ExclusiveSender /\ RecordedInv /\ [Next]_vars => RecordedInv'
  BY RecordedInvStep
<1>3. ASSUME TypeOK, RecordedInv, LocksOrStatementsHold, [Next]_vars
      PROVE  \A m \in Messages : metaId[m] # 0 => accepted'[m] = accepted[m] /\ metaId'[m] = metaId[m]
  <2>1. ASSUME NEW w \in Workers, Record(w) \/ MetaAccepts(w)
        PROVE  \A m \in Messages : metaId[m] # 0 => accepted'[m] = accepted[m] /\ metaId'[m] = metaId[m]
    <3>1. Sending(w) /\ cur[w] \in Messages
      BY <1>3, <2>1, BusyWorker DEF Record, MetaAccepts, Sending, TypeOK
    <3>2. metaId[cur[w]] = 0
      BY <1>3, <3>1 DEF RecordedInv
    <3>3. QED
      BY <1>3, <2>1, <3>2 DEF Record, MetaAccepts, TypeOK, DatabaseOK, dbVars
  <2>2. CASE ~\E w \in Workers : Record(w) \/ MetaAccepts(w)
    <3>1. UNCHANGED <<metaId, accepted>>
      BY <1>3, <2>2
      DEF Next, vars, dbVars, CreateMessage, Affordable, Request, Enqueue, CountUsage, Compensate, CancelClaim, Cancelable,
          Cancellation, CancelRemoveJob, CancelRefundRead, CancelRefundWrite, Dequeue, Handler,
          Load, Claim, NoCredentials, MetaRejects, Finish, Fail, MarkFailedRead, MarkFailedWrite,
          RefundRead, RefundWrite, Rethrow, WebhookRead, WebhookWrite, Environment, RequestDies,
          CancelDies, LockLost, RetryDeadLetter, WorkerDies, DatabaseFault, WebhookDies
    <3>2. QED
      BY <3>1
  <2>3. QED
    BY <2>1, <2>2
<1>4. TypeOK /\ RecordedInv /\ [Next]_vars =>
        [LocksOrStatementsHold => \A m \in Messages : metaId[m] # 0 => accepted'[m] = accepted[m] /\ metaId'[m] = metaId[m]]_vars
  BY <1>3
<1>5. QED
  BY <1>1, <1>2, <1>4, ClaimIsExclusive, TypeCorrect, CancelInvHolds, PTL DEF Spec, NoResendAfterRecord

-----------------------------------------------------------------------------
\* While every answer arrives and every statement succeeds, a message Meta has
\* accepted is out of reach of a claim, and nobody is sending it or giving it
\* back for a retry.
OnceInv == SentOnce /\ (env \cap {"answer_lost", "database"} = {} =>
    \A m \in Messages : accepted[m] > 0 =>
        /\ status[m] \notin {"NONE"} \cup Sendable
        /\ \A w \in Workers : cur[w] = m => pc[w] \notin {"send", "fail"})

\* Every step keeps it: an accepted message has left the sending worker for
\* "record", and no other worker may hold it then.
LEMMA OnceInvStep ==
    ASSUME TypeOK, CancelInv, SendInv, OnceInv, [Next]_vars
    PROVE  OnceInv'
<1> SUFFICES ASSUME env \cap {"answer_lost", "database"} = {}, env' = env
             PROVE  OnceInv'
  <2>1. env' = env
    BY DEF Next, vars, dbVars, CreateMessage, Request, Enqueue, CountUsage, Compensate, CancelClaim,
          Cancellation, CancelRemoveJob, CancelRefundRead, CancelRefundWrite, Dequeue, Handler,
          Load, Claim, NoCredentials, MetaAccepts, MetaRejects, Record, Finish, Fail, MarkFailedRead,
          MarkFailedWrite, RefundRead, RefundWrite, Rethrow, WebhookRead, WebhookWrite, Environment,
          RequestDies, CancelDies, LockLost, RetryDeadLetter, WorkerDies, DatabaseFault, WebhookDies
  <2>2. QED
    BY <2>1 DEF OnceInv, SentOnce
<1> USE PipelineAssumption
    DEF TypeOK, DatabaseOK, RequestsOK, WorkersOK, OnceInv, SentOnce, Sendable, Delivery, May,
        dbVars, workerVars
<1>0. "database" \notin env /\ "answer_lost" \notin env
  OBVIOUS
<1>1. ASSUME NEW m \in Messages, CreateMessage(m) \/ Request(m) \/ CancelClaim(m) \/ Cancellation(m)
                                   \/ RequestDies(m) \/ CancelDies(m)
      PROVE  OnceInv'
  BY <1>1 DEF CreateMessage, Affordable, Request, Enqueue, CountUsage, Compensate, CancelClaim, Cancelable, Cancellation,
              CancelRemoveJob, CancelRefundRead, CancelRefundWrite, RequestDies, CancelDies,
              CancelInv, Untouched
<1>2. ASSUME NEW w \in Workers, NEW m \in Messages, Dequeue(w, m)
      PROVE  OnceInv'
  BY <1>2 DEF Dequeue
<1>3. ASSUME NEW m \in Messages, LockLost(m) \/ RetryDeadLetter(m)
      PROVE  OnceInv'
  BY <1>3 DEF LockLost, RetryDeadLetter
<1>4. ASSUME NEW w \in Workers, WorkerDies(w) \/ DatabaseFault(w)
      PROVE  OnceInv'
  BY <1>0, <1>4 DEF WorkerDies, DatabaseFault
<1>5. ASSUME NEW w \in Workers, Handler(w)
      PROVE  OnceInv'
  <2>0. pc[w] # "idle" => cur[w] \in Messages
    BY BusyWorker
  <2>1. CASE Claim(w)
    <3>1. UNCHANGED accepted
      BY <2>1 DEF Claim
    <3>2. CASE Claimable(cur[w])
      <4>1. accepted[cur[w]] = 0
        BY <2>0, <2>1, <3>2 DEF Claim, Claimable
      <4>2. QED
        BY <2>0, <2>1, <3>1, <3>2, <4>1 DEF Claim, Claimable, Goto
    <3>3. CASE ~Claimable(cur[w])
      BY <2>0, <2>1, <3>1, <3>3 DEF Claim, EndJob
    <3>4. QED
      BY <3>2, <3>3
  <2>2. CASE MetaAccepts(w)
    <3>1. accepted[cur[w]] = 0 /\ cur[w] \in Messages
      BY <2>0, <2>2 DEF MetaAccepts
    <3>2. status[cur[w]] \notin {"NONE"} \cup Sendable
      BY <1>0, <2>2, <3>1 DEF MetaAccepts, SendInv, HoldInv, Holding
    <3>3. \A v \in Workers : v # w /\ cur[v] = cur[w] => pc[v] \notin {"send", "fail"}
      BY <1>0, <2>2, <3>1 DEF MetaAccepts, SendInv, HoldInv, Holding
    <3>4. /\ accepted' = [accepted EXCEPT ![cur[w]] = @ + 1]
          /\ pc' = [pc EXCEPT ![w] = "record"]
          /\ UNCHANGED <<status, cur>>
      BY <1>0, <2>2 DEF MetaAccepts, Throw
    <3>5. QED
      BY <3>1, <3>2, <3>3, <3>4
  <2>3. CASE NoCredentials(w) \/ MetaRejects(w)
    <3>1. cur[w] \in Messages /\ accepted[cur[w]] = 0
      BY <2>0, <2>3 DEF NoCredentials, MetaRejects
    <3>2. QED
      BY <2>3, <3>1 DEF NoCredentials, MetaRejects, Throw
  <2>4. CASE Load(w) \/ Finish(w) \/ Rethrow(w) \/ Record(w)
    BY <2>0, <2>4 DEF Load, Finish, Rethrow, Record, Goto, Throw, EndJob
  <2>5. CASE Fail(w)
    <3>1. cur[w] \in Messages /\ accepted[cur[w]] = 0
      BY <2>0, <2>5 DEF Fail
    <3>2. QED
      BY <2>5, <3>1 DEF Fail, Goto
  <2>6. CASE MarkFailedRead(w) \/ MarkFailedWrite(w) \/ RefundRead(w) \/ RefundWrite(w)
    BY <2>0, <2>6 DEF MarkFailedRead, MarkFailedWrite, RefundRead, RefundWrite, Goto
  <2>7. QED
    BY <1>5, <2>1, <2>2, <2>3, <2>4, <2>5, <2>6 DEF Handler
<1>6. ASSUME NEW m \in Messages, NEW next \in Delivery \cup {"FAILED"}, WebhookRead(m, next)
      PROVE  OnceInv'
  BY <1>6 DEF WebhookRead
<1>7. CASE WebhookWrite \/ WebhookDies
  BY <1>7 DEF WebhookWrite, WebhookDies, HookOK
<1>8. CASE UNCHANGED vars
  BY <1>8 DEF vars
<1>9. QED
  BY <1>1, <1>2, <1>3, <1>4, <1>5, <1>6, <1>7, <1>8 DEF Next, Environment

\* Meta accepts a message at most once as long as every answer arrives and
\* every statement succeeds: crashes, stalled jobs and retries send no copy.
THEOREM AcceptedOnce == Spec => []SentOnce
<1>1. Init => OnceInv
  BY DEF Init, OnceInv, SentOnce
<1>2. TypeOK /\ CancelInv /\ SendInv /\ OnceInv /\ [Next]_vars => OnceInv'
  BY OnceInvStep
<1>3. OnceInv => SentOnce
  BY DEF OnceInv
<1>4. QED
  BY <1>1, <1>2, <1>3, TypeCorrect, CancelInvHolds, SendInvHolds, PTL DEF Spec

-----------------------------------------------------------------------------
(* A message that is given up on or canceled is refunded once, as long as   *)
(* nothing fails that a handler does not expect.                            *)

Undisturbed == env \cap {"database", "crash", "lock", "enqueue", "quota"} = {}

Unpaid(m) == \A who \in Refunders : <<m, who>> \notin refunds
PaidOnce(m) == \E payer \in Refunders :
    \A who \in Refunders : <<m, who>> \in refunds <=> who = payer

\* Somebody is on the way to refund m.
Refunding(m) ==
    \/ cancel[m] \in {"remove", "refund_read", "refund_write"}
    \/ \E w \in Workers : cur[w] = m /\ pc[w] \in {"refund_read", "refund_write"}

\* A worker holds a SENDING message until it records the answer or gives up.
WorkInHand == \A w \in Workers :
    /\ pc[w] \in {"send", "record", "fail", "mark_read", "mark_write"} =>
         status[cur[w]] = "SENDING" /\ metaId[cur[w]] = 0
    /\ pc[w] \in {"refund_read", "refund_write"} =>
         status[cur[w]] = "FAILED" /\ metaId[cur[w]] = 0
    /\ pc[w] = "record" => ans[w] # 0

\* A failed or canceled message that was never recorded is refunded, or about
\* to be; nothing else is.
MessageSettled(m) ==
    /\ create[m] \notin {"compensate", "thrown"}
    /\ metaId[m] # 0 => status[m] \in Delivery \cup {"FAILED"}
    /\ hook.m = m => metaId[m] # 0
    /\ cancel[m] # "none" => status[m] = "CANCELED"
    /\ IF status[m] \in {"FAILED", "CANCELED"} /\ metaId[m] = 0 /\ ~Refunding(m)
       THEN PaidOnce(m) ELSE Unpaid(m)

SettleInv == Undisturbed => WorkInHand /\ \A m \in Messages : MessageSettled(m)

\* The rows the handlers look for, and the rows the invariant speaks of.
LEMMA RefundRows ==
    ASSUME WalletOK, NEW m \in Messages
    PROVE  /\ RefundsOf(m) = {} <=> Unpaid(m)
           /\ PaidOnce(m) => \E payer \in Refunders : RefundsOf(m) = {<<m, payer>>}
BY DEF WalletOK, RefundsOf, Unpaid, PaidOnce

LEMMA UndisturbedRequests ==
    ASSUME TypeOK, CancelInv, RowsFresh, SettleInv, Undisturbed, NEW m \in Messages,
           CreateMessage(m) \/ Request(m) \/ CancelClaim(m) \/ Cancellation(m)
    PROVE  WorkInHand' /\ \A n \in Messages : MessageSettled(n)'
<1> USE DEF TypeOK, DatabaseOK, RequestsOK, WorkersOK, SettleInv, WorkInHand, MessageSettled, Refunding, Unpaid,
        PaidOnce, dbVars, walletVars, workerVars, Delivery
<1>0. "request" \in Refunders /\ "cancel" \in Refunders
  BY DEF Refunders
<1>1. CASE CreateMessage(m)
  BY <1>1 DEF CreateMessage, CancelInv, Untouched
<1>2. CASE Enqueue(m)
  BY <1>2 DEF Enqueue, May, Undisturbed
<1>3. CASE CountUsage(m)
  BY <1>3 DEF CountUsage, May, Undisturbed
<1>4. CASE Compensate(m)
  BY <1>4 DEF Compensate
<1>5. CASE CancelClaim(m)
  BY <1>5 DEF CancelClaim, Cancelable, CancelInv, Untouched
<1>6. CASE CancelRemoveJob(m)
  BY <1>6 DEF CancelRemoveJob
<1>7. CASE CancelRefundRead(m)
  <2>1. m \in debits
    BY <1>7 DEF CancelRefundRead, RowsFresh, CancelInv
  <2>2. Unpaid(m)
    BY <1>7 DEF CancelRefundRead
  <2>3. cancel' = [cancel EXCEPT ![m] = "refund_write"]
    BY <1>7, <2>1, <2>2, RefundRows DEF CancelRefundRead
  <2>4. QED
    BY <1>7, <2>3 DEF CancelRefundRead
<1>8. CASE CancelRefundWrite(m)
  <2>1. /\ refunds' = refunds \cup {<<m, "cancel">>}
        /\ cancel' = [cancel EXCEPT ![m] = "done"] /\ cancel[m] = "refund_write"
        /\ UNCHANGED <<status, metaId, create, hook, pc, cur, ans>>
    BY <1>8 DEF CancelRefundWrite, WriteRefund
  <2>2. Unpaid(m) /\ status[m] = "CANCELED" /\ metaId[m] = 0
    BY <2>1
  <2>3. PaidOnce(m)'
    BY <1>0, <2>1, <2>2
  <2>4. ~Refunding(m)'
    BY <2>1, <2>2
  <2>5. ASSUME NEW n \in Messages, n # m PROVE MessageSettled(n)'
    BY <2>1, <2>5
  <2>6. MessageSettled(m)'
    BY <2>1, <2>2, <2>3, <2>4
  <2>7. QED
    BY <2>1, <2>5, <2>6
<1>9. QED
  BY <1>1, <1>2, <1>3, <1>4, <1>5, <1>6, <1>7, <1>8 DEF Request, Cancellation

\* The queue hands out and takes back, and Meta's reports come, without a
\* change to what is owed.
LEMMA UndisturbedOthers ==
    ASSUME TypeOK, CancelInv, SettleInv, Undisturbed,
           \/ \E w \in Workers, m \in Messages : Dequeue(w, m)
           \/ \E m \in Messages, next \in Delivery \cup {"FAILED"} : WebhookRead(m, next)
           \/ WebhookWrite \/ Environment \/ UNCHANGED vars
    PROVE  WorkInHand' /\ \A n \in Messages : MessageSettled(n)'
<1> USE PipelineAssumption
    DEF TypeOK, DatabaseOK, RequestsOK, WorkersOK, SettleInv, WorkInHand, MessageSettled, Refunding, Unpaid,
        PaidOnce, dbVars, walletVars, workerVars, Delivery
<1>1. ASSUME NEW w \in Workers, NEW m \in Messages, Dequeue(w, m)
      PROVE  WorkInHand' /\ \A n \in Messages : MessageSettled(n)'
  <2>1. /\ pc' = [pc EXCEPT ![w] = "load"] /\ cur' = [cur EXCEPT ![w] = m] /\ pc[w] = "idle"
        /\ UNCHANGED <<status, metaId, create, cancel, refunds, hook, ans>>
    BY <1>1 DEF Dequeue
  <2>2. cur[w] = NoMessage
    BY <2>1
  <2>3. WorkInHand'
    BY <2>1
  <2>4. \A n \in Messages : Refunding(n)' <=> Refunding(n)
    BY <2>1, <2>2
  <2>5. QED
    BY <2>1, <2>3, <2>4
<1>2. ASSUME NEW m \in Messages, NEW next \in Delivery \cup {"FAILED"}, WebhookRead(m, next)
      PROVE  WorkInHand' /\ \A n \in Messages : MessageSettled(n)'
  BY <1>2 DEF WebhookRead
<1>3. CASE WebhookWrite
  BY <1>3 DEF WebhookWrite, HookOK, NoHook
<1>4. CASE Environment
  BY <1>4 DEF Environment, RequestDies, CancelDies, LockLost, RetryDeadLetter, WorkerDies,
     DatabaseFault, WebhookDies, May, Undisturbed
<1>5. CASE UNCHANGED vars
  BY <1>5 DEF vars
<1>6. QED
  BY <1>1, <1>2, <1>3, <1>4, <1>5

\* The handler: whoever turns the status to FAILED goes on to the refund, and
\* finds no earlier one.
LEMMA UndisturbedHandler ==
    ASSUME TypeOK, CancelInv, SendInv, RowsFresh, SettleInv, Undisturbed,
           NEW w \in Workers, Handler(w)
    PROVE  WorkInHand' /\ \A n \in Messages : MessageSettled(n)'
<1>0. pc[w] # "idle" /\ cur[w] \in Messages
  <2>1. pc[w] # "idle"
    BY DEF Handler, Load, Claim, NoCredentials, MetaAccepts, MetaRejects, Record, Finish,
           Fail, MarkFailedRead, MarkFailedWrite, RefundRead, RefundWrite, Rethrow
  <2>2. QED
    BY <2>1, BusyWorker DEF TypeOK
<1>alone. \A v \in Workers : cur[v] = cur[w] => v = w
  BY <1>0, PipelineAssumption DEF SendInv, OwnInv, Undisturbed, TypeOK, WorkersOK
<1> USE <1>0, <1>alone, PipelineAssumption
    DEF TypeOK, DatabaseOK, RequestsOK, WorkersOK, SettleInv, WorkInHand, MessageSettled, Refunding, Unpaid,
        PaidOnce, dbVars, walletVars, Delivery
<1>1. CASE Load(w)
  BY <1>1 DEF Load, Goto, Throw, EndJob
<1>2. CASE Claim(w)
  BY <1>2 DEF Claim, Claimable, Goto, EndJob, Sendable
<1>3. CASE NoCredentials(w)
  BY <1>3 DEF NoCredentials, Throw, Simulated
<1>4. CASE MetaAccepts(w)
  BY <1>4 DEF MetaAccepts, Throw
<1>5. CASE MetaRejects(w)
  BY <1>5 DEF MetaRejects, Throw
<1>6. CASE Record(w)
  BY <1>6 DEF Record, Goto
<1>7. CASE Finish(w)
  BY <1>7 DEF Finish, EndJob
<1>8. CASE Fail(w)
  BY <1>8 DEF Fail, RetryStatus, Goto
<1>9. CASE MarkFailedRead(w)
  BY <1>9 DEF MarkFailedRead, Goto
<1>10. CASE MarkFailedWrite(w)
  BY <1>10 DEF MarkFailedWrite, Goto
<1>11. CASE RefundRead(w)
  <2>1. cur[w] \in debits
    BY <1>11 DEF RefundRead, RowsFresh, CancelInv
  <2>2. Unpaid(cur[w])
    BY <1>11 DEF RefundRead
  <2>3. pc' = [pc EXCEPT ![w] = "refund_write"]
    BY <1>11, <2>1, <2>2, RefundRows DEF RefundRead, Goto
  <2>4. QED
    BY <1>11, <2>3 DEF RefundRead, Goto
<1>12. CASE RefundWrite(w)
  <2>1. /\ refunds' = refunds \cup {<<cur[w], w>>}
        /\ pc' = [pc EXCEPT ![w] = "rethrow"] /\ pc[w] = "refund_write"
        /\ UNCHANGED <<status, metaId, create, cancel, hook, cur, ans>>
    BY <1>12 DEF RefundWrite, WriteRefund, Goto
  <2>2. PICK m \in Messages : m = cur[w]
    OBVIOUS
  <2>3. Unpaid(m) /\ status[m] = "FAILED" /\ metaId[m] = 0 /\ cancel[m] = "none"
    BY <2>1, <2>2
  <2>4. PaidOnce(m)'
    BY <2>1, <2>2, <2>3 DEF Refunders
  <2>5. ~Refunding(m)'
    BY <2>1, <2>2, <2>3
  <2>6. ASSUME NEW n \in Messages, n # m PROVE MessageSettled(n)'
    BY <2>1, <2>2, <2>6
  <2>7. MessageSettled(m)'
    BY <2>1, <2>2, <2>3, <2>4, <2>5
  <2>8. QED
    BY <2>1, <2>2, <2>6, <2>7
<1>13. CASE Rethrow(w)
  BY <1>13 DEF Rethrow, EndJob
<1>14. QED
  BY <1>1, <1>2, <1>3, <1>4, <1>5, <1>6, <1>7, <1>8, <1>9, <1>10, <1>11, <1>12, <1>13
  DEF Handler

LEMMA SettleStep ==
    ASSUME TypeOK, CancelInv, SendInv, RowsFresh, SettleInv, [Next]_vars
    PROVE  SettleInv'
<1>1. env' = env
  BY DEF Next, vars, dbVars, CreateMessage, Request, Enqueue, CountUsage, Compensate, CancelClaim,
        Cancellation, CancelRemoveJob, CancelRefundRead, CancelRefundWrite, Dequeue, Handler,
        Load, Claim, NoCredentials, MetaAccepts, MetaRejects, Record, Finish, Fail, MarkFailedRead,
        MarkFailedWrite, RefundRead, RefundWrite, Rethrow, WebhookRead, WebhookWrite, Environment,
        RequestDies, CancelDies, LockLost, RetryDeadLetter, WorkerDies, DatabaseFault, WebhookDies
<1>2. ASSUME Undisturbed PROVE WorkInHand' /\ \A n \in Messages : MessageSettled(n)'
  BY <1>2, UndisturbedRequests, UndisturbedOthers, UndisturbedHandler DEF Next
<1>3. QED
  BY <1>1, <1>2 DEF SettleInv, Undisturbed

\* At rest, a message that failed or was canceled without ever being recorded
\* has one refund row, and no other message has any: whatever the order of
\* attempts, cancellations and reports.
THEOREM SettledOnce == Spec => []SettledExactlyOnce
<1>1. Init => SettleInv
  BY PipelineAssumption DEF Init, SettleInv, WorkInHand, MessageSettled, Refunding, Unpaid, NoHook
<1>2. TypeOK /\ CancelInv /\ SendInv /\ RowsFresh /\ SettleInv /\ [Next]_vars => SettleInv'
  BY SettleStep
<1>3. ASSUME TypeOK, SettleInv PROVE SettledExactlyOnce
  <2> SUFFICES ASSUME Undisturbed, NEW m \in Messages, AtRest(m)
               PROVE  Cardinality(RefundsOf(m)) =
                        IF status[m] \in {"FAILED", "CANCELED"} /\ metaId[m] = 0 THEN 1 ELSE 0
    BY DEF SettledExactlyOnce, Undisturbed
  <2>1. MessageSettled(m) /\ ~Refunding(m)
    BY <1>3 DEF SettleInv, Refunding, AtRest
  <2>2. CASE status[m] \in {"FAILED", "CANCELED"} /\ metaId[m] = 0
    <3>1. PICK payer \in Refunders : RefundsOf(m) = {<<m, payer>>}
      BY <1>3, <2>1, <2>2, RefundRows DEF MessageSettled, TypeOK
    <3>2. QED
      BY <2>2, <3>1, FS_Singleton
  <2>3. CASE ~(status[m] \in {"FAILED", "CANCELED"} /\ metaId[m] = 0)
    <3>1. RefundsOf(m) = {}
      BY <1>3, <2>1, <2>3, RefundRows DEF MessageSettled, TypeOK
    <3>2. QED
      BY <2>3, <3>1, FS_EmptySet
  <2>4. QED
    BY <2>2, <2>3
<1>4. QED
  BY <1>1, <1>2, <1>3, TypeCorrect, CancelInvHolds, SendInvHolds, RowsFreshInv, PTL DEF Spec

-----------------------------------------------------------------------------
\* A delivery status belongs to a recorded answer, and a report that is about
\* to be applied does not lead back, unless it reports a failure.
ReportInv ==
    /\ \A m \in Messages : status[m] \in Delivery => metaId[m] # 0
    /\ hook.m # NoMessage => metaId[hook.m] # 0
    /\ \A w \in Workers : pc[w] = "record" => ans[w] # 0
    /\ LocksOrStatementsHold =>
         (hook.apply /\ hook.next # "FAILED" /\ hook.m # NoMessage /\ status[hook.m] \in Delivery
            => Rank[hook.next] >= Rank[status[hook.m]])

LEMMA RankIsNumber == \A s \in Statuses : Rank[s] \in Int
BY DEF Rank, Statuses, Sendable, Delivery

\* What a status may become, as DeliveryMonotone has it.
Forward == \A m \in Messages : status[m] \in Delivery =>
    status'[m] = "FAILED" \/ (status'[m] \in Delivery /\ Rank[status'[m]] >= Rank[status[m]])

LEMMA ReportStep ==
    ASSUME TypeOK, CancelInv, RecordedInv, ReportInv, [Next]_vars
    PROVE  ReportInv' /\ (LocksOrStatementsHold => Forward)
<1> USE PipelineAssumption, RankIsNumber
    DEF TypeOK, DatabaseOK, RequestsOK, WorkersOK, HookOK, ReportInv, Forward, Statuses, Sendable, Delivery,
        dbVars, workerVars
<1>1. ASSUME NEW m \in Messages, CreateMessage(m) \/ Request(m) \/ CancelClaim(m) \/ Cancellation(m)
                                   \/ RequestDies(m) \/ CancelDies(m)
      PROVE  ReportInv' /\ Forward
  <2>1. /\ UNCHANGED <<env, metaId, pc, ans, hook>>
        /\ \/ status' = status
           \/ status' = [status EXCEPT ![m] = "FAILED"]
           \/ status' = [status EXCEPT ![m] = "QUEUED"] /\ status[m] = "NONE"
           \/ status' = [status EXCEPT ![m] = "CANCELED"] /\ status[m] = "QUEUED"
    BY <1>1 DEF CreateMessage, Affordable, Request, Enqueue, CountUsage, Compensate, CancelClaim,
       Cancelable, Cancellation, CancelRemoveJob, CancelRefundRead, CancelRefundWrite, RequestDies,
       CancelDies, CancelInv
  <2>2. Forward
    BY <2>1
  <2>3. ReportInv'
    BY <2>1 DEF LocksOrStatementsHold
  <2>4. QED
    BY <2>2, <2>3
<1>2. ASSUME NEW w \in Workers, NEW m \in Messages, Dequeue(w, m)
      PROVE  ReportInv' /\ Forward
  BY <1>2 DEF Dequeue, LocksOrStatementsHold
<1>3. ASSUME NEW m \in Messages, LockLost(m) \/ RetryDeadLetter(m)
      PROVE  ReportInv' /\ Forward
  BY <1>3 DEF LockLost, RetryDeadLetter, LocksOrStatementsHold
<1>4. ASSUME NEW w \in Workers, WorkerDies(w) \/ DatabaseFault(w)
      PROVE  ReportInv' /\ Forward
  BY <1>4 DEF WorkerDies, DatabaseFault, Throw, LocksOrStatementsHold
<1>5. ASSUME NEW w \in Workers, Handler(w)
      PROVE  ReportInv' /\ (LocksOrStatementsHold => Forward)
  <2>0. pc[w] # "idle" => cur[w] \in Messages
    BY BusyWorker
  <2>1. CASE Claim(w)
    BY <2>0, <2>1 DEF Claim, Claimable, Goto, EndJob, LocksOrStatementsHold
  <2>2. CASE Record(w)
    <3>1. /\ pc[w] = "record" /\ cur[w] \in Messages /\ ans[w] # 0
          /\ status' = [status EXCEPT ![cur[w]] = "SENT"]
          /\ metaId' = [metaId EXCEPT ![cur[w]] = ans[w]]
          /\ pc' = [pc EXCEPT ![w] = "finish"] /\ UNCHANGED <<env, ans, hook>>
      BY <2>0, <2>2 DEF Record, Goto
    <3>2. LocksOrStatementsHold => metaId[cur[w]] = 0
      BY <3>1 DEF RecordedInv, Sending
    <3>3. LocksOrStatementsHold => status[cur[w]] \notin Delivery /\ hook.m # cur[w]
      BY <3>1, <3>2
    <3>4. LocksOrStatementsHold => Forward
      BY <3>1, <3>3
    <3>5. ReportInv'
      BY <3>1, <3>3 DEF LocksOrStatementsHold
    <3>6. QED
      BY <3>4, <3>5
  <2>3. CASE NoCredentials(w) \/ MetaAccepts(w) \/ MetaRejects(w)
    BY <2>0, <2>3 DEF NoCredentials, MetaAccepts, MetaRejects, Throw, Simulated, LocksOrStatementsHold
  <2>4. CASE Load(w) \/ Finish(w) \/ Rethrow(w)
    BY <2>0, <2>4 DEF Load, Finish, Rethrow, Goto, Throw, EndJob, LocksOrStatementsHold
  <2>5. CASE Fail(w) \/ MarkFailedRead(w) \/ MarkFailedWrite(w) \/ RefundRead(w) \/ RefundWrite(w)
    BY <2>0, <2>5 DEF Fail, RetryStatus, MarkFailedRead, MarkFailedWrite, RefundRead, RefundWrite, Goto,
       LocksOrStatementsHold
  <2>6. QED
    BY <1>5, <2>1, <2>2, <2>3, <2>4, <2>5 DEF Handler
<1>6. ASSUME NEW m \in Messages, NEW next \in Delivery \cup {"FAILED"}, WebhookRead(m, next)
      PROVE  ReportInv' /\ Forward
  BY <1>6 DEF WebhookRead, ShouldApply, LocksOrStatementsHold
<1>7. CASE WebhookWrite
  <2>1. LocksOrStatementsHold => Forward
    BY <1>7 DEF WebhookWrite
  <2>2. ReportInv'
    BY <1>7 DEF WebhookWrite, NoHook
  <2>3. QED
    BY <2>1, <2>2
<1>8. CASE WebhookDies
  BY <1>8 DEF WebhookDies, NoHook
<1>9. CASE UNCHANGED vars
  BY <1>9 DEF vars, LocksOrStatementsHold
<1>10. QED
  BY <1>1, <1>2, <1>3, <1>4, <1>5, <1>6, <1>7, <1>8, <1>9 DEF Next, Environment

\* Reports come in any order and any number, and are applied after a pause;
\* still a delivery status only moves forward, or to FAILED.
THEOREM ReportsMoveForward == Spec => DeliveryMonotone
<1>1. Init => RecordedInv /\ ReportInv
  BY DEF Init, RecordedInv, ReportInv, NoHook, Delivery
<1>2. TypeOK /\ CancelInv /\ ExclusiveSender /\ RecordedInv /\ [Next]_vars => RecordedInv'
  BY RecordedInvStep
<1>3. TypeOK /\ CancelInv /\ RecordedInv /\ ReportInv /\ [Next]_vars => ReportInv'
  BY ReportStep
<1>4. TypeOK /\ CancelInv /\ RecordedInv /\ ReportInv /\ [Next]_vars =>
        [LocksOrStatementsHold => \A m \in Messages : status[m] \in Delivery =>
            status'[m] = "FAILED" \/ (status'[m] \in Delivery /\ Rank[status'[m]] >= Rank[status[m]])]_vars
  BY ReportStep DEF Forward
<1>5. QED
  BY <1>1, <1>2, <1>3, <1>4, ClaimIsExclusive, TypeCorrect, CancelInvHolds, PTL
  DEF Spec, DeliveryMonotone
===============================================================================
