--------------------------- MODULE BulkBatchProofs ---------------------------
(***************************************************************************)
(* A batch of any size, canceled by any number of requests, under any      *)
(* faults: a canceled batch is not sent, a message of it is refunded once, *)
(* the wallet moves as WalletLedger allows, and the counters that workers  *)
(* and webhooks maintain count each failure once.  And an import of any    *)
(* size: it stops when it is canceled, and leaves nothing undone.          *)
(***************************************************************************)
EXTENDS MCBulkBatch, FoldLemmas, FunctionTheorems

\* The types, with what they rest on: a worker is busy with an active job, a
\* job that may still run has an attempt left, and a webhook under way is about
\* a message and has a status to write.
JobsInv ==
    \A m \in Messages :
        /\ pc[m] # "idle" => job[m] = "active"
        /\ job[m] \in {"waiting", "active"} => attempts[m] < MaxAttempts
        /\ request \in {"none", "enqueue"} => attempts[m] = 0 /\ job[m] = "none"
HookInv == hook.step # "none" => hook.m \in Messages /\ hook.next # "NONE"
TypeInv == TypeOK /\ JobsInv /\ HookInv

LEMMA RecipientStatuses ==
    Recipients = {"SCHEDULED", "QUEUED", "SENDING", "SENT", "DELIVERED", "READ", "FAILED",
                  "CANCELED"}
BY DEF Recipients, TrackRank

\* Requests keep the types.
LEMMA RequestTypes ==
    ASSUME TypeInv, Enqueue \/ CountUsage \/ Compensate \/ RequestDies
             \/ \E charged \in SUBSET Messages, initial \in {"QUEUED", "SCHEDULED"} :
                    CreateBatch(charged, initial)
    PROVE  TypeInv'
<1> USE BatchAssumption, RecipientStatuses
    DEF TypeInv, TypeOK, JobsInv, HookInv, batchVars, walletVars, jobVars, requestVars, workerVars
<1>1. ASSUME NEW S \in SUBSET Messages PROVE Cardinality(S) \in Nat /\ IsFiniteSet(S)
  BY FS_Subset, FS_CardinalityType
<1>2. ASSUME NEW charged \in SUBSET Messages, NEW initial \in {"QUEUED", "SCHEDULED"},
             CreateBatch(charged, initial)
      PROVE  TypeInv'
  <2>1. Cardinality(charged) \in Nat
    BY <1>1
  <2>2. QED
    BY <1>2, <2>1 DEF CreateBatch, BatchStatuses, RequestSteps, Statuses, Sendable
<1>3. CASE Enqueue
  BY <1>3 DEF Enqueue, JobStates, RequestSteps
<1>4. CASE CountUsage
  BY <1>4 DEF CountUsage, RequestSteps
<1>5. CASE Compensate
  <2>1. Cardinality(members) \in Nat
    BY <1>1
  <2>2. QED
    BY <1>5, <2>1 DEF Compensate, RefundBatch, Refunders, BatchStatuses, RequestSteps, Statuses
<1>6. CASE RequestDies
  BY <1>6 DEF RequestDies, RequestSteps
<1>7. QED
  BY <1>2, <1>3, <1>4, <1>5, <1>6

\* So do cancellations.
LEMMA CancelTypes ==
    ASSUME TypeInv, NEW c \in Cancels, Cancellation(c)
    PROVE  TypeInv'
<1> USE BatchAssumption, RecipientStatuses
    DEF TypeInv, TypeOK, JobsInv, HookInv, batchVars, walletVars, jobVars, requestVars, workerVars
<1>1. CASE CancelRead(c)
  BY <1>1 DEF CancelRead, CancelSteps
<1>2. CASE CancelClaim(c)
  BY <1>2 DEF CancelClaim, Cancelable, RefundBatch, Refunders, BatchStatuses, CancelSteps, Statuses
<1>3. CASE CancelRemoveJobs(c)
  BY <1>3 DEF CancelRemoveJobs, CancelSteps, JobStates
<1>4. CASE CancelDies(c)
  BY <1>4 DEF CancelDies, CancelSteps
<1>5. QED
  BY <1>1, <1>2, <1>3, <1>4 DEF Cancellation

\* So do the steps of a job.
LEMMA WorkerTypes ==
    ASSUME TypeInv, NEW m \in Messages, Worker(m)
    PROVE  TypeInv'
<1> USE BatchAssumption, RecipientStatuses
    DEF TypeInv, TypeOK, JobsInv, HookInv, batchVars, walletVars, jobVars, requestVars, workerVars,
        WorkerSteps, Errors
<1>1. CASE Dequeue(m)
  BY <1>1 DEF Dequeue, Goto, JobStates
<1>2. CASE Load(m)
  BY <1>2 DEF Load, Throw, Goto, EndJob, LeaveTracking, JobStates
<1>3. CASE Claim(m)
  BY <1>3 DEF Claim, TrackNext, EndJob, LeaveTracking, JobStates, BatchStatuses, Statuses
<1>4. CASE TrackRead(m)
  BY <1>4 DEF TrackRead, LeaveTracking, AfterTracking
<1>5. CASE TrackWrite(m)
  BY <1>5 DEF TrackWrite, WriteTracking, FailedBatchStatus, LeaveTracking, AfterTracking,
      BatchStatuses
<1>6. CASE Send(m)
  BY <1>6 DEF Send, Goto, Throw, LeaveTracking
<1>7. CASE Record(m)
  BY <1>7 DEF Record, TrackNext, Statuses, Delivery
<1>8. CASE Finish(m)
  BY <1>8 DEF Finish, EndJob, LeaveTracking, JobStates
<1>9. CASE Fail(m)
  BY <1>9 DEF Fail, Goto, RetryStatus, Statuses, Sendable
<1>10. CASE MarkFailedRead(m) \/ RefundFindsNoDebit(m)
  BY <1>10 DEF MarkFailedRead, RefundFindsNoDebit, Goto
<1>11. CASE MarkFailedWrite(m)
  BY <1>11 DEF MarkFailedWrite, TrackNext, Statuses
<1>12. CASE Rethrow(m)
  BY <1>12 DEF Rethrow, EndJob, LeaveTracking, JobStates, FinalAttempt
<1>13. CASE DatabaseFault(m)
  BY <1>13 DEF DatabaseFault, Throw, LeaveTracking
<1>14. CASE WorkerDies(m)
  BY <1>14 DEF WorkerDies, EndJob, LeaveTracking, JobStates
<1>15. QED
  BY <1>1, <1>2, <1>3, <1>4, <1>5, <1>6, <1>7, <1>8, <1>9, <1>10, <1>11, <1>12, <1>13, <1>14
  DEF Worker

\* So do the webhooks.
LEMMA WebhookTypes ==
    ASSUME TypeInv, Webhook
    PROVE  TypeInv'
<1> USE BatchAssumption, RecipientStatuses
    DEF TypeInv, TypeOK, JobsInv, HookInv, batchVars, walletVars, jobVars, requestVars, workerVars
<1>1. ASSUME NEW m \in Messages, NEW next \in Reports, WebhookRead(m, next) PROVE TypeInv'
  <2>1. ShouldApply(status[m], next) \in BOOLEAN
    BY DEF ShouldApply
  <2>2. QED
    BY <1>1, <2>1 DEF WebhookRead, NoHook, Delivery
<1>2. CASE WebhookWrite
  <2>1. hook' \in {NoHook, [hook EXCEPT !.step = "track_read"]} /\ HookInv'
    BY <1>2 DEF WebhookWrite, NoHook
  <2>2. status' \in [Messages -> Statuses]
    BY <1>2 DEF WebhookWrite, Statuses, Delivery
  <2>3. hook' \in [m : Messages \cup {NoMessage}, next : {"NONE", "FAILED"} \cup Delivery,
                   apply : BOOLEAN, step : {"none", "write", "track_read", "track_write"},
                   seen : Recipients]
    <3>1. CASE hook' = NoHook
      BY <3>1 DEF NoHook
    <3>2. CASE hook' = [hook EXCEPT !.step = "track_read"]
      BY <3>2
    <3>3. QED
      BY <2>1, <3>1, <3>2
  <2>4. QED
    BY <1>2, <2>1, <2>2, <2>3 DEF WebhookWrite
<1>3. CASE WebhookTrackRead
  BY <1>3 DEF WebhookTrackRead, NoHook
<1>4. CASE WebhookTrackWrite
  BY <1>4 DEF WebhookTrackWrite, WriteTracking, FailedBatchStatus, BatchStatuses, NoHook, Delivery
<1>5. CASE WebhookDies
  BY <1>5 DEF WebhookDies, NoHook
<1>6. QED
  BY <1>1, <1>2, <1>3, <1>4, <1>5 DEF Webhook

LEMMA TypeInvHolds == Spec => []TypeInv
<1>1. Init => TypeInv
  BY BatchAssumption, RecipientStatuses
  DEF Init, TypeInv, TypeOK, JobsInv, HookInv, NoHook, BatchStatuses, Statuses, RequestSteps,
      CancelSteps, JobStates, WorkerSteps, Errors
<1>2. TypeInv /\ [Next]_vars => TypeInv'
  <2> SUFFICES ASSUME TypeInv, [Next]_vars PROVE TypeInv'
    OBVIOUS
  <2>1. CASE UNCHANGED vars
    BY <2>1 DEF vars, TypeInv, TypeOK, JobsInv, HookInv, batchVars, walletVars, jobVars,
        requestVars, workerVars
  <2>2. QED
    BY <2>1, RequestTypes, CancelTypes, WorkerTypes, WebhookTypes DEF Next
<1>3. QED
  BY <1>1, <1>2, PTL DEF Spec

\* A batch of any size is of its types.
THEOREM BatchTypeCorrect == Spec => []TypeOK
<1>1. TypeInv => TypeOK
  BY DEF TypeInv
<1>2. QED
  BY <1>1, TypeInvHolds, PTL

-----------------------------------------------------------------------------
\* A job that has not been handed to Meta and will not be before its next claim.
Unsent(m) ==
    \/ pc[m] \in {"idle", "load", "claim", "fail", "mark_read", "mark_write", "refund", "rethrow"}
    \/ pc[m] \in {"track_read", "track_write"} /\ goal[m] = "FAILED"
NothingSent ==
    /\ accepted = {} /\ recorded = {} /\ hook = NoHook
    /\ \A m \in Messages : Unsent(m)

\* A batch is SCHEDULED until its first claim, so a cancellation that finds it
\* so finds no message sent; and it leaves none that could be claimed.
ClosedInv ==
    /\ request = "none" =>
        /\ batch = "NONE" /\ members = {} /\ NothingSent
        /\ \A m \in Messages : status[m] = "NONE"
        /\ \A c \in Cancels : cancel[c] = "none"
    /\ batch = "SCHEDULED" =>
        NothingSent /\ \A m \in Messages : status[m] \in {"NONE", "QUEUED", "FAILED"}
    /\ Canceled =>
        NothingSent /\ \A m \in Messages : status[m] \in {"NONE", "CANCELED", "FAILED"}
    /\ \A m \in Messages : status[m] = "QUEUED" => m \in members

LEMMA RequestCloses ==
    ASSUME TypeInv, ClosedInv, Enqueue \/ CountUsage \/ Compensate \/ RequestDies
             \/ \E charged \in SUBSET Messages, initial \in {"QUEUED", "SCHEDULED"} :
                    CreateBatch(charged, initial)
    PROVE  ClosedInv'
<1> USE DEF TypeInv, TypeOK, ClosedInv, NothingSent, Unsent, Canceled, batchVars, walletVars,
    jobVars, requestVars, workerVars
<1>1. ASSUME NEW charged \in SUBSET Messages, NEW initial \in {"QUEUED", "SCHEDULED"},
             CreateBatch(charged, initial)
      PROVE  ClosedInv'
  BY <1>1 DEF CreateBatch
<1>2. CASE Enqueue \/ CountUsage \/ RequestDies
  BY <1>2 DEF Enqueue, CountUsage, RequestDies
<1>3. CASE Compensate
  BY <1>3 DEF Compensate
<1>4. QED
  BY <1>1, <1>2, <1>3

LEMMA CancelCloses ==
    ASSUME TypeInv, ClosedInv, NEW c \in Cancels, Cancellation(c)
    PROVE  ClosedInv'
<1> USE DEF TypeInv, TypeOK, ClosedInv, NothingSent, Unsent, Canceled, batchVars, walletVars,
    jobVars, requestVars, workerVars
<1>1. CASE CancelRead(c)
  <2>1. Canceled' => Canceled
    BY <1>1 DEF CancelRead
  <2>2. QED
    BY <1>1, <2>1 DEF CancelRead
<1>2. CASE CancelClaim(c)
  BY <1>2 DEF CancelClaim, Cancelable
<1>3. CASE CancelRemoveJobs(c)
  BY <1>3 DEF CancelRemoveJobs
<1>4. CASE CancelDies(c)
  BY <1>4 DEF CancelDies
<1>5. QED
  BY <1>1, <1>2, <1>3, <1>4 DEF Cancellation

\* What the steps of a job leave alone, whatever they do: a job runs only after
\* its batch was created, and no step opens the batch for cancellation again.
LEMMA WorkerFrame ==
    ASSUME TypeInv, NEW m \in Messages, Worker(m)
    PROVE  /\ pc[m] # "idle" \/ job[m] = "waiting"
           /\ UNCHANGED <<request, cancel, members, hook, walletVars>>
           /\ \A n \in Messages \ {m} :
                pc'[n] = pc[n] /\ goal'[n] = goal[n] /\ status'[n] = status[n]
           /\ status'[m] = "QUEUED" => status[m] = "QUEUED"
           /\ batch' = "SCHEDULED" => batch = "SCHEDULED" /\ ~Claim(m)
<1> USE DEF TypeInv, TypeOK, batchVars, walletVars, jobVars, requestVars, workerVars, Goto, Throw,
    EndJob, LeaveTracking, TrackNext
<1>1. CASE Dequeue(m) \/ Load(m) \/ Finish(m) \/ Rethrow(m) \/ WorkerDies(m)
  BY <1>1 DEF Dequeue, Load, Finish, Rethrow, WorkerDies, Claim
<1>2. CASE Claim(m)
  BY <1>2 DEF Claim
<1>3. CASE TrackRead(m) \/ Send(m) \/ Record(m)
  BY <1>3 DEF TrackRead, Send, Record, Claim
<1>4. CASE TrackWrite(m)
  BY <1>4 DEF TrackWrite, WriteTracking, FailedBatchStatus, Claim
<1>5. CASE Fail(m) \/ MarkFailedRead(m) \/ MarkFailedWrite(m) \/ RefundFindsNoDebit(m)
  BY <1>5 DEF Fail, RetryStatus, MarkFailedRead, MarkFailedWrite, RefundFindsNoDebit, Claim
<1>6. CASE DatabaseFault(m)
  <2>1. ~Claim(m) \/ batch # "SCHEDULED" \/ batch' = batch
    BY <1>6 DEF DatabaseFault
  <2>2. QED
    BY <1>6, <2>1 DEF DatabaseFault, Claim
<1>7. QED
  BY <1>1, <1>2, <1>3, <1>4, <1>5, <1>6 DEF Worker

\* Without a claim, a job that has not been sent stays so.
LEMMA UnsentStays ==
    ASSUME TypeInv, NEW m \in Messages, Worker(m), Unsent(m),
           status[m] # "SENDING", Claim(m) => ~Claimable(m)
    PROVE  /\ Unsent(m)' /\ UNCHANGED <<accepted, recorded>>
           /\ status'[m] \in {status[m], "FAILED"}
<1> USE DEF TypeInv, TypeOK, batchVars, walletVars, jobVars, requestVars, workerVars, Unsent, Goto,
    Throw, EndJob, LeaveTracking, TrackNext
<1>1. CASE Dequeue(m) \/ Load(m) \/ Finish(m) \/ Rethrow(m) \/ WorkerDies(m)
  BY <1>1 DEF Dequeue, Load, Finish, Rethrow, WorkerDies
<1>2. CASE Claim(m)
  BY <1>2 DEF Claim
<1>3. CASE TrackRead(m) \/ Send(m) \/ Record(m)
  BY <1>3 DEF TrackRead, Send, Record, AfterTracking
<1>4. CASE TrackWrite(m)
  BY <1>4 DEF TrackWrite, AfterTracking
<1>5. CASE Fail(m) \/ MarkFailedRead(m) \/ MarkFailedWrite(m) \/ RefundFindsNoDebit(m)
  BY <1>5 DEF Fail, RetryStatus, MarkFailedRead, MarkFailedWrite, RefundFindsNoDebit
<1>6. CASE DatabaseFault(m)
  BY <1>6 DEF DatabaseFault
<1>7. QED
  BY <1>1, <1>2, <1>3, <1>4, <1>5, <1>6 DEF Worker

\* So a worker sends nothing of a batch that is scheduled or canceled.
LEMMA WorkerCloses ==
    ASSUME TypeInv, ClosedInv, NEW m \in Messages, Worker(m)
    PROVE  ClosedInv'
<1> USE WorkerFrame
<1>1. request # "none"
  BY DEF TypeInv, JobsInv
<1>2. Canceled' <=> Canceled
  BY DEF Canceled
<1>3. ASSUME batch' = "SCHEDULED" \/ Canceled
      PROVE  NothingSent' /\ status'[m] \in {status[m], "FAILED"}
  <2>1. Claim(m) => ~Claimable(m)
    BY <1>3 DEF ClosedInv, Claimable, Sendable
  <2>2. NothingSent /\ Unsent(m) /\ status[m] # "SENDING"
    BY <1>3 DEF ClosedInv, NothingSent
  <2>3. Unsent(m)' /\ UNCHANGED <<accepted, recorded>> /\ status'[m] \in {status[m], "FAILED"}
    BY <2>1, <2>2, UnsentStays
  <2>4. \A n \in Messages \ {m} : Unsent(n)'
    BY <2>2 DEF NothingSent, Unsent
  <2>5. QED
    BY <2>2, <2>3, <2>4 DEF NothingSent
<1>4. QED
  BY <1>1, <1>2, <1>3 DEF ClosedInv

LEMMA WebhookCloses ==
    ASSUME TypeInv, ClosedInv, Webhook
    PROVE  ClosedInv'
<1> DEFINE Quiet == recorded = {} /\ hook = NoHook
<1>1. ASSUME Quiet PROVE FALSE
  BY <1>1 DEF Webhook, WebhookRead, WebhookWrite, WebhookTrackRead, WebhookTrackWrite, WebhookDies,
      NoHook
<1>2. request # "none" /\ batch # "SCHEDULED" /\ ~Canceled
  BY <1>1 DEF ClosedInv, NothingSent
<1>3. UNCHANGED <<request, cancel, members>> /\ batch' # "SCHEDULED"
  BY <1>2 DEF Webhook, WebhookRead, WebhookWrite, WebhookTrackRead, WebhookTrackWrite, WebhookDies,
      WriteTracking, FailedBatchStatus, batchVars, requestVars
<1>4. ASSUME NEW m \in Messages, status'[m] = "QUEUED" PROVE status[m] = "QUEUED"
  <2>1. CASE WebhookWrite
    BY <1>4, <2>1 DEF WebhookWrite, TypeInv, TypeOK, HookInv, Delivery
  <2>2. CASE ~WebhookWrite
    BY <1>4, <2>2 DEF Webhook, WebhookRead, WebhookTrackRead, WebhookTrackWrite, WebhookDies
  <2>3. QED
    BY <2>1, <2>2
<1>5. QED
  BY <1>2, <1>3, <1>4 DEF ClosedInv, Canceled

LEMMA ClosedInvHolds == Spec => []ClosedInv
<1>1. Init => ClosedInv
  BY DEF Init, ClosedInv, NothingSent, Unsent, Canceled
<1>2. TypeInv /\ ClosedInv /\ [Next]_vars => ClosedInv'
  <2> SUFFICES ASSUME TypeInv, ClosedInv, [Next]_vars PROVE ClosedInv'
    OBVIOUS
  <2>1. CASE UNCHANGED vars
    BY <2>1 DEF vars, ClosedInv, NothingSent, Unsent, Canceled, batchVars, walletVars, jobVars,
        requestVars, workerVars
  <2>2. QED
    BY <2>1, RequestCloses, CancelCloses, WorkerCloses, WebhookCloses DEF Next
<1>3. QED
  BY <1>1, <1>2, TypeInvHolds, PTL DEF Spec

\* Once a batch has been canceled none of its messages is handed to Meta, in
\* whatever state the cancellation finds its jobs.
THEOREM BatchCancellationHolds == Spec => []CanceledBatchNeverSent
<1>1. ClosedInv => CanceledBatchNeverSent
  BY DEF ClosedInv, NothingSent, CanceledBatchNeverSent
<1>2. QED
  BY <1>1, ClosedInvHolds, PTL

-----------------------------------------------------------------------------
\* One cancellation gets through, each handler's refund rows are there once it
\* has paid, and whoever is about to pay has computed what was charged.
Won(c) == cancel[c] \in {"remove", "done"}
RowsInv ==
    /\ members = debits
    /\ request # "none" => members # {}
    /\ request = "compensated" => batch # "SCHEDULED"
    /\ queuedCount = Cardinality(members) \/ request = "compensated"
    /\ \A c \in Cancels : cancel[c] = "claim" => due[c] = Price * Cardinality(members)
    /\ Canceled => batch # "SCHEDULED"
    /\ \A c, d \in Cancels : Won(c) /\ Won(d) => c = d
    /\ \A entry \in refunds :
        /\ entry[1] \in members
        /\ entry[2] = "request" => request = "compensated"
        /\ entry[2] \in Cancels => Won(entry[2])

LEMMA RequestRows ==
    ASSUME TypeInv, ClosedInv, RowsInv, Enqueue \/ CountUsage \/ Compensate \/ RequestDies
             \/ \E charged \in SUBSET Messages, initial \in {"QUEUED", "SCHEDULED"} :
                    CreateBatch(charged, initial)
    PROVE  RowsInv'
<1> USE DEF TypeInv, TypeOK, RowsInv, batchVars, walletVars, jobVars, requestVars, workerVars
<1>1. ASSUME NEW charged \in SUBSET Messages, NEW initial \in {"QUEUED", "SCHEDULED"},
             CreateBatch(charged, initial)
      PROVE  RowsInv'
  <2>1. /\ members = {} /\ refunds = {} /\ charged # {}
        /\ \A c \in Cancels : cancel[c] = "none" /\ cancel' = cancel
    BY <1>1 DEF CreateBatch, ClosedInv
  <2>2. QED
    BY <1>1, <2>1 DEF CreateBatch, Canceled, Won
<1>2. CASE Enqueue \/ CountUsage \/ RequestDies
  BY <1>2 DEF Enqueue, CountUsage, RequestDies, Canceled, Won
<1>3. CASE Compensate
  <2>1. \A entry \in refunds' : entry \in refunds \/ (entry[1] \in members /\ entry[2] = "request")
    BY <1>3 DEF Compensate, RefundBatch
  <2>2. "request" \notin Cancels
    BY BatchAssumption
  <2>3. QED
    BY <1>3, <2>1, <2>2 DEF Compensate, RefundBatch, Canceled, Won
<1>4. QED
  BY <1>1, <1>2, <1>3

LEMMA CancelRows ==
    ASSUME TypeInv, ClosedInv, RowsInv, NEW c \in Cancels, Cancellation(c)
    PROVE  RowsInv'
<1> USE DEF TypeInv, TypeOK, RowsInv, batchVars, walletVars, jobVars, requestVars, workerVars
<1>1. CASE CancelRead(c)
  <2>1. queuedCount = Cardinality(members)
    BY <1>1 DEF CancelRead
  <2>2. queuedCount * Price = Price * Cardinality(members)
    BY <2>1, BatchAssumption
  <2>3. due'[c] = Price * Cardinality(members) /\ cancel'[c] = "claim"
    BY <1>1, <2>2 DEF CancelRead
  <2>4. \A d \in Cancels \ {c} : due'[d] = due[d] /\ cancel'[d] = cancel[d]
    BY <1>1 DEF CancelRead
  <2>5. \A d \in Cancels : Won(d)' <=> Won(d)
    BY <1>1, <2>3, <2>4 DEF CancelRead, Won
  <2>6. Canceled' <=> Canceled
    BY <2>5 DEF Canceled, Won
  <2>7. QED
    BY <1>1, <2>3, <2>4, <2>5, <2>6 DEF CancelRead
<1>2. CASE CancelClaim(c)
  <2>1. CASE Cancelable
    <3>1. \A d \in Cancels : ~Won(d) /\ (Won(d)' <=> d = c)
      BY <1>2, <2>1 DEF CancelClaim, Cancelable, Won, Canceled
    <3>2. \A entry \in refunds' : entry \in refunds \/ (entry[1] \in members /\ entry[2] = c)
      BY <1>2, <2>1 DEF CancelClaim, RefundBatch
    <3>3. c # "request" /\ batch' = "CANCELED" /\ request # "compensated"
      BY <1>2, <2>1, BatchAssumption DEF CancelClaim, Cancelable
    <3>4. UNCHANGED <<members, debits, request, queuedCount>>
      BY <1>2, <2>1 DEF CancelClaim, RefundBatch
    <3>5. \A d \in Cancels : cancel'[d] = "claim" => cancel[d] = "claim" /\ due'[d] = due[d]
      BY <1>2, <2>1 DEF CancelClaim
    <3>6. QED
      BY <3>1, <3>2, <3>3, <3>4, <3>5
  <2>2. CASE ~Cancelable
    BY <1>2, <2>2 DEF CancelClaim, Won, Canceled
  <2>3. QED
    BY <2>1, <2>2
<1>3. CASE CancelRemoveJobs(c) \/ CancelDies(c)
  BY <1>3 DEF CancelRemoveJobs, CancelDies, Won, Canceled
<1>4. QED
  BY <1>1, <1>2, <1>3 DEF Cancellation

\* Nobody else writes rows, or opens the batch.
LEMMA OtherRows ==
    ASSUME TypeInv, RowsInv,
           UNCHANGED <<members, request, cancel, due, queuedCount, walletVars>>,
           batch' = "SCHEDULED" => batch = "SCHEDULED"
    PROVE  RowsInv'
BY DEF RowsInv, Canceled, Won, walletVars

LEMMA WorkerRows ==
    ASSUME TypeInv, RowsInv, (\E m \in Messages : Worker(m)) \/ Webhook
    PROVE  RowsInv'
<1>1. ASSUME NEW m \in Messages, Worker(m) PROVE UNCHANGED <<due, queuedCount>>
  BY <1>1 DEF Worker, Dequeue, Load, Claim, TrackRead, TrackWrite, WriteTracking, Send, Record,
      Finish, Fail, MarkFailedRead, MarkFailedWrite, RefundFindsNoDebit, Rethrow, DatabaseFault,
      WorkerDies, batchVars, requestVars
<1>2. ASSUME Webhook
      PROVE  /\ UNCHANGED <<members, request, cancel, due, queuedCount, walletVars>>
             /\ batch' = "SCHEDULED" => batch = "SCHEDULED"
  BY <1>2 DEF Webhook, WebhookRead, WebhookWrite, WebhookTrackRead, WebhookTrackWrite, WebhookDies,
      WriteTracking, FailedBatchStatus, batchVars, requestVars
<1>3. QED
  BY <1>1, <1>2, WorkerFrame, OtherRows

LEMMA RowsInvHolds == Spec => []RowsInv
<1>1. Init => RowsInv
  BY FS_EmptySet DEF Init, RowsInv, Canceled, Won
<1>2. TypeInv /\ ClosedInv /\ RowsInv /\ [Next]_vars => RowsInv'
  <2> SUFFICES ASSUME TypeInv, ClosedInv, RowsInv, [Next]_vars PROVE RowsInv'
    OBVIOUS
  <2>1. CASE UNCHANGED vars
    BY <2>1, OtherRows DEF vars, batchVars, requestVars
  <2>2. QED
    BY <2>1, RequestRows, CancelRows, WorkerRows DEF Next
<1>3. QED
  BY <1>1, <1>2, TypeInvHolds, ClosedInvHolds, PTL DEF Spec

\* A set with more than one element has two.
LEMMA TwoElements ==
    ASSUME NEW S, NEW x \in S, \A y \in S : y = x
    PROVE  ~(Cardinality(S) > 1)
<1>1. S = {x}
  OBVIOUS
<1>2. Cardinality(S) = 1
  BY <1>1, FS_Singleton
<1>3. QED
  BY <1>2

\* A message of a batch is paid back twice only if the creating request
\* compensates a batch that was canceled: rivals among the cancellations, of
\* any number, pay it back once.
THEOREM BatchRefundedOnce == Spec => []RefundedOnce
<1>1. TypeInv /\ RowsInv => RefundedOnce
  <2> SUFFICES ASSUME TypeInv, RowsInv, NEW m \in Messages,
                      Cardinality({entry \in refunds : entry[1] = m}) > 1
               PROVE  request = "compensated" /\ Canceled
    BY DEF RefundedOnce
  <2> DEFINE Entries == {entry \in refunds : entry[1] = m}
  <2>1. PICK x \in Entries, y \in Entries : x # y
    <3>1. CASE Entries = {}
      BY <3>1, FS_EmptySet
    <3>2. CASE Entries # {}
      BY <3>2, TwoElements
    <3>3. QED
      BY <3>1, <3>2
  <2>2. /\ x = <<m, x[2]>> /\ y = <<m, y[2]>>
        /\ x[2] \in Refunders /\ y[2] \in Refunders
    BY DEF TypeInv, TypeOK
  <2>3. x[2] # y[2]
    BY <2>1, <2>2
  <2>4. x[2] \in Cancels /\ y[2] \in Cancels => FALSE
    BY <2>3 DEF RowsInv
  <2>5. QED
    BY <2>2, <2>3, <2>4 DEF RowsInv, Refunders, Won, Canceled
<1>2. QED
  BY <1>1, TypeInvHolds, RowsInvHolds, PTL

-----------------------------------------------------------------------------
\* The instance counts as this module does.
LEMMA SameCount == \A S : Ledger!Cardinality(S) = Cardinality(S)
BY Zenon DEF Ledger!Cardinality, Cardinality

\* Refund rows of the whole batch are worth the messages charged.
LEMMA RefundMaps ==
    ASSUME TypeInv, RowsInv, NEW who \in Refunders, members # {},
           \A m \in Messages : <<m, who>> \notin refunds,
           RefundBatch(Price * Cardinality(members), who)
    PROVE  Ledger!Next
<1>1. Cardinality(members \X {who}) = Cardinality(members)
  <2> DEFINE f == [m \in members |-> <<m, who>>]
  <2>1. IsFiniteSet(members)
    BY BatchAssumption, FS_Subset DEF TypeInv, TypeOK
  <2>2. f \in Bijection(members, members \X {who})
    <3>1. f \in [members -> members \X {who}]
      OBVIOUS
    <3>2. \A m, n \in members : f[m] = f[n] => m = n
      OBVIOUS
    <3>3. \A entry \in members \X {who} : \E m \in members : f[m] = entry
      OBVIOUS
    <3>4. QED
      BY <3>1, <3>2, <3>3, Fun_IsBij
  <2>3. QED
    BY <2>1, <2>2, FS_Bijection DEF ExistsBijection
<1>2. members \in (SUBSET {i \in Messages : <<i, who>> \notin refunds}) \ {{}}
  BY DEF TypeInv, TypeOK
<1>3. Ledger!Refund(members, who)
  BY <1>1, SameCount DEF RowsInv, RefundBatch, Ledger!Refund, Ledger!Refundable
<1>4. QED
  BY <1>2, <1>3 DEF Ledger!Next

\* Every step of the batch is a step of the ledger or leaves it alone.
LEMMA StepMaps ==
    ASSUME TypeInv, ClosedInv, RowsInv, [Next]_vars
    PROVE  [Ledger!Next]_(Ledger!vars)
<1> DEFINE Still == UNCHANGED walletVars
<1>1. Still => UNCHANGED Ledger!vars
  BY DEF Ledger!vars, walletVars
<1>2. ASSUME NEW charged \in SUBSET Messages, NEW initial \in {"QUEUED", "SCHEDULED"},
             CreateBatch(charged, initial)
      PROVE  Ledger!Next
  <2>1. debits = {} /\ charged # {}
    BY <1>2 DEF CreateBatch, ClosedInv, RowsInv
  <2>2. Ledger!Charge(charged)
    BY <1>2, <2>1, SameCount DEF CreateBatch, Affordable, Ledger!Charge, Ledger!Covered, Ledger!Cost
  <2>3. QED
    BY <2>1, <2>2 DEF Ledger!Next
<1>3. CASE Compensate
  <2>1. members # {} /\ \A m \in Messages : <<m, "request">> \notin refunds
    BY <1>3 DEF Compensate, RowsInv
  <2>2. Ledger!Next
    BY <1>3, <2>1, RefundMaps DEF Compensate, Refunders
  <2>3. QED
    BY <2>2
<1>4. ASSUME NEW c \in Cancels, Cancellation(c) PROVE Ledger!Next \/ Still
  <2>1. CASE CancelClaim(c) /\ Cancelable
    <3>1. \A m \in Messages : <<m, c>> \notin refunds
      BY <2>1 DEF CancelClaim, RowsInv, Won
    <3>2. members # {} /\ due[c] = Price * Cardinality(members)
      BY <2>1 DEF CancelClaim, Cancelable, RowsInv, ClosedInv
    <3>3. QED
      BY <2>1, <3>1, <3>2, RefundMaps DEF CancelClaim, Refunders
  <2>2. CASE ~(CancelClaim(c) /\ Cancelable)
    BY <1>4, <2>2 DEF Cancellation, CancelRead, CancelClaim, CancelRemoveJobs, CancelDies, walletVars
  <2>3. QED
    BY <2>1, <2>2
<1>5. Enqueue \/ CountUsage \/ RequestDies \/ Webhook \/ UNCHANGED vars => Still
  BY DEF Enqueue, CountUsage, RequestDies, Webhook, WebhookRead, WebhookWrite, WebhookTrackRead,
      WebhookTrackWrite, WebhookDies, vars
<1>6. ASSUME NEW m \in Messages, Worker(m) PROVE Still
  BY <1>6, WorkerFrame
<1> HIDE DEF Still
<1>7. QED
  BY <1>1, <1>2, <1>3, <1>4, <1>5, <1>6 DEF Next

\* The batch refines the ledger: in particular a refund, whose amount was
\* computed before the transaction that pays it, is worth exactly the charge.
THEOREM BatchRefinesLedger == Spec => RefinesLedger
<1>1. Init => Ledger!Init
  BY DEF Init, Ledger!Init
<1>2. TypeInv /\ ClosedInv /\ RowsInv /\ [Next]_vars => [Ledger!Next]_(Ledger!vars)
  BY StepMaps
<1>3. QED
  BY <1>1, <1>2, TypeInvHolds, ClosedInvHolds, RowsInvHolds, PTL
  DEF Spec, RefinesLedger, Ledger!Spec
-----------------------------------------------------------------------------
\* From here on: as long as no statement fails and nothing is compensated.
Undamaged == ~May("database") /\ request # "compensated"

FailedOnes == {m \in members : status[m] = "FAILED"}
Tracking(m) == pc[m] \in {"track_read", "track_write"}

\* Worker and webhook never work on the status of one message: until Meta's
\* answer is recorded it is the worker's, afterwards the webhook's.  A failure is
\* final, and its recipient is FAILED only after it has been counted.
MessageInv(m) ==
    /\ status[m] # "NONE" <=> m \in members
    /\ pc[m] \in {"send", "record", "fail", "mark_read", "mark_write"}
         \/ (Tracking(m) /\ goal[m] = "SENDING") => status[m] = "SENDING"
    /\ Tracking(m) /\ goal[m] = "FAILED" => status[m] = "FAILED" /\ m \notin recorded
    /\ m \in recorded => status[m] \in Delivery \cup {"FAILED"}
    /\ recipient[m] = "FAILED" => status[m] = "FAILED" /\ m \notin Uncounted
    /\ recipient[m] = "CANCELED" => status[m] = "CANCELED"
    /\ batch = "SCHEDULED" => status[m] # "FAILED"
WebhookInv ==
    /\ hook.step # "none" => hook.m \in recorded
    /\ hook.step = "write" /\ hook.apply => status[hook.m] # "FAILED"
    /\ hook.step \in {"track_read", "track_write"} /\ hook.next = "FAILED"
         => status[hook.m] = "FAILED"
TrackInv ==
    /\ \A m \in Messages : MessageInv(m)
    /\ WebhookInv
    /\ request = "none" => failedCount = 0

\* No failure is counted twice, and without crashes none is forgotten.
CountInv ==
    /\ failedCount + Cardinality(Uncounted) <= Cardinality(FailedOnes)
    /\ ~May("crash") => failedCount + Cardinality(Uncounted) = Cardinality(FailedOnes)
    /\ batch = "FAILED" => FailedOnes = members

\* The three ways a step may deal with failures: none, a new one, one counted.
Same ==
    /\ FailedOnes' = FailedOnes /\ failedCount' = failedCount
    /\ Uncounted' \subseteq Uncounted /\ (~May("crash") => Uncounted' = Uncounted)
    /\ batch' = "FAILED" => batch = "FAILED"
Fails(m) ==
    /\ m \notin FailedOnes /\ FailedOnes' = FailedOnes \cup {m} /\ failedCount' = failedCount
    /\ m \notin Uncounted /\ Uncounted' = Uncounted \cup {m}
    /\ batch' = batch
Counts(m) ==
    /\ FailedOnes' = FailedOnes /\ failedCount' = failedCount + 1
    /\ m \in Uncounted /\ Uncounted' = Uncounted \ {m}
    /\ batch' = "FAILED" => failedCount + 1 >= queuedCount

LEMMA CountKept ==
    ASSUME TypeInv, RowsInv, CountInv, Undamaged, FailedOnes' \subseteq members,
           UNCHANGED <<env, members>>,
           Same \/ \E m \in Messages : Fails(m) \/ Counts(m)
    PROVE  CountInv'
<1>1. \A S \in SUBSET Messages : IsFiniteSet(S) /\ Cardinality(S) \in Nat
  BY BatchAssumption, FS_Subset, FS_CardinalityType
<1>2. members \in SUBSET Messages /\ FailedOnes \in SUBSET Messages /\ failedCount \in Nat
  BY DEF TypeInv, TypeOK, FailedOnes
<1>3. Uncounted \in SUBSET Messages
  BY DEF Uncounted, TypeInv, HookInv
<1>4. May("crash")' = May("crash")
  BY DEF May
<1>5. queuedCount = Cardinality(members)
  BY DEF RowsInv, Undamaged
<1>6. CASE Same
  <2>1. Cardinality(Uncounted') <= Cardinality(Uncounted) /\ Cardinality(Uncounted') \in Nat
    <3>1. Uncounted' \in SUBSET Uncounted /\ Uncounted' \in SUBSET Messages
      BY <1>3, <1>6 DEF Same
    <3>2. QED
      BY <1>1, <1>3, <3>1, FS_Subset
  <2>2. QED
    BY <1>1, <1>2, <1>3, <1>4, <1>6, <2>1 DEF Same, CountInv
<1>7. ASSUME NEW m \in Messages, Fails(m) PROVE CountInv'
  <2>1. /\ Cardinality(Uncounted') = Cardinality(Uncounted) + 1
        /\ Cardinality(FailedOnes') = Cardinality(FailedOnes) + 1
    BY <1>1, <1>2, <1>3, <1>7, FS_AddElement DEF Fails
  <2>2. batch # "FAILED"
    BY <1>7 DEF Fails, CountInv
  <2>3. QED
    BY <1>1, <1>2, <1>3, <1>4, <1>7, <2>1, <2>2 DEF Fails, CountInv
<1>8. ASSUME NEW m \in Messages, Counts(m) PROVE CountInv'
  <2>1. Cardinality(Uncounted') = Cardinality(Uncounted) - 1
    BY <1>1, <1>3, <1>8, FS_RemoveElement DEF Counts
  <2>2. Cardinality(Uncounted') \in Nat
    BY <1>1, <1>3, <1>8 DEF Counts
  <2>3. ASSUME batch' = "FAILED" PROVE FailedOnes = members
    <3>1. FailedOnes \in SUBSET members
      BY DEF FailedOnes
    <3>2. Cardinality(FailedOnes) >= failedCount + 1
      BY <1>1, <1>2, <1>3, <2>1, <2>2 DEF CountInv
    <3>3. Cardinality(FailedOnes) <= Cardinality(members)
      BY <1>1, <1>2, <3>1, FS_Subset
    <3>4. Cardinality(FailedOnes) = Cardinality(members)
      BY <1>1, <1>2, <1>5, <1>8, <2>3, <3>2, <3>3 DEF Counts
    <3>5. QED
      BY <1>1, <1>2, <3>1, <3>4, FS_Subset
  <2>4. QED
    BY <1>1, <1>2, <1>3, <1>4, <1>8, <2>1, <2>2, <2>3 DEF Counts, CountInv
<1>9. QED
  BY <1>6, <1>7, <1>8

-----------------------------------------------------------------------------
Pending(m) ==
    \/ Tracking(m) /\ goal[m] = "FAILED"
    \/ m = hook.m /\ hook.next = "FAILED" /\ hook.step \in {"track_read", "track_write"}

LEMMA PendingOnes ==
    ASSUME TypeInv
    PROVE  Uncounted = {m \in Messages : Pending(m)}
BY DEF Uncounted, Pending, Tracking, TypeInv, HookInv

\* A new batch has no failures.
LEMMA CreateTracks ==
    ASSUME TypeInv, ClosedInv, TrackInv,
           NEW charged \in SUBSET Messages, NEW initial \in {"QUEUED", "SCHEDULED"},
           CreateBatch(charged, initial)
    PROVE  TrackInv' /\ CountInv'
<1> USE DEF CreateBatch, jobVars, workerVars
<1>1. /\ NothingSent /\ recorded' = {} /\ hook' = NoHook /\ failedCount' = 0
      /\ \A m \in Messages : status[m] = "NONE" /\ pc[m] = "idle" /\ pc'[m] = "idle"
  BY DEF ClosedInv, NothingSent, TrackInv, TypeInv, JobsInv
<1>2. \A m \in Messages : /\ status'[m] = IF m \in members' THEN "QUEUED" ELSE "NONE"
                          /\ recipient'[m] # "FAILED" /\ recipient'[m] # "CANCELED"
  BY <1>1 DEF TrackInv, MessageInv, TypeInv, TypeOK
<1>3. TrackInv'
  BY <1>1, <1>2 DEF TrackInv, MessageInv, WebhookInv, Tracking, NoHook
<1>4. Uncounted' = {} /\ FailedOnes' = {}
  BY <1>1, <1>2 DEF Uncounted, FailedOnes, NoHook
<1>5. batch' # "FAILED"
  OBVIOUS
<1>6. QED
  BY <1>1, <1>3, <1>4, <1>5, FS_EmptySet DEF CountInv

\* Requests and cancellations leave failures alone.
LEMMA RequestTracks ==
    ASSUME TypeInv, TrackInv, Enqueue \/ CountUsage \/ RequestDies
    PROVE  TrackInv' /\ Same
BY DEF Enqueue, CountUsage, RequestDies, TrackInv, MessageInv, WebhookInv, Tracking, Same,
   FailedOnes, Uncounted, batchVars, walletVars, jobVars, requestVars, workerVars

LEMMA CancelTracks ==
    ASSUME TypeInv, ClosedInv, TrackInv, NEW c \in Cancels, Cancellation(c)
    PROVE  TrackInv' /\ Same
<1> USE DEF TrackInv, MessageInv, WebhookInv, Tracking, Same, FailedOnes, Uncounted,
    batchVars, walletVars, jobVars, requestVars, workerVars
<1>1. CASE CancelClaim(c) /\ Cancelable
  <2>1. NothingSent /\ \A m \in Messages : status[m] \in {"NONE", "QUEUED"}
    BY <1>1 DEF Cancelable, ClosedInv
  <2>2. /\ UNCHANGED <<members, recorded, hook, pc, goal, request, failedCount, env>>
        /\ batch' = "CANCELED"
    BY <1>1 DEF CancelClaim
  <2>3. \A m \in Messages :
          /\ status'[m] = IF m \in members THEN "CANCELED" ELSE "NONE"
          /\ recipient'[m] = "FAILED" => recipient[m] = "FAILED"
          /\ recipient'[m] = "CANCELED" => recipient[m] = "CANCELED" \/ m \in members
    BY <1>1, <2>1 DEF CancelClaim, TypeInv, TypeOK
  <2>4. \A m \in Messages : MessageInv(m)'
    BY <2>1, <2>2, <2>3 DEF NothingSent, Unsent
  <2>5. QED
    BY <2>1, <2>2, <2>3, <2>4 DEF NothingSent, NoHook, TypeInv, TypeOK, May
<1>2. CASE ~(CancelClaim(c) /\ Cancelable)
  BY <1>2 DEF Cancellation, CancelRead, CancelClaim, CancelRemoveJobs, CancelDies
<1>3. QED
  BY <1>1, <1>2

\* More of what the steps of a job leave alone.
LEMMA WorkerFrameMore ==
    ASSUME TypeInv, NEW m \in Messages, Worker(m)
    PROVE  /\ UNCHANGED env
           /\ recorded \subseteq recorded' /\ recorded' \subseteq recorded \cup {m}
           /\ \A n \in Messages \ {m} : recipient'[n] = recipient[n]
<1> USE DEF TypeInv, TypeOK, batchVars
<1>1. CASE Record(m)
  BY <1>1 DEF Record
<1>2. CASE TrackWrite(m)
  BY <1>2 DEF TrackWrite, WriteTracking
<1>3. CASE ~Record(m) /\ ~TrackWrite(m)
  BY <1>3 DEF Worker, Dequeue, Load, Claim, TrackRead, Send, Finish, Fail, MarkFailedRead,
      MarkFailedWrite, RefundFindsNoDebit, Rethrow, DatabaseFault, WorkerDies
<1>4. QED
  BY <1>1, <1>2, <1>3

\* So a step of a job keeps the invariant if it keeps what concerns its message.
LEMMA LocalStep ==
    ASSUME TypeInv, TypeInv', TrackInv, NEW m \in Messages, Worker(m), MessageInv(m)',
           status[m] = "FAILED" => status'[m] = "FAILED",
           status'[m] = "FAILED" => status[m] = "FAILED" \/ m \notin recorded
    PROVE  TrackInv'
<1> USE WorkerFrame, WorkerFrameMore
<1>1. ASSUME NEW n \in Messages \ {m} PROVE MessageInv(n)'
  <2>1. n \in Uncounted' <=> n \in Uncounted
    BY PendingOnes DEF Uncounted
  <2>2. QED
    BY <2>1 DEF TrackInv, MessageInv, Tracking
<1>2. WebhookInv'
  <2>1. hook.step # "none" => hook.m \in Messages
    BY DEF TypeInv, HookInv
  <2>2. hook.step # "none" => (status'[hook.m] = "FAILED" <=> status[hook.m] = "FAILED")
    BY <2>1 DEF TrackInv, WebhookInv
  <2>3. QED
    BY <2>2 DEF TrackInv, WebhookInv
<1>3. request # "none"
  BY DEF TypeInv, JobsInv
<1>4. QED
  BY <1>1, <1>2, <1>3 DEF TrackInv

\* It leaves failures alone if it starts and ends with as many of its own.
LEMMA QuietStep ==
    ASSUME TypeInv, TypeInv', TrackInv, NEW m \in Messages, Worker(m),
           status[m] = "FAILED" <=> status'[m] = "FAILED",
           failedCount' = failedCount, batch' = "FAILED" => batch = "FAILED",
           Pending(m)' => Pending(m), ~May("crash") /\ Pending(m) => Pending(m)'
    PROVE  Same
<1> USE WorkerFrame, WorkerFrameMore
<1>1. \A n \in Messages \ {m} : Pending(n)' <=> Pending(n)
  BY DEF Pending, Tracking
<1>2. Uncounted' \subseteq Uncounted /\ (~May("crash") => Uncounted' = Uncounted)
  <2>1. Uncounted = {n \in Messages : Pending(n)}
    BY PendingOnes
  <2>2. Uncounted' = {n \in Messages : Pending(n)'}
    BY DEF Uncounted, Pending, Tracking, TypeInv, HookInv
  <2>3. QED
    BY <1>1, <2>1, <2>2
<1>3. FailedOnes' = FailedOnes
  BY DEF FailedOnes, TypeInv, TypeOK
<1>4. QED
  BY <1>2, <1>3 DEF Same

\* The worker fails a message it is at work on, and then counts it.
LEMMA WorkerTracks ==
    ASSUME TypeInv, TypeInv', ClosedInv, TrackInv, ~May("database"),
           NEW m \in Messages, Worker(m)
    PROVE  TrackInv' /\ (Same \/ Fails(m) \/ Counts(m))
<1> DEFINE Quiet ==
      /\ MessageInv(m)' /\ failedCount' = failedCount
      /\ status[m] = "FAILED" <=> status'[m] = "FAILED"
      /\ batch' = "FAILED" => batch = "FAILED"
      /\ Pending(m)' => Pending(m)
      /\ ~May("crash") /\ Pending(m) => Pending(m)'
<1> USE DEF batchVars, walletVars, jobVars, requestVars, workerVars, Goto, Throw, EndJob,
    LeaveTracking, TrackNext
<1>1. Quiet => TrackInv' /\ Same
  BY LocalStep, QuietStep
<1>2. (m \in Uncounted <=> Pending(m)) /\ (m \in Uncounted' <=> Pending(m)')
  BY PendingOnes DEF Uncounted, Pending, Tracking, TypeInv, HookInv
<1>3. MessageInv(m) /\ WebhookInv
  BY DEF TrackInv
<1>4. CASE Dequeue(m) \/ Load(m) \/ Finish(m) \/ RefundFindsNoDebit(m) \/ Rethrow(m)
  <2>1. Quiet
    BY <1>2, <1>3, <1>4 DEF Dequeue, Load, Finish, RefundFindsNoDebit, Rethrow, MessageInv, Tracking,
        Pending, TypeInv, TypeOK, JobsInv
  <2>2. QED
    BY <1>1, <2>1
<1>5. CASE Claim(m)
  <2>1. Quiet
    BY <1>2, <1>3, <1>5 DEF Claim, Claimable, Sendable, Delivery, MessageInv, Tracking, Pending,
        TypeInv, TypeOK
  <2>2. QED
    BY <1>1, <2>1
<1>6. CASE TrackRead(m)
  <2>1. Quiet
    BY <1>2, <1>3, <1>6 DEF TrackRead, Tracks, AfterTracking, MessageInv, Tracking, Pending,
        TypeInv, TypeOK
  <2>2. QED
    BY <1>1, <2>1
<1>7. CASE Send(m) \/ Fail(m) \/ MarkFailedRead(m)
  <2>1. Quiet
    BY <1>2, <1>3, <1>7 DEF Send, Fail, RetryStatus, MarkFailedRead, MessageInv, Tracking, Pending,
        TypeInv, TypeOK, Delivery
  <2>2. QED
    BY <1>1, <2>1
<1>8. CASE Record(m)
  <2>1. Quiet
    BY <1>2, <1>3, <1>8 DEF Record, MessageInv, Tracking, Pending, TypeInv, TypeOK, Delivery
  <2>2. QED
    BY <1>1, <2>1
<1>9. CASE WorkerDies(m)
  <2>1. Quiet
    BY <1>2, <1>3, <1>9 DEF WorkerDies, MessageInv, Tracking, Pending, TypeInv, TypeOK
  <2>2. QED
    BY <1>1, <2>1
<1>10. CASE TrackWrite(m)
  <2>1. /\ UNCHANGED <<status, recorded, members>>
        /\ recipient'[m] = goal[m] /\ pc'[m] \in {"send", "finish", "refund"}
        /\ pc'[m] = "send" => goal[m] = "SENDING"
    BY <1>10 DEF TrackWrite, WriteTracking, AfterTracking, TypeInv, TypeOK
  <2>2. ~Pending(m)' \/ (m \in recorded /\ Pending(m))
    BY <1>3, <1>10, <2>1, WorkerFrame DEF Pending, Tracking, WebhookInv
  <2>3. CASE goal[m] = "FAILED"
    <3>1. Pending(m) /\ ~Pending(m)' /\ m \notin recorded /\ status[m] = "FAILED"
      BY <1>3, <1>10, <2>2, <2>3 DEF TrackWrite, Pending, Tracking, MessageInv
    <3>2. batch' = FailedBatchStatus(failedCount + 1) /\ failedCount' = failedCount + 1
      BY <1>10, <2>3 DEF TrackWrite, WriteTracking
    <3>3. MessageInv(m)'
      BY <1>2, <1>3, <2>1, <2>3, <3>1, <3>2
      DEF MessageInv, Tracking, FailedBatchStatus, TypeInv, TypeOK
    <3>4. TrackInv'
      BY <2>1, <3>3, LocalStep
    <3>5. \A n \in Messages \ {m} : Pending(n)' <=> Pending(n)
      BY WorkerFrame DEF Pending, Tracking
    <3>6. Uncounted' = Uncounted \ {m}
      <4>1. Uncounted = {n \in Messages : Pending(n)}
        BY PendingOnes
      <4>2. Uncounted' = {n \in Messages : Pending(n)'}
        BY DEF Uncounted, Pending, Tracking, TypeInv, HookInv
      <4>3. QED
        BY <3>1, <3>5, <4>1, <4>2
    <3>7. Counts(m)
      BY <1>2, <2>1, <3>1, <3>2, <3>6 DEF Counts, FailedOnes, FailedBatchStatus
    <3>8. QED
      BY <3>4, <3>7
  <2>4. CASE goal[m] # "FAILED"
    <3>1. failedCount' = failedCount /\ batch' \in {batch, "QUEUED"}
      BY <1>10, <2>4 DEF TrackWrite, WriteTracking
    <3>2. Pending(m)' <=> Pending(m)
      BY <2>1, <2>4, WorkerFrame DEF Pending, Tracking
    <3>3. MessageInv(m)'
      BY <1>2, <1>3, <1>10, <2>1, <2>4, <3>1 DEF TrackWrite, MessageInv, Tracking, TypeInv, TypeOK
    <3>4. QED
      BY <1>1, <2>1, <3>1, <3>2, <3>3
  <2>5. QED
    BY <2>3, <2>4
<1>11. CASE MarkFailedWrite(m)
  <2>1. /\ status[m] = "SENDING" /\ m \notin recorded /\ m \in members
        /\ status' = [status EXCEPT ![m] = "FAILED"] /\ status'[m] = "FAILED"
        /\ UNCHANGED <<batch, members, failedCount, recipient, recorded>>
        /\ pc'[m] = "track_read" /\ goal'[m] = "FAILED"
    BY <1>3, <1>11 DEF MarkFailedWrite, MessageInv, TypeInv, TypeOK, Delivery
  <2>2. batch # "SCHEDULED"
    BY <2>1 DEF ClosedInv
  <2>3. ~Pending(m) /\ Pending(m)'
    BY <1>3, <1>11, <2>1 DEF MarkFailedWrite, Pending, Tracking, WebhookInv
  <2>4. MessageInv(m)'
    BY <1>3, <2>1, <2>2 DEF MessageInv, Tracking
  <2>5. TrackInv'
    BY <2>1, <2>4, LocalStep
  <2>6. \A n \in Messages \ {m} : Pending(n)' <=> Pending(n)
    BY WorkerFrame DEF Pending, Tracking
  <2>7. Uncounted' = Uncounted \cup {m}
    <3>1. Uncounted = {n \in Messages : Pending(n)}
      BY PendingOnes
    <3>2. Uncounted' = {n \in Messages : Pending(n)'}
      BY DEF Uncounted, Pending, Tracking, TypeInv, HookInv
    <3>3. QED
      BY <2>3, <2>6, <3>1, <3>2
  <2>8. FailedOnes' = FailedOnes \cup {m} /\ m \notin FailedOnes
    BY <2>1 DEF FailedOnes, TypeInv, TypeOK
  <2>9. Fails(m)
    BY <1>2, <2>1, <2>3, <2>7, <2>8 DEF Fails
  <2>10. QED
    BY <2>5, <2>9
<1>12. ~DatabaseFault(m)
  BY DEF DatabaseFault
<1>13. QED
  BY <1>4, <1>5, <1>6, <1>7, <1>8, <1>9, <1>10, <1>11, <1>12 DEF Worker

\* So does a webhook.
LEMMA WebhookTracks ==
    ASSUME TypeInv, TypeInv', ClosedInv, TrackInv, ~May("database"), Webhook
    PROVE  TrackInv' /\ (Same \/ \E m \in Messages : Fails(m) \/ Counts(m))
<1> USE DEF batchVars, requestVars, workerVars
<1> DEFINE Noted == hook.next = "FAILED" /\ hook.step \in {"track_read", "track_write"}
           Left  == {n \in Messages : Tracking(n) /\ goal[n] = "FAILED"}
<1>1. Uncounted = Left \cup (IF Noted THEN {hook.m} ELSE {})
  BY DEF Uncounted, Tracking, TypeInv, HookInv
<1>2. UNCHANGED <<pc, goal, members, recorded, request, env>>
  BY DEF Webhook, WebhookRead, WebhookWrite, WebhookTrackRead, WebhookTrackWrite, WebhookDies,
      WriteTracking
<1>3. Uncounted' = Left \cup (IF Noted' THEN {hook'.m} ELSE {})
  BY <1>2 DEF Uncounted, Tracking
<1>4. \A n \in Messages : MessageInv(n)
  BY DEF TrackInv
<1>5. ASSUME hook.step # "none" \/ recorded # {} PROVE request # "none" /\ batch # "SCHEDULED"
  BY <1>5 DEF ClosedInv, NothingSent, NoHook
<1>6. hook.step # "none" => hook.m \in Messages /\ hook.m \in recorded
  BY DEF TypeInv, HookInv, TrackInv, WebhookInv
<1>7. ASSUME UNCHANGED batchVars, UNCHANGED status, WebhookInv', Uncounted' \subseteq Uncounted
      PROVE  TrackInv'
  BY <1>2, <1>4, <1>7 DEF TrackInv, MessageInv, Tracking
<1>8. ASSUME NEW m \in Messages, NEW next \in Reports, WebhookRead(m, next)
      PROVE  TrackInv' /\ Same
  <2>1. /\ hook = NoHook /\ hook'.step = "write" /\ hook'.m = m /\ m \in recorded
        /\ hook'.apply => status[m] # "FAILED"
        /\ UNCHANGED status /\ UNCHANGED batchVars
    BY <1>8 DEF WebhookRead, ShouldApply, NoHook
  <2>2. WebhookInv'
    BY <1>2, <2>1 DEF WebhookInv
  <2>3. Uncounted' = Uncounted
    BY <1>1, <1>3, <2>1 DEF NoHook
  <2>4. QED
    BY <1>2, <1>7, <2>1, <2>2, <2>3 DEF Same, FailedOnes
<1>9. CASE WebhookWrite
  <2>1. /\ hook.step = "write" /\ UNCHANGED batchVars /\ ~Noted
        /\ request # "none" /\ batch # "SCHEDULED"
        /\ hook.m \in Messages /\ hook.m \in recorded
    BY <1>5, <1>6, <1>9 DEF WebhookWrite
  <2>2. CASE ~hook.apply
    <3>1. hook' = NoHook /\ UNCHANGED status
      BY <1>9, <2>2 DEF WebhookWrite
    <3>2. WebhookInv' /\ Uncounted' = Uncounted
      BY <1>1, <1>3, <2>1, <3>1 DEF WebhookInv, NoHook
    <3>3. QED
      BY <1>2, <1>7, <2>1, <3>1, <3>2 DEF Same, FailedOnes
  <2>3. CASE hook.apply
    <3>1. /\ hook'.step = "track_read" /\ hook'.m = hook.m /\ hook'.next = hook.next
          /\ hook.next \in Delivery \cup {"FAILED"}
          /\ \A n \in Messages : status'[n] = IF n = hook.m THEN hook.next ELSE status[n]
          /\ status' \in [Messages -> Statuses]
      BY <1>9, <2>1, <2>3 DEF WebhookWrite, TypeInv, TypeOK, HookInv
    <3>2. status[hook.m] \in Delivery /\ hook.m \in members /\ hook.m \notin Left
      BY <1>4, <2>1, <2>3 DEF TrackInv, WebhookInv, MessageInv, Delivery
    <3>3. WebhookInv'
      BY <1>2, <2>1, <3>1 DEF WebhookInv
    <3>4. Uncounted' = Left \cup (IF hook.next = "FAILED" THEN {hook.m} ELSE {})
      BY <1>3, <3>1
    <3>5. Uncounted = Left
      BY <1>1, <2>1
    <3>6. \A n \in Messages : MessageInv(n)'
      <4>1. ASSUME NEW n \in Messages, n # hook.m PROVE MessageInv(n)'
        BY <1>2, <1>4, <2>1, <3>1, <3>4, <3>5, <4>1 DEF MessageInv, Tracking
      <4>2. ASSUME NEW n \in Messages, n = hook.m PROVE MessageInv(n)'
        BY <1>2, <1>4, <2>1, <3>1, <3>2, <4>2 DEF MessageInv, Tracking, Delivery
      <4>3. QED
        BY <4>1, <4>2
    <3>7. TrackInv'
      BY <1>2, <2>1, <3>3, <3>6 DEF TrackInv
    <3>8. CASE hook.next = "FAILED"
      <4>1. FailedOnes' = FailedOnes \cup {hook.m} /\ hook.m \notin FailedOnes
        BY <1>2, <2>1, <3>1, <3>2, <3>8 DEF FailedOnes, Delivery, TypeInv, TypeOK
      <4>2. Fails(hook.m)
        BY <2>1, <3>2, <3>4, <3>5, <3>8, <4>1 DEF Fails
      <4>3. QED
        BY <2>1, <3>7, <4>2
    <3>9. CASE hook.next # "FAILED"
      <4>1. FailedOnes' = FailedOnes
        BY <1>2, <3>1, <3>2, <3>9 DEF FailedOnes, Delivery, TypeInv, TypeOK
      <4>2. Same
        BY <2>1, <3>4, <3>5, <3>9, <4>1 DEF Same
      <4>3. QED
        BY <3>7, <4>2
    <3>10. QED
      BY <3>8, <3>9
  <2>4. QED
    BY <2>2, <2>3
<1>10. CASE WebhookTrackRead
  <2>1. hook.step = "track_read" /\ UNCHANGED status /\ UNCHANGED batchVars
    BY <1>10 DEF WebhookTrackRead
  <2>2. CASE Tracks(recipient[hook.m], hook.next)
    <3>1. hook'.step = "track_write" /\ hook'.m = hook.m /\ hook'.next = hook.next
      BY <1>10, <2>2 DEF WebhookTrackRead, TypeInv, TypeOK
    <3>2. WebhookInv'
      BY <1>2, <2>1, <3>1 DEF WebhookInv, TrackInv
    <3>3. Uncounted' = Uncounted
      BY <1>1, <1>3, <2>1, <3>1
    <3>4. QED
      BY <1>2, <1>7, <2>1, <3>2, <3>3 DEF Same, FailedOnes
  <2>3. CASE ~Tracks(recipient[hook.m], hook.next)
    <3>1. hook' = NoHook
      BY <1>10, <2>3 DEF WebhookTrackRead
    <3>2. hook.next # "FAILED"
      <4>1. SUFFICES ASSUME hook.next = "FAILED" PROVE FALSE
        OBVIOUS
      <4>2. recipient[hook.m] \in {"FAILED", "CANCELED"}
        BY <2>3, <4>1 DEF Tracks
      <4>3. hook.m \in Uncounted /\ status[hook.m] = "FAILED"
        BY <1>1, <2>1, <4>1 DEF TrackInv, WebhookInv
      <4>4. QED
        BY <1>4, <1>6, <2>1, <4>2, <4>3 DEF MessageInv
    <3>3. Uncounted' = Uncounted
      BY <1>1, <1>3, <3>1, <3>2 DEF NoHook
    <3>4. WebhookInv'
      BY <3>1 DEF WebhookInv, NoHook
    <3>5. QED
      BY <1>2, <1>7, <2>1, <3>3, <3>4 DEF Same, FailedOnes
  <2>4. QED
    BY <2>2, <2>3
<1>11. CASE WebhookTrackWrite
  <2>1. /\ hook.step = "track_write" /\ hook' = NoHook /\ UNCHANGED status
        /\ request # "none" /\ batch # "SCHEDULED"
        /\ hook.m \in Messages /\ hook.m \in recorded
        /\ \A n \in Messages :
             recipient'[n] = IF n = hook.m THEN hook.next ELSE recipient[n]
    BY <1>5, <1>6, <1>11 DEF WebhookTrackWrite, WriteTracking, TypeInv, TypeOK
  <2>2. WebhookInv' /\ Uncounted' = Left
    BY <1>3, <2>1 DEF WebhookInv, NoHook
  <2>3. hook.m \notin Left /\ hook.next # "CANCELED"
    BY <1>4, <2>1 DEF MessageInv, TypeInv, TypeOK, Delivery
  <2>4. batch' # "SCHEDULED"
    BY <1>11, <2>1 DEF WebhookTrackWrite, WriteTracking, FailedBatchStatus
  <2>5. \A n \in Messages : MessageInv(n)'
    <3>1. ASSUME NEW n \in Messages, n # hook.m PROVE MessageInv(n)'
      BY <1>1, <1>2, <1>4, <2>1, <2>2, <2>4, <3>1 DEF MessageInv, Tracking
    <3>2. ASSUME NEW n \in Messages, n = hook.m PROVE MessageInv(n)'
      BY <1>2, <1>4, <2>1, <2>2, <2>3, <2>4, <3>2 DEF MessageInv, Tracking, TrackInv, WebhookInv
    <3>3. QED
      BY <3>1, <3>2
  <2>6. TrackInv'
    BY <1>2, <2>1, <2>2, <2>5 DEF TrackInv
  <2>7. CASE hook.next = "FAILED"
    <3>1. failedCount' = failedCount + 1 /\ batch' = FailedBatchStatus(failedCount + 1)
      BY <1>11, <2>7 DEF WebhookTrackWrite, WriteTracking
    <3>2. hook.m \in Uncounted /\ Uncounted' = Uncounted \ {hook.m}
      BY <1>1, <2>1, <2>2, <2>3, <2>7
    <3>3. Counts(hook.m)
      BY <1>2, <2>1, <3>1, <3>2 DEF Counts, FailedOnes, FailedBatchStatus
    <3>4. QED
      BY <2>1, <2>6, <3>3
  <2>8. CASE hook.next # "FAILED"
    <3>1. failedCount' = failedCount /\ batch' \in {batch, "QUEUED"}
      BY <1>11, <2>8 DEF WebhookTrackWrite, WriteTracking
    <3>2. Same
      BY <1>1, <1>2, <2>1, <2>2, <2>8, <3>1 DEF Same, FailedOnes
    <3>3. QED
      BY <2>6, <3>2
  <2>9. QED
    BY <2>7, <2>8
<1>12. CASE WebhookDies
  <2>1. hook' = NoHook /\ UNCHANGED status /\ UNCHANGED batchVars /\ May("crash")
    BY <1>12 DEF WebhookDies
  <2>2. WebhookInv'
    BY <2>1 DEF WebhookInv, NoHook
  <2>3. Uncounted' \subseteq Uncounted
    BY <1>1, <1>3, <2>1 DEF NoHook
  <2>4. QED
    BY <1>2, <1>7, <2>1, <2>2, <2>3 DEF Same, FailedOnes
<1>13. QED
  BY <1>8, <1>9, <1>10, <1>11, <1>12 DEF Webhook

CountedInv == Undamaged => TrackInv /\ CountInv

LEMMA CountedStep ==
    ASSUME TypeInv, TypeInv', ClosedInv, RowsInv, CountedInv, [Next]_vars
    PROVE  CountedInv'
<1> SUFFICES ASSUME Undamaged' PROVE TrackInv' /\ CountInv'
  BY DEF CountedInv
<1>1. ASSUME UNCHANGED <<env, members>>, request = "compensated" => request' = "compensated",
             Undamaged => TrackInv' /\ (Same \/ \E m \in Messages : Fails(m) \/ Counts(m))
      PROVE  TrackInv' /\ CountInv'
  <2>1. Undamaged /\ TrackInv /\ CountInv
    BY <1>1 DEF Undamaged, May, CountedInv
  <2>2. FailedOnes' \subseteq members
    BY <1>1 DEF FailedOnes
  <2>3. QED
    BY <1>1, <2>1, <2>2, CountKept
<1>2. ASSUME NEW charged \in SUBSET Messages, NEW initial \in {"QUEUED", "SCHEDULED"},
             CreateBatch(charged, initial)
      PROVE  TrackInv' /\ CountInv'
  <2>1. Undamaged
    BY <1>2 DEF CreateBatch, Undamaged, May
  <2>2. QED
    BY <1>2, <2>1, CreateTracks DEF CountedInv
<1>3. CASE Enqueue \/ CountUsage \/ RequestDies
  <2>1. UNCHANGED <<env, members>> /\ request # "compensated"
    BY <1>3 DEF Enqueue, CountUsage, RequestDies, batchVars
  <2>2. QED
    BY <1>1, <1>3, <2>1, RequestTracks DEF CountedInv
<1>4. ~Compensate
  BY DEF Compensate, Undamaged
<1>5. ASSUME NEW c \in Cancels, Cancellation(c) PROVE TrackInv' /\ CountInv'
  <2>1. UNCHANGED <<env, members, request>>
    BY <1>5 DEF Cancellation, CancelRead, CancelClaim, CancelRemoveJobs, CancelDies, batchVars
  <2>2. QED
    BY <1>1, <1>5, <2>1, CancelTracks DEF CountedInv
<1>6. ASSUME NEW m \in Messages, Worker(m) PROVE TrackInv' /\ CountInv'
  BY <1>1, <1>6, WorkerFrame, WorkerFrameMore, WorkerTracks DEF CountedInv, Undamaged
<1>7. CASE Webhook
  <2>1. UNCHANGED <<env, members, request>>
    BY <1>7 DEF Webhook, WebhookRead, WebhookWrite, WebhookTrackRead, WebhookTrackWrite,
        WebhookDies, WriteTracking, batchVars, requestVars
  <2>2. QED
    BY <1>1, <1>7, <2>1, WebhookTracks DEF CountedInv, Undamaged
<1>8. CASE UNCHANGED vars
  BY <1>8 DEF vars, CountedInv, Undamaged, May, TrackInv, MessageInv, WebhookInv, Tracking, CountInv,
      FailedOnes, Uncounted, batchVars, requestVars, workerVars
<1>9. QED
  BY <1>2, <1>3, <1>4, <1>5, <1>6, <1>7, <1>8 DEF Next

LEMMA CountedInvHolds == Spec => []CountedInv
<1>1. Init => CountedInv
  <2> SUFFICES ASSUME Init PROVE TrackInv /\ CountInv
    BY DEF CountedInv
  <2>1. TrackInv
    BY DEF Init, TrackInv, MessageInv, WebhookInv, Tracking, NoHook
  <2>2. Uncounted = {} /\ FailedOnes = {}
    BY DEF Init, Uncounted, FailedOnes, NoHook
  <2>3. QED
    BY <2>1, <2>2, FS_EmptySet DEF Init, CountInv
<1>2. TypeInv /\ TypeInv' /\ ClosedInv /\ RowsInv /\ CountedInv /\ [Next]_vars => CountedInv'
  BY CountedStep
<1>3. QED
  BY <1>1, <1>2, TypeInvHolds, ClosedInvHolds, RowsInvHolds, PTL DEF Spec

\* Whatever else fails, a batch of any size that says FAILED has no message on
\* its way, although its counters overwrite one another's reads.
THEOREM BatchFailedTrue == Spec => []BatchFailedMeansAllFailed
<1>1. TypeInv /\ CountedInv => BatchFailedMeansAllFailed
  BY DEF CountedInv, Undamaged, CountInv, FailedOnes, BatchFailedMeansAllFailed
<1>2. QED
  BY <1>1, TypeInvHolds, CountedInvHolds, PTL

\* The worker and the webhooks between them count every failed message of a
\* batch of any size exactly once.
THEOREM BatchFailuresCounted == Spec => []FailuresCountedOnce
<1>1. CountedInv => FailuresCountedOnce
  BY DEF CountedInv, Undamaged, May, CountInv, FailedOnes, FailuresCountedOnce
<1>2. QED
  BY <1>1, CountedInvHolds, PTL

-----------------------------------------------------------------------------
(* The import of contacts: its inductive invariant, in parts.              *)

\* A thread between the reading of a contact and the last status of its row.
OnRow == {"skip", "write", "label", "consent", "imported", "failed"}

\* One execution owns BullMQ's job while it is active; without lost locks there
\* is no other.
ImportOwned ==
    /\ \A t \in Threads :
          /\ thread[t].pc = "idle" => thread[t] = IdleThread
          /\ thread[t].owner => bull = "active" /\ tries > 0
          /\ thread[t].pc # "idle" => bull # "none" /\ (Stricken("lock") \/ thread[t].owner)
    /\ \A t, u \in Threads : thread[t].owner /\ thread[u].owner => t = u
    /\ bull = "none" => tries = 0
    /\ bull = "waiting" => tries < Attempts
    /\ bull # "over" => stalls <= MaxStalls

\* A thread has no more than a batch of rows, all of them usable.
ThreadBatch(t) ==
    /\ thread[t].batch \subseteq Rows \ Unusable
    /\ thread[t].pc = "row" => Cardinality(thread[t].batch) <= RowBatch
    /\ thread[t].pc \in OnRow =>
          /\ thread[t].at \in Rows \ Unusable /\ thread[t].at \notin thread[t].batch
          /\ Cardinality(thread[t].batch) < RowBatch

Batches ==
    /\ \A t \in Threads : ThreadBatch(t)
    /\ \A r \in Rows : row[r] = "VALID" => r \notin Unusable

\* The rows a thread may still decide without reading the job's status again.
Backlog(t) == CASE thread[t].pc = "list" -> RowBatch
             [] thread[t].pc = "row"  -> Cardinality(thread[t].batch)
             [] thread[t].pc \in OnRow -> Cardinality(thread[t].batch) + 1
             [] OTHER -> 0
Backlogs == [t \in Threads |-> Backlog(t)]
Limit == RowBatch * (IF Stricken("lock") THEN Cardinality(Threads) ELSE 1)

OverrunBounded ==
    /\ overrun <= Limit
    /\ Cancelled => overrun + SumFunctionOnSet(Backlogs, Threads) <= Limit

\* Requests that do not overlap are over when the import starts.
BeforeStart ==
    /\ importJob \in {"MAPPING", "READY", "CANCELLED"} /\ bull = "none"
    /\ \A p \in Phones : ~contact[p].ours
    /\ \A u \in Clicks : click[u] # "add"
Started ==
    /\ importJob \in {"IMPORTING", "CANCELLED", "COMPLETED", "FAILED"}
    /\ \A u \in Clicks : click[u] \in {"idle", "add", "cancel"}
InOrder ==
    /\ \A u, v \in Clicks : {click[u], click[v]} \cap {"idle", "cancel"} = {} => u = v
    /\ BeforeStart \/ Started

AllDecided == \A r \in Rows : row[r] # "VALID"
Decided ==
    /\ \A t \in Threads : thread[t].pc = "complete" => AllDecided
    /\ importJob = "COMPLETED" => AllDecided

\* A contact without its tags is in a thread's hands, or a row will find it.
Unlisted(p) == contact[p].ours /\ ~contact[p].listed
Finds(r, p) == row[r] = "VALID" /\ Phone[r] = p /\ ~FileDuplicate(r)
WillBeListed(p) ==
    \/ \E t \in Threads : thread[t].pc = "label" /\ Phone[thread[t].at] = p
    \/ Stricken("crash") /\ \E r \in Rows \ Unusable : Finds(r, p)

\* What a thread that nothing disturbs knows of the row it is at.
AtRow(t) ==
    LET r == thread[t].at  p == Phone[thread[t].at] IN
    /\ thread[t].pc \notin {"failed", "broken"}
    /\ Stricken("crash") =>
          /\ \A q \in thread[t].batch : row[q] = "VALID"
          /\ thread[t].pc \in OnRow => row[r] = "VALID"
          /\ thread[t].pc \in {"write", "label", "consent", "imported"} => ~FileDuplicate(r)
          /\ thread[t].pc = "write" /\ ~thread[t].update => ~contact[p].ours
          /\ thread[t].pc = "skip" => FileDuplicate(r) \/ ~contact[p].ours
          /\ thread[t].pc \in {"consent", "imported"} => contact[p].listed

Followed ==
    /\ \A p \in Phones : (contact[p].ours => contact[p].exists) /\ (Unlisted(p) => WillBeListed(p))
    /\ \A t \in Threads : AtRow(t)

ImportInv ==
    /\ ImportTypeOK /\ ImportOwned /\ Batches /\ OverrunBounded
    /\ ~Stricken("again") => InOrder /\ Decided
    /\ Undisturbed => Followed

-----------------------------------------------------------------------------
(* How threads move.                                                       *)

ThreadSteps == {"idle", "load", "check", "list", "row", "skip", "write", "label", "consent",
                "imported", "failed", "complete", "broken"}

\* The thread becomes x, and nobody else moves.
Becomes(t, x) == thread' = [thread EXCEPT ![t] = x]

LEMMA BecomesRow ==
    ASSUME thread \in [Threads -> ThreadRow], NEW t \in Threads, NEW x \in ThreadRow, Becomes(t, x)
    PROVE  /\ thread' \in [Threads -> ThreadRow] /\ thread'[t] = x
           /\ \A u \in Threads \ {t} : thread'[u] = thread[u]
BY DEF Becomes

LEMMA TurnMoves ==
    ASSUME thread \in [Threads -> ThreadRow], NEW t \in Threads, NEW step \in ThreadSteps, Turn(t, step)
    PROVE  \E x \in ThreadRow :
              /\ Becomes(t, x) /\ x.pc = step
              /\ x.batch = thread[t].batch /\ x.at = thread[t].at /\ x.owner = thread[t].owner
              /\ x.update = thread[t].update /\ x.grant = thread[t].grant
<1>1. [thread[t] EXCEPT !.pc = step] \in ThreadRow
  BY DEF ThreadRow, ThreadSteps
<1>2. Becomes(t, [thread[t] EXCEPT !.pc = step])
  BY DEF Turn, Becomes
<1>3. QED
  BY <1>1, <1>2 DEF ThreadRow

LEMMA IdleRow ==
    /\ IdleThread \in ThreadRow /\ IdleThread.pc = "idle" /\ IdleThread.batch = {} /\ ~IdleThread.owner
    /\ IdleThread.at = 0
BY DEF IdleThread, ThreadRow

\* A job is taken.
LEMMA TakeMoves ==
    ASSUME thread \in [Threads -> ThreadRow], NEW t \in Threads, TakeJob(t)
    PROVE  \E x \in ThreadRow : Becomes(t, x) /\ x.pc = "load" /\ x.batch = {} /\ x.at = 0 /\ x.owner
<1>1. [IdleThread EXCEPT !.pc = "load", !.owner = TRUE] \in ThreadRow
  BY IdleRow DEF ThreadRow
<1>2. QED
  BY <1>1, IdleRow DEF TakeJob, Becomes, ThreadRow

LEMMA ListMoves ==
    ASSUME thread \in [Threads -> ThreadRow], NEW t \in Threads, ListRows(t)
    PROVE  \E x \in ThreadRow :
              /\ Becomes(t, x) /\ x.pc = (IF FirstRows = {} THEN "complete" ELSE "row")
              /\ x.batch = FirstRows /\ x.at = thread[t].at /\ x.owner = thread[t].owner
<1> DEFINE x == [thread[t] EXCEPT !.batch = FirstRows, !.pc = IF FirstRows = {} THEN "complete" ELSE "row"]
<1>1. PICK F : F = FirstRows /\ F \in SUBSET Rows
  BY DEF FirstRows
<1>2. x \in ThreadRow
  BY <1>1 DEF ThreadRow
<1>3. Becomes(t, x)
  BY DEF ListRows, Becomes
<1>4. QED
  BY <1>1, <1>2, <1>3 DEF ThreadRow

LEMMA ReadMoves ==
    ASSUME thread \in [Threads -> ThreadRow], contact \in [Phones -> ContactRow],
           NEW t \in Threads, NEW r \in Rows, Phone[r] \in Phones, ReadContact(t, r)
    PROVE  \E x \in ThreadRow :
              /\ Becomes(t, x) /\ x.at = r /\ x.batch = thread[t].batch \ {r} /\ x.owner = thread[t].owner
              /\ \/ x.pc = "failed" /\ Stricken("database")
                 \/ x.pc = "skip" /\ (FileDuplicate(r) \/ Skips(contact[Phone[r]]))
                 \/ x.pc = "write" /\ ~FileDuplicate(r) /\ ~Skips(contact[Phone[r]])
              /\ x.update = contact[Phone[r]].exists
<1> DEFINE c == contact[Phone[r]]
           next == IF FileDuplicate(r) \/ Skips(c) THEN "skip" ELSE "write"
           grant == c.exists => ~c.out /\ c.consent = "UNKNOWN"
<1>1. PICK step \in {next} \cup (IF Stricken("database") THEN {"failed"} ELSE {}) :
          thread' = [thread EXCEPT ![t].at = r, ![t].batch = thread[t].batch \ {r}, ![t].pc = step,
                                   ![t].update = c.exists, ![t].grant = grant]
  BY DEF ReadContact
<1>2. c \in ContactRow
  OBVIOUS
<1>3. grant \in BOOLEAN /\ c.exists \in BOOLEAN
  BY <1>2 DEF ContactRow
<1>4. /\ step \in {"skip", "write", "failed"}
      /\ step = "failed" => Stricken("database")
      /\ step = "skip" => FileDuplicate(r) \/ Skips(c)
      /\ step = "write" => ~FileDuplicate(r) /\ ~Skips(c)
  OBVIOUS
<1>5. PICK g \in BOOLEAN : g = grant
  BY <1>3
<1>6. PICK e \in BOOLEAN : e = c.exists
  BY <1>3
<1> HIDE DEF c, next, grant
<1>7. PICK B : B = thread[t].batch \ {r} /\ B \subseteq Rows
  BY DEF ThreadRow
<1> DEFINE x == [thread[t] EXCEPT !.at = r, !.batch = B, !.pc = step, !.update = e, !.grant = g]
<1>8. x \in ThreadRow
  BY <1>4, <1>7 DEF ThreadRow
<1>9. Becomes(t, x)
  BY <1>1, <1>5, <1>6, <1>7 DEF Becomes
<1>10. x.at = r /\ x.batch = B /\ x.owner = thread[t].owner /\ x.pc = step /\ x.update = e
  BY DEF ThreadRow
<1>11. QED
  BY <1>4, <1>6, <1>7, <1>8, <1>9, <1>10 DEF c

LEMMA EndMoves ==
    ASSUME thread \in [Threads -> ThreadRow], NEW t \in Threads, NEW as, EndRow(t, as)
    PROVE  \E x \in ThreadRow :
              /\ Becomes(t, x) /\ x.pc = (IF thread[t].batch = {} THEN "check" ELSE "row")
              /\ x.batch = thread[t].batch /\ x.at = 0 /\ x.owner = thread[t].owner
<1> DEFINE x == [thread[t] EXCEPT !.at = 0, !.pc = IF thread[t].batch = {} THEN "check" ELSE "row"]
<1>1. x \in ThreadRow
  BY DEF ThreadRow
<1>2. Becomes(t, x)
  BY DEF EndRow, Becomes
<1>3. QED
  BY <1>1, <1>2 DEF ThreadRow

LEMMA StallMoves ==
    ASSUME thread \in [Threads -> ThreadRow], NEW t \in Threads, Stall(t)
    PROVE  \E x \in ThreadRow :
              /\ Becomes(t, x) /\ ~x.owner
              /\ \/ Stricken("crash") /\ x = IdleThread
                 \/ /\ Stricken("lock") /\ x.pc = thread[t].pc /\ x.batch = thread[t].batch
                    /\ x.at = thread[t].at /\ x.update = thread[t].update
<1>1. CASE Stricken("crash") /\ thread' = [thread EXCEPT ![t] = IdleThread]
  BY <1>1, IdleRow DEF Becomes
<1>2. CASE Stricken("lock") /\ thread' = [thread EXCEPT ![t].owner = FALSE]
  <2>1. [thread[t] EXCEPT !.owner = FALSE] \in ThreadRow
    BY DEF ThreadRow
  <2>2. Becomes(t, [thread[t] EXCEPT !.owner = FALSE])
    BY <1>2 DEF Becomes
  <2>3. QED
    BY <1>2, <2>1, <2>2 DEF ThreadRow
<1>3. QED
  BY <1>1, <1>2 DEF Stall

-----------------------------------------------------------------------------
(* Types and the ownership of the job.                                     *)

\* What a step of a thread does to the job in BullMQ.
Queued(t, x) ==
    \/ /\ thread[t].pc = "idle" /\ x.pc # "idle" /\ x.owner
       /\ bull = "waiting" /\ bull' = "active" /\ tries' = tries + 1 /\ stalls' = stalls
    \/ /\ thread[t].pc # "idle" /\ x.pc # "idle" /\ x.owner = thread[t].owner
       /\ UNCHANGED queueVars
    \/ /\ thread[t].pc # "idle" /\ x = IdleThread /\ UNCHANGED <<tries, stalls>>
       /\ ~thread[t].owner => bull' = bull
       /\ thread[t].owner => bull' = "over" \/ (bull' = "waiting" /\ tries < Attempts)
    \/ /\ thread[t].owner /\ ~x.owner /\ (x = IdleThread \/ (Stricken("lock") /\ x.pc = thread[t].pc))
       /\ stalls' = stalls + 1 /\ tries' = tries - 1
       /\ bull' = IF stalls < MaxStalls THEN "waiting" ELSE "over"

ThreadWork(t) == ThreadStep(t) \/ StatementFails(t) \/ Stall(t)

LEMMA ReturnMoves ==
    ASSUME thread \in [Threads -> ThreadRow], NEW t \in Threads,
           Return(t) \/ ThrowImport(t), thread[t].pc # "idle", UNCHANGED <<tries, stalls>>
    PROVE  Becomes(t, IdleThread) /\ Queued(t, IdleThread)
BY DEF Return, ThrowImport, Becomes, Queued

LEMMA TurnQueued ==
    ASSUME thread \in [Threads -> ThreadRow], NEW t \in Threads, NEW step \in ThreadSteps \ {"idle"},
           Turn(t, step), thread[t].pc # "idle", UNCHANGED queueVars
    PROVE  \E x \in ThreadRow : Becomes(t, x) /\ Queued(t, x)
BY TurnMoves DEF Queued

LEMMA EndQueued ==
    ASSUME thread \in [Threads -> ThreadRow], NEW t \in Threads, NEW as,
           EndRow(t, as), thread[t].pc # "idle", UNCHANGED queueVars
    PROVE  \E x \in ThreadRow : Becomes(t, x) /\ Queued(t, x)
<1>1. PICK x \in ThreadRow : Becomes(t, x) /\ x.pc \in {"check", "row"} /\ x.owner = thread[t].owner
  BY EndMoves
<1>2. QED
  BY <1>1 DEF Queued

LEMMA ThreadQueued ==
    ASSUME ImportTypeOK, Batches, NEW t \in Threads, ThreadWork(t)
    PROVE  \E x \in ThreadRow : Becomes(t, x) /\ Queued(t, x)
<1>1. thread \in [Threads -> ThreadRow] /\ contact \in [Phones -> ContactRow]
  BY DEF ImportTypeOK
<1>2. CASE TakeJob(t)
  BY <1>1, <1>2, TakeMoves DEF TakeJob, Queued
<1>3. CASE LoadImport(t) \/ Check(t)
  <2>1. thread[t].pc # "idle" /\ UNCHANGED <<tries, stalls>>
    BY <1>3 DEF LoadImport, Check
  <2>2. Return(t) \/ (UNCHANGED bull /\ \E step \in {"check", "list"} : Turn(t, step))
    BY <1>3 DEF LoadImport, Check
  <2>3. QED
    BY <1>1, <2>1, <2>2, ReturnMoves, TurnQueued, IdleRow DEF ThreadSteps, queueVars
<1>4. CASE ListRows(t)
  <2>1. PICK x \in ThreadRow : Becomes(t, x) /\ x.pc \in {"complete", "row"} /\ x.owner = thread[t].owner
    BY <1>1, <1>4, ListMoves
  <2>2. QED
    BY <1>4, <2>1 DEF ListRows, Queued
<1>5. ASSUME NEW r \in Rows, ReadContact(t, r) PROVE \E x \in ThreadRow : Becomes(t, x) /\ Queued(t, x)
  <2>1. thread[t].pc = "row" /\ r \in thread[t].batch /\ UNCHANGED queueVars
    BY <1>5 DEF ReadContact
  <2>2. Phone[r] \in Phones
    BY <2>1, ImportAssumption DEF Batches, ThreadBatch
  <2>3. PICK x \in ThreadRow : /\ Becomes(t, x) /\ x.owner = thread[t].owner
                               /\ x.pc \in {"failed", "skip", "write"}
    BY <1>1, <1>5, <2>2, ReadMoves
  <2>4. QED
    BY <2>1, <2>3 DEF Queued
<1>6. CASE SkipRow(t) \/ MarkImported(t) \/ MarkFailed(t)
  <2>1. /\ thread[t].pc # "idle" /\ UNCHANGED queueVars
        /\ \E as \in {"SKIPPED", "IMPORTED", "FAILED"} : EndRow(t, as)
    BY <1>6 DEF SkipRow, MarkImported, MarkFailed
  <2>2. QED
    BY <1>1, <2>1, EndQueued
<1>7. CASE WriteContact(t) \/ Label(t) \/ RecordConsent(t)
  <2>1. /\ thread[t].pc # "idle" /\ UNCHANGED queueVars
        /\ \E step \in {"skip", "label", "consent", "imported"} : Turn(t, step)
    BY <1>7 DEF WriteContact, Label, RecordConsent
  <2>2. QED
    BY <1>1, <2>1, TurnQueued DEF ThreadSteps
<1>8. CASE Complete(t) \/ MarkBroken(t)
  <2>1. /\ thread[t].pc # "idle" /\ UNCHANGED <<tries, stalls>> /\ (Return(t) \/ ThrowImport(t))
    BY <1>8 DEF Complete, MarkBroken
  <2>2. QED
    BY <1>1, <2>1, ReturnMoves, IdleRow
<1>9. CASE StatementFails(t)
  <2>1. /\ thread[t].pc # "idle" /\ UNCHANGED <<tries, stalls>>
        /\ ThrowImport(t) \/ (UNCHANGED bull /\ \E step \in {"broken", "failed"} : Turn(t, step))
    BY <1>9 DEF StatementFails
  <2>2. QED
    BY <1>1, <2>1, ReturnMoves, TurnQueued, IdleRow DEF ThreadSteps, queueVars
<1>10. CASE Stall(t)
  <2>1. PICK x \in ThreadRow : /\ Becomes(t, x) /\ ~x.owner
                               /\ x = IdleThread \/ (Stricken("lock") /\ x.pc = thread[t].pc)
    BY <1>1, <1>10, StallMoves
  <2>2. QED
    BY <1>10, <2>1 DEF Stall, Queued
<1>11. QED
  BY <1>2, <1>3, <1>4, <1>5, <1>6, <1>7, <1>8, <1>9, <1>10 DEF ThreadWork, ThreadStep

LEMMA OwnedByThread ==
    ASSUME ImportTypeOK, ImportOwned, Batches, NEW t \in Threads, ThreadWork(t), UNCHANGED importEnv
    PROVE  /\ ImportOwned' /\ thread' \in [Threads -> ThreadRow]
           /\ bull' \in {"none", "waiting", "active", "over"}
           /\ tries' \in 0..Attempts /\ stalls' \in 0..MaxStalls + 1
<1>1. thread \in [Threads -> ThreadRow] /\ tries \in 0..Attempts /\ stalls \in 0..MaxStalls + 1
      /\ bull \in {"none", "waiting", "active", "over"}
  BY DEF ImportTypeOK
<1>2. PICK x \in ThreadRow : Becomes(t, x) /\ Queued(t, x)
  BY ThreadQueued
<1>3. /\ thread' \in [Threads -> ThreadRow] /\ thread'[t] = x
      /\ \A u \in Threads \ {t} : thread'[u] = thread[u]
  BY <1>1, <1>2, BecomesRow
<1>4. thread[t].pc = "idle" => ~thread[t].owner
  BY IdleRow DEF ImportOwned
<1>5. x.pc = "idle" => x = IdleThread
  BY <1>2, <1>4 DEF Queued
<1>6. (Stricken("lock")' <=> Stricken("lock")) /\ Attempts \in Nat /\ MaxStalls \in Nat
  BY ImportAssumption DEF Stricken
<1>7. QED
  <2>1. bull' \in {"none", "waiting", "active", "over"} /\ tries' \in 0..Attempts /\ stalls' \in 0..MaxStalls + 1
    BY <1>1, <1>2, <1>6 DEF Queued, ImportOwned, queueVars
  <2>2. \A u \in Threads : thread'[u].pc = "idle" => thread'[u] = IdleThread
    BY <1>3, <1>5 DEF ImportOwned
  <2>3. \A u \in Threads : thread'[u].owner => bull' = "active" /\ tries' > 0
    BY <1>1, <1>2, <1>3, <1>4, <1>6, IdleRow DEF Queued, ImportOwned, queueVars
  <2>4. \A u \in Threads : thread'[u].pc # "idle" => bull' # "none" /\ (Stricken("lock") \/ thread'[u].owner)
    BY <1>1, <1>2, <1>3, <1>4, IdleRow DEF Queued, ImportOwned, queueVars
  <2>5. \A u, v \in Threads : thread'[u].owner /\ thread'[v].owner => u = v
    BY <1>2, <1>3, <1>4, IdleRow DEF Queued, ImportOwned, queueVars
  <2>6. /\ bull' = "none" => tries' = 0
        /\ bull' = "waiting" => tries' < Attempts
        /\ bull' # "over" => stalls' <= MaxStalls
    BY <1>1, <1>2, <1>4, <1>6, IdleRow DEF Queued, ImportOwned, queueVars
  <2>7. QED
    BY <1>3, <1>6, <2>1, <2>2, <2>3, <2>4, <2>5, <2>6 DEF ImportOwned

-----------------------------------------------------------------------------
(* What a thread does: it rests, goes on, lists rows, reads a contact,     *)
(* works on its row, ends it, or loses its lock.                           *)

Working == {"list", "row"} \cup OnRow
Kept(t, x) == x.batch = thread[t].batch /\ x.at = thread[t].at

Rests(t, x) ==
    /\ x.pc \notin Working /\ x.batch \subseteq thread[t].batch
    /\ x.pc = "complete" => FirstRows = {}
    /\ UNCHANGED <<row, contact, overrun>>
    /\ \/ UNCHANGED importJob
       \/ importJob' = "FAILED"
       \/ importJob' = "COMPLETED" /\ thread[t].pc = "complete"
GoesOnWith(t, x) ==
    /\ thread[t].pc = "check" /\ x.pc = "list" /\ Kept(t, x)
    /\ ~Cancelled /\ UNCHANGED <<importRows, overrun>>
Lists(t, x) ==
    /\ thread[t].pc = "list" /\ x.pc = "row" /\ x.batch = FirstRows
    /\ UNCHANGED <<importRows, overrun>>
Reads(t, x) ==
    /\ thread[t].pc = "row" /\ x.pc \in {"skip", "write", "failed"}
    /\ x.at \in thread[t].batch /\ x.batch = thread[t].batch \ {x.at}
    /\ UNCHANGED <<importRows, overrun>>
WorksOn(t, x) ==
    /\ thread[t].pc \in OnRow /\ x.pc \in OnRow /\ Kept(t, x)
    /\ UNCHANGED <<importJob, row, overrun>>
Ends(t, x) ==
    /\ thread[t].pc \in OnRow /\ x.pc \in {"check", "row"} /\ x.batch = thread[t].batch
    /\ \E as \in {"SKIPPED", "IMPORTED", "FAILED"} : row' = [row EXCEPT ![thread[t].at] = as]
    /\ overrun' = IF Cancelled THEN overrun + 1 ELSE overrun
    /\ UNCHANGED <<importJob, contact>>
Loses(t, x) ==
    /\ x.pc = thread[t].pc /\ Kept(t, x)
    /\ UNCHANGED <<importRows, overrun>>

Control(t, x) ==
    \/ Rests(t, x) \/ GoesOnWith(t, x) \/ Lists(t, x) \/ Reads(t, x)
    \/ WorksOn(t, x) \/ Ends(t, x) \/ Loses(t, x)

LEMMA ReturnRests ==
    ASSUME thread \in [Threads -> ThreadRow], NEW t \in Threads, Return(t) \/ ThrowImport(t),
           UNCHANGED <<row, contact, overrun>>,
           \/ UNCHANGED importJob
           \/ importJob' = "FAILED"
           \/ importJob' = "COMPLETED" /\ thread[t].pc = "complete"
    PROVE  Becomes(t, IdleThread) /\ Control(t, IdleThread)
BY IdleRow DEF Return, ThrowImport, Becomes, Control, Rests, Working, OnRow

LEMMA ThreadControl ==
    ASSUME ImportTypeOK, Batches, NEW t \in Threads, ThreadWork(t)
    PROVE  \E x \in ThreadRow : Becomes(t, x) /\ Control(t, x)
<1>1. thread \in [Threads -> ThreadRow] /\ contact \in [Phones -> ContactRow]
  BY DEF ImportTypeOK
<1>2. CASE TakeJob(t)
  <2>1. PICK x \in ThreadRow : Becomes(t, x) /\ x.pc = "load" /\ x.batch = {}
    BY <1>1, <1>2, TakeMoves
  <2>2. QED
    BY <1>2, <2>1 DEF TakeJob, Control, Rests, Working, OnRow, importRows
<1>3. CASE LoadImport(t) \/ Check(t)
  <2>1. CASE Return(t)
    BY <1>1, <1>3, <2>1, ReturnRests, IdleRow DEF LoadImport, Check, importRows
  <2>2. CASE Turn(t, "check") /\ LoadImport(t)
    <3>1. PICK x \in ThreadRow : Becomes(t, x) /\ x.pc = "check" /\ x.batch = thread[t].batch
      BY <1>1, <2>2, TurnMoves DEF ThreadSteps
    <3>2. QED
      BY <2>2, <3>1 DEF LoadImport, Control, Rests, Working, OnRow, importRows
  <2>3. CASE Turn(t, "list") /\ Check(t) /\ ~Cancelled
    <3>1. PICK x \in ThreadRow : Becomes(t, x) /\ x.pc = "list" /\ Kept(t, x)
      BY <1>1, <2>3, TurnMoves DEF ThreadSteps, Kept
    <3>2. QED
      BY <2>3, <3>1 DEF Check, Control, GoesOnWith
  <2>4. QED
    BY <1>3, <2>1, <2>2, <2>3 DEF LoadImport, Check, GoesOn
<1>4. CASE ListRows(t)
  <2>1. PICK x \in ThreadRow : /\ Becomes(t, x) /\ x.pc = (IF FirstRows = {} THEN "complete" ELSE "row")
                               /\ x.batch = FirstRows
    BY <1>1, <1>4, ListMoves
  <2>2. CASE FirstRows = {}
    BY <1>4, <2>1, <2>2 DEF ListRows, Control, Rests, Working, OnRow, importRows
  <2>3. CASE FirstRows # {}
    BY <1>4, <2>1, <2>3 DEF ListRows, Control, Lists
  <2>4. QED
    BY <2>2, <2>3
<1>5. ASSUME NEW r \in Rows, ReadContact(t, r) PROVE \E x \in ThreadRow : Becomes(t, x) /\ Control(t, x)
  <2>1. thread[t].pc = "row" /\ r \in thread[t].batch /\ UNCHANGED <<importRows, overrun>>
    BY <1>5 DEF ReadContact
  <2>2. Phone[r] \in Phones
    BY <2>1, ImportAssumption DEF Batches, ThreadBatch
  <2>3. PICK x \in ThreadRow : /\ Becomes(t, x) /\ x.at = r /\ x.batch = thread[t].batch \ {r}
                               /\ x.pc \in {"failed", "skip", "write"}
    BY <1>1, <1>5, <2>2, ReadMoves
  <2>4. QED
    BY <2>1, <2>3 DEF Control, Reads
<1>6. CASE SkipRow(t) \/ MarkImported(t) \/ MarkFailed(t)
  <2>1. PICK as \in {"SKIPPED", "IMPORTED", "FAILED"} : EndRow(t, as)
    BY <1>6 DEF SkipRow, MarkImported, MarkFailed
  <2>2. thread[t].pc \in OnRow /\ UNCHANGED <<importJob, contact>>
    BY <1>6 DEF SkipRow, MarkImported, MarkFailed, OnRow
  <2>3. PICK x \in ThreadRow : Becomes(t, x) /\ x.pc \in {"check", "row"} /\ x.batch = thread[t].batch
    BY <1>1, <2>1, EndMoves
  <2>4. QED
    BY <2>1, <2>2, <2>3 DEF EndRow, Control, Ends
<1>7. CASE \/ WriteContact(t) \/ Label(t) \/ RecordConsent(t)
           \/ /\ StatementFails(t) /\ Turn(t, "failed")
              /\ thread[t].pc \in {"skip", "write", "label", "imported"}
  <2>1. PICK step \in {"skip", "label", "consent", "imported", "failed"} : Turn(t, step)
    BY <1>7 DEF WriteContact, Label, RecordConsent
  <2>2. thread[t].pc \in OnRow /\ UNCHANGED <<importJob, row, overrun>>
    BY <1>7 DEF WriteContact, Label, RecordConsent, StatementFails, OnRow, importRows
  <2>3. PICK x \in ThreadRow : Becomes(t, x) /\ x.pc = step /\ Kept(t, x)
    BY <1>1, <2>1, TurnMoves DEF ThreadSteps, Kept
  <2>4. x.pc \in OnRow
    BY <2>3 DEF OnRow
  <2>5. QED
    BY <2>2, <2>3, <2>4 DEF Control, WorksOn
<1>8. CASE Complete(t) \/ MarkBroken(t)
  BY <1>1, <1>8, ReturnRests, IdleRow DEF Complete, MarkBroken
<1>9. CASE StatementFails(t)
  <2>1. CASE ThrowImport(t)
    BY <1>1, <1>9, <2>1, ReturnRests, IdleRow DEF StatementFails, importRows
  <2>2. CASE Turn(t, "broken")
    <3>1. PICK x \in ThreadRow : Becomes(t, x) /\ x.pc = "broken" /\ x.batch = thread[t].batch
      BY <1>1, <2>2, TurnMoves DEF ThreadSteps
    <3>2. QED
      BY <1>9, <3>1 DEF StatementFails, Control, Rests, Working, OnRow, importRows
  <2>3. CASE Turn(t, "failed") /\ thread[t].pc \in {"skip", "write", "label", "imported"}
    BY <1>7, <1>9, <2>3
  <2>4. thread[t].pc \in ThreadSteps
    BY <1>1 DEF ThreadRow, ThreadSteps
  <2>5. QED
    BY <1>9, <2>1, <2>2, <2>3, <2>4 DEF StatementFails, ThreadSteps
<1>10. CASE Stall(t)
  <2>1. UNCHANGED <<importRows, overrun>>
    BY <1>10 DEF Stall
  <2>2. PICK x \in ThreadRow : /\ Becomes(t, x)
                               /\ x = IdleThread \/ (x.pc = thread[t].pc /\ Kept(t, x))
    BY <1>1, <1>10, StallMoves DEF Kept
  <2>3. QED
    BY <2>1, <2>2, IdleRow DEF Control, Rests, Loses, Working, OnRow, importRows
<1>11. QED
  BY <1>2, <1>3, <1>4, <1>5, <1>6, <1>7, <1>8, <1>9, <1>10 DEF ThreadWork, ThreadStep

-----------------------------------------------------------------------------
(* Batches.                                                                *)

ValidRows == {r \in Rows : row[r] = "VALID"}

LEMMA FirstRowsFew ==
    /\ FirstRows \subseteq ValidRows /\ IsFiniteSet(FirstRows) /\ Cardinality(FirstRows) <= RowBatch
    /\ FirstRows = {} => ValidRows = {}
<1>1. ValidRows \in SUBSET Nat /\ IsFiniteSet(ValidRows)
  BY ImportAssumption, FS_Subset DEF ValidRows
<1>2. FirstRows = {r \in ValidRows : Cardinality({q \in ValidRows : q < r}) < RowBatch}
  <2>1. \A r \in Rows : {q \in Rows : q < r /\ row[q] = "VALID"} = {q \in ValidRows : q < r}
    BY DEF ValidRows
  <2>2. QED
    BY <2>1 DEF FirstRows, ValidRows
<1>3. QED
  BY <1>1, <1>2, FirstFew, ImportAssumption

\* One row fewer.
LEMMA OneRowLess ==
    ASSUME NEW B \in SUBSET Rows, NEW r \in B
    PROVE  Cardinality(B \ {r}) = Cardinality(B) - 1 /\ Cardinality(B) \in Nat \ {0}
           /\ Cardinality(B \ {r}) \in Nat
<1>1. IsFiniteSet(B) /\ IsFiniteSet(B \ {r})
  BY ImportAssumption, FS_Subset
<1>2. QED
  BY <1>1, FS_RemoveElement, FS_CardinalityType

LEMMA BatchSize ==
    ASSUME NEW B \in SUBSET Rows
    PROVE  IsFiniteSet(B) /\ Cardinality(B) \in Nat
BY ImportAssumption, FS_Subset, FS_CardinalityType

LEMMA BatchesByThread ==
    ASSUME ImportTypeOK, Batches, NEW t \in Threads, ThreadWork(t)
    PROVE  /\ Batches' /\ overrun' \in Nat
           /\ row' \in [Rows -> {"PENDING", "VALID", "INVALID", "IMPORTED", "SKIPPED", "FAILED"}]
           /\ importJob' \in JobStatus
           /\ \A r \in Rows : row'[r] = row[r] \/ row'[r] # "VALID"
<1>1. PICK x \in ThreadRow : Becomes(t, x) /\ Control(t, x)
  BY ThreadControl
<1>2. /\ thread' \in [Threads -> ThreadRow] /\ thread'[t] = x
      /\ \A u \in Threads \ {t} : thread'[u] = thread[u]
  BY <1>1, BecomesRow DEF ImportTypeOK
<1>3. /\ row' \in [Rows -> {"PENDING", "VALID", "INVALID", "IMPORTED", "SKIPPED", "FAILED"}]
      /\ \A r \in Rows : row'[r] = row[r] \/ row'[r] # "VALID"
  BY <1>1 DEF Control, Rests, GoesOnWith, Lists, Reads, WorksOn, Ends, Loses, importRows, ImportTypeOK
<1>4. importJob' \in JobStatus /\ overrun' \in Nat
  BY <1>1 DEF Control, Rests, GoesOnWith, Lists, Reads, WorksOn, Ends, Loses, importRows, ImportTypeOK, JobStatus
<1>5. /\ x.batch \subseteq Rows \ Unusable
      /\ x.pc = "row" => Cardinality(x.batch) <= RowBatch
      /\ x.pc \in OnRow =>
            /\ x.at \in Rows \ Unusable /\ x.at \notin x.batch
            /\ Cardinality(x.batch) < RowBatch
  <2> USE DEF Batches, ThreadBatch
  <2>1. CASE Rests(t, x)
    BY <2>1 DEF Rests, Working
  <2>2. CASE GoesOnWith(t, x)
    BY <2>2 DEF GoesOnWith, Kept, OnRow
  <2>3. CASE Lists(t, x)
    BY <2>3, FirstRowsFew DEF Lists, ValidRows, OnRow
  <2>4. CASE Reads(t, x)
    <3>1. thread[t].batch \in SUBSET Rows /\ x.at \in thread[t].batch
      BY <2>4 DEF Reads
    <3>2. /\ Cardinality(x.batch) = Cardinality(thread[t].batch) - 1
          /\ Cardinality(thread[t].batch) \in Nat /\ Cardinality(thread[t].batch) <= RowBatch
      BY <2>4, <3>1, OneRowLess DEF Reads
    <3>3. Cardinality(x.batch) < RowBatch
      BY <3>2, ImportAssumption
    <3>4. QED
      BY <2>4, <3>3 DEF Reads
  <2>5. CASE WorksOn(t, x) \/ Loses(t, x)
    BY <2>5 DEF WorksOn, Loses, Kept, OnRow
  <2>6. CASE Ends(t, x)
    <3>1. Cardinality(x.batch) \in Nat
      BY <2>6, BatchSize DEF Ends
    <3>2. QED
      BY <2>6, <3>1, ImportAssumption DEF Ends, OnRow
  <2>7. QED
    BY <1>1, <2>1, <2>2, <2>3, <2>4, <2>5, <2>6 DEF Control
<1>6. QED
  BY <1>2, <1>3, <1>4, <1>5 DEF Batches, ThreadBatch

-----------------------------------------------------------------------------
(* After a cancellation.                                                   *)

LEMMA BacklogBound ==
    ASSUME ImportTypeOK, Batches
    PROVE  Backlogs \in [Threads -> Nat] /\ \A t \in Threads : Backlog(t) <= RowBatch
<1> SUFFICES ASSUME NEW t \in Threads PROVE Backlog(t) \in Nat /\ Backlog(t) <= RowBatch
  BY DEF Backlogs
<1>1. Cardinality(thread[t].batch) \in Nat
  BY BatchSize DEF Batches, ThreadBatch
<1>2. QED
  BY <1>1, ImportAssumption DEF Backlog, Batches, ThreadBatch, OnRow

\* The rows under way when an import is canceled are within the limit.
LEMMA BacklogLimit ==
    ASSUME ImportTypeOK, ImportOwned, Batches
    PROVE  SumFunctionOnSet(Backlogs, Threads) <= Limit
<1>1. PICK f \in [Threads -> Nat] : f = Backlogs
  BY BacklogBound
<1>2. \A t \in Threads : f[t] <= RowBatch
  BY <1>1, BacklogBound DEF Backlogs
<1>3. IsFiniteSet(Threads) /\ RowBatch \in Nat
  BY ImportAssumption
<1>4. CASE Stricken("lock")
  <2>1. SumFunctionOnSet(f, Threads) <= RowBatch * Cardinality(Threads)
    BY <1>2, <1>3, SumBound
  <2>2. QED
    BY <1>1, <1>4, <2>1 DEF Limit
<1>5. CASE ~Stricken("lock")
  <2>1. CASE \A t \in Threads : f[t] = 0
    <3>1. SumFunctionOnSet(f, Threads) = 0
      BY <1>3, <2>1, SumZero
    <3>2. QED
      BY <1>1, <1>3, <1>5, <3>1 DEF Limit
  <2>2. ASSUME NEW t \in Threads, f[t] # 0 PROVE SumFunctionOnSet(f, Threads) <= RowBatch
    <3>1. \A u \in Threads \ {t} : f[u] = 0
      <4>1. \A u \in Threads : f[u] # 0 => thread[u].owner
        BY <1>1, <1>5 DEF Backlogs, Backlog, OnRow, ImportOwned
      <4>2. QED
        BY <2>2, <4>1 DEF ImportOwned
    <3>2. SumFunctionOnSet(f, Threads \ {t}) = 0
      BY <1>3, <3>1, SumZero, FS_RemoveElement
    <3>3. SumFunctionOnSet(f, Threads) = f[t] + SumFunctionOnSet(f, Threads \ {t})
      BY <1>3, SumRemove
    <3>4. QED
      BY <1>2, <3>2, <3>3
  <2>3. QED
    BY <1>1, <1>3, <1>5, <2>1, <2>2 DEF Limit
<1>6. QED
  BY <1>4, <1>5

\* A row that is decided was under way.
LEMMA OverrunByThread ==
    ASSUME ImportTypeOK, ImportTypeOK', ImportOwned, Batches, Batches', OverrunBounded,
           NEW t \in Threads, ThreadWork(t), UNCHANGED importEnv
    PROVE  OverrunBounded'
<1>1. PICK x \in ThreadRow : Becomes(t, x) /\ Control(t, x)
  BY ThreadControl
<1>2. /\ thread' \in [Threads -> ThreadRow] /\ thread'[t] = x
      /\ \A u \in Threads \ {t} : thread'[u] = thread[u]
  BY <1>1, BecomesRow DEF ImportTypeOK
<1>3. Limit' = Limit
  BY DEF Limit, Stricken
<1>4. PICK f \in [Threads -> Nat] : f = Backlogs
  BY BacklogBound
<1>5. PICK g \in [Threads -> Nat] : g = Backlogs'
  <2>1. ASSUME NEW u \in Threads PROVE Backlog(u)' \in Nat
    <3>1. Cardinality(thread'[u].batch) \in Nat
      BY BatchSize DEF Batches, ThreadBatch
    <3>2. QED
      BY <3>1, ImportAssumption DEF Backlog
  <2>2. QED
    BY <2>1 DEF Backlogs
<1>6. \A u \in Threads \ {t} : g[u] = f[u]
  BY <1>2, <1>4, <1>5 DEF Backlogs, Backlog
<1>7. SumFunctionOnSet(g, Threads) = SumFunctionOnSet(f, Threads) - f[t] + g[t]
  BY <1>6, SumDiffers, ImportAssumption
<1>8. SumFunctionOnSet(f, Threads) \in Nat /\ SumFunctionOnSet(g, Threads) \in Nat
  BY SumType, ImportAssumption
<1>9. overrun \in Nat /\ overrun' \in Nat
  BY DEF ImportTypeOK
<1>10. Limit \in Int
  BY FS_CardinalityType, ImportAssumption DEF Limit
<1>11. f[t] = Backlog(t) /\ g[t] = Backlog(t)'
  BY <1>4, <1>5 DEF Backlogs
<1>12. Cancelled' => Cancelled /\ UNCHANGED importJob
  BY <1>1 DEF Control, Rests, GoesOnWith, Lists, Reads, WorksOn, Ends, Loses, Cancelled, importRows
<1>13. ~Cancelled => overrun' = overrun
  BY <1>1 DEF Control, Rests, GoesOnWith, Lists, Reads, WorksOn, Ends, Loses, importRows
<1>14. ASSUME Cancelled PROVE overrun' + g[t] <= overrun + f[t]
  <2>1. CASE Rests(t, x)
    <3>1. g[t] = 0
      BY <1>2, <1>11, <2>1 DEF Rests, Working, OnRow, Backlog
    <3>2. QED
      BY <1>9, <2>1, <3>1 DEF Rests
  <2>2. CASE GoesOnWith(t, x)
    BY <1>14, <2>2 DEF GoesOnWith
  <2>3. CASE Lists(t, x)
    <3>1. f[t] = RowBatch /\ g[t] = Cardinality(FirstRows)
      BY <1>2, <1>11, <2>3 DEF Lists, OnRow, Backlog
    <3>2. QED
      BY <1>9, <2>3, <3>1, FirstRowsFew, ImportAssumption DEF Lists
  <2>4. CASE Reads(t, x)
    <3>1. Cardinality(x.batch) = Cardinality(thread[t].batch) - 1 /\ Cardinality(thread[t].batch) \in Nat
      BY <2>4, OneRowLess DEF Reads, Batches, ThreadBatch
    <3>2. f[t] = Cardinality(thread[t].batch) /\ g[t] = Cardinality(x.batch) + 1
      BY <1>2, <1>11, <2>4 DEF Reads, OnRow, Backlog
    <3>3. QED
      BY <1>9, <2>4, <3>1, <3>2 DEF Reads
  <2>5. CASE WorksOn(t, x)
    <3>1. g[t] = f[t]
      BY <1>2, <1>11, <2>5 DEF WorksOn, Kept, OnRow, Backlog
    <3>2. QED
      BY <1>9, <2>5, <3>1 DEF WorksOn
  <2>6. CASE Ends(t, x)
    <3>1. Cardinality(thread[t].batch) \in Nat
      BY BatchSize DEF Batches, ThreadBatch
    <3>2. f[t] = Cardinality(thread[t].batch) + 1 /\ g[t] \in {0, Cardinality(thread[t].batch)}
      BY <1>2, <1>11, <2>6 DEF Ends, OnRow, Backlog
    <3>3. overrun' = overrun + 1
      BY <1>14, <2>6 DEF Ends
    <3>4. QED
      BY <1>9, <3>1, <3>2, <3>3
  <2>7. CASE Loses(t, x)
    <3>1. g[t] = f[t]
      BY <1>2, <1>11, <2>7 DEF Loses, Kept, OnRow, Backlog
    <3>2. QED
      BY <1>9, <2>7, <3>1 DEF Loses
  <2>8. QED
    BY <1>1, <2>1, <2>2, <2>3, <2>4, <2>5, <2>6, <2>7 DEF Control
<1>15. CASE ~Cancelled
  BY <1>3, <1>12, <1>13, <1>15 DEF OverrunBounded
<1>16. CASE Cancelled
  <2>1. overrun + SumFunctionOnSet(f, Threads) <= Limit
    BY <1>4, <1>16 DEF OverrunBounded
  <2>2. overrun' + SumFunctionOnSet(g, Threads) <= Limit /\ overrun' <= Limit
    BY <1>7, <1>8, <1>9, <1>10, <1>14, <1>16, <2>1
  <2>3. QED
    BY <1>3, <1>5, <2>2 DEF OverrunBounded
<1>17. QED
  BY <1>15, <1>16

-----------------------------------------------------------------------------
(* The order of requests and worker.                                       *)

\* Rows are decided for good once the import has started.
LEMMA OrderByThread ==
    ASSUME ImportTypeOK, ImportOwned, Batches, InOrder, Decided, NEW t \in Threads, ThreadWork(t),
           UNCHANGED click
    PROVE  InOrder' /\ Decided' /\ Started
<1>1. PICK x \in ThreadRow : Becomes(t, x) /\ Control(t, x)
  BY ThreadControl
<1>2. PICK y \in ThreadRow : Becomes(t, y) /\ Queued(t, y)
  BY ThreadQueued
<1>3. /\ thread' \in [Threads -> ThreadRow] /\ thread'[t] = x
      /\ \A u \in Threads \ {t} : thread'[u] = thread[u]
  BY <1>1, BecomesRow DEF ImportTypeOK
<1>4. bull # "none"
  BY <1>2, IdleRow DEF Queued, ImportOwned, queueVars
<1>5. Started
  BY <1>4 DEF InOrder, BeforeStart
<1>6. importJob' \in {importJob, "FAILED", "COMPLETED"}
      /\ (importJob' = "COMPLETED" => importJob = "COMPLETED" \/ thread[t].pc = "complete")
  BY <1>1 DEF Control, Rests, GoesOnWith, Lists, Reads, WorksOn, Ends, Loses, importRows
<1>7. \A r \in Rows : row'[r] = row[r] \/ row'[r] # "VALID"
  BY BatchesByThread
<1>8. AllDecided => AllDecided'
  BY <1>7 DEF AllDecided
<1>9. x.pc = "complete" => AllDecided
  <2>1. CASE Rests(t, x)
    BY <2>1, FirstRowsFew DEF Rests, ValidRows, AllDecided
  <2>2. CASE ~Rests(t, x)
    BY <1>1, <2>2 DEF Control, GoesOnWith, Lists, Reads, WorksOn, Ends, Loses, OnRow, Decided
  <2>3. QED
    BY <2>1, <2>2
<1>10. Started'
  BY <1>5, <1>6 DEF Started
<1>11. InOrder'
  BY <1>10 DEF InOrder
<1>12. Decided'
  BY <1>3, <1>6, <1>8, <1>9 DEF Decided
<1>13. QED
  BY <1>5, <1>11, <1>12

-----------------------------------------------------------------------------
(* Contacts, their tags and lists.                                         *)

\* What is asked of a contact row is not lost.
SameMarks(p) ==
    /\ contact'[p].ours = contact[p].ours /\ contact'[p].listed = contact[p].listed
    /\ contact[p].exists => contact'[p].exists

LEMMA ContactWritten ==
    ASSUME contact \in [Phones -> ContactRow], NEW p \in Phones, NEW c \in ContactRow,
           contact' = [contact EXCEPT ![p] = c]
    PROVE  /\ contact' \in [Phones -> ContactRow] /\ contact'[p] = c
           /\ \A q \in Phones \ {p} : contact'[q] = contact[q]
OBVIOUS

\* One field is written.
LEMMA FieldWritten ==
    ASSUME contact \in [Phones -> ContactRow], NEW p \in Phones,
           \/ \E b \in {"GRANTED", "REVOKED"} : contact' = [contact EXCEPT ![p].consent = b]
           \/ contact' = [contact EXCEPT ![p].out = TRUE]
           \/ contact' = [contact EXCEPT ![p].exists = TRUE]
    PROVE  contact' \in [Phones -> ContactRow] /\ \A q \in Phones : SameMarks(q)
<1>1. /\ \A b \in {"GRANTED", "REVOKED"} : [contact[p] EXCEPT !.consent = b] \in ContactRow
      /\ [contact[p] EXCEPT !.out = TRUE] \in ContactRow
      /\ [contact[p] EXCEPT !.exists = TRUE] \in ContactRow
  BY DEF ContactRow
<1>2. contact' \in [Phones -> ContactRow]
  BY <1>1
<1>3. \A q \in Phones : SameMarks(q)
  BY <1>1 DEF SameMarks, ContactRow
<1>4. QED
  BY <1>2, <1>3

LEMMA WriteWritten ==
    ASSUME contact \in [Phones -> ContactRow], NEW t \in Threads, Phone[thread[t].at] \in Phones, WriteContact(t)
    PROVE  LET p == Phone[thread[t].at] IN
           /\ contact' \in [Phones -> ContactRow]
           /\ \A q \in Phones \ {p} : SameMarks(q)
           /\ \/ thread[t].update /\ Turn(t, "label") /\ SameMarks(p)
              \/ ~thread[t].update /\ Turn(t, "skip") /\ SameMarks(p)
              \/ /\ Turn(t, "label") /\ contact'[p].exists /\ contact'[p].listed = contact[p].listed
<1> DEFINE p == Phone[thread[t].at]
<1>1. PICK granted \in ContactRow :
          /\ granted = [contact[p] EXCEPT !.consent = "GRANTED"]
          /\ granted.ours = contact[p].ours /\ granted.listed = contact[p].listed
          /\ granted.exists = contact[p].exists
  <2>1. contact[p] \in ContactRow
    OBVIOUS
  <2>2. [contact[p] EXCEPT !.consent = "GRANTED"] \in ContactRow
    BY <2>1 DEF ContactRow
  <2>3. QED
    BY <2>1, <2>2 DEF ContactRow
<1>2. PICK made \in ContactRow :
          /\ made = [granted EXCEPT !.exists = TRUE, !.ours = TRUE]
          /\ made.exists /\ made.listed = granted.listed
  <2>1. [granted EXCEPT !.exists = TRUE, !.ours = TRUE] \in ContactRow
    BY DEF ContactRow
  <2>2. QED
    BY <2>1 DEF ContactRow
<1>3. CASE thread[t].update
  <2>1. Turn(t, "label") /\ \E c \in {granted, contact[p]} : contact' = [contact EXCEPT ![p] = c]
    BY <1>1, <1>3 DEF WriteContact
  <2>2. PICK c \in ContactRow :
            /\ contact' = [contact EXCEPT ![p] = c]
            /\ c.ours = contact[p].ours /\ c.listed = contact[p].listed /\ c.exists = contact[p].exists
    BY <1>1, <2>1
  <2>3. QED
    BY <1>3, <2>1, <2>2, ContactWritten DEF SameMarks
<1>4. CASE ~thread[t].update /\ contact[p].exists
  BY <1>4 DEF WriteContact, SameMarks
<1>5. CASE ~thread[t].update /\ ~contact[p].exists
  <2>1. Turn(t, "label") /\ contact' = [contact EXCEPT ![p] = made]
    BY <1>1, <1>2, <1>5 DEF WriteContact
  <2>2. QED
    BY <1>1, <1>2, <2>1, ContactWritten DEF SameMarks
<1>6. QED
  BY <1>3, <1>4, <1>5

LEMMA LabelWritten ==
    ASSUME contact \in [Phones -> ContactRow], NEW p \in Phones,
           contact' = [contact EXCEPT ![p].listed = TRUE]
    PROVE  /\ contact' \in [Phones -> ContactRow] /\ contact'[p].listed
           /\ contact'[p].ours = contact[p].ours /\ contact'[p].exists = contact[p].exists
           /\ \A q \in Phones \ {p} : contact'[q] = contact[q]
<1>1. [contact[p] EXCEPT !.listed = TRUE] \in ContactRow
  BY DEF ContactRow
<1>2. QED
  BY <1>1 DEF ContactRow

LEMMA RowPhone ==
    ASSUME Batches, NEW t \in Threads, thread[t].pc \in OnRow
    PROVE  thread[t].at \in Rows \ Unusable /\ Phone[thread[t].at] \in Phones
BY ImportAssumption DEF Batches, ThreadBatch

LEMMA ContactsTyped ==
    ASSUME ImportTypeOK, Batches, NEW t \in Threads, ThreadWork(t)
    PROVE  contact' \in [Phones -> ContactRow]
<1>1. contact \in [Phones -> ContactRow]
  BY DEF ImportTypeOK
<1>2. CASE WriteContact(t)
  <2>1. thread[t].pc \in OnRow
    BY <1>2 DEF WriteContact, OnRow
  <2>2. QED
    BY <1>1, <1>2, <2>1, RowPhone, WriteWritten
<1>3. CASE Label(t)
  <2>1. thread[t].pc \in OnRow
    BY <1>3 DEF Label, OnRow
  <2>2. QED
    BY <1>1, <1>3, <2>1, RowPhone, LabelWritten DEF Label
<1>4. CASE RecordConsent(t)
  <2>1. thread[t].pc \in OnRow
    BY <1>4 DEF RecordConsent, OnRow
  <2>2. QED
    BY <1>1, <1>4, <2>1, RowPhone, FieldWritten DEF RecordConsent
<1>5. CASE ~(WriteContact(t) \/ Label(t) \/ RecordConsent(t))
  <2>1. UNCHANGED contact
    BY <1>5 DEF ThreadWork, ThreadStep, TakeJob, LoadImport, Check, ListRows, ReadContact, SkipRow, MarkImported,
                MarkFailed, Complete, MarkBroken, StatementFails, Stall, importRows
  <2>2. QED
    BY <1>1, <2>1
<1>6. QED
  BY <1>2, <1>3, <1>4, <1>5

\* While workers crash and keep their locks, one thread works at a time.
LEMMA WorksAlone ==
    ASSUME ImportTypeOK, ImportOwned, Batches, ~Stricken("lock"), NEW t \in Threads, ThreadWork(t)
    PROVE  \A u \in Threads \ {t} : thread[u] = IdleThread
<1>1. PICK x \in ThreadRow : Queued(t, x)
  BY ThreadQueued
<1>2. \A u \in Threads : thread[u].pc # "idle" => thread[u].owner /\ bull = "active"
  BY DEF ImportOwned
<1>3. thread[t].pc = "idle" => bull = "waiting"
  BY <1>1, IdleRow DEF Queued, ImportOwned
<1>4. QED
  BY <1>2, <1>3 DEF ImportOwned

\* What is left to show of a step that makes a thread x: its row, and the
\* contacts that it made or leaves.
LEMMA FollowedOthers ==
    ASSUME ImportTypeOK, ImportOwned, Batches, Undisturbed, Followed,
           NEW t \in Threads, NEW x \in ThreadRow, ThreadWork(t), Becomes(t, x),
           UNCHANGED <<importEnv, strategy>>,
           \A p \in Phones : contact'[p].ours => contact'[p].exists,
           \A p \in Phones : Unlisted(p)' => WillBeListed(p)',
           AtRow(t)'
    PROVE  Followed'
<1>1. /\ thread' \in [Threads -> ThreadRow] /\ thread'[t] = x
      /\ \A u \in Threads \ {t} : thread'[u] = thread[u]
  BY BecomesRow DEF ImportTypeOK
<1>2. ASSUME NEW u \in Threads, u # t PROVE AtRow(u)'
  <2>1. CASE Stricken("crash")
    <3>1. ~Stricken("lock")
      BY <2>1 DEF Undisturbed
    <3>2. thread'[u] = IdleThread
      BY <1>1, <1>2, <3>1, WorksAlone
    <3>3. thread'[u].pc = "idle" /\ thread'[u].batch = {}
      BY <3>2, IdleRow
    <3>4. QED
      BY <3>3 DEF AtRow, OnRow
  <2>2. CASE ~Stricken("crash")
    <3>1. thread'[u].pc \notin {"failed", "broken"}
      BY <1>1, <1>2 DEF Followed, AtRow
    <3>2. QED
      BY <2>2, <3>1 DEF AtRow, Stricken
  <2>3. QED
    BY <2>1, <2>2
<1>3. QED
  BY <1>2 DEF Followed

\* The thread is at no row, and contacts and rows stay.
LEMMA FollowedAtRest ==
    ASSUME ImportTypeOK, ImportOwned, Batches, Undisturbed, Followed,
           NEW t \in Threads, NEW x \in ThreadRow, ThreadWork(t), Becomes(t, x),
           UNCHANGED <<importEnv, strategy, row, contact>>,
           x.pc \notin OnRow \cup {"broken"},
           \A q \in x.batch : row[q] = "VALID",
           thread[t].pc = "label" => Stricken("crash")
    PROVE  Followed'
<1>1. /\ thread' \in [Threads -> ThreadRow] /\ thread'[t] = x
      /\ \A u \in Threads \ {t} : thread'[u] = thread[u]
  BY BecomesRow DEF ImportTypeOK
<1>2. AtRow(t)'
  BY <1>1 DEF AtRow, OnRow
<1>3. ASSUME NEW p \in Phones, Unlisted(p)' PROVE WillBeListed(p)'
  <2>1. WillBeListed(p)
    BY <1>3 DEF Followed, Unlisted
  <2>2. CASE \E u \in Threads \ {t} : thread[u].pc = "label" /\ Phone[thread[u].at] = p
    BY <1>1, <2>2 DEF WillBeListed
  <2>3. CASE Stricken("crash") /\ \E r \in Rows \ Unusable : Finds(r, p)
    BY <2>3 DEF WillBeListed, Finds, Stricken, FileDuplicate
  <2>4. CASE thread[t].pc = "label" /\ Phone[thread[t].at] = p
    <3>1. Stricken("crash")
      BY <2>4
    <3>2. thread[t].at \in Rows \ Unusable
      BY <2>4, RowPhone DEF OnRow
    <3>3. Finds(thread[t].at, p)
      BY <2>4, <3>1 DEF Followed, AtRow, Finds, OnRow
    <3>4. QED
      BY <3>1, <3>2, <3>3 DEF WillBeListed, Finds, Stricken, FileDuplicate
  <2>5. QED
    BY <2>1, <2>2, <2>3, <2>4 DEF WillBeListed
<1>4. \A p \in Phones : contact'[p].ours => contact'[p].exists
  BY DEF Followed
<1>5. QED
  BY <1>2, <1>3, <1>4, FollowedOthers

LEMMA FollowedQuiet ==
    ASSUME ImportTypeOK, ImportOwned, Batches, Undisturbed, Followed, NEW t \in Threads,
           \/ TakeJob(t) \/ LoadImport(t) \/ Check(t) \/ ListRows(t) \/ Complete(t)
           \/ Stall(t) /\ Stricken("crash") /\ thread' = [thread EXCEPT ![t] = IdleThread],
           UNCHANGED <<importEnv, strategy>>
    PROVE  Followed'
<1>1. thread \in [Threads -> ThreadRow] /\ ThreadWork(t) /\ UNCHANGED <<row, contact>>
  BY DEF ImportTypeOK, ThreadWork, ThreadStep, TakeJob, LoadImport, Check, ListRows, Complete, Stall, importRows
<1>2. thread[t].pc = "label" => Stricken("crash")
  BY DEF TakeJob, LoadImport, Check, ListRows, Complete
<1>3. \A q \in thread[t].batch : Stricken("crash") => row[q] = "VALID"
  BY DEF Followed, AtRow
<1>4. CASE Becomes(t, IdleThread)
  BY <1>1, <1>2, <1>4, IdleRow, FollowedAtRest DEF OnRow
<1>5. CASE TakeJob(t)
  <2>1. PICK x \in ThreadRow : Becomes(t, x) /\ x.pc = "load" /\ x.batch = {}
    BY <1>1, <1>5, TakeMoves
  <2>2. QED
    BY <1>1, <1>2, <2>1, FollowedAtRest DEF OnRow
<1>6. CASE ListRows(t)
  <2>1. PICK x \in ThreadRow : Becomes(t, x) /\ x.pc \in {"complete", "row"} /\ x.batch = FirstRows
    BY <1>1, <1>6, ListMoves
  <2>2. QED
    BY <1>1, <1>2, <2>1, FollowedAtRest DEF OnRow, FirstRows
<1>7. ASSUME LoadImport(t) \/ Check(t), NEW step \in {"check", "list"}, Turn(t, step) PROVE Followed'
  <2>1. PICK x \in ThreadRow : /\ Becomes(t, x) /\ x.pc = step
                               /\ x.batch = thread[t].batch /\ x.at = thread[t].at
    BY <1>1, <1>7, TurnMoves DEF ThreadSteps
  <2>2. CASE Stricken("crash")
    BY <1>1, <1>2, <1>3, <2>1, <2>2, FollowedAtRest DEF OnRow
  <2>3. CASE ~Stricken("crash")
    <3>1. /\ thread' \in [Threads -> ThreadRow] /\ thread'[t] = x
          /\ \A u \in Threads \ {t} : thread'[u] = thread[u]
      BY <1>1, <2>1, BecomesRow
    <3>2. AtRow(t)'
      BY <2>1, <2>3, <3>1 DEF AtRow, Stricken
    <3>3. thread[t].pc # "label"
      BY <1>7 DEF LoadImport, Check
    <3>4. \A p \in Phones : Unlisted(p)' => WillBeListed(p)'
      BY <1>1, <2>3, <3>1, <3>3 DEF Followed, Unlisted, WillBeListed
    <3>5. \A p \in Phones : contact'[p].ours => contact'[p].exists
      BY <1>1 DEF Followed
    <3>6. QED
      BY <1>1, <2>1, <3>2, <3>4, <3>5, FollowedOthers
  <2>4. QED
    BY <2>2, <2>3
<1>8. QED
  BY <1>4, <1>5, <1>6, <1>7 DEF LoadImport, Check, Complete, Return, Becomes

\* An execution that goes on without its lock.
LEMMA FollowedUnlocked ==
    ASSUME ImportTypeOK, ImportOwned, Batches, Undisturbed, Followed, NEW t \in Threads, Stall(t),
           Stricken("lock"), UNCHANGED <<importEnv, strategy>>
    PROVE  Followed'
<1>1. thread \in [Threads -> ThreadRow] /\ ThreadWork(t) /\ UNCHANGED <<row, contact>>
  BY DEF ImportTypeOK, ThreadWork, Stall, importRows
<1>2. ~Stricken("crash")
  BY DEF Undisturbed
<1>3. PICK x \in ThreadRow : /\ Becomes(t, x) /\ x.pc = thread[t].pc
                             /\ x.at = thread[t].at
  BY <1>1, <1>2, StallMoves
<1>4. /\ thread' \in [Threads -> ThreadRow] /\ thread'[t] = x
      /\ \A u \in Threads \ {t} : thread'[u] = thread[u]
  BY <1>1, <1>3, BecomesRow
<1>5. AtRow(t)'
  BY <1>2, <1>3, <1>4 DEF Followed, AtRow, Stricken
<1>6. \A p \in Phones : Unlisted(p)' => WillBeListed(p)'
  BY <1>1, <1>2, <1>3, <1>4 DEF Followed, Unlisted, WillBeListed
<1>7. \A p \in Phones : contact'[p].ours => contact'[p].exists
  BY <1>1 DEF Followed
<1>8. QED
  BY <1>1, <1>3, <1>5, <1>6, <1>7, FollowedOthers

\* A thread at another place than a contact that waits for its tags.
LEMMA StillListed ==
    ASSUME Followed, NEW t \in Threads, NEW p \in Phones, Unlisted(p),
           thread[t].pc # "label" \/ Phone[thread[t].at] # p,
           \A u \in Threads \ {t} : thread'[u] = thread[u],
           UNCHANGED importEnv,
           Stricken("crash") => \A r \in Rows \ Unusable : Finds(r, p) => row'[r] = "VALID"
    PROVE  WillBeListed(p)'
<1>1. WillBeListed(p)
  BY DEF Followed
<1>2. \A r \in Rows : Stricken("crash") /\ r \notin Unusable /\ Finds(r, p) => Finds(r, p)'
  BY DEF Finds, FileDuplicate
<1>3. QED
  BY <1>1, <1>2 DEF WillBeListed, Stricken

LEMMA FollowedRead ==
    ASSUME ImportTypeOK, ImportOwned, Batches, Undisturbed, Followed, NEW t \in Threads,
           NEW r \in Rows, ReadContact(t, r), UNCHANGED <<importEnv, strategy>>
    PROVE  Followed'
<1>1. thread \in [Threads -> ThreadRow] /\ contact \in [Phones -> ContactRow] /\ ThreadWork(t)
  BY DEF ImportTypeOK, ThreadWork, ThreadStep
<1>2. thread[t].pc = "row" /\ r \in thread[t].batch /\ UNCHANGED <<row, contact>>
  BY DEF ReadContact, importRows
<1>3. Phone[r] \in Phones
  BY <1>2, ImportAssumption DEF Batches, ThreadBatch
<1>4. ~Stricken("database")
  BY DEF Undisturbed, Stricken
<1>5. PICK x \in ThreadRow :
          /\ Becomes(t, x) /\ x.at = r /\ x.batch = thread[t].batch \ {r}
          /\ \/ x.pc = "skip" /\ (FileDuplicate(r) \/ Skips(contact[Phone[r]]))
             \/ x.pc = "write" /\ ~FileDuplicate(r)
          /\ x.update = contact[Phone[r]].exists
  BY <1>1, <1>3, <1>4, ReadMoves
<1>6. /\ thread' \in [Threads -> ThreadRow] /\ thread'[t] = x
      /\ \A u \in Threads \ {t} : thread'[u] = thread[u]
  BY <1>1, <1>5, BecomesRow
<1>7. AtRow(t)'
  <2>1. ASSUME Stricken("crash") PROVE ~Skips(contact[Phone[r]])
    BY <2>1 DEF Undisturbed, Skips
  <2>2. ASSUME Stricken("crash") PROVE \A q \in thread[t].batch : row[q] = "VALID"
    BY <2>2 DEF Followed, AtRow
  <2>3. contact[Phone[r]].ours => contact[Phone[r]].exists
    BY <1>3 DEF Followed
  <2>4. FileDuplicate(r)' <=> FileDuplicate(r)
    BY DEF FileDuplicate
  <2>5. QED
    BY <1>2, <1>5, <1>6, <2>1, <2>2, <2>3, <2>4 DEF AtRow, Stricken, OnRow
<1>8. \A p \in Phones : Unlisted(p)' => WillBeListed(p)'
  BY <1>2, <1>6, StillListed DEF Unlisted, Finds
<1>9. \A p \in Phones : contact'[p].ours => contact'[p].exists
  BY <1>2 DEF Followed
<1>10. QED
  BY <1>1, <1>5, <1>7, <1>8, <1>9, FollowedOthers

LEMMA FollowedEnd ==
    ASSUME ImportTypeOK, ImportOwned, Batches, Undisturbed, Followed, NEW t \in Threads,
           SkipRow(t) \/ MarkImported(t), UNCHANGED <<importEnv, strategy>>
    PROVE  Followed'
<1>1. thread \in [Threads -> ThreadRow] /\ ThreadWork(t) /\ UNCHANGED contact
  BY DEF ImportTypeOK, ThreadWork, ThreadStep, SkipRow, MarkImported
<1>2. PICK as \in {"SKIPPED", "IMPORTED"} : EndRow(t, as)
  BY DEF SkipRow, MarkImported
<1>3. thread[t].pc \in {"skip", "imported"}
  BY DEF SkipRow, MarkImported
<1>4. PICK x \in ThreadRow : Becomes(t, x) /\ x.pc \in {"check", "row"} /\ x.batch = thread[t].batch
  BY <1>1, <1>2, EndMoves
<1>5. /\ thread' \in [Threads -> ThreadRow] /\ thread'[t] = x
      /\ \A u \in Threads \ {t} : thread'[u] = thread[u]
  BY <1>1, <1>4, BecomesRow
<1>6. \A r \in Rows : r # thread[t].at => row'[r] = row[r]
  BY <1>2 DEF EndRow, ImportTypeOK
<1>7. AtRow(t)'
  <2>1. thread[t].at \notin thread[t].batch /\ thread[t].batch \subseteq Rows
    BY <1>3 DEF Batches, ThreadBatch, OnRow
  <2>2. QED
    BY <1>4, <1>5, <1>6, <2>1 DEF Followed, AtRow, OnRow, Stricken
<1>8. ASSUME NEW p \in Phones, Unlisted(p)' PROVE WillBeListed(p)'
  <2>1. Unlisted(p)
    BY <1>1, <1>8 DEF Unlisted
  <2>2. ASSUME Stricken("crash") PROVE ~Finds(thread[t].at, p)
    <3>1. CASE thread[t].pc = "skip"
      BY <2>1, <2>2, <3>1 DEF Followed, AtRow, Finds, Unlisted
    <3>2. CASE thread[t].pc = "imported"
      BY <2>1, <2>2, <3>2 DEF Followed, AtRow, Finds, Unlisted
    <3>3. QED
      BY <1>3, <3>1, <3>2
  <2>3. Stricken("crash") => \A r \in Rows \ Unusable : Finds(r, p) => row'[r] = "VALID"
    BY <1>6, <2>2 DEF Finds
  <2>4. QED
    BY <1>3, <1>5, <2>1, <2>3, StillListed
<1>9. \A p \in Phones : contact'[p].ours => contact'[p].exists
  BY <1>1 DEF Followed
<1>10. QED
  BY <1>1, <1>4, <1>7, <1>8, <1>9, FollowedOthers

LEMMA FollowedWrite ==
    ASSUME ImportTypeOK, ImportOwned, Batches, Undisturbed, Followed, NEW t \in Threads,
           WriteContact(t), UNCHANGED <<importEnv, strategy>>
    PROVE  Followed'
<1>1. thread \in [Threads -> ThreadRow] /\ contact \in [Phones -> ContactRow] /\ ThreadWork(t)
  BY DEF ImportTypeOK, ThreadWork, ThreadStep
<1>2. thread[t].pc = "write" /\ UNCHANGED row
  BY DEF WriteContact
<1>3. Phone[thread[t].at] \in Phones
  BY <1>2, RowPhone DEF OnRow
<1>4. PICK p \in Phones : p = Phone[thread[t].at]
  BY <1>3
<1>5. /\ \A q \in Phones \ {p} : SameMarks(q)
      /\ \/ Turn(t, "label") /\ SameMarks(p)
         \/ ~thread[t].update /\ Turn(t, "skip") /\ SameMarks(p)
         \/ /\ Turn(t, "label") /\ contact'[p].exists /\ contact'[p].listed = contact[p].listed
  BY <1>1, <1>3, <1>4, WriteWritten
<1>6. PICK x \in ThreadRow :
          /\ Becomes(t, x) /\ x.batch = thread[t].batch /\ x.at = thread[t].at
          /\ x.update = thread[t].update
          /\ x.pc \in {"label", "skip"} /\ Turn(t, x.pc)
          /\ x.pc = "skip" => SameMarks(p) /\ ~thread[t].update
  <2>1. CASE Turn(t, "label")
    BY <1>1, <2>1, TurnMoves DEF ThreadSteps
  <2>2. CASE Turn(t, "skip") /\ SameMarks(p) /\ ~thread[t].update
    BY <1>1, <2>2, TurnMoves DEF ThreadSteps
  <2>3. QED
    BY <1>5, <2>1, <2>2
<1>7. /\ thread' \in [Threads -> ThreadRow] /\ thread'[t] = x
      /\ \A u \in Threads \ {t} : thread'[u] = thread[u]
  BY <1>1, <1>6, BecomesRow
<1>8. AtRow(t)'
  <2>1. FileDuplicate(x.at)' <=> FileDuplicate(thread[t].at)
    BY <1>6 DEF FileDuplicate
  <2>2. x.pc = "skip" => contact'[p].ours = contact[p].ours
    BY <1>6 DEF SameMarks
  <2>3. Stricken("crash") =>
          /\ \A q \in thread[t].batch : row[q] = "VALID"
          /\ row[thread[t].at] = "VALID" /\ ~FileDuplicate(thread[t].at)
          /\ ~thread[t].update => ~contact[p].ours
    BY <1>2, <1>4 DEF Followed, AtRow, OnRow
  <2>4. QED
    BY <1>2, <1>4, <1>6, <1>7, <2>1, <2>2, <2>3 DEF AtRow, OnRow, Stricken
<1>9. ASSUME NEW q \in Phones, Unlisted(q)' PROVE WillBeListed(q)'
  <2>1. CASE x.pc = "label" /\ q = p
    BY <1>4, <1>6, <1>7, <2>1 DEF WillBeListed
  <2>2. CASE ~(x.pc = "label" /\ q = p)
    <3>1. Unlisted(q)
      BY <1>5, <1>6, <1>9, <2>2 DEF Unlisted, SameMarks
    <3>2. QED
      BY <1>2, <1>7, <3>1, StillListed DEF Finds
  <2>3. QED
    BY <2>1, <2>2
<1>10. \A q \in Phones : contact'[q].ours => contact'[q].exists
  BY <1>5 DEF Followed, SameMarks
<1>11. QED
  BY <1>1, <1>6, <1>8, <1>9, <1>10, FollowedOthers

LEMMA FollowedLabel ==
    ASSUME ImportTypeOK, ImportOwned, Batches, Undisturbed, Followed, NEW t \in Threads,
           Label(t) \/ RecordConsent(t), UNCHANGED <<importEnv, strategy>>
    PROVE  Followed'
<1>1. thread \in [Threads -> ThreadRow] /\ contact \in [Phones -> ContactRow] /\ ThreadWork(t)
  BY DEF ImportTypeOK, ThreadWork, ThreadStep
<1>2. thread[t].pc \in {"label", "consent"} /\ UNCHANGED row /\ ~Stricken("database")
  BY DEF Label, RecordConsent, Undisturbed, Stricken
<1>3. PICK p \in Phones : p = Phone[thread[t].at]
  BY <1>2, RowPhone DEF OnRow
<1>4. /\ \A q \in Phones \ {p} : SameMarks(q)
      /\ contact'[p].ours = contact[p].ours /\ (contact[p].exists => contact'[p].exists)
      /\ thread[t].pc = "label" => contact'[p].listed
      /\ thread[t].pc = "consent" => contact'[p].listed = contact[p].listed
  <2>1. CASE Label(t)
    BY <1>1, <1>3, <2>1, LabelWritten DEF Label, SameMarks
  <2>2. CASE RecordConsent(t)
    <3>1. contact' = [contact EXCEPT ![p].consent = "GRANTED"]
      BY <1>2, <1>3, <2>2 DEF RecordConsent
    <3>2. QED
      BY <1>1, <2>2, <3>1, FieldWritten DEF RecordConsent, SameMarks
  <2>3. QED
    BY <2>1, <2>2
<1>5. PICK step \in {"consent", "imported"} : Turn(t, step)
  BY DEF Label, RecordConsent
<1>6. PICK x \in ThreadRow :
          /\ Becomes(t, x) /\ x.batch = thread[t].batch /\ x.at = thread[t].at /\ x.pc = step
  BY <1>1, <1>5, TurnMoves DEF ThreadSteps
<1>7. /\ thread' \in [Threads -> ThreadRow] /\ thread'[t] = x
      /\ \A u \in Threads \ {t} : thread'[u] = thread[u]
  BY <1>1, <1>6, BecomesRow
<1>8. AtRow(t)'
  <2>1. FileDuplicate(x.at)' <=> FileDuplicate(thread[t].at)
    BY <1>6 DEF FileDuplicate
  <2>2. Stricken("crash") =>
          /\ \A q \in thread[t].batch : row[q] = "VALID"
          /\ row[thread[t].at] = "VALID" /\ ~FileDuplicate(thread[t].at)
          /\ thread[t].pc = "consent" => contact[p].listed
    BY <1>2, <1>3 DEF Followed, AtRow, OnRow
  <2>3. QED
    BY <1>2, <1>3, <1>4, <1>6, <1>7, <2>1, <2>2 DEF AtRow, OnRow, Stricken
<1>9. ASSUME NEW q \in Phones, Unlisted(q)' PROVE WillBeListed(q)'
  <2>1. Unlisted(q)
    BY <1>2, <1>4, <1>9 DEF Unlisted, SameMarks
  <2>2. thread[t].pc # "label" \/ Phone[thread[t].at] # q
    BY <1>3, <1>4, <1>9 DEF Unlisted
  <2>3. QED
    BY <1>2, <1>7, <2>1, <2>2, StillListed DEF Finds
<1>10. \A q \in Phones : contact'[q].ours => contact'[q].exists
  BY <1>4 DEF Followed, SameMarks
<1>11. QED
  BY <1>1, <1>6, <1>8, <1>9, <1>10, FollowedOthers

LEMMA FollowedByThread ==
    ASSUME ImportTypeOK, ImportOwned, Batches, Undisturbed, Followed, NEW t \in Threads,
           ThreadWork(t), UNCHANGED <<importEnv, strategy>>
    PROVE  Followed'
<1>1. thread[t].pc \notin {"failed", "broken"} /\ ~Stricken("database")
  BY DEF Followed, AtRow, Undisturbed, Stricken
<1>2. ~MarkFailed(t) /\ ~MarkBroken(t) /\ ~StatementFails(t)
  BY <1>1 DEF MarkFailed, MarkBroken, StatementFails
<1>3. CASE Stall(t)
  BY <1>3, FollowedQuiet, FollowedUnlocked DEF Stall
<1>4. QED
  BY <1>2, <1>3, FollowedQuiet, FollowedRead, FollowedEnd, FollowedWrite, FollowedLabel
     DEF ThreadWork, ThreadStep

-----------------------------------------------------------------------------
(* Requests and contacts.                                                  *)

RequestWork(u) == AskMapping(u) \/ AskValidate(u) \/ AskStart(u) \/ AskCancel(u) \/ ClickStep(u)

\* What a request changes, in the words of the invariant.
LEMMA RequestMoves ==
    ASSUME ImportTypeOK, NEW u \in Clicks, RequestWork(u)
    PROVE  /\ UNCHANGED <<importEnv, strategy, contact, tries, stalls, thread, stopping>>
           /\ bull' = bull \/ (bull = "none" /\ bull' = "waiting" /\ click[u] = "add")
           /\ importJob' \in JobStatus
           /\ click' \in [Clicks -> {"idle", "map", "validate", "ready", "start", "add", "cancel"}]
           /\ \A v \in Clicks \ {u} : click'[v] = click[v]
           /\ overrun' = overrun \/ (overrun' = 0 /\ ~Cancelled)
           /\ Cancelled' /\ ~Cancelled => overrun' = 0
           /\ \/ UNCHANGED row
              \/ /\ click[u] = "validate"
                 /\ row' = [r \in Rows |-> IF r \in Unusable THEN "INVALID" ELSE "VALID"]
<1>1. ASSUME NEW step \in {"map", "validate", "start", "cancel"}, NEW from, Ask(u, from, step)
      PROVE  /\ UNCHANGED <<importEnv, strategy, importRows, queueVars, thread, stopping, overrun>>
             /\ click' \in [Clicks -> {"idle", "map", "validate", "ready", "start", "add", "cancel"}]
             /\ \A v \in Clicks \ {u} : click'[v] = click[v]
  BY <1>1 DEF Ask, ImportTypeOK
<1>2. CASE AskMapping(u) \/ AskValidate(u) \/ AskStart(u) \/ AskCancel(u)
  BY <1>1, <1>2 DEF AskMapping, AskValidate, AskStart, AskCancel, importRows, queueVars, Cancelled, ImportTypeOK
<1>3. CASE Write(u)
  BY <1>3 DEF Write, Cancelled, ImportTypeOK, JobStatus, queueVars
<1>4. CASE ValidateRows(u)
  BY <1>4 DEF ValidateRows, Cancelled, ImportTypeOK, queueVars
<1>5. CASE StartAdd(u)
  BY <1>5 DEF StartAdd, Cancelled, ImportTypeOK, importRows
<1>6. QED
  BY <1>2, <1>3, <1>4, <1>5 DEF RequestWork, ClickStep

\* Requests that do not overlap.
LEMMA OrderByRequest ==
    ASSUME ImportTypeOK, ImportOwned, InOrder, Decided, ~Stricken("again"), NEW u \in Clicks, RequestWork(u)
    PROVE  /\ InOrder' /\ Decided'
           /\ click[u] = "validate" => BeforeStart
<1>1. /\ UNCHANGED <<contact, thread>>
      /\ bull' = bull \/ (bull = "none" /\ bull' = "waiting" /\ click[u] = "add")
      /\ \A v \in Clicks \ {u} : click'[v] = click[v]
      /\ UNCHANGED row \/ click[u] = "validate"
  BY RequestMoves
<1>2. click \in [Clicks -> {"idle", "map", "validate", "ready", "start", "add", "cancel"}]
  BY DEF ImportTypeOK
<1>3. CASE AskMapping(u) \/ AskValidate(u) \/ AskStart(u) \/ AskCancel(u)
  <2>1. PICK step \in {"map", "validate", "start", "cancel"}, from \in SUBSET JobStatus :
            /\ Ask(u, from, step)
            /\ step = "cancel" \/ from \subseteq {"MAPPING", "READY"}
    BY <1>3 DEF AskMapping, AskValidate, AskStart, AskCancel, JobStatus
  <2>2. /\ UNCHANGED <<importJob, row, bull>> /\ importJob \in from /\ click' = [click EXCEPT ![u] = step]
        /\ click[u] = "idle" /\ \A v \in Clicks : click[v] \in {"idle", "cancel"}
    BY <2>1 DEF Ask, importRows, queueVars
  <2>3. click'[u] = step
    BY <1>2, <2>2
  <2>4. \A v, w \in Clicks : {click'[v], click'[w]} \cap {"idle", "cancel"} = {} => v = w
    BY <1>1, <2>2
  <2>5. BeforeStart => BeforeStart'
    BY <1>1, <2>2, <2>3 DEF BeforeStart
  <2>6. Started => Started'
    BY <1>1, <2>1, <2>2, <2>3 DEF Started
  <2>7. Decided'
    BY <1>1, <2>2 DEF Decided, AllDecided
  <2>8. QED
    BY <2>2, <2>4, <2>5, <2>6, <2>7 DEF InOrder
<1>4. CASE ClickStep(u)
  <2>1. click[u] \in {"map", "validate", "ready", "start", "add", "cancel"}
    BY <1>4 DEF ClickStep, Write, ValidateRows, StartAdd
  <2>2. click'[u] \in {"idle", "ready", "add"}
    BY <1>2, <1>4 DEF ClickStep, Write, ValidateRows, StartAdd
  <2>3. click[u] # "cancel" => \A v \in Clicks \ {u} : click[v] \in {"idle", "cancel"}
    BY <1>2, <2>1 DEF InOrder
  <2>4. click[u] = "cancel" => click'[u] = "idle"
    BY <1>2, <1>4 DEF ClickStep, Write, ValidateRows, StartAdd
  <2>5. \A v, w \in Clicks : {click'[v], click'[w]} \cap {"idle", "cancel"} = {} => v = w
    BY <1>1, <2>1, <2>2, <2>3, <2>4 DEF InOrder
  <2>6. CASE Started
    <3>1. click[u] \in {"add", "cancel"}
      BY <2>1, <2>6 DEF Started
    <3>2. importJob' \in {importJob, "CANCELLED"} /\ UNCHANGED row /\ click'[u] = "idle"
      BY <1>2, <1>4, <3>1 DEF ClickStep, Write, ValidateRows, StartAdd, importRows
    <3>3. Started'
      BY <1>1, <2>6, <3>2 DEF Started
    <3>4. Decided'
      BY <1>1, <3>2 DEF Decided, AllDecided
    <3>5. QED
      BY <2>5, <3>1, <3>3, <3>4 DEF InOrder
  <2>7. CASE BeforeStart
    <3>1. \A t \in Threads : thread[t].pc = "idle"
      BY <2>7 DEF BeforeStart, ImportOwned
    <3>2. click[u] # "add" /\ bull' = "none"
      BY <1>1, <2>7 DEF BeforeStart
    <3>3. CASE click[u] = "start"
      <4>1. importJob' = "IMPORTING" /\ click'[u] = "add"
        BY <1>2, <1>4, <3>3 DEF ClickStep, Write, ValidateRows, StartAdd
      <4>2. Started'
        BY <1>1, <2>3, <3>3, <4>1 DEF Started
      <4>3. Decided'
        BY <1>1, <3>1, <4>1 DEF Decided
      <4>4. QED
        BY <2>5, <2>7, <4>2, <4>3 DEF InOrder
    <3>4. CASE click[u] # "start"
      <4>1. importJob' \in {"MAPPING", "READY", "CANCELLED"} /\ click'[u] # "add"
        BY <1>2, <1>4, <2>7, <3>2, <3>4 DEF ClickStep, Write, ValidateRows, StartAdd, BeforeStart, importRows
      <4>2. BeforeStart'
        BY <1>1, <2>7, <3>2, <4>1 DEF BeforeStart
      <4>3. Decided'
        BY <1>1, <3>1, <4>1 DEF Decided
      <4>4. QED
        BY <2>5, <2>7, <4>2, <4>3 DEF InOrder
    <3>5. QED
      BY <3>3, <3>4
  <2>8. QED
    BY <2>6, <2>7 DEF InOrder
<1>5. QED
  BY <1>3, <1>4 DEF RequestWork

LEMMA ImportByRequest ==
    ASSUME ImportInv, NEW u \in Clicks, RequestWork(u)
    PROVE  ImportInv'
<1>1. /\ UNCHANGED <<importEnv, strategy, contact, tries, stalls, thread, stopping>>
      /\ bull' = bull \/ (bull = "none" /\ bull' = "waiting" /\ click[u] = "add")
      /\ importJob' \in JobStatus
      /\ click' \in [Clicks -> {"idle", "map", "validate", "ready", "start", "add", "cancel"}]
      /\ overrun' = overrun \/ (overrun' = 0 /\ ~Cancelled)
      /\ Cancelled' /\ ~Cancelled => overrun' = 0
      /\ \/ UNCHANGED row
         \/ /\ click[u] = "validate"
            /\ row' = [r \in Rows |-> IF r \in Unusable THEN "INVALID" ELSE "VALID"]
  BY RequestMoves DEF ImportInv
<1>2. ImportTypeOK'
  BY <1>1 DEF ImportInv, ImportTypeOK
<1>3. ImportOwned'
  BY <1>1, ImportAssumption DEF ImportInv, ImportOwned, Stricken
<1>4. Batches'
  BY <1>1 DEF ImportInv, Batches, ThreadBatch
<1>5. OverrunBounded'
  <2>1. Limit' = Limit /\ Backlogs' = Backlogs
    BY <1>1 DEF Limit, Stricken, Backlogs, Backlog
  <2>2. SumFunctionOnSet(Backlogs, Threads) <= Limit /\ SumFunctionOnSet(Backlogs, Threads) \in Nat
    BY BacklogBound, BacklogLimit, SumType, ImportAssumption DEF ImportInv
  <2>3. PICK s \in Nat : s = SumFunctionOnSet(Backlogs, Threads)
    BY <2>2
  <2>4. SumFunctionOnSet(Backlogs, Threads)' = s
    BY <2>1, <2>3
  <2>5. Limit \in Int
    BY FS_CardinalityType, ImportAssumption DEF Limit
  <2>6. overrun <= Limit /\ (Cancelled => overrun + s <= Limit) /\ overrun \in Nat
    BY <2>3 DEF ImportInv, OverrunBounded, ImportTypeOK
  <2>7. overrun' <= Limit /\ (Cancelled' => overrun' + s <= Limit)
    BY <1>1, <2>2, <2>3, <2>5, <2>6
  <2>8. QED
    BY <2>1, <2>4, <2>7 DEF OverrunBounded
<1>6. ~Stricken("again") => InOrder' /\ Decided' /\ (click[u] = "validate" => BeforeStart)
  BY OrderByRequest DEF ImportInv
<1>7. ASSUME Undisturbed PROVE Followed'
  <2>1. CASE UNCHANGED row
    BY <1>1, <1>7, <2>1
       DEF ImportInv, Followed, Unlisted, WillBeListed, AtRow, Finds, FileDuplicate, Stricken
  <2>2. CASE click[u] = "validate"
    <3>1. BeforeStart
      BY <1>6, <1>7, <2>2 DEF Undisturbed, Stricken
    <3>2. \A t \in Threads : thread[t] = IdleThread
      BY <3>1 DEF BeforeStart, ImportInv, ImportOwned
    <3>3. \A t \in Threads : thread'[t].pc = "idle" /\ thread'[t].batch = {}
      BY <1>1, <3>2, IdleRow
    <3>4. \A t \in Threads : AtRow(t)'
      BY <3>3 DEF AtRow, OnRow
    <3>5. \A p \in Phones : ~contact'[p].ours
      BY <1>1, <3>1 DEF BeforeStart
    <3>6. QED
      BY <3>4, <3>5 DEF Followed, Unlisted
  <2>3. QED
    BY <1>1, <2>1, <2>2
<1>8. QED
  BY <1>1, <1>2, <1>3, <1>4, <1>5, <1>6, <1>7 DEF ImportInv, Stricken, Undisturbed

\* A contact writes in or sends STOP.
LEMMA ImportByContact ==
    ASSUME ImportInv, NEW p \in Phones, WritesIn(p) \/ Stop(p)
    PROVE  ImportInv'
<1>1. UNCHANGED <<importEnv, strategy, importJob, row, click, queueVars, thread, overrun>>
  BY DEF WritesIn, Stop
<1>2. contact' \in [Phones -> ContactRow] /\ \A q \in Phones : SameMarks(q)
  <2>1. \/ contact' = [contact EXCEPT ![p].consent = "REVOKED"]
        \/ contact' = [contact EXCEPT ![p].out = TRUE]
        \/ contact' = [contact EXCEPT ![p].exists = TRUE]
    BY DEF WritesIn, Stop
  <2>2. QED
    BY <2>1, FieldWritten DEF ImportInv, ImportTypeOK
<1>3. stopping' \subseteq Phones
  BY DEF WritesIn, Stop, ImportInv, ImportTypeOK
<1>4. ImportTypeOK'
  BY <1>1, <1>2, <1>3 DEF ImportInv, ImportTypeOK, queueVars
<1>5. ImportOwned' /\ Batches'
  BY <1>1 DEF ImportInv, ImportOwned, Batches, ThreadBatch, Stricken, queueVars
<1>6. OverrunBounded'
  <2>1. Limit' = Limit /\ Backlogs' = Backlogs /\ (Cancelled' <=> Cancelled)
    BY <1>1 DEF Limit, Stricken, Backlogs, Backlog, Cancelled
  <2>2. QED
    BY <1>1, <2>1 DEF ImportInv, OverrunBounded
<1>7. ASSUME ~Stricken("again") PROVE InOrder' /\ Decided'
  BY <1>1, <1>2, <1>7
     DEF ImportInv, InOrder, BeforeStart, Started, Decided, AllDecided, SameMarks, queueVars
<1>8. ASSUME Undisturbed PROVE Followed'
  <2>1. Followed
    BY <1>8 DEF ImportInv
  <2>2. \A q \in Phones : contact'[q].ours => contact'[q].exists
    BY <1>2, <2>1 DEF Followed, SameMarks
  <2>3. \A q \in Phones : Unlisted(q)' => WillBeListed(q)'
    BY <1>1, <1>2, <2>1 DEF Followed, SameMarks, Unlisted, WillBeListed, Finds, FileDuplicate, Stricken
  <2>4. ASSUME NEW t \in Threads PROVE AtRow(t)'
    <3>1. AtRow(t)
      BY <2>1 DEF Followed
    <3>2. FileDuplicate(thread[t].at)' <=> FileDuplicate(thread[t].at)
      BY <1>1 DEF FileDuplicate
    <3>3. thread[t].pc \in OnRow => SameMarks(Phone[thread[t].at])
      BY <1>2, RowPhone DEF ImportInv
    <3>4. QED
      BY <1>1, <3>1, <3>2, <3>3 DEF AtRow, OnRow, SameMarks, Stricken
  <2>5. QED
    BY <2>2, <2>3, <2>4 DEF Followed
<1>9. QED
  BY <1>1, <1>4, <1>5, <1>6, <1>7, <1>8 DEF ImportInv, Stricken, Undisturbed

LEMMA ImportByThread ==
    ASSUME ImportInv, NEW t \in Threads, ThreadWork(t)
    PROVE  ImportInv'
<1>1. UNCHANGED <<importEnv, strategy, click, stopping>>
  BY DEF ThreadWork, ThreadStep, TakeJob, LoadImport, Check, ListRows, ReadContact, SkipRow, WriteContact, Label,
         RecordConsent, MarkImported, MarkFailed, Complete, MarkBroken, StatementFails, Stall
<1>2. /\ Batches' /\ overrun' \in Nat /\ importJob' \in JobStatus
      /\ row' \in [Rows -> {"PENDING", "VALID", "INVALID", "IMPORTED", "SKIPPED", "FAILED"}]
  BY BatchesByThread DEF ImportInv
<1>3. /\ ImportOwned' /\ thread' \in [Threads -> ThreadRow]
      /\ bull' \in {"none", "waiting", "active", "over"}
      /\ tries' \in 0..Attempts /\ stalls' \in 0..MaxStalls + 1
  BY <1>1, OwnedByThread DEF ImportInv
<1>4. contact' \in [Phones -> ContactRow]
  BY ContactsTyped DEF ImportInv
<1>5. ImportTypeOK'
  BY <1>1, <1>2, <1>3, <1>4 DEF ImportInv, ImportTypeOK
<1>6. OverrunBounded'
  BY <1>1, <1>2, <1>5, OverrunByThread DEF ImportInv
<1>7. ~Stricken("again") => InOrder' /\ Decided'
  BY <1>1, OrderByThread DEF ImportInv
<1>8. Undisturbed => Followed'
  BY <1>1, FollowedByThread DEF ImportInv
<1>9. QED
  BY <1>1, <1>2, <1>3, <1>5, <1>6, <1>7, <1>8 DEF ImportInv, Stricken, Undisturbed

LEMMA ImportStep == ImportInv /\ [ImportNext]_importVars => ImportInv'
<1> SUFFICES ASSUME ImportInv, [ImportNext]_importVars PROVE ImportInv'
  OBVIOUS
<1>1. ASSUME NEW u \in Clicks, AskMapping(u) \/ AskValidate(u) \/ AskStart(u) \/ AskCancel(u) \/ ClickStep(u)
      PROVE  ImportInv'
  BY <1>1, ImportByRequest DEF RequestWork
<1>2. ASSUME NEW t \in Threads, ThreadStep(t) \/ StatementFails(t) \/ Stall(t) PROVE ImportInv'
  BY <1>2, ImportByThread DEF ThreadWork
<1>3. ASSUME NEW p \in Phones, WritesIn(p) \/ Stop(p) PROVE ImportInv'
  BY <1>3, ImportByContact
<1>4. CASE UNCHANGED importVars
  <2>1. UNCHANGED <<importEnv, strategy, importJob, row, contact, click, bull, tries, stalls, thread, stopping, overrun>>
    BY <1>4 DEF importVars, importRows, queueVars
  <2>2. Backlogs' = Backlogs /\ Limit' = Limit
    BY <2>1 DEF Backlogs, Backlog, Limit, Stricken
  <2>3. ImportTypeOK' /\ ImportOwned' /\ Batches'
    BY <2>1 DEF ImportInv, ImportTypeOK, ImportOwned, Batches, ThreadBatch, Stricken
  <2>4. OverrunBounded'
    BY <2>1, <2>2 DEF ImportInv, OverrunBounded, Cancelled
  <2>5. ~Stricken("again") => InOrder' /\ Decided'
    BY <2>1 DEF ImportInv, InOrder, BeforeStart, Started, Decided, AllDecided
  <2>6. Undisturbed => Followed'
    BY <2>1 DEF ImportInv, Followed, Unlisted, WillBeListed, AtRow, Finds, FileDuplicate, Stricken
  <2>7. QED
    BY <2>1, <2>3, <2>4, <2>5, <2>6 DEF ImportInv, Stricken, Undisturbed
<1>5. QED
  BY <1>1, <1>2, <1>3, <1>4 DEF ImportNext

LEMMA ImportStart == ImportInit => ImportInv
<1> SUFFICES ASSUME ImportInit PROVE ImportInv
  OBVIOUS
<1>1. \A t \in Threads : /\ thread[t] = IdleThread /\ thread[t].pc = "idle" /\ thread[t].batch = {}
                         /\ ~thread[t].owner /\ thread[t].at = 0
  BY IdleRow DEF ImportInit
<1>2. Stranger \in ContactRow /\ ~Stranger.ours
  BY DEF Stranger, ContactRow
<1>3. ImportTypeOK
  BY <1>2, IdleRow, ImportAssumption DEF ImportInit, ImportTypeOK, JobStatus
<1>4. ImportOwned /\ Batches
  BY <1>1, ImportAssumption DEF ImportInit, ImportOwned, Batches, ThreadBatch, OnRow
<1>5. OverrunBounded
  <2>1. ~Cancelled /\ overrun = 0
    BY DEF ImportInit, Cancelled
  <2>2. Limit \in Nat
    BY FS_CardinalityType, ImportAssumption DEF Limit
  <2>3. QED
    BY <2>1, <2>2 DEF OverrunBounded
<1>6. InOrder /\ Decided
  BY <1>1, <1>2 DEF ImportInit, InOrder, BeforeStart, Decided
<1>7. Followed
  BY <1>1, <1>2 DEF ImportInit, Followed, Unlisted, AtRow, OnRow
<1>8. QED
  BY <1>3, <1>4, <1>5, <1>6, <1>7 DEF ImportInv

\* The rows of an import, its job in BullMQ and the threads that work on it.
THEOREM ImportTypes == ImportSpec => []ImportTypeOK
<1>1. ImportInv => ImportTypeOK
  BY DEF ImportInv
<1>2. QED
  BY <1>1, ImportStart, ImportStep, PTL DEF ImportSpec

\* For files, batches and workers of any number: a canceled import decides no
\* more than the batches under way, and a complete one has left no row undecided
\* and no contact without its tags, in the environments the property names.
THEOREM ImportsEnd == ImportSpec => []ImportEndsAsAsked
<1>1. ImportInv => CanceledImportStops
  BY DEF ImportInv, OverrunBounded, Limit, CanceledImportStops
<1>2. ASSUME ImportInv PROVE CompletedIsWhole
  <2>1. SUFFICES ASSUME Undisturbed, importJob = "COMPLETED", \A t \in Threads : thread[t] = IdleThread
                 PROVE  /\ \A r \in Rows : row[r] # "VALID"
                        /\ \A p \in Phones : contact[p].ours => contact[p].listed
    BY DEF CompletedIsWhole
  <2>2. AllDecided /\ Followed
    BY <1>2, <2>1 DEF ImportInv, Undisturbed, Stricken, Decided
  <2>3. \A p \in Phones : ~WillBeListed(p)
    BY <2>1, <2>2, IdleRow DEF WillBeListed, Finds, AllDecided
  <2>4. QED
    BY <2>2, <2>3 DEF AllDecided, Followed, Unlisted
<1>3. ImportInv => ImportEndsAsAsked
  BY <1>1, <1>2 DEF ImportEndsAsAsked
<1>4. QED
  BY <1>3, ImportStart, ImportStep, PTL DEF ImportSpec

-----------------------------------------------------------------------------
(* Both side by side.                                                      *)

\* What importing and sending do together is what each of them does: a theorem
\* about one holds of the specification that the run checks.
LEMMA EachBulkPart == BulkSpec => Spec /\ ImportSpec
<1>1. BulkInit => Init /\ ImportInit
  BY DEF BulkInit
<1>2. ASSUME [BulkNext]_<<part, vars, importVars>>
      PROVE  [Next]_vars /\ [ImportNext]_importVars
  BY <1>2 DEF BulkNext
<1>3. QED
  BY <1>1, <1>2, PTL DEF BulkSpec, Spec, ImportSpec

\* The types of both at once, for batches and files of any size.
THEOREM BulkTypes == BulkSpec => []BulkTypeOK
<1>1. TypeOK /\ ImportTypeOK => BulkTypeOK
  BY DEF BulkTypeOK
<1>2. QED
  BY <1>1, EachBulkPart, BatchTypeCorrect, ImportTypes, PTL
=============================================================================
