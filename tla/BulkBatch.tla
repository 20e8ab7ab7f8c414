------------------------------- MODULE BulkBatch -------------------------------
(***************************************************************************)
(* A bulk send: the request that charges for a whole batch and queues its  *)
(* messages (bulk-message.service.ts), requests that cancel it while it is *)
(* scheduled (campaign-cancel.service.ts), the message worker, the status  *)
(* webhooks, and the counters both of them maintain on the batch           *)
(* (bulk-message-tracking.service.ts).                                     *)
(*                                                                         *)
(* A step ends where the code awaits.  Each job has one execution at a     *)
(* time here: MessagePipeline covers the executions BullMQ may repeat.     *)
(***************************************************************************)
EXTENDS MessageStatus, Integers, FiniteSets

CONSTANTS
    Messages,       \* the recipients a batch may be made of
    Cancels,        \* requests that cancel the batch
    NoMessage,
    MaxAttempts,    \* `attempts` of the message queue
    Price,          \* MESSAGE_PRICE_PAISE
    Opening,        \* wallet balance at the start
    Reports,        \* the statuses Meta reports
    Environments    \* sets of faults, one of which is in force

FaultKinds ==
    { "database",       \* a statement or transaction of a handler fails
      "crash",          \* a process dies between two steps
      "maintenance",    \* maintenance mode is seen on
      "credentials",    \* no usable credentials, and no simulation
      "answers",        \* Meta rejects, is unreachable, or its answer is lost
      "enqueue" }       \* addBulk or incrementUsageQuota throws

ASSUME BatchAssumption ==
    /\ IsFiniteSet(Messages) /\ IsFiniteSet(Cancels)
    /\ NoMessage \notin Messages /\ "request" \notin Cancels
    /\ MaxAttempts \in Nat \ {0}
    /\ Price \in Nat \ {0} /\ Opening \in Nat
    /\ Reports \subseteq Delivery \cup {"FAILED"}
    /\ Environments \subseteq SUBSET FaultKinds /\ Environments # {}

VARIABLES
    env,                                \* the faults that may happen
    \* database
    batch,                              \* BulkMessageBatch.status
    members,                            \* the messages of the batch
    queuedCount, failedCount,           \* its counters
    recipient,                          \* BulkMessageBatchRecipient.status
    status, recorded,                   \* Message.status; has a metaMessageId
    balance, debits, refunds,           \* the wallet and its rows
    \* BullMQ
    job, attempts,
    \* processes
    request,                            \* pc of the creating request
    cancel, due,                        \* pc of the cancellations; refund read
    pc, err, goal, seen,                \* message worker, per job
    hook,                               \* webhook worker
    \* Meta
    accepted                            \* messages Meta has accepted

batchVars  == <<batch, members, queuedCount, failedCount, recipient>>
walletVars == <<balance, debits, refunds>>
jobVars    == <<job, attempts>>
requestVars == <<request, cancel, due>>
workerVars == <<pc, err, goal, seen>>
vars == <<env, batchVars, status, recorded, walletVars, jobVars, requestVars,
          workerVars, hook, accepted>>

-----------------------------------------------------------------------------
TrackRank == [s \in {"SCHEDULED", "QUEUED", "SENDING", "SENT", "DELIVERED",
                     "READ", "FAILED", "CANCELED"} |->
    CASE s = "SCHEDULED" -> -1 [] s = "QUEUED" -> 0 [] s = "SENDING" -> 1
      [] s = "SENT" -> 2 [] s = "DELIVERED" -> 3 [] s = "READ" -> 4
      [] s = "FAILED" -> 5 [] s = "CANCELED" -> 6]

Recipients    == DOMAIN TrackRank
BatchStatuses == {"NONE", "SCHEDULED", "QUEUED", "CANCELED", "FAILED", "PARTIAL_FAILED"}
RequestSteps  == {"none", "enqueue", "quota", "compensate", "compensated", "done"}
CancelSteps   == {"none", "claim", "remove", "rejected", "done"}
JobStates     == {"none", "waiting", "active", "completed", "failed", "removed"}
WorkerSteps   == {"idle", "load", "claim", "track_read", "track_write", "send",
                  "record", "finish", "fail", "mark_read", "mark_write",
                  "refund", "rethrow"}
Errors        == {"none", "maintenance", "transient", "permanent", "unrecoverable"}
Refunders     == {"request"} \cup Cancels
NoHook        == [m |-> NoMessage, next |-> "NONE", apply |-> FALSE,
                  step |-> "none", seen |-> "QUEUED"]

May(fault) == fault \in env

TypeOK ==
    /\ env \in Environments
    /\ batch \in BatchStatuses
    /\ members \subseteq Messages
    /\ queuedCount \in Nat /\ failedCount \in Nat
    /\ recipient \in [Messages -> Recipients]
    /\ status \in [Messages -> Statuses]
    /\ recorded \subseteq Messages
    /\ balance \in Int
    /\ debits \subseteq Messages
    /\ refunds \subseteq Messages \X Refunders
    /\ job \in [Messages -> JobStates]
    /\ attempts \in [Messages -> 0..MaxAttempts]
    /\ request \in RequestSteps
    /\ cancel \in [Cancels -> CancelSteps]
    /\ due \in [Cancels -> Nat]
    /\ pc \in [Messages -> WorkerSteps]
    /\ err \in [Messages -> Errors]
    /\ goal \in [Messages -> {"SENDING", "SENT", "FAILED"}]
    /\ seen \in [Messages -> Recipients]
    /\ hook \in [m : Messages \cup {NoMessage}, next : {"NONE", "FAILED"} \cup Delivery,
                 apply : BOOLEAN, step : {"none", "write", "track_read", "track_write"},
                 seen : Recipients]
    /\ accepted \subseteq Messages

Init ==
    /\ env \in Environments
    /\ batch = "NONE" /\ members = {}
    /\ queuedCount = 0 /\ failedCount = 0
    /\ recipient = [m \in Messages |-> "QUEUED"]
    /\ status = [m \in Messages |-> "NONE"]
    /\ recorded = {}
    /\ balance = Opening /\ debits = {} /\ refunds = {}
    /\ job = [m \in Messages |-> "none"]
    /\ attempts = [m \in Messages |-> 0]
    /\ request = "none"
    /\ cancel = [c \in Cancels |-> "none"]
    /\ due = [c \in Cancels |-> 0]
    /\ pc = [m \in Messages |-> "idle"]
    /\ err = [m \in Messages |-> "none"]
    /\ goal = [m \in Messages |-> "SENDING"]
    /\ seen = [m \in Messages |-> "QUEUED"]
    /\ hook = NoHook
    /\ accepted = {}

-----------------------------------------------------------------------------
(* The creating request.                                                   *)

Affordable(charged) == balance >= Price * Cardinality(charged)

\* One transaction: the debit, the batch, a message and a recipient row each.
CreateBatch(charged, initial) ==
    /\ request = "none"
    /\ charged # {} /\ Affordable(charged)
    /\ balance' = balance - Price * Cardinality(charged)
    /\ debits' = charged
    /\ batch' = initial
    /\ members' = charged
    /\ queuedCount' = Cardinality(charged)
    /\ recipient' = [m \in Messages |-> IF m \in charged THEN initial ELSE recipient[m]]
    /\ status' = [m \in Messages |-> IF m \in charged THEN "QUEUED" ELSE status[m]]
    /\ request' = "enqueue"
    /\ UNCHANGED <<env, failedCount, recorded, refunds, jobVars, cancel, due, workerVars,
                   hook, accepted>>

\* addBulk adds all jobs in one Redis transaction, or throws; a throw may hide
\* a transaction that went through.
Enqueue ==
    LET added == [m \in Messages |-> IF m \in members THEN "waiting" ELSE job[m]] IN
    /\ request = "enqueue"
    /\ \/ job' = added /\ request' = "quota"
       \/ May("enqueue") /\ job' \in {job, added} /\ request' = "compensate"
    /\ UNCHANGED <<env, batchVars, status, recorded, walletVars, attempts, cancel, due,
                   workerVars, hook, accepted>>

CountUsage ==
    /\ request = "quota"
    /\ \/ request' = "done"
       \/ May("enqueue") /\ request' = "compensate"
    /\ UNCHANGED <<env, batchVars, status, recorded, walletVars, jobVars, cancel, due,
                   workerVars, hook, accepted>>

\* REFUND row and balance for every message of the batch, in one transaction.
RefundWholeMinusOne(amount, who) ==
    /\ balance' = balance + amount - Price
    /\ refunds' = refunds \cup (members \X {who})
    /\ UNCHANGED debits
RefundBatch(amount, who) ==
    /\ balance' = balance + amount
    /\ refunds' = refunds \cup (members \X {who})
    /\ UNCHANGED debits

\* The catch block overwrites whatever became of the batch meanwhile.
Compensate ==
    /\ request = "compensate"
    /\ status' = [m \in Messages |-> IF m \in members THEN "FAILED" ELSE status[m]]
    /\ recipient' = [m \in Messages |->
           IF m \in members /\ recipient[m] \in {"QUEUED", "SCHEDULED"}
           THEN "FAILED" ELSE recipient[m]]
    /\ batch' = "FAILED"
    /\ queuedCount' = 0
    /\ failedCount' = Cardinality(members)
    /\ RefundBatch(Price * Cardinality(members), "request")
    /\ request' = "compensated"
    /\ UNCHANGED <<env, members, recorded, jobVars, cancel, due, workerVars, hook, accepted>>

RequestDies ==
    /\ \/ May("crash") /\ request \in {"enqueue", "quota", "compensate"}
       \/ May("database") /\ request = "compensate"
    /\ request' = "done"
    /\ UNCHANGED <<env, batchVars, status, recorded, walletVars, jobVars, cancel, due,
                   workerVars, hook, accepted>>

-----------------------------------------------------------------------------
(* Cancelling a scheduled batch.                                           *)

CancelRead(c) ==
    /\ cancel[c] = "none"
    /\ batch = "SCHEDULED"
    /\ due' = [due EXCEPT ![c] = queuedCount * Price]
    /\ cancel' = [cancel EXCEPT ![c] = "claim"]
    /\ UNCHANGED <<env, batchVars, status, recorded, walletVars, jobVars, request,
                   workerVars, hook, accepted>>

CancelableAsRead == TRUE
Cancelable == batch = "SCHEDULED"

\* One transaction; it throws unless the batch is still SCHEDULED.
CancelClaim(c) ==
    /\ cancel[c] = "claim"
    /\ IF Cancelable
       THEN /\ batch' = "CANCELED"
            /\ recipient' = [m \in Messages |->
                   IF m \in members /\ recipient[m] \in {"SCHEDULED", "QUEUED"}
                   THEN "CANCELED" ELSE recipient[m]]
            /\ status' = [m \in Messages |->
                   IF m \in members /\ status[m] = "QUEUED" THEN "CANCELED" ELSE status[m]]
            /\ RefundBatch(due[c], c)
            /\ cancel' = [cancel EXCEPT ![c] = "remove"]
       ELSE /\ cancel' = [cancel EXCEPT ![c] = "rejected"]
            /\ UNCHANGED <<batch, recipient, status, walletVars>>
    /\ due' = [due EXCEPT ![c] = 0]
    /\ UNCHANGED <<env, members, queuedCount, failedCount, recorded, jobVars, request,
                   workerVars, hook, accepted>>

\* Any of the removals may fail or time out.
CancelRemoveJobs(c) ==
    /\ cancel[c] = "remove"
    /\ \E gone \in SUBSET {m \in members : job[m] \notin {"none", "active"}} :
           job' = [m \in Messages |-> IF m \in gone THEN "removed" ELSE job[m]]
    /\ cancel' = [cancel EXCEPT ![c] = "done"]
    /\ UNCHANGED <<env, batchVars, status, recorded, walletVars, attempts, request, due,
                   workerVars, hook, accepted>>

CancelDies(c) ==
    /\ May("crash") \/ May("database")
    /\ cancel[c] \in {"claim", "remove"}
    /\ cancel' = [cancel EXCEPT ![c] = IF @ = "claim" THEN "rejected" ELSE "done"]
    /\ due' = [due EXCEPT ![c] = 0]
    /\ UNCHANGED <<env, batchVars, status, recorded, walletVars, jobVars, request,
                   workerVars, hook, accepted>>

-----------------------------------------------------------------------------
(* updateBulkMessageRecipientTracking: a transaction that reads the        *)
(* recipient and then writes it, with no condition on what it read.        *)

TracksUntilSent(current, next) ==
    /\ current \notin {next, "SENT", "FAILED", "CANCELED"}
    /\ next = "FAILED" \/ TrackRank[next] > TrackRank[current]
Tracks(current, next) ==
    /\ current \notin {next, "FAILED", "CANCELED"}
    /\ next = "FAILED" \/ TrackRank[next] > TrackRank[current]

AnyFailureFailsBatch(failed) == "FAILED"
FailedBatchStatus(failed) == IF failed >= queuedCount THEN "FAILED" ELSE "PARTIAL_FAILED"

WriteTracking(m, from, next) ==
    /\ recipient' = [recipient EXCEPT ![m] = next]
    /\ IF next = "FAILED"
       THEN /\ failedCount' = failedCount + 1
            /\ batch' = FailedBatchStatus(failedCount + 1)
       ELSE /\ batch' = IF from = "SCHEDULED" /\ batch = "SCHEDULED" THEN "QUEUED" ELSE batch
            /\ UNCHANGED failedCount
    /\ UNCHANGED <<members, queuedCount>>

-----------------------------------------------------------------------------
(* The message worker, as in MessagePipeline, with what a batch adds.      *)

Goto(m, step) ==
    /\ pc' = [pc EXCEPT ![m] = step]
    /\ UNCHANGED <<err, goal, seen>>

\* goal and seen are locals of a tracking call: they are reset when it ends.
LeaveTracking(m) ==
    /\ goal' = [goal EXCEPT ![m] = "SENDING"]
    /\ seen' = [seen EXCEPT ![m] = "QUEUED"]

Throw(m, error, step) ==
    /\ err' = [err EXCEPT ![m] = error]
    /\ pc' = [pc EXCEPT ![m] = step]
    /\ LeaveTracking(m)

TrackNext(m, next) ==
    /\ pc' = [pc EXCEPT ![m] = "track_read"]
    /\ goal' = [goal EXCEPT ![m] = next]
    /\ UNCHANGED <<err, seen>>

AfterTracking == [SENDING |-> "send", SENT |-> "finish", FAILED |-> "refund"]

EndJob(m, state) ==
    /\ job' = [job EXCEPT ![m] = state]
    /\ pc' = [pc EXCEPT ![m] = "idle"]
    /\ err' = [err EXCEPT ![m] = "none"]
    /\ LeaveTracking(m)

Dequeue(m) ==
    /\ job[m] = "waiting"
    /\ job' = [job EXCEPT ![m] = "active"]
    /\ Goto(m, "load")
    /\ UNCHANGED <<env, batchVars, status, recorded, walletVars, attempts, requestVars,
                   hook, accepted>>

Load(m) ==
    /\ pc[m] = "load"
    /\ \/ May("maintenance") /\ Throw(m, "maintenance", "rethrow") /\ UNCHANGED job
       \/ status[m] \in Sendable /\ Goto(m, "claim") /\ UNCHANGED job
       \/ status[m] \notin Sendable /\ EndJob(m, "completed")
    /\ UNCHANGED <<env, batchVars, status, recorded, walletVars, attempts, requestVars,
                   hook, accepted>>

ClaimableAsLoaded(m) == TRUE
Claimable(m) == batch # "CANCELED" /\ status[m] \in Sendable

\* One transaction.  The first claim of a scheduled batch closes it to
\* cancellation, even when the message itself cannot be claimed.
Claim(m) ==
    /\ pc[m] = "claim"
    /\ batch' = IF batch = "SCHEDULED" THEN "QUEUED" ELSE batch
    /\ IF Claimable(m)
       THEN /\ status' = [status EXCEPT ![m] = "SENDING"]
            /\ TrackNext(m, "SENDING")
            /\ UNCHANGED job
       ELSE /\ EndJob(m, "completed")
            /\ UNCHANGED status
    /\ UNCHANGED <<env, members, queuedCount, failedCount, recipient, recorded, walletVars,
                   attempts, requestVars, hook, accepted>>

TrackRead(m) ==
    /\ pc[m] = "track_read"
    /\ IF Tracks(recipient[m], goal[m])
       THEN /\ pc' = [pc EXCEPT ![m] = "track_write"]
            /\ seen' = [seen EXCEPT ![m] = recipient[m]]
            /\ UNCHANGED goal
       ELSE /\ pc' = [pc EXCEPT ![m] = AfterTracking[goal[m]]]
            /\ LeaveTracking(m)
    /\ UNCHANGED <<env, batchVars, status, recorded, walletVars, jobVars, requestVars,
                   err, hook, accepted>>

TrackWrite(m) ==
    /\ pc[m] = "track_write"
    /\ WriteTracking(m, seen[m], goal[m])
    /\ pc' = [pc EXCEPT ![m] = AfterTracking[goal[m]]]
    /\ LeaveTracking(m)
    /\ UNCHANGED <<env, status, recorded, walletVars, jobVars, requestVars, err, hook,
                   accepted>>

Send(m) ==
    /\ pc[m] = "send"
    /\ \/ /\ accepted' = accepted \cup {m}
          /\ Goto(m, "record") \/ (May("answers") /\ Throw(m, "transient", "fail"))
       \/ /\ May("answers")
          /\ \E error \in {"transient", "permanent"} : Throw(m, error, "fail")
          /\ UNCHANGED accepted
       \/ /\ May("credentials")
          /\ Throw(m, "unrecoverable", "fail")
          /\ UNCHANGED accepted
    /\ UNCHANGED <<env, batchVars, status, recorded, walletVars, jobVars, requestVars, hook>>

Record(m) ==
    /\ pc[m] = "record"
    /\ status' = [status EXCEPT ![m] = "SENT"]
    /\ recorded' = recorded \cup {m}
    /\ TrackNext(m, "SENT")
    /\ UNCHANGED <<env, batchVars, walletVars, jobVars, requestVars, hook, accepted>>

Finish(m) ==
    /\ pc[m] = "finish"
    /\ EndJob(m, "completed")
    /\ UNCHANGED <<env, batchVars, status, recorded, walletVars, attempts, requestVars,
                   hook, accepted>>

\* An error in the try block is caught; one in the catch block replaces it.
InCatch(m) ==
    \/ pc[m] \in {"fail", "mark_read", "mark_write", "refund"}
    \/ pc[m] \in {"track_read", "track_write"} /\ goal[m] = "FAILED"

DatabaseFault(m) ==
    /\ May("database")
    /\ pc[m] \notin {"idle", "rethrow"}
    /\ Throw(m, "transient", IF InCatch(m) THEN "rethrow" ELSE "fail")
    /\ UNCHANGED <<env, batchVars, status, recorded, walletVars, jobVars, requestVars,
                   hook, accepted>>

OneAttemptMore(m) == attempts[m] >= MaxAttempts
FinalAttempt(m) == attempts[m] + 1 >= MaxAttempts

Fail(m) ==
    /\ pc[m] = "fail"
    /\ IF err[m] = "permanent" \/ FinalAttempt(m)
       THEN Goto(m, "mark_read") /\ UNCHANGED status
       ELSE /\ status' = [status EXCEPT ![m] = RetryStatus(@)]
            /\ Goto(m, "rethrow")
    /\ UNCHANGED <<env, batchVars, recorded, walletVars, jobVars, requestVars, hook, accepted>>

MarkFailedRead(m) ==
    /\ pc[m] = "mark_read"
    /\ Goto(m, IF status[m] \in {"FAILED", "CANCELED"} THEN "rethrow" ELSE "mark_write")
    /\ UNCHANGED <<env, batchVars, status, recorded, walletVars, jobVars, requestVars,
                   hook, accepted>>

MarkFailedWrite(m) ==
    /\ pc[m] = "mark_write"
    /\ status' = [status EXCEPT ![m] = "FAILED"]
    /\ TrackNext(m, "FAILED")
    /\ UNCHANGED <<env, batchVars, recorded, walletVars, jobVars, requestVars, hook, accepted>>

\* refundWalletForMessage looks for a DEBIT row with the id of the message;
\* a bulk charge carries the id of the batch, so nothing is given back.
RefundFindsNoDebit(m) ==
    /\ pc[m] = "refund"
    /\ Goto(m, "rethrow")
    /\ UNCHANGED <<env, batchVars, status, recorded, walletVars, jobVars, requestVars,
                   hook, accepted>>

Rethrow(m) ==
    /\ pc[m] = "rethrow"
    /\ EndJob(m, IF err[m] \in {"permanent", "unrecoverable"} \/ FinalAttempt(m)
                 THEN "failed" ELSE "waiting")
    /\ attempts' = [attempts EXCEPT ![m] = @ + 1]
    /\ UNCHANGED <<env, batchVars, status, recorded, walletVars, requestVars, hook, accepted>>

\* The process dies; its job is found stalled and retried, or given up.
WorkerDies(m) ==
    /\ May("crash")
    /\ pc[m] # "idle"
    /\ \E state \in {"waiting", "failed"} : EndJob(m, state)
    /\ UNCHANGED <<env, batchVars, status, recorded, walletVars, attempts, requestVars,
                   hook, accepted>>

-----------------------------------------------------------------------------
(* Status webhooks about recorded messages, one at a time.                 *)

WebhookRead(m, next) ==
    /\ hook = NoHook
    /\ m \in recorded
    /\ hook' = [NoHook EXCEPT !.m = m, !.next = next, !.step = "write",
                              !.apply = ShouldApply(status[m], next)]
    /\ UNCHANGED <<env, batchVars, status, recorded, walletVars, jobVars, requestVars,
                   workerVars, accepted>>

WebhookWrite ==
    /\ hook.step = "write"
    /\ IF hook.apply
       THEN /\ status' = [status EXCEPT ![hook.m] = hook.next]
            /\ hook' = [hook EXCEPT !.step = "track_read"]
       ELSE /\ hook' = NoHook
            /\ UNCHANGED status
    /\ UNCHANGED <<env, batchVars, recorded, walletVars, jobVars, requestVars, workerVars,
                   accepted>>

WebhookTrackRead ==
    /\ hook.step = "track_read"
    /\ hook' = IF Tracks(recipient[hook.m], hook.next)
               THEN [hook EXCEPT !.step = "track_write", !.seen = recipient[hook.m]]
               ELSE NoHook
    /\ UNCHANGED <<env, batchVars, status, recorded, walletVars, jobVars, requestVars,
                   workerVars, accepted>>

WebhookTrackWrite ==
    /\ hook.step = "track_write"
    /\ WriteTracking(hook.m, hook.seen, hook.next)
    /\ hook' = NoHook
    /\ UNCHANGED <<env, status, recorded, walletVars, jobVars, requestVars, workerVars,
                   accepted>>

WebhookDies ==
    /\ May("crash") \/ May("database")
    /\ hook # NoHook
    /\ hook' = NoHook
    /\ UNCHANGED <<env, batchVars, status, recorded, walletVars, jobVars, requestVars,
                   workerVars, accepted>>

-----------------------------------------------------------------------------
Worker(m) ==
    \/ Dequeue(m) \/ Load(m) \/ Claim(m) \/ TrackRead(m) \/ TrackWrite(m) \/ Send(m)
    \/ Record(m) \/ Finish(m) \/ Fail(m) \/ MarkFailedRead(m) \/ MarkFailedWrite(m)
    \/ RefundFindsNoDebit(m) \/ Rethrow(m) \/ DatabaseFault(m) \/ WorkerDies(m)

Cancellation(c) ==
    CancelRead(c) \/ CancelClaim(c) \/ CancelRemoveJobs(c) \/ CancelDies(c)

Webhook ==
    \/ \E m \in Messages, next \in Reports : WebhookRead(m, next)
    \/ WebhookWrite \/ WebhookTrackRead \/ WebhookTrackWrite \/ WebhookDies

Next ==
    \/ \E charged \in SUBSET Messages, initial \in {"QUEUED", "SCHEDULED"} :
           CreateBatch(charged, initial)
    \/ Enqueue \/ CountUsage \/ Compensate \/ RequestDies
    \/ \E c \in Cancels : Cancellation(c)
    \/ \E m \in Messages : Worker(m)
    \/ Webhook

Spec == Init /\ [][Next]_vars

-----------------------------------------------------------------------------
(* Properties.                                                             *)

Ledger == INSTANCE WalletLedger WITH
    Items <- Messages, TopUpAmounts <- {}, CreditBound <- 0, credited <- 0

\* Whatever fails, the batch charge and the two whole-batch refunds move the
\* wallet the way WalletLedger allows: in particular a refund is worth exactly
\* the messages charged, although its amount was computed before the
\* transaction that pays it.
RefinesLedger == Ledger!Spec

Canceled == \E c \in Cancels : cancel[c] \in {"remove", "done"}

\* Once a cancellation has gone through, no message of the batch is ever handed
\* to Meta, although the jobs may still run, retry or never be removed.
CanceledBatchNeverSent == Canceled => accepted = {}

\* A message of the batch is refunded at most once, however many cancellations
\* race; the only double payment left is a creating request that compensates a
\* batch which was canceled before its enqueue or quota error surfaced.
RefundedOnce ==
    \A m \in Messages : Cardinality({row \in refunds : row[1] = m}) > 1 =>
        request = "compensated" /\ Canceled

\* As long as no statement fails and nothing is compensated, a batch that says
\* FAILED has no message that is on its way or delivered.
BatchFailedMeansAllFailed ==
    batch = "FAILED" /\ ~May("database") /\ request # "compensated" =>
        \A m \in members : status[m] = "FAILED"

\* Failures some step has written to a message and not yet to the counters.
Uncounted ==
    {m \in Messages : pc[m] \in {"track_read", "track_write"} /\ goal[m] = "FAILED"}
      \cup {m \in {hook.m} : hook.next = "FAILED" /\ hook.step \in {"track_read", "track_write"}}

\* As long as no statement fails, no process dies and nothing is compensated,
\* the worker and the webhooks between them count every failed message exactly
\* once, although their tracking transactions overwrite one another.
FailuresCountedOnce ==
    {"database", "crash"} \cap env = {} /\ request # "compensated" =>
        failedCount + Cardinality(Uncounted) = Cardinality({m \in members : status[m] = "FAILED"})
=============================================================================
