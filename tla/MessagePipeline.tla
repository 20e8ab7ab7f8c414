--------------------------- MODULE MessagePipeline ---------------------------
(***************************************************************************)
(* One outbound message, from the request that charges for it to its final *)
(* delivery status: the request handlers of single-message.service.ts and  *)
(* message.service.ts, the cancellation of a scheduled message, the two    *)
(* processes running message.worker.ts, BullMQ between them, and the       *)
(* status webhooks of webhook.worker.ts.                                   *)
(*                                                                         *)
(* A step ends where the code awaits: a database statement or transaction, *)
(* a queue operation, or the call to Meta.  Messages that belong to a      *)
(* campaign or to a bulk batch take extra branches and are not modelled    *)
(* here.                                                                   *)
(***************************************************************************)
EXTENDS MessageStatus, Integers, FiniteSets

CONSTANTS
    Messages,       \* ids of the messages that may be created
    Single,         \* those made by single-message.service (it compensates)
    Workers,        \* message-worker processes, one job at a time each
    NoMessage, NoWorker,
    MaxAttempts,    \* `attempts` of the message queue
    MaxStalls,      \* BullMQ's maxStalledCount
    Price,          \* MESSAGE_PRICE_PAISE
    Opening,        \* wallet balance at the start
    Simulation,     \* ENABLE_MESSAGE_SIMULATION
    AcceptBound,    \* sends of one message Meta accepts in a checked behaviour
    Environments    \* sets of faults, one of which is in force, see FaultKinds

FaultKinds ==
    { "database",       \* a statement or transaction of a handler fails
      "crash",          \* a process dies between two steps
      "lock",           \* a live worker loses its job lock
      "maintenance",    \* maintenance mode is seen on
      "credentials",    \* the company has no usable WhatsApp credentials
      "rejected",       \* Meta answers 4xx (not 429)
      "transient",      \* Meta answers 429 or 5xx, or is unreachable
      "answer_lost",    \* Meta accepts, the answer does not arrive
      "enqueue",        \* queue.add throws
      "quota" }         \* incrementUsageQuota throws

ASSUME PipelineAssumption ==
    /\ IsFiniteSet(Messages) /\ IsFiniteSet(Workers)
    /\ Single \subseteq Messages
    /\ NoMessage \notin Messages /\ NoWorker \notin Workers
    /\ MaxAttempts \in Nat \ {0} /\ MaxStalls \in Nat
    /\ Price \in Nat \ {0} /\ Opening \in Nat
    /\ Simulation \in BOOLEAN /\ AcceptBound \in Nat \ {0}
    /\ Environments \subseteq SUBSET FaultKinds
    /\ {"request", "cancel"} \cap Workers = {}

VARIABLES
    env,        \* what may go wrong
    \* database
    status,     \* Message.status, "NONE" before the row exists
    scheduled,  \* messages with a scheduledAt
    metaId,     \* Message.metaMessageId: 0 none, k the k-th acceptance
    balance, debits, refunds,               \* the wallet and its rows
    \* BullMQ
    job, owner, attempts, stalls,
    \* processes
    create,     \* pc of the request that creates a message
    cancel,     \* pc of the request that cancels it
    pc, cur, err, ans,                      \* message workers
    hook,       \* webhook worker: the status event it is applying
    \* Meta
    accepted    \* how many sends of the message Meta has accepted

dbVars     == <<status, scheduled, metaId>>
walletVars == <<balance, debits, refunds>>
queueVars  == <<job, owner, attempts, stalls>>
workerVars == <<pc, cur, err, ans>>
vars == <<env, dbVars, walletVars, queueVars, create, cancel, workerVars, hook, accepted>>

-----------------------------------------------------------------------------
JobStates  == {"none", "waiting", "active", "completed", "failed", "removed"}
CreateSteps == {"none", "enqueue", "quota", "compensate", "thrown", "done"}
CancelSteps == {"none", "remove", "refund_read", "refund_write", "done"}
WorkerSteps == {"idle", "load", "claim", "send", "record", "finish", "fail",
                "mark_read", "mark_write", "refund_read", "refund_write", "rethrow"}
Errors     == {"none", "maintenance", "transient", "permanent", "unrecoverable"}
Refunders  == Workers \cup {"request", "cancel"}
Simulated  == -1        \* the fake id dev_meta_<message id>
NoHook     == [m |-> NoMessage, next |-> "NONE", apply |-> FALSE]

May(fault) == fault \in env

DatabaseOK ==
    /\ status \in [Messages -> Statuses]
    /\ scheduled \subseteq Single
    /\ metaId \in [Messages -> Nat \cup {Simulated}]

WalletOK ==
    /\ balance \in Int
    /\ debits \subseteq Messages
    /\ refunds \subseteq Messages \X Refunders

QueueOK ==
    /\ job \in [Messages -> JobStates]
    /\ owner \in [Messages -> Workers \cup {NoWorker}]
    /\ attempts \in [Messages -> 0..MaxAttempts]
    /\ stalls \in [Messages -> 0..MaxStalls]

RequestsOK ==
    /\ create \in [Messages -> CreateSteps]
    /\ cancel \in [Messages -> CancelSteps]

WorkersOK ==
    /\ pc \in [Workers -> WorkerSteps]
    /\ cur \in [Workers -> Messages \cup {NoMessage}]
    /\ \A w \in Workers : cur[w] = NoMessage <=> pc[w] = "idle"
    /\ err \in [Workers -> Errors]
    /\ ans \in [Workers -> Nat \cup {Simulated}]

HookOK ==
    /\ hook \in [m : Messages \cup {NoMessage}, next : {"NONE", "FAILED"} \cup Delivery,
                 apply : BOOLEAN]
    /\ hook.m = NoMessage <=> hook = NoHook
    /\ hook.m # NoMessage => hook.next # "NONE"

TypeOK ==
    /\ env \in Environments
    /\ DatabaseOK /\ WalletOK /\ QueueOK /\ RequestsOK /\ WorkersOK /\ HookOK
    /\ accepted \in [Messages -> Nat]

Init ==
    /\ env \in Environments
    /\ status = [m \in Messages |-> "NONE"]
    /\ scheduled = {}
    /\ metaId = [m \in Messages |-> 0]
    /\ balance = Opening /\ debits = {} /\ refunds = {}
    /\ job = [m \in Messages |-> "none"]
    /\ owner = [m \in Messages |-> NoWorker]
    /\ attempts = [m \in Messages |-> 0]
    /\ stalls = [m \in Messages |-> 0]
    /\ create = [m \in Messages |-> "none"]
    /\ cancel = [m \in Messages |-> "none"]
    /\ pc = [w \in Workers |-> "idle"]
    /\ cur = [w \in Workers |-> NoMessage]
    /\ err = [w \in Workers |-> "none"]
    /\ ans = [w \in Workers |-> 0]
    /\ hook = NoHook
    /\ accepted = [m \in Messages |-> 0]

-----------------------------------------------------------------------------
\* REFUND rows of a message.
RefundsOf(m) == {row \in refunds : row[1] = m}

WriteRowOnly(m, who) ==
    /\ refunds' = refunds \cup {<<m, who>>}
    /\ UNCHANGED <<balance, debits>>

\* One transaction: give Price back and write the row.
WriteRefund(m, who) ==
    /\ balance' = balance + Price
    /\ refunds' = refunds \cup {<<m, who>>}
    /\ UNCHANGED debits

-----------------------------------------------------------------------------
(* The request that creates a message.                                     *)

UncheckedBalance == TRUE
Affordable == balance >= Price

\* One transaction: conditional debit, the message, its DEBIT row.
CreateMessage(m) ==
    /\ create[m] = "none"
    /\ Affordable
    /\ balance' = balance - Price
    /\ debits' = debits \cup {m}
    /\ status' = [status EXCEPT ![m] = "QUEUED"]
    /\ \/ UNCHANGED scheduled
       \/ m \in Single /\ scheduled' = scheduled \cup {m}
    /\ create' = [create EXCEPT ![m] = "enqueue"]
    /\ UNCHANGED <<env, metaId, refunds, queueVars, cancel, workerVars, hook, accepted>>

\* What a throw after the transaction leads to: only single-message.service
\* has a catch block.
AfterThrow(m) == IF m \in Single THEN "compensate" ELSE "thrown"

Enqueue(m) ==
    /\ create[m] = "enqueue"
    /\ \/ /\ job' = [job EXCEPT ![m] = "waiting"]
          /\ create' = [create EXCEPT ![m] = "quota"]
       \/ /\ May("enqueue")      \* the add may or may not have reached Redis
          /\ job' \in {job, [job EXCEPT ![m] = "waiting"]}
          /\ create' = [create EXCEPT ![m] = AfterThrow(m)]
    /\ UNCHANGED <<env, dbVars, walletVars, owner, attempts, stalls, cancel, workerVars, hook, accepted>>

CountUsage(m) ==
    /\ create[m] = "quota"
    /\ \/ create' = [create EXCEPT ![m] = "done"]
       \/ May("quota") /\ create' = [create EXCEPT ![m] = AfterThrow(m)]
    /\ UNCHANGED <<env, dbVars, walletVars, queueVars, cancel, workerVars, hook, accepted>>

\* One transaction: FAILED whatever the status is by now, and a refund that
\* looks for no earlier one.
Compensate(m) ==
    /\ create[m] = "compensate"
    /\ status' = [status EXCEPT ![m] = "FAILED"]
    /\ WriteRefund(m, "request")
    /\ create' = [create EXCEPT ![m] = "thrown"]
    /\ UNCHANGED <<env, scheduled, metaId, queueVars, cancel, workerVars, hook, accepted>>

\* The web process dies, or the compensating transaction fails.
RequestDies(m) ==
    /\ \/ May("crash") /\ create[m] \in {"enqueue", "quota", "compensate"}
       \/ May("database") /\ create[m] = "compensate"
    /\ create' = [create EXCEPT ![m] = "thrown"]
    /\ UNCHANGED <<env, dbVars, walletVars, queueVars, cancel, workerVars, hook, accepted>>

-----------------------------------------------------------------------------
(* The request that cancels a scheduled message.                           *)

CancelableAnytime(m) == m \in scheduled
Cancelable(m) == m \in scheduled /\ status[m] = "QUEUED"

CancelClaim(m) ==
    /\ cancel[m] = "none"
    /\ Cancelable(m)
    /\ status' = [status EXCEPT ![m] = "CANCELED"]
    /\ cancel' = [cancel EXCEPT ![m] = "remove"]
    /\ UNCHANGED <<env, scheduled, metaId, walletVars, queueVars, create, workerVars, hook, accepted>>

\* job.remove() throws on a locked job and is given up after five seconds.
CancelRemoveJob(m) ==
    /\ cancel[m] = "remove"
    /\ \/ UNCHANGED job
       \/ job[m] \notin {"none", "active"} /\ job' = [job EXCEPT ![m] = "removed"]
    /\ cancel' = [cancel EXCEPT ![m] = "refund_read"]
    /\ UNCHANGED <<env, dbVars, walletVars, owner, attempts, stalls, create, workerVars, hook, accepted>>

CancelRefundRead(m) ==
    /\ cancel[m] = "refund_read"
    /\ cancel' = [cancel EXCEPT ![m] =
           IF m \in debits /\ RefundsOf(m) = {} THEN "refund_write" ELSE "done"]
    /\ UNCHANGED <<env, dbVars, walletVars, queueVars, create, workerVars, hook, accepted>>

CancelRefundWrite(m) ==
    /\ cancel[m] = "refund_write"
    /\ WriteRefund(m, "cancel")
    /\ cancel' = [cancel EXCEPT ![m] = "done"]
    /\ UNCHANGED <<env, dbVars, queueVars, create, workerVars, hook, accepted>>

\* A second request finds the status CANCELED and throws: nothing resumes it.
CancelDies(m) ==
    /\ May("crash") \/ May("database")
    /\ cancel[m] \in {"remove", "refund_read", "refund_write"}
    /\ cancel' = [cancel EXCEPT ![m] = "done"]
    /\ UNCHANGED <<env, dbVars, walletVars, queueVars, create, workerVars, hook, accepted>>

-----------------------------------------------------------------------------
(* BullMQ, as the workers see it.                                          *)

Dequeue(w, m) ==
    /\ pc[w] = "idle"
    /\ job[m] = "waiting"
    /\ job' = [job EXCEPT ![m] = "active"]
    /\ owner' = [owner EXCEPT ![m] = w]
    /\ pc' = [pc EXCEPT ![w] = "load"]
    /\ cur' = [cur EXCEPT ![w] = m]
    /\ UNCHANGED <<env, dbVars, walletVars, attempts, stalls, create, cancel, err, ans, hook, accepted>>

\* The worker becomes idle; the job moves only if the worker still owns it.
EndJob(w, state) ==
    LET m == cur[w] IN
    /\ job' = IF owner[m] = w THEN [job EXCEPT ![m] = state] ELSE job
    /\ owner' = IF owner[m] = w THEN [owner EXCEPT ![m] = NoWorker] ELSE owner
    /\ pc' = [pc EXCEPT ![w] = "idle"]
    /\ cur' = [cur EXCEPT ![w] = NoMessage]
    /\ err' = [err EXCEPT ![w] = "none"]
    /\ ans' = [ans EXCEPT ![w] = 0]

MayStallOnceMore(m) == stalls[m] <= MaxStalls
MayStall(m) == stalls[m] < MaxStalls

Stalled(m) ==
    /\ owner' = [owner EXCEPT ![m] = NoWorker]
    /\ IF MayStall(m)
       THEN /\ job' = [job EXCEPT ![m] = "waiting"]
            /\ stalls' = [stalls EXCEPT ![m] = @ + 1]
       ELSE /\ job' = [job EXCEPT ![m] = "failed"]
            /\ UNCHANGED stalls
    /\ UNCHANGED attempts

\* The stalled-job checker finds an active job whose lock was not renewed,
\* while the handler may still be running.
LockLost(m) ==
    /\ May("lock")
    /\ job[m] = "active"
    /\ Stalled(m)
    /\ UNCHANGED <<env, dbVars, walletVars, create, cancel, workerVars, hook, accepted>>

\* The process dies; pm2 restarts it idle, and its job is found stalled.
WorkerDies(w) ==
    /\ May("crash")
    /\ pc[w] # "idle"
    /\ IF owner[cur[w]] = w THEN Stalled(cur[w]) ELSE UNCHANGED queueVars
    /\ pc' = [pc EXCEPT ![w] = "idle"]
    /\ cur' = [cur EXCEPT ![w] = NoMessage]
    /\ err' = [err EXCEPT ![w] = "none"]
    /\ ans' = [ans EXCEPT ![w] = 0]
    /\ UNCHANGED <<env, dbVars, walletVars, create, cancel, hook, accepted>>

\* An operator retries a failed job from the dead letter page.
RetryDeadLetter(m) ==
    /\ job[m] = "failed"
    /\ job' = [job EXCEPT ![m] = "waiting"]
    /\ UNCHANGED <<env, dbVars, walletVars, owner, attempts, stalls, create, cancel, workerVars, hook, accepted>>

-----------------------------------------------------------------------------
(* The handler of the message worker.                                      *)

Goto(w, step) ==
    /\ pc' = [pc EXCEPT ![w] = step]
    /\ UNCHANGED <<cur, err, ans>>

Throw(w, error, step) ==
    /\ err' = [err EXCEPT ![w] = error]
    /\ pc' = [pc EXCEPT ![w] = step]
    /\ UNCHANGED <<cur, ans>>

Load(w) ==
    /\ pc[w] = "load"
    /\ \/ /\ May("maintenance")         \* rethrown with no change
          /\ Throw(w, "maintenance", "rethrow")
          /\ UNCHANGED queueVars
       \/ /\ status[cur[w]] \in Sendable
          /\ Goto(w, "claim")
          /\ UNCHANGED queueVars
       \/ /\ status[cur[w]] \notin Sendable
          /\ EndJob(w, "completed")
          /\ UNCHANGED <<attempts, stalls>>
    /\ UNCHANGED <<env, dbVars, walletVars, create, cancel, hook, accepted>>

\* The claiming transaction tests the status again.
ClaimableAsLoaded(m) == TRUE
Claimable(m) == status[m] \in Sendable

Claim(w) ==
    /\ pc[w] = "claim"
    /\ IF Claimable(cur[w])
       THEN /\ status' = [status EXCEPT ![cur[w]] = "SENDING"]
            /\ Goto(w, "send")
            /\ UNCHANGED queueVars
       ELSE /\ EndJob(w, "completed")
            /\ UNCHANGED <<status, attempts, stalls>>
    /\ UNCHANGED <<env, scheduled, metaId, walletVars, create, cancel, hook, accepted>>

NoCredentials(w) ==
    /\ pc[w] = "send"
    /\ May("credentials")
    /\ IF Simulation
       THEN /\ ans' = [ans EXCEPT ![w] = Simulated]
            /\ pc' = [pc EXCEPT ![w] = "record"]
            /\ UNCHANGED <<cur, err>>
       ELSE Throw(w, "unrecoverable", "fail")
    /\ UNCHANGED <<env, dbVars, walletVars, queueVars, create, cancel, hook, accepted>>

MetaAccepts(w) ==
    /\ pc[w] = "send"
    /\ accepted[cur[w]] < AcceptBound
    /\ accepted' = [accepted EXCEPT ![cur[w]] = @ + 1]
    /\ \/ /\ ans' = [ans EXCEPT ![w] = accepted'[cur[w]]]
          /\ pc' = [pc EXCEPT ![w] = "record"]
          /\ UNCHANGED <<cur, err>>
       \/ /\ May("answer_lost")
          /\ Throw(w, "transient", "fail")
    /\ UNCHANGED <<env, dbVars, walletVars, queueVars, create, cancel, hook>>

MetaRejects(w) ==
    /\ pc[w] = "send"
    /\ \/ May("rejected") /\ Throw(w, "permanent", "fail")
       \/ May("transient") /\ Throw(w, "transient", "fail")
    /\ UNCHANGED <<env, dbVars, walletVars, queueVars, create, cancel, hook, accepted>>

\* Written without a test of the status the row has by now.
Record(w) ==
    /\ pc[w] = "record"
    /\ status' = [status EXCEPT ![cur[w]] = "SENT"]
    /\ metaId' = [metaId EXCEPT ![cur[w]] = ans[w]]
    /\ Goto(w, "finish")
    /\ UNCHANGED <<env, scheduled, walletVars, queueVars, create, cancel, hook, accepted>>

\* Flow interaction, batch tracking, developer webhook: any of them may throw.
Finish(w) ==
    /\ pc[w] = "finish"
    /\ EndJob(w, "completed")
    /\ UNCHANGED <<env, dbVars, walletVars, attempts, stalls, create, cancel, hook, accepted>>

\* A database error inside the try block lands in the catch block; one inside
\* the catch block replaces the error that is rethrown.
DatabaseFault(w) ==
    /\ May("database")
    /\ \/ pc[w] \in {"load", "claim", "send", "record", "finish"} /\ Throw(w, "transient", "fail")
       \/ pc[w] \in {"fail", "mark_read", "mark_write", "refund_read", "refund_write"}
          /\ Throw(w, "transient", "rethrow")
    /\ UNCHANGED <<env, dbVars, walletVars, queueVars, create, cancel, hook, accepted>>

FinalAttempt(m) == attempts[m] + 1 >= MaxAttempts

\* The catch block: give up, or markMessageForRetry.
Fail(w) ==
    /\ pc[w] = "fail"
    /\ IF err[w] = "permanent" \/ FinalAttempt(cur[w])
       THEN Goto(w, "mark_read") /\ UNCHANGED status
       ELSE /\ status' = [status EXCEPT ![cur[w]] = RetryStatus(@)]
            /\ Goto(w, "rethrow")
    /\ UNCHANGED <<env, scheduled, metaId, walletVars, queueVars, create, cancel, hook, accepted>>

MarkFailedRead(w) ==
    /\ pc[w] = "mark_read"
    /\ Goto(w, IF status[cur[w]] \in {"FAILED", "CANCELED"} THEN "rethrow" ELSE "mark_write")
    /\ UNCHANGED <<env, dbVars, walletVars, queueVars, create, cancel, hook, accepted>>

MarkFailedWithoutRefund(w) ==
    /\ pc[w] = "mark_write"
    /\ status' = [status EXCEPT ![cur[w]] = "FAILED"]
    /\ Goto(w, "rethrow")
    /\ UNCHANGED <<env, scheduled, metaId, walletVars, queueVars, create, cancel, hook, accepted>>

MarkFailedWrite(w) ==
    /\ pc[w] = "mark_write"
    /\ status' = [status EXCEPT ![cur[w]] = "FAILED"]
    /\ Goto(w, "refund_read")
    /\ UNCHANGED <<env, scheduled, metaId, walletVars, queueVars, create, cancel, hook, accepted>>

RefundRead(w) ==
    /\ pc[w] = "refund_read"
    /\ Goto(w, IF cur[w] \in debits /\ RefundsOf(cur[w]) = {} THEN "refund_write" ELSE "rethrow")
    /\ UNCHANGED <<env, dbVars, walletVars, queueVars, create, cancel, hook, accepted>>

RefundWrite(w) ==
    /\ pc[w] = "refund_write"
    /\ WriteRefund(cur[w], w)
    /\ Goto(w, "rethrow")
    /\ UNCHANGED <<env, dbVars, queueVars, create, cancel, hook, accepted>>

\* The handler throws: BullMQ retries later, or moves the job to failed.
\* attempts is only ever compared with MaxAttempts, so it stops there.
Rethrow(w) ==
    LET m == cur[w] IN
    /\ pc[w] = "rethrow"
    /\ EndJob(w, IF err[w] \in {"permanent", "unrecoverable"} \/ FinalAttempt(m)
                 THEN "failed" ELSE "waiting")
    /\ attempts' = IF owner[m] = w /\ attempts[m] < MaxAttempts
                   THEN [attempts EXCEPT ![m] = @ + 1] ELSE attempts
    /\ UNCHANGED <<env, dbVars, walletVars, stalls, create, cancel, hook, accepted>>

-----------------------------------------------------------------------------
(* Status webhooks.  Meta reports on an acceptance it gave; the row is     *)
(* found by its metaMessageId, so a report that comes before Record, or    *)
(* about an acceptance that was not recorded, changes nothing.  Reports    *)
(* may be repeated or come in any order; the dedupe key only matters to    *)
(* the campaign counters, which are not part of this module.               *)

WebhookRead(m, next) ==
    /\ hook = NoHook
    /\ metaId[m] > 0
    /\ hook' = [m |-> m, next |-> next, apply |-> ShouldApply(status[m], next)]
    /\ UNCHANGED <<env, dbVars, walletVars, queueVars, create, cancel, workerVars, accepted>>

WebhookWrite ==
    /\ hook # NoHook
    /\ status' = IF hook.apply THEN [status EXCEPT ![hook.m] = hook.next] ELSE status
    /\ hook' = NoHook
    /\ UNCHANGED <<env, scheduled, metaId, walletVars, queueVars, create, cancel, workerVars, accepted>>

\* webhook-queue jobs have a single attempt: the event is lost.
WebhookDies ==
    /\ May("crash") \/ May("database")
    /\ hook # NoHook
    /\ hook' = NoHook
    /\ UNCHANGED <<env, dbVars, walletVars, queueVars, create, cancel, workerVars, accepted>>

-----------------------------------------------------------------------------
Request(m) == Enqueue(m) \/ CountUsage(m) \/ Compensate(m)

Cancellation(m) == CancelRemoveJob(m) \/ CancelRefundRead(m) \/ CancelRefundWrite(m)

Handler(w) ==
    \/ Load(w) \/ Claim(w) \/ NoCredentials(w) \/ MetaAccepts(w) \/ MetaRejects(w)
    \/ Record(w) \/ Finish(w) \/ Fail(w) \/ MarkFailedRead(w) \/ MarkFailedWrite(w)
    \/ RefundRead(w) \/ RefundWrite(w) \/ Rethrow(w)

Environment ==
    \/ \E m \in Messages : RequestDies(m) \/ CancelDies(m) \/ LockLost(m) \/ RetryDeadLetter(m)
    \/ \E w \in Workers : WorkerDies(w) \/ DatabaseFault(w)
    \/ WebhookDies

Next ==
    \/ \E m \in Messages :
        \/ CreateMessage(m) \/ Request(m)
        \/ CancelClaim(m) \/ Cancellation(m)
    \/ \E w \in Workers, m \in Messages : Dequeue(w, m)
    \/ \E w \in Workers : Handler(w)
    \/ \E m \in Messages, next \in Delivery \cup {"FAILED"} : WebhookRead(m, next)
    \/ WebhookWrite
    \/ Environment

Spec == Init /\ [][Next]_vars

\* Node keeps running a handler it has started, BullMQ hands out waiting jobs.
Fairness ==
    /\ \A m \in Messages : WF_vars(Request(m)) /\ WF_vars(Cancellation(m))
    /\ \A m \in Messages : WF_vars(\E w \in Workers : Dequeue(w, m))
    /\ \A w \in Workers : WF_vars(Handler(w))
    /\ WF_vars(WebhookWrite)

FairSpec == Spec /\ Fairness

-----------------------------------------------------------------------------
(* Properties.                                                             *)

\* The handlers of this module only move money the way WalletLedger allows:
\* conditional charges, and refunds of charged messages, each with its row.
Ledger == INSTANCE WalletLedger WITH
    Items <- Messages, TopUpAmounts <- {}, CreditBound <- 0, credited <- 0

RefinesLedger == Ledger!Spec

\* The wallet agrees with its transaction rows after every single step of
\* every handler, crashes and failed statements included, and is never
\* overdrawn by requests that race for the last credit.
WalletConsistent == Ledger!BalanceMatchesLedger /\ Ledger!NeverOverdrawn

Sending(w) == pc[w] \in {"send", "record"}

\* Live workers keep their locks, or no statement fails.
LocksOrStatementsHold == ~({"lock", "database"} \subseteq env)

\* The claim of message.worker.ts is exclusive: two worker processes never
\* hold the same message between the claim and the recording of the answer,
\* even when BullMQ hands a job out twice.
ExclusiveSender == LocksOrStatementsHold =>
    \A v, w \in Workers : Sending(v) /\ Sending(w) /\ cur[v] = cur[w] => v = w

\* A cancellation that was accepted keeps the message from Meta for good,
\* although its job may already be running when the cancellation comes.
CanceledNeverSent == \A m \in Messages : cancel[m] # "none" => accepted[m] = 0

\* Once Meta's answer is recorded the message is never sent again, whatever
\* fails afterwards in the same job or in a retry of it.
NoResendAfterRecord ==
    [][LocksOrStatementsHold => \A m \in Messages : metaId[m] # 0 =>
        accepted'[m] = accepted[m] /\ metaId'[m] = metaId[m]]_vars

\* Meta accepts a message once, whoever dies, stalls or is retried: only an
\* answer that is lost, or whose recording fails, leads to a second send.
SentOnce == env \cap {"answer_lost", "database"} = {} =>
    \A m \in Messages : accepted[m] <= 1

\* A delivery status never moves backwards and never returns to a status the
\* worker would send again: only forward, or to FAILED.
DeliveryMonotone ==
    [][LocksOrStatementsHold => \A m \in Messages : status[m] \in Delivery =>
        status'[m] = "FAILED" \/ (status'[m] \in Delivery /\ Rank[status'[m]] >= Rank[status[m]])]_vars

\* No handler is in the middle of the message.
AtRest(m) ==
    /\ create[m] \in {"done", "thrown"}
    /\ cancel[m] \in {"none", "done"}
    /\ \A w \in Workers : cur[w] # m

\* When no process dies and no statement fails, a message the worker gave up
\* on or a user canceled has been refunded exactly once, and no other has.
SettledExactlyOnce == env \cap {"database", "crash", "lock", "enqueue", "quota"} = {} =>
    \A m \in Messages : AtRest(m) =>
        Cardinality(RefundsOf(m)) =
            IF status[m] \in {"FAILED", "CANCELED"} /\ metaId[m] = 0 THEN 1 ELSE 0

\* As long as no process dies, no statement fails and the company has its
\* credentials, every queued message is eventually sent, failed or canceled.
EventuallySettled ==
    \A m \in Messages :
        (env \subseteq {"rejected", "transient", "answer_lost"} /\ status[m] = "QUEUED")
            ~> status[m] \in Delivery \cup {"FAILED", "CANCELED"}

\* docs/message-simulation.md:10-13 on a company without credentials: the
\* message is marked failed and the charge is refunded.
MissingCredentialsFailMessage ==
    \A m \in Messages : job[m] = "failed" /\ AtRest(m) =>
        status[m] = "FAILED" /\ RefundsOf(m) # {}
=============================================================================
