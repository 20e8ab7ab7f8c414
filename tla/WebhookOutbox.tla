---------------------------- MODULE WebhookOutbox ----------------------------
(***************************************************************************)
(* One event of the developer webhooks on its way from the outbox to the   *)
(* queue of deliveries: its publication, the outbox worker, which retries  *)
(* it, the recovery when a worker starts, and the retry button.            *)
(*                                                                         *)
(* A step ends where the code awaits.  The endpoints are those that are    *)
(* active and subscribed throughout; what a delivery then does is left     *)
(* out.  A recovery lists and adds events one by one; here it is one step. *)
(***************************************************************************)
EXTENDS Integers

CONSTANTS
    Publishers,         \* calls that publish the event, by its idempotency key
    Endpoints,          \* how many endpoints there are
    Workers,            \* executions of the outbox worker
    Admins,             \* clicks on retry
    OutboxAttempts,     \* attempts of the job
    MaxOutboxStalls,    \* BullMQ's maxStalledCount, 0 once it is used up
    MaxRecoveries,      \* starts of a worker process, a bound of the model
    OutboxEnvironments  \* subsets of OutboxKinds, one of which is in force

OutboxKinds ==
    { "redis",      \* Redis is not ready, or an add throws
      "database",   \* a statement fails
      "crash",      \* a worker dies
      "lock",       \* a live execution's job is found stalled
      "restart",    \* a worker process starts, ten minutes after an event was locked
      "again" }     \* admins retry

VARIABLES
    outboxEnv,
    published,      \* the row's status, "NONE" before it exists
    deliveries,     \* DeveloperWebhookDelivery rows of each endpoint
    sendable,       \* how many of them have a job
    outbox,         \* the outbox job: [state, tries, stalls]
    publisher,      \* the requests and workers that publish
    execution,      \* of the outbox worker
    recoveries,
    retrier         \* retry requests

outboxVars == <<outboxEnv, published, deliveries, sendable, outbox, publisher, execution,
                recoveries, retrier>>

ExecutionRow == [pc : {"idle", "claim", "deliver", "add", "mark", "fail"},
                 at : 1..Endpoints + 1, owner : BOOLEAN]

OutboxTypeOK ==
    /\ outboxEnv \in OutboxEnvironments
    /\ published \in {"NONE", "PENDING", "PROCESSING", "DELIVERED", "FAILED"}
    /\ deliveries \in [1..Endpoints -> Nat] /\ sendable \in [1..Endpoints -> Nat]
    /\ outbox \in [state : {"none", "waiting", "active", "kept"}, tries : 0..OutboxAttempts,
                   stalls : 0..MaxOutboxStalls + 1]
    /\ publisher \in [Publishers -> {"idle", "add", "done"}]
    /\ execution \in [Workers -> ExecutionRow]
    /\ recoveries \in 0..MaxRecoveries
    /\ retrier \in [Admins -> {"idle", "reset", "add", "done"}]

NoOutboxJob == [state |-> "none", tries |-> 0, stalls |-> 0]
Resting == [pc |-> "idle", at |-> 1, owner |-> FALSE]

OutboxInit ==
    /\ outboxEnv \in OutboxEnvironments
    /\ published = "NONE"
    /\ deliveries = [e \in 1..Endpoints |-> 0] /\ sendable = [e \in 1..Endpoints |-> 0]
    /\ outbox = NoOutboxJob
    /\ publisher = [p \in Publishers |-> "idle"]
    /\ execution = [w \in Workers |-> Resting]
    /\ recoveries = 0
    /\ retrier = [a \in Admins |-> "idle"]

Hit(kind) == kind \in outboxEnv

-----------------------------------------------------------------------------
(* The queue: an event's job has the event's id, so while one exists, and  *)
(* for a day after it completed, another add does nothing.  A job that     *)
(* failed for good is removed.                                             *)

AddJob == outbox' = IF outbox.state = "none" THEN [NoOutboxJob EXCEPT !.state = "waiting"] ELSE outbox
TryAdd == AddJob \/ (Hit("redis") /\ UNCHANGED outbox)

\* publishDeveloperWebhookEvent: the row, if there is none, then its job, if it
\* was not delivered; an add that fails is only logged.
Publish(p) ==
    /\ \/ /\ publisher[p] = "idle"
          /\ published' = IF published = "NONE" THEN "PENDING" ELSE published
          /\ publisher' = [publisher EXCEPT ![p] = IF published = "DELIVERED" THEN "done" ELSE "add"]
          /\ UNCHANGED outbox
       \/ /\ publisher[p] = "add"
          /\ TryAdd
          /\ publisher' = [publisher EXCEPT ![p] = "done"]
          /\ UNCHANGED published
    /\ UNCHANGED <<outboxEnv, deliveries, sendable, execution, recoveries, retrier>>

\* enqueueRecoverableDeveloperWebhookOutboxEvents, when a worker starts.  The
\* handler whose event has been locked for ten minutes may be alive.
Recover ==
    /\ Hit("restart") /\ recoveries < MaxRecoveries /\ published # "NONE"
    /\ published' \in (IF published = "PROCESSING" THEN {"PROCESSING", "PENDING"} ELSE {published})
    /\ IF published' \in {"PENDING", "FAILED"} THEN TryAdd ELSE UNCHANGED outbox
    /\ recoveries' = recoveries + 1
    /\ UNCHANGED <<outboxEnv, deliveries, sendable, publisher, execution, retrier>>

\* The retry route: what it reads, it overwrites later.
Retry(a) ==
    /\ Hit("again")
    /\ \/ /\ retrier[a] = "idle" /\ published \in {"PENDING", "FAILED"}
          /\ retrier' = [retrier EXCEPT ![a] = "reset"]
          /\ UNCHANGED <<published, outbox>>
       \/ /\ retrier[a] = "reset"
          /\ published' = "PENDING"
          /\ retrier' = [retrier EXCEPT ![a] = "add"]
          /\ UNCHANGED outbox
       \/ /\ retrier[a] = "add"
          /\ TryAdd
          /\ retrier' = [retrier EXCEPT ![a] = "done"]
          /\ UNCHANGED published
    /\ UNCHANGED <<outboxEnv, deliveries, sendable, publisher, execution, recoveries>>

-----------------------------------------------------------------------------
(* processDeveloperWebhookOutboxEvent.                                     *)

Move(w, pc) == execution' = [execution EXCEPT ![w].pc = pc]

\* The owner of the job answers BullMQ.
Finished(w) ==
    /\ execution' = [execution EXCEPT ![w] = Resting]
    /\ outbox' = IF execution[w].owner THEN [outbox EXCEPT !.state = "kept"] ELSE outbox
AttemptsLeftOnceMore == outbox.tries <= OutboxAttempts
AttemptsLeft == outbox.tries < OutboxAttempts
Failed(w) ==
    /\ execution' = [execution EXCEPT ![w] = Resting]
    /\ outbox' = IF ~execution[w].owner THEN outbox
                 ELSE IF AttemptsLeft THEN [outbox EXCEPT !.state = "waiting"]
                 ELSE NoOutboxJob

TakeEvent(w) ==
    /\ execution[w] = Resting /\ outbox.state = "waiting"
    /\ outbox' = [outbox EXCEPT !.state = "active", !.tries = @ + 1]
    /\ execution' = [execution EXCEPT ![w] = [Resting EXCEPT !.pc = "claim", !.owner = TRUE]]
    /\ UNCHANGED <<outboxEnv, published, deliveries, sendable, publisher, recoveries, retrier>>

\* The conditional update; whoever finds the event taken is done.
UnclaimedAsRead == published # "DELIVERED"
Unclaimed == published \in {"PENDING", "FAILED"}

Claim(w) ==
    /\ execution[w].pc = "claim"
    /\ IF Unclaimed
       THEN /\ published' = "PROCESSING"
            /\ Move(w, IF Endpoints = 0 THEN "mark" ELSE "deliver")
            /\ UNCHANGED outbox
       ELSE Finished(w) /\ UNCHANGED published
    /\ UNCHANGED <<outboxEnv, deliveries, sendable, publisher, recoveries, retrier>>

\* For one endpoint after the other: a row, then its job.
CreateDelivery(w) ==
    /\ execution[w].pc = "deliver"
    /\ deliveries' = [deliveries EXCEPT ![execution[w].at] = @ + 1]
    /\ Move(w, "add")
    /\ UNCHANGED <<outboxEnv, published, sendable, outbox, publisher, recoveries, retrier>>

AddDelivery(w) ==
    /\ execution[w].pc = "add"
    /\ sendable' = [sendable EXCEPT ![execution[w].at] = @ + 1]
    /\ execution' = [execution EXCEPT ![w].at = @ + 1,
                         ![w].pc = IF execution[w].at = Endpoints THEN "mark" ELSE "deliver"]
    /\ UNCHANGED <<outboxEnv, published, deliveries, outbox, publisher, recoveries, retrier>>

\* Whatever the status is by now; so in the catch block.
MarkDelivered(w) ==
    /\ execution[w].pc = "mark"
    /\ published' = "DELIVERED"
    /\ Finished(w)
    /\ UNCHANGED <<outboxEnv, deliveries, sendable, publisher, recoveries, retrier>>

MarkEventFailed(w) ==
    /\ execution[w].pc = "fail"
    /\ published' \in {"FAILED"} \cup (IF Hit("database") THEN {published} ELSE {})
    /\ Failed(w)
    /\ UNCHANGED <<outboxEnv, deliveries, sendable, publisher, recoveries, retrier>>

CallThrows(w) ==
    /\ \/ /\ \/ Hit("database") /\ execution[w].pc \in {"deliver", "mark"}
             \/ Hit("redis")    /\ execution[w].pc = "add"
          /\ Move(w, "fail")
          /\ UNCHANGED outbox
       \/ Hit("database") /\ execution[w].pc = "claim" /\ Failed(w)
    /\ UNCHANGED <<outboxEnv, published, deliveries, sendable, publisher, recoveries, retrier>>

\* The job is found stalled: the execution has died, or goes on without it.
StallEvent(w) ==
    /\ execution[w].owner
    /\ \/ Hit("crash") /\ execution' = [execution EXCEPT ![w] = Resting]
       \/ Hit("lock")  /\ execution' = [execution EXCEPT ![w].owner = FALSE]
    /\ outbox' = IF outbox.stalls < MaxOutboxStalls
                 THEN [state |-> "waiting", tries |-> outbox.tries - 1, stalls |-> outbox.stalls + 1]
                 ELSE NoOutboxJob
    /\ UNCHANGED <<outboxEnv, published, deliveries, sendable, publisher, recoveries, retrier>>

-----------------------------------------------------------------------------
Execute(w) ==
    TakeEvent(w) \/ Claim(w) \/ CreateDelivery(w) \/ AddDelivery(w) \/ MarkDelivered(w) \/ MarkEventFailed(w)

OutboxNext ==
    \/ \E p \in Publishers : Publish(p)
    \/ Recover
    \/ \E a \in Admins : Retry(a)
    \/ \E w \in Workers : Execute(w) \/ CallThrows(w) \/ StallEvent(w)

OutboxSpec == OutboxInit /\ [][OutboxNext]_outboxVars

-----------------------------------------------------------------------------
\* A delivered event has reached every endpoint's queue.  It has reached it
\* once unless a call fails halfway, a recovery takes the event from a handler
\* that is alive, or admins retry: a job that is delivered twice does not.
NotifiedOnce == \A e \in 1..Endpoints :
    /\ published = "DELIVERED" => sendable[e] >= 1
    /\ outboxEnv \subseteq {"crash", "lock"} => deliveries[e] <= 1
=============================================================================
