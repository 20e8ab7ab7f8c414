---------------------------- MODULE CampaignLaunch ----------------------------
(***************************************************************************)
(* One bulk campaign on its way from a draft to queued messages: the dry   *)
(* runs, confirmations and cancellations of campaign-launch-orchestrator,  *)
(* its worker, which charges recipient by recipient in batches, and the    *)
(* other road, startCampaignForCompany, which charges all contacts at once.*)
(*                                                                         *)
(* A step ends where the code awaits, and the transaction that charges a   *)
(* recipient is two: it reads the run, and commits later.  All messages    *)
(* cost the same, so the wallet is counted in messages.  A campaign's      *)
(* status is only ever tested for DRAFT, a reservation holds no money      *)
(* back, and reporting fields follow the rows: none of the three is more   *)
(* than that here.                                                         *)
(***************************************************************************)
EXTENDS Integers, FiniteSets

CONSTANTS
    Contacts,       \* contacts of the campaign
    Pending,        \* those the draft has rows for, which a start takes
    Segments,       \* sets of contacts that launches are prepared for
    Runs,           \* launch runs, one per idempotency key
    Users,          \* requests: prepare, confirm, cancel, start
    NoContact, NoRun,
    BatchSize,      \* CAMPAIGN_LAUNCH_BATCH_SIZE
    Openings,       \* wallet balances at the start, in messages
    Limit,          \* quota of BULK_MESSAGING
    Environments    \* sets of faults and rivalries, one of which is in force

Kinds ==
    { "rivals",     \* several launches and starts of the campaign at a time
      "again",      \* a request is repeated before it is answered
      "cancel",     \* a launch is canceled
      "changes",    \* contacts opt out, the template loses its approval
      "quota",      \* the plan limits bulk messages
      "database",   \* a statement or transaction fails
      "crash",      \* a process dies between two steps
      "lock",       \* the worker's job is found stalled and queued again
      "enqueue" }   \* a queue operation throws

ASSUME LaunchAssumption ==
    /\ IsFiniteSet(Contacts) /\ Pending \subseteq Contacts
    /\ Segments \subseteq (SUBSET Contacts) \ {{}}
    /\ NoContact \notin Contacts /\ NoRun \notin Runs
    /\ {"none", "start"} \cap Runs = {}
    /\ BatchSize \in Nat \ {0} /\ Limit \in Nat
    /\ Openings \subseteq Nat /\ Environments \subseteq SUBSET Kinds

VARIABLES
    env,
    \* database
    draft,          \* Campaign.status is DRAFT
    run,            \* CampaignLaunchRun rows
    recipient,      \* CampaignLaunchRecipient.status
    message,        \* who made the contact's message: a run, "start" or nobody
    opening, balance,
    used,           \* the usage counter
    \* BullMQ
    jobs,           \* contacts whose message has a job
    queue, known,   \* waiting launch jobs of a run; runs whose first job exists
    \* processes
    request, worker,
    late            \* history: messages a launch made after its cancellation

dbVars == <<draft, run, recipient, message, balance, used>>
vars == <<env, opening, dbVars, jobs, queue, known, request, worker, late>>

Active == {"DRY_RUN_CREATED", "WALLET_RESERVED", "QUEUING", "RUNNING"}
RunRow == [status : Active \cup {"NONE", "COMPLETED", "FAILED", "CANCELED"},
           estimate : Nat, failed : BOOLEAN, reserved : {"none", "RESERVED", "CONSUMED"}]
RecipientStatus == {"NONE", "PLANNED", "PROCESSING", "QUEUED", "SKIPPED", "FAILED"}
RequestRow == [pc : {"idle", "prepare", "balance", "reserve", "mark", "queue", "add", "cancel",
                     "start", "enqueue", "count"},
               run : Runs \cup {NoRun}, to : SUBSET Contacts, size : Nat]
WorkerRow == [pc : {"idle", "claim", "plan", "unfinished", "close", "grab", "list", "next",
                    "charge", "skip", "enqueue", "count", "left", "again", "running",
                    "finish", "consume"},
              run : Runs \cup {NoRun}, claimed : BOOLEAN, lost : BOOLEAN, batch : SUBSET Contacts,
              done : SUBSET Contacts, of : Contacts \cup {NoContact}, stop : BOOLEAN]

May(kind) == kind \in env

\* At work means at work on something.
TypeOK ==
    /\ env \in Environments /\ opening \in Openings
    /\ draft \in BOOLEAN
    /\ run \in [Runs -> RunRow]
    /\ recipient \in [Runs -> [Contacts -> RecipientStatus]]
    /\ message \in [Contacts -> Runs \cup {"none", "start"}]
    /\ balance \in Nat /\ used \in Nat
    /\ jobs \subseteq Contacts
    /\ queue \in [Runs -> Nat] /\ known \subseteq Runs
    /\ request \in [Users -> RequestRow]
    /\ worker \in WorkerRow
    /\ worker.run = NoRun <=> worker.pc = "idle"
    /\ worker.of = NoContact <=> worker.pc \notin {"charge", "skip"}
    /\ late \in [Runs -> Nat]

NoRequest == [pc |-> "idle", run |-> NoRun, to |-> {}, size |-> 0]
NoJob == [pc |-> "idle", run |-> NoRun, claimed |-> FALSE, lost |-> FALSE, batch |-> {},
          done |-> {}, of |-> NoContact, stop |-> FALSE]

Init ==
    /\ env \in Environments
    /\ draft = TRUE
    /\ run = [r \in Runs |-> [status |-> "NONE", estimate |-> 0, failed |-> FALSE,
                              reserved |-> "none"]]
    /\ recipient = [r \in Runs |-> [c \in Contacts |-> "NONE"]]
    /\ message = [c \in Contacts |-> "none"]
    /\ opening \in Openings /\ balance = opening /\ used = 0
    /\ jobs = {} /\ queue = [r \in Runs |-> 0] /\ known = {}
    /\ request = [u \in Users |-> NoRequest]
    /\ worker = NoJob
    /\ late = [r \in Runs |-> 0]

Made == {c \in Contacts : message[c] # "none"}

\* Messages may be counted, or would have been when it was asked.
QuotaAsAsked(n) == TRUE
QuotaLeft(n) == May("quota") => used + n <= Limit

-----------------------------------------------------------------------------
(* Requests.                                                               *)

Goto(u, pc) == request' = [request EXCEPT ![u].pc = pc]
Done(u)     == request' = [request EXCEPT ![u] = NoRequest]
Begin(u, pc, r, to) == request' = [request EXCEPT ![u] =
    [pc |-> pc, run |-> r, to |-> to, size |-> Cardinality(to)]]

\* Nobody is at the same launch, or at the campaign if there are no rivals.
Turn(u, r) ==
    /\ request[u] = NoRequest
    /\ \A v \in Users : \/ request[v] = NoRequest
                        \/ May("rivals") /\ (request[v].run # r \/ r = NoRun)
                        \/ May("again") /\ request[v].run = r

PrepareRead(u, r, to) ==
    /\ Turn(u, r)
    /\ draft /\ run[r].status = "NONE"
    /\ May("rivals") \/ \A q \in Runs : run[q].status = "NONE"
    /\ QuotaLeft(Cardinality(to))
    /\ Begin(u, "prepare", r, to)
    /\ UNCHANGED <<env, opening, dbVars, jobs, queue, known, worker, late>>

\* A run of the same key may have been created meanwhile; the unique index
\* rejects the second.
PrepareCommit(u) ==
    /\ request[u].pc = "prepare"
    /\ LET r == request[u].run  to == request[u].to IN
       IF run[r].status = "NONE"
       THEN /\ run' = [run EXCEPT ![r].status = "DRY_RUN_CREATED", ![r].estimate = request[u].size]
            /\ recipient' = [recipient EXCEPT ![r] =
                   [c \in Contacts |-> IF c \in to THEN "PLANNED" ELSE "NONE"]]
       ELSE UNCHANGED <<run, recipient>>
    /\ Done(u)
    /\ UNCHANGED <<env, opening, draft, message, balance, used, jobs, queue, known, worker, late>>

ConfirmRead(u, r) ==
    /\ Turn(u, r)
    /\ run[r].status \in {"DRY_RUN_CREATED", "WALLET_RESERVED"}
    /\ Begin(u, "balance", r, {})
    /\ UNCHANGED <<env, opening, dbVars, jobs, queue, known, worker, late>>

\* The reads of reserveCampaignWallet.
ReserveRead(u) ==
    /\ request[u].pc = "balance"
    /\ IF balance < run[request[u].run].estimate THEN Done(u)
       ELSE Goto(u, IF run[request[u].run].reserved = "RESERVED" THEN "queue" ELSE "reserve")
    /\ UNCHANGED <<env, opening, dbVars, jobs, queue, known, worker, late>>

ReserveCreate(u) ==
    /\ request[u].pc = "reserve"
    /\ run' = [run EXCEPT ![request[u].run].reserved = "RESERVED"]
    /\ Goto(u, "mark")
    /\ UNCHANGED <<env, opening, draft, recipient, message, balance, used, jobs, queue, known, worker, late>>

\* Both updates of a confirmation write whatever the status is by now.
ConfirmWrite(u) ==
    /\ \/ /\ request[u].pc = "mark"
          /\ run' = [run EXCEPT ![request[u].run].status = "WALLET_RESERVED"]
          /\ Goto(u, "queue")
       \/ /\ request[u].pc = "queue"
          /\ run' = [run EXCEPT ![request[u].run].status = "QUEUING"]
          /\ Goto(u, "add")
    /\ UNCHANGED <<env, opening, draft, recipient, message, balance, used, jobs, queue, known, worker, late>>

\* The job id is made of the run: BullMQ adds it once, and keeps it when done.
ConfirmAdd(u) ==
    /\ request[u].pc = "add"
    /\ LET r == request[u].run IN
       \/ /\ queue' = IF r \in known THEN queue ELSE [queue EXCEPT ![r] = @ + 1]
          /\ known' = known \cup {r}
       \/ May("enqueue") /\ UNCHANGED <<queue, known>>
    /\ Done(u)
    /\ UNCHANGED <<env, opening, dbVars, jobs, worker, late>>

\* Of several active runs the code takes the newest; here, any.
CancelRead(u, r) ==
    /\ May("cancel")
    /\ request[u] = NoRequest
    /\ run[r].status \in Active
    /\ Begin(u, "cancel", r, {})
    /\ UNCHANGED <<env, opening, dbVars, jobs, queue, known, worker, late>>

CancelCommit(u) ==
    /\ request[u].pc = "cancel"
    /\ LET r == request[u].run IN
       /\ recipient' = [recipient EXCEPT ![r] = [c \in Contacts |->
              IF @[c] \in {"PLANNED", "PROCESSING"} THEN "SKIPPED" ELSE @[c]]]
       /\ run' = [run EXCEPT ![r].status = "CANCELED"]
    /\ draft' = FALSE
    /\ Done(u)
    /\ UNCHANGED <<env, opening, message, balance, used, jobs, queue, known, worker, late>>

StartRead(u) ==
    /\ May("rivals")
    /\ Turn(u, NoRun)
    /\ draft /\ Pending \ Made # {}
    /\ QuotaLeft(Cardinality(Pending \ Made))
    /\ Begin(u, "start", NoRun, Pending \ Made)
    /\ UNCHANGED <<env, opening, dbVars, jobs, queue, known, worker, late>>

\* The debit asks for the money.
AffordableAsReserved(n) == TRUE
Affordable(n) == balance >= n

\* campaignContactId is unique among messages: a contact that has got one
\* rolls the transaction back.
AnyContact(to) == TRUE
Messageable(to) == to \cap Made = {}

StartCommit(u) ==
    /\ request[u].pc = "start"
    /\ IF Messageable(request[u].to) /\ Affordable(request[u].size)
       THEN /\ balance' = balance - request[u].size
            /\ message' = [c \in Contacts |-> IF c \in request[u].to THEN "start" ELSE message[c]]
            /\ draft' = FALSE
            /\ Goto(u, "enqueue")
       ELSE Done(u) /\ UNCHANGED <<balance, message, draft>>
    /\ UNCHANGED <<env, opening, run, recipient, used, jobs, queue, known, worker, late>>

\* One add after another.
StartEnqueue(u, c) ==
    /\ request[u].pc = "enqueue"
    /\ c \in request[u].to
    /\ jobs' = jobs \cup {c}
    /\ request' = [request EXCEPT ![u].to = @ \ {c},
                                  ![u].pc = IF request[u].to = {c} THEN "count" ELSE @]
    /\ UNCHANGED <<env, opening, dbVars, queue, known, worker, late>>

StartCount(u) ==
    /\ request[u].pc = "count"
    /\ used' = IF QuotaLeft(request[u].size) THEN used + request[u].size ELSE used
    /\ Done(u)
    /\ UNCHANGED <<env, opening, draft, run, recipient, message, balance, jobs, queue, known, worker, late>>

\* A request dies, or a call it makes throws; it has no catch block.
RequestDies(u) ==
    /\ \/ May("crash") \/ May("database")
       \/ May("enqueue") /\ request[u].pc = "enqueue"
    /\ request[u] # NoRequest
    /\ Done(u)
    /\ UNCHANGED <<env, opening, dbVars, jobs, queue, known, worker, late>>

-----------------------------------------------------------------------------
(* The worker: one process, one job at a time.                             *)

Step(pc) == worker' = [worker EXCEPT !.pc = pc]
End == worker' = NoJob

\* The handler throws; BullMQ tries the job again, or no longer.
Throw ==
    /\ End
    /\ \/ queue' = [queue EXCEPT ![worker.run] = @ + 1]
       \/ UNCHANGED queue

Take(r) ==
    /\ worker = NoJob
    /\ queue[r] > 0
    /\ queue' = [queue EXCEPT ![r] = @ - 1]
    /\ worker' = IF run[r].status \in Active
                 THEN [NoJob EXCEPT !.pc = "claim", !.run = r,
                          !.claimed = (run[r].status = "RUNNING"),
                          !.lost = run[r].failed /\ \A c \in Contacts : message[c] # r]
                 ELSE NoJob
    /\ UNCHANGED <<env, opening, dbVars, jobs, known, request, late>>

\* The claim finds the run as it was, or it has been canceled meanwhile.
Claim ==
    /\ worker.pc = "claim"
    /\ IF run[worker.run].status \in Active \ {"RUNNING"}
       THEN run' = [run EXCEPT ![worker.run].status = "RUNNING"] /\ Step("plan")
       ELSE UNCHANGED run /\ (IF worker.claimed THEN Step("plan") ELSE End)
    /\ UNCHANGED <<env, opening, draft, recipient, message, balance, used, jobs, queue, known, request, late>>

Planned(r) == {c \in Contacts : recipient[r][c] = "PLANNED"}
Processing(r) == {c \in Contacts : recipient[r][c] = "PROCESSING"}

\* The next batch; a createMany leaves no order among its rows.
Plan(batch) ==
    /\ worker.pc = "plan"
    /\ batch \subseteq Planned(worker.run) /\ Cardinality(batch) <= BatchSize
    /\ Cardinality(batch) = BatchSize \/ batch = Planned(worker.run)
    /\ worker' = [worker EXCEPT !.pc = IF batch = {} THEN "unfinished" ELSE "grab",
                                !.batch = batch]
    /\ UNCHANGED <<env, opening, dbVars, jobs, queue, known, request, late>>

\* Nobody is planned.  With somebody in processing the job just ends.
Unfinished ==
    /\ worker.pc = "unfinished"
    /\ IF Planned(worker.run) \cup Processing(worker.run) = {} THEN Step("close") ELSE End
    /\ UNCHANGED <<env, opening, dbVars, jobs, queue, known, request, late>>

Close ==
    /\ worker.pc = "close"
    /\ run' = [run EXCEPT ![worker.run].status = IF worker.lost THEN "FAILED" ELSE "COMPLETED"]
    /\ draft' = FALSE
    /\ End
    /\ UNCHANGED <<env, opening, recipient, message, balance, used, jobs, queue, known, request, late>>

Grab ==
    /\ worker.pc = "grab"
    /\ LET r == worker.run IN
       /\ recipient' = [recipient EXCEPT ![r] = [c \in Contacts |->
              IF c \in worker.batch /\ @[c] = "PLANNED" THEN "PROCESSING" ELSE @[c]]]
       /\ IF worker.batch \cap Planned(r) = {} THEN End ELSE Step("list")
    /\ UNCHANGED <<env, opening, draft, run, message, balance, used, jobs, queue, known, request, late>>

List ==
    /\ worker.pc = "list"
    /\ worker' = [worker EXCEPT !.pc = "next", !.batch = @ \cap Processing(worker.run)]
    /\ UNCHANGED <<env, opening, dbVars, jobs, queue, known, request, late>>

\* A recipient's transaction begins: it reads the run.
RunAsClaimed(r) == TRUE
NotCanceled(r) == run[r].status # "CANCELED"

Pick(c) ==
    /\ worker.pc = "next" /\ ~worker.stop
    /\ c \in worker.batch
    /\ worker' = [worker EXCEPT !.pc = IF NotCanceled(worker.run) THEN "charge" ELSE "skip",
                                !.of = c, !.batch = @ \ {c}]
    /\ UNCHANGED <<env, opening, dbVars, jobs, queue, known, request, late>>

\* The recipient is written, and the loop goes on.
Decide(status, stop, done) ==
    /\ recipient' = [recipient EXCEPT ![worker.run][worker.of] = status]
    /\ worker' = [worker EXCEPT !.pc = "next", !.of = NoContact, !.stop = stop, !.done = @ \cup done]

Skip ==
    /\ worker.pc = "skip"
    /\ Decide("SKIPPED", FALSE, {})
    /\ UNCHANGED <<env, opening, draft, run, message, balance, used, jobs, queue, known, request, late>>

\* The contact is gone, has opted out, or lacks a value of the template.
Refuse ==
    /\ May("changes")
    /\ worker.pc = "charge"
    /\ \/ Decide("SKIPPED", FALSE, {}) /\ UNCHANGED run
       \/ Decide("FAILED", FALSE, {}) /\ run' = [run EXCEPT ![worker.run].failed = TRUE]
    /\ UNCHANGED <<env, opening, draft, message, balance, used, jobs, queue, known, request, late>>

\* The template is not approved any more, or the wallet is empty.
Stop ==
    /\ worker.pc = "charge"
    /\ May("changes") \/ ~Affordable(1)
    /\ Decide("FAILED", TRUE, {})
    /\ run' = [run EXCEPT ![worker.run].status = "FAILED"]
    /\ draft' = FALSE
    /\ UNCHANGED <<env, opening, message, balance, used, jobs, queue, known, request, late>>

\* A message for the recipient and its charge, unless the unique index on
\* campaignContactId rolls the transaction back.
Charge ==
    /\ worker.pc = "charge"
    /\ Affordable(1)
    /\ LET r == worker.run  c == worker.of IN
       IF Messageable({c})
       THEN /\ message' = [message EXCEPT ![c] = r]
            /\ balance' = balance - 1
            /\ draft' = FALSE
            /\ Decide("QUEUED", FALSE, {c})
            /\ late' = [late EXCEPT ![r] = IF recipient[r][c] = "SKIPPED" THEN @ + 1 ELSE @]
            /\ UNCHANGED queue
       ELSE Throw /\ UNCHANGED <<message, balance, draft, recipient, late>>
    /\ UNCHANGED <<env, opening, run, used, jobs, known, request>>

LoopStopsAtOnce ==
    /\ worker.pc = "next"
    /\ worker.stop \/ worker.batch = {}
    /\ IF worker.stop THEN End ELSE Step(IF worker.done # {} THEN "enqueue" ELSE "left")
    /\ UNCHANGED <<env, opening, dbVars, jobs, queue, known, request, late>>

\* The loop is over.  After a stop, too, what was charged is sent.
Loop ==
    /\ worker.pc = "next"
    /\ worker.stop \/ worker.batch = {}
    /\ IF worker.done # {} THEN Step("enqueue") ELSE IF worker.stop THEN End ELSE Step("left")
    /\ UNCHANGED <<env, opening, dbVars, jobs, queue, known, request, late>>

Enqueue ==
    /\ worker.pc = "enqueue"
    /\ \/ jobs' = jobs \cup worker.done /\ Step("count") /\ UNCHANGED queue
       \/ May("enqueue") /\ jobs' \in {jobs, jobs \cup worker.done} /\ Throw
    /\ UNCHANGED <<env, opening, dbVars, known, request, late>>

\* incrementUsageQuota, after the messages it counts.
Count ==
    /\ worker.pc = "count"
    /\ LET n == Cardinality(worker.done) IN
       IF QuotaLeft(n)
       THEN /\ used' = used + n
            /\ IF worker.stop THEN End ELSE Step("left")
            /\ UNCHANGED queue
       ELSE Throw /\ UNCHANGED used
    /\ UNCHANGED <<env, opening, draft, run, recipient, message, balance, jobs, known, request, late>>

\* The planned recipients are counted.
LeftOver(r) == Planned(r)

Left ==
    /\ worker.pc = "left"
    /\ Step(IF LeftOver(worker.run) # {} THEN "again" ELSE "finish")
    /\ UNCHANGED <<env, opening, dbVars, jobs, queue, known, request, late>>

AgainWithSameId ==
    /\ worker.pc = "again"
    /\ Step("running")
    /\ UNCHANGED <<env, opening, dbVars, jobs, queue, known, request, late>>

\* The id of the next job tells how many are left, so it is a new one.
Again ==
    /\ worker.pc = "again"
    /\ \/ queue' = [queue EXCEPT ![worker.run] = @ + 1] /\ Step("running")
       \/ May("enqueue") /\ Throw
    /\ UNCHANGED <<env, opening, dbVars, jobs, known, request, late>>

\* The last updates of a job write whatever the run is by now.
Finish ==
    /\ \/ /\ worker.pc = "running"
          /\ run' = [run EXCEPT ![worker.run].status = "RUNNING"]
          /\ End
       \/ /\ worker.pc = "finish"
          /\ run' = [run EXCEPT ![worker.run].status = "COMPLETED"]
          /\ Step("consume")
       \/ /\ worker.pc = "consume"
          /\ run' = [run EXCEPT ![worker.run].reserved = IF @ = "RESERVED" THEN "CONSUMED" ELSE @]
          /\ End
    /\ UNCHANGED <<env, opening, draft, recipient, message, balance, used, jobs, queue, known, request, late>>

WorkerFaults ==
    /\ worker # NoJob
    /\ \/ (May("database") \/ May("crash")) /\ Throw
       \/ /\ May("lock")
          /\ queue[worker.run] = 0      \* found stalled once at a time
          /\ queue' = [queue EXCEPT ![worker.run] = 1]
          /\ UNCHANGED worker
    /\ UNCHANGED <<env, opening, dbVars, jobs, known, request, late>>

-----------------------------------------------------------------------------
RequestStep(u) ==
    \/ PrepareCommit(u) \/ ReserveRead(u) \/ ReserveCreate(u) \/ ConfirmWrite(u) \/ ConfirmAdd(u)
    \/ CancelCommit(u) \/ StartCommit(u) \/ StartCount(u)
    \/ \E c \in Contacts : StartEnqueue(u, c)

WorkerStep ==
    \/ Claim \/ Unfinished \/ Close \/ Grab \/ List \/ Skip \/ Refuse \/ Stop \/ Charge
    \/ Loop \/ Enqueue \/ Count \/ Left \/ Again \/ Finish
    \/ \E r \in Runs : Take(r)
    \/ \E batch \in SUBSET Contacts : Plan(batch)
    \/ \E c \in Contacts : Pick(c)

Next ==
    \/ \E u \in Users :
        \/ RequestStep(u) \/ StartRead(u) \/ RequestDies(u)
        \/ \E r \in Runs :
            \/ ConfirmRead(u, r) \/ CancelRead(u, r)
            \/ \E to \in Segments : PrepareRead(u, r, to)
    \/ WorkerStep \/ WorkerFaults

Spec == Init /\ [][Next]_vars

\* A request and a job that have begun go on, and BullMQ hands out jobs.
FairSpec == Spec /\ WF_vars(WorkerStep \/ \E u \in Users : RequestStep(u))

-----------------------------------------------------------------------------
\* Each message of the campaign is charged for once and counted at most once,
\* although several launches and the start page charge the same contacts, and
\* a quota is never counted past its limit.
ChargedAndCounted ==
    /\ balance + Cardinality(Made) = opening
    /\ used <= Cardinality(Made)
    /\ May("quota") => used <= Limit
    /\ \A r \in Runs, c \in Contacts : recipient[r][c] = "QUEUED" => message[c] = r

\* After a launch has been canceled, the recipient whose transaction was under
\* way may still be charged, and no other: although the worker overwrites the
\* status CANCELED when its batch ends.  A second confirmation overwrites it in
\* the middle of a batch, and the launch goes on.
CancelStopsLaunch == "again" \notin env => \A r \in Runs : late[r] <= 1

\* A completed launch has planned recipients no longer.  If nothing failed and
\* nothing else messaged its contacts, it has left none in processing either.
CompletedIsDecided == \A r \in Runs : run[r].status = "COMPLETED" =>
    /\ Planned(r) = {}
    /\ env \subseteq {"cancel", "changes", "quota"} => Processing(r) = {}

\* No message is charged and then forgotten, as long as no call fails and one
\* launch has the campaign to itself: with a rival, the transaction that the
\* unique index rolls back takes the batch's earlier messages out of the list
\* of those to enqueue.
ChargedIsQueued ==
    env \subseteq {"cancel", "changes", "quota", "lock"} /\ worker = NoJob => Made \subseteq jobs

\* So nothing that a launch took on is left behind.
NothingLeftBehind == CompletedIsDecided /\ ChargedIsQueued

\* A confirmed launch comes to an end if nothing fails and it has no rival.
LaunchEnds == \A r \in Runs :
    (env = {} /\ run[r].status = "QUEUING") ~> run[r].status \in {"COMPLETED", "FAILED"}
=============================================================================
