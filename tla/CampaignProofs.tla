---------------------------- MODULE CampaignProofs ----------------------------
(***************************************************************************)
(* What holds of a campaign from its launch to its answers, for any number *)
(* of contacts, launches, steps, messages and processes.  Launch: every    *)
(* message is charged for once and counted once, a cancellation stops the  *)
(* worker after one recipient at most, and nothing is left behind.         *)
(* Follow-ups: a contact is charged for a step once.  Automation: a node   *)
(* is charged for once, whoever retries its job.                           *)
(***************************************************************************)
EXTENDS MCCampaigns, FoldLemmas

-----------------------------------------------------------------------------
(* The inductive invariant of CampaignLaunch, in parts.                    *)

\* Where requests and the worker's job stand.
OfRun == {"prepare", "balance", "reserve", "mark", "queue", "add", "cancel"}
Looping == {"next", "charge", "skip"}
Charged == Looping \cup {"enqueue", "count"}
Later == {"left", "again", "running", "finish", "consume"}

Placed ==
    /\ \A u \in Users : request[u].pc \in OfRun => request[u].run \in Runs
    /\ worker.pc = "idle" => worker = NoJob
    /\ worker.done # {} => worker.pc \in Charged \cup Later
    /\ worker.stop => worker.pc \in {"next", "enqueue", "count"}
    /\ worker.run \in known \cup {NoRun}
    /\ \A r \in Runs : queue[r] > 0 => r \in known

\* A run that is not there yet has nothing.
Prepared == \A r \in Runs : run[r].status = "NONE" =>
    /\ r \notin known
    /\ \A c \in Contacts : recipient[r][c] = "NONE"
    /\ \A u \in Users : request[u].run = r => request[u].pc = "prepare"

\* A recipient is queued with its message; the loop has it once.
InLoop == IF worker.pc \in Looping THEN worker.batch ELSE {}
QueuedIsMade ==
    /\ \A r \in Runs, c \in Contacts : message[c] = r <=> recipient[r][c] = "QUEUED"
    /\ worker.of \notin worker.batch
    /\ worker.pc \in Looping =>
           \A c \in Contacts : c \in worker.batch \/ c = worker.of => recipient[worker.run][c] # "QUEUED"
    /\ \A c \in worker.done : message[c] = worker.run

\* Of the requests that start the campaign at once, one gets through.
StartMade == {c \in Contacts : message[c] = "start"}
Started(u) == request[u].pc \in {"enqueue", "count"}
StartsOnce ==
    /\ \A u \in Users :
        /\ request[u].pc = "start" =>
               /\ request[u].to # {} /\ request[u].to \subseteq Pending
               /\ Pending \ Made \subseteq request[u].to
               /\ request[u].size = Cardinality(request[u].to)
               /\ StartMade # {} => request[u].to \cap Made # {}
        /\ Started(u) => StartMade # {} /\ request[u].size = Cardinality(StartMade)
        /\ \A v \in Users : Started(u) /\ Started(v) => u = v
    /\ StartMade # {} => ~draft

\* Messages that are made and not counted yet.
Uncounted ==
    (IF \E u \in Users : Started(u) THEN StartMade ELSE {})
        \cup (IF worker.pc \in Charged THEN worker.done ELSE {})

Accounts ==
    /\ balance + Cardinality(Made) = opening
    /\ used <= Cardinality(Made \ Uncounted)
    /\ May("quota") => used <= Limit

\* A run is confirmed once unless a request is repeated, so no confirmation
\* writes its status while the worker is at it.
Confirming(u) == request[u].pc \in {"balance", "reserve", "mark", "queue", "add"}
Unconfirmed == {"NONE", "DRY_RUN_CREATED", "WALLET_RESERVED"}
ConfirmedOnce ==
    /\ \A u \in Users : Confirming(u) =>
        /\ request[u].pc # "add" => request[u].run \notin known
        /\ request[u].pc = "add" => run[request[u].run].status \notin Unconfirmed
        /\ \A v \in Users : Confirming(v) /\ request[v].run = request[u].run => u = v
    /\ \A r \in known : run[r].status \notin Unconfirmed

\* A run that has been canceled has nobody to charge any more but the recipient
\* whose transaction is under way.
Stopped(r) ==
    /\ Planned(r) \cup Processing(r) = {} /\ run[r].status # "NONE"
    /\ worker.run = r /\ worker.pc \in Looping /\ worker.batch # {} /\ ~worker.stop => run[r].status = "CANCELED"

CancelStops ==
    /\ \A r \in Runs : run[r].status = "CANCELED" => Stopped(r)
    /\ worker.pc \in Looping =>
           \/ \A c \in Contacts : c \in worker.batch \/ c = worker.of => c \in Processing(worker.run)
           \/ Stopped(worker.run)
    /\ worker.pc = "skip" => Stopped(worker.run)
    /\ \A r \in Runs :
        /\ late[r] <= 1
        /\ late[r] = 1 => Stopped(r) /\ ~(worker.run = r /\ worker.pc = "charge")

\* A run is completed when nobody is planned.
CompletedUnplanned ==
    /\ \A r \in Runs : run[r].status = "COMPLETED" => Planned(r) = {}
    /\ worker.pc \in {"close", "finish", "consume"} => Planned(worker.run) = {}
    /\ worker.pc = "close" => Processing(worker.run) = {}
    /\ worker.pc \notin {"idle", "consume"} => run[worker.run].status # "COMPLETED"

\* Without rivals there is one run, and nobody else makes messages.
Alone ==
    /\ \A q, r \in Runs : run[q].status # "NONE" /\ run[r].status # "NONE" => q = r
    /\ \A u \in Users : request[u].pc = "prepare" =>
        /\ \A r \in Runs : run[r].status = "NONE"
        /\ \A v \in Users : request[v].pc = "prepare" => u = v
    /\ \A u \in Users : request[u].pc \notin {"start", "enqueue", "count"}
    /\ StartMade = {}

\* Who is in processing is in the worker's hands, or its loop stopped.
InHand(r) ==
    \/ Processing(r) = {}
    \/ /\ worker.run = r /\ worker.pc \in Looping \cup {"list"} /\ ~worker.stop
       /\ \A c \in Processing(r) : c \in worker.batch \/ c = worker.of
    \/ r \in known /\ run[r].status = "FAILED" /\ (worker.run = r => worker.stop)

Queued == Made \subseteq jobs \cup (IF worker.pc \in Looping \cup {"enqueue"} THEN worker.done ELSE {})

LaunchInv ==
    /\ TypeOK /\ Placed /\ Prepared /\ QueuedIsMade
    /\ StartsOnce /\ Accounts
    /\ "again" \notin env => ConfirmedOnce /\ CancelStops
    /\ CompletedUnplanned
    /\ {"rivals", "again"} \cap env = {} => Alone
    /\ env \subseteq {"cancel", "changes", "quota"} => \A r \in Runs : InHand(r)
    /\ env \subseteq {"cancel", "changes", "quota", "lock"} => Queued

-----------------------------------------------------------------------------
(* Types.                                                                  *)

RequestAction(u) ==
    \/ RequestStep(u) \/ StartRead(u) \/ RequestDies(u)
    \/ \E r \in Runs :
        \/ ConfirmRead(u, r) \/ CancelRead(u, r)
        \/ \E to \in Segments : PrepareRead(u, r, to)

WorkerAction == WorkerStep \/ WorkerFaults

LEMMA Rows ==
    /\ NoRequest \in RequestRow /\ NoJob \in WorkerRow
    /\ NoRequest.pc = "idle" /\ NoRequest.run = NoRun
    /\ NoJob.pc = "idle" /\ NoJob.run = NoRun /\ NoJob.of = NoContact /\ NoJob.batch = {} /\ NoJob.done = {}
    /\ ~NoJob.stop
BY DEF NoRequest, NoJob, RequestRow, WorkerRow

\* Sets of contacts are finite.
LEMMA Counting ==
    ASSUME NEW S \in SUBSET Contacts
    PROVE  IsFiniteSet(S) /\ Cardinality(S) \in Nat
BY LaunchAssumption, FS_Subset, FS_CardinalityType

\* How a request's row changes.
LEMMA RowEnds ==
    ASSUME TypeOK, NEW u \in Users, Done(u)
    PROVE  /\ request' \in [Users -> RequestRow] /\ request'[u] = NoRequest
           /\ \A v \in Users \ {u} : request'[v] = request[v]
BY Rows DEF Done, TypeOK

LEMMA RowGoesOn ==
    ASSUME TypeOK, NEW u \in Users, NEW pc \in {"reserve", "mark", "queue", "add", "enqueue", "count"}, Goto(u, pc)
    PROVE  /\ request' \in [Users -> RequestRow]
           /\ request'[u].pc = pc /\ request'[u].run = request[u].run
           /\ request'[u].to = request[u].to /\ request'[u].size = request[u].size
           /\ \A v \in Users \ {u} : request'[v] = request[v]
<1>1. request[u] \in RequestRow /\ request' = [request EXCEPT ![u] = [request[u] EXCEPT !.pc = pc]]
    BY DEF Goto, TypeOK
<1>2. [request[u] EXCEPT !.pc = pc] \in RequestRow
    BY <1>1 DEF RequestRow
<1> QED BY <1>1, <1>2 DEF TypeOK, RequestRow

LEMMA RowBegins ==
    ASSUME TypeOK, NEW u \in Users, NEW pc \in {"prepare", "balance", "cancel", "start"}, NEW r \in Runs \cup {NoRun},
           NEW to \in SUBSET Contacts, Begin(u, pc, r, to)
    PROVE  /\ request' \in [Users -> RequestRow]
           /\ request'[u] = [pc |-> pc, run |-> r, to |-> to, size |-> Cardinality(to)]
           /\ \A v \in Users \ {u} : request'[v] = request[v]
<1>1. [pc |-> pc, run |-> r, to |-> to, size |-> Cardinality(to)] \in RequestRow
    BY Counting DEF RequestRow
<1> QED BY <1>1 DEF Begin, TypeOK

LEMMA RowEnqueues ==
    ASSUME TypeOK, NEW u \in Users, NEW c \in Contacts, StartEnqueue(u, c)
    PROVE  /\ request' \in [Users -> RequestRow]
           /\ request'[u].pc \in {"enqueue", "count"}
           /\ request'[u].run = request[u].run /\ request'[u].size = request[u].size
           /\ \A v \in Users \ {u} : request'[v] = request[v]
<1>1. request' = [request EXCEPT ![u] = [request[u] EXCEPT !.to = request[u].to \ {c},
                     !.pc = IF request[u].to = {c} THEN "count" ELSE request[u].pc]]
    BY DEF StartEnqueue, TypeOK
<1>2. request[u] \in RequestRow /\ request[u].pc = "enqueue"
    BY DEF StartEnqueue, TypeOK
<1>3. [request[u] EXCEPT !.to = request[u].to \ {c},
          !.pc = IF request[u].to = {c} THEN "count" ELSE request[u].pc] \in RequestRow
    BY <1>2 DEF RequestRow
<1> QED BY <1>1, <1>2, <1>3 DEF TypeOK, RequestRow

\* Where a request is after its step, and which rows it may write.
LEMMA RequestMoves ==
    ASSUME TypeOK, Placed, NEW u \in Users, RequestAction(u)
    PROVE  /\ request' \in [Users -> RequestRow]
           /\ request'[u].pc \in OfRun => request'[u].run \in Runs
           /\ \A v \in Users \ {u} : request'[v] = request[v]
           /\ UNCHANGED <<env, opening, worker, late>>
<1>1. CASE RequestDies(u) \/ StartCount(u) \/ ConfirmAdd(u) \/ PrepareCommit(u) \/ CancelCommit(u)
    BY <1>1, RowEnds, Rows DEF RequestDies, StartCount, ConfirmAdd, PrepareCommit, CancelCommit, OfRun, dbVars
<1>2. CASE ReserveRead(u) \/ ReserveCreate(u) \/ ConfirmWrite(u) \/ StartCommit(u)
    BY <1>2, RowEnds, RowGoesOn, Rows DEF ReserveRead, ReserveCreate, ConfirmWrite, StartCommit, OfRun, Placed, dbVars
<1>3. CASE StartRead(u)
    <2>1. Begin(u, "start", NoRun, Pending \ Made) /\ Pending \ Made \in SUBSET Contacts
        BY <1>3, LaunchAssumption DEF StartRead
    <2>2. /\ request' \in [Users -> RequestRow]
          /\ request'[u] = [pc |-> "start", run |-> NoRun, to |-> Pending \ Made, size |-> Cardinality(Pending \ Made)]
          /\ \A v \in Users \ {u} : request'[v] = request[v]
        BY <2>1, RowBegins
    <2>3. request'[u].pc \notin OfRun /\ UNCHANGED <<env, opening, worker, late>>
        BY <1>3, <2>2 DEF StartRead, OfRun
    <2> QED BY <2>2, <2>3
<1>4. ASSUME NEW r \in Runs, ConfirmRead(u, r) \/ CancelRead(u, r) \/ \E to \in Segments : PrepareRead(u, r, to)
      PROVE  /\ request' \in [Users -> RequestRow]
             /\ request'[u].pc \in OfRun => request'[u].run \in Runs
             /\ \A v \in Users \ {u} : request'[v] = request[v]
             /\ UNCHANGED <<env, opening, worker, late>>
    <2>1. \E pc \in {"prepare", "balance", "cancel"}, to \in SUBSET Contacts : Begin(u, pc, r, to)
        <3>1. CASE ConfirmRead(u, r) \/ CancelRead(u, r)
            BY <3>1 DEF ConfirmRead, CancelRead
        <3>2. ASSUME NEW to \in Segments, PrepareRead(u, r, to) PROVE to \in SUBSET Contacts /\ Begin(u, "prepare", r, to)
            BY <3>2, LaunchAssumption DEF PrepareRead
        <3> QED BY <1>4, <3>1, <3>2
    <2>2. UNCHANGED <<env, opening, worker, late>>
        BY <1>4 DEF ConfirmRead, CancelRead, PrepareRead
    <2>3. PICK pc \in {"prepare", "balance", "cancel"}, to \in SUBSET Contacts : Begin(u, pc, r, to)
        BY <2>1
    <2>4. pc \in {"prepare", "balance", "cancel", "start"} /\ r \in Runs \cup {NoRun}
        OBVIOUS
    <2>6. request' \in [Users -> RequestRow] /\ \A v \in Users \ {u} : request'[v] = request[v]
        BY <2>3, <2>4, RowBegins, Zenon
    <2>5. request'[u] = [pc |-> pc, run |-> r, to |-> to, size |-> Cardinality(to)]
        BY <2>3, RowBegins
    <2> QED BY <2>2, <2>6, <2>5
<1>5. ASSUME NEW c \in Contacts, StartEnqueue(u, c)
      PROVE  /\ request' \in [Users -> RequestRow]
             /\ request'[u].pc \notin OfRun
             /\ \A v \in Users \ {u} : request'[v] = request[v]
             /\ UNCHANGED <<env, opening, worker, late>>
    BY <1>5, RowEnqueues DEF StartEnqueue, OfRun, dbVars
<1> QED BY <1>1, <1>2, <1>3, <1>4, <1>5 DEF RequestAction, RequestStep

LEMMA RequestTypes ==
    ASSUME TypeOK, Placed, NEW u \in Users, RequestAction(u)
    PROVE  TypeOK' /\ Placed'
<1>1. request[u] \in RequestRow /\ (request[u].pc \in OfRun => request[u].run \in Runs)
    BY DEF TypeOK, Placed
<1>2. run' \in [Runs -> RunRow]
    <2>1. CASE UNCHANGED run
        BY <2>1 DEF TypeOK
    <2>2. CASE PrepareCommit(u) /\ ~UNCHANGED run
        <3>1. run' = [run EXCEPT ![request[u].run] = [run[request[u].run] EXCEPT
                        !.status = "DRY_RUN_CREATED", !.estimate = request[u].size]]
              /\ request[u].run \in Runs /\ request[u].size \in Nat
            BY <1>1, <2>2 DEF PrepareCommit, TypeOK, OfRun, RequestRow
        <3>2. [run[request[u].run] EXCEPT !.status = "DRY_RUN_CREATED", !.estimate = request[u].size] \in RunRow
            BY <3>1 DEF TypeOK, RunRow, Active
        <3> QED BY <3>1, <3>2 DEF TypeOK
    <2>3. CASE ReserveCreate(u)
        <3>1. run' = [run EXCEPT ![request[u].run] = [run[request[u].run] EXCEPT !.reserved = "RESERVED"]]
              /\ request[u].run \in Runs
            BY <1>1, <2>3 DEF ReserveCreate, TypeOK, OfRun
        <3>2. [run[request[u].run] EXCEPT !.reserved = "RESERVED"] \in RunRow
            BY <3>1 DEF TypeOK, RunRow
        <3> QED BY <3>1, <3>2 DEF TypeOK
    <2>4. CASE ConfirmWrite(u) \/ CancelCommit(u)
        <3>1. PICK s \in {"WALLET_RESERVED", "QUEUING", "CANCELED"} :
                  run' = [run EXCEPT ![request[u].run] = [run[request[u].run] EXCEPT !.status = s]]
            BY <1>1, <2>4 DEF ConfirmWrite, CancelCommit, TypeOK, OfRun
        <3>2. request[u].run \in Runs
            BY <1>1, <2>4 DEF ConfirmWrite, CancelCommit, OfRun
        <3>3. [run[request[u].run] EXCEPT !.status = s] \in RunRow
            BY <3>2 DEF TypeOK, RunRow, Active
        <3> QED BY <3>1, <3>2, <3>3 DEF TypeOK
    <2> QED BY <2>1, <2>2, <2>3, <2>4 DEF RequestAction, RequestStep, StartRead, RequestDies, ConfirmRead,
              CancelRead, PrepareRead, ReserveRead, ConfirmAdd, StartCommit, StartCount, StartEnqueue, dbVars
<1>3. recipient' \in [Runs -> [Contacts -> RecipientStatus]]
    <2>1. CASE UNCHANGED recipient
        BY <2>1 DEF TypeOK
    <2>2. CASE PrepareCommit(u) /\ ~UNCHANGED recipient
        BY <1>1, <2>2 DEF PrepareCommit, TypeOK, OfRun, RecipientStatus
    <2>3. CASE CancelCommit(u)
        <3>1. recipient' = [recipient EXCEPT ![request[u].run] = [c \in Contacts |->
                  IF recipient[request[u].run][c] \in {"PLANNED", "PROCESSING"} THEN "SKIPPED"
                  ELSE recipient[request[u].run][c]]] /\ request[u].run \in Runs
            BY <1>1, <2>3 DEF CancelCommit, TypeOK, OfRun
        <3> QED BY <3>1 DEF TypeOK, RecipientStatus
    <2> QED BY <2>1, <2>2, <2>3 DEF RequestAction, RequestStep, StartRead, RequestDies, ConfirmRead, CancelRead,
              PrepareRead, ReserveRead, ReserveCreate, ConfirmWrite, ConfirmAdd, StartCommit, StartCount,
              StartEnqueue, dbVars
<1>4. /\ draft' \in BOOLEAN /\ message' \in [Contacts -> Runs \cup {"none", "start"}]
      /\ balance' \in Nat /\ used' \in Nat /\ jobs' \subseteq Contacts
    <2>1. CASE UNCHANGED <<message, balance, used, jobs>> /\ draft' \in {FALSE, draft}
        BY <2>1 DEF TypeOK
    <2>2. CASE StartCommit(u) \/ StartCount(u) \/ \E c \in Contacts : StartEnqueue(u, c)
        <3>1. request[u].to \subseteq Contacts /\ request[u].size \in Nat
            BY <1>1 DEF RequestRow
        <3>2. CASE StartCommit(u) /\ Messageable(request[u].to) /\ Affordable(request[u].size)
            <4>1. /\ message' = [c \in Contacts |-> IF c \in request[u].to THEN "start" ELSE message[c]]
                  /\ balance' = balance - request[u].size /\ draft' = FALSE /\ UNCHANGED <<used, jobs>>
                BY <3>2 DEF StartCommit
            <4>2. message \in [Contacts -> Runs \cup {"none", "start"}] /\ balance \in Nat
                BY DEF TypeOK
            <4>3. message' \in [Contacts -> Runs \cup {"none", "start"}]
                BY <4>1, <4>2
            <4>4. balance' \in Nat
                BY <3>1, <3>2, <4>1, <4>2 DEF Affordable
            <4> QED BY <4>1, <4>3, <4>4 DEF TypeOK
        <3>3. CASE StartCommit(u) /\ ~(Messageable(request[u].to) /\ Affordable(request[u].size))
            <4>1. UNCHANGED <<balance, message, draft, used, jobs>>
                BY <3>3 DEF StartCommit
            <4> QED BY <4>1 DEF TypeOK
        <3>4. CASE StartCount(u)
            BY <3>1, <3>4 DEF StartCount, TypeOK
        <3>5. CASE \E c \in Contacts : StartEnqueue(u, c)
            BY <3>5 DEF StartEnqueue, TypeOK, dbVars
        <3> QED BY <2>2, <3>2, <3>3, <3>4, <3>5
    <2>3. CASE PrepareCommit(u) \/ ReserveRead(u) \/ ReserveCreate(u) \/ ConfirmWrite(u) \/ ConfirmAdd(u)
               \/ CancelCommit(u) \/ RequestDies(u) \/ StartRead(u)
        BY <2>1, <2>3 DEF StartRead, RequestDies, PrepareCommit, ReserveRead, ReserveCreate, ConfirmWrite, ConfirmAdd,
                          CancelCommit, dbVars
    <2>4. ASSUME NEW r \in Runs, ConfirmRead(u, r) \/ CancelRead(u, r) \/ \E to \in Segments : PrepareRead(u, r, to)
          PROVE  UNCHANGED <<message, balance, used, jobs, draft>>
        BY <2>4 DEF ConfirmRead, CancelRead, PrepareRead, dbVars
    <2> QED BY <2>1, <2>2, <2>3, <2>4 DEF RequestAction, RequestStep
<1>5. /\ queue' \in [Runs -> Nat] /\ known' \subseteq Runs /\ known \subseteq known'
      /\ \A r \in Runs : queue'[r] > 0 => r \in known'
    <2>1. CASE UNCHANGED <<queue, known>>
        BY <2>1 DEF TypeOK, Placed
    <2>2. CASE ConfirmAdd(u) /\ ~UNCHANGED <<queue, known>>
        BY <1>1, <2>2 DEF ConfirmAdd, TypeOK, Placed, OfRun
    <2> QED BY <2>1, <2>2 DEF RequestAction, RequestStep, StartRead, RequestDies, ConfirmRead, CancelRead, PrepareRead,
              PrepareCommit, ReserveRead, ReserveCreate, ConfirmWrite, StartCommit, StartCount, StartEnqueue,
              CancelCommit, dbVars
<1> QED BY <1>2, <1>3, <1>4, <1>5, RequestMoves DEF TypeOK, Placed

\* Where the worker is after a step: what it keeps and what it starts anew.
Pcs == {"idle", "claim", "plan", "unfinished", "close", "grab", "list", "next", "charge", "skip", "enqueue",
        "count", "left", "again", "running", "finish", "consume"}

LEMMA WorkerGoesOn ==
    ASSUME TypeOK, NEW pc \in Pcs, Step(pc)
    PROVE  /\ worker' \in WorkerRow /\ worker'.pc = pc
           /\ worker'.run = worker.run /\ worker'.claimed = worker.claimed /\ worker'.lost = worker.lost
           /\ worker'.batch = worker.batch /\ worker'.done = worker.done /\ worker'.of = worker.of
           /\ worker'.stop = worker.stop
BY DEF TypeOK, WorkerRow, Step, Pcs

LEMMA WorkerDecides ==
    ASSUME TypeOK, NEW status \in RecipientStatus, NEW stop \in BOOLEAN, NEW decided \in SUBSET Contacts,
           worker.run \in Runs, worker.of \in Contacts, Decide(status, stop, decided)
    PROVE  /\ worker' \in WorkerRow /\ worker'.pc = "next" /\ worker'.run = worker.run
           /\ worker'.batch = worker.batch /\ worker'.of = NoContact /\ worker'.stop = stop
           /\ worker'.done = worker.done \cup decided
           /\ recipient' \in [Runs -> [Contacts -> RecipientStatus]]
           /\ \A r \in Runs, c \in Contacts :
                recipient'[r][c] = IF r = worker.run /\ c = worker.of THEN status ELSE recipient[r][c]
<1>1. worker \in WorkerRow /\ recipient \in [Runs -> [Contacts -> RecipientStatus]]
    BY DEF TypeOK
<1>2. worker' = [worker EXCEPT !.pc = "next", !.of = NoContact, !.stop = stop, !.done = worker.done \cup decided]
    BY DEF Decide
<1>3. recipient' = [recipient EXCEPT ![worker.run] = [recipient[worker.run] EXCEPT ![worker.of] = status]]
    BY <1>1 DEF Decide
<1>4. [recipient[worker.run] EXCEPT ![worker.of] = status] \in [Contacts -> RecipientStatus]
    BY <1>1
<1> QED BY <1>1, <1>2, <1>3, <1>4 DEF WorkerRow

\* A run's row after a step of the worker.
RunWritten(r, status) == /\ run' \in [Runs -> RunRow] /\ run'[r].status = status
                         /\ \A q \in Runs \ {r} : run'[q] = run[q]
LEMMA RunStatus ==
    ASSUME TypeOK, NEW r \in Runs, NEW s \in Active \cup {"COMPLETED", "FAILED", "CANCELED"},
           run' = [run EXCEPT ![r].status = s]
    PROVE  RunWritten(r, s)
<1>1. run[r] \in RunRow /\ run' = [run EXCEPT ![r] = [run[r] EXCEPT !.status = s]]
    BY DEF TypeOK
<1>2. [run[r] EXCEPT !.status = s] \in RunRow
    BY <1>1 DEF RunRow
<1> QED BY <1>1, <1>2 DEF TypeOK, RunRow, RunWritten

LEMMA RunKept ==
    ASSUME TypeOK, NEW r \in Runs,
           \/ run' = [run EXCEPT ![r].failed = TRUE]
           \/ run' = [run EXCEPT ![r].reserved = IF @ = "RESERVED" THEN "CONSUMED" ELSE @]
    PROVE  RunWritten(r, run[r].status)
<1>1. run[r] \in RunRow
    BY DEF TypeOK
<1>2. \/ run' = [run EXCEPT ![r] = [run[r] EXCEPT !.failed = TRUE]]
      \/ run' = [run EXCEPT ![r] = [run[r] EXCEPT !.reserved = IF run[r].reserved = "RESERVED" THEN "CONSUMED" ELSE run[r].reserved]]
    BY DEF TypeOK
<1>3. [run[r] EXCEPT !.failed = TRUE] \in RunRow /\ [run[r] EXCEPT !.failed = TRUE].status = run[r].status
    BY <1>1 DEF RunRow
<1>4. [run[r] EXCEPT !.reserved = IF run[r].reserved = "RESERVED" THEN "CONSUMED" ELSE run[r].reserved] \in RunRow
      /\ [run[r] EXCEPT !.reserved = IF run[r].reserved = "RESERVED" THEN "CONSUMED" ELSE run[r].reserved].status = run[r].status
    BY <1>1 DEF RunRow
<1> QED BY <1>1, <1>2, <1>3, <1>4 DEF TypeOK, RunWritten

LEMMA AtWork ==
    ASSUME TypeOK, Placed
    PROVE  /\ worker \in WorkerRow /\ known \subseteq Runs
           /\ worker.pc # "idle" => worker.run \in known /\ worker.run \in Runs
           /\ worker.pc \in {"charge", "skip"} => worker.of \in Contacts
BY LaunchAssumption DEF TypeOK, Placed, WorkerRow

\* The worker's job and what it writes, by kinds of steps.
WorkerShape ==
    /\ worker \in WorkerRow
    /\ worker.run = NoRun <=> worker.pc = "idle"
    /\ worker.of = NoContact <=> worker.pc \notin {"charge", "skip"}
    /\ worker.pc = "idle" => worker = NoJob
    /\ worker.done # {} => worker.pc \in Charged \cup Later
    /\ worker.stop => worker.pc \in {"next", "enqueue", "count"}
    /\ worker.run \in known \cup {NoRun}

LEMMA ShapeKept ==
    ASSUME WorkerShape, UNCHANGED known, worker' \in WorkerRow, worker'.run = worker.run,
           worker.pc # "idle", worker'.pc # "idle",
           worker'.of = NoContact <=> worker'.pc \notin {"charge", "skip"},
           worker'.done # {} => worker'.pc \in Charged \cup Later,
           worker'.stop => worker'.pc \in {"next", "enqueue", "count"}
    PROVE  WorkerShape'
<1>1. (worker.run \in known \cup {NoRun})' /\ (worker.run = NoRun <=> worker.pc = "idle")'
    BY DEF WorkerShape
<1> QED BY <1>1 DEF WorkerShape

LEMMA JobMoves ==
    ASSUME TypeOK, Placed, WorkerAction
    PROVE  WorkerShape' /\ UNCHANGED <<env, opening, request, known>>
<1>1. /\ worker \in WorkerRow
      /\ worker.pc # "idle" => worker.run \in known /\ worker.run \in Runs
      /\ worker.pc \in {"charge", "skip"} => worker.of \in Contacts
      /\ NoRun \notin Runs /\ NoContact \notin Contacts
    BY AtWork, LaunchAssumption
<1>2. UNCHANGED <<env, opening, request, known>>
    BY DEF WorkerAction, WorkerStep, WorkerFaults, Claim, Unfinished, Close, Grab, List, Skip, Refuse, Stop, Charge,
           Loop, Enqueue, Count, Left, Again, Finish, Take, Plan, Pick, dbVars
<1>0. WorkerShape
    BY DEF WorkerShape, TypeOK, Placed
<1>3. CASE worker' = NoJob
    BY <1>2, <1>3, Rows DEF WorkerShape
<1>4. ASSUME NEW pc \in {"plan", "close", "list", "enqueue", "left", "count", "again", "finish", "running", "consume"},
             Step(pc), worker.pc \notin {"idle", "charge", "skip"},
             worker.pc \in Charged \cup Later => pc \in Charged \cup Later,
             worker.stop => pc \in {"next", "enqueue", "count"}
      PROVE  WorkerShape'
    <2>1. /\ worker' \in WorkerRow /\ worker'.pc = pc /\ worker'.run = worker.run
          /\ worker'.done = worker.done /\ worker'.of = worker.of /\ worker'.stop = worker.stop
        BY <1>4, WorkerGoesOn DEF Pcs
    <2>2. pc \notin {"idle", "charge", "skip"} /\ worker.of = NoContact
        BY <1>0, <1>4 DEF WorkerShape
    <2>3. worker'.done # {} => worker'.pc \in Charged \cup Later
        BY <1>0, <1>4, <2>1 DEF WorkerShape
    <2>4. worker'.stop => worker'.pc \in {"next", "enqueue", "count"}
        BY <1>0, <1>4, <2>1 DEF WorkerShape
    <2> QED BY <1>0, <1>2, <1>4, <2>1, <2>2, <2>3, <2>4, ShapeKept
<1>5. ASSUME NEW status \in RecipientStatus, NEW stop \in BOOLEAN, NEW decided \in SUBSET Contacts,
             Decide(status, stop, decided), worker.pc \in {"charge", "skip"}
      PROVE  WorkerShape'
    <2>1. worker.run \in Runs /\ worker.of \in Contacts /\ worker.pc # "idle"
        BY <1>1, <1>5
    <2>2. /\ worker' \in WorkerRow /\ worker'.pc = "next" /\ worker'.run = worker.run
          /\ worker'.of = NoContact
        BY <1>5, <2>1, WorkerDecides
    <2> QED BY <1>0, <1>2, <2>1, <2>2, ShapeKept DEF Charged, Looping
<1>6. ASSUME NEW r \in Runs, Take(r) PROVE WorkerShape'
    <2>1. CASE worker' = NoJob
        BY <1>3, <2>1
    <2>2. CASE worker' # NoJob
        <3>1. worker' = [NoJob EXCEPT !.pc = "claim", !.run = r, !.claimed = (run[r].status = "RUNNING"),
                           !.lost = run[r].failed /\ \A c \in Contacts : message[c] # r]
              /\ r \in known
            BY <1>6, <2>2 DEF Take, Placed
        <3>2. run[r].failed \in BOOLEAN
            BY DEF TypeOK, RunRow
        <3> HIDE DEF Placed
        <3>3. worker' \in WorkerRow /\ worker'.pc = "claim" /\ worker'.run = r /\ worker'.of = NoContact
              /\ worker'.done = {} /\ ~worker'.stop
            BY <3>1, <3>2, Rows DEF WorkerRow
        <3> QED BY <1>1, <1>2, <3>1, <3>3 DEF WorkerShape
    <2> QED BY <2>1, <2>2
<1>7. ASSUME NEW batch \in SUBSET Contacts, Plan(batch) PROVE WorkerShape'
    <2>1. /\ worker' \in WorkerRow /\ worker'.pc \in {"unfinished", "grab"} /\ worker'.run = worker.run
          /\ worker'.done = worker.done /\ worker'.of = worker.of /\ worker'.stop = worker.stop
        BY <1>1, <1>7 DEF Plan, WorkerRow
    <2>2. worker.pc = "plan" /\ worker.done = {} /\ worker.of = NoContact /\ ~worker.stop
        BY <1>0, <1>7 DEF Plan, WorkerShape, Charged, Later, Looping
    <2> QED BY <1>0, <1>2, <2>1, <2>2, ShapeKept
<1>8. CASE List
    <2>1. /\ worker' \in WorkerRow /\ worker'.pc = "next" /\ worker'.run = worker.run
          /\ worker'.done = worker.done /\ worker'.of = worker.of /\ worker'.stop = worker.stop
        BY <1>1, <1>8 DEF List, WorkerRow
    <2>2. worker.pc = "list" /\ worker.done = {} /\ worker.of = NoContact /\ ~worker.stop
        BY <1>0, <1>8 DEF List, WorkerShape, Charged, Later, Looping
    <2> QED BY <1>0, <1>2, <2>1, <2>2, ShapeKept
<1>9. ASSUME NEW c \in Contacts, Pick(c) PROVE WorkerShape'
    <2>1. /\ worker' \in WorkerRow /\ worker'.pc \in {"charge", "skip"} /\ worker'.run = worker.run
          /\ worker'.done = worker.done /\ worker'.of = c /\ worker'.stop = worker.stop
        BY <1>1, <1>9 DEF Pick, WorkerRow
    <2>2. worker.pc = "next" /\ ~worker.stop
        BY <1>9 DEF Pick
    <2>3. worker'.pc \in Charged \cup Later /\ c # NoContact
        BY <1>1, <2>1 DEF Charged, Looping
    <2> QED BY <1>0, <1>2, <2>1, <2>2, <2>3, ShapeKept
<1>10. CASE Skip \/ Refuse \/ Stop
    <2>1. Decide("SKIPPED", FALSE, {}) \/ Decide("FAILED", FALSE, {}) \/ Decide("FAILED", TRUE, {})
        BY <1>10 DEF Skip, Refuse, Stop
    <2>2. /\ worker.pc \in {"charge", "skip"} /\ "SKIPPED" \in RecipientStatus /\ "FAILED" \in RecipientStatus
          /\ TRUE \in BOOLEAN /\ FALSE \in BOOLEAN /\ {} \in SUBSET Contacts
        BY <1>10 DEF Skip, Refuse, Stop, RecipientStatus
    <2>3. CASE Decide("SKIPPED", FALSE, {})
        BY <1>2, <1>5, <2>2, <2>3
    <2>4. CASE Decide("FAILED", FALSE, {})
        BY <1>2, <1>5, <2>2, <2>4
    <2>5. CASE Decide("FAILED", TRUE, {})
        BY <1>2, <1>5, <2>2, <2>5
    <2> QED BY <2>1, <2>3, <2>4, <2>5
<1>11. CASE Charge
    <2>1. CASE Decide("QUEUED", FALSE, {worker.of})
        <3>1. worker.pc \in {"charge", "skip"} /\ "QUEUED" \in RecipientStatus
              /\ FALSE \in BOOLEAN /\ {worker.of} \in SUBSET Contacts
            BY <1>1, <1>11 DEF Charge, RecipientStatus
        <3> QED BY <1>2, <1>5, <2>1, <3>1
    <2> QED BY <1>3, <1>11, <2>1 DEF Charge, Throw, End
<1>12. CASE UNCHANGED worker
    BY <1>1, <1>2, <1>12 DEF WorkerShape, TypeOK, Placed
<1>13. CASE Claim \/ Unfinished \/ Close \/ Grab \/ Left \/ Again \/ Finish
    BY <1>3, <1>4, <1>13 DEF Claim, Unfinished, Close, Grab, Left, Again, Finish, Throw, End, Placed, Charged, Looping, Later
<1>14. CASE Loop \/ Enqueue \/ Count
    BY <1>3, <1>4, <1>14 DEF Loop, Enqueue, Count, Throw, End, Placed, Charged, Looping, Later
<1> QED BY <1>2, <1>3, <1>6, <1>7, <1>8, <1>9, <1>10, <1>11, <1>12, <1>13, <1>14 DEF WorkerAction, WorkerStep, WorkerFaults,
          Throw, End

-----------------------------------------------------------------------------
(* What the steps of the worker do to the rows.                            *)

\* Steps that write neither runs nor recipients nor messages.
Quiet == UNCHANGED <<run, recipient, message, balance, late, draft>>

LEMMA QuietSteps ==
    ASSUME \/ \E r \in Runs : Take(r)
           \/ \E batch \in SUBSET Contacts : Plan(batch)
           \/ \E c \in Contacts : Pick(c)
           \/ Unfinished \/ List \/ Loop \/ Enqueue \/ Count \/ Left \/ Again \/ WorkerFaults
    PROVE  Quiet
BY DEF Take, Plan, Pick, Unfinished, List, Loop, Enqueue, Count, Left, Again, WorkerFaults, dbVars, Quiet

LEMMA ClaimRows ==
    ASSUME TypeOK, Placed, Claim
    PROVE  /\ UNCHANGED <<recipient, message, balance, late, draft>>
           /\ \/ UNCHANGED run /\ run[worker.run].status \notin Active \ {"RUNNING"}
              \/ RunWritten(worker.run, "RUNNING") /\ run[worker.run].status \in Active
<1>1. worker.run \in Runs
    BY AtWork DEF Claim
<1> QED BY <1>1, RunStatus DEF Claim, Active

LEMMA CloseRows ==
    ASSUME TypeOK, Placed, Close
    PROVE  /\ UNCHANGED <<recipient, message, balance, late>> /\ draft' = FALSE /\ worker' = NoJob
           /\ RunWritten(worker.run, "COMPLETED") \/ RunWritten(worker.run, "FAILED")
<1>1. worker.run \in Runs
    BY AtWork DEF Close
<1> QED BY <1>1, RunStatus DEF Close, End

LEMMA FinishRows ==
    ASSUME TypeOK, Placed, Finish
    PROVE  /\ UNCHANGED <<recipient, message, balance, late, draft>>
           /\ \/ worker.pc = "running" /\ RunWritten(worker.run, "RUNNING") /\ worker' = NoJob
              \/ worker.pc = "finish" /\ RunWritten(worker.run, "COMPLETED") /\ Step("consume")
              \/ worker.pc = "consume" /\ RunWritten(worker.run, run[worker.run].status) /\ worker' = NoJob
<1>1. worker.run \in Runs
    BY AtWork DEF Finish
<1> QED BY <1>1, RunStatus, RunKept DEF Finish, End, Active

LEMMA GrabRows ==
    ASSUME TypeOK, Placed, Grab
    PROVE  /\ UNCHANGED <<run, message, balance, late, draft>>
           /\ recipient' \in [Runs -> [Contacts -> RecipientStatus]]
           /\ \A r \in Runs, c \in Contacts : recipient'[r][c] =
                IF r = worker.run /\ c \in worker.batch /\ recipient[r][c] = "PLANNED" THEN "PROCESSING"
                ELSE recipient[r][c]
           /\ (worker.batch \cap Planned(worker.run) = {} /\ worker' = NoJob) \/ Step("list")
<1>1. worker.run \in Runs /\ recipient \in [Runs -> [Contacts -> RecipientStatus]]
    BY AtWork DEF Grab, TypeOK
<1>2. recipient' = [recipient EXCEPT ![worker.run] = [c \in Contacts |->
          IF c \in worker.batch /\ recipient[worker.run][c] = "PLANNED" THEN "PROCESSING" ELSE recipient[worker.run][c]]]
    BY <1>1 DEF Grab
<1>3. [c \in Contacts |-> IF c \in worker.batch /\ recipient[worker.run][c] = "PLANNED" THEN "PROCESSING"
                          ELSE recipient[worker.run][c]] \in [Contacts -> RecipientStatus]
    BY <1>1 DEF RecipientStatus
<1> QED BY <1>1, <1>2, <1>3 DEF Grab, End

\* The recipient is decided, and nobody else is.
Decided(status) ==
    /\ recipient' \in [Runs -> [Contacts -> RecipientStatus]]
    /\ \A r \in Runs, c \in Contacts :
           recipient'[r][c] = IF r = worker.run /\ c = worker.of THEN status ELSE recipient[r][c]
    /\ worker'.pc = "next" /\ worker'.run = worker.run /\ worker'.batch = worker.batch /\ worker'.of = NoContact

LEMMA DecideRows ==
    ASSUME TypeOK, Placed, Skip \/ Refuse \/ Stop
    PROVE  /\ UNCHANGED <<message, balance, late>> /\ draft' \in {FALSE, draft} /\ worker'.done = worker.done
           /\ \/ worker.pc = "skip" /\ Decided("SKIPPED") /\ UNCHANGED run /\ ~worker'.stop
              \/ /\ worker.pc = "charge"
                 /\ Decided("SKIPPED") \/ Decided("FAILED")
                 /\ UNCHANGED run \/ RunWritten(worker.run, run[worker.run].status)
                 /\ ~worker'.stop
              \/ worker.pc = "charge" /\ Decided("FAILED") /\ RunWritten(worker.run, "FAILED") /\ worker'.stop
<1>1. worker.run \in Runs /\ worker.of \in Contacts
    BY AtWork DEF Skip, Refuse, Stop
<1>2. ASSUME NEW status \in RecipientStatus, NEW stop \in BOOLEAN, Decide(status, stop, {})
      PROVE  Decided(status) /\ worker'.stop = stop /\ worker'.done = worker.done
    <2>1. worker'.done = worker.done \cup {}
        BY <1>1, <1>2, WorkerDecides
    <2> QED BY <1>1, <1>2, <2>1, WorkerDecides DEF Decided
<1>3. "SKIPPED" \in RecipientStatus /\ "FAILED" \in RecipientStatus /\ TRUE \in BOOLEAN /\ FALSE \in BOOLEAN
    BY DEF RecipientStatus
<1>4. CASE Skip
    BY <1>2, <1>3, <1>4 DEF Skip
<1>5. CASE Refuse /\ Decide("SKIPPED", FALSE, {}) /\ UNCHANGED run
    BY <1>2, <1>3, <1>5 DEF Refuse
<1>6. CASE Refuse /\ Decide("FAILED", FALSE, {}) /\ run' = [run EXCEPT ![worker.run].failed = TRUE]
    BY <1>1, <1>2, <1>3, <1>6, RunKept DEF Refuse
<1>7. CASE Stop
    BY <1>1, <1>2, <1>3, <1>7, RunStatus DEF Stop
<1> QED BY <1>4, <1>5, <1>6, <1>7 DEF Refuse

LEMMA ChargeRows ==
    ASSUME TypeOK, Placed, Charge
    PROVE  /\ worker.pc = "charge" /\ UNCHANGED <<run, used, jobs>>
           /\ \/ /\ Messageable({worker.of}) /\ Decided("QUEUED")
                 /\ message' = [message EXCEPT ![worker.of] = worker.run]
                 /\ balance' = balance - 1 /\ balance >= 1 /\ draft' = FALSE
                 /\ ~worker'.stop /\ worker'.done = worker.done \cup {worker.of}
                 /\ late' \in [Runs -> Nat]
                 /\ \A r \in Runs : late'[r] =
                      IF r = worker.run /\ recipient[r][worker.of] = "SKIPPED" THEN late[r] + 1 ELSE late[r]
                 /\ UNCHANGED queue
              \/ /\ ~Messageable({worker.of}) /\ worker' = NoJob /\ Throw
                 /\ UNCHANGED <<recipient, message, balance, draft, late>>
<1>1. worker.run \in Runs /\ worker.of \in Contacts
    BY AtWork DEF Charge
<1>2. CASE ~Messageable({worker.of})
    BY <1>2 DEF Charge, Throw, End
<1>3. CASE Messageable({worker.of})
    <2>1. Decide("QUEUED", FALSE, {worker.of}) /\ "QUEUED" \in RecipientStatus /\ {worker.of} \in SUBSET Contacts
          /\ FALSE \in BOOLEAN
        BY <1>1, <1>3 DEF Charge, RecipientStatus
    <2>2. Decided("QUEUED") /\ ~worker'.stop /\ worker'.done = worker.done \cup {worker.of}
        BY <1>1, <2>1, WorkerDecides DEF Decided
    <2>3. late' = [late EXCEPT ![worker.run] =
              IF recipient[worker.run][worker.of] = "SKIPPED" THEN late[worker.run] + 1 ELSE late[worker.run]]
          /\ late \in [Runs -> Nat]
        BY <1>1, <1>3 DEF Charge, TypeOK
    <2>4. balance >= 1
        BY DEF Charge, Affordable
    <2> QED BY <1>1, <1>3, <2>2, <2>3, <2>4 DEF Charge
<1> QED BY <1>2, <1>3

\* The worker writes the run it is at, and no run goes back to being none.
LEMMA OthersKept ==
    ASSUME TypeOK, Placed, WorkerAction
    PROVE  /\ run' \in [Runs -> RunRow] /\ recipient' \in [Runs -> [Contacts -> RecipientStatus]]
           /\ late' \in [Runs -> Nat]
           /\ \A r \in Runs : /\ r # worker.run => run'[r] = run[r] /\ recipient'[r] = recipient[r] /\ late'[r] = late[r]
                              /\ run'[r].status = "NONE" => run[r].status = "NONE"
<1>1. /\ run \in [Runs -> RunRow] /\ recipient \in [Runs -> [Contacts -> RecipientStatus]]
      /\ late \in [Runs -> Nat]
    BY DEF TypeOK
<1>2. CASE Quiet
    BY <1>1, <1>2 DEF Quiet
<1>3. ASSUME NEW status, RunWritten(worker.run, status), status # "NONE" \/ run[worker.run].status = status
      PROVE  /\ run' \in [Runs -> RunRow]
             /\ \A r \in Runs : /\ r # worker.run => run'[r] = run[r]
                                /\ run'[r].status = "NONE" => run[r].status = "NONE"
    BY <1>1, <1>3 DEF RunWritten
<1>4. ASSUME recipient' \in [Runs -> [Contacts -> RecipientStatus]],
             \A r \in Runs \ {worker.run}, c \in Contacts : recipient'[r][c] = recipient[r][c]
      PROVE  \A r \in Runs : r # worker.run => recipient'[r] = recipient[r]
    BY <1>1, <1>4
<1>5. CASE Claim
    BY <1>1, <1>3, <1>5, ClaimRows
<1>6. CASE Close
    BY <1>1, <1>3, <1>6, CloseRows
<1>7. CASE Finish
    BY <1>1, <1>3, <1>7, FinishRows
<1>8. CASE Grab
    BY <1>1, <1>4, <1>8, GrabRows
<1>9. CASE Skip \/ Refuse \/ Stop
    <2>1. recipient' \in [Runs -> [Contacts -> RecipientStatus]]
          /\ \A r \in Runs \ {worker.run}, c \in Contacts : recipient'[r][c] = recipient[r][c]
        BY <1>9, DecideRows DEF Decided
    <2>2. UNCHANGED <<run, late>> \/ (UNCHANGED late /\ RunWritten(worker.run, run[worker.run].status))
          \/ (UNCHANGED late /\ RunWritten(worker.run, "FAILED"))
        BY <1>9, DecideRows
    <2>3. /\ run' \in [Runs -> RunRow] /\ late' \in [Runs -> Nat]
          /\ \A r \in Runs : /\ r # worker.run => run'[r] = run[r] /\ late'[r] = late[r]
                             /\ run'[r].status = "NONE" => run[r].status = "NONE"
        BY <1>1, <1>3, <2>2
    <2> QED BY <1>4, <2>1, <2>3
<1>10. CASE Charge
    <2>1. recipient' \in [Runs -> [Contacts -> RecipientStatus]]
          /\ \A r \in Runs \ {worker.run}, c \in Contacts : recipient'[r][c] = recipient[r][c]
        BY <1>1, <1>10, ChargeRows DEF Decided
    <2> QED BY <1>1, <1>4, <1>10, <2>1, ChargeRows
<1> QED BY <1>2, <1>5, <1>6, <1>7, <1>8, <1>9, <1>10, QuietSteps DEF WorkerAction, WorkerStep

LEMMA WorkerTypes ==
    ASSUME TypeOK, Placed, WorkerAction
    PROVE  TypeOK' /\ Placed'
<1>1. /\ worker.pc # "idle" => worker.run \in known /\ worker.run \in Runs
      /\ worker.pc \in {"charge", "skip"} => worker.of \in Contacts
      /\ worker.done \subseteq Contacts
      /\ worker = NoJob <=> worker.pc = "idle"
    BY AtWork, Rows DEF WorkerRow, Placed
<1>2. /\ message \in [Contacts -> Runs \cup {"none", "start"}] /\ balance \in Nat /\ used \in Nat
      /\ jobs \subseteq Contacts /\ queue \in [Runs -> Nat] /\ draft \in BOOLEAN
    BY DEF TypeOK
<1>3. message' \in [Contacts -> Runs \cup {"none", "start"}] /\ balance' \in Nat /\ draft' \in BOOLEAN
    <2>1. CASE Charge
        <3>1. worker.of \in Contacts /\ worker.run \in Runs
            BY <1>1, <2>1 DEF Charge
        <3>2. message' = message \/ message' = [message EXCEPT ![worker.of] = worker.run]
            BY <2>1, ChargeRows
        <3>5. balance' = balance \/ (balance' = balance - 1 /\ balance >= 1)
            BY <2>1, ChargeRows
        <3>6. draft' = draft \/ draft' = FALSE
            BY <2>1, ChargeRows
        <3>3. message' \in [Contacts -> Runs \cup {"none", "start"}]
            BY <1>2, <3>1, <3>2
        <3>4. balance' \in Nat
            BY <1>2, <3>5
        <3>7. draft' \in BOOLEAN
            BY <1>2, <3>6, Zenon
        <3> QED BY <3>3, <3>4, <3>7
    <2>2. CASE ~Charge
        <3>1. UNCHANGED <<message, balance>> /\ draft' \in {FALSE, draft}
            BY <2>2, QuietSteps, ClaimRows, CloseRows, FinishRows, GrabRows, DecideRows DEF WorkerAction, WorkerStep, Quiet
        <3> QED BY <1>2, <3>1
    <2> QED BY <2>1, <2>2
<1>4. used' \in Nat
    <2>1. CASE Count
        <3>1. Cardinality(worker.done) \in Nat
            BY <1>1, Counting
        <3> QED BY <1>2, <2>1, <3>1 DEF Count
    <2>2. CASE ~Count
        <3>1. UNCHANGED used
            BY <2>2 DEF WorkerAction, WorkerStep, WorkerFaults, Claim, Unfinished, Close, Grab, List, Skip, Refuse, Stop,
                        Charge, Loop, Enqueue, Left, Again, Finish, Take, Plan, Pick, dbVars
        <3> QED BY <1>2, <3>1
    <2> QED BY <2>1, <2>2
<1>5. jobs' \subseteq Contacts
    BY <1>1, <1>2 DEF WorkerAction, WorkerStep, WorkerFaults, Claim, Unfinished, Close, Grab, List, Skip, Refuse, Stop,
                      Charge, Loop, Enqueue, Left, Again, Finish, Count, Take, Plan, Pick, dbVars
<1>6. queue' \in [Runs -> Nat] /\ \A r \in Runs : queue'[r] > 0 => r \in known
    <2>1. \/ UNCHANGED queue
          \/ worker.run \in Runs /\ worker.run \in known
             /\ (queue' = [queue EXCEPT ![worker.run] = @ + 1] \/ queue' = [queue EXCEPT ![worker.run] = 1])
          \/ \E r \in Runs : queue[r] > 0 /\ queue' = [queue EXCEPT ![r] = @ - 1]
        <3>1. CASE \E r \in Runs : Take(r)
            BY <3>1 DEF Take
        <3>2. CASE WorkerFaults
            <4>1. worker.run \in Runs /\ worker.run \in known
                BY <1>1, <3>2 DEF WorkerFaults
            <4> QED BY <3>2, <4>1 DEF WorkerFaults, Throw
        <3>3. CASE Enqueue \/ Again \/ Count
            <4>1. worker.run \in Runs /\ worker.run \in known
                BY <1>1, <3>3 DEF Enqueue, Again, Count
            <4> QED BY <3>3, <4>1 DEF Enqueue, Again, Count, Throw
        <3>4. CASE Charge
            BY <1>1, <3>4, ChargeRows DEF Throw
        <3>5. UNCHANGED queue \/ (\E r \in Runs : Take(r)) \/ WorkerFaults \/ Enqueue \/ Again \/ Count \/ Charge
            BY DEF WorkerAction, WorkerStep, Claim, Unfinished, Close, Grab, List, Skip, Refuse, Stop, Loop, Left, Finish,
                   Plan, Pick
        <3> QED BY <3>1, <3>2, <3>3, <3>4, <3>5
    <2>2. \A r \in Runs : queue[r] > 0 => r \in known
        BY DEF Placed
    <2> QED BY <1>2, <2>1, <2>2
<1> QED BY <1>3, <1>4, <1>5, <1>6, OthersKept, JobMoves DEF TypeOK, Placed, WorkerShape

-----------------------------------------------------------------------------
(* The worker keeps the invariant.                                         *)

LEMMA JobFields ==
    ASSUME TypeOK, Placed
    PROVE  /\ worker.pc # "idle" => worker.run \in known /\ worker.run \in Runs
           /\ worker.pc \in {"charge", "skip"} => worker.of \in Contacts
           /\ worker.pc \notin {"charge", "skip"} => worker.of = NoContact
           /\ worker.batch \in SUBSET Contacts /\ worker.done \in SUBSET Contacts
           /\ worker = NoJob <=> worker.pc = "idle"
           /\ NoContact \notin Contacts /\ "none" \notin Runs /\ "start" \notin Runs /\ NoRun \notin Runs
BY AtWork, LaunchAssumption, Rows DEF WorkerRow, TypeOK, Placed

\* A message is made for a contact that has none.
LEMMA WorkerMakes ==
    ASSUME TypeOK, Placed, WorkerAction
    PROVE  /\ StartMade' = StartMade
           /\ \/ UNCHANGED message /\ Made' = Made
              \/ /\ Charge /\ Messageable({worker.of}) /\ worker.of \in Contacts \ Made /\ worker.run \in Runs
                 /\ message' = [message EXCEPT ![worker.of] = worker.run] /\ Made' = Made \cup {worker.of}
<1>1. CASE Charge
    <2>1. worker.of \in Contacts /\ worker.run \in Runs /\ "none" \notin Runs /\ "start" \notin Runs
          /\ message \in [Contacts -> Runs \cup {"none", "start"}]
        BY <1>1, JobFields DEF Charge, TypeOK
    <2>2. CASE UNCHANGED message
        BY <2>2 DEF StartMade, Made
    <2>3. CASE Messageable({worker.of}) /\ message' = [message EXCEPT ![worker.of] = worker.run]
        <3>1. worker.of \notin Made /\ message[worker.of] = "none"
            BY <2>1, <2>3 DEF Messageable, Made
        <3>2. Made' = Made \cup {worker.of}
            BY <2>1, <2>3 DEF Made
        <3>3. StartMade' = StartMade
            BY <2>1, <2>3, <3>1 DEF StartMade
        <3> QED BY <1>1, <2>1, <2>3, <3>1, <3>2, <3>3
    <2> QED BY <1>1, <2>2, <2>3, ChargeRows
<1>2. CASE ~Charge
    <2>1. UNCHANGED message
        BY <1>2, QuietSteps, ClaimRows, CloseRows, FinishRows, GrabRows, DecideRows DEF WorkerAction, WorkerStep, Quiet
    <2> QED BY <2>1 DEF StartMade, Made
<1> QED BY <1>1, <1>2

LEMMA WorkerPrepares ==
    ASSUME TypeOK, Placed, Prepared, WorkerAction
    PROVE  Prepared'
<1>1. UNCHANGED <<request, known>>
    BY JobMoves
<1>2. ASSUME NEW r \in Runs, run'[r].status = "NONE"
      PROVE  run[r].status = "NONE" /\ recipient'[r] = recipient[r]
    <2>1. run[r].status = "NONE" /\ (r # worker.run => recipient'[r] = recipient[r])
        BY <1>2, OthersKept
    <2>2. r \notin known
        BY <2>1 DEF Prepared
    <2>3. r # worker.run
        BY <2>2, LaunchAssumption DEF Placed
    <2> QED BY <2>1, <2>3
<1> QED BY <1>1, <1>2 DEF Prepared

LEMMA WorkerStarts ==
    ASSUME TypeOK, Placed, StartsOnce, WorkerAction
    PROVE  StartsOnce'
<1>1. UNCHANGED request /\ StartMade' = StartMade /\ Made \subseteq Made'
    BY JobMoves, WorkerMakes
<1>2. draft' \in {FALSE, draft}
    BY QuietSteps, ClaimRows, CloseRows, FinishRows, GrabRows, DecideRows, ChargeRows DEF WorkerAction, WorkerStep, Quiet
<1>3. StartMade' # {} => ~draft'
    BY <1>1, <1>2 DEF StartsOnce
<1> QED BY <1>1, <1>3 DEF StartsOnce, Started

\* Recipients are queued with their message.
LEMMA WorkerQueues ==
    ASSUME TypeOK, Placed, Prepared, QueuedIsMade, WorkerAction
    PROVE  QueuedIsMade'
<1> DEFINE Has(r, c) == message[c] = r <=> recipient[r][c] = "QUEUED"
           Free(c) == c \in worker.batch \/ c = worker.of => recipient[worker.run][c] # "QUEUED"
<1>1. /\ worker.pc # "idle" => worker.run \in Runs
      /\ worker.pc \in {"charge", "skip"} => worker.of \in Contacts
      /\ worker.pc \notin {"charge", "skip"} => worker.of = NoContact
      /\ worker.batch \in SUBSET Contacts /\ worker.done \in SUBSET Contacts
      /\ NoContact \notin Contacts
    BY JobFields
<1>2. CASE worker' = NoJob /\ UNCHANGED <<recipient, message>>
    BY <1>2, Rows DEF QueuedIsMade, Looping
<1>3. CASE /\ UNCHANGED <<recipient, message>>
           /\ worker'.run = worker.run /\ worker'.done = worker.done
           /\ worker'.of = NoContact /\ worker'.pc \notin Looping
           /\ worker'.batch \subseteq Contacts
    BY <1>1, <1>3 DEF QueuedIsMade
<1>4. CASE UNCHANGED <<recipient, message, worker>>
    BY <1>4 DEF QueuedIsMade
<1>5. ASSUME NEW r \in Runs, Take(r) PROVE QueuedIsMade'
    <2>1. CASE worker' # NoJob
        <3>1. worker'.batch = {} /\ worker'.done = {} /\ worker'.pc = "claim" /\ UNCHANGED <<recipient, message>>
            BY <1>5, <2>1, Rows DEF Take, dbVars, NoJob
        <3> QED BY <3>1 DEF QueuedIsMade, Looping
    <2>2. UNCHANGED <<recipient, message>>
        BY <1>5 DEF Take, dbVars
    <2> QED BY <1>2, <2>1, <2>2
<1>6. CASE List
    <2>1. worker'.batch \subseteq Processing(worker.run) /\ worker'.done = worker.done /\ worker'.run = worker.run
          /\ worker'.of = NoContact /\ UNCHANGED <<recipient, message>>
        BY <1>1, <1>6 DEF List, dbVars, TypeOK, WorkerRow
    <2>2. \A c \in Processing(worker.run) : recipient[worker.run][c] # "QUEUED" /\ c \in Contacts
        BY DEF Processing
    <2> QED BY <1>1, <2>1, <2>2 DEF QueuedIsMade
<1>7. ASSUME NEW c \in Contacts, Pick(c) PROVE QueuedIsMade'
    <2>1. worker'.batch = worker.batch \ {c} /\ worker'.of = c /\ worker'.done = worker.done /\ worker'.run = worker.run
          /\ UNCHANGED <<recipient, message>>
        BY <1>7 DEF Pick, dbVars, TypeOK, WorkerRow
    <2>2. worker.pc = "next" /\ c \in worker.batch
        BY <1>7 DEF Pick
    <2> QED BY <2>1, <2>2 DEF QueuedIsMade, Looping
<1>8. ASSUME NEW status \in RecipientStatus, Decided(status), worker.pc \in {"charge", "skip"}, status # "QUEUED",
             worker'.done = worker.done, UNCHANGED message
      PROVE  QueuedIsMade'
    <2>1. worker.run \in Runs /\ worker.of \in Contacts
        BY <1>1, <1>8
    <2>2. recipient[worker.run][worker.of] # "QUEUED"
        BY <1>8, <2>1 DEF QueuedIsMade, Looping
    <2>3. \A r \in Runs, c \in Contacts : recipient'[r][c] = "QUEUED" <=> recipient[r][c] = "QUEUED"
        BY <1>8, <2>2 DEF Decided
    <2>4. \A c \in Contacts : c \in worker.batch => recipient'[worker.run][c] # "QUEUED"
        BY <1>8, <2>1, <2>3 DEF QueuedIsMade, Looping
    <2> QED BY <1>1, <1>8, <2>3, <2>4 DEF QueuedIsMade, Decided
<1>9. CASE Charge
    <2>1. CASE Messageable({worker.of}) /\ Decided("QUEUED")
        <3>1. /\ worker.of \in Contacts \ Made /\ worker.run \in Runs
              /\ message' = [message EXCEPT ![worker.of] = worker.run]
              /\ worker'.done = worker.done \cup {worker.of} /\ worker'.run = worker.run
              /\ worker'.batch = worker.batch /\ worker'.of = NoContact
            BY <1>1, <1>9, <2>1, ChargeRows DEF Decided, Charge, Messageable
        <3>2. message \in [Contacts -> Runs \cup {"none", "start"}]
            BY DEF TypeOK
        <3>3. \A r \in Runs, c \in Contacts : message'[c] = r <=> recipient'[r][c] = "QUEUED"
            <4>1. ASSUME NEW r \in Runs, NEW c \in Contacts, c # worker.of
                  PROVE  message'[c] = r <=> recipient'[r][c] = "QUEUED"
                BY <2>1, <3>1, <3>2, <4>1 DEF QueuedIsMade, Decided
            <4>2. ASSUME NEW r \in Runs
                  PROVE  message'[worker.of] = r <=> recipient'[r][worker.of] = "QUEUED"
                <5>1. message[worker.of] \notin Runs
                    BY <3>1, <3>2, JobFields DEF Made
                <5>2. recipient[r][worker.of] # "QUEUED"
                    BY <3>1, <5>1 DEF QueuedIsMade
                <5> QED BY <2>1, <3>1, <3>2, <5>2 DEF Decided
            <4> QED BY <4>1, <4>2
        <3>4. \A c \in Contacts : c \in worker.batch => recipient'[worker.run][c] # "QUEUED"
            <4>1. worker.of \notin worker.batch /\ \A c \in Contacts : c \in worker.batch => recipient[worker.run][c] # "QUEUED"
                BY <1>9 DEF QueuedIsMade, Charge, Looping
            <4> QED BY <2>1, <3>1, <4>1 DEF Decided
        <3>5. \A c \in worker'.done : message'[c] = worker'.run
            BY <1>1, <3>1, <3>2 DEF QueuedIsMade
        <3> QED BY <1>1, <3>1, <3>3, <3>4, <3>5 DEF QueuedIsMade
    <2> QED BY <1>2, <1>9, <2>1, ChargeRows
<1>10. CASE Grab
    <2>1. \A r \in Runs, c \in Contacts : recipient'[r][c] = "QUEUED" <=> recipient[r][c] = "QUEUED"
        BY <1>10, GrabRows
    <2>2. UNCHANGED message /\ (worker' = NoJob \/ (worker'.pc = "list" /\ worker'.run = worker.run
              /\ worker'.done = worker.done /\ worker'.of = worker.of /\ worker'.batch = worker.batch))
        BY <1>10, GrabRows, WorkerGoesOn DEF Pcs
    <2> QED BY <1>1, <2>1, <2>2, Rows DEF QueuedIsMade, Looping
<1>11. CASE Skip \/ Refuse \/ Stop
    BY <1>8, <1>11, DecideRows DEF RecipientStatus
<1>12. ASSUME NEW pc \in {"plan", "close", "enqueue", "left", "count", "again", "finish", "running", "consume"},
              Step(pc), worker.pc \notin {"charge", "skip"}, UNCHANGED <<recipient, message>>
       PROVE  QueuedIsMade'
    <2>1. /\ worker'.pc = pc /\ worker'.run = worker.run /\ worker'.batch = worker.batch
          /\ worker'.done = worker.done /\ worker'.of = worker.of
        BY <1>12, WorkerGoesOn DEF Pcs
    <2> QED BY <1>1, <1>3, <1>12, <2>1 DEF Looping
<1>13. CASE Claim \/ Unfinished \/ Left \/ Again \/ Finish \/ Close
    <2>1. UNCHANGED <<recipient, message>>
        BY <1>13, QuietSteps, ClaimRows, FinishRows, CloseRows DEF Quiet
    <2> QED BY <1>2, <1>12, <1>13, <2>1 DEF Claim, Unfinished, Left, Again, Finish, Close, Throw, End
<1>14. CASE Loop \/ Enqueue \/ Count \/ WorkerFaults
    <2>1. UNCHANGED <<recipient, message>>
        BY <1>14, QuietSteps DEF Quiet
    <2> QED BY <1>2, <1>4, <1>12, <1>14, <2>1 DEF Loop, Enqueue, Count, WorkerFaults, Throw, End
<1>15. ASSUME NEW batch \in SUBSET Contacts, Plan(batch) PROVE QueuedIsMade'
    <2>1. /\ worker'.pc \in {"unfinished", "grab"} /\ worker'.run = worker.run /\ worker'.batch = batch
          /\ worker'.done = worker.done /\ worker'.of = worker.of /\ UNCHANGED <<recipient, message>>
          /\ worker.pc = "plan"
        BY <1>15 DEF Plan, TypeOK, WorkerRow, dbVars
    <2> QED BY <1>1, <1>3, <2>1 DEF Looping
<1> QED BY <1>5, <1>6, <1>7, <1>9, <1>10, <1>11, <1>13, <1>14, <1>15 DEF WorkerAction, WorkerStep

\* Counting and charging.
LEMMA WorkerAccounts ==
    ASSUME TypeOK, Placed, QueuedIsMade, StartsOnce, Accounts, WorkerAction
    PROVE  Accounts'
<1>1. /\ UNCHANGED <<request, opening, env>> /\ StartMade' = StartMade
      /\ worker.done \subseteq Contacts /\ \A c \in worker.done : message[c] = worker.run
      /\ worker.pc # "idle" => worker.run \in Runs
    BY JobMoves, WorkerMakes, JobFields DEF QueuedIsMade
<1> DEFINE Opened == IF \E u \in Users : Started(u) THEN StartMade ELSE {}
           Held == IF worker.pc \in Charged THEN worker.done ELSE {}
<1>2. Opened' = Opened /\ Uncounted = Opened \cup Held /\ Uncounted' = Opened \cup Held'
    BY <1>1 DEF Started, Uncounted
<1>3. balance + Cardinality(Made) = opening /\ used <= Cardinality(Made \ Uncounted) /\ (May("quota") => used <= Limit)
      /\ balance \in Nat /\ used \in Nat
    BY DEF Accounts, TypeOK
<1>4. /\ IsFiniteSet(Made) /\ IsFiniteSet(Made \ Uncounted) /\ Made \subseteq Contacts
      /\ Cardinality(Made) \in Nat /\ Cardinality(Made \ Uncounted) \in Nat
    BY Counting DEF Made
<1>5. CASE Charge /\ Messageable({worker.of}) /\ worker.of \in Contacts \ Made /\ worker.run \in Runs
    <2>1. /\ Made' = Made \cup {worker.of} /\ balance' = balance - 1 /\ UNCHANGED used
          /\ worker'.pc = "next" /\ worker'.done = worker.done \cup {worker.of}
        <3>1. /\ message' = [message EXCEPT ![worker.of] = worker.run] /\ balance' = balance - 1 /\ UNCHANGED used
              /\ worker'.pc = "next" /\ worker'.done = worker.done \cup {worker.of}
            BY <1>5, ChargeRows DEF Decided
        <3>2. message'[worker.of] # message[worker.of]
            BY <1>5, <3>1, JobFields DEF TypeOK, Made
        <3> QED BY <3>1, <3>2, WorkerMakes
    <2>2. Made' \ Uncounted' = Made \ Uncounted
        BY <1>2, <1>5, <2>1 DEF Charge, Charged, Looping
    <2>3. Cardinality(Made') = Cardinality(Made) + 1
        BY <1>4, <1>5, <2>1, FS_AddElement
    <2>4. balance' + Cardinality(Made') = opening
        BY <1>3, <1>4, <2>1, <2>3
    <2>5. used' <= Cardinality(Made' \ Uncounted')
        BY <1>3, <2>1, <2>2
    <2> QED BY <1>1, <1>3, <2>1, <2>4, <2>5 DEF Accounts, May
<1>6. CASE UNCHANGED <<balance, used>> /\ Made' = Made /\ Held' \subseteq Held
    <2>1. Made \ Uncounted \subseteq Made \ Uncounted' /\ IsFiniteSet(Made \ Uncounted') /\ Cardinality(Made \ Uncounted') \in Nat
        BY <1>2, <1>4, <1>6, Counting
    <2>2. Cardinality(Made \ Uncounted) <= Cardinality(Made \ Uncounted')
        BY <2>1, FS_Subset
    <2> QED BY <1>1, <1>3, <1>4, <1>6, <2>1, <2>2 DEF Accounts, May
<1>7. CASE Count /\ ~UNCHANGED used
    <2>1. /\ used' = used + Cardinality(worker.done) /\ QuotaLeft(Cardinality(worker.done))
          /\ UNCHANGED <<balance, message>> /\ worker.pc = "count" /\ worker'.pc \notin Charged
        BY <1>7, WorkerGoesOn, Rows DEF Count, End, Pcs, Charged, Looping
    <2>2. Held = worker.done /\ Held' = {} /\ Made' = Made
        BY <2>1 DEF Charged, Made
    <2>3. worker.done \cap Opened = {} /\ worker.done \subseteq Made
        BY <1>1, <2>1, JobFields DEF StartMade, Made
    <2>4. Made \ Uncounted' = (Made \ Uncounted) \cup worker.done /\ (Made \ Uncounted) \cap worker.done = {}
        BY <1>2, <2>2, <2>3
    <2>5. Cardinality(Made \ Uncounted') = Cardinality(Made \ Uncounted) + Cardinality(worker.done)
        <3>1. IsFiniteSet(worker.done) /\ Cardinality(worker.done) \in Nat
            BY <1>1, Counting
        <3>2. Cardinality((Made \ Uncounted) \cap worker.done) = 0
            BY <2>4, FS_EmptySet
        <3> QED BY <1>4, <2>4, <3>1, <3>2, FS_Union
    <2>6. Cardinality(worker.done) \in Nat
        BY <1>1, Counting
    <2> QED BY <1>1, <1>3, <1>4, <2>1, <2>2, <2>5, <2>6 DEF Accounts, QuotaLeft, May
<1>8. ASSUME ~(Charge /\ Messageable({worker.of})), ~(Count /\ ~UNCHANGED used)
      PROVE  UNCHANGED <<balance, used>> /\ Made' = Made /\ Held' \subseteq Held
    <2>1. Made' = Made
        BY <1>8, WorkerMakes
    <2>2. UNCHANGED balance
        BY <1>8, QuietSteps, ClaimRows, CloseRows, FinishRows, GrabRows, DecideRows, ChargeRows DEF WorkerAction, WorkerStep, Quiet
    <2>3. UNCHANGED used
        BY <1>8 DEF WorkerAction, WorkerStep, WorkerFaults, Claim, Unfinished, Close, Grab, List, Skip, Refuse, Stop,
                    Charge, Loop, Enqueue, Left, Again, Finish, Take, Plan, Pick, dbVars
    <2>4. Held' \subseteq Held
        <3>1. CASE worker' = NoJob \/ worker' = worker
            BY <3>1, Rows DEF Charged, Looping
        <3>2. ASSUME NEW pc \in Pcs, Step(pc), pc \in Charged => worker.pc \in Charged
              PROVE  Held' \subseteq Held
            BY <3>2, WorkerGoesOn
        <3>3. CASE Claim \/ Unfinished \/ Close \/ Grab \/ Left \/ Again \/ Finish
            BY <3>1, <3>2, <3>3 DEF Claim, Unfinished, Close, Grab, Left, Again, Finish, End, Throw, Pcs, Charged, Looping
        <3>4. CASE Loop \/ Enqueue \/ Count \/ WorkerFaults
            BY <3>1, <3>2, <3>4 DEF Loop, Enqueue, Count, WorkerFaults, End, Throw, Pcs, Charged, Looping
        <3>5. CASE Skip \/ Refuse \/ Stop
            BY <3>5, DecideRows DEF Skip, Refuse, Stop, Charged, Looping
        <3>6. CASE Charge
            BY <1>8, <3>1, <3>6, ChargeRows
        <3>7. CASE List \/ (\E c \in Contacts : Pick(c)) \/ \E batch \in SUBSET Contacts : Plan(batch)
            <4>1. /\ worker'.done = worker.done
                  /\ worker.done # {} => worker.pc \in Charged \cup Later
                BY <3>7 DEF List, Pick, Plan, TypeOK, WorkerRow, Placed
            <4>2. worker'.pc \in Charged => worker.pc \in Charged \/ worker.pc = "list"
                BY <3>7 DEF List, Pick, Plan, TypeOK, WorkerRow, Charged, Looping
            <4> QED BY <4>1, <4>2 DEF Charged, Looping, Later
        <3>8. ASSUME NEW r \in Runs, Take(r) PROVE Held' \subseteq Held
            <4>1. worker' = NoJob \/ worker'.done = {}
                BY <3>8, Rows DEF Take, NoJob
            <4> QED BY <4>1, Rows
        <3> QED BY <3>3, <3>4, <3>5, <3>6, <3>7, <3>8 DEF WorkerAction, WorkerStep
    <2> QED BY <2>1, <2>2, <2>3, <2>4
<1>9. CASE Charge /\ Messageable({worker.of})
    <2>1. worker.of \in Contacts \ Made /\ worker.run \in Runs
        BY <1>9, JobFields DEF Charge, Messageable
    <2> QED BY <1>5, <1>9, <2>1
<1> QED BY <1>6, <1>7, <1>8, <1>9

\* How the loop goes on.
LEMMA LoopSteps ==
    ASSUME TypeOK, Placed, WorkerAction, worker'.pc \in Looping
    PROVE  /\ worker'.run = worker.run
           /\ \/ /\ worker.pc = "list" /\ worker'.pc = "next" /\ worker'.batch = worker.batch \cap Processing(worker.run)
                 /\ worker'.of = NoContact /\ worker'.stop = worker.stop /\ Quiet
              \/ /\ worker.pc = "next" /\ ~worker.stop /\ Quiet
                 /\ worker'.pc = IF run[worker.run].status = "CANCELED" THEN "skip" ELSE "charge"
                 /\ worker'.of \in worker.batch /\ worker'.batch = worker.batch \ {worker'.of}
              \/ /\ worker.pc \in {"charge", "skip"} /\ worker'.pc = "next" /\ worker'.batch = worker.batch
                 /\ worker'.of = NoContact
                 /\ Decided("QUEUED") \/ Decided("SKIPPED") \/ Decided("FAILED")
                 /\ \/ ~worker'.stop /\ (UNCHANGED run \/ RunWritten(worker.run, run[worker.run].status))
                    \/ worker'.stop /\ RunWritten(worker.run, "FAILED")
              \/ UNCHANGED worker /\ Quiet
<1>1. worker' # NoJob
    BY Rows DEF Looping
<1>2. CASE List
    BY <1>2, QuietSteps, JobFields DEF List, TypeOK, WorkerRow
<1>3. ASSUME NEW c \in Contacts, Pick(c)
      PROVE  /\ worker'.run = worker.run /\ worker.pc = "next" /\ ~worker.stop /\ Quiet
             /\ worker'.pc = IF run[worker.run].status = "CANCELED" THEN "skip" ELSE "charge"
             /\ worker'.of \in worker.batch /\ worker'.batch = worker.batch \ {worker'.of}
    BY <1>3, QuietSteps DEF Pick, NotCanceled, TypeOK, WorkerRow
<1>4. CASE Skip \/ Refuse \/ Stop
    BY <1>4, DecideRows DEF Decided
<1>5. CASE Charge
    BY <1>1, <1>5, ChargeRows DEF Decided
<1>6. ASSUME NEW pc \in Pcs \ Looping, Step(pc) PROVE FALSE
    BY <1>6, WorkerGoesOn
<1>7. CASE WorkerFaults
    BY <1>1, <1>7, QuietSteps DEF WorkerFaults, Throw, End
<1>8. ~(Claim \/ Unfinished \/ Close \/ Grab \/ Left \/ Again \/ Finish)
    BY <1>1, <1>6 DEF Claim, Unfinished, Close, Grab, Left, Again, Finish, End, Throw, Pcs, Looping
<1>9. ~(Loop \/ Enqueue \/ Count)
    BY <1>1, <1>6 DEF Loop, Enqueue, Count, End, Throw, Pcs, Looping
<1>10. ASSUME NEW r \in Runs, Take(r) PROVE FALSE
    BY <1>1, <1>10, Rows DEF Take, Looping, NoJob
<1>11. ASSUME NEW batch \in SUBSET Contacts, Plan(batch) PROVE FALSE
    BY <1>11 DEF Plan, TypeOK, WorkerRow, Looping
<1> QED BY <1>2, <1>3, <1>4, <1>5, <1>7, <1>8, <1>9, <1>10, <1>11 DEF WorkerAction, WorkerStep

\* What the worker may write of its run and its recipients.
LEMMA StatusMoves ==
    ASSUME TypeOK, Placed, WorkerAction
    PROVE  \A r \in Runs : /\ run'[r].status \in {run[r].status, "RUNNING", "COMPLETED", "FAILED"}
                           /\ \A c \in Contacts :
                                /\ recipient'[r][c] = "PLANNED" => recipient[r][c] = "PLANNED"
                                /\ recipient'[r][c] = "PROCESSING" =>
                                     recipient[r][c] = "PROCESSING" \/ (Grab /\ recipient[r][c] = "PLANNED")
<1>1. CASE Quiet
    BY <1>1 DEF Quiet
<1>2. CASE Claim \/ Close \/ Finish
    BY <1>2, ClaimRows, CloseRows, FinishRows DEF RunWritten
<1>3. CASE Grab
    BY <1>3, GrabRows
<1>4. CASE Skip \/ Refuse \/ Stop
    <2>1. Decided("SKIPPED") \/ Decided("FAILED")
        BY <1>4, DecideRows
    <2>2. UNCHANGED run \/ RunWritten(worker.run, run[worker.run].status) \/ RunWritten(worker.run, "FAILED")
        BY <1>4, DecideRows
    <2>3. \A r \in Runs : run'[r].status \in {run[r].status, "FAILED"}
        BY <2>2 DEF RunWritten
    <2>4. \A r \in Runs, c \in Contacts : recipient'[r][c] \in {recipient[r][c], "SKIPPED", "FAILED"}
        BY <2>1 DEF Decided
    <2> QED BY <2>3, <2>4
<1>5. CASE Charge
    BY <1>5, ChargeRows DEF Decided
<1> QED BY <1>1, <1>2, <1>3, <1>4, <1>5, QuietSteps DEF WorkerAction, WorkerStep

LEMMA WorkerConfirms ==
    ASSUME TypeOK, Placed, ConfirmedOnce, WorkerAction
    PROVE  ConfirmedOnce'
<1>1. UNCHANGED <<request, known>> /\ known \subseteq Runs
    BY JobMoves DEF TypeOK
<1>2. \A r \in Runs : run[r].status \notin Unconfirmed => run'[r].status \notin Unconfirmed
    BY StatusMoves DEF Unconfirmed
<1>3. \A u \in Users : request[u].pc = "add" => request[u].run \in Runs
    BY DEF Placed, OfRun
<1> QED BY <1>1, <1>2, <1>3 DEF ConfirmedOnce, Confirming

\* A run that is stopped remains so.
LEMMA StoppedKept ==
    ASSUME TypeOK, Placed, WorkerAction, NEW r \in Runs, Stopped(r)
    PROVE  Stopped(r)'
<1>1. Planned(r)' \cup Processing(r)' = {} /\ run'[r].status # "NONE"
    BY StatusMoves DEF Stopped, Planned, Processing
<1>2. ASSUME worker'.run = r, worker'.pc \in Looping, worker'.batch # {}, ~worker'.stop
      PROVE  run'[r].status = "CANCELED"
    <2>1. worker.run = r
        BY <1>2, LoopSteps
    <2>2. worker.batch # {} /\ worker.pc \in Looping
        BY <1>2, <2>1, LoopSteps DEF Stopped, Looping
    <2>3. ~worker.stop
        BY <1>2, LoopSteps DEF Placed
    <2>4. run[r].status = "CANCELED"
        BY <2>1, <2>2, <2>3 DEF Stopped
    <2>5. run'[r].status = run[r].status
        BY <1>2, <2>1, LoopSteps DEF Quiet, RunWritten
    <2> QED BY <2>4, <2>5
<1> QED BY <1>1, <1>2 DEF Stopped

LEMMA WorkerStops ==
    ASSUME TypeOK, Placed, QueuedIsMade, CancelStops, WorkerAction
    PROVE  CancelStops'
<1>1. \A q \in Runs : Stopped(q) => Stopped(q)'
    BY StoppedKept
<1>2. \A q \in Runs : run'[q].status = "CANCELED" => Stopped(q)'
    BY <1>1, StatusMoves DEF CancelStops
<1>3. ASSUME NEW r \in Runs, r = worker.run, worker'.pc \in Looping
      PROVE  /\ worker'.run = r
             /\ \/ \A c \in Contacts : c \in worker'.batch \/ c = worker'.of => c \in Processing(r)'
                \/ Stopped(r)'
             /\ worker'.pc = "skip" => Stopped(r)'
    <2>1. worker'.run = r /\ worker.run = r
        BY <1>3, LoopSteps
    <2>2. CASE worker.pc = "list" /\ worker'.batch = worker.batch \cap Processing(r) /\ Quiet
               /\ worker'.of = NoContact /\ worker'.pc = "next"
        BY <2>1, <2>2, JobFields DEF Quiet, Processing
    <2>3. CASE /\ worker.pc = "next" /\ Quiet
               /\ worker'.pc = IF run[r].status = "CANCELED" THEN "skip" ELSE "charge"
               /\ worker'.of \in worker.batch /\ worker'.batch = worker.batch \ {worker'.of}
        <3>1. worker'.pc = "skip" => Stopped(r)'
            BY <1>1, <2>1, <2>3 DEF CancelStops
        <3>2. Processing(r)' = Processing(r)
            BY <2>3 DEF Quiet, Processing
        <3>3. ASSUME ~Stopped(r), NEW c \in Contacts, c \in worker'.batch \/ c = worker'.of
              PROVE  c \in Processing(r)'
            <4>1. c \in worker.batch /\ c \in Processing(r)
                BY <2>1, <2>3, <3>3 DEF CancelStops, Looping
            <4> QED BY <3>2, <4>1
        <3> QED BY <1>1, <2>1, <3>1, <3>3
    <2>4. CASE /\ worker.pc \in {"charge", "skip"} /\ worker'.pc = "next" /\ worker'.batch = worker.batch
               /\ worker'.of = NoContact
               /\ Decided("QUEUED") \/ Decided("SKIPPED") \/ Decided("FAILED")
        <3>1. worker.of \notin worker.batch
            BY DEF QueuedIsMade
        <3>2. ASSUME ~Stopped(r), NEW c \in Contacts, c \in worker'.batch \/ c = worker'.of
              PROVE  c \in Processing(r)'
            <4>1. c \in worker.batch /\ c # worker.of /\ c \in Processing(r)
                BY <2>1, <2>4, <3>1, <3>2, JobFields DEF CancelStops, Looping
            <4> QED BY <2>1, <2>4, <4>1 DEF Decided, Processing
        <3> QED BY <1>1, <2>1, <2>4, <3>2
    <2>5. CASE UNCHANGED worker /\ Quiet
        BY <1>1, <1>3, <2>1, <2>5 DEF CancelStops, Quiet, Processing
    <2> QED BY <1>3, <2>1, <2>2, <2>3, <2>4, <2>5, LoopSteps
<1>4. ASSUME NEW q \in Runs
      PROVE  /\ late'[q] <= 1
             /\ late'[q] = 1 => Stopped(q)' /\ ~(worker'.run = q /\ worker'.pc = "charge")
    <2>1. late[q] \in Nat /\ late[q] <= 1 /\ (late[q] = 1 => Stopped(q) /\ ~(worker.run = q /\ worker.pc = "charge"))
        BY DEF CancelStops, TypeOK
    <2>2. CASE late'[q] = late[q]
        <3>1. ASSUME late[q] = 1, worker'.run = q, worker'.pc = "charge" PROVE FALSE
            <4>1. worker.run = q /\ Stopped(q)
                BY <2>1, <3>1, LoopSteps DEF Looping
            <4>2. worker.pc = "next" /\ ~worker.stop /\ worker.batch # {} /\ run[q].status # "CANCELED"
                BY <2>1, <3>1, <4>1, LoopSteps DEF Looping
            <4> QED BY <4>1, <4>2 DEF Stopped, Looping
        <3> QED BY <1>1, <2>1, <2>2, <3>1
    <2>3. CASE late'[q] # late[q]
        <3>1. /\ q = worker.run /\ worker.pc = "charge" /\ recipient[q][worker.of] = "SKIPPED"
              /\ late'[q] = late[q] + 1 /\ worker'.pc = "next"
            <4>1. Charge
                BY <2>3, QuietSteps, ClaimRows, CloseRows, FinishRows, GrabRows, DecideRows DEF WorkerAction, WorkerStep, Quiet
            <4> QED BY <2>3, <4>1, ChargeRows DEF Decided
        <3>2. late[q] = 0
            BY <2>1, <3>1
        <3>3. Stopped(q)
            <4>1. worker.of \in Contacts /\ worker.of \notin Processing(q)
                BY <3>1, JobFields DEF Processing
            <4> QED BY <3>1, <4>1 DEF CancelStops, Looping
        <3> QED BY <1>1, <3>1, <3>2, <3>3
    <2> QED BY <2>2, <2>3
<1>5. worker'.pc \in Looping => worker'.run \in Runs /\ worker'.run = worker.run
    BY LoopSteps, WorkerTypes, JobFields DEF Looping
<1> QED BY <1>2, <1>3, <1>4, <1>5 DEF CancelStops, Looping

\* How a job comes to its last steps.
LEMMA JobEnds ==
    ASSUME TypeOK, Placed, WorkerAction
    PROVE  /\ \A r \in Runs : run'[r].status = "COMPLETED" /\ run[r].status # "COMPLETED" =>
                  r = worker.run /\ worker.pc \in {"close", "finish"} /\ worker'.pc \in {"idle", "consume"}
           /\ worker'.pc \in {"close", "finish", "consume"} => UNCHANGED recipient /\ worker'.run = worker.run
           /\ worker'.pc = "close" =>
                  worker.pc = "close" \/ Planned(worker.run) \cup Processing(worker.run) = {}
           /\ worker'.pc = "finish" => worker.pc = "finish" \/ Planned(worker.run) = {}
           /\ worker'.pc = "consume" => worker.pc \in {"finish", "consume"}
<1>1. ASSUME NEW pc \in Pcs, Step(pc) PROVE worker'.pc = pc /\ worker'.run = worker.run
    BY <1>1, WorkerGoesOn
<1>2. NoJob.pc = "idle"
    BY Rows
<1>3. CASE Claim
    BY <1>1, <1>2, <1>3, ClaimRows DEF Claim, RunWritten, End, Pcs
<1>4. CASE Close
    BY <1>2, <1>4, CloseRows DEF RunWritten, Close
<1>5. CASE Finish
    <2>1. worker.pc \in {"running", "finish", "consume"} /\ UNCHANGED recipient
        BY <1>5, FinishRows
    <2>2. CASE worker.pc = "running"
        BY <1>2, <1>5, <2>2, FinishRows DEF RunWritten
    <2>3. CASE worker.pc = "finish"
        BY <1>1, <1>5, <2>3, FinishRows DEF RunWritten, Pcs
    <2>4. CASE worker.pc = "consume"
        BY <1>2, <1>5, <2>4, FinishRows DEF RunWritten
    <2> QED BY <2>1, <2>2, <2>3, <2>4
<1>6. CASE Unfinished
    BY <1>1, <1>2, <1>6, QuietSteps DEF Unfinished, End, Quiet, Pcs
<1>7. CASE Left
    BY <1>1, <1>7, QuietSteps DEF Left, LeftOver, Quiet, Pcs
<1>8. CASE Grab \/ Again \/ Loop \/ Enqueue \/ Count
    <2>1. worker'.pc \notin {"close", "finish", "consume"}
        BY <1>1, <1>2, <1>8 DEF Grab, Again, Loop, Enqueue, Count, End, Throw, Pcs
    <2>2. UNCHANGED run
        BY <1>8, QuietSteps, GrabRows DEF Quiet
    <2> QED BY <2>1, <2>2
<1>9. CASE WorkerFaults
    BY <1>2, <1>9, QuietSteps DEF WorkerFaults, End, Throw, Quiet
<1>10. CASE worker'.pc \in Looping
    <2>1. UNCHANGED run \/ RunWritten(worker.run, run[worker.run].status) \/ RunWritten(worker.run, "FAILED")
        BY <1>10, LoopSteps DEF Quiet
    <2>2. \A r \in Runs : run'[r].status \in {run[r].status, "FAILED"}
        BY <2>1 DEF RunWritten
    <2> QED BY <1>10, <2>2 DEF Looping
<1>11. ASSUME NEW r \in Runs, Take(r) PROVE Quiet /\ worker'.pc \in {"idle", "claim"}
    BY <1>2, <1>11, QuietSteps, Rows DEF Take, NoJob
<1>12. ASSUME NEW batch \in SUBSET Contacts, Plan(batch) PROVE Quiet /\ worker'.pc \in {"unfinished", "grab"}
    BY <1>12, QuietSteps DEF Plan, TypeOK, WorkerRow
<1>13. ASSUME (\E c \in Contacts : Pick(c)) \/ List \/ Skip \/ Refuse \/ Stop \/ Charge
       PROVE  worker'.pc \in Looping \/ (worker' = NoJob /\ UNCHANGED run)
    BY <1>13, DecideRows, ChargeRows DEF Pick, List, TypeOK, WorkerRow, Decided, Looping
<1> QED BY <1>2, <1>3, <1>4, <1>5, <1>6, <1>7, <1>8, <1>9, <1>10, <1>11, <1>12, <1>13 DEF WorkerAction, WorkerStep, Quiet

LEMMA WorkerCompletes ==
    ASSUME TypeOK, Placed, CompletedUnplanned, WorkerAction
    PROVE  CompletedUnplanned'
<1>1. \A r \in Runs : Planned(r) = {} => Planned(r)' = {}
    BY StatusMoves DEF Planned
<1>2. ASSUME NEW r \in Runs, run'[r].status = "COMPLETED" PROVE Planned(r)' = {}
    BY <1>1, <1>2, JobEnds DEF CompletedUnplanned
<1>3. ASSUME NEW r \in Runs, r = worker'.run, worker'.pc \in {"close", "finish", "consume"}
      PROVE  Planned(r)' = {} /\ (worker'.pc = "close" => Processing(r)' = {})
    <2>1. r = worker.run /\ UNCHANGED recipient
        BY <1>3, JobEnds
    <2>2. Planned(r) = {} /\ (worker'.pc = "close" => Processing(r) = {})
        BY <1>3, <2>1, JobEnds DEF CompletedUnplanned
    <2>3. Processing(r)' = Processing(r)
        BY <2>1 DEF Processing
    <2> QED BY <1>1, <2>2, <2>3
<1>4. ASSUME NEW r \in Runs, r = worker'.run, worker'.pc \notin {"idle", "consume"}
      PROVE  run'[r].status # "COMPLETED"
    <2>1. CASE \E q \in Runs : Take(q)
        <3>1. PICK q \in Runs : Take(q)
            BY <2>1
        <3>2. worker' # NoJob
            BY <1>4, Rows
        <3>3. worker'.run = q /\ run[q].status \in Active /\ UNCHANGED run
            BY <3>1, <3>2, Rows DEF Take, dbVars, NoJob
        <3> QED BY <1>4, <3>3 DEF Active
    <2>2. CASE ~\E q \in Runs : Take(q)
        <3>1. r = worker.run /\ worker.pc \notin {"idle", "consume"}
            <4>1. ASSUME NEW pc \in Pcs, Step(pc) PROVE worker'.pc = pc /\ worker'.run = worker.run
                BY <4>1, WorkerGoesOn
            <4>2. worker' # NoJob
                BY <1>4, Rows
            <4>3. CASE Claim \/ Unfinished \/ Close \/ Grab \/ Left \/ Again \/ Finish \/ Loop \/ Enqueue \/ Count
                BY <1>4, <4>1, <4>2, <4>3 DEF Claim, Unfinished, Close, Grab, Left, Again, Finish, Loop, Enqueue, Count,
                                              End, Throw, Pcs
            <4>4. CASE worker'.pc \in Looping
                BY <1>4, <4>4, LoopSteps DEF Looping
            <4>5. CASE WorkerFaults
                BY <1>4, <4>2, <4>5 DEF WorkerFaults, End, Throw
            <4>6. ASSUME NEW batch \in SUBSET Contacts, Plan(batch) PROVE r = worker.run /\ worker.pc = "plan"
                BY <1>4, <4>6 DEF Plan, TypeOK, WorkerRow
            <4>7. ASSUME (\E c \in Contacts : Pick(c)) \/ List \/ Skip \/ Refuse \/ Stop \/ Charge
                  PROVE  worker'.pc \in Looping
                BY <4>2, <4>7, DecideRows, ChargeRows DEF Pick, List, TypeOK, WorkerRow, Decided, Looping
            <4> QED BY <2>2, <4>3, <4>4, <4>5, <4>6, <4>7 DEF WorkerAction, WorkerStep
        <3>2. run[r].status # "COMPLETED"
            BY <3>1 DEF CompletedUnplanned
        <3> QED BY <1>4, <3>1, <3>2, JobEnds
    <2> QED BY <2>1, <2>2
<1>5. worker'.pc # "idle" => worker'.run \in Runs
    BY WorkerTypes, LaunchAssumption DEF TypeOK, Placed
<1> QED BY <1>2, <1>3, <1>4, <1>5 DEF CompletedUnplanned

LEMMA WorkerAlone ==
    ASSUME TypeOK, Placed, Prepared, Alone, WorkerAction
    PROVE  Alone'
<1>1. UNCHANGED request /\ StartMade' = StartMade
    BY JobMoves, WorkerMakes
<1>2. \A r \in Runs : run'[r].status = "NONE" <=> run[r].status = "NONE"
    <2>1. \A r \in Runs : run[r].status = "NONE" => r # worker.run
        BY LaunchAssumption DEF Prepared, Placed
    <2> QED BY <2>1, OthersKept
<1> QED BY <1>1, <1>2 DEF Alone

\* Alone, the launch finds no contact that has got a message.
LEMMA AloneMessageable ==
    ASSUME TypeOK, Placed, Prepared, QueuedIsMade, Alone, worker.pc = "charge"
    PROVE  Messageable({worker.of})
<1>1. worker.of \in Contacts /\ worker.run \in Runs /\ worker.run \in known
    BY JobFields
<1>2. message[worker.of] # "start"
    BY <1>1 DEF Alone, StartMade
<1>3. ASSUME NEW q \in Runs, message[worker.of] = q PROVE FALSE
    <2>1. recipient[q][worker.of] = "QUEUED"
        BY <1>1, <1>3 DEF QueuedIsMade
    <2>2. run[q].status # "NONE" /\ run[worker.run].status # "NONE"
        BY <1>1, <2>1 DEF Prepared
    <2>3. q = worker.run
        BY <1>1, <2>2 DEF Alone
    <2> QED BY <1>1, <2>1, <2>3 DEF QueuedIsMade, Looping
<1>4. message[worker.of] = "none"
    BY <1>1, <1>2, <1>3 DEF TypeOK
<1> QED BY <1>4 DEF Messageable, Made

\* Where a job is when an action is taken.
LEMMA Guards ==
    /\ Claim => worker.pc = "claim"
    /\ Unfinished => worker.pc = "unfinished"
    /\ Close => worker.pc = "close"
    /\ Grab => worker.pc = "grab"
    /\ List => worker.pc = "list"
    /\ Skip => worker.pc = "skip"
    /\ Refuse \/ Stop \/ Charge => worker.pc = "charge"
    /\ Loop => worker.pc = "next"
    /\ Enqueue => worker.pc = "enqueue"
    /\ Count => worker.pc = "count"
    /\ Left => worker.pc = "left"
    /\ Again => worker.pc = "again"
    /\ Finish => worker.pc \in {"running", "finish", "consume"}
    /\ (\E r \in Runs : Take(r)) => worker = NoJob
    /\ (\E batch \in SUBSET Contacts : Plan(batch)) => worker.pc = "plan"
    /\ (\E c \in Contacts : Pick(c)) => worker.pc = "next" /\ ~worker.stop
BY DEF Claim, Unfinished, Close, Grab, List, Skip, Refuse, Stop, Charge, Loop, Enqueue, Count, Left, Again, Finish,
       Take, Plan, Pick

\* Whose job it is after a step.
LEMMA JobKept ==
    ASSUME TypeOK, Placed, WorkerAction
    PROVE  \/ worker' = NoJob
           \/ worker'.run = worker.run
           \/ \E q \in Runs : Take(q) /\ worker'.run = q /\ run[q].status \in Active
<1>1. ASSUME NEW pc \in Pcs, Step(pc) PROVE worker'.run = worker.run
    BY <1>1, WorkerGoesOn
<1>2. CASE Claim \/ Unfinished \/ Close \/ Grab \/ Left \/ Again \/ Finish
    BY <1>1, <1>2 DEF Claim, Unfinished, Close, Grab, Left, Again, Finish, End, Throw, Pcs
<1>3. CASE Loop \/ Enqueue \/ Count
    BY <1>1, <1>3 DEF Loop, Enqueue, Count, End, Throw, Pcs
<1>4. CASE WorkerFaults
    BY <1>4 DEF WorkerFaults, End, Throw
<1>5. ASSUME NEW batch \in SUBSET Contacts, Plan(batch) PROVE worker'.run = worker.run
    BY <1>5 DEF Plan, TypeOK, WorkerRow
<1>6. CASE (\E c \in Contacts : Pick(c)) \/ List
    BY <1>6 DEF Pick, List, TypeOK, WorkerRow
<1>7. CASE Skip \/ Refuse \/ Stop
    BY <1>7, DecideRows DEF Decided
<1>8. CASE Charge
    BY <1>8, ChargeRows DEF Decided
<1>9. ASSUME NEW q \in Runs, Take(q) PROVE worker' = NoJob \/ (worker'.run = q /\ run[q].status \in Active)
    BY <1>9, Rows DEF Take, NoJob
<1> QED BY <1>2, <1>3, <1>4, <1>5, <1>6, <1>7, <1>8, <1>9 DEF WorkerAction, WorkerStep

\* A loop that stopped is over.
LEMMA StopKept ==
    ASSUME TypeOK, Placed, WorkerAction, worker.stop
    PROVE  /\ Quiet
           /\ worker' = NoJob \/ (worker'.run = worker.run /\ worker'.stop)
<1>1. worker.pc \in {"next", "enqueue", "count"}
    BY DEF Placed
<1>2. worker # NoJob
    BY Rows
<1>3. Loop \/ Enqueue \/ Count \/ WorkerFaults
    BY <1>1, <1>2, Guards DEF WorkerAction, WorkerStep
<1>4. ASSUME NEW pc \in Pcs, Step(pc) PROVE worker'.run = worker.run /\ worker'.stop
    BY <1>4, WorkerGoesOn
<1>5. worker' = NoJob \/ (worker'.run = worker.run /\ worker'.stop)
    <2>1. CASE Loop
        BY <1>4, <2>1 DEF Loop, End, Pcs
    <2>2. CASE Enqueue
        BY <1>4, <2>2 DEF Enqueue, Throw, End, Pcs
    <2>3. CASE Count
        BY <1>4, <2>3 DEF Count, Throw, End, Pcs
    <2>4. CASE WorkerFaults
        BY <2>4 DEF WorkerFaults, Throw, End
    <2> QED BY <1>3, <2>1, <2>2, <2>3, <2>4
<1> QED BY <1>3, <1>5, QuietSteps

LEMMA WorkerHolds ==
    ASSUME TypeOK, Placed, Prepared, QueuedIsMade, Alone, env \subseteq {"cancel", "changes", "quota"},
           \A r \in Runs : InHand(r), WorkerAction
    PROVE  \A r \in Runs : InHand(r)'
<1> SUFFICES ASSUME NEW r \in Runs, Processing(r)' # {} PROVE InHand(r)'
    BY DEF InHand
<1>1. InHand(r) /\ ~WorkerFaults
    BY DEF WorkerFaults, May
<1>2. CASE Grab
    <2>1. r = worker.run => ~worker.stop
        BY <1>2 DEF Placed, Grab
    <2>2. CASE Processing(r) = {}
        <3>1. PICK c \in Contacts : recipient'[r][c] = "PROCESSING"
            BY DEF Processing
        <3>2. recipient[r][c] # "PROCESSING"
            BY <2>2 DEF Processing
        <3>3. r = worker.run /\ c \in worker.batch /\ c \in Planned(r)
            BY <1>2, <3>1, <3>2, GrabRows DEF Planned
        <3>4. worker'.pc = "list" /\ worker'.run = worker.run /\ worker'.batch = worker.batch /\ worker'.stop = worker.stop
            BY <1>2, <3>3, GrabRows, WorkerGoesOn DEF Pcs
        <3>5. \A d \in Processing(r)' : d \in worker.batch
            BY <1>2, <2>2, GrabRows DEF Processing
        <3> QED BY <2>1, <3>3, <3>4, <3>5 DEF InHand
    <2>3. CASE Processing(r) # {}
        <3>1. r \in known' /\ run[r].status = "FAILED" /\ r # worker.run
            BY <1>1, <1>2, <2>1, <2>3, JobMoves DEF InHand, Grab, Looping
        <3>2. run'[r] = run[r] /\ (worker'.run = worker.run \/ worker'.run = NoRun)
            BY <1>2, GrabRows, WorkerGoesOn, Rows DEF Pcs
        <3> QED BY <3>1, <3>2, LaunchAssumption DEF InHand
    <2> QED BY <2>2, <2>3
<1>3. CASE ~Grab
    <2>1. Processing(r)' \subseteq Processing(r) /\ Processing(r) # {}
        BY <1>3, StatusMoves DEF Processing
    <2>2. CASE /\ worker.run = r /\ worker.pc \in Looping \cup {"list"} /\ ~worker.stop
               /\ \A c \in Processing(r) : c \in worker.batch \/ c = worker.of
        <3>1. worker'.pc \in Looping
            <4>1. CASE worker.pc = "next"
                <5>1. worker.batch # {}
                    <6>1. Processing(r) \subseteq Contacts /\ NoContact \notin Contacts /\ worker.of = NoContact
                        BY <4>1, JobFields DEF Processing
                    <6> QED BY <2>1, <2>2, <6>1
                <5>2. ~Loop
                    BY <2>2, <5>1 DEF Loop
                <5>3. \E c \in Contacts : Pick(c)
                    BY <1>1, <1>3, <4>1, <5>2, Guards, Rows DEF WorkerAction, WorkerStep
                <5> QED BY <5>3 DEF Pick, TypeOK, WorkerRow, Looping
            <4>2. CASE worker.pc = "list"
                <5>1. List
                    BY <1>1, <1>3, <4>2, Guards, Rows DEF WorkerAction, WorkerStep
                <5> QED BY <5>1 DEF List, TypeOK, WorkerRow, Looping
            <4>3. CASE worker.pc \in {"charge", "skip"}
                <5>1. Skip \/ Refuse \/ Stop \/ Charge
                    BY <1>1, <1>3, <4>3, Guards, Rows DEF WorkerAction, WorkerStep
                <5>2. worker.pc = "charge" => Messageable({worker.of})
                    BY AloneMessageable
                <5>3. CASE Charge
                    BY <5>2, <5>3, ChargeRows DEF Decided, Looping
                <5> QED BY <5>1, <5>3, DecideRows DEF Decided, Looping
            <4> QED BY <2>2, <4>1, <4>2, <4>3 DEF Looping
        <3>2. worker'.run = r
            BY <2>2, <3>1, LoopSteps
        <3>3. CASE worker'.stop
            <4>1. worker'.pc # "charge" /\ worker'.pc # "skip"
                BY <3>3, WorkerTypes DEF Placed
            <4>2. RunWritten(r, "FAILED")
                BY <2>2, <3>1, <3>3, <4>1, LoopSteps
            <4>3. r \in known'
                BY <2>2, JobFields, JobMoves DEF Looping
            <4> QED BY <3>2, <3>3, <4>2, <4>3 DEF InHand, RunWritten
        <3>4. CASE ~worker'.stop
            <4>1. ASSUME NEW c \in Processing(r)' PROVE c \in worker'.batch \/ c = worker'.of
                <5>1. c \in Processing(r) /\ (c \in worker.batch \/ c = worker.of) /\ c \in Contacts
                    BY <2>1, <2>2, <4>1 DEF Processing
                <5>2. ~(worker.pc \in {"charge", "skip"} /\ c = worker.of /\ worker'.pc = "next")
                    BY <2>2, <3>1, <4>1, LoopSteps DEF Decided, Processing
                <5>3. worker.pc \notin {"charge", "skip"} => c # worker.of
                    BY <5>1, JobFields
                <5> QED BY <2>2, <3>1, <5>1, <5>2, <5>3, LoopSteps
            <4> QED BY <3>1, <3>2, <3>4, <4>1 DEF InHand
        <3> QED BY <3>3, <3>4
    <2>3. CASE r \in known /\ run[r].status = "FAILED" /\ (worker.run = r => worker.stop)
        <3>0. UNCHANGED known
            BY JobMoves
        <3>1. CASE worker.run = r
            BY <2>3, <3>0, <3>1, StopKept, Rows, LaunchAssumption DEF Quiet, InHand
        <3>2. CASE worker.run # r
            <4>1. run'[r] = run[r]
                BY <3>2, OthersKept
            <4>2. worker'.run # r
                BY <2>3, <3>2, JobKept, Rows, LaunchAssumption DEF Active
            <4> QED BY <2>3, <3>0, <4>1, <4>2 DEF InHand
        <3> QED BY <3>1, <3>2
    <2> QED BY <1>1, <2>1, <2>2, <2>3 DEF InHand
<1> QED BY <1>2, <1>3

\* Alone and without a failing call, the worker ends its loop with nothing to
\* enqueue, or enqueues it.
LEMMA WorkerJobs ==
    ASSUME TypeOK, Placed, Prepared, QueuedIsMade, Alone, env \subseteq {"cancel", "changes", "quota", "lock"},
           Queued, WorkerAction
    PROVE  Queued'
<1> DEFINE Sending == Looping \cup {"enqueue"}
<1>1. Made \subseteq jobs \cup (IF worker.pc \in Sending THEN worker.done ELSE {})
    BY DEF Queued
<1>2. /\ ~May("database") /\ ~May("crash") /\ ~May("enqueue")
      /\ WorkerFaults => UNCHANGED worker /\ UNCHANGED jobs
    BY DEF May, WorkerFaults
<1>3. CASE Charge
    <2>1. Messageable({worker.of})
        BY <1>3, Guards, AloneMessageable
    <2>2. worker'.pc = "next" /\ worker'.done = worker.done \cup {worker.of} /\ UNCHANGED jobs
        BY <1>3, <2>1, ChargeRows DEF Decided
    <2>3. Made' \subseteq Made \cup {worker.of} /\ worker.pc = "charge"
        BY <1>3, Guards, WorkerMakes
    <2> QED BY <1>1, <2>2, <2>3 DEF Queued, Looping
<1>4. CASE Enqueue
    <2>1. jobs' = jobs \cup worker.done /\ Made' = Made /\ worker.pc = "enqueue"
        BY <1>2, <1>4, WorkerMakes, Guards DEF Enqueue
    <2> QED BY <1>1, <2>1 DEF Queued
<1>5. CASE ~Charge /\ ~Enqueue
    <2>1. UNCHANGED jobs /\ Made' = Made
        <3>1. Made' = Made
            BY <1>5, WorkerMakes
        <3>2. UNCHANGED jobs
            BY <1>2, <1>5 DEF WorkerAction, WorkerStep, Claim, Unfinished, Close, Grab, List, Skip, Refuse, Stop, Loop,
                Count, Left, Again, Finish, Take, Plan, Pick, dbVars
        <3> QED BY <3>1, <3>2
    <2>2. ASSUME worker.pc \in Sending PROVE (worker'.pc \in Sending /\ worker'.done = worker.done) \/ worker.done = {}
        <3>1. Loop \/ (\E c \in Contacts : Pick(c)) \/ Skip \/ Refuse \/ Stop \/ WorkerFaults
            BY <1>5, <2>2, Guards, Rows DEF WorkerAction, WorkerStep, Looping
        <3>2. CASE Loop
            <4>1. Step("enqueue") \/ worker.done = {}
                BY <3>2 DEF Loop
            <4> QED BY <4>1, WorkerGoesOn DEF Pcs
        <3>3. CASE \E c \in Contacts : Pick(c)
            BY <3>3 DEF Pick, TypeOK, WorkerRow, Looping
        <3>4. CASE Skip \/ Refuse \/ Stop
            BY <3>4, DecideRows DEF Decided, Looping
        <3>5. CASE WorkerFaults
            BY <1>2, <2>2, <3>5
        <3> QED BY <3>1, <3>2, <3>3, <3>4, <3>5
    <2> QED BY <1>1, <2>1, <2>2 DEF Queued
<1> QED BY <1>3, <1>4, <1>5

-----------------------------------------------------------------------------
(* Requests keep the invariant.                                            *)

\* What a request writes: nothing but its own row, unless it is one of these.
Reading(u) ==
    \/ ReserveRead(u) \/ StartRead(u) \/ RequestDies(u)
    \/ \E r \in Runs :
        \/ ConfirmRead(u, r) \/ CancelRead(u, r)
        \/ \E to \in Segments : PrepareRead(u, r, to)

LEMMA ReadingRows ==
    ASSUME NEW u \in Users, Reading(u)
    PROVE  UNCHANGED <<env, opening, dbVars, jobs, queue, known, worker, late>>
BY DEF Reading, ReserveRead, StartRead, RequestDies, ConfirmRead, CancelRead, PrepareRead

LEMMA RequestKinds ==
    ASSUME NEW u \in Users, RequestAction(u)
    PROVE  \/ Reading(u) \/ PrepareCommit(u) \/ ReserveCreate(u) \/ ConfirmWrite(u) \/ ConfirmAdd(u)
           \/ CancelCommit(u) \/ StartCommit(u) \/ StartCount(u)
           \/ \E c \in Contacts : StartEnqueue(u, c)
BY DEF RequestAction, RequestStep, Reading

\* A request begins when its turn comes, and it goes on where it stands.
LEMMA RequestGoesOn ==
    ASSUME TypeOK, Placed, NEW u \in Users, RequestAction(u), request'[u].pc # "idle"
    PROVE  \/ /\ request[u] = NoRequest /\ request'[u].pc \in {"prepare", "balance", "cancel", "start"}
              /\ Reading(u)
              /\ request'[u].pc # "cancel" => Turn(u, request'[u].run)
              /\ request'[u].pc = "prepare" => /\ run[request'[u].run].status = "NONE"
                                               /\ May("rivals") \/ \A q \in Runs : run[q].status = "NONE"
              /\ request'[u].pc = "balance" => run[request'[u].run].status \in {"DRY_RUN_CREATED", "WALLET_RESERVED"}
              /\ request'[u].pc = "cancel" => run[request'[u].run].status \in Active
              /\ request'[u].pc = "start" => /\ May("rivals") /\ draft
                                             /\ request'[u].to = Pending \ Made /\ Pending \ Made # {}
                                             /\ request'[u].size = Cardinality(Pending \ Made)
                                             /\ request'[u].run = NoRun
           \/ /\ request'[u].run = request[u].run /\ request'[u].size = request[u].size
              /\ \/ request[u].pc = "balance" /\ request'[u].pc \in {"reserve", "queue"} /\ ReserveRead(u)
                 \/ request[u].pc = "reserve" /\ request'[u].pc = "mark" /\ ReserveCreate(u)
                 \/ request[u].pc = "mark" /\ request'[u].pc = "queue" /\ ConfirmWrite(u)
                 \/ request[u].pc = "queue" /\ request'[u].pc = "add" /\ ConfirmWrite(u)
                 \/ request[u].pc = "start" /\ request'[u].pc = "enqueue" /\ StartCommit(u)
                    /\ Messageable(request[u].to) /\ Affordable(request[u].size)
                 \/ request[u].pc = "enqueue" /\ request'[u].pc \in {"enqueue", "count"}
                    /\ \E c \in Contacts : StartEnqueue(u, c)
<1>1. ASSUME Done(u) PROVE FALSE
    BY <1>1, RowEnds, Rows
<1>2. ~(RequestDies(u) \/ StartCount(u) \/ ConfirmAdd(u) \/ PrepareCommit(u) \/ CancelCommit(u))
    BY <1>1 DEF RequestDies, StartCount, ConfirmAdd, PrepareCommit, CancelCommit
<1>3. CASE ReserveRead(u) \/ ReserveCreate(u) \/ ConfirmWrite(u) \/ StartCommit(u)
    BY <1>1, <1>3, RowGoesOn DEF ReserveRead, ReserveCreate, ConfirmWrite, StartCommit
<1>4. CASE \E c \in Contacts : StartEnqueue(u, c)
    BY <1>4, RowEnqueues DEF StartEnqueue
<1>5. CASE StartRead(u)
    <2>1. Begin(u, "start", NoRun, Pending \ Made) /\ Pending \ Made \in SUBSET Contacts
        BY <1>5, LaunchAssumption DEF StartRead
    <2>2. request'[u] = [pc |-> "start", run |-> NoRun, to |-> Pending \ Made, size |-> Cardinality(Pending \ Made)]
        BY <2>1, RowBegins
    <2>3. Reading(u)
        BY <1>5 DEF Reading
    <2> QED BY <1>5, <2>2, <2>3 DEF StartRead, Turn
<1>6. ASSUME NEW r \in Runs, ConfirmRead(u, r)
      PROVE  /\ request'[u].pc = "balance" /\ request'[u].run = r /\ Turn(u, r)
             /\ run[r].status \in {"DRY_RUN_CREATED", "WALLET_RESERVED"} /\ Reading(u)
    <2>1. Begin(u, "balance", r, {}) /\ {} \in SUBSET Contacts
        BY <1>6 DEF ConfirmRead
    <2>2. request'[u] = [pc |-> "balance", run |-> r, to |-> {}, size |-> Cardinality({})]
        BY <2>1, RowBegins
    <2> QED BY <1>6, <2>2 DEF ConfirmRead, Reading
<1>7. ASSUME NEW r \in Runs, CancelRead(u, r)
      PROVE  /\ request'[u].pc = "cancel" /\ request'[u].run = r /\ request[u] = NoRequest
             /\ run[r].status \in Active /\ Reading(u)
    <2>1. Begin(u, "cancel", r, {}) /\ {} \in SUBSET Contacts
        BY <1>7 DEF CancelRead
    <2>2. request'[u] = [pc |-> "cancel", run |-> r, to |-> {}, size |-> Cardinality({})]
        BY <2>1, RowBegins
    <2> QED BY <1>7, <2>2 DEF CancelRead, Reading
<1>8. ASSUME NEW r \in Runs, NEW to \in Segments, PrepareRead(u, r, to)
      PROVE  /\ request'[u].pc = "prepare" /\ request'[u].run = r /\ Turn(u, r)
             /\ run[r].status = "NONE" /\ Reading(u)
             /\ May("rivals") \/ \A q \in Runs : run[q].status = "NONE"
    <2>1. Begin(u, "prepare", r, to) /\ to \in SUBSET Contacts
        BY <1>8, LaunchAssumption DEF PrepareRead
    <2>2. request'[u] = [pc |-> "prepare", run |-> r, to |-> to, size |-> Cardinality(to)]
        BY <2>1, RowBegins
    <2> QED BY <1>8, <2>2 DEF PrepareRead, Reading
<1>9. ASSUME NEW r \in Runs, Turn(u, r) PROVE request[u] = NoRequest
    BY <1>9 DEF Turn
<1> QED BY <1>2, <1>3, <1>4, <1>5, <1>6, <1>7, <1>8, <1>9 DEF RequestAction, RequestStep

\* A request that ends leaves no row.
LEMMA RequestEnds ==
    ASSUME TypeOK, Placed, NEW u \in Users, RequestAction(u), request'[u].pc = "idle"
    PROVE  request'[u] = NoRequest
<1>1. ASSUME Done(u) PROVE request'[u] = NoRequest
    BY <1>1, RowEnds
<1>2. CASE Reading(u) /\ ~ReserveRead(u) /\ ~RequestDies(u)
    <2>1. ASSUME NEW pc \in {"prepare", "balance", "cancel", "start"}, NEW r \in Runs \cup {NoRun},
                 NEW to \in SUBSET Contacts, Begin(u, pc, r, to)
          PROVE  FALSE
        <3>1. request'[u] = [pc |-> pc, run |-> r, to |-> to, size |-> Cardinality(to)]
            BY <2>1, RowBegins
        <3> QED BY <3>1
    <2>2. ASSUME StartRead(u) PROVE FALSE
        <3>1. Begin(u, "start", NoRun, Pending \ Made) /\ Pending \ Made \in SUBSET Contacts
            BY <2>2, LaunchAssumption DEF StartRead
        <3> QED BY <2>1, <3>1
    <2>3. ASSUME NEW r \in Runs, ConfirmRead(u, r) PROVE FALSE
        BY <2>1, <2>3 DEF ConfirmRead
    <2>4. ASSUME NEW r \in Runs, CancelRead(u, r) PROVE FALSE
        BY <2>1, <2>4 DEF CancelRead
    <2>5. ASSUME NEW r \in Runs, NEW to \in Segments, PrepareRead(u, r, to) PROVE FALSE
        <3>1. Begin(u, "prepare", r, to) /\ to \in SUBSET Contacts
            BY <2>5, LaunchAssumption DEF PrepareRead
        <3> QED BY <2>1, <3>1
    <2> QED BY <1>2, <2>2, <2>3, <2>4, <2>5 DEF Reading
<1>3. CASE ReserveRead(u) \/ ReserveCreate(u) \/ ConfirmWrite(u) \/ StartCommit(u)
    BY <1>1, <1>3, RowGoesOn DEF ReserveRead, ReserveCreate, ConfirmWrite, StartCommit
<1>4. CASE \E c \in Contacts : StartEnqueue(u, c)
    BY <1>4, RowEnqueues
<1>5. CASE RequestDies(u) \/ StartCount(u) \/ ConfirmAdd(u) \/ PrepareCommit(u) \/ CancelCommit(u)
    BY <1>1, <1>5 DEF RequestDies, StartCount, ConfirmAdd, PrepareCommit, CancelCommit
<1> QED BY <1>2, <1>3, <1>4, <1>5, RequestKinds

\* The rows of a launch that a request writes.
LEMMA RequestWrites ==
    ASSUME TypeOK, Placed, NEW u \in Users, RequestAction(u), NEW r \in Runs
    PROVE  \/ run'[r].status = run[r].status /\ recipient'[r] = recipient[r]
           \/ /\ r = request[u].run /\ PrepareCommit(u) /\ run[r].status = "NONE"
              /\ run'[r].status = "DRY_RUN_CREATED"
              /\ \A c \in Contacts : recipient'[r][c] \in {"PLANNED", "NONE"}
           \/ /\ r = request[u].run /\ ConfirmWrite(u) /\ recipient'[r] = recipient[r]
              /\ \/ request[u].pc = "mark" /\ run'[r].status = "WALLET_RESERVED"
                 \/ request[u].pc = "queue" /\ run'[r].status = "QUEUING"
           \/ /\ r = request[u].run /\ CancelCommit(u) /\ run'[r].status = "CANCELED"
              /\ \A c \in Contacts : recipient'[r][c] =
                    IF recipient[r][c] \in {"PLANNED", "PROCESSING"} THEN "SKIPPED" ELSE recipient[r][c]
<1>1. /\ run \in [Runs -> RunRow] /\ recipient \in [Runs -> [Contacts -> RecipientStatus]]
      /\ request[u].pc \in OfRun => request[u].run \in Runs
    BY DEF TypeOK, Placed
<1>2. CASE UNCHANGED <<run, recipient>>
    BY <1>2
<1>3. CASE PrepareCommit(u) /\ ~UNCHANGED <<run, recipient>>
    <2>1. /\ request[u].run \in Runs /\ run[request[u].run].status = "NONE"
          /\ run' = [run EXCEPT ![request[u].run] = [run[request[u].run] EXCEPT
                        !.status = "DRY_RUN_CREATED", !.estimate = request[u].size]]
          /\ recipient' = [recipient EXCEPT ![request[u].run] =
                 [c \in Contacts |-> IF c \in request[u].to THEN "PLANNED" ELSE "NONE"]]
        BY <1>1, <1>3 DEF PrepareCommit, OfRun
    <2>2. run[request[u].run] \in RunRow
        BY <1>1, <2>1
    <2>3. [run[request[u].run] EXCEPT !.status = "DRY_RUN_CREATED", !.estimate = request[u].size].status = "DRY_RUN_CREATED"
        BY <2>2 DEF RunRow
    <2> QED BY <1>1, <1>3, <2>1, <2>3
<1>4. CASE ReserveCreate(u)
    <2>1. /\ request[u].run \in Runs /\ UNCHANGED recipient
          /\ run' = [run EXCEPT ![request[u].run] = [run[request[u].run] EXCEPT !.reserved = "RESERVED"]]
        BY <1>1, <1>4 DEF ReserveCreate, OfRun
    <2>2. run[request[u].run] \in RunRow
        BY <1>1, <2>1
    <2>3. [run[request[u].run] EXCEPT !.reserved = "RESERVED"].status = run[request[u].run].status
        BY <2>2 DEF RunRow
    <2> QED BY <1>1, <2>1, <2>3
<1>5. CASE ConfirmWrite(u)
    <2>1. UNCHANGED recipient /\ request[u].run \in Runs
        BY <1>1, <1>5 DEF ConfirmWrite, OfRun
    <2>2. CASE request[u].pc = "mark"
        <3>1. RunWritten(request[u].run, "WALLET_RESERVED")
            BY <1>5, <2>1, <2>2, RunStatus DEF ConfirmWrite, Active
        <3> QED BY <1>5, <2>1, <2>2, <3>1 DEF RunWritten
    <2>3. CASE request[u].pc = "queue"
        <3>1. RunWritten(request[u].run, "QUEUING")
            BY <1>5, <2>1, <2>3, RunStatus DEF ConfirmWrite, Active
        <3> QED BY <1>5, <2>1, <2>3, <3>1 DEF RunWritten
    <2> QED BY <1>5, <2>2, <2>3 DEF ConfirmWrite
<1>6. CASE CancelCommit(u)
    <2>1. request[u].run \in Runs
        BY <1>1, <1>6 DEF CancelCommit, OfRun
    <2>2. RunWritten(request[u].run, "CANCELED")
        BY <1>6, <2>1, RunStatus DEF CancelCommit
    <2>3. recipient' = [recipient EXCEPT ![request[u].run] = [c \in Contacts |->
              IF recipient[request[u].run][c] \in {"PLANNED", "PROCESSING"} THEN "SKIPPED"
              ELSE recipient[request[u].run][c]]]
        BY <1>1, <1>6, <2>1 DEF CancelCommit
    <2> QED BY <1>1, <1>6, <2>1, <2>2, <2>3 DEF RunWritten
<1>7. CASE Reading(u)
    BY <1>2, <1>7, ReadingRows DEF dbVars
<1>8. CASE ConfirmAdd(u) \/ StartCommit(u) \/ StartCount(u) \/ \E c \in Contacts : StartEnqueue(u, c)
    BY <1>2, <1>8 DEF ConfirmAdd, StartCommit, StartCount, StartEnqueue, dbVars
<1> QED BY <1>2, <1>3, <1>4, <1>5, <1>6, <1>7, <1>8, RequestKinds

\* Only a start makes messages, and only for contacts that have none.
LEMMA RequestMakes ==
    ASSUME TypeOK, Placed, NEW u \in Users, RequestAction(u)
    PROVE  /\ draft' \in {FALSE, draft} /\ jobs \subseteq jobs'
           /\ \/ UNCHANGED <<message, balance>> /\ Made' = Made /\ StartMade' = StartMade
              \/ /\ StartCommit(u) /\ request[u].pc = "start" /\ request'[u].pc = "enqueue" /\ draft' = FALSE
                 /\ Messageable(request[u].to) /\ Affordable(request[u].size)
                 /\ balance' = balance - request[u].size
                 /\ message' = [c \in Contacts |-> IF c \in request[u].to THEN "start" ELSE message[c]]
                 /\ Made' = Made \cup request[u].to /\ StartMade' = StartMade \cup request[u].to
                 /\ request[u].to \subseteq Contacts
<1>1. CASE Reading(u) \/ PrepareCommit(u) \/ ReserveCreate(u) \/ ConfirmWrite(u) \/ ConfirmAdd(u) \/ CancelCommit(u)
           \/ StartCount(u) \/ \E c \in Contacts : StartEnqueue(u, c)
    <2>1. UNCHANGED <<message, balance>> /\ draft' \in {FALSE, draft} /\ jobs \subseteq jobs'
        BY <1>1, ReadingRows DEF PrepareCommit, ReserveCreate, ConfirmWrite, ConfirmAdd, CancelCommit, StartCount,
            StartEnqueue, dbVars
    <2> QED BY <2>1 DEF Made, StartMade
<1>2. CASE StartCommit(u) /\ ~(Messageable(request[u].to) /\ Affordable(request[u].size))
    <2>1. UNCHANGED <<message, balance, draft, jobs>>
        BY <1>2 DEF StartCommit
    <2> QED BY <2>1 DEF Made, StartMade
<1>3. CASE StartCommit(u) /\ Messageable(request[u].to) /\ Affordable(request[u].size)
    <2>1. request[u].pc = "start" /\ Goto(u, "enqueue") /\ draft' = FALSE /\ UNCHANGED jobs
          /\ balance' = balance - request[u].size
          /\ message' = [c \in Contacts |-> IF c \in request[u].to THEN "start" ELSE message[c]]
        BY <1>3 DEF StartCommit
    <2>2. request'[u].pc = "enqueue"
        BY <2>1, RowGoesOn
    <2>3. request[u].to \subseteq Contacts
        BY DEF TypeOK, RequestRow
    <2>4. Made' = Made \cup request[u].to
        BY <2>1, <2>3 DEF Made
    <2>5. StartMade' = StartMade \cup request[u].to
        BY <2>1, <2>3 DEF StartMade
    <2> QED BY <1>3, <2>1, <2>2, <2>3, <2>4, <2>5
<1> QED BY <1>1, <1>2, <1>3, RequestKinds

LEMMA RequestPrepares ==
    ASSUME TypeOK, Placed, Prepared, NEW u \in Users, RequestAction(u)
    PROVE  Prepared'
<1> SUFFICES ASSUME NEW r \in Runs, run'[r].status = "NONE"
             PROVE  /\ r \notin known'
                    /\ \A c \in Contacts : recipient'[r][c] = "NONE"
                    /\ \A v \in Users : request'[v].run = r => request'[v].pc = "prepare"
    BY DEF Prepared
<1>1. run[r].status = "NONE" /\ recipient'[r] = recipient[r]
    BY RequestWrites
<1>2. /\ r \notin known /\ \A c \in Contacts : recipient[r][c] = "NONE"
      /\ \A v \in Users : request[v].run = r => request[v].pc = "prepare"
    BY <1>1 DEF Prepared
<1>3. r \notin known'
    <2>1. UNCHANGED known \/ (ConfirmAdd(u) /\ request[u].pc = "add" /\ known' = known \cup {request[u].run})
        BY RequestKinds, ReadingRows DEF PrepareCommit, ReserveCreate, ConfirmWrite, ConfirmAdd, CancelCommit,
            StartCommit, StartCount, StartEnqueue
    <2> QED BY <1>2, <2>1
<1>4. request'[u].run = r => request'[u].pc = "prepare"
    <2>1. CASE request'[u].pc = "idle"
        BY <2>1, RequestEnds, Rows, LaunchAssumption
    <2>2. CASE request'[u].pc # "idle"
        BY <1>1, <1>2, <2>2, RequestGoesOn, LaunchAssumption DEF Active
    <2> QED BY <2>1, <2>2
<1> QED BY <1>1, <1>2, <1>3, <1>4, RequestMoves

\* Nobody becomes queued or unqueued by a request.
LEMMA RequestQueues ==
    ASSUME TypeOK, Placed, Prepared, QueuedIsMade, NEW u \in Users, RequestAction(u)
    PROVE  QueuedIsMade'
<1>1. \A r \in Runs, c \in Contacts : recipient'[r][c] = "QUEUED" <=> recipient[r][c] = "QUEUED"
    BY RequestWrites DEF Prepared
<1>2. \A c \in Contacts, r \in Runs : message'[c] = r <=> message[c] = r
    <2>1. ASSUME Messageable(request[u].to),
                 message' = [c \in Contacts |-> IF c \in request[u].to THEN "start" ELSE message[c]]
          PROVE  \A c \in Contacts, r \in Runs : message'[c] = r <=> message[c] = r
        BY <2>1, JobFields DEF Messageable, Made
    <2> QED BY <2>1, RequestMakes
<1>3. UNCHANGED worker
    BY RequestMoves
<1>4. /\ worker.pc # "idle" => worker.run \in Runs
      /\ worker.done \subseteq Contacts
      /\ worker.pc = "idle" => worker.done = {}
    BY JobFields, Rows
<1>5. worker.of \notin worker.batch
    BY DEF QueuedIsMade
<1>6. worker.pc \in Looping =>
        \A c \in Contacts : c \in worker.batch \/ c = worker.of => recipient'[worker.run][c] # "QUEUED"
    BY <1>1, <1>4 DEF QueuedIsMade, Looping
<1>7. \A c \in worker.done : message'[c] = worker.run
    BY <1>2, <1>4 DEF QueuedIsMade
<1>8. \A r \in Runs, c \in Contacts : message'[c] = r <=> recipient'[r][c] = "QUEUED"
    BY <1>1, <1>2 DEF QueuedIsMade
<1> QED BY <1>3, <1>5, <1>6, <1>7, <1>8 DEF QueuedIsMade

\* One start gets through.
LEMMA RequestStarts ==
    ASSUME TypeOK, Placed, StartsOnce, NEW u \in Users, RequestAction(u)
    PROVE  StartsOnce'
<1> DEFINE Waits(v) == request[v].pc = "start" =>
               /\ request[v].to # {} /\ request[v].to \subseteq Pending
               /\ Pending \ Made \subseteq request[v].to
               /\ request[v].size = Cardinality(request[v].to)
               /\ StartMade # {} => request[v].to \cap Made # {}
           Sized(v) == Started(v) => StartMade # {} /\ request[v].size = Cardinality(StartMade)
<1>0. /\ \A v \in Users : Waits(v) /\ Sized(v) /\ \A w \in Users : Started(v) /\ Started(w) => v = w
      /\ StartMade # {} => ~draft
    BY DEF StartsOnce
<1>1. \A v \in Users \ {u} : request'[v] = request[v]
    BY RequestMoves
<1>2. request'[u].pc = "start" => /\ request'[u].to = Pending \ Made /\ request'[u].to # {} /\ draft /\ Reading(u)
                                  /\ request'[u].size = Cardinality(request'[u].to)
    BY RequestGoesOn
<1>3. Started(u)' => \/ Started(u) /\ request'[u].size = request[u].size /\ request[u].pc = "enqueue"
                     \/ StartCommit(u) /\ Messageable(request[u].to) /\ request'[u].size = request[u].size
                        /\ request[u].pc = "start" /\ Affordable(request[u].size)
    BY RequestGoesOn DEF Started
<1>4. CASE UNCHANGED message /\ Made' = Made /\ StartMade' = StartMade
    <2>1. ~(StartCommit(u) /\ Messageable(request[u].to) /\ Affordable(request[u].size))
        <3>1. ASSUME StartCommit(u), Messageable(request[u].to), Affordable(request[u].size) PROVE FALSE
            <4>1. request[u].pc = "start"
                  /\ message' = [c \in Contacts |-> IF c \in request[u].to THEN "start" ELSE message[c]]
                BY <3>1 DEF StartCommit
            <4>2. request[u].to # {} /\ request[u].to \subseteq Contacts /\ request[u].to \cap Made = {}
                BY <1>0, <3>1, <4>1, LaunchAssumption DEF Messageable
            <4> QED BY <1>4, <4>1, <4>2 DEF Made
        <3> QED BY <3>1
    <2>2. Waits(u)' /\ (StartMade' # {} => ~draft')
        BY <1>0, <1>2, <1>4, RequestMakes
    <2>3. Sized(u)' /\ (Started(u)' => Started(u))
        BY <1>0, <1>3, <1>4, <2>1
    <2>4. ASSUME NEW v \in Users PROVE Waits(v)' /\ Sized(v)' /\ (Started(v)' => Started(v))
        <3>1. CASE v = u
            BY <2>2, <2>3, <3>1
        <3>2. CASE v # u
            BY <1>0, <1>1, <1>4, <3>2 DEF Started
        <3> QED BY <3>1, <3>2
    <2> QED BY <1>0, <2>2, <2>4 DEF StartsOnce
<1>5. CASE /\ StartCommit(u) /\ request[u].pc = "start" /\ request'[u].pc = "enqueue" /\ draft' = FALSE
           /\ Messageable(request[u].to)
           /\ Made' = Made \cup request[u].to /\ StartMade' = StartMade \cup request[u].to
    <2>1. /\ StartMade = {} /\ request[u].to # {} /\ request[u].to \subseteq Pending \ Made
          /\ StartMade' = request[u].to /\ request'[u].size = Cardinality(request[u].to)
        <3>1. request'[u].size = request[u].size
            BY <1>5, RequestGoesOn
        <3> QED BY <1>0, <1>5, <3>1 DEF Messageable
    <2>2. \A v \in Users : ~Started(v)
        BY <1>0, <2>1
    <2>3. ASSUME NEW v \in Users
          PROVE  Waits(v)' /\ Sized(v)' /\ (Started(v)' => v = u)
        <3>1. CASE v = u
            BY <1>5, <2>1, <3>1
        <3>2. CASE v # u
            <4>1. request'[v] = request[v] /\ ~Started(v)'
                BY <1>1, <2>2, <3>2 DEF Started
            <4>2. ASSUME request[v].pc = "start"
                  PROVE  Pending \ Made' \subseteq request[v].to /\ request[v].to \cap Made' # {}
                BY <1>0, <1>5, <2>1, <4>2
            <4> QED BY <1>0, <4>1, <4>2
        <3> QED BY <3>1, <3>2
    <2> QED BY <1>5, <2>3 DEF StartsOnce
<1> QED BY <1>4, <1>5, RequestMakes

\* What a start takes is charged at once, and counted at once.
LEMMA RequestAccounts ==
    ASSUME TypeOK, Placed, QueuedIsMade, StartsOnce, Accounts, NEW u \in Users, RequestAction(u)
    PROVE  Accounts'
<1> DEFINE Opened == IF \E v \in Users : Started(v) THEN StartMade ELSE {}
           Held == IF worker.pc \in Charged THEN worker.done ELSE {}
<1>1. /\ UNCHANGED <<worker, opening, env>> /\ \A v \in Users \ {u} : request'[v] = request[v]
      /\ Held' = Held /\ Uncounted = Opened \cup Held /\ Uncounted' = Opened' \cup Held
    BY RequestMoves DEF Uncounted
<1>2. /\ balance + Cardinality(Made) = opening /\ used <= Cardinality(Made \ Uncounted)
      /\ May("quota") => used <= Limit
      /\ balance \in Nat /\ used \in Nat
    BY DEF Accounts, TypeOK
<1>3. /\ IsFiniteSet(Made) /\ IsFiniteSet(Made \ Uncounted) /\ Made \subseteq Contacts
      /\ IsFiniteSet(StartMade) /\ StartMade \subseteq Made
      /\ Cardinality(Made) \in Nat /\ Cardinality(Made \ Uncounted) \in Nat /\ Cardinality(StartMade) \in Nat
    <2>1. StartMade \subseteq Made /\ Made \subseteq Contacts
        BY LaunchAssumption DEF StartMade, Made
    <2> QED BY <2>1, Counting
<1>4. Held \cap StartMade = {}
    <2>1. /\ worker.done # {} => worker.run \in Runs
          /\ "start" \notin Runs
        BY JobFields, Rows
    <2> QED BY <2>1 DEF QueuedIsMade, StartMade
<1>5. \A v, w \in Users : Started(v) /\ Started(w) => v = w
    BY DEF StartsOnce
<1>6. CASE UNCHANGED <<balance, used>> /\ Made' = Made /\ Opened' \subseteq Opened
    <2>1. Made \ Uncounted \subseteq Made \ Uncounted' /\ IsFiniteSet(Made \ Uncounted') /\ Cardinality(Made \ Uncounted') \in Nat
        BY <1>1, <1>3, <1>6, Counting
    <2>2. Cardinality(Made \ Uncounted) <= Cardinality(Made \ Uncounted')
        BY <2>1, FS_Subset
    <2> QED BY <1>1, <1>2, <1>3, <1>6, <2>1, <2>2 DEF Accounts, May
<1>7. CASE /\ StartCommit(u) /\ request[u].pc = "start" /\ Messageable(request[u].to)
           /\ request'[u].pc = "enqueue"
           /\ Affordable(request[u].size) /\ balance' = balance - request[u].size
           /\ Made' = Made \cup request[u].to /\ StartMade' = StartMade \cup request[u].to
           /\ request[u].to \subseteq Contacts
    <2>1. /\ StartMade = {} /\ request[u].size = Cardinality(request[u].to) /\ request[u].to \cap Made = {}
          /\ \A v \in Users : ~Started(v)
        BY <1>7 DEF StartsOnce, Messageable
    <2>2. UNCHANGED used
        BY <1>7 DEF StartCommit
    <2>3. Started(u)'
        BY <1>7 DEF Started
    <2>4. Opened = {} /\ Opened' = request[u].to
        BY <1>7, <2>1, <2>3
    <2>5. Made' \ Uncounted' = Made \ Uncounted
        BY <1>1, <1>7, <2>1, <2>4
    <2>6. Cardinality(Made') = Cardinality(Made) + request[u].size /\ request[u].size \in Nat
        <3>1. IsFiniteSet(request[u].to) /\ Cardinality(request[u].to) \in Nat
            BY <1>7, Counting
        <3>2. Made \cap request[u].to = {} /\ Cardinality({}) = 0
            BY <2>1, FS_EmptySet
        <3>3. Cardinality(Made \cup request[u].to) = Cardinality(Made) + Cardinality(request[u].to) - Cardinality(Made \cap request[u].to)
            BY <1>3, <3>1, FS_Union
        <3>4. Cardinality(Made \cap request[u].to) = 0
            BY <3>2
        <3>5. Cardinality(Made') = Cardinality(Made \cup request[u].to)
            BY <1>7
        <3> QED BY <1>3, <2>1, <3>1, <3>3, <3>4, <3>5
    <2>7. balance' + Cardinality(Made') = opening
        BY <1>2, <1>3, <1>7, <2>6
    <2> QED BY <1>1, <1>2, <2>2, <2>5, <2>7 DEF Accounts, May
<1>8. CASE StartCount(u) /\ ~UNCHANGED used
    <2>1. /\ used' = used + request[u].size /\ QuotaLeft(request[u].size) /\ Started(u)
          /\ UNCHANGED <<balance, message>> /\ Done(u)
        BY <1>8 DEF StartCount, Started
    <2>2. request[u].size = Cardinality(StartMade)
        BY <2>1 DEF StartsOnce
    <2>3. \A v \in Users : ~Started(v)'
        BY <1>1, <1>5, <2>1, RowEnds, Rows DEF Started
    <2>4. Opened = StartMade /\ Opened' = {} /\ Made' = Made
        BY <2>1, <2>3 DEF Made
    <2>5. Made \ Uncounted' = (Made \ Uncounted) \cup StartMade /\ (Made \ Uncounted) \cap StartMade = {}
        BY <1>1, <1>3, <1>4, <2>4
    <2>6. Cardinality(Made \ Uncounted') = Cardinality(Made \ Uncounted) + Cardinality(StartMade)
        <3>1. Cardinality((Made \ Uncounted) \cap StartMade) = 0
            BY <2>5, FS_EmptySet
        <3>2. Cardinality((Made \ Uncounted) \cup StartMade) = Cardinality(Made \ Uncounted) + Cardinality(StartMade)
                - Cardinality((Made \ Uncounted) \cap StartMade)
            BY <1>3, FS_Union
        <3> QED BY <1>3, <2>5, <3>1, <3>2
    <2> QED BY <1>1, <1>2, <1>3, <2>1, <2>2, <2>4, <2>6 DEF Accounts, QuotaLeft, May
<1>9. CASE Made' = Made /\ StartMade' = StartMade /\ UNCHANGED <<message, balance>> /\ UNCHANGED used
    <2>1. Started(u)' => Started(u) \/ (StartCommit(u) /\ Messageable(request[u].to) /\ Affordable(request[u].size)
                                          /\ request[u].pc = "start")
        BY RequestGoesOn DEF Started
    <2>2. ASSUME StartCommit(u), Messageable(request[u].to), Affordable(request[u].size), request[u].pc = "start"
          PROVE  FALSE
        <3>1. message' = [c \in Contacts |-> IF c \in request[u].to THEN "start" ELSE message[c]]
            BY <2>2 DEF StartCommit
        <3>2. request[u].to # {} /\ request[u].to \subseteq Contacts /\ request[u].to \cap Made = {}
            BY <2>2, LaunchAssumption DEF Messageable, StartsOnce
        <3> QED BY <1>9, <3>1, <3>2 DEF Made
    <2>3. \A v \in Users : Started(v)' => Started(v)
        BY <1>1, <2>1, <2>2 DEF Started
    <2>4. Opened' \subseteq Opened
        BY <1>9, <2>3
    <2> QED BY <1>6, <1>9, <2>4
<1>10. UNCHANGED used \/ StartCount(u)
    BY RequestKinds, ReadingRows DEF PrepareCommit, ReserveCreate, ConfirmWrite, ConfirmAdd, CancelCommit, StartCommit,
        StartEnqueue, dbVars
<1>11. StartCount(u) => UNCHANGED message
    BY DEF StartCount
<1> QED BY <1>7, <1>8, <1>9, <1>10, RequestMakes

\* Without repeated requests, a run is confirmed by one request at most.
LEMMA RequestConfirms ==
    ASSUME TypeOK, Placed, Prepared, ConfirmedOnce, "again" \notin env, NEW u \in Users, RequestAction(u)
    PROVE  ConfirmedOnce'
<1>1. /\ \A v \in Users \ {u} : request'[v] = request[v]
      /\ known' \subseteq Runs /\ \A v \in Users : Confirming(v) => request[v].run \in Runs
    BY RequestMoves, RequestTypes DEF TypeOK, Placed, Confirming, OfRun
<1>2. ASSUME NEW v \in Users, Confirming(v)
      PROVE  /\ request[v].pc # "add" => request[v].run \notin known
             /\ request[v].pc = "add" => run[request[v].run].status \notin Unconfirmed
             /\ run[request[v].run].status # "NONE"
             /\ \A w \in Users : Confirming(w) /\ request[w].run = request[v].run => v = w
    BY <1>1, <1>2 DEF ConfirmedOnce, Prepared, Confirming
<1>3. \/ UNCHANGED known
      \/ ConfirmAdd(u) /\ request[u].pc = "add" /\ known' = known \cup {request[u].run} /\ Done(u)
    BY RequestKinds, ReadingRows DEF PrepareCommit, ReserveCreate, ConfirmWrite, ConfirmAdd, CancelCommit,
        StartCommit, StartCount, StartEnqueue
\* Whom a request has confirmed stays so.
<1>4. ASSUME NEW r \in Runs, run[r].status \notin Unconfirmed,
             ~(request[u].pc = "mark" /\ request[u].run = r)
      PROVE  run'[r].status \notin Unconfirmed
    BY <1>4, RequestWrites DEF Unconfirmed
<1>5. ASSUME NEW r \in known' PROVE run'[r].status \notin Unconfirmed
    <2>1. run[r].status \notin Unconfirmed
        <3>1. r \in known \/ (request[u].pc = "add" /\ r = request[u].run)
            BY <1>3
        <3> QED BY <1>2, <3>1 DEF ConfirmedOnce, Confirming
    <2>2. ~(request[u].pc = "mark" /\ request[u].run = r)
        <3>1. request[u].pc # "add" => r \in known
            BY <1>3
        <3> QED BY <1>2, <3>1 DEF Confirming
    <2> QED BY <1>1, <1>4, <2>1, <2>2
<1>6. CASE ~Confirming(u)'
    <2>1. ASSUME NEW v \in Users, Confirming(v)'
          PROVE  v # u /\ request'[v] = request[v] /\ Confirming(v)
        BY <1>1, <1>6, <2>1 DEF Confirming
    <2>2. ASSUME NEW v \in Users, Confirming(v)', request[v].pc # "add" PROVE request[v].run \notin known'
        BY <1>2, <1>3, <2>1, <2>2 DEF Confirming
    <2>3. ASSUME NEW v \in Users, Confirming(v)', request[v].pc = "add"
          PROVE  run'[request[v].run].status \notin Unconfirmed
        BY <1>1, <1>2, <1>4, <2>1, <2>3 DEF Confirming
    <2> QED BY <1>2, <1>5, <2>1, <2>2, <2>3 DEF ConfirmedOnce
<1>7. CASE Confirming(u)' /\ request[u] # NoRequest
    <2>1. /\ Confirming(u) /\ request'[u].run = request[u].run /\ request[u].pc # "add"
          /\ request'[u].pc = "add" => ConfirmWrite(u) /\ request[u].pc = "queue"
        BY <1>7, RequestGoesOn DEF Confirming
    <2>2. UNCHANGED known
        BY <1>3, <2>1
    <2>3. request'[u].pc = "add" => run'[request[u].run].status \notin Unconfirmed
        <3>1. ASSUME request'[u].pc = "add" PROVE run'[request[u].run].status = "QUEUING"
            <4>1. request[u].run \in Runs /\ run' = [run EXCEPT ![request[u].run].status = "QUEUING"]
                BY <1>1, <2>1, <3>1 DEF ConfirmWrite
            <4>2. RunWritten(request[u].run, "QUEUING")
                BY <4>1, RunStatus DEF Active
            <4> QED BY <4>2 DEF RunWritten
        <3> QED BY <3>1 DEF Unconfirmed
    <2>4. ASSUME NEW v \in Users, Confirming(v)'
          PROVE  Confirming(v) /\ request'[v].run = request[v].run
        BY <1>1, <2>1, <2>4 DEF Confirming
    <2>5. ASSUME NEW v \in Users, Confirming(v)'
          PROVE  /\ request'[v].pc # "add" => request'[v].run \notin known'
                 /\ request'[v].pc = "add" => run'[request'[v].run].status \notin Unconfirmed
        <3>1. CASE v = u
            BY <1>2, <2>1, <2>2, <2>3, <3>1
        <3>2. CASE v # u
            <4>1. request'[v] = request[v] /\ ~(request[u].pc = "mark" /\ request[u].run = request[v].run)
                BY <1>1, <1>2, <2>1, <2>4, <2>5, <3>2
            <4> QED BY <1>1, <1>2, <1>4, <2>2, <2>4, <2>5, <4>1
        <3> QED BY <3>1, <3>2
    <2> QED BY <1>2, <1>5, <2>4, <2>5 DEF ConfirmedOnce
<1>8. CASE Confirming(u)' /\ request[u] = NoRequest
    <2>1. /\ request'[u].pc = "balance" /\ Turn(u, request'[u].run) /\ Reading(u)
          /\ run[request'[u].run].status \in {"DRY_RUN_CREATED", "WALLET_RESERVED"}
        BY <1>8, RequestGoesOn, Rows DEF Confirming
    <2>2. request'[u].run \in Runs /\ NoRun \notin Runs
        BY <2>1, RequestMoves, LaunchAssumption DEF OfRun
    <2>3. \A v \in Users \ {u} : Confirming(v) => request[v].run # request'[u].run
        BY <2>1, <2>2, Rows DEF Turn, May, Confirming
    <2>4. UNCHANGED <<known, run>>
        BY <2>1, ReadingRows DEF dbVars
    <2>5. request'[u].run \notin known
        BY <2>1 DEF ConfirmedOnce, Unconfirmed
    <2>6. ASSUME NEW v \in Users, v # u, Confirming(v)'
          PROVE  Confirming(v) /\ request'[v] = request[v]
        BY <1>1, <2>6 DEF Confirming
    <2>7. ASSUME NEW v \in Users, Confirming(v)'
          PROVE  /\ request'[v].pc # "add" => request'[v].run \notin known'
                 /\ request'[v].pc = "add" => run'[request'[v].run].status \notin Unconfirmed
        <3>1. CASE v = u
            BY <2>1, <2>4, <2>5, <3>1
        <3>2. CASE v # u
            BY <1>2, <2>4, <2>6, <2>7, <3>2
        <3> QED BY <3>1, <3>2
    <2>8. ASSUME NEW v \in Users, NEW w \in Users, Confirming(v)', Confirming(w)', request'[w].run = request'[v].run
          PROVE  v = w
        <3>1. CASE v = u /\ w # u
            BY <2>3, <2>6, <2>8, <3>1
        <3>2. CASE v # u /\ w = u
            BY <2>3, <2>6, <2>8, <3>2
        <3>3. CASE v # u /\ w # u
            BY <1>2, <2>6, <2>8, <3>3
        <3> QED BY <3>1, <3>2, <3>3
    <2> QED BY <1>5, <2>7, <2>8 DEF ConfirmedOnce
<1> QED BY <1>6, <1>7, <1>8

\* A stopped run is only ever canceled by a request.
LEMMA RequestStopped ==
    ASSUME TypeOK, Placed, Prepared, ConfirmedOnce, NEW u \in Users, RequestAction(u), NEW r \in Runs, Stopped(r)
    PROVE  Stopped(r)'
<1>1. UNCHANGED worker
    BY RequestMoves
<1>2. CASE run'[r].status = run[r].status /\ recipient'[r] = recipient[r]
    BY <1>1, <1>2 DEF Stopped, Planned, Processing
<1>3. CASE /\ r = request[u].run /\ ConfirmWrite(u) /\ recipient'[r] = recipient[r]
           /\ request[u].pc \in {"mark", "queue"} /\ run'[r].status \in {"WALLET_RESERVED", "QUEUING"}
    <2>1. r \notin known
        BY <1>3 DEF ConfirmedOnce, Confirming
    <2>2. worker.run # r
        BY <2>1, LaunchAssumption DEF Placed
    <2> QED BY <1>1, <1>3, <2>2 DEF Stopped, Planned, Processing
<1>4. CASE /\ CancelCommit(u) /\ run'[r].status = "CANCELED"
           /\ \A c \in Contacts : recipient'[r][c] =
                 IF recipient[r][c] \in {"PLANNED", "PROCESSING"} THEN "SKIPPED" ELSE recipient[r][c]
    BY <1>4 DEF Stopped, Planned, Processing
<1>5. run[r].status # "NONE"
    BY DEF Stopped
<1> QED BY <1>2, <1>3, <1>4, <1>5, RequestWrites

LEMMA RequestStops ==
    ASSUME TypeOK, Placed, Prepared, ConfirmedOnce, CancelStops, NEW u \in Users, RequestAction(u)
    PROVE  CancelStops'
<1>1. UNCHANGED <<worker, late>>
    BY RequestMoves
<1>2. \A r \in Runs : Stopped(r) => Stopped(r)'
    BY RequestStopped
<1>3. ASSUME NEW r \in Runs, CancelCommit(u), run'[r].status = "CANCELED",
             \A c \in Contacts : recipient'[r][c] =
                 IF recipient[r][c] \in {"PLANNED", "PROCESSING"} THEN "SKIPPED" ELSE recipient[r][c]
      PROVE  Stopped(r)'
    BY <1>3 DEF Stopped, Planned, Processing
<1>4. ASSUME NEW r \in Runs, run'[r].status = "CANCELED" PROVE Stopped(r)'
    <2>1. CASE run[r].status = "CANCELED"
        BY <1>2, <2>1 DEF CancelStops
    <2>2. CASE run[r].status # "CANCELED"
        BY <1>3, <1>4, <2>2, RequestWrites
    <2> QED BY <2>1, <2>2
<1>5. ASSUME NEW r \in Runs, r = worker.run, worker.pc \in Looping, ~Stopped(r)', NEW c \in Contacts,
             c \in worker.batch \/ c = worker.of
      PROVE  c \in Processing(r)'
    <2>1. c \in Processing(r)
        BY <1>2, <1>5 DEF CancelStops
    <2>2. run[r].status # "NONE"
        BY <1>5, JobFields DEF Prepared, Looping
    <2>3. recipient'[r] = recipient[r]
        BY <1>3, <1>5, <2>2, RequestWrites
    <2> QED BY <2>1, <2>3 DEF Processing
<1>6. worker.pc \in Looping => worker.run \in Runs
    BY JobFields DEF Looping
<1> QED BY <1>1, <1>2, <1>4, <1>5, <1>6 DEF CancelStops, Looping

\* Requests complete nothing.
LEMMA RequestCompletes ==
    ASSUME TypeOK, Placed, Prepared, CompletedUnplanned, NEW u \in Users, RequestAction(u)
    PROVE  CompletedUnplanned'
<1>1. UNCHANGED worker
    BY RequestMoves
<1>2. ASSUME NEW r \in Runs, run[r].status # "NONE"
      PROVE  /\ Planned(r) = {} => Planned(r)' = {}
             /\ Processing(r) = {} => Processing(r)' = {}
             /\ run'[r].status = "COMPLETED" => run[r].status = "COMPLETED"
    BY <1>2, RequestWrites DEF Planned, Processing
<1>3. ASSUME NEW r \in Runs, run'[r].status = "COMPLETED" PROVE run[r].status = "COMPLETED"
    BY <1>3, RequestWrites
<1>4. worker.pc # "idle" => worker.run \in Runs /\ run[worker.run].status # "NONE"
    BY JobFields DEF Prepared
<1>5. ASSUME NEW r \in Runs, run'[r].status = "COMPLETED" PROVE Planned(r)' = {}
    BY <1>2, <1>3, <1>5 DEF CompletedUnplanned
<1>6. ASSUME NEW r \in Runs, r = worker.run, worker.pc # "idle"
      PROVE  /\ worker.pc \in {"close", "finish", "consume"} => Planned(r)' = {}
             /\ worker.pc = "close" => Processing(r)' = {}
             /\ worker.pc # "consume" => run'[r].status # "COMPLETED"
    BY <1>2, <1>3, <1>4, <1>6 DEF CompletedUnplanned
<1> QED BY <1>1, <1>4, <1>5, <1>6 DEF CompletedUnplanned

LEMMA RequestAlone ==
    ASSUME TypeOK, Placed, Prepared, Alone, {"rivals", "again"} \cap env = {}, NEW u \in Users, RequestAction(u)
    PROVE  Alone'
<1>1. \A v \in Users \ {u} : request'[v] = request[v]
    BY RequestMoves
<1>2. ~May("rivals") /\ ~May("again")
    BY DEF May
<1>3. request'[u].pc \notin {"start", "enqueue", "count"}
    BY <1>2, RequestGoesOn DEF Alone
<1>4. StartMade' = StartMade
    BY RequestMakes DEF Alone
<1>5. ASSUME NEW r \in Runs, run[r].status = "NONE", run'[r].status # "NONE"
      PROVE  request[u].pc = "prepare" /\ r = request[u].run
    <2>1. \/ PrepareCommit(u) /\ r = request[u].run
          \/ (ConfirmWrite(u) \/ CancelCommit(u)) /\ r = request[u].run /\ request[u].pc # "prepare"
        BY <1>5, RequestWrites DEF ConfirmWrite, CancelCommit
    <2> QED BY <1>5, <2>1 DEF PrepareCommit, Prepared
<1>6. \A q, r \in Runs : run'[q].status # "NONE" /\ run'[r].status # "NONE" => q = r
    BY <1>5 DEF Alone
<1>7. ASSUME NEW v \in Users, request'[v].pc = "prepare"
      PROVE  /\ \A r \in Runs : run'[r].status = "NONE"
             /\ \A w \in Users : request'[w].pc = "prepare" => v = w
    <2>1. CASE v = u
        <3>1. /\ Turn(u, request'[u].run) /\ \A q \in Runs : run[q].status = "NONE"
              /\ Reading(u)
            BY <1>2, <1>7, <2>1, RequestGoesOn
        <3>2. \A w \in Users : request[w] = NoRequest
            BY <1>2, <3>1 DEF Turn
        <3>3. UNCHANGED run
            BY <3>1, ReadingRows DEF dbVars
        <3> QED BY <1>1, <2>1, <3>1, <3>2, <3>3, Rows
    <2>2. CASE v # u
        <3>1. request[v].pc = "prepare" /\ request[u].pc # "prepare" /\ \A r \in Runs : run[r].status = "NONE"
            BY <1>1, <1>7, <2>2 DEF Alone
        <3>2. request'[u].pc # "prepare"
            <4>1. ASSUME request'[u].pc = "prepare" PROVE FALSE
                <5>1. Turn(u, request'[u].run)
                    BY <4>1, RequestGoesOn
                <5> QED BY <1>2, <3>1, <5>1, Rows DEF Turn
            <4> QED BY <4>1
        <3> QED BY <1>1, <1>5, <2>2, <3>1, <3>2, <1>7 DEF Alone
    <2> QED BY <2>1, <2>2
<1>8. \A v \in Users : request'[v].pc \notin {"start", "enqueue", "count"}
    BY <1>1, <1>3 DEF Alone
<1> QED BY <1>4, <1>6, <1>7, <1>8 DEF Alone

\* A cancellation takes everybody out of processing; a confirmation comes before
\* the first job of its run.
LEMMA RequestHolds ==
    ASSUME TypeOK, Placed, Prepared, ConfirmedOnce, \A r \in Runs : InHand(r), NEW u \in Users, RequestAction(u)
    PROVE  \A r \in Runs : InHand(r)'
<1> SUFFICES ASSUME NEW r \in Runs PROVE InHand(r)'
    OBVIOUS
<1>1. UNCHANGED worker /\ InHand(r)
    BY RequestMoves
<1>2. known \subseteq known'
    BY RequestKinds, ReadingRows DEF PrepareCommit, ReserveCreate, ConfirmWrite, ConfirmAdd, CancelCommit,
        StartCommit, StartCount, StartEnqueue
<1>3. CASE run'[r].status = run[r].status /\ recipient'[r] = recipient[r]
    BY <1>1, <1>2, <1>3 DEF InHand, Processing
<1>4. CASE r = request[u].run /\ request[u].pc \in {"mark", "queue"} /\ recipient'[r] = recipient[r]
    <2>1. r \notin known
        BY <1>4 DEF ConfirmedOnce, Confirming
    <2> QED BY <1>1, <1>4, <2>1 DEF InHand, Processing
<1>5. CASE \A c \in Contacts : recipient'[r][c] # "PROCESSING"
    BY <1>5 DEF InHand, Processing
<1> QED BY <1>3, <1>4, <1>5, RequestWrites

LEMMA RequestJobs ==
    ASSUME TypeOK, Placed, Alone, Queued, NEW u \in Users, RequestAction(u)
    PROVE  Queued'
<1>1. UNCHANGED worker /\ jobs \subseteq jobs' /\ Made' = Made
    BY RequestMoves, RequestMakes DEF Alone
<1> QED BY <1>1 DEF Queued

-----------------------------------------------------------------------------
(* The theorems.                                                           *)

LEMMA LaunchInit == Init => LaunchInv
<1> SUFFICES ASSUME Init PROVE LaunchInv
    OBVIOUS
<1>0. /\ NoRequest \in RequestRow /\ NoJob \in WorkerRow /\ worker = NoJob
      /\ NoJob.pc = "idle" /\ NoJob.run = NoRun /\ NoJob.of = NoContact /\ NoJob.batch = {} /\ NoJob.done = {}
      /\ ~NoJob.stop /\ NoRequest.pc = "idle" /\ NoRequest.run = NoRun
    BY Rows DEF Init
<1>1. TypeOK
    BY <1>0, LaunchAssumption DEF Init, TypeOK, RunRow, RecipientStatus
<1>2. Placed
    BY <1>0 DEF Init, Placed, OfRun
<1>3. Prepared
    BY <1>0, LaunchAssumption DEF Init, Prepared
<1>4. Made = {} /\ StartMade = {} /\ \A u \in Users : ~Started(u) /\ request[u].pc = "idle"
    BY <1>0 DEF Init, Made, StartMade, Started
<1>5. QueuedIsMade
    BY <1>0, LaunchAssumption DEF Init, QueuedIsMade, Looping
<1>6. StartsOnce
    BY <1>4 DEF StartsOnce
<1>7. Accounts
    <2>1. Cardinality({}) = 0
        BY FS_EmptySet
    <2>2. balance = opening /\ opening \in Nat /\ used = 0
        BY LaunchAssumption DEF Init
    <2>3. Made \ Uncounted = {} /\ Made = {}
        BY <1>4
    <2> QED BY <2>1, <2>2, <2>3, LaunchAssumption DEF Accounts
<1>8. ConfirmedOnce
    BY <1>4 DEF Init, ConfirmedOnce, Confirming
<1>9. \A r \in Runs : Planned(r) = {} /\ Processing(r) = {} /\ run[r].status = "NONE" /\ late[r] = 0
    BY DEF Init, Planned, Processing
<1>10. CancelStops
    BY <1>0, <1>9 DEF CancelStops, Looping
<1>11. CompletedUnplanned
    BY <1>0, <1>9 DEF CompletedUnplanned
<1>12. Alone
    BY <1>4, <1>9 DEF Alone
<1>13. \A r \in Runs : InHand(r)
    BY <1>9 DEF InHand
<1>14. Queued
    BY <1>4 DEF Queued
<1> QED BY <1>1, <1>2, <1>3, <1>5, <1>6, <1>7, <1>8, <1>10, <1>11, <1>12, <1>13, <1>14 DEF LaunchInv

LEMMA LaunchStep == LaunchInv /\ [Next]_vars => LaunchInv'
<1> SUFFICES ASSUME LaunchInv, [Next]_vars PROVE LaunchInv'
    OBVIOUS
<1>0. /\ TypeOK /\ Placed /\ Prepared /\ QueuedIsMade /\ StartsOnce /\ Accounts /\ CompletedUnplanned
      /\ "again" \notin env => ConfirmedOnce /\ CancelStops
      /\ {"rivals", "again"} \cap env = {} => Alone
      /\ env \subseteq {"cancel", "changes", "quota"} => \A r \in Runs : InHand(r)
      /\ env \subseteq {"cancel", "changes", "quota", "lock"} => Queued
    BY DEF LaunchInv
<1>1. ASSUME NEW u \in Users, RequestAction(u) PROVE LaunchInv'
    <2>1. UNCHANGED env /\ TypeOK' /\ Placed'
        BY <1>0, <1>1, RequestMoves, RequestTypes
    <2>2. Prepared' /\ QueuedIsMade' /\ StartsOnce' /\ Accounts' /\ CompletedUnplanned'
        BY <1>0, <1>1, RequestPrepares, RequestQueues, RequestStarts, RequestAccounts, RequestCompletes
    <2>3. "again" \notin env => ConfirmedOnce' /\ CancelStops'
        BY <1>0, <1>1, RequestConfirms, RequestStops
    <2>4. {"rivals", "again"} \cap env = {} => Alone'
        BY <1>0, <1>1, RequestAlone
    <2>5. env \subseteq {"cancel", "changes", "quota"} => \A r \in Runs : InHand(r)'
        BY <1>0, <1>1, RequestHolds
    <2>6. env \subseteq {"cancel", "changes", "quota", "lock"} => Queued'
        BY <1>0, <1>1, RequestJobs
    <2> QED BY <2>1, <2>2, <2>3, <2>4, <2>5, <2>6 DEF LaunchInv
<1>2. CASE WorkerAction
    <2>1. UNCHANGED env /\ TypeOK' /\ Placed'
        BY <1>0, <1>2, JobMoves, WorkerTypes
    <2>2. Prepared' /\ QueuedIsMade' /\ StartsOnce' /\ Accounts' /\ CompletedUnplanned'
        BY <1>0, <1>2, WorkerPrepares, WorkerQueues, WorkerStarts, WorkerAccounts, WorkerCompletes
    <2>3. "again" \notin env => ConfirmedOnce' /\ CancelStops'
        BY <1>0, <1>2, WorkerConfirms, WorkerStops
    <2>4. {"rivals", "again"} \cap env = {} => Alone'
        BY <1>0, <1>2, WorkerAlone
    <2>5. env \subseteq {"cancel", "changes", "quota"} => \A r \in Runs : InHand(r)'
        BY <1>0, <1>2, WorkerHolds
    <2>6. env \subseteq {"cancel", "changes", "quota", "lock"} => Queued'
        BY <1>0, <1>2, WorkerJobs
    <2> QED BY <2>1, <2>2, <2>3, <2>4, <2>5, <2>6 DEF LaunchInv
<1>3. CASE UNCHANGED vars
    <2>1. UNCHANGED <<env, opening, draft, run, recipient, message, balance, used, jobs, queue, known, request, worker, late>>
        BY <1>3 DEF vars, dbVars
    <2>2. TypeOK' /\ Placed' /\ Prepared' /\ UNCHANGED env
        BY <1>0, <2>1 DEF TypeOK, Placed, Prepared
    <2>3. QueuedIsMade' /\ StartsOnce'
        BY <1>0, <2>1 DEF QueuedIsMade, StartsOnce, StartMade, Started, Made
    <2>4. Accounts' /\ CompletedUnplanned'
        BY <1>0, <2>1 DEF Accounts, CompletedUnplanned, Uncounted, Made, StartMade, Started, Planned, Processing, May
    <2>5. "again" \notin env => ConfirmedOnce' /\ CancelStops'
        BY <1>0, <2>1 DEF ConfirmedOnce, CancelStops, Confirming, Stopped, Planned, Processing
    <2>6. {"rivals", "again"} \cap env = {} => Alone'
        BY <1>0, <2>1 DEF Alone, StartMade
    <2>7. env \subseteq {"cancel", "changes", "quota"} => \A r \in Runs : InHand(r)'
        BY <1>0, <2>1 DEF InHand, Processing
    <2>8. env \subseteq {"cancel", "changes", "quota", "lock"} => Queued'
        BY <1>0, <2>1 DEF Queued, Made
    <2> QED BY <2>2, <2>3, <2>4, <2>5, <2>6, <2>7, <2>8 DEF LaunchInv
<1>4. Next => WorkerAction \/ \E u \in Users : RequestAction(u)
    BY DEF Next, WorkerAction, RequestAction
<1> QED BY <1>1, <1>2, <1>3, <1>4

\* What the rows, jobs and processes of a launch are.
THEOREM LaunchTypes == Spec => []TypeOK
<1>1. LaunchInv => TypeOK
    BY DEF LaunchInv
<1> QED BY <1>1, LaunchInit, LaunchStep, PTL DEF Spec

\* Every message of a campaign is charged for once and counted at most once,
\* and no counter passes its limit, for any number of contacts, launches
\* and requests and under any faults.
THEOREM LaunchCharges == Spec => []ChargedAndCounted
<1>1. LaunchInv => ChargedAndCounted
    <2> SUFFICES ASSUME LaunchInv PROVE ChargedAndCounted
        OBVIOUS
    <2>1. TypeOK /\ QueuedIsMade /\ Accounts
        BY DEF LaunchInv
    <2>2. IsFiniteSet(Made) /\ Cardinality(Made \ Uncounted) <= Cardinality(Made)
          /\ Cardinality(Made \ Uncounted) \in Nat /\ Cardinality(Made) \in Nat
        <3>1. Made \subseteq Contacts /\ Made \ Uncounted \subseteq Made
            BY DEF Made
        <3> QED BY <3>1, Counting, FS_Subset
    <2>3. used <= Cardinality(Made)
        BY <2>1, <2>2 DEF Accounts, TypeOK
    <2> QED BY <2>1, <2>3 DEF ChargedAndCounted, Accounts, QueuedIsMade
<1> QED BY <1>1, LaunchInit, LaunchStep, PTL DEF Spec

\* After a cancellation the worker charges one recipient more at most, unless a
\* repeated confirmation takes the run up again.
THEOREM LaunchCancels == Spec => []CancelStopsLaunch
<1>1. LaunchInv => CancelStopsLaunch
    BY DEF LaunchInv, CancelStopsLaunch, CancelStops
<1> QED BY <1>1, LaunchInit, LaunchStep, PTL DEF Spec

\* A completed launch has decided its recipients, and every message that a
\* launch charged when nothing failed has its job.
THEOREM LaunchLeavesNothing == Spec => []NothingLeftBehind
<1>1. LaunchInv => NothingLeftBehind
    <2> SUFFICES ASSUME LaunchInv PROVE NothingLeftBehind
        OBVIOUS
    <2>1. TypeOK /\ Placed /\ CompletedUnplanned
        BY DEF LaunchInv
    <2>2. CompletedIsDecided
        <3>1. ASSUME NEW r \in Runs, run[r].status = "COMPLETED", env \subseteq {"cancel", "changes", "quota"}
              PROVE  Processing(r) = {}
            <4>1. InHand(r)
                BY <3>1 DEF LaunchInv
            <4>2. ~(worker.run = r /\ worker.pc \in Looping \cup {"list"})
                BY <2>1, <3>1 DEF CompletedUnplanned, Looping
            <4> QED BY <3>1, <4>1, <4>2 DEF InHand
        <3> QED BY <2>1, <3>1 DEF CompletedIsDecided, CompletedUnplanned
    <2>3. ChargedIsQueued
        <3>1. ASSUME env \subseteq {"cancel", "changes", "quota", "lock"}, worker = NoJob PROVE Made \subseteq jobs
            <4>1. Queued
                BY <3>1 DEF LaunchInv
            <4> QED BY <3>1, <4>1, Rows DEF Queued, Looping
        <3> QED BY <3>1 DEF ChargedIsQueued
    <2> QED BY <2>2, <2>3 DEF NothingLeftBehind
<1> QED BY <1>1, LaunchInit, LaunchStep, PTL DEF Spec

-----------------------------------------------------------------------------
(* The follow-up steps.                                                    *)

MailStatus == {"NONE", "QUEUED", "SENT", "READ", "FAILED"}

LEMMA SequenceIndices ==
    /\ Len(Conditions) \in Nat /\ Steps = 1 .. Len(Conditions) /\ Stages = 0 .. Len(Conditions)
    /\ \A s \in Steps : s \in Stages /\ s - 1 \in Stages /\ s # 0
    /\ 0 \in Stages
BY SequenceAssumption DEF Steps, Stages

\* A run of the steps that has taken up contacts has one at hand.
AtHand ==
    \A t \in Tickers : ticker[t].pc \in {"look", "skip", "charge", "add"} =>
        ticker[t].step \in Steps /\ ticker[t].todo # <<>>

LEMMA RankType == \A status : Rank(status) \in 0 .. 2
BY DEF Rank

LEMMA MinOfTwo ==
    ASSUME NEW a \in Nat, NEW b \in Nat
    PROVE  Min({a, b}) \in Nat /\ Min({a, b}) <= a
<1>1. CASE a <= b
  <2>1. Min({a, b}) = a
    BY <1>1 DEF Min
  <2>2. QED
    BY <2>1
<1>2. CASE ~(a <= b)
  <2>1. Min({a, b}) = b
    BY <1>2 DEF Min
  <2>2. QED
    BY <1>2, <2>1
<1>3. QED
  BY <1>1, <1>2

LEMMA RowType ==
    ASSUME SequenceTypeOK, AtHand, NEW t \in Tickers,
           ticker[t].pc \in {"look", "skip", "charge", "add"}
    PROVE  Now(t) \in Context /\ Row(t) \in Audience \X Steps /\ Row(t) \in Audience \X Stages
<1>1. ticker[t].todo \in Seq(Context) /\ ticker[t].todo # <<>> /\ ticker[t].step \in Steps
  BY DEF SequenceTypeOK, TickerRow, AtHand
<1>2. Now(t) \in Context
  BY <1>1, HeadTailProperties DEF Now
<1>3. Now(t).of \in Audience
  BY <1>2 DEF Context
<1>4. QED
  BY <1>1, <1>2, <1>3, SequenceIndices DEF Row

\* Contexts are what a query returns.
LEMMA ContextsType ==
    ASSUME SequenceTypeOK, NEW t \in Tickers, ticker[t].step \in Steps
    PROVE  Contexts(t) \in Seq(Context)
<1> DEFINE s == ticker[t].step
           rows == Selected(line[s], {c \in Audience : Follows(c, s)})
           bound == Min({Len(rows), Remaining(t)})
           taken == SubSeq(rows, 1, bound)
<1>1. rows \in Seq(Audience)
  <2>1. line[s] \in Seq(Audience)
    BY DEF SequenceTypeOK
  <2>2. rows \in Seq(Audience \cap {c \in Audience : Follows(c, s)})
    BY <2>1, SelectedType
  <2>3. QED
    BY <2>2, SeqMonotonic
<1>2. Remaining(t) \in Nat
  BY SequenceAssumption DEF Remaining, SequenceTypeOK, TickerRow
<1>3. bound \in Nat /\ bound <= Len(rows)
  <2>1. Len(rows) \in Nat
    BY <1>1, LenProperties
  <2> HIDE DEF rows
  <2>2. QED
    BY <1>2, <2>1, MinOfTwo
<1>4. taken \in Seq(Audience)
  <2> HIDE DEF rows, bound
  <2>1. \A i \in 1 .. bound : rows[i] \in Audience
    BY <1>1, <1>3, ElementOfSeq
  <2>2. QED
    BY <1>3, <2>1, SubSeqProperties
<1> HIDE DEF taken, s
<1>5. \A i \in DOMAIN taken : ContextOf(taken[i], s) \in Context
  BY <1>4, RankType DEF ContextOf, Context
<1>6. [i \in DOMAIN taken |-> ContextOf(taken[i], s)] \in Seq(Context)
  <2> HIDE DEF taken
  <2>1. Len(taken) \in Nat /\ DOMAIN taken = 1 .. Len(taken)
    BY <1>4, LenProperties
  <2>2. [i \in 1 .. Len(taken) |-> ContextOf(taken[i], s)] \in [1 .. Len(taken) -> Context]
    BY <1>5, <2>1
  <2>3. QED
    BY <2>1, <2>2, SeqDef
<1>7. QED
  BY <1>6 DEF Contexts, taken, s

\* What the money rests on: who has been charged for, who is being added, who
\* has a job.
ChargedRows ==
    /\ \A x \in Audience \X Steps : execution[x] \in {"NONE", "SKIPPED"} => mail[x] = "NONE"
    /\ \A x \in toSend : mail[x] = "QUEUED"
    /\ \A t \in Tickers : ticker[t].pc = "add" => mail[Row(t)] = "QUEUED" /\ Row(t) \notin toSend
    /\ \A t, u \in Tickers :
           t # u /\ ticker[t].pc = "add" /\ ticker[u].pc = "add" => Row(t) # Row(u)

SequenceInv == SequenceTypeOK /\ AtHand /\ ChargedRows /\ StepChargedOnce

\* A row a ticker may have.
Fit(row) ==
    /\ row \in TickerRow
    /\ row.pc \in {"look", "skip", "charge", "add"} => row.step \in Steps /\ row.todo # <<>>
\* The ticker of t gets such a row, and adds no job.
Ticks(t) == \E row \in TickerRow :
    Fit(row) /\ row.pc # "add" /\ ticker' = [ticker EXCEPT ![t] = row]

LEMMA NextOneTicks ==
    ASSUME SequenceTypeOK, AtHand, NEW t \in Tickers, NEW extra \in {0, 1}, NextOne(t, extra),
           ticker[t].step \in Steps
    PROVE  Ticks(t)
<1> DEFINE old == ticker[t]
           now == [old EXCEPT !.queued = @ + extra]
           step == IF now.step + 1 \in Steps THEN now.step + 1 ELSE 0
           more == [now EXCEPT !.todo = Tail(now.todo), !.pc = "look"]
           last == [now EXCEPT !.todo = <<>>, !.pc = "select", !.step = step]
<1>1. old \in TickerRow /\ old.todo \in Seq(Context) /\ old.queued \in Nat
  BY DEF SequenceTypeOK, TickerRow
<1>2. now \in TickerRow /\ now.todo = old.todo /\ now.step = old.step
  BY <1>1 DEF TickerRow
<1>3. ticker' = [ticker EXCEPT ![t] = IF Len(now.todo) > 1 THEN more ELSE last]
  BY DEF NextOne
<1>4. CASE Len(now.todo) > 1
  <2> HIDE DEF now
  <2>1. now.todo \in Seq(Context) /\ now.todo # <<>>
    BY <1>1, <1>2, <1>4, EmptySeq
  <2>2. Tail(now.todo) \in Seq(Context) /\ Len(Tail(now.todo)) = Len(now.todo) - 1
    BY <2>1, HeadTailProperties
  <2>3. Tail(now.todo) # <<>>
    <3>1. Len(now.todo) \in Nat /\ Len(Tail(now.todo)) > 0
      BY <1>4, <2>1, <2>2, LenProperties
    <3>2. PICK tail \in Seq(Context) : tail = Tail(now.todo)
      BY <2>2
    <3>3. tail # <<>>
      BY <3>1, <3>2, EmptySeq
    <3>4. QED
      BY <3>2, <3>3
  <2>4. more \in TickerRow /\ Fit(more) /\ more.pc = "look"
    BY <1>2, <2>2, <2>3 DEF TickerRow, Fit
  <2>5. ticker' = [ticker EXCEPT ![t] = more]
    BY <1>3, <1>4
  <2> HIDE DEF more
  <2>6. QED
    BY <2>4, <2>5 DEF Ticks
<1>5. CASE ~(Len(now.todo) > 1)
  <2> HIDE DEF now
  <2>1. step \in Steps \cup {0} /\ <<>> \in Seq(Context)
    BY EmptySeq
  <2> HIDE DEF step
  <2>2. last \in TickerRow /\ Fit(last) /\ last.pc = "select"
    BY <1>2, <2>1 DEF TickerRow, Fit
  <2>3. ticker' = [ticker EXCEPT ![t] = last]
    BY <1>3, <1>5
  <2> HIDE DEF last
  <2>4. QED
    BY <2>2, <2>3 DEF Ticks
<1>6. QED
  BY <1>4, <1>5

\* So does every step of a run but the one that charges.
LEMMA RunTicks ==
    ASSUME SequenceTypeOK, AtHand, NEW t \in Tickers,
           StartRun(t) \/ SelectContexts(t) \/ LookAt(t) \/ SkipContact(t) \/ AddJob(t) \/ RunDies(t)
    PROVE  Ticks(t)
<1>1. ticker[t] \in TickerRow /\ ticker[t].todo \in Seq(Context)
  BY DEF SequenceTypeOK, TickerRow
<1>2. Resting \in TickerRow /\ Fit(Resting) /\ Resting.pc = "idle"
  BY EmptySeq DEF Resting, TickerRow, Fit
<1>3. CASE StartRun(t)
  <2> DEFINE row == [pc |-> "select", step |-> 1, todo |-> <<>>, queued |-> 0]
  <2>1. 1 \in Steps /\ <<>> \in Seq(Context)
    BY SequenceAssumption, SequenceIndices, EmptySeq
  <2>2. row \in TickerRow /\ Fit(row) /\ row.pc # "add"
    BY <2>1 DEF TickerRow, Fit
  <2>3. ticker' = [ticker EXCEPT ![t] = row]
    BY <1>3 DEF StartRun
  <2>4. QED
    BY <2>2, <2>3 DEF Ticks
<1>4. CASE SelectContexts(t)
  <2>1. CASE ticker[t].step = 0 \/ ticker[t].queued >= TickBatch
    BY <1>2, <1>4, <2>1 DEF SelectContexts, Ticks
  <2>2. CASE ~(ticker[t].step = 0 \/ ticker[t].queued >= TickBatch)
    <3>1. ticker[t].step \in Steps
      BY <1>1, <2>2 DEF TickerRow
    <3>2. CASE Contexts(t) = <<>>
      BY <1>4, <2>2, <3>1, <3>2, NextOneTicks DEF SelectContexts
    <3>3. CASE Contexts(t) # <<>>
      <4> DEFINE row == [ticker[t] EXCEPT !.pc = "look", !.todo = Contexts(t)]
      <4>1. Contexts(t) \in Seq(Context)
        BY <3>1, ContextsType
      <4>2. row \in TickerRow /\ Fit(row) /\ row.pc = "look"
        BY <1>1, <3>1, <3>3, <4>1 DEF TickerRow, Fit
      <4>3. ticker' = [ticker EXCEPT ![t] = row]
        BY <1>4, <2>2, <3>3 DEF SelectContexts
      <4>4. QED
        BY <4>2, <4>3 DEF Ticks
    <3>4. QED
      BY <3>2, <3>3
  <2>3. QED
    BY <2>1, <2>2
<1>5. CASE LookAt(t)
  <2>1. ticker[t].step \in Steps /\ ticker[t].todo # <<>>
    BY <1>5 DEF LookAt, AtHand
  <2>2. CASE NextOne(t, 0)
    BY <2>1, <2>2, NextOneTicks
  <2>3. ASSUME NEW pc \in {"skip", "charge"}, TickerTurn(t, pc) PROVE Ticks(t)
    <3> DEFINE row == [ticker[t] EXCEPT !.pc = pc]
    <3>1. row \in TickerRow /\ Fit(row) /\ row.pc # "add"
      BY <1>1, <2>1 DEF TickerRow, Fit
    <3>2. ticker' = [ticker EXCEPT ![t] = row]
      BY <2>3 DEF TickerTurn
    <3>3. QED
      BY <3>1, <3>2 DEF Ticks
  <2>4. QED
    BY <1>5, <2>2, <2>3 DEF LookAt
<1>6. CASE SkipContact(t) \/ AddJob(t)
  <2>1. ticker[t].step \in Steps
    BY <1>6 DEF SkipContact, AddJob, AtHand
  <2>2. NextOne(t, 0) \/ NextOne(t, 1)
    BY <1>6 DEF SkipContact, AddJob
  <2>3. QED
    BY <2>1, <2>2, NextOneTicks
<1>7. CASE RunDies(t)
  BY <1>2, <1>7 DEF RunDies, Ticks
<1>8. QED
  BY <1>3, <1>4, <1>5, <1>6, <1>7

LEMMA TickedRows ==
    ASSUME SequenceTypeOK, AtHand, NEW t \in Tickers, NEW row \in TickerRow, Fit(row),
           ticker' = [ticker EXCEPT ![t] = row]
    PROVE  ticker' \in [Tickers -> TickerRow] /\ AtHand'
BY DEF SequenceTypeOK, AtHand, Fit

\* Whoever adds a job after such a step has been about to add it before.
LEMMA AddersRemain ==
    ASSUME SequenceTypeOK, NEW t \in Tickers, Ticks(t)
    PROVE  \A u \in Tickers : ticker'[u].pc = "add" =>
               u # t /\ ticker[u].pc = "add" /\ Row(u)' = Row(u)
<1>1. PICK row \in TickerRow : row.pc # "add" /\ ticker' = [ticker EXCEPT ![t] = row]
  BY DEF Ticks
<1>2. \A u \in Tickers : u # t => ticker'[u] = ticker[u]
  BY <1>1 DEF SequenceTypeOK
<1>3. ticker'[t] = row
  BY <1>1 DEF SequenceTypeOK
<1>4. QED
  BY <1>1, <1>2, <1>3 DEF Row, Now

\* The charging step moves its ticker to "add", or on.
LEMMA ChargeMoves ==
    ASSUME SequenceTypeOK, AtHand, NEW t \in Tickers, ChargeContact(t)
    PROVE  /\ ticker[t].step \in Steps
           /\ \/ Ticks(t) /\ UNCHANGED <<purse, mail, made>>
                  /\ (UNCHANGED execution \/
                        (Undone(Row(t)[1], Row(t)[2]) /\ execution' = [execution EXCEPT ![Row(t)] = "FAILED"]))
              \/ /\ TickerTurn(t, "add") /\ Undone(Row(t)[1], Row(t)[2]) /\ purse >= 1
                 /\ purse' = purse - 1
                 /\ mail' = [mail EXCEPT ![Row(t)] = "QUEUED"]
                 /\ made' = [made EXCEPT ![Row(t)] = @ + 1]
                 /\ execution' = [execution EXCEPT ![Row(t)] = "QUEUED"]
<1>1. ticker[t].step \in Steps
  BY DEF ChargeContact, AtHand
<1>2. NextOne(t, 0) => Ticks(t)
  BY <1>1, NextOneTicks
<1>3. QED
  BY <1>1, <1>2 DEF ChargeContact, Unique

LEMMA TurnFits ==
    ASSUME SequenceTypeOK, AtHand, NEW t \in Tickers, NEW pc \in {"look", "skip", "charge", "add"},
           ticker[t].pc \in {"look", "skip", "charge", "add"}, TickerTurn(t, pc)
    PROVE  ticker' \in [Tickers -> TickerRow] /\ AtHand'
<1> DEFINE row == [ticker[t] EXCEPT !.pc = pc]
<1>1. row \in TickerRow /\ Fit(row)
  BY DEF SequenceTypeOK, AtHand, TickerRow, Fit
<1>2. ticker' = [ticker EXCEPT ![t] = row]
  BY DEF TickerTurn
<1>3. QED
  BY <1>1, <1>2, TickedRows

LEMMA LineType ==
    ASSUME SequenceTypeOK, NEW s \in Steps, NEW c \in Audience
    PROVE  ToTheEnd(s, c) \in [Steps -> Seq(Audience)]
<1>1. line[s] \in Seq(Audience) /\ line \in [Steps -> Seq(Audience)]
  BY DEF SequenceTypeOK
<1>2. Selected(line[s], Audience \ {c}) \in Seq(Audience)
  <2>1. Selected(line[s], Audience \ {c}) \in Seq(Audience \cap (Audience \ {c}))
    BY <1>1, SelectedType
  <2>2. QED
    BY <2>1, SeqMonotonic
<1>3. Append(Selected(line[s], Audience \ {c}), c) \in Seq(Audience)
  BY <1>2, AppendProperties
<1>4. QED
  BY <1>1, <1>3 DEF ToTheEnd

LEMMA SequenceTypesStep ==
    ASSUME SequenceTypeOK, AtHand, [SequenceNext]_sequenceVars
    PROVE  SequenceTypeOK' /\ AtHand'
<1>0. /\ seqEnv \in SequenceEnvironments
      /\ campaign \in {"RUNNING", "COMPLETED", "FAILED"}
      /\ mail \in [Audience \X Stages -> MailStatus]
      /\ due \subseteq Audience \X Stages
      /\ answered \in [Audience \X Stages -> -1..2]
      /\ optedOut \subseteq Audience
      /\ execution \in [Audience \X Steps -> {"NONE", "QUEUED", "SENT", "FAILED", "SKIPPED"}]
      /\ line \in [Steps -> Seq(Audience)]
      /\ made \in [Audience \X Steps -> Nat]
      /\ purse \in Nat /\ toSend \subseteq Audience \X Stages
      /\ ticker \in [Tickers -> TickerRow]
  BY DEF SequenceTypeOK, MailStatus
<1>1. ASSUME NEW c \in Audience, NEW s \in Stages, SendMail(c, s) PROVE SequenceTypeOK' /\ AtHand'
  <2>1. line' \in [Steps -> Seq(Audience)]
    BY <1>0, <1>1, LineType DEF SendMail
  <2>2. campaign' \in {"RUNNING", "COMPLETED", "FAILED"}
    BY <1>0, <1>1 DEF SendMail, Completion
  <2>3. execution' \in [Audience \X Steps -> {"NONE", "QUEUED", "SENT", "FAILED", "SKIPPED"}]
    BY <1>0, <1>1 DEF SendMail
  <2>4. mail' \in [Audience \X Stages -> {"NONE", "QUEUED", "SENT", "READ", "FAILED"}]
    BY <1>0, <1>1 DEF SendMail, MailStatus
  <2>5. AtHand'
    BY <1>1 DEF SendMail, AtHand
  <2>6. QED
    BY <1>0, <1>1, <2>1, <2>2, <2>3, <2>4, <2>5 DEF SendMail, SequenceTypeOK
<1>2. ASSUME NEW c \in Audience, NEW s \in Stages, RejectMail(c, s) PROVE SequenceTypeOK' /\ AtHand'
  <2>1. campaign' \in {"RUNNING", "COMPLETED", "FAILED"}
    BY <1>0, <1>2 DEF RejectMail, Completion
  <2>2. execution' \in [Audience \X Steps -> {"NONE", "QUEUED", "SENT", "FAILED", "SKIPPED"}]
    BY <1>0, <1>2 DEF RejectMail
  <2>3. mail' \in [Audience \X Stages -> {"NONE", "QUEUED", "SENT", "READ", "FAILED"}]
    BY <1>0, <1>2 DEF RejectMail, MailStatus
  <2>4. purse' \in Nat
    BY <1>0, <1>2 DEF RejectMail
  <2>5. AtHand'
    BY <1>2 DEF RejectMail, AtHand
  <2>6. QED
    BY <1>0, <1>2, <2>1, <2>2, <2>3, <2>4, <2>5 DEF RejectMail, SequenceTypeOK
<1>3. ASSUME NEW c \in Audience, NEW s \in Stages, ReportRead(c, s) PROVE SequenceTypeOK' /\ AtHand'
  <2>1. 1 \in Steps
    BY SequenceAssumption, SequenceIndices, EmptySeq
  <2>2. line' \in [Steps -> Seq(Audience)]
    BY <1>0, <1>3, <2>1, LineType DEF ReportRead
  <2>3. mail' \in [Audience \X Stages -> {"NONE", "QUEUED", "SENT", "READ", "FAILED"}]
    BY <1>0, <1>3 DEF ReportRead, MailStatus
  <2>4. AtHand'
    BY <1>3 DEF ReportRead, AtHand
  <2>5. QED
    BY <1>0, <1>3, <2>2, <2>3, <2>4 DEF ReportRead, SequenceTypeOK
<1>4. ASSUME NEW c \in Audience, NEW s \in Stages, FallDue(c, s) PROVE SequenceTypeOK' /\ AtHand'
  BY <1>0, <1>4 DEF FallDue, SequenceTypeOK, AtHand, MailStatus
<1>5. ASSUME NEW c \in Audience, Reply(c) \/ OptOut(c) PROVE SequenceTypeOK' /\ AtHand'
  <2>1. \A m \in Audience \X Stages : Rank(mail[m]) \in -1..2
    BY RankType
  <2>2. answered' \in [Audience \X Stages -> -1..2]
    BY <1>0, <1>5, <2>1 DEF Reply, OptOut
  <2>3. QED
    BY <1>0, <1>5, <2>2 DEF Reply, OptOut, SequenceTypeOK, AtHand, MailStatus
<1>6. ASSUME NEW t \in Tickers,
             StartRun(t) \/ SelectContexts(t) \/ LookAt(t) \/ SkipContact(t) \/ AddJob(t) \/ RunDies(t)
      PROVE  SequenceTypeOK' /\ AtHand'
  <2>1. ticker' \in [Tickers -> TickerRow] /\ AtHand'
    BY <1>6, RunTicks, TickedRows DEF Ticks
  <2>2. SkipContact(t) \/ AddJob(t) => Row(t) \in Audience \X Steps /\ Row(t) \in Audience \X Stages
    BY RowType DEF SkipContact, AddJob
  <2>3. execution' \in [Audience \X Steps -> {"NONE", "QUEUED", "SENT", "FAILED", "SKIPPED"}]
    BY <1>0, <1>6, <2>2 DEF StartRun, SelectContexts, LookAt, SkipContact, AddJob, RunDies
  <2>4. toSend' \subseteq Audience \X Stages
    BY <1>0, <1>6, <2>2 DEF StartRun, SelectContexts, LookAt, SkipContact, AddJob, RunDies
  <2>5. UNCHANGED <<seqEnv, campaign, mail, due, answered, optedOut, line, made, purse>>
    BY <1>6 DEF StartRun, SelectContexts, LookAt, SkipContact, AddJob, RunDies
  <2>6. QED
    BY <1>0, <2>1, <2>3, <2>4, <2>5 DEF SequenceTypeOK, MailStatus
<1>7. ASSUME NEW t \in Tickers, ChargeContact(t) PROVE SequenceTypeOK' /\ AtHand'
  <2>1. Row(t) \in Audience \X Steps /\ Row(t) \in Audience \X Stages
    BY <1>7, RowType DEF ChargeContact
  <2>2. UNCHANGED <<seqEnv, campaign, due, answered, optedOut, line, toSend>>
    BY <1>7 DEF ChargeContact
  <2>3. CASE Ticks(t) /\ UNCHANGED <<purse, mail, made>>
               /\ (UNCHANGED execution \/ execution' = [execution EXCEPT ![Row(t)] = "FAILED"])
    <3>1. ticker' \in [Tickers -> TickerRow] /\ AtHand'
      BY <2>3, TickedRows DEF Ticks
    <3>2. QED
      BY <1>0, <2>1, <2>2, <2>3, <3>1 DEF SequenceTypeOK, MailStatus
  <2>4. CASE /\ TickerTurn(t, "add") /\ purse >= 1 /\ purse' = purse - 1
             /\ mail' = [mail EXCEPT ![Row(t)] = "QUEUED"]
             /\ made' = [made EXCEPT ![Row(t)] = @ + 1]
             /\ execution' = [execution EXCEPT ![Row(t)] = "QUEUED"]
    <3>1. ticker' \in [Tickers -> TickerRow] /\ AtHand'
      BY <1>7, <2>4, TurnFits DEF ChargeContact
    <3>2. made[Row(t)] \in Nat
      BY <1>0, <2>1
    <3>3. QED
      BY <1>0, <2>1, <2>2, <2>4, <3>1, <3>2 DEF SequenceTypeOK, MailStatus
  <2>5. QED
    BY <1>7, <2>3, <2>4, ChargeMoves
<1>8. CASE UNCHANGED sequenceVars
  BY <1>0, <1>8 DEF sequenceVars, SequenceTypeOK, AtHand, MailStatus
<1>9. QED
  BY <1>1, <1>2, <1>3, <1>4, <1>5, <1>6, <1>7, <1>8 DEF SequenceNext, RunStep

\* Messages that are paid for.
Bought(x) == mail[x] \notin {"NONE", "FAILED"}
BoughtRows == {x \in Audience \X Steps : Bought(x)}

LEMMA RowsFinite == IsFiniteSet(Audience \X Steps)
<1>1. IsFiniteSet(Steps)
  BY SequenceIndices, FS_Interval
<1>2. QED
  BY <1>1, SequenceAssumption, FS_Product

LEMMA BoughtCount ==
    /\ IsFiniteSet(BoughtRows)
    /\ \A x \in BoughtRows : Cardinality(BoughtRows \ {x}) = Cardinality(BoughtRows) - 1
    /\ \A x : x \notin BoughtRows => Cardinality(BoughtRows \cup {x}) = Cardinality(BoughtRows) + 1
    /\ Cardinality(BoughtRows) \in Nat
<1>1. IsFiniteSet(BoughtRows)
  BY RowsFinite, FS_Subset DEF BoughtRows
<1>2. QED
  BY <1>1, FS_AddElement, FS_RemoveElement, FS_CardinalityType

LEMMA StepChargedMeans ==
    StepChargedOnce <=>
        /\ \A x \in Audience \X Steps : made[x] = IF mail[x] = "NONE" THEN 0 ELSE 1
        /\ purse + Cardinality(BoughtRows) = Purse
BY DEF StepChargedOnce, BoughtRows, Bought

LEMMA SequenceStarts ==
    ASSUME SequenceInit PROVE SequenceTypeOK /\ AtHand /\ ChargedRows /\ StepChargedOnce
<1>1. Resting \in TickerRow /\ Resting.pc = "idle" /\ <<>> \in Seq(Audience)
  BY EmptySeq DEF Resting, TickerRow
<1>2. SequenceTypeOK
  <2>1. mail \in [Audience \X Stages -> MailStatus]
    BY DEF SequenceInit, MailStatus
  <2>2. toSend \subseteq Audience \X Stages
    BY SequenceIndices DEF SequenceInit
  <2>3. /\ answered \in [Audience \X Stages -> -1..2]
        /\ execution \in [Audience \X Steps -> {"NONE", "QUEUED", "SENT", "FAILED", "SKIPPED"}]
        /\ made \in [Audience \X Steps -> Nat]
    BY DEF SequenceInit
  <2>4. ticker \in [Tickers -> TickerRow] /\ line \in [Steps -> Seq(Audience)]
    BY <1>1 DEF SequenceInit
  <2>5. QED
    BY <2>1, <2>2, <2>3, <2>4, SequenceAssumption DEF SequenceInit, SequenceTypeOK, MailStatus
<1>3. \A t \in Tickers : ticker[t].pc = "idle"
  BY <1>1 DEF SequenceInit
<1>4. \A x \in Audience \X Steps : mail[x] = "NONE" /\ made[x] = 0
  BY SequenceIndices DEF SequenceInit
<1>5. BoughtRows = {}
  BY <1>4 DEF BoughtRows, Bought
<1>6. StepChargedOnce
  <2>1. Cardinality(BoughtRows) = 0
    BY <1>5, FS_EmptySet
  <2>2. purse = Purse /\ Purse \in Nat
    BY SequenceAssumption DEF SequenceInit
  <2>3. purse + Cardinality(BoughtRows) = Purse
    BY <2>1, <2>2
  <2>4. QED
    BY <1>4, <2>3, StepChargedMeans
<1>7. AtHand /\ ChargedRows
  BY <1>3, <1>4, SequenceIndices DEF AtHand, ChargedRows, SequenceInit
<1>8. QED
  BY <1>2, <1>6, <1>7

\* Neither messages nor tickers that add jobs change.
LEMMA NoMailMoves ==
    ASSUME SequenceTypeOK, AtHand, ChargedRows, StepChargedOnce,
           UNCHANGED <<mail, made, purse, toSend>>,
           \A x \in Audience \X Steps :
               execution'[x] = execution[x] \/ (execution[x] = "NONE" /\ execution'[x] \in {"SKIPPED", "FAILED"}),
           \A u \in Tickers : ticker'[u].pc = "add" => ticker[u].pc = "add" /\ Row(u)' = Row(u)
    PROVE  ChargedRows' /\ StepChargedOnce'
<1>1. StepChargedOnce'
  BY DEF StepChargedOnce
<1>2. ChargedRows'
  BY DEF ChargedRows
<1>3. QED
  BY <1>1, <1>2

\* The status of a message that has left the queue changes.
LEMMA MailMoves ==
    ASSUME SequenceTypeOK, AtHand, ChargedRows, StepChargedOnce,
           NEW x \in Audience \X Stages, NEW status \in MailStatus \ {"NONE", "QUEUED"},
           mail[x] \notin {"NONE", "FAILED"}, mail' = [mail EXCEPT ![x] = status],
           x \notin toSend', toSend' \subseteq toSend, x \in toSend \/ mail[x] # "QUEUED",
           purse' = IF status = "FAILED" /\ x[2] # 0 THEN purse + 1 ELSE purse,
           \A y \in Audience \X Steps : execution'[y] = execution[y] \/ (y = x /\ execution'[y] \notin {"NONE", "SKIPPED"}),
           UNCHANGED <<made, ticker>>
    PROVE  ChargedRows' /\ StepChargedOnce'
<1>1. /\ mail'[x] = status /\ \A y \in Audience \X Stages : y # x => mail'[y] = mail[y]
      /\ Audience \X Steps \subseteq Audience \X Stages /\ purse \in Nat
  BY SequenceIndices DEF SequenceTypeOK
<1>2. \A t \in Tickers : Row(t)' = Row(t) /\ (ticker[t].pc = "add" => Row(t) \in Audience \X Steps /\ Row(t) # x)
  BY RowType DEF Row, Now, ChargedRows
<1>3. ChargedRows'
  <2>1. \A y \in Audience \X Steps : execution'[y] \in {"NONE", "SKIPPED"} => mail'[y] = "NONE"
    BY <1>1 DEF ChargedRows
  <2>2. \A y \in toSend' : mail'[y] = "QUEUED"
    BY <1>1 DEF ChargedRows, SequenceTypeOK
  <2>3. \A t \in Tickers : ticker'[t].pc = "add" => mail'[Row(t)'] = "QUEUED" /\ Row(t)' \notin toSend'
    BY <1>1, <1>2 DEF ChargedRows
  <2>4. \A t, u \in Tickers :
           t # u /\ ticker'[t].pc = "add" /\ ticker'[u].pc = "add" => Row(t)' # Row(u)'
    BY <1>2 DEF ChargedRows
  <2>5. QED
    BY <2>1, <2>2, <2>3, <2>4 DEF ChargedRows
<1>4. \A y \in Audience \X Steps : made'[y] = IF mail'[y] = "NONE" THEN 0 ELSE 1
  BY <1>1, StepChargedMeans
<1>5. purse + Cardinality(BoughtRows) = Purse
  BY StepChargedMeans
<1>6. CASE status = "FAILED" /\ x[2] # 0
  <2>1. x \in Audience \X Steps
    BY <1>6, SequenceIndices
  <2>2. x \in BoughtRows /\ BoughtRows' = BoughtRows \ {x}
    BY <1>1, <1>6, <2>1 DEF BoughtRows, Bought
  <2>3. purse' + Cardinality(BoughtRows') = Purse
    BY <1>1, <1>5, <1>6, <2>2, BoughtCount
  <2>4. QED
    BY <1>3, <1>4, <2>3, StepChargedMeans DEF BoughtRows, Bought, StepChargedOnce
<1>7. CASE ~(status = "FAILED" /\ x[2] # 0)
  <2>1. \A y \in Audience \X Steps : Bought(y)' <=> Bought(y)
    BY <1>1, <1>7, SequenceIndices DEF Bought
  <2>2. BoughtRows' = BoughtRows
    BY <2>1 DEF BoughtRows
  <2>3. QED
    BY <1>3, <1>4, <1>5, <1>7, <2>2 DEF BoughtRows, Bought, StepChargedOnce
<1>8. QED
  BY <1>6, <1>7

LEMMA SequenceMoneyStep ==
    ASSUME SequenceTypeOK, AtHand, ChargedRows, StepChargedOnce, [SequenceNext]_sequenceVars
    PROVE  ChargedRows' /\ StepChargedOnce'
<1>1. ASSUME NEW c \in Audience, NEW s \in Stages,
             SendMail(c, s) \/ RejectMail(c, s) \/ ReportRead(c, s)
      PROVE  ChargedRows' /\ StepChargedOnce'
  <2>1. /\ <<c, s>> \in Audience \X Stages /\ <<c, s>>[2] = s
        /\ s # 0 => <<c, s>> \in Audience \X Steps
        /\ execution \in [Audience \X Steps -> {"NONE", "QUEUED", "SENT", "FAILED", "SKIPPED"}]
    BY SequenceIndices DEF SequenceTypeOK
  <2>2. CASE SendMail(c, s)
    <3>1. mail[<<c, s>>] = "QUEUED"
      BY <2>2 DEF SendMail, ChargedRows
    <3>2. \A y \in Audience \X Steps :
              execution'[y] = execution[y] \/ (y = <<c, s>> /\ execution'[y] \notin {"NONE", "SKIPPED"})
      BY <2>1, <2>2 DEF SendMail
    <3>3. QED
      BY <2>1, <2>2, <3>1, <3>2, MailMoves DEF SendMail, MailStatus
  <2>3. CASE RejectMail(c, s)
    <3>1. mail[<<c, s>>] = "QUEUED"
      BY <2>3 DEF RejectMail, ChargedRows
    <3>2. \A y \in Audience \X Steps :
              execution'[y] = execution[y] \/ (y = <<c, s>> /\ execution'[y] \notin {"NONE", "SKIPPED"})
      BY <2>1, <2>3 DEF RejectMail
    <3>3. QED
      BY <2>1, <2>3, <3>1, <3>2, MailMoves DEF RejectMail, MailStatus
  <2>4. CASE ReportRead(c, s)
    <3>1. mail[<<c, s>>] = "SENT" /\ <<c, s>> \notin toSend
      BY <2>4 DEF ReportRead, ChargedRows
    <3>2. QED
      BY <2>1, <2>4, <3>1, MailMoves DEF ReportRead, MailStatus
  <2>5. QED
    BY <1>1, <2>2, <2>3, <2>4
<1>2. ASSUME NEW c \in Audience, Reply(c) \/ OptOut(c) \/ \E s \in Stages : FallDue(c, s)
      PROVE  ChargedRows' /\ StepChargedOnce'
  <2>1. UNCHANGED <<mail, made, purse, toSend, execution, ticker>>
    BY <1>2 DEF Reply, OptOut, FallDue
  <2>2. \A u \in Tickers : Row(u)' = Row(u)
    BY <2>1 DEF Row, Now
  <2>3. QED
    BY <2>1, <2>2, NoMailMoves
<1>3. ASSUME NEW t \in Tickers,
             StartRun(t) \/ SelectContexts(t) \/ LookAt(t) \/ SkipContact(t) \/ RunDies(t)
      PROVE  ChargedRows' /\ StepChargedOnce'
  <2>1. UNCHANGED <<mail, made, purse, toSend>>
    BY <1>3 DEF StartRun, SelectContexts, LookAt, SkipContact, RunDies
  <2>2. \A x \in Audience \X Steps :
            execution'[x] = execution[x] \/ (execution[x] = "NONE" /\ execution'[x] \in {"SKIPPED", "FAILED"})
    <3>1. SkipContact(t) => Row(t) \in Audience \X Steps /\ Row(t) = <<Row(t)[1], Row(t)[2]>>
      BY RowType DEF SkipContact
    <3>2. execution \in [Audience \X Steps -> {"NONE", "QUEUED", "SENT", "FAILED", "SKIPPED"}]
      BY DEF SequenceTypeOK
    <3>3. CASE SkipContact(t)
      BY <3>1, <3>2, <3>3 DEF SkipContact, Undone
    <3>4. CASE ~SkipContact(t)
      BY <1>3, <3>4 DEF StartRun, SelectContexts, LookAt, RunDies
    <3>5. QED
      BY <3>3, <3>4
  <2>3. \A u \in Tickers : ticker'[u].pc = "add" => ticker[u].pc = "add" /\ Row(u)' = Row(u)
    BY <1>3, RunTicks, AddersRemain
  <2>4. QED
    BY <2>1, <2>2, <2>3, NoMailMoves
<1>4. ASSUME NEW t \in Tickers, AddJob(t) PROVE ChargedRows' /\ StepChargedOnce'
  <2>1. \A u \in Tickers : ticker'[u].pc = "add" =>
            u # t /\ ticker[u].pc = "add" /\ Row(u)' = Row(u)
    BY <1>4, RunTicks, AddersRemain
  <2>2. UNCHANGED <<mail, made, purse, execution>> /\ toSend' \subseteq toSend \cup {Row(t)}
    BY <1>4 DEF AddJob
  <2>3. mail[Row(t)] = "QUEUED"
    BY <1>4 DEF AddJob, ChargedRows
  <2>4. \A u \in Tickers : ticker'[u].pc = "add" =>
            mail'[Row(u)'] = "QUEUED" /\ Row(u)' \notin toSend' /\ Row(u) # Row(t)
    BY <1>4, <2>1, <2>2 DEF AddJob, ChargedRows
  <2>5. ChargedRows'
    BY <2>1, <2>2, <2>3, <2>4 DEF ChargedRows
  <2>6. StepChargedOnce'
    BY <2>2 DEF StepChargedOnce
  <2>7. QED
    BY <2>5, <2>6
<1>5. ASSUME NEW t \in Tickers, ChargeContact(t) PROVE ChargedRows' /\ StepChargedOnce'
  <2>1. Row(t) \in Audience \X Steps /\ Row(t) \in Audience \X Stages
        /\ Row(t) = <<Row(t)[1], Row(t)[2]>> /\ toSend' = toSend
    BY <1>5, RowType DEF ChargeContact
  <2>2. execution \in [Audience \X Steps -> {"NONE", "QUEUED", "SENT", "FAILED", "SKIPPED"}]
    BY DEF SequenceTypeOK
  <2>3. CASE Ticks(t) /\ UNCHANGED <<purse, mail, made>>
               /\ (UNCHANGED execution \/
                     (Undone(Row(t)[1], Row(t)[2]) /\ execution' = [execution EXCEPT ![Row(t)] = "FAILED"]))
    <3>1. \A x \in Audience \X Steps :
              execution'[x] = execution[x] \/ (execution[x] = "NONE" /\ execution'[x] \in {"SKIPPED", "FAILED"})
      BY <2>1, <2>2, <2>3 DEF Undone
    <3>2. \A u \in Tickers : ticker'[u].pc = "add" => ticker[u].pc = "add" /\ Row(u)' = Row(u)
      BY <2>3, AddersRemain
    <3>3. QED
      BY <2>1, <2>3, <3>1, <3>2, NoMailMoves
  <2>4. CASE /\ TickerTurn(t, "add") /\ Undone(Row(t)[1], Row(t)[2]) /\ purse >= 1
             /\ purse' = purse - 1
             /\ mail' = [mail EXCEPT ![Row(t)] = "QUEUED"]
             /\ made' = [made EXCEPT ![Row(t)] = @ + 1]
             /\ execution' = [execution EXCEPT ![Row(t)] = "QUEUED"]
    <3>1. PICK x \in Audience \X Steps : x = Row(t)
      BY <2>1
    <3>2. /\ execution[x] = "NONE" /\ mail[x] = "NONE" /\ x \notin toSend /\ made[x] = 0
          /\ x \in Audience \X Stages
      BY <2>1, <2>4, <3>1, StepChargedMeans DEF Undone, ChargedRows
    <3>3. /\ mail'[x] = "QUEUED" /\ made'[x] = 1 /\ execution'[x] = "QUEUED"
          /\ \A y \in Audience \X Stages : y # x => mail'[y] = mail[y]
          /\ \A y \in Audience \X Steps : y # x => made'[y] = made[y] /\ execution'[y] = execution[y]
          /\ purse' = purse - 1 /\ purse \in Nat /\ toSend' = toSend
          /\ toSend \subseteq Audience \X Stages
          /\ Audience \X Steps \subseteq Audience \X Stages
      BY <2>1, <2>4, <3>1, <3>2, SequenceIndices DEF SequenceTypeOK
    <3>4. \A u \in Tickers : Row(u)' = Row(u) /\ (u # t => ticker'[u].pc = ticker[u].pc)
      BY <2>4 DEF TickerTurn, Row, Now, SequenceTypeOK, TickerRow
    <3>5. \A u \in Tickers : u # t /\ ticker[u].pc = "add" =>
              Row(u) # x /\ Row(u) \in Audience \X Stages
      BY <3>2, RowType DEF ChargedRows
    <3>6. ChargedRows'
      <4>1. \A y \in Audience \X Steps : execution'[y] \in {"NONE", "SKIPPED"} => mail'[y] = "NONE"
        BY <3>3 DEF ChargedRows
      <4>2. \A y \in toSend' : mail'[y] = "QUEUED"
        BY <3>2, <3>3 DEF ChargedRows
      <4>3. \A u \in Tickers : ticker'[u].pc = "add" => mail'[Row(u)'] = "QUEUED" /\ Row(u)' \notin toSend'
        BY <3>1, <3>2, <3>3, <3>4, <3>5 DEF ChargedRows
      <4>4. \A v, u \in Tickers :
              v # u /\ ticker'[v].pc = "add" /\ ticker'[u].pc = "add" => Row(v)' # Row(u)'
        BY <3>1, <3>4, <3>5 DEF ChargedRows
      <4>5. QED
        BY <4>1, <4>2, <4>3, <4>4 DEF ChargedRows
    <3>7. BoughtRows' = BoughtRows \cup {x} /\ x \notin BoughtRows
      BY <3>2, <3>3 DEF BoughtRows, Bought
    <3>8. purse' + Cardinality(BoughtRows') = Purse
      BY <3>3, <3>7, BoughtCount, StepChargedMeans
    <3>9. \A y \in Audience \X Steps : made'[y] = IF mail'[y] = "NONE" THEN 0 ELSE 1
      BY <3>3, StepChargedMeans
    <3>10. QED
      BY <3>6, <3>8, <3>9 DEF BoughtRows, Bought, StepChargedOnce
  <2>5. QED
    BY <1>5, <2>3, <2>4, ChargeMoves
<1>6. CASE UNCHANGED sequenceVars
  <2>1. UNCHANGED <<mail, made, purse, toSend, execution, ticker>>
    BY <1>6 DEF sequenceVars
  <2>2. \A u \in Tickers : Row(u)' = Row(u)
    BY <2>1 DEF Row, Now
  <2>3. QED
    BY <2>1, <2>2, NoMailMoves
<1>7. QED
  BY <1>1, <1>2, <1>3, <1>4, <1>5, <1>6 DEF SequenceNext, RunStep

\* Type correctness of the follow-up steps, for any campaign and any number of
\* processes that run them.
THEOREM SequenceTypes == SequenceSpec => []SequenceTypeOK
<1>1. SequenceInit => SequenceTypeOK /\ AtHand
  BY SequenceStarts
<1>2. (SequenceTypeOK /\ AtHand) /\ [SequenceNext]_sequenceVars => (SequenceTypeOK /\ AtHand)'
  BY SequenceTypesStep
<1>3. QED
  BY <1>1, <1>2, PTL DEF SequenceSpec

\* However many runs overlap and whatever fails, a contact is charged for a
\* step once, and the wallet holds what has not been spent or was paid back.
THEOREM StepsChargeOnce == SequenceSpec => []StepChargedOnce
<1>1. SequenceInit => SequenceInv
  BY SequenceStarts DEF SequenceInv
<1>2. SequenceInv /\ [SequenceNext]_sequenceVars => SequenceInv'
  BY SequenceTypesStep, SequenceMoneyStep DEF SequenceInv
<1>3. SequenceInv => StepChargedOnce
  BY DEF SequenceInv
<1>4. QED
  BY <1>1, <1>2, <1>3, PTL DEF SequenceSpec

-----------------------------------------------------------------------------
(* Automations.                                                            *)

LEMMA FlowConstants ==
    /\ Nodes = 1 .. Len(Kind) /\ Len(Kind) \in Nat /\ 1 \in Nodes /\ 0 \notin Nodes
    /\ IsFiniteSet(Nodes) /\ IsFiniteSet(Inbound \X Nodes)
    /\ \A n \in Nodes : /\ Kind[n] \in {"SEND", "WAIT", "END"}
                        /\ Leads[n] \in Nodes \cup {0} /\ Failing[n] \in Nodes \cup {0}
<1>1. Nodes = 1 .. Len(Kind) /\ Len(Kind) \in Nat /\ Len(Kind) # 0
  BY AutomationAssumption, LenProperties, EmptySeq DEF Nodes
<1>2. IsFiniteSet(Nodes)
  BY <1>1, FS_Interval
<1>3. IsFiniteSet(Inbound \X Nodes)
  BY <1>2, AutomationAssumption, FS_Product
<1>4. \A n \in Nodes : /\ Kind[n] \in {"SEND", "WAIT", "END"}
                       /\ Leads[n] \in Nodes \cup {0} /\ Failing[n] \in Nodes \cup {0}
  BY <1>1, AutomationAssumption, ElementOfSeq DEF Nodes
<1>5. QED
  BY <1>1, <1>2, <1>3, <1>4

LEMMA IdleType == Idle \in HandRow /\ Idle.pc = "idle" /\ ~Idle.owner
<1>1. (CHOOSE m \in Inbound : TRUE) \in Inbound
  BY AutomationAssumption
<1>2. QED
  BY <1>1 DEF Idle, HandRow

\* A hand that runs a flow has a session; one that is in a node has a node; a
\* step that sends has its job before it is done.
Underway == {"resume", "enter", "create", "link", "count", "tally", "node", "act", "charge", "add", "note",
             "wait", "end", "finish", "place", "waiting", "still", "stop", "complete", "close",
             "success", "caught", "fail", "quit", "abort", "drop"}
InNode == {"act", "charge", "add", "note", "wait", "end", "finish", "place", "waiting", "still", "stop",
           "caught"}
Seated(row) ==
    /\ row.pc \in Underway => row.sid \in DOMAIN session
    /\ row.pc \in InNode => row.at \in Nodes
    /\ row.pc \in {"wait", "end"} => Kind[row.at] # "SEND"
    /\ row.pc \in {"note", "finish"} /\ Kind[row.at] = "SEND" => <<row.of, row.at>> \in posted
HandsPlaced == \A h \in Hands : Seated(hand[h])

\* A job is run by the hand that owns it, and by no other unless its lock is lost.
JobsOwned ==
    /\ \A m \in Inbound :
           /\ ready[m] = "none" => attempt[m] = 0
           /\ ready[m] = "waiting" => attempt[m] < Attempts
           /\ ready[m] = "active" => attempt[m] > 0
           /\ ready[m] # "over" => stall[m] <= MaxStalls
    /\ \A h \in Hands :
           /\ hand[h].owner => ready[hand[h].of] = "active"
           /\ hand[h].pc = "idle" => ~hand[h].owner
           /\ hand[h].pc # "idle" => hand[h].owner \/ Suffers("lock")
           /\ hand[h].pc = "tally" => counted[hand[h].of] = 0 \/ Suffers("lock")
    /\ \A g, h \in Hands : hand[g].owner /\ hand[h].owner /\ hand[g].of = hand[h].of => g = h

\* Sessions.
LEMMA UpdateType ==
    ASSUME AutomationTypeOK, NEW id \in DOMAIN session, NEW row \in SessionRow, Update(id, row)
    PROVE  /\ session' \in Seq(SessionRow) /\ DOMAIN session' = DOMAIN session
           /\ touched' \in Seq(DOMAIN session') /\ ToSet(touched') = DOMAIN session'
<1> DEFINE D == DOMAIN session
<1>1. session \in Seq(SessionRow) /\ touched \in Seq(D) /\ ToSet(touched) = D
  BY DEF AutomationTypeOK
<1>2. session' \in Seq(SessionRow) /\ DOMAIN session' = D
  BY <1>1, ExceptSeq, LenProperties DEF Update
<1> HIDE DEF D
<1>3. PICK q \in Seq(D \cap (D \ {id})) : q = Selected(touched, D \ {id})
  BY <1>1, SelectedType
<1>4. q \in Seq(D) /\ ToSet(q) = D \cap (D \ {id}) /\ id \in D
  <2>1. q \in Seq(D)
    BY <1>3, SeqMonotonic
  <2>2. QED
    BY <1>1, <1>3, <2>1, SelectedType DEF D
<1>5. touched' = Append(q, id)
  BY <1>3 DEF Update, D
<1>6. touched' \in Seq(D) /\ ToSet(touched') = ToSet(q) \cup {id}
  BY <1>4, <1>5, AppendProperties, ToSetOfAppend
<1>7. ToSet(touched') = D
  BY <1>4, <1>6
<1>8. QED
  BY <1>2, <1>6, <1>7 DEF D

LEMMA OpenType ==
    ASSUME AutomationTypeOK, Open # <<>>
    PROVE  Last(Open) \in DOMAIN session /\ GoesOnAt(session[Last(Open)]) \in Nodes \cup {0}
<1> DEFINE T == {i \in DOMAIN session : session[i].status \in {"ACTIVE", "WAITING"}}
<1>1. touched \in Seq(DOMAIN session) /\ session \in Seq(SessionRow)
  BY DEF AutomationTypeOK
<1>2. Open \in Seq(DOMAIN session \cap T)
  BY <1>1, SelectedType DEF Open
<1>3. Last(Open) \in DOMAIN session
  <2>1. Len(Open) \in 1 .. Len(Open)
    BY <1>2, EmptySeq
  <2>2. QED
    BY <1>2, <2>1, ElementOfSeq DEF Last
<1>4. session[Last(Open)] \in SessionRow
  BY <1>1, <1>3, LenProperties, ElementOfSeq
<1>5. QED
  BY <1>3, <1>4, FlowConstants DEF GoesOnAt, SessionRow

LEMMA SessionType ==
    ASSUME AutomationTypeOK, NEW h \in Hands, hand[h].sid \in DOMAIN session
    PROVE  Session(h) \in SessionRow
BY LenProperties, ElementOfSeq DEF AutomationTypeOK, Session

-----------------------------------------------------------------------------
(* One step of a hand that has its job: only its own row changes, and what *)
(* the others rely on grows.                                               *)

Grows ==
    /\ DOMAIN session \subseteq DOMAIN session'
    /\ posted \subseteq posted'

LEMMA OthersStayPlaced ==
    ASSUME AutomationTypeOK, HandsPlaced, Grows, NEW h \in Hands, NEW row \in HandRow,
           Seated(row)', hand' = [hand EXCEPT ![h] = row]
    PROVE  HandsPlaced' /\ hand' \in [Hands -> HandRow]
<1>1. hand \in [Hands -> HandRow]
  BY DEF AutomationTypeOK
<1>2. \A g \in Hands : hand'[g] = IF g = h THEN row ELSE hand[g]
  BY <1>1
<1>3. ASSUME NEW g \in Hands, g # h PROVE Seated(hand[g])'
  BY <1>2, <1>3 DEF HandsPlaced, Seated, Grows
<1>4. QED
  BY <1>1, <1>2, <1>3 DEF HandsPlaced, Seated

SessionsOK ==
    /\ session \in Seq(SessionRow)
    /\ touched \in Seq(DOMAIN session) /\ ToSet(touched) = DOMAIN session
DataOK ==
    /\ automation \in [Inbound -> {"NONE", "RUNNING", "WAITING", "SUCCESS", "FAILED"}]
    /\ done \subseteq Inbound \X Nodes \X Hands
    /\ sent \in [Inbound \X Nodes -> Nat] /\ posted \subseteq Inbound \X Nodes
    /\ credit \in Nat /\ usage \in Nat /\ counted \in [Inbound -> Nat]
JobsOK ==
    /\ ready \in [Inbound -> {"none", "waiting", "active", "over"}]
    /\ attempt \in [Inbound -> 0..Attempts] /\ stall \in [Inbound -> 0..MaxStalls + 1]

LEMMA TypeParts ==
    AutomationTypeOK <=>
        /\ autoEnv \in AutomationEnvironments
        /\ SessionsOK /\ DataOK /\ JobsOK /\ hand \in [Hands -> HandRow]
BY DEF AutomationTypeOK, SessionsOK, DataOK, JobsOK

\* The inductive invariant of an automation.
Kept == AutomationTypeOK /\ HandsPlaced /\ JobsOwned

\* A hand goes on with its job.
TurnTo(h, row) ==
    /\ row \in HandRow /\ hand' = [hand EXCEPT ![h] = row]
    /\ hand[h].pc # "idle" /\ row.pc # "idle"
    /\ row.owner = hand[h].owner /\ row.of = hand[h].of
    /\ UNCHANGED jobVars

LEMMA TurnKeeps ==
    ASSUME Kept, NEW h \in Hands, NEW row \in HandRow, TurnTo(h, row), Seated(row)', Grows,
           SessionsOK', DataOK', UNCHANGED autoEnv,
           row.pc = "tally" => counted'[row.of] = 0,
           \A m \in Inbound : m # row.of => counted'[m] = counted[m],
           counted' = counted \/ row.pc = "node"
    PROVE  Kept'
<1>1. HandsPlaced' /\ hand' \in [Hands -> HandRow]
  BY OthersStayPlaced DEF TurnTo, Kept
<1>2. JobsOK /\ autoEnv \in AutomationEnvironments /\ hand \in [Hands -> HandRow]
  BY TypeParts DEF Kept
<1>3. JobsOK' /\ autoEnv' \in AutomationEnvironments
  BY <1>2 DEF JobsOK, TurnTo, jobVars
<1>4. AutomationTypeOK'
  BY <1>1, <1>3, TypeParts DEF AutomationTypeOK, SessionsOK, DataOK, JobsOK
<1>5. \A g \in Hands : /\ hand'[g] = IF g = h THEN row ELSE hand[g]
                       /\ hand'[g].owner = hand[g].owner /\ hand'[g].of = hand[g].of
                       /\ hand'[g].pc = "idle" <=> hand[g].pc = "idle"
  BY <1>2 DEF TurnTo
<1>6. \A g \in Hands : hand'[g].pc = "tally" => counted'[hand'[g].of] = 0 \/ Suffers("lock")
  <2>1. ASSUME NEW g \in Hands, g # h, hand'[g].pc = "tally", ~Suffers("lock")
        PROVE  counted'[hand'[g].of] = 0
    <3>1. hand[g].pc = "tally" /\ hand[g].owner /\ hand[h].owner /\ hand[g].of \in Inbound
      BY <1>2, <1>5, <2>1 DEF Kept, JobsOwned, TurnTo, HandRow
    <3>2. hand[g].of # hand[h].of
      BY <2>1, <3>1 DEF Kept, JobsOwned
    <3>3. counted[hand[g].of] = 0
      BY <2>1, <3>1 DEF Kept, JobsOwned
    <3>4. QED
      BY <1>5, <3>1, <3>2, <3>3 DEF TurnTo
  <2>2. QED
    BY <1>5, <2>1
<1>7. JobsOwned'
  <2>1. UNCHANGED <<ready, attempt, stall>> /\ (Suffers("lock")' <=> Suffers("lock"))
    BY DEF TurnTo, jobVars, Suffers
  <2>2. QED
    BY <1>5, <1>6, <2>1 DEF Kept, JobsOwned
<1>8. QED
  BY <1>1, <1>4, <1>7 DEF Kept

LEMMA LeaveKeeps ==
    ASSUME Kept, NEW h \in Hands, hand[h].pc # "idle", NEW state \in {"waiting", "over"},
           Leave(h, state), state = "waiting" => attempt[hand[h].of] < Attempts, Grows,
           SessionsOK', DataOK', UNCHANGED <<autoEnv, counted>>
    PROVE  Kept'
<1>1. HandsPlaced' /\ hand' \in [Hands -> HandRow]
  <2>1. Seated(Idle)'
    BY IdleType DEF Seated, Underway, InNode
  <2>2. QED
    BY <2>1, IdleType, OthersStayPlaced DEF Leave, Kept
<1>2. JobsOK /\ autoEnv \in AutomationEnvironments /\ hand \in [Hands -> HandRow]
  BY TypeParts DEF Kept
<1>3. hand[h].of \in Inbound
  BY <1>2 DEF HandRow
<1>4. JobsOK' /\ autoEnv' \in AutomationEnvironments
  BY <1>2 DEF JobsOK, Leave
<1>5. AutomationTypeOK'
  BY <1>1, <1>4, TypeParts DEF AutomationTypeOK, SessionsOK, DataOK, JobsOK
<1>6. \A g \in Hands : hand'[g] = IF g = h THEN Idle ELSE hand[g]
  BY <1>2 DEF Leave
<1>7. \A m \in Inbound : ready'[m] = IF hand[h].owner /\ m = hand[h].of THEN state ELSE ready[m]
  BY <1>2 DEF Leave, JobsOK
<1>8. UNCHANGED <<attempt, stall, counted>> /\ (Suffers("lock")' <=> Suffers("lock"))
  BY DEF Leave, Suffers
<1>9. hand[h].owner => ready[hand[h].of] = "active"
  BY DEF Kept, JobsOwned
<1>10. \A g \in Hands : g # h /\ hand[g].owner /\ hand[h].owner => hand[g].of # hand[h].of
  BY DEF Kept, JobsOwned
<1>11. JobsOwned'
  <2>1. \A m \in Inbound :
           /\ ready'[m] = "none" => attempt'[m] = 0
           /\ ready'[m] = "waiting" => attempt'[m] < Attempts
           /\ ready'[m] = "active" => attempt'[m] > 0
           /\ ready'[m] # "over" => stall'[m] <= MaxStalls
    BY <1>3, <1>7, <1>8, <1>9 DEF Kept, JobsOwned
  <2>2. \A g \in Hands :
           /\ hand'[g].owner => ready'[hand'[g].of] = "active"
           /\ hand'[g].pc = "idle" => ~hand'[g].owner
           /\ hand'[g].pc # "idle" => hand'[g].owner \/ Suffers("lock")
           /\ hand'[g].pc = "tally" => counted'[hand'[g].of] = 0 \/ Suffers("lock")
    <3>1. \A g \in Hands : hand[g].of \in Inbound
      BY <1>2 DEF HandRow
    <3>2. QED
      BY <1>6, <1>7, <1>8, <1>10, <3>1, IdleType DEF Kept, JobsOwned
  <2>3. \A f, g \in Hands : hand'[f].owner /\ hand'[g].owner /\ hand'[f].of = hand'[g].of => f = g
    BY <1>6, IdleType DEF Kept, JobsOwned
  <2>4. QED
    BY <1>8, <2>1, <2>2, <2>3 DEF JobsOwned
<1>12. QED
  BY <1>1, <1>5, <1>11 DEF Kept

\* What an action that leaves some of the data alone owes of the rest.
LEMMA DataStays ==
    ASSUME AutomationTypeOK, UNCHANGED dataVars
    PROVE  Grows /\ SessionsOK' /\ DataOK' /\ DOMAIN session' = DOMAIN session
<1>1. SessionsOK /\ DataOK
  BY TypeParts
<1>2. QED
  BY <1>1 DEF dataVars, Grows, SessionsOK, DataOK

LEMMA SessionMoves ==
    ASSUME AutomationTypeOK, NEW id \in DOMAIN session, NEW row \in SessionRow, Update(id, row),
           UNCHANGED <<automation, done, sent, posted, credit, usage, counted>>
    PROVE  Grows /\ SessionsOK' /\ DataOK' /\ DOMAIN session' = DOMAIN session
<1>1. DataOK
  BY TypeParts
<1>2. DataOK'
  BY <1>1 DEF DataOK
<1>3. /\ session' \in Seq(SessionRow) /\ DOMAIN session' = DOMAIN session
      /\ touched' \in Seq(DOMAIN session') /\ ToSet(touched') = DOMAIN session'
  BY UpdateType
<1>4. QED
  BY <1>2, <1>3 DEF Grows, SessionsOK

LEMMA DataMoves ==
    ASSUME AutomationTypeOK, UNCHANGED <<session, touched>>, posted \subseteq posted'
    PROVE  Grows /\ SessionsOK' /\ DOMAIN session' = DOMAIN session
BY DEF Grows, SessionsOK, AutomationTypeOK

\* A hand that only moves on in its handler.
Busy == Underway \cup {"find", "begin"}
LEMMA PcKeeps ==
    ASSUME Kept, NEW h \in Hands, NEW pc \in Busy, hand[h].pc # "idle", HandTurn(h, pc), Grows,
           SessionsOK', DataOK', UNCHANGED autoEnv,
           pc = "tally" => counted'[hand[h].of] = 0,
           \A m \in Inbound : m # hand[h].of => counted'[m] = counted[m],
           counted' = counted \/ pc = "node",
           pc \in Underway => hand[h].sid \in DOMAIN session',
           pc \in InNode => hand[h].at \in Nodes,
           pc \in {"wait", "end"} => Kind[hand[h].at] # "SEND",
           pc \in {"note", "finish"} /\ Kind[hand[h].at] = "SEND" => <<hand[h].of, hand[h].at>> \in posted'
    PROVE  Kept'
<1>1. hand[h] \in HandRow /\ hand \in [Hands -> HandRow]
  BY DEF Kept, AutomationTypeOK
<1>2. PICK row \in HandRow : row = [hand[h] EXCEPT !.pc = pc]
  BY <1>1 DEF HandRow, Busy, Underway
<1>3. /\ row.pc = pc /\ row.of = hand[h].of /\ row.sid = hand[h].sid /\ row.at = hand[h].at
      /\ row.owner = hand[h].owner
  BY <1>1, <1>2 DEF HandRow
<1>4. hand' = [hand EXCEPT ![h] = row]
  BY <1>2, <1>1 DEF HandTurn
<1>5. TurnTo(h, row)
  BY <1>3, <1>4 DEF TurnTo, HandTurn, Busy, Underway
<1>6. Seated(row)'
  BY <1>3 DEF Seated, Nodes
<1>7. QED
  BY <1>3, <1>5, <1>6, TurnKeeps

LEMMA PcAlone ==
    ASSUME Kept, NEW h \in Hands, NEW pc \in Busy, hand[h].pc # "idle", HandTurn(h, pc),
           UNCHANGED <<autoEnv, dataVars>>,
           pc = "tally" => counted[hand[h].of] = 0,
           pc \in Underway => hand[h].sid \in DOMAIN session,
           pc \in InNode => hand[h].at \in Nodes,
           pc \in {"wait", "end"} => Kind[hand[h].at] # "SEND",
           pc \in {"note", "finish"} /\ Kind[hand[h].at] = "SEND" => <<hand[h].of, hand[h].at>> \in posted
    PROVE  Kept'
<1>1. Grows /\ SessionsOK' /\ DataOK'
  BY DataStays DEF Kept
<1>2. UNCHANGED <<session, posted, counted>>
  BY DEF dataVars
<1>3. QED
  BY <1>1, <1>2, PcKeeps

LEMMA ThrowKeeps ==
    ASSUME Kept, NEW h \in Hands, hand[h].pc # "idle", ThrowJob(h) \/ Return(h),
           Grows, SessionsOK', DataOK', UNCHANGED <<autoEnv, counted>>
    PROVE  Kept'
<1>1. CASE Return(h)
  BY <1>1, LeaveKeeps DEF Return
<1>2. CASE ThrowJob(h)
  <2> DEFINE state == IF attempt[hand[h].of] < Attempts THEN "waiting" ELSE "over"
  <2>1. state \in {"waiting", "over"} /\ (state = "waiting" => attempt[hand[h].of] < Attempts)
    OBVIOUS
  <2>2. Leave(h, state)
    BY <1>2 DEF ThrowJob
  <2> HIDE DEF state
  <2>3. QED
    BY <2>1, <2>2, LeaveKeeps
<1>3. QED
  BY <1>1, <1>2

\* What is known of the hand that takes a step.
LEMMA HandAtWork ==
    ASSUME Kept, NEW h \in Hands
    PROVE  /\ hand[h] \in HandRow /\ hand[h].of \in Inbound /\ hand[h].at \in Nodes \cup {0}
           /\ Seated(hand[h]) /\ hand \in [Hands -> HandRow] /\ AutomationTypeOK
BY DEF Kept, AutomationTypeOK, HandsPlaced, HandRow

-----------------------------------------------------------------------------
(* The actions.                                                            *)

LEMMA KeptByFind == ASSUME Kept, NEW h \in Hands, FindSession(h) PROVE Kept'
<1>1. hand[h].pc = "find" /\ Grows /\ SessionsOK' /\ DataOK' /\ UNCHANGED <<autoEnv, counted>>
  BY DataStays DEF Kept, FindSession, dataVars
<1>2. CASE Return(h)
  BY <1>1, <1>2, ThrowKeeps
<1>3. CASE Open # <<>> /\ hand' = [hand EXCEPT ![h].pc = "resume", ![h].sid = Last(Open),
                                      ![h].at = GoesOnAt(session[Last(Open)])] /\ UNCHANGED jobVars
  <2>1. PICK s, n : s = Last(Open) /\ n = GoesOnAt(session[Last(Open)])
    OBVIOUS
  <2>2. s \in DOMAIN session /\ n \in Nodes \cup {0}
    BY <1>3, <2>1, OpenType DEF Kept
  <2>3. s \in Nat
    BY <2>2, LenProperties DEF Kept, AutomationTypeOK
  <2>4. hand[h] \in HandRow /\ hand \in [Hands -> HandRow]
    BY HandAtWork
  <2>5. PICK row : row = [hand[h] EXCEPT !.pc = "resume", !.sid = s, !.at = n]
    OBVIOUS
  <2>6. /\ row \in HandRow /\ row.pc = "resume" /\ row.sid = s /\ row.of = hand[h].of
        /\ row.owner = hand[h].owner
    BY <2>2, <2>3, <2>4, <2>5 DEF HandRow
  <2>7. hand' = [hand EXCEPT ![h] = row]
    BY <1>3, <2>1, <2>4, <2>5
  <2>8. TurnTo(h, row)
    BY <1>1, <1>3, <2>6, <2>7 DEF TurnTo
  <2>9. Seated(row)'
    BY <1>1, <2>2, <2>6 DEF Seated, Underway, InNode, Grows
  <2>10. QED
    BY <1>1, <2>6, <2>8, <2>9, TurnKeeps
<1>4. CASE HandTurn(h, "begin")
  BY <1>1, <1>4, PcKeeps DEF Busy, Underway, InNode
<1>5. QED
  BY <1>2, <1>3, <1>4 DEF FindSession

LEMMA KeptByResume == ASSUME Kept, NEW h \in Hands, Resume(h) PROVE Kept'
<1>1. hand[h].pc = "resume" /\ hand[h].sid \in DOMAIN session /\ AutomationTypeOK
  BY HandAtWork DEF Resume, Seated, Underway
<1>2. PICK row \in SessionRow : row = [Session(h) EXCEPT !.status = "ACTIVE", !.waits = 0]
  BY <1>1, SessionType DEF SessionRow
<1>3. Update(hand[h].sid, row)
  BY <1>2 DEF Resume
<1>4. UNCHANGED <<autoEnv, automation, done, sent, posted, credit, usage, counted>>
  BY DEF Resume
<1>5. Grows /\ SessionsOK' /\ DataOK' /\ DOMAIN session' = DOMAIN session
  BY <1>1, <1>3, <1>4, SessionMoves
<1>6. HandTurn(h, "enter")
  BY DEF Resume
<1>7. QED
  BY <1>1, <1>4, <1>5, <1>6, PcKeeps DEF Busy, Underway, InNode

LEMMA KeptByBegin == ASSUME Kept, NEW h \in Hands, BeginSession(h) PROVE Kept'
<1>1. hand[h] \in HandRow /\ hand \in [Hands -> HandRow] /\ AutomationTypeOK
  BY HandAtWork
<1>2. /\ session \in Seq(SessionRow) /\ touched \in Seq(DOMAIN session)
      /\ ToSet(touched) = DOMAIN session
  BY <1>1 DEF AutomationTypeOK
<1>3. PICK n \in Nat : n = Len(session) + 1
  BY <1>2, LenProperties
<1>4. [status |-> "ACTIVE", node |-> 1, waits |-> 0] \in SessionRow
  BY FlowConstants DEF SessionRow
<1>5. session' \in Seq(SessionRow) /\ DOMAIN session' = DOMAIN session \cup {n}
  <2>1. session' = Append(session, [status |-> "ACTIVE", node |-> 1, waits |-> 0])
    BY DEF BeginSession
  <2>2. session' \in Seq(SessionRow) /\ Len(session') = n
    BY <1>2, <1>3, <1>4, <2>1, AppendProperties
  <2>3. DOMAIN session = 1 .. Len(session) /\ DOMAIN session' = 1 .. n /\ Len(session) \in Nat
    BY <1>2, <2>2, LenProperties
  <2>4. QED
    BY <1>3, <2>2, <2>3
<1>6. touched' \in Seq(DOMAIN session') /\ ToSet(touched') = DOMAIN session'
  <2>1. touched' = Append(touched, n)
    BY <1>3 DEF BeginSession
  <2>2. touched \in Seq(DOMAIN session') /\ n \in DOMAIN session'
    BY <1>2, <1>5, SeqMonotonic
  <2>3. QED
    BY <1>2, <1>5, <2>1, <2>2, AppendProperties, ToSetOfAppend
<1>7. SessionsOK' /\ Grows /\ DataOK' /\ UNCHANGED <<autoEnv, counted>>
  <2>1. DataOK /\ UNCHANGED <<autoEnv, automation, done, sent, posted, credit, usage, counted>>
    BY <1>1, TypeParts DEF BeginSession
  <2>2. QED
    BY <1>5, <1>6, <2>1 DEF SessionsOK, Grows, DataOK
<1>8. PICK row : row = [hand[h] EXCEPT !.pc = "enter", !.sid = n, !.at = 1]
  OBVIOUS
<1>9. /\ row \in HandRow /\ row.pc = "enter" /\ row.sid = n /\ row.of = hand[h].of
      /\ row.owner = hand[h].owner
  BY <1>1, <1>8, FlowConstants DEF HandRow
<1>10. TurnTo(h, row)
  BY <1>1, <1>3, <1>8, <1>9 DEF TurnTo, BeginSession
<1>11. Seated(row)'
  BY <1>5, <1>9 DEF Seated, Underway, InNode
<1>12. QED
  BY <1>7, <1>9, <1>10, <1>11, TurnKeeps

LEMMA KeptByEnter == ASSUME Kept, NEW h \in Hands, Enter(h) PROVE Kept'
<1>1. hand[h].pc = "enter" /\ hand[h].sid \in DOMAIN session /\ AutomationTypeOK
  BY HandAtWork DEF Enter, Seated, Underway
<1>2. UNCHANGED <<autoEnv, dataVars>> /\ Grows /\ SessionsOK' /\ DataOK'
  BY <1>1, DataStays DEF Enter
<1>3. CASE HandTurn(h, "create") \/ HandTurn(h, "count")
  BY <1>1, <1>2, <1>3, PcAlone DEF Busy, Underway, InNode
<1>4. CASE Return(h)
  BY <1>1, <1>2, <1>4, ThrowKeeps DEF dataVars
<1>5. QED
  BY <1>3, <1>4 DEF Enter

LEMMA KeptByCreate == ASSUME Kept, NEW h \in Hands, Create(h) PROVE Kept'
<1>1. hand[h].pc = "create" /\ hand[h].sid \in DOMAIN session /\ AutomationTypeOK
  BY HandAtWork DEF Create, Seated, Underway
<1>2. UNCHANGED <<autoEnv, session, touched, done, sent, posted, credit, usage, counted>>
  BY DEF Create
<1>3. automation' \in [Inbound -> {"NONE", "RUNNING", "WAITING", "SUCCESS", "FAILED"}]
  BY <1>1 DEF Create, AutomationTypeOK
<1>4. Grows /\ SessionsOK' /\ DataOK' /\ DOMAIN session' = DOMAIN session
  <2>1. DataOK
    BY <1>1, TypeParts
  <2>2. QED
    BY <1>1, <1>2, <1>3, <2>1, DataMoves DEF DataOK
<1>5. HandTurn(h, "link") \/ HandTurn(h, "node")
  BY DEF Create
<1>6. QED
  BY <1>1, <1>2, <1>4, <1>5, PcKeeps DEF Busy, Underway, InNode

LEMMA KeptByNote == ASSUME Kept, NEW h \in Hands, Note(h) PROVE Kept'
<1>1. /\ hand[h].pc \in {"link", "note"} /\ hand[h].sid \in DOMAIN session /\ AutomationTypeOK
      /\ Seated(hand[h])
  BY HandAtWork DEF Note, Seated, Underway
<1>2. PICK row \in SessionRow : row = Session(h)
  BY <1>1, SessionType
<1>3. Update(hand[h].sid, row)
  BY <1>2 DEF Note
<1>4. UNCHANGED <<autoEnv, automation, done, sent, posted, credit, usage, counted>>
  BY DEF Note
<1>5. Grows /\ SessionsOK' /\ DataOK' /\ DOMAIN session' = DOMAIN session
  BY <1>1, <1>3, <1>4, SessionMoves
<1>6. CASE HandTurn(h, "count")
  BY <1>1, <1>4, <1>5, <1>6, PcKeeps DEF Busy, Underway, InNode
<1>7. CASE hand[h].pc = "note" /\ HandTurn(h, "finish")
  <2>1. /\ hand[h].at \in Nodes
        /\ Kind[hand[h].at] = "SEND" => <<hand[h].of, hand[h].at>> \in posted
    BY <1>1, <1>7 DEF Seated, InNode
  <2>2. QED
    BY <1>1, <1>4, <1>5, <1>7, <2>1, PcKeeps DEF Busy, Underway, InNode
<1>8. QED
  BY <1>6, <1>7 DEF Note

LEMMA KeptByCount == ASSUME Kept, NEW h \in Hands, CountExecution(h) PROVE Kept'
<1>1. hand[h].pc = "count" /\ hand[h].sid \in DOMAIN session /\ AutomationTypeOK
  BY HandAtWork DEF CountExecution, Seated, Underway
<1>2. counted[hand[h].of] \in Nat /\ UNCHANGED <<autoEnv, dataVars>>
  BY HandAtWork DEF AutomationTypeOK, CountExecution
<1>3. CASE HandTurn(h, "node")
  BY <1>1, <1>2, <1>3, PcAlone DEF Busy, Underway, InNode
<1>4. CASE counted[hand[h].of] = 0 /\ HandTurn(h, "tally")
  BY <1>1, <1>2, <1>4, PcAlone DEF Busy, Underway, InNode
<1>5. QED
  BY <1>2, <1>3, <1>4 DEF CountExecution

LEMMA KeptByTally == ASSUME Kept, NEW h \in Hands, Tally(h) PROVE Kept'
<1>1. hand[h].pc = "tally" /\ hand[h].sid \in DOMAIN session /\ AutomationTypeOK
  BY HandAtWork DEF Tally, Seated, Underway
<1>2. UNCHANGED <<autoEnv, session, touched, automation, done, sent, posted, credit>>
  BY DEF Tally
<1>3. /\ usage' \in Nat /\ counted' \in [Inbound -> Nat]
      /\ \A m \in Inbound : m # hand[h].of => counted'[m] = counted[m]
  <2>1. usage \in Nat /\ counted \in [Inbound -> Nat] /\ hand[h].of \in Inbound
    BY <1>1, HandAtWork DEF AutomationTypeOK
  <2>2. usage' = usage + 1 /\ counted' = [counted EXCEPT ![hand[h].of] = @ + 1]
    BY DEF Tally
  <2>3. QED
    BY <2>1, <2>2
<1>4. Grows /\ SessionsOK' /\ DataOK' /\ DOMAIN session' = DOMAIN session
  <2>1. DataOK
    BY <1>1, TypeParts
  <2>2. QED
    BY <1>1, <1>2, <1>3, <2>1, DataMoves DEF DataOK
<1>5. HandTurn(h, "node")
  BY DEF Tally
<1>6. QED
  BY <1>1, <1>2, <1>3, <1>4, <1>5, PcKeeps DEF Busy, Underway, InNode

LEMMA KeptByNode == ASSUME Kept, NEW h \in Hands, AtNode(h) PROVE Kept'
<1>1. /\ hand[h].pc = "node" /\ hand[h].sid \in DOMAIN session /\ AutomationTypeOK
      /\ hand[h].at \in Nodes \cup {0} /\ hand[h] \in HandRow /\ hand \in [Hands -> HandRow]
  BY HandAtWork DEF AtNode, Seated, Underway
<1>2. UNCHANGED <<autoEnv, dataVars>> /\ Grows /\ SessionsOK' /\ DataOK'
  BY <1>1, DataStays DEF AtNode
<1>3. CASE HandTurn(h, "complete")
  BY <1>1, <1>2, <1>3, PcAlone DEF Busy, Underway, InNode
<1>4. CASE hand[h].at # 0 /\ HandTurn(h, "still")
  BY <1>1, <1>2, <1>4, PcAlone DEF Busy, Underway, InNode
<1>5. CASE /\ hand[h].at # 0
           /\ HandTurn(h, CASE Kind[hand[h].at] = "SEND" -> "act"
                         [] Kind[hand[h].at] = "WAIT" -> "wait"
                         [] OTHER -> "end")
  <2>1. CASE Kind[hand[h].at] = "SEND"
    BY <1>1, <1>2, <1>5, <2>1, PcAlone DEF Busy, Underway, InNode
  <2>2. CASE Kind[hand[h].at] = "WAIT"
    <3>1. HandTurn(h, "wait")
      BY <1>5, <2>2
    <3>2. QED
      BY <1>1, <1>2, <1>5, <2>2, <3>1, PcAlone DEF Busy, Underway, InNode
  <2>3. CASE Kind[hand[h].at] # "SEND" /\ Kind[hand[h].at] # "WAIT"
    <3>1. HandTurn(h, "end")
      BY <1>5, <2>3
    <3>2. QED
      BY <1>1, <1>2, <1>5, <2>3, <3>1, PcAlone DEF Busy, Underway, InNode
  <2>4. QED
    BY <2>1, <2>2, <2>3
<1>6. CASE hand[h].at # 0 /\ hand' = [hand EXCEPT ![h].at = Leads[@]] /\ UNCHANGED jobVars
  <2>1. PICK n \in Nodes \cup {0} : n = Leads[hand[h].at]
    BY <1>1, <1>6, FlowConstants
  <2>2. PICK row : row = [hand[h] EXCEPT !.at = n]
    OBVIOUS
  <2>3. /\ row \in HandRow /\ row.pc = "node" /\ row.sid = hand[h].sid /\ row.of = hand[h].of
        /\ row.owner = hand[h].owner
    BY <1>1, <2>2 DEF HandRow
  <2>4. hand' = [hand EXCEPT ![h] = row]
    BY <1>1, <1>6, <2>1, <2>2
  <2>5. TurnTo(h, row)
    BY <1>1, <1>6, <2>3, <2>4 DEF TurnTo
  <2>6. Seated(row)'
    BY <1>1, <1>2, <2>3 DEF Seated, Underway, InNode, Grows
  <2>7. QED
    BY <1>2, <2>3, <2>5, <2>6, TurnKeeps DEF dataVars
<1>7. QED
  BY <1>3, <1>4, <1>5, <1>6 DEF AtNode

LEMMA KeptByAct == ASSUME Kept, NEW h \in Hands, Act(h) PROVE Kept'
<1>1. /\ hand[h].pc = "act" /\ hand[h].sid \in DOMAIN session /\ hand[h].at \in Nodes
      /\ UNCHANGED <<autoEnv, dataVars>>
  BY HandAtWork DEF Act, Seated, Underway, InNode
<1>2. HandTurn(h, "add") \/ HandTurn(h, "charge")
  BY DEF Act
<1>3. QED
  BY <1>1, <1>2, PcAlone DEF Busy, Underway, InNode

LEMMA KeptByCharge == ASSUME Kept, NEW h \in Hands, ChargeNode(h) PROVE Kept'
<1>1. /\ hand[h].pc = "charge" /\ hand[h].sid \in DOMAIN session /\ hand[h].at \in Nodes
      /\ hand[h].of \in Inbound /\ AutomationTypeOK
      /\ UNCHANGED <<autoEnv, session, touched, automation, done, posted, usage, counted>>
  BY HandAtWork DEF ChargeNode, Seated, Underway, InNode
<1>2. sent' \in [Inbound \X Nodes -> Nat] /\ credit' \in Nat
  <2>1. sent \in [Inbound \X Nodes -> Nat] /\ credit \in Nat /\ Here(h) \in Inbound \X Nodes
    BY <1>1 DEF AutomationTypeOK, Here
  <2>2. \/ /\ credit > 0 /\ credit' = credit - 1
           /\ sent' = [sent EXCEPT ![Here(h)] = sent[Here(h)] + 1]
        \/ UNCHANGED <<credit, sent>>
    BY DEF ChargeNode
  <2>3. QED
    BY <2>1, <2>2
<1>3. Grows /\ SessionsOK' /\ DataOK' /\ DOMAIN session' = DOMAIN session
  <2>1. DataOK
    BY <1>1, TypeParts
  <2>2. QED
    BY <1>1, <1>2, <2>1, DataMoves DEF DataOK
<1>4. HandTurn(h, "add") \/ HandTurn(h, "caught")
  BY DEF ChargeNode
<1>5. QED
  BY <1>1, <1>3, <1>4, PcKeeps DEF Busy, Underway, InNode

LEMMA KeptByAdd == ASSUME Kept, NEW h \in Hands, Add(h) PROVE Kept'
<1>1. /\ hand[h].pc = "add" /\ hand[h].sid \in DOMAIN session /\ hand[h].at \in Nodes
      /\ hand[h].of \in Inbound /\ AutomationTypeOK
      /\ UNCHANGED <<autoEnv, session, touched, automation, done, sent, credit, usage, counted>>
  BY HandAtWork DEF Add, Seated, Underway, InNode
<1>2. posted \subseteq posted' /\ posted' \subseteq Inbound \X Nodes
  BY <1>1 DEF Add, Here, AutomationTypeOK
<1>3. Grows /\ SessionsOK' /\ DataOK' /\ DOMAIN session' = DOMAIN session
  <2>1. DataOK
    BY <1>1, TypeParts
  <2>2. QED
    BY <1>1, <1>2, <2>1, DataMoves DEF DataOK
<1>4. \/ HandTurn(h, "caught")
      \/ HandTurn(h, "note") /\ <<hand[h].of, hand[h].at>> \in posted'
  BY DEF Add, Here
<1>5. QED
  BY <1>1, <1>3, <1>4, PcKeeps DEF Busy, Underway, InNode

LEMMA KeptByWait == ASSUME Kept, NEW h \in Hands, Wait(h) PROVE Kept'
<1>1. /\ hand[h].pc \in {"wait", "end"} /\ hand[h].sid \in DOMAIN session
      /\ hand[h].at \in Nodes /\ Kind[hand[h].at] # "SEND" /\ AutomationTypeOK
  BY HandAtWork DEF Wait, Seated, Underway, InNode
<1>2. PICK row \in SessionRow : Update(hand[h].sid, row)
  <2>1. [status |-> "WAITING", node |-> hand[h].at, waits |-> hand[h].at] \in SessionRow
    BY <1>1 DEF SessionRow
  <2>2. [Session(h) EXCEPT !.status = "COMPLETED", !.waits = 0] \in SessionRow
    BY <1>1, SessionType DEF SessionRow
  <2>3. QED
    BY <2>1, <2>2 DEF Wait
<1>3. /\ UNCHANGED <<autoEnv, automation, done, sent, posted, credit, usage, counted>>
      /\ HandTurn(h, "finish")
  BY DEF Wait
<1>4. Grows /\ SessionsOK' /\ DataOK' /\ DOMAIN session' = DOMAIN session
  BY <1>1, <1>2, <1>3, SessionMoves
<1>5. QED
  BY <1>1, <1>3, <1>4, PcKeeps DEF Busy, Underway, InNode

LEMMA KeptByFinish == ASSUME Kept, NEW h \in Hands, FinishStep(h) PROVE Kept'
<1>1. /\ hand[h].pc = "finish" /\ hand[h].sid \in DOMAIN session /\ hand[h].at \in Nodes
      /\ hand[h].of \in Inbound /\ AutomationTypeOK
      /\ UNCHANGED <<autoEnv, session, touched, automation, sent, posted, credit, usage, counted>>
  BY HandAtWork DEF FinishStep, Seated, Underway, InNode
<1>2. done' \subseteq Inbound \X Nodes \X Hands
  BY <1>1 DEF FinishStep, AutomationTypeOK
<1>3. Grows /\ SessionsOK' /\ DataOK' /\ DOMAIN session' = DOMAIN session
  <2>1. DataOK
    BY <1>1, TypeParts
  <2>2. QED
    BY <1>1, <1>2, <2>1, DataMoves DEF DataOK
<1>4. HandTurn(h, "place")
  BY DEF FinishStep
<1>5. QED
  BY <1>1, <1>3, <1>4, PcKeeps DEF Busy, Underway, InNode

LEMMA KeptByPlace == ASSUME Kept, NEW h \in Hands, Place(h) PROVE Kept'
<1>1. /\ hand[h].pc = "place" /\ hand[h].sid \in DOMAIN session /\ hand[h].at \in Nodes
      /\ AutomationTypeOK /\ hand[h] \in HandRow /\ hand \in [Hands -> HandRow]
  BY HandAtWork DEF Place, Seated, Underway, InNode
<1>2. PICK s \in SessionRow : s = [Session(h) EXCEPT !.node = hand[h].at]
  BY <1>1, SessionType DEF SessionRow
<1>3. Update(hand[h].sid, s)
  BY <1>2 DEF Place
<1>4. UNCHANGED <<autoEnv, automation, done, sent, posted, credit, usage, counted, jobVars>>
  BY DEF Place
<1>5. Grows /\ SessionsOK' /\ DataOK' /\ DOMAIN session' = DOMAIN session
  BY <1>1, <1>3, <1>4, SessionMoves
<1>6. PICK n \in Nodes \cup {0} : n = Leads[hand[h].at]
  BY <1>1, FlowConstants
<1>7. PICK row : row = IF Kind[hand[h].at] = "SEND" THEN [hand[h] EXCEPT !.pc = "node", !.at = n]
                       ELSE [hand[h] EXCEPT !.pc = IF Kind[hand[h].at] = "WAIT" THEN "waiting"
                                                   ELSE "stop"]
  OBVIOUS
<1>8. /\ row \in HandRow /\ row.pc \in {"node", "waiting", "stop"} /\ row.sid = hand[h].sid
      /\ row.of = hand[h].of /\ row.owner = hand[h].owner
      /\ row.pc # "node" => row.at = hand[h].at
  BY <1>1, <1>7 DEF HandRow
<1>9. hand' = [hand EXCEPT ![h] = row]
  <2>1. CASE Kind[hand[h].at] = "SEND"
    <3>1. hand' = [hand EXCEPT ![h].pc = "node", ![h].at = Leads[hand[h].at]]
      BY <1>1, <2>1 DEF Place
    <3>2. QED
      BY <1>1, <1>6, <1>7, <2>1, <3>1
  <2>2. CASE Kind[hand[h].at] # "SEND"
    <3>1. hand' = [hand EXCEPT ![h].pc = IF Kind[hand[h].at] = "WAIT" THEN "waiting" ELSE "stop"]
      BY <2>2 DEF Place
    <3>2. QED
      BY <1>1, <1>7, <2>2, <3>1
  <2>3. QED
    BY <2>1, <2>2
<1>10. TurnTo(h, row)
  BY <1>1, <1>4, <1>8, <1>9 DEF TurnTo
<1>11. Seated(row)'
  BY <1>1, <1>5, <1>8 DEF Seated, Underway, InNode
<1>12. QED
  BY <1>4, <1>5, <1>8, <1>10, <1>11, TurnKeeps

LEMMA KeptByComplete == ASSUME Kept, NEW h \in Hands, Complete(h) PROVE Kept'
<1>1. /\ hand[h].pc \in {"complete", "close"} /\ hand[h].sid \in DOMAIN session
      /\ AutomationTypeOK
  BY HandAtWork DEF Complete, Seated, Underway
<1>2. PICK row \in SessionRow : Update(hand[h].sid, row)
  <2>1. /\ [Session(h) EXCEPT !.node = 0] \in SessionRow
        /\ [Session(h) EXCEPT !.status = "COMPLETED", !.waits = 0] \in SessionRow
    BY <1>1, SessionType DEF SessionRow
  <2>2. QED
    BY <2>1 DEF Complete
<1>3. /\ UNCHANGED <<autoEnv, automation, done, sent, posted, credit, usage, counted>>
      /\ HandTurn(h, "close") \/ HandTurn(h, "success")
  BY DEF Complete
<1>4. Grows /\ SessionsOK' /\ DataOK' /\ DOMAIN session' = DOMAIN session
  BY <1>1, <1>2, <1>3, SessionMoves
<1>5. QED
  BY <1>1, <1>3, <1>4, PcKeeps DEF Busy, Underway, InNode

LEMMA KeptByDecision == ASSUME Kept, NEW h \in Hands, DecideExecution(h) PROVE Kept'
<1>1. /\ hand[h].pc \in {"waiting", "still", "stop", "success", "fail", "abort"}
      /\ hand[h].sid \in DOMAIN session /\ AutomationTypeOK
      /\ UNCHANGED <<autoEnv, session, touched, done, sent, posted, credit, usage, counted>>
  BY HandAtWork DEF DecideExecution, Seated, Underway
<1>2. automation' \in [Inbound -> {"NONE", "RUNNING", "WAITING", "SUCCESS", "FAILED"}]
  <2>1. PICK status \in {"WAITING", "FAILED", "SUCCESS"} :
            automation' = [automation EXCEPT ![hand[h].of] = status]
    BY DEF DecideExecution
  <2>2. QED
    BY <1>1, <2>1 DEF AutomationTypeOK
<1>3. Grows /\ SessionsOK' /\ DataOK' /\ DOMAIN session' = DOMAIN session
  <2>1. DataOK
    BY <1>1, TypeParts
  <2>2. QED
    BY <1>1, <1>2, <2>1, DataMoves DEF DataOK
<1>4. CASE HandTurn(h, "quit") \/ HandTurn(h, "drop")
  BY <1>1, <1>3, <1>4, PcKeeps DEF Busy, Underway, InNode
<1>5. CASE Return(h)
  BY <1>1, <1>3, <1>5, ThrowKeeps
<1>6. QED
  BY <1>4, <1>5 DEF DecideExecution

LEMMA KeptByCatch == ASSUME Kept, NEW h \in Hands, Catch(h) PROVE Kept'
<1>1. /\ hand[h].pc = "caught" /\ hand[h].sid \in DOMAIN session /\ hand[h].at \in Nodes
      /\ AutomationTypeOK /\ hand[h] \in HandRow /\ hand \in [Hands -> HandRow]
      /\ UNCHANGED <<autoEnv, session, touched, automation, sent, posted, credit, usage, counted>>
  BY HandAtWork DEF Catch, Seated, Underway, InNode
<1>2. done' \subseteq Inbound \X Nodes \X Hands
  BY <1>1 DEF Catch, AutomationTypeOK
<1>3. Grows /\ SessionsOK' /\ DataOK' /\ DOMAIN session' = DOMAIN session
  <2>1. DataOK
    BY <1>1, TypeParts
  <2>2. QED
    BY <1>1, <1>2, <2>1, DataMoves DEF DataOK
<1>4. CASE HandTurn(h, "fail")
  BY <1>1, <1>3, <1>4, PcKeeps DEF Busy, Underway, InNode
<1>5. CASE hand' = [hand EXCEPT ![h].pc = "node", ![h].at = Failing[hand[h].at]] /\ UNCHANGED jobVars
  <2>1. PICK n \in Nodes \cup {0} : n = Failing[hand[h].at]
    BY <1>1, FlowConstants
  <2>2. PICK row : row = [hand[h] EXCEPT !.pc = "node", !.at = n]
    OBVIOUS
  <2>3. /\ row \in HandRow /\ row.pc = "node" /\ row.sid = hand[h].sid /\ row.of = hand[h].of
        /\ row.owner = hand[h].owner
    BY <1>1, <2>2 DEF HandRow
  <2>4. hand' = [hand EXCEPT ![h] = row]
    BY <1>1, <1>5, <2>1, <2>2
  <2>5. TurnTo(h, row)
    BY <1>1, <1>5, <2>3, <2>4 DEF TurnTo
  <2>6. Seated(row)'
    BY <1>1, <1>3, <2>3 DEF Seated, Underway, InNode
  <2>7. QED
    BY <1>1, <1>3, <2>3, <2>5, <2>6, TurnKeeps
<1>6. QED
  <2>1. \/ HandTurn(h, "fail")
        \/ hand' = [hand EXCEPT ![h].pc = "node", ![h].at = Failing[@]] /\ UNCHANGED jobVars
    BY DEF Catch
  <2>2. QED
    BY <1>1, <1>4, <1>5, <2>1

LEMMA KeptByFailure == ASSUME Kept, NEW h \in Hands, FailSession(h) PROVE Kept'
<1>1. /\ hand[h].pc \in {"quit", "drop"} /\ hand[h].sid \in DOMAIN session /\ AutomationTypeOK
      /\ UNCHANGED <<autoEnv, automation, done, sent, posted, credit, usage, counted>>
  BY HandAtWork DEF FailSession, Seated, Underway
<1>2. PICK row \in SessionRow : Update(hand[h].sid, row)
  <2>1. [Session(h) EXCEPT !.status = "FAILED", !.waits = 0] \in SessionRow
    BY <1>1, SessionType DEF SessionRow
  <2>2. QED
    BY <2>1 DEF FailSession
<1>3. Grows /\ SessionsOK' /\ DataOK'
  BY <1>1, <1>2, SessionMoves
<1>4. ThrowJob(h) \/ Return(h)
  BY DEF FailSession
<1>5. QED
  BY <1>1, <1>3, <1>4, ThrowKeeps

LEMMA KeptByStatement == ASSUME Kept, NEW h \in Hands, StatementFails(h) PROVE Kept'
<1> DEFINE Early == {"find", "resume", "begin", "enter", "create", "link", "count", "tally", "abort", "drop"}
           Inside == {"act", "charge", "note", "wait", "end", "finish", "place", "waiting", "stop"}
           Between == {"node", "still", "complete", "close", "success", "caught", "fail", "quit"}
<1>1. UNCHANGED <<autoEnv, dataVars>> /\ Grows /\ SessionsOK' /\ DataOK'
  BY DataStays DEF Kept, StatementFails
<1>2. \/ hand[h].pc \in Early /\ (ThrowJob(h) \/ Return(h))
      \/ hand[h].pc \in Inside /\ HandTurn(h, "caught")
      \/ hand[h].pc \in Between /\ HandTurn(h, "abort")
  BY DEF StatementFails
<1>3. Seated(hand[h])
  BY HandAtWork
<1>4. CASE hand[h].pc \in Early /\ (ThrowJob(h) \/ Return(h))
  BY <1>1, <1>4, ThrowKeeps DEF dataVars
<1>5. CASE hand[h].pc \in Inside /\ HandTurn(h, "caught")
  BY <1>1, <1>3, <1>5, PcAlone DEF Seated, Busy, Underway, InNode
<1>6. CASE hand[h].pc \in Between /\ HandTurn(h, "abort")
  BY <1>1, <1>3, <1>6, PcAlone DEF Seated, Busy, Underway, InNode
<1>7. QED
  BY <1>2, <1>4, <1>5, <1>6

LEMMA KeptByTaking == ASSUME Kept, NEW h \in Hands, NEW m \in Inbound, TakeJob(h, m) PROVE Kept'
<1>1. /\ hand[h].pc = "idle" /\ ready[m] = "waiting" /\ UNCHANGED <<autoEnv, dataVars, stall>>
      /\ ready' = [ready EXCEPT ![m] = "active"] /\ attempt' = [attempt EXCEPT ![m] = attempt[m] + 1]
  BY DEF TakeJob
<1>2. Grows /\ SessionsOK' /\ DataOK' /\ UNCHANGED counted
  BY <1>1, DataStays DEF Kept, dataVars
<1>3. PICK row \in HandRow :
          row = [pc |-> "find", of |-> m, sid |-> 0, at |-> 0, owner |-> TRUE]
  BY DEF HandRow
<1>4. row.pc = "find" /\ row.of = m /\ row.owner
  BY <1>3
<1>5. hand' = [hand EXCEPT ![h] = row]
  BY <1>3 DEF TakeJob
<1>6. HandsPlaced' /\ hand' \in [Hands -> HandRow]
  <2>1. Seated(row)'
    BY <1>4 DEF Seated, Underway, InNode
  <2>2. QED
    BY <1>2, <1>5, <2>1, OthersStayPlaced DEF Kept
<1>7. JobsOK /\ autoEnv \in AutomationEnvironments /\ hand \in [Hands -> HandRow]
  BY TypeParts DEF Kept
<1>8. attempt[m] \in Nat /\ attempt[m] < Attempts /\ attempt[m] + 1 \in 0 .. Attempts
  BY <1>1, <1>7, AutomationAssumption DEF JobsOK, Kept, JobsOwned
<1>9. JobsOK' /\ autoEnv' \in AutomationEnvironments
  BY <1>1, <1>7, <1>8 DEF JobsOK
<1>10. AutomationTypeOK'
  BY <1>2, <1>6, <1>9, TypeParts DEF AutomationTypeOK, SessionsOK, DataOK, JobsOK
<1>11. /\ \A g \in Hands : hand'[g] = IF g = h THEN row ELSE hand[g]
       /\ \A n \in Inbound : /\ ready'[n] = IF n = m THEN "active" ELSE ready[n]
                             /\ attempt'[n] = IF n = m THEN attempt[m] + 1 ELSE attempt[n]
       /\ UNCHANGED <<stall, counted>> /\ (Suffers("lock")' <=> Suffers("lock"))
  BY <1>1, <1>2, <1>5, <1>7 DEF JobsOK, Suffers
<1>12. JobsOwned'
  <2>1. \A n \in Inbound :
           /\ ready'[n] = "none" => attempt'[n] = 0
           /\ ready'[n] = "waiting" => attempt'[n] < Attempts
           /\ ready'[n] = "active" => attempt'[n] > 0
           /\ ready'[n] # "over" => stall'[n] <= MaxStalls
    BY <1>1, <1>8, <1>11 DEF Kept, JobsOwned
  <2>2. \A g \in Hands :
           /\ hand'[g].owner => ready'[hand'[g].of] = "active"
           /\ hand'[g].pc = "idle" => ~hand'[g].owner
           /\ hand'[g].pc # "idle" => hand'[g].owner \/ Suffers("lock")
           /\ hand'[g].pc = "tally" => counted'[hand'[g].of] = 0 \/ Suffers("lock")
    <3>1. \A g \in Hands : hand[g].of \in Inbound
      BY <1>7 DEF HandRow
    <3>2. QED
      BY <1>4, <1>11, <3>1 DEF Kept, JobsOwned
  <2>3. \A f, g \in Hands : hand'[f].owner /\ hand'[g].owner /\ hand'[f].of = hand'[g].of => f = g
    BY <1>1, <1>4, <1>11 DEF Kept, JobsOwned
  <2>4. QED
    BY <1>11, <2>1, <2>2, <2>3 DEF JobsOwned
<1>13. QED
  BY <1>6, <1>10, <1>12 DEF Kept

LEMMA KeptByStall == ASSUME Kept, NEW h \in Hands, StallJob(h) PROVE Kept'
<1>1. AutomationTypeOK /\ hand[h] \in HandRow /\ Seated(hand[h]) /\ hand[h].of \in Inbound
  BY HandAtWork
<1>2. PICK m \in Inbound : m = hand[h].of
  BY <1>1
<1>3. hand[h].owner /\ hand[h].pc # "idle" /\ ready[m] = "active" /\ attempt[m] > 0
      /\ stall[m] <= MaxStalls
  BY <1>2 DEF StallJob, Kept, JobsOwned
<1>4. UNCHANGED <<autoEnv, dataVars>> /\ Grows /\ SessionsOK' /\ DataOK' /\ UNCHANGED counted
  BY <1>1, DataStays DEF StallJob, dataVars
<1>5. PICK row \in HandRow :
          /\ hand' = [hand EXCEPT ![h] = row] /\ ~row.owner /\ Seated(row)'
          /\ row.pc = "idle" \/ Suffers("lock")
  <2>1. CASE hand' = [hand EXCEPT ![h] = Idle]
    BY <2>1, IdleType DEF Seated, Underway, InNode
  <2>2. CASE Suffers("lock") /\ hand' = [hand EXCEPT ![h].owner = FALSE]
    <3>1. PICK row : row = [hand[h] EXCEPT !.owner = FALSE]
      OBVIOUS
    <3>2. /\ row \in HandRow /\ row.pc = hand[h].pc /\ row.sid = hand[h].sid
          /\ row.at = hand[h].at /\ row.of = hand[h].of /\ ~row.owner
      BY <1>1, <3>1 DEF HandRow
    <3>3. hand' = [hand EXCEPT ![h] = row]
      BY <1>1, <2>2, <3>1 DEF AutomationTypeOK
    <3>4. Seated(row)'
      BY <1>1, <1>4, <3>2 DEF Seated, Grows
    <3>5. QED
      BY <2>2, <3>2, <3>3, <3>4
  <2>3. QED
    BY <2>1, <2>2 DEF StallJob
<1>6. HandsPlaced' /\ hand' \in [Hands -> HandRow]
  BY <1>1, <1>4, <1>5, OthersStayPlaced DEF Kept
<1>7. JobsOK /\ autoEnv \in AutomationEnvironments /\ hand \in [Hands -> HandRow]
  BY <1>1, TypeParts
<1>8. PICK state \in {"waiting", "over"} :
          /\ state = IF stall[m] < MaxStalls THEN "waiting" ELSE "over"
          /\ ready' = [ready EXCEPT ![m] = state]
          /\ stall' = [stall EXCEPT ![m] = stall[m] + 1]
          /\ attempt' = [attempt EXCEPT ![m] = attempt[m] - 1]
  BY <1>2 DEF StallJob
<1>9. /\ attempt[m] - 1 \in 0 .. Attempts /\ attempt[m] - 1 < Attempts
      /\ stall[m] + 1 \in 0 .. MaxStalls + 1
      /\ state = "waiting" => stall[m] + 1 <= MaxStalls
  BY <1>3, <1>7, <1>8, AutomationAssumption DEF JobsOK
<1>10. JobsOK' /\ autoEnv' \in AutomationEnvironments
  BY <1>4, <1>7, <1>8, <1>9 DEF JobsOK
<1>11. AutomationTypeOK'
  BY <1>4, <1>6, <1>10, TypeParts DEF AutomationTypeOK, SessionsOK, DataOK, JobsOK
<1>12. /\ \A g \in Hands : hand'[g] = IF g = h THEN row ELSE hand[g]
       /\ \A n \in Inbound : /\ ready'[n] = IF n = m THEN state ELSE ready[n]
                             /\ attempt'[n] = IF n = m THEN attempt[m] - 1 ELSE attempt[n]
                             /\ stall'[n] = IF n = m THEN stall[m] + 1 ELSE stall[n]
       /\ UNCHANGED counted /\ (Suffers("lock")' <=> Suffers("lock"))
  BY <1>4, <1>5, <1>7, <1>8 DEF JobsOK, Suffers
<1>13. JobsOwned'
  <2>1. \A n \in Inbound :
           /\ ready'[n] = "none" => attempt'[n] = 0
           /\ ready'[n] = "waiting" => attempt'[n] < Attempts
           /\ ready'[n] = "active" => attempt'[n] > 0
           /\ ready'[n] # "over" => stall'[n] <= MaxStalls
    BY <1>3, <1>9, <1>12 DEF Kept, JobsOwned
  <2>2. \A g \in Hands :
           /\ hand'[g].owner => ready'[hand'[g].of] = "active"
           /\ hand'[g].pc = "idle" => ~hand'[g].owner
           /\ hand'[g].pc # "idle" => hand'[g].owner \/ Suffers("lock")
           /\ hand'[g].pc = "tally" => counted'[hand'[g].of] = 0 \/ Suffers("lock")
    <3>1. \A g \in Hands : hand[g].of \in Inbound /\ (g # h /\ hand[g].owner => hand[g].of # m)
      BY <1>2, <1>3, <1>7 DEF HandRow, Kept, JobsOwned
    <3>2. QED
      BY <1>5, <1>12, <3>1 DEF Kept, JobsOwned
  <2>3. \A f, g \in Hands : hand'[f].owner /\ hand'[g].owner /\ hand'[f].of = hand'[g].of => f = g
    BY <1>5, <1>12 DEF Kept, JobsOwned
  <2>4. QED
    BY <1>12, <2>1, <2>2, <2>3 DEF JobsOwned
<1>14. QED
  BY <1>6, <1>11, <1>13 DEF Kept

LEMMA KeptByArrival == ASSUME Kept, NEW m \in Inbound, Arrive(m) PROVE Kept'
<1>1. /\ ready[m] = "none" /\ UNCHANGED <<autoEnv, dataVars, attempt, stall, hand>>
      /\ ready' = [ready EXCEPT ![m] = "waiting"]
  BY DEF Arrive
<1>2. Grows /\ SessionsOK' /\ DataOK' /\ UNCHANGED <<session, posted, counted>>
  BY <1>1, DataStays DEF Kept, dataVars
<1>3. JobsOK /\ autoEnv \in AutomationEnvironments /\ hand \in [Hands -> HandRow]
  BY TypeParts DEF Kept
<1>4. JobsOK' /\ autoEnv' \in AutomationEnvironments /\ hand' \in [Hands -> HandRow]
  BY <1>1, <1>3 DEF JobsOK
<1>5. AutomationTypeOK'
  BY <1>2, <1>4, TypeParts DEF AutomationTypeOK, SessionsOK, DataOK, JobsOK
<1>6. HandsPlaced'
  BY <1>1, <1>2 DEF Kept, HandsPlaced, Seated
<1>7. JobsOwned'
  <2>1. \A n \in Inbound : ready'[n] = IF n = m THEN "waiting" ELSE ready[n]
    BY <1>1, <1>3 DEF JobsOK
  <2>2. attempt[m] < Attempts /\ \A g \in Hands : hand[g].owner => hand[g].of # m
    BY <1>1, AutomationAssumption DEF Kept, JobsOwned
  <2>3. Suffers("lock")' <=> Suffers("lock")
    BY <1>1 DEF Suffers
  <2>4. \A g \in Hands : hand[g].of \in Inbound
    BY <1>3 DEF HandRow
  <2>5. QED
    BY <1>1, <1>2, <2>1, <2>2, <2>3, <2>4 DEF Kept, JobsOwned
<1>8. QED
  BY <1>5, <1>6, <1>7 DEF Kept

LEMMA KeptByNext == Kept /\ [AutomationNext]_automationVars => Kept'
<1> SUFFICES ASSUME Kept, [AutomationNext]_automationVars PROVE Kept'
  OBVIOUS
<1>1. ASSUME NEW m \in Inbound, Arrive(m) PROVE Kept'
  BY <1>1, KeptByArrival
<1>2. ASSUME NEW h \in Hands, HandStep(h) PROVE Kept'
  <2>1. ASSUME NEW m \in Inbound, TakeJob(h, m) PROVE Kept'
    BY <2>1, KeptByTaking
  <2>2. FindSession(h) \/ Resume(h) \/ BeginSession(h) \/ Enter(h) \/ Create(h) \/ Note(h) => Kept'
    BY KeptByFind, KeptByResume, KeptByBegin, KeptByEnter, KeptByCreate, KeptByNote
  <2>3. CountExecution(h) \/ Tally(h) \/ AtNode(h) \/ Act(h) \/ ChargeNode(h) \/ Add(h) => Kept'
    BY KeptByCount, KeptByTally, KeptByNode, KeptByAct, KeptByCharge, KeptByAdd
  <2>4. Wait(h) \/ FinishStep(h) \/ Place(h) \/ Complete(h) => Kept'
    BY KeptByWait, KeptByFinish, KeptByPlace, KeptByComplete
  <2>5. DecideExecution(h) \/ Catch(h) \/ FailSession(h) => Kept'
    BY KeptByDecision, KeptByCatch, KeptByFailure
  <2>6. QED
    BY <1>2, <2>1, <2>2, <2>3, <2>4, <2>5 DEF HandStep
<1>3. ASSUME NEW h \in Hands, StallJob(h) \/ StatementFails(h) PROVE Kept'
  BY <1>3, KeptByStall, KeptByStatement
<1>4. CASE UNCHANGED automationVars
  <2>1. UNCHANGED <<autoEnv, dataVars, jobVars, hand>> /\ UNCHANGED <<session, posted, counted>>
    BY <1>4 DEF automationVars, dataVars, jobVars
  <2>2. AutomationTypeOK'
    BY <1>4, Zenon DEF Kept, AutomationTypeOK, automationVars, Nodes
  <2>3. HandsPlaced'
    BY <2>1 DEF Kept, HandsPlaced, Seated
  <2>4. JobsOwned'
    BY <2>1 DEF Kept, JobsOwned, jobVars, Suffers
  <2>5. QED
    BY <2>2, <2>3, <2>4 DEF Kept
<1>5. QED
  BY <1>1, <1>2, <1>3, <1>4 DEF AutomationNext

LEMMA KeptAtFirst == AutomationInit => Kept /\ EachOnce
<1> SUFFICES ASSUME AutomationInit PROVE Kept /\ EachOnce
  OBVIOUS
<1>1. /\ session = <<>> /\ touched = <<>> /\ done = {} /\ posted = {}
      /\ automation = [m \in Inbound |-> "NONE"] /\ sent = [x \in Inbound \X Nodes |-> 0]
      /\ credit = Credit /\ usage = 0 /\ counted = [m \in Inbound |-> 0]
      /\ ready = [m \in Inbound |-> "none"] /\ attempt = [m \in Inbound |-> 0]
      /\ stall = [m \in Inbound |-> 0] /\ hand = [h \in Hands |-> Idle]
      /\ autoEnv \in AutomationEnvironments
  BY DEF AutomationInit
<1>2. session \in Seq(SessionRow) /\ touched \in Seq(DOMAIN session) /\ ToSet(touched) = DOMAIN session
  BY <1>1, EmptySeq DEF ToSet
<1>3. AutomationTypeOK
  BY <1>1, <1>2, IdleType, AutomationAssumption DEF AutomationTypeOK
<1>4. HandsPlaced
  BY <1>1, IdleType DEF HandsPlaced, Seated, Underway, InNode
<1>5. JobsOwned
  BY <1>1, IdleType, AutomationAssumption DEF JobsOwned
<1>6. EachOnce
  <2>1. SumFunctionOnSet(sent, Inbound \X Nodes) = 0
    BY <1>1, FlowConstants, SumZero
  <2>2. QED
    BY <1>1, <2>1, AutomationAssumption DEF EachOnce
<1>7. QED
  BY <1>3, <1>4, <1>5, <1>6 DEF Kept

\* Only three actions touch what EachOnce speaks of.
LEMMA OnceByCharge ==
    ASSUME Kept, EachOnce, NEW h \in Hands, ChargeNode(h) PROVE EachOnce'
<1>1. /\ hand[h].at \in Nodes /\ hand[h].of \in Inbound /\ AutomationTypeOK
      /\ UNCHANGED <<autoEnv, done, posted, counted>>
  BY HandAtWork DEF ChargeNode, Seated, InNode
<1>2. PICK x \in Inbound \X Nodes : x = Here(h)
  BY <1>1 DEF Here
<1>3. /\ sent \in [Inbound \X Nodes -> Nat] /\ credit \in Nat
      /\ credit + SumFunctionOnSet(sent, Inbound \X Nodes) = Credit
  BY <1>1 DEF AutomationTypeOK, EachOnce
<1>4. CASE UNCHANGED <<credit, sent>>
  BY <1>1, <1>4 DEF EachOnce, Suffers
<1>5. CASE /\ sent[x] = 0 /\ credit > 0 /\ credit' = credit - 1
           /\ sent' = [sent EXCEPT ![x] = 1]
  <2>1. SumFunctionOnSet(sent', Inbound \X Nodes) = SumFunctionOnSet(sent, Inbound \X Nodes) + 1
    <3>1. SumFunctionOnSet(sent', Inbound \X Nodes)
              = SumFunctionOnSet(sent, Inbound \X Nodes) - sent[x] + 1
      <4>1. PICK D : D = Inbound \X Nodes
        OBVIOUS
      <4>2. PICK f, g : f = sent /\ g = sent'
        OBVIOUS
      <4>3. /\ IsFiniteSet(D) /\ x \in D /\ f \in [D -> Nat] /\ g \in [D -> Nat] /\ g[x] = 1
            /\ \A y \in D \ {x} : g[y] = f[y]
        BY <1>3, <1>5, <4>1, <4>2, FlowConstants
      <4>4. SumFunctionOnSet(g, D) = SumFunctionOnSet(f, D) - f[x] + g[x]
        BY <4>3, SumDiffers
      <4>5. QED
        BY <4>1, <4>2, <4>3, <4>4
    <3>2. SumFunctionOnSet(sent, Inbound \X Nodes) \in Nat
      BY <1>3, FlowConstants, SumType
    <3>3. QED
      BY <1>5, <3>1, <3>2
  <2>2. SumFunctionOnSet(sent, Inbound \X Nodes) \in Nat
    BY <1>3, FlowConstants, SumType
  <2>3. credit' + SumFunctionOnSet(sent', Inbound \X Nodes) = Credit
    BY <1>3, <1>5, <2>1, <2>2, AutomationAssumption
  <2>4. \A y \in Inbound \X Nodes : sent'[y] <= 1
    BY <1>3, <1>5 DEF EachOnce
  <2>5. QED
    BY <1>1, <2>3, <2>4 DEF EachOnce, Suffers, Nodes
<1>6. QED
  BY <1>2, <1>4, <1>5 DEF ChargeNode, Sendable, Unsent

LEMMA OnceElse ==
    ASSUME EachOnce, UNCHANGED <<autoEnv, sent, credit>>, posted \subseteq posted',
           \A x \in done' : x \in done \/ (Kind[x[2]] = "SEND" => <<x[1], x[2]>> \in posted),
           Suffers("lock") \/ \A m \in Inbound : counted'[m] <= 1
    PROVE  EachOnce'
<1>1. Suffers("lock")' \/ \A m \in Inbound : counted'[m] <= 1
  BY DEF Suffers
<1>2. \A x \in done' : Kind[x[2]] = "SEND" => <<x[1], x[2]>> \in posted'
  BY DEF EachOnce
<1>3. /\ \A x \in Inbound \X Nodes : sent'[x] <= 1
      /\ credit' + SumFunctionOnSet(sent', Inbound \X Nodes) = Credit
  BY DEF EachOnce
<1>4. QED
  BY <1>1, <1>2, <1>3 DEF EachOnce, Nodes

LEMMA OnceByNext == Kept /\ EachOnce /\ [AutomationNext]_automationVars => EachOnce'
<1> SUFFICES ASSUME Kept, EachOnce, [AutomationNext]_automationVars PROVE EachOnce'
  OBVIOUS
<1>0. Suffers("lock") \/ \A m \in Inbound : counted[m] <= 1
  BY DEF EachOnce
<1>1. ASSUME NEW m \in Inbound, Arrive(m) PROVE EachOnce'
  BY <1>0, <1>1, OnceElse DEF Arrive, dataVars
<1>2. ASSUME NEW h \in Hands, HandStep(h) PROVE EachOnce'
  <2>1. ASSUME NEW m \in Inbound, TakeJob(h, m) PROVE EachOnce'
    BY <1>0, <2>1, OnceElse DEF TakeJob, dataVars
  <2>2. CASE FindSession(h) \/ Resume(h) \/ BeginSession(h) \/ Enter(h) \/ Create(h) \/ Note(h)
    <3>1. UNCHANGED <<autoEnv, sent, credit, posted, done, counted>>
      BY <2>2 DEF FindSession, Resume, BeginSession, Enter, Create, Note, dataVars
    <3>2. QED
      BY <1>0, <3>1, OnceElse
  <2>3. CASE CountExecution(h) \/ AtNode(h) \/ Act(h)
    <3>1. UNCHANGED <<autoEnv, sent, credit, posted, done, counted>>
      BY <2>3 DEF CountExecution, AtNode, Act, dataVars
    <3>2. QED
      BY <1>0, <3>1, OnceElse
  <2>4. CASE Tally(h)
    <3>1. /\ UNCHANGED <<autoEnv, sent, credit, posted, done>>
          /\ counted' = [counted EXCEPT ![hand[h].of] = counted[hand[h].of] + 1]
          /\ counted \in [Inbound -> Nat] /\ hand[h].pc = "tally" /\ hand[h].of \in Inbound
      BY <2>4, HandAtWork DEF Tally, AutomationTypeOK
    <3>2. Suffers("lock") \/ counted[hand[h].of] = 0
      BY <3>1 DEF Kept, JobsOwned
    <3>3. Suffers("lock") \/ \A m \in Inbound : counted'[m] <= 1
      BY <1>0, <3>1, <3>2
    <3>4. QED
      BY <3>1, <3>3, OnceElse
  <2>5. CASE ChargeNode(h)
    BY <2>5, OnceByCharge
  <2>6. CASE Add(h)
    <3>1. UNCHANGED <<autoEnv, sent, credit, done, counted>> /\ posted \subseteq posted'
      BY <2>6 DEF Add
    <3>2. QED
      BY <1>0, <3>1, OnceElse
  <2>7. CASE FinishStep(h)
    <3>1. /\ UNCHANGED <<autoEnv, sent, credit, posted, counted>>
          /\ done' = done \cup {<<hand[h].of, hand[h].at, h>>} /\ hand[h].pc = "finish"
      BY <2>7 DEF FinishStep
    <3>2. Kind[hand[h].at] = "SEND" => <<hand[h].of, hand[h].at>> \in posted
      BY <3>1 DEF Kept, HandsPlaced, Seated
    <3>3. \A x \in done' : x \in done \/ (Kind[x[2]] = "SEND" => <<x[1], x[2]>> \in posted)
      BY <3>1, <3>2
    <3>4. QED
      BY <1>0, <3>1, <3>3, OnceElse
  <2>8. CASE Catch(h)
    <3>1. /\ UNCHANGED <<autoEnv, sent, credit, posted, counted>>
          /\ done' \subseteq done
      BY <2>8 DEF Catch
    <3>2. QED
      BY <1>0, <3>1, OnceElse
  <2>9. CASE Wait(h) \/ Place(h) \/ Complete(h) \/ DecideExecution(h) \/ FailSession(h)
    <3>1. UNCHANGED <<autoEnv, sent, credit, posted, done, counted>>
      BY <2>9 DEF Wait, Place, Complete, DecideExecution, FailSession
    <3>2. QED
      BY <1>0, <3>1, OnceElse
  <2>10. QED
    BY <1>2, <2>1, <2>2, <2>3, <2>4, <2>5, <2>6, <2>7, <2>8, <2>9 DEF HandStep
<1>3. ASSUME NEW h \in Hands, StallJob(h) \/ StatementFails(h) PROVE EachOnce'
  <2>1. UNCHANGED <<autoEnv, sent, credit, posted, done, counted>>
    BY <1>3 DEF StallJob, StatementFails, dataVars
  <2>2. QED
    BY <1>0, <2>1, OnceElse
<1>4. CASE UNCHANGED automationVars
  BY <1>0, <1>4, OnceElse DEF automationVars
<1>5. QED
  BY <1>1, <1>2, <1>3, <1>4 DEF AutomationNext

\* The state of an automation keeps its types: the sessions that are open or
\* were, the order they were touched in, the executions and their jobs.
THEOREM AutomationTypes == AutomationSpec => []AutomationTypeOK
<1>1. Kept => AutomationTypeOK
  BY DEF Kept
<1>2. AutomationInit => Kept
  BY KeptAtFirst
<1>3. QED
  BY <1>1, <1>2, KeptByNext, PTL DEF AutomationSpec

\* A node of an execution is charged for once, whoever retries or overtakes its
\* job, every message has been paid, and a step that sends is done only with
\* its message in the queue; an execution is counted once while no job goes on
\* without its lock.
THEOREM AutomationChargesOnce == AutomationSpec => []EachOnce
<1>1. AutomationInit => Kept /\ EachOnce
  BY KeptAtFirst
<1>2. QED
  BY <1>1, KeptByNext, OnceByNext, PTL DEF AutomationSpec

-----------------------------------------------------------------------------
(* The three side by side.                                                 *)

\* What launch, sequence and automation do together is what each of them does:
\* a theorem about one holds of the specification that the run checks.
LEMMA EachCampaignPart == CampaignsSpec => Spec /\ SequenceSpec /\ AutomationSpec
<1>1. CampaignsInit => Init /\ SequenceInit /\ AutomationInit
  BY DEF CampaignsInit
<1>2. ASSUME [CampaignsNext]_<<part, vars, sequenceVars, automationVars>>
      PROVE  [Next]_vars /\ [SequenceNext]_sequenceVars /\ [AutomationNext]_automationVars
  BY <1>2 DEF CampaignsNext
<1>3. QED
  BY <1>1, <1>2, PTL DEF CampaignsSpec, Spec, SequenceSpec, AutomationSpec

\* The types of the three at once, for any size of each.
THEOREM CampaignsTypes == CampaignsSpec => []CampaignsTypeOK
<1>1. TypeOK /\ SequenceTypeOK /\ AutomationTypeOK => CampaignsTypeOK
  BY DEF CampaignsTypeOK
<1>2. QED
  BY <1>1, EachCampaignPart, LaunchTypes, SequenceTypes, AutomationTypes, PTL
=============================================================================
