---------------------------- MODULE ApiIdempotency ----------------------------
(***************************************************************************)
(* Idempotency-Key of the public API: requests of one company that carry   *)
(* the same key, the record that arbitrates between them                   *)
(* (public-api-idempotency.service.ts), the route that runs the handler    *)
(* (public-api-route.ts) and the job that deletes expired records.         *)
(*                                                                         *)
(* A step ends where the code awaits.  Each request reads the clock once,  *)
(* when it starts, and compares every deadline with that reading.          *)
(***************************************************************************)
EXTENDS Integers, FiniteSets

CONSTANTS
    Requests,       \* requests made with the key
    Payloads,       \* what they ask for: method, path and body
    LockTime,       \* the five minutes of lockedUntil
    Ttl,            \* PUBLIC_API_IDEMPOTENCY_TTL_HOURS
    MaxDuration,    \* how long a request may run
    MaxClock,       \* last instant of a checked behaviour
    ApiEnvironments \* sets of faults, one of which is in force

ApiFaultKinds ==
    { "early",      \* the handler throws and has done nothing
      "late",       \* it throws after the message was created and charged
      "complete",   \* storing the response fails
      "fail",       \* storing the failure fails, which is only logged
      "crash" }     \* the process dies

VARIABLES
    apiEnv, clock,
    record,     \* the row of the key
    created,    \* rows made for it so far; the id of the newest
    pc, now, payload,
    seen,       \* the row a request has read
    held,       \* id of the row it works under, 0 if none
    effects     \* requests whose handler has taken effect

apiVars == <<apiEnv, clock, record, created, pc, now, payload, seen, held, effects>>
locals == <<now, payload>>

-----------------------------------------------------------------------------
NoRecord == [id |-> 0, payload |-> CHOOSE p \in Payloads : TRUE, status |-> "NONE",
             lockedUntil |-> 0, expiresAt |-> 0]

Records == [id : 0..Cardinality(Requests), payload : Payloads,
            status : {"NONE", "PROCESSING", "COMPLETED", "FAILED"},
            lockedUntil : Nat, expiresAt : Nat]

\* "done" covers every response: replayed, conflict, still processing, error.
Steps == {"idle", "create", "find", "claim_expired", "find_again", "claim",
          "handler", "queue", "complete", "fail", "done"}

ApiFault(fault) == fault \in apiEnv

ApiTypeOK ==
    /\ apiEnv \in ApiEnvironments /\ clock \in 0..MaxClock
    /\ record \in Records
    /\ created \in 0..Cardinality(Requests)
    /\ pc \in [Requests -> Steps]
    /\ now \in [Requests -> 0..MaxClock]
    /\ payload \in [Requests -> Payloads]
    /\ seen \in [Requests -> Records]
    /\ held \in [Requests -> 0..Cardinality(Requests)]
    /\ effects \subseteq Requests

ApiInit ==
    /\ apiEnv \in ApiEnvironments /\ clock = 0
    /\ record = NoRecord /\ created = 0
    /\ pc = [r \in Requests |-> "idle"]
    /\ now = [r \in Requests |-> 0]
    /\ payload = [r \in Requests |-> NoRecord.payload]
    /\ seen = [r \in Requests |-> NoRecord]
    /\ held = [r \in Requests |-> 0]
    /\ effects = {}

-----------------------------------------------------------------------------
Live(r) == pc[r] \notin {"idle", "done"}

Goto(r, step) == pc' = [pc EXCEPT ![r] = step]

\* The request answers, whatever the answer is.
Respond(r) ==
    /\ Goto(r, "done")
    /\ seen' = [seen EXCEPT ![r] = NoRecord]
    /\ held' = [held EXCEPT ![r] = 0]

\* Time passes, but no request outlives MaxDuration.
Tick ==
    /\ clock < MaxClock
    /\ \A r \in Requests : Live(r) => clock - now[r] < MaxDuration
    /\ clock' = clock + 1
    /\ UNCHANGED <<apiEnv, record, created, pc, locals, seen, held, effects>>

Start(r, p) ==
    /\ pc[r] = "idle"
    /\ now' = [now EXCEPT ![r] = clock]
    /\ payload' = [payload EXCEPT ![r] = p]
    /\ Goto(r, "create")
    /\ UNCHANGED <<apiEnv, clock, record, created, seen, held, effects>>

ProcessingUnlocked(r, id, p) ==
    [id |-> id, payload |-> p, status |-> "PROCESSING",
     lockedUntil |-> now[r] - LockTime, expiresAt |-> now[r] + Ttl]

\* The row of a request that begins to process.
ProcessingRow(r, id, p) ==
    [id |-> id, payload |-> p, status |-> "PROCESSING",
     lockedUntil |-> now[r] + LockTime, expiresAt |-> now[r] + Ttl]

Enter(r, id) ==
    /\ Goto(r, "handler")
    /\ held' = [held EXCEPT ![r] = id]
    /\ seen' = [seen EXCEPT ![r] = NoRecord]

\* The unique index on company and key decides who creates the row.
Create(r) ==
    /\ pc[r] = "create"
    /\ IF record = NoRecord
       THEN /\ created' = created + 1
            /\ record' = ProcessingRow(r, created + 1, payload[r])
            /\ Enter(r, created + 1)
       ELSE /\ Goto(r, "find")
            /\ UNCHANGED <<created, record, seen, held>>
    /\ UNCHANGED <<apiEnv, clock, locals, effects>>

\* What a request does with the row it has read: 409 for another payload,
\* a replay of a completed one, otherwise an attempt to claim it.
Decide(r) ==
    IF record.payload # payload[r] \/ record.status = "COMPLETED"
    THEN Respond(r)
    ELSE /\ Goto(r, "claim")
         /\ seen' = [seen EXCEPT ![r] = record]
         /\ UNCHANGED held

Find(r) ==
    /\ pc[r] = "find"
    /\ \/ record = NoRecord /\ Respond(r)
       \/ /\ record # NoRecord /\ record.expiresAt <= now[r]
          /\ Goto(r, "claim_expired")
          /\ seen' = [seen EXCEPT ![r] = record]
          /\ UNCHANGED held
       \/ record # NoRecord /\ record.expiresAt > now[r] /\ Decide(r)
    /\ UNCHANGED <<apiEnv, clock, record, created, locals, effects>>

Expired(r) == record.id = seen[r].id /\ record.expiresAt <= now[r]

ClaimExpired(r) ==
    /\ pc[r] = "claim_expired"
    /\ IF Expired(r)
       THEN /\ record' = ProcessingRow(r, record.id, payload[r])
            /\ Enter(r, record.id)
       ELSE /\ Goto(r, "find_again")
            /\ UNCHANGED <<record, seen, held>>
    /\ UNCHANGED <<apiEnv, clock, created, locals, effects>>

FindAgain(r) ==
    /\ pc[r] = "find_again"
    /\ IF record.id = seen[r].id THEN Decide(r) ELSE Respond(r)
    /\ UNCHANGED <<apiEnv, clock, record, created, locals, effects>>

ClaimableIgnoringLock(r) == record.id = seen[r].id /\ record.status # "COMPLETED"
Claimable(r) ==
    /\ record.id = seen[r].id
    /\ \/ record.status = "FAILED"
       \/ record.status = "PROCESSING" /\ record.lockedUntil <= now[r]

\* The claim does not compare the payload again.
ClaimKey(r) ==
    /\ pc[r] = "claim"
    /\ IF Claimable(r)
       THEN /\ record' = ProcessingRow(r, record.id, record.payload)
            /\ Enter(r, record.id)
       ELSE /\ Respond(r)
            /\ UNCHANGED record
    /\ UNCHANGED <<apiEnv, clock, created, locals, effects>>

\* The transaction of the handler: the message and its charge.
Handler(r) ==
    /\ pc[r] = "handler"
    /\ \/ effects' = effects \cup {r} /\ Goto(r, "queue")
       \/ ApiFault("early") /\ Goto(r, "fail") /\ UNCHANGED effects
    /\ UNCHANGED <<apiEnv, clock, record, created, locals, seen, held>>

\* Enqueueing, counting the usage and the audit log come after it.
Queue(r) ==
    /\ pc[r] = "queue"
    /\ Goto(r, "complete") \/ (ApiFault("late") /\ Goto(r, "fail"))
    /\ UNCHANGED <<apiEnv, clock, record, created, locals, seen, held, effects>>

\* Updates the row by its id, whoever works under it by now.
Complete(r) ==
    /\ pc[r] = "complete"
    /\ \/ /\ record.id = held[r]
          /\ record' = [record EXCEPT !.status = "COMPLETED", !.lockedUntil = 0]
          /\ Respond(r)
       \/ /\ record.id # held[r] \/ ApiFault("complete")
          /\ Goto(r, "fail")
          /\ UNCHANGED <<record, seen, held>>
    /\ UNCHANGED <<apiEnv, clock, created, locals, effects>>

Fail(r) ==
    /\ pc[r] = "fail"
    /\ \/ /\ record.id = held[r]
          /\ record' = [record EXCEPT !.status = "FAILED", !.lockedUntil = 0]
       \/ /\ record.id # held[r] \/ ApiFault("fail")
          /\ UNCHANGED record
    /\ Respond(r)
    /\ UNCHANGED <<apiEnv, clock, created, locals, effects>>

RequestVanishes(r) ==
    /\ ApiFault("crash") /\ Live(r)
    /\ Respond(r)
    /\ UNCHANGED <<apiEnv, clock, record, created, locals, effects>>

\* public-api-idempotency-retention.job.ts
Retention ==
    /\ record # NoRecord /\ record.expiresAt < clock
    /\ record' = NoRecord
    /\ UNCHANGED <<apiEnv, clock, created, pc, locals, seen, held, effects>>

ApiNext ==
    \/ Tick \/ Retention
    \/ \E r \in Requests :
        \/ \E p \in Payloads : Start(r, p)
        \/ Create(r) \/ Find(r) \/ ClaimExpired(r) \/ FindAgain(r) \/ ClaimKey(r)
        \/ Handler(r) \/ Queue(r) \/ Complete(r) \/ Fail(r) \/ RequestVanishes(r)

ApiSpec == ApiInit /\ [][ApiNext]_apiVars

-----------------------------------------------------------------------------
(* Properties.                                                             *)

Executing(r) == pc[r] \in {"handler", "queue", "complete", "fail"}

\* No two requests run the handler for the key at the same time, as long as a
\* request ends before the lock it took: the unique index, the reclaim of an
\* expired row and the claim of a failed one never let two requests through.
ExecutesAlone ==
    MaxDuration < LockTime =>
        \A r, s \in Requests : Executing(r) /\ Executing(s) => r = s

\* When no request dies or fails after its transaction, the key takes effect
\* once per lifetime of its row.  A lifetime may be shorter than the TTL by the
\* age of the request that reads the clock and then finds the row deleted.
EffectsApart ==
    apiEnv \subseteq {"early", "fail"} /\ MaxDuration < LockTime =>
        \A r, s \in effects :
            r # s => (now[s] + MaxDuration >= now[r] + Ttl) \/ (now[r] + MaxDuration >= now[s] + Ttl)

\* A key guards what it is for: one request runs at a time, and takes effect once.
KeyGuardsEffects == ExecutesAlone /\ EffectsApart

\* docs/public-api-v1.md:22: a key that comes with a different method, path or
\* payload is refused, so a request only runs under a row made for its payload.
ConflictRefused ==
    \A r \in Requests : Executing(r) /\ record.id = held[r] => record.payload = payload[r]
=============================================================================
