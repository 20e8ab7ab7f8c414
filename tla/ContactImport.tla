---------------------------- MODULE ContactImport ----------------------------
(***************************************************************************)
(* One contact import of contact-import.service.ts: the requests of its    *)
(* wizard, and the worker that imports row by row, retried by BullMQ, while*)
(* the contacts themselves write in or opt out.                            *)
(*                                                                         *)
(* A step ends where the code awaits.  Every request writes the job's      *)
(* status from one it read before.  VALID stands for VALID and DUPLICATE,  *)
(* which the worker treats alike.  Every usable row carries a tag, a list  *)
(* and proof of consent; counters and file parsing are left out.           *)
(***************************************************************************)
EXTENDS Integers, FiniteSets

CONSTANTS
    Rows,           \* row numbers of the file
    Unusable,       \* rows whose phone number does not parse
    Phones,         \* national numbers, each of one contact at most
    Phone, Country, \* number and country code of a row
    Clicks,         \* requests
    Threads,        \* executions the worker process runs at a time
    RowBatch,       \* IMPORT_ROW_BATCH_SIZE
    Attempts,       \* attempts of the job
    MaxStalls,      \* BullMQ's maxStalledCount
    Strategies,     \* duplicate strategies
    ImportEnvironments

ASSUME ImportAssumption ==
    /\ Rows \subseteq Nat \ {0} /\ IsFiniteSet(Rows) /\ IsFiniteSet(Threads)
    /\ \A r \in Rows \ Unusable : Phone[r] \in Phones
    /\ RowBatch \in Nat \ {0} /\ Attempts \in Nat \ {0} /\ MaxStalls \in Nat

ImportKinds ==
    { "again",      \* requests overlap
      "cancel",     \* the import is canceled
      "inbound",    \* a contact is created by a message of its own
      "stop",       \* a contact sends STOP
      "database",   \* a statement fails
      "crash",      \* the worker dies
      "lock" }      \* a live execution's job is found stalled

VARIABLES
    importEnv, strategy,
    importJob,      \* ContactImportJob.status
    row,            \* ContactImportRow.status
    contact,        \* Contact, with its tag and list, by phone number
    click,          \* requests under way
    bull, tries, stalls,
    thread,         \* executions of processContactImportJob
    stopping,       \* phone numbers whose STOP is being handled
    overrun         \* history: rows decided since it was last canceled

importRows == <<importJob, row, contact>>
queueVars  == <<bull, tries, stalls>>
importVars == <<importEnv, strategy, importRows, click, queueVars, thread, stopping, overrun>>

JobStatus == {"MAPPING", "READY", "IMPORTING", "COMPLETED", "FAILED", "CANCELLED"}
ContactRow == [exists : BOOLEAN, ours : BOOLEAN, listed : BOOLEAN, out : BOOLEAN,
               consent : {"UNKNOWN", "GRANTED", "REVOKED"}]
ThreadRow == [pc : {"idle", "load", "check", "list", "row", "skip", "write", "label", "consent",
                    "imported", "failed", "complete", "broken"},
              batch : SUBSET Rows, at : Rows \cup {0}, update : BOOLEAN, grant : BOOLEAN,
              owner : BOOLEAN]

Stricken(kind) == kind \in importEnv

ImportTypeOK ==
    /\ importEnv \in ImportEnvironments /\ strategy \in Strategies
    /\ importJob \in JobStatus
    /\ row \in [Rows -> {"PENDING", "VALID", "INVALID", "IMPORTED", "SKIPPED", "FAILED"}]
    /\ contact \in [Phones -> ContactRow]
    /\ click \in [Clicks -> {"idle", "map", "validate", "ready", "start", "add", "cancel"}]
    /\ bull \in {"none", "waiting", "active", "over"}
    /\ tries \in 0..Attempts /\ stalls \in 0..MaxStalls + 1
    /\ thread \in [Threads -> ThreadRow]
    /\ stopping \subseteq Phones
    /\ overrun \in Nat

\* The import has been canceled.
Cancelled == importJob = "CANCELLED"

Stranger  == [exists |-> FALSE, ours |-> FALSE, listed |-> FALSE, out |-> FALSE, consent |-> "UNKNOWN"]
IdleThread == [pc |-> "idle", batch |-> {}, at |-> 0, update |-> FALSE, grant |-> FALSE,
               owner |-> FALSE]

\* The file has been uploaded.
ImportInit ==
    /\ importEnv \in ImportEnvironments /\ strategy \in Strategies
    /\ importJob = "MAPPING"
    /\ row = [r \in Rows |-> "PENDING"]
    /\ contact = [p \in Phones |-> Stranger]
    /\ click = [u \in Clicks |-> "idle"]
    /\ bull = "none" /\ tries = 0 /\ stalls = 0
    /\ thread = [t \in Threads |-> IdleThread]
    /\ stopping = {} /\ overrun = 0

-----------------------------------------------------------------------------
(* Requests: the status is read, and written later whatever it is by then. *)

Ask(u, from, pc) ==
    /\ click[u] = "idle"
    /\ Stricken("again") \/ \A v \in Clicks : click[v] \in {"idle", "cancel"}
    /\ importJob \in from
    /\ click' = [click EXCEPT ![u] = pc]
    /\ UNCHANGED <<importEnv, strategy, importRows, queueVars, thread, stopping, overrun>>

AskMapping(u)  == Ask(u, {"MAPPING", "READY"}, "map")
AskValidate(u) == Ask(u, {"MAPPING", "READY"}, "validate")
AskStart(u)    == Ask(u, {"READY"}, "start")
AskCancel(u)   == Stricken("cancel") /\ Ask(u, JobStatus \ {"COMPLETED", "FAILED", "CANCELLED"}, "cancel")

\* Each request writes the status it is named after.
Write(u) ==
    /\ \/ /\ click[u] = "map"    /\ importJob' = "MAPPING"
          /\ click' = [click EXCEPT ![u] = "idle"]
       \/ /\ click[u] = "ready"  /\ importJob' = IF Rows = Unusable THEN "MAPPING" ELSE "READY"
          /\ click' = [click EXCEPT ![u] = "idle"]
       \/ /\ click[u] = "start"  /\ importJob' = "IMPORTING"
          /\ click' = [click EXCEPT ![u] = "add"]
       \/ /\ click[u] = "cancel" /\ importJob' = "CANCELLED"
          /\ click' = [click EXCEPT ![u] = "idle"]
    /\ overrun' = IF Cancelled THEN overrun ELSE 0
    /\ UNCHANGED <<importEnv, strategy, row, contact, queueVars, thread, stopping>>

\* The transaction that writes every row, imported or not.
ValidateRows(u) ==
    /\ click[u] = "validate"
    /\ row' = [r \in Rows |-> IF r \in Unusable THEN "INVALID" ELSE "VALID"]
    /\ click' = [click EXCEPT ![u] = "ready"]
    /\ UNCHANGED <<importEnv, strategy, importJob, contact, queueVars, thread, stopping, overrun>>

\* The job's id is the import's: a job that exists, finished or not, is kept.
StartAdd(u) ==
    /\ click[u] = "add"
    /\ bull' = IF bull = "none" THEN "waiting" ELSE bull
    /\ click' = [click EXCEPT ![u] = "idle"]
    /\ UNCHANGED <<importEnv, strategy, importRows, tries, stalls, thread, stopping, overrun>>

-----------------------------------------------------------------------------
(* The worker.                                                             *)

Turn(t, pc) == thread' = [thread EXCEPT ![t].pc = pc]

\* The handler returns or throws; only the owner of the job answers BullMQ.
Return(t) ==
    /\ thread' = [thread EXCEPT ![t] = IdleThread]
    /\ bull' = IF thread[t].owner THEN "over" ELSE bull
ThrowOnceMore(t) ==
    /\ thread' = [thread EXCEPT ![t] = IdleThread]
    /\ bull' = IF ~thread[t].owner THEN bull ELSE IF tries <= Attempts THEN "waiting" ELSE "over"
ThrowImport(t) ==
    /\ thread' = [thread EXCEPT ![t] = IdleThread]
    /\ bull' = IF ~thread[t].owner THEN bull ELSE IF tries < Attempts THEN "waiting" ELSE "over"

TakeJob(t) ==
    /\ thread[t].pc = "idle" /\ bull = "waiting"
    /\ bull' = "active" /\ tries' = tries + 1
    /\ thread' = [thread EXCEPT ![t] = [IdleThread EXCEPT !.pc = "load", !.owner = TRUE]]
    /\ UNCHANGED <<importEnv, strategy, importRows, click, stalls, stopping, overrun>>

\* Only an import that is IMPORTING is processed, so a retry of one that was
\* marked FAILED does nothing.
LoadImport(t) ==
    /\ thread[t].pc = "load"
    /\ IF importJob = "IMPORTING" THEN Turn(t, "check") /\ UNCHANGED bull ELSE Return(t)
    /\ UNCHANGED <<importEnv, strategy, importRows, click, tries, stalls, stopping, overrun>>

\* Between two batches the status is read again.
GoesOn == ~Cancelled

Check(t) ==
    /\ thread[t].pc = "check"
    /\ IF ~GoesOn THEN Return(t) ELSE Turn(t, "list") /\ UNCHANGED bull
    /\ UNCHANGED <<importEnv, strategy, importRows, click, tries, stalls, stopping, overrun>>

\* The next rows by their numbers; without any, the import is complete.
FirstRows == {r \in Rows : row[r] = "VALID" /\
                 Cardinality({q \in Rows : q < r /\ row[q] = "VALID"}) < RowBatch}

ListRows(t) ==
    /\ thread[t].pc = "list"
    /\ thread' = [thread EXCEPT ![t].batch = FirstRows,
                                ![t].pc = IF FirstRows = {} THEN "complete" ELSE "row"]
    /\ UNCHANGED <<importEnv, strategy, importRows, click, queueVars, stopping, overrun>>

\* Rows are duplicates by country code and number, contacts by number alone.
FileDuplicate(r) == \E q \in Rows \ Unusable :
    q < r /\ Phone[q] = Phone[r] /\ Country[q] = Country[r]

\* A contact that exists is left alone, or its empty fields are filled.
SkipsAny(c) == c.exists
Skips(c) == c.exists /\ strategy = "SKIP_EXISTING"

\* The contact is read; what is decided here is written later.
ReadContact(t, r) ==
    /\ thread[t].pc = "row"
    /\ r \in thread[t].batch /\ \A q \in thread[t].batch : r <= q
    /\ LET c == contact[Phone[r]]
           next == IF FileDuplicate(r) \/ Skips(c) THEN "skip" ELSE "write" IN
       \E pc \in {next} \cup (IF Stricken("database") THEN {"failed"} ELSE {}) :
       thread' = [thread EXCEPT ![t].at = r, ![t].batch = thread[t].batch \ {r}, ![t].pc = pc,
                                ![t].update = c.exists,
                                ![t].grant = c.exists => ~c.out /\ c.consent = "UNKNOWN"]
    /\ UNCHANGED <<importEnv, strategy, importRows, click, queueVars, stopping, overrun>>

\* The row gets its last status, and the loop goes on.
EndRow(t, status) ==
    /\ overrun' = IF Cancelled THEN overrun + 1 ELSE overrun
    /\ row' = [row EXCEPT ![thread[t].at] = status]
    /\ thread' = [thread EXCEPT ![t].at = 0,
                                ![t].pc = IF thread[t].batch = {} THEN "check" ELSE "row"]

SkipRow(t) ==
    /\ thread[t].pc = "skip"
    /\ EndRow(t, "SKIPPED")
    /\ UNCHANGED <<importEnv, strategy, importJob, contact, click, queueVars, stopping>>

\* A contact created meanwhile is found by the unique index, and skipped.
WriteContact(t) ==
    /\ thread[t].pc = "write"
    /\ LET p == Phone[thread[t].at]  granted == [contact[p] EXCEPT !.consent = "GRANTED"] IN
       IF thread[t].update
       THEN /\ contact' = [contact EXCEPT ![p] = IF thread[t].grant THEN granted ELSE contact[p]]
            /\ Turn(t, "label")
       ELSE IF contact[p].exists THEN Turn(t, "skip") /\ UNCHANGED contact
       ELSE /\ contact' = [contact EXCEPT ![p] = [granted EXCEPT !.exists = TRUE, !.ours = TRUE]]
            /\ Turn(t, "label")
    /\ UNCHANGED <<importEnv, strategy, importJob, row, click, queueVars, stopping, overrun>>

\* Tags and list.
Label(t) ==
    /\ thread[t].pc = "label"
    /\ contact' = [contact EXCEPT ![Phone[thread[t].at]].listed = TRUE]
    /\ Turn(t, IF thread[t].grant THEN "consent" ELSE "imported")
    /\ UNCHANGED <<importEnv, strategy, importJob, row, click, queueVars, stopping, overrun>>

\* recordContactConsent writes GRANTED without looking; its errors are ignored.
RecordConsent(t) ==
    /\ thread[t].pc = "consent"
    /\ \/ contact' = [contact EXCEPT ![Phone[thread[t].at]].consent = "GRANTED"]
       \/ Stricken("database") /\ UNCHANGED contact
    /\ Turn(t, "imported")
    /\ UNCHANGED <<importEnv, strategy, importJob, row, click, queueVars, stopping, overrun>>

MarkImported(t) ==
    /\ thread[t].pc = "imported"
    /\ EndRow(t, "IMPORTED")
    /\ UNCHANGED <<importEnv, strategy, importJob, contact, click, queueVars, stopping>>

\* A row that failed is marked, and the next one tried.
MarkFailed(t) ==
    /\ thread[t].pc = "failed"
    /\ EndRow(t, "FAILED")
    /\ UNCHANGED <<importEnv, strategy, importJob, contact, click, queueVars, stopping>>

\* Whatever the status is by now.
Complete(t) ==
    /\ thread[t].pc = "complete"
    /\ importJob' = "COMPLETED"
    /\ Return(t)
    /\ UNCHANGED <<importEnv, strategy, row, contact, click, tries, stalls, stopping, overrun>>

\* The outer catch block: its update, or that fails too.
MarkBroken(t) ==
    /\ thread[t].pc = "broken"
    /\ importJob' \in {"FAILED", importJob}
    /\ ThrowImport(t)
    /\ UNCHANGED <<importEnv, strategy, row, contact, click, tries, stalls, stopping, overrun>>

\* A statement throws: outside the outer try, in the loop, or in a row.
StatementFails(t) ==
    /\ Stricken("database")
    /\ \/ thread[t].pc = "load" /\ ThrowImport(t)
       \/ /\ thread[t].pc \notin {"idle", "load", "row", "consent", "broken"}
          /\ UNCHANGED bull
          /\ Turn(t, IF thread[t].pc \in {"check", "list", "complete", "failed"} THEN "broken" ELSE "failed")
    /\ UNCHANGED <<importEnv, strategy, importRows, click, tries, stalls, stopping, overrun>>

\* BullMQ finds the job stalled, once more than it allows and it fails the job.
\* The execution has died, or goes on without its lock.
Stall(t) ==
    /\ thread[t].owner
    /\ \/ Stricken("crash") /\ thread' = [thread EXCEPT ![t] = IdleThread]
       \/ Stricken("lock")  /\ thread' = [thread EXCEPT ![t].owner = FALSE]
    /\ stalls' = stalls + 1
    /\ bull' = IF stalls < MaxStalls THEN "waiting" ELSE "over"
    /\ tries' = tries - 1
    /\ UNCHANGED <<importEnv, strategy, importRows, click, stopping, overrun>>

-----------------------------------------------------------------------------
(* The contacts: the webhook worker.                                       *)

WritesIn(p) ==
    /\ Stricken("inbound") /\ ~contact[p].exists
    /\ contact' = [contact EXCEPT ![p].exists = TRUE]
    /\ UNCHANGED <<importEnv, strategy, importJob, row, click, queueVars, thread, stopping, overrun>>

\* STOP blocks the contact, and revokes its consent in a statement of its own.
Stop(p) ==
    /\ Stricken("stop")
    /\ \/ /\ contact[p].exists /\ ~contact[p].out
          /\ contact' = [contact EXCEPT ![p].out = TRUE]
          /\ stopping' = stopping \cup {p}
       \/ /\ p \in stopping
          /\ contact' = [contact EXCEPT ![p].consent = "REVOKED"]
          /\ stopping' = stopping \ {p}
    /\ UNCHANGED <<importEnv, strategy, importJob, row, click, queueVars, thread, overrun>>

-----------------------------------------------------------------------------
ThreadStep(t) ==
    \/ TakeJob(t) \/ LoadImport(t) \/ Check(t) \/ ListRows(t) \/ SkipRow(t) \/ WriteContact(t)
    \/ Label(t) \/ RecordConsent(t) \/ MarkImported(t) \/ MarkFailed(t) \/ Complete(t) \/ MarkBroken(t)
    \/ \E r \in Rows : ReadContact(t, r)

ClickStep(u) == Write(u) \/ ValidateRows(u) \/ StartAdd(u)

ImportNext ==
    \/ \E u \in Clicks :
        AskMapping(u) \/ AskValidate(u) \/ AskStart(u) \/ AskCancel(u) \/ ClickStep(u)
    \/ \E t \in Threads : ThreadStep(t) \/ StatementFails(t) \/ Stall(t)
    \/ \E p \in Phones : WritesIn(p) \/ Stop(p)

ImportSpec == ImportInit /\ [][ImportNext]_importVars

-----------------------------------------------------------------------------
\* A canceled import stops between batches: nothing but the batches under way,
\* one per execution, is decided after the cancellation.
CanceledImportStops ==
    overrun <= RowBatch * (IF Stricken("lock") THEN Cardinality(Threads) ELSE 1)

\* When an import is complete, every row has been decided, and each contact it
\* created has its tags and list: after a crash, too, if rows update existing
\* contacts.  With SKIP_EXISTING the retry finds the contact that the first try
\* made, and skips the rest; so does, whatever the strategy, an execution that
\* lost its lock and meets the contact another one made and left; a validation
\* that overlaps with the start puts imported rows back.
Undisturbed ==
    /\ importEnv \cap {"again", "database"} = {}
    /\ Stricken("crash") => strategy = "UPDATE_EXISTING" /\ ~Stricken("lock")

CompletedIsWhole ==
    Undisturbed /\ importJob = "COMPLETED" /\ (\A t \in Threads : thread[t] = IdleThread)
    => /\ \A r \in Rows : row[r] # "VALID"
       /\ \A p \in Phones : contact[p].ours => contact[p].listed

\* A completed import has done all it should, a canceled one nothing more.
ImportEndsAsAsked == CompletedIsWhole /\ CanceledImportStops

\* What docs/contact-import-foundation.md says of consent: an import never
\* gives it back to a contact that has opted out.
ConsentKept == \A p \in Phones :
    contact[p].out /\ p \notin stopping => contact[p].consent # "GRANTED"
=============================================================================
