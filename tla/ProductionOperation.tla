------------------------- MODULE ProductionOperation -------------------------
(***************************************************************************)
(* The scripts that deploy, roll back and restore production, the lock row *)
(* they share (production-operation-lock.service.ts), the lock file of a   *)
(* restore, and the maintenance mode they switch.                          *)
(*                                                                         *)
(* A restore puts back the whole database, the lock row and the maintenance*)
(* mode included, as some earlier operation had them when it took a backup.*)
(* The stages in between, and the rows that report on them, are one step   *)
(* that may fail.                                                          *)
(***************************************************************************)
EXTENDS Integers

CONSTANTS
    Scripts,            \* processes that run one script after another
    Kinds,              \* the operations they run
    Lifetime,           \* ttlMinutes of a lock: 120, of a restore 180
    MaxTime,
    OperationEnvironments

\* Every operation there is a script for.
OperationKinds == {"DEPLOY", "ROLLBACK", "RESTORE"}

OperationFaults ==
    { "crash",      \* a script dies
      "overrun",    \* a script outlives its lock
      "force",      \* an owner releases the lock by hand
      "manual",     \* an owner switches maintenance mode by hand
      "restore",    \* a restore gets as far as pg_restore
      "resume" }    \* *_DISABLE_MAINTENANCE_ON_FAILURE is set

VARIABLES
    opEnv, time,
    lock,           \* the ProductionOperationLock row
    lockFile,       \* when the lock file expires
    maintenance,    \* SystemMaintenanceMode.enabled
    script

operationVars == <<opEnv, time, lock, lockFile, maintenance, script>>

Missing == [kind |-> "none", expires |-> -1]
LockRow == [kind : OperationKinds \cup {"none"}, expires : Int]
ScriptRow == [pc : {"idle", "file", "remove", "write", "create", "takeover", "enable", "work",
                    "migrate", "disable", "failed", "release", "unlink"},
              kind : OperationKinds \cup {"none"}, now : Int, filed : BOOLEAN, locked : BOOLEAN]
Idle == [pc |-> "idle", kind |-> "none", now |-> 0, filed |-> FALSE, locked |-> FALSE]

Occurs(fault) == fault \in opEnv

OperationTypeOK ==
    /\ opEnv \in OperationEnvironments
    /\ time \in Int
    /\ lock \in LockRow /\ lockFile \in Int
    /\ maintenance \in BOOLEAN
    /\ script \in [Scripts -> ScriptRow]

OperationInit ==
    /\ opEnv \in OperationEnvironments
    /\ time = 0
    /\ lock = Missing /\ lockFile = -1
    /\ maintenance = FALSE
    /\ script = [p \in Scripts |-> Idle]

GotoStage(p, pc) == script' = [script EXCEPT ![p].pc = pc]

-----------------------------------------------------------------------------
\* now is read once, for the comparison and for the new expiry.
StartScript(p) ==
    /\ script[p].pc = "idle"
    /\ \E kind \in Kinds : script' = [script EXCEPT ![p] =
          [pc |-> IF kind = "RESTORE" THEN "file" ELSE "create",
           kind |-> kind, now |-> time, filed |-> FALSE, locked |-> FALSE]]
    /\ UNCHANGED <<opEnv, time, lock, lockFile, maintenance>>

\* Only restores look at the file.  Two that find it expired both remove it, the
\* second perhaps after the first has written its own.
ReadFile(p) ==
    /\ script[p].pc = "file"
    /\ GotoStage(p, IF lockFile > script[p].now THEN "failed"
                     ELSE IF lockFile = -1 THEN "write" ELSE "remove")
    /\ UNCHANGED <<opEnv, time, lock, lockFile, maintenance>>

RemoveFile(p) ==
    /\ script[p].pc = "remove"
    /\ lockFile' = -1
    /\ GotoStage(p, "write")
    /\ UNCHANGED <<opEnv, time, lock, maintenance>>

\* The flag "wx" lets nobody write where a file is.
AcquireFile(p) ==
    /\ script[p].pc = "write"
    /\ IF lockFile # -1
       THEN GotoStage(p, "failed") /\ UNCHANGED lockFile
       ELSE /\ lockFile' = script[p].now + Lifetime
            /\ script' = [script EXCEPT ![p].pc = "create", ![p].now = time, ![p].filed = TRUE]
    /\ UNCHANGED <<opEnv, time, lock, maintenance>>

HoldLock(p) ==
    /\ lock' = [kind |-> script[p].kind, expires |-> script[p].now + Lifetime]
    /\ script' = [script EXCEPT ![p].pc = "enable", ![p].locked = TRUE]

\* The row is created, or any error leads to the second try.
CreateLock(p) ==
    /\ script[p].pc = "create"
    /\ IF lock = Missing THEN HoldLock(p) ELSE GotoStage(p, "takeover") /\ UNCHANGED lock
    /\ UNCHANGED <<opEnv, time, lockFile, maintenance>>

\* A conditional update takes over a row that has expired.
AnyRow(p) == lock # Missing
ExpiredRow(p) == lock # Missing /\ lock.expires <= script[p].now

TakeOverLock(p) ==
    /\ script[p].pc = "takeover"
    /\ IF ExpiredRow(p) THEN HoldLock(p) ELSE GotoStage(p, "failed") /\ UNCHANGED lock
    /\ UNCHANGED <<opEnv, time, lockFile, maintenance>>

\* The row is read back after that; a script that fails there does not know
\* that the lock is its own, and leaves it to expire.
TakeOverUnseen(p) ==
    /\ script[p].pc = "takeover" /\ ExpiredRow(p)
    /\ lock' = [kind |-> script[p].kind, expires |-> script[p].now + Lifetime]
    /\ GotoStage(p, "failed")
    /\ UNCHANGED <<opEnv, time, lockFile, maintenance>>

EnableMaintenance(p) ==
    /\ script[p].pc = "enable"
    /\ maintenance' = TRUE
    /\ GotoStage(p, "work")
    /\ UNCHANGED <<opEnv, time, lock, lockFile>>

\* What the lock row of a backup may say: the nightly job has none, operations
\* take theirs while they hold the lock, which may have expired since.
SavedRows == {Missing} \cup [kind : Kinds, expires : {time, time + Lifetime}]

\* pg_restore --clean replaces every table, migrations and restart follow.
PgRestore(p) ==
    /\ script[p].kind = "RESTORE" /\ script[p].pc = "work" /\ Occurs("restore")
    /\ lock' \in SavedRows /\ maintenance' \in BOOLEAN
    /\ GotoStage(p, "migrate")
    /\ UNCHANGED <<opEnv, time, lockFile>>

\* Migrations, build, restart and health checks.
Work(p) ==
    /\ \/ script[p].pc = "migrate"
       \/ script[p].pc = "work" /\ script[p].kind # "RESTORE"
    /\ GotoStage(p, "disable")
    /\ UNCHANGED <<opEnv, time, lock, lockFile, maintenance>>

DisableMaintenance(p) ==
    /\ script[p].pc = "disable"
    /\ maintenance' = FALSE
    /\ GotoStage(p, "release")
    /\ UNCHANGED <<opEnv, time, lock, lockFile>>

StageFails(p) ==
    /\ script[p].pc \in {"file", "remove", "write", "create", "takeover", "enable", "work",
                        "migrate", "disable"}
    /\ GotoStage(p, "failed")
    /\ UNCHANGED <<opEnv, time, lock, lockFile, maintenance>>

\* The catch block leaves maintenance mode on, unless it is told not to: then
\* it switches it off even if the lock is somebody else's.
ResumesAnyway == TRUE
Resumes == Occurs("resume")

HandleFailure(p) ==
    /\ script[p].pc = "failed"
    /\ maintenance' \in IF Resumes THEN {FALSE, maintenance} ELSE {maintenance}
    /\ GotoStage(p, "release")
    /\ UNCHANGED <<opEnv, time, lock, lockFile>>

\* The finally block deletes the row by the kind of operation, if this script
\* had it; nothing compares the owner.  An error is logged and the row stays.
Releases(p) == script[p].locked /\ lock.kind = script[p].kind

ReleaseLock(p) ==
    /\ script[p].pc = "release"
    /\ lock' \in IF Releases(p) THEN {Missing, lock} ELSE {lock}
    /\ script' = [script EXCEPT ![p].pc = "unlink", ![p].locked = FALSE]
    /\ UNCHANGED <<opEnv, time, lockFile, maintenance>>

ReleaseFile(p) ==
    /\ script[p].pc = "unlink"
    /\ lockFile' \in IF script[p].filed THEN {-1, lockFile} ELSE {lockFile}
    /\ script' = [script EXCEPT ![p] = Idle]
    /\ UNCHANGED <<opEnv, time, lock, maintenance>>

ScriptDies(p) ==
    /\ Occurs("crash") /\ script[p].pc # "idle"
    /\ script' = [script EXCEPT ![p] = Idle]
    /\ UNCHANGED <<opEnv, time, lock, lockFile, maintenance>>

ForceRelease ==
    /\ Occurs("force") /\ lock # Missing
    /\ lock' = Missing
    /\ UNCHANGED <<opEnv, time, lockFile, maintenance, script>>

SwitchMaintenance ==
    /\ Occurs("manual")
    /\ maintenance' = ~maintenance
    /\ UNCHANGED <<opEnv, time, lock, lockFile, script>>

\* A script that takes or has the lock ends before it expires, unless it overruns.
Busy(p) == script[p].locked \/ script[p].pc \in {"create", "takeover"}
InTime(p) == Busy(p) => time + 1 < script[p].now + Lifetime

Pass ==
    /\ time < MaxTime
    /\ \A p \in Scripts : InTime(p) \/ Occurs("overrun")
    /\ time' = time + 1
    /\ UNCHANGED <<opEnv, lock, lockFile, maintenance, script>>

ScriptStep(p) ==
    \/ StartScript(p) \/ ReadFile(p) \/ RemoveFile(p) \/ AcquireFile(p) \/ CreateLock(p)
    \/ TakeOverLock(p) \/ TakeOverUnseen(p) \/ EnableMaintenance(p) \/ PgRestore(p) \/ Work(p)
    \/ DisableMaintenance(p) \/ StageFails(p) \/ HandleFailure(p) \/ ReleaseLock(p) \/ ReleaseFile(p) \/ ScriptDies(p)

OperationNext == (\E p \in Scripts : ScriptStep(p)) \/ ForceRelease \/ SwitchMaintenance \/ Pass

OperationSpec == OperationInit /\ [][OperationNext]_operationVars

-----------------------------------------------------------------------------
\* What keeps the lock: nobody outlives it, deletes it or restores another.
Guarded == opEnv \cap {"overrun", "force", "restore"} = {}

AtWork(p) == script[p].locked /\ script[p].pc \in {"enable", "work", "migrate", "disable"}

\* Two scripts never work on production at the same time: what
\* docs/production-deploy.md says the lock prevents.  The row is deleted by its
\* kind alone, so a script that overran its lock releases its successor's.
OneOperation == Guarded => \A p, q \in Scripts : AtWork(p) /\ AtWork(q) => p = q

\* Production is in maintenance mode from the first stage of an operation to its
\* last, so no customer writes to a database that is being migrated: not even
\* while another script fails for want of the lock, or after one has died.
WorksUnderMaintenance ==
    Guarded /\ opEnv \cap {"manual", "resume"} = {} =>
        \A p \in Scripts : AtWork(p) /\ script[p].pc # "enable" => maintenance
=============================================================================
