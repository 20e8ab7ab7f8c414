---------------------------- MODULE ServiceProofs ----------------------------
(***************************************************************************)
(* What holds of four services for any number of processes, requests,      *)
(* refunds and endpoints: one script at a time changes the database of     *)
(* production, the handler of an idempotent request takes effect once      *)
(* while its record lives, the books of a refund follow its money, and an  *)
(* endpoint gets one delivery of an event.                                 *)
(***************************************************************************)
EXTENDS MCServices, CreditPurchaseProofs

-----------------------------------------------------------------------------
(* Production operations.                                                  *)

\* What the theorems assume of the constants.
Lifetimes == Lifetime \in Nat \ {0} /\ Kinds \subseteq OperationKinds

\* A script read the clock in the past, and once it takes the lock it has time left.
ClockRead(p) ==
    /\ script[p].pc # "idle" => script[p].now <= time /\ script[p].kind \in OperationKinds
    /\ Busy(p) => time < script[p].now + Lifetime

\* The script that knows it has the lock does have it.
Owns(p) ==
    script[p].locked => lock = [kind |-> script[p].kind, expires |-> script[p].now + Lifetime]

\* Only scripts that have the lock are past taking it.
Entered(p) ==
    /\ script[p].pc \in {"enable", "work", "migrate", "disable"} => script[p].locked
    /\ script[p].locked =>
        script[p].pc \in {"enable", "work", "migrate", "disable", "failed", "release"}

OneOwner == \A p, q \in Scripts : script[p].locked /\ script[q].locked => p = q

LockInv ==
    /\ OperationTypeOK
    /\ OneOwner
    /\ \A p \in Scripts : ClockRead(p) /\ Owns(p) /\ Entered(p)

\* Somebody at work has switched maintenance mode on, and nobody else has it off.
Undisturbed == Guarded /\ opEnv \cap {"manual", "resume"} = {}
MaintenanceInv ==
    \A p \in Scripts : AtWork(p) /\ script[p].pc # "enable" => maintenance

-----------------------------------------------------------------------------
\* What a step from one stage to another leaves of a script.
LEMMA StageFields ==
    ASSUME OperationTypeOK, NEW p \in Scripts, NEW stage, GotoStage(p, stage)
    PROVE  /\ script'[p].pc = stage /\ script'[p].now = script[p].now
           /\ script'[p].kind = script[p].kind /\ script'[p].locked = script[p].locked
<1>1. script[p] \in ScriptRow /\ script' = [script EXCEPT ![p] = [script[p] EXCEPT !.pc = stage]]
    BY DEF OperationTypeOK, GotoStage
<1>2. script'[p] = [script[p] EXCEPT !.pc = stage]
    BY <1>1 DEF OperationTypeOK
<1> QED BY <1>1, <1>2 DEF ScriptRow

LEMMA HoldFields ==
    ASSUME OperationTypeOK, NEW p \in Scripts, HoldLock(p)
    PROVE  /\ script'[p].pc = "enable" /\ script'[p].now = script[p].now
           /\ script'[p].kind = script[p].kind /\ script'[p].locked
           /\ lock' = [kind |-> script[p].kind, expires |-> script[p].now + Lifetime]
<1>1. /\ script[p] \in ScriptRow
      /\ script' = [script EXCEPT ![p] = [script[p] EXCEPT !.pc = "enable", !.locked = TRUE]]
    BY DEF OperationTypeOK, HoldLock
<1>2. script'[p] = [script[p] EXCEPT !.pc = "enable", !.locked = TRUE]
    BY <1>1 DEF OperationTypeOK
<1> QED BY <1>1, <1>2 DEF ScriptRow, HoldLock

-----------------------------------------------------------------------------
\* The types hold, whatever goes wrong.
LEMMA OperationTypes == ASSUME Lifetimes PROVE
    OperationTypeOK /\ [OperationNext]_operationVars => OperationTypeOK'
<1> SUFFICES ASSUME Lifetimes, OperationTypeOK, [OperationNext]_operationVars
             PROVE  OperationTypeOK'
    OBVIOUS
<1>1. CASE UNCHANGED operationVars
    BY <1>1 DEF operationVars, OperationTypeOK
<1>2. ASSUME NEW p \in Scripts, ScriptStep(p) PROVE OperationTypeOK'
    <2> USE <1>2 DEF OperationTypeOK, Lifetimes
    <2>1. opEnv' \in OperationEnvironments /\ time' \in Int
        BY DEF ScriptStep, StartScript, ReadFile, RemoveFile, AcquireFile, CreateLock, TakeOverLock, TakeOverUnseen,
               EnableMaintenance, PgRestore, Work, DisableMaintenance, StageFails, HandleFailure,
               ReleaseLock, ReleaseFile, ScriptDies
    <2>2. lockFile' \in Int
        <3>1. script[p].now + Lifetime \in Int
            BY DEF ScriptRow
        <3>2. lockFile' \in {lockFile, script[p].now + Lifetime, -1}
            <4> HIDE DEF Lifetimes
            <4> QED BY DEF ScriptStep, StartScript, ReadFile, RemoveFile, AcquireFile, CreateLock, TakeOverLock,
                       TakeOverUnseen, EnableMaintenance, PgRestore, Work, DisableMaintenance,
                       StageFails, HandleFailure, ReleaseLock, ReleaseFile, ScriptDies
        <3> QED BY <3>1, <3>2
    <2>3. maintenance' \in BOOLEAN
        BY DEF ScriptStep, StartScript, ReadFile, RemoveFile, AcquireFile, CreateLock, TakeOverLock, TakeOverUnseen,
               EnableMaintenance, PgRestore, Work, DisableMaintenance, StageFails, HandleFailure,
               ReleaseLock, ReleaseFile, ScriptDies
    <2>4. [kind |-> script[p].kind, expires |-> script[p].now + Lifetime] \in LockRow
        BY DEF LockRow, ScriptRow
    <2>5. SavedRows \subseteq LockRow /\ Missing \in LockRow
        <3> time + Lifetime \in Int
            OBVIOUS
        <3> QED BY DEF SavedRows, LockRow, Missing
    <2>6. lock' \in LockRow
        <3> HIDE DEF Lifetimes
        <3>1. CASE CreateLock(p) \/ TakeOverLock(p) \/ TakeOverUnseen(p)
            BY <3>1, <2>4 DEF CreateLock, TakeOverLock, TakeOverUnseen, HoldLock
        <3>2. CASE PgRestore(p)
            BY <3>2, <2>5 DEF PgRestore
        <3>3. CASE ReleaseLock(p)
            BY <3>3, <2>5 DEF ReleaseLock
        <3>4. CASE ~(CreateLock(p) \/ TakeOverLock(p) \/ TakeOverUnseen(p) \/ PgRestore(p) \/ ReleaseLock(p))
            BY <3>4 DEF ScriptStep, StartScript, ReadFile, RemoveFile, AcquireFile, EnableMaintenance, Work,
                        DisableMaintenance, StageFails, HandleFailure, ReleaseFile, ScriptDies
        <3> QED BY <3>1, <3>2, <3>3, <3>4
    <2>7. script' \in [Scripts -> ScriptRow]
        <3>7. CASE ReadFile(p) \/ RemoveFile(p)
            BY <3>7 DEF ReadFile, RemoveFile, GotoStage, ScriptRow
        <3>1. CASE AcquireFile(p) \/ CreateLock(p) \/ TakeOverLock(p) \/ TakeOverUnseen(p)
            BY <3>1 DEF AcquireFile, CreateLock, TakeOverLock, TakeOverUnseen, HoldLock, GotoStage, ScriptRow
        <3>2. CASE EnableMaintenance(p) \/ PgRestore(p) \/ Work(p) \/ DisableMaintenance(p)
            BY <3>2 DEF EnableMaintenance, PgRestore, Work, DisableMaintenance, GotoStage, ScriptRow
        <3>3. CASE StageFails(p) \/ HandleFailure(p)
            <4>1. script' = [script EXCEPT ![p].pc = "failed"] \/ script' = [script EXCEPT ![p].pc = "release"]
                BY <3>3 DEF StageFails, HandleFailure, GotoStage
            <4> QED BY <4>1 DEF ScriptRow
        <3>6. CASE ReleaseLock(p)
            <4>1. script' = [script EXCEPT ![p] = [script[p] EXCEPT !.pc = "unlink", !.locked = FALSE]]
                BY <3>6 DEF ReleaseLock
            <4>2. [script[p] EXCEPT !.pc = "unlink", !.locked = FALSE] \in ScriptRow
                BY DEF ScriptRow
            <4> QED BY <4>1, <4>2
        <3>4. CASE ReleaseFile(p) \/ ScriptDies(p)
            <4>1. Idle \in ScriptRow
                BY DEF Idle, ScriptRow
            <4>2. script' = [script EXCEPT ![p] = Idle]
                BY <3>4 DEF ReleaseFile, ScriptDies
            <4> QED BY <4>1, <4>2
        <3>5. CASE StartScript(p)
            <4>1. PICK kind \in Kinds : script' = [script EXCEPT ![p] =
                    [pc |-> IF kind = "RESTORE" THEN "file" ELSE "create",
                     kind |-> kind, now |-> time, filed |-> FALSE, locked |-> FALSE]]
                BY <3>5 DEF StartScript
            <4> DEFINE entry == [pc |-> IF kind = "RESTORE" THEN "file" ELSE "create",
                               kind |-> kind, now |-> time, filed |-> FALSE, locked |-> FALSE]
            <4>2. entry \in ScriptRow
                BY DEF ScriptRow
            <4>3. script' = [script EXCEPT ![p] = entry]
                BY <4>1
            <4> HIDE DEF entry
            <4> QED BY <4>2, <4>3
        <3> QED BY <3>1, <3>2, <3>3, <3>4, <3>5, <3>6, <3>7 DEF ScriptStep
    <2> QED BY <2>1, <2>2, <2>3, <2>6, <2>7
<1>3. CASE ForceRelease
    BY <1>3 DEF ForceRelease, OperationTypeOK, Missing, LockRow
<1>4. CASE SwitchMaintenance
    BY <1>4 DEF SwitchMaintenance, OperationTypeOK
<1>5. CASE Pass
    BY <1>5 DEF Pass, OperationTypeOK
<1> QED BY <1>1, <1>2, <1>3, <1>4, <1>5 DEF OperationNext

-----------------------------------------------------------------------------
\* A step of one script leaves the others as they are.
LEMMA OthersStay == ASSUME OperationTypeOK, NEW p \in Scripts, ScriptStep(p) PROVE
    /\ \A q \in Scripts \ {p} : script'[q] = script[q]
    /\ UNCHANGED <<opEnv, time>>
<1> USE DEF OperationTypeOK
<1>1. CASE StartScript(p) \/ ReadFile(p) \/ RemoveFile(p) \/ AcquireFile(p) \/ CreateLock(p)
           \/ TakeOverLock(p) \/ TakeOverUnseen(p)
    BY <1>1 DEF StartScript, ReadFile, RemoveFile, AcquireFile, CreateLock, TakeOverLock, TakeOverUnseen, HoldLock, GotoStage
<1>2. CASE EnableMaintenance(p) \/ PgRestore(p) \/ Work(p) \/ DisableMaintenance(p) \/ StageFails(p)
    BY <1>2 DEF EnableMaintenance, PgRestore, Work, DisableMaintenance, StageFails, GotoStage
<1>3. CASE HandleFailure(p) \/ ReleaseLock(p) \/ ReleaseFile(p) \/ ScriptDies(p)
    BY <1>3 DEF HandleFailure, ReleaseLock, ReleaseFile, ScriptDies, GotoStage
<1> QED BY <1>1, <1>2, <1>3 DEF ScriptStep

\* What a script's own step does to what it knows of the lock.
LEMMA OwnStep ==
    ASSUME Lifetimes, Guarded, LockInv, NEW p \in Scripts, ScriptStep(p)
    PROVE  ClockRead(p)' /\ Owns(p)' /\ Entered(p)'
<1>0. time' = time /\ time \in Int /\ OperationTypeOK
    BY OthersStay DEF LockInv, OperationTypeOK
<1>i. ClockRead(p) /\ Owns(p) /\ Entered(p)
    BY DEF LockInv
<1> USE <1>0, <1>i DEF ClockRead, Owns, Entered, Busy
<1>1. CASE StartScript(p)
    <2>1. PICK kind \in Kinds : script' = [script EXCEPT ![p] =
            [pc |-> IF kind = "RESTORE" THEN "file" ELSE "create",
             kind |-> kind, now |-> time, filed |-> FALSE, locked |-> FALSE]]
        BY <1>1 DEF StartScript
    <2>2. /\ script'[p].pc \in {"file", "create"} /\ script'[p].now = time
          /\ script'[p].kind \in OperationKinds /\ ~script'[p].locked
        BY <2>1 DEF OperationTypeOK, Lifetimes
    <2> QED BY <2>2 DEF Lifetimes
<1>13. CASE ReadFile(p)
    <2>1. GotoStage(p, "failed") \/ GotoStage(p, "write") \/ GotoStage(p, "remove")
        BY <1>13 DEF ReadFile
    <2> QED BY <2>1, <1>13, StageFields DEF ReadFile
<1>14. CASE RemoveFile(p)
    BY <1>14, StageFields DEF RemoveFile
<1>2. CASE AcquireFile(p)
    <2>1. CASE GotoStage(p, "failed")
        BY <2>1, <1>2, StageFields DEF AcquireFile
    <2>2. CASE ~GotoStage(p, "failed")
        <3>1. script' = [script EXCEPT ![p] =
                 [script[p] EXCEPT !.pc = "create", !.now = time, !.filed = TRUE]]
            BY <2>2, <1>2 DEF AcquireFile, OperationTypeOK
        <3>2. script[p] \in ScriptRow /\ script[p].pc = "write"
            BY <1>2 DEF AcquireFile, OperationTypeOK
        <3>3. script'[p] = [script[p] EXCEPT !.pc = "create", !.now = time, !.filed = TRUE]
            BY <3>1 DEF OperationTypeOK
        <3>4. /\ script'[p].pc = "create" /\ script'[p].now = time
              /\ script'[p].kind = script[p].kind /\ script'[p].locked = script[p].locked
            BY <3>2, <3>3 DEF ScriptRow
        <3> QED BY <3>2, <3>4 DEF Lifetimes
    <2> QED BY <2>1, <2>2
<1>3. CASE CreateLock(p) \/ TakeOverLock(p)
    <2>1. CASE HoldLock(p)
        BY <2>1, <1>3, HoldFields DEF CreateLock, TakeOverLock
    <2>2. CASE GotoStage(p, "takeover") /\ script[p].pc = "create"
        BY <2>2, StageFields
    <2>3. CASE GotoStage(p, "failed") /\ script[p].pc = "takeover"
        BY <2>3, StageFields
    <2> QED BY <1>3, <2>1, <2>2, <2>3 DEF CreateLock, TakeOverLock
<1>4. CASE TakeOverUnseen(p)
    BY <1>4, StageFields DEF TakeOverUnseen
<1>5. CASE EnableMaintenance(p)
    BY <1>5, StageFields DEF EnableMaintenance
<1>6. CASE Work(p)
    BY <1>6, StageFields DEF Work
<1>7. CASE DisableMaintenance(p)
    BY <1>7, StageFields DEF DisableMaintenance
<1>8. CASE StageFails(p)
    BY <1>8, StageFields DEF StageFails
<1>9. CASE HandleFailure(p)
    BY <1>9, StageFields DEF HandleFailure
<1>10. CASE PgRestore(p)
    BY <1>10 DEF PgRestore, Guarded, Occurs
<1>11. CASE ReleaseLock(p)
    <2>1. script[p] \in ScriptRow /\ script[p].pc = "release"
        BY <1>11 DEF ReleaseLock, OperationTypeOK
    <2>2. script'[p] = [script[p] EXCEPT !.pc = "unlink", !.locked = FALSE]
        BY <1>11 DEF ReleaseLock, OperationTypeOK
    <2>3. /\ script'[p].pc = "unlink" /\ script'[p].now = script[p].now
          /\ script'[p].kind = script[p].kind /\ ~script'[p].locked
        BY <2>1, <2>2 DEF ScriptRow
    <2> QED BY <2>1, <2>3
<1>12. CASE ReleaseFile(p) \/ ScriptDies(p)
    <2>1. script'[p] = Idle
        BY <1>12 DEF ReleaseFile, ScriptDies, OperationTypeOK
    <2> QED BY <2>1 DEF Idle
<1> QED BY <1>1, <1>2, <1>3, <1>4, <1>5, <1>6, <1>7, <1>8, <1>9, <1>10, <1>11, <1>12, <1>13, <1>14
         DEF ScriptStep

\* While one script has the lock, a step of another neither takes nor writes it.
LEMMA LockIsKept ==
    ASSUME Lifetimes, Guarded, LockInv, NEW p \in Scripts, NEW q \in Scripts, p # q,
           script[q].locked, ScriptStep(p)
    PROVE  lock' = lock /\ ~script'[p].locked
<1>1. ~script[p].locked /\ OperationTypeOK
    BY DEF OneOwner, LockInv
<1>2. /\ lock = [kind |-> script[q].kind, expires |-> script[q].now + Lifetime]
      /\ time < script[q].now + Lifetime /\ script[q].kind \in OperationKinds
    BY DEF LockInv, Owns, ClockRead, Busy, Entered
<1>3. lock # Missing /\ lock.expires > time /\ time \in Int /\ lock.expires \in Int
    <2>1. script[q].now \in Int
        BY <1>1 DEF OperationTypeOK, ScriptRow
    <2>2. lock.kind # "none" /\ lock.expires = script[q].now + Lifetime
        BY <1>2 DEF OperationKinds
    <2> QED BY <2>1, <2>2, <1>1, <1>2 DEF Missing, Lifetimes, OperationTypeOK
<1>4. script[p].now \in Int /\ (script[p].pc # "idle" => script[p].now <= time)
    BY <1>1 DEF LockInv, ClockRead, OperationTypeOK, ScriptRow
<1>5. script[p].pc = "takeover" => ~ExpiredRow(p)
    BY <1>3, <1>4 DEF ExpiredRow
<1>6. ~Releases(p)
    BY <1>1 DEF Releases
<1>l. lock' = lock
    <2>1. CASE CreateLock(p) \/ TakeOverLock(p) \/ TakeOverUnseen(p)
        BY <2>1, <1>3, <1>5 DEF CreateLock, TakeOverLock, TakeOverUnseen
    <2>2. CASE PgRestore(p) \/ ReleaseLock(p)
        BY <2>2, <1>6 DEF PgRestore, ReleaseLock, Guarded, Occurs
    <2>3. CASE ~(CreateLock(p) \/ TakeOverLock(p) \/ TakeOverUnseen(p) \/ PgRestore(p) \/ ReleaseLock(p))
        BY <2>3 DEF ScriptStep, StartScript, ReadFile, RemoveFile, AcquireFile, EnableMaintenance, Work,
                    DisableMaintenance, StageFails, HandleFailure, ReleaseFile, ScriptDies
    <2> QED BY <2>1, <2>2, <2>3
<1>s. ~script'[p].locked
    <2>1. SUFFICES ASSUME script'[p].locked PROVE FALSE
        OBVIOUS
    <2>2. time' = time /\ ClockRead(p)' /\ Owns(p)' /\ Entered(p)'
        BY OwnStep, OthersStay, <1>1
    <2>3. CASE CreateLock(p) \/ TakeOverLock(p)
        <3>1. GotoStage(p, "takeover") \/ GotoStage(p, "failed")
            BY <2>3, <1>3, <1>5 DEF CreateLock, TakeOverLock
        <3> QED BY <3>1, <2>1, <1>1, StageFields
    <2>4. CASE StartScript(p)
        <3>1. PICK kind \in Kinds : script' = [script EXCEPT ![p] =
                [pc |-> IF kind = "RESTORE" THEN "file" ELSE "create",
                 kind |-> kind, now |-> time, filed |-> FALSE, locked |-> FALSE]]
            BY <2>4 DEF StartScript
        <3> QED BY <3>1, <2>1, <1>1 DEF OperationTypeOK
    <2>5. CASE AcquireFile(p)
        <3>1. script[p] \in ScriptRow
            BY <1>1 DEF OperationTypeOK
        <3>2. CASE GotoStage(p, "failed")
            BY <3>2, <2>1, <1>1, StageFields
        <3>3. CASE ~GotoStage(p, "failed")
            <4>1. script'[p] = [script[p] EXCEPT !.pc = "create", !.now = time, !.filed = TRUE]
                BY <3>3, <2>5, <1>1 DEF AcquireFile, OperationTypeOK
            <4> QED BY <4>1, <3>1, <2>1, <1>1 DEF ScriptRow
        <3> QED BY <3>2, <3>3
    <2>6. CASE ReleaseLock(p) \/ ReleaseFile(p) \/ ScriptDies(p)
        <3>1. CASE ReleaseLock(p)
            <4>1. script[p] \in ScriptRow /\ script'[p] = [script[p] EXCEPT !.pc = "unlink", !.locked = FALSE]
                BY <3>1, <1>1 DEF ReleaseLock, OperationTypeOK
            <4> QED BY <4>1, <2>1 DEF ScriptRow
        <3>2. CASE ReleaseFile(p) \/ ScriptDies(p)
            <4>1. script'[p] = Idle
                BY <3>2, <1>1 DEF ReleaseFile, ScriptDies, OperationTypeOK
            <4> QED BY <4>1, <2>1 DEF Idle
        <3> QED BY <2>6, <3>1, <3>2
    <2>7. CASE ~(CreateLock(p) \/ TakeOverLock(p) \/ StartScript(p) \/ AcquireFile(p)
                 \/ ReleaseLock(p) \/ ReleaseFile(p) \/ ScriptDies(p))
        <3>1. \E stage : GotoStage(p, stage)
            BY <2>7 DEF ScriptStep, ReadFile, RemoveFile, TakeOverUnseen, EnableMaintenance, PgRestore, Work,
                        DisableMaintenance, StageFails, HandleFailure
        <3> QED BY <3>1, <2>1, <1>1, StageFields
    <2> QED BY <2>3, <2>4, <2>5, <2>6, <2>7
<1> QED BY <1>l, <1>s

-----------------------------------------------------------------------------
\* The lock: nobody else has it, and it is the row.
LEMMA LockInvStep ==
    Lifetimes /\ Guarded /\ LockInv /\ [OperationNext]_operationVars => LockInv'
<1> SUFFICES ASSUME Lifetimes, Guarded, LockInv, [OperationNext]_operationVars
             PROVE  LockInv'
    OBVIOUS
<1>t. OperationTypeOK'
    BY OperationTypes DEF LockInv
<1>1. CASE UNCHANGED operationVars
    BY <1>1, <1>t DEF operationVars, LockInv, OneOwner, ClockRead, Owns, Entered, Busy
<1>2. ASSUME NEW p \in Scripts, ScriptStep(p) PROVE LockInv'
    <2>1. ClockRead(p)' /\ Owns(p)' /\ Entered(p)'
        BY <1>2, OwnStep
    <2>2. time' = time /\ \A q \in Scripts \ {p} : script'[q] = script[q]
        BY <1>2, OthersStay DEF LockInv
    <2>3. \A q \in Scripts \ {p} : script[q].locked => lock' = lock /\ ~script'[p].locked
        BY <1>2, LockIsKept
    <2>4. \A q \in Scripts \ {p} : ClockRead(q)' /\ Owns(q)' /\ Entered(q)'
        BY <2>2, <2>3 DEF LockInv, ClockRead, Owns, Entered, Busy
    <2>5. OneOwner'
        BY <2>2, <2>3 DEF OneOwner, LockInv
    <2> QED BY <1>t, <2>1, <2>4, <2>5 DEF LockInv
<1>3. CASE ForceRelease
    BY <1>3 DEF ForceRelease, Guarded, Occurs
<1>4. CASE SwitchMaintenance
    BY <1>4, <1>t DEF SwitchMaintenance, LockInv, OneOwner, ClockRead, Owns, Entered, Busy
<1>5. CASE Pass
    <2>1. time' = time + 1 /\ time \in Int /\ UNCHANGED <<lock, script>>
        BY <1>5 DEF Pass, LockInv, OperationTypeOK
    <2>2. \A p \in Scripts : InTime(p)
        BY <1>5 DEF Pass, Guarded, Occurs
    <2>3. ASSUME NEW p \in Scripts PROVE ClockRead(p)'
        <3>1. script[p].now \in Int /\ ClockRead(p)
            BY DEF LockInv, OperationTypeOK, ScriptRow
        <3> QED BY <2>1, <2>2, <3>1 DEF ClockRead, InTime, Busy, Lifetimes
    <2>4. \A p \in Scripts : Owns(p)' /\ Entered(p)'
        BY <2>1 DEF LockInv, Owns, Entered
    <2>5. OneOwner'
        BY <2>1 DEF LockInv, OneOwner
    <2> QED BY <1>t, <2>3, <2>4, <2>5 DEF LockInv
<1> QED BY <1>1, <1>2, <1>3, <1>4, <1>5 DEF OperationNext

\* Maintenance mode: only the owner at its last stage switches it off.
LEMMA MaintenanceStep ==
    Lifetimes /\ Undisturbed /\ LockInv /\ MaintenanceInv /\ [OperationNext]_operationVars
        => MaintenanceInv'
<1> SUFFICES ASSUME Lifetimes, Undisturbed, LockInv, MaintenanceInv, [OperationNext]_operationVars
             PROVE  MaintenanceInv'
    OBVIOUS
<1>g. Guarded /\ ~Resumes /\ ~Occurs("manual") /\ OperationTypeOK
    BY DEF Undisturbed, Resumes, Occurs, LockInv
<1>1. CASE UNCHANGED operationVars \/ ForceRelease \/ Pass
    BY <1>1 DEF operationVars, ForceRelease, Pass, MaintenanceInv, AtWork
<1>2. ASSUME NEW p \in Scripts, ScriptStep(p), NEW q \in Scripts, AtWork(q)', script'[q].pc # "enable"
      PROVE  maintenance'
    <2>1. \A r \in Scripts \ {p} : script'[r] = script[r]
        BY <1>2, <1>g, OthersStay
    <2>2. CASE EnableMaintenance(p)
        BY <2>2 DEF EnableMaintenance
    <2>3. CASE DisableMaintenance(p)
        <3>1. script[p].locked /\ script'[p].pc = "release"
            BY <2>3, <1>g, StageFields DEF DisableMaintenance, LockInv, Entered
        <3>2. p # q
            BY <3>1, <1>2 DEF AtWork
        <3> QED BY <3>1, <3>2, <2>1, <1>2 DEF AtWork, LockInv, OneOwner
    <2>4. CASE PgRestore(p)
        BY <2>4, <1>g DEF PgRestore, Guarded, Occurs
    <2>5. maintenance' = maintenance \/ EnableMaintenance(p) \/ DisableMaintenance(p) \/ PgRestore(p)
        BY <1>2, <1>g DEF ScriptStep, StartScript, ReadFile, RemoveFile, AcquireFile, CreateLock, TakeOverLock, TakeOverUnseen,
                          Work, StageFails, HandleFailure, ReleaseLock, ReleaseFile, ScriptDies
    <2>6. CASE p # q
        <3>1. maintenance
            BY <2>6, <2>1, <1>2 DEF MaintenanceInv, AtWork
        <3> QED BY <3>1, <2>2, <2>3, <2>4, <2>5
    <2>7. CASE p = q /\ ~EnableMaintenance(p) /\ ~DisableMaintenance(p) /\ ~PgRestore(p)
        <3>1. Work(p)
            <4>1. script'[p].locked /\ script'[p].pc \in {"work", "migrate", "disable"}
                BY <2>7, <1>2 DEF AtWork
            <4>2. CASE StartScript(p)
                <5>1. PICK kind \in Kinds : script' = [script EXCEPT ![p] =
                        [pc |-> IF kind = "RESTORE" THEN "file" ELSE "create",
                         kind |-> kind, now |-> time, filed |-> FALSE, locked |-> FALSE]]
                    BY <4>2 DEF StartScript
                <5> QED BY <5>1, <4>1, <1>g DEF OperationTypeOK
            <4>3. CASE AcquireFile(p)
                <5>1. script[p].pc = "write" /\ Entered(p)
                    BY <4>3 DEF AcquireFile, LockInv
                <5>2. CASE GotoStage(p, "failed")
                    BY <5>2, <4>1, <1>g, StageFields
                <5>3. CASE ~GotoStage(p, "failed")
                    <6>1. script[p] \in ScriptRow
                        BY <1>g DEF OperationTypeOK
                    <6>2. script'[p] = [script[p] EXCEPT !.pc = "create", !.now = time, !.filed = TRUE]
                        BY <5>3, <4>3, <1>g DEF AcquireFile, OperationTypeOK
                    <6> QED BY <6>1, <6>2, <4>1 DEF ScriptRow
                <5> QED BY <5>2, <5>3
            <4>8. CASE ReadFile(p) \/ RemoveFile(p)
                <5>1. GotoStage(p, "failed") \/ GotoStage(p, "write") \/ GotoStage(p, "remove")
                    BY <4>8 DEF ReadFile, RemoveFile
                <5> QED BY <5>1, <4>1, <1>g, StageFields
            <4>4. CASE CreateLock(p) \/ TakeOverLock(p)
                BY <4>4, <4>1, <1>g, StageFields, HoldFields DEF CreateLock, TakeOverLock
            <4>5. CASE TakeOverUnseen(p) \/ StageFails(p) \/ HandleFailure(p)
                BY <4>5, <4>1, <1>g, StageFields DEF TakeOverUnseen, StageFails, HandleFailure
            <4>6. CASE ReleaseLock(p)
                <5>1. script[p] \in ScriptRow /\ script'[p] = [script[p] EXCEPT !.pc = "unlink", !.locked = FALSE]
                    BY <4>6, <1>g DEF ReleaseLock, OperationTypeOK
                <5> QED BY <5>1, <4>1 DEF ScriptRow
            <4>7. CASE ReleaseFile(p) \/ ScriptDies(p)
                <5>1. script'[p] = Idle
                    BY <4>7, <1>g DEF ReleaseFile, ScriptDies, OperationTypeOK
                <5> QED BY <5>1, <4>1 DEF Idle
            <4> QED BY <1>2, <2>7, <4>2, <4>3, <4>4, <4>5, <4>6, <4>7, <4>8 DEF ScriptStep
        <3>2. AtWork(p) /\ script[p].pc # "enable"
            BY <3>1, <1>2, <2>7, <1>g, StageFields DEF Work, AtWork
        <3> QED BY <3>1, <3>2 DEF Work, MaintenanceInv
    <2> QED BY <2>2, <2>3, <2>4, <2>6, <2>7
<1>3. CASE SwitchMaintenance
    BY <1>3, <1>g DEF SwitchMaintenance
<1> QED BY <1>1, <1>2, <1>3 DEF OperationNext, MaintenanceInv

-----------------------------------------------------------------------------
\* The environment is chosen once.
LEMMA EnvironmentStays == ASSUME OperationTypeOK PROVE
    [OperationNext]_operationVars => opEnv' = opEnv
<1> SUFFICES ASSUME [OperationNext]_operationVars PROVE opEnv' = opEnv
    OBVIOUS
<1>1. CASE UNCHANGED operationVars \/ ForceRelease \/ SwitchMaintenance \/ Pass
    BY <1>1 DEF operationVars, ForceRelease, SwitchMaintenance, Pass
<1>2. ASSUME NEW p \in Scripts, ScriptStep(p) PROVE opEnv' = opEnv
    BY <1>2, OthersStay
<1> QED BY <1>1, <1>2 DEF OperationNext

LEMMA OperationStart == Lifetimes /\ OperationInit => LockInv /\ MaintenanceInv
<1> SUFFICES ASSUME Lifetimes, OperationInit PROVE LockInv /\ MaintenanceInv
    OBVIOUS
<1>1. Idle \in ScriptRow /\ Missing \in LockRow
    BY DEF Idle, ScriptRow, Missing, LockRow
<1>2. OperationTypeOK
    <2>1. script \in [Scripts -> ScriptRow]
        BY <1>1 DEF OperationInit
    <2>2. time \in Int
        BY DEF OperationInit
    <2>3. lockFile \in Int
        <3>1. lockFile = -1
            BY DEF OperationInit
        <3> QED BY <3>1
    <2>4. maintenance \in BOOLEAN
        BY DEF OperationInit
    <2> QED BY <1>1, <2>1, <2>2, <2>3, <2>4 DEF OperationInit, OperationTypeOK
<1>3. \A p \in Scripts : script[p] = Idle
    BY DEF OperationInit
<1> QED BY <1>2, <1>3 DEF LockInv, OneOwner, ClockRead, Owns, Entered, Busy, MaintenanceInv, AtWork, Idle

\* What is invariant in each environment.
OperationInv ==
    /\ OperationTypeOK
    /\ Guarded => LockInv
    /\ Undisturbed => MaintenanceInv

\* Types, lock and maintenance mode, together.
THEOREM OperationsInvariant == ASSUME Lifetimes PROVE OperationSpec => []OperationInv
<1>1. OperationInit => OperationInv
    BY OperationStart DEF OperationInv, LockInv
<1>2. OperationInv /\ [OperationNext]_operationVars => OperationInv'
    <2> SUFFICES ASSUME OperationInv, [OperationNext]_operationVars PROVE OperationInv'
        OBVIOUS
    <2>1. OperationTypeOK /\ OperationTypeOK'
        BY OperationTypes DEF OperationInv
    <2>2. (Guarded' <=> Guarded) /\ (Undisturbed' <=> Undisturbed) /\ (Undisturbed => Guarded)
        BY <2>1, EnvironmentStays DEF Guarded, Undisturbed
    <2>3. Guarded => LockInv'
        BY LockInvStep DEF OperationInv
    <2>4. Undisturbed => MaintenanceInv'
        BY <2>2, MaintenanceStep DEF OperationInv
    <2> QED BY <2>1, <2>2, <2>3, <2>4 DEF OperationInv
<1> QED BY <1>1, <1>2, PTL DEF OperationSpec

\* Two scripts never work on production at the same time, whatever dies and fails,
\* as long as none outlives its lock and nobody releases or restores the row.
THEOREM OneOperationAtATime == ASSUME Lifetimes PROVE OperationSpec => []OneOperation
<1>1. OperationInv => OneOperation
    BY DEF OperationInv, LockInv, OneOwner, OneOperation, AtWork
<1> QED BY <1>1, OperationsInvariant, PTL

\* From its first stage to its last an operation works in maintenance mode,
\* though other scripts fail meanwhile.
THEOREM OperationsUnderMaintenance == ASSUME Lifetimes PROVE OperationSpec => []WorksUnderMaintenance
<1>1. OperationInv => WorksUnderMaintenance
    BY DEF OperationInv, Undisturbed, MaintenanceInv, WorksUnderMaintenance
<1> QED BY <1>1, OperationsInvariant, PTL

-----------------------------------------------------------------------------
(* Idempotency keys of the API.                                            *)

\* What the theorems assume of the constants.
Durations ==
    /\ IsFiniteSet(Requests) /\ Payloads # {}
    /\ LockTime \in Nat /\ Ttl \in Nat /\ MaxDuration \in Nat /\ MaxClock \in Nat
    /\ MaxDuration < Ttl

RequestOf(r) ==
    \/ \E p \in Payloads : Start(r, p)
    \/ Create(r) \/ Find(r) \/ ClaimExpired(r) \/ FindAgain(r) \/ ClaimKey(r)
    \/ Handler(r) \/ Queue(r) \/ Complete(r) \/ Fail(r) \/ RequestVanishes(r)

\* Requests that may still create the row, and so those that may have.
Fresh(r) == pc[r] \in {"idle", "create"}
CreatedByRequests == created <= Cardinality({r \in Requests : ~Fresh(r)})

ApiTypes == ApiTypeOK /\ CreatedByRequests

LEMMA NoRecordType == ASSUME Durations PROVE NoRecord \in Records
<1>1. (CHOOSE p \in Payloads : TRUE) \in Payloads
    BY DEF Durations
<1>2. Cardinality(Requests) \in Nat
    BY FS_CardinalityType DEF Durations
<1> QED BY <1>1, <1>2 DEF NoRecord, Records

\* A row whose request is over.
LEMMA ReleasedType ==
    ASSUME NEW entry \in Records, NEW s \in {"COMPLETED", "FAILED"},
           NEW after, after = [entry EXCEPT !.status = s, !.lockedUntil = 0]
    PROVE  /\ after \in Records
           /\ after.id = entry.id /\ after.status = s /\ after.lockedUntil = 0
           /\ after.expiresAt = entry.expiresAt /\ after.payload = entry.payload
BY DEF Records

\* A row that is being processed.
LEMMA ProcessingType ==
    ASSUME Durations, ApiTypeOK, NEW r \in Requests,
           NEW id \in 0..Cardinality(Requests), NEW p \in Payloads
    PROVE  /\ ProcessingRow(r, id, p) \in Records
           /\ ProcessingRow(r, id, p).id = id
           /\ ProcessingRow(r, id, p).status = "PROCESSING"
           /\ ProcessingRow(r, id, p).lockedUntil = now[r] + LockTime
           /\ ProcessingRow(r, id, p).expiresAt = now[r] + Ttl
<1>1. now[r] \in Nat
    BY DEF Durations, ApiTypeOK
<1>2. now[r] + LockTime \in Nat /\ now[r] + Ttl \in Nat
    BY <1>1 DEF Durations
<1> QED BY <1>2 DEF ProcessingRow, Records

\* No request becomes one that may create the row.
LEMMA FreshGrowsLess ==
    ASSUME Durations, ApiTypes, pc' \in [Requests -> Steps],
           \A r \in Requests : Fresh(r)' => Fresh(r)
    PROVE  /\ Cardinality({r \in Requests : ~Fresh(r)}) <= Cardinality({r \in Requests : ~Fresh(r)'})
           /\ created <= Cardinality({r \in Requests : ~Fresh(r)'})
<1> DEFINE F == {r \in Requests : ~Fresh(r)}
           G == {r \in Requests : ~Fresh(r)'}
<1>1. F \subseteq G /\ IsFiniteSet(G)
    BY FS_Subset DEF Durations
<1>2. Cardinality(F) <= Cardinality(G) /\ Cardinality(F) \in Nat /\ Cardinality(G) \in Nat
    BY <1>1, FS_Subset, FS_CardinalityType
<1>3. created \in Int /\ created <= Cardinality(F)
    <2>1. Cardinality(Requests) \in Nat
        BY FS_CardinalityType DEF Durations
    <2> QED BY <2>1 DEF ApiTypes, ApiTypeOK, CreatedByRequests
<1> QED BY <1>2, <1>3

\* One that creates it no longer may.
LEMMA CreatedOnceMore ==
    ASSUME Durations, ApiTypes, NEW r \in Requests, pc[r] = "create",
           pc' = [pc EXCEPT ![r] = "handler"]
    PROVE  /\ created + 1 \in 0..Cardinality(Requests)
           /\ created + 1 <= Cardinality({q \in Requests : ~Fresh(q)'})
<1> DEFINE F == {q \in Requests : ~Fresh(q)}
           G == {q \in Requests : ~Fresh(q)'}
<1>1. G = F \cup {r} /\ r \notin F
    BY DEF Fresh, ApiTypes, ApiTypeOK
<1>2. IsFiniteSet(F) /\ IsFiniteSet(G)
    BY FS_Subset DEF Durations
<1>3. Cardinality(G) = Cardinality(F) + 1 /\ Cardinality(F) \in Nat
    BY <1>1, <1>2, FS_AddElement, FS_CardinalityType
<1>4. Cardinality(G) <= Cardinality(Requests) /\ Cardinality(Requests) \in Nat
    BY FS_Subset, FS_CardinalityType DEF Durations
<1>5. created \in Nat /\ created <= Cardinality(F)
    BY <1>4 DEF ApiTypes, ApiTypeOK, CreatedByRequests
<1> QED BY <1>3, <1>4, <1>5

\* The types hold, and as many rows are made as requests have come so far at most.
LEMMA RequestTypes ==
    ASSUME Durations, ApiTypes, NEW r \in Requests, RequestOf(r)
    PROVE  ApiTypes'
<1> DEFINE N == Cardinality(Requests)
<1>n. N \in Nat
    BY FS_CardinalityType DEF Durations
<1>1. /\ pc' \in [Requests -> Steps] /\ UNCHANGED <<apiEnv, clock>>
      /\ now' \in [Requests -> 0..MaxClock] /\ payload' \in [Requests -> Payloads]
      /\ effects' \subseteq Requests
    BY DEF ApiTypes, ApiTypeOK, RequestOf, Start, Create, Find, ClaimExpired, FindAgain, ClaimKey, Handler,
           Queue, Complete, Fail, RequestVanishes, Goto, Respond, Enter, Decide, locals, Steps
<1>2. \A q \in Requests : Fresh(q)' => Fresh(q)
    BY DEF ApiTypes, ApiTypeOK, RequestOf, Start, Create, Find, ClaimExpired, FindAgain, ClaimKey, Handler,
           Queue, Complete, Fail, RequestVanishes, Goto, Respond, Enter, Decide, Fresh
<1>3. CreatedByRequests' /\ created' \in 0..N
    <2>1. CASE created' = created
        <3>1. created \in 0..N
            BY DEF ApiTypes, ApiTypeOK
        <3> QED BY <2>1, <3>1, <1>1, <1>2, FreshGrowsLess DEF CreatedByRequests
    <2>2. CASE created' # created
        <3>1. /\ pc[r] = "create" /\ record = NoRecord /\ created' = created + 1
              /\ pc' = [pc EXCEPT ![r] = "handler"]
            BY <2>2 DEF RequestOf, Start, Create, Find, ClaimExpired, FindAgain, ClaimKey, Handler,
                    Queue, Complete, Fail, RequestVanishes, Goto, Enter
        <3> QED BY <3>1, CreatedOnceMore DEF CreatedByRequests
    <2> QED BY <2>1, <2>2
<1>4. record' \in Records
    <2>1. CASE Create(r)
        <3>1. CASE record = NoRecord
            <4>1. created + 1 \in 0..N
                <5>1. pc' = [pc EXCEPT ![r] = "handler"] /\ pc[r] = "create"
                    BY <2>1, <3>1 DEF Create, Enter, Goto
                <5> QED BY <5>1, CreatedOnceMore
            <4> QED BY <4>1, <2>1, <3>1, ProcessingType DEF Create, ApiTypes, ApiTypeOK
        <3> QED BY <3>1, <2>1 DEF Create, ApiTypes, ApiTypeOK
    <2>2. CASE ClaimExpired(r) \/ ClaimKey(r)
        <3>1. record \in Records /\ record.id \in 0..N /\ record.payload \in Payloads /\ payload[r] \in Payloads
            BY DEF ApiTypes, ApiTypeOK, Records
        <3>2. record' \in {record, ProcessingRow(r, record.id, payload[r]), ProcessingRow(r, record.id, record.payload)}
            BY <2>2 DEF ClaimExpired, ClaimKey
        <3> QED BY <3>1, <3>2, ProcessingType DEF ApiTypes
    <2>3. CASE Complete(r) \/ Fail(r)
        <3>1. record \in Records
            BY DEF ApiTypes, ApiTypeOK
        <3>2. \/ record' = record
              \/ record' = [record EXCEPT !.status = "COMPLETED", !.lockedUntil = 0]
              \/ record' = [record EXCEPT !.status = "FAILED", !.lockedUntil = 0]
            BY <2>3 DEF Complete, Fail
        <3> QED BY <3>1, <3>2, ReleasedType
    <2>4. CASE ~(Create(r) \/ ClaimExpired(r) \/ ClaimKey(r) \/ Complete(r) \/ Fail(r))
        BY <2>4 DEF RequestOf, Start, Find, FindAgain, Handler, Queue, RequestVanishes, ApiTypes, ApiTypeOK
    <2> QED BY <2>1, <2>2, <2>3, <2>4
<1>5. seen' \in [Requests -> Records]
    <2>1. NoRecord \in Records /\ record \in Records
        BY NoRecordType DEF ApiTypes, ApiTypeOK
    <2>2. seen' \in {seen, [seen EXCEPT ![r] = NoRecord], [seen EXCEPT ![r] = record]}
        BY DEF RequestOf, Start, Create, Find, ClaimExpired, FindAgain, ClaimKey, Handler,
               Queue, Complete, Fail, RequestVanishes, Respond, Enter, Decide
    <2> QED BY <2>1, <2>2 DEF ApiTypes, ApiTypeOK
<1>6. held' \in [Requests -> 0..N]
    <2>1. record.id \in 0..N
        BY DEF ApiTypes, ApiTypeOK, Records
    <2>2. CASE Create(r) /\ record = NoRecord
        <3>1. pc' = [pc EXCEPT ![r] = "handler"] /\ pc[r] = "create" /\ held' = [held EXCEPT ![r] = created + 1]
            BY <2>2 DEF Create, Enter, Goto
        <3>2. created + 1 \in 0..N
            BY <3>1, CreatedOnceMore
        <3> QED BY <3>1, <3>2 DEF ApiTypes, ApiTypeOK
    <2>3. CASE ~(Create(r) /\ record = NoRecord)
        <3>1. held' \in {held, [held EXCEPT ![r] = 0], [held EXCEPT ![r] = record.id]}
            BY <2>3 DEF RequestOf, Start, Create, Find, ClaimExpired, FindAgain, ClaimKey, Handler,
                   Queue, Complete, Fail, RequestVanishes, Respond, Enter, Decide
        <3> QED BY <3>1, <2>1, <1>n DEF ApiTypes, ApiTypeOK
    <2> QED BY <2>2, <2>3
<1> QED BY <1>1, <1>3, <1>4, <1>5, <1>6 DEF ApiTypes, ApiTypeOK

-----------------------------------------------------------------------------
\* No request is older than it may be.
Timely(r) == Live(r) => now[r] <= clock /\ clock <= now[r] + MaxDuration

\* Whoever runs the handler has the row: locked, and to expire, by its clock.
HasRow(r) == Executing(r) =>
    /\ record.id = held[r] /\ record.status = "PROCESSING"
    /\ record.lockedUntil = now[r] + LockTime /\ record.expiresAt = now[r] + Ttl

Alone == \A r, s \in Requests : Executing(r) /\ Executing(s) => r = s

\* The effect of a request is still its own to report, or the row tells of it,
\* or the row's lifetime is over.
Reported(r) == r \in effects =>
    \/ pc[r] \in {"queue", "complete"}
    \/ /\ pc[r] = "done"
       /\ \/ clock >= now[r] + Ttl
          \/ record.status = "COMPLETED" /\ record.expiresAt = now[r] + Ttl

Apart == \A r, s \in effects :
    r # s => (now[s] + MaxDuration >= now[r] + Ttl) \/ (now[r] + MaxDuration >= now[s] + Ttl)

Locked == MaxDuration < LockTime
Orderly == Locked /\ apiEnv \subseteq {"early", "fail"}

RowInv == Alone /\ \A r \in Requests : HasRow(r)
EffectInv == Apart /\ \A r \in Requests : Reported(r)

KeyInv ==
    /\ ApiTypes
    /\ \A r \in Requests : Timely(r)
    /\ Locked => RowInv
    /\ Orderly => EffectInv

\* A step of one request leaves the others, and the clock, as they are.
LEMMA OtherRequests ==
    ASSUME ApiTypeOK, NEW r \in Requests, RequestOf(r)
    PROVE  /\ UNCHANGED <<apiEnv, clock>>
           /\ \A q \in Requests \ {r} :
                pc'[q] = pc[q] /\ now'[q] = now[q] /\ held'[q] = held[q]
                /\ (q \in effects' <=> q \in effects)
BY DEF ApiTypeOK, RequestOf, Start, Create, Find, ClaimExpired, FindAgain, ClaimKey, Handler,
       Queue, Complete, Fail, RequestVanishes, Goto, Respond, Enter, Decide, locals

LEMMA TimelyStep ==
    ASSUME Durations, KeyInv, NEW r \in Requests, RequestOf(r)
    PROVE  \A q \in Requests : Timely(q)'
<1>t. ApiTypeOK /\ clock \in Nat /\ now[r] \in Nat
    BY DEF KeyInv, ApiTypes, ApiTypeOK, Durations
<1>1. \A q \in Requests \ {r} : Timely(q)'
    BY <1>t, OtherRequests DEF KeyInv, Timely, Live
<1>2. Timely(r)'
    <2>1. CASE pc[r] = "idle"
        <3>1. now'[r] = clock /\ clock' = clock
            BY <2>1, <1>t DEF RequestOf, Start, Create, Find, ClaimExpired, FindAgain, ClaimKey, Handler,
                   Queue, Complete, Fail, RequestVanishes, Live, ApiTypeOK
        <3> QED BY <3>1, <1>t DEF Timely, Durations
    <2>2. CASE pc[r] # "idle"
        <3>1. now'[r] = now[r] /\ clock' = clock /\ (Live(r)' => Live(r))
            BY <2>2, <1>t DEF RequestOf, Start, Create, Find, ClaimExpired, FindAgain, ClaimKey, Handler,
                   Queue, Complete, Fail, RequestVanishes, Live, ApiTypeOK, locals
        <3> QED BY <3>1 DEF KeyInv, Timely
    <2> QED BY <2>1, <2>2
<1> QED BY <1>1, <1>2

\* A request that begins to process the row.
Enters(r) ==
    \/ Create(r) /\ record = NoRecord
    \/ ClaimExpired(r) /\ Expired(r)
    \/ ClaimKey(r) /\ Claimable(r)

\* It finds nobody at work under the row ...
LEMMA EntersAlone ==
    ASSUME Durations, KeyInv, Locked, NEW r \in Requests, Enters(r)
    PROVE  \A q \in Requests : ~Executing(q)
<1> SUFFICES ASSUME NEW q \in Requests, Executing(q) PROVE FALSE
    OBVIOUS
<1>1. /\ record.status = "PROCESSING"
      /\ record.lockedUntil = now[q] + LockTime /\ record.expiresAt = now[q] + Ttl
    BY DEF KeyInv, RowInv, HasRow
<1>2. clock <= now[q] + MaxDuration
    BY DEF KeyInv, Timely, Live, Executing
<1>3. pc[r] \in {"create", "claim_expired", "claim"}
    BY DEF Enters, Create, ClaimExpired, ClaimKey
<1>4. now[r] <= clock
    BY <1>3 DEF KeyInv, Timely, Live
<1>5. now[r] \in Nat /\ now[q] \in Nat /\ clock \in Nat
    BY DEF KeyInv, ApiTypes, ApiTypeOK, Durations
<1>6. CASE record = NoRecord
    BY <1>1, <1>6 DEF NoRecord
<1>7. CASE Expired(r)
    BY <1>1, <1>2, <1>4, <1>5, <1>7 DEF Expired, Durations
<1>8. CASE Claimable(r)
    BY <1>1, <1>2, <1>4, <1>5, <1>8 DEF Claimable, Durations, Locked
<1> QED BY <1>6, <1>7, <1>8 DEF Enters

\* ... and has it from then on.
LEMMA EntersRow ==
    ASSUME Durations, ApiTypes, NEW r \in Requests, Enters(r)
    PROVE  /\ pc' = [pc EXCEPT ![r] = "handler"] /\ pc[r] \in {"create", "claim_expired", "claim"}
           /\ UNCHANGED <<apiEnv, clock, now, effects>>
           /\ record'.id = held'[r] /\ record'.status = "PROCESSING"
           /\ record'.lockedUntil = now[r] + LockTime /\ record'.expiresAt = now[r] + Ttl
<1>1. /\ record.id \in 0..Cardinality(Requests) /\ record.payload \in Payloads
      /\ payload[r] \in Payloads /\ ApiTypeOK
    BY DEF ApiTypes, ApiTypeOK, Records
<1>2. CASE Create(r) /\ record = NoRecord
    <2>1. pc' = [pc EXCEPT ![r] = "handler"] /\ pc[r] = "create"
        BY <1>2 DEF Create, Enter, Goto
    <2>2. created + 1 \in 0..Cardinality(Requests)
        BY <2>1, CreatedOnceMore
    <2>3. record' = ProcessingRow(r, created + 1, payload[r]) /\ held' = [held EXCEPT ![r] = created + 1]
        BY <1>2 DEF Create, Enter
    <2>4. UNCHANGED <<apiEnv, clock, now, effects>>
        BY <1>2 DEF Create, locals
    <2>5. held'[r] = created + 1
        BY <2>3, <1>1 DEF ApiTypeOK
    <2>6. /\ record'.id = created + 1 /\ record'.status = "PROCESSING"
          /\ record'.lockedUntil = now[r] + LockTime /\ record'.expiresAt = now[r] + Ttl
        BY <2>2, <2>3, <1>1, ProcessingType
    <2> QED BY <2>1, <2>4, <2>5, <2>6
<1>3. CASE ClaimExpired(r) /\ Expired(r)
    BY <1>1, <1>3, ProcessingType DEF ClaimExpired, Enter, Goto, ApiTypeOK, locals
<1>4. CASE ClaimKey(r) /\ Claimable(r)
    BY <1>1, <1>4, ProcessingType DEF ClaimKey, Enter, Goto, ApiTypeOK, locals
<1> QED BY <1>2, <1>3, <1>4 DEF Enters

\* Nobody else writes the row while a request has it, and its own step either
\* keeps the row or ends its work.
LEMMA StaysRow ==
    ASSUME Durations, ApiTypes, NEW r \in Requests, RequestOf(r), ~Enters(r)
    PROVE  /\ Executing(r)' => Executing(r) /\ UNCHANGED <<record, now, held>>
           /\ ~Executing(r) => UNCHANGED record
BY DEF ApiTypes, ApiTypeOK, RequestOf, Start, Create, Find, ClaimExpired, FindAgain, ClaimKey, Handler,
       Queue, Complete, Fail, RequestVanishes, Goto, Respond, Enter, Decide, locals, Enters, Executing, Live

LEMMA RowStep ==
    ASSUME Durations, KeyInv, Locked, NEW r \in Requests, RequestOf(r)
    PROVE  RowInv'
<1>t. ApiTypes /\ ApiTypeOK /\ RowInv
    BY DEF KeyInv, ApiTypes
<1>1. CASE Enters(r)
    <2>1. \A q \in Requests \ {r} : ~Executing(q)'
        BY <1>1, <1>t, EntersAlone, OtherRequests DEF Executing
    <2>2. HasRow(r)'
        BY <1>1, <1>t, EntersRow DEF HasRow
    <2> QED BY <2>1, <2>2 DEF RowInv, Alone, HasRow
<1>2. CASE ~Enters(r)
    <2>1. /\ Executing(r)' => Executing(r) /\ UNCHANGED <<record, now, held>>
          /\ ~Executing(r) => UNCHANGED record
        BY <1>2, <1>t, StaysRow
    <2>2. \A q \in Requests \ {r} : Executing(q)' = Executing(q) /\ now'[q] = now[q] /\ held'[q] = held[q]
        BY <1>t, OtherRequests DEF Executing
    <2>3. \A q \in Requests \ {r} : Executing(q) => ~Executing(r)
        BY <1>t DEF RowInv, Alone
    <2>4. HasRow(r)'
        BY <2>1, <1>t DEF RowInv, HasRow
    <2>5. \A q \in Requests \ {r} : HasRow(q)'
        BY <2>1, <2>2, <2>3, <1>t DEF RowInv, HasRow
    <2>6. Alone'
        BY <2>1, <2>2, <1>t DEF RowInv, Alone
    <2> QED BY <2>4, <2>5, <2>6 DEF RowInv
<1> QED BY <1>1, <1>2

-----------------------------------------------------------------------------
\* What a request's own step does to its effect and to the row.
LEMMA EffectSteps ==
    ASSUME Durations, KeyInv, Orderly, NEW r \in Requests, RequestOf(r), ~Enters(r)
    PROVE  \/ UNCHANGED <<record, effects>> /\ (r \in effects => pc[r] = "queue" /\ pc'[r] = "complete")
           \/ UNCHANGED <<record, effects>> /\ r \notin effects
           \/ UNCHANGED <<record, effects>> /\ pc[r] = "done" /\ pc'[r] = "done"
           \/ /\ UNCHANGED record /\ effects' = effects \cup {r}
              /\ pc[r] = "handler" /\ pc'[r] = "queue"
           \/ /\ pc[r] = "complete" /\ pc'[r] = "done" /\ UNCHANGED <<effects, now>>
              /\ record'.status = "COMPLETED" /\ record'.expiresAt = record.expiresAt
           \/ /\ pc[r] = "fail" /\ UNCHANGED effects /\ r \notin effects
<1>1. ApiTypeOK /\ Reported(r) /\ record \in Records
    BY DEF KeyInv, EffectInv, ApiTypes, ApiTypeOK
<1>2. ~ApiFault("late") /\ ~ApiFault("complete") /\ ~ApiFault("crash")
    BY DEF Orderly, ApiFault
<1>3. CASE Complete(r)
    <2>1. record.id = held[r]
        BY <1>3 DEF KeyInv, Orderly, RowInv, HasRow, Executing, Complete
    <2>2. record' = [record EXCEPT !.status = "COMPLETED", !.lockedUntil = 0] /\ pc'[r] = "done"
        BY <1>1, <1>2, <1>3, <2>1 DEF Complete, Respond, Goto, ApiTypeOK
    <2> QED BY <1>1, <1>3, <2>2, ReleasedType DEF Complete, locals
<1>4. CASE Handler(r)
    BY <1>1, <1>4 DEF Handler, Goto, ApiTypeOK, Reported
<1>5. CASE Queue(r)
    BY <1>1, <1>2, <1>5 DEF Queue, Goto, ApiTypeOK
<1>6. CASE Fail(r) \/ RequestVanishes(r)
    BY <1>1, <1>2, <1>6 DEF Fail, RequestVanishes, Reported
<1>7. CASE (\E p \in Payloads : Start(r, p)) \/ Create(r) \/ Find(r) \/ ClaimExpired(r) \/ FindAgain(r)
             \/ ClaimKey(r)
    BY <1>1, <1>7 DEF Start, Create, Find, ClaimExpired, FindAgain, ClaimKey, Reported, Enters, locals
<1> QED BY <1>3, <1>4, <1>5, <1>6, <1>7 DEF RequestOf

LEMMA EffectStep ==
    ASSUME Durations, KeyInv, Orderly, NEW r \in Requests, RequestOf(r)
    PROVE  EffectInv'
<1>t. ApiTypes /\ ApiTypeOK /\ RowInv /\ EffectInv /\ clock' = clock
    BY OtherRequests DEF KeyInv, ApiTypes, Orderly
<1>n. \A q \in Requests : now[q] \in Nat
    BY <1>t DEF ApiTypeOK, Durations
<1>c. clock \in Nat
    BY <1>t DEF ApiTypeOK, Durations
<1>1. CASE Enters(r)
    <2>1. \A q \in Requests : ~Executing(q)
        BY <1>1, EntersAlone DEF Orderly
    <2>2. /\ pc' = [pc EXCEPT ![r] = "handler"] /\ pc[r] \in {"create", "claim_expired", "claim"}
          /\ UNCHANGED <<now, effects>>
        BY <1>1, <1>t, EntersRow
    <2>3. now[r] <= clock
        BY <2>2 DEF KeyInv, Timely, Live
    <2>4. \A q \in Requests : q \in effects => pc[q] = "done"
        BY <2>1, <1>t DEF EffectInv, Reported, Executing
    <2>5. ASSUME NEW q \in Requests, q \in effects PROVE clock >= now[q] + Ttl
        <3>1. CASE record.status = "COMPLETED" /\ record.expiresAt = now[q] + Ttl
            <4>1. Expired(r)
                BY <1>1, <3>1 DEF Enters, NoRecord, Claimable
            <4> QED BY <4>1, <3>1, <2>3, <1>n, <1>c DEF Expired, Durations
        <3> QED BY <3>1, <2>4, <2>5, <1>t DEF EffectInv, Reported
    <2>6. \A q \in Requests : Reported(q)'
        BY <2>2, <2>4, <2>5, <1>t DEF Reported, ApiTypeOK
    <2>7. Apart'
        BY <2>2, <1>t DEF EffectInv, Apart
    <2> QED BY <2>6, <2>7 DEF EffectInv
<1>2. CASE ~Enters(r)
    <2>1. \A q \in Requests \ {r} : pc'[q] = pc[q] /\ now'[q] = now[q] /\ (q \in effects' <=> q \in effects)
        BY <1>t, OtherRequests
    <2>2. r \in effects \/ r \in effects' => now'[r] = now[r]
        BY <1>t DEF EffectInv, Reported, ApiTypeOK, RequestOf, Start, Create, Find, ClaimExpired, FindAgain,
               ClaimKey, Handler, Queue, Complete, Fail, RequestVanishes, locals
    <2>3. CASE UNCHANGED <<record, effects>>
        <3>1. Reported(r)'
            <4>1. pc[r] = "complete" => record.expiresAt = now[r] + Ttl
                BY <1>t DEF RowInv, HasRow, Executing
            <4> QED BY <1>2, <2>2, <2>3, <4>1, <1>t, EffectSteps DEF EffectInv, Reported
        <3>2. \A q \in Requests \ {r} : Reported(q)'
            BY <2>1, <2>3, <1>t DEF EffectInv, Reported
        <3>3. Apart'
            <4>1. \A q \in effects : now'[q] = now[q]
                BY <2>1, <2>2, <1>t DEF ApiTypeOK
            <4> QED BY <4>1, <2>3, <1>t DEF EffectInv, Apart
        <3> QED BY <3>1, <3>2, <3>3 DEF EffectInv
    <2>4. CASE UNCHANGED record /\ effects' = effects \cup {r} /\ pc[r] = "handler" /\ pc'[r] = "queue"
        <3>1. record.status = "PROCESSING" /\ Executing(r)
            BY <2>4, <1>t DEF RowInv, HasRow, Executing
        <3>2. \A q \in effects \ {r} : clock >= now[q] + Ttl
            BY <3>1, <1>t DEF RowInv, Alone, EffectInv, Reported, Executing, ApiTypeOK
        <3>3. clock <= now[r] + MaxDuration
            BY <3>1 DEF KeyInv, Timely, Live, Executing
        <3>4. \A q \in effects \ {r} : now[r] + MaxDuration >= now[q] + Ttl
            BY <3>2, <3>3, <1>n, <1>c, <1>t DEF Durations, ApiTypeOK
        <3>5. \A q \in effects' : now'[q] = now[q]
            BY <2>1, <2>2, <2>4, <1>t DEF ApiTypeOK
        <3>6. Apart'
            BY <2>4, <3>4, <3>5, <1>t DEF EffectInv, Apart
        <3>7. Reported(r)'
            BY <2>4 DEF Reported
        <3>8. \A q \in Requests \ {r} : Reported(q)'
            BY <2>1, <2>4, <1>t DEF EffectInv, Reported
        <3> QED BY <3>6, <3>7, <3>8 DEF EffectInv
    <2>5. CASE /\ pc[r] = "complete" /\ pc'[r] = "done" /\ UNCHANGED <<effects, now>>
               /\ record'.status = "COMPLETED" /\ record'.expiresAt = record.expiresAt
        <3>1. record.status = "PROCESSING" /\ record.expiresAt = now[r] + Ttl /\ Executing(r)
            BY <2>5, <1>t DEF RowInv, HasRow, Executing
        <3>2. Reported(r)'
            BY <2>5, <3>1 DEF Reported
        <3>3. ASSUME NEW q \in Requests \ {r} PROVE Reported(q)'
            BY <2>1, <2>5, <3>1, <1>t DEF EffectInv, Reported
        <3>4. Apart'
            BY <2>5, <1>t DEF EffectInv, Apart
        <3> QED BY <3>2, <3>3, <3>4 DEF EffectInv
    <2>6. CASE pc[r] = "fail" /\ UNCHANGED effects /\ r \notin effects
        <3>1. record.status = "PROCESSING" /\ Executing(r)
            BY <2>6, <1>t DEF RowInv, HasRow, Executing
        <3>2. ASSUME NEW q \in Requests \ {r} PROVE Reported(q)'
            <4>1. q \in effects => pc[q] = "done" /\ clock >= now[q] + Ttl
                BY <3>1, <1>t DEF RowInv, Alone, EffectInv, Reported, Executing
            <4> QED BY <4>1, <2>1, <2>6, <1>t DEF Reported
        <3>3. Reported(r)'
            BY <2>6 DEF Reported
        <3>4. Apart'
            <4>1. \A q \in effects : now'[q] = now[q]
                BY <2>1, <2>6, <1>t DEF ApiTypeOK
            <4> QED BY <4>1, <2>6, <1>t DEF EffectInv, Apart
        <3> QED BY <3>2, <3>3, <3>4 DEF EffectInv
    <2> QED BY <1>2, <2>3, <2>4, <2>5, <2>6, EffectSteps
<1> QED BY <1>1, <1>2

-----------------------------------------------------------------------------
LEMMA KeyStep ==
    ASSUME Durations, KeyInv, [ApiNext]_apiVars
    PROVE  KeyInv'
<1>t. ApiTypes /\ ApiTypeOK
    BY DEF KeyInv, ApiTypes
<1>1. CASE UNCHANGED apiVars
    BY <1>1 DEF apiVars, KeyInv, ApiTypes, ApiTypeOK, CreatedByRequests, Fresh, Timely, Live, Locked, RowInv, Alone,
                HasRow, Executing, Orderly, EffectInv, Apart, Reported
<1>2. ASSUME NEW r \in Requests, RequestOf(r) PROVE KeyInv'
    <2>1. Orderly' = Orderly
        BY <1>t, <1>2, OtherRequests DEF Orderly, Locked
    <2> QED BY <1>t, <1>2, <2>1, RequestTypes, TimelyStep, RowStep, EffectStep DEF KeyInv, Locked
<1>3. CASE Tick
    <2>1. clock \in Nat /\ MaxClock \in Nat /\ clock' = clock + 1 /\ clock < MaxClock
        BY <1>t, <1>3 DEF Tick, ApiTypeOK, Durations
    <2>2. ApiTypes'
        BY <1>3, <1>t, <2>1 DEF Tick, ApiTypes, ApiTypeOK, CreatedByRequests, Fresh, locals
    <2>3. ASSUME NEW r \in Requests PROVE Timely(r)'
        <3>1. now[r] \in Nat /\ now'[r] = now[r] /\ pc'[r] = pc[r]
            BY <1>3, <1>t DEF Tick, ApiTypeOK, Durations, locals
        <3>2. Live(r) => clock - now[r] < MaxDuration
            BY <1>3 DEF Tick
        <3> QED BY <2>1, <3>1, <3>2 DEF KeyInv, Timely, Live, Durations
    <2>4. Locked => RowInv'
        BY <1>3 DEF Tick, KeyInv, RowInv, Alone, HasRow, Executing, locals
    <2>5. ASSUME Orderly, NEW r \in Requests PROVE Reported(r)'
        <3>1. now[r] + Ttl \in Nat
            BY <1>t DEF ApiTypeOK, Durations
        <3> QED BY <1>3, <2>1, <2>5, <3>1 DEF Tick, KeyInv, EffectInv, Reported, locals
    <2>6. Orderly => Apart'
        BY <1>3 DEF Tick, KeyInv, EffectInv, Apart, locals
    <2> QED BY <1>3, <2>2, <2>3, <2>4, <2>5, <2>6 DEF KeyInv, EffectInv, Tick, Orderly, Locked
<1>4. CASE Retention
    <2>1. ApiTypes'
        BY <1>4, <1>t, NoRecordType DEF Retention, ApiTypes, ApiTypeOK, CreatedByRequests, Fresh, locals
    <2>2. \A r \in Requests : Timely(r)'
        BY <1>4 DEF Retention, KeyInv, Timely, Live, locals
    <2>3. Locked => \A r \in Requests : ~Executing(r)
        <3> SUFFICES ASSUME Locked, NEW r \in Requests, Executing(r) PROVE FALSE
            OBVIOUS
        <3>1. record.expiresAt = now[r] + Ttl /\ clock <= now[r] + MaxDuration
            BY DEF KeyInv, RowInv, HasRow, Timely, Live, Executing
        <3>2. now[r] \in Nat /\ clock \in Nat
            BY <1>t DEF ApiTypeOK, Durations
        <3> QED BY <1>4, <3>1, <3>2 DEF Retention, Durations
    <2>4. Locked => RowInv'
        BY <1>4, <2>3 DEF Retention, RowInv, Alone, HasRow, Executing
    <2>5. ASSUME Orderly, NEW r \in Requests PROVE Reported(r)'
        <3>1. Reported(r) /\ ~Executing(r) /\ now[r] + Ttl \in Nat /\ clock \in Nat
            BY <2>3, <2>5, <1>t DEF Orderly, KeyInv, EffectInv, ApiTypeOK, Durations
        <3>2. r \in effects => clock >= now[r] + Ttl
            BY <1>4, <3>1 DEF Retention, Reported, Executing
        <3> QED BY <1>4, <3>1, <3>2 DEF Retention, Reported, Executing, locals
    <2>6. Orderly => Apart'
        BY <1>4 DEF Retention, KeyInv, EffectInv, Apart, locals
    <2> QED BY <1>4, <2>1, <2>2, <2>4, <2>5, <2>6 DEF KeyInv, EffectInv, Retention, Orderly, Locked
<1> QED BY <1>1, <1>2, <1>3, <1>4 DEF ApiNext, RequestOf

LEMMA KeyStart == ASSUME Durations, ApiInit PROVE KeyInv
<1>1. Cardinality(Requests) \in Nat /\ 0 \in 0..MaxClock
    BY FS_CardinalityType DEF Durations
<1>2. NoRecord \in Records /\ NoRecord.payload \in Payloads
    BY NoRecordType DEF Records
<1>3. ApiTypeOK
    BY <1>1, <1>2 DEF ApiInit, ApiTypeOK, Steps
<1>4. {r \in Requests : ~Fresh(r)} = {}
    BY DEF ApiInit, Fresh
<1>5. CreatedByRequests
    BY <1>4, FS_EmptySet DEF ApiInit, CreatedByRequests
<1> QED BY <1>3, <1>5 DEF ApiInit, KeyInv, ApiTypes, Timely, Live, RowInv, Alone, HasRow, Executing, EffectInv,
                          Apart, Reported

\* Types of the records of a key, and that a key makes a row per request at most.
THEOREM KeyTypes == ASSUME Durations PROVE ApiSpec => []ApiTypeOK
<1>1. KeyInv => ApiTypeOK
    BY DEF KeyInv, ApiTypes
<1> QED BY <1>1, KeyStart, KeyStep, PTL DEF ApiSpec

\* One request at a time runs under a key, and it takes effect once per lifetime
\* of its row, whatever expires and is reclaimed, deleted or retried meanwhile.
THEOREM KeyGuards == ASSUME Durations PROVE ApiSpec => []KeyGuardsEffects
<1>1. KeyInv => KeyGuardsEffects
    BY DEF KeyInv, RowInv, Alone, EffectInv, Apart, Orderly, Locked, KeyGuardsEffects, ExecutesAlone, EffectsApart
<1> QED BY <1>1, KeyStart, KeyStep, PTL DEF ApiSpec

-----------------------------------------------------------------------------
(* Events for developer webhooks.                                          *)

\* What the theorems assume of the constants.
OutboxBounds ==
    /\ Endpoints \in Nat /\ OutboxAttempts \in Nat \ {0}
    /\ MaxOutboxStalls \in Nat /\ MaxRecoveries \in Nat

WorkerStep(w) == Execute(w) \/ CallThrows(w) \/ StallEvent(w)

\* The job has one owner, who runs it.
OwnerRuns ==
    /\ \A w \in Workers : execution[w].owner => outbox.state = "active" /\ outbox.tries >= 1
    /\ \A v, w \in Workers : execution[v].owner /\ execution[w].owner => v = w
    /\ outbox.state = "waiting" => outbox.tries < OutboxAttempts

\* It begins with the first endpoint and is at one until it is behind the last.
Placed == \A w \in Workers :
    /\ execution[w].pc = "claim" => execution[w].at = 1
    /\ execution[w].pc \in {"deliver", "add"} => execution[w].at <= Endpoints

\* Behind a handler, every endpoint's queue has the event.
EarlierNotified == \A w \in Workers :
    /\ execution[w].pc \in {"deliver", "add"} =>
           \A e \in 1..Endpoints : e < execution[w].at => sendable[e] >= 1
    /\ execution[w].pc = "mark" => \A e \in 1..Endpoints : sendable[e] >= 1

AllNotified == published = "DELIVERED" => \A e \in 1..Endpoints : sendable[e] >= 1

\* While no call fails and nobody takes the event away, it is claimed once.
OutboxUndisturbed == outboxEnv \subseteq {"crash", "lock"}

AtEndpoint(w) == execution[w].pc \in {"deliver", "add", "mark"}

ClaimedOnce ==
    /\ published # "FAILED" /\ \A w \in Workers : execution[w].pc # "fail"
    /\ published \in {"NONE", "PENDING"} =>
           /\ \A w \in Workers : ~AtEndpoint(w)
           /\ \A e \in 1..Endpoints : deliveries[e] = 0
    /\ \A v, w \in Workers : AtEndpoint(v) /\ AtEndpoint(w) => v = w

\* It has no delivery for the endpoints that are still to come.
LaterUntouched == \A w \in Workers, e \in 1..Endpoints :
    /\ execution[w].pc = "deliver" /\ e >= execution[w].at => deliveries[e] = 0
    /\ execution[w].pc = "add" /\ e > execution[w].at => deliveries[e] = 0

DeliveredOnce == \A e \in 1..Endpoints : deliveries[e] <= 1

OutboxInv ==
    /\ OutboxTypeOK /\ OwnerRuns /\ Placed
    /\ EarlierNotified /\ AllNotified
    /\ OutboxUndisturbed => ClaimedOnce /\ LaterUntouched /\ DeliveredOnce

-----------------------------------------------------------------------------
JobRow == [state : {"none", "waiting", "active", "kept"}, tries : 0..OutboxAttempts,
           stalls : 0..MaxOutboxStalls + 1]

LEMMA OutboxRows ==
    ASSUME OutboxBounds
    PROVE  NoOutboxJob \in JobRow /\ Resting \in ExecutionRow
           /\ [NoOutboxJob EXCEPT !.state = "waiting"] \in JobRow
BY DEF OutboxBounds, NoOutboxJob, Resting, JobRow, ExecutionRow

\* What an addition does to the job.
LEMMA Adding ==
    ASSUME OutboxBounds, outbox \in JobRow, TryAdd
    PROVE  /\ outbox' \in JobRow
           /\ outbox' = outbox
              \/ (outbox.state = "none" /\ outbox'.state = "waiting" /\ outbox'.tries = 0)
BY OutboxRows DEF TryAdd, AddJob, NoOutboxJob, JobRow

\* Where an execution is after its step.
LEMMA Moving ==
    ASSUME OutboxTypeOK, NEW w \in Workers, NEW step, Move(w, step),
           step \in {"idle", "claim", "deliver", "add", "mark", "fail"}
    PROVE  /\ execution' \in [Workers -> ExecutionRow]
           /\ execution'[w].pc = step /\ execution'[w].at = execution[w].at
           /\ execution'[w].owner = execution[w].owner
           /\ \A v \in Workers \ {w} : execution'[v] = execution[v]
<1>1. execution[w] \in ExecutionRow /\ execution' = [execution EXCEPT ![w] = [execution[w] EXCEPT !.pc = step]]
    BY DEF OutboxTypeOK, Move
<1>2. [execution[w] EXCEPT !.pc = step] \in ExecutionRow
    BY <1>1 DEF ExecutionRow
<1> QED BY <1>1, <1>2 DEF OutboxTypeOK, ExecutionRow

\* What an execution that is over leaves behind.
LEMMA Ending ==
    ASSUME OutboxBounds, OutboxTypeOK, OwnerRuns, NEW w \in Workers, Finished(w) \/ Failed(w)
    PROVE  /\ outbox' \in JobRow
           /\ execution' = [execution EXCEPT ![w] = Resting]
           /\ ~execution[w].owner => outbox' = outbox
           /\ outbox'.state = "waiting" => outbox'.tries < OutboxAttempts
<1>1. outbox \in JobRow
    BY DEF OutboxTypeOK, JobRow
<1>2. CASE ~execution[w].owner
    BY <1>1, <1>2 DEF Finished, Failed, OwnerRuns
<1>3. CASE execution[w].owner
    <2>1. \/ outbox' = [outbox EXCEPT !.state = "kept"]
          \/ outbox' = [outbox EXCEPT !.state = "waiting"] /\ AttemptsLeft
          \/ outbox' = NoOutboxJob
        BY <1>3 DEF Finished, Failed
    <2>2. [outbox EXCEPT !.state = "kept"] \in JobRow /\ [outbox EXCEPT !.state = "waiting"] \in JobRow
        BY <1>1 DEF JobRow
    <2>3. outbox'.state = "waiting" => outbox'.tries < OutboxAttempts
        BY <1>1, <2>1 DEF AttemptsLeft, NoOutboxJob, JobRow
    <2> QED BY <1>3, <2>1, <2>2, <2>3, OutboxRows DEF Finished, Failed
<1> QED BY <1>2, <1>3

\* The retry button, the publication and the recovery leave the executions alone.
LEMMA OwnersWithRequests ==
    ASSUME OutboxBounds, OutboxTypeOK, OwnerRuns, TryAdd \/ UNCHANGED outbox, UNCHANGED execution
    PROVE  outbox' \in JobRow /\ OwnerRuns'
<1>1. outbox \in JobRow
    BY DEF OutboxTypeOK, JobRow
<1>2. \/ UNCHANGED outbox
      \/ outbox.state = "none" /\ outbox'.state = "waiting" /\ outbox'.tries = 0
    BY <1>1, Adding
<1>3. outbox' \in JobRow
    BY <1>1, Adding
<1> QED BY <1>2, <1>3 DEF OwnerRuns, OutboxBounds

\* Publishers, recoveries and retries.
OutboxRequest == (\E p \in Publishers : Publish(p)) \/ Recover \/ (\E a \in Admins : Retry(a))

LEMMA PublisherTypes ==
    ASSUME OutboxBounds, OutboxTypeOK, OwnerRuns, OutboxRequest
    PROVE  OutboxTypeOK' /\ OwnerRuns'
<1>1. (TryAdd \/ UNCHANGED outbox) /\ UNCHANGED <<outboxEnv, deliveries, sendable, execution>>
    BY DEF OutboxRequest, Publish, Recover, Retry
<1>2. outbox' \in JobRow /\ OwnerRuns'
    BY <1>1, OwnersWithRequests
<1>3. /\ published' \in {"NONE", "PENDING", "PROCESSING", "DELIVERED", "FAILED"}
      /\ publisher' \in [Publishers -> {"idle", "add", "done"}]
    BY DEF OutboxRequest, Publish, Recover, Retry, OutboxTypeOK
<1>4. recoveries' \in 0..MaxRecoveries
    BY DEF OutboxRequest, Publish, Recover, Retry, OutboxTypeOK, OutboxBounds
<1>5. retrier' \in [Admins -> {"idle", "reset", "add", "done"}]
    BY DEF OutboxRequest, Publish, Recover, Retry, OutboxTypeOK
<1> QED BY <1>1, <1>2, <1>3, <1>4, <1>5 DEF OutboxTypeOK, JobRow

\* A step of one execution leaves the others alone, and takes the job by its state.
LEMMA OwnersWithWorker ==
    ASSUME OutboxBounds, OutboxTypeOK, OwnerRuns, Placed, NEW w \in Workers, WorkerStep(w)
    PROVE  /\ outbox' \in JobRow /\ OwnerRuns'
           /\ execution' \in [Workers -> ExecutionRow]
           /\ \A v \in Workers \ {w} : execution'[v].pc = execution[v].pc /\ execution'[v].at = execution[v].at
<1>1. outbox \in JobRow /\ execution[w] \in ExecutionRow
    BY DEF OutboxTypeOK, JobRow
<1>2. CASE TakeEvent(w)
    <2>1. outbox' = [outbox EXCEPT !.state = "active", !.tries = outbox.tries + 1]
          /\ execution' = [execution EXCEPT ![w] = [Resting EXCEPT !.pc = "claim", !.owner = TRUE]]
          /\ outbox.state = "waiting"
        BY <1>2 DEF TakeEvent
    <2>2. outbox' \in JobRow /\ outbox'.state = "active" /\ outbox'.tries >= 1
        <3>1. outbox.tries + 1 \in 0..OutboxAttempts /\ outbox.tries + 1 >= 1
            BY <1>1, <2>1 DEF OwnerRuns, JobRow, OutboxBounds
        <3> QED BY <1>1, <2>1, <3>1 DEF JobRow
    <2>3. [Resting EXCEPT !.pc = "claim", !.owner = TRUE] \in ExecutionRow
        BY OutboxRows DEF ExecutionRow
    <2>4. \A v \in Workers : ~execution[v].owner
        BY <2>1 DEF OwnerRuns
    <2>5. execution' \in [Workers -> ExecutionRow] /\ \A v \in Workers \ {w} : execution'[v] = execution[v]
        BY <2>1, <2>3 DEF OutboxTypeOK
    <2> QED BY <2>2, <2>4, <2>5 DEF OwnerRuns
<1>3. CASE Finished(w) \/ Failed(w)
    <2>1. /\ outbox' \in JobRow /\ execution' = [execution EXCEPT ![w] = Resting]
          /\ ~execution[w].owner => outbox' = outbox
          /\ outbox'.state = "waiting" => outbox'.tries < OutboxAttempts
        BY <1>3, Ending
    <2>2. execution' \in [Workers -> ExecutionRow] /\ execution'[w] = Resting
          /\ \A v \in Workers \ {w} : execution'[v] = execution[v]
        BY <2>1, OutboxRows DEF OutboxTypeOK
    <2>3. ~execution'[w].owner
        BY <2>2 DEF Resting
    <2> QED BY <2>1, <2>2, <2>3 DEF OwnerRuns
<1>4. CASE UNCHANGED outbox /\ \E step \in {"idle", "claim", "deliver", "add", "mark", "fail"} : Move(w, step)
    <2>1. /\ execution' \in [Workers -> ExecutionRow]
          /\ execution'[w].owner = execution[w].owner
          /\ \A v \in Workers \ {w} : execution'[v] = execution[v]
        BY <1>4, Moving
    <2> QED BY <1>1, <1>4, <2>1 DEF OwnerRuns
<1>5. CASE AddDelivery(w)
    <2>1. execution' = [execution EXCEPT ![w] = [execution[w] EXCEPT !.at = execution[w].at + 1,
                           !.pc = IF execution[w].at = Endpoints THEN "mark" ELSE "deliver"]]
          /\ UNCHANGED outbox
        BY <1>5 DEF AddDelivery, OutboxTypeOK
    <2>2. execution[w].at + 1 \in 1..Endpoints + 1
        BY <1>1, <1>5 DEF AddDelivery, Placed, ExecutionRow, OutboxBounds
    <2>3. execution' \in [Workers -> ExecutionRow]
        BY <1>1, <2>1, <2>2 DEF OutboxTypeOK, ExecutionRow
    <2>4. execution'[w].owner = execution[w].owner
        BY <1>1, <2>1 DEF OutboxTypeOK, ExecutionRow
    <2> QED BY <1>1, <2>1, <2>3, <2>4 DEF OwnerRuns
<1>6. CASE StallEvent(w)
    <2>1. \/ /\ outbox' = [state |-> "waiting", tries |-> outbox.tries - 1, stalls |-> outbox.stalls + 1]
             /\ outbox.stalls < MaxOutboxStalls
          \/ outbox' = NoOutboxJob
        BY <1>6 DEF StallEvent
    <2>2. execution[w].owner /\ outbox.tries >= 1
        BY <1>6 DEF StallEvent, OwnerRuns
    <2>3. outbox' \in JobRow /\ (outbox'.state = "waiting" => outbox'.tries < OutboxAttempts)
        BY <1>1, <2>1, <2>2, OutboxRows DEF JobRow, NoOutboxJob, OutboxBounds
    <2>4. execution' = [execution EXCEPT ![w] = Resting]
          \/ execution' = [execution EXCEPT ![w] = [execution[w] EXCEPT !.owner = FALSE]]
        BY <1>6 DEF StallEvent, OutboxTypeOK
    <2>5. execution' \in [Workers -> ExecutionRow] /\ ~execution'[w].owner
          /\ \A v \in Workers \ {w} : execution'[v] = execution[v]
        <3>1. [execution[w] EXCEPT !.owner = FALSE] \in ExecutionRow
              /\ ~[execution[w] EXCEPT !.owner = FALSE].owner
              /\ [execution[w] EXCEPT !.owner = FALSE].pc = execution[w].pc
              /\ [execution[w] EXCEPT !.owner = FALSE].at = execution[w].at
            BY <1>1 DEF ExecutionRow
        <3>2. Resting \in ExecutionRow /\ ~Resting.owner
            BY OutboxRows DEF Resting
        <3> QED BY <2>4, <3>1, <3>2 DEF OutboxTypeOK
    <2> QED BY <2>2, <2>3, <2>5 DEF OwnerRuns
<1> QED BY <1>2, <1>3, <1>4, <1>5, <1>6 DEF WorkerStep, Execute, Claim, CreateDelivery, MarkDelivered,
          MarkEventFailed, CallThrows

\* What a step of an execution does, to its place, to the event and to the rows.
LEMMA WorkerEffects ==
    ASSUME OutboxBounds, OutboxTypeOK, OwnerRuns, Placed, NEW w \in Workers, WorkerStep(w)
    PROVE  LET was == execution[w]  is == execution'[w] IN
           \/ /\ is.pc = "idle" /\ UNCHANGED <<published, deliveries, sendable>>
           \/ /\ is.pc = "idle" /\ UNCHANGED <<deliveries, sendable>>
              /\ was.pc = "fail" /\ published' \in {"FAILED", published}
           \/ /\ is.pc = "claim" /\ is.at = 1 /\ was.pc = "idle"
              /\ UNCHANGED <<published, deliveries, sendable>>
           \/ /\ is.pc = was.pc /\ is.at = was.at /\ UNCHANGED <<published, deliveries, sendable>>
           \/ /\ is.pc = "fail" /\ UNCHANGED <<published, deliveries, sendable>>
              /\ Hit("database") \/ Hit("redis")
           \/ /\ was.pc = "claim" /\ is.at = 1 /\ Unclaimed /\ published' = "PROCESSING"
              /\ is.pc = IF Endpoints = 0 THEN "mark" ELSE "deliver"
              /\ UNCHANGED <<deliveries, sendable>>
           \/ /\ was.pc = "deliver" /\ is.pc = "add" /\ is.at = was.at
              /\ deliveries' = [deliveries EXCEPT ![was.at] = @ + 1]
              /\ UNCHANGED <<published, sendable>>
           \/ /\ was.pc = "add" /\ is.at = was.at + 1
              /\ is.pc = IF was.at = Endpoints THEN "mark" ELSE "deliver"
              /\ sendable' = [sendable EXCEPT ![was.at] = @ + 1]
              /\ UNCHANGED <<published, deliveries>>
           \/ /\ was.pc = "mark" /\ is.pc = "idle" /\ published' = "DELIVERED"
              /\ UNCHANGED <<deliveries, sendable>>
<1> DEFINE was == execution[w]
           is == execution'[w]
<1>t. was \in ExecutionRow /\ Resting.pc = "idle" /\ Resting.at = 1
    BY DEF OutboxTypeOK, Resting
<1>e. Finished(w) \/ Failed(w) => is = Resting
    BY DEF Finished, Failed, OutboxTypeOK
<1>m. ASSUME NEW step \in {"idle", "claim", "deliver", "add", "mark", "fail"}, Move(w, step)
      PROVE  is.pc = step /\ is.at = was.at
    BY <1>m, Moving
<1>1. CASE TakeEvent(w)
    <2>1. is = [Resting EXCEPT !.pc = "claim", !.owner = TRUE] /\ was = Resting
        BY <1>1 DEF TakeEvent, OutboxTypeOK
    <2>2. is.pc = "claim" /\ is.at = 1
        BY <2>1 DEF Resting
    <2> QED BY <2>1, <2>2, <1>1, <1>t DEF TakeEvent
<1>2. CASE Claim(w)
    <2>1. CASE Unclaimed
        <3>1. Move(w, IF Endpoints = 0 THEN "mark" ELSE "deliver") /\ published' = "PROCESSING"
            BY <1>2, <2>1 DEF Claim
        <3>2. is.pc = (IF Endpoints = 0 THEN "mark" ELSE "deliver") /\ is.at = was.at
            BY <3>1, Moving
        <3> QED BY <1>2, <2>1, <3>1, <3>2 DEF Claim, Placed
    <2>2. CASE ~Unclaimed
        BY <1>2, <2>2, <1>e, <1>t DEF Claim
    <2> QED BY <2>1, <2>2
<1>3. CASE CreateDelivery(w)
    BY <1>3, <1>m DEF CreateDelivery
<1>4. CASE AddDelivery(w)
    <2>1. is = [was EXCEPT !.at = was.at + 1, !.pc = IF was.at = Endpoints THEN "mark" ELSE "deliver"]
        BY <1>4 DEF AddDelivery, OutboxTypeOK
    <2>2. is.at = was.at + 1 /\ is.pc = IF was.at = Endpoints THEN "mark" ELSE "deliver"
        BY <2>1, <1>t DEF ExecutionRow
    <2> QED BY <1>4, <2>2 DEF AddDelivery
<1>5. CASE MarkDelivered(w)
    BY <1>5, <1>e, <1>t DEF MarkDelivered
<1>6. CASE MarkEventFailed(w)
    BY <1>6, <1>e, <1>t DEF MarkEventFailed
<1>7. CASE CallThrows(w)
    BY <1>7, <1>e, <1>t, <1>m DEF CallThrows
<1>8. CASE StallEvent(w)
    <2>1. is = Resting \/ is = [was EXCEPT !.owner = FALSE]
        BY <1>8 DEF StallEvent, OutboxTypeOK
    <2>2. is.pc = "idle" \/ (is.pc = was.pc /\ is.at = was.at)
        BY <2>1, <1>t DEF ExecutionRow
    <2> QED BY <1>8, <2>2 DEF StallEvent
<1> HIDE DEF was, is
<1> QED BY <1>1, <1>2, <1>3, <1>4, <1>5, <1>6, <1>7, <1>8 DEF WorkerStep, Execute, was, is

\* The types, and where executions are.
LEMMA WorkerTypes ==
    ASSUME OutboxBounds, OutboxTypeOK, OwnerRuns, Placed, NEW w \in Workers, WorkerStep(w)
    PROVE  OutboxTypeOK' /\ OwnerRuns' /\ Placed'
<1>1. /\ outbox' \in JobRow /\ OwnerRuns' /\ execution' \in [Workers -> ExecutionRow]
      /\ \A v \in Workers \ {w} : execution'[v].pc = execution[v].pc /\ execution'[v].at = execution[v].at
    BY OwnersWithWorker
<1>2. execution[w] \in ExecutionRow /\ execution'[w] \in ExecutionRow
    BY <1>1 DEF OutboxTypeOK
<1>3. UNCHANGED <<outboxEnv, publisher, recoveries, retrier>>
    BY DEF WorkerStep, Execute, TakeEvent, Claim, CreateDelivery, AddDelivery, MarkDelivered, MarkEventFailed,
           CallThrows, StallEvent
<1>4. execution[w].pc \in {"deliver", "add"} => execution[w].at \in 1..Endpoints
    BY <1>2 DEF Placed, ExecutionRow, OutboxBounds
<1>5. Placed'
    <2>1. \A v \in Workers \ {w} : (execution'[v].pc = "claim" => execution'[v].at = 1)
            /\ (execution'[v].pc \in {"deliver", "add"} => execution'[v].at <= Endpoints)
        BY <1>1 DEF Placed
    <2>2. (execution'[w].pc = "claim" => execution'[w].at = 1)
            /\ (execution'[w].pc \in {"deliver", "add"} => execution'[w].at <= Endpoints)
        BY <1>4, WorkerEffects DEF Placed, OutboxBounds
    <2> QED BY <2>1, <2>2 DEF Placed
<1>6. published' \in {"NONE", "PENDING", "PROCESSING", "DELIVERED", "FAILED"}
    BY WorkerEffects DEF OutboxTypeOK
<1>7. deliveries' \in [1..Endpoints -> Nat]
    <2>1. CASE UNCHANGED deliveries
        BY <2>1 DEF OutboxTypeOK
    <2>2. CASE deliveries' = [deliveries EXCEPT ![execution[w].at] = @ + 1] /\ execution[w].pc = "deliver"
        BY <2>2, <1>4 DEF OutboxTypeOK
    <2> QED BY <2>1, <2>2, WorkerEffects
<1>8. sendable' \in [1..Endpoints -> Nat]
    <2>1. CASE UNCHANGED sendable
        BY <2>1 DEF OutboxTypeOK
    <2>2. CASE sendable' = [sendable EXCEPT ![execution[w].at] = @ + 1] /\ execution[w].pc = "add"
        BY <2>2, <1>4 DEF OutboxTypeOK
    <2> QED BY <2>1, <2>2, WorkerEffects
<1> QED BY <1>1, <1>3, <1>5, <1>6, <1>7, <1>8 DEF OutboxTypeOK, JobRow

\* An event that is delivered has reached every queue.
LEMMA WorkerNotifies ==
    ASSUME OutboxBounds, OutboxTypeOK, OwnerRuns, Placed, EarlierNotified, AllNotified,
           NEW w \in Workers, WorkerStep(w)
    PROVE  EarlierNotified' /\ AllNotified'
<1> DEFINE was == execution[w]
           is == execution'[w]
<1>1. \A v \in Workers \ {w} : execution'[v].pc = execution[v].pc /\ execution'[v].at = execution[v].at
    BY OwnersWithWorker
<1>2. was.at \in Int /\ (was.pc = "add" => was.at \in 1..Endpoints)
    BY DEF OutboxTypeOK, ExecutionRow, Placed, OutboxBounds
<1>3. \A e \in 1..Endpoints :
        /\ sendable[e] >= 1 => sendable'[e] >= 1
        /\ was.pc = "add" /\ is.pc \in {"deliver", "mark"} /\ e = was.at => sendable'[e] >= 1
    <2>1. CASE UNCHANGED sendable /\ ~(was.pc = "add" /\ is.pc \in {"deliver", "mark"})
        BY <2>1 DEF OutboxTypeOK
    <2>2. CASE was.pc = "add" /\ sendable' = [sendable EXCEPT ![was.at] = sendable[was.at] + 1]
        BY <2>2, <1>2 DEF OutboxTypeOK
    <2> QED BY <2>1, <2>2, <1>2, WorkerEffects
<1>4. AllNotified'
    <2>1. published' = published \/ published' # "DELIVERED" \/ was.pc = "mark"
        BY WorkerEffects
    <2> QED BY <2>1, <1>3 DEF AllNotified, EarlierNotified
<1>5. \A v \in Workers \ {w} :
        /\ execution'[v].pc \in {"deliver", "add"} =>
             \A e \in 1..Endpoints : e < execution'[v].at => sendable'[e] >= 1
        /\ execution'[v].pc = "mark" => \A e \in 1..Endpoints : sendable'[e] >= 1
    BY <1>1, <1>3 DEF EarlierNotified
<1>6. ASSUME NEW e \in 1..Endpoints, is.pc = "mark" \/ (is.pc \in {"deliver", "add"} /\ e < is.at)
      PROVE  sendable'[e] >= 1
    <2>1. CASE was.pc = "claim" /\ is.at = 1 /\ is.pc = IF Endpoints = 0 THEN "mark" ELSE "deliver"
        BY <2>1, <1>6 DEF OutboxBounds
    <2>2. CASE was.pc = "add" /\ is.at = was.at + 1
               /\ is.pc = IF was.at = Endpoints THEN "mark" ELSE "deliver"
        <3>1. e < was.at \/ e = was.at
            BY <2>2, <1>2, <1>6 DEF OutboxBounds
        <3> QED BY <3>1, <2>2, <1>3 DEF EarlierNotified
    <2>3. CASE (is.pc = was.pc \/ (was.pc = "deliver" /\ is.pc = "add")) /\ is.at = was.at
        <3>1. sendable[e] >= 1
            <4>1. was.pc = "mark" \/ (was.pc \in {"deliver", "add"} /\ e < was.at)
                BY <2>3, <1>6
            <4> QED BY <4>1 DEF EarlierNotified
        <3> QED BY <3>1, <1>3
    <2>4. is.pc \in {"mark", "deliver", "add"}
        BY <1>6
    <2>5. \/ was.pc = "claim" /\ is.at = 1 /\ is.pc = IF Endpoints = 0 THEN "mark" ELSE "deliver"
          \/ was.pc = "add" /\ is.at = was.at + 1 /\ is.pc = IF was.at = Endpoints THEN "mark" ELSE "deliver"
          \/ (is.pc = was.pc \/ (was.pc = "deliver" /\ is.pc = "add")) /\ is.at = was.at
        <3> HIDE DEF was, is
        <3> QED BY <2>4, WorkerEffects, Zenon DEF was, is
    <2> QED BY <2>1, <2>2, <2>3, <2>5
<1> QED BY <1>4, <1>5, <1>6 DEF EarlierNotified

\* While nothing disturbs it, one execution makes one delivery per endpoint.
LEMMA WorkerOnce ==
    ASSUME OutboxBounds, OutboxTypeOK, OwnerRuns, Placed, OutboxUndisturbed,
           ClaimedOnce, LaterUntouched, DeliveredOnce, NEW w \in Workers, WorkerStep(w)
    PROVE  ClaimedOnce' /\ LaterUntouched' /\ DeliveredOnce'
<1> DEFINE was == execution[w]
           is == execution'[w]
<1>1. \A v \in Workers \ {w} : execution'[v].pc = execution[v].pc /\ execution'[v].at = execution[v].at
    BY OwnersWithWorker
<1>2. was.at \in Int /\ (was.pc \in {"deliver", "add"} => was.at \in 1..Endpoints)
    BY DEF OutboxTypeOK, ExecutionRow, Placed, OutboxBounds
<1>3. ~Hit("database") /\ ~Hit("redis")
    BY DEF OutboxUndisturbed, Hit, WorkerStep, Execute, TakeEvent, Claim, CreateDelivery, AddDelivery, MarkDelivered,
           MarkEventFailed, CallThrows, StallEvent
<1>4. ClaimedOnce'
    <2>1. published' # "FAILED" /\ is.pc # "fail"
        BY <1>3, WorkerEffects DEF ClaimedOnce
    <2>3. CASE AtEndpoint(w) \/ ~AtEndpoint(w)'
        <3>1. published' \in {"NONE", "PENDING"} => published' = published /\ UNCHANGED deliveries
            BY <2>3, WorkerEffects DEF ClaimedOnce, AtEndpoint
        <3>2. \A v \in Workers : AtEndpoint(v)' => AtEndpoint(v)
            BY <1>1, <2>3 DEF AtEndpoint
        <3> QED BY <1>1, <2>1, <3>1, <3>2 DEF ClaimedOnce
    <2>4. CASE ~AtEndpoint(w) /\ AtEndpoint(w)'
        <3>1. was.pc = "claim" /\ Unclaimed /\ published' = "PROCESSING"
            BY <2>4, WorkerEffects DEF AtEndpoint
        <3>2. \A v \in Workers : ~AtEndpoint(v)
            BY <3>1 DEF ClaimedOnce, Unclaimed
        <3> QED BY <1>1, <2>1, <3>1, <3>2 DEF ClaimedOnce, AtEndpoint
    <2> QED BY <2>3, <2>4
<1>5. CASE UNCHANGED deliveries /\ (is.pc \notin {"deliver", "add"} \/ (is.pc = was.pc /\ is.at = was.at))
    BY <1>1, <1>4, <1>5 DEF LaterUntouched, DeliveredOnce
<1>6. CASE was.pc = "claim" /\ Unclaimed /\ UNCHANGED deliveries /\ is.pc \in {"mark", "deliver"}
    <2>1. \A e \in 1..Endpoints : deliveries[e] = 0
        BY <1>6 DEF ClaimedOnce, Unclaimed
    <2> QED BY <1>4, <1>6, <2>1 DEF LaterUntouched, DeliveredOnce
<1>7. CASE /\ was.pc = "deliver" /\ is.pc = "add" /\ is.at = was.at
           /\ deliveries' = [deliveries EXCEPT ![was.at] = @ + 1]
    <2>1. \A e \in 1..Endpoints : e >= was.at => deliveries[e] = 0
        BY <1>7 DEF LaterUntouched
    <2>2. \A e \in 1..Endpoints : deliveries'[e] = IF e = was.at THEN 1 ELSE deliveries[e]
        BY <1>2, <1>7, <2>1 DEF OutboxTypeOK
    <2>3. \A v \in Workers \ {w} : execution'[v].pc \notin {"deliver", "add"}
        BY <1>1, <1>7 DEF ClaimedOnce, AtEndpoint
    <2>4. \A e \in 1..Endpoints : is.pc = "add" /\ e > is.at => deliveries'[e] = 0
        BY <1>2, <1>7, <2>1, <2>2
    <2> QED BY <1>4, <1>7, <2>2, <2>3, <2>4 DEF LaterUntouched, DeliveredOnce
<1>8. CASE was.pc = "add" /\ is.at = was.at + 1 /\ UNCHANGED deliveries /\ is.pc \in {"mark", "deliver"}
    <2>1. \A e \in 1..Endpoints : e >= is.at => deliveries[e] = 0
        BY <1>2, <1>8 DEF LaterUntouched
    <2> QED BY <1>1, <1>4, <1>8, <2>1 DEF LaterUntouched, DeliveredOnce
<1> QED BY <1>4, <1>5, <1>6, <1>7, <1>8, WorkerEffects

-----------------------------------------------------------------------------
\* The other steps only make the event pending, once when nothing disturbs it.
LEMMA RequestKeeps ==
    ASSUME OutboxBounds, OutboxInv, OutboxRequest
    PROVE  OutboxInv'
<1>1. OutboxTypeOK' /\ OwnerRuns'
    BY PublisherTypes DEF OutboxInv
<1>2. /\ UNCHANGED <<outboxEnv, deliveries, sendable, execution>>
      /\ published' = "DELIVERED" => published = "DELIVERED"
    BY DEF OutboxRequest, Publish, Recover, Retry
<1>3. Placed' /\ EarlierNotified' /\ AllNotified'
    BY <1>2 DEF OutboxInv, Placed, EarlierNotified, AllNotified
<1>4. ASSUME OutboxUndisturbed PROVE ClaimedOnce' /\ LaterUntouched' /\ DeliveredOnce'
    <2>1. \E p \in Publishers : Publish(p)
        BY <1>4 DEF OutboxRequest, OutboxUndisturbed, Recover, Retry, Hit
    <2>2. published' = published \/ (published = "NONE" /\ published' = "PENDING")
        BY <2>1 DEF Publish
    <2> QED BY <1>2, <1>4, <2>2 DEF OutboxInv, ClaimedOnce, LaterUntouched, DeliveredOnce, AtEndpoint
<1> QED BY <1>1, <1>2, <1>3, <1>4 DEF OutboxInv, OutboxUndisturbed

LEMMA OutboxStep ==
    ASSUME OutboxBounds, OutboxInv, [OutboxNext]_outboxVars
    PROVE  OutboxInv'
<1>1. CASE UNCHANGED outboxVars
    BY <1>1 DEF outboxVars, OutboxInv, OutboxTypeOK, OwnerRuns, Placed, EarlierNotified, AllNotified, OutboxUndisturbed,
                ClaimedOnce, LaterUntouched, DeliveredOnce, AtEndpoint
<1>2. CASE OutboxRequest
    BY <1>2, RequestKeeps
<1>3. ASSUME NEW w \in Workers, WorkerStep(w) PROVE OutboxInv'
    <2>1. OutboxUndisturbed' = OutboxUndisturbed
        BY <1>3 DEF OutboxUndisturbed, WorkerStep, Execute, TakeEvent, Claim, CreateDelivery, AddDelivery, MarkDelivered,
                    MarkEventFailed, CallThrows, StallEvent
    <2> QED BY <1>3, <2>1, WorkerTypes, WorkerNotifies, WorkerOnce DEF OutboxInv
<1> QED BY <1>1, <1>2, <1>3 DEF OutboxNext, OutboxRequest, WorkerStep

LEMMA OutboxStart == ASSUME OutboxBounds, OutboxInit PROVE OutboxInv
<1>1. OutboxTypeOK
    BY OutboxRows DEF OutboxInit, OutboxTypeOK, OutboxBounds, JobRow
<1>2. \A w \in Workers : execution[w].pc = "idle" /\ ~execution[w].owner
    BY DEF OutboxInit, Resting
<1>3. outbox.state = "none"
    BY DEF OutboxInit, NoOutboxJob
<1> QED BY <1>1, <1>2, <1>3 DEF OutboxInit, OutboxInv, OwnerRuns, Placed, EarlierNotified, AllNotified, ClaimedOnce,
           LaterUntouched, DeliveredOnce, AtEndpoint

\* A delivered event has reached every endpoint's queue, and once unless a call
\* fails or somebody takes it from a handler that is alive: for any number of
\* endpoints, workers, stalls and attempts.
THEOREM EventNotified == ASSUME OutboxBounds PROVE OutboxSpec => []NotifiedOnce
<1>1. OutboxInv => NotifiedOnce
    BY DEF OutboxInv, AllNotified, OutboxUndisturbed, DeliveredOnce, NotifiedOnce
<1> QED BY <1>1, OutboxStart, OutboxStep, PTL DEF OutboxSpec

-----------------------------------------------------------------------------
(* Refunds.                                                                *)

\* A row with its note, the request that makes it and what Cashfree did.
RowFollows(r) ==
    /\ refund[r].note # "none" <=> refund[r].linked
    /\ refund[r].linked => payout[r] # "none"
    /\ refund[r].status = "NONE" => ~refund[r].linked /\ payout[r] = "none"
    /\ admin[r].pc = "create" => refund[r].status = "NONE"
    /\ admin[r].pc \in {"ask", "commit", "fail"} =>
           ~refund[r].linked /\ refund[r].status = "PROCESSING" /\ refund[r].amount = admin[r].amount
    /\ admin[r].pc = "ask" => payout[r] = "none"
    /\ admin[r].pc = "commit" => payout[r] # "none"
    /\ admin[r].pc = "fail" => payout[r] = "none" \/ refundEnv \cap {"timeout", "database"} # {}
    /\ refund[r].status = "PROCESSED" => payout[r] = "SUCCESS"
    /\ refund[r].status = "FAILED" =>
           payout[r] \in {"none", "FAILED"} \/ refundEnv \cap {"timeout", "database"} # {}
    /\ refund[r].note = "VOID" => payout[r] = "FAILED"
    /\ refund[r].status = "FAILED" /\ refund[r].note = "ISSUED" =>
           \/ refundEnv \cap {"database", "crash"} # {}
           \/ \E h \in Handlers : handler[h].pc = "void" /\ handler[h].of = r
RowsFollow == \A r \in Refunds : RowFollows(r)

\* What a handler has heard of Cashfree is what became of the refund, unless it
\* heard that it was pending.
ReportHolds(h) == handler[h].pc # "idle" =>
    /\ handler[h].of \in Refunds /\ refund[handler[h].of].linked
    /\ handler[h].says # "NONE"
    /\ handler[h].says = "PROCESSED" => payout[handler[h].of] = "SUCCESS"
    /\ handler[h].says = "FAILED" => payout[handler[h].of] = "FAILED"
    /\ handler[h].pc = "write" => handler[h].noted
    /\ handler[h].pc = "void" => handler[h].says = "FAILED"
ReportsHold == \A h \in Handlers : ReportHolds(h)

PaidOut == AmountOf(AtCashfree) <= InvoiceTotal

\* Scans are counted after they were found to be allowed.
Counters(r) == {h \in Handlers : handler[h].pc = "count" /\ handler[h].of = r}
ScansBounded == \A r \in Refunds :
    refund[r].scans + Cardinality(Counters(r)) <= MaxReconciliations + Cardinality(Handlers)

RefundInv == RefundTypeOK /\ RowsFollow /\ ReportsHold /\ PaidOut /\ ScansBounded

LEMMA CountersFinite ==
    ASSUME NEW r
    PROVE  /\ IsFiniteSet(Counters(r)) /\ Cardinality(Counters(r)) \in Nat
           /\ Cardinality(Counters(r)) <= Cardinality(Handlers) /\ Cardinality(Handlers) \in Nat
BY RefundAssumption, FS_Subset, FS_CardinalityType DEF Counters

LEMMA RefundRowTypes ==
    ASSUME RefundTypeOK
    PROVE  /\ \A r \in Refunds : refund[r] \in RefundRow /\ admin[r] \in AdminRow
           /\ \A h \in Handlers : handler[h] \in HandlerRow
BY DEF RefundTypeOK

\* The rest of a type is in the rows; the number of scans is bounded apart.
LEMMA NoneRows ==
    /\ NoRow \in RefundRow /\ NoAdmin \in AdminRow /\ NoHandler \in HandlerRow
    /\ NoAdmin.pc = "idle" /\ NoHandler.pc = "idle"
<1>1. MaxReconciliations + Cardinality(Handlers) \in Nat
  BY RefundAssumption, FS_CardinalityType
<1>2. QED
  BY <1>1 DEF NoRow, NoAdmin, NoHandler, RefundRow, AdminRow, HandlerRow, RefundStatus

\* The admin's request.
LEMMA RefundByRead ==
    ASSUME RefundInv, NEW r \in Refunds, NEW amount \in Amounts, ReadInvoice(r, amount)
    PROVE  RefundInv'
<1>1. /\ UNCHANGED <<refundEnv, refund, downgraded, payout, handler>>
      /\ refund[r].status = "NONE" /\ admin[r] = NoAdmin
      /\ admin' = [admin EXCEPT ![r] = [pc |-> "create", amount |-> amount, full |-> amount = Refundable]]
  BY DEF ReadInvoice
<1>2. [pc |-> "create", amount |-> amount, full |-> amount = Refundable] \in AdminRow
  BY DEF AdminRow
<1>3. RefundTypeOK'
  BY <1>1, <1>2 DEF RefundInv, RefundTypeOK
<1>4. \A q \in Refunds : admin'[q].pc = (IF q = r THEN "create" ELSE admin[q].pc)
                         /\ (q # r => admin'[q] = admin[q])
  BY <1>1 DEF RefundInv, RefundTypeOK
<1>5. RowsFollow'
  BY <1>1, <1>4 DEF RefundInv, RowsFollow, RowFollows
<1>6. ReportsHold'
  BY <1>1 DEF RefundInv, ReportsHold, ReportHolds
<1>7. PaidOut'
  BY <1>1 DEF RefundInv, PaidOut, AmountOf, AtCashfree
<1>8. ScansBounded'
  BY <1>1 DEF RefundInv, ScansBounded, Counters
<1>9. QED
  BY <1>3, <1>5, <1>6, <1>7, <1>8 DEF RefundInv

LEMMA AmountType == \A entry \in RefundRow : entry.amount \in Nat
<1> SUFFICES ASSUME NEW entry \in RefundRow PROVE entry.amount \in Nat
  OBVIOUS
<1>1. entry.amount \in Amounts \cup {0}
  BY DEF RefundRow
<1>2. Amounts \cup {0} \subseteq Nat
  BY RefundAssumption
<1>3. QED
  BY <1>1, <1>2

\* Amounts count from the answer of Cashfree on.
LEMMA SameMoney ==
    ASSUME RefundInv, AtCashfree' \subseteq AtCashfree, refund' \in [Refunds -> RefundRow],
           \A r \in AtCashfree : refund'[r].amount = refund[r].amount
    PROVE  PaidOut'
<1>1. PICK f, g : f = [r \in Refunds |-> refund[r].amount] /\ g = [r \in Refunds |-> refund'[r].amount]
  OBVIOUS
<1>2. f \in [Refunds -> Nat] /\ g \in [Refunds -> Nat] /\ IsFiniteSet(Refunds)
  <2>3. refund \in [Refunds -> RefundRow]
    BY DEF RefundInv, RefundTypeOK
  <2>2. QED
    BY <1>1, <2>3, AmountType, RefundAssumption
<1>3. PICK S, T : S = AtCashfree /\ T = AtCashfree'
  OBVIOUS
<1>4. S \subseteq Refunds /\ T \subseteq S /\ IsFiniteSet(S) /\ IsFiniteSet(T)
  BY <1>3, RefundAssumption, FS_Subset DEF AtCashfree
<1>5. SumFunctionOnSet(f, T) <= SumFunctionOnSet(f, S)
  BY <1>2, <1>4, SumOfPart
<1>6. SumFunctionOnSet(f, T) = SumFunctionOnSet(g, T)
  <2>1. \A x \in T : f[x] = g[x]
    BY <1>1, <1>3, <1>4
  <2>2. QED
    BY <1>2, <1>4, <2>1, SumAgrees
<1>7. SumFunctionOnSet(f, S) <= InvoiceTotal
  BY <1>1, <1>3 DEF RefundInv, PaidOut, AmountOf
<1>8. SumFunctionOnSet(g, T) <= InvoiceTotal
  <2>1. SumFunctionOnSet(f, T) \in Nat /\ SumFunctionOnSet(f, S) \in Nat
    BY <1>2, <1>4, SumType
  <2>2. QED
    BY <1>5, <1>6, <1>7, <2>1, RefundAssumption
<1>9. QED
  BY <1>1, <1>3, <1>8 DEF PaidOut, AmountOf

LEMMA RefundByCreate ==
    ASSUME RefundInv, NEW r \in Refunds, CreateRefund(r)
    PROVE  RefundInv'
<1>1. /\ UNCHANGED <<refundEnv, downgraded, payout, handler>> /\ admin[r].pc = "create"
      /\ refund' = [refund EXCEPT ![r].status = "PROCESSING", ![r].amount = admin[r].amount]
      /\ admin' = [admin EXCEPT ![r].pc = "ask"]
  BY DEF CreateRefund, Proceed
<1>2. refund \in [Refunds -> RefundRow] /\ admin \in [Refunds -> AdminRow]
  BY DEF RefundInv, RefundTypeOK
<1>3. refund[r].status = "NONE" /\ ~refund[r].linked /\ payout[r] = "none"
  BY <1>1 DEF RefundInv, RowsFollow, RowFollows
<1>4. RefundTypeOK'
  <2>1. [refund[r] EXCEPT !.status = "PROCESSING", !.amount = admin[r].amount] \in RefundRow
    BY <1>2 DEF RefundRow, RefundStatus, AdminRow
  <2>2. [admin[r] EXCEPT !.pc = "ask"] \in AdminRow
    BY <1>2 DEF AdminRow
  <2>3. refund' \in [Refunds -> RefundRow] /\ admin' \in [Refunds -> AdminRow]
    BY <1>1, <1>2, <2>1, <2>2
  <2>4. QED
    BY <1>1, <2>3 DEF RefundInv, RefundTypeOK
<1>5. RowsFollow'
  BY <1>1, <1>2, <1>3 DEF RefundInv, RowsFollow, RowFollows, RefundRow, AdminRow
<1>6. ReportsHold'
  BY <1>1, <1>2 DEF RefundInv, ReportsHold, ReportHolds, RefundRow
<1>7. PaidOut'
  BY <1>1, <1>2, <1>3, <1>4, SameMoney DEF AtCashfree, RefundTypeOK
<1>8. ScansBounded'
  <2>1. \A q \in Refunds : refund'[q].scans = refund[q].scans
    BY <1>1, <1>2 DEF RefundRow
  <2>2. QED
    BY <1>1, <2>1 DEF RefundInv, ScansBounded, Counters
<1>9. QED
  BY <1>4, <1>5, <1>6, <1>7, <1>8 DEF RefundInv

LEMMA ScansType == ASSUME RefundTypeOK, NEW r \in Refunds PROVE refund[r].scans \in Nat
<1>1. PICK top \in Nat : top = MaxReconciliations + Cardinality(Handlers)
  BY RefundAssumption, FS_CardinalityType
<1>2. refund[r].scans \in 0 .. top
  BY <1>1 DEF RefundTypeOK, RefundRow
<1>3. QED
  BY <1>2

\* No scan is counted, and none begun.
LEMMA SameScans ==
    ASSUME RefundInv, \A r \in Refunds : refund'[r].scans = refund[r].scans,
           \A h \in Handlers : handler'[h].pc = "count" =>
               handler[h].pc = "count" /\ handler'[h].of = handler[h].of
    PROVE  ScansBounded'
<1> SUFFICES ASSUME NEW r \in Refunds
             PROVE  refund'[r].scans + Cardinality(Counters(r)')
                        <= MaxReconciliations + Cardinality(Handlers)
  BY DEF ScansBounded
<1>1. PICK S, T : S = Counters(r) /\ T = Counters(r)'
  OBVIOUS
<1>2. T \subseteq S /\ IsFiniteSet(S)
  BY <1>1, CountersFinite DEF Counters
<1>3. Cardinality(T) <= Cardinality(S) /\ Cardinality(S) \in Nat /\ Cardinality(T) \in Nat
  BY <1>2, FS_Subset, FS_CardinalityType
<1>4. refund[r].scans \in Nat
  BY ScansType DEF RefundInv
<1>5. refund[r].scans + Cardinality(S) <= MaxReconciliations + Cardinality(Handlers)
  BY <1>1 DEF RefundInv, ScansBounded
<1>6. MaxReconciliations + Cardinality(Handlers) \in Nat
  BY RefundAssumption, FS_CardinalityType
<1>7. QED
  BY <1>1, <1>3, <1>4, <1>5, <1>6

LEMMA RefundByAsk ==
    ASSUME RefundInv, NEW r \in Refunds, AskCashfree(r)
    PROVE  RefundInv'
<1>1. UNCHANGED <<refundEnv, refund, downgraded, handler>> /\ admin[r].pc = "ask"
  BY DEF AskCashfree
<1>2. PICK after \in {"commit", "fail"} : admin' = [admin EXCEPT ![r].pc = after]
  BY DEF AskCashfree, Proceed
<1>3. \/ UNCHANGED payout /\ after = "fail"
      \/ /\ AmountOf(AtCashfree) + admin[r].amount <= InvoiceTotal
         /\ \E answer \in {"PENDING", "SUCCESS"} : payout' = [payout EXCEPT ![r] = answer]
         /\ after = "fail" => Suffers("timeout")
  <2>1. after = "fail" \/ after = "commit"
    OBVIOUS
  <2>2. /\ Proceed(r, "fail") => after = "fail"
        /\ Proceed(r, "commit") => after = "commit"
    <3>1. admin'[r].pc = after
      BY <1>2 DEF RefundInv, RefundTypeOK, AdminRow
    <3>2. /\ Proceed(r, "fail") => admin'[r].pc = "fail"
          /\ Proceed(r, "commit") => admin'[r].pc = "commit"
      BY DEF Proceed, RefundInv, RefundTypeOK, AdminRow
    <3>3. QED
      BY <3>1, <3>2
  <2>3. QED
    BY <2>2 DEF AskCashfree
<1>4. refund \in [Refunds -> RefundRow] /\ admin \in [Refunds -> AdminRow]
      /\ payout \in [Refunds -> {"none", "PENDING", "SUCCESS", "FAILED"}]
  BY DEF RefundInv, RefundTypeOK
<1>5. /\ ~refund[r].linked /\ refund[r].status = "PROCESSING" /\ refund[r].note = "none"
      /\ refund[r].amount = admin[r].amount /\ payout[r] = "none"
  BY <1>1, <1>4 DEF RefundInv, RowsFollow, RowFollows, RefundRow
<1>6. RefundTypeOK'
  <2>1. [admin[r] EXCEPT !.pc = after] \in AdminRow
    BY <1>4 DEF AdminRow
  <2>2. admin' \in [Refunds -> AdminRow]
    BY <1>2, <1>4, <2>1
  <2>3. payout' \in [Refunds -> {"none", "PENDING", "SUCCESS", "FAILED"}]
    BY <1>3, <1>4
  <2>4. QED
    BY <1>1, <2>2, <2>3 DEF RefundInv, RefundTypeOK
<1>7. \A q \in Refunds : /\ q # r => payout'[q] = payout[q] /\ admin'[q] = admin[q]
                         /\ q = r => admin'[q].pc = after /\ admin'[q].amount = admin[q].amount
                         /\ q = r /\ after = "fail" => payout'[q] = "none" \/ Suffers("timeout")
                         /\ q = r /\ after = "commit" => payout'[q] # "none"
  BY <1>2, <1>3, <1>4, <1>5 DEF AdminRow
<1>8. RowsFollow'
  <2>1. ASSUME NEW q \in Refunds, q # r PROVE RowFollows(q)'
    BY <1>1, <1>7, <2>1 DEF RefundInv, RowsFollow, RowFollows
  <2>2. RowFollows(r)'
    BY <1>1, <1>5, <1>7 DEF RowFollows, Suffers
  <2>3. QED
    BY <2>1, <2>2 DEF RowsFollow
<1>9. ReportsHold'
  BY <1>1, <1>5, <1>7 DEF RefundInv, ReportsHold, ReportHolds
<1>10. PaidOut'
  <2>1. CASE UNCHANGED payout
    BY <1>1, <2>1 DEF RefundInv, PaidOut, AmountOf, AtCashfree
  <2>2. CASE /\ AmountOf(AtCashfree) + admin[r].amount <= InvoiceTotal
             /\ \E answer \in {"PENDING", "SUCCESS"} : payout' = [payout EXCEPT ![r] = answer]
    <3>1. PICK f : f = [q \in Refunds |-> refund[q].amount]
      OBVIOUS
    <3>2. PICK S, T : S = AtCashfree /\ T = AtCashfree'
      OBVIOUS
    <3>3. T = S \cup {r} /\ r \notin S /\ S \subseteq Refunds
      BY <1>4, <1>5, <2>2, <3>2 DEF AtCashfree
    <3>4. f \in [Refunds -> Nat]
      BY <1>4, <3>1, AmountType
    <3>5. IsFiniteSet(T) /\ T \ {r} = S /\ T \in SUBSET Refunds /\ r \in T
      BY <3>3, RefundAssumption, FS_Subset
    <3>6. SumFunctionOnSet(f, T) = f[r] + SumFunctionOnSet(f, S)
      BY <3>4, <3>5, SumRemove
    <3>7. f[r] = admin[r].amount /\ f[r] \in Nat
      BY <1>5, <3>1, <3>4
    <3>8. IsFiniteSet(S) /\ SumFunctionOnSet(f, S) \in Nat
      BY <3>3, <3>4, RefundAssumption, FS_Subset, SumType
    <3>9. SumFunctionOnSet(f, T) <= InvoiceTotal
      <4>1. SumFunctionOnSet(f, S) + admin[r].amount <= InvoiceTotal
        BY <2>2, <3>1, <3>2 DEF AmountOf
      <4>2. QED
        BY <3>6, <3>7, <3>8, <4>1
    <3>10. QED
      BY <1>1, <3>1, <3>2, <3>9 DEF PaidOut, AmountOf
  <2>3. QED
    BY <1>3, <2>1, <2>2
<1>11. ScansBounded'
  BY <1>1, SameScans
<1>12. QED
  BY <1>6, <1>8, <1>9, <1>10, <1>11 DEF RefundInv

LEMMA RefundByCommit ==
    ASSUME RefundInv, NEW r \in Refunds, NEW answer \in {"PENDING", "SUCCESS"},
           CommitRefund(r, answer)
    PROVE  RefundInv'
<1>1. /\ UNCHANGED <<refundEnv, payout, handler>> /\ admin[r].pc = "commit"
      /\ answer = "SUCCESS" => payout[r] = "SUCCESS"
  BY DEF CommitRefund
<1>2. refund \in [Refunds -> RefundRow] /\ admin \in [Refunds -> AdminRow] /\ downgraded \in BOOLEAN
  BY DEF RefundInv, RefundTypeOK
<1>3. /\ ~refund[r].linked /\ refund[r].status = "PROCESSING" /\ refund[r].note = "none"
      /\ refund[r].amount = admin[r].amount /\ payout[r] # "none"
  BY <1>1, <1>2 DEF RefundInv, RowsFollow, RowFollows, RefundRow
<1>4. CASE Suffers("database") /\ Proceed(r, "fail") /\ UNCHANGED <<refund, downgraded>>
  <2>1. [admin[r] EXCEPT !.pc = "fail"] \in AdminRow
    BY <1>2 DEF AdminRow
  <2>2. admin' \in [Refunds -> AdminRow]
        /\ \A q \in Refunds : /\ q # r => admin'[q] = admin[q]
                              /\ q = r => admin'[q].pc = "fail" /\ admin'[q].amount = admin[q].amount
    BY <1>2, <1>4, <2>1 DEF Proceed, AdminRow
  <2>3. RefundTypeOK'
    BY <1>1, <1>4, <2>2 DEF RefundInv, RefundTypeOK
  <2>4. RowsFollow'
    <3>1. ASSUME NEW q \in Refunds, q # r PROVE RowFollows(q)'
      BY <1>1, <1>4, <2>2, <3>1 DEF RefundInv, RowsFollow, RowFollows
    <3>2. RowFollows(r)'
      BY <1>1, <1>3, <1>4, <2>2 DEF RowFollows, Suffers
    <3>3. QED
      BY <3>1, <3>2 DEF RowsFollow
  <2>5. ReportsHold'
    BY <1>1, <1>4 DEF RefundInv, ReportsHold, ReportHolds
  <2>6. PaidOut'
    BY <1>1, <1>4 DEF RefundInv, PaidOut, AmountOf, AtCashfree
  <2>7. ScansBounded'
    BY <1>1, <1>4, SameScans
  <2>8. QED
    BY <2>3, <2>4, <2>5, <2>6, <2>7 DEF RefundInv
<1>5. CASE /\ refund' = [refund EXCEPT ![r].status = Normalized(answer), ![r].linked = TRUE,
                                       ![r].note = "ISSUED"]
           /\ downgraded' = (downgraded \/ admin[r].full) /\ Answer(r)
  <2>1. PICK status \in {"PROCESSING", "PROCESSED"} :
            status = Normalized(answer) /\ (status = "PROCESSED" => payout[r] = "SUCCESS")
    BY <1>1 DEF Normalized
  <2>2. PICK entry : entry = [refund[r] EXCEPT !.status = status, !.linked = TRUE, !.note = "ISSUED"]
    OBVIOUS
  <2>3. /\ entry \in RefundRow /\ entry.status = status /\ entry.linked /\ entry.note = "ISSUED"
        /\ entry.amount = refund[r].amount /\ entry.scans = refund[r].scans
    BY <1>2, <2>1, <2>2 DEF RefundRow, RefundStatus
  <2>4. refund' \in [Refunds -> RefundRow]
        /\ \A q \in Refunds : refund'[q] = IF q = r THEN entry ELSE refund[q]
    BY <1>2, <1>5, <2>1, <2>2, <2>3
  <2>5. admin' \in [Refunds -> AdminRow]
        /\ \A q \in Refunds : /\ q # r => admin'[q] = admin[q]
                              /\ q = r => admin'[q].pc = "idle"
    BY <1>2, <1>5, NoneRows DEF Answer
  <2>6. RefundTypeOK'
    <3>1. admin[r].full \in BOOLEAN
      BY <1>2 DEF AdminRow
    <3>2. downgraded' \in BOOLEAN
      BY <1>5
    <3>3. QED
      BY <1>1, <2>4, <2>5, <3>2 DEF RefundInv, RefundTypeOK
  <2>7. RowsFollow'
    <3>1. ASSUME NEW q \in Refunds, q # r PROVE RowFollows(q)'
      BY <1>1, <2>4, <2>5, <3>1 DEF RefundInv, RowsFollow, RowFollows
    <3>2. RowFollows(r)'
      BY <1>1, <1>3, <2>1, <2>3, <2>4, <2>5 DEF RowFollows
    <3>3. QED
      BY <3>1, <3>2 DEF RowsFollow
  <2>8. ReportsHold'
    BY <1>1, <2>3, <2>4 DEF RefundInv, ReportsHold, ReportHolds
  <2>9. PaidOut'
    BY <1>1, <2>3, <2>4, SameMoney DEF AtCashfree
  <2>10. ScansBounded'
    BY <1>1, <2>3, <2>4, SameScans
  <2>11. QED
    BY <2>6, <2>7, <2>8, <2>9, <2>10 DEF RefundInv
<1>6. QED
  BY <1>4, <1>5 DEF CommitRefund

LEMMA RefundByFail ==
    ASSUME RefundInv, NEW r \in Refunds, FailRefund(r)
    PROVE  RefundInv'
<1>1. /\ UNCHANGED <<refundEnv, downgraded, payout, handler>> /\ admin[r].pc = "fail"
      /\ refund' = [refund EXCEPT ![r].status = "FAILED"] /\ admin' = [admin EXCEPT ![r] = NoAdmin]
  BY DEF FailRefund, Answer
<1>2. refund \in [Refunds -> RefundRow] /\ admin \in [Refunds -> AdminRow]
  BY DEF RefundInv, RefundTypeOK
<1>3. /\ ~refund[r].linked /\ refund[r].note = "none"
      /\ payout[r] = "none" \/ refundEnv \cap {"timeout", "database"} # {}
  BY <1>1, <1>2 DEF RefundInv, RowsFollow, RowFollows, RefundRow
<1>4. PICK entry : entry = [refund[r] EXCEPT !.status = "FAILED"]
  OBVIOUS
<1>5. /\ entry \in RefundRow /\ entry.status = "FAILED" /\ entry.linked = refund[r].linked
      /\ entry.note = refund[r].note /\ entry.amount = refund[r].amount /\ entry.scans = refund[r].scans
  BY <1>2, <1>4 DEF RefundRow, RefundStatus
<1>6. refund' \in [Refunds -> RefundRow]
      /\ \A q \in Refunds : refund'[q] = IF q = r THEN entry ELSE refund[q]
  BY <1>1, <1>2, <1>4, <1>5
<1>7. admin' \in [Refunds -> AdminRow]
      /\ \A q \in Refunds : /\ q # r => admin'[q] = admin[q]
                            /\ q = r => admin'[q].pc = "idle"
  BY <1>1, <1>2, NoneRows
<1>8. RefundTypeOK'
  BY <1>1, <1>6, <1>7 DEF RefundInv, RefundTypeOK
<1>9. RowsFollow'
  <2>1. ASSUME NEW q \in Refunds, q # r PROVE RowFollows(q)'
    BY <1>1, <1>6, <1>7, <2>1 DEF RefundInv, RowsFollow, RowFollows
  <2>2. RowFollows(r)'
    BY <1>1, <1>3, <1>5, <1>6, <1>7 DEF RowFollows
  <2>3. QED
    BY <2>1, <2>2 DEF RowsFollow
<1>10. ReportsHold'
  BY <1>1, <1>5, <1>6 DEF RefundInv, ReportsHold, ReportHolds
<1>11. PaidOut'
  BY <1>1, <1>5, <1>6, SameMoney DEF AtCashfree
<1>12. ScansBounded'
  BY <1>1, <1>5, <1>6, SameScans
<1>13. QED
  BY <1>8, <1>9, <1>10, <1>11, <1>12 DEF RefundInv

LEMMA RefundByDecision ==
    ASSUME RefundInv, NEW r \in Refunds, DecideRefund(r)
    PROVE  RefundInv'
<1>1. UNCHANGED <<refundEnv, refund, downgraded, admin, handler>> /\ payout[r] = "PENDING"
  BY DEF DecideRefund
<1>2. PICK decision \in {"SUCCESS", "FAILED"} : payout' = [payout EXCEPT ![r] = decision]
  BY DEF DecideRefund
<1>3. payout \in [Refunds -> {"none", "PENDING", "SUCCESS", "FAILED"}]
  BY DEF RefundInv, RefundTypeOK
<1>4. /\ payout' \in [Refunds -> {"none", "PENDING", "SUCCESS", "FAILED"}]
      /\ \A q \in Refunds : payout'[q] = IF q = r THEN decision ELSE payout[q]
  BY <1>2, <1>3
<1>5. RefundTypeOK'
  BY <1>1, <1>4 DEF RefundInv, RefundTypeOK
<1>6. RowsFollow'
  BY <1>1, <1>4 DEF RefundInv, RowsFollow, RowFollows
<1>7. ReportsHold'
  BY <1>1, <1>4 DEF RefundInv, ReportsHold, ReportHolds
<1>8. PaidOut'
  <2>1. AtCashfree' \subseteq AtCashfree
    BY <1>1, <1>4 DEF AtCashfree
  <2>2. refund' \in [Refunds -> RefundRow]
    BY <1>1 DEF RefundInv, RefundTypeOK
  <2>3. QED
    BY <1>1, <2>1, <2>2, SameMoney
<1>9. ScansBounded'
  BY <1>1, SameScans
<1>10. QED
  BY <1>5, <1>6, <1>7, <1>8, <1>9 DEF RefundInv

\* What becomes of a handler's row.
LEMMA HandlerMoves ==
    ASSUME RefundInv, NEW h \in Handlers, NEW entry \in HandlerRow,
           handler' = [handler EXCEPT ![h] = entry],
           UNCHANGED <<refundEnv, downgraded, payout, admin>>,
           refund' \in [Refunds -> RefundRow],
           \A r \in Refunds : /\ refund'[r].linked = refund[r].linked
                              /\ refund'[r].amount = refund[r].amount,
           entry.pc # "idle" =>
               /\ entry.of \in Refunds /\ refund[entry.of].linked /\ entry.says # "NONE"
               /\ entry.says = "PROCESSED" => payout[entry.of] = "SUCCESS"
               /\ entry.says = "FAILED" => payout[entry.of] = "FAILED"
               /\ entry.pc = "write" => entry.noted
               /\ entry.pc = "void" => entry.says = "FAILED"
    PROVE  /\ RefundTypeOK' /\ ReportsHold' /\ PaidOut'
           /\ \A g \in Handlers : handler'[g] = IF g = h THEN entry ELSE handler[g]
<1>1. handler \in [Handlers -> HandlerRow]
  BY DEF RefundInv, RefundTypeOK
<1>2. /\ handler' \in [Handlers -> HandlerRow]
      /\ \A g \in Handlers : handler'[g] = IF g = h THEN entry ELSE handler[g]
  BY <1>1
<1>3. RefundTypeOK'
  BY <1>2 DEF RefundInv, RefundTypeOK
<1>4. ReportsHold'
  BY <1>2 DEF RefundInv, ReportsHold, ReportHolds
<1>5. PaidOut'
  BY SameMoney DEF AtCashfree
<1>6. QED
  BY <1>2, <1>3, <1>4, <1>5

\* A handler that only looks does not touch the rows.
LEMMA RowsStay ==
    ASSUME RefundInv, NEW h \in Handlers, UNCHANGED <<refundEnv, refund, payout, admin>>,
           \A g \in Handlers : g # h => handler'[g] = handler[g],
           handler[h].pc # "void" \/ refundEnv \cap {"database", "crash"} # {}
    PROVE  RowsFollow'
BY DEF RefundInv, RowsFollow, RowFollows

LEMMA RefundByReport ==
    ASSUME RefundInv, NEW h \in Handlers, NEW r \in Refunds,
           NEW status \in {"none", "PENDING", "SUCCESS", "FAILED"}, NEW stage \in {"count", "read"},
           handler[h] = NoHandler, refund[r].linked, Begin(h, stage, r, status),
           status \in {payout[r], "PENDING"},
           stage = "count" => refund[r].scans < MaxReconciliations,
           UNCHANGED <<refundEnv, refund, downgraded, payout, admin>>
    PROVE  RefundInv'
<1>1. PICK says \in {"PROCESSED", "FAILED", "PROCESSING"} :
          /\ says = Normalized(status)
          /\ says = "PROCESSED" => status = "SUCCESS"
          /\ says = "FAILED" => status = "FAILED"
  BY DEF Normalized
<1>2. PICK entry \in HandlerRow : entry = [pc |-> stage, of |-> r, says |-> says, noted |-> FALSE]
  BY DEF HandlerRow, RefundStatus
<1>3. entry.pc = stage /\ entry.of = r /\ entry.says = says
  BY <1>2
<1>4. handler' = [handler EXCEPT ![h] = entry]
  BY <1>1, <1>2 DEF Begin
<1>5. refund' \in [Refunds -> RefundRow] /\ handler[h].pc = "idle"
  BY NoneRows DEF RefundInv, RefundTypeOK
<1>6. /\ RefundTypeOK' /\ ReportsHold' /\ PaidOut'
      /\ \A g \in Handlers : handler'[g] = IF g = h THEN entry ELSE handler[g]
  BY <1>1, <1>3, <1>4, <1>5, HandlerMoves
<1>7. RowsFollow'
  BY <1>5, <1>6, RowsStay
<1>8. ScansBounded'
  <2>1. CASE stage = "read"
    BY <1>3, <1>6, <2>1, SameScans
  <2>2. CASE stage = "count"
    <3> SUFFICES ASSUME NEW q \in Refunds
                 PROVE  refund'[q].scans + Cardinality(Counters(q)')
                            <= MaxReconciliations + Cardinality(Handlers)
      BY DEF ScansBounded
    <3>1. CASE q # r
      <4>1. Counters(q)' = Counters(q)
        BY <1>3, <1>5, <1>6, <3>1 DEF Counters
      <4>2. QED
        BY <4>1 DEF RefundInv, ScansBounded
    <3>2. CASE q = r
      <4>1. PICK T : T = Counters(q)'
        OBVIOUS
      <4>2. T \subseteq Handlers
        BY <4>1 DEF Counters
      <4>3. Cardinality(T) <= Cardinality(Handlers) /\ Cardinality(T) \in Nat
            /\ Cardinality(Handlers) \in Nat
        BY <4>2, RefundAssumption, FS_Subset, FS_CardinalityType
      <4>4. refund[r].scans \in Nat /\ refund[r].scans <= MaxReconciliations
        BY <2>2, ScansType, RefundAssumption DEF RefundInv
      <4>5. QED
        BY <3>2, <4>1, <4>3, <4>4, RefundAssumption
    <3>3. QED
      BY <3>1, <3>2
  <2>3. QED
    BY <2>1, <2>2
<1>9. QED
  BY <1>6, <1>7, <1>8 DEF RefundInv

LEMMA RefundByTake ==
    ASSUME RefundInv, NEW h \in Handlers, NEW r \in Refunds,
           NEW status \in {"PENDING", "SUCCESS", "FAILED"}, TakeWebhook(h, r, status)
    PROVE  RefundInv'
BY RefundByReport DEF TakeWebhook

LEMMA RefundByScan ==
    ASSUME RefundInv, NEW h \in Handlers, NEW r \in Refunds, Scan(h, r)
    PROVE  RefundInv'
<1>1. payout[r] \in {"none", "PENDING", "SUCCESS", "FAILED"}
  BY DEF RefundInv, RefundTypeOK
<1>2. QED
  BY <1>1, RefundByReport DEF Scan

LEMMA RefundByCount ==
    ASSUME RefundInv, NEW h \in Handlers, CountScan(h)
    PROVE  RefundInv'
<1>1. /\ handler[h].pc = "count" /\ UNCHANGED <<refundEnv, downgraded, payout, admin>>
      /\ handler[h] \in HandlerRow /\ refund \in [Refunds -> RefundRow]
  BY RefundRowTypes DEF CountScan, RefundInv, RefundTypeOK
<1>2. PICK r \in Refunds : r = handler[h].of /\ refund[r].linked
  BY <1>1 DEF RefundInv, ReportsHold, ReportHolds
<1>3. PICK entry \in {NoHandler, [handler[h] EXCEPT !.pc = "read"]} :
          handler' = [handler EXCEPT ![h] = entry]
  BY DEF CountScan, Follow, Leave, RefundInv, RefundTypeOK
<1>4. /\ entry \in HandlerRow
      /\ \/ entry.pc = "idle"
         \/ entry.pc = "read" /\ entry.of = r /\ entry.says = handler[h].says
  BY <1>1, <1>2, <1>3, NoneRows DEF HandlerRow
<1>5. handler' = [handler EXCEPT ![h] = entry]
  BY <1>3
<1>6. refund[r].scans \in Nat
  BY ScansType DEF RefundInv
<1>7. PICK n \in Nat : n = refund[r].scans + 1
  BY <1>6
<1>8. PICK new : new = [refund[r] EXCEPT !.scans = n]
  OBVIOUS
<1>9. /\ refund[r].scans + Cardinality(Counters(r)) <= MaxReconciliations + Cardinality(Handlers)
      /\ h \in Counters(r)
  BY <1>1, <1>2 DEF RefundInv, ScansBounded, Counters
<1>10. n <= MaxReconciliations + Cardinality(Handlers)
  <2>1. IsFiniteSet(Counters(r)) /\ Cardinality(Counters(r)) \in Nat /\ Cardinality(Handlers) \in Nat
    BY CountersFinite
  <2>2. Cardinality(Counters(r)) # 0
    BY <1>9, <2>1, FS_EmptySet
  <2>3. QED
    BY <1>6, <1>7, <1>9, <2>1, <2>2, RefundAssumption
<1>11. PICK top \in Nat : top = MaxReconciliations + Cardinality(Handlers)
  BY CountersFinite, RefundAssumption
<1>12. new \in RefundRow /\ new.scans = n
  <2>1. n \in 0 .. top
    BY <1>10, <1>11
  <2>2. refund[r] \in [status : RefundStatus, amount : Amounts \cup {0}, linked : BOOLEAN,
                       note : {"none", "ISSUED", "VOID"}, scans : 0 .. top]
    BY <1>1, <1>11 DEF RefundRow
  <2>3. new \in [status : RefundStatus, amount : Amounts \cup {0}, linked : BOOLEAN,
                 note : {"none", "ISSUED", "VOID"}, scans : 0 .. top] /\ new.scans = n
    BY <1>8, <2>1, <2>2
  <2>4. QED
    BY <1>11, <2>3 DEF RefundRow
<1>13. /\ new.status = refund[r].status /\ new.amount = refund[r].amount
       /\ new.linked = refund[r].linked /\ new.note = refund[r].note
  BY <1>1, <1>8 DEF RefundRow
<1>14. refund' \in [Refunds -> RefundRow]
       /\ \A q \in Refunds : refund'[q] = IF q = r THEN new ELSE refund[q]
  <2>1. refund' = [refund EXCEPT ![r].scans = refund[r].scans + 1]
    BY <1>2 DEF CountScan
  <2>2. QED
    BY <1>1, <1>7, <1>8, <1>12, <2>1
<1>15. /\ RefundTypeOK' /\ ReportsHold' /\ PaidOut'
       /\ \A g \in Handlers : handler'[g] = IF g = h THEN entry ELSE handler[g]
  <2>1. entry.pc # "idle" =>
            /\ entry.of \in Refunds /\ refund[entry.of].linked /\ entry.says # "NONE"
            /\ entry.says = "PROCESSED" => payout[entry.of] = "SUCCESS"
            /\ entry.says = "FAILED" => payout[entry.of] = "FAILED"
    BY <1>1, <1>2, <1>4 DEF RefundInv, ReportsHold, ReportHolds
  <2>2. \A q \in Refunds : /\ refund'[q].linked = refund[q].linked
                          /\ refund'[q].amount = refund[q].amount
    BY <1>13, <1>14
  <2>3. /\ entry.pc = "write" => entry.noted
        /\ entry.pc = "void" => entry.says = "FAILED"
    BY <1>4
  <2>4. QED
    BY <1>1, <1>4, <1>5, <1>14, <2>1, <2>2, <2>3, HandlerMoves
<1>16. RowsFollow'
  BY <1>1, <1>4, <1>13, <1>14, <1>15 DEF RefundInv, RowsFollow, RowFollows
<1>17. ScansBounded'
  <2> SUFFICES ASSUME NEW q \in Refunds
               PROVE  refund'[q].scans + Cardinality(Counters(q)')
                          <= MaxReconciliations + Cardinality(Handlers)
    BY DEF ScansBounded
  <2>1. CASE q # r
    <3>1. Counters(q)' = Counters(q)
      BY <1>1, <1>2, <1>4, <1>15, <2>1 DEF Counters
    <3>2. QED
      BY <1>14, <2>1, <3>1 DEF RefundInv, ScansBounded
  <2>2. CASE q = r
    <3>1. PICK S, T : S = Counters(q) /\ T = Counters(q)'
      OBVIOUS
    <3>2. T = S \ {h} /\ h \in S /\ IsFiniteSet(S)
      BY <1>4, <1>9, <1>15, <2>2, <3>1, CountersFinite DEF Counters
    <3>3. Cardinality(T) = Cardinality(S) - 1 /\ Cardinality(S) \in Nat
      BY <3>2, FS_RemoveElement, FS_CardinalityType
    <3>4. refund'[q].scans = refund[q].scans + 1
      BY <1>7, <1>12, <1>14, <2>2
    <3>5. QED
      BY <1>6, <1>9, <1>11, <2>2, <3>1, <3>3, <3>4
  <2>3. QED
    BY <2>1, <2>2
<1>18. QED
  BY <1>15, <1>16, <1>17 DEF RefundInv

LEMMA RefundByRow ==
    ASSUME RefundInv, NEW h \in Handlers, ReadRefund(h)
    PROVE  RefundInv'
<1>1. /\ handler[h].pc = "read" /\ UNCHANGED <<refundEnv, refund, downgraded, payout, admin>>
      /\ handler[h] \in HandlerRow /\ refund \in [Refunds -> RefundRow]
      /\ handler \in [Handlers -> HandlerRow]
  BY RefundRowTypes DEF ReadRefund, RefundInv, RefundTypeOK
<1>2. PICK r \in Refunds : /\ r = handler[h].of /\ refund[r].linked /\ refund[r].note # "none"
                           /\ handler[h].says # "NONE"
                           /\ handler[h].says = "PROCESSED" => payout[r] = "SUCCESS"
                           /\ handler[h].says = "FAILED" => payout[r] = "FAILED"
  BY <1>1 DEF RefundInv, ReportsHold, ReportHolds, RowsFollow, RowFollows
<1>3. PICK entry \in HandlerRow :
          /\ handler' = [handler EXCEPT ![h] = entry]
          /\ \/ entry.pc = "idle"
             \/ entry.pc = "write" /\ entry.noted /\ entry.of = r /\ entry.says = handler[h].says
  <2>1. CASE Leave(h)
    BY <2>1, NoneRows DEF Leave
  <2>2. CASE handler' = [handler EXCEPT ![h].pc = "write", ![h].noted = refund[r].note # "none"]
    <3>1. PICK entry : entry = [handler[h] EXCEPT !.pc = "write", !.noted = TRUE]
      OBVIOUS
    <3>2. /\ entry \in HandlerRow /\ entry.pc = "write" /\ entry.of = r /\ entry.says = handler[h].says
          /\ entry.noted
      BY <1>1, <1>2, <3>1 DEF HandlerRow
    <3>3. (refund[r].note # "none") = TRUE
      BY <1>2
    <3>4. handler' = [handler EXCEPT ![h] = entry]
      BY <1>1, <2>2, <3>1, <3>3
    <3>5. QED
      BY <3>2, <3>4
  <2>3. QED
    BY <1>2, <2>1, <2>2 DEF ReadRefund
<1>4. /\ RefundTypeOK' /\ ReportsHold' /\ PaidOut'
      /\ \A g \in Handlers : handler'[g] = IF g = h THEN entry ELSE handler[g]
  BY <1>1, <1>2, <1>3, HandlerMoves
<1>5. RowsFollow'
  BY <1>1, <1>4, RowsStay
<1>6. ScansBounded'
  BY <1>1, <1>3, <1>4, SameScans
<1>7. QED
  BY <1>4, <1>5, <1>6 DEF RefundInv

LEMMA RefundByWrite ==
    ASSUME RefundInv, NEW h \in Handlers, WriteStatus(h)
    PROVE  RefundInv'
<1>1. /\ handler[h].pc = "write" /\ UNCHANGED <<refundEnv, downgraded, payout, admin>>
      /\ handler[h] \in HandlerRow /\ refund \in [Refunds -> RefundRow]
      /\ handler \in [Handlers -> HandlerRow]
  BY RefundRowTypes DEF WriteStatus, RefundInv, RefundTypeOK
<1>2. PICK r \in Refunds : r = handler[h].of /\ refund[r].linked
  BY <1>1 DEF RefundInv, ReportsHold, ReportHolds
<1>3. PICK says \in RefundStatus : says = handler[h].says
  BY <1>1 DEF HandlerRow
<1>4. /\ says # "NONE" /\ handler[h].noted /\ payout[r] # "none"
      /\ says = "PROCESSED" => payout[r] = "SUCCESS"
      /\ says = "FAILED" => payout[r] = "FAILED"
  BY <1>1, <1>2, <1>3 DEF RefundInv, ReportsHold, ReportHolds, RowsFollow, RowFollows
<1>5. PICK new : new = [refund[r] EXCEPT !.status = says]
  OBVIOUS
<1>6. /\ new \in RefundRow /\ new.status = says /\ new.linked = refund[r].linked
      /\ new.note = refund[r].note /\ new.amount = refund[r].amount /\ new.scans = refund[r].scans
  BY <1>1, <1>3, <1>5 DEF RefundRow
<1>7. refund' \in [Refunds -> RefundRow]
      /\ \A q \in Refunds : refund'[q] = IF q = r THEN new ELSE refund[q]
  BY <1>1, <1>2, <1>3, <1>5, <1>6 DEF WriteStatus
<1>8. PICK entry \in HandlerRow :
          /\ handler' = [handler EXCEPT ![h] = entry]
          /\ \/ entry.pc = "idle" /\ says # "FAILED"
             \/ entry.pc = "void" /\ entry.of = r /\ entry.says = says /\ says = "FAILED"
  <2>1. CASE Leave(h) /\ says # "FAILED"
    BY <2>1, NoneRows DEF Leave
  <2>2. CASE Follow(h, "void") /\ says = "FAILED"
    <3>1. PICK entry : entry = [handler[h] EXCEPT !.pc = "void"]
      OBVIOUS
    <3>2. entry \in HandlerRow /\ entry.pc = "void" /\ entry.of = r /\ entry.says = says
      BY <1>1, <1>2, <1>3, <3>1 DEF HandlerRow
    <3>3. handler' = [handler EXCEPT ![h] = entry]
      BY <1>1, <2>2, <3>1 DEF Follow
    <3>4. QED
      BY <2>2, <3>2, <3>3
  <2>3. QED
    BY <1>3, <1>4, <2>1, <2>2 DEF WriteStatus
<1>9. /\ RefundTypeOK' /\ ReportsHold' /\ PaidOut'
      /\ \A g \in Handlers : handler'[g] = IF g = h THEN entry ELSE handler[g]
  <2>1. \A q \in Refunds : /\ refund'[q].linked = refund[q].linked
                          /\ refund'[q].amount = refund[q].amount
    BY <1>6, <1>7
  <2>2. QED
    BY <1>1, <1>2, <1>4, <1>7, <1>8, <2>1, HandlerMoves
<1>10. RowsFollow'
  <2>1. ASSUME NEW q \in Refunds, q # r PROVE RowFollows(q)'
    BY <1>1, <1>7, <1>9, <2>1 DEF RefundInv, RowsFollow, RowFollows
  <2>2. RowFollows(r)'
    <3>1. admin[r].pc \notin {"create", "ask", "commit", "fail"}
      BY <1>2 DEF RefundInv, RowsFollow, RowFollows
    <3>2. refund[r].note # "none" /\ (refund[r].note = "VOID" => payout[r] = "FAILED")
      BY <1>2 DEF RefundInv, RowsFollow, RowFollows
    <3>3. says = "FAILED" => handler'[h].pc = "void" /\ handler'[h].of = r
      BY <1>8, <1>9
    <3>4. QED
      BY <1>1, <1>2, <1>4, <1>6, <1>7, <3>1, <3>2, <3>3 DEF RowFollows
  <2>3. QED
    BY <2>1, <2>2 DEF RowsFollow
<1>11. ScansBounded'
  BY <1>6, <1>7, <1>8, <1>9, SameScans
<1>12. QED
  BY <1>9, <1>10, <1>11 DEF RefundInv

LEMMA RefundByVoid ==
    ASSUME RefundInv, NEW h \in Handlers, VoidNote(h)
    PROVE  RefundInv'
<1>1. /\ handler[h].pc = "void" /\ UNCHANGED <<refundEnv, downgraded, payout, admin>>
      /\ handler[h] \in HandlerRow /\ refund \in [Refunds -> RefundRow]
      /\ handler' = [handler EXCEPT ![h] = NoHandler]
  BY RefundRowTypes DEF VoidNote, Leave, RefundInv, RefundTypeOK
<1>2. PICK r \in Refunds : r = handler[h].of /\ refund[r].linked /\ payout[r] = "FAILED"
  BY <1>1 DEF RefundInv, ReportsHold, ReportHolds
<1>3. PICK new : new = [refund[r] EXCEPT !.note = "VOID"]
  OBVIOUS
<1>4. /\ new \in RefundRow /\ new.status = refund[r].status /\ new.linked = refund[r].linked
      /\ new.note = "VOID" /\ new.amount = refund[r].amount /\ new.scans = refund[r].scans
  BY <1>1, <1>3 DEF RefundRow
<1>5. refund' \in [Refunds -> RefundRow]
      /\ \A q \in Refunds : refund'[q] = IF q = r THEN new ELSE refund[q]
  BY <1>1, <1>2, <1>3, <1>4 DEF VoidNote
<1>6. /\ RefundTypeOK' /\ ReportsHold' /\ PaidOut'
      /\ \A g \in Handlers : handler'[g] = IF g = h THEN NoHandler ELSE handler[g]
  <2>1. \A q \in Refunds : /\ refund'[q].linked = refund[q].linked
                          /\ refund'[q].amount = refund[q].amount
    BY <1>4, <1>5
  <2>2. QED
    BY <1>1, <1>5, <2>1, NoneRows, HandlerMoves
<1>7. RowsFollow'
  <2>1. ASSUME NEW q \in Refunds, q # r PROVE RowFollows(q)'
    BY <1>1, <1>2, <1>5, <1>6, <2>1 DEF RefundInv, RowsFollow, RowFollows
  <2>2. RowFollows(r)'
    <3>1. admin[r].pc \notin {"create", "ask", "commit", "fail"} /\ refund[r].status # "PROCESSED"
          /\ refund[r].status # "NONE"
      BY <1>2 DEF RefundInv, RowsFollow, RowFollows
    <3>2. refund'[r] = new /\ payout'[r] = "FAILED" /\ admin'[r] = admin[r]
      BY <1>1, <1>2, <1>5
    <3>3. QED
      BY <1>2, <1>4, <3>1, <3>2 DEF RowFollows
  <2>3. QED
    BY <2>1, <2>2 DEF RowsFollow
<1>8. ScansBounded'
  BY <1>4, <1>5, <1>6, NoneRows, SameScans
<1>9. QED
  BY <1>6, <1>7, <1>8 DEF RefundInv

LEMMA RefundByDeath ==
    ASSUME RefundInv, RefundProcessDies
    PROVE  RefundInv'
<1>1. UNCHANGED <<refundEnv, refund, downgraded, payout>> /\ refundEnv \cap {"database", "crash"} # {}
  BY DEF RefundProcessDies, Suffers
<1>2. ASSUME NEW r \in Refunds, Answer(r), UNCHANGED handler PROVE RefundInv'
  <2>1. /\ admin' \in [Refunds -> AdminRow]
        /\ \A q \in Refunds : q # r => admin'[q] = admin[q]
        /\ admin'[r].pc = "idle"
    BY <1>2, NoneRows DEF Answer, RefundInv, RefundTypeOK
  <2>2. RefundTypeOK'
    BY <1>1, <1>2, <2>1 DEF RefundInv, RefundTypeOK
  <2>3. RowsFollow'
    <3>1. ASSUME NEW q \in Refunds, q # r PROVE RowFollows(q)'
      BY <1>1, <1>2, <2>1, <3>1 DEF RefundInv, RowsFollow, RowFollows
    <3>2. RowFollows(r)'
      <4>1. RowFollows(r)
        BY DEF RefundInv, RowsFollow
      <4>2. UNCHANGED <<refundEnv, refund, payout, handler>> /\ admin'[r].pc = "idle"
        BY <1>1, <1>2, <2>1
      <4>3. QED
        BY <4>1, <4>2 DEF RowFollows
    <3>3. QED
      BY <3>1, <3>2 DEF RowsFollow
  <2>4. ReportsHold'
    BY <1>1, <1>2 DEF RefundInv, ReportsHold, ReportHolds
  <2>5. PaidOut'
    BY <1>1 DEF RefundInv, PaidOut, AmountOf, AtCashfree
  <2>6. ScansBounded'
    BY <1>1, <1>2, SameScans
  <2>7. QED
    BY <2>2, <2>3, <2>4, <2>5, <2>6 DEF RefundInv
<1>3. ASSUME NEW h \in Handlers, Leave(h), UNCHANGED admin PROVE RefundInv'
  <2>1. refund' \in [Refunds -> RefundRow]
    BY <1>1 DEF RefundInv, RefundTypeOK
  <2>2. /\ RefundTypeOK' /\ ReportsHold' /\ PaidOut'
        /\ \A g \in Handlers : handler'[g] = IF g = h THEN NoHandler ELSE handler[g]
    BY <1>1, <1>3, <2>1, NoneRows, HandlerMoves DEF Leave
  <2>3. RowsFollow'
    BY <1>1, <1>3, <2>2, RowsStay
  <2>4. ScansBounded'
    BY <1>1, <2>2, NoneRows, SameScans
  <2>5. QED
    BY <2>2, <2>3, <2>4 DEF RefundInv
<1>4. QED
  BY <1>2, <1>3 DEF RefundProcessDies

LEMMA RefundStep == RefundInv /\ [RefundNext]_refundVars => RefundInv'
<1> SUFFICES ASSUME RefundInv, [RefundNext]_refundVars PROVE RefundInv'
  OBVIOUS
<1>1. CASE UNCHANGED refundVars
  <2>1. UNCHANGED <<refundEnv, refund, downgraded, payout, admin, handler>>
    BY <1>1 DEF refundVars
  <2>2. RefundTypeOK' /\ RowsFollow' /\ ReportsHold'
    BY <2>1 DEF RefundInv, RefundTypeOK, RowsFollow, RowFollows, ReportsHold, ReportHolds
  <2>3. PaidOut' /\ ScansBounded'
    BY <2>1 DEF RefundInv, PaidOut, AmountOf, AtCashfree, ScansBounded, Counters
  <2>4. QED
    BY <2>2, <2>3 DEF RefundInv
<1>2. CASE RefundNext
  BY <1>2, RefundByRead, RefundByCreate, RefundByAsk, RefundByCommit, RefundByFail,
     RefundByDecision, RefundByTake, RefundByScan, RefundByCount, RefundByRow, RefundByWrite,
     RefundByVoid, RefundByDeath DEF RefundNext
<1>3. QED
  BY <1>1, <1>2

LEMMA RefundStart == RefundInit => RefundInv
<1> SUFFICES ASSUME RefundInit PROVE RefundInv
  OBVIOUS
<1>1. /\ refundEnv \in RefundEnvironments /\ refund = [r \in Refunds |-> NoRow]
      /\ downgraded = FALSE /\ payout = [r \in Refunds |-> "none"]
      /\ admin = [r \in Refunds |-> NoAdmin] /\ handler = [h \in Handlers |-> NoHandler]
  BY DEF RefundInit
<1>2. RefundTypeOK
  BY <1>1, NoneRows DEF RefundTypeOK
<1>3. RowsFollow /\ ReportsHold
  BY <1>1, NoneRows DEF RowsFollow, RowFollows, ReportsHold, ReportHolds, NoRow
<1>4. PaidOut
  <2>1. AtCashfree = {}
    BY <1>1 DEF AtCashfree
  <2>2. PICK f : f = [r \in Refunds |-> refund[r].amount]
    OBVIOUS
  <2>3. f \in [Refunds -> Nat]
    BY <1>1, <2>2, NoneRows, AmountType
  <2>4. SumFunctionOnSet(f, {}) = 0
    BY <2>3, SumEmpty
  <2>5. QED
    BY <2>1, <2>2, <2>4, RefundAssumption DEF PaidOut, AmountOf
<1>5. ScansBounded
  <2>1. \A r \in Refunds : refund[r].scans = 0 /\ Counters(r) = {}
    BY <1>1, NoneRows DEF Counters, NoRow
  <2>2. QED
    BY <2>1, FS_EmptySet, CountersFinite, RefundAssumption DEF ScansBounded
<1>6. QED
  BY <1>2, <1>3, <1>4, <1>5 DEF RefundInv

LEMMA BooksInvariant == RefundInv => BooksFollowMoney
<1> SUFFICES ASSUME RefundInv PROVE BooksFollowMoney
  OBVIOUS
<1>1. AmountOf(Processed) <= InvoiceTotal
  <2>1. PICK S, T : S = Processed /\ T = AtCashfree
    OBVIOUS
  <2>2. S \subseteq T /\ T \subseteq Refunds /\ IsFiniteSet(T) /\ IsFiniteSet(S)
    BY <2>1, RefundAssumption, FS_Subset
    DEF Processed, AtCashfree, RefundInv, RowsFollow, RowFollows
  <2>3. PICK f : f = [r \in Refunds |-> refund[r].amount]
    OBVIOUS
  <2>4. f \in [Refunds -> Nat]
    BY <2>3, AmountType DEF RefundInv, RefundTypeOK
  <2>5. SumFunctionOnSet(f, S) <= SumFunctionOnSet(f, T)
    BY <2>2, <2>4, SumOfPart
  <2>6. SumFunctionOnSet(f, S) \in Nat /\ SumFunctionOnSet(f, T) \in Nat
    BY <2>2, <2>4, SumType
  <2>7. SumFunctionOnSet(f, T) <= InvoiceTotal
    BY <2>1, <2>3 DEF RefundInv, PaidOut, AmountOf
  <2>8. QED
    BY <2>1, <2>3, <2>5, <2>6, <2>7, RefundAssumption DEF AmountOf
<1>2. BookedAsPaidOut
  BY <1>1 DEF BookedAsPaidOut, RefundInv, RowsFollow, RowFollows, AtCashfree
<1>3. NoteFollowsMoney
  BY DEF NoteFollowsMoney, RefundInv, RowsFollow, RowFollows
<1>4. QED
  BY <1>2, <1>3 DEF BooksFollowMoney

\* The rows of refunds, of those who ask for them and of those who follow them,
\* with the number of scans of a refund: a scan that was allowed may be counted
\* late, but each handler counts one.
THEOREM RefundTypes == RefundSpec => []RefundTypeOK
<1>1. RefundInv => RefundTypeOK
  BY DEF RefundInv
<1>2. QED
  BY <1>1, RefundStart, RefundStep, PTL DEF RefundSpec

\* The books follow the money, for any number of refunds, admins and handlers.
THEOREM RefundBooks == RefundSpec => []BooksFollowMoney
BY BooksInvariant, RefundStart, RefundStep, PTL DEF RefundSpec

-----------------------------------------------------------------------------
(* The services side by side.                                              *)

\* What the services do together is what each of them does: a theorem about
\* one holds of the specification that the run checks.
LEMMA EachService ==
    ServicesSpec => Spec /\ ApiSpec /\ RefundSpec /\ OutboxSpec /\ OperationSpec
<1>1. ServicesInit => Init /\ ApiInit /\ RefundInit /\ OutboxInit /\ OperationInit
  BY DEF ServicesInit
<1>2. ASSUME [ServicesNext]_<<service, vars, apiVars, refundVars, outboxVars, operationVars>>
      PROVE  /\ [Next]_vars
             /\ [ApiNext]_apiVars
             /\ [RefundNext]_refundVars
             /\ [OutboxNext]_outboxVars
             /\ [OperationNext]_operationVars
  BY <1>2 DEF ServicesNext
<1>3. QED
  BY <1>1, <1>2, PTL DEF ServicesSpec, Spec, ApiSpec, RefundSpec, OutboxSpec, OperationSpec

\* The types of the five services at once, for any size of each.
THEOREM ServicesTypes ==
    ASSUME Lifetimes, Durations, OutboxBounds PROVE ServicesSpec => []ServicesTypeOK
<1>1. Spec => []TypeOK
  BY PurchaseTypes
<1>2. ApiSpec => []ApiTypeOK
  BY KeyTypes
<1>3. OutboxSpec => []OutboxTypeOK
  <2>1. OutboxInv => OutboxTypeOK
    BY DEF OutboxInv
  <2>2. QED
    BY <2>1, OutboxStart, OutboxStep, PTL DEF OutboxSpec
<1>4. OperationSpec => []OperationTypeOK
  <2>1. OperationInv => OperationTypeOK
    BY DEF OperationInv
  <2>2. QED
    BY <2>1, OperationsInvariant, PTL
<1>5. TypeOK /\ ApiTypeOK /\ RefundTypeOK /\ OutboxTypeOK /\ OperationTypeOK => ServicesTypeOK
  BY DEF ServicesTypeOK
<1>6. QED
  BY <1>1, <1>2, <1>3, <1>4, <1>5, RefundTypes, EachService, PTL
=============================================================================
