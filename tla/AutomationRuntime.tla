--------------------------- MODULE AutomationRuntime ---------------------------
(***************************************************************************)
(* A published automation flow answering one contact:                      *)
(* automation-runtime.service.ts, automation-session.service.ts,           *)
(* automation-outbound-message.service.ts and the worker that runs five    *)
(* of the queue's jobs at a time.                                          *)
(*                                                                         *)
(* Each inbound message has one job and, of a flow, one execution; the     *)
(* sessions are the contact's.  Nodes that only compute are left out, and  *)
(* so are the loop limits, for the flows here have no cycle.               *)
(***************************************************************************)
EXTENDS Integers, Sequences, FiniteSets, Functions, Selection

CONSTANTS
    Inbound,            \* inbound messages of the contact, each with a job
    Keywords,           \* those that trigger the flow
    Kind, Leads, Failing,\* the flow: what a node is, where it leads, and its error edge
    Credit,             \* wallet balance at the start, in messages
    Allowance,          \* monthlyExecutions of a limited plan
    Hands,              \* jobs run at a time
    Attempts, MaxStalls,\* of BullMQ
    AutomationEnvironments

AutomationFaults ==
    { "crash", "lock",      \* a job stalls: its process is dead, or goes on
      "database", "enqueue",
      "limit",              \* the plan limits the executions
      "reply", "rush" }     \* messages follow when the job is over; while it runs

ASSUME AutomationAssumption ==
    /\ IsFiniteSet(Inbound) /\ Inbound # {}
    /\ Kind \in Seq({"SEND", "WAIT", "END"}) /\ Kind # <<>>
    /\ Leads \in [DOMAIN Kind -> DOMAIN Kind \cup {0}]
    /\ Failing \in [DOMAIN Kind -> DOMAIN Kind \cup {0}]
    /\ Credit \in Nat /\ Attempts \in Nat \ {0} /\ MaxStalls \in Nat

VARIABLES
    autoEnv,
    session,        \* AutomationSession rows
    touched,        \* their ids, the last updated at the end
    automation,     \* AutomationExecution.status of a message
    done,           \* steps that are SUCCESS or WAITING, by message, node and hand
    sent, posted,   \* messages made by an execution's node; those that have a job
    credit,
    usage, counted, \* executionsUsed; history: how often an execution was counted
    ready,          \* state of the message's job
    attempt, stall,
    hand

automationVars == <<autoEnv, session, touched, automation, done, sent, posted, credit, usage, counted,
                    ready, attempt, stall, hand>>
dataVars == <<session, touched, automation, done, sent, posted, credit, usage, counted>>
jobVars  == <<ready, attempt, stall>>

Nodes == DOMAIN Kind
Suffers(what) == what \in autoEnv

SessionRow == [status : {"ACTIVE", "WAITING", "COMPLETED", "FAILED"},
               node : Nodes \cup {0}, waits : Nodes \cup {0}]
HandRow == [pc : {"idle", "find", "resume", "begin", "enter", "create", "link", "count", "tally",
                  "node", "act", "charge", "add", "note", "wait", "end", "finish", "place", "waiting", "still",
                  "stop", "complete", "close", "success", "caught", "fail", "quit", "abort", "drop"},
            of : Inbound, sid : Nat, at : Nodes \cup {0}, owner : BOOLEAN]
Idle == [pc |-> "idle", of |-> CHOOSE m \in Inbound : TRUE, sid |-> 0, at |-> 0, owner |-> FALSE]

AutomationTypeOK ==
    /\ autoEnv \in AutomationEnvironments
    /\ session \in Seq(SessionRow)
    /\ touched \in Seq(DOMAIN session) /\ ToSet(touched) = DOMAIN session
    /\ automation \in [Inbound -> {"NONE", "RUNNING", "WAITING", "SUCCESS", "FAILED"}]
    /\ done \subseteq Inbound \X Nodes \X Hands
    /\ sent \in [Inbound \X Nodes -> Nat] /\ posted \subseteq Inbound \X Nodes
    /\ credit \in Nat /\ usage \in Nat /\ counted \in [Inbound -> Nat]
    /\ ready \in [Inbound -> {"none", "waiting", "active", "over"}]
    /\ attempt \in [Inbound -> 0..Attempts] /\ stall \in [Inbound -> 0..MaxStalls + 1]
    /\ hand \in [Hands -> HandRow]

AutomationInit ==
    /\ autoEnv \in AutomationEnvironments
    /\ session = <<>> /\ touched = <<>>
    /\ automation = [m \in Inbound |-> "NONE"]
    /\ done = {} /\ sent = [x \in Inbound \X Nodes |-> 0] /\ posted = {}
    /\ credit = Credit /\ usage = 0 /\ counted = [m \in Inbound |-> 0]
    /\ ready = [m \in Inbound |-> "none"]
    /\ attempt = [m \in Inbound |-> 0] /\ stall = [m \in Inbound |-> 0]
    /\ hand = [h \in Hands |-> Idle]

-----------------------------------------------------------------------------
(* The job of a message.                                                   *)

Arrive(m) ==
    /\ ready[m] = "none"
    /\ \/ Suffers("rush") \/ \A n \in Inbound : ready[n] = "none"
       \/ Suffers("reply") /\ \A n \in Inbound : ready[n] \in {"none", "over"}
    /\ ready' = [ready EXCEPT ![m] = "waiting"]
    /\ UNCHANGED <<autoEnv, dataVars, attempt, stall, hand>>

TakeJob(h, m) ==
    /\ hand[h].pc = "idle" /\ ready[m] = "waiting"
    /\ ready' = [ready EXCEPT ![m] = "active"]
    /\ attempt' = [attempt EXCEPT ![m] = @ + 1]
    /\ hand' = [hand EXCEPT ![h] = [pc |-> "find", of |-> m, sid |-> 0, at |-> 0, owner |-> TRUE]]
    /\ UNCHANGED <<autoEnv, dataVars, stall>>

HandTurn(h, pc) == hand' = [hand EXCEPT ![h].pc = pc] /\ UNCHANGED jobVars
\* The handler returns or throws; only the owner of the job answers BullMQ.
Leave(h, state) ==
    /\ hand' = [hand EXCEPT ![h] = Idle]
    /\ ready' = IF hand[h].owner THEN [ready EXCEPT ![hand[h].of] = state] ELSE ready
    /\ UNCHANGED <<attempt, stall>>
Return(h) == Leave(h, "over")
ThrowJob(h) == Leave(h, IF attempt[hand[h].of] < Attempts THEN "waiting" ELSE "over")

\* BullMQ finds the job stalled, once more than it allows and it fails the job.
StallJob(h) ==
    /\ hand[h].owner
    /\ \/ Suffers("crash") /\ hand' = [hand EXCEPT ![h] = Idle]
       \/ Suffers("lock")  /\ hand' = [hand EXCEPT ![h].owner = FALSE]
    /\ stall' = [stall EXCEPT ![hand[h].of] = @ + 1]
    /\ ready' = [ready EXCEPT ![hand[h].of] = IF stall[hand[h].of] < MaxStalls THEN "waiting" ELSE "over"]
    /\ attempt' = [attempt EXCEPT ![hand[h].of] = @ - 1]
    /\ UNCHANGED <<autoEnv, dataVars>>

-----------------------------------------------------------------------------
(* Sessions.                                                               *)

\* An update of a session, which makes it the contact's latest.
Update(id, row) ==
    /\ session' = [session EXCEPT ![id] = row]
    /\ touched' = Append(Selected(touched, DOMAIN session \ {id}), id)
Session(h) == session[hand[h].sid]

Open == Selected(touched, {i \in DOMAIN session : session[i].status \in {"ACTIVE", "WAITING"}})

\* Where an open session goes on: behind the node that waits for a reply, or
\* with the node it is at.
GoesOnAt(s) ==
    LET n == IF s.waits # 0 THEN s.waits ELSE s.node
    IN  IF n # 0 /\ Kind[n] = "WAIT" THEN Leads[n] ELSE n

\* The latest open session, or the flow if the message triggers it, unless the
\* plan's executions are used up.
FindSession(h) ==
    /\ hand[h].pc = "find"
    /\ IF (Open = <<>> /\ hand[h].of \notin Keywords) \/ (Suffers("limit") /\ usage >= Allowance)
       THEN Return(h)
       ELSE IF Open # <<>>
       THEN /\ hand' = [hand EXCEPT ![h].pc = "resume", ![h].sid = Last(Open),
                                    ![h].at = GoesOnAt(session[Last(Open)])]
            /\ UNCHANGED jobVars
       ELSE HandTurn(h, "begin")
    /\ UNCHANGED <<autoEnv, dataVars>>

\* markAutomationSessionActive
Resume(h) ==
    /\ hand[h].pc = "resume"
    /\ Update(hand[h].sid, [Session(h) EXCEPT !.status = "ACTIVE", !.waits = 0])
    /\ HandTurn(h, "enter")
    /\ UNCHANGED <<autoEnv, automation, done, sent, posted, credit, usage, counted>>

\* startAutomationSession, at the root.
BeginSession(h) ==
    /\ hand[h].pc = "begin"
    /\ session' = Append(session, [status |-> "ACTIVE", node |-> 1, waits |-> 0])
    /\ touched' = Append(touched, Len(session) + 1)
    /\ hand' = [hand EXCEPT ![h].pc = "enter", ![h].sid = Len(session) + 1, ![h].at = 1]
    /\ UNCHANGED <<autoEnv, automation, done, sent, posted, credit, usage, counted, jobVars>>

-----------------------------------------------------------------------------
(* createAutomationExecution                                               *)

\* An execution that an earlier attempt has begun is taken up again.
Begun(status) == status = "RUNNING"
NeverAgain(status) == FALSE
TakenUp(status) == Begun(status)

Enter(h) ==
    /\ hand[h].pc = "enter"
    /\ \/ automation[hand[h].of] = "NONE" /\ HandTurn(h, "create")
       \/ TakenUp(automation[hand[h].of]) /\ HandTurn(h, "count")
       \/ automation[hand[h].of] # "NONE" /\ ~TakenUp(automation[hand[h].of]) /\ Return(h)
    /\ UNCHANGED <<autoEnv, dataVars>>

\* The unique index may refuse it: the other one's execution is run, then, as it is.
Create(h) ==
    /\ hand[h].pc = "create"
    /\ IF automation[hand[h].of] = "NONE"
       THEN automation' = [automation EXCEPT ![hand[h].of] = "RUNNING"] /\ HandTurn(h, "link")
       ELSE UNCHANGED automation /\ HandTurn(h, "node")
    /\ UNCHANGED <<autoEnv, session, touched, done, sent, posted, credit, usage, counted>>

\* The session is told its last execution, or its last outbound message.
Note(h) ==
    /\ \/ hand[h].pc = "link" /\ HandTurn(h, "count")
       \/ hand[h].pc = "note" /\ HandTurn(h, "finish")
    /\ Update(hand[h].sid, Session(h))
    /\ UNCHANGED <<autoEnv, automation, done, sent, posted, credit, usage, counted>>

\* incrementExecutionUsage looks at its mark, and counts afterwards.
CountExecution(h) ==
    /\ hand[h].pc = "count"
    /\ HandTurn(h, IF counted[hand[h].of] > 0 THEN "node" ELSE "tally")
    /\ UNCHANGED <<autoEnv, dataVars>>

Tally(h) ==
    /\ hand[h].pc = "tally"
    /\ usage' = usage + 1 /\ counted' = [counted EXCEPT ![hand[h].of] = @ + 1]
    /\ HandTurn(h, "node")
    /\ UNCHANGED <<autoEnv, session, touched, automation, done, sent, posted, credit>>

-----------------------------------------------------------------------------
(* executeAutomationGraph                                                  *)

Here(h) == <<hand[h].of, hand[h].at>>
Reusable(h) == \E g \in Hands : <<hand[h].of, hand[h].at, g>> \in done

\* A step that an earlier attempt has completed is not repeated.
AtNode(h) ==
    /\ hand[h].pc = "node"
    /\ IF hand[h].at = 0 THEN HandTurn(h, "complete")
       ELSE IF ~Reusable(h)
       THEN HandTurn(h, CASE Kind[hand[h].at] = "SEND" -> "act"
                      [] Kind[hand[h].at] = "WAIT" -> "wait"
                      [] OTHER -> "end")
       ELSE IF Kind[hand[h].at] = "WAIT" THEN HandTurn(h, "still")
       ELSE hand' = [hand EXCEPT ![h].at = Leads[@]] /\ UNCHANGED jobVars
    /\ UNCHANGED <<autoEnv, dataVars>>

\* A message that this node of the execution has made is only enqueued again.
Act(h) ==
    /\ hand[h].pc = "act"
    /\ HandTurn(h, IF sent[Here(h)] > 0 THEN "add" ELSE "charge")
    /\ UNCHANGED <<autoEnv, dataVars>>

\* The event's unique dedupeKey undoes the transaction of whoever comes second.
Unsent(h) == sent[Here(h)] = 0
UnsentAsRead(h) == TRUE
Sendable(h) == Unsent(h)

ChargeNode(h) ==
    /\ hand[h].pc = "charge"
    /\ IF Sendable(h) /\ credit > 0
       THEN /\ credit' = credit - 1 /\ sent' = [sent EXCEPT ![Here(h)] = @ + 1]
            /\ HandTurn(h, "add")
       ELSE UNCHANGED <<credit, sent>> /\ HandTurn(h, "caught")
    /\ UNCHANGED <<autoEnv, session, touched, automation, done, posted, usage, counted>>

Add(h) ==
    /\ hand[h].pc = "add"
    /\ \/ posted' = posted \cup {Here(h)} /\ HandTurn(h, "note")
       \/ Suffers("enqueue") /\ UNCHANGED posted /\ HandTurn(h, "caught")
    /\ UNCHANGED <<autoEnv, session, touched, automation, done, sent, credit, usage, counted>>

\* WAIT_FOR_REPLY marks the session, END completes it.
Wait(h) ==
    /\ \/ /\ hand[h].pc = "wait"
          /\ Update(hand[h].sid, [status |-> "WAITING", node |-> hand[h].at, waits |-> hand[h].at])
       \/ /\ hand[h].pc = "end"
          /\ Update(hand[h].sid, [Session(h) EXCEPT !.status = "COMPLETED", !.waits = 0])
    /\ HandTurn(h, "finish")
    /\ UNCHANGED <<autoEnv, automation, done, sent, posted, credit, usage, counted>>

FinishStep(h) ==
    /\ hand[h].pc = "finish"
    /\ done' = done \cup {<<hand[h].of, hand[h].at, h>>}
    /\ HandTurn(h, "place")
    /\ UNCHANGED <<autoEnv, session, touched, automation, sent, posted, credit, usage, counted>>

\* updateAutomationSessionContext, then on to the next node.
Place(h) ==
    /\ hand[h].pc = "place"
    /\ Update(hand[h].sid, [Session(h) EXCEPT !.node = hand[h].at])
    /\ hand' = IF Kind[hand[h].at] = "SEND"
               THEN [hand EXCEPT ![h].pc = "node", ![h].at = Leads[@]]
               ELSE [hand EXCEPT ![h].pc = IF Kind[hand[h].at] = "WAIT" THEN "waiting" ELSE "stop"]
    /\ UNCHANGED <<autoEnv, automation, done, sent, posted, credit, usage, counted, jobVars>>

\* Behind the last node, the session's node is reset, and the session completed.
Complete(h) ==
    /\ \/ /\ hand[h].pc = "complete" /\ HandTurn(h, "close")
          /\ Update(hand[h].sid, [Session(h) EXCEPT !.node = 0])
       \/ /\ hand[h].pc = "close" /\ HandTurn(h, "success")
          /\ Update(hand[h].sid, [Session(h) EXCEPT !.status = "COMPLETED", !.waits = 0])
    /\ UNCHANGED <<autoEnv, automation, done, sent, posted, credit, usage, counted>>

\* The execution's status, whatever it is by now.
DecideExecution(h) ==
    /\ hand[h].pc \in {"waiting", "still", "stop", "success", "fail", "abort"}
    /\ automation' = [automation EXCEPT ![hand[h].of] =
           CASE hand[h].pc \in {"waiting", "still"} -> "WAITING"
             [] hand[h].pc \in {"fail", "abort"} -> "FAILED"
             [] OTHER -> "SUCCESS"]
    /\ IF hand[h].pc = "fail" THEN HandTurn(h, "quit")
       ELSE IF hand[h].pc = "abort" THEN HandTurn(h, "drop") ELSE Return(h)
    /\ UNCHANGED <<autoEnv, session, touched, done, sent, posted, credit, usage, counted>>

\* The catch block of a node: the step fails, if it was completed before or not.
Catch(h) ==
    /\ hand[h].pc = "caught"
    /\ done' = done \ {<<hand[h].of, hand[h].at, h>>}
    /\ IF Failing[hand[h].at] # 0
       THEN hand' = [hand EXCEPT ![h].pc = "node", ![h].at = Failing[@]] /\ UNCHANGED jobVars
       ELSE HandTurn(h, "fail")
    /\ UNCHANGED <<autoEnv, session, touched, automation, sent, posted, credit, usage, counted>>

\* The session fails after its execution; executeAutomationGraphSafely throws on.
FailSession(h) ==
    /\ hand[h].pc \in {"quit", "drop"}
    /\ Update(hand[h].sid, [Session(h) EXCEPT !.status = "FAILED", !.waits = 0])
    /\ IF hand[h].pc = "quit" THEN Return(h) ELSE ThrowJob(h)
    /\ UNCHANGED <<autoEnv, automation, done, sent, posted, credit, usage, counted>>

\* A statement throws: before the graph or while giving up, in a node, between nodes.
\* An error of the limit check is taken for the limit.
StatementFails(h) ==
    /\ Suffers("database")
    /\ CASE hand[h].pc = "find" -> ThrowJob(h) \/ Return(h)
         [] hand[h].pc \in {"resume", "begin", "enter", "create", "link", "count", "tally",
                            "abort", "drop"} -> ThrowJob(h)
         [] hand[h].pc \in {"act", "charge", "note", "wait", "end", "finish", "place",
                            "waiting", "stop"} -> HandTurn(h, "caught")
         [] hand[h].pc \in {"node", "still", "complete", "close", "success",
                            "caught", "fail", "quit"} -> HandTurn(h, "abort")
         [] OTHER -> FALSE
    /\ UNCHANGED <<autoEnv, dataVars>>

-----------------------------------------------------------------------------
HandStep(h) ==
    \/ \E m \in Inbound : TakeJob(h, m)
    \/ FindSession(h) \/ Resume(h) \/ BeginSession(h) \/ Enter(h) \/ Create(h)
    \/ Note(h) \/ CountExecution(h) \/ Tally(h)
    \/ AtNode(h) \/ Act(h) \/ ChargeNode(h) \/ Add(h) \/ Wait(h) \/ FinishStep(h) \/ Place(h)
    \/ Complete(h) \/ DecideExecution(h) \/ Catch(h) \/ FailSession(h)

AutomationNext ==
    \/ \E m \in Inbound : Arrive(m)
    \/ \E h \in Hands : HandStep(h) \/ StallJob(h) \/ StatementFails(h)

AutomationSpec == AutomationInit /\ [][AutomationNext]_automationVars

-----------------------------------------------------------------------------
\* A node of an execution is charged for once, however often its job is retried
\* or overtaken, and has its job when it is done.  An execution is counted once,
\* unless its job goes on without its lock: the mark is read before it is written.
EachOnce ==
    /\ \A x \in Inbound \X Nodes : sent[x] <= 1
    /\ credit + SumFunctionOnSet(sent, Inbound \X Nodes) = Credit
    /\ \A x \in done : Kind[x[2]] = "SEND" => <<x[1], x[2]>> \in posted
    /\ Suffers("lock") \/ \A m \in Inbound : counted[m] <= 1

\* The execution of a message that triggers the flow does not stay RUNNING: the
\* retry of a job that stalled carries it on, unless BullMQ has given the job up,
\* the database has failed, or the execution was the last one the plan allowed.
\* (That of a reply may: it completes the session, the process dies, and the
\* retry finds no session to continue.)
ExecutionEnds == \A m \in Keywords :
    autoEnv \cap {"database", "limit"} = {} /\ automation[m] = "RUNNING"
        ~> automation[m] # "RUNNING" \/ stall[m] > MaxStalls
=============================================================================
