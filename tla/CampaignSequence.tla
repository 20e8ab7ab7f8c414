--------------------------- MODULE CampaignSequence ---------------------------
(***************************************************************************)
(* The follow-up steps of one campaign: campaign-sequence.service.ts, run  *)
(* every minute by its worker process, and the message worker that sends   *)
(* what it charged for.  Contacts get step 1 after the campaign's own      *)
(* message and each other step after the one before.                       *)
(*                                                                         *)
(* A message is last updated when its status changes, so the rank of its   *)
(* status stands for Message.updatedAt: a reply is later than the update   *)
(* if the status had that rank when it came.  Of the reports, DELIVERED    *)
(* updates a message as READ does and fulfils no condition; it is left out,*)
(* and so is the condition CLICKED, for nothing writes what it looks for.  *)
(***************************************************************************)
EXTENDS Integers, Sequences, FiniteSets, FiniteSetsExt, Selection

CONSTANTS
    Audience,           \* contacts of the campaign
    Conditions,         \* the condition of step 1, of step 2, ...
    TickBatch,          \* CAMPAIGN_SEQUENCE_BATCH_SIZE
    Tickers,            \* processes that run the steps
    Purse,              \* wallet balance at the start, in messages
    SequenceEnvironments

ASSUME SequenceAssumption ==
    /\ IsFiniteSet(Audience) /\ Conditions \in Seq({"NO_REPLY", "OPENED"}) /\ Conditions # <<>>
    /\ TickBatch \in Nat /\ Purse \in Nat

SequenceFaults ==
    { "rivals",     \* a second process runs, as while PM2 restarts the first
      "crash", "database", "enqueue",
      "replies", "reports", "optout",
      "rejected" }  \* a message fails

VARIABLES
    seqEnv,
    campaign,       \* Campaign.status
    mail,           \* status of the message of a contact at a stage; stage 0 is the campaign's
    due,            \* messages that have waited for delayMinutes since their update
    answered,       \* rank of each message when the contact last replied
    optedOut,
    execution,      \* CampaignSequenceExecution.status of a step and contact
    line,           \* contacts in the order a step's query looks at them
    made,           \* history: messages made for a step and contact
    purse, toSend,  \* the wallet; messages that have a job
    ticker

sequenceVars == <<seqEnv, campaign, mail, due, answered, optedOut, execution, line, made,
                  purse, toSend, ticker>>

Steps == 1..Len(Conditions)
Stages == 0..Len(Conditions)
Meets(what) == what \in seqEnv

\* Context rows as a query returns them.
Context == [of : Audience, rank : 0..2, due : BOOLEAN, out : BOOLEAN]
TickerRow == [pc : {"idle", "select", "look", "skip", "charge", "add"},
              step : Steps \cup {0}, todo : Seq(Context), queued : Nat]
Resting == [pc |-> "idle", step |-> 0, todo |-> <<>>, queued |-> 0]

Rank(status) ==
    CASE status = "SENT" -> 1 [] status = "READ" -> 2 [] OTHER -> 0

SequenceTypeOK ==
    /\ seqEnv \in SequenceEnvironments
    /\ campaign \in {"RUNNING", "COMPLETED", "FAILED"}
    /\ mail \in [Audience \X Stages -> {"NONE", "QUEUED", "SENT", "READ", "FAILED"}]
    /\ due \subseteq Audience \X Stages
    /\ answered \in [Audience \X Stages -> -1..2]
    /\ optedOut \subseteq Audience
    /\ execution \in [Audience \X Steps -> {"NONE", "QUEUED", "SENT", "FAILED", "SKIPPED"}]
    /\ line \in [Steps -> Seq(Audience)]
    /\ made \in [Audience \X Steps -> Nat]
    /\ purse \in Nat /\ toSend \subseteq Audience \X Stages
    /\ ticker \in [Tickers -> TickerRow]

SequenceInit ==
    /\ seqEnv \in SequenceEnvironments
    /\ campaign = "RUNNING"
    /\ mail = [m \in Audience \X Stages |-> IF m[2] = 0 THEN "QUEUED" ELSE "NONE"]
    /\ due = {} /\ answered = [m \in Audience \X Stages |-> -1] /\ optedOut = {}
    /\ execution = [x \in Audience \X Steps |-> "NONE"]
    /\ line = [s \in Steps |-> <<>>]
    /\ made = [x \in Audience \X Steps |-> 0]
    /\ purse = Purse /\ toSend = Audience \X {0}
    /\ ticker = [t \in Tickers |-> Resting]

-----------------------------------------------------------------------------
\* The message worker.  Whoever is updated last is looked at last.
ToTheEnd(s, c) == [line EXCEPT ![s] = Append(Selected(@, Audience \ {c}), c)]

\* A campaign with a failed contact is FAILED when all are done with.
Completion(newMail) ==
    IF \A c \in Audience : newMail[<<c, 0>>] \notin {"NONE", "QUEUED"}
    THEN IF \E c \in Audience : newMail[<<c, 0>>] = "FAILED" THEN "FAILED" ELSE "COMPLETED"
    ELSE campaign

SendMail(c, s) ==
    /\ <<c, s>> \in toSend /\ toSend' = toSend \ {<<c, s>>}
    /\ mail' = [mail EXCEPT ![<<c, s>>] = "SENT"]
    /\ due' = due \ {<<c, s>>}
    /\ execution' = IF s = 0 THEN execution ELSE [execution EXCEPT ![<<c, s>>] = "SENT"]
    /\ line' = IF s + 1 \in Steps THEN ToTheEnd(s + 1, c) ELSE line
    /\ campaign' = Completion(mail')
    /\ UNCHANGED <<seqEnv, answered, optedOut, made, purse, ticker>>

\* A message that fails is refunded.
RejectMail(c, s) ==
    /\ Meets("rejected") /\ <<c, s>> \in toSend /\ toSend' = toSend \ {<<c, s>>}
    /\ mail' = [mail EXCEPT ![<<c, s>>] = "FAILED"]
    /\ execution' = IF s = 0 THEN execution ELSE [execution EXCEPT ![<<c, s>>] = "FAILED"]
    /\ purse' = IF s = 0 THEN purse ELSE purse + 1
    /\ campaign' = Completion(mail')
    /\ UNCHANGED <<seqEnv, due, answered, optedOut, line, made, ticker>>

\* A report updates the message, and the row step 1 orders its contacts by.
\* Nothing looks at the last step's message any more.
ReportRead(c, s) ==
    /\ Meets("reports") /\ s + 1 \in Steps /\ mail[<<c, s>>] = "SENT"
    /\ mail' = [mail EXCEPT ![<<c, s>>] = "READ"]
    /\ due' = due \ {<<c, s>>}
    /\ line' = IF s = 0 THEN ToTheEnd(1, c) ELSE line
    /\ UNCHANGED <<seqEnv, campaign, answered, optedOut, execution, made, purse, toSend, ticker>>

Reply(c) ==
    /\ Meets("replies")
    /\ answered' = [m \in Audience \X Stages |->
                       IF m[1] = c THEN Rank(mail[m]) ELSE answered[m]]
    /\ UNCHANGED <<seqEnv, campaign, mail, due, optedOut, execution, line, made, purse, toSend, ticker>>

OptOut(c) ==
    /\ Meets("optout") /\ optedOut' = optedOut \cup {c}
    /\ UNCHANGED <<seqEnv, campaign, mail, due, answered, execution, line, made, purse, toSend, ticker>>

\* delayMinutes after its update.
FallDue(c, s) ==
    /\ s + 1 \in Steps /\ Rank(mail[<<c, s>>]) > 0 /\ due' = due \cup {<<c, s>>}
    /\ UNCHANGED <<seqEnv, campaign, mail, answered, optedOut, execution, line, made, purse, toSend,
                   ticker>>

-----------------------------------------------------------------------------
\* A run of the steps, unless one is running in this process.
StartRun(t) ==
    /\ ticker[t].pc = "idle" /\ campaign \in {"RUNNING", "COMPLETED"}
    /\ Meets("rivals") \/ \A u \in Tickers : ticker[u].pc = "idle"
    /\ ticker' = [ticker EXCEPT ![t] = [pc |-> "select", step |-> 1, todo |-> <<>>, queued |-> 0]]
    /\ UNCHANGED <<seqEnv, campaign, mail, due, answered, optedOut, execution, line, made, purse, toSend>>

\* Contacts the step has not yet dealt with, whose message before it has gone out.
Undone(c, s) == execution[<<c, s>>] = "NONE"
DoneToo(c, s) == TRUE
Unexecuted(c, s) == Undone(c, s)
Follows(c, s) ==
    /\ Unexecuted(c, s)
    /\ Rank(mail[<<c, s - 1>>]) > 0
    /\ s > 1 => execution[<<c, s - 1>>] = "SENT"

Remaining(t) == IF TickBatch > ticker[t].queued THEN TickBatch - ticker[t].queued ELSE 0

ContextOf(c, s) == [of |-> c, rank |-> Rank(mail[<<c, s - 1>>]),
                    due |-> <<c, s - 1>> \in due, out |-> c \in optedOut]

Contexts(t) ==
    LET s == ticker[t].step
        rows == Selected(line[s], {c \in Audience : Follows(c, s)})
        taken == SubSeq(rows, 1, Min({Len(rows), Remaining(t)}))
    IN  [i \in DOMAIN taken |-> ContextOf(taken[i], s)]

TickerTurn(t, pc) == ticker' = [ticker EXCEPT ![t].pc = pc]
\* On to the next context, or to the next step.
NextOne(t, extra) ==
    LET now == [ticker[t] EXCEPT !.queued = @ + extra]
        next == IF now.step + 1 \in Steps THEN now.step + 1 ELSE 0 IN
    ticker' = [ticker EXCEPT ![t] =
        IF Len(now.todo) > 1 THEN [now EXCEPT !.todo = Tail(now.todo), !.pc = "look"]
        ELSE [now EXCEPT !.todo = <<>>, !.pc = "select", !.step = next]]

SelectContexts(t) ==
    /\ ticker[t].pc = "select"
    /\ IF ticker[t].step = 0 \/ ticker[t].queued >= TickBatch
       THEN ticker' = [ticker EXCEPT ![t] = Resting]
       ELSE IF Contexts(t) = <<>> THEN NextOne(t, 0)
       ELSE ticker' = [ticker EXCEPT ![t].pc = "look", ![t].todo = Contexts(t)]
    /\ UNCHANGED <<seqEnv, campaign, mail, due, answered, optedOut, execution, line, made, purse, toSend>>

Now(t) == Head(ticker[t].todo)
Row(t) == <<Now(t).of, ticker[t].step>>

\* Has the contact replied since, or read the message?
Replied(t) == answered[<<Now(t).of, ticker[t].step - 1>>] >= Now(t).rank
Ready(t) ==
    IF Conditions[ticker[t].step] = "NO_REPLY" THEN ~Replied(t) ELSE Now(t).rank = Rank("READ")

LookAt(t) ==
    /\ ticker[t].pc = "look"
    /\ IF Now(t).due /\ Ready(t) THEN TickerTurn(t, IF Now(t).out THEN "skip" ELSE "charge")
       ELSE IF Now(t).due /\ Conditions[ticker[t].step] = "NO_REPLY" THEN TickerTurn(t, "skip")
       ELSE NextOne(t, 0)
    /\ UNCHANGED <<seqEnv, campaign, mail, due, answered, optedOut, execution, line, made, purse, toSend>>

\* An insertion that fails is ignored, the unique index's refusal as well.
SkipContact(t) ==
    /\ ticker[t].pc = "skip"
    /\ \/ Undone(Row(t)[1], Row(t)[2]) /\ execution' = [execution EXCEPT ![Row(t)] = "SKIPPED"]
       \/ ~Undone(Row(t)[1], Row(t)[2]) /\ UNCHANGED execution
       \/ Meets("database") /\ UNCHANGED execution
    /\ NextOne(t, 0)
    /\ UNCHANGED <<seqEnv, campaign, mail, due, answered, optedOut, line, made, purse, toSend>>

\* The transaction debits the wallet and inserts message and execution, or
\* records that there is no money; the unique index of step and contact undoes it.
UniqueAsSelected(t) == TRUE
Unique(t) == Undone(Row(t)[1], Row(t)[2])

ChargeContact(t) ==
    /\ ticker[t].pc = "charge"
    /\ \/ /\ Unique(t) /\ purse >= 1
          /\ purse' = purse - 1
          /\ mail' = [mail EXCEPT ![Row(t)] = "QUEUED"]
          /\ made' = [made EXCEPT ![Row(t)] = @ + 1]
          /\ execution' = [execution EXCEPT ![Row(t)] = "QUEUED"]
          /\ TickerTurn(t, "add")
       \/ /\ Unique(t) /\ purse = 0
          /\ execution' = [execution EXCEPT ![Row(t)] = "FAILED"]
          /\ NextOne(t, 0) /\ UNCHANGED <<purse, mail, made>>
       \/ /\ ~Unique(t) \/ Meets("database")
          /\ NextOne(t, 0) /\ UNCHANGED <<purse, mail, made, execution>>
    /\ UNCHANGED <<seqEnv, campaign, due, answered, optedOut, line, toSend>>

AddJob(t) ==
    /\ ticker[t].pc = "add"
    /\ \/ toSend' = toSend \cup {Row(t)} /\ NextOne(t, 1)
       \/ Meets("enqueue") /\ UNCHANGED toSend /\ NextOne(t, 0)
    /\ UNCHANGED <<seqEnv, campaign, mail, due, answered, optedOut, execution, line, made, purse>>

\* The process dies, or a query throws and ends the run.
RunDies(t) ==
    /\ \/ Meets("crash") /\ ticker[t].pc # "idle"
       \/ Meets("database") /\ ticker[t].pc \in {"select", "look"}
    /\ ticker' = [ticker EXCEPT ![t] = Resting]
    /\ UNCHANGED <<seqEnv, campaign, mail, due, answered, optedOut, execution, line, made, purse, toSend>>

RunStep(t) == SelectContexts(t) \/ LookAt(t) \/ SkipContact(t) \/ ChargeContact(t) \/ AddJob(t)

SequenceNext ==
    \/ \E c \in Audience, s \in Stages :
           SendMail(c, s) \/ RejectMail(c, s) \/ ReportRead(c, s) \/ FallDue(c, s)
    \/ \E c \in Audience : Reply(c) \/ OptOut(c)
    \/ \E t \in Tickers : StartRun(t) \/ RunStep(t) \/ RunDies(t)

SequenceSpec == SequenceInit /\ [][SequenceNext]_sequenceVars

\* The worker process ticks for ever, messages are sent and time passes.
Tick(t) == StartRun(t) \/ RunStep(t)
Passes(c, s) == SendMail(c, s) \/ FallDue(c, s)

-----------------------------------------------------------------------------
\* However many runs overlap, a contact is charged for a step once, and only
\* what was given up is paid back.
StepChargedOnce ==
    /\ \A x \in Audience \X Steps : made[x] = IF mail[x] = "NONE" THEN 0 ELSE 1
    /\ purse + Cardinality({x \in Audience \X Steps : mail[x] \notin {"NONE", "FAILED"}}) = Purse

Unconditional == {s \in Steps : \A r \in 1..s : Conditions[r] = "NO_REPLY"}
\* A step that waits for no condition but silence is decided for every contact
\* that got the message before it: contacts at the head of the line, of whom a
\* run takes no more than a batch, do not hold up the others.
EverybodyFollowedUp == \A c \in Audience, s \in Unconditional :
    seqEnv \subseteq {"rivals", "replies", "reports", "optout"} /\ Rank(mail[<<c, s - 1>>]) > 0
        ~> execution[<<c, s>>] # "NONE"
=============================================================================
