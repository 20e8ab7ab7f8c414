------------------------------ MODULE MCCampaigns ------------------------------
(* Launching a campaign, following its messages up and answering replies: they *)
(* share neither state nor processes here, so a behaviour is one of them.      *)
EXTENDS CampaignLaunch, CampaignSequence, AutomationRuntime, TLC

VARIABLE part

CampaignsInit ==
    /\ Init /\ SequenceInit /\ AutomationInit
    /\ part \in {"launch", "sequence", "automation"}
    /\ part # "launch" => env = {} /\ opening = 2
    /\ part # "sequence" => seqEnv = {}
    /\ part # "automation" => autoEnv = {}

CampaignsNext ==
    /\ UNCHANGED part
    /\ \/ part = "launch" /\ Next /\ UNCHANGED <<sequenceVars, automationVars>>
       \/ part = "sequence" /\ SequenceNext /\ UNCHANGED <<vars, automationVars>>
       \/ part = "automation" /\ AutomationNext /\ UNCHANGED <<vars, sequenceVars>>

CampaignsSpec ==
    /\ CampaignsInit /\ [][CampaignsNext]_<<part, vars, sequenceVars, automationVars>>
    /\ WF_vars(part = "launch" /\ (WorkerStep \/ \E u \in Users : RequestStep(u)))
    /\ WF_sequenceVars(part = "sequence" /\ \E t \in Tickers : Tick(t))
    /\ WF_sequenceVars(part = "sequence" /\ \E c \in Audience, s \in Stages : Passes(c, s))
    /\ WF_automationVars(part = "automation" /\ \E h \in Hands : HandStep(h))

\* The type invariants of the three modules.
CampaignsTypeOK == TypeOK /\ SequenceTypeOK /\ AutomationTypeOK

MCKind == <<"SEND", "WAIT", "SEND", "END">>
MCLeads == <<2, 3, 0, 0>>
MCFailing == <<0, 0, 4, 0>>
MCAutomationEnvironments == {
    {},
    {"crash", "reply"},
    {"lock"},
    {"rush"},
    {"enqueue", "database"},
    {"limit", "crash", "reply"} }

MCConditions == <<"NO_REPLY", "OPENED">>
MCSequenceEnvironments == {
    {},
    {"rivals"},
    {"replies"},
    {"reports"},
    {"optout", "rejected"},
    {"rivals", "crash", "database", "enqueue"} }
CONSTANTS c1, c2, c3
MCContacts == {c1, c2, c3}
MCPending == {c2, c3}
MCSegments == {{c1, c2}, {c1, c2, c3}}
MCOpenings == {2, 3}
MCEnvironments == {
    {},
    {"cancel", "changes", "lock"},
    {"rivals", "quota"},
    {"again"},
    {"cancel", "crash", "database", "enqueue"} }
=============================================================================
