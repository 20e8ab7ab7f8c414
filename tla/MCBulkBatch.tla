----------------------------- MODULE MCBulkBatch ------------------------------
(* Importing contacts, or sending to them in bulk: a batch of up to two        *)
(* recipients and two racing cancellations, in four environments.  The two     *)
(* share no state here, so a behaviour is one of either.                       *)
EXTENDS BulkBatch, ContactImport, TLC

VARIABLE part

BulkInit ==
    /\ Init /\ ImportInit
    /\ part \in {"import", "send"}
    /\ part # "import" => importEnv = {} /\ strategy = "SKIP_EXISTING"
    /\ part # "send" => env = {"crash"}

BulkNext ==
    /\ UNCHANGED part
    /\ \/ part = "import" /\ ImportNext /\ UNCHANGED vars
       \/ part = "send" /\ Next /\ UNCHANGED importVars

BulkSpec == BulkInit /\ [][BulkNext]_<<part, vars, importVars>>

\* The type invariants of both.
BulkTypeOK == TypeOK /\ ImportTypeOK

MCEnvironments ==
    { {"database"}, {"crash"},
      {"enqueue"}, {"maintenance", "credentials", "answers"} }
MCReports == {"FAILED"}
MCSymmetry == Permutations(Messages) \cup Permutations(Cancels)

MCPhone == <<"x", "x", "x", "y">>
MCCountry == <<91, 91, 1, 1>>
MCImportEnvironments == {
    {},
    {"again"},
    {"cancel", "crash", "inbound"},
    {"cancel", "lock"},
    {"database", "crash", "stop"} }
=============================================================================
