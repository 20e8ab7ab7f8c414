-------------------------- MODULE MCMessagePipeline --------------------------
(* The pipeline on small instances; messages and workers are model values.  *)
EXTENDS MessagePipeline, TLC
\* the kinds a set leaves out lead to the same states: "database" throws a
\* transient error everywhere, "enqueue" compensates as "quota" does
AllFaults == {
    {"database", "crash", "rejected", "enqueue"},
    {"database", "lock"},
    FaultKinds \ {"database"},
    FaultKinds \ {"lock", "enqueue", "quota"},
    {"crash", "lock", "rejected", "transient", "quota"} }
\* no process dies and no statement fails
NoHardFaults == {
    {"rejected", "transient", "answer_lost"},
    {"rejected", "transient", "maintenance", "credentials"} }
CredentialsOnly == {{"credentials"}}
MCSymmetry == Permutations(Workers)
=============================================================================
