----------------------------- MODULE MCContactImport -----------------------------
(* One row, and a contact who is known and sends STOP while it is imported.    *)
EXTENDS ContactImport

MCPhone == <<"x">>
MCCountry == <<91>>
MCEnvironments == {{"inbound", "stop"}}
=============================================================================
