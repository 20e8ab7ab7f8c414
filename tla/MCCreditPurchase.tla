--------------------------- MODULE MCCreditPurchase ---------------------------
(* One purchase, two verifications and three deliveries of its webhooks.      *)
EXTENDS CreditPurchase, TLC
DatabaseOnly == {"database"}
MCSymmetry == Permutations(Verifiers) \cup Permutations(Deliveries)
=============================================================================
