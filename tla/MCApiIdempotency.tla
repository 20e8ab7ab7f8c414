-------------------------- MODULE MCApiIdempotency ---------------------------
(* Requests with two payloads; instants are a coarse clock in which a request *)
(* may see time pass, the lock expire after it and the row after the lock.    *)
EXTENDS ApiIdempotency, TLC
EarlyOnly == {{"early"}}
MCSymmetry == Permutations(Requests)
=============================================================================
