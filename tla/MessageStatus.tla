----------------------------- MODULE MessageStatus -----------------------------
(***************************************************************************)
(* `MessageStatus` of the Prisma schema, as far as outbound messages use   *)
(* it, and the two rules about it that the message worker and the webhook  *)
(* worker share.  "NONE" stands for a message whose row does not exist.    *)
(***************************************************************************)
EXTENDS Integers

Sendable == {"QUEUED", "RETRY_PENDING"}
Delivery == {"SENT", "DELIVERED", "READ"}
Statuses == {"NONE", "SENDING", "FAILED", "CANCELED"} \cup Sendable \cup Delivery

RetryAnyStatus(s) == "RETRY_PENDING"
RetryNoStatus(s) == s

\* What markMessageForRetry makes of a status.
RetryStatus(s) == IF s = "SENDING" THEN "RETRY_PENDING" ELSE s

Rank == [s \in Statuses |->
    CASE s = "SENT" -> 2 [] s = "DELIVERED" -> 3 [] s = "READ" -> 4
      [] s \in {"FAILED", "CANCELED"} -> 99 [] OTHER -> 1]

ApplyInAnyOrder(current, next) == current \notin {"FAILED", "CANCELED"}

\* Whether a status webhook changes the status of the row.
ShouldApply(current, next) ==
    /\ current \notin {"FAILED", "CANCELED"}
    /\ next = "FAILED" \/ Rank[next] >= Rank[current]
=============================================================================
