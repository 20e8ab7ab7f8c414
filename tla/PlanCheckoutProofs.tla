-------------------------- MODULE PlanCheckoutProofs --------------------------
(***************************************************************************)
(* Types, and that a checkout changes the plan at most once and only if it *)
(* has been paid for, with any number of checkouts, verifications, webhook *)
(* deliveries, scans and reviewers, and under any faults.                  *)
(***************************************************************************)
EXTENDS PlanCheckout, TLAPS

\* Every operation of the subscription keeps the types of what it writes.
LEMMA SubscriptionTypes ==
    ASSUME SubscriptionTypeOK, SubscriptionNext PROVE SubscriptionTypeOK'
<1> USE SubscriptionAssumption
<1> USE DEF SubscriptionTypeOK, CompanyRow, ChangeRow, PaymentRow, RequestRow, Plans, Times,
    Live, Ask, Done, Idle, NoRow, Started
<1>1. CASE Tick
  BY <1>1 DEF Tick
<1>2. ASSUME NEW u \in Users, NEW to \in Plans, ScheduleRead(u, to)
      PROVE  SubscriptionTypeOK'
  <2>1. [pc |-> "replace", to |-> to, due |-> company.ends, rows |-> {}] \in RequestRow
    OBVIOUS
  <2>2. QED
    BY <1>2, <2>1 DEF ScheduleRead
<1>3. ASSUME NEW u \in Users, ScheduleReplace(u) PROVE SubscriptionTypeOK'
  BY <1>3 DEF ScheduleReplace
<1>4. ASSUME NEW u \in Users, NEW c \in Changes, ScheduleCommit(u, c)
      PROVE  SubscriptionTypeOK'
  <2>1. Canceled(request[u].rows) \in [Changes -> ChangeRow]
    BY DEF Canceled
  <2>2. [status |-> "SCHEDULED", to |-> request[u].to, due |-> request[u].due] \in ChangeRow
    OBVIOUS
  <2>3. change' \in [Changes -> ChangeRow]
    <3> HIDE DEF ChangeRow
    <3> QED BY <1>4, <2>1, <2>2 DEF ScheduleCommit
  <2>4. company' \in CompanyRow
    BY <1>4 DEF ScheduleCommit
  <2>5. request' \in [Users -> RequestRow]
    BY <1>4 DEF ScheduleCommit
  <2>6. QED
    BY <1>4, <2>3, <2>4, <2>5 DEF ScheduleCommit
<1>5. ASSUME NEW u \in Users, NEW c \in Changes, UndoRead(u, c) PROVE SubscriptionTypeOK'
  BY <1>5 DEF UndoRead
<1>6. ASSUME NEW u \in Users, UndoCommit(u) PROVE SubscriptionTypeOK'
  <2>1. change' \in [Changes -> ChangeRow]
    BY <1>6 DEF UndoCommit
  <2>2. company' \in CompanyRow
    BY <1>6 DEF UndoCommit
  <2>3. request' \in [Users -> RequestRow]
    BY <1>6 DEF UndoCommit
  <2>4. QED
    BY <1>6, <2>1, <2>2, <2>3 DEF UndoCommit
<1>7. ASSUME NEW u \in Users, CancelRead(u) \/ CancelCommit(u) \/ ResumeRead(u) \/ ResumeCommit(u)
      PROVE  SubscriptionTypeOK'
  <2>1. company' \in CompanyRow
    <3>1. \/ company' = company
          \/ company' = [company EXCEPT !.cancelAtEnd = TRUE]
          \/ company' = [company EXCEPT !.cancelAtEnd = FALSE, !.status = "ACTIVE"]
      BY <1>7 DEF CancelRead, CancelCommit, ResumeRead, ResumeCommit
    <3>2. [company EXCEPT !.cancelAtEnd = TRUE] \in CompanyRow
      OBVIOUS
    <3>3. [company EXCEPT !.cancelAtEnd = FALSE, !.status = "ACTIVE"] \in CompanyRow
      OBVIOUS
    <3> HIDE DEF CompanyRow
    <3>4. QED
      BY <3>1, <3>2, <3>3
  <2>2. request' \in [Users -> RequestRow]
    <3>1. CASE CancelRead(u)
      BY <3>1 DEF CancelRead
    <3>2. CASE ResumeRead(u)
      BY <3>2 DEF ResumeRead
    <3>3. CASE CancelCommit(u) \/ ResumeCommit(u)
      BY <3>3 DEF CancelCommit, ResumeCommit
    <3>4. QED
      BY <1>7, <3>1, <3>2, <3>3
  <2>3. QED
    BY <1>7, <2>1, <2>2 DEF CancelRead, CancelCommit, ResumeRead, ResumeCommit
<1>8. ASSUME NEW u \in Users, RequestDies(u) PROVE SubscriptionTypeOK'
  BY <1>8 DEF RequestDies
<1>9. CASE ChooseFree
  BY <1>9 DEF ChooseFree
<1>10. ASSUME NEW o \in Orders, NEW plan \in Paid, CreateSubscriptionOrder(o, plan)
       PROVE  SubscriptionTypeOK'
  <2> DEFINE ends == payment'[o].ends
  <2>1. payment' = [payment EXCEPT ![o] =
            [status |-> "CREATED", plan |-> plan, order |-> "ACTIVE", ends |-> ends]]
    BY <1>10 DEF CreateSubscriptionOrder
  <2>2. ends \in Times
    BY <1>10 DEF CreateSubscriptionOrder
  <2>3. payment' \in [Orders -> PaymentRow]
    BY <2>1, <2>2
  <2>4. QED
    BY <1>10, <2>3 DEF CreateSubscriptionOrder
<1>11. ASSUME NEW o \in Orders, PaySubscriptionOrder(o) \/ FailSubscriptionPayment(o)
       PROVE  SubscriptionTypeOK'
  <2>1. payment' \in [Orders -> PaymentRow]
    <3>1. CASE PaySubscriptionOrder(o)
      <4>1. [payment[o] EXCEPT !.order = "PAID"] \in PaymentRow
        OBVIOUS
      <4>2. payment' = [payment EXCEPT ![o] = [payment[o] EXCEPT !.order = "PAID"]]
        BY <3>1 DEF PaySubscriptionOrder
      <4> HIDE DEF PaymentRow
      <4>3. QED
        BY <4>1, <4>2
    <3>2. CASE FailSubscriptionPayment(o)
      <4> DEFINE row == payment[o]
      <4>0. row \in PaymentRow
        OBVIOUS
      <4>1. [payment[o] EXCEPT !.status = "FAILED"] \in PaymentRow
        <5> HIDE DEF row
        <5>1. [row EXCEPT !.status = "FAILED"] \in PaymentRow
          BY <4>0
        <5>2. QED
          BY <5>1 DEF row
      <4>2. payment' = [payment EXCEPT ![o] = [payment[o] EXCEPT !.status = "FAILED"]]
        BY <3>2 DEF FailSubscriptionPayment
      <4> HIDE DEF PaymentRow
      <4>3. QED
        BY <4>1, <4>2
    <3>3. QED
      BY <1>11, <3>1, <3>2
  <2>2. QED
    BY <1>11, <2>1 DEF PaySubscriptionOrder, FailSubscriptionPayment
<1>12. ASSUME NEW o \in Orders, ActivateSubscription(o) PROVE SubscriptionTypeOK'
  <2>1. company' \in CompanyRow
    BY <1>12 DEF ActivateSubscription
  <2>2. payment' \in [Orders -> PaymentRow] /\ activated' \in [Orders -> Nat]
    BY <1>12 DEF ActivateSubscription
  <2>3. QED
    BY <1>12, <2>1, <2>2 DEF ActivateSubscription
<1>13. CASE RenewalRead \/ MarkPastDue \/ AutoDowngrade \/ RenewalDies
  <2>1. CASE RenewalRead
    BY <2>1 DEF RenewalRead
  <2>2. CASE MarkPastDue
    BY <2>2 DEF MarkPastDue
  <2>3. CASE AutoDowngrade
    BY <2>3 DEF AutoDowngrade
  <2>4. CASE RenewalDies
    BY <2>4 DEF RenewalDies
  <2>5. QED
    BY <1>13, <2>1, <2>2, <2>3, <2>4
<1>14. CASE ExpiryRead \/ ExpiryClaim \/ LapseRead \/ LapseClaim \/ JobDies
  <2>1. CASE ExpiryRead \/ ExpiryClaim
    BY <2>1 DEF ExpiryRead, ExpiryClaim
  <2>2. CASE LapseRead
    BY <2>2 DEF LapseRead
  <2>3. CASE LapseClaim
    <3>1. company' \in CompanyRow
      <4> DEFINE freed == [plan |-> "FREE", status |-> "CANCELED",
                           ends |-> lapse.asOf + Period, cancelAtEnd |-> FALSE]
      <4>1. lapse.asOf + Period \in Times
        OBVIOUS
      <4>2. freed \in CompanyRow
        BY <4>1
      <4>3. company' = company \/ company' = freed
        BY <2>3 DEF LapseClaim
      <4> HIDE DEF freed, CompanyRow
      <4>4. QED
        BY <4>2, <4>3
    <3>2. lapse' \in [pc : {"idle", "claim"}, asOf : 0..MaxTime]
      BY <2>3 DEF LapseClaim
    <3>3. QED
      BY <2>3, <3>1, <3>2 DEF LapseClaim
  <2>4. CASE JobDies
    BY <2>4 DEF JobDies
  <2>5. QED
    BY <1>14, <2>1, <2>2, <2>3, <2>4
<1>15. ASSUME NEW c \in Changes, ApplyRead(c) PROVE SubscriptionTypeOK'
  BY <1>15 DEF ApplyRead
<1>16. CASE ApplyChange
  BY <1>16 DEF ApplyChange
<1>17. CASE ApplyThrows \/ ApplyFails \/ ApplyDies
  BY <1>17 DEF ApplyThrows, ApplyFails, ApplyDies
<1>18. QED
  BY <1>1, <1>2, <1>3, <1>4, <1>5, <1>6, <1>7, <1>8, <1>9, <1>10, <1>11, <1>12, <1>13,
     <1>14, <1>15, <1>16, <1>17
  DEF SubscriptionNext, Page

\* The conjuncts of TypeOK, one for each set of actors.
RowTypes == checkout \in [Checkouts -> CheckoutRow] /\ applied \in [Checkouts -> Nat]

CompleterTypes ==
    /\ completer \in [Completers -> Worker({"expire", "ask", "fail", "claim", "catch"})]
    /\ \A p \in Completers : completer[p].of = NoCheckout <=> completer[p].pc = "idle"

ScanTypes ==
    /\ scan \in [Scans -> Worker({"expire", "ask", "count", "review"})]
    /\ \A s \in Scans : scan[s].of = NoCheckout <=> scan[s].pc = "idle"

ReviewerTypes ==
    /\ reviewer \in [Reviewers -> Worker({"approve"})]
    /\ \A r \in Reviewers : reviewer[r].of = NoCheckout <=> reviewer[r].pc = "idle"

LEMMA TypesSplit ==
    TypeOK <=> SubscriptionTypeOK /\ RowTypes /\ CompleterTypes /\ ScanTypes /\ ReviewerTypes
  BY DEF TypeOK, RowTypes, CompleterTypes, ScanTypes, ReviewerTypes

\* A row may be replaced by any row.
LEMMA RowReplaced ==
    ASSUME RowTypes, NEW c \in Checkouts, NEW row \in CheckoutRow
    PROVE  [checkout EXCEPT ![c] = row] \in [Checkouts -> CheckoutRow]
  BY DEF RowTypes

\* The transaction of a claim keeps every type.
LEMMA ApplyTypes ==
    ASSUME SubscriptionTypeOK, RowTypes, NEW c \in Checkouts, Apply(c)
    PROVE  SubscriptionTypeOK' /\ RowTypes'
<1> USE SubscriptionAssumption, CheckoutAssumption
<1>1. RowTypes'
  BY DEF Apply, RowTypes, CheckoutRow
<1>2. Started(checkout[c].to, "ACTIVE") \in CompanyRow
  BY DEF RowTypes, SubscriptionTypeOK, CheckoutRow, CompanyRow, Started, Times, Live
<1>3. SubscriptionTypeOK'
  BY <1>2 DEF Apply, SubscriptionTypeOK
<1>4. QED
  BY <1>1, <1>3

\* So do a new status and one more attempt.
LEMMA MoveTypes ==
    ASSUME RowTypes, NEW c \in Checkouts, NEW from, NEW to \in {"FAILED", "EXPIRED"},
           Move(c, from, to), UNCHANGED applied
    PROVE  RowTypes'
<1>1. \/ UNCHANGED checkout
      \/ checkout' = [checkout EXCEPT ![c] = [checkout[c] EXCEPT !.status = to]]
  BY DEF Move, RowTypes, CheckoutRow
<1>2. [checkout[c] EXCEPT !.status = to] \in CheckoutRow
  BY DEF RowTypes, CheckoutRow
<1>3. QED
  BY <1>1, <1>2, RowReplaced DEF RowTypes

LEMMA FailedTypes ==
    ASSUME RowTypes, NEW c \in Checkouts, UNCHANGED applied,
           checkout' = [checkout EXCEPT ![c].status = "FAILED"]
    PROVE  RowTypes'
<1>1. [checkout[c] EXCEPT !.status = "FAILED"] \in CheckoutRow
  BY DEF RowTypes, CheckoutRow
<1>2. QED
  BY <1>1, RowReplaced DEF RowTypes

LEMMA AttemptTypes ==
    ASSUME RowTypes, NEW c \in Checkouts
    PROVE  Attempted(c) \in [Checkouts -> CheckoutRow]
  BY CheckoutAssumption DEF Attempted, RowTypes, CheckoutRow

\* A handler goes on with its checkout, or gives it up.
LEMMA GotoTypes ==
    ASSUME CompleterTypes, NEW p \in Completers, completer[p].pc # "idle",
           NEW pc \in {"idle", "ask", "fail", "claim", "catch"}, Goto(p, pc)
    PROVE  CompleterTypes'
<1>1. CASE pc = "idle"
  BY <1>1 DEF CompleterTypes, Goto, Free, Worker
<1>2. CASE pc # "idle"
  BY <1>2 DEF CompleterTypes, Goto, Worker
<1>3. QED
  BY <1>1, <1>2

LEMMA ScanToTypes ==
    ASSUME ScanTypes, NEW s \in Scans, scan[s].pc # "idle",
           NEW pc \in {"idle", "count", "review"}, ScanTo(s, pc)
    PROVE  ScanTypes'
<1>1. CASE pc = "idle"
  BY <1>1 DEF ScanTypes, ScanTo, Free, Worker
<1>2. CASE pc # "idle"
  BY <1>2 DEF ScanTypes, ScanTo, Worker
<1>3. QED
  BY <1>1, <1>2

\* Every operation on a checkout keeps the types.
LEMMA CheckoutTypes ==
    ASSUME TypeOK, CheckoutNext PROVE TypeOK'
<1> USE SubscriptionAssumption, CheckoutAssumption, TypesSplit
<1>h. ASSUME SubscriptionTypeOK', RowTypes', CompleterTypes', ScanTypes', ReviewerTypes'
      PROVE  TypeOK'
  BY <1>h DEF TypeOK, RowTypes, CompleterTypes, ScanTypes, ReviewerTypes
<1>a. ASSUME UNCHANGED subscriptionVars PROVE SubscriptionTypeOK'
  BY <1>a DEF subscriptionVars, SubscriptionTypeOK
<1>b. ASSUME UNCHANGED <<checkout, applied>> PROVE RowTypes'
  BY <1>b DEF RowTypes
<1>c. ASSUME UNCHANGED completer PROVE CompleterTypes'
  BY <1>c DEF CompleterTypes
<1>d. ASSUME UNCHANGED scan PROVE ScanTypes'
  BY <1>d DEF ScanTypes
<1>e. ASSUME UNCHANGED reviewer PROVE ReviewerTypes'
  BY <1>e DEF ReviewerTypes
<1>1. ASSUME NEW c \in Checkouts, NEW to \in Paid, CreatePlanCheckout(c, to) PROVE TypeOK'
  <2>1. now \in Nat /\ to \in Plans
    BY DEF SubscriptionTypeOK, Plans
  <2>2. RowTypes'
    <3> DEFINE row == [checkout[c] EXCEPT !.status = "CREATED", !.to = to,
                                           !.deadline = now + Expiry]
    <3>1. row \in CheckoutRow
      <4>1. checkout[c] \in CheckoutRow /\ now + Expiry \in Nat
        BY <2>1 DEF RowTypes
      <4>2. QED
        BY <2>1, <4>1 DEF CheckoutRow
    <3>2. checkout' = [checkout EXCEPT ![c] = row] /\ applied' = applied
      BY <1>1 DEF CreatePlanCheckout
    <3> HIDE DEF row
    <3>3. QED
      BY <3>1, <3>2, RowReplaced DEF RowTypes
  <2>3. QED
    BY <1>h, <1>1, <1>a, <1>c, <1>d, <1>e, <2>2 DEF CreatePlanCheckout
<1>2. ASSUME NEW c \in Checkouts, LinkOrder(c) \/ Pay(c) \/ ReportFailure(c) \/ RejectReview(c)
      PROVE  TypeOK'
  <2>1. CASE LinkOrder(c) \/ Pay(c)
    <3>1. RowTypes'
      <4>1. /\ [checkout[c] EXCEPT !.linked = TRUE] \in CheckoutRow
            /\ [checkout[c] EXCEPT !.order = "PAID"] \in CheckoutRow
        BY DEF RowTypes, CheckoutRow
      <4>2. /\ \/ checkout' = [checkout EXCEPT ![c] = [checkout[c] EXCEPT !.linked = TRUE]]
               \/ checkout' = [checkout EXCEPT ![c] = [checkout[c] EXCEPT !.order = "PAID"]]
            /\ applied' = applied
        BY <2>1 DEF LinkOrder, Pay
      <4>3. checkout' \in [Checkouts -> CheckoutRow]
        BY <4>1, <4>2, RowReplaced
      <4>4. QED
        BY <4>2, <4>3 DEF RowTypes
    <3>2. QED
      BY <1>h, <2>1, <3>1, <1>a, <1>c, <1>d, <1>e DEF LinkOrder, Pay
  <2>2. CASE ReportFailure(c) \/ RejectReview(c)
    <3>1. RowTypes'
      BY <2>2, MoveTypes, FailedTypes DEF ReportFailure, RejectReview
    <3>2. QED
      BY <1>h, <2>2, <3>1, <1>a, <1>c, <1>d, <1>e DEF ReportFailure, RejectReview
  <2>3. QED
    BY <1>2, <2>1, <2>2
<1>3. ASSUME NEW c \in Checkouts, NEW p \in Completers, CompleteRead(p, c) PROVE TypeOK'
  <2>1. Begins(p, checkout[c]) \in {"idle", "expire", "ask", "claim", "catch"}
    <3>1. checkout[c].status \in
              {"NONE", "CREATED", "PAID", "FAILED", "EXPIRED", "MANUAL_REVIEW"}
      BY DEF RowTypes, CheckoutRow
    <3>2. now \in Int /\ checkout[c].deadline \in Int
      BY DEF RowTypes, CheckoutRow, SubscriptionTypeOK
    <3>3. QED
      BY <3>1, <3>2 DEF Begins
  <2>2. CompleterTypes'
    BY <1>3, <2>1 DEF CompleteRead, CompleterTypes, Worker
  <2>3. QED
    BY <1>h, <1>3, <1>a, <1>b, <1>d, <1>e, <2>2 DEF CompleteRead
<1>4. ASSUME NEW c \in Checkouts, NEW s \in Scans, ScanRead(s, c) PROVE TypeOK'
  <2>1. ScanTypes'
    BY <1>4 DEF ScanRead, ScanTypes, Worker
  <2>2. QED
    BY <1>h, <1>4, <1>a, <1>b, <1>c, <1>e, <2>1 DEF ScanRead
<1>5. ASSUME NEW c \in Checkouts, NEW r \in Reviewers, ApproveRead(r, c) PROVE TypeOK'
  <2>1. ReviewerTypes'
    BY <1>5 DEF ApproveRead, ReviewerTypes, Worker
  <2>2. QED
    BY <1>h, <1>5, <1>a, <1>b, <1>c, <1>d, <2>1 DEF ApproveRead
<1>f. ASSUME NEW p \in Completers, completer[p].pc # "idle" PROVE completer[p].of \in Checkouts
  BY <1>f DEF CompleterTypes, Worker
<1>g. ASSUME NEW s \in Scans, scan[s].pc # "idle" PROVE scan[s].of \in Checkouts
  BY <1>g DEF ScanTypes, Worker
<1>6. ASSUME NEW p \in Completers,
             CompleteExpire(p) \/ CompleteAsk(p) \/ CompleteFail(p) \/ CompleteCatch(p)
      PROVE  TypeOK'
  <2>1. completer[p].of \in Checkouts
    BY <1>6, <1>f DEF CompleteExpire, CompleteAsk, CompleteFail, CompleteCatch
  <2>2. RowTypes'
    <3>1. CASE CompleteExpire(p) \/ CompleteAsk(p)
      BY <3>1, <2>1, <1>b, MoveTypes DEF CompleteExpire, CompleteAsk
    <3>2. CASE CompleteFail(p)
      BY <3>2, <2>1, FailedTypes DEF CompleteFail
    <3>3. CASE CompleteCatch(p)
      BY <3>3, <2>1, AttemptTypes DEF CompleteCatch, RowTypes
    <3>4. QED
      BY <1>6, <3>1, <3>2, <3>3
  <2>3. CompleterTypes'
    BY <1>6, GotoTypes DEF CompleteExpire, CompleteAsk, CompleteFail, CompleteCatch, Throw
  <2>4. QED
    BY <1>h, <1>6, <1>a, <1>d, <1>e, <2>2, <2>3
    DEF CompleteExpire, CompleteAsk, CompleteFail, CompleteCatch
<1>7. ASSUME NEW p \in Completers, CompleteClaim(p) PROVE TypeOK'
  <2>1. completer[p].of \in Checkouts
    BY <1>7, <1>f DEF CompleteClaim
  <2>2. CompleterTypes'
    BY <1>7, GotoTypes DEF CompleteClaim, Throw
  <2>3. SubscriptionTypeOK' /\ RowTypes'
    BY <1>7, <1>a, <1>b, <2>1, ApplyTypes DEF CompleteClaim
  <2>4. QED
    BY <1>h, <1>7, <1>d, <1>e, <2>2, <2>3 DEF CompleteClaim
<1>8. ASSUME NEW p \in Completers, CompleteFaults(p) PROVE TypeOK'
  <2>1. CompleterTypes'
    <3>1. completer[p].pc # "idle"
      BY <1>8 DEF CompleteFaults, Free, CompleterTypes, Worker
    <3>2. QED
      BY <1>8, <3>1, GotoTypes DEF CompleteFaults, Throw
  <2>2. QED
    BY <1>h, <1>8, <1>a, <1>b, <1>d, <1>e, <2>1 DEF CompleteFaults
<1>9. ASSUME NEW s \in Scans,
             ScanExpire(s) \/ ScanAsk(s) \/ ScanCount(s) \/ ScanReview(s)
      PROVE  TypeOK'
  <2>1. scan[s].of \in Checkouts
    BY <1>9, <1>g DEF ScanExpire, ScanAsk, ScanCount, ScanReview
  <2>2. ScanTypes'
    BY <1>9, ScanToTypes DEF ScanExpire, ScanAsk, ScanCount, ScanReview
  <2>3. CASE ScanExpire(s) \/ ScanAsk(s) \/ ScanCount(s)
    <3>1. RowTypes'
      <4>1. CASE ScanExpire(s) \/ ScanAsk(s)
        BY <4>1, <2>1, <1>b, MoveTypes DEF ScanExpire, ScanAsk
      <4>2. CASE ScanCount(s)
        BY <4>2, <2>1, AttemptTypes DEF ScanCount, RowTypes
      <4>3. QED
        BY <2>3, <4>1, <4>2
    <3>2. QED
      BY <1>h, <2>3, <1>a, <1>c, <1>e, <2>2, <3>1 DEF ScanExpire, ScanAsk, ScanCount
  <2>4. CASE ScanReview(s)
    <3>1. now \in Nat
      BY DEF SubscriptionTypeOK
    <3>2. RowTypes'
      <4> DEFINE c == scan[s].of
                 row == [Attempted(c)[c] EXCEPT !.status = "MANUAL_REVIEW", !.opened = now]
      <4>1. Attempted(c)[c] \in CheckoutRow
        BY <2>1, AttemptTypes
      <4>2. row \in CheckoutRow
        BY <3>1, <4>1 DEF CheckoutRow
      <4>3. \/ checkout' = checkout
            \/ checkout' = [checkout EXCEPT ![c] = row]
        BY <2>1, <2>4 DEF ScanReview, Attempted, RowTypes, CheckoutRow
      <4> HIDE DEF row
      <4>4. checkout' \in [Checkouts -> CheckoutRow] /\ applied' = applied
        BY <2>1, <2>4, <4>2, <4>3, RowReplaced DEF ScanReview, RowTypes
      <4>5. QED
        BY <4>4 DEF RowTypes
    <3>3. QED
      BY <1>h, <2>4, <1>a, <1>c, <1>e, <2>2, <3>2 DEF ScanReview
  <2>5. QED
    BY <1>9, <2>3, <2>4
<1>10. ASSUME NEW s \in Scans, ScanFaults(s) PROVE TypeOK'
  <2>1. ScanTypes'
    <3>1. scan[s].pc # "idle"
      BY <1>10 DEF ScanFaults, Free, ScanTypes, Worker
    <3>2. QED
      BY <1>10, <3>1, ScanToTypes DEF ScanFaults
  <2>2. QED
    BY <1>h, <1>10, <1>a, <1>b, <1>c, <1>e, <2>1 DEF ScanFaults
<1>11. ASSUME NEW r \in Reviewers, ApproveClaim(r) PROVE TypeOK'
  <2>1. reviewer[r].of \in Checkouts
    BY <1>11 DEF ApproveClaim, ReviewerTypes, Worker
  <2>2. SubscriptionTypeOK' /\ RowTypes'
    BY <1>11, <1>a, <1>b, <2>1, ApplyTypes DEF ApproveClaim
  <2>3. ReviewerTypes'
    BY <1>11 DEF ApproveClaim, ReviewerTypes, Worker, Free
  <2>4. QED
    BY <1>h, <1>11, <1>c, <1>d, <2>2, <2>3 DEF ApproveClaim
<1>12. ASSUME NEW r \in Reviewers, ReviewerLeaves(r) PROVE TypeOK'
  <2>1. ReviewerTypes'
    BY <1>12 DEF ReviewerLeaves, ReviewerTypes, Worker, Free
  <2>2. QED
    BY <1>h, <1>12, <1>a, <1>b, <1>c, <1>d, <2>1 DEF ReviewerLeaves
<1>13. QED
  BY <1>1, <1>2, <1>3, <1>4, <1>5, <1>6, <1>7, <1>8, <1>9, <1>10, <1>11, <1>12
  DEF CheckoutNext

LEMMA TypesInit == Init => TypeOK
  BY SubscriptionAssumption, CheckoutAssumption
  DEF Init, SubscriptionInit, TypeOK, SubscriptionTypeOK, CheckoutRow, Worker, Free, CompanyRow,
      ChangeRow, PaymentRow, RequestRow, Plans, Times, Live, Idle, NoRow

LEMMA TypesStep == TypeOK /\ [Next]_vars => TypeOK'
<1> SUFFICES ASSUME TypeOK, [Next]_vars PROVE TypeOK'
  OBVIOUS
<1>1. CASE SubscriptionNext /\ UNCHANGED checkoutVars
  <2>1. SubscriptionTypeOK'
    BY <1>1, TypesSplit, SubscriptionTypes
  <2>2. QED
    BY <1>1, <2>1 DEF TypeOK, checkoutVars
<1>2. CASE CheckoutNext
  BY <1>2, CheckoutTypes
<1>3. CASE UNCHANGED vars
  BY <1>3 DEF vars, checkoutVars, subscriptionVars, TypeOK, SubscriptionTypeOK
<1>4. QED
  BY <1>1, <1>2, <1>3 DEF Next

\* Type correctness of checkouts and subscription: every handler keeps its
\* checkout until it ends, and no period or clock leaves its range.
THEOREM PlansTypeCorrect == Spec => []TypeOK
  BY TypesInit, TypesStep, PTL DEF Spec

-----------------------------------------------------------------------------
LEMMA WhoApplies ==
    ASSUME [Next]_vars, applied' # applied
    PROVE  (\E p \in Completers : CompleteClaim(p)) \/ (\E r \in Reviewers : ApproveClaim(r))
  BY DEF Next, CheckoutNext, vars, checkoutVars, CreatePlanCheckout, LinkOrder, Pay,
     ReportFailure, RejectReview, CompleteRead, ScanRead, ApproveRead, CompleteExpire,
     CompleteAsk, CompleteFail, CompleteCatch, CompleteFaults, ScanExpire, ScanAsk, ScanCount,
     ScanReview, ScanFaults, ReviewerLeaves

\* The plan is changed by a claim alone, of an open checkout or of one under
\* review, and its row is PAID afterwards.
LEMMA OnlyClaimsApply ==
    ASSUME TypeOK, [Next]_vars, NEW c \in Checkouts
    PROVE  \/ applied'[c] = applied[c]
           \/ /\ checkout[c].status \in {"CREATED", "MANUAL_REVIEW"}
              /\ applied'[c] = applied[c] + 1
              /\ checkout' = [checkout EXCEPT ![c].status = "PAID"]
<1> USE DEF TypeOK, Worker
<1>1. CASE UNCHANGED applied
  BY <1>1
<1>2. ASSUME NEW p \in Completers, CompleteClaim(p), applied' # applied
      PROVE  LET d == completer[p].of IN
             d \in Checkouts /\ checkout[d].status = "CREATED" /\ Apply(d)
  BY <1>2 DEF CompleteClaim, Claimable
<1>3. ASSUME NEW r \in Reviewers, ApproveClaim(r), applied' # applied
      PROVE  LET d == reviewer[r].of IN
             d \in Checkouts /\ checkout[d].status = "MANUAL_REVIEW" /\ Apply(d)
  BY <1>3 DEF ApproveClaim
<1>4. ASSUME NEW d \in Checkouts, Apply(d), checkout[d].status \in {"CREATED", "MANUAL_REVIEW"}
      PROVE  \/ applied'[c] = applied[c]
             \/ /\ checkout[c].status \in {"CREATED", "MANUAL_REVIEW"}
                /\ applied'[c] = applied[c] + 1
                /\ checkout' = [checkout EXCEPT ![c].status = "PAID"]
  BY <1>4 DEF Apply
<1>5. CASE applied' # applied
  BY <1>2, <1>3, <1>4, <1>5, WhoApplies
<1>6. QED
  BY <1>1, <1>5

\* A closed checkout never changes the plan: the row is tested again by the
\* very statement that claims it.
THEOREM ClosedCheckoutsAreClosed == Spec => ClosedNeverApplies
<1>1. TypeOK /\ [Next]_vars =>
        [\A c \in Checkouts : checkout[c].status \notin {"CREATED", "MANUAL_REVIEW"}
            => applied'[c] = applied[c]]_vars
  BY OnlyClaimsApply
<1>2. QED
  BY <1>1, PlansTypeCorrect, PTL DEF Spec, ClosedNeverApplies

LEMMA RowWriters ==
    ASSUME [Next]_vars, checkout' # checkout
    PROVE  \/ \E d \in Checkouts :
                 \/ \E to \in Paid : CreatePlanCheckout(d, to)
                 \/ LinkOrder(d) \/ Pay(d) \/ ReportFailure(d) \/ RejectReview(d)
           \/ \E p \in Completers :
                 CompleteExpire(p) \/ CompleteFail(p) \/ CompleteClaim(p) \/ CompleteCatch(p)
           \/ \E s \in Scans : ScanExpire(s) \/ ScanCount(s) \/ ScanReview(s)
           \/ \E r \in Reviewers : ApproveClaim(r)
  BY DEF Next, CheckoutNext, vars, checkoutVars, CompleteRead, ScanRead, ApproveRead,
     CompleteAsk, CompleteFaults, ScanAsk, ScanFaults, ReviewerLeaves

\* What can happen to the status of a row.
LEMMA StatusSteps ==
    ASSUME TypeOK, [Next]_vars, NEW c \in Checkouts
    PROVE  \/ checkout'[c].status = checkout[c].status
           \/ checkout'[c].status = "FAILED"
           \/ checkout'[c].status = "CREATED" /\ checkout[c].status = "NONE"
           \/ checkout'[c].status \in {"EXPIRED", "MANUAL_REVIEW"} /\ checkout[c].status = "CREATED"
           \/ checkout'[c].status = "PAID" /\ applied'[c] = applied[c] + 1
<1> USE DEF TypeOK, CheckoutRow
<1>1. CASE UNCHANGED checkout
  BY <1>1
<1>2. ASSUME NEW d, NEW to, CreatePlanCheckout(d, to)
      PROVE  \/ checkout'[c].status = checkout[c].status
             \/ checkout'[c].status = "CREATED" /\ checkout[c].status = "NONE"
  BY <1>2 DEF CreatePlanCheckout
<1>3. ASSUME NEW d, LinkOrder(d) \/ Pay(d) PROVE checkout'[c].status = checkout[c].status
  BY <1>3 DEF LinkOrder, Pay
<1>4. ASSUME NEW d, ReportFailure(d) \/ RejectReview(d)
      PROVE  checkout'[c].status \in {checkout[c].status, "FAILED"}
  BY <1>4 DEF ReportFailure, RejectReview, Move
<1>5. ASSUME NEW p \in Completers, CompleteExpire(p)
      PROVE  \/ checkout'[c].status = checkout[c].status
             \/ checkout'[c].status = "EXPIRED" /\ checkout[c].status = "CREATED"
  BY <1>5 DEF CompleteExpire, Move
<1>6. ASSUME NEW p \in Completers, CompleteFail(p)
      PROVE  checkout'[c].status \in {checkout[c].status, "FAILED"}
  BY <1>6 DEF CompleteFail
<1>7. ASSUME NEW p \in Completers, CompleteCatch(p)
      PROVE  checkout'[c].status = checkout[c].status
  BY <1>7 DEF CompleteCatch, Attempted
<1>8. ASSUME NEW s \in Scans, ScanExpire(s) \/ ScanCount(s) \/ ScanReview(s)
      PROVE  \/ checkout'[c].status = checkout[c].status
             \/ /\ checkout'[c].status \in {"EXPIRED", "MANUAL_REVIEW"}
                /\ checkout[c].status = "CREATED"
  BY <1>8 DEF ScanExpire, ScanCount, ScanReview, Move, Attempted, Reviewable
<1>9. ASSUME NEW d \in Checkouts, Apply(d)
      PROVE  \/ checkout'[c].status = checkout[c].status
             \/ checkout'[c].status = "PAID" /\ applied'[c] = applied[c] + 1
  BY <1>9 DEF Apply
<1>10. ASSUME NEW p \in Completers, CompleteClaim(p), checkout' # checkout
       PROVE  completer[p].of \in Checkouts /\ Apply(completer[p].of)
  BY <1>10 DEF CompleteClaim, Worker
<1>11. ASSUME NEW r \in Reviewers, ApproveClaim(r), checkout' # checkout
       PROVE  reviewer[r].of \in Checkouts /\ Apply(reviewer[r].of)
  BY <1>11 DEF ApproveClaim, Worker
<1>12. CASE checkout' # checkout
  BY <1>2, <1>3, <1>4, <1>5, <1>6, <1>7, <1>8, <1>9, <1>10, <1>11, <1>12, RowWriters
<1>13. QED
  BY <1>1, <1>12

\* A checkout changes the plan at most once, whoever completes it.
THEOREM CheckoutAppliedOnce == Spec => []AppliedOnce
<1>1. Init => AppliedOnce
  BY DEF Init, AppliedOnce
<1>2. TypeOK /\ AppliedOnce /\ [Next]_vars => AppliedOnce'
  <2> SUFFICES ASSUME TypeOK, AppliedOnce, [Next]_vars, NEW c \in Checkouts
               PROVE  /\ applied'[c] <= 1
                      /\ checkout'[c].status = "PAID" => applied'[c] = 1
                      /\ checkout'[c].status \in {"NONE", "CREATED", "EXPIRED", "MANUAL_REVIEW"}
                            => applied'[c] = 0
    BY DEF AppliedOnce
  <2>1. applied[c] \in Nat
    BY DEF TypeOK
  <2>2. CASE applied'[c] = applied[c]
    BY <2>1, <2>2, StatusSteps DEF AppliedOnce
  <2>3. CASE applied'[c] # applied[c]
    <3>1. checkout'[c].status = "PAID"
      BY <2>3, OnlyClaimsApply DEF TypeOK, CheckoutRow
    <3>2. QED
      BY <2>1, <2>3, <3>1, OnlyClaimsApply DEF AppliedOnce
  <2>4. QED
    BY <2>2, <2>3
<1>3. QED
  BY <1>1, <1>2, PlansTypeCorrect, PTL DEF Spec

-----------------------------------------------------------------------------
\* Whoever is about to change the plan has seen the order paid.
Witnessed ==
    /\ \A c \in Checkouts : checkout[c].status = "MANUAL_REVIEW" => checkout[c].order = "PAID"
    /\ \A p \in Completers :
        completer[p].pc = "claim" => checkout[completer[p].of].order = "PAID"
    /\ \A s \in Scans : scan[s].pc = "review" => checkout[scan[s].of].order = "PAID"

LEMMA OrdersStayPaid ==
    ASSUME TypeOK, [Next]_vars, NEW c \in Checkouts, checkout[c].order = "PAID"
    PROVE  checkout'[c].order = "PAID"
<1> USE DEF TypeOK, CheckoutRow
<1>1. CASE UNCHANGED checkout
  BY <1>1
<1>2. ASSUME NEW d, NEW to, CreatePlanCheckout(d, to) PROVE checkout'[c].order = "PAID"
  BY <1>2 DEF CreatePlanCheckout
<1>3. ASSUME NEW d, LinkOrder(d) \/ Pay(d) \/ ReportFailure(d) PROVE checkout'[c].order = "PAID"
  <2>1. \/ checkout' = [checkout EXCEPT ![d].linked = TRUE]
        \/ checkout' = [checkout EXCEPT ![d].order = "PAID"]
        \/ checkout' = [checkout EXCEPT ![d].status = "FAILED"]
    BY <1>3 DEF LinkOrder, Pay, ReportFailure
  <2>2. QED
    BY <2>1
<1>4. ASSUME NEW d, RejectReview(d) PROVE checkout'[c].order = "PAID"
  BY <1>4 DEF RejectReview, Move
<1>5. ASSUME NEW p, CompleteExpire(p) \/ CompleteFail(p) PROVE checkout'[c].order = "PAID"
  BY <1>5 DEF CompleteExpire, CompleteFail, Move
<1>6. ASSUME NEW p, CompleteClaim(p) PROVE checkout'[c].order = "PAID"
  BY <1>6 DEF CompleteClaim, Apply
<1>7. ASSUME NEW p, CompleteCatch(p) PROVE checkout'[c].order = "PAID"
  BY <1>7 DEF CompleteCatch, Attempted
<1>8. ASSUME NEW s, ScanExpire(s) \/ ScanCount(s) PROVE checkout'[c].order = "PAID"
  BY <1>8 DEF ScanExpire, ScanCount, Move, Attempted
<1>9. ASSUME NEW s, ScanReview(s) PROVE checkout'[c].order = "PAID"
  <2>1. CASE checkout' = checkout
    BY <2>1
  <2>2. ASSUME NEW d,
               checkout' = [Attempted(d) EXCEPT ![d].status = "MANUAL_REVIEW", ![d].opened = now]
        PROVE  checkout'[c].order = "PAID"
    <3>1. Attempted(d) \in [Checkouts -> CheckoutRow] /\ Attempted(d)[c].order = "PAID"
      <4>1. CASE d \in Checkouts
        <5> DEFINE row == checkout[d]
                   more == [row EXCEPT !.attempts = IF @ < MaxAttempts THEN @ + 1 ELSE @]
        <5>1. row \in CheckoutRow
          BY <4>1
        <5>2. more \in CheckoutRow /\ more.order = row.order
          <6> HIDE DEF row
          <6>1. QED
            BY <5>1, CheckoutAssumption
        <5>3. Attempted(d) = [checkout EXCEPT ![d] = more]
          BY DEF Attempted
        <5> HIDE DEF more, CheckoutRow
        <5>4. QED
          BY <5>2, <5>3
      <4>2. CASE d \notin Checkouts
        BY <4>2 DEF Attempted
      <4>3. QED
        BY <4>1, <4>2
    <3> DEFINE rows == Attempted(d)
    <3>2. rows \in [Checkouts -> CheckoutRow] /\ rows[c].order = "PAID"
      BY <3>1
    <3> HIDE DEF rows
    <3>3. [rows EXCEPT ![d].status = "MANUAL_REVIEW", ![d].opened = now][c].order = "PAID"
      BY <3>2
    <3>4. QED
      BY <2>2, <3>3 DEF rows
  <2>3. QED
    BY <1>9, <2>1, <2>2 DEF ScanReview
<1>10. ASSUME NEW r, ApproveClaim(r) PROVE checkout'[c].order = "PAID"
  BY <1>10 DEF ApproveClaim, Apply
<1>11. QED
  BY <1>1, <1>2, <1>3, <1>4, <1>5, <1>6, <1>7, <1>8, <1>9, <1>10, RowWriters

\* Only the scan opens a review, of a checkout it has found paid.
LEMMA ReviewsOpened ==
    ASSUME TypeOK, [Next]_vars, NEW c \in Checkouts,
           checkout[c].status # "MANUAL_REVIEW", checkout'[c].status = "MANUAL_REVIEW"
    PROVE  \E s \in Scans : scan[s].pc = "review" /\ scan[s].of = c
<1> USE DEF TypeOK, CheckoutRow
<1>1. ASSUME NEW d, NEW to, CreatePlanCheckout(d, to) \/ LinkOrder(d) \/ Pay(d) \/ ReportFailure(d)
      PROVE  FALSE
  BY <1>1 DEF CreatePlanCheckout, LinkOrder, Pay, ReportFailure
<1>2. ASSUME NEW d, RejectReview(d) PROVE FALSE
  BY <1>2 DEF RejectReview, Move
<1>3. ASSUME NEW p, CompleteExpire(p) \/ CompleteFail(p) PROVE FALSE
  BY <1>3 DEF CompleteExpire, CompleteFail, Move
<1>4. ASSUME NEW p, CompleteClaim(p) PROVE FALSE
  BY <1>4 DEF CompleteClaim, Apply
<1>5. ASSUME NEW p, CompleteCatch(p) PROVE FALSE
  BY <1>5 DEF CompleteCatch, Attempted
<1>6. ASSUME NEW s, ScanExpire(s) \/ ScanCount(s) PROVE FALSE
  BY <1>6 DEF ScanExpire, ScanCount, Move, Attempted
<1>7. ASSUME NEW r, ApproveClaim(r) PROVE FALSE
  BY <1>7 DEF ApproveClaim, Apply
<1>8. PICK s \in Scans : ScanReview(s)
  <2>1. checkout' # checkout
    OBVIOUS
  <2>2. QED
    BY <1>1, <1>2, <1>3, <1>4, <1>5, <1>6, <1>7, <2>1, RowWriters
<1>9. scan[s].of = c
  BY <1>8 DEF ScanReview, Attempted
<1>10. QED
  BY <1>8, <1>9 DEF ScanReview

LEMMA CompleterMoves ==
    ASSUME [Next]_vars, completer' # completer
    PROVE  \E p \in Completers :
              \/ \E c \in Checkouts : CompleteRead(p, c)
              \/ CompleteExpire(p) \/ CompleteAsk(p) \/ CompleteFail(p) \/ CompleteClaim(p)
              \/ CompleteCatch(p) \/ CompleteFaults(p)
  BY DEF Next, CheckoutNext, vars, checkoutVars, CreatePlanCheckout, LinkOrder, Pay,
     ReportFailure, RejectReview, ScanRead, ApproveRead, ScanExpire, ScanAsk, ScanCount,
     ScanReview, ScanFaults, ApproveClaim, ReviewerLeaves

LEMMA ScanMoves ==
    ASSUME [Next]_vars, scan' # scan
    PROVE  \E s \in Scans :
              \/ \E c \in Checkouts : ScanRead(s, c)
              \/ ScanExpire(s) \/ ScanAsk(s) \/ ScanCount(s) \/ ScanReview(s) \/ ScanFaults(s)
  BY DEF Next, CheckoutNext, vars, checkoutVars, CreatePlanCheckout, LinkOrder, Pay,
     ReportFailure, RejectReview, CompleteRead, ApproveRead, CompleteExpire, CompleteAsk,
     CompleteFail, CompleteClaim, CompleteCatch, CompleteFaults, ApproveClaim, ReviewerLeaves

LEMMA WitnessedStep == TypeOK /\ Witnessed /\ [Next]_vars => Witnessed'
<1> SUFFICES ASSUME TypeOK, Witnessed, [Next]_vars PROVE Witnessed'
  OBVIOUS
<1> USE DEF TypeOK
<1>0. /\ \A p \in Completers : completer[p].pc # "idle" => completer[p].of \in Checkouts
      /\ \A s \in Scans : scan[s].pc # "idle" => scan[s].of \in Checkouts
  BY DEF Worker
<1>1. ASSUME NEW c \in Checkouts, checkout'[c].status = "MANUAL_REVIEW"
      PROVE  checkout'[c].order = "PAID"
  <2>1. checkout[c].order = "PAID"
    BY <1>1, ReviewsOpened DEF Witnessed
  <2>2. QED
    BY <2>1, OrdersStayPaid
<1>2. ASSUME NEW p \in Completers, completer'[p].pc = "claim"
      PROVE  checkout'[completer'[p].of].order = "PAID"
  <2> DEFINE found == /\ completer'[p].of \in Checkouts
                      /\ checkout[completer'[p].of].order = "PAID"
  <2>1. ASSUME UNCHANGED completer PROVE found
    BY <1>0, <1>2, <2>1 DEF Witnessed
  <2>2. ASSUME NEW q \in Completers, NEW c \in Checkouts, CompleteRead(q, c) PROVE found
    <3>1. Begins(q, checkout[c]) = "claim" => q \in Hooks
      <4>1. checkout[c].status \in
                {"NONE", "CREATED", "PAID", "FAILED", "EXPIRED", "MANUAL_REVIEW"}
        BY DEF CheckoutRow
      <4>2. now \in Int /\ checkout[c].deadline \in Int
        BY DEF CheckoutRow, SubscriptionTypeOK
      <4>3. QED
        BY <4>1, <4>2 DEF Begins
    <3>2. QED
      BY <1>0, <1>2, <2>2, <3>1 DEF CompleteRead, Witnessed
  <2>3. ASSUME NEW q \in Completers, CompleteAsk(q) PROVE found
    BY <1>0, <1>2, <2>3 DEF CompleteAsk, Goto, FoundPaid, Witnessed, Free
  <2>4. ASSUME NEW q \in Completers,
               \/ CompleteExpire(q) \/ CompleteFail(q) \/ CompleteClaim(q)
               \/ CompleteCatch(q) \/ CompleteFaults(q)
        PROVE  found
    <3>1. completer' \in {[completer EXCEPT ![q] = Free], [completer EXCEPT ![q].pc = "catch"]}
      BY <2>4 DEF CompleteExpire, CompleteFail, CompleteClaim, CompleteCatch, CompleteFaults,
         Goto, Throw
    <3>2. QED
      BY <1>0, <1>2, <3>1 DEF Witnessed, Free, Worker
  <2>5. found
    BY <2>1, <2>2, <2>3, <2>4, CompleterMoves
  <2>6. QED
    BY <2>5, OrdersStayPaid
<1>3. ASSUME NEW s \in Scans, scan'[s].pc = "review"
      PROVE  checkout'[scan'[s].of].order = "PAID"
  <2> DEFINE found == /\ scan'[s].of \in Checkouts
                      /\ checkout[scan'[s].of].order = "PAID"
  <2>1. ASSUME UNCHANGED scan PROVE found
    BY <1>0, <1>3, <2>1 DEF Witnessed
  <2>2. ASSUME NEW q \in Scans, NEW c \in Checkouts, ScanRead(q, c) PROVE found
    BY <1>0, <1>3, <2>2 DEF ScanRead, Witnessed
  <2>3. ASSUME NEW q \in Scans, ScanAsk(q) PROVE found
    BY <1>0, <1>3, <2>3 DEF ScanAsk, ScanTo, Witnessed, Free
  <2>4. ASSUME NEW q \in Scans,
               ScanExpire(q) \/ ScanCount(q) \/ ScanReview(q) \/ ScanFaults(q)
        PROVE  found
    <3>1. scan' \in {[scan EXCEPT ![q] = Free], [scan EXCEPT ![q].pc = "count"]}
      BY <2>4 DEF ScanExpire, ScanCount, ScanReview, ScanFaults, ScanTo
    <3>2. QED
      BY <1>0, <1>3, <3>1 DEF Witnessed, Free, Worker
  <2>5. found
    BY <2>1, <2>2, <2>3, <2>4, ScanMoves
  <2>6. QED
    BY <2>5, OrdersStayPaid
<1>4. QED
  BY <1>1, <1>2, <1>3 DEF Witnessed

\* No plan without a payment: whoever claims a checkout, the page, the webhook
\* or a reviewer, its order was paid.
THEOREM PlansArePaidFor == Spec => []AppliedOnlyIfPaid
<1>1. Init => Witnessed /\ AppliedOnlyIfPaid
  BY DEF Init, Witnessed, AppliedOnlyIfPaid, Free
<1>2. TypeOK /\ Witnessed /\ AppliedOnlyIfPaid /\ [Next]_vars => AppliedOnlyIfPaid'
  <2> SUFFICES ASSUME TypeOK, Witnessed, AppliedOnlyIfPaid, [Next]_vars,
                      NEW c \in Checkouts, applied'[c] > 0
               PROVE  checkout'[c].order = "PAID"
    BY DEF AppliedOnlyIfPaid
  <2>1. CASE applied'[c] = applied[c]
    BY <2>1, OrdersStayPaid DEF AppliedOnlyIfPaid
  <2>2. CASE applied'[c] # applied[c]
    <3>1. \/ \E p \in Completers : completer[p].pc = "claim" /\ completer[p].of = c
          \/ checkout[c].status = "MANUAL_REVIEW"
      <4>1. applied' # applied
        BY <2>2
      <4>2. ASSUME NEW p \in Completers, CompleteClaim(p)
            PROVE  completer[p].pc = "claim" /\ completer[p].of = c
        BY <2>2, <4>2 DEF TypeOK, CompleteClaim, Apply
      <4>3. ASSUME NEW r \in Reviewers, ApproveClaim(r)
            PROVE  checkout[c].status = "MANUAL_REVIEW"
        BY <2>2, <4>3 DEF TypeOK, ApproveClaim, Apply
      <4>4. QED
        BY <4>1, <4>2, <4>3, WhoApplies
    <3>2. checkout[c].order = "PAID"
      BY <3>1 DEF Witnessed
    <3>3. QED
      BY <3>2, OrdersStayPaid
  <2>3. QED
    BY <2>1, <2>2
<1>3. QED
  BY <1>1, <1>2, WitnessedStep, PlansTypeCorrect, PTL DEF Spec

-----------------------------------------------------------------------------
(* The subscription itself: payments put their plan in force once, and the *)
(* jobs that end a plan respect a period that was bought meanwhile.        *)

\* A checkout touches the subscription only to start a period.
LEMMA CheckoutStarts ==
    ASSUME CheckoutNext
    PROVE  /\ UNCHANGED <<env, now, payment, activated, renewal, expiry, lapse>>
           /\ company' = company \/ \E plan : company' = Started(plan, "ACTIVE")
<1>1. ASSUME UNCHANGED subscriptionVars
      PROVE  UNCHANGED <<env, now, payment, activated, renewal, expiry, lapse, company>>
  BY <1>1 DEF subscriptionVars
<1>2. ASSUME NEW c, Apply(c)
      PROVE  /\ UNCHANGED <<env, now, payment, activated, renewal, expiry, lapse>>
             /\ \E plan : company' = Started(plan, "ACTIVE")
  BY <1>2 DEF Apply
<1>3. \/ UNCHANGED subscriptionVars
      \/ \E c : Apply(c)
  <2>1. ASSUME NEW p \in Completers,
               \/ CompleteExpire(p) \/ CompleteAsk(p) \/ CompleteFail(p) \/ CompleteClaim(p)
               \/ CompleteCatch(p) \/ CompleteFaults(p)
        PROVE  UNCHANGED subscriptionVars \/ \E c : Apply(c)
    BY <2>1 DEF CompleteExpire, CompleteAsk, CompleteFail, CompleteClaim, CompleteCatch, CompleteFaults
  <2>2. ASSUME NEW s \in Scans,
               ScanExpire(s) \/ ScanAsk(s) \/ ScanCount(s) \/ ScanReview(s) \/ ScanFaults(s)
        PROVE  UNCHANGED subscriptionVars
    BY <2>2 DEF ScanExpire, ScanAsk, ScanCount, ScanReview, ScanFaults
  <2>3. ASSUME NEW r \in Reviewers, ApproveClaim(r) \/ ReviewerLeaves(r)
        PROVE  UNCHANGED subscriptionVars \/ \E c : Apply(c)
    BY <2>3 DEF ApproveClaim, ReviewerLeaves
  <2>4. ASSUME NEW c \in Checkouts,
               \/ \E to \in Paid : CreatePlanCheckout(c, to)
               \/ LinkOrder(c) \/ Pay(c) \/ ReportFailure(c) \/ RejectReview(c)
               \/ \E p \in Completers : CompleteRead(p, c)
               \/ \E s \in Scans : ScanRead(s, c)
               \/ \E r \in Reviewers : ApproveRead(r, c)
        PROVE  UNCHANGED subscriptionVars
    BY <2>4 DEF CreatePlanCheckout, LinkOrder, Pay, ReportFailure, RejectReview, CompleteRead,
       ScanRead, ApproveRead
  <2>5. QED
    BY <2>1, <2>2, <2>3, <2>4 DEF CheckoutNext
<1>4. QED
  BY <1>1, <1>2, <1>3

\* What a step may do to a payment.
LEMMA PaymentSteps ==
    ASSUME [Next]_vars
    PROVE  \/ UNCHANGED <<payment, activated>>
           \/ \E o \in Orders :
                \/ \E plan \in Paid : CreateSubscriptionOrder(o, plan)
                \/ PaySubscriptionOrder(o) \/ ActivateSubscription(o) \/ FailSubscriptionPayment(o)
<1>1. CASE CheckoutNext \/ UNCHANGED vars
  BY <1>1, CheckoutStarts DEF vars, subscriptionVars
<1>2. CASE SubscriptionNext
  BY <1>2 DEF SubscriptionNext, Page, Tick, ScheduleRead, ScheduleReplace, ScheduleCommit, UndoRead, UndoCommit,
     CancelRead, CancelCommit, ResumeRead, ResumeCommit, RequestDies, ChooseFree, RenewalRead, MarkPastDue,
     AutoDowngrade, RenewalDies, ExpiryRead, ExpiryClaim, LapseRead, LapseClaim, JobDies, ApplyRead,
     ApplyChange, ApplyThrows, ApplyFails, ApplyDies
<1>3. QED
  BY <1>1, <1>2 DEF Next

\* The page and every delivery of the webhook may say that an order is paid:
\* its plan is put in force once, and not before it is paid.
THEOREM PaymentActivatedOnce == Spec => []ActivatedOnce
<1>1. Init => ActivatedOnce
  BY DEF Init, SubscriptionInit, ActivatedOnce
<1>2. TypeOK /\ ActivatedOnce /\ [Next]_vars => ActivatedOnce'
  <2> SUFFICES ASSUME TypeOK, ActivatedOnce, [Next]_vars PROVE ActivatedOnce'
    OBVIOUS
  <2>0. payment \in [Orders -> PaymentRow] /\ activated \in [Orders -> Nat]
    BY DEF TypeOK, SubscriptionTypeOK
  <2>1. CASE UNCHANGED <<payment, activated>>
    BY <2>1 DEF ActivatedOnce
  <2>2. ASSUME NEW o \in Orders, NEW plan \in Paid, CreateSubscriptionOrder(o, plan)
        PROVE  ActivatedOnce'
    <3>1. activated' = activated /\ payment[o].status = "NONE"
      BY <2>2 DEF CreateSubscriptionOrder
    <3>2. payment'[o].status = "CREATED" /\ \A q \in Orders \ {o} : payment'[q] = payment[q]
      BY <2>0, <2>2 DEF CreateSubscriptionOrder
    <3>3. QED
      BY <2>0, <3>1, <3>2 DEF ActivatedOnce
  <2>3. ASSUME NEW o \in Orders, PaySubscriptionOrder(o) \/ FailSubscriptionPayment(o)
        PROVE  ActivatedOnce'
    BY <2>0, <2>3 DEF PaySubscriptionOrder, FailSubscriptionPayment, ActivatedOnce, PaymentRow
  <2>4. ASSUME NEW o \in Orders, ActivateSubscription(o) PROVE ActivatedOnce'
    BY <2>0, <2>4 DEF ActivateSubscription, Activatable, ActivatedOnce, PaymentRow
  <2>5. QED
    BY <2>1, <2>2, <2>3, <2>4, PaymentSteps
<1>3. QED
  BY <1>1, <1>2, PlansTypeCorrect, PTL DEF Spec

\* The jobs list companies by a clock of the past, and the renewal scan is
\* asleep unless it runs.
JobClocks ==
    /\ expiry.asOf <= now /\ lapse.asOf <= now
    /\ ~May("renewals") => renewal.pc = "idle"

\* What a step may do to the jobs and the plan, as far as they matter here.
LEMMA JobSteps ==
    ASSUME TypeOK, JobClocks, [Next]_vars
    PROVE  /\ JobClocks'
           /\ company'.status \in {"CANCELED", "PAST_DUE"} /\ company'.status # company.status
                => May("renewals") \/ (ExpiryClaim /\ Expirable) \/ (LapseClaim /\ Lapsable)
<1>0. /\ SubscriptionTypeOK /\ now \in Nat /\ expiry.asOf \in Nat /\ lapse.asOf \in Nat
      /\ company \in CompanyRow
  BY SubscriptionAssumption DEF TypeOK, SubscriptionTypeOK
<1> USE DEF JobClocks, May, Started
<1>1. CASE CheckoutNext \/ UNCHANGED vars
  <2>1. /\ UNCHANGED <<env, now, renewal, expiry, lapse>>
        /\ company' = company \/ \E plan : company' = Started(plan, "ACTIVE")
    BY <1>1, CheckoutStarts DEF vars, subscriptionVars
  <2>2. QED
    BY <2>1
<1>2. CASE Tick
  BY <1>0, <1>2 DEF Tick
<1>3. ASSUME NEW u \in Users, \/ \E to \in Plans : ScheduleRead(u, to)
                              \/ \E c \in Changes : UndoRead(u, c)
                              \/ CancelRead(u) \/ ResumeRead(u) \/ Page(u) \/ RequestDies(u)
      PROVE  /\ UNCHANGED <<env, now, renewal, expiry, lapse>>
             /\ company'.status \in {company.status, "ACTIVE"}
  <2>1. /\ UNCHANGED <<env, now, renewal, expiry, lapse>>
        /\ \/ company' = company
           \/ \E kept \in BOOLEAN : company' = [company EXCEPT !.cancelAtEnd = kept]
           \/ company' = [company EXCEPT !.cancelAtEnd = FALSE, !.status = "ACTIVE"]
    BY <1>3 DEF Page, ScheduleRead, ScheduleReplace, ScheduleCommit, UndoRead, UndoCommit,
       CancelRead, CancelCommit, ResumeRead, ResumeCommit, RequestDies
  <2>2. QED
    BY <1>0, <2>1 DEF CompanyRow
<1>4. CASE ChooseFree \/ ApplyChange
  <2>1. /\ UNCHANGED <<env, now, renewal, expiry, lapse>>
        /\ company'.status \in {"TRIALING", "ACTIVE"}
    BY <1>4 DEF ChooseFree, ApplyChange
  <2>2. QED
    BY <2>1
<1>5. ASSUME NEW o \in Orders,
             \/ \E plan \in Paid : CreateSubscriptionOrder(o, plan)
             \/ PaySubscriptionOrder(o) \/ ActivateSubscription(o) \/ FailSubscriptionPayment(o)
      PROVE  /\ UNCHANGED <<env, now, renewal, expiry, lapse>>
             /\ company'.status \in {company.status, "ACTIVE"}
  BY <1>5 DEF CreateSubscriptionOrder, PaySubscriptionOrder, ActivateSubscription, FailSubscriptionPayment
<1>6. CASE RenewalRead
  BY <1>6 DEF RenewalRead
<1>7. CASE MarkPastDue
  BY <1>7 DEF MarkPastDue
<1>8. CASE AutoDowngrade
  BY <1>8 DEF AutoDowngrade
<1>9. CASE RenewalDies
  BY <1>9 DEF RenewalDies
<1>10. CASE ExpiryRead \/ LapseRead
  BY <1>0, <1>10 DEF ExpiryRead, LapseRead
<1>11. CASE ExpiryClaim
  BY <1>0, <1>11 DEF ExpiryClaim
<1>12. CASE LapseClaim
  BY <1>0, <1>12 DEF LapseClaim
<1>13. CASE JobDies
  BY <1>0, <1>13 DEF JobDies
<1>14. CASE (\E c \in Changes : ApplyRead(c)) \/ ApplyThrows \/ ApplyFails \/ ApplyDies
  BY <1>14 DEF ApplyRead, ApplyThrows, ApplyFails, ApplyDies
<1>15. CASE SubscriptionNext
  BY <1>2, <1>3, <1>4, <1>5, <1>6, <1>7, <1>8, <1>9, <1>10, <1>11, <1>12, <1>13, <1>14, <1>15
  DEF SubscriptionNext
<1>16. QED
  BY <1>1, <1>15 DEF Next

\* A job ends only a period that is over when it writes, and cancels only what
\* is still to be canceled, whatever happened since it listed the company.
THEOREM PaidPeriodsRespected == Spec => JobsKeepPaidPeriod
<1>1. Init => JobClocks
  BY DEF Init, SubscriptionInit, JobClocks
<1>2. TypeOK /\ JobClocks /\ [Next]_vars => JobClocks'
  BY JobSteps
<1>3. ASSUME TypeOK, JobClocks, [Next]_vars,
             company'.status \in {"CANCELED", "PAST_DUE"}, company'.status # company.status,
             ~May("renewals")
      PROVE  company.ends < now /\ (company'.status = "CANCELED" => company.cancelAtEnd)
  <2>0. company.ends \in Int /\ now \in Int /\ expiry.asOf \in Int /\ lapse.asOf \in Int
    BY <1>3, SubscriptionAssumption DEF TypeOK, SubscriptionTypeOK, CompanyRow, Times
  <2>1. CASE ExpiryClaim /\ Expirable
    <3>1. company' = [company EXCEPT !.status = "PAST_DUE"] /\ company.ends < expiry.asOf
      BY <2>1 DEF ExpiryClaim, Expirable
    <3>2. company'.status = "PAST_DUE"
      BY <1>3, <3>1 DEF TypeOK, SubscriptionTypeOK, CompanyRow
    <3>3. QED
      BY <1>3, <2>0, <3>1, <3>2 DEF JobClocks
  <2>2. CASE LapseClaim /\ Lapsable
    BY <1>3, <2>0, <2>2 DEF LapseClaim, Lapsable, JobClocks
  <2>3. QED
    BY <1>3, <2>1, <2>2, JobSteps
<1>4. TypeOK /\ JobClocks /\ [Next]_vars =>
        [/\ company'.status \in {"CANCELED", "PAST_DUE"} /\ company'.status # company.status
         /\ ~May("renewals")
         => company.ends < now /\ (company'.status = "CANCELED" => company.cancelAtEnd)]_vars
  BY <1>3
<1>5. QED
  BY <1>1, <1>2, <1>4, PlansTypeCorrect, PTL DEF Spec, JobsKeepPaidPeriod
===============================================================================
