---------------------------- MODULE WalletLedger ----------------------------
(***************************************************************************)
(* What the prepaid wallet of one company promises, independently of who   *)
(* charges it: the balance column of `Wallet` always equals the rows of    *)
(* `WalletTransaction`, and is never driven below zero.                    *)
(*                                                                         *)
(* The modules that write wallet rows refine this one.  A chargeable item  *)
(* is one message; a charge covers one message (single sends) or a batch   *)
(* of them (bulk sends), and costs Price each.  Refund rows carry no       *)
(* unique reference in the schema, so one item may have several of them: a *)
(* row is identified by the item and by the piece of code that wrote it.   *)
(*                                                                         *)
(* Here and in the other modules, an operator that stands directly before  *)
(* another one of the same parameters and is used nowhere (such as         *)
(* MayStallOnceMore before MayStall) is that operator with a plausible     *)
(* bug, kept to show that the properties notice it.                        *)
(***************************************************************************)
EXTENDS Integers, FiniteSets

CONSTANTS
    Items,          \* messages that can be charged for
    Refunders,      \* the handlers able to write a REFUND row
    Price,          \* MESSAGE_PRICE_PAISE
    Opening,        \* balance when the observation starts
    TopUpAmounts,   \* amounts a top-up may credit
    CreditBound     \* total credited in a checked behaviour

\* What is assumed of them; a hypothesis of the theorems.
LedgerAssumption ==
    /\ IsFiniteSet(Items)
    /\ IsFiniteSet(Refunders)
    /\ Price \in Nat \ {0}
    /\ Opening \in Nat
    /\ TopUpAmounts \subseteq Nat \ {0}
    /\ CreditBound \in Nat

VARIABLES
    balance,    \* Wallet.balancePaise
    credited,   \* sum of the CREDIT rows
    debits,     \* items with a DEBIT row
    refunds     \* REFUND rows, as <<item, refunder>>

vars == <<balance, credited, debits, refunds>>

TypeOK ==
    /\ balance \in Int
    /\ credited \in Nat
    /\ debits \subseteq Items
    /\ refunds \subseteq Items \X Refunders

Init ==
    /\ balance = Opening
    /\ credited = 0
    /\ debits = {}
    /\ refunds = {}

TopUp(amount) ==
    /\ credited + amount <= CreditBound
    /\ balance' = balance + amount
    /\ credited' = credited + amount
    /\ UNCHANGED <<debits, refunds>>

Cost(batch) == Price * Cardinality(batch)

Covered(batch) == balance >= Cost(batch)

\* The balance test and the decrement are one UPDATE ... WHERE statement.
Charge(batch) ==
    /\ Covered(batch)
    /\ balance' = balance - Cost(batch)
    /\ debits' = debits \cup batch
    /\ UNCHANGED <<credited, refunds>>

Refundable(items) == items \subseteq debits

\* The refund of one handler: a message, or all messages of a batch.
Refund(items, who) ==
    LET rows == items \X {who} IN
    /\ Refundable(items)
    /\ balance' = balance + Price * Cardinality(rows)
    /\ refunds' = refunds \cup rows
    /\ UNCHANGED <<credited, debits>>

Next ==
    \/ \E amount \in TopUpAmounts : TopUp(amount)
    \/ \E batch \in (SUBSET (Items \ debits)) \ {{}} : Charge(batch)
    \/ \E who \in Refunders :
       \E items \in (SUBSET {i \in Items : <<i, who>> \notin refunds}) \ {{}} : Refund(items, who)

Spec == Init /\ [][Next]_vars

-----------------------------------------------------------------------------
\* The stored balance is the signed sum of the ledger rows: no handler moves
\* money without its row, or writes a row without moving the money.
BalanceMatchesLedger ==
    balance = Opening + credited + Price * Cardinality(refunds)
                      - Price * Cardinality(debits)

\* The wallet is prepaid: no interleaving of charges overdraws it.
NeverOverdrawn == balance >= 0

\* Money is only ever given back for something that was charged.
RefundsFollowDebits == \A row \in refunds : row[1] \in debits

=============================================================================
