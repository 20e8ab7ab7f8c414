-------------------------- MODULE WalletLedgerProofs --------------------------
(***************************************************************************)
(* The promises of the wallet, for every set of messages and refunders,    *)
(* every price and every opening balance.                                  *)
(***************************************************************************)
EXTENDS WalletLedger, FiniteSetTheorems, TLAPS

\* The three promises together with the typing they rest on: refunds of what
\* was charged, rows and balance in step, nothing below zero.
LedgerInv ==
    /\ TypeOK
    /\ BalanceMatchesLedger
    /\ NeverOverdrawn
    /\ RefundsFollowDebits

\* Multiplication by the price distributes over disjoint sets of rows.
LEMMA PriceOfUnion ==
    ASSUME LedgerAssumption, NEW S, NEW T, IsFiniteSet(S), IsFiniteSet(T), S \cap T = {}
    PROVE  /\ Price * Cardinality(S \cup T) = Price * Cardinality(S) + Price * Cardinality(T)
           /\ Price * Cardinality(S) \in Nat
           /\ Price * Cardinality(T) \in Nat
           /\ Price * Cardinality(S \cup T) \in Nat
<1>1. Cardinality(S) \in Nat /\ Cardinality(T) \in Nat
  BY FS_CardinalityType
<1>2. Cardinality(S \cup T) = Cardinality(S) + Cardinality(T)
  <2>1. Cardinality(S \cup T) = Cardinality(S) + Cardinality(T) - Cardinality(S \cap T)
    BY FS_Union
  <2>2. Cardinality(S \cap T) = 0
    BY FS_EmptySet
  <2>3. QED
    BY <1>1, <2>1, <2>2
<1>3. \A p, s, t \in Nat : p * (s + t) = p * s + p * t /\ p * s \in Nat
  OBVIOUS
<1>4. QED
  BY <1>1, <1>2, <1>3 DEF LedgerAssumption

\* Every set of rows a step adds or keeps is finite.
LEMMA RowsFinite ==
    ASSUME LedgerAssumption, TypeOK
    PROVE  IsFiniteSet(Items \X Refunders) /\ IsFiniteSet(debits) /\ IsFiniteSet(refunds)
<1>1. IsFiniteSet(Items \X Refunders)
  BY FS_Product DEF LedgerAssumption
<1>2. QED
  BY <1>1, FS_Subset DEF LedgerAssumption, TypeOK

\* Crediting keeps the promises: topUpWallet.
LEMMA TopUpStep ==
    ASSUME LedgerAssumption, LedgerInv, NEW amount \in TopUpAmounts, TopUp(amount)
    PROVE  LedgerInv'
<1>1. amount \in Nat
  BY DEF LedgerAssumption
<1>2. TypeOK' /\ RefundsFollowDebits'
  BY <1>1 DEF LedgerInv, TypeOK, RefundsFollowDebits, TopUp
<1>3. Price * Cardinality(refunds) \in Nat /\ Price * Cardinality(debits) \in Nat
  BY RowsFinite, FS_CardinalityType DEF LedgerAssumption, LedgerInv
<1>4. QED
  BY <1>1, <1>2, <1>3
  DEF LedgerAssumption, LedgerInv, TypeOK, TopUp, BalanceMatchesLedger, NeverOverdrawn

\* Charging keeps the promises: the guard is tested in the same statement.
LEMMA ChargeStep ==
    ASSUME LedgerAssumption, LedgerInv, NEW batch \in SUBSET (Items \ debits), Charge(batch)
    PROVE  LedgerInv'
<1>1. IsFiniteSet(batch) /\ IsFiniteSet(debits) /\ debits \cap batch = {}
  BY RowsFinite, FS_Subset DEF LedgerAssumption, LedgerInv
<1>2. /\ Price * Cardinality(debits \cup batch) = Price * Cardinality(debits) + Price * Cardinality(batch)
      /\ Price * Cardinality(debits) \in Nat
      /\ Price * Cardinality(batch) \in Nat
      /\ Price * Cardinality(debits \cup batch) \in Nat
  BY <1>1, PriceOfUnion
<1>3. Price * Cardinality(refunds) \in Nat
  BY RowsFinite, FS_CardinalityType DEF LedgerAssumption, LedgerInv
<1>4. TypeOK' /\ RefundsFollowDebits'
  BY <1>2 DEF LedgerInv, TypeOK, RefundsFollowDebits, Charge, Covered, Cost
<1>5. BalanceMatchesLedger' /\ NeverOverdrawn'
  BY <1>2, <1>3
  DEF LedgerAssumption, LedgerInv, TypeOK, Charge, Covered, Cost, BalanceMatchesLedger, NeverOverdrawn
<1>6. QED
  BY <1>4, <1>5 DEF LedgerInv

\* Refunding keeps the promises, however many rows an item already has.
LEMMA RefundStep ==
    ASSUME LedgerAssumption, LedgerInv, NEW who \in Refunders,
           NEW items \in SUBSET {i \in Items : <<i, who>> \notin refunds}, Refund(items, who)
    PROVE  LedgerInv'
<1> DEFINE rows == items \X {who}
<1>1. /\ rows \subseteq (Items \X Refunders) \ refunds
      /\ \A row \in rows : row[1] \in debits
      /\ balance' = balance + Price * Cardinality(rows)
      /\ refunds' = refunds \cup rows
      /\ UNCHANGED <<credited, debits>>
  BY DEF Refund, Refundable
<1> HIDE DEF rows
<1>2. IsFiniteSet(rows) /\ IsFiniteSet(refunds) /\ refunds \cap rows = {}
  BY <1>1, RowsFinite, FS_Subset DEF LedgerInv
<1>3. /\ Price * Cardinality(refunds \cup rows) = Price * Cardinality(refunds) + Price * Cardinality(rows)
      /\ Price * Cardinality(refunds) \in Nat
      /\ Price * Cardinality(rows) \in Nat
      /\ Price * Cardinality(refunds \cup rows) \in Nat
  BY <1>2, PriceOfUnion
<1>4. Price * Cardinality(debits) \in Nat
  BY RowsFinite, FS_CardinalityType DEF LedgerAssumption, LedgerInv
<1>5. TypeOK' /\ RefundsFollowDebits'
  BY <1>1, <1>3 DEF LedgerInv, TypeOK, RefundsFollowDebits
<1>6. BalanceMatchesLedger' /\ NeverOverdrawn'
  BY <1>1, <1>3, <1>4
  DEF LedgerAssumption, LedgerInv, TypeOK, BalanceMatchesLedger, NeverOverdrawn
<1>7. QED
  BY <1>5, <1>6 DEF LedgerInv

\* The promises are inductive.
LEMMA LedgerStep ==
    ASSUME LedgerAssumption, LedgerInv, [Next]_vars
    PROVE  LedgerInv'
<1>1. CASE \E amount \in TopUpAmounts : TopUp(amount)
  BY <1>1, TopUpStep
<1>2. CASE \E batch \in (SUBSET (Items \ debits)) \ {{}} : Charge(batch)
  BY <1>2, ChargeStep
<1>3. CASE \E who \in Refunders :
           \E items \in (SUBSET {i \in Items : <<i, who>> \notin refunds}) \ {{}} : Refund(items, who)
  BY <1>3, RefundStep
<1>4. CASE UNCHANGED vars
  BY <1>4 DEF vars, LedgerInv, TypeOK, BalanceMatchesLedger, NeverOverdrawn, RefundsFollowDebits
<1>5. QED
  BY <1>1, <1>2, <1>3, <1>4 DEF Next

\* The wallet balance always equals its ledger rows, is never negative, and
\* every refund row belongs to a charged message.
THEOREM LedgerCorrect ==
    ASSUME LedgerAssumption
    PROVE  Spec => [](BalanceMatchesLedger /\ NeverOverdrawn /\ RefundsFollowDebits)
<1>1. Init => LedgerInv
  BY FS_EmptySet
  DEF LedgerAssumption, Init, LedgerInv, TypeOK, BalanceMatchesLedger, NeverOverdrawn, RefundsFollowDebits
<1>2. LedgerInv /\ [Next]_vars => LedgerInv'
  BY LedgerStep
<1>3. LedgerInv => BalanceMatchesLedger /\ NeverOverdrawn /\ RefundsFollowDebits
  BY DEF LedgerInv
<1>4. QED
  BY <1>1, <1>2, <1>3, PTL DEF Spec
=============================================================================
