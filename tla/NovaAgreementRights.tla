------------------------ MODULE NovaAgreementRights --------------------------
(***************************************************************************)
(* NovaAgreement implements TerminalRights: slot i is the agreement cell   *)
(* created by transaction i, if that is an origination; its end is the     *)
(* transaction that spends the cell, and what it paid is read off that     *)
(* transaction's payout outputs.                                           *)
(***************************************************************************)
EXTENDS NovaAgreement

LedgerSlots == 1..(2 * MaxLedger)

Deal(a) ==
  [collateral |-> a.collateral_amount, principal |-> a.principal_amount,
   fee |-> a.fixed_fee_amount, expiry |-> a.expiry_timepoint]

Originated(i) == i \in DOMAIN ledger /\ ledger[i].path = PATH_ORIGINATE

Spender(i) == CHOOSE j \in DOMAIN ledger : i \in ledger[j].spent

EndOf(path) ==
  CASE path = PATH_REPAY_BEFORE_EXPIRY -> "repaid"
    [] path = PATH_CLAIM_AFTER_EXPIRY  -> "defaulted"
    [] OTHER -> "lost"

PhaseOf(i) ==
  IF ~Originated(i) THEN "none"
  ELSE IF i \in Live THEN "open" ELSE EndOf(ledger[Spender(i)].path)

NoDeal == [collateral |-> 0, principal |-> 0, fee |-> 0, expiry |-> 0]

\* The amounts of the typed payouts: output 1 is the lender's on both
\* closings, output 2 the borrower's.
PaidBy(tx) ==
  [lender |-> tx.payouts[1].data.amount,
   borrower |-> IF DOMAIN tx.payouts = {1} THEN 0
                ELSE tx.payouts[2].data.amount]

RightsPhase == [i \in LedgerSlots |-> PhaseOf(i)]

RightsDeal ==
  [i \in LedgerSlots |->
     IF Originated(i) THEN Deal(ledger[i].agreement) ELSE NoDeal]

RightsPaid ==
  [i \in LedgerSlots |->
     IF i \in Spent THEN PaidBy(ledger[Spender(i)])
     ELSE [lender |-> 0, borrower |-> 0]]

Rights == INSTANCE TerminalRights WITH
  Deals   <- {Deal(t) : t \in Terms},
  Slots   <- LedgerSlots,
  Grace   <- HeaderLag,
  Horizon <- MaxEpoch,
  epoch   <- tip,
  phase   <- RightsPhase,
  deal    <- RightsDeal,
  paid    <- RightsPaid

\* Seen through the payouts alone, every agreement behaves as TerminalRights
\* allows: it ends at most once, in its window, paying the exact amounts.
ImplementsTerminalRights == Rights!Spec
==============================================================================
