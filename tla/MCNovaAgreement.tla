--------------------------- MODULE MCNovaAgreement ---------------------------
(***************************************************************************)
(* Small instances of NovaAgreement for TLC.                               *)
(***************************************************************************)
EXTENDS NovaAgreementRights, NovaAgreementShape

CONSTANTS borrower, lender  \* model values

\* An ordinary agreement, with every amount different.
Loan ==
  [version |-> AGREEMENT_VERSION,
   agreement_id |-> "loan", terms_hash |-> "loan-terms",
   borrower |-> borrower, lender |-> lender, supported |-> TRUE,
   collateral_amount |-> 4, principal_amount |-> 2, fixed_fee_amount |-> 1,
   start_timepoint |-> 0, expiry_timepoint |-> 1]

\* The same agreement in every field that its origination intent names, for
\* less collateral.
RewordedLoan == [Loan EXCEPT !.collateral_amount = 1]

\* Principal plus fee exceeds U64_MAX = 9: it can never be repaid.  One key on
\* both sides.
HugeFee ==
  [Loan EXCEPT !.agreement_id = "huge-fee", !.terms_hash = "huge-fee-terms",
               !.fixed_fee_amount = 9, !.borrower = lender]

\* The same in every field of the origination intent, for a collateral that
\* fits no payout output: it can never be closed.
Vast == [HugeFee EXCEPT !.collateral_amount = 8]

SignOrigination(t) == {t.borrower, t.lender} \X {Offer(t)} \X {PATH_ORIGINATE}
SignClosings(t)    == {t.borrower, t.lender} \X {Active(t)} \X Closings

\* Either party may sign any transition of the loan, and the borrower even a
\* second repayment of the repaid loan.
OneLoan == {Loan}
LoanSigned ==
  SignOrigination(Loan) \cup SignClosings(Loan)
    \cup {<<borrower, Repaid(Loan), PATH_REPAY_BEFORE_EXPIRY>>}

\* Both wordings of the loan, with a lender who also signs repayments.
TwoWordings == {Loan, RewordedLoan}
TwoWordingsSigned ==
  SignOrigination(Loan)
    \cup {<<borrower, Repaid(Loan), PATH_REPAY_BEFORE_EXPIRY>>,
          <<lender, Active(Loan), PATH_REPAY_BEFORE_EXPIRY>>,
          <<borrower, Active(Loan), PATH_REPAY_BEFORE_EXPIRY>>,
          <<lender, Active(Loan), PATH_CLAIM_AFTER_EXPIRY>>,
          <<lender, Active(RewordedLoan), PATH_CLAIM_AFTER_EXPIRY>>}

\* Agreements at the limits of the arithmetic.  The lender
\* is willing to claim even the one whose claim cannot be paid out.
Extremes == {Loan, HugeFee, Vast}
ExtremesSigned ==
  UNION {SignOrigination(t) : t \in Extremes} \cup
  UNION {{<<t.borrower, Active(t), PATH_REPAY_BEFORE_EXPIRY>>,
          <<t.lender, Active(t), PATH_CLAIM_AFTER_EXPIRY>>} :
           t \in {Loan, HugeFee}} \cup
  {<<lender, Active(Vast), PATH_CLAIM_AFTER_EXPIRY>>}
==============================================================================
