\* The signatures of one origination, used twice.
SPECIFICATION Spec
CONSTANTS
  borrower = borrower
  lender = lender
  Stranger = Stranger
  Keys = {borrower, lender}
  Terms <- OneLoan
  WillSign <- LoanSigned
  U64_MAX = 9
  HeaderLag = 3
  PAYOUT_OCCUPIED = 2
  AGREEMENT_OCCUPIED = 2
  RECEIPT_OCCUPIED = 1
  SHAPE_AGREEMENT_OCCUPIED = 2
  SHAPE_RECEIPT_OCCUPIED = 2
  SHAPE_PAYOUT_OCCUPIED = 1
  Capacities = {3, 6}
  DocumentedShape = TRUE
  MaxEpoch = 3
  MaxLedger = 2
CHECK_DEADLOCK FALSE
INVARIANTS
  SignedIntentTakesEffectOnce
