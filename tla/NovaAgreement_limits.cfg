\* Any committed header, however old; amounts at their limits.
SPECIFICATION FairSpec
CONSTANTS
  borrower = borrower
  lender = lender
  Stranger = Stranger
  Keys = {borrower, lender}
  Terms <- Extremes
  WillSign <- ExtremesSigned
  U64_MAX = 9
  HeaderLag = 2
  PAYOUT_OCCUPIED = 2
  AGREEMENT_OCCUPIED = 1
  RECEIPT_OCCUPIED = 1
  SHAPE_AGREEMENT_OCCUPIED = 2
  SHAPE_RECEIPT_OCCUPIED = 2
  SHAPE_PAYOUT_OCCUPIED = 1
  Capacities = {3, 6}
  DocumentedShape = TRUE
  MaxEpoch = 2
  MaxLedger = 1
CHECK_DEADLOCK FALSE
INVARIANTS
  HarnessCasesDecided
  ScriptIsTheAction
  ShapeAgreesWithNode
PROPERTIES
  EveryAgreementCloses
