\* Headers may trail the tip by an epoch; two agreements of the same terms.
SPECIFICATION Spec
CONSTANTS
  borrower = borrower
  lender = lender
  Stranger = Stranger
  Keys = {borrower, lender}
  Terms <- TwoWordings
  WillSign <- TwoWordingsSigned
  U64_MAX = 9
  HeaderLag = 1
  PAYOUT_OCCUPIED = 2
  AGREEMENT_OCCUPIED = 2
  RECEIPT_OCCUPIED = 1
  SHAPE_AGREEMENT_OCCUPIED = 2
  SHAPE_RECEIPT_OCCUPIED = 2
  SHAPE_PAYOUT_OCCUPIED = 1
  Capacities = {3, 6}
  DocumentedShape = TRUE
  MaxEpoch = 2
  MaxLedger = 2
CHECK_DEADLOCK FALSE
INVARIANTS
  TypeOK
  TerminalIsFinal
  SettlementAsNegotiated
  ReceiptsAreAuthorised
  ReceiptsChain
  DeadlinesHold
  IntentFixesOutcome
PROPERTIES
  ImplementsTerminalRights
