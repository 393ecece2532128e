\* For each profile one thing and its twin from a replayed intent, rival intents,
\* and headers an epoch late.
SPECIFICATION Spec
CONSTANTS
  alice = alice
  bob = bob
  mallory = mallory
  Keys = {alice, bob, mallory}
  AssetKeys = {alice, bob}
  XudtOffers <- MCXudtOffers
  RwaOffers <- MCRwaOffers
  RwaPayouts = {"cash", "kind"}
  RwaWallet <- MCRwaWallet
  SealWallets <- MCSealWallets
  Widths <- MCWidths
  HeaderLag = 1
  MaxEpoch = 2
  MaxLedger = 4
  MaxSigned = 4
CHECK_DEADLOCK FALSE
INVARIANTS
  TypeOK
  SupplyConserved
  ReceiptsTraceTheLine
  ConsentOfTheNamed
  EventsTellTheStory
  ReceiptsBindTheSeal
PROPERTIES
  ImplementsAccounts
  ImplementsConsent
  ImplementsSeals
