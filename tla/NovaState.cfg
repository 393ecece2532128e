\* Three lines of two keys, stale views, header lag.
SPECIFICATION Spec
CONSTANTS
  alice = alice
  bob = bob
  mallory = mallory
  Stranger = mallory
  Keys = {alice, bob}
  States = {"s0", "s1"}
  Policies = {"p", "q"}
  Expiries = {0, 1}
  Foundings <- ThreeLines
  LockArgs = {alice}
  U64_MAX = 2
  HeaderLag = 1
  MaxEpoch = 3
  MaxSeals = 5
  MaxSigned = 2
CHECK_DEADLOCK FALSE
INVARIANTS
  TypeOK
  IntentTakesEffectOnce
  StepsAreAuthorised
  ScriptIsTheTransition
  FixturesDecided
  ReceiptsOpenHistory
PROPERTIES
  ImplementsRegister
