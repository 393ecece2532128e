\* A transition long after the expiry.
SPECIFICATION Spec
CONSTANTS
  alice = alice
  bob = bob
  Keys = {alice}
  States = {"s0", "s1"}
  Policies = {"p"}
  Expiries = {0}
  Messages = {"m"}
  U64_MAX = 2
  HeaderLag = 0
  MaxEpoch = 1
  MaxSeals = 2
CHECK_DEADLOCK FALSE
INVARIANTS
  ExpiredStepRejected
