\* Two keys, two policies; long enough for the nonce to reach its limit.
SPECIFICATION Spec
CONSTANTS
  alice = alice
  bob = bob
  Keys = {alice, bob}
  States = {"s0", "s1"}
  Policies = {"p", "q"}
  Expiries = {0}
  Messages = {"m"}
  U64_MAX = 1
  HeaderLag = 0
  MaxEpoch = 1
  MaxSeals = 3
CHECK_DEADLOCK FALSE
INVARIANTS
  TypeOK
  ReceiptsReplayTheLine
