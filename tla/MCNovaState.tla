----------------------------- MODULE MCNovaState -----------------------------
(***************************************************************************)
(* Small instances of NovaState for TLC.                                   *)
(***************************************************************************)
EXTENDS NovaStateRegister, NovaStateFixtures

CONSTANTS alice, bob, mallory  \* model values

Cell(key, policy, nonce) ==
  [btc_authority_hash |-> key, state_hash |-> "s0", policy_hash |-> policy,
   latest_receipt_hash |-> ZeroHash, nonce |-> nonce, expiry |-> 1,
   lock_args |-> key]

\* Two lines of one key, a transition apart and the second one transition from
\* the last nonce, and a line of another key and policy.
ThreeLines == <<Cell(alice, "p", 0), Cell(alice, "p", 1), Cell(bob, "q", 0)>>
==============================================================================
