-------------------------- MODULE NovaStateLifecycle --------------------------
(***************************************************************************)
(* novaseal_lifecycle, the dispatching type script of the NovaSeal core:   *)
(* it bootstraps cells and moves them, with the chain that commits what it *)
(* accepts.  It is a second script for the cell of NovaState and checks    *)
(* other things.                                                           *)
(*                                                                         *)
(* The witness header repeats the fields of a step; equalities force most  *)
(* of them to the input and the outputs.  What stays the builder's choice  *)
(* is chosen here: the new state, the out point the header names, the      *)
(* receipt hash of the successor (no check reads it), and the message      *)
(* whose signature is presented, which no check relates to the rest.       *)
(*                                                                         *)
(* A transaction has the shape of the harness: a bootstrap has one         *)
(* NovaSeal cell out and none in, a transition one in and one out. The     *)
(* script reads input 0 and output 0 only and does not enforce that shape. *)
(***************************************************************************)
EXTENDS NovaCkb, Sequences

CONSTANTS
  Keys,      \* BIP340 keys and authority hashes alike
  States, Policies, Expiries,
  Messages,  \* 32-byte messages a wallet may sign
  MaxEpoch,  \* bound: the last epoch of the chain
  MaxSeals   \* bound: no transaction once there are this many cells

VARIABLES
  tip,     \* the chain's current epoch
  signed,  \* <<key, message>>: the BIP340 signatures in circulation
  seals    \* the NovaSeal cells, in order of creation

vars == <<tip, signed, seals>>

U64 == 0..U64_MAX

ASSUME LifecycleAssumption ==
  /\ Expiries \subseteq U64
  /\ MaxEpoch \in Nat /\ MaxSeals \in Nat

ReceiptHashes == {ZeroHash, Hash("receipt")}

NovaSealCellV0 ==
  [btc_authority_hash : Keys, state_hash : States, policy_hash : Policies,
   latest_receipt_hash : ReceiptHashes, nonce : U64, expiry : Expiries]

NoReceipt == [none |-> TRUE]
-----------------------------------------------------------------------------
BootstrapAccepts(cell) == cell.nonce = 0

\* Mutant: no check before the addition.
SuccessorAccepts_Wraps(old, new) ==
  /\ new.btc_authority_hash = old.btc_authority_hash
  /\ new.policy_hash = old.policy_hash
  /\ new.expiry = old.expiry
  /\ new.nonce = Add64(old.nonce, 1)

\* What the script compares of input 0 and output 0.
SuccessorAccepts(old, new) ==
  /\ new.btc_authority_hash = old.btc_authority_hash
  /\ new.policy_hash = old.policy_hash
  /\ new.expiry = old.expiry
  /\ old.nonce < U64_MAX
  /\ new.nonce = old.nonce + 1

\* The fields of output 1 that the script reads; named is the header's
\* old_cell_tx_hash.
Receipt(old, new, named) ==
  [policy_hash |-> old.policy_hash, old_cell |-> named,
   old_state_hash |-> old.state_hash, new_state_hash |-> new.state_hash,
   old_nonce |-> old.nonce, new_nonce |-> new.nonce,
   signer_authority_hash |-> old.btc_authority_hash, expiry |-> old.expiry]

\* Mutant: the public key is not compared with the authority.
SignatureAccepts_AnyKey(old, key, message) == <<key, message>> \in signed

\* The key is the cell's authority and the signature on the message verifies.
SignatureAccepts(old, key, message) ==
  /\ key = old.btc_authority_hash
  /\ <<key, message>> \in signed
-----------------------------------------------------------------------------
Spent == UNION {seals[j].spent : j \in DOMAIN seals}
Live  == DOMAIN seals \ Spent

Init ==
  /\ tip = 0
  /\ signed = {}
  /\ seals = <<>>

\* The chain moves to its next epoch.
Tick ==
  /\ tip < MaxEpoch
  /\ tip' = tip + 1
  /\ UNCHANGED <<signed, seals>>

Sign(key, message) ==
  /\ <<key, message>> \notin signed
  /\ signed' = signed \cup {<<key, message>>}
  /\ UNCHANGED <<tip, seals>>

Commit(spent, cell, receipt) ==
  /\ Len(seals) < MaxSeals
  /\ seals' = Append(seals, [spent |-> spent, cell |-> cell,
                             receipt |-> receipt, epoch |-> tip])
  /\ UNCHANGED <<tip, signed>>

OP_BOOTSTRAP(cell) ==
  /\ BootstrapAccepts(cell)
  /\ Commit({}, cell, NoReceipt)

OP_KEY_AUTH_TRANSITION(i, new, named, key, message) ==
  LET old == seals[i].cell IN
  /\ SuccessorAccepts(old, new)
  /\ SignatureAccepts(old, key, message)
  /\ Commit({i}, new, Receipt(old, new, named))

Next ==
  \/ Tick
  \/ \E key \in Keys, message \in Messages : Sign(key, message)
  \/ \E cell \in NovaSealCellV0 : OP_BOOTSTRAP(cell)
  \/ \E i \in Live, new \in NovaSealCellV0, named \in DOMAIN seals, s \in signed :
       OP_KEY_AUTH_TRANSITION(i, new, named, s[1], s[2])

Spec == Init /\ [][Next]_vars
-----------------------------------------------------------------------------
(***************************************************************************)
(* Properties.                                                             *)
(***************************************************************************)

Moves == {j \in DOMAIN seals : seals[j].spent # {}}

Parent(j) == CHOOSE i \in seals[j].spent : TRUE

\* The bootstrapped cell a cell descends from.
Origin[j \in Nat] == IF j \in Moves THEN Origin[Parent(j)] ELSE j

\* Type invariant: a cell spends an earlier one, and its receipt ascends.
TypeOK ==
  /\ tip \in 0..MaxEpoch
  /\ signed \subseteq Keys \X Messages
  /\ \A j \in DOMAIN seals :
       /\ seals[j].cell \in NovaSealCellV0
       /\ seals[j].spent \subseteq 1..(j - 1)
       /\ j \in Moves =>
            seals[j].receipt.old_nonce < seals[j].receipt.new_nonce

\* The receipts of a line, read in order, replay it: each starts from the
\* state and nonce at which the one before ended and counts one transition
\* more, so that the nonce never skips nor wraps, and each is signed for by the
\* authority of the bootstrap, whose policy and expiry stay; the line does not
\* move before that authority has signed.
ReceiptsReplayTheLine ==
  \A j \in Moves :
    LET receipt == seals[j].receipt
        cell    == seals[j].cell
        root    == seals[Origin[j]].cell IN
    /\ <<cell.policy_hash, cell.expiry>> = <<root.policy_hash, root.expiry>>
    /\ receipt.new_state_hash = cell.state_hash
    /\ receipt.new_nonce = cell.nonce
    /\ receipt.new_nonce = receipt.old_nonce + 1
    /\ receipt.signer_authority_hash = root.btc_authority_hash
    /\ \E s \in signed : s[1] = root.btc_authority_hash
    /\ IF Parent(j) \in Moves
       THEN /\ receipt.old_state_hash = seals[Parent(j)].receipt.new_state_hash
            /\ receipt.old_nonce = seals[Parent(j)].receipt.new_nonce
       ELSE /\ receipt.old_state_hash = seals[Parent(j)].cell.state_hash
            /\ receipt.old_nonce = 0

(***************************************************************************)
(* What the documents say and the code does not do.                        *)
(***************************************************************************)

\* Criterion 5 of the README: "An intent whose expiry has passed is rejected."
ExpiredStepRejected ==
  \A j \in Moves : seals[j].epoch <= seals[j].receipt.expiry + HeaderLag
==============================================================================
