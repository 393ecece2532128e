------------------------------ MODULE NovaState ------------------------------
(***************************************************************************)
(* The NovaSeal core: key_auth_transition, the type script that moves a    *)
(* NovaSealCellV0, together with btc_authority, the lock that guards it,   *)
(* the chain that commits what both accept, and the wallets that sign.     *)
(*                                                                         *)
(* seals is the sequence of all NovaSeal cells ever created, the founding  *)
(* ones first; a cell's out point is its position.  A transition consumes  *)
(* one cell and creates one successor and one receipt.                     *)
(*                                                                         *)
(* A wallet signs an intent for an out point from the view it has of the   *)
(* cell there, and that view may be of another cell: an earlier one of the *)
(* same line, or a twin.  A signed intent stays in circulation and anyone  *)
(* may put it into a transaction at any later time.                        *)
(*                                                                         *)
(* Left out: fields that are carried over and never compared (version,     *)
(* protocol_id, package_hash, action, terminal_path), and the witness      *)
(* state_hash_commitment, which the builder computes to match.             *)
(***************************************************************************)
EXTENDS NovaCkb, Sequences, FiniteSets

CONSTANTS
  Keys,       \* BIP340 keys, authority hashes and lock args alike
  States,     \* the contents a cell may commit to
  Policies,
  Expiries,   \* the expiries a wallet may sign
  Foundings,  \* the founding cells, a sequence of FoundingCell
  LockArgs,   \* the lock args a builder may give a successor
  MaxEpoch,   \* bound: the last epoch of the chain
  MaxSeals,   \* bound: no transition once there are this many cells
  MaxSigned   \* bound: no signature once there are this many

VARIABLES
  tip,     \* the chain's current epoch
  signed,  \* <<key, intent>>: the BIP340 signatures in circulation
  seals    \* the NovaSeal cells, in order of creation

vars == <<tip, signed, seals>>

U64 == 0..U64_MAX

\* A cell as the lifecycle script bootstraps it; its first receipt hash and its
\* first nonce are whatever its creator wrote.
FoundingCell ==
  [btc_authority_hash : Keys, state_hash : States, policy_hash : Policies,
   latest_receipt_hash : {ZeroHash}, nonce : U64, expiry : U64,
   lock_args : Keys]

ASSUME StateAssumption ==
  /\ Foundings \in Seq(FoundingCell)
  /\ Expiries \subseteq U64
  /\ LockArgs \subseteq Keys
  /\ MaxEpoch \in Nat /\ MaxSeals \in Nat /\ MaxSigned \in Nat
-----------------------------------------------------------------------------
(***************************************************************************)
(* Intents, receipts and cells.                                            *)
(***************************************************************************)

NewCellCommitment(cell, core) ==
  Hash([btc_authority_hash |-> cell.btc_authority_hash,
        state_hash |-> core.new_state_hash, policy_hash |-> cell.policy_hash,
        nonce |-> core.new_nonce, expiry |-> core.expiry])

ReceiptCommitment(cell, core) ==
  [policy_hash |-> core.policy_hash, old_cell |-> core.old_cell,
   new_cell_commitment |-> NewCellCommitment(cell, core),
   old_state_hash |-> core.old_state_hash,
   new_state_hash |-> core.new_state_hash,
   old_nonce |-> core.old_nonce, new_nonce |-> core.new_nonce,
   intent_core_hash |-> Hash(core)]

MaterializedReceiptHash(cell, core) == Hash(ReceiptCommitment(cell, core))

\* The intent to move the cell at out point i to a state, drawn up by a wallet
\* that takes view for that cell.
IntentCore(i, view, new_state, expiry) ==
  [policy_hash |-> view.policy_hash, old_cell |-> i,
   old_state_hash |-> view.state_hash, new_state_hash |-> new_state,
   old_nonce |-> view.nonce, new_nonce |-> Add64(view.nonce, 1),
   expiry |-> expiry]

SignedIntent(i, view, new_state, expiry) ==
  LET core == IntentCore(i, view, new_state, expiry) IN
  [core |-> core,
   expected_receipt_hash |-> MaterializedReceiptHash(view, core)]

\* Mutant: the successor keeps the receipt hash of the consumed cell.
Successor_StaleReceipt(cell, intent, lock_args) ==
  [cell EXCEPT !.state_hash = intent.core.new_state_hash,
               !.nonce = intent.core.new_nonce,
               !.expiry = intent.core.expiry,
               !.lock_args = lock_args]

\* Mutant: two u64 fields change places.
Successor_Swapped(cell, intent, lock_args) ==
  [cell EXCEPT !.state_hash = intent.core.new_state_hash,
               !.latest_receipt_hash = MaterializedReceiptHash(cell, intent.core),
               !.nonce = intent.core.expiry,
               !.expiry = intent.core.new_nonce,
               !.lock_args = lock_args]

Successor(cell, intent, lock_args) ==
  [cell EXCEPT !.state_hash = intent.core.new_state_hash,
               !.latest_receipt_hash = MaterializedReceiptHash(cell, intent.core),
               !.nonce = intent.core.new_nonce,
               !.expiry = intent.core.expiry,
               !.lock_args = lock_args]

Receipt(cell, intent) ==
  [commitment |-> ReceiptCommitment(cell, intent.core),
   signed_intent_hash |-> Hash(intent),
   signer_authority_hash |-> cell.btc_authority_hash,
   expiry |-> intent.core.expiry]

NoReceipt == [none |-> TRUE]

Founded(cell) == [spent |-> {}, cell |-> cell, receipt |-> NoReceipt, epoch |-> 0]
-----------------------------------------------------------------------------
(***************************************************************************)
(* What the two scripts require.                                           *)
(***************************************************************************)

\* Mutant: the out point in the intent is not compared with the input.
BindsOldCell_AnyOutPoint(i, cell, core) ==
  /\ core.old_state_hash = cell.state_hash
  /\ core.policy_hash = cell.policy_hash

\* The intent is about this very cell.
BindsOldCell(i, cell, core) ==
  /\ core.old_cell = i
  /\ core.old_state_hash = cell.state_hash
  /\ core.policy_hash = cell.policy_hash

AdvancesNonce(cell, core) ==
  /\ core.old_nonce = cell.nonce
  /\ cell.nonce < U64_MAX
  /\ core.new_nonce = cell.nonce + 1

\* Mutant: the expiry of the consumed cell is checked, not the intent's.
Unexpired_OldCell(cell, core, now) == now <= cell.expiry

Unexpired(cell, core, now) == now <= core.expiry

\* Mutant: any valid signature will do.
Authorised_AnyKey(cell, key, intent) == <<key, intent>> \in signed

\* The key is the cell's authority and the signature verifies.
Authorised(cell, key, intent) ==
  /\ key = cell.btc_authority_hash
  /\ <<key, intent>> \in signed

key_auth_transition(i, key, intent, now) ==
  LET cell == seals[i].cell IN
  /\ BindsOldCell(i, cell, intent.core)
  /\ AdvancesNonce(cell, intent.core)
  /\ Unexpired(cell, intent.core, now)
  /\ intent.expected_receipt_hash = MaterializedReceiptHash(cell, intent.core)
  /\ Authorised(cell, key, intent)

\* The lock sees the same witness.
btc_authority(cell, key, intent) ==
  /\ cell.lock_args = cell.btc_authority_hash
  /\ intent.core.policy_hash = cell.policy_hash
  /\ Authorised(cell, key, intent)
-----------------------------------------------------------------------------
(***************************************************************************)
(* The chain and the wallets.                                              *)
(***************************************************************************)

Spent == UNION {seals[j].spent : j \in DOMAIN seals}
Live  == DOMAIN seals \ Spent

Init ==
  /\ tip = 0
  /\ signed = {}
  /\ seals = [i \in DOMAIN Foundings |-> Founded(Foundings[i])]

\* The chain moves to its next epoch.
Tick ==
  /\ tip < MaxEpoch
  /\ tip' = tip + 1
  /\ UNCHANGED <<signed, seals>>

Sign(key, i, k, new_state, expiry) ==
  LET intent == SignedIntent(i, seals[k].cell, new_state, expiry) IN
  /\ Cardinality(signed) < MaxSigned
  /\ <<key, intent>> \notin signed
  /\ signed' = signed \cup {<<key, intent>>}
  /\ UNCHANGED <<tip, seals>>

Transition(i, key, intent, now, lock_args) ==
  /\ Len(seals) < MaxSeals
  /\ btc_authority(seals[i].cell, key, intent)
  /\ key_auth_transition(i, key, intent, now)
  /\ seals' = Append(seals,
       [spent |-> {i}, cell |-> Successor(seals[i].cell, intent, lock_args),
        receipt |-> Receipt(seals[i].cell, intent), epoch |-> tip])
  /\ UNCHANGED <<tip, signed>>

Next ==
  \/ Tick
  \/ \E key \in Keys, i, k \in DOMAIN seals, s \in States, e \in Expiries :
       Sign(key, i, k, s, e)
  \/ \E i \in Live, s \in signed, now \in Presentable(tip), a \in LockArgs :
       Transition(i, s[1], s[2], now, a)

Spec == Init /\ [][Next]_vars
-----------------------------------------------------------------------------
(***************************************************************************)
(* Properties.                                                             *)
(***************************************************************************)

Moves == {j \in DOMAIN seals : seals[j].spent # {}}

Parent(j) == CHOOSE i \in seals[j].spent : TRUE

\* The founding cell a cell descends from.
Origin[j \in Nat] ==
  IF j \in Moves THEN Origin[Parent(j)] ELSE j

\* How many transitions lie between a cell and its founding cell.
Age[j \in Nat] ==
  IF j \in Moves THEN Age[Parent(j)] + 1 ELSE 0

\* Type invariant.
TypeOK ==
  /\ tip \in 0..MaxEpoch
  /\ \A s \in signed : s[1] \in Keys /\ s[2].core.old_cell \in DOMAIN seals
  /\ \A j \in DOMAIN seals :
       /\ seals[j].cell.btc_authority_hash \in Keys
       /\ seals[j].cell.state_hash \in States
       /\ seals[j].cell.policy_hash \in Policies
       /\ seals[j].cell.nonce \in U64
       /\ j \in Moves => seals[j].cell.expiry \in Expiries
       /\ seals[j].spent \subseteq 1..(j - 1)

\* A signed intent takes effect at most once, and on the cell it names: not on
\* a twin with the same content, and not on a later cell of the line that has
\* come back to the same state.
IntentTakesEffectOnce ==
  \A j \in Moves :
    /\ seals[j].spent = {seals[j].receipt.commitment.old_cell}
    /\ \A k \in Moves :
         seals[j].receipt.signed_intent_hash = seals[k].receipt.signed_intent_hash
           => j = k

\* Criteria 3, 5 and 6: nothing moves a line but an intent that the key of its
\* founding cell signed, for the very step the two cells show, and no later on
\* the chain's own clock than its expiry and the header's lag.
StepsAreAuthorised ==
  \A j \in Moves :
    \E s \in signed :
      /\ s[1] = seals[Origin[j]].cell.btc_authority_hash
      /\ seals[j].receipt.signed_intent_hash = Hash(s[2])
      /\ s[2].core.old_state_hash = seals[Parent(j)].cell.state_hash
      /\ s[2].core.new_state_hash = seals[j].cell.state_hash
      /\ s[2].core.policy_hash = seals[Origin[j]].cell.policy_hash
      /\ seals[j].cell.policy_hash = s[2].core.policy_hash
      /\ seals[j].epoch <= s[2].core.expiry + HeaderLag

\* The latest receipt hash opens the history of a line: it is the hash of what
\* the receipt next to the cell commits to, and that commitment names the
\* consumed cell and the new one.
ReceiptsOpenHistory ==
  \A j \in Moves :
    LET receipt == seals[j].receipt.commitment
        cell    == seals[j].cell IN
    /\ cell.latest_receipt_hash = Hash(receipt)
    /\ receipt.old_cell \in seals[j].spent
    /\ receipt.old_nonce = seals[receipt.old_cell].cell.nonce
    /\ receipt.new_cell_commitment =
         Hash([btc_authority_hash |-> cell.btc_authority_hash,
               state_hash |-> cell.state_hash, policy_hash |-> cell.policy_hash,
               nonce |-> cell.nonce, expiry |-> cell.expiry])
==============================================================================
