-------------------------- MODULE NovaStateScript ----------------------------
(***************************************************************************)
(* The core scripts over explicit transactions: what NovaState computes in *)
(* place is here presented by the builder, and every require of the lock   *)
(* and of the type script compares it.  Transition commits what both       *)
(* scripts accept, and nothing else (ScriptIsTheTransition).               *)
(*                                                                         *)
(* A transaction tx shows                                                  *)
(*   out_point, cell, lock_args   its input: where it is, data, lock       *)
(*   intent, state_hash_commitment, sig   the shared witness               *)
(*   now                          env::current_timepoint()                 *)
(*   output, receipt              the data of outputs 0 and 1              *)
(* A signature is whose it is, what it is over and whether it is intact.   *)
(***************************************************************************)
EXTENDS NovaState

CONSTANT Stranger  \* a key that is nobody's authority and signs anything

ASSUME StrangerAssumption == Stranger \notin Keys

(***************************************************************************)
(* The packed structs, named fields only.                                  *)
(***************************************************************************)

CoreFields == {"policy_hash", "old_cell", "old_state_hash", "new_state_hash",
               "old_nonce", "new_nonce", "expiry"}

Layout ==
  [NovaSealCellV0 |->
     {"btc_authority_hash", "state_hash", "policy_hash", "latest_receipt_hash",
      "nonce", "expiry"},
   NovaSealCellCommitmentV0 |->
     {"btc_authority_hash", "state_hash", "policy_hash", "nonce", "expiry"},
   NovaSealIntentCoreV0 |-> CoreFields,
   NovaSealSignedIntentV0 |-> {"core", "expected_receipt_hash"},
   ProofReceiptCommitmentV0 |->
     (CoreFields \ {"expiry"}) \cup {"new_cell_commitment", "intent_core_hash"},
   ProofReceiptV0 |->
     CoreFields \cup {"new_cell_commitment", "intent_core_hash",
                      "signed_intent_hash", "signer_authority_hash"}]

\* The named values in the order of the layout; a missing one is an error.
encode_struct(type_name, values) == [f \in Layout[type_name] |-> values[f]]

\* Record r with the fields of s on top.
Over(r, s) ==
  [f \in DOMAIN r \cup DOMAIN s |-> IF f \in DOMAIN s THEN s[f] ELSE r[f]]

\* The data of a cell and of the receipt next to it.
CellData(cell) == encode_struct("NovaSealCellV0", cell)

ReceiptData(cell, intent) ==
  LET receipt == Receipt(cell, intent) IN
  encode_struct("ProofReceiptV0", Over(receipt.commitment, receipt))
-----------------------------------------------------------------------------
(***************************************************************************)
(* What the scripts require.                                               *)
(***************************************************************************)

Signature(key, intent) == [pubkey |-> key, by |-> key, over |-> Hash(intent), intact |-> TRUE]

Verifies(sig, digest) == sig.by = sig.pubkey /\ sig.over = digest /\ sig.intact

\* What the lock requires before it spawns the verifier.
LockGuards(tx) ==
  /\ tx.lock_args = tx.cell.btc_authority_hash
  /\ tx.intent.core.policy_hash = tx.cell.policy_hash
  /\ tx.sig.pubkey = tx.cell.btc_authority_hash

LockRequires(tx) == LockGuards(tx) /\ Verifies(tx.sig, Hash(tx.intent))

WitnessRequired(tx) ==
  LET core == tx.intent.core IN
  /\ core.old_cell = tx.out_point
  /\ core.old_state_hash = tx.cell.state_hash
  /\ tx.state_hash_commitment = Hash(core.new_state_hash)
  /\ core.policy_hash = tx.cell.policy_hash
  /\ core.old_nonce = tx.cell.nonce
  /\ tx.cell.nonce < U64_MAX
  /\ core.new_nonce = tx.cell.nonce + 1
  /\ tx.now <= core.expiry
  /\ tx.intent.expected_receipt_hash = MaterializedReceiptHash(tx.cell, core)
  /\ tx.sig.pubkey = tx.cell.btc_authority_hash

OutputsRequired(tx) ==
  /\ tx.output =
       encode_struct("NovaSealCellV0",
         [btc_authority_hash |-> tx.cell.btc_authority_hash,
          state_hash |-> tx.intent.core.new_state_hash,
          policy_hash |-> tx.cell.policy_hash,
          latest_receipt_hash |-> MaterializedReceiptHash(tx.cell, tx.intent.core),
          nonce |-> tx.intent.core.new_nonce,
          expiry |-> tx.intent.core.expiry])
  /\ tx.receipt = ReceiptData(tx.cell, tx.intent)

\* Mutant: the created receipt is not compared.
TypeGuards_AnyReceipt(tx) ==
  WitnessRequired(tx) /\ tx.output = CellData(Successor(tx.cell, tx.intent, tx.lock_args))

\* What the type script requires beside the signature.
TypeGuards(tx) == WitnessRequired(tx) /\ OutputsRequired(tx)

TypeRequires(tx) == TypeGuards(tx) /\ Verifies(tx.sig, Hash(tx.intent))

ScriptsAccept(tx) == LockRequires(tx) /\ TypeRequires(tx)
-----------------------------------------------------------------------------
(***************************************************************************)
(* Transactions a builder may try: a cell of the ledger is spent with a    *)
(* signature in circulation, or the stranger's, and at most one field is   *)
(* not what the honest builder would put there.                            *)
(***************************************************************************)

Built(i, intent, sig, now) ==
  LET cell == seals[i].cell IN
  [out_point |-> i, cell |-> CellData(cell), lock_args |-> cell.lock_args,
   intent |-> intent, state_hash_commitment |-> Hash(intent.core.new_state_hash),
   sig |-> sig, now |-> now,
   output |-> CellData(Successor(cell, intent, cell.lock_args)),
   receipt |-> ReceiptData(cell, intent)]

Reshown(tx) ==
  {[tx EXCEPT !.state_hash_commitment = Hash(tx.cell.state_hash)],
   [tx EXCEPT !.sig = Signature(Stranger, tx.intent)],
   [tx EXCEPT !.sig.by = Stranger],
   [tx EXCEPT !.sig.intact = FALSE],
   [tx EXCEPT !.output.btc_authority_hash = Stranger],
   [tx EXCEPT !.output.latest_receipt_hash = tx.cell.latest_receipt_hash],
   [tx EXCEPT !.output.nonce = tx.cell.nonce],
   [tx EXCEPT !.output.expiry = tx.now],
   [tx EXCEPT !.receipt.old_state_hash = tx.intent.core.new_state_hash],
   [tx EXCEPT !.receipt.signed_intent_hash = Hash(tx.intent.core)]}

\* The intent replaced after it was signed.
Reworded(tx) ==
  {[tx EXCEPT !.intent.core.new_state_hash = s] : s \in States}
    \cup {[tx EXCEPT !.intent.core.expiry = e] : e \in Expiries}
    \cup {[tx EXCEPT !.intent.core.old_cell = tx.out_point]}

Attempts(i) ==
  LET honest == {Built(i, s[2], Signature(s[1], s[2]), now) :
                   s \in signed, now \in Presentable(tip)}
  IN honest \cup UNION {Reshown(tx) \cup Reworded(tx) : tx \in honest}
-----------------------------------------------------------------------------
(***************************************************************************)
(* Properties.                                                             *)
(***************************************************************************)

\* tx shows the transition that key's intent makes of the cell it spends.
ShowsTransition(tx, key, intent) ==
  /\ tx.intent = intent
  /\ tx.state_hash_commitment = Hash(intent.core.new_state_hash)
  /\ tx.sig = Signature(key, intent)
  /\ tx.output = CellData(Successor(seals[tx.out_point].cell, intent, tx.lock_args))
  /\ tx.receipt = ReceiptData(seals[tx.out_point].cell, intent)

TransitionAllows(tx) ==
  \E s \in signed :
    /\ ShowsTransition(tx, s[1], s[2])
    /\ btc_authority(seals[tx.out_point].cell, s[1], s[2])
    /\ key_auth_transition(tx.out_point, s[1], s[2], tx.now)

\* Around every live cell, lock and type script together accept exactly the
\* transactions that show a transition which NovaState commits: their
\* comparisons leave the builder no field of the witness, the cell or the
\* receipt to choose, and none that the two scripts read differently.
ScriptIsTheTransition ==
  \A i \in Live : \A tx \in Attempts(i) : ScriptsAccept(tx) <=> TransitionAllows(tx)
==============================================================================
