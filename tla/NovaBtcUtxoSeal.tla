--------------------------- MODULE NovaBtcUtxoSeal ---------------------------
(***************************************************************************)
(* The BTC UTXO seal profile: a seal over a declared Bitcoin output, closed *)
(* once with a declared spend of that output.  The lifecycle script leaves *)
(* a closed cell and a receipt, the resource action a receipt only; a seal *)
(* is under one of the two from the start, and as it takes one step only   *)
(* the choice is made here when that step is taken.                        *)
(*                                                                         *)
(* A utxo stands for txid, vout index, amount and script hash, a spend for *)
(* its txid, wtxid and input index, a seal for seal_id and policy_hash.    *)
(* The payout commitment, the signer's free choice and compared with       *)
(* itself only, is left out.                                               *)
(***************************************************************************)
EXTENDS SealLedger

NoSpend == [no_spend |-> TRUE]

BtcUtxoCommitment(core) == Hash([utxo |-> core.utxo])

BtcUtxoClosureCommitment(core) ==
  Hash([sealed_utxo_commitment_hash |-> BtcUtxoCommitment(core),
        spend |-> core.spend,
        transition_commitment_hash |-> core.transition_commitment_hash])

\* The core that opens a seal over an output.
InitializeCore(o) ==
  [action |-> OP_INITIALIZE, seal |-> o.seal, owner |-> o.owner,
   utxo |-> o.utxo, spend |-> NoSpend,
   old_state |-> ZeroHash, new_state |-> o.state,
   transition_commitment_hash |-> ZeroHash,
   old_status |-> STATUS_NONE, new_status |-> STATUS_ACTIVE,
   old_nonce |-> 0, new_nonce |-> 0, expiry |-> o.expiry]

\* The core that closes a cell by a spend of utxo.
CloseCore(cell, utxo, spend, state) ==
  [action |-> OP_CLOSE, seal |-> cell.seal, owner |-> cell.owner,
   utxo |-> utxo, spend |-> spend,
   old_state |-> cell.state, new_state |-> state,
   transition_commitment_hash |-> Hash(state),
   old_status |-> STATUS_ACTIVE, new_status |-> STATUS_CLOSED,
   old_nonce |-> cell.nonce, new_nonce |-> Add64(cell.nonce, 1),
   expiry |-> cell.expiry]

Initialized(core) ==
  [seal |-> core.seal, owner |-> core.owner,
   sealed_utxo_commitment_hash |-> BtcUtxoCommitment(core),
   state |-> core.new_state, status |-> STATUS_ACTIVE,
   latest_receipt_hash |-> ZeroHash, nonce |-> 0, expiry |-> core.expiry]

ClosedSeal(cell, core) ==
  [cell EXCEPT !.state = core.new_state,
               !.status = STATUS_CLOSED,
               !.latest_receipt_hash = MaterializedReceiptHash(core),
               !.nonce = Add64(cell.nonce, 1)]

InitializeAccepts(core, now) ==
  /\ core = InitializeCore([seal |-> core.seal, owner |-> core.owner,
                            utxo |-> core.utxo, state |-> core.new_state,
                            expiry |-> core.expiry])
  /\ core.new_state # ZeroHash
  /\ now <= core.expiry
  /\ SignedBy(core.owner, core)

\* Mutant: the declared output is not compared with the sealed one.
CloseAccepts_AnyUtxo(cell, core, now) ==
  /\ cell.nonce < U64_MAX
  /\ cell.status = STATUS_ACTIVE
  /\ now <= cell.expiry
  /\ core.spend # NoSpend
  /\ core.new_state # cell.state
  /\ core = CloseCore(cell, core.utxo, core.spend, core.new_state)
  /\ SignedBy(cell.owner, core)

CloseAccepts(cell, core, now) ==
  /\ cell.nonce < U64_MAX
  /\ cell.status = STATUS_ACTIVE
  /\ now <= cell.expiry
  /\ cell.sealed_utxo_commitment_hash = BtcUtxoCommitment(core)
  /\ core.spend # NoSpend
  /\ core.new_state # cell.state
  /\ core = CloseCore(cell, core.utxo, core.spend, core.new_state)
  /\ SignedBy(cell.owner, core)

ClosureReceipt(cell, core) ==
  [core |-> core, signed_intent_hash |-> Hash(<<"signed", core>>),
   sealed_utxo_commitment_hash |-> BtcUtxoCommitment(core),
   closure_commitment_hash |-> BtcUtxoClosureCommitment(core),
   latest_receipt_hash |-> MaterializedReceiptHash(core),
   signer_authority_hash |-> cell.owner]

Initialize(core, now) ==
  /\ InitializeAccepts(core, now)
  /\ Commit(core, {}, Initialized(core), NoReceipt)

Close(i, core, now) ==
  LET cell == ledger[i].cell IN
  /\ CloseAccepts(cell, core, now)
  /\ Commit(core, {i}, ClosedSeal(cell, core), ClosureReceipt(cell, core))

close_btc_utxo_seal(i, core, now) ==
  LET cell == ledger[i].cell IN
  /\ CloseAccepts(cell, core, now)
  /\ Commit(core, {i}, NoCell, ClosureReceipt(cell, core))

Next ==
  \/ Environment
  \/ \E core \in Circulating, now \in Presentable(tip) : Initialize(core, now)
  \/ \E i \in Live, core \in Circulating, now \in Presentable(tip) :
       Close(i, core, now)
  \/ \E i \in Live, core \in Circulating, now \in Presentable(tip) :
       close_btc_utxo_seal(i, core, now)

Spec == Init /\ [][Next]_ledgerVars
-----------------------------------------------------------------------------
\* sealed_utxo_tuple_binding and spend_tuple_binding: a closure speaks of the
\* output the initialisation sealed and starts from the state it signed; what
\* the script leaves of the seal, if anything, carries that closure.
ReceiptsBindTheSeal ==
  \A j \in Closings :
    LET opening == ledger[Closed(j)].core
        core    == ledger[j].receipt.core
        receipt == ledger[j].receipt
        cell    == ledger[j].cell IN
    /\ receipt.closure_commitment_hash =
         Hash([sealed_utxo_commitment_hash |-> Hash([utxo |-> opening.utxo]),
               spend |-> core.spend,
               transition_commitment_hash |-> Hash(core.new_state)])
    /\ core.old_state = opening.new_state
    /\ core.seal = opening.seal
    /\ core.expiry = opening.expiry
    /\ j \in Cells =>
         /\ cell.state = core.new_state
         /\ cell.sealed_utxo_commitment_hash = Hash([utxo |-> opening.utxo])
         /\ cell.latest_receipt_hash = receipt.latest_receipt_hash
==============================================================================
