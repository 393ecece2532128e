-------------------- MODULE NovaBtcTransactionCommitment ---------------------
(***************************************************************************)
(* The BTC transaction commitment profile: an active state, and one step   *)
(* that commits it to a declared Bitcoin transaction, as the lifecycle     *)
(* script and the resource action of the package check them; the two agree *)
(* but for the places of cell and receipt among the outputs.               *)
(*                                                                         *)
(* A Bitcoin transaction tx stands for its txid, wtxid, output index and   *)
(* amount, and a seal for seal_id and policy_hash.  The payout commitment, *)
(* the signer's free choice and compared with itself only, is left out.    *)
(***************************************************************************)
EXTENDS SealLedger

NoTx == [no_tx |-> TRUE]

\* The core that opens an active state.
InitializeCore(o) ==
  [action |-> OP_INITIALIZE, seal |-> o.seal, committer |-> o.committer,
   tx |-> NoTx, old_state |-> ZeroHash, new_state |-> o.state,
   transition_commitment_hash |-> ZeroHash,
   old_status |-> STATUS_NONE, new_status |-> STATUS_ACTIVE,
   old_nonce |-> 0, new_nonce |-> 0, expiry |-> o.expiry]

\* The core that commits a cell to tx and takes it to another state.
CommitCore(cell, tx, state) ==
  [action |-> OP_CLOSE, seal |-> cell.seal, committer |-> cell.committer,
   tx |-> tx, old_state |-> cell.state, new_state |-> state,
   transition_commitment_hash |-> Hash(state),
   old_status |-> STATUS_ACTIVE, new_status |-> STATUS_CLOSED,
   old_nonce |-> cell.nonce, new_nonce |-> Add64(cell.nonce, 1),
   expiry |-> cell.expiry]

BtcTransactionPublicCommitment(core) ==
  Hash([tx |-> core.tx, transition |-> core.transition_commitment_hash])

Initialized(core) ==
  [seal |-> core.seal, committer |-> core.committer,
   btc_tx_commitment_hash |-> ZeroHash, state |-> core.new_state,
   status |-> STATUS_ACTIVE, latest_receipt_hash |-> ZeroHash,
   nonce |-> 0, expiry |-> core.expiry]

Committed(cell, core) ==
  [cell EXCEPT !.btc_tx_commitment_hash = BtcTransactionPublicCommitment(core),
               !.state = core.new_state,
               !.status = STATUS_CLOSED,
               !.latest_receipt_hash = MaterializedReceiptHash(core),
               !.nonce = Add64(cell.nonce, 1)]

InitializeAccepts(core, now) ==
  /\ core = InitializeCore([seal |-> core.seal, committer |-> core.committer,
                            state |-> core.new_state, expiry |-> core.expiry])
  /\ core.new_state # ZeroHash
  /\ now <= core.expiry
  /\ SignedBy(core.committer, core)

CommitAccepts(cell, core, now) ==
  /\ cell.nonce < U64_MAX
  /\ cell.status = STATUS_ACTIVE
  /\ now <= cell.expiry
  /\ core.tx # NoTx
  /\ core.new_state # cell.state
  /\ core = CommitCore(cell, core.tx, core.new_state)
  /\ SignedBy(cell.committer, core)

Initialize(core, now) ==
  /\ InitializeAccepts(core, now)
  /\ Commit(core, {}, Initialized(core), NoReceipt)

commit_btc_transaction_transition(i, core, now) ==
  LET cell == ledger[i].cell IN
  /\ CommitAccepts(cell, core, now)
  /\ Commit(core, {i}, Committed(cell, core), Receipt(core, cell.committer))

Next ==
  \/ Environment
  \/ \E core \in Circulating, now \in Presentable(tip) : Initialize(core, now)
  \/ \E i \in Live, core \in Circulating, now \in Presentable(tip) :
       commit_btc_transaction_transition(i, core, now)

Spec == Init /\ [][Next]_ledgerVars
-----------------------------------------------------------------------------
\* What the script commits to is one story: the receipt starts from the state
\* the initialisation signed, and the committed cell holds the state its
\* Bitcoin commitment and its receipt speak of.
ReceiptsBindTheSeal ==
  \A j \in Closings :
    LET opening == ledger[Closed(j)].core
        core    == ledger[j].receipt.core
        cell    == ledger[j].cell IN
    /\ core.old_state = opening.new_state
    /\ core.seal = opening.seal
    /\ core.expiry = opening.expiry
    /\ cell.state = core.new_state
    /\ cell.btc_tx_commitment_hash =
         Hash([tx |-> core.tx, transition |-> Hash(cell.state)])
    /\ cell.latest_receipt_hash = ledger[j].receipt.latest_receipt_hash
==============================================================================
