---------------------------- MODULE NovaDualSeal -----------------------------
(***************************************************************************)
(* The dual seal profile: a seal over a Bitcoin output and a CKB state,    *)
(* opened and finalised with the signatures of a Bitcoin owner and a CKB   *)
(* authority on one and the same intent, and finalised only between a      *)
(* maturity and an expiry.  The lifecycle script and the resource action   *)
(* of the package agree: the cell is consumed, a receipt remains.  That    *)
(* no cell of the profile remains is the shape of the transaction: a       *)
(* finalisation reads no group output.                                     *)
(*                                                                         *)
(* A seal stands for dual_seal_id and policy_hash, a utxo and a closure    *)
(* for their commitment hashes.  The payout commitment is left out.        *)
(***************************************************************************)
EXTENDS SealLedger

NoClosure == [no_closure |-> TRUE]

\* The core that opens a seal.
InitializeCore(o) ==
  [action |-> OP_INITIALIZE, seal |-> o.seal, btc_owner |-> o.btc_owner,
   ckb_authority |-> o.ckb_authority, utxo |-> o.utxo, closure |-> NoClosure,
   old_state |-> ZeroHash, new_state |-> o.state, maturity |-> o.maturity,
   old_status |-> STATUS_NONE, new_status |-> STATUS_ACTIVE,
   old_nonce |-> 0, new_nonce |-> 0, expiry |-> o.expiry]

\* The core that finalises a cell.
FinalizeCore(cell, closure, state) ==
  [action |-> OP_CLOSE, seal |-> cell.seal, btc_owner |-> cell.btc_owner,
   ckb_authority |-> cell.ckb_authority, utxo |-> cell.utxo,
   closure |-> closure, old_state |-> cell.state, new_state |-> state,
   maturity |-> cell.maturity,
   old_status |-> STATUS_ACTIVE, new_status |-> STATUS_CLOSED,
   old_nonce |-> cell.nonce, new_nonce |-> Add64(cell.nonce, 1),
   expiry |-> cell.expiry]

Initialized(core) ==
  [seal |-> core.seal, btc_owner |-> core.btc_owner,
   ckb_authority |-> core.ckb_authority, utxo |-> core.utxo,
   state |-> core.new_state, status |-> STATUS_ACTIVE,
   latest_receipt_hash |-> ZeroHash, nonce |-> 0,
   maturity |-> core.maturity, expiry |-> core.expiry]

\* Both signatures on the one intent.
SignedByBoth(party, core) ==
  /\ SignedBy(party.btc_owner, core)
  /\ SignedBy(party.ckb_authority, core)

\* The maturity is compared with nothing here: a seal may be opened that is
\* mature only after its expiry.
InitializeAccepts(core, now) ==
  /\ core = InitializeCore([seal |-> core.seal, btc_owner |-> core.btc_owner,
                            ckb_authority |-> core.ckb_authority,
                            utxo |-> core.utxo, state |-> core.new_state,
                            maturity |-> core.maturity, expiry |-> core.expiry])
  /\ core.new_state # ZeroHash
  /\ now <= core.expiry
  /\ SignedByBoth(core, core)

\* Mutant: the maturity gate is forgotten.
FinalizeAccepts_Early(cell, core, now) ==
  /\ cell.nonce < U64_MAX
  /\ cell.status = STATUS_ACTIVE
  /\ now <= cell.expiry
  /\ core.closure # NoClosure
  /\ core.new_state # cell.state
  /\ core = FinalizeCore(cell, core.closure, core.new_state)
  /\ SignedByBoth(cell, core)

FinalizeAccepts(cell, core, now) ==
  /\ cell.nonce < U64_MAX
  /\ cell.status = STATUS_ACTIVE
  /\ now >= cell.maturity
  /\ now <= cell.expiry
  /\ core.closure # NoClosure
  /\ core.new_state # cell.state
  /\ core = FinalizeCore(cell, core.closure, core.new_state)
  /\ SignedByBoth(cell, core)

Initialize(core, now) ==
  /\ InitializeAccepts(core, now)
  /\ Commit(core, {}, Initialized(core), NoReceipt)

finalize_dual_seal(i, core, now) ==
  LET cell == ledger[i].cell IN
  /\ FinalizeAccepts(cell, core, now)
  /\ Commit(core, {i}, NoCell, Receipt(core, cell.ckb_authority))

Next ==
  \/ Environment
  \/ \E core \in Circulating, now \in Presentable(tip) : Initialize(core, now)
  \/ \E i \in Live, core \in Circulating, now \in Presentable(tip) :
       finalize_dual_seal(i, core, now)

Spec == Init /\ [][Next]_ledgerVars
-----------------------------------------------------------------------------
\* btc_closure_binding and ckb_maturity_gate: a final receipt is about the
\* output, the state and the maturity that both parties signed when they opened
\* the seal, and no seal is final before that maturity.
ReceiptsBindTheSeal ==
  \A j \in Closings :
    LET opening == ledger[Closed(j)].core
        core    == ledger[j].receipt.core IN
    /\ core.utxo = opening.utxo
    /\ core.old_state = opening.new_state
    /\ core.seal = opening.seal
    /\ core.expiry = opening.expiry
    /\ opening.maturity <= ledger[j].epoch
    /\ j \notin Cells
==============================================================================
