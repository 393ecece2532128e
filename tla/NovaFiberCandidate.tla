------------------------- MODULE NovaFiberCandidate --------------------------
(***************************************************************************)
(* The Fiber candidate profile: an operator records the balance of an      *)
(* off-chain channel and settles it once, by a payment that moves the      *)
(* balance on, as the lifecycle script and the resource action of the      *)
(* package check it; the two agree but for the places of cell and receipt  *)
(* among the outputs.                                                      *)
(*                                                                         *)
(* A candidate stands for candidate_id and policy_hash, a payment for      *)
(* route, payment hash and settlement amount, which are all zero or all    *)
(* not.  The payout commitment is left out.                                *)
(***************************************************************************)
EXTENDS SealLedger

NoPayment == [no_payment |-> TRUE]

\* The core that opens a candidate.
InitializeCore(o) ==
  [action |-> OP_INITIALIZE, candidate |-> o.candidate,
   operator |-> o.operator, channel |-> o.channel, payment |-> NoPayment,
   old_balance |-> ZeroHash, new_balance |-> o.balance,
   old_status |-> STATUS_NONE, new_status |-> STATUS_ACTIVE,
   old_nonce |-> 0, new_nonce |-> 0, expiry |-> o.expiry]

\* The core that settles a cell by a payment.
SettleCore(cell, payment, balance) ==
  [action |-> OP_CLOSE, candidate |-> cell.candidate,
   operator |-> cell.operator, channel |-> cell.channel, payment |-> payment,
   old_balance |-> cell.balance, new_balance |-> balance,
   old_status |-> STATUS_ACTIVE, new_status |-> STATUS_CLOSED,
   old_nonce |-> cell.nonce, new_nonce |-> Add64(cell.nonce, 1),
   expiry |-> cell.expiry]

Initialized(core) ==
  [candidate |-> core.candidate, operator |-> core.operator,
   channel |-> core.channel, balance |-> core.new_balance,
   status |-> STATUS_ACTIVE, latest_receipt_hash |-> ZeroHash,
   nonce |-> 0, expiry |-> core.expiry]

\* Mutant: the nonce stays what it was.
Settled_SameNonce(cell, core) ==
  [cell EXCEPT !.balance = core.new_balance,
               !.status = STATUS_CLOSED,
               !.latest_receipt_hash = MaterializedReceiptHash(core)]

Settled(cell, core) ==
  [cell EXCEPT !.balance = core.new_balance,
               !.status = STATUS_CLOSED,
               !.latest_receipt_hash = MaterializedReceiptHash(core),
               !.nonce = Add64(cell.nonce, 1)]

InitializeAccepts(core, now) ==
  /\ core = InitializeCore([candidate |-> core.candidate, operator |-> core.operator,
                            channel |-> core.channel, balance |-> core.new_balance,
                            expiry |-> core.expiry])
  /\ core.new_balance # ZeroHash
  /\ now <= core.expiry
  /\ SignedBy(core.operator, core)

SettleAccepts(cell, core, now) ==
  /\ cell.nonce < U64_MAX
  /\ cell.status = STATUS_ACTIVE
  /\ now <= cell.expiry
  /\ core.payment # NoPayment
  /\ core.new_balance # cell.balance
  /\ core = SettleCore(cell, core.payment, core.new_balance)
  /\ SignedBy(cell.operator, core)

Initialize(core, now) ==
  /\ InitializeAccepts(core, now)
  /\ Commit(core, {}, Initialized(core), NoReceipt)

settle_fiber_candidate(i, core, now) ==
  LET cell == ledger[i].cell IN
  /\ SettleAccepts(cell, core, now)
  /\ Commit(core, {i}, Settled(cell, core), Receipt(core, cell.operator))

Next ==
  \/ Environment
  \/ \E core \in Circulating, now \in Presentable(tip) : Initialize(core, now)
  \/ \E i \in Live, core \in Circulating, now \in Presentable(tip) :
       settle_fiber_candidate(i, core, now)

Spec == Init /\ [][Next]_ledgerVars
-----------------------------------------------------------------------------
\* candidate_settlement_binding and balance_commitment_progress: a settlement
\* starts from the balance the channel was opened with, on that channel, ends at
\* another, and the settled cell holds what its receipt says.
ReceiptsBindTheSeal ==
  \A j \in Closings :
    LET opening == ledger[Closed(j)].core
        core    == ledger[j].receipt.core
        cell    == ledger[j].cell IN
    /\ core.channel = opening.channel
    /\ core.candidate = opening.candidate
    /\ core.old_balance = opening.new_balance
    /\ core.new_balance # opening.new_balance
    /\ core.expiry = opening.expiry
    /\ cell.balance = core.new_balance
    /\ cell.latest_receipt_hash = ledger[j].receipt.latest_receipt_hash
==============================================================================
