--------------------------- MODULE NovaRwaReceipt ----------------------------
(***************************************************************************)
(* The RWA receipt profile: nova_rwa_receipt_lifecycle, the type script of *)
(* receipt cells that an issuer materialises, the holder claims and both   *)
(* settle, with the chain that commits what it accepts and their wallets.  *)
(*                                                                         *)
(* The ledger is the sequence of committed transactions; the receipt cell  *)
(* a transaction creates has its position as out point.  A transaction has *)
(* at most one receipt cell in and one out, as the harness builds them.    *)
(* The script does not enforce it: a materialisation reads no group input  *)
(* and a settlement no group output, so a receipt cell among the inputs of *)
(* the one or the outputs of the other would go unnoticed.                 *)
(*                                                                         *)
(* Equalities of the script make the envelope, the expected hashes, the    *)
(* successor and the event functions of the intent's core, so a signed     *)
(* intent is its core here.  The payout commitment is the signers' choice: *)
(* no check reads it, but both signatures of a settlement cover it.  The   *)
(* papers of a receipt stand for its registry, asset commitment and        *)
(* document hashes, which travel together.                                 *)
(*                                                                         *)
(* materialize_rwa_receipt, claim_rwa_receipt and settle_rwa_receipt of    *)
(* nova_rwa_receipt_type.cell are the same operations as resource actions, *)
(* with the same checks, cells and events; Materialize, Claim and Settle   *)
(* stand for both.                                                         *)
(***************************************************************************)
EXTENDS NovaCkb, Sequences

CONSTANTS
  Keys,      \* BIP340 keys and authority hashes alike
  Offers,    \* the receipts an issuer may be asked to materialise
  Payouts,   \* the payout commitments a wallet may sign
  WillSign,  \* what the wallets will sign: <<key, core>>
  MaxEpoch,  \* bound: the last epoch of the chain
  MaxLedger  \* bound: no transaction once the ledger is this long

VARIABLES
  tip,     \* the chain's current epoch
  signed,  \* <<key, core>>: the BIP340 signatures in circulation
  ledger   \* the committed transactions, in order

vars == <<tip, signed, ledger>>

OP_MATERIALIZE == 0
OP_CLAIM       == 1
OP_SETTLE      == 2

STATUS_NONE         == 0
STATUS_MATERIALIZED == 1
STATUS_CLAIMED      == 2
STATUS_SETTLED      == 3

U64 == 0..U64_MAX

\* What an instance assumes of the constants.
RwaAssumption ==
  /\ Offers \subseteq [receipt_id : STRING, papers : STRING, issuer : Keys,
                       holder : Keys, amount : U64, expiry : U64]
  /\ MaxEpoch \in Nat /\ MaxLedger \in Nat
-----------------------------------------------------------------------------
(***************************************************************************)
(* Intents, receipt cells and events.                                      *)
(***************************************************************************)

\* The core that materialises a receipt.
MaterializeCore(o, payout) ==
  [action |-> OP_MATERIALIZE, receipt_id |-> o.receipt_id,
   papers |-> o.papers, issuer |-> o.issuer, holder |-> o.holder,
   old_status |-> STATUS_NONE, new_status |-> STATUS_MATERIALIZED,
   old_amount |-> 0, settlement_amount |-> o.amount,
   old_nonce |-> 0, new_nonce |-> 0, expiry |-> o.expiry, payout |-> payout]

\* The core that takes a receipt with this content and nonce from one status
\* to the next: operation n leads from status n to status n + 1.
StepCore(op, receipt, nonce, payout) ==
  [action |-> op, receipt_id |-> receipt.receipt_id,
   papers |-> receipt.papers, issuer |-> receipt.issuer,
   holder |-> receipt.holder, old_status |-> op, new_status |-> op + 1,
   old_amount |-> receipt.amount, settlement_amount |-> receipt.amount,
   old_nonce |-> nonce, new_nonce |-> Add64(nonce, 1),
   expiry |-> receipt.expiry, payout |-> payout]

Cores ==
  {MaterializeCore(o, x) : o \in Offers, x \in Payouts}
  \cup {StepCore(op, o, n, x) :
         op \in {OP_CLAIM, OP_SETTLE}, o \in Offers, n \in U64, x \in Payouts}

\* What an instance assumes of the wallets.
WalletAssumption == WillSign \subseteq Keys \X Cores

\* The hash of the event commitment, which repeats and seals the core.
MaterializedReceiptHash(core) ==
  Hash([action |-> core.action, intent_core_hash |-> Hash(core)])

\* The receipt cell a materialisation or a claim creates.
ReceiptCell(core) ==
  [receipt_id |-> core.receipt_id, papers |-> core.papers,
   issuer |-> core.issuer, holder |-> core.holder,
   amount |-> core.settlement_amount, status |-> core.new_status,
   latest_receipt_hash |-> MaterializedReceiptHash(core),
   nonce |-> core.new_nonce, expiry |-> core.expiry]

\* What a settlement leaves of the receipt cell.
NoCell == [none |-> TRUE]

Event(core, signer) ==
  [core |-> core, latest_receipt_hash |-> MaterializedReceiptHash(core),
   signer_authority_hash |-> signer]
-----------------------------------------------------------------------------
(***************************************************************************)
(* What the script requires.                                               *)
(***************************************************************************)

SignedBy(key, core) == <<key, core>> \in signed

MaterializeAccepts(core, now) ==
  /\ core.action = OP_MATERIALIZE
  /\ core.settlement_amount > 0
  /\ now <= core.expiry
  /\ SignedBy(core.issuer, core)

ClaimAccepts(cell, core, now) ==
  /\ cell.nonce < U64_MAX
  /\ cell.status = STATUS_MATERIALIZED
  /\ cell.amount > 0
  /\ now <= cell.expiry
  /\ core = StepCore(OP_CLAIM, cell, cell.nonce, core.payout)
  /\ SignedBy(cell.holder, core)

\* Mutant: a receipt that is not claimed yet may be settled.
SettleAccepts_AnyStatus(cell, core, now) ==
  /\ cell.nonce < U64_MAX
  /\ cell.amount > 0
  /\ now <= cell.expiry
  /\ core = StepCore(OP_SETTLE, cell, cell.nonce, core.payout)
  /\ SignedBy(cell.issuer, core)
  /\ SignedBy(cell.holder, core)

\* Mutant: the cosignature is not verified.
SettleAccepts_NoCosigner(cell, core, now) ==
  /\ cell.nonce < U64_MAX
  /\ cell.status = STATUS_CLAIMED
  /\ cell.amount > 0
  /\ now <= cell.expiry
  /\ core = StepCore(OP_SETTLE, cell, cell.nonce, core.payout)
  /\ SignedBy(cell.issuer, core)

\* Mutant: the two signatures may be on different payouts.
SettleAccepts_AnyPayout(cell, core, now) ==
  /\ cell.nonce < U64_MAX
  /\ cell.status = STATUS_CLAIMED
  /\ cell.amount > 0
  /\ now <= cell.expiry
  /\ core = StepCore(OP_SETTLE, cell, cell.nonce, core.payout)
  /\ SignedBy(cell.issuer, core)
  /\ \E payout \in Payouts :
       SignedBy(cell.holder, StepCore(OP_SETTLE, cell, cell.nonce, payout))

SettleAccepts(cell, core, now) ==
  /\ cell.nonce < U64_MAX
  /\ cell.status = STATUS_CLAIMED
  /\ cell.amount > 0
  /\ now <= cell.expiry
  /\ core = StepCore(OP_SETTLE, cell, cell.nonce, core.payout)
  /\ SignedBy(cell.issuer, core)
  /\ SignedBy(cell.holder, core)
-----------------------------------------------------------------------------
(***************************************************************************)
(* The chain and the wallets.                                              *)
(***************************************************************************)

Spent == UNION {ledger[j].spent : j \in DOMAIN ledger}
Cells == {j \in DOMAIN ledger : ledger[j].cell # NoCell}
Live  == Cells \ Spent

Init ==
  /\ tip = 0
  /\ signed = {}
  /\ ledger = <<>>

\* The chain moves to its next epoch.
Tick ==
  /\ tip < MaxEpoch
  /\ tip' = tip + 1
  /\ UNCHANGED <<signed, ledger>>

\* A wallet signs an intent, maybe before the receipt it is about exists.
Sign(key, core) ==
  /\ <<key, core>> \notin signed
  /\ signed' = signed \cup {<<key, core>>}
  /\ UNCHANGED <<tip, ledger>>

Commit(spent, cell, event) ==
  /\ Len(ledger) < MaxLedger
  /\ ledger' = Append(ledger, [spent |-> spent, cell |-> cell,
                               event |-> event, epoch |-> tip])
  /\ UNCHANGED <<tip, signed>>

Materialize(core, now) ==
  /\ MaterializeAccepts(core, now)
  /\ Commit({}, ReceiptCell(core), Event(core, core.issuer))

Claim(i, core, now) ==
  /\ ClaimAccepts(ledger[i].cell, core, now)
  /\ Commit({i}, ReceiptCell(core), Event(core, core.holder))

Settle(i, core, now) ==
  /\ SettleAccepts(ledger[i].cell, core, now)
  /\ Commit({i}, NoCell, Event(core, core.issuer))

Next ==
  \/ Tick
  \/ \E s \in WillSign : Sign(s[1], s[2])
  \/ \E s \in signed, now \in Presentable(tip) : Materialize(s[2], now)
  \/ \E s \in signed, now \in Presentable(tip), i \in Live : Claim(i, s[2], now)
  \/ \E s \in signed, now \in Presentable(tip), i \in Live : Settle(i, s[2], now)

Spec == Init /\ [][Next]_vars
-----------------------------------------------------------------------------
(***************************************************************************)
(* Properties.                                                             *)
(***************************************************************************)

Steps == {j \in DOMAIN ledger : ledger[j].spent # {}}

Parent(j) == CHOOSE i \in ledger[j].spent : TRUE

\* The materialisation a transaction goes back to.
Origin[j \in Nat] == IF j \in Steps THEN Origin[Parent(j)] ELSE j

\* Type invariant: a status goes with its nonce, and settled is no cell's.
TypeOK ==
  /\ tip \in 0..MaxEpoch
  /\ signed \subseteq WillSign
  /\ \A j \in DOMAIN ledger :
       /\ ledger[j].spent \subseteq Cells \cap 1..(j - 1)
       /\ j \in Cells =>
            /\ ledger[j].cell.amount \in U64 \ {0}
            /\ <<ledger[j].cell.status, ledger[j].cell.nonce>> \in
                 {<<STATUS_MATERIALIZED, 0>>, <<STATUS_CLAIMED, 1>>}

\* dual_authority_settlement and holder_only_claim, through the line: the
\* issuer and the holder that the materialisation names both signed the one
\* settlement that took place, its payout included; the holder signed the claim
\* and the issuer the materialisation.
ConsentOfTheNamed ==
  \A j \in DOMAIN ledger :
    LET core  == ledger[j].event.core
        named == ledger[Origin[j]].event.core IN
    /\ core.action \in {OP_MATERIALIZE, OP_SETTLE} =>
         <<named.issuer, core>> \in signed
    /\ core.action \in {OP_CLAIM, OP_SETTLE} =>
         <<named.holder, core>> \in signed

\* immutable_event_audit_trail and amount_conservation: the events alone tell
\* the story of a receipt: materialised, claimed, settled, in this order, about
\* one amount and one set of papers, each cell sealed by its event and none
\* later than the expiry its issuer signed, as far as a header can tell.
EventsTellTheStory ==
  \A j \in DOMAIN ledger :
    LET event == ledger[j].event IN
    /\ ledger[j].epoch <= ledger[Origin[j]].event.core.expiry + HeaderLag
    /\ j \in Cells =>
         ledger[j].cell.latest_receipt_hash = event.latest_receipt_hash
    /\ event.core.action = OP_MATERIALIZE <=> j \notin Steps
    /\ j \in Steps =>
         LET before == ledger[Parent(j)].event.core IN
         /\ event.core.action = before.action + 1
         /\ event.core.old_status = before.new_status
         /\ event.core.old_nonce = before.new_nonce
         /\ event.core.old_amount = before.settlement_amount
         /\ event.core.settlement_amount = before.settlement_amount
         /\ event.core.papers = before.papers
==============================================================================
