-------------------------- MODULE NovaFungibleXudt ---------------------------
(***************************************************************************)
(* The Fungible xUDT profile: nova_fungible_xudt_lifecycle, the type       *)
(* script of the balance objects, with the chain that commits what it      *)
(* accepts and the wallets that sign intents.                              *)
(*                                                                         *)
(* The ledger is the sequence of committed xUDT transactions; the object a *)
(* transaction creates has its position as out point.  A transaction has   *)
(* at most one object in and one out, the documented shape of the profile  *)
(* (no split, join or multi-output accounting).  The script does not       *)
(* enforce it: an issue reads no group input and a settlement no group     *)
(* output, so an object among the inputs of the one or the outputs of the  *)
(* other would go unnoticed.                                               *)
(*                                                                         *)
(* Equalities of the script make the canonical envelope, the expected      *)
(* receipt hash and the receipt functions of the intent's core, so a       *)
(* signed intent is its core here.  An intent names no out point: it fits  *)
(* every object with the fields it repeats.  The payout commitment, which  *)
(* is the signer's free choice and compared with itself only, is left out. *)
(*                                                                         *)
(* issue_xudt, transfer_xudt and settle_xudt of                            *)
(* nova_fungible_xudt_type.cell are the same operations as resource        *)
(* actions, with the same checks and objects; Issue, Transfer and Settle   *)
(* stand for both forms.                                                   *)
(***************************************************************************)
EXTENDS NovaCkb, Sequences, FiniteSets

CONSTANTS
  Keys,       \* BIP340 keys and authority hashes alike
  Offers,     \* the objects an issuer may be asked to issue
  MaxEpoch,   \* bound: the last epoch of the chain
  MaxLedger,  \* bound: no transaction once the ledger is this long
  MaxSigned   \* bound: no signature once there are this many

VARIABLES
  tip,     \* the chain's current epoch
  signed,  \* <<key, core>>: the BIP340 signatures in circulation
  ledger   \* the committed xUDT transactions, in order

vars == <<tip, signed, ledger>>

OP_ISSUE    == 0
OP_TRANSFER == 1
OP_SETTLE   == 2

STATUS_NONE    == 0
STATUS_ACTIVE  == 1
STATUS_SETTLED == 2

U64 == 0..U64_MAX

Holders == Keys \cup {ZeroHash}

\* What an instance assumes of the constants.
XudtAssumption ==
  /\ Offers \subseteq [asset_id : STRING, xudt_type_hash : STRING,
                       issuer : Keys, holder : Holders,
                       transfer_amount : U64, new_amount : U64, expiry : U64]
  /\ MaxEpoch \in Nat /\ MaxLedger \in Nat /\ MaxSigned \in Nat
-----------------------------------------------------------------------------
(***************************************************************************)
(* Intents, objects and receipts.                                          *)
(***************************************************************************)

IssueCore(o) ==
  [action |-> OP_ISSUE, asset_id |-> o.asset_id,
   xudt_type_hash |-> o.xudt_type_hash, issuer |-> o.issuer,
   old_holder |-> ZeroHash, new_holder |-> o.holder,
   old_status |-> STATUS_NONE, new_status |-> STATUS_ACTIVE,
   old_amount |-> 0, transfer_amount |-> o.transfer_amount,
   new_amount |-> o.new_amount, old_nonce |-> 0, new_nonce |-> 0,
   expiry |-> o.expiry]

\* The core that takes an object a step on, the only one the script accepts.
StepCore(op, cell, to) ==
  [action |-> op, asset_id |-> cell.asset_id,
   xudt_type_hash |-> cell.xudt_type_hash, issuer |-> cell.issuer,
   old_holder |-> cell.holder, new_holder |-> to,
   old_status |-> STATUS_ACTIVE,
   new_status |-> IF op = OP_SETTLE THEN STATUS_SETTLED ELSE STATUS_ACTIVE,
   old_amount |-> cell.amount, transfer_amount |-> cell.amount,
   new_amount |-> IF op = OP_SETTLE THEN 0 ELSE cell.amount,
   old_nonce |-> cell.nonce, new_nonce |-> Add64(cell.nonce, 1),
   expiry |-> cell.expiry]

\* The hash of the receipt commitment, which repeats and seals the core.
MaterializedReceiptHash(core) ==
  Hash([action |-> core.action, intent_core_hash |-> Hash(core)])

Issued(core) ==
  [asset_id |-> core.asset_id, xudt_type_hash |-> core.xudt_type_hash,
   issuer |-> core.issuer, holder |-> core.new_holder,
   amount |-> core.new_amount, status |-> STATUS_ACTIVE,
   latest_receipt_hash |-> MaterializedReceiptHash(core),
   nonce |-> 0, expiry |-> core.expiry]

\* Mutant: the successor keeps the receipt hash of the consumed object.
Transferred_StaleReceipt(cell, core) ==
  [cell EXCEPT !.holder = core.new_holder, !.nonce = core.new_nonce]

Transferred(cell, core) ==
  [cell EXCEPT !.holder = core.new_holder,
               !.latest_receipt_hash = MaterializedReceiptHash(core),
               !.nonce = core.new_nonce]

\* What is left of an object when it settles: no cell.
NoCell == [none |-> TRUE]

Receipt(core, signer) ==
  [core |-> core, signed_intent_hash |-> Hash(core),
   latest_receipt_hash |-> MaterializedReceiptHash(core),
   signer_authority_hash |-> signer]
-----------------------------------------------------------------------------
(***************************************************************************)
(* What the script requires.                                               *)
(***************************************************************************)

\* Mutant: any valid signature will do.
SignedBy_AnyKey(key, core) == \E k \in Keys : <<k, core>> \in signed

SignedBy(key, core) == <<key, core>> \in signed

\* Mutant: the amounts are not compared.
IssueAccepts_AnyAmount(core, now) ==
  /\ core.action = OP_ISSUE
  /\ core.new_holder # ZeroHash
  /\ core.transfer_amount > 0
  /\ now <= core.expiry
  /\ SignedBy(core.issuer, core)

IssueAccepts(core, now) ==
  /\ core.action = OP_ISSUE
  /\ core.new_holder # ZeroHash
  /\ core.transfer_amount > 0
  /\ core.new_amount = core.transfer_amount
  /\ now <= core.expiry
  /\ SignedBy(core.issuer, core)

TransferAccepts(cell, core, now) ==
  /\ cell.nonce < U64_MAX
  /\ cell.status = STATUS_ACTIVE
  /\ cell.amount > 0
  /\ core.new_holder \notin {cell.holder, ZeroHash}
  /\ now <= cell.expiry
  /\ core = StepCore(OP_TRANSFER, cell, core.new_holder)
  /\ SignedBy(cell.holder, core)

SettleAccepts(cell, core, now) ==
  /\ cell.nonce < U64_MAX
  /\ cell.status = STATUS_ACTIVE
  /\ cell.amount > 0
  /\ now <= cell.expiry
  /\ core = StepCore(OP_SETTLE, cell, cell.holder)
  /\ SignedBy(cell.holder, core)
-----------------------------------------------------------------------------
(***************************************************************************)
(* The chain and the wallets.                                              *)
(***************************************************************************)

Spent   == UNION {ledger[j].spent : j \in DOMAIN ledger}
Objects == {j \in DOMAIN ledger : ledger[j].cell # NoCell}
Live    == Objects \ Spent

\* The intents a wallet may be shown: an issue, and the steps of any object,
\* of a spent one too.
Drafts ==
  {IssueCore(o) : o \in Offers}
  \cup {StepCore(OP_TRANSFER, ledger[i].cell, to) : i \in Objects, to \in Holders}
  \cup {StepCore(OP_SETTLE, ledger[i].cell, ledger[i].cell.holder) : i \in Objects}

Init ==
  /\ tip = 0
  /\ signed = {}
  /\ ledger = <<>>

\* The chain moves to its next epoch.
Tick ==
  /\ tip < MaxEpoch
  /\ tip' = tip + 1
  /\ UNCHANGED <<signed, ledger>>

Sign(key, core) ==
  /\ Cardinality(signed) < MaxSigned
  /\ <<key, core>> \notin signed
  /\ signed' = signed \cup {<<key, core>>}
  /\ UNCHANGED <<tip, ledger>>

Commit(spent, cell, receipt) ==
  /\ Len(ledger) < MaxLedger
  /\ ledger' = Append(ledger, [spent |-> spent, cell |-> cell,
                               receipt |-> receipt, epoch |-> tip])
  /\ UNCHANGED <<tip, signed>>

Issue(core, now) ==
  /\ IssueAccepts(core, now)
  /\ Commit({}, Issued(core), Receipt(core, core.issuer))

Transfer(i, core, now) ==
  LET cell == ledger[i].cell IN
  /\ TransferAccepts(cell, core, now)
  /\ Commit({i}, Transferred(cell, core), Receipt(core, cell.holder))

Settle(i, core, now) ==
  LET cell == ledger[i].cell IN
  /\ SettleAccepts(cell, core, now)
  /\ Commit({i}, NoCell, Receipt(core, cell.holder))

Next ==
  \/ Tick
  \/ \E key \in Keys, core \in Drafts : Sign(key, core)
  \/ \E s \in signed, now \in Presentable(tip) : Issue(s[2], now)
  \/ \E s \in signed, now \in Presentable(tip), i \in Live : Transfer(i, s[2], now)
  \/ \E s \in signed, now \in Presentable(tip), i \in Live : Settle(i, s[2], now)

Spec == Init /\ [][Next]_vars
-----------------------------------------------------------------------------
(***************************************************************************)
(* Properties.                                                             *)
(***************************************************************************)

Steps == {j \in DOMAIN ledger : ledger[j].spent # {}}

Parent(j) == CHOOSE i \in ledger[j].spent : TRUE

\* The issue a transaction goes back to.
Origin[j \in Nat] == IF j \in Steps THEN Origin[Parent(j)] ELSE j

\* Type invariant: a live object is active and has an amount and a holder.
TypeOK ==
  /\ tip \in 0..MaxEpoch
  /\ \A s \in signed : s[1] \in Keys
  /\ \A j \in DOMAIN ledger :
       /\ ledger[j].spent \subseteq Objects \cap 1..(j - 1)
       /\ j \in Objects =>
            /\ ledger[j].cell.status = STATUS_ACTIVE
            /\ ledger[j].cell.holder \in Keys
            /\ ledger[j].cell.amount \in U64 \ {0}
            /\ ledger[j].cell.nonce \in U64

\* amount_conservation and settlement_terminal, over whole lines: what an issue
\* receipt says was issued is what the line's one live object holds or what its
\* one settlement receipt pays, never both and never neither.
SupplyConserved ==
  \A k \in DOMAIN ledger \ Steps :
    LET issued  == ledger[k].receipt.core.transfer_amount
        holding == {j \in Live : Origin[j] = k}
        settled == {j \in DOMAIN ledger \ Objects : Origin[j] = k} IN
    /\ Cardinality(holding) + Cardinality(settled) = 1
    /\ \A j \in holding : ledger[j].cell.amount = issued
    /\ \A j \in settled : ledger[j].receipt.core.transfer_amount = issued

\* The receipts of a line trace it: each takes up where the one before ended, a
\* nonce further, so that no intent takes effect twice on one line, also when
\* the object has come back to the holder who signed it; and the object carries
\* the hash that the last one was sealed with.  None is later than the expiry
\* the issuer signed, as far as a header can tell.
ReceiptsTraceTheLine ==
  \A j \in DOMAIN ledger :
    LET receipt == ledger[j].receipt IN
    /\ ledger[j].epoch <= ledger[Origin[j]].receipt.core.expiry + HeaderLag
    /\ j \in Objects =>
         /\ ledger[j].cell.latest_receipt_hash = receipt.latest_receipt_hash
         /\ ledger[j].cell.holder = receipt.core.new_holder
         /\ ledger[j].cell.nonce = receipt.core.new_nonce
    /\ j \in Steps =>
         LET before == ledger[Parent(j)].receipt.core IN
         /\ receipt.core.old_holder = before.new_holder
         /\ receipt.core.old_nonce = before.new_nonce
         /\ receipt.core.new_nonce = before.new_nonce + 1
         /\ receipt.core.asset_id = before.asset_id
         /\ receipt.core.xudt_type_hash = before.xudt_type_hash
==============================================================================
