----------------------------- MODULE SealLedger ------------------------------
(***************************************************************************)
(* The chain and the wallets around a seal profile, one of the four that   *)
(* open an active cell with one signed intent and close it with another:   *)
(* BTC transaction commitment, BTC UTXO seal, dual seal, Fiber candidate.  *)
(*                                                                         *)
(* The ledger is the sequence of committed transactions of the profile;    *)
(* the cell a transaction creates has its position as out point.  A        *)
(* transaction has at most one cell of the profile in and one out, the     *)
(* shape the harness builds.  The scripts do not enforce it: none reads a  *)
(* group input when it initialises, so an active cell among the inputs of  *)
(* an initialisation would go unnoticed.                                   *)
(*                                                                         *)
(* Equalities of the scripts make the envelope, the expected receipt hash  *)
(* and the successor functions of the intent's core, so that a signed      *)
(* intent is its core here.  An intent names no out point: it fits every   *)
(* cell with the fields it repeats.                                        *)
(***************************************************************************)
EXTENDS NovaCkb, Sequences

CONSTANTS
  WillSign,  \* what the wallets will sign: <<key, core>>
  MaxEpoch,  \* bound: the last epoch of the chain
  MaxLedger  \* bound: no transaction once the ledger is this long

VARIABLES
  tip,     \* the chain's current epoch
  signed,  \* <<key, core>>: the BIP340 signatures in circulation
  ledger   \* the committed transactions, in order

ledgerVars == <<tip, signed, ledger>>

STATUS_NONE   == 0
STATUS_ACTIVE == 1
STATUS_CLOSED == 2  \* COMMITTED, CLOSED, FINALIZED or SETTLED

OP_CLOSE      == 0
OP_INITIALIZE == 255

NoCell    == [no_cell |-> TRUE]
NoReceipt == [no_receipt |-> TRUE]
-----------------------------------------------------------------------------
SignedBy(key, core) == <<key, core>> \in signed

\* The cores a builder has a signature for.
Circulating == {s[2] : s \in signed}

\* The hash of a receipt commitment, which repeats and seals the core.
MaterializedReceiptHash(core) ==
  Hash([action |-> core.action, intent_core_hash |-> Hash(core)])

Receipt(core, signer) ==
  [core |-> core, signed_intent_hash |-> Hash(<<"signed", core>>),
   latest_receipt_hash |-> MaterializedReceiptHash(core),
   signer_authority_hash |-> signer]

Spent == UNION {ledger[j].spent : j \in DOMAIN ledger}
Cells == {j \in DOMAIN ledger : ledger[j].cell # NoCell}
Live  == Cells \ Spent

Init ==
  /\ tip = 0
  /\ signed = {}
  /\ ledger = <<>>

\* The chain moves to its next epoch.
Tick ==
  /\ tip < MaxEpoch
  /\ tip' = tip + 1
  /\ UNCHANGED <<signed, ledger>>

\* A wallet signs an intent, maybe before the cell it is about exists.
Sign(key, core) ==
  /\ <<key, core>> \notin signed
  /\ signed' = signed \cup {<<key, core>>}
  /\ UNCHANGED <<tip, ledger>>

Environment == Tick \/ \E s \in WillSign : Sign(s[1], s[2])

\* The chain commits a transaction.
Commit(core, spent, cell, receipt) ==
  /\ Len(ledger) < MaxLedger
  /\ ledger' = Append(ledger, [core |-> core, spent |-> spent, cell |-> cell,
                               receipt |-> receipt, epoch |-> tip])
  /\ UNCHANGED <<tip, signed>>
-----------------------------------------------------------------------------
Closings == {j \in DOMAIN ledger : ledger[j].spent # {}}

\* The cell a closing spends.
Closed(j) == CHOOSE i \in ledger[j].spent : TRUE

\* The parts of type correctness that do not depend on the profile.
LedgerTypeOK ==
  /\ tip \in 0..MaxEpoch
  /\ signed \subseteq WillSign
  /\ \A j \in DOMAIN ledger :
       /\ ledger[j].spent \subseteq Cells \cap 1..(j - 1)
       /\ j \in Cells => <<ledger[j].cell.status, ledger[j].cell.nonce>> \in
                           {<<STATUS_ACTIVE, 0>>, <<STATUS_CLOSED, 1>>}
==============================================================================
