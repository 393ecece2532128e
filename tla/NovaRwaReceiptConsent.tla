------------------------ MODULE NovaRwaReceiptConsent ------------------------
(***************************************************************************)
(* NovaRwaReceipt implements CosignedReceipts: slot k is the receipt that  *)
(* transaction k materialises, and consent is a signature on an intent for *)
(* the nonce that goes with its operation.                                 *)
(***************************************************************************)
EXTENDS NovaRwaReceipt

LedgerSlots == 1..MaxLedger

Blank == [blank |-> TRUE]

ContentOf(core) ==
  [receipt_id |-> core.receipt_id, papers |-> core.papers,
   issuer |-> core.issuer, holder |-> core.holder,
   amount |-> core.settlement_amount, expiry |-> core.expiry]

Materialized(k) == k \in DOMAIN ledger \ Steps

\* The last transaction of the line that transaction k begins.
LastOf(k) ==
  CHOOSE j \in DOMAIN ledger :
    Origin[j] = k /\ \A i \in DOMAIN ledger : Origin[i] = k => i <= j

Timely(core) == core.old_nonce = IF core.action = OP_SETTLE THEN 1 ELSE 0

Consented ==
  {<<s[1], ContentOf(s[2]), s[2].new_status, s[2].payout>> :
     s \in {t \in signed : Timely(t[2])}}

ReceiptContent ==
  [k \in LedgerSlots |->
     IF Materialized(k) THEN ContentOf(ledger[k].event.core) ELSE Blank]

ReceiptStage ==
  [k \in LedgerSlots |->
     IF Materialized(k) THEN ledger[LastOf(k)].event.core.new_status ELSE 0]

ReceiptPayout ==
  [k \in LedgerSlots |->
     IF Materialized(k) /\ LastOf(k) \notin Cells
       THEN ledger[LastOf(k)].event.core.payout ELSE Blank]

Promise == INSTANCE CosignedReceipts WITH
  Slots    <- LedgerSlots,
  Contents <- Offers,
  Parties  <- Keys,
  Grace    <- HeaderLag,
  Horizon  <- MaxEpoch,
  epoch    <- tip,
  content  <- ReceiptContent,
  stage    <- ReceiptStage,
  payout   <- ReceiptPayout,
  consent  <- Consented

\* Every receipt is created, claimed and paid out as its issuer and its holder
\* agreed, whatever they signed in whatever order and however often it is used.
ImplementsConsent == Promise!Spec
==============================================================================
