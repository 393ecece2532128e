------------------------ MODULE NovaAgreementScript ---------------------------
(***************************************************************************)
(* The lifecycle script over explicit transactions: what NovaAgreement     *)
(* computes in place is here presented by the builder, witnesses and       *)
(* outputs alike, and every require of the script compares it.  The        *)
(* actions of NovaAgreement commit what ScriptAccepts accepts, and nothing *)
(* else (ScriptIsTheAction).                                               *)
(*                                                                         *)
(* A transaction tx shows                                                  *)
(*   op, terms, active, intent, borrower_sig, lender_sig   the witnesses   *)
(*   now            env::current_timepoint()                               *)
(*   group_inputs   the agreement cells it spends                          *)
(*   group_output   the data of its agreement output, which is output 0    *)
(*   capacity       the capacity of that output                            *)
(*   outputs        outputs 1, 2, ...: data, capacity and lock args        *)
(* A signature is a key with the digest it was made over.                  *)
(***************************************************************************)
EXTENDS NovaAgreement

CONSTANTS
  Stranger,            \* a key of neither party, whose owner signs anything
  AGREEMENT_OCCUPIED,  \* what the node counts for an agreement output
  RECEIPT_OCCUPIED     \* and for a receipt output

ASSUME StrangerAssumption == Stranger \notin Keys

ASSUME OccupiedAssumption ==
  {AGREEMENT_OCCUPIED, RECEIPT_OCCUPIED} \subseteq Nat \ {0}

\* The agreement the transition starts from.
Base(tx) == IF tx.op = PATH_ORIGINATE THEN Offer(tx.terms) ELSE tx.active
-----------------------------------------------------------------------------
(***************************************************************************)
(* What the script requires.                                               *)
(***************************************************************************)

Verifies(sig, digest) ==
  /\ sig.over = digest
  /\ sig.pubkey = Stranger \/ <<sig.pubkey, digest>> \in signed

SignatureRequired(tx, sig, authority) ==
  /\ sig.pubkey = authority
  /\ Verifies(sig, Hash(tx.intent))

IntentRequired(tx) ==
  /\ tx.intent.core = IntentCore(Base(tx), tx.op)
  /\ tx.intent.canonical_envelope_hash =
       CanonicalEnvelopeHash(Base(tx), tx.op, tx.intent.core)
  /\ tx.intent.expected_receipt_hash =
       ReceiptCommitmentHash(Base(tx), tx.op, tx.intent.core)

\* The agreement cell after the transition, with the receipt hash computed
\* from the witness.
Written(tx) ==
  [Base(tx) EXCEPT
     !.status = NewStatus(tx.op),
     !.latest_receipt_hash =
       ReceiptCommitmentHash(Base(tx), tx.op, tx.intent.core),
     !.nonce = NewNonce(Base(tx), tx.op)]

\* Payout k is output k, and the receipt follows the last of them.
ReceiptOutput(tx) == Len(Payouts(Base(tx), tx.op)) + 1

PayoutsRequired(tx) ==
  \A k \in DOMAIN Payouts(Base(tx), tx.op) :
    /\ k \in DOMAIN tx.outputs
    /\ PayoutOutputAccepts(tx.outputs[k], Payouts(Base(tx), tx.op)[k])

OutputsRequired(tx) ==
  /\ PayoutsRequired(tx)
  /\ ReceiptOutput(tx) \in DOMAIN tx.outputs
  /\ tx.outputs[ReceiptOutput(tx)].data =
       ReceiptFor(Base(tx), tx.op, tx.intent, tx.now)

OriginateRequires(tx) ==
  /\ TermsAccepted(tx.terms, tx.now)
  /\ tx.active = Written(tx)
  /\ IntentRequired(tx)
  /\ tx.group_output = tx.active
  /\ OutputsRequired(tx)
  /\ SignatureRequired(tx, tx.borrower_sig, tx.terms.borrower)
  /\ SignatureRequired(tx, tx.lender_sig, tx.terms.lender)

\* The terms witness of a closing names the agreement it closes.
TermsNameActive(tx) ==
  /\ tx.terms.version = AGREEMENT_VERSION
  /\ \A field \in {"agreement_id", "terms_hash", "borrower", "lender"} :
       tx.terms[field] = tx.active[field]

\* Mutant: the cell spent is not compared with the witness.
ClosingRequires_AnyInput(tx) ==
  /\ TermsNameActive(tx)
  /\ tx.active.version = AGREEMENT_VERSION
  /\ tx.active.supported
  /\ tx.active.status = STATUS_ACTIVE
  /\ IntentRequired(tx)
  /\ tx.group_inputs # <<>>
  /\ tx.group_output = Written(tx)
  /\ OutputsRequired(tx)

ClosingRequires(tx) ==
  /\ TermsNameActive(tx)
  /\ tx.active.version = AGREEMENT_VERSION
  /\ tx.active.supported
  /\ tx.active.status = STATUS_ACTIVE
  /\ IntentRequired(tx)
  /\ tx.group_inputs # <<>>
  /\ tx.group_inputs[1] = tx.active
  /\ tx.group_output = Written(tx)
  /\ OutputsRequired(tx)

RepayRequires(tx) ==
  /\ RepayFits(tx.active)
  /\ tx.now <= tx.active.expiry_timepoint
  /\ ClosingRequires(tx)
  /\ SignatureRequired(tx, tx.borrower_sig, tx.active.borrower)

ClaimRequires(tx) ==
  /\ ClaimFits(tx.active)
  /\ tx.now > tx.active.expiry_timepoint
  /\ ClosingRequires(tx)
  /\ SignatureRequired(tx, tx.lender_sig, tx.active.lender)

ScriptAccepts(tx) ==
  \/ tx.op = PATH_ORIGINATE           /\ OriginateRequires(tx)
  \/ tx.op = PATH_REPAY_BEFORE_EXPIRY /\ RepayRequires(tx)
  \/ tx.op = PATH_CLAIM_AFTER_EXPIRY  /\ ClaimRequires(tx)

\* The node's own checks come on top of the script's: no output below its
\* occupied capacity, whatever it is worth.  PAYOUT_OCCUPIED covers a payout's.
NodeAccepts(tx) ==
  /\ ScriptAccepts(tx)
  /\ tx.capacity >= AGREEMENT_OCCUPIED
  /\ tx.outputs[ReceiptOutput(tx)].capacity >= RECEIPT_OCCUPIED
-----------------------------------------------------------------------------
(***************************************************************************)
(* The builder: the transaction that shows a transition to the script.     *)
(***************************************************************************)

SignatureBy(key, a, path) == [pubkey |-> key, over |-> SignedIntentHash(a, path)]

ReceiptCell(a, path, now) ==
  [data |-> Receipt(a, path, now), capacity |-> RECEIPT_OCCUPIED,
   lock_args |-> ZeroHash]

\* An origination puts the collateral into the agreement output.  The script
\* does not ask for it: it never reads the capacity of this output.
AgreementCapacity(a, path) ==
  AGREEMENT_OCCUPIED + (IF path = PATH_ORIGINATE THEN a.collateral_amount ELSE 0)

\* Agreement a, of terms t, taken along a path with these payout outputs.
Materialize(t, a, path, now, payouts) ==
  [op |-> path, terms |-> t,
   active |-> IF path = PATH_ORIGINATE THEN Successor(a, path) ELSE a,
   intent |-> SignedIntent(a, path),
   borrower_sig |-> SignatureBy(a.borrower, a, path),
   lender_sig |-> SignatureBy(a.lender, a, path),
   now |-> now,
   group_inputs |-> IF path = PATH_ORIGINATE THEN <<>> ELSE <<a>>,
   group_output |-> Successor(a, path),
   capacity |-> AgreementCapacity(a, path),
   outputs |-> Append(payouts, ReceiptCell(a, path, now))]

\* The payout outputs with exactly the capacity a payout needs.
ExactPayouts(a, path) ==
  [k \in DOMAIN Payouts(a, path) |->
     [data |-> Payouts(a, path)[k],
      capacity |-> Add64(PAYOUT_OCCUPIED, Payouts(a, path)[k].amount),
      lock_args |-> Payouts(a, path)[k].recipient]]
-----------------------------------------------------------------------------
(***************************************************************************)
(* The cases of the transaction harness, for a transaction tx that the     *)
(* script accepts: one field changed, the rest as it was.                  *)
(***************************************************************************)

StrangersSignature(tx) == [pubkey |-> Stranger, over |-> Hash(tx.intent)]

OriginateRejects(tx) ==
  [originate_wrong_terms_hash |->
     [tx EXCEPT !.terms.terms_hash = "other-terms"],
   originate_wrong_originator |->
     [tx EXCEPT !.borrower_sig = StrangersSignature(tx)],
   originate_wrong_lender_signature |->
     [tx EXCEPT !.lender_sig.over = ZeroHash],
   originate_non_ckb_asset_kind |->
     [tx EXCEPT !.terms.supported = FALSE, !.active.supported = FALSE,
                !.group_output.supported = FALSE]]

RepayWitnessRejects(tx) ==
  [repay_after_expiry |-> [tx EXCEPT !.now = tx.active.expiry_timepoint + 1],
   repay_wrong_party |->
     [tx EXCEPT !.borrower_sig = StrangersSignature(tx)],
   repay_wrong_borrower_signature |->
     [tx EXCEPT !.borrower_sig.over = ZeroHash]]

RepayCellRejects(tx) ==
  [repay_nonce_mismatch |-> [tx EXCEPT !.group_output.nonce = 2],
   repay_preserved_principal_mutation |->
     [tx EXCEPT !.group_output.principal_amount = @ - 1],
   repay_latest_receipt_hash_mismatch |->
     [tx EXCEPT !.group_output.latest_receipt_hash = ZeroHash],
   repay_receipt_output_mismatch |->
     [tx EXCEPT !.outputs[3].data.latest_receipt_hash = ZeroHash]]

RepayPayoutRejects(tx) ==
  [repay_wrong_settlement_amount |-> [tx EXCEPT !.outputs[1].data.amount = @ - 1],
   repay_payout_capacity_short |-> [tx EXCEPT !.outputs[1].capacity = @ - 1],
   repay_payout_lock_args_mismatch |->
     [tx EXCEPT !.outputs[1].lock_args = Stranger]]

ClaimRejects(tx) ==
  [claim_before_expiry |-> [tx EXCEPT !.now = tx.active.expiry_timepoint],
   claim_wrong_party |-> [tx EXCEPT !.lender_sig = StrangersSignature(tx)]]

Cases(f) == {f[variant] : variant \in DOMAIN f}

RejectCases(tx) ==
  CASE tx.op = PATH_ORIGINATE -> Cases(OriginateRejects(tx))
    [] tx.op = PATH_REPAY_BEFORE_EXPIRY ->
         Cases(RepayWitnessRejects(tx)) \cup Cases(RepayCellRejects(tx))
           \cup Cases(RepayPayoutRejects(tx))
    [] tx.op = PATH_CLAIM_AFTER_EXPIRY -> Cases(ClaimRejects(tx))

\* The script has no objection to a transaction under capacity: the node does.
UnderCapacity(tx) == [tx EXCEPT !.capacity = AGREEMENT_OCCUPIED - 1]
-----------------------------------------------------------------------------
(***************************************************************************)
(* Properties.                                                             *)
(***************************************************************************)

\* Transaction j of the ledger, as its builder can show it with exact payouts.
TermsOf(j) ==
  LET a == ledger[j].agreement IN
  CHOOSE t \in Terms :
    a = [Offer(t) EXCEPT !.status = a.status, !.nonce = a.nonce,
                         !.latest_receipt_hash = a.latest_receipt_hash]

BaseOf(j) ==
  IF ledger[j].path = PATH_ORIGINATE THEN Offer(TermsOf(j))
  ELSE ledger[CHOOSE i \in ledger[j].spent : TRUE].agreement

Shown(j) ==
  Materialize(TermsOf(j), BaseOf(j), ledger[j].path, ledger[j].receipt.timepoint,
              ExactPayouts(BaseOf(j), ledger[j].path))

HarnessDecides(tx) ==
  /\ NodeAccepts(tx)
  /\ \A rejected \in RejectCases(tx) : ~ScriptAccepts(rejected)
  /\ ScriptAccepts(UnderCapacity(tx))
  /\ ~NodeAccepts(UnderCapacity(tx))

\* The latest transition can be shown in a form that script and
\* node accept, and each case the harness makes of it ends as the harness
\* expects: rejected by the script, or for a lack of capacity by the node.
HarnessCasesDecided ==
  ledger # <<>> => \A tx \in {Shown(Len(ledger))} : HarnessDecides(tx)

\* What an action of NovaAgreement asks of the transition that tx shows.
ActionAccepts(tx) ==
  \/ tx.op = PATH_ORIGINATE           /\ OriginateAccepts(tx.terms, tx.now)
  \/ tx.op = PATH_REPAY_BEFORE_EXPIRY /\ RepayAccepts(tx.active, tx.now)
  \/ tx.op = PATH_CLAIM_AFTER_EXPIRY  /\ ClaimAccepts(tx.active, tx.now)

\* Wherever it matters to the transition, tx is what the builder makes of it.
SameSignature(x, y) == x.pubkey = y.pubkey /\ x.over = y.over

ShowsTransition(tx) ==
  LET a == Base(tx)
      made == Materialize(tx.terms, a, tx.op, tx.now, ExactPayouts(a, tx.op))
  IN
  /\ tx.active = made.active
  /\ tx.intent = made.intent
  /\ tx.group_output = made.group_output
  /\ PayoutsRequired(tx)
  /\ ReceiptOutput(tx) \in DOMAIN tx.outputs
  /\ tx.outputs[ReceiptOutput(tx)].data = Receipt(a, tx.op, tx.now)
  /\ tx.op # PATH_CLAIM_AFTER_EXPIRY =>
       SameSignature(tx.borrower_sig, made.borrower_sig)
  /\ tx.op # PATH_REPAY_BEFORE_EXPIRY =>
       SameSignature(tx.lender_sig, made.lender_sig)
  /\ tx.op # PATH_ORIGINATE =>
       /\ TermsNameActive(tx)
       /\ tx.group_inputs # <<>> /\ tx.group_inputs[1] = tx.active

\* What a builder may try instead of transaction j: the harness's cases; the
\* witnesses of one transition for another path, time or agreement; terms of
\* another version; a witness of another cell than the one spent; outputs
\* swapped or missing.
Retimed(tx, now) ==
  Materialize(tx.terms, Base(tx), tx.op, now, ExactPayouts(Base(tx), tx.op))

Rerouted(tx, path) ==
  [Materialize(tx.terms, Base(tx), path, tx.now, ExactPayouts(Base(tx), path))
     EXCEPT !.borrower_sig = tx.borrower_sig, !.lender_sig = tx.lender_sig]

Reworded(tx, t) ==
  [tx EXCEPT !.terms = t,
             !.active.collateral_amount = t.collateral_amount,
             !.group_output.collateral_amount = t.collateral_amount]

Reordered(tx) ==
  {[tx EXCEPT !.outputs = Tail(@)],
   [tx EXCEPT !.outputs = SubSeq(@, 1, Len(@) - 1)],
   [tx EXCEPT !.outputs = <<Head(Tail(@)), Head(@)>> \o Tail(Tail(@))]}

Attempts(tx) ==
  {tx} \cup RejectCases(tx) \cup Reordered(tx)
    \cup {Retimed(tx, now) : now \in 0..tip}
    \cup {Rerouted(tx, path) : path \in Paths}
    \cup {Reworded(tx, t) : t \in Terms}
    \cup {[tx EXCEPT !.terms.version = @ + 1]}
    \cup {[tx EXCEPT !.group_inputs = <<ledger[i].agreement>>] : i \in DOMAIN ledger}

ScriptDecidesAsAction(tx) ==
  ScriptAccepts(tx) <=> ActionAccepts(tx) /\ ShowsTransition(tx)

\* Around the latest transition, the script accepts exactly the
\* transactions that show a transition which an action of NovaAgreement allows:
\* its comparisons leave the builder no field of the intent, the cell, the
\* receipt or the payouts to choose.
ScriptIsTheAction ==
  ledger # <<>> =>
    \A shown \in {Shown(Len(ledger))} :
      \A tx \in Attempts(shown) : ScriptDecidesAsAction(tx)

\* One signed intent has one outcome, however often and on whichever cell it
\* takes effect: the same path, payouts, receipt hash, status and nonce, for
\* the same parties and expiry.  Collateral and fee are only in terms_hash,
\* so the intent of an origination leaves them to the terms witness.
Outcome(tx) ==
  [path |-> tx.path, payouts |-> [k \in DOMAIN tx.payouts |-> tx.payouts[k].data],
   receipt |-> tx.receipt.latest_receipt_hash,
   cell |-> [field \in {"agreement_id", "terms_hash", "borrower", "lender",
                        "principal_amount", "expiry_timepoint", "status",
                        "nonce"} |-> tx.agreement[field]]]

IntentFixesOutcome ==
  \A j, k \in DOMAIN ledger :
    ledger[j].receipt.signed_intent_hash = ledger[k].receipt.signed_intent_hash
      => Outcome(ledger[j]) = Outcome(ledger[k])
==============================================================================
