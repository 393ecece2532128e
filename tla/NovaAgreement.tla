---------------------------- MODULE NovaAgreement ----------------------------
(***************************************************************************)
(* The Agreement profile: nova_agreement_lifecycle, the type script of the *)
(* agreement cells, with the chain that commits the transactions it        *)
(* accepts and the two parties that sign intents.                          *)
(*                                                                         *)
(* The ledger is the sequence of committed agreement transactions.  Each   *)
(* creates one agreement cell at its group output 0, so the cell's out     *)
(* point is the transaction's position, and a cell is live until a later   *)
(* transaction spends it.  Signatures are made at any time, stay in        *)
(* circulation, and are attached by whoever builds a transaction.          *)
(*                                                                         *)
(* Equalities of the script force every field of the witness intent, of    *)
(* the successor cell, of the payouts and of the receipt, so these are     *)
(* functions of the path and of the agreement before it: the spent cell,   *)
(* or the offer the terms witness describes.  What remains the builder's   *)
(* choice is chosen here: the terms, the header, the payout outputs and,   *)
(* outside the documented shape, more agreement cells among the inputs.    *)
(*                                                                         *)
(* originate_agreement, repay_before_expiry and claim_after_expiry of      *)
(* nova_agreement_type.cell are the same three paths as resource actions:  *)
(* same checks, same successor, payouts and receipt. The actions           *)
(* Originate, Repay and Claim stand for both forms.                        *)
(***************************************************************************)
EXTENDS NovaCkb, Sequences

CONSTANTS
  Keys,             \* authority identifiers: BIP340 keys and lock args alike
  Terms,            \* the terms witnesses a builder may present
  WillSign,         \* what the wallets will sign: <<key, agreement, path>>
  PAYOUT_OCCUPIED,  \* NATIVE_CKB_PAYOUT_OCCUPIED_CAPACITY
  Capacities,       \* the capacities a builder may give a payout output
  DocumentedShape,  \* TRUE: no agreement input to originate, one to close
  MaxEpoch,         \* bound: the last epoch of the chain
  MaxLedger         \* bound: no origination once the ledger is this long

VARIABLES
  tip,     \* the chain's current epoch
  signed,  \* <<key, digest>>: the BIP340 signatures in circulation
  ledger   \* the committed agreement transactions, in order

vars == <<tip, signed, ledger>>

STATUS_OFFERED   == 0
STATUS_ACTIVE    == 1
STATUS_REPAID    == 2
STATUS_DEFAULTED == 3

PATH_ORIGINATE           == 0
PATH_REPAY_BEFORE_EXPIRY == 1
PATH_CLAIM_AFTER_EXPIRY  == 2

AGREEMENT_VERSION == 0

Paths == {PATH_ORIGINATE, PATH_REPAY_BEFORE_EXPIRY, PATH_CLAIM_AFTER_EXPIRY}

U64 == 0..U64_MAX

\* supported stands for the other fields the script compares with constants:
\* asset kinds and hashes, early-close policy.
NovaAgreementTermsV0 ==
  [version : Nat, agreement_id : STRING, terms_hash : STRING,
   borrower : Keys, lender : Keys, supported : BOOLEAN,
   collateral_amount : U64, principal_amount : U64, fixed_fee_amount : U64,
   start_timepoint : Nat, expiry_timepoint : Nat]

ASSUME AgreementAssumption ==
  /\ Terms \subseteq NovaAgreementTermsV0
  /\ PAYOUT_OCCUPIED \in U64
  /\ Capacities \subseteq U64
  /\ DocumentedShape \in BOOLEAN
  /\ MaxEpoch \in Nat /\ MaxLedger \in Nat
-----------------------------------------------------------------------------
(***************************************************************************)
(* The agreement cell, and the records a transition derives from it.       *)
(***************************************************************************)

\* The cell the terms describe, before it exists: status offered, nonce 0 and
\* no receipt are the "old" values the script uses at origination.
Offer(t) ==
  [version |-> t.version,
   agreement_id |-> t.agreement_id, terms_hash |-> t.terms_hash,
   borrower |-> t.borrower, lender |-> t.lender, supported |-> t.supported,
   collateral_amount |-> t.collateral_amount,
   principal_amount |-> t.principal_amount,
   fixed_fee_amount |-> t.fixed_fee_amount,
   expiry_timepoint |-> t.expiry_timepoint,
   status |-> STATUS_OFFERED, latest_receipt_hash |-> ZeroHash, nonce |-> 0]

NewStatus(path) ==
  CASE path = PATH_ORIGINATE           -> STATUS_ACTIVE
    [] path = PATH_REPAY_BEFORE_EXPIRY -> STATUS_REPAID
    [] path = PATH_CLAIM_AFTER_EXPIRY  -> STATUS_DEFAULTED

NewNonce(a, path) == IF path = PATH_ORIGINATE THEN 0 ELSE Add64(a.nonce, 1)

RepaymentAmount(a) == Add64(a.principal_amount, a.fixed_fee_amount)

TerminalAmount(a, path) ==
  CASE path = PATH_ORIGINATE           -> a.principal_amount
    [] path = PATH_REPAY_BEFORE_EXPIRY -> RepaymentAmount(a)
    [] path = PATH_CLAIM_AFTER_EXPIRY  -> a.collateral_amount

\* The authority named in the canonical envelope.
Authority(a, path) ==
  IF path = PATH_CLAIM_AFTER_EXPIRY THEN a.lender ELSE a.borrower

NativeCkbPayout(a, path, role, recipient, amount) ==
  [action |-> path, agreement_id |-> a.agreement_id, role |-> role,
   recipient |-> recipient, amount |-> amount, terms_hash |-> a.terms_hash,
   nonce |-> NewNonce(a, path)]

PrincipalPayout(a) ==
  NativeCkbPayout(a, PATH_ORIGINATE, "borrower_principal",
                  a.borrower, a.principal_amount)
LenderRepayment(a) ==
  NativeCkbPayout(a, PATH_REPAY_BEFORE_EXPIRY, "lender_repayment",
                  a.lender, RepaymentAmount(a))
CollateralReturn(a) ==
  NativeCkbPayout(a, PATH_REPAY_BEFORE_EXPIRY, "borrower_collateral_return",
                  a.borrower, a.collateral_amount)
\* Mutant: a default claim that pays the principal, not the collateral.
DefaultClaim_Principal(a) ==
  NativeCkbPayout(a, PATH_CLAIM_AFTER_EXPIRY, "lender_default_claim",
                  a.lender, a.principal_amount)

DefaultClaim(a) ==
  NativeCkbPayout(a, PATH_CLAIM_AFTER_EXPIRY, "lender_default_claim",
                  a.lender, a.collateral_amount)

\* The payouts of a path, in output order from output 1 on.
Payouts(a, path) ==
  CASE path = PATH_ORIGINATE           -> <<PrincipalPayout(a)>>
    [] path = PATH_REPAY_BEFORE_EXPIRY -> <<LenderRepayment(a),
                                            CollateralReturn(a)>>
    [] path = PATH_CLAIM_AFTER_EXPIRY  -> <<DefaultClaim(a)>>

\* Mutant: the commitment of a repayment leaves out the collateral.
PayoutCommitmentHash_LenderOnly(a, path) == Hash(Payouts(a, path)[1])

PayoutCommitmentHash(a, path) ==
  IF path = PATH_REPAY_BEFORE_EXPIRY
  THEN Hash(<<Hash(LenderRepayment(a)), Hash(CollateralReturn(a))>>)
  ELSE Hash(Payouts(a, path)[1])

IntentCore(a, path) ==
  [action |-> path, agreement_id |-> a.agreement_id,
   terms_hash |-> a.terms_hash, borrower |-> a.borrower, lender |-> a.lender,
   old_status |-> a.status, new_status |-> NewStatus(path),
   old_nonce |-> a.nonce, new_nonce |-> NewNonce(a, path),
   terminal_amount |-> TerminalAmount(a, path),
   payout_commitment_hash |-> PayoutCommitmentHash(a, path),
   expiry_timepoint |-> a.expiry_timepoint]

\* The receipt commitment repeats fields of the intent core and seals both.  The
\* script computes it, and the envelope, from the core that the witness presents.
ReceiptCommitmentHash(a, path, core) ==
  Hash([action |-> path, agreement_id |-> a.agreement_id,
        old_status |-> a.status, new_status |-> NewStatus(path),
        terms_hash |-> a.terms_hash,
        borrower |-> a.borrower, lender |-> a.lender,
        terminal_amount |-> TerminalAmount(a, path),
        old_nonce |-> a.nonce, new_nonce |-> NewNonce(a, path),
        intent_core_hash |-> Hash(core),
        payout_commitment_hash |-> PayoutCommitmentHash(a, path)])

CanonicalEnvelopeHash(a, path, core) ==
  Hash([profile_id |-> a.agreement_id, policy_hash |-> a.terms_hash,
        action |-> path, terminal_path |-> path, subject_id |-> a.agreement_id,
        old_state_commitment |-> a.latest_receipt_hash,
        new_state_commitment |-> ReceiptCommitmentHash(a, path, core),
        old_nonce |-> a.nonce, new_nonce |-> NewNonce(a, path),
        expiry |-> a.expiry_timepoint, authority |-> Authority(a, path),
        profile_body_hash |-> Hash(core),
        payout_commitment_hash |-> PayoutCommitmentHash(a, path)])

MaterializedReceiptHash(a, path) ==
  ReceiptCommitmentHash(a, path, IntentCore(a, path))

SignedIntent(a, path) ==
  [core |-> IntentCore(a, path),
   canonical_envelope_hash |->
     CanonicalEnvelopeHash(a, path, IntentCore(a, path)),
   expected_receipt_hash |-> MaterializedReceiptHash(a, path)]

\* The digest that the parties sign.
SignedIntentHash(a, path) == Hash(SignedIntent(a, path))

\* Mutant: the successor keeps the receipt hash of the spent cell.
Successor_StaleReceipt(a, path) ==
  [a EXCEPT !.status = NewStatus(path), !.nonce = NewNonce(a, path)]

Successor(a, path) ==
  [a EXCEPT !.status = NewStatus(path),
            !.latest_receipt_hash = MaterializedReceiptHash(a, path),
            !.nonce = NewNonce(a, path)]

\* The receipt the script expects next to a witness intent.
ReceiptFor(a, path, intent, now) ==
  [action |-> path, agreement_id |-> a.agreement_id,
   old_status |-> a.status, new_status |-> NewStatus(path),
   terms_hash |-> a.terms_hash, borrower |-> a.borrower, lender |-> a.lender,
   collateral_amount |-> a.collateral_amount,
   principal_amount |-> a.principal_amount,
   fixed_fee_amount |-> a.fixed_fee_amount,
   terminal_amount |-> TerminalAmount(a, path),
   previous_receipt_hash |-> a.latest_receipt_hash,
   latest_receipt_hash |-> ReceiptCommitmentHash(a, path, intent.core),
   intent_core_hash |-> Hash(intent.core),
   signed_intent_hash |-> Hash(intent),
   payout_commitment_hash |-> PayoutCommitmentHash(a, path),
   nonce |-> NewNonce(a, path), timepoint |-> now]

Receipt(a, path, now) == ReceiptFor(a, path, SignedIntent(a, path), now)
-----------------------------------------------------------------------------
(***************************************************************************)
(* What the script requires, path by path.                                 *)
(***************************************************************************)

SignedBy(key, a, path) == <<key, SignedIntentHash(a, path)>> \in signed

TermsAccepted(t, now) ==
  /\ t.version = AGREEMENT_VERSION
  /\ t.supported
  /\ t.collateral_amount > 0
  /\ t.principal_amount > 0
  /\ t.start_timepoint <= now
  /\ now <= t.expiry_timepoint
  /\ t.start_timepoint < t.expiry_timepoint
  /\ t.principal_amount <= U64_MAX - PAYOUT_OCCUPIED

OriginateAccepts(t, now) ==
  /\ TermsAccepted(t, now)
  /\ SignedBy(t.borrower, Offer(t), PATH_ORIGINATE)
  /\ SignedBy(t.lender, Offer(t), PATH_ORIGINATE)

\* No sum of the transition wraps: the nonce, and the payouts with their
\* occupied capacity.
RepayFits(active) ==
  /\ active.nonce < U64_MAX
  /\ active.fixed_fee_amount <= U64_MAX - active.principal_amount
  /\ RepaymentAmount(active) <= U64_MAX - PAYOUT_OCCUPIED
  /\ active.collateral_amount <= U64_MAX - PAYOUT_OCCUPIED

ClaimFits(active) ==
  /\ active.nonce < U64_MAX
  /\ active.collateral_amount <= U64_MAX - PAYOUT_OCCUPIED

\* Mutant: a repayment that does not check the status.
RepayAccepts_AnyStatus(active, now) ==
  /\ RepayFits(active)
  /\ active.version = AGREEMENT_VERSION
  /\ active.supported
  /\ now <= active.expiry_timepoint
  /\ SignedBy(active.borrower, active, PATH_REPAY_BEFORE_EXPIRY)

\* Mutant: a repayment that accepts the other party's signature.
RepayAccepts_LenderSigns(active, now) ==
  /\ RepayFits(active)
  /\ active.version = AGREEMENT_VERSION
  /\ active.supported
  /\ active.status = STATUS_ACTIVE
  /\ now <= active.expiry_timepoint
  /\ SignedBy(active.lender, active, PATH_REPAY_BEFORE_EXPIRY)

RepayAccepts(active, now) ==
  /\ RepayFits(active)
  /\ active.version = AGREEMENT_VERSION
  /\ active.supported
  /\ active.status = STATUS_ACTIVE
  /\ now <= active.expiry_timepoint
  /\ SignedBy(active.borrower, active, PATH_REPAY_BEFORE_EXPIRY)

\* Mutant: a claim accepted in the expiry epoch itself.
ClaimAccepts_AtExpiry(active, now) ==
  /\ ClaimFits(active)
  /\ active.version = AGREEMENT_VERSION
  /\ active.supported
  /\ active.status = STATUS_ACTIVE
  /\ now >= active.expiry_timepoint
  /\ SignedBy(active.lender, active, PATH_CLAIM_AFTER_EXPIRY)

\* Mutant: a claim under the overflow checks of a repayment.
ClaimAccepts_RepayFits(active, now) ==
  /\ RepayFits(active)
  /\ active.version = AGREEMENT_VERSION
  /\ active.supported
  /\ active.status = STATUS_ACTIVE
  /\ now > active.expiry_timepoint
  /\ SignedBy(active.lender, active, PATH_CLAIM_AFTER_EXPIRY)

ClaimAccepts(active, now) ==
  /\ ClaimFits(active)
  /\ active.version = AGREEMENT_VERSION
  /\ active.supported
  /\ active.status = STATUS_ACTIVE
  /\ now > active.expiry_timepoint
  /\ SignedBy(active.lender, active, PATH_CLAIM_AFTER_EXPIRY)

\* Mutant: the capacity of a payout output is not checked.
PayoutOutputAccepts_AnyCapacity(output, payout) ==
  output.data = payout /\ output.lock_args = payout.recipient

\* The three checks on a payout output: data, capacity, lock args.
PayoutOutputAccepts(output, payout) ==
  /\ output.data = payout
  /\ output.capacity >= Add64(PAYOUT_OCCUPIED, payout.amount)
  /\ output.lock_args = payout.recipient
-----------------------------------------------------------------------------
(***************************************************************************)
(* The chain.                                                              *)
(***************************************************************************)

Spent == UNION {ledger[j].spent : j \in DOMAIN ledger}
Live  == DOMAIN ledger \ Spent

\* The payout outputs a builder may try for a path.
PayoutOutputs(a, path) ==
  [DOMAIN Payouts(a, path) ->
     [data : {Payouts(a, path)[k] : k \in DOMAIN Payouts(a, path)},
      capacity : Capacities, lock_args : {a.borrower, a.lender}]]

\* The transaction that takes agreement a along a path, under a header of
\* epoch now, in a block of epoch at.
Transaction(a, path, now, at, spent, outputs) ==
  [path |-> path, epoch |-> at, spent |-> spent,
   agreement |-> Successor(a, path), payouts |-> outputs,
   receipt |-> Receipt(a, path, now)]

Commit(a, path, now, spent) ==
  /\ \E outputs \in PayoutOutputs(a, path) :
       /\ \A k \in DOMAIN outputs :
            PayoutOutputAccepts(outputs[k], Payouts(a, path)[k])
       /\ ledger' = Append(ledger,
                           Transaction(a, path, now, tip, spent, outputs))
  /\ UNCHANGED <<tip, signed>>

\* Agreement inputs the builder adds to those the path calls for.
ExtraInputs(i) == IF DocumentedShape THEN {{}} ELSE SUBSET (Live \ {i})

Init ==
  /\ tip = 0
  /\ signed = {}
  /\ ledger = <<>>

\* The chain moves to its next epoch.
Tick ==
  /\ tip < MaxEpoch
  /\ tip' = tip + 1
  /\ UNCHANGED <<signed, ledger>>

\* A wallet signs the intent that takes agreement a along a path.  An intent
\* is known as soon as the terms are, so it may be signed before a exists.
Sign(key, a, path) ==
  /\ ~SignedBy(key, a, path)
  /\ signed' = signed \cup {<<key, SignedIntentHash(a, path)>>}
  /\ UNCHANGED <<tip, ledger>>

Originate(t, now) ==
  /\ Len(ledger) < MaxLedger
  /\ OriginateAccepts(t, now)
  /\ \E extra \in ExtraInputs(0) :
       Commit(Offer(t), PATH_ORIGINATE, now, extra)

Repay(i, now) ==
  /\ RepayAccepts(ledger[i].agreement, now)
  /\ \E extra \in ExtraInputs(i) :
       Commit(ledger[i].agreement, PATH_REPAY_BEFORE_EXPIRY, now, {i} \cup extra)

Claim(i, now) ==
  /\ ClaimAccepts(ledger[i].agreement, now)
  /\ \E extra \in ExtraInputs(i) :
       Commit(ledger[i].agreement, PATH_CLAIM_AFTER_EXPIRY, now, {i} \cup extra)

Next ==
  \/ Tick
  \/ \E w \in WillSign : Sign(w[1], w[2], w[3])
  \/ \E t \in Terms, now \in Presentable(tip) : Originate(t, now)
  \/ \E i \in Live, now \in Presentable(tip) : Repay(i, now)
  \/ \E i \in Live, now \in Presentable(tip) : Claim(i, now)

Spec == Init /\ [][Next]_vars

\* Time passes, and a lender who is willing to claim signs and, once its claim
\* is acceptable, has it committed.  Nothing is assumed of the borrower.
Fairness ==
  /\ WF_vars(Tick)
  /\ \A w \in WillSign :
       w[3] = PATH_CLAIM_AFTER_EXPIRY => WF_vars(Sign(w[1], w[2], w[3]))
  /\ \A i \in 1..(2 * MaxLedger) : WF_vars(i \in Live /\ Claim(i, tip))

FairSpec == Spec /\ Fairness
-----------------------------------------------------------------------------
(***************************************************************************)
(* Properties.                                                             *)
(***************************************************************************)

\* The agreements the script can have written: what the terms allow.
Active(t)    == Successor(Offer(t), PATH_ORIGINATE)
Repaid(t)    == Successor(Active(t), PATH_REPAY_BEFORE_EXPIRY)
Defaulted(t) == Successor(Active(t), PATH_CLAIM_AFTER_EXPIRY)

Closings == {PATH_REPAY_BEFORE_EXPIRY, PATH_CLAIM_AFTER_EXPIRY}

TransactionOK(tx, n) ==
  /\ tx.path \in Paths
  /\ tx.epoch \in 0..MaxEpoch
  /\ tx.spent \subseteq 1..n
  /\ \E t \in Terms : tx.agreement \in {Active(t), Repaid(t), Defaulted(t)}
  /\ tx.receipt.timepoint \in 0..tx.epoch

\* Type invariant: a transaction spends only cells of earlier transactions,
\* and each agreement cell carries one of the states its terms allow.
TypeOK ==
  /\ tip \in 0..MaxEpoch
  /\ \A s \in signed : \E w \in WillSign :
       s = <<w[1], SignedIntentHash(w[2], w[3])>>
  /\ \A j \in DOMAIN ledger : TransactionOK(ledger[j], j - 1)

\* No agreement cell is spent twice, and a closed agreement is never taken
\* further: whichever terminal path came first stays the only one
\* (SECURITY.md, "Status moves from Active to a terminal status").
TerminalIsFinal ==
  \A j \in DOMAIN ledger : \A i \in ledger[j].spent :
    /\ ledger[i].agreement.status = STATUS_ACTIVE
    /\ \A k \in DOMAIN ledger : i \in ledger[k].spent => k = j

PaysAtLeast(output, key, amount) ==
  /\ output.lock_args = key
  /\ output.capacity >= PAYOUT_OCCUPIED + amount

PaidAsNegotiated(tx, t) ==
  CASE tx.path = PATH_REPAY_BEFORE_EXPIRY ->
         /\ DOMAIN tx.payouts = {1, 2}
         /\ PaysAtLeast(tx.payouts[1], t.lender,
                        t.principal_amount + t.fixed_fee_amount)
         /\ PaysAtLeast(tx.payouts[2], t.borrower, t.collateral_amount)
    [] tx.path = PATH_CLAIM_AFTER_EXPIRY ->
         /\ DOMAIN tx.payouts = {1}
         /\ PaysAtLeast(tx.payouts[1], t.lender, t.collateral_amount)
    [] OTHER -> FALSE

\* An agreement ends in the amounts of terms whose origination intent both
\* parties signed, in exact arithmetic: a repaid lender holds principal plus
\* fee and the borrower its collateral, a defaulted-on lender the collateral,
\* each in an output of its own above the occupied capacity.  (That intent
\* names collateral and fee through terms_hash only: see IntentFixesOutcome.)
SettlementAsNegotiated ==
  \A j \in DOMAIN ledger : \A i \in ledger[j].spent :
    \E t \in Terms :
      /\ \A key \in {t.borrower, t.lender} :
           SignedBy(key, Offer(t), PATH_ORIGINATE)
      /\ ledger[i].agreement = Active(t)
      /\ PaidAsNegotiated(ledger[j], t)

\* Whatever a receipt reports was authorised by the parties it names, on the
\* very intent the receipt commits to: both at origination, the borrower to
\* repay, the lender to claim.
RequiredSigners(receipt) ==
  CASE receipt.action = PATH_ORIGINATE -> {receipt.borrower, receipt.lender}
    [] receipt.action = PATH_REPAY_BEFORE_EXPIRY -> {receipt.borrower}
    [] receipt.action = PATH_CLAIM_AFTER_EXPIRY  -> {receipt.lender}

ReceiptsAreAuthorised ==
  \A j \in DOMAIN ledger :
    \A key \in RequiredSigners(ledger[j].receipt) :
      <<key, ledger[j].receipt.signed_intent_hash>> \in signed

\* The receipts of an agreement form a chain an indexer can follow: a closing
\* receipt names the receipt of the origination it closes, continues its
\* nonce, and is named by the cell that replaces the spent one.
ReceiptsChain ==
  \A j \in DOMAIN ledger :
    LET tx == ledger[j] IN
    /\ tx.agreement.latest_receipt_hash = tx.receipt.latest_receipt_hash
    /\ tx.agreement.nonce = tx.receipt.nonce
    /\ tx.spent = {} => tx.receipt.previous_receipt_hash = ZeroHash
    /\ \A i \in tx.spent :
         /\ tx.receipt.previous_receipt_hash = ledger[i].receipt.latest_receipt_hash
         /\ tx.receipt.nonce = ledger[i].receipt.nonce + 1
         /\ tx.receipt.old_status = ledger[i].receipt.new_status

\* On the chain's own clock a claim only ever follows the expiry, whatever
\* header its builder names, and a repayment trails it by no more than the
\* header does: as far as the builder likes, for the script sets no limit
\* (RepaymentOnlyBeforeExpiry).
DeadlinesHold ==
  \A j \in DOMAIN ledger : \A i \in ledger[j].spent :
    LET expiry == ledger[i].agreement.expiry_timepoint IN
    /\ ledger[j].path = PATH_CLAIM_AFTER_EXPIRY => ledger[j].epoch > expiry
    /\ ledger[j].path = PATH_REPAY_BEFORE_EXPIRY =>
         ledger[j].epoch <= expiry + HeaderLag

\* Nothing in the script strands an agreement: if the collateral fits a payout
\* output and the lender is willing to claim, every active agreement is closed.
Closable(i) ==
  LET a == ledger[i].agreement IN
  /\ a.status = STATUS_ACTIVE
  /\ a.collateral_amount <= U64_MAX - PAYOUT_OCCUPIED
  /\ <<a.lender, a, PATH_CLAIM_AFTER_EXPIRY>> \in WillSign
  /\ a.expiry_timepoint < MaxEpoch

EveryAgreementCloses ==
  \A i \in 1..(2 * MaxLedger) : (i \in Live /\ Closable(i)) ~> (i \in Spent)

(***************************************************************************)
(* What the documents say and the code does not do.                        *)
(***************************************************************************)

\* The agreement's SECURITY.md lists "Repayment only before or at expiry."
\* among the implemented guards.
RepaymentOnlyBeforeExpiry ==
  \A j \in DOMAIN ledger : \A i \in ledger[j].spent :
    ledger[j].path = PATH_REPAY_BEFORE_EXPIRY =>
      ledger[j].epoch <= ledger[i].agreement.expiry_timepoint

\* nova_agreement_lifecycle_type.cell: "Origination has no active agreement
\* input."
OriginationSpendsNoAgreement ==
  \A j \in DOMAIN ledger :
    ledger[j].path = PATH_ORIGINATE => ledger[j].spent = {}

\* NOVASEAL_ARCHITECTURE_EXPLAINED.md bounds replay by "Nonce, expiry and old
\* Cell binding": no signed intent takes effect twice.
SignedIntentTakesEffectOnce ==
  \A j, k \in DOMAIN ledger :
    ledger[j].receipt.signed_intent_hash = ledger[k].receipt.signed_intent_hash
      => j = k
==============================================================================
