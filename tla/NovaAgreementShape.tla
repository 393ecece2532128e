-------------------------- MODULE NovaAgreementShape --------------------------
(***************************************************************************)
(* The agreement shape evaluator of the tools: a second, independent       *)
(* judgement of the three paths, on the capacities of the outputs by role, *)
(* the time and the acting party, without witnesses, cells or hashes.      *)
(* Builders use it before a transaction exists.  ShapeAgreesWithNode says  *)
(* where its verdict is that of script and node, and where it is not.      *)
(*                                                                         *)
(* A case is judged against terms t, which the source fixes as constants.  *)
(* The evaluator has occupied capacities of its own (SHAPE_..._OCCUPIED)   *)
(* where node and script count others, so that an output of a case is set  *)
(* beside one that holds as much above what the other side counts.         *)
(***************************************************************************)
EXTENDS NovaAgreementScript

CONSTANTS SHAPE_AGREEMENT_OCCUPIED, SHAPE_RECEIPT_OCCUPIED, SHAPE_PAYOUT_OCCUPIED

ASSUME ShapeAssumption ==
  {SHAPE_AGREEMENT_OCCUPIED, SHAPE_RECEIPT_OCCUPIED, SHAPE_PAYOUT_OCCUPIED}
    \subseteq Nat \ {0}

\* The action of the cases that try the sums alone.
REPAY_ARITHMETIC_BOUNDARY == 3

output(role, occupied, economic) ==
  [role |-> role, occupied |-> occupied, capacity |-> occupied + economic]

\* The outputs of the accepted cases, path by path.
ShapeOutputs(t, path) ==
  CASE path = PATH_ORIGINATE ->
         <<output("agreement", SHAPE_AGREEMENT_OCCUPIED, t.collateral_amount),
           output("borrower_principal", SHAPE_PAYOUT_OCCUPIED, t.principal_amount),
           output("receipt", SHAPE_RECEIPT_OCCUPIED, 0)>>
    [] path = PATH_REPAY_BEFORE_EXPIRY ->
         <<output("agreement", SHAPE_AGREEMENT_OCCUPIED, 0),
           output("lender_repayment", SHAPE_PAYOUT_OCCUPIED,
                  t.principal_amount + t.fixed_fee_amount),
           output("borrower_collateral_return", SHAPE_PAYOUT_OCCUPIED,
                  t.collateral_amount),
           output("receipt", SHAPE_RECEIPT_OCCUPIED, 0)>>
    [] path = PATH_CLAIM_AFTER_EXPIRY ->
         <<output("agreement", SHAPE_AGREEMENT_OCCUPIED, 0),
           output("lender_default_claim", SHAPE_PAYOUT_OCCUPIED, t.collateral_amount),
           output("receipt", SHAPE_RECEIPT_OCCUPIED, 0)>>

Case(t, path, now, actor) ==
  [action |-> path, time |-> now, actor |-> actor, outputs |-> ShapeOutputs(t, path),
   principal |-> t.principal_amount, fee |-> t.fixed_fee_amount, nonce |-> 0]

\* Output k one unit short: a wrong settlement amount in a payout, a capacity
\* below the occupied one in a closed agreement.
Short(c, k) == [c EXCEPT !.outputs[k].capacity = @ - 1]

\* Output k one unit over.
Long(c, k) == [c EXCEPT !.outputs[k].capacity = @ + 1]

\* A case without outputs, about what a repayment adds up.
BoundaryCase(t, principal, fee, nonce) ==
  [action |-> REPAY_ARITHMETIC_BOUNDARY, time |-> t.expiry_timepoint,
   actor |-> t.borrower, outputs |-> <<>>,
   principal |-> principal, fee |-> fee, nonce |-> nonce]
-----------------------------------------------------------------------------
\* checked_add on the settlement and on the nonce, whatever the action.
NoOverflow(c) == c.principal + c.fee <= U64_MAX /\ c.nonce + 1 <= U64_MAX

\* The first output of the role holds exactly this above its occupied capacity.
economic(c, role, expected) ==
  \E k \in DOMAIN c.outputs :
    /\ c.outputs[k].role = role
    /\ \A m \in 1..(k - 1) : c.outputs[m].role # role
    /\ c.outputs[k].capacity = c.outputs[k].occupied + expected

OriginateShape(c, t) ==
  /\ t.start_timepoint <= c.time
  /\ c.time <= t.expiry_timepoint
  /\ c.actor = t.borrower
  /\ economic(c, "agreement", t.collateral_amount)
  /\ economic(c, "borrower_principal", t.principal_amount)
  /\ economic(c, "receipt", 0)

RepayShape(c, t) ==
  /\ c.time <= t.expiry_timepoint
  /\ c.actor = t.borrower
  /\ economic(c, "agreement", 0)
  /\ economic(c, "lender_repayment", c.principal + c.fee)
  /\ economic(c, "borrower_collateral_return", t.collateral_amount)
  /\ economic(c, "receipt", 0)

\* Mutant: a claim in the expiry epoch itself.
ClaimShape_AtExpiry(c, t) ==
  /\ c.time >= t.expiry_timepoint
  /\ c.actor = t.lender
  /\ economic(c, "agreement", 0)
  /\ economic(c, "lender_default_claim", t.collateral_amount)
  /\ economic(c, "receipt", 0)

ClaimShape(c, t) ==
  /\ c.time > t.expiry_timepoint
  /\ c.actor = t.lender
  /\ economic(c, "agreement", 0)
  /\ economic(c, "lender_default_claim", t.collateral_amount)
  /\ economic(c, "receipt", 0)

\* What is asked of the outputs, the time and the party of a path.
ShapeOf(c, t) ==
  /\ \A k \in DOMAIN c.outputs : c.outputs[k].capacity >= c.outputs[k].occupied
  /\ \/ c.action = PATH_ORIGINATE           /\ OriginateShape(c, t)
     \/ c.action = PATH_REPAY_BEFORE_EXPIRY /\ RepayShape(c, t)
     \/ c.action = PATH_CLAIM_AFTER_EXPIRY  /\ ClaimShape(c, t)

\* accepted: no failure was noted.  A boundary case is judged by its sums alone.
evaluate(c, t) ==
  /\ NoOverflow(c)
  /\ c.action = REPAY_ARITHMETIC_BOUNDARY \/ ShapeOf(c, t)
-----------------------------------------------------------------------------
(***************************************************************************)
(* Properties.                                                             *)
(***************************************************************************)

\* The transaction a case describes, acted by whoever has signed.
Acted(t, a, path, now, actor) ==
  LET tx == Materialize(t, a, path, now, ExactPayouts(a, path)) IN
  IF path = PATH_CLAIM_AFTER_EXPIRY
  THEN [tx EXCEPT !.lender_sig = SignatureBy(actor, a, path)]
  ELSE [tx EXCEPT !.borrower_sig = SignatureBy(actor, a, path)]

\* Output 1 of a case is the agreement output of the transaction, the others
\* are its outputs 1, 2, ...: payouts and receipt.
ShortTransaction(tx, k) ==
  IF k = 1 THEN [tx EXCEPT !.capacity = @ - 1]
  ELSE [tx EXCEPT !.outputs[k - 1].capacity = @ - 1]

LongTransaction(tx, k) ==
  IF k = 1 THEN [tx EXCEPT !.capacity = @ + 1]
  ELSE [tx EXCEPT !.outputs[k - 1].capacity = @ + 1]

\* The guards of the script that the evaluator has not: each payout fits a
\* u64 together with its occupied capacity.
PayoutsFit(a, path) ==
  \A k \in DOMAIN Payouts(a, path) :
    PAYOUT_OCCUPIED + Payouts(a, path)[k].amount <= U64_MAX

\* On outputs in full the evaluator differs in its overflow checks alone: it
\* has none on what a payout output holds, and asks principal plus fee to fit
\* of a claim and an origination too.
FullVerdicts(c, t, tx, fits) ==
  evaluate(c, t) /\ fits <=> NodeAccepts(tx) /\ NoOverflow(c)

\* An output short: refused by both, but for the agreement output of an
\* origination.  That the collateral is in it is the evaluator's to ask.
ShortVerdicts(c, t, tx) ==
  \A k \in DOMAIN c.outputs :
    /\ ~evaluate(Short(c, k), t)
    /\ NodeAccepts(ShortTransaction(tx, k)) <=> tx.op = PATH_ORIGINATE /\ k = 1

\* An output over: the evaluator wants it exact, script and node do not mind.
LongVerdicts(c, t, tx) ==
  \A k \in DOMAIN c.outputs :
    /\ ~evaluate(Long(c, k), t)
    /\ NodeAccepts(LongTransaction(tx, k))

VerdictsCompare(t, a, path, now, actor) ==
  \A tx \in {Acted(t, a, path, now, actor)} :
    \A c \in {Case(t, path, now, actor)} :
      /\ FullVerdicts(c, t, tx, PayoutsFit(a, path))
      /\ evaluate(c, t) /\ PayoutsFit(a, path) =>
           ShortVerdicts(c, t, tx) /\ LongVerdicts(c, t, tx)

\* A boundary case is the script's overflow guards on a repayment, without
\* those on the payout outputs.
BoundaryVerdicts(t) ==
  \A principal, fee, nonce \in U64 :
    \A a \in {[Offer(t) EXCEPT !.principal_amount = principal,
                               !.fixed_fee_amount = fee, !.nonce = nonce]} :
      evaluate(BoundaryCase(t, principal, fee, nonce), t)
        /\ PayoutsFit(a, PATH_REPAY_BEFORE_EXPIRY) <=> RepayFits(a)

ActorsOf(a, path) ==
  {key \in Keys : SignedBy(key, a, path)} \cup {Stranger}

\* What the source's terms have, at whatever amounts.
Judged(t) ==
  /\ t.version = AGREEMENT_VERSION /\ t.supported
  /\ t.collateral_amount > 0 /\ t.principal_amount > 0
  /\ t.start_timepoint < t.expiry_timepoint

\* Where evaluator and chain reach one verdict, and where not: on every step
\* that the latest agreement can be taken, or a first one originated, at any
\* time by anyone who has signed it, with the outputs in full, one short or
\* one over; and, before anything is signed, on the sums of any repayment.
ShapeAgreesWithNode ==
  /\ signed = {} => \A t \in Terms : Judged(t) => BoundaryVerdicts(t)
  /\ ledger = <<>> => \A t \in Terms :
       Judged(t) /\ SignedBy(t.lender, Offer(t), PATH_ORIGINATE) =>
         \A now \in 0..MaxEpoch, actor \in ActorsOf(Offer(t), PATH_ORIGINATE) :
           VerdictsCompare(t, Offer(t), PATH_ORIGINATE, now, actor)
  /\ \A i \in Live \cap {Len(ledger)} : \A a \in {ledger[i].agreement} :
       a.status = STATUS_ACTIVE =>
         \A path \in Closings, now \in 0..MaxEpoch : \A actor \in ActorsOf(a, path) :
           VerdictsCompare(TermsOf(i), a, path, now, actor)
==============================================================================
