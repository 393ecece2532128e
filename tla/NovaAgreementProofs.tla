------------------------- MODULE NovaAgreementProofs -------------------------
(***************************************************************************)
(* Theorems about NovaAgreement, for every set of keys and terms, every    *)
(* width of the arithmetic, every header lag and every length of chain.    *)
(*                                                                         *)
(* The type invariant and the safety invariants are not inductive: they    *)
(* relate the cell a transaction spends to the transaction that created    *)
(* it.  The inductive invariant says where every transaction comes from:   *)
(* the terms, the header and the signatures that let the script accept it. *)
(*                                                                         *)
(* The second half is about the script over explicit transactions, for     *)
(* every transaction a builder can present: what it accepts, and what a    *)
(* signed intent fixes.                                                    *)
(***************************************************************************)
EXTENDS NovaAgreementRights, NovaAgreementShape, NovaLineLemmas

Agreements ==
  UNION {{Offer(t), Active(t), Repaid(t), Defaulted(t)} : t \in Terms}

AllOutputs == UNION {PayoutOutputs(a, path) : a \in Agreements, path \in Paths}

Transactions ==
  {Transaction(a, path, now, at, spent, outputs) :
     a \in Agreements, path \in Paths, now \in Nat, at \in Nat,
     spent \in SUBSET Nat, outputs \in AllOutputs}

\* Transaction j took agreement a along a path, with payouts the script accepts.
Took(j, a, path, now) ==
  /\ ledger[j] = Transaction(a, path, now, ledger[j].epoch,
                             ledger[j].spent, ledger[j].payouts)
  /\ ledger[j].payouts \in PayoutOutputs(a, path)
  /\ \A k \in DOMAIN ledger[j].payouts :
       PayoutOutputAccepts(ledger[j].payouts[k], Payouts(a, path)[k])

\* Transaction j spent the active agreement of the terms.
SpentActive(j, t) ==
  \E i \in ledger[j].spent :
    /\ ledger[i].agreement = Active(t)
    /\ DocumentedShape => ledger[j].spent = {i}

OriginatedBy(j, t, now) ==
  /\ Took(j, Offer(t), PATH_ORIGINATE, now)
  /\ OriginateAccepts(t, now)
  /\ DocumentedShape => ledger[j].spent = {}

RepaidBy(j, t, now) ==
  /\ Took(j, Active(t), PATH_REPAY_BEFORE_EXPIRY, now)
  /\ RepayAccepts(Active(t), now)
  /\ SpentActive(j, t)

ClaimedBy(j, t, now) ==
  /\ Took(j, Active(t), PATH_CLAIM_AFTER_EXPIRY, now)
  /\ ClaimAccepts(Active(t), now)
  /\ SpentActive(j, t)

\* The script accepted transaction j, for these terms.
Accepted(j) ==
  \E t \in Terms : \E now \in Presentable(ledger[j].epoch) :
    OriginatedBy(j, t, now) \/ RepaidBy(j, t, now) \/ ClaimedBy(j, t, now)

TypeInv ==
  /\ tip \in 0..MaxEpoch
  /\ ledger \in Seq(Transactions)

SignedInv ==
  \A s \in signed : \E w \in WillSign : s = <<w[1], SignedIntentHash(w[2], w[3])>>

HistoryInv ==
  \A j \in 1..Len(ledger) :
    /\ ledger[j].epoch \in 0..MaxEpoch
    /\ ledger[j].spent \subseteq 1..(j - 1)
    /\ Accepted(j)

SpentOnce ==
  \A j, k \in 1..Len(ledger) :
    ledger[j].spent \cap ledger[k].spent # {} => j = k

IInv == TypeInv /\ SignedInv /\ HistoryInv /\ SpentOnce
-----------------------------------------------------------------------------
(***************************************************************************)
(* The cells the script writes.                                            *)
(***************************************************************************)

\* The active agreement of some terms carries them over.
LEMMA ActiveFields ==
  ASSUME NEW t \in Terms
  PROVE  /\ Active(t).status = STATUS_ACTIVE
         /\ Active(t).nonce = 0
         /\ Active(t).borrower = t.borrower
         /\ Active(t).lender = t.lender
         /\ Active(t).collateral_amount = t.collateral_amount
         /\ Active(t).principal_amount = t.principal_amount
         /\ Active(t).fixed_fee_amount = t.fixed_fee_amount
         /\ Active(t).expiry_timepoint = t.expiry_timepoint
         /\ Active(t).latest_receipt_hash
              = MaterializedReceiptHash(Offer(t), PATH_ORIGINATE)
  BY DEF Active, Successor, Offer, NewStatus, NewNonce, Paths, PATH_ORIGINATE,
     PATH_REPAY_BEFORE_EXPIRY, PATH_CLAIM_AFTER_EXPIRY

\* A closed agreement is not active.
LEMMA ClosedStatus ==
  ASSUME NEW t \in Terms
  PROVE  /\ Repaid(t).status = STATUS_REPAID
         /\ Defaulted(t).status = STATUS_DEFAULTED
<1>1. Active(t) = [Offer(t) EXCEPT
        !.status = STATUS_ACTIVE,
        !.latest_receipt_hash = MaterializedReceiptHash(Offer(t), PATH_ORIGINATE),
        !.nonce = 0]
  BY DEF Active, Successor, NewStatus, NewNonce, PATH_ORIGINATE,
     PATH_REPAY_BEFORE_EXPIRY, PATH_CLAIM_AFTER_EXPIRY
<1>2. "status" \in DOMAIN Active(t)
  BY <1>1 DEF Offer
<1> QED
  BY <1>2 DEF Repaid, Defaulted, Successor, NewStatus, PATH_ORIGINATE,
     PATH_REPAY_BEFORE_EXPIRY, PATH_CLAIM_AFTER_EXPIRY

\* An active agreement among those the script writes comes from its terms.
LEMMA ActiveOnly ==
  ASSUME NEW t \in Terms, NEW a \in {Active(t), Repaid(t), Defaulted(t)},
         a.status = STATUS_ACTIVE
  PROVE  a = Active(t)
  BY ClosedStatus DEF STATUS_ACTIVE, STATUS_REPAID, STATUS_DEFAULTED

\* The cell that an accepted transaction creates.
LEMMA CreatedAgreement ==
  ASSUME NEW j, Accepted(j)
  PROVE  \E t \in Terms : ledger[j].agreement \in {Active(t), Repaid(t), Defaulted(t)}
<1>1. PICK t \in Terms, now \in Presentable(ledger[j].epoch) :
        OriginatedBy(j, t, now) \/ RepaidBy(j, t, now) \/ ClaimedBy(j, t, now)
  BY DEF Accepted
<1>2. \E a, path : /\ ledger[j].agreement = Successor(a, path)
                   /\ \/ a = Offer(t) /\ path = PATH_ORIGINATE
                      \/ a = Active(t) /\ path = PATH_REPAY_BEFORE_EXPIRY
                      \/ a = Active(t) /\ path = PATH_CLAIM_AFTER_EXPIRY
  <2>1. ASSUME NEW a, NEW path, Took(j, a, path, now)
        PROVE  ledger[j].agreement = Successor(a, path)
    BY <2>1 DEF Took, Transaction
  <2> QED
    BY <1>1, <2>1 DEF OriginatedBy, RepaidBy, ClaimedBy
<1> QED
  BY <1>2 DEF Active, Repaid, Defaulted
-----------------------------------------------------------------------------
(***************************************************************************)
(* Committing a transaction.                                               *)
(***************************************************************************)

\* What is accepted stays accepted when the ledger grows at its end and
\* signatures are only added.
LEMMA AcceptedStable ==
  ASSUME NEW j \in Nat \ {0}, Accepted(j), ledger[j].spent \subseteq 1..(j - 1),
         \A i \in 1..j : ledger'[i] = ledger[i],
         signed \subseteq signed'
  PROVE  Accepted(j)'
<1>1. PICK t \in Terms, now \in Presentable(ledger[j].epoch) :
        OriginatedBy(j, t, now) \/ RepaidBy(j, t, now) \/ ClaimedBy(j, t, now)
  BY DEF Accepted
<1>2. ledger'[j] = ledger[j] /\ \A i \in ledger[j].spent : ledger'[i] = ledger[i]
  OBVIOUS
<1>3. now \in Presentable(ledger'[j].epoch)
  BY <1>2
<1>4. CASE OriginatedBy(j, t, now)
  BY <1>2, <1>3, <1>4 DEF OriginatedBy, Took, OriginateAccepts, SignedBy, Accepted
<1>5. CASE RepaidBy(j, t, now)
  BY <1>2, <1>3, <1>5 DEF RepaidBy, SpentActive, Took, RepayAccepts, SignedBy, Accepted
<1>6. CASE ClaimedBy(j, t, now)
  BY <1>2, <1>3, <1>6 DEF ClaimedBy, SpentActive, Took, ClaimAccepts, SignedBy, Accepted
<1> QED
  BY <1>1, <1>4, <1>5, <1>6

\* A committed transaction joins the ledger at its end, with accepted payouts.
LEMMA CommitAppends ==
  ASSUME TypeInv, MaxEpoch \in Nat, NEW n \in Nat, n = Len(ledger) + 1,
         NEW a \in Agreements, NEW path \in Paths,
         NEW now \in Presentable(tip), NEW spent \in SUBSET Nat,
         Commit(a, path, now, spent)
  PROVE  /\ TypeInv'
         /\ tip' = tip /\ signed' = signed
         /\ Len(ledger') = n
         /\ \A i \in 1..Len(ledger) : ledger'[i] = ledger[i]
         /\ ledger'[n].epoch = tip
         /\ ledger'[n].spent = spent
         /\ Took(n, a, path, now)'
<1>1. PICK outputs \in PayoutOutputs(a, path) :
        /\ \A k \in DOMAIN outputs :
             PayoutOutputAccepts(outputs[k], Payouts(a, path)[k])
        /\ ledger' = Append(ledger, Transaction(a, path, now, tip, spent, outputs))
  BY DEF Commit
<1> DEFINE tx == Transaction(a, path, now, tip, spent, outputs)
<1>2. tx \in Transactions
  <2>1. outputs \in AllOutputs
    BY DEF AllOutputs
  <2>2. now \in Nat /\ tip \in Nat
    BY DEF Presentable, TypeInv
  <2> QED
    BY <2>1, <2>2 DEF Transactions
<1>3. tx.epoch = tip /\ tx.spent = spent /\ tx.payouts = outputs
  BY DEF Transaction
<1>4. tip' = tip /\ signed' = signed
  BY DEF Commit
<1> HIDE DEF tx
<1>5. /\ ledger' \in Seq(Transactions)
      /\ Len(ledger') = n
      /\ \A i \in 1..Len(ledger) : ledger'[i] = ledger[i]
      /\ ledger'[n] = tx
  <2>1. ledger' = Append(ledger, tx)
    BY <1>1 DEF tx
  <2>2. ledger \in Seq(Transactions)
    BY DEF TypeInv
  <2> QED
    BY <1>2, <2>1, <2>2
<1>6. Took(n, a, path, now)'
  BY <1>1, <1>3, <1>5 DEF Took, tx
<1> QED
  BY <1>3, <1>4, <1>5, <1>6 DEF TypeInv
-----------------------------------------------------------------------------
(***************************************************************************)
(* The inductive invariant.                                                *)
(***************************************************************************)

\* An accepted transaction that spends live cells keeps the invariant.
LEMMA CommitInv ==
  ASSUME IInv, MaxEpoch \in Nat, NEW n \in Nat, n = Len(ledger) + 1,
         NEW a \in Agreements, NEW path \in Paths,
         NEW now \in Presentable(tip), NEW spent \in SUBSET Live,
         Commit(a, path, now, spent), Accepted(n)'
  PROVE  IInv'
<1>1. Live \subseteq 1..Len(ledger) /\ spent \in SUBSET Nat
  BY DEF Live, IInv, TypeInv
<1>2. /\ TypeInv'
      /\ tip' = tip /\ signed' = signed
      /\ Len(ledger') = n
      /\ \A i \in 1..Len(ledger) : ledger'[i] = ledger[i]
      /\ ledger'[n].epoch = tip
      /\ ledger'[n].spent = spent
  BY <1>1, CommitAppends DEF IInv
<1>3. SignedInv'
  BY <1>2 DEF IInv, SignedInv
<1>4. ASSUME NEW j \in 1..Len(ledger')
      PROVE  /\ ledger'[j].epoch \in 0..MaxEpoch
             /\ ledger'[j].spent \subseteq 1..(j - 1)
             /\ Accepted(j)'
  <2>1. CASE j = n
    <3>1. ledger'[j].epoch \in 0..MaxEpoch /\ ledger'[j].spent \subseteq 1..(j - 1)
      <4>1. tip \in 0..MaxEpoch /\ Len(ledger) = n - 1
        BY DEF IInv, TypeInv
      <4>2. spent \subseteq 1..(n - 1)
        BY <1>1, <4>1
      <4> QED
        BY <1>2, <2>1, <4>1, <4>2
    <3>2. Accepted(j)'
      BY <2>1
    <3> QED
      BY <3>1, <3>2
  <2>2. CASE j # n
    <3>1. j \in 1..Len(ledger) /\ j \in Nat \ {0} /\ \A i \in 1..j : ledger'[i] = ledger[i]
      <4>1. Len(ledger) \in Nat
        BY DEF IInv, TypeInv
      <4> QED
        BY <1>2, <2>2, <4>1
    <3>2. /\ ledger[j].epoch \in 0..MaxEpoch
          /\ ledger[j].spent \subseteq 1..(j - 1)
          /\ Accepted(j)
      BY <3>1 DEF IInv, HistoryInv
    <3>3. Accepted(j)'
      BY <1>2, <3>1, <3>2, AcceptedStable
    <3> QED
      BY <1>2, <3>1, <3>2, <3>3
  <2> QED
    BY <2>1, <2>2
<1>5. SpentOnce'
  <2>1. SUFFICES ASSUME NEW j \in 1..n, NEW k \in 1..n, j < k,
                        NEW i \in ledger'[j].spent, i \in ledger'[k].spent
                 PROVE  FALSE
    BY <1>2, <2>1 DEF SpentOnce
  <2>2. /\ j \in 1..Len(ledger) /\ ledger'[j] = ledger[j]
        /\ 1..Len(ledger) = DOMAIN ledger
    BY <1>2, <2>1 DEF IInv, TypeInv
  <2>3. CASE k = n
    <3>1. i \in Live
      BY <1>2, <2>1, <2>3
    <3> QED
      BY <2>1, <2>2, <3>1 DEF Live, Spent
  <2>4. CASE k # n
    <3>1. k \in 1..Len(ledger) /\ ledger'[k] = ledger[k]
      BY <1>2, <2>1, <2>4 DEF IInv, TypeInv
    <3> QED
      BY <2>1, <2>2, <3>1 DEF IInv, SpentOnce
  <2> QED
    BY <2>3, <2>4
<1> QED
  BY <1>2, <1>3, <1>4, <1>5 DEF IInv, HistoryInv

\* The empty ledger satisfies the invariant.
LEMMA InitInv ==
  ASSUME MaxEpoch \in Nat, Init
  PROVE  IInv
  BY DEF Init, IInv, TypeInv, SignedInv, HistoryInv, SpentOnce

\* Nothing but the set of signatures and the epoch changes, and the former grows.
LEMMA QuietInv ==
  ASSUME IInv, ledger' = ledger, signed \subseteq signed', SignedInv',
         tip' \in 0..MaxEpoch
  PROVE  IInv'
<1>1. ASSUME NEW j \in 1..Len(ledger)
      PROVE  /\ ledger[j].epoch \in 0..MaxEpoch
             /\ ledger[j].spent \subseteq 1..(j - 1)
             /\ Accepted(j)'
  <2>1. /\ ledger[j].epoch \in 0..MaxEpoch
        /\ ledger[j].spent \subseteq 1..(j - 1)
        /\ Accepted(j)
    BY DEF IInv, HistoryInv
  <2>2. j \in Nat \ {0}
    BY DEF IInv, TypeInv
  <2> QED
    BY <2>1, <2>2, AcceptedStable
<1> QED
  BY <1>1 DEF IInv, TypeInv, HistoryInv, SpentOnce

\* The agreement a closing takes is the active agreement of some terms.
LEMMA LiveActive ==
  ASSUME IInv, NEW i \in Live, ledger[i].agreement.status = STATUS_ACTIVE
  PROVE  /\ i \in 1..Len(ledger)
         /\ \E t \in Terms : ledger[i].agreement = Active(t)
<1>1. i \in 1..Len(ledger)
  BY DEF Live, IInv, TypeInv
<1>2. Accepted(i)
  BY <1>1 DEF IInv, HistoryInv
<1> QED
  BY <1>1, <1>2, CreatedAgreement, ActiveOnly

\* Every step keeps the invariant.
LEMMA NextInv ==
  ASSUME IInv, MaxEpoch \in Nat, [Next]_vars
  PROVE  IInv'
<1>0. PICK n \in Nat : n = Len(ledger) + 1
  BY DEF IInv, TypeInv
<1>1. CASE Tick
  BY <1>1, QuietInv DEF Tick, IInv, TypeInv, SignedInv
<1>2. ASSUME NEW w \in WillSign, Sign(w[1], w[2], w[3])
      PROVE  IInv'
  <2>1. ledger' = ledger /\ signed \subseteq signed' /\ tip' \in 0..MaxEpoch
    BY <1>2 DEF Sign, IInv, TypeInv
  <2>2. SignedInv'
    BY <1>2 DEF Sign, IInv, SignedInv
  <2> QED
    BY <2>1, <2>2, QuietInv
<1>3. ASSUME NEW t \in Terms, NEW now \in Presentable(tip), Originate(t, now)
      PROVE  IInv'
  <2>1. PICK extra \in ExtraInputs(0) : Commit(Offer(t), PATH_ORIGINATE, now, extra)
    BY <1>3 DEF Originate
  <2>2. extra \in SUBSET Live /\ (DocumentedShape => extra = {})
    BY DEF ExtraInputs
  <2>3. Offer(t) \in Agreements /\ PATH_ORIGINATE \in Paths
    BY DEF Agreements, Paths
  <2>4. /\ Took(n, Offer(t), PATH_ORIGINATE, now)'
        /\ ledger'[n].spent = extra /\ ledger'[n].epoch = tip /\ signed' = signed
    <3>1. TypeInv /\ extra \in SUBSET Nat
      BY <2>2 DEF IInv, TypeInv, Live
    <3> QED
      BY <1>0, <2>1, <2>3, <3>1, CommitAppends
  <2>5. Accepted(n)'
    BY <1>3, <2>2, <2>4 DEF Accepted, OriginatedBy, Originate, OriginateAccepts, SignedBy
  <2> QED
    BY <1>0, <2>1, <2>2, <2>3, <2>5, CommitInv
<1>4. ASSUME NEW i \in Live, NEW now \in Presentable(tip), Repay(i, now)
      PROVE  IInv'
  <2>1. PICK extra \in ExtraInputs(i) :
          Commit(ledger[i].agreement, PATH_REPAY_BEFORE_EXPIRY, now, {i} \cup extra)
    BY <1>4 DEF Repay
  <2>2. {i} \cup extra \in SUBSET Live /\ (DocumentedShape => {i} \cup extra = {i})
    BY DEF ExtraInputs
  <2>3. i \in 1..Len(ledger) /\ \E t \in Terms : ledger[i].agreement = Active(t)
    BY <1>4, LiveActive DEF Repay, RepayAccepts
  <2>4. PICK t \in Terms : ledger[i].agreement = Active(t)
    BY <2>3
  <2>5. Active(t) \in Agreements /\ PATH_REPAY_BEFORE_EXPIRY \in Paths
    BY DEF Agreements, Paths
  <2>6. /\ Took(n, Active(t), PATH_REPAY_BEFORE_EXPIRY, now)'
        /\ ledger'[n].spent = {i} \cup extra /\ ledger'[n].epoch = tip
        /\ signed' = signed /\ ledger'[i] = ledger[i]
    <3>1. TypeInv /\ {i} \cup extra \in SUBSET Nat
      BY <2>2 DEF IInv, TypeInv, Live
    <3> QED
      BY <1>0, <2>1, <2>3, <2>4, <2>5, <3>1, CommitAppends
  <2>7. Accepted(n)'
    <3>1. SpentActive(n, t)'
      BY <2>2, <2>4, <2>6 DEF SpentActive
    <3>2. RepayAccepts(Active(t), now)'
      BY <1>4, <2>4, <2>6 DEF Repay, RepayAccepts, SignedBy
    <3> QED
      BY <2>6, <3>1, <3>2 DEF Accepted, RepaidBy
  <2> QED
    BY <1>0, <2>1, <2>2, <2>4, <2>5, <2>7, CommitInv
<1>5. ASSUME NEW i \in Live, NEW now \in Presentable(tip), Claim(i, now)
      PROVE  IInv'
  <2>1. PICK extra \in ExtraInputs(i) :
          Commit(ledger[i].agreement, PATH_CLAIM_AFTER_EXPIRY, now, {i} \cup extra)
    BY <1>5 DEF Claim
  <2>2. {i} \cup extra \in SUBSET Live /\ (DocumentedShape => {i} \cup extra = {i})
    BY DEF ExtraInputs
  <2>3. i \in 1..Len(ledger) /\ \E t \in Terms : ledger[i].agreement = Active(t)
    BY <1>5, LiveActive DEF Claim, ClaimAccepts
  <2>4. PICK t \in Terms : ledger[i].agreement = Active(t)
    BY <2>3
  <2>5. Active(t) \in Agreements /\ PATH_CLAIM_AFTER_EXPIRY \in Paths
    BY DEF Agreements, Paths
  <2>6. /\ Took(n, Active(t), PATH_CLAIM_AFTER_EXPIRY, now)'
        /\ ledger'[n].spent = {i} \cup extra /\ ledger'[n].epoch = tip
        /\ signed' = signed /\ ledger'[i] = ledger[i]
    <3>1. TypeInv /\ {i} \cup extra \in SUBSET Nat
      BY <2>2 DEF IInv, TypeInv, Live
    <3> QED
      BY <1>0, <2>1, <2>3, <2>4, <2>5, <3>1, CommitAppends
  <2>7. Accepted(n)'
    <3>1. SpentActive(n, t)'
      BY <2>2, <2>4, <2>6 DEF SpentActive
    <3>2. ClaimAccepts(Active(t), now)'
      BY <1>5, <2>4, <2>6 DEF Claim, ClaimAccepts, SignedBy
    <3> QED
      BY <2>6, <3>1, <3>2 DEF Accepted, ClaimedBy
  <2> QED
    BY <1>0, <2>1, <2>2, <2>4, <2>5, <2>7, CommitInv
<1>6. CASE UNCHANGED vars
  <2>1. ledger' = ledger /\ signed' = signed /\ tip' = tip
    BY <1>6 DEF vars
  <2>2. SignedInv' /\ tip' \in 0..MaxEpoch
    BY <2>1 DEF IInv, SignedInv, TypeInv
  <2> QED
    BY <2>1, <2>2, QuietInv
<1> QED
  BY <1>1, <1>2, <1>3, <1>4, <1>5, <1>6 DEF Next

\* The invariant holds in every behaviour.
LEMMA SpecInv == Spec => []IInv
<1>1. MaxEpoch \in Nat
  BY AgreementAssumption
<1> QED
  BY <1>1, InitInv, NextInv, PTL DEF Spec
-----------------------------------------------------------------------------
(***************************************************************************)
(* What the invariant implies.                                             *)
(***************************************************************************)

\* What acceptance says of the fields of a transaction.
LEMMA AcceptedFields ==
  ASSUME IInv, NEW j \in 1..Len(ledger)
  PROVE  \E t \in Terms : \E now \in Presentable(ledger[j].epoch) :
           /\ OriginatedBy(j, t, now) \/ RepaidBy(j, t, now) \/ ClaimedBy(j, t, now)
           /\ OriginatedBy(j, t, now) =>
                /\ ledger[j].path = PATH_ORIGINATE
                /\ ledger[j].agreement = Active(t)
                /\ ledger[j].receipt = Receipt(Offer(t), PATH_ORIGINATE, now)
           /\ RepaidBy(j, t, now) =>
                /\ ledger[j].path = PATH_REPAY_BEFORE_EXPIRY
                /\ ledger[j].agreement = Repaid(t)
                /\ ledger[j].receipt = Receipt(Active(t), PATH_REPAY_BEFORE_EXPIRY, now)
           /\ ClaimedBy(j, t, now) =>
                /\ ledger[j].path = PATH_CLAIM_AFTER_EXPIRY
                /\ ledger[j].agreement = Defaulted(t)
                /\ ledger[j].receipt = Receipt(Active(t), PATH_CLAIM_AFTER_EXPIRY, now)
<1>1. PICK t \in Terms, now \in Presentable(ledger[j].epoch) :
        OriginatedBy(j, t, now) \/ RepaidBy(j, t, now) \/ ClaimedBy(j, t, now)
  BY DEF IInv, HistoryInv, Accepted
<1>2. ASSUME NEW a, NEW path, Took(j, a, path, now)
      PROVE  /\ ledger[j].path = path
             /\ ledger[j].agreement = Successor(a, path)
             /\ ledger[j].receipt = Receipt(a, path, now)
  BY <1>2 DEF Took, Transaction
<1> QED
  BY <1>1, <1>2 DEF OriginatedBy, RepaidBy, ClaimedBy, Active, Repaid, Defaulted

\* The type invariant follows.
LEMMA InvType == IInv => TypeOK
<1> SUFFICES ASSUME IInv PROVE TypeOK
  OBVIOUS
<1>1. DOMAIN ledger = 1..Len(ledger)
  BY DEF IInv, TypeInv
<1>2. ASSUME NEW j \in 1..Len(ledger)
      PROVE  TransactionOK(ledger[j], j - 1)
  <2>1. PICK t \in Terms, now \in Presentable(ledger[j].epoch) :
          /\ ledger[j].path \in Paths
          /\ ledger[j].agreement \in {Active(t), Repaid(t), Defaulted(t)}
          /\ \E a, path : ledger[j].receipt = Receipt(a, path, now)
    BY AcceptedFields DEF Paths
  <2>2. ledger[j].receipt.timepoint = now
    BY <2>1 DEF Receipt, ReceiptFor, MaterializedReceiptHash, SignedIntent
  <2>3. now \in 0..ledger[j].epoch
    BY DEF Presentable
  <2>4. ledger[j].epoch \in 0..MaxEpoch /\ ledger[j].spent \subseteq 1..(j - 1)
    BY DEF IInv, HistoryInv
  <2> QED
    BY <2>1, <2>2, <2>3, <2>4 DEF TransactionOK
<1> QED
  BY <1>1, <1>2 DEF TypeOK, IInv, TypeInv, SignedInv

\* TypeOK: each cell of the ledger carries one of the states its terms allow,
\* whatever other agreement cells the transactions consume.
THEOREM TypeCorrect == Spec => []TypeOK
  BY SpecInv, InvType, PTL
-----------------------------------------------------------------------------
(***************************************************************************)
(* Safety.                                                                 *)
(***************************************************************************)

\* In the documented shape, whatever spends a cell is a closing of the active
\* agreement in it, and spends nothing else.
LEMMA Spending ==
  ASSUME IInv, DocumentedShape, NEW j \in 1..Len(ledger), NEW i \in ledger[j].spent
  PROVE  /\ i \in 1..Len(ledger)
         /\ \E t \in Terms : \E now \in Presentable(ledger[j].epoch) :
              /\ ledger[i].agreement = Active(t)
              /\ \/ /\ RepaidBy(j, t, now)
                    /\ ledger[j].path = PATH_REPAY_BEFORE_EXPIRY
                    /\ ledger[j].receipt = Receipt(Active(t), PATH_REPAY_BEFORE_EXPIRY, now)
                    /\ ledger[j].agreement = Repaid(t)
                 \/ /\ ClaimedBy(j, t, now)
                    /\ ledger[j].path = PATH_CLAIM_AFTER_EXPIRY
                    /\ ledger[j].receipt = Receipt(Active(t), PATH_CLAIM_AFTER_EXPIRY, now)
                    /\ ledger[j].agreement = Defaulted(t)
<1>1. i \in 1..Len(ledger)
  <2>1. ledger[j].spent \subseteq 1..(j - 1)
    BY DEF IInv, HistoryInv
  <2>2. Len(ledger) \in Nat
    BY DEF IInv, TypeInv
  <2> QED
    BY <2>1, <2>2
<1>2. PICK t \in Terms, now \in Presentable(ledger[j].epoch) :
        /\ OriginatedBy(j, t, now) \/ RepaidBy(j, t, now) \/ ClaimedBy(j, t, now)
        /\ RepaidBy(j, t, now) =>
             /\ ledger[j].path = PATH_REPAY_BEFORE_EXPIRY
             /\ ledger[j].agreement = Repaid(t)
             /\ ledger[j].receipt = Receipt(Active(t), PATH_REPAY_BEFORE_EXPIRY, now)
        /\ ClaimedBy(j, t, now) =>
             /\ ledger[j].path = PATH_CLAIM_AFTER_EXPIRY
             /\ ledger[j].agreement = Defaulted(t)
             /\ ledger[j].receipt = Receipt(Active(t), PATH_CLAIM_AFTER_EXPIRY, now)
  BY AcceptedFields
<1>3. ~OriginatedBy(j, t, now)
  BY DEF OriginatedBy
<1>4. SpentActive(j, t) => ledger[i].agreement = Active(t)
  BY DEF SpentActive
<1> QED
  BY <1>1, <1>2, <1>3, <1>4 DEF RepaidBy, ClaimedBy

\* TerminalIsFinal, in a state of the documented shape.
LEMMA InvFinal ==
  ASSUME IInv, DocumentedShape
  PROVE  TerminalIsFinal
<1>1. DOMAIN ledger = 1..Len(ledger)
  BY DEF IInv, TypeInv
<1>2. ASSUME NEW j \in 1..Len(ledger), NEW i \in ledger[j].spent
      PROVE  /\ ledger[i].agreement.status = STATUS_ACTIVE
             /\ \A k \in DOMAIN ledger : i \in ledger[k].spent => k = j
  <2>1. ledger[i].agreement.status = STATUS_ACTIVE
    BY Spending, ActiveFields
  <2>2. \A k \in 1..Len(ledger) : i \in ledger[k].spent => k = j
    BY DEF IInv, SpentOnce
  <2> QED
    BY <1>1, <2>1, <2>2
<1> QED
  BY <1>1, <1>2 DEF TerminalIsFinal

\* DeadlinesHold, in a state of the documented shape.
LEMMA InvDeadlines ==
  ASSUME IInv, DocumentedShape
  PROVE  DeadlinesHold
<1>1. DOMAIN ledger = 1..Len(ledger)
  BY DEF IInv, TypeInv
<1>2. ASSUME NEW j \in 1..Len(ledger), NEW i \in ledger[j].spent
      PROVE  /\ ledger[j].path = PATH_CLAIM_AFTER_EXPIRY =>
                  ledger[j].epoch > ledger[i].agreement.expiry_timepoint
             /\ ledger[j].path = PATH_REPAY_BEFORE_EXPIRY =>
                  ledger[j].epoch <= ledger[i].agreement.expiry_timepoint + HeaderLag
  <2>1. PICK t \in Terms, now \in Presentable(ledger[j].epoch) :
          /\ ledger[i].agreement = Active(t)
          /\ \/ ledger[j].path = PATH_REPAY_BEFORE_EXPIRY /\ RepaidBy(j, t, now)
             \/ ledger[j].path = PATH_CLAIM_AFTER_EXPIRY /\ ClaimedBy(j, t, now)
    BY Spending
  <2>2. /\ Active(t).expiry_timepoint = t.expiry_timepoint
        /\ t.expiry_timepoint \in Nat
    BY ActiveFields, AgreementAssumption DEF NovaAgreementTermsV0
  <2>3. /\ ledger[j].epoch \in Nat /\ HeaderLag \in Nat
        /\ now \in 0..ledger[j].epoch /\ ledger[j].epoch - now <= HeaderLag
    BY CkbAssumption DEF IInv, HistoryInv, Presentable
  <2>4. CASE ledger[j].path = PATH_REPAY_BEFORE_EXPIRY /\ RepaidBy(j, t, now)
    <3>1. now <= Active(t).expiry_timepoint
      BY <2>4 DEF RepaidBy, RepayAccepts
    <3> QED
      BY <2>1, <2>2, <2>3, <2>4, <3>1 DEF PATH_REPAY_BEFORE_EXPIRY, PATH_CLAIM_AFTER_EXPIRY
  <2>5. CASE ledger[j].path = PATH_CLAIM_AFTER_EXPIRY /\ ClaimedBy(j, t, now)
    <3>1. now > Active(t).expiry_timepoint
      BY <2>5 DEF ClaimedBy, ClaimAccepts
    <3> QED
      BY <2>1, <2>2, <2>3, <2>5, <3>1 DEF PATH_REPAY_BEFORE_EXPIRY, PATH_CLAIM_AFTER_EXPIRY
  <2> QED
    BY <2>1, <2>4, <2>5
<1> QED
  BY <1>1, <1>2 DEF DeadlinesHold

\* ReceiptsAreAuthorised, in any state: each path's guard names its signers.
LEMMA InvAuthorised ==
  ASSUME IInv
  PROVE  ReceiptsAreAuthorised
<1>1. DOMAIN ledger = 1..Len(ledger)
  BY DEF IInv, TypeInv
<1>2. ASSUME NEW j \in 1..Len(ledger), NEW key \in RequiredSigners(ledger[j].receipt)
      PROVE  <<key, ledger[j].receipt.signed_intent_hash>> \in signed
  <2>1. PICK t \in Terms, now \in Presentable(ledger[j].epoch) :
          \/ /\ OriginatedBy(j, t, now)
             /\ ledger[j].receipt = Receipt(Offer(t), PATH_ORIGINATE, now)
          \/ /\ RepaidBy(j, t, now)
             /\ ledger[j].receipt = Receipt(Active(t), PATH_REPAY_BEFORE_EXPIRY, now)
          \/ /\ ClaimedBy(j, t, now)
             /\ ledger[j].receipt = Receipt(Active(t), PATH_CLAIM_AFTER_EXPIRY, now)
    BY AcceptedFields
  <2>2. ASSUME NEW a, NEW path, ledger[j].receipt = Receipt(a, path, now)
        PROVE  /\ ledger[j].receipt.signed_intent_hash = SignedIntentHash(a, path)
               /\ ledger[j].receipt.action = path
               /\ ledger[j].receipt.borrower = a.borrower
               /\ ledger[j].receipt.lender = a.lender
    BY <2>2 DEF Receipt, ReceiptFor, SignedIntentHash
  <2>3. CASE /\ OriginatedBy(j, t, now)
             /\ ledger[j].receipt = Receipt(Offer(t), PATH_ORIGINATE, now)
    <3>1. key \in {t.borrower, t.lender}
      BY <2>2, <2>3 DEF RequiredSigners, Offer, PATH_ORIGINATE,
         PATH_REPAY_BEFORE_EXPIRY, PATH_CLAIM_AFTER_EXPIRY
    <3>2. SignedBy(key, Offer(t), PATH_ORIGINATE)
      BY <2>3, <3>1 DEF OriginatedBy, OriginateAccepts
    <3> QED
      BY <2>2, <2>3, <3>2 DEF SignedBy
  <2>4. CASE /\ RepaidBy(j, t, now)
             /\ ledger[j].receipt = Receipt(Active(t), PATH_REPAY_BEFORE_EXPIRY, now)
    <3>1. key = Active(t).borrower
      BY <2>2, <2>4 DEF RequiredSigners, PATH_ORIGINATE,
         PATH_REPAY_BEFORE_EXPIRY, PATH_CLAIM_AFTER_EXPIRY
    <3> QED
      BY <2>2, <2>4, <3>1 DEF RepaidBy, RepayAccepts, SignedBy
  <2>5. CASE /\ ClaimedBy(j, t, now)
             /\ ledger[j].receipt = Receipt(Active(t), PATH_CLAIM_AFTER_EXPIRY, now)
    <3>1. key = Active(t).lender
      BY <2>2, <2>5 DEF RequiredSigners, PATH_ORIGINATE,
         PATH_REPAY_BEFORE_EXPIRY, PATH_CLAIM_AFTER_EXPIRY
    <3> QED
      BY <2>2, <2>5, <3>1 DEF ClaimedBy, ClaimAccepts, SignedBy
  <2> QED
    BY <2>1, <2>3, <2>4, <2>5
<1> QED
  BY <1>1, <1>2 DEF ReceiptsAreAuthorised

\* TerminalIsFinal: with no agreement cells among the inputs but the one a path
\* calls for, no agreement is closed twice and no closed one goes further.
THEOREM Finality ==
  ASSUME DocumentedShape
  PROVE  Spec => []TerminalIsFinal
  BY SpecInv, InvFinal, PTL

\* DeadlinesHold: in the same shape, claims follow the expiry on the chain's
\* own clock and repayments trail it by at most the header's lag.
THEOREM Deadlines ==
  ASSUME DocumentedShape
  PROVE  Spec => []DeadlinesHold
  BY SpecInv, InvDeadlines, PTL

\* ReceiptsAreAuthorised: whatever the shape of the transactions, every receipt
\* was signed for by the parties it names.
THEOREM Authorisation == Spec => []ReceiptsAreAuthorised
<1>1. IInv => ReceiptsAreAuthorised
  BY InvAuthorised
<1> QED
  BY SpecInv, <1>1, PTL
-----------------------------------------------------------------------------
(***************************************************************************)
(* The receipt chain and the payouts.                                      *)
(***************************************************************************)

\* The fields a transition sets.
LEMMA SuccessorFields ==
  ASSUME NEW t \in Terms, NEW a \in {Offer(t), Active(t)}, NEW path
  PROVE  /\ Successor(a, path).status = NewStatus(path)
         /\ Successor(a, path).nonce = NewNonce(a, path)
         /\ Successor(a, path).latest_receipt_hash = MaterializedReceiptHash(a, path)
<1>1. {"status", "nonce", "latest_receipt_hash"} \subseteq DOMAIN Offer(t)
  BY DEF Offer
<1>2. DOMAIN Active(t) = DOMAIN Offer(t)
  BY DEF Active, Successor
<1>3. {"status", "nonce", "latest_receipt_hash"} \subseteq DOMAIN a
  BY <1>1, <1>2
<1> QED
  BY <1>3 DEF Successor

\* A receipt repeats what the cell beside it says.
LEMMA ReceiptMirrorsCell ==
  ASSUME IInv, NEW j \in 1..Len(ledger)
  PROVE  /\ ledger[j].agreement.latest_receipt_hash = ledger[j].receipt.latest_receipt_hash
         /\ ledger[j].agreement.nonce = ledger[j].receipt.nonce
         /\ ledger[j].agreement.status = ledger[j].receipt.new_status
<1>1. PICK t \in Terms, now \in Presentable(ledger[j].epoch) :
        \E a \in {Offer(t), Active(t)}, path \in Paths :
          /\ ledger[j].agreement = Successor(a, path)
          /\ ledger[j].receipt = Receipt(a, path, now)
  BY AcceptedFields DEF Active, Repaid, Defaulted, Paths
<1> QED
  BY <1>1, SuccessorFields DEF Receipt, ReceiptFor, MaterializedReceiptHash,
     SignedIntent

\* ReceiptsChain, in a state of the documented shape.
LEMMA InvChain ==
  ASSUME IInv, DocumentedShape
  PROVE  ReceiptsChain
<1>1. DOMAIN ledger = 1..Len(ledger)
  BY DEF IInv, TypeInv
<1>2. ASSUME NEW j \in 1..Len(ledger), ledger[j].spent = {}
      PROVE  ledger[j].receipt.previous_receipt_hash = ZeroHash
  <2>1. PICK t \in Terms, now \in Presentable(ledger[j].epoch) :
          /\ OriginatedBy(j, t, now) \/ RepaidBy(j, t, now) \/ ClaimedBy(j, t, now)
          /\ OriginatedBy(j, t, now) =>
               ledger[j].receipt = Receipt(Offer(t), PATH_ORIGINATE, now)
    BY AcceptedFields
  <2>2. OriginatedBy(j, t, now)
    BY <1>2, <2>1 DEF RepaidBy, ClaimedBy, SpentActive
  <2> QED
    BY <2>1, <2>2 DEF Receipt, ReceiptFor, Offer
<1>3. ASSUME NEW j \in 1..Len(ledger), NEW i \in ledger[j].spent
      PROVE  /\ ledger[j].receipt.previous_receipt_hash
                  = ledger[i].receipt.latest_receipt_hash
             /\ ledger[j].receipt.nonce = ledger[i].receipt.nonce + 1
             /\ ledger[j].receipt.old_status = ledger[i].receipt.new_status
  <2>1. PICK t \in Terms, path \in Closings, now \in Presentable(ledger[j].epoch) :
          /\ i \in 1..Len(ledger)
          /\ ledger[i].agreement = Active(t)
          /\ ledger[j].receipt = Receipt(Active(t), path, now)
          /\ RepaidBy(j, t, now) \/ ClaimedBy(j, t, now)
    BY Spending DEF Closings
  <2>2. /\ ledger[j].receipt.previous_receipt_hash = Active(t).latest_receipt_hash
        /\ ledger[j].receipt.nonce = NewNonce(Active(t), path)
        /\ ledger[j].receipt.old_status = Active(t).status
    BY <2>1 DEF Receipt, ReceiptFor, MaterializedReceiptHash, SignedIntent
  <2>3. NewNonce(Active(t), path) = Active(t).nonce + 1
    <3>1. Active(t).nonce = 0 /\ Active(t).nonce < U64_MAX
      BY <2>1, ActiveFields DEF RepaidBy, ClaimedBy, RepayAccepts, ClaimAccepts,
         RepayFits, ClaimFits
    <3>2. path # PATH_ORIGINATE
      BY DEF Closings, PATH_ORIGINATE, PATH_REPAY_BEFORE_EXPIRY, PATH_CLAIM_AFTER_EXPIRY
    <3> QED
      BY <3>1, <3>2, CkbAssumption DEF NewNonce, Add64
  <2> QED
    BY <2>1, <2>2, <2>3, ReceiptMirrorsCell
<1> QED
  BY <1>1, <1>2, <1>3, ReceiptMirrorsCell DEF ReceiptsChain

\* Under the overflow checks the sums of a closing are exact.
LEMMA ExactAmounts ==
  ASSUME NEW t \in Terms
  PROVE  /\ t.principal_amount \in Nat /\ t.fixed_fee_amount \in Nat
         /\ t.collateral_amount \in Nat /\ PAYOUT_OCCUPIED \in Nat
         /\ RepayFits(Active(t)) =>
              /\ RepaymentAmount(Active(t)) = t.principal_amount + t.fixed_fee_amount
              /\ Add64(PAYOUT_OCCUPIED, RepaymentAmount(Active(t)))
                   = PAYOUT_OCCUPIED + (t.principal_amount + t.fixed_fee_amount)
              /\ Add64(PAYOUT_OCCUPIED, t.collateral_amount)
                   = PAYOUT_OCCUPIED + t.collateral_amount
         /\ ClaimFits(Active(t)) =>
              Add64(PAYOUT_OCCUPIED, t.collateral_amount)
                = PAYOUT_OCCUPIED + t.collateral_amount
<1>1. /\ t.principal_amount \in Nat /\ t.fixed_fee_amount \in Nat
      /\ t.collateral_amount \in Nat /\ PAYOUT_OCCUPIED \in Nat /\ U64_MAX \in Nat
  BY AgreementAssumption, CkbAssumption DEF NovaAgreementTermsV0, U64
<1>2. /\ Active(t).principal_amount = t.principal_amount
      /\ Active(t).fixed_fee_amount = t.fixed_fee_amount
      /\ Active(t).collateral_amount = t.collateral_amount
  BY ActiveFields
<1> QED
  BY <1>1, <1>2 DEF RepayFits, ClaimFits, RepaymentAmount, Add64

\* The accepted payouts of a closing hold the exact amounts.
LEMMA PayoutsHold ==
  ASSUME IInv, NEW j \in 1..Len(ledger), NEW t \in Terms, NEW now,
         \/ /\ ledger[j].path = PATH_REPAY_BEFORE_EXPIRY
            /\ RepaidBy(j, t, now)
         \/ /\ ledger[j].path = PATH_CLAIM_AFTER_EXPIRY
            /\ ClaimedBy(j, t, now)
  PROVE  PaidAsNegotiated(ledger[j], t)
<1> DEFINE a == Active(t)
           payouts == ledger[j].payouts
<1>1. a.borrower = t.borrower /\ a.lender = t.lender
      /\ a.collateral_amount = t.collateral_amount
  BY ActiveFields
<1>2. CASE ledger[j].path = PATH_REPAY_BEFORE_EXPIRY /\ RepaidBy(j, t, now)
  <2>1. Payouts(a, PATH_REPAY_BEFORE_EXPIRY) = <<LenderRepayment(a), CollateralReturn(a)>>
    BY DEF Payouts, PATH_ORIGINATE, PATH_REPAY_BEFORE_EXPIRY, PATH_CLAIM_AFTER_EXPIRY
  <2>2. DOMAIN payouts = {1, 2}
    BY <1>2, <2>1 DEF RepaidBy, Took, PayoutOutputs
  <2>3. /\ PayoutOutputAccepts(payouts[1], LenderRepayment(a))
        /\ PayoutOutputAccepts(payouts[2], CollateralReturn(a))
    BY <1>2, <2>1, <2>2 DEF RepaidBy, Took
  <2>4. RepayFits(a)
    BY <1>2 DEF RepaidBy, RepayAccepts
  <2>5. /\ PaysAtLeast(payouts[1], t.lender, t.principal_amount + t.fixed_fee_amount)
        /\ PaysAtLeast(payouts[2], t.borrower, t.collateral_amount)
    BY <1>1, <2>3, <2>4, ExactAmounts DEF PayoutOutputAccepts, PaysAtLeast,
       LenderRepayment, CollateralReturn, NativeCkbPayout
  <2> QED
    BY <1>2, <2>2, <2>5 DEF PaidAsNegotiated, PATH_REPAY_BEFORE_EXPIRY, PATH_CLAIM_AFTER_EXPIRY
<1>3. CASE ledger[j].path = PATH_CLAIM_AFTER_EXPIRY /\ ClaimedBy(j, t, now)
  <2>1. Payouts(a, PATH_CLAIM_AFTER_EXPIRY) = <<DefaultClaim(a)>>
    BY DEF Payouts, PATH_ORIGINATE, PATH_REPAY_BEFORE_EXPIRY, PATH_CLAIM_AFTER_EXPIRY
  <2>2. DOMAIN payouts = {1}
    BY <1>3, <2>1 DEF ClaimedBy, Took, PayoutOutputs
  <2>3. PayoutOutputAccepts(payouts[1], DefaultClaim(a))
    BY <1>3, <2>1, <2>2 DEF ClaimedBy, Took
  <2>4. ClaimFits(a)
    BY <1>3 DEF ClaimedBy, ClaimAccepts
  <2>5. PaysAtLeast(payouts[1], t.lender, t.collateral_amount)
    BY <1>1, <2>3, <2>4, ExactAmounts DEF PayoutOutputAccepts, PaysAtLeast,
       DefaultClaim, NativeCkbPayout
  <2> QED
    BY <1>3, <2>2, <2>5 DEF PaidAsNegotiated, PATH_REPAY_BEFORE_EXPIRY, PATH_CLAIM_AFTER_EXPIRY
<1> QED
  BY <1>2, <1>3

\* SettlementAsNegotiated, in a state of the documented shape.
LEMMA InvSettlement ==
  ASSUME IInv, DocumentedShape
  PROVE  SettlementAsNegotiated
<1>1. DOMAIN ledger = 1..Len(ledger)
  BY DEF IInv, TypeInv
<1>2. ASSUME NEW j \in 1..Len(ledger), NEW i \in ledger[j].spent
      PROVE  \E t \in Terms :
               /\ \A key \in {t.borrower, t.lender} :
                    SignedBy(key, Offer(t), PATH_ORIGINATE)
               /\ ledger[i].agreement = Active(t)
               /\ PaidAsNegotiated(ledger[j], t)
  <2>1. PICK s \in Terms, now \in Presentable(ledger[j].epoch) :
          /\ i \in 1..Len(ledger)
          /\ ledger[i].agreement = Active(s)
          /\ \/ /\ ledger[j].path = PATH_REPAY_BEFORE_EXPIRY
                /\ RepaidBy(j, s, now)
             \/ /\ ledger[j].path = PATH_CLAIM_AFTER_EXPIRY
                /\ ClaimedBy(j, s, now)
    BY Spending
  <2>2. PICK t \in Terms, then \in Presentable(ledger[i].epoch) :
          /\ ledger[i].agreement \in {Active(t), Repaid(t), Defaulted(t)}
          /\ ledger[i].agreement = Active(t) \/ OriginatedBy(i, t, then)
               \/ ledger[i].agreement \in {Repaid(t), Defaulted(t)}
          /\ OriginatedBy(i, t, then) \/ ledger[i].agreement \in {Repaid(t), Defaulted(t)}
    BY <2>1, AcceptedFields
  <2>3. ledger[i].agreement.status = STATUS_ACTIVE
    BY <2>1, ActiveFields
  <2>4. ledger[i].agreement = Active(t) /\ OriginatedBy(i, t, then)
    BY <2>2, <2>3, ClosedStatus DEF STATUS_ACTIVE, STATUS_REPAID, STATUS_DEFAULTED
  <2>5. \A key \in {t.borrower, t.lender} : SignedBy(key, Offer(t), PATH_ORIGINATE)
    BY <2>4 DEF OriginatedBy, OriginateAccepts
  <2>6. RepaidBy(j, s, now) => RepaidBy(j, t, now)
    BY <2>1, <2>4 DEF RepaidBy, SpentActive
  <2>7. ClaimedBy(j, s, now) => ClaimedBy(j, t, now)
    BY <2>1, <2>4 DEF ClaimedBy, SpentActive
  <2>8. PaidAsNegotiated(ledger[j], t)
    BY <2>1, <2>6, <2>7, PayoutsHold
  <2> QED
    BY <2>4, <2>5, <2>8
<1> QED
  BY <1>1, <1>2 DEF SettlementAsNegotiated

\* ReceiptsChain: a closing receipt continues the receipt, the nonce and the
\* status of the origination it closes.
THEOREM ReceiptChain ==
  ASSUME DocumentedShape
  PROVE  Spec => []ReceiptsChain
  BY SpecInv, InvChain, PTL

\* SettlementAsNegotiated: for every width of the arithmetic, a closing pays
\* the exact amounts of terms whose origination intent both parties signed.
THEOREM Settlement ==
  ASSUME DocumentedShape
  PROVE  Spec => []SettlementAsNegotiated
  BY SpecInv, InvSettlement, PTL
-----------------------------------------------------------------------------
(***************************************************************************)
(* The parties' rights.                                                    *)
(***************************************************************************)

\* Every origination has a slot among those of TerminalRights.
OriginationsFit ==
  \A j \in 1..Len(ledger) : ledger[j].path = PATH_ORIGINATE => j \in LedgerSlots

\* The three paths are told apart.
LEMMA PathsDiffer ==
  /\ PATH_ORIGINATE # PATH_REPAY_BEFORE_EXPIRY
  /\ PATH_ORIGINATE # PATH_CLAIM_AFTER_EXPIRY
  /\ PATH_REPAY_BEFORE_EXPIRY # PATH_CLAIM_AFTER_EXPIRY
  BY DEF PATH_ORIGINATE, PATH_REPAY_BEFORE_EXPIRY, PATH_CLAIM_AFTER_EXPIRY

\* What a committed transaction adds to the ledger.
LEMMA Committed ==
  ASSUME IInv, MaxEpoch \in Nat, NEW n \in Nat, n = Len(ledger) + 1,
         NEW a \in Agreements, NEW path \in Paths,
         NEW now \in Presentable(tip), NEW spent \in SUBSET Live,
         Commit(a, path, now, spent)
  PROVE  /\ tip' = tip
         /\ Len(ledger) = n - 1 /\ Len(ledger') = n
         /\ DOMAIN ledger = 1..(n - 1) /\ DOMAIN ledger' = 1..n
         /\ \A i \in 1..(n - 1) : ledger'[i] = ledger[i]
         /\ ledger'[n].path = path
         /\ ledger'[n].spent = spent
         /\ ledger'[n].agreement = Successor(a, path)
         /\ DOMAIN ledger'[n].payouts = DOMAIN Payouts(a, path)
         /\ \A k \in DOMAIN Payouts(a, path) :
              ledger'[n].payouts[k].data = Payouts(a, path)[k]
<1>1. /\ TypeInv /\ spent \in SUBSET Nat
      /\ Len(ledger) = n - 1 /\ DOMAIN ledger = 1..(n - 1)
  BY DEF IInv, TypeInv, Live
<1>2. /\ TypeInv'
      /\ tip' = tip
      /\ Len(ledger') = n
      /\ \A i \in 1..Len(ledger) : ledger'[i] = ledger[i]
      /\ ledger'[n].spent = spent
      /\ Took(n, a, path, now)'
  BY <1>1, CommitAppends
<1>3. DOMAIN ledger' = 1..n
  BY <1>2 DEF TypeInv
<1>4. /\ ledger'[n].path = path
      /\ ledger'[n].agreement = Successor(a, path)
  BY <1>2 DEF Took, Transaction
<1>5. DOMAIN ledger'[n].payouts = DOMAIN Payouts(a, path)
  BY <1>2 DEF Took, PayoutOutputs
<1>6. \A k \in DOMAIN Payouts(a, path) :
        ledger'[n].payouts[k].data = Payouts(a, path)[k]
  BY <1>2, <1>5 DEF Took, PayoutOutputAccepts
<1> QED
  BY <1>1, <1>2, <1>3, <1>4, <1>5, <1>6

\* The spender of a cell is the one transaction that spends it.
SpendersKnown ==
  \A j \in 1..Len(ledger) : \A i \in ledger[j].spent : Spender(i) = j

\* A cell is spent once.
LEMMA OneSpender == IInv => SpendersKnown
<1> SUFFICES ASSUME IInv, NEW j \in 1..Len(ledger), NEW i \in ledger[j].spent
             PROVE  Spender(i) = j
  BY DEF SpendersKnown
<1>1. DOMAIN ledger = 1..Len(ledger)
  BY DEF IInv, TypeInv
<1>2. \A k \in 1..Len(ledger) : i \in ledger[k].spent => k = j
  BY DEF IInv, SpentOnce
<1> QED
  BY <1>1, <1>2 DEF Spender

\* The slots of the ledger are functions on the slots.
LEMMA RightsSlots ==
  /\ RightsPhase = [i \in LedgerSlots |-> RightsPhase[i]]
  /\ RightsDeal = [i \in LedgerSlots |-> RightsDeal[i]]
  /\ RightsPaid = [i \in LedgerSlots |-> RightsPaid[i]]
  BY DEF RightsPhase, RightsDeal, RightsPaid

\* And so they are after a step.
LEMMA RightsSlotsAfter ==
  /\ RightsPhase' = [i \in LedgerSlots |-> RightsPhase'[i]]
  /\ RightsDeal' = [i \in LedgerSlots |-> RightsDeal'[i]]
  /\ RightsPaid' = [i \in LedgerSlots |-> RightsPaid'[i]]
  BY DEF RightsPhase, RightsDeal, RightsPaid

\* A slot keeps its deal and its phase, and what it paid, unless the new
\* transaction is an origination in that slot or spends the cell in it.
LEMMA SlotKept ==
  ASSUME IInv, IInv', NEW n \in Nat, NEW path, NEW spent,
         Len(ledger) = n - 1, Len(ledger') = n,
         DOMAIN ledger = 1..(n - 1), DOMAIN ledger' = 1..n,
         \A i \in 1..(n - 1) : ledger'[i] = ledger[i],
         ledger'[n].path = path, ledger'[n].spent = spent,
         NEW k \in LedgerSlots
  PROVE  /\ k # n \/ path # PATH_ORIGINATE => RightsDeal'[k] = RightsDeal[k]
         /\ (k # n \/ path # PATH_ORIGINATE) /\ k \notin spent
              => RightsPhase'[k] = RightsPhase[k]
         /\ k \notin spent => RightsPaid'[k] = RightsPaid[k]
<1>1. n \in 1..n /\ n \notin 1..(n - 1) /\ 1..n = 1..(n - 1) \cup {n}
  BY DEF IInv, TypeInv
<1>2. Originated(k)' <=> Originated(k) \/ (k = n /\ path = PATH_ORIGINATE)
  <2>1. CASE k = n
    BY <1>1, <2>1 DEF Originated
  <2>2. CASE k # n
    BY <1>1, <2>2 DEF Originated
  <2> QED
    BY <2>1, <2>2
<1>3. k \in 1..(n - 1) /\ Originated(k) => ledger'[k] = ledger[k]
  OBVIOUS
<1>4. RightsDeal[k] = IF Originated(k) THEN Deal(ledger[k].agreement) ELSE NoDeal
  BY DEF RightsDeal
<1>5. RightsDeal'[k] = IF Originated(k)' THEN Deal(ledger'[k].agreement) ELSE NoDeal
  BY DEF RightsDeal
<1>6. k # n \/ path # PATH_ORIGINATE => RightsDeal'[k] = RightsDeal[k]
  <2>1. Originated(k) => k \in 1..(n - 1)
    BY DEF Originated
  <2> QED
    BY <1>2, <1>3, <1>4, <1>5, <2>1
<1>7. k \in Spent' <=> k \in Spent \/ k \in spent
  <2>1. k \in Spent' <=> \E j \in 1..n : k \in ledger'[j].spent
    BY DEF Spent
  <2>2. k \in Spent <=> \E j \in 1..(n - 1) : k \in ledger[j].spent
    BY DEF Spent
  <2> QED
    BY <1>1, <2>1, <2>2
<1>8. ASSUME k \in Spent, k \notin spent
      PROVE  Spender(k)' = Spender(k) /\ ledger'[Spender(k)] = ledger[Spender(k)]
  <2>1. PICK j \in 1..(n - 1) : k \in ledger[j].spent
    BY <1>8 DEF Spent
  <2>2. Spender(k) = j
    <3>1. j \in 1..Len(ledger)
      BY <2>1
    <3> QED
      BY <2>1, <3>1, OneSpender DEF SpendersKnown
  <2>3. (IInv => SpendersKnown)'
    BY OneSpender, PTL
  <2>4. j \in 1..Len(ledger') /\ k \in ledger'[j].spent
    BY <1>1, <2>1
  <2>5. Spender(k)' = j
    BY <2>3, <2>4 DEF SpendersKnown
  <2> QED
    BY <2>1, <2>2, <2>5
<1>9. RightsPaid[k] = IF k \in Spent THEN PaidBy(ledger[Spender(k)])
                      ELSE [lender |-> 0, borrower |-> 0]
  BY DEF RightsPaid
<1>10. RightsPaid'[k] = IF k \in Spent' THEN PaidBy(ledger'[Spender(k)'])
                        ELSE [lender |-> 0, borrower |-> 0]
  BY DEF RightsPaid
<1>11. RightsPhase[k] =
         IF ~Originated(k) THEN "none"
         ELSE IF k \in Spent THEN EndOf(ledger[Spender(k)].path) ELSE "open"
  BY DEF RightsPhase, PhaseOf, Live, Originated
<1>12. RightsPhase'[k] =
         IF ~Originated(k)' THEN "none"
         ELSE IF k \in Spent' THEN EndOf(ledger'[Spender(k)'].path) ELSE "open"
  BY DEF RightsPhase, PhaseOf, Live, Originated
<1>13. k \notin spent => RightsPaid'[k] = RightsPaid[k]
  BY <1>7, <1>8, <1>9, <1>10
<1>14. (k # n \/ path # PATH_ORIGINATE) /\ k \notin spent
         => RightsPhase'[k] = RightsPhase[k]
  BY <1>2, <1>7, <1>8, <1>11, <1>12
<1> QED
  BY <1>6, <1>13, <1>14

\* A committed origination opens the deal of its terms in the next slot.
LEMMA OriginateOpens ==
  ASSUME IInv, IInv', DocumentedShape, NEW t \in Terms,
         NEW now \in Presentable(tip), Originate(t, now)
  PROVE  /\ Rights!Next
         /\ OriginationsFit => OriginationsFit'
<1>0. MaxEpoch \in Nat /\ MaxLedger \in Nat /\ Len(ledger) \in Nat
  BY AgreementAssumption DEF IInv, TypeInv
<1>1. PICK n \in Nat : n = Len(ledger) + 1
  BY <1>0
<1>2. Commit(Offer(t), PATH_ORIGINATE, now, {})
  BY DEF Originate, ExtraInputs
<1>3. /\ tip' = tip
      /\ Len(ledger) = n - 1 /\ Len(ledger') = n
      /\ DOMAIN ledger = 1..(n - 1) /\ DOMAIN ledger' = 1..n
      /\ \A i \in 1..(n - 1) : ledger'[i] = ledger[i]
      /\ ledger'[n].path = PATH_ORIGINATE
      /\ ledger'[n].spent = {}
      /\ ledger'[n].agreement = Active(t)
  <2>1. Offer(t) \in Agreements /\ PATH_ORIGINATE \in Paths /\ {} \in SUBSET Live
    BY DEF Agreements, Paths
  <2>2. PICK none : none = {}
    OBVIOUS
  <2>3. Commit(Offer(t), PATH_ORIGINATE, now, none)
    BY <1>2, <2>2
  <2> QED
    BY <1>0, <1>1, <2>1, <2>2, <2>3, Committed DEF Active
<1>4. n \in LedgerSlots
  BY <1>0, <1>1 DEF Originate, LedgerSlots
<1> DEFINE d == Deal(t)
<1>5. d = Deal(Active(t))
  BY ActiveFields DEF Deal
<1>6. n \notin Spent' /\ n \notin Spent
  <2>1. \A j \in 1..n : n \notin ledger'[j].spent
    <3>1. \A j \in 1..n : ledger'[j].spent \subseteq 1..(j - 1)
      BY <1>3 DEF IInv, HistoryInv
    <3> QED
      BY <3>1
  <2> QED
    BY <1>3, <2>1 DEF Spent
<1>7. /\ RightsPhase[n] = "none"
      /\ RightsPhase'[n] = "open"
      /\ RightsDeal'[n] = d
  <2>1. RightsPhase[n] = "none"
    BY <1>3, <1>4 DEF RightsPhase, PhaseOf, Originated
  <2>2. Originated(n)' /\ n \in Live'
    <3>1. n \in DOMAIN ledger'
      BY <1>0, <1>1, <1>3
    <3> QED
      BY <1>3, <1>6, <3>1 DEF Originated, Live
  <2>3. RightsPhase'[n] = "open"
    BY <1>4, <2>2 DEF RightsPhase, PhaseOf
  <2>4. RightsDeal'[n] = d
    BY <1>3, <1>4, <1>5, <2>2 DEF RightsDeal
  <2> QED
    BY <2>1, <2>3, <2>4
<1> HIDE DEF d
<1>8. \A k \in LedgerSlots \ {n} :
        RightsPhase'[k] = RightsPhase[k] /\ RightsDeal'[k] = RightsDeal[k]
  BY <1>3, SlotKept
<1>9. \A k \in LedgerSlots : RightsPaid'[k] = RightsPaid[k]
  BY <1>3, SlotKept
<1>10. RightsPhase' = [RightsPhase EXCEPT ![n] = "open"]
  BY <1>4, <1>7, <1>8, RightsSlots, RightsSlotsAfter, OneValueChanged
<1>11. RightsDeal' = [RightsDeal EXCEPT ![n] = d]
  BY <1>4, <1>7, <1>8, RightsSlots, RightsSlotsAfter, OneValueChanged
<1>12. RightsPaid' = RightsPaid
  BY <1>9, RightsSlots, RightsSlotsAfter
<1>13. tip <= d.expiry + HeaderLag
  <2>1. d.expiry = t.expiry_timepoint /\ t.expiry_timepoint \in Nat
    BY AgreementAssumption DEF d, Deal, NovaAgreementTermsV0
  <2>2. now <= t.expiry_timepoint
    BY DEF Originate, OriginateAccepts, TermsAccepted
  <2>3. tip \in Nat /\ now \in 0..tip /\ tip - now <= HeaderLag /\ HeaderLag \in Nat
    BY CkbAssumption DEF Presentable, IInv, TypeInv
  <2> QED
    BY <2>1, <2>2, <2>3
<1>14. Rights!Open(n, d)
  BY <1>3, <1>7, <1>10, <1>11, <1>12, <1>13 DEF Rights!Open
<1>15. d \in {Deal(s) : s \in Terms}
  BY DEF d
<1>16. OriginationsFit => OriginationsFit'
  <2>1. 1..n = 1..(n - 1) \cup {n}
    BY <1>0, <1>1
  <2> QED
    BY <1>3, <1>4, <2>1 DEF OriginationsFit
<1> QED
  BY <1>4, <1>14, <1>15, <1>16 DEF Rights!Next

\* The cell a closing takes holds an open deal.
LEMMA ClosingTakesOpen ==
  ASSUME IInv, OriginationsFit, NEW i \in Live,
         ledger[i].agreement.status = STATUS_ACTIVE
  PROVE  /\ i \in 1..Len(ledger) /\ i \in LedgerSlots
         /\ Originated(i)
         /\ RightsPhase[i] = "open"
         /\ \E t \in Terms :
              /\ ledger[i].agreement = Active(t)
              /\ RightsDeal[i] = Deal(t)
<1>1. i \in 1..Len(ledger) /\ DOMAIN ledger = 1..Len(ledger)
  BY LiveActive DEF IInv, TypeInv
<1>2. PICK t \in Terms : ledger[i].agreement = Active(t)
  BY LiveActive
<1>3. ledger[i].path = PATH_ORIGINATE
  <2>1. \E s \in Terms : ledger[i].path = PATH_ORIGINATE
                         \/ ledger[i].agreement \in {Repaid(s), Defaulted(s)}
    BY <1>1, AcceptedFields
  <2> QED
    BY <2>1, ClosedStatus DEF STATUS_ACTIVE, STATUS_REPAID, STATUS_DEFAULTED
<1>4. Originated(i) /\ i \in LedgerSlots
  BY <1>1, <1>3 DEF Originated, OriginationsFit
<1>5. RightsPhase[i] = "open"
  BY <1>4 DEF RightsPhase, PhaseOf
<1>6. Deal(Active(t)) = Deal(t)
  BY ActiveFields DEF Deal
<1> QED
  BY <1>1, <1>2, <1>4, <1>5, <1>6 DEF RightsDeal

\* A committed closing ends the deal in the slot of the cell it spends, and
\* leaves every other slot as it is.
LEMMA CloseEnds ==
  ASSUME IInv, IInv', OriginationsFit, NEW i \in Live, NEW t \in Terms,
         ledger[i].agreement = Active(t),
         NEW path \in Closings, NEW now \in Presentable(tip),
         NEW spent \in SUBSET Live, spent = {i},
         Commit(Active(t), path, now, spent)
  PROVE  /\ tip' = tip
         /\ RightsDeal' = RightsDeal
         /\ RightsPhase' = [RightsPhase EXCEPT ![i] = EndOf(path)]
         /\ \E n \in Nat :
              /\ DOMAIN ledger'[n].payouts = DOMAIN Payouts(Active(t), path)
              /\ \A k \in DOMAIN Payouts(Active(t), path) :
                   ledger'[n].payouts[k].data = Payouts(Active(t), path)[k]
              /\ RightsPaid' = [RightsPaid EXCEPT ![i] = PaidBy(ledger'[n])]
         /\ OriginationsFit'
<1>0. MaxEpoch \in Nat /\ Len(ledger) \in Nat
  BY AgreementAssumption DEF IInv, TypeInv
<1>1. PICK n \in Nat : n = Len(ledger) + 1
  BY <1>0
<1>3. /\ tip' = tip
      /\ Len(ledger) = n - 1 /\ Len(ledger') = n
      /\ DOMAIN ledger = 1..(n - 1) /\ DOMAIN ledger' = 1..n
      /\ \A k \in 1..(n - 1) : ledger'[k] = ledger[k]
      /\ ledger'[n].path = path
      /\ ledger'[n].spent = spent
      /\ DOMAIN ledger'[n].payouts = DOMAIN Payouts(Active(t), path)
      /\ \A k \in DOMAIN Payouts(Active(t), path) :
           ledger'[n].payouts[k].data = Payouts(Active(t), path)[k]
  <2>1. Active(t) \in Agreements /\ path \in Paths
    BY DEF Agreements, Paths, Closings
  <2> QED
    BY <1>0, <1>1, <2>1, Committed
<1>4. path # PATH_ORIGINATE
  BY PathsDiffer DEF Closings
<1>5. /\ i \in 1..(n - 1) /\ i \in LedgerSlots
      /\ Originated(i)
  <2>1. ledger[i].agreement.status = STATUS_ACTIVE
    BY ActiveFields
  <2> QED
    BY <1>3, <2>1, ClosingTakesOpen
<1>6. Originated(i)' /\ i \in Spent' /\ Spender(i)' = n
  <2>1. n \in 1..n /\ i \in 1..n
    BY <1>1, <1>3, <1>5
  <2>2. i \in ledger'[n].spent
    BY <1>3
  <2>3. Originated(i)' /\ i \in Spent'
    BY <1>3, <1>5, <2>1, <2>2 DEF Originated, Spent
  <2>4. (IInv => SpendersKnown)'
    BY OneSpender, PTL
  <2>5. n \in 1..Len(ledger')
    BY <1>3, <2>1
  <2> QED
    BY <2>2, <2>3, <2>4, <2>5 DEF SpendersKnown
<1>7. RightsPhase'[i] = EndOf(path) /\ RightsPaid'[i] = PaidBy(ledger'[n])
  <2>1. RightsPhase'[i] = EndOf(ledger'[n].path)
    BY <1>5, <1>6 DEF RightsPhase, PhaseOf, Live
  <2>2. RightsPaid'[i] = PaidBy(ledger'[n])
    BY <1>5, <1>6 DEF RightsPaid
  <2> QED
    BY <1>3, <2>1, <2>2
<1>8. \A k \in LedgerSlots : RightsDeal'[k] = RightsDeal[k]
  BY <1>3, <1>4, SlotKept
<1>9. \A k \in LedgerSlots \ {i} :
        RightsPhase'[k] = RightsPhase[k] /\ RightsPaid'[k] = RightsPaid[k]
  BY <1>3, <1>4, SlotKept
<1>10. RightsDeal' = RightsDeal
  BY <1>8, RightsSlots, RightsSlotsAfter
<1>11. RightsPhase' = [RightsPhase EXCEPT ![i] = EndOf(path)]
  BY <1>5, <1>7, <1>9, RightsSlots, RightsSlotsAfter, OneValueChanged
<1>12. RightsPaid' = [RightsPaid EXCEPT ![i] = PaidBy(ledger'[n])]
  BY <1>5, <1>7, <1>9, RightsSlots, RightsSlotsAfter, OneValueChanged
<1>13. OriginationsFit'
  <2>1. 1..n = 1..(n - 1) \cup {n}
    BY <1>0, <1>1
  <2> QED
    BY <1>3, <1>4, <2>1 DEF OriginationsFit
<1> QED
  BY <1>3, <1>10, <1>11, <1>12, <1>13

\* A repayment pays principal, fee and collateral, in exact arithmetic.
LEMMA RepaymentPays ==
  ASSUME NEW t \in Terms, RepayFits(Active(t)), NEW tx,
         DOMAIN tx.payouts = DOMAIN Payouts(Active(t), PATH_REPAY_BEFORE_EXPIRY),
         \A k \in DOMAIN Payouts(Active(t), PATH_REPAY_BEFORE_EXPIRY) :
           tx.payouts[k].data = Payouts(Active(t), PATH_REPAY_BEFORE_EXPIRY)[k]
  PROVE  PaidBy(tx) = [lender |-> Deal(t).principal + Deal(t).fee,
                       borrower |-> Deal(t).collateral]
<1> DEFINE a == Active(t)
<1>1. Payouts(a, PATH_REPAY_BEFORE_EXPIRY) = <<LenderRepayment(a), CollateralReturn(a)>>
  BY PathsDiffer DEF Payouts
<1>2. DOMAIN tx.payouts = {1, 2}
  BY <1>1
<1>3. tx.payouts[1].data = LenderRepayment(a) /\ tx.payouts[2].data = CollateralReturn(a)
  BY <1>1
<1>4. LenderRepayment(a).amount = t.principal_amount + t.fixed_fee_amount
  BY ExactAmounts DEF LenderRepayment, NativeCkbPayout
<1>5. CollateralReturn(a).amount = t.collateral_amount
  BY ActiveFields DEF CollateralReturn, NativeCkbPayout
<1> QED
  BY <1>2, <1>3, <1>4, <1>5 DEF PaidBy, Deal

\* A claim pays the collateral to the lender and nothing to the borrower.
LEMMA ClaimPays ==
  ASSUME NEW t \in Terms, NEW tx,
         DOMAIN tx.payouts = DOMAIN Payouts(Active(t), PATH_CLAIM_AFTER_EXPIRY),
         \A k \in DOMAIN Payouts(Active(t), PATH_CLAIM_AFTER_EXPIRY) :
           tx.payouts[k].data = Payouts(Active(t), PATH_CLAIM_AFTER_EXPIRY)[k]
  PROVE  PaidBy(tx) = [lender |-> Deal(t).collateral, borrower |-> 0]
<1> DEFINE a == Active(t)
<1>1. Payouts(a, PATH_CLAIM_AFTER_EXPIRY) = <<DefaultClaim(a)>>
  BY PathsDiffer DEF Payouts
<1>2. DOMAIN tx.payouts = {1} /\ tx.payouts[1].data = DefaultClaim(a)
  BY <1>1
<1>3. DefaultClaim(a).amount = t.collateral_amount
  BY ActiveFields DEF DefaultClaim, NativeCkbPayout
<1> QED
  BY <1>2, <1>3 DEF PaidBy, Deal

\* A committed repayment is the borrower's right taken.
LEMMA RepayIsRepay ==
  ASSUME IInv, IInv', DocumentedShape, OriginationsFit, NEW i \in Live,
         NEW now \in Presentable(tip), Repay(i, now)
  PROVE  Rights!Next /\ OriginationsFit'
<1>1. PICK t \in Terms :
        /\ ledger[i].agreement = Active(t)
        /\ RightsDeal[i] = Deal(t)
        /\ RightsPhase[i] = "open"
        /\ i \in LedgerSlots
  BY ClosingTakesOpen DEF Repay, RepayAccepts
<1>2. RepayAccepts(Active(t), now)
  BY <1>1 DEF Repay
<1>3. Commit(Active(t), PATH_REPAY_BEFORE_EXPIRY, now, {i})
  BY <1>1 DEF Repay, ExtraInputs
<1>4. PICK path \in Closings, spent \in SUBSET Live :
        path = PATH_REPAY_BEFORE_EXPIRY /\ spent = {i}
  BY DEF Closings
<1>5. /\ tip' = tip
      /\ RightsDeal' = RightsDeal
      /\ RightsPhase' = [RightsPhase EXCEPT ![i] = EndOf(path)]
      /\ OriginationsFit'
      /\ \E n \in Nat :
           /\ DOMAIN ledger'[n].payouts = DOMAIN Payouts(Active(t), path)
           /\ \A k \in DOMAIN Payouts(Active(t), path) :
                ledger'[n].payouts[k].data = Payouts(Active(t), path)[k]
           /\ RightsPaid' = [RightsPaid EXCEPT ![i] = PaidBy(ledger'[n])]
  <2>1. Commit(Active(t), path, now, spent)
    BY <1>3, <1>4
  <2> QED
    BY <1>1, <1>4, <2>1, CloseEnds
<1>6. RightsPaid' = [RightsPaid EXCEPT ![i] =
        [lender |-> Deal(t).principal + Deal(t).fee, borrower |-> Deal(t).collateral]]
  BY <1>2, <1>4, <1>5, RepaymentPays DEF RepayAccepts
<1>7. EndOf(path) = "repaid"
  BY <1>4, PathsDiffer DEF EndOf
<1>8. tip <= Deal(t).expiry + HeaderLag
  <2>1. Deal(t).expiry = t.expiry_timepoint /\ t.expiry_timepoint \in Nat
    BY AgreementAssumption DEF Deal, NovaAgreementTermsV0
  <2>2. now <= t.expiry_timepoint
    BY <1>2, ActiveFields DEF RepayAccepts
  <2>3. tip \in Nat /\ now \in 0..tip /\ tip - now <= HeaderLag /\ HeaderLag \in Nat
    BY CkbAssumption DEF Presentable, IInv, TypeInv
  <2> QED
    BY <2>1, <2>2, <2>3
<1>9. Rights!Repay(i)
  BY <1>1, <1>5, <1>6, <1>7, <1>8 DEF Rights!Repay
<1> QED
  BY <1>1, <1>5, <1>9 DEF Rights!Next

\* A committed claim is the lender's right taken.
LEMMA ClaimIsClaim ==
  ASSUME IInv, IInv', DocumentedShape, OriginationsFit, NEW i \in Live,
         NEW now \in Presentable(tip), Claim(i, now)
  PROVE  Rights!Next /\ OriginationsFit'
<1>1. PICK t \in Terms :
        /\ ledger[i].agreement = Active(t)
        /\ RightsDeal[i] = Deal(t)
        /\ RightsPhase[i] = "open"
        /\ i \in LedgerSlots
  BY ClosingTakesOpen DEF Claim, ClaimAccepts
<1>2. ClaimAccepts(Active(t), now)
  BY <1>1 DEF Claim
<1>3. Commit(Active(t), PATH_CLAIM_AFTER_EXPIRY, now, {i})
  BY <1>1 DEF Claim, ExtraInputs
<1>4. PICK path \in Closings, spent \in SUBSET Live :
        path = PATH_CLAIM_AFTER_EXPIRY /\ spent = {i}
  BY DEF Closings
<1>5. /\ tip' = tip
      /\ RightsDeal' = RightsDeal
      /\ RightsPhase' = [RightsPhase EXCEPT ![i] = EndOf(path)]
      /\ OriginationsFit'
      /\ \E n \in Nat :
           /\ DOMAIN ledger'[n].payouts = DOMAIN Payouts(Active(t), path)
           /\ \A k \in DOMAIN Payouts(Active(t), path) :
                ledger'[n].payouts[k].data = Payouts(Active(t), path)[k]
           /\ RightsPaid' = [RightsPaid EXCEPT ![i] = PaidBy(ledger'[n])]
  <2>1. Commit(Active(t), path, now, spent)
    BY <1>3, <1>4
  <2> QED
    BY <1>1, <1>4, <2>1, CloseEnds
<1>6. RightsPaid' = [RightsPaid EXCEPT ![i] =
        [lender |-> Deal(t).collateral, borrower |-> 0]]
  BY <1>4, <1>5, ClaimPays
<1>7. EndOf(path) = "defaulted"
  BY <1>4, PathsDiffer DEF EndOf
<1>8. tip > Deal(t).expiry
  <2>1. Deal(t).expiry = t.expiry_timepoint /\ t.expiry_timepoint \in Nat
    BY AgreementAssumption DEF Deal, NovaAgreementTermsV0
  <2>2. now > t.expiry_timepoint
    BY <1>2, ActiveFields DEF ClaimAccepts
  <2>3. tip \in Nat /\ now \in 0..tip
    BY DEF Presentable, IInv, TypeInv
  <2> QED
    BY <2>1, <2>2, <2>3
<1>9. Rights!Claim(i)
  BY <1>1, <1>5, <1>6, <1>7, <1>8 DEF Rights!Claim
<1> QED
  BY <1>1, <1>5, <1>9 DEF Rights!Next

\* Without a new transaction the slots stay as they are.
LEMMA RightsUntouched ==
  ASSUME ledger' = ledger
  PROVE  RightsPhase' = RightsPhase /\ RightsDeal' = RightsDeal /\ RightsPaid' = RightsPaid
  BY DEF RightsPhase, RightsDeal, RightsPaid, PhaseOf, Originated, Spender, Live, Spent

\* Every step of the ledger is a step of the parties' rights, or none.
LEMMA RightsGoOn ==
  ASSUME IInv, IInv', DocumentedShape, OriginationsFit, [Next]_vars
  PROVE  [Rights!Next]_(Rights!rights) /\ OriginationsFit'
<1>1. CASE Tick
  <2>1. Rights!Advance
    BY <1>1, RightsUntouched DEF Tick, Rights!Advance
  <2> QED
    BY <1>1, <2>1 DEF Tick, OriginationsFit, Rights!Next
<1>2. CASE \E w \in WillSign : Sign(w[1], w[2], w[3])
  <2>1. ledger' = ledger /\ tip' = tip
    BY <1>2 DEF Sign
  <2> QED
    BY <2>1, RightsUntouched DEF OriginationsFit, Rights!rights
<1>3. ASSUME NEW t \in Terms, NEW now \in Presentable(tip), Originate(t, now)
      PROVE  Rights!Next /\ OriginationsFit'
  BY <1>3, OriginateOpens
<1>4. ASSUME NEW i \in Live, NEW now \in Presentable(tip), Repay(i, now)
      PROVE  Rights!Next /\ OriginationsFit'
  BY <1>4, RepayIsRepay
<1>5. ASSUME NEW i \in Live, NEW now \in Presentable(tip), Claim(i, now)
      PROVE  Rights!Next /\ OriginationsFit'
  BY <1>5, ClaimIsClaim
<1>6. CASE UNCHANGED vars
  BY <1>6, RightsUntouched DEF vars, OriginationsFit, Rights!rights
<1> QED
  BY <1>1, <1>2, <1>3, <1>4, <1>5, <1>6 DEF Next

\* Before the first transaction no deal is open.
LEMMA RightsBegin ==
  ASSUME Init
  PROVE  Rights!Init /\ OriginationsFit
<1>1. DOMAIN ledger = {} /\ tip = 0
  BY DEF Init
<1>2. \A i : ~Originated(i) /\ i \notin Spent
  BY <1>1 DEF Originated, Spent
<1>3. /\ RightsPhase = [i \in LedgerSlots |-> "none"]
      /\ RightsDeal = [i \in LedgerSlots |-> Rights!NoDeal]
      /\ RightsPaid = [i \in LedgerSlots |-> Rights!Nothing]
  BY <1>2 DEF RightsPhase, PhaseOf, RightsDeal, RightsPaid, NoDeal,
     Rights!NoDeal, Rights!Nothing
<1> QED
  BY <1>1, <1>3 DEF Rights!Init, OriginationsFit, Init

\* ImplementsTerminalRights: in the documented shape the lifecycle gives the
\* parties the rights of TerminalRights and no others, whatever the terms, the
\* signatures in circulation and the lag of the headers.
THEOREM ExactRights ==
  ASSUME DocumentedShape
  PROVE  Spec => ImplementsTerminalRights
<1>1. Init => Rights!Init /\ OriginationsFit
  BY RightsBegin
<1>2. IInv /\ IInv' /\ OriginationsFit /\ [Next]_vars
        => [Rights!Next]_(Rights!rights) /\ OriginationsFit'
  BY RightsGoOn
<1> QED
  BY <1>1, <1>2, SpecInv, PTL DEF Spec, ImplementsTerminalRights, Rights!Spec
-----------------------------------------------------------------------------
(***************************************************************************)
(* The script over explicit transactions.                                  *)
(***************************************************************************)

\* Two digests are equal only if the hashed values are.
LEMMA HashInjective ==
  ASSUME NEW x, NEW y, Hash(x) = Hash(y)
  PROVE  x = y
  BY DEF Hash

-----------------------------------------------------------------------------
(***************************************************************************)
(* The script is the action.                                               *)
(***************************************************************************)

\* What a transaction can hold where the script decodes a typed witness: an
\* intent of three fields, and the parties as keys.
WellFormed(tx) ==
  /\ \E core, envelope, receipt :
       tx.intent = [core |-> core, canonical_envelope_hash |-> envelope,
                    expected_receipt_hash |-> receipt]
  /\ {tx.terms.borrower, tx.terms.lender} \subseteq Keys
  /\ {tx.active.borrower, tx.active.lender} \subseteq Keys

\* The comparisons of the witness intent leave exactly one intent.
LEMMA IntentDetermined ==
  ASSUME NEW tx, WellFormed(tx)
  PROVE  IntentRequired(tx) <=> tx.intent = SignedIntent(Base(tx), tx.op)
<1>1. PICK core, envelope, receipt :
        tx.intent = [core |-> core, canonical_envelope_hash |-> envelope,
                     expected_receipt_hash |-> receipt]
  BY DEF WellFormed
<1>2. ASSUME IntentRequired(tx)
      PROVE  tx.intent = SignedIntent(Base(tx), tx.op)
  <2>1. core = IntentCore(Base(tx), tx.op)
    BY <1>1, <1>2 DEF IntentRequired
  <2>2. /\ envelope = CanonicalEnvelopeHash(Base(tx), tx.op, core)
        /\ receipt = ReceiptCommitmentHash(Base(tx), tx.op, core)
    BY <1>1, <1>2 DEF IntentRequired
  <2> QED
    BY <1>1, <2>1, <2>2 DEF SignedIntent, MaterializedReceiptHash
<1>3. ASSUME tx.intent = SignedIntent(Base(tx), tx.op)
      PROVE  IntentRequired(tx)
  BY <1>3 DEF IntentRequired, SignedIntent, MaterializedReceiptHash
<1> QED
  BY <1>2, <1>3

\* Next to that intent, the script writes the successor and its receipt.
LEMMA WrittenDetermined ==
  ASSUME NEW tx, tx.intent = SignedIntent(Base(tx), tx.op)
  PROVE  /\ Written(tx) = Successor(Base(tx), tx.op)
         /\ ReceiptFor(Base(tx), tx.op, tx.intent, tx.now)
              = Receipt(Base(tx), tx.op, tx.now)
         /\ Hash(tx.intent) = SignedIntentHash(Base(tx), tx.op)
<1>1. tx.intent.core = IntentCore(Base(tx), tx.op)
  BY DEF SignedIntent
<1> QED
  BY <1>1 DEF Written, Successor, MaterializedReceiptHash, Receipt, SignedIntentHash

\* A signature that the script requires of a party is that party's.
LEMMA SignatureDetermined ==
  ASSUME NEW tx, NEW sig, NEW key \in Keys,
         tx.intent = SignedIntent(Base(tx), tx.op)
  PROVE  SignatureRequired(tx, sig, key) <=>
           /\ sig.pubkey = key
           /\ sig.over = SignedIntentHash(Base(tx), tx.op)
           /\ SignedBy(key, Base(tx), tx.op)
<1>1. key # Stranger
  BY StrangerAssumption
<1>2. Hash(tx.intent) = SignedIntentHash(Base(tx), tx.op)
  BY WrittenDetermined
<1> QED
  BY <1>1, <1>2 DEF SignatureRequired, Verifies, SignedBy

\* What ShowsTransition compares with, field by field.
LEMMA ShownFields ==
  ASSUME NEW t, NEW a, NEW path, NEW now, NEW payouts
  PROVE  LET made == Materialize(t, a, path, now, payouts) IN
         /\ made.active = IF path = PATH_ORIGINATE THEN Successor(a, path) ELSE a
         /\ made.intent = SignedIntent(a, path)
         /\ made.group_output = Successor(a, path)
         /\ made.borrower_sig.pubkey = a.borrower
         /\ made.borrower_sig.over = SignedIntentHash(a, path)
         /\ made.lender_sig.pubkey = a.lender
         /\ made.lender_sig.over = SignedIntentHash(a, path)
  BY DEF Materialize, SignatureBy

\* An origination is accepted exactly if it shows one that Originate allows.
LEMMA OriginateDecided ==
  ASSUME NEW tx, WellFormed(tx), tx.op = PATH_ORIGINATE
  PROVE  OriginateRequires(tx) <=>
           OriginateAccepts(tx.terms, tx.now) /\ ShowsTransition(tx)
<1> DEFINE a == Base(tx)
<1>1. /\ a = Offer(tx.terms)
      /\ a.borrower = tx.terms.borrower /\ a.lender = tx.terms.lender
      /\ tx.terms.borrower \in Keys /\ tx.terms.lender \in Keys
  BY DEF Base, Offer, WellFormed
<1>2. ASSUME OriginateRequires(tx)
      PROVE  OriginateAccepts(tx.terms, tx.now) /\ ShowsTransition(tx)
  <2>1. tx.intent = SignedIntent(a, tx.op)
    BY <1>2, IntentDetermined DEF OriginateRequires
  <2>2. /\ tx.active = Successor(a, tx.op) /\ tx.group_output = Successor(a, tx.op)
        /\ tx.outputs[ReceiptOutput(tx)].data = Receipt(a, tx.op, tx.now)
    BY <1>2, <2>1, WrittenDetermined DEF OriginateRequires, OutputsRequired
  <2>3. /\ tx.borrower_sig.pubkey = a.borrower
        /\ tx.borrower_sig.over = SignedIntentHash(a, tx.op)
        /\ SignedBy(tx.terms.borrower, a, tx.op)
        /\ tx.lender_sig.pubkey = a.lender
        /\ tx.lender_sig.over = SignedIntentHash(a, tx.op)
        /\ SignedBy(tx.terms.lender, a, tx.op)
    BY <1>1, <1>2, <2>1, SignatureDetermined DEF OriginateRequires
  <2>4. OriginateAccepts(tx.terms, tx.now)
    BY <1>1, <1>2, <2>3 DEF OriginateAccepts, OriginateRequires
  <2>5. ShowsTransition(tx)
    BY <1>2, <2>1, <2>2, <2>3, ShownFields, PathsDiffer
    DEF ShowsTransition, OriginateRequires, OutputsRequired, SameSignature
  <2> QED
    BY <2>4, <2>5
<1>3. ASSUME OriginateAccepts(tx.terms, tx.now), ShowsTransition(tx)
      PROVE  OriginateRequires(tx)
  <2>1. /\ tx.intent = SignedIntent(a, tx.op)
        /\ tx.active = Successor(a, tx.op) /\ tx.group_output = Successor(a, tx.op)
        /\ tx.outputs[ReceiptOutput(tx)].data = Receipt(a, tx.op, tx.now)
        /\ PayoutsRequired(tx) /\ ReceiptOutput(tx) \in DOMAIN tx.outputs
    BY <1>3, ShownFields DEF ShowsTransition
  <2>2. /\ tx.borrower_sig.pubkey = a.borrower
        /\ tx.borrower_sig.over = SignedIntentHash(a, tx.op)
        /\ tx.lender_sig.pubkey = a.lender
        /\ tx.lender_sig.over = SignedIntentHash(a, tx.op)
    BY <1>3, ShownFields, PathsDiffer DEF ShowsTransition, SameSignature
  <2>3. /\ TermsAccepted(tx.terms, tx.now)
        /\ SignedBy(tx.terms.borrower, a, tx.op)
        /\ SignedBy(tx.terms.lender, a, tx.op)
    BY <1>1, <1>3 DEF OriginateAccepts
  <2>4. /\ SignatureRequired(tx, tx.borrower_sig, tx.terms.borrower)
        /\ SignatureRequired(tx, tx.lender_sig, tx.terms.lender)
    BY <1>1, <2>1, <2>2, <2>3, SignatureDetermined
  <2>5. IntentRequired(tx) /\ tx.active = Written(tx) /\ OutputsRequired(tx)
    BY <2>1, IntentDetermined, WrittenDetermined DEF OutputsRequired
  <2> QED
    BY <2>1, <2>3, <2>4, <2>5 DEF OriginateRequires
<1> QED
  BY <1>2, <1>3

\* What repayment and claim share: a closing that shows its transition.
LEMMA ClosingDecided ==
  ASSUME NEW tx, WellFormed(tx), tx.op # PATH_ORIGINATE
  PROVE  ClosingRequires(tx) <=>
           /\ tx.active.version = AGREEMENT_VERSION
           /\ tx.active.supported /\ tx.active.status = STATUS_ACTIVE
           /\ tx.intent = SignedIntent(tx.active, tx.op)
           /\ tx.group_output = Successor(tx.active, tx.op)
           /\ PayoutsRequired(tx)
           /\ ReceiptOutput(tx) \in DOMAIN tx.outputs
           /\ tx.outputs[ReceiptOutput(tx)].data = Receipt(tx.active, tx.op, tx.now)
           /\ TermsNameActive(tx)
           /\ tx.group_inputs # <<>> /\ tx.group_inputs[1] = tx.active
<1>1. Base(tx) = tx.active
  BY DEF Base
<1>2. IntentRequired(tx) <=> tx.intent = SignedIntent(tx.active, tx.op)
  BY <1>1, IntentDetermined
<1>3. tx.intent = SignedIntent(tx.active, tx.op) =>
        /\ Written(tx) = Successor(tx.active, tx.op)
        /\ ReceiptFor(tx.active, tx.op, tx.intent, tx.now)
             = Receipt(tx.active, tx.op, tx.now)
  BY <1>1, WrittenDetermined
<1> QED
  BY <1>1, <1>2, <1>3 DEF ClosingRequires, OutputsRequired

\* What ShowsTransition says of a closing.
LEMMA ClosingShown ==
  ASSUME NEW tx, tx.op # PATH_ORIGINATE
  PROVE  ShowsTransition(tx) <=>
           /\ tx.intent = SignedIntent(tx.active, tx.op)
           /\ tx.group_output = Successor(tx.active, tx.op)
           /\ PayoutsRequired(tx)
           /\ ReceiptOutput(tx) \in DOMAIN tx.outputs
           /\ tx.outputs[ReceiptOutput(tx)].data = Receipt(tx.active, tx.op, tx.now)
           /\ tx.op # PATH_CLAIM_AFTER_EXPIRY =>
                /\ tx.borrower_sig.pubkey = tx.active.borrower
                /\ tx.borrower_sig.over = SignedIntentHash(tx.active, tx.op)
           /\ tx.op # PATH_REPAY_BEFORE_EXPIRY =>
                /\ tx.lender_sig.pubkey = tx.active.lender
                /\ tx.lender_sig.over = SignedIntentHash(tx.active, tx.op)
           /\ TermsNameActive(tx)
           /\ tx.group_inputs # <<>> /\ tx.group_inputs[1] = tx.active
<1>1. Base(tx) = tx.active
  BY DEF Base
<1> QED
  BY <1>1, ShownFields DEF ShowsTransition, SameSignature

\* A repayment is decided so.
LEMMA RepayDecided ==
  ASSUME NEW tx, WellFormed(tx), tx.op = PATH_REPAY_BEFORE_EXPIRY
  PROVE  RepayRequires(tx) <=>
           RepayAccepts(tx.active, tx.now) /\ ShowsTransition(tx)
<1>1. Base(tx) = tx.active /\ tx.op # PATH_ORIGINATE /\ tx.op # PATH_CLAIM_AFTER_EXPIRY
  BY PathsDiffer DEF Base
<1>2. tx.active.borrower \in Keys
  BY DEF WellFormed
<1>3. tx.intent = SignedIntent(tx.active, tx.op) =>
        (SignatureRequired(tx, tx.borrower_sig, tx.active.borrower) <=>
           /\ tx.borrower_sig.pubkey = tx.active.borrower
           /\ tx.borrower_sig.over = SignedIntentHash(tx.active, tx.op)
           /\ SignedBy(tx.active.borrower, tx.active, tx.op))
  BY <1>1, <1>2, SignatureDetermined
<1> QED
  BY <1>1, <1>3, ClosingDecided, ClosingShown DEF RepayRequires, RepayAccepts

\* And a claim.
LEMMA ClaimDecided ==
  ASSUME NEW tx, WellFormed(tx), tx.op = PATH_CLAIM_AFTER_EXPIRY
  PROVE  ClaimRequires(tx) <=>
           ClaimAccepts(tx.active, tx.now) /\ ShowsTransition(tx)
<1>1. Base(tx) = tx.active /\ tx.op # PATH_ORIGINATE /\ tx.op # PATH_REPAY_BEFORE_EXPIRY
  BY PathsDiffer DEF Base
<1>2. tx.active.lender \in Keys
  BY DEF WellFormed
<1>3. tx.intent = SignedIntent(tx.active, tx.op) =>
        (SignatureRequired(tx, tx.lender_sig, tx.active.lender) <=>
           /\ tx.lender_sig.pubkey = tx.active.lender
           /\ tx.lender_sig.over = SignedIntentHash(tx.active, tx.op)
           /\ SignedBy(tx.active.lender, tx.active, tx.op))
  BY <1>1, <1>2, SignatureDetermined
<1> QED
  BY <1>1, <1>3, ClosingDecided, ClosingShown DEF ClaimRequires, ClaimAccepts

\* The script accepts a transaction exactly if it shows a transition that an
\* action of NovaAgreement allows: whatever a builder presents, no field of
\* the intent, the cell, the receipt or the payouts is left to choose.
THEOREM ScriptDecides ==
  ASSUME NEW tx, WellFormed(tx)
  PROVE  ScriptDecidesAsAction(tx)
<1>1. CASE tx.op = PATH_ORIGINATE
  BY <1>1, OriginateDecided, PathsDiffer
  DEF ScriptDecidesAsAction, ScriptAccepts, ActionAccepts
<1>2. CASE tx.op = PATH_REPAY_BEFORE_EXPIRY
  BY <1>2, RepayDecided, PathsDiffer
  DEF ScriptDecidesAsAction, ScriptAccepts, ActionAccepts
<1>3. CASE tx.op = PATH_CLAIM_AFTER_EXPIRY
  BY <1>3, ClaimDecided, PathsDiffer
  DEF ScriptDecidesAsAction, ScriptAccepts, ActionAccepts
<1>4. CASE tx.op \notin {PATH_ORIGINATE, PATH_REPAY_BEFORE_EXPIRY,
                         PATH_CLAIM_AFTER_EXPIRY}
  BY <1>4 DEF ScriptDecidesAsAction, ScriptAccepts, ActionAccepts
<1> QED
  BY <1>1, <1>2, <1>3, <1>4
-----------------------------------------------------------------------------
(***************************************************************************)
(* What a signed intent fixes.                                             *)
(***************************************************************************)

\* The same digest names the same transition.
LEMMA SameIntent ==
  ASSUME NEW a, NEW p, NEW b, NEW q,
         SignedIntentHash(a, p) = SignedIntentHash(b, q)
  PROVE  /\ p = q
         /\ a.agreement_id = b.agreement_id /\ a.terms_hash = b.terms_hash
         /\ a.borrower = b.borrower /\ a.lender = b.lender
         /\ a.expiry_timepoint = b.expiry_timepoint
         /\ a.latest_receipt_hash = b.latest_receipt_hash
         /\ TerminalAmount(a, p) = TerminalAmount(b, q)
         /\ NewNonce(a, p) = NewNonce(b, q)
         /\ PayoutCommitmentHash(a, p) = PayoutCommitmentHash(b, q)
         /\ MaterializedReceiptHash(a, p) = MaterializedReceiptHash(b, q)
<1>1. SignedIntent(a, p) = SignedIntent(b, q)
  BY HashInjective DEF SignedIntentHash
<1>2. /\ IntentCore(a, p) = IntentCore(b, q)
      /\ CanonicalEnvelopeHash(a, p, IntentCore(a, p))
           = CanonicalEnvelopeHash(b, q, IntentCore(b, q))
      /\ MaterializedReceiptHash(a, p) = MaterializedReceiptHash(b, q)
  BY <1>1 DEF SignedIntent
<1>3. /\ p = q
      /\ a.agreement_id = b.agreement_id /\ a.terms_hash = b.terms_hash
      /\ a.borrower = b.borrower /\ a.lender = b.lender
      /\ a.expiry_timepoint = b.expiry_timepoint
      /\ TerminalAmount(a, p) = TerminalAmount(b, q)
      /\ NewNonce(a, p) = NewNonce(b, q)
      /\ PayoutCommitmentHash(a, p) = PayoutCommitmentHash(b, q)
  BY <1>2 DEF IntentCore
<1>4. a.latest_receipt_hash = b.latest_receipt_hash
  BY <1>2, HashInjective DEF CanonicalEnvelopeHash
<1> QED
  BY <1>2, <1>3, <1>4

\* The same payout commitment commits to the same payouts.
LEMMA SamePayouts ==
  ASSUME NEW a, NEW b, NEW p \in Paths,
         PayoutCommitmentHash(a, p) = PayoutCommitmentHash(b, p)
  PROVE  Payouts(a, p) = Payouts(b, p)
<1>1. CASE p = PATH_ORIGINATE
  <2>1. PayoutCommitmentHash(a, p) = Hash(PrincipalPayout(a))
        /\ PayoutCommitmentHash(b, p) = Hash(PrincipalPayout(b))
    BY <1>1, PathsDiffer DEF PayoutCommitmentHash, Payouts
  <2> QED
    BY <1>1, <2>1, HashInjective, PathsDiffer DEF Payouts
<1>2. CASE p = PATH_CLAIM_AFTER_EXPIRY
  <2>1. PayoutCommitmentHash(a, p) = Hash(DefaultClaim(a))
        /\ PayoutCommitmentHash(b, p) = Hash(DefaultClaim(b))
    BY <1>2, PathsDiffer DEF PayoutCommitmentHash, Payouts
  <2> QED
    BY <1>2, <2>1, HashInjective, PathsDiffer DEF Payouts
<1>3. CASE p = PATH_REPAY_BEFORE_EXPIRY
  <2>1. <<Hash(LenderRepayment(a)), Hash(CollateralReturn(a))>>
          = <<Hash(LenderRepayment(b)), Hash(CollateralReturn(b))>>
    BY <1>3, HashInjective DEF PayoutCommitmentHash
  <2>2. /\ LenderRepayment(a) = LenderRepayment(b)
        /\ CollateralReturn(a) = CollateralReturn(b)
    BY <2>1, HashInjective
  <2> QED
    BY <1>3, <2>2, PathsDiffer DEF Payouts
<1> QED
  BY <1>1, <1>2, <1>3 DEF Paths

\* The origination receipt of an agreement fixes its principal.
LEMMA SamePrincipal ==
  ASSUME NEW t \in Terms, NEW u \in Terms,
         MaterializedReceiptHash(Offer(t), PATH_ORIGINATE)
           = MaterializedReceiptHash(Offer(u), PATH_ORIGINATE)
  PROVE  t.principal_amount = u.principal_amount
<1>1. TerminalAmount(Offer(t), PATH_ORIGINATE) = TerminalAmount(Offer(u), PATH_ORIGINATE)
  BY HashInjective DEF MaterializedReceiptHash, ReceiptCommitmentHash
<1> QED
  BY <1>1, PathsDiffer DEF TerminalAmount, Offer

\* What is on the ledger of a transaction that took agreement a along a path.
LEMMA TookOutcome ==
  ASSUME NEW j, NEW a, NEW path, NEW now, Took(j, a, path, now)
  PROVE  /\ ledger[j].path = path
         /\ ledger[j].agreement = Successor(a, path)
         /\ ledger[j].receipt.signed_intent_hash = SignedIntentHash(a, path)
         /\ ledger[j].receipt.latest_receipt_hash = MaterializedReceiptHash(a, path)
         /\ DOMAIN ledger[j].payouts = DOMAIN Payouts(a, path)
         /\ \A k \in DOMAIN ledger[j].payouts :
              ledger[j].payouts[k].data = Payouts(a, path)[k]
<1>1. ledger[j] = Transaction(a, path, now, ledger[j].epoch,
                              ledger[j].spent, ledger[j].payouts)
  BY DEF Took
<1>2. /\ ledger[j].path = path
      /\ ledger[j].agreement = Successor(a, path)
      /\ ledger[j].receipt = Receipt(a, path, now)
  BY <1>1 DEF Transaction
<1>3. /\ ledger[j].receipt.signed_intent_hash = SignedIntentHash(a, path)
      /\ ledger[j].receipt.latest_receipt_hash = MaterializedReceiptHash(a, path)
  BY <1>2 DEF Receipt, ReceiptFor, SignedIntentHash, SignedIntent, MaterializedReceiptHash
<1>4. /\ DOMAIN ledger[j].payouts = DOMAIN Payouts(a, path)
      /\ \A k \in DOMAIN ledger[j].payouts :
           ledger[j].payouts[k].data = Payouts(a, path)[k]
  BY DEF Took, PayoutOutputs, PayoutOutputAccepts
<1> QED
  BY <1>2, <1>3, <1>4

\* An accepted transaction took the offer of some terms, or their active agreement.
LEMMA AcceptedTook ==
  ASSUME NEW j, Accepted(j)
  PROVE  \E t \in Terms, now \in Nat :
           \/ Took(j, Offer(t), PATH_ORIGINATE, now)
           \/ \E path \in Closings : Took(j, Active(t), path, now)
  BY DEF Accepted, OriginatedBy, RepaidBy, ClaimedBy, Presentable, Closings

\* The fields of a cell that a transition carries over.
LEMMA SuccessorCell ==
  ASSUME NEW t \in Terms, NEW a \in {Offer(t), Active(t)}, NEW path
  PROVE  /\ Successor(a, path).agreement_id = a.agreement_id
         /\ Successor(a, path).terms_hash = a.terms_hash
         /\ Successor(a, path).borrower = a.borrower
         /\ Successor(a, path).lender = a.lender
         /\ Successor(a, path).principal_amount = t.principal_amount
         /\ Successor(a, path).expiry_timepoint = a.expiry_timepoint
         /\ Successor(a, path).status = NewStatus(path)
         /\ Successor(a, path).nonce = NewNonce(a, path)
<1>1. /\ {"agreement_id", "terms_hash", "borrower", "lender", "principal_amount",
          "expiry_timepoint", "status", "nonce"} \subseteq DOMAIN a
      /\ a.principal_amount = t.principal_amount
  <2>1. CASE a = Offer(t)
    BY <2>1 DEF Offer
  <2>2. CASE a = Active(t)
    BY <2>2 DEF Active, Successor, Offer
  <2> QED
    BY <2>1, <2>2
<1> QED
  BY <1>1 DEF Successor

\* Two transactions that took agreements under one digest have one outcome.
LEMMA SameOutcome ==
  ASSUME NEW j, NEW k, NEW t \in Terms, NEW u \in Terms,
         NEW a \in {Offer(t), Active(t)}, NEW b \in {Offer(u), Active(u)},
         NEW p \in Paths, NEW q \in Paths, NEW now, NEW then,
         p = PATH_ORIGINATE <=> a = Offer(t), q = PATH_ORIGINATE <=> b = Offer(u),
         Took(j, a, p, now), Took(k, b, q, then),
         ledger[j].receipt.signed_intent_hash = ledger[k].receipt.signed_intent_hash
  PROVE  Outcome(ledger[j]) = Outcome(ledger[k])
<1>1. SignedIntentHash(a, p) = SignedIntentHash(b, q)
  BY TookOutcome
<1>2. /\ p = q
      /\ a.agreement_id = b.agreement_id /\ a.terms_hash = b.terms_hash
      /\ a.borrower = b.borrower /\ a.lender = b.lender
      /\ a.expiry_timepoint = b.expiry_timepoint
      /\ a.latest_receipt_hash = b.latest_receipt_hash
      /\ TerminalAmount(a, p) = TerminalAmount(b, p)
      /\ NewNonce(a, p) = NewNonce(b, q)
      /\ PayoutCommitmentHash(a, p) = PayoutCommitmentHash(b, p)
      /\ MaterializedReceiptHash(a, p) = MaterializedReceiptHash(b, q)
  BY <1>1, SameIntent
<1>3. Payouts(a, p) = Payouts(b, q)
  BY <1>2, SamePayouts
<1>4. t.principal_amount = u.principal_amount
  <2>1. CASE p = PATH_ORIGINATE
    <3>1. a = Offer(t) /\ b = Offer(u)
      BY <1>2, <2>1
    <3>2. TerminalAmount(a, p) = TerminalAmount(b, p)
      BY <1>2
    <3> QED
      BY <2>1, <3>1, <3>2, PathsDiffer DEF TerminalAmount, Offer
  <2>2. CASE p # PATH_ORIGINATE
    BY <1>2, <2>2, ActiveFields, SamePrincipal
  <2> QED
    BY <2>1, <2>2
<1>5. [m \in DOMAIN ledger[j].payouts |-> ledger[j].payouts[m].data]
        = [m \in DOMAIN ledger[k].payouts |-> ledger[k].payouts[m].data]
  BY <1>3, TookOutcome
<1>6. ASSUME NEW field \in {"agreement_id", "terms_hash", "borrower", "lender",
                            "principal_amount", "expiry_timepoint", "status", "nonce"}
      PROVE  ledger[j].agreement[field] = ledger[k].agreement[field]
  <2>1. ledger[j].agreement = Successor(a, p) /\ ledger[k].agreement = Successor(b, q)
    BY TookOutcome
  <2>2. /\ Successor(a, p).agreement_id = Successor(b, q).agreement_id
        /\ Successor(a, p).terms_hash = Successor(b, q).terms_hash
        /\ Successor(a, p).borrower = Successor(b, q).borrower
        /\ Successor(a, p).lender = Successor(b, q).lender
        /\ Successor(a, p).principal_amount = Successor(b, q).principal_amount
        /\ Successor(a, p).expiry_timepoint = Successor(b, q).expiry_timepoint
        /\ Successor(a, p).status = Successor(b, q).status
        /\ Successor(a, p).nonce = Successor(b, q).nonce
    BY <1>2, <1>4, SuccessorCell
  <2> QED
    BY <2>1, <2>2
<1>7. /\ ledger[j].path = ledger[k].path
      /\ ledger[j].receipt.latest_receipt_hash = ledger[k].receipt.latest_receipt_hash
  BY <1>2, TookOutcome
<1> QED
  BY <1>5, <1>6, <1>7 DEF Outcome

\* Every ledger of the invariant fixes the outcome of an intent.
LEMMA InvIntent ==
  ASSUME IInv
  PROVE  IntentFixesOutcome
<1>1. ASSUME NEW j \in DOMAIN ledger
      PROVE  \E t \in Terms, now \in Nat, path \in Paths :
             \E a \in {Offer(t), Active(t)} :
               /\ path = PATH_ORIGINATE <=> a = Offer(t)
               /\ Took(j, a, path, now)
  <2>1. Accepted(j)
    BY DEF IInv, TypeInv, HistoryInv
  <2>2. PICK t \in Terms, now \in Nat :
          \/ Took(j, Offer(t), PATH_ORIGINATE, now)
          \/ \E path \in Closings : Took(j, Active(t), path, now)
    BY <2>1, AcceptedTook
  <2>3. Offer(t) # Active(t)
    BY ActiveFields DEF Offer, STATUS_OFFERED, STATUS_ACTIVE
  <2>4. PATH_ORIGINATE \in Paths /\ \A path \in Closings :
          path \in Paths /\ path # PATH_ORIGINATE
    BY PathsDiffer DEF Paths, Closings
  <2> QED
    BY <2>2, <2>3, <2>4
<1>2. SUFFICES ASSUME NEW j \in DOMAIN ledger, NEW k \in DOMAIN ledger,
                      ledger[j].receipt.signed_intent_hash
                        = ledger[k].receipt.signed_intent_hash
               PROVE  Outcome(ledger[j]) = Outcome(ledger[k])
  BY DEF IntentFixesOutcome
<1>3. PICK t \in Terms, now \in Nat, p \in Paths :
        \E a \in {Offer(t), Active(t)} :
          /\ p = PATH_ORIGINATE <=> a = Offer(t)
          /\ Took(j, a, p, now)
  BY <1>1
<1>4. PICK u \in Terms, then \in Nat, q \in Paths :
        \E b \in {Offer(u), Active(u)} :
          /\ q = PATH_ORIGINATE <=> b = Offer(u)
          /\ Took(k, b, q, then)
  BY <1>1
<1>5. PICK a \in {Offer(t), Active(t)} :
        /\ p = PATH_ORIGINATE <=> a = Offer(t)
        /\ Took(j, a, p, now)
  BY <1>3
<1>6. PICK b \in {Offer(u), Active(u)} :
        /\ q = PATH_ORIGINATE <=> b = Offer(u)
        /\ Took(k, b, q, then)
  BY <1>4
<1> QED
  BY <1>2, <1>5, <1>6, SameOutcome

\* A signed intent has one outcome: however often, by whomever and on whatever
\* cell it is used, the path, the payouts, the receipt hash and the parties,
\* principal, expiry, status and nonce of the cell it leaves are the same.
THEOREM IntentOutcome == Spec => []IntentFixesOutcome
<1>1. IInv => IntentFixesOutcome
  BY InvIntent
<1> QED
  BY <1>1, SpecInv, PTL
-----------------------------------------------------------------------------
(***************************************************************************)
(* What a builder may try.                                                 *)
(***************************************************************************)

\* Terms or an agreement, between two parties.
Parties(r) ==
  /\ {"borrower", "lender"} \subseteq DOMAIN r
  /\ r.borrower \in Keys /\ r.lender \in Keys

\* A transaction made from witnesses that the script can decode.
Built(tx) ==
  /\ {"terms", "active", "intent"} \subseteq DOMAIN tx
  /\ Parties(tx.terms) /\ Parties(tx.active)
  /\ \E core, envelope, receipt :
       tx.intent = [core |-> core, canonical_envelope_hash |-> envelope,
                    expected_receipt_hash |-> receipt]

\* What a builder makes can be decoded.
LEMMA BuiltWellFormed ==
  ASSUME NEW tx, Built(tx)
  PROVE  WellFormed(tx)
  BY DEF Built, Parties, WellFormed

\* The terms witnesses are between two parties.
LEMMA TermsParties ==
  ASSUME NEW t \in Terms
  PROVE  Parties(t)
<1>1. t \in NovaAgreementTermsV0
  BY AgreementAssumption
<1> QED
  BY <1>1 DEF NovaAgreementTermsV0, Parties

\* The parties of terms are those of their offer.
LEMMA OfferParties ==
  ASSUME NEW t, Parties(t)
  PROVE  Parties(Offer(t))
  BY DEF Parties, Offer

\* A transition keeps the parties.
LEMMA SuccessorParties ==
  ASSUME NEW a, NEW path, Parties(a)
  PROVE  Parties(Successor(a, path))
<1>1. /\ DOMAIN Successor(a, path) = DOMAIN a
      /\ Successor(a, path).borrower = a.borrower
      /\ Successor(a, path).lender = a.lender
  BY DEF Successor, Parties
<1> QED
  BY <1>1 DEF Parties

\* The agreement a built transaction starts from has two parties.
LEMMA BaseParties ==
  ASSUME NEW tx, Built(tx)
  PROVE  Parties(Base(tx))
  BY OfferParties DEF Built, Base

\* What is materialized for two parties is built.
LEMMA MaterializeBuilt ==
  ASSUME NEW t, NEW a, NEW path, NEW now, NEW payouts, Parties(t), Parties(a)
  PROVE  Built(Materialize(t, a, path, now, payouts))
<1> DEFINE tx == Materialize(t, a, path, now, payouts)
<1>1. /\ {"terms", "active", "intent"} \subseteq DOMAIN tx
      /\ tx.terms = t
      /\ tx.active = IF path = PATH_ORIGINATE THEN Successor(a, path) ELSE a
      /\ tx.intent = SignedIntent(a, path)
  BY DEF Materialize
<1>2. Parties(tx.active)
  BY <1>1, SuccessorParties
<1> QED
  BY <1>1, <1>2 DEF Built, SignedIntent

\* Other fields than the decoded ones do not matter.
LEMMA BuiltElsewhere ==
  ASSUME NEW tx, NEW y, Built(tx), DOMAIN y = DOMAIN tx,
         y.terms = tx.terms, y.active = tx.active, y.intent = tx.intent
  PROVE  Built(y)
  BY DEF Built

\* Nor do fields of the witnesses that do not name the parties.
LEMMA BuiltWithin ==
  ASSUME NEW tx, NEW y, Built(tx), DOMAIN y = DOMAIN tx, y.intent = tx.intent,
         Parties(y.terms), Parties(y.active)
  PROVE  Built(y)
  BY DEF Built

\* The harness's cases are built.
LEMMA RejectsBuilt ==
  ASSUME NEW tx, Built(tx), tx.op \in Paths, NEW y \in RejectCases(tx)
  PROVE  Built(y)
<1>1. CASE tx.op = PATH_ORIGINATE
  <2>1. y \in Cases(OriginateRejects(tx))
    BY <1>1, PathsDiffer DEF RejectCases
  <2>2. \/ y = [tx EXCEPT !.terms.terms_hash = "other-terms"]
        \/ y = [tx EXCEPT !.borrower_sig = StrangersSignature(tx)]
        \/ y = [tx EXCEPT !.lender_sig.over = ZeroHash]
        \/ y = [tx EXCEPT !.terms.supported = FALSE, !.active.supported = FALSE,
                          !.group_output.supported = FALSE]
    BY <2>1 DEF Cases, OriginateRejects
  <2>3. CASE y = [tx EXCEPT !.terms.terms_hash = "other-terms"]
    <3>1. /\ DOMAIN y = DOMAIN tx /\ y.intent = tx.intent /\ y.active = tx.active
          /\ y.terms = [tx.terms EXCEPT !.terms_hash = "other-terms"]
      BY <2>3 DEF Built
    <3>2. Parties(y.terms)
      BY <3>1 DEF Built, Parties
    <3> QED
      BY <3>1, <3>2, BuiltWithin DEF Built
  <2>4. CASE y = [tx EXCEPT !.borrower_sig = StrangersSignature(tx)]
    BY <2>4, BuiltElsewhere DEF Built
  <2>5. CASE y = [tx EXCEPT !.lender_sig.over = ZeroHash]
    BY <2>5, BuiltElsewhere DEF Built
  <2>6. CASE y = [tx EXCEPT !.terms.supported = FALSE, !.active.supported = FALSE,
                            !.group_output.supported = FALSE]
    <3>1. /\ DOMAIN y = DOMAIN tx /\ y.intent = tx.intent
          /\ y.terms = [tx.terms EXCEPT !.supported = FALSE]
          /\ y.active = [tx.active EXCEPT !.supported = FALSE]
      BY <2>6 DEF Built
    <3>2. Parties(y.terms) /\ Parties(y.active)
      BY <3>1 DEF Built, Parties
    <3> QED
      BY <3>1, <3>2, BuiltWithin
  <2> QED
    BY <2>2, <2>3, <2>4, <2>5, <2>6
<1>2. CASE tx.op = PATH_REPAY_BEFORE_EXPIRY
  <2>1. \/ y \in Cases(RepayWitnessRejects(tx))
        \/ y \in Cases(RepayCellRejects(tx))
        \/ y \in Cases(RepayPayoutRejects(tx))
    BY <1>2, PathsDiffer DEF RejectCases
  <2>2. CASE y \in Cases(RepayWitnessRejects(tx))
    <3>1. \/ y = [tx EXCEPT !.now = tx.active.expiry_timepoint + 1]
          \/ y = [tx EXCEPT !.borrower_sig = StrangersSignature(tx)]
          \/ y = [tx EXCEPT !.borrower_sig.over = ZeroHash]
      BY <2>2 DEF Cases, RepayWitnessRejects
    <3> QED
      BY <3>1, BuiltElsewhere DEF Built
  <2>3. CASE y \in Cases(RepayCellRejects(tx))
    <3>1. \/ y = [tx EXCEPT !.group_output.nonce = 2]
          \/ y = [tx EXCEPT !.group_output.principal_amount = @ - 1]
          \/ y = [tx EXCEPT !.group_output.latest_receipt_hash = ZeroHash]
          \/ y = [tx EXCEPT !.outputs[3].data.latest_receipt_hash = ZeroHash]
      BY <2>3 DEF Cases, RepayCellRejects
    <3> QED
      BY <3>1, BuiltElsewhere DEF Built
  <2>4. CASE y \in Cases(RepayPayoutRejects(tx))
    <3>1. \/ y = [tx EXCEPT !.outputs[1].data.amount = @ - 1]
          \/ y = [tx EXCEPT !.outputs[1].capacity = @ - 1]
          \/ y = [tx EXCEPT !.outputs[1].lock_args = Stranger]
      BY <2>4 DEF Cases, RepayPayoutRejects
    <3> QED
      BY <3>1, BuiltElsewhere DEF Built
  <2> QED
    BY <2>1, <2>2, <2>3, <2>4
<1>3. CASE tx.op = PATH_CLAIM_AFTER_EXPIRY
  <2>1. y \in Cases(ClaimRejects(tx))
    BY <1>3, PathsDiffer DEF RejectCases
  <2>2. \/ y = [tx EXCEPT !.now = tx.active.expiry_timepoint]
        \/ y = [tx EXCEPT !.lender_sig = StrangersSignature(tx)]
    BY <2>1 DEF Cases, ClaimRejects
  <2> QED
    BY <2>2, BuiltElsewhere DEF Built
<1> QED
  BY <1>1, <1>2, <1>3 DEF Paths

\* Whatever a builder tries in the place of a built transaction is built.
LEMMA AttemptsBuilt ==
  ASSUME NEW tx, Built(tx), tx.op \in Paths, NEW y \in Attempts(tx)
  PROVE  Built(y)
<1>0. Parties(tx.terms) /\ Parties(Base(tx))
  BY BaseParties DEF Built
<1>1. CASE y \in RejectCases(tx)
  BY <1>1, RejectsBuilt
<1>2. CASE y \in Reordered(tx)
  <2>1. \E outputs : y = [tx EXCEPT !.outputs = outputs]
    BY <1>2 DEF Reordered
  <2> QED
    BY <2>1, BuiltElsewhere DEF Built
<1>3. CASE \E now \in 0..tip : y = Retimed(tx, now)
  BY <1>0, <1>3, MaterializeBuilt DEF Retimed
<1>4. ASSUME NEW path \in Paths, y = Rerouted(tx, path)
      PROVE  Built(y)
  <2> DEFINE made == Materialize(tx.terms, Base(tx), path, tx.now,
                                 ExactPayouts(Base(tx), path))
  <2>1. Built(made)
    BY <1>0, MaterializeBuilt
  <2>2. y = [made EXCEPT !.borrower_sig = tx.borrower_sig, !.lender_sig = tx.lender_sig]
    BY <1>4 DEF Rerouted
  <2> HIDE DEF made
  <2> QED
    BY <2>1, <2>2, BuiltElsewhere DEF Built
<1>5. ASSUME NEW t \in Terms, y = Reworded(tx, t)
      PROVE  Built(y)
  <2>1. /\ DOMAIN y = DOMAIN tx /\ y.intent = tx.intent /\ y.terms = t
        /\ y.active = [tx.active EXCEPT !.collateral_amount = t.collateral_amount]
    BY <1>5 DEF Reworded, Built
  <2>2. Parties(y.active)
    BY <2>1 DEF Built, Parties
  <2> QED
    BY <2>1, <2>2, TermsParties, BuiltWithin
<1>6. CASE \E i \in DOMAIN ledger : y = [tx EXCEPT !.group_inputs = <<ledger[i].agreement>>]
  BY <1>6, BuiltElsewhere DEF Built
<1>7. CASE y = [tx EXCEPT !.terms.version = @ + 1]
  <2>1. /\ DOMAIN y = DOMAIN tx /\ y.intent = tx.intent /\ y.active = tx.active
        /\ y.terms = [tx.terms EXCEPT !.version = @ + 1]
    BY <1>7 DEF Built
  <2>2. Parties(y.terms)
    BY <2>1 DEF Built, Parties
  <2> QED
    BY <2>1, <2>2, BuiltWithin DEF Built
<1> QED
  BY <1>1, <1>2, <1>3, <1>4, <1>5, <1>6, <1>7 DEF Attempts

\* A cell that carries these terms: their offer, three fields apart.
Carries(a, t) ==
  a = [Offer(t) EXCEPT !.status = a.status, !.nonce = a.nonce,
                       !.latest_receipt_hash = a.latest_receipt_hash]

\* The cells the script writes for some terms carry them.
LEMMA WrittenCarries ==
  ASSUME NEW t \in Terms, NEW a \in {Active(t), Repaid(t), Defaulted(t)}
  PROVE  Carries(a, t) /\ Parties(a)
<1>1. PICK b, path : b \in {Offer(t), Active(t)} /\ a = Successor(b, path)
  BY DEF Active, Repaid, Defaulted
<1>2. Active(t) = [Offer(t) EXCEPT !.status = Active(t).status,
                                   !.nonce = Active(t).nonce,
                                   !.latest_receipt_hash = Active(t).latest_receipt_hash]
  <2>1. /\ Active(t).status = NewStatus(PATH_ORIGINATE)
        /\ Active(t).nonce = NewNonce(Offer(t), PATH_ORIGINATE)
        /\ Active(t).latest_receipt_hash
             = MaterializedReceiptHash(Offer(t), PATH_ORIGINATE)
    BY SuccessorFields DEF Active
  <2> QED
    BY <2>1 DEF Active, Successor
<1>3. a = [b EXCEPT !.status = a.status, !.nonce = a.nonce,
                    !.latest_receipt_hash = a.latest_receipt_hash]
  <2>1. /\ a.status = NewStatus(path) /\ a.nonce = NewNonce(b, path)
        /\ a.latest_receipt_hash = MaterializedReceiptHash(b, path)
    BY <1>1, SuccessorFields
  <2> QED
    BY <1>1, <2>1 DEF Successor
<1>4. Carries(a, t)
  <2>1. CASE b = Offer(t)
    BY <1>3, <2>1 DEF Carries
  <2>2. CASE b = Active(t)
    BY <1>2, <1>3, <2>2 DEF Offer, Carries
  <2> QED
    BY <1>1, <2>1, <2>2
<1> QED
  BY <1>1, <1>4, TermsParties, OfferParties, SuccessorParties DEF Active

\* A cell that carries two terms makes the same offer of both.
LEMMA CarriedOnce ==
  ASSUME NEW a, NEW t, NEW u, Carries(a, t), Carries(a, u)
  PROVE  Offer(t) = Offer(u)
<1>1. ASSUME NEW v, Carries(a, v)
      PROVE  /\ a.version = v.version
             /\ a.agreement_id = v.agreement_id /\ a.terms_hash = v.terms_hash
             /\ a.borrower = v.borrower /\ a.lender = v.lender
             /\ a.supported = v.supported
             /\ a.collateral_amount = v.collateral_amount
             /\ a.principal_amount = v.principal_amount
             /\ a.fixed_fee_amount = v.fixed_fee_amount
             /\ a.expiry_timepoint = v.expiry_timepoint
  <2> DEFINE status == a.status
             nonce == a.nonce
             receipt == a.latest_receipt_hash
  <2>1. a = [Offer(v) EXCEPT !.status = status, !.nonce = nonce,
                             !.latest_receipt_hash = receipt]
    BY <1>1 DEF Carries
  <2> HIDE DEF status, nonce, receipt
  <2> QED
    BY <2>1 DEF Offer
<1> QED
  BY <1>1 DEF Offer

\* Every agreement of the ledger carries terms that its transaction shows.
LEMMA TermsFound ==
  ASSUME IInv, NEW j \in 1..Len(ledger)
  PROVE  /\ TermsOf(j) \in Terms
         /\ Carries(ledger[j].agreement, TermsOf(j))
         /\ Parties(ledger[j].agreement)
<1>1. PICK t \in Terms : ledger[j].agreement \in {Active(t), Repaid(t), Defaulted(t)}
  BY CreatedAgreement DEF IInv, HistoryInv
<1>2. Carries(ledger[j].agreement, t) /\ Parties(ledger[j].agreement)
  BY <1>1, WrittenCarries
<1>3. TermsOf(j) = CHOOSE u \in Terms : Carries(ledger[j].agreement, u)
  BY DEF TermsOf, Carries
<1> QED
  BY <1>2, <1>3

\* The latest transition of the ledger can be shown.
LEMMA ShownBuilt ==
  ASSUME IInv, NEW j \in 1..Len(ledger)
  PROVE  Built(Shown(j)) /\ Shown(j).op \in Paths
<1>1. Parties(TermsOf(j))
  BY TermsFound, TermsParties
<1>2. Parties(BaseOf(j)) /\ ledger[j].path \in Paths
  <2>1. PICK t \in Terms, now \in Presentable(ledger[j].epoch) :
          /\ OriginatedBy(j, t, now) \/ RepaidBy(j, t, now) \/ ClaimedBy(j, t, now)
          /\ OriginatedBy(j, t, now) => ledger[j].path = PATH_ORIGINATE
          /\ RepaidBy(j, t, now) => ledger[j].path = PATH_REPAY_BEFORE_EXPIRY
          /\ ClaimedBy(j, t, now) => ledger[j].path = PATH_CLAIM_AFTER_EXPIRY
    BY AcceptedFields
  <2>2. CASE ledger[j].path = PATH_ORIGINATE
    BY <1>1, <2>2, OfferParties DEF BaseOf, Paths
  <2>3. CASE ledger[j].path # PATH_ORIGINATE
    <3>1. ledger[j].spent # {}
      BY <2>1, <2>3 DEF RepaidBy, ClaimedBy, SpentActive
    <3>2. PICK i \in ledger[j].spent : BaseOf(j) = ledger[i].agreement
      BY <2>3, <3>1 DEF BaseOf
    <3>3. i \in 1..Len(ledger)
      BY DEF IInv, HistoryInv, TypeInv
    <3> QED
      BY <2>1, <3>2, <3>3, TermsFound DEF Paths
  <2> QED
    BY <2>2, <2>3
<1>3. Shown(j).op = ledger[j].path
  BY DEF Shown, Materialize
<1> QED
  BY <1>1, <1>2, <1>3, MaterializeBuilt DEF Shown

\* ScriptIsTheAction: around any ledger the chain can have, for all keys, terms
\* and widths, the script decides on every attempt as the action does.
THEOREM ActionsOnly == Spec => []ScriptIsTheAction
<1>1. IInv => ScriptIsTheAction
  <2>1. SUFFICES ASSUME IInv, ledger # <<>>, NEW tx \in Attempts(Shown(Len(ledger)))
                 PROVE  ScriptDecidesAsAction(tx)
    BY DEF ScriptIsTheAction
  <2>2. PICK j \in 1..Len(ledger) : j = Len(ledger)
    BY <2>1 DEF IInv, TypeInv
  <2>3. Built(tx)
    BY <2>1, <2>2, ShownBuilt, AttemptsBuilt
  <2> QED
    BY <2>3, BuiltWellFormed, ScriptDecides
<1> QED
  BY <1>1, SpecInv, PTL
-----------------------------------------------------------------------------
(***************************************************************************)
(* What the builder materializes.                                          *)
(***************************************************************************)

\* Every path pays to one output or to two.
LEMMA PayoutCount ==
  ASSUME NEW a, NEW path \in Paths
  PROVE  /\ path = PATH_ORIGINATE => Payouts(a, path) = <<PrincipalPayout(a)>>
         /\ path = PATH_REPAY_BEFORE_EXPIRY =>
              Payouts(a, path) = <<LenderRepayment(a), CollateralReturn(a)>>
         /\ path = PATH_CLAIM_AFTER_EXPIRY => Payouts(a, path) = <<DefaultClaim(a)>>
         /\ Len(Payouts(a, path)) \in {1, 2}
         /\ DOMAIN Payouts(a, path) = 1..Len(Payouts(a, path))
<1>1. /\ path = PATH_ORIGINATE => Payouts(a, path) = <<PrincipalPayout(a)>>
      /\ path = PATH_REPAY_BEFORE_EXPIRY =>
           Payouts(a, path) = <<LenderRepayment(a), CollateralReturn(a)>>
      /\ path = PATH_CLAIM_AFTER_EXPIRY => Payouts(a, path) = <<DefaultClaim(a)>>
  BY PathsDiffer DEF Payouts
<1>2. path \in {PATH_ORIGINATE, PATH_REPAY_BEFORE_EXPIRY, PATH_CLAIM_AFTER_EXPIRY}
  BY DEF Paths
<1> QED
  BY <1>1, <1>2

\* A cell put behind the payouts.
LEMMA OutputsInOrder ==
  ASSUME NEW a, NEW path \in Paths, NEW receipt
  PROVE  LET outputs == Append(ExactPayouts(a, path), receipt)
             n == Len(Payouts(a, path))
         IN  /\ DOMAIN outputs = 1..(n + 1)
             /\ \A k \in 1..n : outputs[k] = ExactPayouts(a, path)[k]
             /\ outputs[n + 1] = receipt
<1> DEFINE n == Len(Payouts(a, path))
           f == ExactPayouts(a, path)
           S == {f[k] : k \in 1..n} \cup {receipt}
<1>1. n \in Nat /\ DOMAIN Payouts(a, path) = 1..n
  BY PayoutCount
<1>2. f = [k \in 1..n |-> f[k]]
  BY <1>1 DEF ExactPayouts
<1>3. \A k \in 1..n : f[k] \in S
  OBVIOUS
<1> HIDE DEF n, f, S
<1>4. f \in [1..n -> S]
  BY <1>2, <1>3
<1>5. f \in Seq(S) /\ Len(f) = n
  BY <1>1, <1>4
<1>6. receipt \in S
  BY DEF S
<1>7. /\ DOMAIN Append(f, receipt) = 1..(n + 1)
      /\ \A k \in 1..n : Append(f, receipt)[k] = f[k]
      /\ Append(f, receipt)[n + 1] = receipt
  BY <1>1, <1>5, <1>6
<1> QED
  BY <1>7 DEF n, f

\* The amounts of terms, and of the agreements made of them, are naturals.
Amounts(a) ==
  /\ a.principal_amount \in U64 /\ a.fixed_fee_amount \in U64
  /\ a.collateral_amount \in U64

\* The capacity a payout needs is a number.
LEMMA CapacityNatural ==
  ASSUME NEW a, Amounts(a), NEW path \in Paths, NEW k \in DOMAIN Payouts(a, path)
  PROVE  Add64(PAYOUT_OCCUPIED, Payouts(a, path)[k].amount) \in Nat
<1>1. /\ PAYOUT_OCCUPIED \in 0..U64_MAX /\ U64_MAX \in Nat
      /\ a.principal_amount \in 0..U64_MAX /\ a.fixed_fee_amount \in 0..U64_MAX
      /\ a.collateral_amount \in 0..U64_MAX
  BY AgreementAssumption, CkbAssumption DEF Amounts, U64
<1>2. RepaymentAmount(a) \in 0..U64_MAX
  BY <1>1 DEF RepaymentAmount, Add64
<1>3. Payouts(a, path)[k].amount
        \in {a.principal_amount, RepaymentAmount(a), a.collateral_amount}
  <2>1. /\ PrincipalPayout(a).amount = a.principal_amount
        /\ LenderRepayment(a).amount = RepaymentAmount(a)
        /\ CollateralReturn(a).amount = a.collateral_amount
        /\ DefaultClaim(a).amount = a.collateral_amount
    BY DEF PrincipalPayout, LenderRepayment, CollateralReturn, DefaultClaim,
       NativeCkbPayout
  <2>2. CASE path = PATH_ORIGINATE
    BY <2>1, <2>2, PayoutCount
  <2>3. CASE path = PATH_REPAY_BEFORE_EXPIRY
    BY <2>1, <2>3, PayoutCount
  <2>4. CASE path = PATH_CLAIM_AFTER_EXPIRY
    BY <2>1, <2>4, PayoutCount
  <2> QED
    BY <2>2, <2>3, <2>4 DEF Paths
<1> QED
  BY <1>1, <1>2, <1>3 DEF Add64

\* Terms and the agreement of a transition that they are presented for.
Named(t, a, path) ==
  /\ path = PATH_ORIGINATE => a = Offer(t)
  /\ path # PATH_ORIGINATE =>
       /\ t.version = AGREEMENT_VERSION
       /\ \A field \in {"agreement_id", "terms_hash", "borrower", "lender"} :
            t[field] = a[field]

\* What the builder makes of terms, an agreement, a path and a time.
IsMaterialized(tx, t, a, path, now) ==
  tx = Materialize(t, a, path, now, ExactPayouts(a, path))

\* The position of the receipt among the outputs.
Last(a, path) == Len(Payouts(a, path)) + 1

\* The fields of what is materialized.
Presents(tx, t, a, path, now) ==
  /\ DOMAIN tx = {"op", "terms", "active", "intent", "borrower_sig", "lender_sig",
                  "now", "group_inputs", "group_output", "capacity", "outputs"}
  /\ tx.op = path /\ tx.terms = t /\ tx.now = now
  /\ tx.intent = SignedIntent(a, path)
  /\ path = PATH_ORIGINATE => tx.active = Successor(a, path)
  /\ path # PATH_ORIGINATE => tx.active = a
  /\ tx.group_output = Successor(a, path)
  /\ path # PATH_ORIGINATE => tx.group_inputs = <<a>>
  /\ tx.borrower_sig = SignatureBy(a.borrower, a, path)
  /\ tx.lender_sig = SignatureBy(a.lender, a, path)
  /\ tx.capacity = AgreementCapacity(a, path)
  /\ Base(tx) = a /\ ReceiptOutput(tx) = Last(a, path)
  /\ DOMAIN tx.outputs = 1..Last(a, path)
  /\ \A k \in DOMAIN Payouts(a, path) : tx.outputs[k] = ExactPayouts(a, path)[k]
  /\ tx.outputs[Last(a, path)] = ReceiptCell(a, path, now)

\* What the builder makes presents what it was made of.
LEMMA Materialized ==
  ASSUME NEW t, NEW a, NEW path \in Paths, NEW now, Named(t, a, path),
         NEW tx, IsMaterialized(tx, t, a, path, now)
  PROVE  Presents(tx, t, a, path, now)
<1>1. /\ DOMAIN tx = {"op", "terms", "active", "intent", "borrower_sig", "lender_sig",
                      "now", "group_inputs", "group_output", "capacity", "outputs"}
      /\ tx.op = path /\ tx.terms = t /\ tx.now = now
      /\ tx.intent = SignedIntent(a, path)
      /\ tx.active = IF path = PATH_ORIGINATE THEN Successor(a, path) ELSE a
      /\ tx.group_output = Successor(a, path)
      /\ path # PATH_ORIGINATE => tx.group_inputs = <<a>>
      /\ tx.borrower_sig = SignatureBy(a.borrower, a, path)
      /\ tx.lender_sig = SignatureBy(a.lender, a, path)
      /\ tx.capacity = AgreementCapacity(a, path)
      /\ tx.outputs = Append(ExactPayouts(a, path), ReceiptCell(a, path, now))
  BY DEF Materialize, IsMaterialized
<1>2. Base(tx) = a
  BY <1>1 DEF Base, Named
<1>3. ReceiptOutput(tx) = Last(a, path)
  BY <1>1, <1>2 DEF ReceiptOutput, Last
<1> QED
  BY <1>1, <1>2, <1>3, OutputsInOrder, PayoutCount DEF Last, Presents

\* An exact payout output is accepted.
LEMMA ExactPayoutAccepted ==
  ASSUME NEW a, Amounts(a), NEW path \in Paths, NEW k \in DOMAIN Payouts(a, path)
  PROVE  PayoutOutputAccepts(ExactPayouts(a, path)[k], Payouts(a, path)[k])
  BY CapacityNatural DEF ExactPayouts, PayoutOutputAccepts

\* What is materialized shows its transition.
LEMMA MaterializeShows ==
  ASSUME NEW t, NEW a, NEW path \in Paths, NEW now, Named(t, a, path), Amounts(a),
         NEW tx, IsMaterialized(tx, t, a, path, now)
  PROVE  ShowsTransition(tx)
<1>1. /\ tx.op = path /\ tx.terms = t /\ tx.now = now
      /\ path # PATH_ORIGINATE => tx.active = a
      /\ path # PATH_ORIGINATE => tx.group_inputs = <<a>>
      /\ Base(tx) = a /\ ReceiptOutput(tx) = Last(a, path)
      /\ DOMAIN tx.outputs = 1..Last(a, path)
      /\ \A k \in DOMAIN Payouts(a, path) : tx.outputs[k] = ExactPayouts(a, path)[k]
      /\ tx.outputs[Last(a, path)] = ReceiptCell(a, path, now)
  BY Materialized DEF Presents
<1>2. /\ DOMAIN Payouts(a, path) \subseteq 1..Last(a, path)
      /\ Last(a, path) \in 1..Last(a, path)
  BY PayoutCount DEF Last
<1>3. tx = Materialize(tx.terms, Base(tx), tx.op, tx.now, ExactPayouts(Base(tx), tx.op))
  BY <1>1 DEF IsMaterialized
<1>4. PayoutsRequired(tx)
  <2>1. ASSUME NEW k \in DOMAIN Payouts(a, path)
        PROVE  /\ k \in DOMAIN tx.outputs
               /\ PayoutOutputAccepts(tx.outputs[k], Payouts(a, path)[k])
    BY <1>1, <1>2, ExactPayoutAccepted
  <2> QED
    BY <1>1, <1>2, <2>1 DEF PayoutsRequired
<1>5. /\ ReceiptOutput(tx) \in DOMAIN tx.outputs
      /\ tx.outputs[ReceiptOutput(tx)].data = Receipt(Base(tx), tx.op, tx.now)
  BY <1>1, <1>2 DEF ReceiptCell
<1>6. tx.op # PATH_ORIGINATE =>
        TermsNameActive(tx) /\ tx.group_inputs # <<>> /\ tx.group_inputs[1] = tx.active
  <2>1. ASSUME path # PATH_ORIGINATE
        PROVE  tx.active = a /\ tx.terms = t /\ tx.group_inputs = <<a>>
    BY <1>1, <2>1
  <2>2. ASSUME path # PATH_ORIGINATE
        PROVE  TermsNameActive(tx)
    BY <2>1, <2>2 DEF TermsNameActive, Named
  <2>3. <<a>> # <<>> /\ <<a>>[1] = a
    OBVIOUS
  <2> QED
    BY <1>1, <2>1, <2>2, <2>3
<1> QED
  BY <1>3, <1>4, <1>5, <1>6 DEF ShowsTransition, SameSignature
-----------------------------------------------------------------------------
(***************************************************************************)
(* The cases of the transaction harness.                                   *)
(***************************************************************************)

\* What a shown transition says of the fields that a case may change.
Faithful(y) ==
  /\ y.intent = SignedIntent(Base(y), y.op)
  /\ y.group_output = Successor(Base(y), y.op)
  /\ PayoutsRequired(y)
  /\ y.outputs[ReceiptOutput(y)].data = Receipt(Base(y), y.op, y.now)
  /\ y.op # PATH_CLAIM_AFTER_EXPIRY =>
       /\ y.borrower_sig.pubkey = Base(y).borrower
       /\ y.borrower_sig.over = SignedIntentHash(Base(y), y.op)
  /\ y.op # PATH_REPAY_BEFORE_EXPIRY =>
       /\ y.lender_sig.pubkey = Base(y).lender
       /\ y.lender_sig.over = SignedIntentHash(Base(y), y.op)

\* An accepted transaction says so, and its action accepts it.
LEMMA AcceptedFaithful ==
  ASSUME NEW y, Built(y), ScriptAccepts(y)
  PROVE  ActionAccepts(y) /\ Faithful(y)
<1>1. ActionAccepts(y) /\ ShowsTransition(y)
  BY BuiltWellFormed, ScriptDecides DEF ScriptDecidesAsAction
<1>2. Faithful(y)
  BY <1>1, ShownFields DEF ShowsTransition, SameSignature, Faithful
<1> QED
  BY <1>1, <1>2

\* No hash is the zero hash.
LEMMA HashNotZero ==
  ASSUME NEW x
  PROVE  Hash(x) # ZeroHash
<1>1. DOMAIN Hash(x) = {"hash_of"} /\ DOMAIN ZeroHash = {"zero"}
  BY DEF Hash, ZeroHash
<1> QED
  BY <1>1

\* The fields of a cell that takes the active agreement of terms to its end.
LEMMA ClosedFields ==
  ASSUME NEW t \in Terms, NEW path
  PROVE  /\ {"nonce", "principal_amount", "latest_receipt_hash"}
              \subseteq DOMAIN Successor(Active(t), path)
         /\ Successor(Active(t), path).nonce = NewNonce(Active(t), path)
         /\ Successor(Active(t), path).principal_amount = t.principal_amount
         /\ Successor(Active(t), path).latest_receipt_hash
              = MaterializedReceiptHash(Active(t), path)
<1>1. {"nonce", "principal_amount", "latest_receipt_hash"} \subseteq DOMAIN Active(t)
  BY DEF Active, Successor, Offer
<1>2. DOMAIN Successor(Active(t), path) = DOMAIN Active(t)
  BY DEF Successor
<1> QED
  BY <1>1, <1>2, SuccessorFields, SuccessorCell

\* A presented origination with one of the harness's changes is rejected.
LEMMA OriginateRejected ==
  ASSUME NEW t \in Terms, t.terms_hash # "other-terms", NEW tx, NEW now,
         Presents(tx, t, Offer(t), PATH_ORIGINATE, now), Built(tx),
         NEW y \in RejectCases(tx)
  PROVE  ~ScriptAccepts(y)
<1> SUFFICES ASSUME ScriptAccepts(y) PROVE FALSE
  OBVIOUS
<1>1. tx.op = PATH_ORIGINATE /\ tx.terms = t /\ tx.intent = SignedIntent(Offer(t), tx.op)
  BY DEF Presents
<1>2. ActionAccepts(y) /\ Faithful(y)
  BY <1>1, RejectsBuilt, AcceptedFaithful DEF Paths
<1>3. \/ y = [tx EXCEPT !.terms.terms_hash = "other-terms"]
      \/ y = [tx EXCEPT !.borrower_sig = StrangersSignature(tx)]
      \/ y = [tx EXCEPT !.lender_sig.over = ZeroHash]
      \/ y = [tx EXCEPT !.terms.supported = FALSE, !.active.supported = FALSE,
                        !.group_output.supported = FALSE]
  <2>1. y \in Cases(OriginateRejects(tx))
    BY <1>1, PathsDiffer DEF RejectCases
  <2> QED
    BY <2>1 DEF Cases, OriginateRejects
<1>4. t.borrower \in Keys /\ "terms_hash" \in DOMAIN t /\ "supported" \in DOMAIN t
  BY AgreementAssumption DEF NovaAgreementTermsV0
<1>5. CASE y = [tx EXCEPT !.terms.terms_hash = "other-terms"]
  <2>1. /\ y.op = PATH_ORIGINATE /\ y.intent = tx.intent
        /\ y.terms.terms_hash = "other-terms"
    BY <1>1, <1>4, <1>5 DEF Presents
  <2>2. Base(y).terms_hash = "other-terms"
    BY <2>1 DEF Base, Offer
  <2>3. SignedIntent(Offer(t), PATH_ORIGINATE) = SignedIntent(Base(y), PATH_ORIGINATE)
    BY <1>1, <1>2, <2>1 DEF Faithful
  <2>4. Offer(t).terms_hash = Base(y).terms_hash
    BY <2>3 DEF SignedIntent, IntentCore
  <2> QED
    BY <2>2, <2>4 DEF Offer
<1>6. CASE y = [tx EXCEPT !.borrower_sig = StrangersSignature(tx)]
  <2>1. /\ y.op = PATH_ORIGINATE /\ y.terms = t
        /\ y.borrower_sig.pubkey = Stranger
    BY <1>1, <1>6 DEF Presents, StrangersSignature
  <2>2. Base(y).borrower = t.borrower
    BY <2>1 DEF Base, Offer
  <2> QED
    BY <1>2, <1>4, <2>1, <2>2, PathsDiffer, StrangerAssumption DEF Faithful
<1>7. CASE y = [tx EXCEPT !.lender_sig.over = ZeroHash]
  <2>1. y.op = PATH_ORIGINATE /\ y.lender_sig.over = ZeroHash
    BY <1>1, <1>7 DEF Presents, SignatureBy
  <2> QED
    BY <1>2, <2>1, PathsDiffer, HashNotZero DEF Faithful, SignedIntentHash
<1>8. CASE y = [tx EXCEPT !.terms.supported = FALSE, !.active.supported = FALSE,
                          !.group_output.supported = FALSE]
  <2>1. y.op = PATH_ORIGINATE /\ ~y.terms.supported
    BY <1>1, <1>4, <1>8 DEF Presents
  <2> QED
    BY <1>2, <2>1, PathsDiffer DEF ActionAccepts, OriginateAccepts, TermsAccepted
<1> QED
  BY <1>3, <1>5, <1>6, <1>7, <1>8

\* A presented repayment with one of the harness's changes is rejected.
LEMMA RepayRejected ==
  ASSUME NEW t, NEW u \in Terms, NEW a, a = Active(u), RepayFits(a), NEW tx, NEW now,
         Presents(tx, t, a, PATH_REPAY_BEFORE_EXPIRY, now), Built(tx),
         NEW y \in RejectCases(tx)
  PROVE  ~ScriptAccepts(y)
<1> DEFINE path == PATH_REPAY_BEFORE_EXPIRY
<1> SUFFICES ASSUME ScriptAccepts(y) PROVE FALSE
  OBVIOUS
<1>1. tx.op = path /\ tx.active = a
  BY PathsDiffer DEF Presents
<1>2. ActionAccepts(y) /\ Faithful(y)
  BY <1>1, RejectsBuilt, AcceptedFaithful DEF Paths
<1>3. \/ y \in Cases(RepayWitnessRejects(tx))
      \/ y \in Cases(RepayCellRejects(tx))
      \/ y \in Cases(RepayPayoutRejects(tx))
  BY <1>1, PathsDiffer DEF RejectCases
<1>4. ASSUME y.op = path, y.active = a
      PROVE  /\ Base(y) = a
             /\ RepayAccepts(a, y.now)
             /\ y.borrower_sig.pubkey = a.borrower
             /\ y.borrower_sig.over = SignedIntentHash(a, path)
             /\ y.group_output = Successor(a, path)
             /\ PayoutsRequired(y)
             /\ ReceiptOutput(y) = 3
             /\ y.outputs[3].data = Receipt(a, path, y.now)
             /\ PayoutOutputAccepts(y.outputs[1], LenderRepayment(a))
  <2>1. Base(y) = a
    BY <1>4, PathsDiffer DEF Base
  <2>2. path \in Paths /\ Payouts(a, path) = <<LenderRepayment(a), CollateralReturn(a)>>
    BY PathsDiffer DEF Paths, Payouts
  <2>3. ReceiptOutput(y) = 3
    BY <1>4, <2>1, <2>2 DEF ReceiptOutput
  <2>4. RepayAccepts(a, y.now)
    BY <1>2, <1>4, PathsDiffer DEF ActionAccepts
  <2>5. /\ y.borrower_sig.pubkey = a.borrower
        /\ y.borrower_sig.over = SignedIntentHash(a, path)
        /\ y.group_output = Successor(a, path)
        /\ PayoutsRequired(y)
        /\ y.outputs[3].data = Receipt(a, path, y.now)
    BY <1>2, <1>4, <2>1, <2>3, PathsDiffer DEF Faithful
  <2>6. PayoutOutputAccepts(y.outputs[1], LenderRepayment(a))
    BY <1>4, <2>1, <2>2, <2>5 DEF PayoutsRequired
  <2> QED
    BY <2>1, <2>3, <2>4, <2>5, <2>6
<1>5. CASE y \in Cases(RepayWitnessRejects(tx))
  <2>1. \/ y = [tx EXCEPT !.now = tx.active.expiry_timepoint + 1]
        \/ y = [tx EXCEPT !.borrower_sig = StrangersSignature(tx)]
        \/ y = [tx EXCEPT !.borrower_sig.over = ZeroHash]
    BY <1>5 DEF Cases, RepayWitnessRejects
  <2>2. CASE y = [tx EXCEPT !.now = tx.active.expiry_timepoint + 1]
    <3>1. y.op = path /\ y.active = a /\ y.now = a.expiry_timepoint + 1
      BY <1>1, <2>2 DEF Presents
    <3>2. a.expiry_timepoint \in Nat
      BY ActiveFields, AgreementAssumption DEF NovaAgreementTermsV0
    <3> QED
      BY <1>4, <3>1, <3>2 DEF RepayAccepts
  <2>3. CASE y = [tx EXCEPT !.borrower_sig = StrangersSignature(tx)]
    <3>1. y.op = path /\ y.active = a /\ y.borrower_sig.pubkey = Stranger
      BY <1>1, <2>3 DEF Presents, StrangersSignature
    <3>2. a.borrower \in Keys
      BY ActiveFields, AgreementAssumption DEF NovaAgreementTermsV0
    <3> QED
      BY <1>4, <3>1, <3>2, StrangerAssumption
  <2>4. CASE y = [tx EXCEPT !.borrower_sig.over = ZeroHash]
    <3>1. y.op = path /\ y.active = a /\ y.borrower_sig.over = ZeroHash
      BY <1>1, <2>4 DEF Presents, SignatureBy
    <3> QED
      BY <1>4, <3>1, HashNotZero DEF SignedIntentHash
  <2> QED
    BY <2>1, <2>2, <2>3, <2>4
<1>6. CASE y \in Cases(RepayCellRejects(tx))
  <2>1. \/ y = [tx EXCEPT !.group_output.nonce = 2]
        \/ y = [tx EXCEPT !.group_output.principal_amount = @ - 1]
        \/ y = [tx EXCEPT !.group_output.latest_receipt_hash = ZeroHash]
        \/ y = [tx EXCEPT !.outputs[3].data.latest_receipt_hash = ZeroHash]
    BY <1>6 DEF Cases, RepayCellRejects
  <2>2. tx.group_output = Successor(a, path)
    BY DEF Presents
  <2>3. CASE y = [tx EXCEPT !.group_output.nonce = 2]
    <3>1. y.op = path /\ y.active = a /\ y.group_output.nonce = 2
      BY <1>1, <2>2, <2>3, ClosedFields DEF Presents
    <3>2. Successor(a, path).nonce = 1
      <4>1. a.nonce = 0 /\ 0 < U64_MAX
        BY ActiveFields DEF RepayFits
      <4> QED
        BY <4>1, ClosedFields, PathsDiffer, CkbAssumption DEF NewNonce, Add64
    <3> QED
      BY <1>4, <3>1, <3>2
  <2>4. CASE y = [tx EXCEPT !.group_output.principal_amount = @ - 1]
    <3>1. /\ y.op = path /\ y.active = a
          /\ y.group_output.principal_amount = tx.group_output.principal_amount - 1
      BY <1>1, <2>2, <2>4, ClosedFields DEF Presents
    <3>2. /\ Successor(a, path).principal_amount = u.principal_amount
          /\ u.principal_amount \in Nat
      BY ClosedFields, ExactAmounts
    <3> QED
      BY <1>4, <2>2, <3>1, <3>2
  <2>5. CASE y = [tx EXCEPT !.group_output.latest_receipt_hash = ZeroHash]
    <3>1. y.op = path /\ y.active = a /\ y.group_output.latest_receipt_hash = ZeroHash
      BY <1>1, <2>2, <2>5, ClosedFields DEF Presents
    <3>2. Successor(a, path).latest_receipt_hash = MaterializedReceiptHash(a, path)
      BY ClosedFields
    <3> QED
      BY <1>4, <3>1, <3>2, HashNotZero DEF MaterializedReceiptHash, ReceiptCommitmentHash
  <2>6. CASE y = [tx EXCEPT !.outputs[3].data.latest_receipt_hash = ZeroHash]
    <3>1. /\ DOMAIN tx.outputs = 1..3
          /\ tx.outputs[3] = ReceiptCell(a, path, now)
      BY PayoutCount, PathsDiffer DEF Presents, Last, Payouts
    <3>2. /\ y.op = path /\ y.active = a
          /\ y.outputs[3].data.latest_receipt_hash = ZeroHash
      BY <1>1, <2>6, <3>1 DEF Presents, ReceiptCell, Receipt, ReceiptFor
    <3>3. \E x : Receipt(a, path, y.now).latest_receipt_hash = Hash(x)
      BY DEF Receipt, ReceiptFor, ReceiptCommitmentHash
    <3> QED
      BY <1>4, <3>2, <3>3, HashNotZero
  <2> QED
    BY <2>1, <2>3, <2>4, <2>5, <2>6
<1>7. CASE y \in Cases(RepayPayoutRejects(tx))
  <2>1. \/ y = [tx EXCEPT !.outputs[1].data.amount = @ - 1]
        \/ y = [tx EXCEPT !.outputs[1].capacity = @ - 1]
        \/ y = [tx EXCEPT !.outputs[1].lock_args = Stranger]
    BY <1>7 DEF Cases, RepayPayoutRejects
  <2>2. /\ 1 \in DOMAIN tx.outputs
        /\ tx.outputs[1] = [data |-> LenderRepayment(a),
                            capacity |-> Add64(PAYOUT_OCCUPIED, LenderRepayment(a).amount),
                            lock_args |-> LenderRepayment(a).recipient]
    <3>1. Payouts(a, path) = <<LenderRepayment(a), CollateralReturn(a)>>
      BY PathsDiffer DEF Payouts
    <3>2. DOMAIN tx.outputs = 1..3 /\ tx.outputs[1] = ExactPayouts(a, path)[1]
      BY <3>1 DEF Presents, Last
    <3> QED
      BY <3>1, <3>2 DEF ExactPayouts
  <2>3. /\ LenderRepayment(a).amount \in Nat
        /\ Add64(PAYOUT_OCCUPIED, LenderRepayment(a).amount) \in Nat
        /\ LenderRepayment(a).recipient \in Keys
        /\ "amount" \in DOMAIN LenderRepayment(a)
    <3>1. LenderRepayment(a).amount = RepaymentAmount(a)
      BY DEF LenderRepayment, NativeCkbPayout
    <3>2. /\ LenderRepayment(a).recipient = a.lender
          /\ "amount" \in DOMAIN LenderRepayment(a)
      BY DEF LenderRepayment, NativeCkbPayout
    <3>3. a.lender \in Keys
      BY ActiveFields, AgreementAssumption DEF NovaAgreementTermsV0
    <3>4. /\ RepaymentAmount(a) \in Nat
          /\ Add64(PAYOUT_OCCUPIED, RepaymentAmount(a)) \in Nat
      BY ExactAmounts
    <3> QED
      BY <3>1, <3>2, <3>3, <3>4
  <2>4. CASE y = [tx EXCEPT !.outputs[1].data.amount = @ - 1]
    <3> DEFINE short == [tx.outputs EXCEPT ![1].data.amount = @ - 1]
    <3>1. y.op = path /\ y.active = a /\ y.outputs = short
      BY <1>1, <2>4 DEF Presents
    <3>2. short[1] = [tx.outputs[1] EXCEPT !.data.amount = @ - 1]
      BY <2>2
    <3>3. short[1].data.amount = LenderRepayment(a).amount - 1
      BY <2>2, <2>3, <3>2
    <3> HIDE DEF short
    <3> QED
      BY <1>4, <2>3, <3>1, <3>3 DEF PayoutOutputAccepts
  <2>5. CASE y = [tx EXCEPT !.outputs[1].capacity = @ - 1]
    <3> DEFINE short == [tx.outputs EXCEPT ![1].capacity = @ - 1]
    <3>1. y.op = path /\ y.active = a /\ y.outputs = short
      BY <1>1, <2>5 DEF Presents
    <3>2. short[1] = [tx.outputs[1] EXCEPT !.capacity = @ - 1]
      BY <2>2
    <3>3. short[1].capacity = Add64(PAYOUT_OCCUPIED, LenderRepayment(a).amount) - 1
      BY <2>2, <3>2
    <3> HIDE DEF short
    <3> QED
      BY <1>4, <2>3, <3>1, <3>3 DEF PayoutOutputAccepts
  <2>6. CASE y = [tx EXCEPT !.outputs[1].lock_args = Stranger]
    <3>1. y.op = path /\ y.active = a /\ y.outputs[1].lock_args = Stranger
      BY <1>1, <2>2, <2>6 DEF Presents
    <3> QED
      BY <1>4, <2>3, <3>1, StrangerAssumption DEF PayoutOutputAccepts
  <2> QED
    BY <2>1, <2>4, <2>5, <2>6
<1> QED
  BY <1>3, <1>5, <1>6, <1>7

\* A presented claim with one of the harness's changes is rejected.
LEMMA ClaimRejected ==
  ASSUME NEW t, NEW u \in Terms, NEW a, a = Active(u), NEW tx, NEW now,
         Presents(tx, t, a, PATH_CLAIM_AFTER_EXPIRY, now), Built(tx),
         NEW y \in RejectCases(tx)
  PROVE  ~ScriptAccepts(y)
<1> DEFINE path == PATH_CLAIM_AFTER_EXPIRY
<1> SUFFICES ASSUME ScriptAccepts(y) PROVE FALSE
  OBVIOUS
<1>1. tx.op = path /\ tx.active = a
  BY PathsDiffer DEF Presents
<1>2. ActionAccepts(y) /\ Faithful(y)
  BY <1>1, RejectsBuilt, AcceptedFaithful DEF Paths
<1>3. \/ y = [tx EXCEPT !.now = tx.active.expiry_timepoint]
      \/ y = [tx EXCEPT !.lender_sig = StrangersSignature(tx)]
  <2>1. y \in Cases(ClaimRejects(tx))
    BY <1>1, PathsDiffer DEF RejectCases
  <2> QED
    BY <2>1 DEF Cases, ClaimRejects
<1>4. y.op = path /\ y.active = a /\ Base(y) = a
  BY <1>1, <1>3, PathsDiffer DEF Presents, Base
<1>5. a.expiry_timepoint \in Nat /\ a.lender \in Keys
  BY ActiveFields, AgreementAssumption DEF NovaAgreementTermsV0
<1>6. CASE y = [tx EXCEPT !.now = tx.active.expiry_timepoint]
  <2>1. y.now = a.expiry_timepoint
    BY <1>1, <1>6 DEF Presents
  <2>2. ClaimAccepts(a, y.now)
    BY <1>2, <1>4, PathsDiffer DEF ActionAccepts
  <2> QED
    BY <1>5, <2>1, <2>2 DEF ClaimAccepts
<1>7. CASE y = [tx EXCEPT !.lender_sig = StrangersSignature(tx)]
  <2>1. y.lender_sig.pubkey = Stranger
    BY <1>7 DEF Presents, StrangersSignature
  <2> QED
    BY <1>2, <1>4, <1>5, <2>1, PathsDiffer, StrangerAssumption DEF Faithful
<1> QED
  BY <1>3, <1>6, <1>7

\* Two transactions that differ in their outputs and capacities alone.
SameButOutputs(x, y) ==
  /\ y.op = x.op /\ y.terms = x.terms /\ y.active = x.active
  /\ y.intent = x.intent /\ y.now = x.now
  /\ y.borrower_sig = x.borrower_sig /\ y.lender_sig = x.lender_sig
  /\ y.group_inputs = x.group_inputs /\ y.group_output = x.group_output

\* The script then decides by what it requires of the outputs.
LEMMA OutputsDecide ==
  ASSUME NEW x, NEW y, SameButOutputs(x, y),
         OutputsRequired(y) <=> OutputsRequired(x)
  PROVE  ScriptAccepts(y) <=> ScriptAccepts(x)
<1>1. Base(y) = Base(x)
  BY DEF Base, SameButOutputs
<1>2. Written(y) = Written(x)
  BY <1>1 DEF Written, SameButOutputs
<1>3. /\ IntentRequired(y) <=> IntentRequired(x)
      /\ TermsNameActive(y) <=> TermsNameActive(x)
      /\ \A sig, key : SignatureRequired(y, sig, key) <=> SignatureRequired(x, sig, key)
  BY <1>1 DEF IntentRequired, TermsNameActive, SignatureRequired, SameButOutputs
<1>4. ClosingRequires(y) <=> ClosingRequires(x)
  BY <1>1, <1>2, <1>3 DEF ClosingRequires, SameButOutputs
<1> QED
  BY <1>2, <1>3, <1>4 DEF ScriptAccepts, OriginateRequires, RepayRequires,
     ClaimRequires, SameButOutputs

\* In particular it does not look at the capacity of the agreement output.
LEMMA CapacityIgnored ==
  ASSUME NEW tx, "capacity" \in DOMAIN tx, NEW capacity, NEW y,
         y = [tx EXCEPT !.capacity = capacity]
  PROVE  /\ SameButOutputs(tx, y) /\ y.outputs = tx.outputs /\ y.capacity = capacity
         /\ ReceiptOutput(y) = ReceiptOutput(tx)
         /\ ScriptAccepts(y) <=> ScriptAccepts(tx)
<1>1. SameButOutputs(tx, y) /\ y.outputs = tx.outputs /\ y.capacity = capacity
  BY DEF SameButOutputs
<1>2. Base(y) = Base(tx) /\ ReceiptOutput(y) = ReceiptOutput(tx)
  BY <1>1 DEF SameButOutputs, Base, ReceiptOutput
<1>3. OutputsRequired(y) <=> OutputsRequired(tx)
  BY <1>1, <1>2 DEF SameButOutputs, OutputsRequired, PayoutsRequired
<1> QED
  BY <1>1, <1>2, <1>3, OutputsDecide

\* The node does: it takes what the builder puts there, and nothing less than
\* what the output occupies.
LEMMA BuildersCapacity ==
  ASSUME NEW a, NEW path, Amounts(a)
  PROVE  /\ AGREEMENT_OCCUPIED \in Nat /\ RECEIPT_OCCUPIED \in Nat
         /\ AgreementCapacity(a, path) \in Nat
         /\ AgreementCapacity(a, path) >= AGREEMENT_OCCUPIED
         /\ path = PATH_ORIGINATE =>
              AgreementCapacity(a, path) = AGREEMENT_OCCUPIED + a.collateral_amount
         /\ path # PATH_ORIGINATE => AgreementCapacity(a, path) = AGREEMENT_OCCUPIED
<1>1. a.collateral_amount \in Nat /\ AGREEMENT_OCCUPIED \in Nat /\ RECEIPT_OCCUPIED \in Nat
  BY CkbAssumption, OccupiedAssumption DEF Amounts, U64
<1> QED
  BY <1>1 DEF AgreementCapacity

\* So it is the node that refuses a transaction under capacity.
LEMMA UnderCapacityAccepted ==
  ASSUME NEW tx, NEW t, NEW a, NEW path, NEW now, Presents(tx, t, a, path, now),
         ScriptAccepts(tx)
  PROVE  ScriptAccepts(UnderCapacity(tx)) /\ ~NodeAccepts(UnderCapacity(tx))
<1>1. "capacity" \in DOMAIN tx
  BY DEF Presents
<1>2. /\ ScriptAccepts(UnderCapacity(tx))
      /\ UnderCapacity(tx).capacity = AGREEMENT_OCCUPIED - 1
  BY <1>1, CapacityIgnored DEF UnderCapacity
<1>3. AGREEMENT_OCCUPIED \in Nat
  BY OccupiedAssumption
<1> QED
  BY <1>2, <1>3 DEF NodeAccepts

\* Terms that the cells tell apart, none of them under the hash by which the
\* harness presents other terms.
TermsToldApart ==
  /\ \A t, u \in Terms : Offer(t) = Offer(u) => t = u
  /\ \A t \in Terms : t.terms_hash # "other-terms"

\* What is materialized for an accepted transition is decided as the harness
\* expects.
LEMMA MaterializedDecided ==
  ASSUME TermsToldApart, NEW t \in Terms, NEW a \in {Offer(t), Active(t)},
         NEW path \in Paths, NEW now, (path = PATH_ORIGINATE) <=> (a = Offer(t)),
         NEW tx, IsMaterialized(tx, t, a, path, now), ActionAccepts(tx)
  PROVE  HarnessDecides(tx)
<1>1. Named(t, a, path) /\ Amounts(a) /\ Parties(t) /\ Parties(a)
  <2>1. a = Offer(t) \/ a = Active(t)
    OBVIOUS
  <2>2. Amounts(a)
    <3>1. /\ t.principal_amount \in U64 /\ t.fixed_fee_amount \in U64
          /\ t.collateral_amount \in U64
      BY AgreementAssumption DEF NovaAgreementTermsV0
    <3>2. CASE a = Offer(t)
      BY <3>1, <3>2 DEF Offer, Amounts
    <3>3. CASE a = Active(t)
      BY <3>1, <3>3, ActiveFields DEF Amounts
    <3> QED
      BY <3>2, <3>3
  <2>3. Parties(t) /\ Parties(a)
    BY TermsParties, OfferParties, WrittenCarries
  <2>4. Named(t, a, path)
    <3>1. /\ Active(t).agreement_id = t.agreement_id
          /\ Active(t).terms_hash = t.terms_hash
          /\ Active(t).borrower = t.borrower /\ Active(t).lender = t.lender
          /\ Active(t).version = t.version
      BY DEF Active, Successor, Offer
    <3>2. path # PATH_ORIGINATE => a.version = AGREEMENT_VERSION
      <4>1. tx.op = path /\ (path # PATH_ORIGINATE => tx.active = a)
        BY DEF IsMaterialized, Materialize
      <4> QED
        BY <4>1 DEF ActionAccepts, RepayAccepts, ClaimAccepts
    <3> QED
      BY <3>1, <3>2 DEF Named
  <2> QED
    BY <2>2, <2>3, <2>4
<1>2. Presents(tx, t, a, path, now)
  BY <1>1, Materialized
<1>3. Built(tx)
  BY <1>1, MaterializeBuilt DEF IsMaterialized
<1>4. ScriptAccepts(tx)
  <2>1. ShowsTransition(tx)
    BY <1>1, MaterializeShows
  <2> QED
    BY <1>3, <2>1, BuiltWellFormed, ScriptDecides DEF ScriptDecidesAsAction
<1>5. tx.op = path /\ NodeAccepts(tx)
  <2>1. /\ tx.op = path /\ tx.capacity = AgreementCapacity(a, path)
        /\ tx.outputs[ReceiptOutput(tx)] = ReceiptCell(a, path, now)
    BY <1>2 DEF Presents
  <2>2. ReceiptCell(a, path, now).capacity = RECEIPT_OCCUPIED
    BY DEF ReceiptCell
  <2> QED
    BY <1>1, <1>4, <2>1, <2>2, BuildersCapacity DEF NodeAccepts
<1>6. ASSUME NEW y \in RejectCases(tx)
      PROVE  ~ScriptAccepts(y)
  <2>1. CASE path = PATH_ORIGINATE
    BY <1>2, <1>3, <2>1, OriginateRejected DEF TermsToldApart
  <2>2. CASE path = PATH_REPAY_BEFORE_EXPIRY
    <3>1. a = Active(t) /\ tx.active = a
      BY <1>2, <2>2, PathsDiffer DEF Presents
    <3>2. RepayFits(a)
      BY <1>5, <2>2, <3>1, PathsDiffer DEF ActionAccepts, RepayAccepts
    <3> QED
      BY <1>2, <1>3, <2>2, <3>1, <3>2, RepayRejected
  <2>3. CASE path = PATH_CLAIM_AFTER_EXPIRY
    <3>1. a = Active(t)
      BY <2>3, PathsDiffer
    <3> QED
      BY <1>2, <1>3, <2>3, <3>1, ClaimRejected
  <2> QED
    BY <2>1, <2>2, <2>3 DEF Paths
<1> QED
  BY <1>2, <1>4, <1>5, <1>6, UnderCapacityAccepted DEF HarnessDecides

\* A transition of the ledger is shown as what it was committed as.
LEMMA ShownAsCommitted ==
  ASSUME IInv, DocumentedShape, TermsToldApart, NEW j \in 1..Len(ledger)
  PROVE  \E t \in Terms : \E a \in {Offer(t), Active(t)}, path \in Paths, now \in Nat :
           /\ (path = PATH_ORIGINATE) <=> (a = Offer(t))
           /\ IsMaterialized(Shown(j), t, a, path, now)
           /\ ActionAccepts(Shown(j))
<1>1. PICK t \in Terms, now \in Presentable(ledger[j].epoch) :
        OriginatedBy(j, t, now) \/ RepaidBy(j, t, now) \/ ClaimedBy(j, t, now)
  BY DEF IInv, HistoryInv, Accepted
<1>2. now \in Nat /\ Offer(t) # Active(t)
  BY ActiveFields DEF Presentable, Offer, STATUS_ACTIVE, STATUS_OFFERED
<1>3. ASSUME NEW a, NEW path, Took(j, a, path, now)
      PROVE  /\ ledger[j].path = path
             /\ ledger[j].agreement = Successor(a, path)
             /\ ledger[j].receipt.timepoint = now
  BY <1>3 DEF Took, Transaction, Receipt, ReceiptFor
<1>4. ASSUME ledger[j].agreement \in {Active(t), Repaid(t), Defaulted(t)}
      PROVE  TermsOf(j) = t
  <2>1. Carries(ledger[j].agreement, t) /\ Carries(ledger[j].agreement, TermsOf(j))
    BY <1>4, WrittenCarries, TermsFound
  <2>2. Offer(t) = Offer(TermsOf(j))
    BY <2>1, CarriedOnce
  <2> QED
    BY <2>2, TermsFound DEF TermsToldApart
<1>5. CASE OriginatedBy(j, t, now)
  <2>1. /\ ledger[j].path = PATH_ORIGINATE /\ ledger[j].agreement = Active(t)
        /\ ledger[j].receipt.timepoint = now
    BY <1>3, <1>5 DEF OriginatedBy, Active
  <2>2. TermsOf(j) = t /\ BaseOf(j) = Offer(t)
    BY <1>4, <2>1 DEF BaseOf
  <2>3. IsMaterialized(Shown(j), t, Offer(t), PATH_ORIGINATE, now)
    BY <2>1, <2>2 DEF Shown, IsMaterialized
  <2>4. ActionAccepts(Shown(j))
    <3>1. /\ Shown(j).op = PATH_ORIGINATE /\ Shown(j).terms = t /\ Shown(j).now = now
      BY <2>3 DEF IsMaterialized, Materialize
    <3> QED
      BY <1>5, <3>1 DEF ActionAccepts, OriginatedBy
  <2> QED
    BY <1>2, <2>3, <2>4 DEF Paths
<1>6. ASSUME NEW path \in Closings, Took(j, Active(t), path, now), SpentActive(j, t),
             \/ path = PATH_REPAY_BEFORE_EXPIRY /\ RepayAccepts(Active(t), now)
             \/ path = PATH_CLAIM_AFTER_EXPIRY /\ ClaimAccepts(Active(t), now)
      PROVE  /\ IsMaterialized(Shown(j), t, Active(t), path, now)
             /\ ActionAccepts(Shown(j))
  <2>1. /\ ledger[j].path = path /\ ledger[j].receipt.timepoint = now
        /\ ledger[j].agreement \in {Repaid(t), Defaulted(t)}
    BY <1>3, <1>6 DEF Closings, Repaid, Defaulted
  <2>2. PICK i \in ledger[j].spent :
          ledger[i].agreement = Active(t) /\ ledger[j].spent = {i}
    BY <1>6 DEF SpentActive
  <2>3. TermsOf(j) = t /\ BaseOf(j) = Active(t)
    BY <1>4, <1>6, <2>1, <2>2, PathsDiffer DEF BaseOf, Closings
  <2>4. IsMaterialized(Shown(j), t, Active(t), path, now)
    BY <2>1, <2>3 DEF Shown, IsMaterialized
  <2>5. /\ Shown(j).op = path /\ Shown(j).active = Active(t) /\ Shown(j).now = now
    BY <1>6, <2>4, PathsDiffer DEF IsMaterialized, Materialize, Closings
  <2> QED
    BY <1>6, <2>4, <2>5 DEF ActionAccepts
<1>7. CASE RepaidBy(j, t, now)
  BY <1>2, <1>6, <1>7, PathsDiffer DEF RepaidBy, Closings, Paths
<1>8. CASE ClaimedBy(j, t, now)
  BY <1>2, <1>6, <1>8, PathsDiffer DEF ClaimedBy, Closings, Paths
<1> QED
  BY <1>1, <1>5, <1>7, <1>8

\* HarnessCasesDecided: every transition of every ledger can be shown in a form
\* that script and node accept, and of the cases the harness makes of it the
\* script rejects each, the node the one that lacks capacity.  The cells must
\* tell the terms apart: an offer does not carry the start of its terms.
THEOREM HarnessCases ==
  ASSUME DocumentedShape, TermsToldApart
  PROVE  Spec => []HarnessCasesDecided
<1>1. IInv => HarnessCasesDecided
  <2>1. SUFFICES ASSUME IInv, ledger # <<>>
                 PROVE  HarnessDecides(Shown(Len(ledger)))
    BY DEF HarnessCasesDecided
  <2>2. PICK j \in 1..Len(ledger) : j = Len(ledger)
    BY <2>1 DEF IInv, TypeInv
  <2>3. PICK t \in Terms : \E a \in {Offer(t), Active(t)}, path \in Paths, now \in Nat :
           /\ (path = PATH_ORIGINATE) <=> (a = Offer(t))
           /\ IsMaterialized(Shown(j), t, a, path, now)
           /\ ActionAccepts(Shown(j))
    BY <2>1, <2>2, ShownAsCommitted
  <2> QED
    BY <2>2, <2>3, MaterializedDecided
<1> QED
  BY <1>1, SpecInv, PTL
-----------------------------------------------------------------------------
(***************************************************************************)
(* The shape evaluator: what it makes of a case.                           *)
(***************************************************************************)

\* What the outputs of a path hold above their occupied capacity.
Worths(t, path) ==
  CASE path = PATH_ORIGINATE ->
         <<t.collateral_amount, t.principal_amount, 0>>
    [] path = PATH_REPAY_BEFORE_EXPIRY ->
         <<0, t.principal_amount + t.fixed_fee_amount, t.collateral_amount, 0>>
    [] path = PATH_CLAIM_AFTER_EXPIRY ->
         <<0, t.collateral_amount, 0>>

\* The number of outputs of a path.
Count(path) == IF path = PATH_REPAY_BEFORE_EXPIRY THEN 4 ELSE 3

\* Outputs that play the parts of a path, one each.
Parts(d, t, path) ==
  /\ DOMAIN d.outputs = 1..Count(path)
  /\ \A k \in 1..Count(path) : d.outputs[k].role = ShapeOutputs(t, path)[k].role

\* The hours of a path.
Timely(t, path, now) ==
  CASE path = PATH_ORIGINATE           -> t.start_timepoint <= now /\ now <= t.expiry_timepoint
    [] path = PATH_REPAY_BEFORE_EXPIRY -> now <= t.expiry_timepoint
    [] path = PATH_CLAIM_AFTER_EXPIRY  -> now > t.expiry_timepoint

\* The outputs of a case hold what they are worth, each in a part of its own.
LEMMA ShapeOutputFacts ==
  ASSUME NEW t \in Terms, NEW path \in Paths
  PROVE  /\ DOMAIN ShapeOutputs(t, path) = 1..Count(path)
         /\ Len(ShapeOutputs(t, path)) = Count(path)
         /\ \A k, m \in 1..Count(path) :
              ShapeOutputs(t, path)[k].role = ShapeOutputs(t, path)[m].role => k = m
         /\ \A k \in 1..Count(path) :
              /\ "capacity" \in DOMAIN ShapeOutputs(t, path)[k]
              /\ ShapeOutputs(t, path)[k].occupied \in Nat
              /\ Worths(t, path)[k] \in Nat
              /\ ShapeOutputs(t, path)[k].capacity
                   = ShapeOutputs(t, path)[k].occupied + Worths(t, path)[k]
<1>1. /\ t.collateral_amount \in Nat /\ t.principal_amount \in Nat
      /\ t.fixed_fee_amount \in Nat
      /\ SHAPE_AGREEMENT_OCCUPIED \in Nat /\ SHAPE_RECEIPT_OCCUPIED \in Nat
      /\ SHAPE_PAYOUT_OCCUPIED \in Nat
  BY AgreementAssumption, CkbAssumption, ShapeAssumption
  DEF NovaAgreementTermsV0, U64
<1>2. ASSUME NEW role, NEW occupied \in Nat, NEW worth \in Nat
      PROVE  /\ output(role, occupied, worth).role = role
             /\ "capacity" \in DOMAIN output(role, occupied, worth)
             /\ output(role, occupied, worth).occupied \in Nat
             /\ output(role, occupied, worth).capacity
                  = output(role, occupied, worth).occupied + worth
  BY DEF output
<1>3. CASE path = PATH_ORIGINATE
  <2>1. /\ ShapeOutputs(t, path)
             = <<output("agreement", SHAPE_AGREEMENT_OCCUPIED, t.collateral_amount),
                 output("borrower_principal", SHAPE_PAYOUT_OCCUPIED, t.principal_amount),
                 output("receipt", SHAPE_RECEIPT_OCCUPIED, 0)>>
        /\ Worths(t, path) = <<t.collateral_amount, t.principal_amount, 0>>
        /\ Count(path) = 3
    BY <1>3, PathsDiffer DEF ShapeOutputs, Worths, Count
  <2> QED
    BY <1>1, <1>2, <2>1
<1>4. CASE path = PATH_REPAY_BEFORE_EXPIRY
  <2>1. /\ ShapeOutputs(t, path)
             = <<output("agreement", SHAPE_AGREEMENT_OCCUPIED, 0),
                 output("lender_repayment", SHAPE_PAYOUT_OCCUPIED,
                        t.principal_amount + t.fixed_fee_amount),
                 output("borrower_collateral_return", SHAPE_PAYOUT_OCCUPIED,
                        t.collateral_amount),
                 output("receipt", SHAPE_RECEIPT_OCCUPIED, 0)>>
        /\ Worths(t, path)
             = <<0, t.principal_amount + t.fixed_fee_amount, t.collateral_amount, 0>>
        /\ Count(path) = 4
    BY <1>4, PathsDiffer DEF ShapeOutputs, Worths, Count
  <2> QED
    BY <1>1, <1>2, <2>1
<1>5. CASE path = PATH_CLAIM_AFTER_EXPIRY
  <2>1. /\ ShapeOutputs(t, path)
             = <<output("agreement", SHAPE_AGREEMENT_OCCUPIED, 0),
                 output("lender_default_claim", SHAPE_PAYOUT_OCCUPIED, t.collateral_amount),
                 output("receipt", SHAPE_RECEIPT_OCCUPIED, 0)>>
        /\ Worths(t, path) = <<0, t.collateral_amount, 0>>
        /\ Count(path) = 3
    BY <1>5, PathsDiffer DEF ShapeOutputs, Worths, Count
  <2> QED
    BY <1>1, <1>2, <2>1
<1> QED
  BY <1>3, <1>4, <1>5 DEF Paths

\* Where every output has a part of its own, the evaluator looks at the one.
LEMMA EconomicOfPart ==
  ASSUME NEW t \in Terms, NEW path \in Paths, NEW d, Parts(d, t, path),
         NEW k \in 1..Count(path), NEW worth
  PROVE  economic(d, ShapeOutputs(t, path)[k].role, worth)
           <=> d.outputs[k].capacity = d.outputs[k].occupied + worth
<1>1. \A m \in DOMAIN d.outputs :
        d.outputs[m].role = ShapeOutputs(t, path)[k].role <=> m = k
  BY ShapeOutputFacts DEF Parts
<1>2. k \in DOMAIN d.outputs /\ Count(path) \in Nat
  BY DEF Parts, Count
<1>3. \A m \in 1..(k - 1) : m \in DOMAIN d.outputs /\ m # k
  BY <1>2 DEF Parts
<1> QED
  BY <1>1, <1>2, <1>3 DEF economic

\* A case is accepted if no sum overflows, no output is below its occupied
\* capacity, the hour and the party are right and every output holds its worth.
LEMMA EvaluateDecides ==
  ASSUME NEW t \in Terms, NEW path \in Paths, NEW d, Parts(d, t, path),
         d.action = path, d.principal = t.principal_amount, d.fee = t.fixed_fee_amount
  PROVE  evaluate(d, t) <=>
           /\ NoOverflow(d)
           /\ \A k \in DOMAIN d.outputs : d.outputs[k].capacity >= d.outputs[k].occupied
           /\ Timely(t, path, d.time)
           /\ d.actor = Authority(t, path)
           /\ \A k \in 1..Count(path) :
                d.outputs[k].capacity = d.outputs[k].occupied + Worths(t, path)[k]
<1> DEFINE role(k) == ShapeOutputs(t, path)[k].role
<1>1. (\A k \in 1..Count(path) :
         d.outputs[k].capacity = d.outputs[k].occupied + Worths(t, path)[k])
      <=> \A k \in 1..Count(path) : economic(d, role(k), Worths(t, path)[k])
  BY EconomicOfPart
<1>2. CASE path = PATH_ORIGINATE
  <2>1. /\ Count(path) = 3
        /\ role(1) = "agreement" /\ role(2) = "borrower_principal" /\ role(3) = "receipt"
        /\ Worths(t, path) = <<t.collateral_amount, t.principal_amount, 0>>
    BY <1>2, PathsDiffer DEF ShapeOutputs, Worths, Count, output
  <2>2. OriginateShape(d, t) <=>
          /\ Timely(t, path, d.time)
          /\ d.actor = Authority(t, path)
          /\ economic(d, role(1), Worths(t, path)[1])
          /\ economic(d, role(2), Worths(t, path)[2])
          /\ economic(d, role(3), Worths(t, path)[3])
    BY <1>2, <2>1, PathsDiffer DEF OriginateShape, Timely, Authority
  <2> HIDE DEF role
  <2>3. (\A k \in 1..Count(path) : economic(d, role(k), Worths(t, path)[k])) <=>
          /\ economic(d, role(1), Worths(t, path)[1])
          /\ economic(d, role(2), Worths(t, path)[2])
          /\ economic(d, role(3), Worths(t, path)[3])
    BY <2>1
  <2> QED
    BY <1>1, <1>2, <2>2, <2>3, PathsDiffer
  DEF evaluate, ShapeOf, REPAY_ARITHMETIC_BOUNDARY, PATH_ORIGINATE,
      PATH_REPAY_BEFORE_EXPIRY, PATH_CLAIM_AFTER_EXPIRY
<1>3. CASE path = PATH_REPAY_BEFORE_EXPIRY
  <2>1. /\ Count(path) = 4
        /\ role(1) = "agreement" /\ role(2) = "lender_repayment"
        /\ role(3) = "borrower_collateral_return" /\ role(4) = "receipt"
        /\ Worths(t, path)
             = <<0, t.principal_amount + t.fixed_fee_amount, t.collateral_amount, 0>>
    BY <1>3, PathsDiffer DEF ShapeOutputs, Worths, Count, output
  <2>2. RepayShape(d, t) <=>
          /\ Timely(t, path, d.time)
          /\ d.actor = Authority(t, path)
          /\ economic(d, role(1), Worths(t, path)[1])
          /\ economic(d, role(2), Worths(t, path)[2])
          /\ economic(d, role(3), Worths(t, path)[3])
          /\ economic(d, role(4), Worths(t, path)[4])
    BY <1>3, <2>1, PathsDiffer DEF RepayShape, Timely, Authority
  <2> HIDE DEF role
  <2>3. (\A k \in 1..Count(path) : economic(d, role(k), Worths(t, path)[k])) <=>
          /\ economic(d, role(1), Worths(t, path)[1])
          /\ economic(d, role(2), Worths(t, path)[2])
          /\ economic(d, role(3), Worths(t, path)[3])
          /\ economic(d, role(4), Worths(t, path)[4])
    BY <2>1
  <2> QED
    BY <1>1, <1>3, <2>2, <2>3, PathsDiffer
  DEF evaluate, ShapeOf, REPAY_ARITHMETIC_BOUNDARY, PATH_ORIGINATE,
      PATH_REPAY_BEFORE_EXPIRY, PATH_CLAIM_AFTER_EXPIRY
<1>4. CASE path = PATH_CLAIM_AFTER_EXPIRY
  <2>1. /\ Count(path) = 3
        /\ role(1) = "agreement" /\ role(2) = "lender_default_claim"
        /\ role(3) = "receipt"
        /\ Worths(t, path) = <<0, t.collateral_amount, 0>>
    BY <1>4, PathsDiffer DEF ShapeOutputs, Worths, Count, output
  <2>2. ClaimShape(d, t) <=>
          /\ Timely(t, path, d.time)
          /\ d.actor = Authority(t, path)
          /\ economic(d, role(1), Worths(t, path)[1])
          /\ economic(d, role(2), Worths(t, path)[2])
          /\ economic(d, role(3), Worths(t, path)[3])
    BY <1>4, <2>1, PathsDiffer DEF ClaimShape, Timely, Authority
  <2> HIDE DEF role
  <2>3. (\A k \in 1..Count(path) : economic(d, role(k), Worths(t, path)[k])) <=>
          /\ economic(d, role(1), Worths(t, path)[1])
          /\ economic(d, role(2), Worths(t, path)[2])
          /\ economic(d, role(3), Worths(t, path)[3])
    BY <2>1
  <2> QED
    BY <1>1, <1>4, <2>2, <2>3, PathsDiffer
  DEF evaluate, ShapeOf, REPAY_ARITHMETIC_BOUNDARY, PATH_ORIGINATE,
      PATH_REPAY_BEFORE_EXPIRY, PATH_CLAIM_AFTER_EXPIRY
<1> QED
  BY <1>2, <1>3, <1>4 DEF Paths

\* The sums that a case of these terms adds up.
LEMMA CaseSums ==
  ASSUME NEW t \in Terms, NEW path, NEW now, NEW actor
  PROVE  NoOverflow(Case(t, path, now, actor)) <=>
           t.principal_amount + t.fixed_fee_amount <= U64_MAX /\ 1 <= U64_MAX
  BY DEF NoOverflow, Case

\* The evaluator's verdict on a case in full.
LEMMA CaseDecided ==
  ASSUME NEW t \in Terms, NEW path \in Paths, NEW now, NEW actor,
         NEW c, c = Case(t, path, now, actor)
  PROVE  /\ DOMAIN c.outputs = 1..Count(path)
         /\ evaluate(c, t) <=>
              NoOverflow(c) /\ Timely(t, path, now) /\ actor = Authority(t, path)
<1>1. /\ c.action = path /\ c.time = now /\ c.actor = actor
      /\ c.outputs = ShapeOutputs(t, path)
      /\ c.principal = t.principal_amount /\ c.fee = t.fixed_fee_amount
  BY DEF Case
<1>2. Parts(c, t, path)
  BY <1>1, ShapeOutputFacts DEF Parts
<1>3. \A k \in 1..Count(path) :
        /\ c.outputs[k].capacity = c.outputs[k].occupied + Worths(t, path)[k]
        /\ c.outputs[k].capacity >= c.outputs[k].occupied
  BY <1>1, ShapeOutputFacts
<1> QED
  BY <1>1, <1>2, <1>3, EvaluateDecides DEF Parts

\* A case with output k of another capacity.
Reshaped(d, c, k, capacity) == d = [c EXCEPT !.outputs[k].capacity = capacity]

\* It is refused.
LEMMA ReshapedRefused ==
  ASSUME NEW t \in Terms, NEW path \in Paths, NEW now, NEW actor,
         NEW k \in 1..Count(path), NEW c, c = Case(t, path, now, actor),
         NEW capacity, capacity # c.outputs[k].capacity,
         NEW d, Reshaped(d, c, k, capacity)
  PROVE  ~evaluate(d, t)
<1>1. /\ c.action = path /\ c.outputs = ShapeOutputs(t, path)
      /\ c.principal = t.principal_amount /\ c.fee = t.fixed_fee_amount
      /\ DOMAIN c = {"action", "time", "actor", "outputs", "principal", "fee", "nonce"}
  BY DEF Case
<1>2. Parts(c, t, path)
  BY <1>1, ShapeOutputFacts DEF Parts
<1> DEFINE outputs == [c.outputs EXCEPT ![k].capacity = capacity]
<1>3. /\ d.action = path /\ d.outputs = outputs
      /\ d.principal = t.principal_amount /\ d.fee = t.fixed_fee_amount
  BY <1>1 DEF Reshaped
<1>4. /\ DOMAIN outputs = 1..Count(path)
      /\ outputs[k] = [c.outputs[k] EXCEPT !.capacity = capacity]
      /\ \A m \in 1..Count(path) : m # k => outputs[m] = c.outputs[m]
  BY <1>2 DEF Parts
<1>5. /\ outputs[k].role = c.outputs[k].role
      /\ outputs[k].occupied = c.outputs[k].occupied
      /\ outputs[k].capacity = capacity
  BY <1>1, <1>4, ShapeOutputFacts
<1> HIDE DEF outputs
<1>6. Parts(d, t, path)
  <2>1. \A m \in 1..Count(path) : outputs[m].role = c.outputs[m].role
    BY <1>4, <1>5
  <2> QED
    BY <1>2, <1>3, <1>4, <2>1 DEF Parts
<1>7. c.outputs[k].capacity = c.outputs[k].occupied + Worths(t, path)[k]
  BY <1>1, ShapeOutputFacts
<1> SUFFICES ASSUME evaluate(d, t)
             PROVE  FALSE
  OBVIOUS
<1>8. d.outputs[k].capacity = d.outputs[k].occupied + Worths(t, path)[k]
  BY <1>3, <1>6, EvaluateDecides
<1> QED
  BY <1>3, <1>5, <1>7, <1>8

\* A case with an output short or over is refused.
LEMMA InexactRefused ==
  ASSUME NEW t \in Terms, NEW path \in Paths, NEW now, NEW actor,
         NEW k \in 1..Count(path), NEW c, c = Case(t, path, now, actor)
  PROVE  ~evaluate(Short(c, k), t) /\ ~evaluate(Long(c, k), t)
<1>1. /\ c.outputs = ShapeOutputs(t, path)
      /\ DOMAIN c = {"action", "time", "actor", "outputs", "principal", "fee", "nonce"}
  BY DEF Case
<1>2. /\ DOMAIN c.outputs = 1..Count(path)
      /\ "capacity" \in DOMAIN c.outputs[k]
      /\ c.outputs[k].capacity \in Nat
  BY <1>1, ShapeOutputFacts
<1>3. /\ Reshaped(Short(c, k), c, k, c.outputs[k].capacity - 1)
      /\ Reshaped(Long(c, k), c, k, c.outputs[k].capacity + 1)
  BY <1>1, <1>2 DEF Reshaped, Short, Long
<1>4. /\ c.outputs[k].capacity - 1 # c.outputs[k].capacity
      /\ c.outputs[k].capacity + 1 # c.outputs[k].capacity
  BY <1>2
<1> QED
  BY <1>3, <1>4, ReshapedRefused
-----------------------------------------------------------------------------
(***************************************************************************)
(* The shape evaluator: what script and node make of the same case.        *)
(***************************************************************************)

\* An agreement of terms, the offer where the path originates it.
Taken(t, a, path) ==
  /\ t.version = AGREEMENT_VERSION
  /\ a \in {Offer(t), Active(t)}
  /\ (path = PATH_ORIGINATE) <=> (a = Offer(t))

\* The transaction that a case describes.
IsActed(y, t, a, path, now, actor) == y = Acted(t, a, path, now, actor)

\* What terms and their agreement share.
LEMMA TakenFields ==
  ASSUME NEW t \in Terms, NEW path \in Paths, NEW a, Taken(t, a, path)
  PROVE  /\ Named(t, a, path) /\ Amounts(a) /\ Parties(t) /\ Parties(a)
         /\ Authority(a, path) = Authority(t, path)
         /\ Authority(a, path) \in Keys
         /\ a.nonce = 0
         /\ a.supported = t.supported /\ a.version = t.version
         /\ a.principal_amount = t.principal_amount
         /\ a.fixed_fee_amount = t.fixed_fee_amount
         /\ a.collateral_amount = t.collateral_amount
         /\ a.expiry_timepoint = t.expiry_timepoint
         /\ path = PATH_ORIGINATE => a = Offer(t)
         /\ path # PATH_ORIGINATE => a.status = STATUS_ACTIVE
<1>1. /\ a = Offer(t) \/ a = Active(t)
      /\ path = PATH_ORIGINATE => a = Offer(t)
      /\ path # PATH_ORIGINATE => a = Active(t)
  BY DEF Taken
<1>2. /\ a.agreement_id = t.agreement_id /\ a.terms_hash = t.terms_hash
      /\ a.borrower = t.borrower /\ a.lender = t.lender
      /\ a.supported = t.supported /\ a.nonce = 0 /\ a.version = t.version
      /\ a.principal_amount = t.principal_amount
      /\ a.fixed_fee_amount = t.fixed_fee_amount
      /\ a.collateral_amount = t.collateral_amount
      /\ a.expiry_timepoint = t.expiry_timepoint
  <2>1. CASE a = Offer(t)
    BY <2>1 DEF Offer
  <2>2. CASE a = Active(t)
    <3>1. /\ Active(t).agreement_id = t.agreement_id
          /\ Active(t).terms_hash = t.terms_hash
          /\ Active(t).supported = t.supported
          /\ Active(t).version = t.version
      BY DEF Active, Successor, Offer
    <3> QED
      BY <2>2, <3>1, ActiveFields
  <2> QED
    BY <1>1, <2>1, <2>2
<1>3. /\ t.principal_amount \in U64 /\ t.fixed_fee_amount \in U64
      /\ t.collateral_amount \in U64 /\ t.borrower \in Keys /\ t.lender \in Keys
  BY AgreementAssumption DEF NovaAgreementTermsV0
<1>4. Amounts(a)
  BY <1>2, <1>3 DEF Amounts
<1>5. Parties(t) /\ Parties(a)
  BY <1>1, TermsParties, OfferParties, WrittenCarries
<1>6. Named(t, a, path)
  BY <1>1, <1>2 DEF Named, Taken
<1>7. /\ Authority(a, path) = Authority(t, path)
      /\ Authority(a, path) \in Keys
  BY <1>2, <1>3 DEF Authority
<1>8. path # PATH_ORIGINATE => a.status = STATUS_ACTIVE
  BY <1>1, ActiveFields
<1> QED
  BY <1>1, <1>2, <1>4, <1>5, <1>6, <1>7, <1>8

\* The fields of a case's transaction: what is materialized, but one signature.
LEMMA ActedFields ==
  ASSUME NEW t \in Terms, NEW path \in Paths, NEW a, Taken(t, a, path),
         NEW now, NEW actor, NEW y, IsActed(y, t, a, path, now, actor),
         NEW tx, IsMaterialized(tx, t, a, path, now)
  PROVE  /\ Presents(tx, t, a, path, now) /\ Built(tx) /\ ShowsTransition(tx)
         /\ DOMAIN y = DOMAIN tx
         /\ y.op = tx.op /\ y.terms = tx.terms /\ y.active = tx.active
         /\ y.intent = tx.intent /\ y.now = tx.now
         /\ y.group_inputs = tx.group_inputs /\ y.group_output = tx.group_output
         /\ y.outputs = tx.outputs /\ y.capacity = tx.capacity
         /\ path = PATH_CLAIM_AFTER_EXPIRY =>
              y.lender_sig = SignatureBy(actor, a, path)
         /\ path # PATH_CLAIM_AFTER_EXPIRY =>
              /\ y.borrower_sig = SignatureBy(actor, a, path)
              /\ y.lender_sig = tx.lender_sig
<1>1. Presents(tx, t, a, path, now)
  BY TakenFields, Materialized
<1>2. Built(tx) /\ ShowsTransition(tx)
  BY TakenFields, MaterializeBuilt, MaterializeShows DEF IsMaterialized
<1>3. y = IF path = PATH_CLAIM_AFTER_EXPIRY
          THEN [tx EXCEPT !.lender_sig = SignatureBy(actor, a, path)]
          ELSE [tx EXCEPT !.borrower_sig = SignatureBy(actor, a, path)]
  BY DEF IsActed, Acted, IsMaterialized
<1> QED
  BY <1>1, <1>2, <1>3 DEF Presents

\* It shows its transition if the party the path asks for is acting.
LEMMA ActedShows ==
  ASSUME NEW t \in Terms, NEW path \in Paths, NEW a, Taken(t, a, path),
         NEW now, NEW actor, NEW y, IsActed(y, t, a, path, now, actor)
  PROVE  /\ Built(y) /\ Base(y) = a /\ y.capacity = AgreementCapacity(a, path)
         /\ y.op = path /\ y.terms = t /\ y.now = now
         /\ path # PATH_ORIGINATE => y.active = a
         /\ DOMAIN y.outputs = 1..Last(a, path)
         /\ \A k \in DOMAIN Payouts(a, path) : y.outputs[k] = ExactPayouts(a, path)[k]
         /\ y.outputs[Last(a, path)] = ReceiptCell(a, path, now)
         /\ ReceiptOutput(y) = Last(a, path)
         /\ DOMAIN y = {"op", "terms", "active", "intent", "borrower_sig", "lender_sig",
                        "now", "group_inputs", "group_output", "capacity", "outputs"}
         /\ ShowsTransition(y) <=> actor = Authority(a, path)
<1>1. PICK tx : IsMaterialized(tx, t, a, path, now)
  BY DEF IsMaterialized
<1>2. /\ Presents(tx, t, a, path, now) /\ Built(tx) /\ ShowsTransition(tx)
      /\ DOMAIN y = DOMAIN tx
      /\ y.op = tx.op /\ y.terms = tx.terms /\ y.active = tx.active
      /\ y.intent = tx.intent /\ y.now = tx.now
      /\ y.group_inputs = tx.group_inputs /\ y.group_output = tx.group_output
      /\ y.outputs = tx.outputs /\ y.capacity = tx.capacity
      /\ path = PATH_CLAIM_AFTER_EXPIRY => y.lender_sig = SignatureBy(actor, a, path)
      /\ path # PATH_CLAIM_AFTER_EXPIRY =>
           /\ y.borrower_sig = SignatureBy(actor, a, path)
           /\ y.lender_sig = tx.lender_sig
  BY <1>1, ActedFields
<1>3. /\ tx.op = path /\ tx.terms = t /\ tx.now = now /\ Base(tx) = a
      /\ path # PATH_ORIGINATE => tx.active = a
      /\ tx.borrower_sig = SignatureBy(a.borrower, a, path)
      /\ tx.lender_sig = SignatureBy(a.lender, a, path)
      /\ tx.capacity = AgreementCapacity(a, path)
      /\ DOMAIN tx.outputs = 1..Last(a, path)
      /\ \A k \in DOMAIN Payouts(a, path) : tx.outputs[k] = ExactPayouts(a, path)[k]
      /\ tx.outputs[Last(a, path)] = ReceiptCell(a, path, now)
      /\ ReceiptOutput(tx) = Last(a, path)
      /\ DOMAIN tx = {"op", "terms", "active", "intent", "borrower_sig", "lender_sig",
                      "now", "group_inputs", "group_output", "capacity", "outputs"}
  BY <1>2 DEF Presents
<1>4. Base(y) = Base(tx)
  BY <1>2 DEF Base
<1>5. Built(y)
  BY <1>2, BuiltElsewhere
<1>6. /\ PayoutsRequired(y) <=> PayoutsRequired(tx)
      /\ ReceiptOutput(y) = ReceiptOutput(tx)
      /\ TermsNameActive(y) <=> TermsNameActive(tx)
  BY <1>2, <1>4 DEF PayoutsRequired, ReceiptOutput, TermsNameActive
<1> DEFINE made == Materialize(t, a, path, now, ExactPayouts(a, path))
<1>7. ShowsTransition(y) <=>
        /\ y.op # PATH_CLAIM_AFTER_EXPIRY => SameSignature(y.borrower_sig, made.borrower_sig)
        /\ y.op # PATH_REPAY_BEFORE_EXPIRY => SameSignature(y.lender_sig, made.lender_sig)
  BY <1>2, <1>3, <1>4, <1>6 DEF ShowsTransition
<1>8. made.borrower_sig = tx.borrower_sig /\ made.lender_sig = tx.lender_sig
  BY <1>1 DEF IsMaterialized
<1> HIDE DEF made
<1>9. \A key \in {a.borrower, a.lender} :
        SameSignature(SignatureBy(actor, a, path), SignatureBy(key, a, path))
          <=> actor = key
  BY DEF SameSignature, SignatureBy
<1>10. SameSignature(tx.lender_sig, tx.lender_sig)
  BY DEF SameSignature
<1>11. ShowsTransition(y) <=> actor = Authority(a, path)
  BY <1>2, <1>3, <1>7, <1>8, <1>9, <1>10, PathsDiffer DEF Authority
<1> QED
  BY <1>2, <1>3, <1>4, <1>5, <1>6, <1>11

\* What is left to decide once agreement and signatures are at hand.
Ready(t, a, path) ==
  /\ t.supported /\ t.collateral_amount > 0
  /\ path = PATH_ORIGINATE => Judged(t) /\ SignedBy(t.lender, a, path)

\* On terms whose sums fit, the script's overflow guards come down to those on
\* the payout outputs.
LEMMA GuardsLeft ==
  ASSUME NEW t \in Terms, NEW path \in Paths, NEW a, Taken(t, a, path),
         t.principal_amount + t.fixed_fee_amount <= U64_MAX, 1 <= U64_MAX
  PROVE  /\ path = PATH_ORIGINATE =>
              (PayoutsFit(a, path) <=> t.principal_amount <= U64_MAX - PAYOUT_OCCUPIED)
         /\ path = PATH_REPAY_BEFORE_EXPIRY => (PayoutsFit(a, path) <=> RepayFits(a))
         /\ path = PATH_CLAIM_AFTER_EXPIRY => (PayoutsFit(a, path) <=> ClaimFits(a))
<1>1. /\ PAYOUT_OCCUPIED \in Nat /\ U64_MAX \in Nat
      /\ t.principal_amount \in Nat /\ t.fixed_fee_amount \in Nat
      /\ t.collateral_amount \in Nat
  BY AgreementAssumption, CkbAssumption DEF NovaAgreementTermsV0, U64
<1>2. /\ a.nonce = 0
      /\ a.principal_amount = t.principal_amount
      /\ a.fixed_fee_amount = t.fixed_fee_amount
      /\ a.collateral_amount = t.collateral_amount
  BY TakenFields
<1>3. /\ PrincipalPayout(a).amount = a.principal_amount
      /\ LenderRepayment(a).amount = RepaymentAmount(a)
      /\ CollateralReturn(a).amount = a.collateral_amount
      /\ DefaultClaim(a).amount = a.collateral_amount
  BY DEF PrincipalPayout, LenderRepayment, CollateralReturn, DefaultClaim,
     NativeCkbPayout
<1>4. RepaymentAmount(a) \in Nat
  BY <1>1, <1>2 DEF RepaymentAmount, Add64
<1>5. CASE path = PATH_ORIGINATE
  <2>1. Payouts(a, path) = <<PrincipalPayout(a)>>
    BY <1>5, PayoutCount
  <2>2. PayoutsFit(a, path) <=> PAYOUT_OCCUPIED + PrincipalPayout(a).amount <= U64_MAX
    BY <2>1 DEF PayoutsFit
  <2> QED
    BY <1>1, <1>2, <1>3, <1>5, <2>2, PathsDiffer
<1>6. CASE path = PATH_REPAY_BEFORE_EXPIRY
  <2>1. Payouts(a, path) = <<LenderRepayment(a), CollateralReturn(a)>>
    BY <1>6, PayoutCount
  <2>2. PayoutsFit(a, path) <=>
          /\ PAYOUT_OCCUPIED + LenderRepayment(a).amount <= U64_MAX
          /\ PAYOUT_OCCUPIED + CollateralReturn(a).amount <= U64_MAX
    BY <2>1 DEF PayoutsFit
  <2>3. PayoutsFit(a, path) <=> RepayFits(a)
    BY <1>1, <1>2, <1>3, <1>4, <2>2 DEF RepayFits
  <2> QED
    BY <1>6, <2>3, PathsDiffer
<1>7. CASE path = PATH_CLAIM_AFTER_EXPIRY
  <2>1. Payouts(a, path) = <<DefaultClaim(a)>>
    BY <1>7, PayoutCount
  <2>2. PayoutsFit(a, path) <=> PAYOUT_OCCUPIED + DefaultClaim(a).amount <= U64_MAX
    BY <2>1 DEF PayoutsFit
  <2>3. PayoutsFit(a, path) <=> ClaimFits(a)
    BY <1>1, <1>2, <1>3, <2>2 DEF ClaimFits
  <2> QED
    BY <1>7, <2>3, PathsDiffer
<1> QED
  BY <1>5, <1>6, <1>7 DEF Paths

\* Of a transaction with outputs in full the node asks no more than the script.
LEMMA NodeAddsNothing ==
  ASSUME NEW t \in Terms, NEW path \in Paths, NEW a, Taken(t, a, path),
         NEW now, NEW actor, NEW y, IsActed(y, t, a, path, now, actor)
  PROVE  NodeAccepts(y) <=> ScriptAccepts(y)
<1>1. /\ y.capacity = AgreementCapacity(a, path)
      /\ y.outputs[ReceiptOutput(y)] = ReceiptCell(a, path, now)
  BY ActedShows
<1>2. Amounts(a)
  BY TakenFields
<1>3. ReceiptCell(a, path, now).capacity = RECEIPT_OCCUPIED
  BY DEF ReceiptCell
<1> QED
  BY <1>1, <1>2, <1>3, BuildersCapacity DEF NodeAccepts

\* The chain decides by the hour, the party and the payouts.
LEMMA ActedDecided ==
  ASSUME NEW t \in Terms, NEW path \in Paths, NEW a, Taken(t, a, path), Ready(t, a, path),
         t.principal_amount + t.fixed_fee_amount <= U64_MAX, 1 <= U64_MAX,
         NEW now, NEW actor \in ActorsOf(a, path),
         NEW y, IsActed(y, t, a, path, now, actor)
  PROVE  NodeAccepts(y) <=>
           PayoutsFit(a, path) /\ Timely(t, path, now) /\ actor = Authority(t, path)
<1>1. /\ Built(y)
      /\ y.op = path /\ y.terms = t /\ y.now = now
      /\ path # PATH_ORIGINATE => y.active = a
      /\ ShowsTransition(y) <=> actor = Authority(a, path)
  BY ActedShows
<1>2. NodeAccepts(y) <=> ActionAccepts(y) /\ actor = Authority(a, path)
  BY <1>1, BuiltWellFormed, ScriptDecides, NodeAddsNothing DEF ScriptDecidesAsAction
<1>3. Authority(a, path) = Authority(t, path)
  BY TakenFields
<1>4. ASSUME actor = Authority(a, path)
      PROVE  ActionAccepts(y) <=> PayoutsFit(a, path) /\ Timely(t, path, now)
  <2>1. SignedBy(actor, a, path)
    BY <1>4, TakenFields, StrangerAssumption DEF ActorsOf
  <2>2. CASE path = PATH_ORIGINATE
    <3>1. /\ a = Offer(t) /\ actor = t.borrower
          /\ ActionAccepts(y) <=> OriginateAccepts(t, now)
      BY <1>1, <1>3, <1>4, <2>2, TakenFields, PathsDiffer DEF ActionAccepts, Authority
    <3>2. Judged(t) /\ SignedBy(t.lender, a, path)
      BY <2>2 DEF Ready
    <3>3. PayoutsFit(a, path) <=> t.principal_amount <= U64_MAX - PAYOUT_OCCUPIED
      BY <2>2, GuardsLeft
    <3> QED
      BY <2>1, <2>2, <3>1, <3>2, <3>3, PathsDiffer
      DEF OriginateAccepts, TermsAccepted, Judged, Timely
  <2>3. CASE path = PATH_REPAY_BEFORE_EXPIRY
    <3>1. /\ a.supported /\ a.version = AGREEMENT_VERSION /\ a.status = STATUS_ACTIVE
          /\ a.expiry_timepoint = t.expiry_timepoint
          /\ PayoutsFit(a, path) <=> RepayFits(a)
      BY <2>3, TakenFields, GuardsLeft, PathsDiffer DEF Ready, Taken
    <3>2. actor = a.borrower /\ (ActionAccepts(y) <=> RepayAccepts(a, now))
      BY <1>1, <1>4, <2>3, PathsDiffer DEF ActionAccepts, Authority
    <3> QED
      BY <2>1, <2>3, <3>1, <3>2, PathsDiffer DEF RepayAccepts, Timely
  <2>4. CASE path = PATH_CLAIM_AFTER_EXPIRY
    <3>1. /\ a.supported /\ a.version = AGREEMENT_VERSION /\ a.status = STATUS_ACTIVE
          /\ a.expiry_timepoint = t.expiry_timepoint
          /\ PayoutsFit(a, path) <=> ClaimFits(a)
      BY <2>4, TakenFields, GuardsLeft, PathsDiffer DEF Ready, Taken
    <3>2. actor = a.lender /\ (ActionAccepts(y) <=> ClaimAccepts(a, now))
      BY <1>1, <1>4, <2>4, PathsDiffer DEF ActionAccepts, Authority
    <3> QED
      BY <2>1, <2>4, <3>1, <3>2, PathsDiffer DEF ClaimAccepts, Timely
  <2> QED
    BY <2>2, <2>3, <2>4 DEF Paths
<1> QED
  BY <1>2, <1>3, <1>4

\* A transaction with output m of another capacity.
Resized(z, y, m, capacity) == z = [y EXCEPT !.outputs[m].capacity = capacity]

\* Of an accepted transaction, the script looks at that capacity in a payout,
\* the node in the receipt.
LEMMA ResizedDecided ==
  ASSUME NEW t \in Terms, NEW path \in Paths, NEW a, Taken(t, a, path),
         NEW now, NEW actor, NEW y, IsActed(y, t, a, path, now, actor), NodeAccepts(y),
         NEW m \in 1..Last(a, path), NEW capacity,
         NEW z, Resized(z, y, m, capacity)
  PROVE  NodeAccepts(z) <=>
           /\ m = Last(a, path) => capacity >= RECEIPT_OCCUPIED
           /\ m # Last(a, path) =>
                capacity >= Add64(PAYOUT_OCCUPIED, Payouts(a, path)[m].amount)
<1>1. /\ Base(y) = a /\ y.op = path
      /\ DOMAIN y.outputs = 1..Last(a, path)
      /\ \A k \in DOMAIN Payouts(a, path) : y.outputs[k] = ExactPayouts(a, path)[k]
      /\ y.outputs[Last(a, path)] = ReceiptCell(a, path, now)
      /\ ReceiptOutput(y) = Last(a, path)
      /\ DOMAIN y = {"op", "terms", "active", "intent", "borrower_sig", "lender_sig",
                     "now", "group_inputs", "group_output", "capacity", "outputs"}
  BY ActedShows
<1>2. /\ Len(Payouts(a, path)) \in Nat
      /\ DOMAIN Payouts(a, path) = 1..Len(Payouts(a, path))
  BY PayoutCount
<1>3. /\ \A k \in 1..Last(a, path) : k # Last(a, path) => k \in DOMAIN Payouts(a, path)
      /\ \A k \in DOMAIN Payouts(a, path) : k \in 1..Last(a, path) /\ k # Last(a, path)
      /\ Last(a, path) \in 1..Last(a, path)
  BY <1>2 DEF Last
<1>4. \A k \in DOMAIN Payouts(a, path) :
        /\ {"data", "capacity", "lock_args"} \subseteq DOMAIN y.outputs[k]
        /\ y.outputs[k].data = Payouts(a, path)[k]
        /\ y.outputs[k].capacity = Add64(PAYOUT_OCCUPIED, Payouts(a, path)[k].amount)
        /\ y.outputs[k].lock_args = Payouts(a, path)[k].recipient
        /\ Add64(PAYOUT_OCCUPIED, Payouts(a, path)[k].amount) \in Nat
  <2>1. SUFFICES ASSUME NEW k \in DOMAIN Payouts(a, path)
                 PROVE  /\ {"data", "capacity", "lock_args"} \subseteq DOMAIN y.outputs[k]
                        /\ y.outputs[k].data = Payouts(a, path)[k]
                        /\ y.outputs[k].capacity
                             = Add64(PAYOUT_OCCUPIED, Payouts(a, path)[k].amount)
                        /\ y.outputs[k].lock_args = Payouts(a, path)[k].recipient
                        /\ Add64(PAYOUT_OCCUPIED, Payouts(a, path)[k].amount) \in Nat
    OBVIOUS
  <2>2. y.outputs[k] = [data |-> Payouts(a, path)[k],
             capacity |-> Add64(PAYOUT_OCCUPIED, Payouts(a, path)[k].amount),
             lock_args |-> Payouts(a, path)[k].recipient]
    BY <1>1 DEF ExactPayouts
  <2>3. Add64(PAYOUT_OCCUPIED, Payouts(a, path)[k].amount) \in Nat
    BY TakenFields, CapacityNatural
  <2> QED
    BY <2>2, <2>3
<1>5. /\ SameButOutputs(y, z) /\ z.capacity = y.capacity
      /\ z.outputs = [y.outputs EXCEPT ![m].capacity = capacity]
  BY <1>1 DEF Resized, SameButOutputs
<1>6. "data" \in DOMAIN y.outputs[m] /\ "capacity" \in DOMAIN y.outputs[m]
  <2>1. CASE m = Last(a, path)
    BY <1>1, <2>1 DEF ReceiptCell
  <2>2. CASE m # Last(a, path)
    BY <1>3, <1>4, <2>2
  <2> QED
    BY <2>1, <2>2
<1>7. /\ DOMAIN z.outputs = 1..Last(a, path)
      /\ z.outputs[m] = [y.outputs[m] EXCEPT !.capacity = capacity]
      /\ \A k \in 1..Last(a, path) : k # m => z.outputs[k] = y.outputs[k]
  BY <1>1, <1>5
<1>8. /\ z.outputs[m].capacity = capacity /\ z.outputs[m].data = y.outputs[m].data
      /\ z.outputs[m].lock_args = y.outputs[m].lock_args
  BY <1>6, <1>7
<1>9. Base(z) = a /\ z.op = path /\ ReceiptOutput(z) = Last(a, path)
  BY <1>1, <1>5 DEF SameButOutputs, Base, ReceiptOutput
<1>10. OutputsRequired(y)
  BY <1>1, PathsDiffer DEF NodeAccepts, ScriptAccepts, OriginateRequires, RepayRequires,
     ClaimRequires, ClosingRequires
<1>11. /\ z.outputs[Last(a, path)].data = ReceiptFor(Base(z), z.op, z.intent, z.now)
       /\ ReceiptOutput(z) \in DOMAIN z.outputs
  BY <1>1, <1>3, <1>5, <1>7, <1>8, <1>9, <1>10 DEF OutputsRequired, SameButOutputs
<1>12. ASSUME NEW k \in DOMAIN Payouts(a, path)
       PROVE  PayoutOutputAccepts(z.outputs[k], Payouts(a, path)[k]) <=>
                (k = m => capacity >= Add64(PAYOUT_OCCUPIED, Payouts(a, path)[m].amount))
  <2>1. CASE k = m
    BY <1>4, <1>8, <2>1 DEF PayoutOutputAccepts
  <2>2. CASE k # m
    BY <1>3, <1>4, <1>7, <2>2 DEF PayoutOutputAccepts
  <2> QED
    BY <2>1, <2>2
<1>13. PayoutsRequired(z) <=>
         (m # Last(a, path) =>
            capacity >= Add64(PAYOUT_OCCUPIED, Payouts(a, path)[m].amount))
  BY <1>3, <1>7, <1>9, <1>12 DEF PayoutsRequired
<1>14. ScriptAccepts(z) <=>
         (m # Last(a, path) =>
            capacity >= Add64(PAYOUT_OCCUPIED, Payouts(a, path)[m].amount))
  <2>1. OutputsRequired(z) <=> PayoutsRequired(z)
    BY <1>9, <1>11 DEF OutputsRequired
  <2>2. ScriptAccepts(y)
    BY DEF NodeAccepts
  <2>3. ASSUME PayoutsRequired(z)
        PROVE  ScriptAccepts(z)
    BY <1>5, <1>10, <2>1, <2>2, <2>3, OutputsDecide
  <2>4. ASSUME ScriptAccepts(z)
        PROVE  PayoutsRequired(z)
    BY <1>9, <2>4, PathsDiffer DEF ScriptAccepts, OriginateRequires, RepayRequires,
       ClaimRequires, ClosingRequires, OutputsRequired
  <2> QED
    BY <1>13, <2>3, <2>4
<1>15. z.capacity >= AGREEMENT_OCCUPIED
  BY <1>5 DEF NodeAccepts
<1>16. z.outputs[ReceiptOutput(z)].capacity >= RECEIPT_OCCUPIED <=>
         (m = Last(a, path) => capacity >= RECEIPT_OCCUPIED)
  BY <1>1, <1>3, <1>7, <1>8, <1>9 DEF NodeAccepts
<1> QED
  BY <1>14, <1>15, <1>16 DEF NodeAccepts

\* The capacity of the agreement output is the node's alone to look at.
LEMMA AgreementResized ==
  ASSUME NEW t \in Terms, NEW path \in Paths, NEW a, Taken(t, a, path),
         t.collateral_amount > 0,
         NEW now, NEW actor, NEW y, IsActed(y, t, a, path, now, actor), NodeAccepts(y)
  PROVE  /\ NodeAccepts(ShortTransaction(y, 1)) <=> path = PATH_ORIGINATE
         /\ NodeAccepts(LongTransaction(y, 1))
<1>1. /\ "capacity" \in DOMAIN y /\ y.capacity = AgreementCapacity(a, path)
  BY ActedShows
<1>2. /\ a.collateral_amount \in Nat /\ a.collateral_amount > 0 /\ Amounts(a)
  BY TakenFields DEF Amounts, U64
<1>3. ASSUME NEW capacity
      PROVE  NodeAccepts([y EXCEPT !.capacity = capacity])
               <=> capacity >= AGREEMENT_OCCUPIED
  <2>1. PICK z : z = [y EXCEPT !.capacity = capacity]
    OBVIOUS
  <2>2. /\ z.outputs = y.outputs /\ z.capacity = capacity
        /\ ReceiptOutput(z) = ReceiptOutput(y)
        /\ ScriptAccepts(z) <=> ScriptAccepts(y)
    BY <1>1, <2>1, CapacityIgnored
  <2>3. NodeAccepts(z) <=> capacity >= AGREEMENT_OCCUPIED
    BY <2>2 DEF NodeAccepts
  <2> QED
    BY <2>1, <2>3
<1>4. /\ ShortTransaction(y, 1) = [y EXCEPT !.capacity = AgreementCapacity(a, path) - 1]
      /\ LongTransaction(y, 1) = [y EXCEPT !.capacity = AgreementCapacity(a, path) + 1]
  BY <1>1 DEF ShortTransaction, LongTransaction
<1>5. /\ AgreementCapacity(a, path) - 1 >= AGREEMENT_OCCUPIED <=> path = PATH_ORIGINATE
      /\ AgreementCapacity(a, path) + 1 >= AGREEMENT_OCCUPIED
  BY <1>2, BuildersCapacity
<1> QED
  BY <1>3, <1>4, <1>5

\* The outputs of a case and those of its transaction.
LEMMA OutputsPaired ==
  ASSUME NEW a, NEW path \in Paths, NEW k \in 1..Count(path), k # 1
  PROVE  k - 1 \in 1..Last(a, path)
<1>1. Count(path) = Last(a, path) + 1
  <2>1. CASE path = PATH_REPAY_BEFORE_EXPIRY
    <3>1. Payouts(a, path) = <<LenderRepayment(a), CollateralReturn(a)>>
      BY <2>1, PayoutCount
    <3> QED
      BY <2>1, <3>1 DEF Count, Last
  <2>2. CASE path # PATH_REPAY_BEFORE_EXPIRY
    <3>1. PICK payout : Payouts(a, path) = <<payout>>
      BY <2>2, PayoutCount DEF Paths
    <3> QED
      BY <2>2, <3>1 DEF Count, Last
  <2> QED
    BY <2>1, <2>2
<1>2. Count(path) \in Nat
  BY DEF Count
<1> QED
  BY <1>1, <1>2, PayoutCount DEF Last

\* With a payout or the receipt one short, script or node refuses; with one
\* over, neither.
LEMMA OthersResized ==
  ASSUME NEW t \in Terms, NEW path \in Paths, NEW a, Taken(t, a, path),
         NEW now, NEW actor, NEW y, IsActed(y, t, a, path, now, actor), NodeAccepts(y),
         NEW k \in 1..Count(path), k # 1
  PROVE  /\ ~NodeAccepts(ShortTransaction(y, k))
         /\ NodeAccepts(LongTransaction(y, k))
<1>1. PICK m \in 1..Last(a, path) : m = k - 1
  BY OutputsPaired
<1>2. /\ m # Last(a, path) =>
           /\ Add64(PAYOUT_OCCUPIED, Payouts(a, path)[m].amount) \in Nat
           /\ "capacity" \in DOMAIN y.outputs[m]
           /\ y.outputs[m].capacity
                = Add64(PAYOUT_OCCUPIED, Payouts(a, path)[m].amount)
      /\ m = Last(a, path) =>
           /\ RECEIPT_OCCUPIED \in Nat
           /\ "capacity" \in DOMAIN y.outputs[m]
           /\ y.outputs[m].capacity = RECEIPT_OCCUPIED
  <2>1. CASE m # Last(a, path)
    <3>1. m \in DOMAIN Payouts(a, path)
      BY <2>1, PayoutCount DEF Last
    <3>2. y.outputs[m] = ExactPayouts(a, path)[m]
      BY <3>1, ActedShows
    <3> QED
      BY <2>1, <3>1, <3>2, TakenFields, CapacityNatural DEF ExactPayouts
  <2>2. CASE m = Last(a, path)
    <3>1. y.outputs[m] = ReceiptCell(a, path, now) /\ RECEIPT_OCCUPIED \in Nat
      BY <2>2, ActedShows, OccupiedAssumption
    <3> QED
      BY <2>2, <3>1 DEF ReceiptCell
  <2> QED
    BY <2>1, <2>2
<1>3. /\ Resized(ShortTransaction(y, k), y, m, y.outputs[m].capacity - 1)
      /\ Resized(LongTransaction(y, k), y, m, y.outputs[m].capacity + 1)
  <2>1. "outputs" \in DOMAIN y /\ DOMAIN y.outputs = 1..Last(a, path)
    BY ActedShows
  <2> QED
    BY <1>1, <2>1 DEF Resized, ShortTransaction, LongTransaction
<1> QED
  BY <1>2, <1>3, ResizedDecided

\* How the two verdicts compare, wherever a step can be taken.
LEMMA VerdictsKnown ==
  ASSUME NEW t \in Terms, NEW path \in Paths, NEW a, Taken(t, a, path), Ready(t, a, path),
         NEW now, NEW actor \in ActorsOf(a, path)
  PROVE  VerdictsCompare(t, a, path, now, actor)
<1>1. PICK c : c = Case(t, path, now, actor)
  OBVIOUS
<1>2. PICK y : IsActed(y, t, a, path, now, actor)
  BY DEF IsActed
<1>3. /\ DOMAIN c.outputs = 1..Count(path)
      /\ evaluate(c, t) <=>
           NoOverflow(c) /\ Timely(t, path, now) /\ actor = Authority(t, path)
      /\ NoOverflow(c) <=>
           t.principal_amount + t.fixed_fee_amount <= U64_MAX /\ 1 <= U64_MAX
  BY <1>1, CaseDecided, CaseSums
<1>4. FullVerdicts(c, t, y, PayoutsFit(a, path))
  <2>1. CASE NoOverflow(c)
    <3>1. NodeAccepts(y) <=>
            PayoutsFit(a, path) /\ Timely(t, path, now) /\ actor = Authority(t, path)
      BY <1>2, <1>3, <2>1, ActedDecided
    <3> QED
      BY <1>3, <2>1, <3>1 DEF FullVerdicts
  <2>2. CASE ~NoOverflow(c)
    BY <1>3, <2>2 DEF FullVerdicts
  <2> QED
    BY <2>1, <2>2
<1>5. ASSUME evaluate(c, t) /\ PayoutsFit(a, path)
      PROVE  ShortVerdicts(c, t, y) /\ LongVerdicts(c, t, y)
  <2>1. NodeAccepts(y) /\ y.op = path
    BY <1>2, <1>4, <1>5, ActedShows DEF FullVerdicts
  <2>2. ASSUME NEW k \in 1..Count(path)
        PROVE  /\ ~evaluate(Short(c, k), t) /\ ~evaluate(Long(c, k), t)
               /\ NodeAccepts(ShortTransaction(y, k)) <=> path = PATH_ORIGINATE /\ k = 1
               /\ NodeAccepts(LongTransaction(y, k))
    <3>1. ~evaluate(Short(c, k), t) /\ ~evaluate(Long(c, k), t)
      BY <1>1, InexactRefused
    <3>2. CASE k = 1
      BY <1>2, <2>1, <3>1, <3>2, AgreementResized DEF Ready
    <3>3. CASE k # 1
      BY <1>2, <2>1, <3>1, <3>3, OthersResized
    <3> QED
      BY <3>2, <3>3
  <2> QED
    BY <1>3, <2>1, <2>2 DEF ShortVerdicts, LongVerdicts
<1> QED
  BY <1>1, <1>2, <1>4, <1>5 DEF VerdictsCompare, IsActed

\* And on the sums of a repayment.
LEMMA BoundaryKnown ==
  ASSUME NEW t \in Terms
  PROVE  BoundaryVerdicts(t)
<1>1. SUFFICES ASSUME NEW principal \in U64, NEW fee \in U64, NEW nonce \in U64, NEW a,
                      a = [Offer(t) EXCEPT !.principal_amount = principal,
                                           !.fixed_fee_amount = fee, !.nonce = nonce]
               PROVE  evaluate(BoundaryCase(t, principal, fee, nonce), t)
                        /\ PayoutsFit(a, PATH_REPAY_BEFORE_EXPIRY) <=> RepayFits(a)
  BY DEF BoundaryVerdicts
<1>2. /\ a.principal_amount = principal /\ a.fixed_fee_amount = fee /\ a.nonce = nonce
      /\ a.collateral_amount = t.collateral_amount
  BY <1>1 DEF Offer
<1>3. /\ PAYOUT_OCCUPIED \in Nat /\ U64_MAX \in Nat /\ t.collateral_amount \in Nat
      /\ principal \in Nat /\ fee \in Nat /\ nonce \in Nat
  BY AgreementAssumption, CkbAssumption DEF NovaAgreementTermsV0, U64
<1>4. evaluate(BoundaryCase(t, principal, fee, nonce), t) <=>
        principal + fee <= U64_MAX /\ nonce + 1 <= U64_MAX
  BY DEF evaluate, NoOverflow, BoundaryCase
<1>5. PayoutsFit(a, PATH_REPAY_BEFORE_EXPIRY) <=>
        /\ PAYOUT_OCCUPIED + RepaymentAmount(a) <= U64_MAX
        /\ PAYOUT_OCCUPIED + a.collateral_amount <= U64_MAX
  <2>1. Payouts(a, PATH_REPAY_BEFORE_EXPIRY) = <<LenderRepayment(a), CollateralReturn(a)>>
    BY PayoutCount DEF Paths
  <2>2. /\ LenderRepayment(a).amount = RepaymentAmount(a)
        /\ CollateralReturn(a).amount = a.collateral_amount
    BY DEF LenderRepayment, CollateralReturn, NativeCkbPayout
  <2> QED
    BY <2>1, <2>2 DEF PayoutsFit
<1>6. RepaymentAmount(a) \in Nat
  BY <1>2, <1>3 DEF RepaymentAmount, Add64
<1> QED
  BY <1>2, <1>3, <1>4, <1>5, <1>6 DEF RepayFits

\* An active agreement of the ledger is of the terms it shows, and these are
\* of this version, supported and with a collateral.
LEMMA LedgerReady ==
  ASSUME IInv, NEW i \in 1..Len(ledger), NEW a, a = ledger[i].agreement,
         a.status = STATUS_ACTIVE
  PROVE  /\ TermsOf(i) \in Terms /\ a = Active(TermsOf(i))
         /\ TermsOf(i).version = AGREEMENT_VERSION /\ TermsOf(i).supported
         /\ TermsOf(i).collateral_amount > 0
<1>1. PICK t \in Terms, now \in Presentable(ledger[i].epoch) :
        OriginatedBy(i, t, now) \/ RepaidBy(i, t, now) \/ ClaimedBy(i, t, now)
  BY DEF IInv, HistoryInv, Accepted
<1>2. /\ Repaid(t).status = STATUS_REPAID /\ Defaulted(t).status = STATUS_DEFAULTED
      /\ STATUS_ACTIVE \notin {STATUS_REPAID, STATUS_DEFAULTED}
  <2>1. /\ Repaid(t).status = NewStatus(PATH_REPAY_BEFORE_EXPIRY)
        /\ Defaulted(t).status = NewStatus(PATH_CLAIM_AFTER_EXPIRY)
    BY SuccessorFields DEF Repaid, Defaulted
  <2> QED
    BY <2>1, PathsDiffer DEF NewStatus, STATUS_ACTIVE, STATUS_REPAID, STATUS_DEFAULTED
<1>3. ASSUME NEW b, NEW path, Took(i, b, path, now)
      PROVE  a = Successor(b, path)
  BY <1>3 DEF Took, Transaction
<1>4. OriginatedBy(i, t, now)
  BY <1>1, <1>2, <1>3 DEF RepaidBy, ClaimedBy, Repaid, Defaulted
<1>5. /\ a = Active(t)
      /\ t.version = AGREEMENT_VERSION /\ t.supported /\ t.collateral_amount > 0
  BY <1>3, <1>4 DEF OriginatedBy, Active, OriginateAccepts, TermsAccepted
<1>6. Carries(a, t) /\ TermsOf(i) \in Terms /\ Carries(a, TermsOf(i))
  BY <1>5, WrittenCarries, TermsFound
<1>7. Offer(TermsOf(i)) = Offer(t)
  BY <1>6, CarriedOnce
<1>8. \A u \in Terms :
        /\ Offer(u).version = u.version /\ Offer(u).supported = u.supported
        /\ Offer(u).collateral_amount = u.collateral_amount
  BY DEF Offer
<1> QED
  BY <1>5, <1>6, <1>7, <1>8 DEF Active

\* ShapeAgreesWithNode: for all keys, terms, widths and occupied capacities,
\* on outputs in full the tools' evaluator and the chain differ in their
\* overflow guards alone; an output one short is refused by both, but the
\* agreement output of an origination, which the chain takes; one over is
\* refused by the evaluator alone; and a boundary case is the script's guards
\* on a repayment without those on the payout outputs.
THEOREM ShapeAgrees == Spec => []ShapeAgreesWithNode
<1>1. PATH_ORIGINATE \in Paths /\ \A path \in Closings : path \in Paths /\ path # PATH_ORIGINATE
  BY PathsDiffer DEF Paths, Closings
<1>2. \A t \in Terms : Offer(t) # Active(t)
  BY ActiveFields DEF Offer, STATUS_ACTIVE, STATUS_OFFERED
<1>3. ASSUME NEW t \in Terms, Judged(t),
             SignedBy(t.lender, Offer(t), PATH_ORIGINATE),
             NEW now \in 0..MaxEpoch, NEW actor \in ActorsOf(Offer(t), PATH_ORIGINATE)
      PROVE  VerdictsCompare(t, Offer(t), PATH_ORIGINATE, now, actor)
  <2>1. Taken(t, Offer(t), PATH_ORIGINATE) /\ Ready(t, Offer(t), PATH_ORIGINATE)
    BY <1>3 DEF Taken, Ready, Judged
  <2> QED
    BY <1>1, <1>3, <2>1, VerdictsKnown
<1>4. ASSUME IInv, NEW i \in Live \cap {Len(ledger)}, NEW a, a = ledger[i].agreement,
             a.status = STATUS_ACTIVE,
             NEW path \in Closings, NEW now \in 0..MaxEpoch, NEW actor \in ActorsOf(a, path)
      PROVE  VerdictsCompare(TermsOf(i), a, path, now, actor)
  <2>1. i \in 1..Len(ledger)
    BY <1>4 DEF IInv, TypeInv, Live
  <2>2. /\ TermsOf(i) \in Terms /\ a = Active(TermsOf(i))
        /\ TermsOf(i).version = AGREEMENT_VERSION /\ TermsOf(i).supported
        /\ TermsOf(i).collateral_amount > 0
    BY <1>4, <2>1, LedgerReady
  <2>3. Taken(TermsOf(i), a, path) /\ Ready(TermsOf(i), a, path)
    BY <1>1, <1>2, <1>4, <2>2 DEF Taken, Ready
  <2> QED
    BY <1>1, <1>4, <2>2, <2>3, VerdictsKnown
<1>5. IInv => ShapeAgreesWithNode
  BY <1>3, <1>4, BoundaryKnown DEF ShapeAgreesWithNode
<1> QED
  BY <1>5, SpecInv, PTL
=============================================================================
