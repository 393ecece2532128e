-------------------------- MODULE NovaAssetProofs ---------------------------
(***************************************************************************)
(* Proofs about the two asset profiles, Fungible xUDT and RWA receipt, as  *)
(* NovaProfiles deploys them: for every set of keys, offers and payouts,   *)
(* whatever the wallets are willing to sign, every width of the nonce,     *)
(* every header lag and ledgers of any length.                             *)
(*                                                                         *)
(* What the runs check speaks of whole lines: the issue of an object, all  *)
(* its holders, its settlement; the materialisation of a receipt and its   *)
(* later events.  The inductive invariant of each profile says of every    *)
(* transaction how the script came to accept it, from the transaction it   *)
(* takes up; induction along the line does the rest.                       *)
(***************************************************************************)
EXTENDS NovaProfiles, NovaLineLemmas, FiniteSetTheorems

-----------------------------------------------------------------------------
(***************************************************************************)
(* Fungible xUDT: objects, and how each transaction came about.            *)
(***************************************************************************)

ObjectFields ==
  {"asset_id", "xudt_type_hash", "issuer", "holder", "amount", "status",
   "latest_receipt_hash", "nonce", "expiry"}

IsObject(cell) ==
  /\ DOMAIN cell = ObjectFields
  /\ cell.status = Xudt!STATUS_ACTIVE
  /\ cell.holder \in AssetKeys
  /\ cell.amount \in Xudt!U64 \ {0}
  /\ cell.nonce \in Xudt!U64
  /\ cell.expiry \in Xudt!U64

\* What circulates: an issue is of something offered.
IsDraft(core) ==
  /\ core.new_holder \in Xudt!Holders
  /\ core.action = Xudt!OP_ISSUE => \E o \in XudtOffers : core = Xudt!IssueCore(o)

XudtCore(j) == ledger[j].receipt.core

\* Transaction j issued an object.
IsIssue(j) ==
  LET core == XudtCore(j) IN
  /\ \E o \in XudtOffers : core = Xudt!IssueCore(o)
  /\ core.new_holder # Xudt!ZeroHash
  /\ core.transfer_amount > 0
  /\ core.new_amount = core.transfer_amount
  /\ <<core.issuer, core>> \in signed
  /\ ledger[j].spent = {}
  /\ ledger[j].cell = Xudt!Issued(core)
  /\ ledger[j].receipt = Xudt!Receipt(core, core.issuer)
  /\ ledger[j].epoch <= core.expiry + HeaderLag

\* Transaction j took object i a step on.
IsStep(op, i, j) ==
  LET core == XudtCore(j)
      cell == ledger[i].cell IN
  /\ i \in Xudt!Objects
  /\ cell.nonce < Widths.xudt
  /\ core = Xudt!StepCore(op, cell, core.new_holder)
  /\ <<cell.holder, core>> \in signed
  /\ ledger[j].spent = {i}
  /\ ledger[j].receipt = Xudt!Receipt(core, cell.holder)
  /\ ledger[j].epoch <= cell.expiry + HeaderLag

IsTransfer(i, j) ==
  /\ IsStep(Xudt!OP_TRANSFER, i, j)
  /\ XudtCore(j).new_holder \in AssetKeys
  /\ ledger[j].cell = Xudt!Transferred(ledger[i].cell, XudtCore(j))

IsSettlement(i, j) ==
  /\ IsStep(Xudt!OP_SETTLE, i, j)
  /\ XudtCore(j).new_holder = ledger[i].cell.holder
  /\ ledger[j].cell = Xudt!NoCell

XudtTypes ==
  /\ tip \in 0..MaxEpoch
  /\ IsSequence(ledger)
  /\ \A j \in Xudt!Objects : IsObject(ledger[j].cell)

XudtSigned == \A s \in signed : s[1] \in AssetKeys /\ IsDraft(s[2])

XudtHistory ==
  \A j \in DOMAIN ledger :
    IsIssue(j) \/ \E i \in 1..(j - 1) : IsTransfer(i, j) \/ IsSettlement(i, j)

XudtSpentOnce ==
  \A j, k \in DOMAIN ledger : ledger[j].spent \cap ledger[k].spent # {} => j = k

XudtInv == XudtTypes /\ XudtSigned /\ XudtHistory /\ XudtSpentOnce
-----------------------------------------------------------------------------
(***************************************************************************)
(* The inductive invariant.                                                *)
(***************************************************************************)

\* What the constants are.
LEMMA XudtConstants ==
  /\ Widths.xudt \in Nat /\ HeaderLag \in Nat /\ MaxEpoch \in Nat
  /\ Xudt!U64 = 0..Widths.xudt
  /\ \A o \in XudtOffers :
       /\ o.holder \in Xudt!Holders
       /\ o.transfer_amount \in Xudt!U64 /\ o.new_amount \in Xudt!U64
       /\ o.expiry \in Xudt!U64
BY ProfilesAssumption DEF ProfilesAssumption, Xudt!XudtAssumption, Xudt!U64

\* Positions in the ledger.
LEMMA XudtPositions ==
  ASSUME XudtTypes
  PROVE  /\ Len(ledger) \in Nat
         /\ DOMAIN ledger = 1..Len(ledger)
BY SequenceOverSet DEF XudtTypes, IsSequence

\* The fields of an intent to issue.
LEMMA IssueFields ==
  ASSUME NEW o
  PROVE  LET core == Xudt!IssueCore(o) IN
         /\ core.action = 0 /\ core.asset_id = o.asset_id
         /\ core.xudt_type_hash = o.xudt_type_hash /\ core.issuer = o.issuer
         /\ core.new_holder = o.holder /\ core.transfer_amount = o.transfer_amount
         /\ core.new_amount = o.new_amount /\ core.new_nonce = 0
         /\ core.expiry = o.expiry
BY DEF Xudt!IssueCore, Xudt!OP_ISSUE

\* The fields of an intent to take an object a step on.
LEMMA StepFields ==
  ASSUME NEW op \in {Xudt!OP_TRANSFER, Xudt!OP_SETTLE}, NEW cell, NEW to
  PROVE  LET core == Xudt!StepCore(op, cell, to) IN
         /\ core.action = op /\ op # Xudt!OP_ISSUE
         /\ core.asset_id = cell.asset_id
         /\ core.xudt_type_hash = cell.xudt_type_hash /\ core.issuer = cell.issuer
         /\ core.old_holder = cell.holder /\ core.new_holder = to
         /\ core.transfer_amount = cell.amount
         /\ core.old_nonce = cell.nonce /\ core.new_nonce = Xudt!Add64(cell.nonce, 1)
         /\ core.expiry = cell.expiry
BY DEF Xudt!StepCore, Xudt!OP_ISSUE, Xudt!OP_TRANSFER, Xudt!OP_SETTLE

\* The nonce of a successor: the guard keeps the addition from wrapping.
LEMMA NextNonce ==
  ASSUME NEW n \in Xudt!U64, n < Widths.xudt
  PROVE  Xudt!Add64(n, 1) = n + 1 /\ n + 1 \in Xudt!U64
BY XudtConstants DEF Xudt!Add64

\* The object that an issue creates.
LEMMA IssuedFields ==
  ASSUME NEW core
  PROVE  LET cell == Xudt!Issued(core) IN
         /\ DOMAIN cell = ObjectFields
         /\ cell.asset_id = core.asset_id /\ cell.xudt_type_hash = core.xudt_type_hash
         /\ cell.issuer = core.issuer /\ cell.holder = core.new_holder
         /\ cell.amount = core.new_amount /\ cell.status = Xudt!STATUS_ACTIVE
         /\ cell.latest_receipt_hash = Xudt!MaterializedReceiptHash(core)
         /\ cell.nonce = 0 /\ cell.expiry = core.expiry
BY DEF Xudt!Issued, ObjectFields

\* The object that a transfer creates.
LEMMA TransferredFields ==
  ASSUME NEW old, DOMAIN old = ObjectFields, NEW core
  PROVE  LET cell == Xudt!Transferred(old, core) IN
         /\ DOMAIN cell = ObjectFields
         /\ cell.asset_id = old.asset_id /\ cell.xudt_type_hash = old.xudt_type_hash
         /\ cell.issuer = old.issuer /\ cell.holder = core.new_holder
         /\ cell.amount = old.amount /\ cell.status = old.status
         /\ cell.latest_receipt_hash = Xudt!MaterializedReceiptHash(core)
         /\ cell.nonce = core.new_nonce /\ cell.expiry = old.expiry
BY DEF Xudt!Transferred, ObjectFields

\* The chain commits a transaction that the script accepts.
LEMMA XudtCommitInv ==
  ASSUME XudtInv, NEW spent, NEW cell, NEW receipt, Xudt!Commit(spent, cell, receipt),
         NEW n, n = Len(ledger) + 1,
         spent \subseteq Xudt!Live, cell = Xudt!NoCell \/ IsObject(cell),
         [spent |-> spent, cell |-> cell, receipt |-> receipt, epoch |-> tip] = ledger'[n]
           => (IsIssue(n) \/ \E i \in 1..(n - 1) : IsTransfer(i, n) \/ IsSettlement(i, n))'
  PROVE  XudtInv'
<1> DEFINE e == [spent |-> spent, cell |-> cell, receipt |-> receipt, epoch |-> tip]
<1>1. ledger' = Append(ledger, e) /\ tip' = tip /\ signed' = signed
  BY DEF Xudt!Commit
<1>2. IsSequence(ledger)
  BY DEF XudtInv, XudtTypes
<1>3. e.spent = spent /\ e.cell = cell
  OBVIOUS
<1>4. e = ledger'[n] => (IsIssue(n) \/ \E i \in 1..(n - 1) :
                            IsTransfer(i, n) \/ IsSettlement(i, n))'
  OBVIOUS
<1> HIDE DEF e
<1>5. /\ Len(ledger) \in Nat /\ DOMAIN ledger = 1..Len(ledger)
      /\ IsSequence(ledger') /\ DOMAIN ledger' = 1..(Len(ledger) + 1)
      /\ \A j \in 1..Len(ledger) : ledger'[j] = ledger[j]
      /\ ledger'[Len(ledger) + 1] = e
  BY <1>1, <1>2, AppendFacts
<1>6. /\ ledger'[n] = e /\ n \in DOMAIN ledger' /\ n \in Nat /\ n \notin DOMAIN ledger
      /\ \A j \in DOMAIN ledger' : j = n \/ j \in DOMAIN ledger
      /\ \A j \in DOMAIN ledger : j \in DOMAIN ledger' /\ ledger'[j] = ledger[j]
  BY <1>5
<1>7. /\ Xudt!Objects \subseteq Xudt!Objects'
      /\ \A j \in Xudt!Objects' : j = n \/ j \in Xudt!Objects
      /\ n \in Xudt!Objects' => IsObject(cell)
  BY <1>3, <1>6 DEF Xudt!Objects
<1>8. XudtTypes'
  <2>1. \A j \in Xudt!Objects' : IsObject(ledger'[j].cell)
    <3>1. \A j \in Xudt!Objects : j \in DOMAIN ledger /\ IsObject(ledger[j].cell)
      BY DEF XudtInv, XudtTypes, Xudt!Objects
    <3> QED
      BY <1>3, <1>6, <1>7, <3>1
  <2> QED
    BY <1>1, <1>5, <2>1 DEF XudtInv, XudtTypes
<1>9. XudtSigned'
  BY <1>1 DEF XudtInv, XudtSigned
<1>10. XudtHistory'
  <2>1. ASSUME NEW j \in DOMAIN ledger
        PROVE  (IsIssue(j) \/ \E i \in 1..(j - 1) : IsTransfer(i, j) \/ IsSettlement(i, j))'
    <3>1. ledger'[j] = ledger[j] /\ XudtCore(j)' = XudtCore(j)
      BY <1>6 DEF XudtCore
    <3>2. CASE IsIssue(j)
      BY <1>1, <3>1, <3>2 DEF IsIssue
    <3>3. CASE \E i \in 1..(j - 1) : IsTransfer(i, j) \/ IsSettlement(i, j)
      <4>1. PICK i \in 1..(j - 1) : IsTransfer(i, j) \/ IsSettlement(i, j)
        BY <3>3
      <4>2. i \in Xudt!Objects' /\ ledger'[i] = ledger[i]
        BY <1>6, <1>7, <4>1 DEF IsTransfer, IsSettlement, IsStep, Xudt!Objects
      <4>3. (IsTransfer(i, j) \/ IsSettlement(i, j))'
        BY <1>1, <3>1, <4>1, <4>2 DEF IsTransfer, IsSettlement, IsStep
      <4> QED
        BY <4>3
    <3> QED
      BY <3>2, <3>3 DEF XudtInv, XudtHistory
  <2> QED
    BY <1>4, <1>6, <2>1 DEF XudtHistory
<1>11. XudtSpentOnce'
  <2>1. \A j \in DOMAIN ledger : ledger[j].spent \cap spent = {}
    BY DEF Xudt!Live, Xudt!Spent
  <2> QED
    BY <1>3, <1>6, <2>1 DEF XudtInv, XudtSpentOnce
<1> QED
  BY <1>8, <1>9, <1>10, <1>11 DEF XudtInv

\* What the header says of the chain.
LEMMA XudtTimely ==
  ASSUME XudtInv, NEW now \in Xudt!Presentable(tip), NEW expiry \in Xudt!U64, now <= expiry
  PROVE  tip <= expiry + HeaderLag
BY XudtConstants DEF XudtInv, XudtTypes, Xudt!Presentable

\* Issue.
LEMMA XudtIssueInv ==
  ASSUME XudtInv, NEW s \in signed, NEW now \in Xudt!Presentable(tip), Xudt!Issue(s[2], now)
  PROVE  XudtInv'
<1> PICK none : none = {}
  OBVIOUS
<1> DEFINE core == s[2]
           cell == Xudt!Issued(core)
           receipt == Xudt!Receipt(core, core.issuer)
<1>1. Xudt!Commit(none, cell, receipt) /\ Xudt!IssueAccepts(core, now)
  BY DEF Xudt!Issue
<1>2. PICK o \in XudtOffers : core = Xudt!IssueCore(o)
  BY <1>1 DEF Xudt!IssueAccepts, XudtInv, XudtSigned, IsDraft
<1>3. /\ core.new_holder \in AssetKeys /\ core.transfer_amount \in Xudt!U64 \ {0}
      /\ core.new_amount = core.transfer_amount /\ core.expiry \in Xudt!U64
      /\ core.new_holder # Xudt!ZeroHash /\ core.transfer_amount > 0
  <2>1. core.new_holder \in Xudt!Holders /\ core.transfer_amount \in Xudt!U64
        /\ core.expiry \in Xudt!U64
    BY <1>2, XudtConstants, IssueFields
  <2> QED
    BY <1>1, <2>1, XudtConstants DEF Xudt!IssueAccepts, Xudt!Holders
<1>4. tip <= core.expiry + HeaderLag
  BY <1>1, <1>3, XudtTimely DEF Xudt!IssueAccepts
<1>5. IsObject(cell)
  BY <1>3, IssuedFields, XudtConstants DEF IsObject
<1>6. receipt.core = core
  BY DEF Xudt!Receipt
<1>7. ASSUME NEW n, n = Len(ledger) + 1,
             [spent |-> none, cell |-> cell, receipt |-> receipt, epoch |-> tip] = ledger'[n]
      PROVE  (IsIssue(n) \/ \E i \in 1..(n - 1) : IsTransfer(i, n) \/ IsSettlement(i, n))'
  <2>1. /\ ledger'[n].spent = {} /\ ledger'[n].cell = cell /\ ledger'[n].receipt = receipt
        /\ ledger'[n].epoch = tip
    BY <1>7
  <2>2. XudtCore(n)' = core
    BY <1>6, <2>1 DEF XudtCore
  <2> QED
    BY <1>2, <1>3, <1>4, <1>1, <2>1, <2>2 DEF IsIssue, Xudt!IssueAccepts, Xudt!SignedBy, Xudt!Commit
<1> HIDE DEF cell, receipt
<1>8. PICK n : n = Len(ledger) + 1
  OBVIOUS
<1>9. [spent |-> none, cell |-> cell, receipt |-> receipt, epoch |-> tip] = ledger'[n]
        => (IsIssue(n) \/ \E i \in 1..(n - 1) : IsTransfer(i, n) \/ IsSettlement(i, n))'
  BY <1>7, <1>8
<1>10. none \subseteq Xudt!Live
  OBVIOUS
<1> QED
  BY <1>1, <1>5, <1>8, <1>9, <1>10, XudtCommitInv

\* Transfer.
LEMMA XudtTransferInv ==
  ASSUME XudtInv, NEW s \in signed, NEW now \in Xudt!Presentable(tip), NEW i \in Xudt!Live,
         Xudt!Transfer(i, s[2], now)
  PROVE  XudtInv'
<1> DEFINE core == s[2]
           old == ledger[i].cell
           cell == Xudt!Transferred(old, core)
           receipt == Xudt!Receipt(core, old.holder)
<1>1. Xudt!Commit({i}, cell, receipt) /\ Xudt!TransferAccepts(old, core, now)
  BY DEF Xudt!Transfer
<1>2. i \in Xudt!Objects /\ i \in DOMAIN ledger /\ IsObject(old)
  BY DEF Xudt!Live, Xudt!Objects, XudtInv, XudtTypes
<1>3. core.new_holder \in AssetKeys
  BY <1>1 DEF Xudt!TransferAccepts, XudtInv, XudtSigned, IsDraft, Xudt!Holders
<1>4. core = Xudt!StepCore(Xudt!OP_TRANSFER, old, core.new_holder)
  BY <1>1 DEF Xudt!TransferAccepts
<1>5. tip <= old.expiry + HeaderLag
  BY <1>1, <1>2, XudtTimely DEF Xudt!TransferAccepts, IsObject
<1>6. IsObject(cell)
  <2>1. old.nonce \in Xudt!U64 /\ old.nonce < Widths.xudt
    BY <1>1, <1>2 DEF Xudt!TransferAccepts, IsObject
  <2>2. core.new_nonce = Xudt!Add64(old.nonce, 1)
    BY <1>4, StepFields
  <2>3. core.new_nonce \in Xudt!U64
    BY <2>1, <2>2, NextNonce
  <2> QED
    BY <1>2, <1>3, <2>3, TransferredFields DEF IsObject
<1>7. receipt.core = core
  BY DEF Xudt!Receipt
<1>8. ASSUME NEW n, n = Len(ledger) + 1,
             [spent |-> {i}, cell |-> cell, receipt |-> receipt, epoch |-> tip] = ledger'[n]
      PROVE  (\E h \in 1..(n - 1) : IsTransfer(h, n) \/ IsSettlement(h, n))'
  <2>1. /\ ledger'[n].spent = {i} /\ ledger'[n].cell = cell /\ ledger'[n].receipt = receipt
        /\ ledger'[n].epoch = tip
    BY <1>8
  <2>2. XudtCore(n)' = core
    BY <1>7, <2>1 DEF XudtCore
  <2>3. i \in 1..(n - 1) /\ i \in Xudt!Objects' /\ ledger'[i] = ledger[i]
    BY <1>1, <1>2, <1>8, AppendFacts DEF XudtInv, XudtTypes, Xudt!Commit, Xudt!Objects
  <2>4. IsTransfer(i, n)'
    BY <1>1, <1>3, <1>4, <1>5, <2>1, <2>2, <2>3
    DEF IsTransfer, IsStep, Xudt!TransferAccepts, Xudt!SignedBy, Xudt!Commit
  <2> QED
    BY <2>3, <2>4
<1> HIDE DEF cell, receipt
<1>9. {i} \subseteq Xudt!Live
  OBVIOUS
<1> QED
  BY <1>1, <1>6, <1>8, <1>9, XudtCommitInv

\* Settle.
LEMMA XudtSettleInv ==
  ASSUME XudtInv, NEW s \in signed, NEW now \in Xudt!Presentable(tip), NEW i \in Xudt!Live,
         Xudt!Settle(i, s[2], now)
  PROVE  XudtInv'
<1> DEFINE core == s[2]
           old == ledger[i].cell
           receipt == Xudt!Receipt(core, old.holder)
<1>1. Xudt!Commit({i}, Xudt!NoCell, receipt) /\ Xudt!SettleAccepts(old, core, now)
  BY DEF Xudt!Settle
<1>2. i \in Xudt!Objects /\ i \in DOMAIN ledger /\ IsObject(old)
  BY DEF Xudt!Live, Xudt!Objects, XudtInv, XudtTypes
<1>3. core = Xudt!StepCore(Xudt!OP_SETTLE, old, old.holder)
  BY <1>1 DEF Xudt!SettleAccepts
<1>4. core.new_holder = old.holder
  BY <1>3, StepFields
<1>5. tip <= old.expiry + HeaderLag
  BY <1>1, <1>2, XudtTimely DEF Xudt!SettleAccepts, IsObject
<1>6. receipt.core = core
  BY DEF Xudt!Receipt
<1>7. ASSUME NEW n, n = Len(ledger) + 1,
             [spent |-> {i}, cell |-> Xudt!NoCell, receipt |-> receipt, epoch |-> tip]
               = ledger'[n]
      PROVE  (\E h \in 1..(n - 1) : IsTransfer(h, n) \/ IsSettlement(h, n))'
  <2>1. /\ ledger'[n].spent = {i} /\ ledger'[n].cell = Xudt!NoCell
        /\ ledger'[n].receipt = receipt /\ ledger'[n].epoch = tip
    BY <1>7
  <2>2. XudtCore(n)' = core
    BY <1>6, <2>1 DEF XudtCore
  <2>3. i \in 1..(n - 1) /\ i \in Xudt!Objects' /\ ledger'[i] = ledger[i]
    BY <1>1, <1>2, <1>7, AppendFacts DEF XudtInv, XudtTypes, Xudt!Commit, Xudt!Objects
  <2>4. IsSettlement(i, n)'
    BY <1>1, <1>3, <1>4, <1>5, <2>1, <2>2, <2>3
    DEF IsSettlement, IsStep, Xudt!SettleAccepts, Xudt!SignedBy, Xudt!Commit
  <2> QED
    BY <2>3, <2>4
<1> HIDE DEF receipt
<1>8. {i} \subseteq Xudt!Live
  OBVIOUS
<1> QED
  BY <1>1, <1>7, <1>8, XudtCommitInv

\* A wallet signs what it is shown.
LEMMA XudtSignInv ==
  ASSUME XudtInv, NEW key \in AssetKeys, NEW core \in Xudt!Drafts, Xudt!Sign(key, core)
  PROVE  XudtInv'
<1>1. signed' = signed \cup {<<key, core>>} /\ tip' = tip /\ ledger' = ledger
  BY DEF Xudt!Sign
<1>2. IsDraft(core)
  <2>1. CASE core \in {Xudt!IssueCore(o) : o \in XudtOffers}
    <3>1. PICK o \in XudtOffers : core = Xudt!IssueCore(o)
      BY <2>1
    <3> QED
      BY <3>1, IssueFields, XudtConstants DEF IsDraft
  <2>2. CASE core \in {Xudt!StepCore(Xudt!OP_TRANSFER, ledger[i].cell, to) :
                         i \in Xudt!Objects, to \in Xudt!Holders}
    <3>1. PICK i \in Xudt!Objects, to \in Xudt!Holders :
            core = Xudt!StepCore(Xudt!OP_TRANSFER, ledger[i].cell, to)
      BY <2>2
    <3> QED
      BY <3>1, StepFields DEF IsDraft
  <2>3. CASE core \in {Xudt!StepCore(Xudt!OP_SETTLE, ledger[i].cell, ledger[i].cell.holder) :
                         i \in Xudt!Objects}
    <3>1. PICK i \in Xudt!Objects :
            core = Xudt!StepCore(Xudt!OP_SETTLE, ledger[i].cell, ledger[i].cell.holder)
      BY <2>3
    <3>2. ledger[i].cell.holder \in AssetKeys
      BY DEF XudtInv, XudtTypes, IsObject
    <3> QED
      BY <3>1, <3>2, StepFields DEF IsDraft, Xudt!Holders
  <2> QED
    BY <2>1, <2>2, <2>3 DEF Xudt!Drafts
<1>3. XudtSigned'
  BY <1>1, <1>2 DEF XudtInv, XudtSigned
<1> QED
  BY <1>1, <1>3
  DEF XudtInv, XudtTypes, XudtHistory, XudtSpentOnce, IsIssue, IsTransfer, IsSettlement,
      IsStep, XudtCore, Xudt!Objects

\* Every step of the profile keeps the invariant.
LEMMA XudtNextInv ==
  ASSUME XudtInv, [Xudt!Next]_(Xudt!vars)
  PROVE  XudtInv'
<1>1. CASE Xudt!Tick
  <2>1. tip' \in 0..MaxEpoch /\ signed' = signed /\ ledger' = ledger
    BY <1>1, XudtConstants DEF Xudt!Tick, XudtInv, XudtTypes
  <2> QED
    BY <2>1
    DEF XudtInv, XudtTypes, XudtSigned, XudtHistory, XudtSpentOnce, IsIssue, IsTransfer,
        IsSettlement, IsStep, XudtCore, Xudt!Objects
<1>2. ASSUME NEW key \in AssetKeys, NEW core \in Xudt!Drafts, Xudt!Sign(key, core)
      PROVE  XudtInv'
  BY <1>2, XudtSignInv
<1>3. ASSUME NEW s \in signed, NEW now \in Xudt!Presentable(tip), Xudt!Issue(s[2], now)
      PROVE  XudtInv'
  BY <1>3, XudtIssueInv
<1>4. ASSUME NEW s \in signed, NEW now \in Xudt!Presentable(tip), NEW i \in Xudt!Live,
             Xudt!Transfer(i, s[2], now)
      PROVE  XudtInv'
  BY <1>4, XudtTransferInv
<1>5. ASSUME NEW s \in signed, NEW now \in Xudt!Presentable(tip), NEW i \in Xudt!Live,
             Xudt!Settle(i, s[2], now)
      PROVE  XudtInv'
  BY <1>5, XudtSettleInv
<1>6. CASE UNCHANGED Xudt!vars
  <2>1. tip' = tip /\ signed' = signed /\ ledger' = ledger
    BY <1>6 DEF Xudt!vars
  <2> QED
    BY <2>1
    DEF XudtInv, XudtTypes, XudtSigned, XudtHistory, XudtSpentOnce, IsIssue, IsTransfer,
        IsSettlement, IsStep, XudtCore, Xudt!Objects
<1> QED
  BY <1>1, <1>2, <1>3, <1>4, <1>5, <1>6 DEF Xudt!Next

\* A ledger of the profile stays one, and takes the steps of the profile.
LEMMA XudtSteps ==
  ASSUME [Next]_vars, IsXudt \/ IsXudt'
  PROVE  IsXudt /\ IsXudt' /\ [Xudt!Next]_(Xudt!vars)
<1>1. CASE UNCHANGED vars
  BY <1>1 DEF vars, IsXudt, Xudt!vars
<1>2. CASE Next
  BY <1>2 DEF Next, IsXudt, IsRwa, IsSeal, Seals!Profiles, Seals!Next
<1> QED
  BY <1>1, <1>2

\* On a ledger of the profile the invariant holds throughout.
LEMMA XudtSpecInv == Spec => [](IsXudt => XudtInv)
<1>1. Init => (IsXudt => XudtInv)
  <2> SUFFICES ASSUME Init
               PROVE  XudtInv
    OBVIOUS
  <2>1. ledger \in Seq({}) /\ DOMAIN ledger = {}
    BY DEF Init
  <2>2. IsSequence(ledger)
    BY <2>1, SequenceOverSet
  <2>3. Xudt!Objects = {} /\ tip \in 0..MaxEpoch /\ signed = {}
    BY <2>1, XudtConstants DEF Init, Xudt!Objects
  <2> QED
    BY <2>1, <2>2, <2>3 DEF XudtInv, XudtTypes, XudtSigned, XudtHistory, XudtSpentOnce
<1>2. (IsXudt => XudtInv) /\ [Next]_vars => (IsXudt => XudtInv)'
  BY XudtSteps, XudtNextInv
<1> QED
  BY <1>1, <1>2, PTL DEF Spec
-----------------------------------------------------------------------------
(***************************************************************************)
(* One step of a line.                                                     *)
(***************************************************************************)

\* What an object has in common with the receipt of the transaction that
\* created it.
LEMMA ObjectOfReceipt ==
  ASSUME XudtInv, NEW j \in Xudt!Objects
  PROVE  /\ j \in DOMAIN ledger
         /\ ledger[j].cell.holder = XudtCore(j).new_holder
         /\ ledger[j].cell.nonce = XudtCore(j).new_nonce
         /\ ledger[j].cell.amount = XudtCore(j).transfer_amount
         /\ ledger[j].cell.asset_id = XudtCore(j).asset_id
         /\ ledger[j].cell.xudt_type_hash = XudtCore(j).xudt_type_hash
         /\ ledger[j].cell.expiry = XudtCore(j).expiry
         /\ ledger[j].cell.latest_receipt_hash = ledger[j].receipt.latest_receipt_hash
<1>1. j \in DOMAIN ledger /\ ledger[j].cell # Xudt!NoCell
  BY DEF Xudt!Objects
<1>2. CASE IsIssue(j)
  <2>1. PICK core : core = XudtCore(j)
    OBVIOUS
  <2>2. core.new_nonce = 0
    BY <1>2, <2>1, IssueFields DEF IsIssue
  <2>3. /\ ledger[j].cell = Xudt!Issued(core) /\ core.new_amount = core.transfer_amount
        /\ ledger[j].receipt = Xudt!Receipt(core, core.issuer)
    BY <1>2, <2>1 DEF IsIssue
  <2>4. ledger[j].receipt.latest_receipt_hash = Xudt!MaterializedReceiptHash(core)
    BY <2>3 DEF Xudt!Receipt
  <2> QED
    BY <1>1, <2>1, <2>2, <2>3, <2>4, IssuedFields
<1>3. CASE \E i \in 1..(j - 1) : IsTransfer(i, j)
  <2>1. PICK i \in 1..(j - 1) : IsTransfer(i, j)
    BY <1>3
  <2>2. PICK core, old : core = XudtCore(j) /\ old = ledger[i].cell
    OBVIOUS
  <2>3. /\ ledger[j].cell = Xudt!Transferred(old, core)
        /\ core = Xudt!StepCore(Xudt!OP_TRANSFER, old, core.new_holder)
        /\ ledger[j].receipt = Xudt!Receipt(core, old.holder)
    BY <2>1, <2>2 DEF IsTransfer, IsStep
  <2>4. DOMAIN old = ObjectFields
    BY <2>1, <2>2 DEF IsTransfer, IsStep, XudtInv, XudtTypes, IsObject
  <2>5. ledger[j].receipt.latest_receipt_hash = Xudt!MaterializedReceiptHash(core)
    BY <2>3 DEF Xudt!Receipt
  <2>6. /\ core.asset_id = old.asset_id /\ core.xudt_type_hash = old.xudt_type_hash
        /\ core.transfer_amount = old.amount /\ core.expiry = old.expiry
    BY <2>3, StepFields
  <2>7. PICK cell : cell = ledger[j].cell /\ cell = Xudt!Transferred(old, core)
    BY <2>3
  <2>8. /\ cell.asset_id = old.asset_id /\ cell.xudt_type_hash = old.xudt_type_hash
        /\ cell.holder = core.new_holder /\ cell.amount = old.amount
        /\ cell.latest_receipt_hash = Xudt!MaterializedReceiptHash(core)
        /\ cell.nonce = core.new_nonce /\ cell.expiry = old.expiry
    BY <2>4, <2>7 DEF Xudt!Transferred, ObjectFields
  <2> QED
    BY <1>1, <2>2, <2>5, <2>6, <2>7, <2>8
<1> QED
  BY <1>1, <1>2, <1>3 DEF XudtInv, XudtHistory, IsSettlement

\* A step takes up the object of an earlier transaction.
LEMMA XudtParent ==
  ASSUME XudtInv, NEW j \in Xudt!Steps
  PROVE  /\ j \in DOMAIN ledger
         /\ Xudt!Parent(j) \in 1..(j - 1)
         /\ Xudt!Parent(j) \in Xudt!Objects
         /\ ledger[j].spent = {Xudt!Parent(j)}
         /\ IsTransfer(Xudt!Parent(j), j) \/ IsSettlement(Xudt!Parent(j), j)
<1>1. j \in DOMAIN ledger /\ ledger[j].spent # {}
  BY DEF Xudt!Steps
<1>2. PICK i \in 1..(j - 1) : IsTransfer(i, j) \/ IsSettlement(i, j)
  BY <1>1 DEF XudtInv, XudtHistory, IsIssue
<1>3. ledger[j].spent = {i} /\ i \in Xudt!Objects
  BY <1>2 DEF IsTransfer, IsSettlement, IsStep
<1>4. Xudt!Parent(j) = i
  BY <1>3 DEF Xudt!Parent
<1> QED
  BY <1>1, <1>2, <1>3, <1>4

\* What a step repeats of the receipt it takes up, and that it counts.
LEMMA XudtStep ==
  ASSUME XudtInv, NEW j \in Xudt!Steps
  PROVE  LET core   == XudtCore(j)
             before == XudtCore(Xudt!Parent(j)) IN
         /\ core.old_holder = before.new_holder
         /\ core.old_nonce = before.new_nonce
         /\ core.new_nonce = before.new_nonce + 1
         /\ core.asset_id = before.asset_id
         /\ core.xudt_type_hash = before.xudt_type_hash
         /\ core.transfer_amount = before.transfer_amount
         /\ core.expiry = before.expiry
         /\ ledger[j].epoch <= before.expiry + HeaderLag
<1> DEFINE i == Xudt!Parent(j)
<1>1. i \in Xudt!Objects /\ (IsTransfer(i, j) \/ IsSettlement(i, j))
  BY XudtParent
<1> HIDE DEF i
<1>2. PICK core, old : core = XudtCore(j) /\ old = ledger[i].cell
  OBVIOUS
<1>3. PICK op \in {Xudt!OP_TRANSFER, Xudt!OP_SETTLE} :
        core = Xudt!StepCore(op, old, core.new_holder)
  BY <1>1, <1>2 DEF IsTransfer, IsSettlement, IsStep
<1>4. ledger[j].epoch <= old.expiry + HeaderLag /\ old.nonce < Widths.xudt
  BY <1>1, <1>2 DEF IsTransfer, IsSettlement, IsStep
<1>5. old.nonce \in Xudt!U64
  BY <1>1, <1>2 DEF XudtInv, XudtTypes, IsObject
<1>6. Xudt!Add64(old.nonce, 1) = old.nonce + 1
  BY <1>4, <1>5, NextNonce
<1>7. /\ core.asset_id = old.asset_id /\ core.xudt_type_hash = old.xudt_type_hash
      /\ core.old_holder = old.holder /\ core.transfer_amount = old.amount
      /\ core.old_nonce = old.nonce /\ core.new_nonce = old.nonce + 1
      /\ core.expiry = old.expiry
  BY <1>3, <1>6, StepFields
<1>8. /\ old.holder = XudtCore(i).new_holder /\ old.nonce = XudtCore(i).new_nonce
      /\ old.amount = XudtCore(i).transfer_amount /\ old.asset_id = XudtCore(i).asset_id
      /\ old.xudt_type_hash = XudtCore(i).xudt_type_hash
      /\ old.expiry = XudtCore(i).expiry
  BY <1>1, <1>2, ObjectOfReceipt
<1> QED
  BY <1>2, <1>4, <1>7, <1>8 DEF i
-----------------------------------------------------------------------------
(***************************************************************************)
(* Lines.                                                                  *)
(***************************************************************************)

\* p names the parents, and with them lines that do not branch.
IsLineOf(p) ==
  /\ Xudt!Steps \subseteq Nat
  /\ \A j \in Xudt!Steps : p[j] = Xudt!Parent(j)
  /\ Earlier(Xudt!Steps, p)
  /\ OneChild(Xudt!Steps, p)
  /\ IsOrigin(Xudt!Origin, Xudt!Steps, p)

\* The ledger is made of lines.
LEMMA XudtLines ==
  ASSUME XudtInv
  PROVE  \E p : IsLineOf(p)
<1> DEFINE p == [i \in Nat |-> Xudt!Parent(i)]
<1>1. Xudt!Steps \subseteq Nat
  BY XudtPositions DEF XudtInv, Xudt!Steps
<1>2. \A j \in Nat : p[j] = Xudt!Parent(j)
  OBVIOUS
<1> HIDE DEF p
<1>3. Earlier(Xudt!Steps, p)
  <2>1. \A j \in Xudt!Steps : Xudt!Parent(j) \in 1..(j - 1)
    BY XudtParent
  <2> QED
    BY <1>2, <2>1 DEF Earlier
<1>4. ASSUME NEW a \in Xudt!Steps, NEW b \in Xudt!Steps, p[a] = p[b]
      PROVE  a = b
  <2>1. ledger[a].spent = {p[a]} /\ ledger[b].spent = {p[b]}
    BY <1>1, <1>2, XudtParent
  <2>2. a \in DOMAIN ledger /\ b \in DOMAIN ledger
    BY DEF Xudt!Steps
  <2> QED
    BY <1>4, <2>1, <2>2 DEF XudtInv, XudtSpentOnce
<1>5. IsOrigin(Xudt!Origin, Xudt!Steps, p)
  <2>1. PICK f : /\ IsOrigin(f, Xudt!Steps, p)
                 /\ f = [j \in Nat |-> IF j \in Xudt!Steps THEN f[p[j]] ELSE j]
    BY <1>3, OriginExists
  <2>2. f = [j \in Nat |-> IF j \in Xudt!Steps THEN f[Xudt!Parent(j)] ELSE j]
    BY <1>2, <2>1
  <2>3. Xudt!Origin = [j \in Nat |-> IF j \in Xudt!Steps
                                       THEN Xudt!Origin[Xudt!Parent(j)] ELSE j]
    BY <2>2 DEF Xudt!Origin
  <2>4. PICK g : g = Xudt!Origin
    OBVIOUS
  <2>5. g = [j \in Nat |-> IF j \in Xudt!Steps THEN g[p[j]] ELSE j]
    BY <1>2, <2>3, <2>4
  <2> QED
    BY <1>3, <2>4, <2>5, OriginUnfolds
<1> QED
  BY <1>1, <1>2, <1>3, <1>4, <1>5 DEF IsLineOf, OneChild

\* A transaction that takes up no object is an issue.
LEMMA XudtFounder ==
  ASSUME XudtInv, NEW j \in DOMAIN ledger \ Xudt!Steps
  PROVE  IsIssue(j)
<1>1. ledger[j].spent = {}
  BY DEF Xudt!Steps
<1> QED
  BY <1>1 DEF XudtInv, XudtHistory, IsTransfer, IsSettlement, IsStep

\* What a transaction of a line repeats of the issue that founded it.
RepeatsIssue(j) ==
  LET o == Xudt!Origin[j] IN
  /\ o \in DOMAIN ledger
  /\ XudtCore(j).transfer_amount = XudtCore(o).transfer_amount
  /\ XudtCore(j).expiry = XudtCore(o).expiry
  /\ ledger[j].epoch <= XudtCore(o).expiry + HeaderLag

\* Every transaction of a line repeats its issue.
LEMMA XudtInLine ==
  ASSUME XudtInv, NEW j \in DOMAIN ledger
  PROVE  RepeatsIssue(j)
<1>1. PICK p : IsLineOf(p)
  BY XudtLines
<1> DEFINE S == {n \in Nat : n \in DOMAIN ledger => RepeatsIssue(n)}
<1>2. ASSUME NEW n \in Nat, \A k \in 0..(n - 1) : k \in S, n \in DOMAIN ledger
      PROVE  RepeatsIssue(n)
  <2>1. CASE n \in Xudt!Steps
    <3>1. PICK i : i = Xudt!Parent(n)
      OBVIOUS
    <3>2. i \in 1..(n - 1) /\ i \in DOMAIN ledger
      BY <2>1, <3>1, XudtParent DEF Xudt!Objects
    <3>3. RepeatsIssue(i)
      <4>1. i \in 0..(n - 1)
        BY <3>2
      <4> QED
        BY <1>2, <3>2, <4>1
    <3>4. Xudt!Origin[n] = Xudt!Origin[i]
      BY <1>1, <2>1, <3>1 DEF IsLineOf, IsOrigin
    <3>5. /\ XudtCore(n).transfer_amount = XudtCore(i).transfer_amount
          /\ XudtCore(n).expiry = XudtCore(i).expiry
          /\ ledger[n].epoch <= XudtCore(i).expiry + HeaderLag
      BY <2>1, <3>1, XudtStep
    <3> QED
      BY <3>3, <3>4, <3>5 DEF RepeatsIssue
  <2>2. CASE n \notin Xudt!Steps
    <3>1. Xudt!Origin[n] = n
      BY <1>1, <2>2 DEF IsLineOf, IsOrigin
    <3>2. ledger[n].epoch <= XudtCore(n).expiry + HeaderLag
      BY <1>2, <2>2, XudtFounder DEF IsIssue
    <3> QED
      BY <1>2, <3>1, <3>2 DEF RepeatsIssue
  <2> QED
    BY <2>1, <2>2
<1>3. \A n \in Nat : (\A k \in 0..(n - 1) : k \in S) => n \in S
  BY <1>2
<1>4. j \in S
  <2> HIDE DEF S
  <2>1. j \in Nat
    BY XudtPositions DEF XudtInv
  <2> QED
    BY <1>3, <2>1, LineInduction
<1> QED
  BY <1>4

\* A line has one last transaction, and all the others were taken up.
LEMMA XudtLastOfLine ==
  ASSUME XudtInv, NEW k \in DOMAIN ledger \ Xudt!Steps
  PROVE  \E m \in DOMAIN ledger :
           /\ Xudt!Origin[m] = k
           /\ m \notin Xudt!Spent
           /\ \A j \in DOMAIN ledger :
                Xudt!Origin[j] = k => j = m \/ (j \in Xudt!Objects /\ j \in Xudt!Spent)
<1>1. PICK p : IsLineOf(p)
  BY XudtLines
<1>2. Len(ledger) \in Nat /\ DOMAIN ledger = 1..Len(ledger)
  BY XudtPositions DEF XudtInv
<1> DEFINE T == {j \in DOMAIN ledger : Xudt!Origin[j] = k}
<1>3. k \in T
  BY <1>1, <1>2 DEF IsLineOf, IsOrigin
<1>4. T \subseteq 0..Len(ledger)
  BY <1>2
<1>5. PICK m \in T : \A j \in T : j <= m
  <2> HIDE DEF T
  <2> QED
    BY <1>2, <1>3, <1>4, GreatestNat
<1>6. ASSUME NEW c \in DOMAIN ledger, m \in ledger[c].spent
      PROVE  FALSE
  <2>1. c \in Xudt!Steps /\ c \in Nat /\ m \in Nat
    BY <1>2, <1>6 DEF Xudt!Steps
  <2>2. m = Xudt!Parent(c) /\ m \in 1..(c - 1)
    BY <1>6, <2>1, XudtParent
  <2>3. Xudt!Origin[c] = Xudt!Origin[m]
    BY <1>1, <2>1, <2>2 DEF IsLineOf, IsOrigin
  <2> QED
    BY <1>5, <2>1, <2>2, <2>3
<1>7. ASSUME NEW j \in T, j # m
      PROVE  j \in Xudt!Objects /\ j \in Xudt!Spent
  <2>1. m \in Nat /\ j \in 0..(m - 1) /\ Xudt!Origin[j] = Xudt!Origin[m]
    BY <1>2, <1>5, <1>7
  <2>2. PICK c \in Xudt!Steps : p[c] = j
    <3>1. PICK f, steps : f = Xudt!Origin /\ steps = Xudt!Steps
      OBVIOUS
    <3>2. /\ Earlier(steps, p) /\ IsOrigin(f, steps, p)
          /\ OneChild(steps, p) /\ f[j] = f[m]
      BY <1>1, <2>1, <3>1 DEF IsLineOf
    <3> HIDE DEF T
    <3>3. \E c \in steps : c <= m /\ p[c] = j
      BY <2>1, <3>2, LineGoesOn
    <3> QED
      BY <3>1, <3>3
  <2>3. j = Xudt!Parent(c)
    BY <1>1, <2>2 DEF IsLineOf
  <2>4. j \in Xudt!Objects /\ c \in DOMAIN ledger /\ j \in ledger[c].spent
    BY <2>3, XudtParent
  <2> QED
    BY <2>4 DEF Xudt!Spent
<1> QED
  BY <1>5, <1>6, <1>7 DEF Xudt!Spent
-----------------------------------------------------------------------------
(***************************************************************************)
(* What the profile promises.                                              *)
(***************************************************************************)

\* The type invariant of the profile.
LEMMA XudtTypeCorrect == XudtInv => Xudt!TypeOK
<1> SUFFICES ASSUME XudtInv
             PROVE  Xudt!TypeOK
  OBVIOUS
<1>1. \A s \in signed : s[1] \in AssetKeys
  BY DEF XudtInv, XudtSigned
<1>2. ASSUME NEW j \in DOMAIN ledger
      PROVE  ledger[j].spent \subseteq Xudt!Objects \cap 1..(j - 1)
  <2>1. CASE j \in Xudt!Steps
    BY <2>1, XudtParent
  <2>2. CASE j \notin Xudt!Steps
    BY <1>2, <2>2 DEF Xudt!Steps
  <2> QED
    BY <2>1, <2>2
<1> QED
  BY <1>1, <1>2 DEF XudtInv, XudtTypes, IsObject, Xudt!TypeOK

\* Numbers of objects, as the profile's module counts them.
LEMMA XudtCardinality ==
  ASSUME NEW S
  PROVE  Xudt!Cardinality(S) = Cardinality(S)
BY DEF Xudt!Cardinality, Cardinality

\* Supply is conserved on a ledger with the invariant.
LEMMA XudtSupply == XudtInv => Xudt!SupplyConserved
<1> SUFFICES ASSUME XudtInv, NEW k \in DOMAIN ledger \ Xudt!Steps
             PROVE  LET issued  == ledger[k].receipt.core.transfer_amount
                        holding == {j \in Xudt!Live : Xudt!Origin[j] = k}
                        settled == {j \in DOMAIN ledger \ Xudt!Objects : Xudt!Origin[j] = k} IN
                    /\ Xudt!Cardinality(holding) + Xudt!Cardinality(settled) = 1
                    /\ \A j \in holding : ledger[j].cell.amount = issued
                    /\ \A j \in settled : ledger[j].receipt.core.transfer_amount = issued
  BY DEF Xudt!SupplyConserved
<1> DEFINE issued  == ledger[k].receipt.core.transfer_amount
           holding == {j \in Xudt!Live : Xudt!Origin[j] = k}
           settled == {j \in DOMAIN ledger \ Xudt!Objects : Xudt!Origin[j] = k}
<1>1. PICK m \in DOMAIN ledger :
        /\ Xudt!Origin[m] = k
        /\ m \notin Xudt!Spent
        /\ \A j \in DOMAIN ledger :
             Xudt!Origin[j] = k => j = m \/ (j \in Xudt!Objects /\ j \in Xudt!Spent)
  BY XudtLastOfLine
<1>2. Xudt!Objects \subseteq DOMAIN ledger
  BY DEF Xudt!Objects
<1>3. Xudt!Cardinality(holding) + Xudt!Cardinality(settled) = 1
  <2>1. CASE m \in Xudt!Objects
    <3>1. holding = {m} /\ settled = {}
      BY <1>1, <1>2, <2>1 DEF Xudt!Live
    <3> HIDE DEF holding, settled
    <3>2. Cardinality(holding) = 1
      BY <3>1, FS_Singleton
    <3>3. Cardinality(settled) = 0
      BY <3>1, FS_EmptySet
    <3> QED
      BY <3>2, <3>3, XudtCardinality
  <2>2. CASE m \notin Xudt!Objects
    <3>1. holding = {} /\ settled = {m}
      BY <1>1, <1>2, <2>2 DEF Xudt!Live
    <3> HIDE DEF holding, settled
    <3>2. Cardinality(holding) = 0
      BY <3>1, FS_EmptySet
    <3>3. Cardinality(settled) = 1
      BY <3>1, FS_Singleton
    <3> QED
      BY <3>2, <3>3, XudtCardinality
  <2> QED
    BY <2>1, <2>2
<1>4. ASSUME NEW j \in DOMAIN ledger, Xudt!Origin[j] = k
      PROVE  ledger[j].receipt.core.transfer_amount = issued
  BY <1>4, XudtInLine DEF RepeatsIssue, XudtCore
<1>5. ASSUME NEW j \in holding
      PROVE  ledger[j].cell.amount = issued
  <2>1. j \in Xudt!Objects /\ Xudt!Origin[j] = k
    BY DEF Xudt!Live
  <2> QED
    BY <1>2, <1>4, <2>1, ObjectOfReceipt DEF XudtCore
<1> QED
  BY <1>3, <1>4, <1>5

\* The receipts trace the line on a ledger with the invariant.
LEMMA XudtTrace == XudtInv => Xudt!ReceiptsTraceTheLine
<1> SUFFICES ASSUME XudtInv, NEW j \in DOMAIN ledger
             PROVE  LET receipt == ledger[j].receipt IN
                    /\ ledger[j].epoch <= ledger[Xudt!Origin[j]].receipt.core.expiry + HeaderLag
                    /\ j \in Xudt!Objects =>
                         /\ ledger[j].cell.latest_receipt_hash = receipt.latest_receipt_hash
                         /\ ledger[j].cell.holder = receipt.core.new_holder
                         /\ ledger[j].cell.nonce = receipt.core.new_nonce
                    /\ j \in Xudt!Steps =>
                         LET before == ledger[Xudt!Parent(j)].receipt.core IN
                         /\ receipt.core.old_holder = before.new_holder
                         /\ receipt.core.old_nonce = before.new_nonce
                         /\ receipt.core.new_nonce = before.new_nonce + 1
                         /\ receipt.core.asset_id = before.asset_id
                         /\ receipt.core.xudt_type_hash = before.xudt_type_hash
  BY DEF Xudt!ReceiptsTraceTheLine
<1>1. ledger[j].epoch <= ledger[Xudt!Origin[j]].receipt.core.expiry + HeaderLag
  BY XudtInLine DEF RepeatsIssue, XudtCore
<1>2. j \in Xudt!Objects =>
        /\ ledger[j].cell.latest_receipt_hash = ledger[j].receipt.latest_receipt_hash
        /\ ledger[j].cell.holder = ledger[j].receipt.core.new_holder
        /\ ledger[j].cell.nonce = ledger[j].receipt.core.new_nonce
  BY ObjectOfReceipt DEF XudtCore
<1> QED
  BY <1>1, <1>2, XudtStep DEF XudtCore

\* On a ledger of balances what an issue receipt says was issued is, at any time,
\* what the line's one live object holds or what its one settlement pays
\* (amount_conservation and settlement_terminal of the lifecycle type).
THEOREM SupplyIsConserved == Spec => []SupplyConserved
<1>1. (IsXudt => XudtInv) => SupplyConserved
  BY XudtSupply DEF SupplyConserved
<1> QED
  BY <1>1, XudtSpecInv, PTL

\* The receipts of a balance, each a nonce beyond the one before, trace its line
\* within the expiry its issuer signed (the receipt and nonce checks of the
\* lifecycle type).
THEOREM ReceiptsTrace == Spec => []ReceiptsTraceTheLine
<1>1. (IsXudt => XudtInv) => ReceiptsTraceTheLine
  BY XudtTrace DEF ReceiptsTraceTheLine
<1> QED
  BY <1>1, XudtSpecInv, PTL

-----------------------------------------------------------------------------
(***************************************************************************)
(* Fungible xUDT: the accounts.  A balance is a sum over the ledger; a     *)
(* transaction changes the sums by what it spends and what it creates.     *)
(***************************************************************************)

\* What a party holds of a kind, and what has been paid of it, as sums.
XudtBalance(k, p) == SumOf(Xudt!Held(k, p), Len(ledger))
XudtRedeemed(k) == SumOf(Xudt!Paid(k), Len(ledger))

XudtSums ==
  /\ Xudt!Balances = [k \in Xudt!Kinds |-> [p \in AssetKeys |-> XudtBalance(k, p)]]
  /\ Xudt!Redeemed = [k \in Xudt!Kinds |-> XudtRedeemed(k)]

\* The total over a ledger is a sum.
LEMMA XudtSumsHold == XudtSums
<1>1. ASSUME NEW f
      PROVE  Xudt!Total(f) = SumOf(f, Len(ledger))
  BY DEF Xudt!Total, SumOf
<1>2. ASSUME NEW k, NEW p
      PROVE  Xudt!Total(Xudt!Held(k, p)) = XudtBalance(k, p)
  BY <1>1 DEF XudtBalance
<1>3. ASSUME NEW k
      PROVE  Xudt!Total(Xudt!Paid(k)) = XudtRedeemed(k)
  BY <1>1 DEF XudtRedeemed
<1> QED
  BY <1>2, <1>3 DEF XudtSums, Xudt!Balances, Xudt!Redeemed

\* The kind and the deadline of an object are among those offered.
XudtKnown ==
  \A j \in Xudt!Objects :
    /\ Xudt!KindOf(ledger[j].cell) \in Xudt!Kinds
    /\ ledger[j].cell.expiry \in {o.expiry : o \in XudtOffers}

\* A successor repeats the kind and the deadline of the object it takes up.
LEMMA XudtKnownHolds ==
  ASSUME XudtInv
  PROVE  XudtKnown
<1> DEFINE Known(j) == /\ Xudt!KindOf(ledger[j].cell) \in Xudt!Kinds
                       /\ ledger[j].cell.expiry \in {o.expiry : o \in XudtOffers}
           S == {n \in Nat : n \in Xudt!Objects => Known(n)}
<1>1. ASSUME NEW n \in Nat, \A k \in 0..(n - 1) : k \in S, n \in Xudt!Objects
      PROVE  Known(n)
  <2>1. n \in DOMAIN ledger /\ ledger[n].cell # Xudt!NoCell
    BY <1>1 DEF Xudt!Objects
  <2>2. CASE IsIssue(n)
    <3>1. PICK core : core = XudtCore(n)
      OBVIOUS
    <3>2. PICK o \in XudtOffers : core = Xudt!IssueCore(o)
      BY <2>2, <3>1 DEF IsIssue
    <3>3. ledger[n].cell = Xudt!Issued(core)
      BY <2>2, <3>1 DEF IsIssue
    <3>4. /\ ledger[n].cell.asset_id = o.asset_id
          /\ ledger[n].cell.xudt_type_hash = o.xudt_type_hash
          /\ ledger[n].cell.issuer = o.issuer /\ ledger[n].cell.expiry = o.expiry
      BY <3>2, <3>3, IssueFields, IssuedFields
    <3>5. Xudt!KindOf(ledger[n].cell) = Xudt!KindOf(o)
      BY <3>4 DEF Xudt!KindOf
    <3> QED
      BY <3>4, <3>5 DEF Xudt!Kinds
  <2>3. CASE \E i \in 1..(n - 1) : IsTransfer(i, n)
    <3>1. PICK i \in 1..(n - 1) : IsTransfer(i, n)
      BY <2>3
    <3>2. PICK old : old = ledger[i].cell
      OBVIOUS
    <3>3. i \in Xudt!Objects /\ DOMAIN old = ObjectFields
      BY <3>1, <3>2 DEF IsTransfer, IsStep, XudtInv, XudtTypes, IsObject
    <3>4. PICK core, cell : cell = ledger[n].cell /\ cell = Xudt!Transferred(old, core)
      BY <3>1, <3>2 DEF IsTransfer
    <3>5. /\ cell.asset_id = old.asset_id /\ cell.xudt_type_hash = old.xudt_type_hash
          /\ cell.issuer = old.issuer /\ cell.expiry = old.expiry
      BY <3>3, <3>4 DEF Xudt!Transferred, ObjectFields
    <3>6. Known(i)
      <4>1. i \in 0..(n - 1)
        OBVIOUS
      <4> QED
        BY <1>1, <3>3, <4>1
    <3>7. Xudt!KindOf(cell) = Xudt!KindOf(old)
      BY <3>5 DEF Xudt!KindOf
    <3> QED
      BY <3>2, <3>4, <3>5, <3>6, <3>7
  <2> QED
    BY <2>1, <2>2, <2>3 DEF XudtInv, XudtHistory, IsSettlement
<1>2. \A n \in Nat : (\A k \in 0..(n - 1) : k \in S) => n \in S
  BY <1>1
<1>3. Nat \subseteq S
  <2> HIDE DEF S
  <2> QED
    BY <1>2, LineInduction
<1>4. Xudt!Objects \subseteq Nat
  BY XudtPositions DEF XudtInv, Xudt!Objects
<1> QED
  BY <1>3, <1>4 DEF XudtKnown

XudtAmounts ==
  /\ Len(ledger) \in Nat
  /\ \A k, p : Xudt!Held(k, p) \in [1..Len(ledger) -> Nat]
  /\ \A k : Xudt!Paid(k) \in [1..Len(ledger) -> Nat]

\* What the objects hold and the settlements paid are amounts.
LEMMA XudtAmountsHold == XudtInv => XudtAmounts
<1> SUFFICES ASSUME XudtInv
             PROVE  XudtAmounts
  OBVIOUS
<1>1. Len(ledger) \in Nat /\ DOMAIN ledger = 1..Len(ledger)
  BY XudtPositions DEF XudtInv
<1>2. \A j \in Xudt!Objects : ledger[j].cell.amount \in Nat
  BY XudtConstants DEF XudtInv, XudtTypes, IsObject
<1>3. ASSUME NEW k, NEW p
      PROVE  Xudt!Held(k, p) \in [1..Len(ledger) -> Nat]
  BY <1>2 DEF Xudt!Held, Xudt!Live
<1>4. ASSUME NEW j \in DOMAIN ledger, j \notin Xudt!Objects
      PROVE  XudtCore(j).transfer_amount \in Nat
  <2>1. ledger[j].cell = Xudt!NoCell
    BY <1>4 DEF Xudt!Objects
  <2>2. CASE IsIssue(j)
    <3>1. PICK core : core = XudtCore(j)
      OBVIOUS
    <3>2. PICK o \in XudtOffers : core = Xudt!IssueCore(o)
      BY <2>2, <3>1 DEF IsIssue
    <3> QED
      BY <3>1, <3>2, IssueFields, XudtConstants
  <2>3. CASE \E i \in 1..(j - 1) : IsTransfer(i, j) \/ IsSettlement(i, j)
    <3>1. PICK i \in 1..(j - 1) : IsTransfer(i, j) \/ IsSettlement(i, j)
      BY <2>3
    <3>2. PICK core, old : core = XudtCore(j) /\ old = ledger[i].cell
      OBVIOUS
    <3>3. PICK op \in {Xudt!OP_TRANSFER, Xudt!OP_SETTLE} :
            core = Xudt!StepCore(op, old, core.new_holder)
      BY <3>1, <3>2 DEF IsTransfer, IsSettlement, IsStep
    <3>4. old.amount \in Nat
      BY <1>2, <3>1, <3>2 DEF IsTransfer, IsSettlement, IsStep
    <3> QED
      BY <3>2, <3>3, <3>4, StepFields
  <2> QED
    BY <2>2, <2>3 DEF XudtInv, XudtHistory
<1>5. ASSUME NEW k
      PROVE  Xudt!Paid(k) \in [1..Len(ledger) -> Nat]
  BY <1>1, <1>4 DEF Xudt!Paid, XudtCore
<1> QED
  BY <1>1, <1>3, <1>5 DEF XudtAmounts

\* The same after a step.
LEMMA XudtAmountsAfter ==
  ASSUME XudtInv'
  PROVE  XudtAmounts' /\ XudtSums'
  BY XudtAmountsHold, XudtSumsHold, PTL

\* What a transaction adds to what a party holds, and to what has been paid.
HeldBy(cell, k, p) ==
  IF cell # Xudt!NoCell /\ Xudt!KindOf(cell) = k /\ cell.holder = p THEN cell.amount ELSE 0

PaidBy(cell, core, k) ==
  IF cell = Xudt!NoCell /\ Xudt!KindOf(core) = k THEN core.transfer_amount ELSE 0

\* A transaction takes away what it spends and adds what it creates.
LEMMA AmountsAfterCommit ==
  ASSUME XudtInv, NEW spent, NEW cell, NEW receipt, Xudt!Commit(spent, cell, receipt),
         spent \subseteq Xudt!Live, NEW n, n = Len(ledger)
  PROVE  /\ Len(ledger') = n + 1
         /\ \A k, p :
              /\ \A j \in 1..n : (Xudt!Held(k, p)[j])' =
                                   IF j \in spent THEN 0 ELSE Xudt!Held(k, p)[j]
              /\ (Xudt!Held(k, p)[n + 1])' = HeldBy(cell, k, p)
         /\ \A k : /\ \A j \in 1..n : (Xudt!Paid(k)[j])' = Xudt!Paid(k)[j]
                   /\ (Xudt!Paid(k)[n + 1])' = PaidBy(cell, receipt.core, k)
<1> DEFINE e == [spent |-> spent, cell |-> cell, receipt |-> receipt, epoch |-> tip]
<1>1. ledger' = Append(ledger, e)
  BY DEF Xudt!Commit
<1>2. IsSequence(ledger)
  BY DEF XudtInv, XudtTypes
<1>3. e.spent = spent /\ e.cell = cell /\ e.receipt = receipt
  OBVIOUS
<1> HIDE DEF e
<1>4. /\ n \in Nat /\ DOMAIN ledger = 1..n /\ Len(ledger') = n + 1
      /\ DOMAIN ledger' = 1..(n + 1)
      /\ \A j \in 1..n : ledger'[j] = ledger[j]
      /\ ledger'[n + 1] = e
  BY <1>1, <1>2, AppendFacts
<1>5. \A j \in 1..n : ledger[j].spent \subseteq 1..n
  <2>1. ASSUME NEW j \in 1..n
        PROVE  ledger[j].spent \subseteq 1..n
    <3>1. CASE IsIssue(j)
      BY <3>1 DEF IsIssue
    <3>2. CASE \E i \in 1..(j - 1) : IsTransfer(i, j) \/ IsSettlement(i, j)
      <4>1. PICK i \in 1..(j - 1) : ledger[j].spent = {i}
        BY <3>2 DEF IsTransfer, IsSettlement, IsStep
      <4> QED
        BY <1>4, <4>1
    <3> QED
      BY <1>4, <3>1, <3>2 DEF XudtInv, XudtHistory
  <2> QED
    BY <2>1
<1>6. spent \subseteq 1..n
  BY <1>4 DEF Xudt!Live, Xudt!Objects
<1>7. n + 1 \notin 1..n /\ 1..(n + 1) = 1..n \cup {n + 1}
  BY <1>4
<1>8. Xudt!Spent' = Xudt!Spent \cup spent
  BY <1>3, <1>4, <1>7 DEF Xudt!Spent
<1>9. \A j \in 1..n : /\ j \in Xudt!Objects' <=> j \in Xudt!Objects
                      /\ j \in Xudt!Live' <=> j \in Xudt!Live /\ j \notin spent
  BY <1>4, <1>7, <1>8 DEF Xudt!Objects, Xudt!Live
<1>10. n + 1 \in Xudt!Objects' <=> cell # Xudt!NoCell
  BY <1>3, <1>4, <1>7 DEF Xudt!Objects
<1>11. n + 1 \in Xudt!Live' <=> cell # Xudt!NoCell
  <2>1. n + 1 \notin Xudt!Spent'
    BY <1>4, <1>5, <1>6, <1>7, <1>8 DEF Xudt!Spent
  <2> QED
    BY <1>10, <2>1 DEF Xudt!Live
<1>12. ASSUME NEW k, NEW p
       PROVE  /\ \A j \in 1..n : (Xudt!Held(k, p)[j])' =
                                   IF j \in spent THEN 0 ELSE Xudt!Held(k, p)[j]
              /\ (Xudt!Held(k, p)[n + 1])' = HeldBy(cell, k, p)
  <2>1. ASSUME NEW j \in 1..n
        PROVE  (Xudt!Held(k, p)[j])' = IF j \in spent THEN 0 ELSE Xudt!Held(k, p)[j]
    BY <1>4, <1>7, <1>9, <2>1 DEF Xudt!Held
  <2>2. (Xudt!Held(k, p)[n + 1])' = HeldBy(cell, k, p)
    BY <1>3, <1>4, <1>7, <1>11 DEF Xudt!Held, HeldBy
  <2> QED
    BY <2>1, <2>2
<1>13. ASSUME NEW k
       PROVE  /\ \A j \in 1..n : (Xudt!Paid(k)[j])' = Xudt!Paid(k)[j]
              /\ (Xudt!Paid(k)[n + 1])' = PaidBy(cell, receipt.core, k)
  <2>1. ASSUME NEW j \in 1..n
        PROVE  (Xudt!Paid(k)[j])' = Xudt!Paid(k)[j]
    BY <1>4, <1>7, <1>9, <2>1 DEF Xudt!Paid
  <2>2. (Xudt!Paid(k)[n + 1])' = PaidBy(cell, receipt.core, k)
    BY <1>3, <1>4, <1>7, <1>10 DEF Xudt!Paid, PaidBy
  <2> QED
    BY <2>1, <2>2
<1> QED
  BY <1>4, <1>12, <1>13

XudtBalancesTyped ==
  /\ \A k, p : XudtBalance(k, p) \in Nat
  /\ \A k : XudtRedeemed(k) \in Nat

\* Balances are amounts.
LEMMA BalancesAreAmounts == XudtInv => XudtBalancesTyped
<1> SUFFICES ASSUME XudtInv
             PROVE  XudtBalancesTyped
  OBVIOUS
<1>1. ASSUME NEW k, NEW p
      PROVE  XudtBalance(k, p) \in Nat
  <2>1. PICK f, n : f = Xudt!Held(k, p) /\ n = Len(ledger)
    OBVIOUS
  <2>2. n \in Nat /\ f \in [1..n -> Nat]
    BY <2>1, XudtAmountsHold DEF XudtAmounts
  <2> QED
    BY <2>1, <2>2, SumOfIs DEF XudtBalance
<1>2. ASSUME NEW k
      PROVE  XudtRedeemed(k) \in Nat
  <2>1. PICK f, n : f = Xudt!Paid(k) /\ n = Len(ledger)
    OBVIOUS
  <2>2. n \in Nat /\ f \in [1..n -> Nat]
    BY <2>1, XudtAmountsHold DEF XudtAmounts
  <2> QED
    BY <2>1, <2>2, SumOfIs DEF XudtRedeemed
<1> QED
  BY <1>1, <1>2 DEF XudtBalancesTyped

\* The same after a step.
LEMMA BalancesAfter ==
  ASSUME XudtInv'
  PROVE  XudtBalancesTyped'
BY BalancesAreAmounts, PTL

\* What has been paid stays paid, and a settlement adds to it.
LEMMA RedeemedAfterCommit ==
  ASSUME XudtInv, XudtInv', NEW spent, NEW cell, NEW receipt,
         Xudt!Commit(spent, cell, receipt), spent \subseteq Xudt!Live, NEW k
  PROVE  XudtRedeemed(k)' = XudtRedeemed(k) + PaidBy(cell, receipt.core, k)
<1>1. PICK n : n = Len(ledger)
  OBVIOUS
<1>2. n \in Nat /\ Len(ledger') = n + 1
  BY <1>1, AmountsAfterCommit, XudtAmountsHold DEF XudtAmounts
<1>3. PICK f, g : f = Xudt!Paid(k) /\ g = Xudt!Paid(k)'
  OBVIOUS
<1>4. f \in [1..n -> Nat] /\ g \in [1..(n + 1) -> Nat]
  BY <1>1, <1>2, <1>3, XudtAmountsHold, XudtAmountsAfter DEF XudtAmounts
<1>5. (\A j \in 1..n : g[j] = f[j]) /\ g[n + 1] = PaidBy(cell, receipt.core, k)
  BY <1>1, <1>3, AmountsAfterCommit
<1>6. SumOf(g, n + 1) = SumOf(f, n) + g[n + 1]
  BY <1>2, <1>4, <1>5, SumGrows
<1> QED
  BY <1>1, <1>2, <1>3, <1>5, <1>6 DEF XudtRedeemed

\* An issue adds to a balance and takes nothing.
LEMMA BalancesAfterIssue ==
  ASSUME XudtInv, XudtInv', NEW spent, spent = {}, NEW cell, NEW receipt,
         Xudt!Commit(spent, cell, receipt), NEW k, NEW p
  PROVE  XudtBalance(k, p)' = XudtBalance(k, p) + HeldBy(cell, k, p)
<1>1. PICK n : n = Len(ledger)
  OBVIOUS
<1>2. spent \subseteq Xudt!Live
  OBVIOUS
<1>3. n \in Nat /\ Len(ledger') = n + 1
  BY <1>1, <1>2, AmountsAfterCommit, XudtAmountsHold DEF XudtAmounts
<1>4. PICK f, g : f = Xudt!Held(k, p) /\ g = Xudt!Held(k, p)'
  OBVIOUS
<1>5. f \in [1..n -> Nat] /\ g \in [1..(n + 1) -> Nat]
  BY <1>1, <1>3, <1>4, XudtAmountsHold, XudtAmountsAfter DEF XudtAmounts
<1>6. (\A j \in 1..n : g[j] = f[j]) /\ g[n + 1] = HeldBy(cell, k, p)
  BY <1>1, <1>2, <1>4, AmountsAfterCommit
<1>7. SumOf(g, n + 1) = SumOf(f, n) + g[n + 1]
  BY <1>3, <1>5, <1>6, SumGrows
<1> QED
  BY <1>1, <1>3, <1>4, <1>6, <1>7 DEF XudtBalance

\* A step takes what the object held from a balance that had it.
LEMMA BalancesAfterStep ==
  ASSUME XudtInv, XudtInv', NEW spent, NEW i \in Xudt!Live, spent = {i},
         NEW cell, NEW receipt, Xudt!Commit(spent, cell, receipt), NEW k, NEW p
  PROVE  LET held == HeldBy(ledger[i].cell, k, p) IN
         /\ XudtBalance(k, p)' + held = XudtBalance(k, p) + HeldBy(cell, k, p)
         /\ held <= XudtBalance(k, p)
<1>1. PICK n : n = Len(ledger)
  OBVIOUS
<1>2. spent \subseteq Xudt!Live
  OBVIOUS
<1>3. n \in Nat /\ Len(ledger') = n + 1
  BY <1>1, <1>2, AmountsAfterCommit, XudtAmountsHold DEF XudtAmounts
<1>4. i \in 1..n
  BY <1>1, XudtPositions DEF XudtInv, Xudt!Live, Xudt!Objects
<1>5. PICK f, g : f = Xudt!Held(k, p) /\ g = Xudt!Held(k, p)'
  OBVIOUS
<1>6. f \in [1..n -> Nat] /\ g \in [1..(n + 1) -> Nat]
  BY <1>1, <1>3, <1>5, XudtAmountsHold, XudtAmountsAfter DEF XudtAmounts
<1>7. \A j \in 1..n : g[j] = IF j \in spent THEN 0 ELSE f[j]
  BY <1>1, <1>2, <1>5, AmountsAfterCommit
<1>8. g[n + 1] = HeldBy(cell, k, p)
  BY <1>1, <1>2, <1>5, AmountsAfterCommit
<1>9. f[i] = HeldBy(ledger[i].cell, k, p)
  BY <1>1, <1>4, <1>5 DEF Xudt!Held, HeldBy, Xudt!Live, Xudt!Objects
<1>10. g[i] = 0 /\ \A j \in 1..n : j # i => g[j] = f[j]
  BY <1>4, <1>7
<1>11. SumOf(g, n + 1) + f[i] = SumOf(f, n) + g[n + 1]
  BY <1>3, <1>4, <1>6, <1>10, SumMoves
<1>12. f[i] <= SumOf(f, n)
  BY <1>3, <1>4, <1>6, SumCovers
<1> QED
  BY <1>1, <1>3, <1>5, <1>8, <1>9, <1>11, <1>12 DEF XudtBalance

\* A table of balances that is credited at one place.
LEMMA Credited ==
  ASSUME NEW K, NEW P, NEW b \in [K -> [P -> Nat]], NEW c \in [K -> [P -> Nat]],
         NEW kind \in K, NEW to \in P, NEW amount,
         \A k \in K, p \in P :
           c[k][p] = IF k = kind /\ p = to THEN b[k][p] + amount ELSE b[k][p]
  PROVE  c = [b EXCEPT ![kind][to] = @ + amount]
<1> DEFINE d == [b EXCEPT ![kind][to] = @ + amount]
<1>1. ASSUME NEW k \in K
      PROVE  c[k] = d[k]
  <2>1. c[k] \in [P -> Nat] /\ b[k] \in [P -> Nat]
    OBVIOUS
  <2>2. CASE k = kind
    <3>1. d[k] = [b[kind] EXCEPT ![to] = @ + amount]
      BY <2>2
    <3> QED
      BY <2>1, <2>2, <3>1
  <2>3. CASE k # kind
    <3>1. d[k] = b[k]
      BY <2>3
    <3> QED
      BY <2>1, <2>3, <3>1
  <2> QED
    BY <2>2, <2>3
<1>2. DOMAIN d = K /\ d = [k \in K |-> d[k]]
  OBVIOUS
<1> HIDE DEF d
<1>3. c = d
  BY <1>1, <1>2
<1> QED
  BY <1>3 DEF d

\* The same, debited.
LEMMA Debited ==
  ASSUME NEW K, NEW P, NEW b \in [K -> [P -> Nat]], NEW c \in [K -> [P -> Nat]],
         NEW kind \in K, NEW by \in P, NEW amount,
         \A k \in K, p \in P :
           c[k][p] = IF k = kind /\ p = by THEN b[k][p] - amount ELSE b[k][p]
  PROVE  c = [b EXCEPT ![kind][by] = @ - amount]
<1> DEFINE d == [b EXCEPT ![kind][by] = @ - amount]
<1>1. ASSUME NEW k \in K
      PROVE  c[k] = d[k]
  <2>1. c[k] \in [P -> Nat] /\ b[k] \in [P -> Nat]
    OBVIOUS
  <2>2. CASE k = kind
    <3>1. d[k] = [b[kind] EXCEPT ![by] = @ - amount]
      BY <2>2
    <3> QED
      BY <2>1, <2>2, <3>1
  <2>3. CASE k # kind
    <3>1. d[k] = b[k]
      BY <2>3
    <3> QED
      BY <2>1, <2>3, <3>1
  <2> QED
    BY <2>2, <2>3
<1>2. DOMAIN d = K /\ d = [k \in K |-> d[k]]
  OBVIOUS
<1> HIDE DEF d
<1>3. c = d
  BY <1>1, <1>2
<1> QED
  BY <1>3 DEF d

\* The same, moved from one party to another.
LEMMA Moved ==
  ASSUME NEW K, NEW P, NEW b \in [K -> [P -> Nat]], NEW c \in [K -> [P -> Nat]],
         NEW kind \in K, NEW by \in P, NEW to \in P, by # to, NEW amount,
         \A k \in K, p \in P :
           c[k][p] = IF k = kind /\ p = by THEN b[k][p] - amount
                     ELSE IF k = kind /\ p = to THEN b[k][p] + amount ELSE b[k][p]
  PROVE  c = [b EXCEPT ![kind][by] = @ - amount, ![kind][to] = @ + amount]
<1> DEFINE d == [b EXCEPT ![kind][by] = @ - amount, ![kind][to] = @ + amount]
<1>1. ASSUME NEW k \in K
      PROVE  c[k] = d[k]
  <2>1. c[k] \in [P -> Nat] /\ b[k] \in [P -> Nat]
    OBVIOUS
  <2>2. CASE k = kind
    <3>1. d[k] = [[b[kind] EXCEPT ![by] = @ - amount] EXCEPT ![to] = @ + amount]
      BY <2>2
    <3> QED
      BY <2>1, <2>2, <3>1
  <2>3. CASE k # kind
    <3>1. d[k] = b[k]
      BY <2>3
    <3> QED
      BY <2>1, <2>3, <3>1
  <2> QED
    BY <2>2, <2>3
<1>2. DOMAIN d = K /\ d = [k \in K |-> d[k]]
  OBVIOUS
<1> HIDE DEF d
<1>3. c = d
  BY <1>1, <1>2
<1> QED
  BY <1>3 DEF d

\* The mapping, entry by entry.
LEMMA XudtTables ==
  ASSUME XudtInv, XudtInv'
  PROVE  /\ Xudt!Balances \in [Xudt!Kinds -> [AssetKeys -> Nat]]
         /\ Xudt!Balances' \in [Xudt!Kinds -> [AssetKeys -> Nat]]
         /\ Xudt!Redeemed \in [Xudt!Kinds -> Nat] /\ Xudt!Redeemed' \in [Xudt!Kinds -> Nat]
         /\ \A k \in Xudt!Kinds :
              /\ Xudt!Redeemed[k] = XudtRedeemed(k) /\ Xudt!Redeemed'[k] = XudtRedeemed(k)'
              /\ \A p \in AssetKeys : /\ Xudt!Balances[k][p] = XudtBalance(k, p)
                                      /\ Xudt!Balances'[k][p] = XudtBalance(k, p)'
<1>1. XudtSums /\ XudtSums'
  BY XudtSumsHold, XudtAmountsAfter
<1>2. \A k, p : XudtBalance(k, p) \in Nat /\ XudtBalance(k, p)' \in Nat
  BY BalancesAreAmounts, BalancesAfter DEF XudtBalancesTyped
<1>3. \A k : XudtRedeemed(k) \in Nat /\ XudtRedeemed(k)' \in Nat
  BY BalancesAreAmounts, BalancesAfter DEF XudtBalancesTyped
<1> QED
  BY <1>1, <1>2, <1>3 DEF XudtSums

\* What the parties hold stays where it is as long as the ledger does.
LEMMA AccountsKept ==
  ASSUME ledger' = ledger
  PROVE  Xudt!Balances' = Xudt!Balances /\ Xudt!Redeemed' = Xudt!Redeemed
BY DEF Xudt!Balances, Xudt!Redeemed, Xudt!Total, Xudt!Held, Xudt!Paid, Xudt!Live,
       Xudt!Objects, Xudt!Spent

\* The mandate in what a wallet is shown.
LEMMA DraftIsMandate ==
  ASSUME XudtInv, NEW core \in Xudt!Drafts, Xudt!AuthorityOf(core) \in AssetKeys
  PROVE  Xudt!MandateOf(core) \in Xudt!Accounts!Mandate
<1>1. /\ Xudt!KindOf(core) \in Xudt!Kinds /\ core.new_holder \in AssetKeys \cup {Xudt!ZeroHash}
      /\ core.transfer_amount \in Xudt!U64
      /\ core.expiry \in {o.expiry : o \in XudtOffers}
      /\ core.action \in {0, 1, 2}
  <2>1. CASE core \in {Xudt!IssueCore(o) : o \in XudtOffers}
    <3>1. PICK o \in XudtOffers : core = Xudt!IssueCore(o)
      BY <2>1
    <3>2. Xudt!KindOf(core) = Xudt!KindOf(o)
      BY <3>1, IssueFields DEF Xudt!KindOf
    <3> QED
      BY <3>1, <3>2, IssueFields, XudtConstants DEF Xudt!Kinds, Xudt!Holders
  <2>2. ASSUME NEW i \in Xudt!Objects, NEW to \in Xudt!Holders,
               NEW op \in {Xudt!OP_TRANSFER, Xudt!OP_SETTLE},
               core = Xudt!StepCore(op, ledger[i].cell, to)
        PROVE  /\ Xudt!KindOf(core) \in Xudt!Kinds
               /\ core.new_holder \in AssetKeys \cup {Xudt!ZeroHash}
               /\ core.transfer_amount \in Xudt!U64
               /\ core.expiry \in {o.expiry : o \in XudtOffers}
               /\ core.action \in {0, 1, 2}
    <3>1. PICK cell : cell = ledger[i].cell
      OBVIOUS
    <3>2. Xudt!KindOf(core) = Xudt!KindOf(cell)
      BY <2>2, <3>1, StepFields DEF Xudt!KindOf
    <3>3. Xudt!KindOf(cell) \in Xudt!Kinds /\ cell.expiry \in {o.expiry : o \in XudtOffers}
      BY <3>1, XudtKnownHolds DEF XudtKnown
    <3>4. cell.amount \in Xudt!U64
      BY <3>1 DEF XudtInv, XudtTypes, IsObject
    <3> QED
      BY <2>2, <3>1, <3>2, <3>3, <3>4, StepFields
      DEF Xudt!Holders, Xudt!OP_TRANSFER, Xudt!OP_SETTLE
  <2>3. ASSUME NEW i \in Xudt!Objects
        PROVE  ledger[i].cell.holder \in Xudt!Holders
    BY DEF XudtInv, XudtTypes, IsObject, Xudt!Holders
  <2> QED
    BY <2>1, <2>2, <2>3 DEF Xudt!Drafts
<1>2. Xudt!Does[core.action + 1] \in {"issue", "transfer", "settle"}
  BY <1>1 DEF Xudt!Does
<1> QED
  BY <1>1, <1>2 DEF Xudt!MandateOf, Xudt!Accounts!Mandate

\* In the beginning there are no balances and no mandates.
LEMMA AccountsBegin ==
  ASSUME Init, XudtInv
  PROVE  Xudt!Accounts!Init
<1>1. tip = 0 /\ signed = {} /\ Len(ledger) = 0
  BY DEF Init
<1>2. ASSUME NEW f \in [1..0 -> Nat]
      PROVE  SumOf(f, 0) = 0
  <2>1. PICK u : IsSum(u, f, 0) /\ SumOf(f, 0) = u[0]
    BY SumOfIs
  <2> QED
    BY <2>1 DEF IsSum
<1>3. \A k, p : XudtBalance(k, p) = 0
  BY <1>1, <1>2, XudtAmountsHold DEF XudtAmounts, XudtBalance
<1>4. \A k : XudtRedeemed(k) = 0
  BY <1>1, <1>2, XudtAmountsHold DEF XudtAmounts, XudtRedeemed
<1>5. Xudt!Balances = [k \in Xudt!Kinds |-> [p \in AssetKeys |-> 0]]
  BY <1>3, XudtSumsHold DEF XudtSums
<1>6. Xudt!Redeemed = [k \in Xudt!Kinds |-> 0]
  BY <1>4, XudtSumsHold DEF XudtSums
<1>7. Xudt!Mandates = {}
  BY <1>1 DEF Xudt!Mandates
<1> QED
  BY <1>1, <1>5, <1>6, <1>7 DEF Xudt!Accounts!Init

\* The chain moves to its next epoch.
LEMMA XudtTickIsAdvance ==
  ASSUME Xudt!Tick
  PROVE  Xudt!Accounts!Next
<1>1. tip < MaxEpoch /\ tip' = tip + 1 /\ signed' = signed /\ ledger' = ledger
  BY DEF Xudt!Tick
<1>2. Xudt!Mandates' = Xudt!Mandates
  BY <1>1 DEF Xudt!Mandates
<1>3. Xudt!Balances' = Xudt!Balances /\ Xudt!Redeemed' = Xudt!Redeemed
  BY <1>1, AccountsKept
<1> QED
  BY <1>1, <1>2, <1>3 DEF Xudt!Accounts!Next, Xudt!Accounts!Advance

\* The signature of the authority is a mandate; any other is nothing.
LEMMA XudtSignIsGive ==
  ASSUME XudtInv, NEW key \in AssetKeys, NEW core \in Xudt!Drafts, Xudt!Sign(key, core)
  PROVE  [Xudt!Accounts!Next]_(Xudt!Accounts!accounts)
<1>1. signed' = signed \cup {<<key, core>>} /\ tip' = tip /\ ledger' = ledger
  BY DEF Xudt!Sign
<1>2. PICK s : s = <<key, core>>
  OBVIOUS
<1>3. s[1] = key /\ s[2] = core /\ signed' = signed \cup {s}
  BY <1>1, <1>2
<1>4. Xudt!Balances' = Xudt!Balances /\ Xudt!Redeemed' = Xudt!Redeemed
  BY <1>1, AccountsKept
<1>5. CASE key = Xudt!AuthorityOf(core)
  <2>1. PICK m : m = Xudt!MandateOf(core)
    OBVIOUS
  <2>2. m \in Xudt!Accounts!Mandate
    BY <1>5, <2>1, DraftIsMandate
  <2>3. Xudt!Mandates' = Xudt!Mandates \cup {m}
    BY <1>3, <1>5, <2>1 DEF Xudt!Mandates
  <2> QED
    BY <1>1, <1>4, <2>2, <2>3 DEF Xudt!Accounts!Next, Xudt!Accounts!Give
<1>6. CASE key # Xudt!AuthorityOf(core)
  <2>1. Xudt!Mandates' = Xudt!Mandates
    BY <1>3, <1>6 DEF Xudt!Mandates
  <2> QED
    BY <1>1, <1>4, <2>1 DEF Xudt!Accounts!accounts
<1> QED
  BY <1>5, <1>6

\* A signature by its authority is a mandate in force.
LEMMA SignatureMandates ==
  ASSUME NEW core, <<Xudt!AuthorityOf(core), core>> \in signed
  PROVE  Xudt!MandateOf(core) \in Xudt!Mandates
<1>1. PICK s \in signed : s = <<Xudt!AuthorityOf(core), core>>
  OBVIOUS
<1>2. s[1] = Xudt!AuthorityOf(core) /\ s[2] = core
  BY <1>1
<1> QED
  BY <1>2 DEF Xudt!Mandates

\* The parts of a mandate.
LEMMA MandateFields ==
  ASSUME NEW core
  PROVE  LET m == Xudt!MandateOf(core) IN
         /\ m.by = Xudt!AuthorityOf(core) /\ m.kind = Xudt!KindOf(core)
         /\ m.to = core.new_holder /\ m.amount = core.transfer_amount
         /\ m.deadline = core.expiry
         /\ core.action = 0 => m.does = "issue"
         /\ core.action = 1 => m.does = "transfer"
         /\ core.action = 2 => m.does = "settle"
BY DEF Xudt!MandateOf, Xudt!Does

\* An issue adds to the supply by the issuer's mandate.
LEMMA XudtIssueIsIssue ==
  ASSUME XudtInv, XudtInv', NEW s \in signed, NEW now \in Xudt!Presentable(tip),
         Xudt!Issue(s[2], now)
  PROVE  Xudt!Accounts!Next
<1>1. PICK core, none, cell, receipt :
        /\ core = s[2] /\ none = {} /\ cell = Xudt!Issued(core)
        /\ receipt = Xudt!Receipt(core, core.issuer)
  OBVIOUS
<1>2. Xudt!Commit(none, cell, receipt) /\ Xudt!IssueAccepts(core, now)
  BY <1>1 DEF Xudt!Issue
<1>3. PICK o \in XudtOffers : core = Xudt!IssueCore(o)
  BY <1>1, <1>2 DEF Xudt!IssueAccepts, XudtInv, XudtSigned, IsDraft
<1>4. /\ core.action = 0 /\ core.new_holder \in AssetKeys /\ core.expiry \in Xudt!U64
      /\ core.transfer_amount \in Nat /\ core.new_amount = core.transfer_amount
      /\ core.new_holder # Xudt!ZeroHash
      /\ Xudt!KindOf(core) = Xudt!KindOf(o) /\ Xudt!KindOf(core) \in Xudt!Kinds
  <2>1. core.action = 0 /\ core.new_holder \in Xudt!Holders
        /\ core.transfer_amount \in Xudt!U64 /\ core.expiry \in Xudt!U64
    BY <1>3, XudtConstants, IssueFields
  <2>2. Xudt!KindOf(core) = Xudt!KindOf(o)
    BY <1>3, IssueFields DEF Xudt!KindOf
  <2> QED
    BY <1>2, <2>1, <2>2, XudtConstants DEF Xudt!IssueAccepts, Xudt!Holders, Xudt!Kinds
<1>5. PICK m : m = Xudt!MandateOf(core)
  OBVIOUS
<1>6. Xudt!AuthorityOf(core) = core.issuer
  BY <1>4 DEF Xudt!AuthorityOf, Xudt!OP_ISSUE
<1>7. m \in Xudt!Mandates
  BY <1>2, <1>5, <1>6, SignatureMandates DEF Xudt!IssueAccepts, Xudt!SignedBy
<1>8. /\ m.does = "issue" /\ m.by = core.issuer /\ m.kind = Xudt!KindOf(core)
      /\ m.to = core.new_holder /\ m.amount = core.transfer_amount
      /\ m.deadline = core.expiry
  BY <1>4, <1>5, <1>6, MandateFields
<1>9. m.kind.issuer = core.issuer
  BY <1>8 DEF Xudt!KindOf
<1>10. tip <= m.deadline + HeaderLag
  BY <1>2, <1>4, <1>8, XudtTimely DEF Xudt!IssueAccepts
<1>11. /\ cell # Xudt!NoCell /\ Xudt!KindOf(cell) = m.kind
       /\ cell.holder = m.to /\ cell.amount = m.amount
  <2>1. /\ cell.asset_id = core.asset_id /\ cell.xudt_type_hash = core.xudt_type_hash
        /\ cell.issuer = core.issuer /\ cell.holder = core.new_holder
        /\ cell.amount = core.new_amount /\ DOMAIN cell = ObjectFields
    BY <1>1, IssuedFields
  <2>2. cell # Xudt!NoCell
    BY <2>1 DEF Xudt!NoCell, ObjectFields
  <2> QED
    BY <1>4, <1>8, <2>1, <2>2 DEF Xudt!KindOf
<1>12. ASSUME NEW k \in Xudt!Kinds, NEW p \in AssetKeys
       PROVE  XudtBalance(k, p)' = IF k = m.kind /\ p = m.to
                                   THEN XudtBalance(k, p) + m.amount ELSE XudtBalance(k, p)
  <2>1. XudtBalance(k, p)' = XudtBalance(k, p) + HeldBy(cell, k, p)
    BY <1>1, <1>2, BalancesAfterIssue
  <2>2. XudtBalance(k, p) \in Nat
    BY BalancesAreAmounts DEF XudtBalancesTyped
  <2> QED
    BY <1>11, <2>1, <2>2 DEF HeldBy
<1>13. ASSUME NEW k \in Xudt!Kinds
       PROVE  XudtRedeemed(k)' = XudtRedeemed(k)
  <2>1. none \subseteq Xudt!Live
    BY <1>1
  <2>2. XudtRedeemed(k)' = XudtRedeemed(k) + PaidBy(cell, receipt.core, k)
    BY <1>2, <2>1, RedeemedAfterCommit
  <2>3. XudtRedeemed(k) \in Nat
    BY BalancesAreAmounts DEF XudtBalancesTyped
  <2> QED
    BY <1>11, <2>2, <2>3 DEF PaidBy
<1>14. Xudt!Balances' = [Xudt!Balances EXCEPT ![m.kind][m.to] = @ + m.amount]
  <2>1. PICK b, c : b = Xudt!Balances /\ c = Xudt!Balances'
    OBVIOUS
  <2>2. PICK kind, to, amount : kind = m.kind /\ to = m.to /\ amount = m.amount
    OBVIOUS
  <2>3. b \in [Xudt!Kinds -> [AssetKeys -> Nat]] /\ c \in [Xudt!Kinds -> [AssetKeys -> Nat]]
    BY <2>1, XudtTables
  <2>4. \A k \in Xudt!Kinds, p \in AssetKeys :
          c[k][p] = IF k = kind /\ p = to THEN b[k][p] + amount ELSE b[k][p]
    BY <1>12, <2>1, <2>2, XudtTables
  <2>5. kind \in Xudt!Kinds /\ to \in AssetKeys
    BY <1>4, <1>8, <2>2
  <2>6. c = [b EXCEPT ![kind][to] = @ + amount]
    BY <2>3, <2>4, <2>5, Credited
  <2> QED
    BY <2>1, <2>2, <2>6
<1>15. Xudt!Redeemed' = Xudt!Redeemed
  BY <1>13, XudtTables
<1>16. tip' = tip /\ Xudt!Mandates' = Xudt!Mandates
  BY <1>2 DEF Xudt!Commit, Xudt!Mandates
<1>17. Xudt!Accounts!Issue(m)
  BY <1>4, <1>8, <1>9, <1>10, <1>14, <1>15, <1>16
  DEF Xudt!Accounts!Issue, Xudt!Accounts!InTime
<1> QED
  BY <1>7, <1>17 DEF Xudt!Accounts!Next

\* What a step takes up, and the mandate it is taken by.
LEMMA StepMandate ==
  ASSUME XudtInv, NEW op \in {Xudt!OP_TRANSFER, Xudt!OP_SETTLE}, NEW i \in Xudt!Live,
         NEW core, core = Xudt!StepCore(op, ledger[i].cell, core.new_holder),
         <<ledger[i].cell.holder, core>> \in signed,
         NEW now \in Xudt!Presentable(tip), now <= ledger[i].cell.expiry
  PROVE  LET m   == Xudt!MandateOf(core)
             old == ledger[i].cell IN
         /\ m \in Xudt!Mandates /\ m.by = old.holder /\ m.kind = Xudt!KindOf(old)
         /\ m.to = core.new_holder /\ m.amount = old.amount
         /\ m.does = IF op = Xudt!OP_TRANSFER THEN "transfer" ELSE "settle"
         /\ tip <= m.deadline + HeaderLag
         /\ Xudt!KindOf(core) = Xudt!KindOf(old) /\ core.transfer_amount = old.amount
         /\ old # Xudt!NoCell /\ DOMAIN old = ObjectFields
         /\ old.holder \in AssetKeys /\ old.amount \in Nat
         /\ Xudt!KindOf(old) \in Xudt!Kinds
<1>1. PICK old, m : old = ledger[i].cell /\ m = Xudt!MandateOf(core)
  OBVIOUS
<1>2. i \in Xudt!Objects /\ old # Xudt!NoCell
  BY <1>1 DEF Xudt!Live, Xudt!Objects
<1>3. IsObject(old) /\ Xudt!KindOf(old) \in Xudt!Kinds
  BY <1>1, <1>2, XudtKnownHolds DEF XudtKnown, XudtInv, XudtTypes
<1>4. old.holder \in AssetKeys /\ old.amount \in Nat /\ old.expiry \in Xudt!U64
      /\ DOMAIN old = ObjectFields
  BY <1>3, XudtConstants DEF IsObject
<1>5. /\ core.action = op /\ op # 0 /\ core.old_holder = old.holder
      /\ core.transfer_amount = old.amount /\ core.expiry = old.expiry
      /\ core.asset_id = old.asset_id /\ core.xudt_type_hash = old.xudt_type_hash
      /\ core.issuer = old.issuer
  BY <1>1, StepFields DEF Xudt!OP_TRANSFER, Xudt!OP_SETTLE
<1>6. Xudt!KindOf(core) = Xudt!KindOf(old)
  BY <1>5 DEF Xudt!KindOf
<1>7. Xudt!AuthorityOf(core) = old.holder
  BY <1>5 DEF Xudt!AuthorityOf, Xudt!OP_ISSUE
<1>8. m \in Xudt!Mandates
  BY <1>1, <1>7, SignatureMandates
<1>9. m.by = old.holder /\ m.kind = Xudt!KindOf(old) /\ m.to = core.new_holder
      /\ m.amount = old.amount /\ m.deadline = old.expiry
      /\ m.does = IF op = Xudt!OP_TRANSFER THEN "transfer" ELSE "settle"
  BY <1>1, <1>5, <1>6, <1>7, MandateFields DEF Xudt!OP_TRANSFER, Xudt!OP_SETTLE
<1>10. tip <= m.deadline + HeaderLag
  BY <1>1, <1>4, <1>9, XudtTimely
<1> QED
  BY <1>1, <1>2, <1>3, <1>4, <1>5, <1>6, <1>8, <1>9, <1>10

\* A transfer moves a balance by its holder's mandate.
LEMMA XudtTransferIsTransfer ==
  ASSUME XudtInv, XudtInv', NEW s \in signed, NEW now \in Xudt!Presentable(tip),
         NEW i \in Xudt!Live, Xudt!Transfer(i, s[2], now)
  PROVE  Xudt!Accounts!Next
<1>1. PICK core, old, spent, cell, receipt :
        /\ core = s[2] /\ old = ledger[i].cell /\ spent = {i}
        /\ cell = Xudt!Transferred(old, core)
        /\ receipt = Xudt!Receipt(core, old.holder)
  OBVIOUS
<1>2. Xudt!Commit(spent, cell, receipt) /\ Xudt!TransferAccepts(old, core, now)
  BY <1>1 DEF Xudt!Transfer
<1>3. core.new_holder \in AssetKeys \ {old.holder} /\ core.new_holder # Xudt!ZeroHash
  BY <1>1, <1>2 DEF Xudt!TransferAccepts, XudtInv, XudtSigned, IsDraft, Xudt!Holders
<1>4. PICK m : m = Xudt!MandateOf(core)
  OBVIOUS
<1>5. PICK op \in {Xudt!OP_TRANSFER, Xudt!OP_SETTLE} : op = Xudt!OP_TRANSFER
  OBVIOUS
<1>6. /\ core = Xudt!StepCore(op, ledger[i].cell, core.new_holder)
      /\ <<ledger[i].cell.holder, core>> \in signed /\ now <= ledger[i].cell.expiry
  BY <1>1, <1>2, <1>5 DEF Xudt!TransferAccepts, Xudt!SignedBy
<1>7. /\ m \in Xudt!Mandates /\ m.by = old.holder /\ m.kind = Xudt!KindOf(old)
      /\ m.to = core.new_holder /\ m.amount = old.amount /\ m.does = "transfer"
      /\ tip <= m.deadline + HeaderLag
      /\ old # Xudt!NoCell /\ DOMAIN old = ObjectFields
      /\ old.holder \in AssetKeys /\ old.amount \in Nat /\ m.kind \in Xudt!Kinds
  BY <1>1, <1>4, <1>5, <1>6, StepMandate
<1>8. /\ cell # Xudt!NoCell /\ Xudt!KindOf(cell) = m.kind
      /\ cell.holder = m.to /\ cell.amount = m.amount
  <2>1. /\ cell.asset_id = old.asset_id /\ cell.xudt_type_hash = old.xudt_type_hash
        /\ cell.issuer = old.issuer /\ cell.holder = core.new_holder
        /\ cell.amount = old.amount /\ DOMAIN cell = ObjectFields
    BY <1>1, <1>7 DEF Xudt!Transferred, ObjectFields
  <2>2. cell # Xudt!NoCell
    BY <2>1 DEF Xudt!NoCell, ObjectFields
  <2> QED
    BY <1>7, <2>1, <2>2 DEF Xudt!KindOf
<1>9. ASSUME NEW k \in Xudt!Kinds, NEW p \in AssetKeys
      PROVE  /\ XudtBalance(k, p)' =
                  IF k = m.kind /\ p = m.by THEN XudtBalance(k, p) - m.amount
                  ELSE IF k = m.kind /\ p = m.to THEN XudtBalance(k, p) + m.amount
                  ELSE XudtBalance(k, p)
             /\ k = m.kind /\ p = m.by => XudtBalance(k, p) >= m.amount
  <2>1. PICK held, got : held = HeldBy(old, k, p) /\ got = HeldBy(cell, k, p)
    OBVIOUS
  <2>2. XudtBalance(k, p)' + held = XudtBalance(k, p) + got /\ held <= XudtBalance(k, p)
    BY <1>1, <1>2, <2>1, BalancesAfterStep
  <2>3. XudtBalance(k, p) \in Nat /\ XudtBalance(k, p)' \in Nat
    BY BalancesAreAmounts, BalancesAfter DEF XudtBalancesTyped
  <2>4. held = IF k = m.kind /\ p = m.by THEN m.amount ELSE 0
    BY <1>7, <2>1 DEF HeldBy
  <2>5. got = IF k = m.kind /\ p = m.to THEN m.amount ELSE 0
    BY <1>8, <2>1 DEF HeldBy
  <2>6. PICK x \in Nat, y \in Nat, a \in Nat :
          x = XudtBalance(k, p) /\ y = XudtBalance(k, p)' /\ a = m.amount
    BY <1>7, <2>3
  <2>7. y + held = x + got /\ held <= x
    BY <2>2, <2>6
  <2>8. m.by # m.to
    BY <1>3, <1>7
  <2> QED
    BY <2>4, <2>5, <2>6, <2>7, <2>8
<1>10. ASSUME NEW k \in Xudt!Kinds
       PROVE  XudtRedeemed(k)' = XudtRedeemed(k)
  <2>1. spent \subseteq Xudt!Live
    BY <1>1
  <2>2. XudtRedeemed(k)' = XudtRedeemed(k) + PaidBy(cell, receipt.core, k)
    BY <1>2, <2>1, RedeemedAfterCommit
  <2>3. XudtRedeemed(k) \in Nat
    BY BalancesAreAmounts DEF XudtBalancesTyped
  <2> QED
    BY <1>8, <2>2, <2>3 DEF PaidBy
<1>11. Xudt!Balances' = [Xudt!Balances EXCEPT ![m.kind][m.by] = @ - m.amount,
                                             ![m.kind][m.to] = @ + m.amount]
  <2>1. PICK b, c : b = Xudt!Balances /\ c = Xudt!Balances'
    OBVIOUS
  <2>2. PICK kind, by, to, amount :
          kind = m.kind /\ by = m.by /\ to = m.to /\ amount = m.amount
    OBVIOUS
  <2>3. b \in [Xudt!Kinds -> [AssetKeys -> Nat]] /\ c \in [Xudt!Kinds -> [AssetKeys -> Nat]]
    BY <2>1, XudtTables
  <2>4. \A k \in Xudt!Kinds, p \in AssetKeys :
          c[k][p] = IF k = kind /\ p = by THEN b[k][p] - amount
                    ELSE IF k = kind /\ p = to THEN b[k][p] + amount ELSE b[k][p]
    BY <1>9, <2>1, <2>2, XudtTables
  <2>5. kind \in Xudt!Kinds /\ by \in AssetKeys /\ to \in AssetKeys /\ by # to
    BY <1>3, <1>7, <2>2
  <2>6. c = [b EXCEPT ![kind][by] = @ - amount, ![kind][to] = @ + amount]
    BY <2>3, <2>4, <2>5, Moved
  <2> QED
    BY <2>1, <2>2, <2>6
<1>12. Xudt!Balances[m.kind][m.by] >= m.amount
  BY <1>7, <1>9, XudtTables
<1>13. Xudt!Redeemed' = Xudt!Redeemed
  BY <1>10, XudtTables
<1>14. tip' = tip /\ Xudt!Mandates' = Xudt!Mandates
  BY <1>2 DEF Xudt!Commit, Xudt!Mandates
<1>15. m.to \notin {m.by, Xudt!ZeroHash}
  BY <1>3, <1>7
<1>16. Xudt!Accounts!Transfer(m)
  BY <1>7, <1>11, <1>12, <1>13, <1>14, <1>15
  DEF Xudt!Accounts!Transfer, Xudt!Accounts!InTime
<1> QED
  BY <1>7, <1>16 DEF Xudt!Accounts!Next

\* A settlement takes a balance out of circulation by its holder's mandate.
LEMMA XudtSettleIsSettle ==
  ASSUME XudtInv, XudtInv', NEW s \in signed, NEW now \in Xudt!Presentable(tip),
         NEW i \in Xudt!Live, Xudt!Settle(i, s[2], now)
  PROVE  Xudt!Accounts!Next
<1>1. PICK core, old, spent, cell, receipt :
        /\ core = s[2] /\ old = ledger[i].cell /\ spent = {i} /\ cell = Xudt!NoCell
        /\ receipt = Xudt!Receipt(core, old.holder)
  OBVIOUS
<1>2. Xudt!Commit(spent, cell, receipt) /\ Xudt!SettleAccepts(old, core, now)
  BY <1>1 DEF Xudt!Settle
<1>3. PICK m : m = Xudt!MandateOf(core)
  OBVIOUS
<1>4. PICK op \in {Xudt!OP_TRANSFER, Xudt!OP_SETTLE} : op = Xudt!OP_SETTLE
  OBVIOUS
<1>5. core = Xudt!StepCore(op, old, old.holder)
  BY <1>2, <1>4 DEF Xudt!SettleAccepts
<1>6. core.new_holder = old.holder
  BY <1>5, StepFields
<1>7. /\ core = Xudt!StepCore(op, ledger[i].cell, core.new_holder)
      /\ <<ledger[i].cell.holder, core>> \in signed /\ now <= ledger[i].cell.expiry
  BY <1>1, <1>2, <1>5, <1>6 DEF Xudt!SettleAccepts, Xudt!SignedBy
<1>8. /\ m \in Xudt!Mandates /\ m.by = old.holder /\ m.kind = Xudt!KindOf(old)
      /\ m.amount = old.amount /\ tip <= m.deadline + HeaderLag
      /\ Xudt!KindOf(core) = Xudt!KindOf(old) /\ core.transfer_amount = old.amount
      /\ old # Xudt!NoCell /\ old.holder \in AssetKeys /\ old.amount \in Nat
      /\ m.kind \in Xudt!Kinds
  BY <1>1, <1>3, <1>7, StepMandate
<1>9. m.does = "settle"
  <2>1. op # Xudt!OP_TRANSFER
    BY <1>4 DEF Xudt!OP_TRANSFER, Xudt!OP_SETTLE
  <2> QED
    BY <1>1, <1>3, <1>7, <2>1, StepMandate
<1>10. ASSUME NEW k \in Xudt!Kinds, NEW p \in AssetKeys
       PROVE  /\ XudtBalance(k, p)' = IF k = m.kind /\ p = m.by
                                      THEN XudtBalance(k, p) - m.amount
                                      ELSE XudtBalance(k, p)
              /\ k = m.kind /\ p = m.by => XudtBalance(k, p) >= m.amount
  <2>1. PICK held, got : held = HeldBy(old, k, p) /\ got = HeldBy(cell, k, p)
    OBVIOUS
  <2>2. XudtBalance(k, p)' + held = XudtBalance(k, p) + got /\ held <= XudtBalance(k, p)
    BY <1>1, <1>2, <2>1, BalancesAfterStep
  <2>3. XudtBalance(k, p) \in Nat /\ XudtBalance(k, p)' \in Nat
    BY BalancesAreAmounts, BalancesAfter DEF XudtBalancesTyped
  <2>4. held = IF k = m.kind /\ p = m.by THEN m.amount ELSE 0
    BY <1>8, <2>1 DEF HeldBy
  <2>5. got = 0
    BY <1>1, <2>1 DEF HeldBy
  <2>6. PICK x \in Nat, y \in Nat, a \in Nat :
          x = XudtBalance(k, p) /\ y = XudtBalance(k, p)' /\ a = m.amount
    BY <1>8, <2>3
  <2>7. y + held = x + got /\ held <= x
    BY <2>2, <2>6
  <2> QED
    BY <2>4, <2>5, <2>6, <2>7
<1>11. ASSUME NEW k \in Xudt!Kinds
       PROVE  XudtRedeemed(k)' = IF k = m.kind THEN XudtRedeemed(k) + m.amount
                                 ELSE XudtRedeemed(k)
  <2>1. spent \subseteq Xudt!Live
    BY <1>1
  <2>2. XudtRedeemed(k)' = XudtRedeemed(k) + PaidBy(cell, receipt.core, k)
    BY <1>2, <2>1, RedeemedAfterCommit
  <2>3. XudtRedeemed(k) \in Nat
    BY BalancesAreAmounts DEF XudtBalancesTyped
  <2>4. receipt.core = core
    BY <1>1 DEF Xudt!Receipt
  <2> QED
    BY <1>1, <1>8, <2>2, <2>3, <2>4 DEF PaidBy
<1>12. Xudt!Balances' = [Xudt!Balances EXCEPT ![m.kind][m.by] = @ - m.amount]
  <2>1. PICK b, c : b = Xudt!Balances /\ c = Xudt!Balances'
    OBVIOUS
  <2>2. PICK kind, by, amount : kind = m.kind /\ by = m.by /\ amount = m.amount
    OBVIOUS
  <2>3. b \in [Xudt!Kinds -> [AssetKeys -> Nat]] /\ c \in [Xudt!Kinds -> [AssetKeys -> Nat]]
    BY <2>1, XudtTables
  <2>4. \A k \in Xudt!Kinds, p \in AssetKeys :
          c[k][p] = IF k = kind /\ p = by THEN b[k][p] - amount ELSE b[k][p]
    BY <1>10, <2>1, <2>2, XudtTables
  <2>5. kind \in Xudt!Kinds /\ by \in AssetKeys
    BY <1>8, <2>2
  <2>6. c = [b EXCEPT ![kind][by] = @ - amount]
    BY <2>3, <2>4, <2>5, Debited
  <2> QED
    BY <2>1, <2>2, <2>6
<1>13. Xudt!Balances[m.kind][m.by] >= m.amount
  BY <1>8, <1>10, XudtTables
<1>14. Xudt!Redeemed' = [Xudt!Redeemed EXCEPT ![m.kind] = @ + m.amount]
  BY <1>8, <1>11, XudtTables
<1>15. tip' = tip /\ Xudt!Mandates' = Xudt!Mandates
  BY <1>2 DEF Xudt!Commit, Xudt!Mandates
<1>16. Xudt!Accounts!Settle(m)
  BY <1>8, <1>9, <1>12, <1>13, <1>14, <1>15
  DEF Xudt!Accounts!Settle, Xudt!Accounts!InTime
<1> QED
  BY <1>8, <1>16 DEF Xudt!Accounts!Next

\* Every step of the profile is one of the accounts, or none.
LEMMA AccountsGoOn ==
  ASSUME XudtInv, [Xudt!Next]_(Xudt!vars)
  PROVE  [Xudt!Accounts!Next]_(Xudt!Accounts!accounts)
<1>1. XudtInv'
  BY XudtNextInv
<1>2. CASE UNCHANGED Xudt!vars
  <2>1. tip' = tip /\ signed' = signed /\ ledger' = ledger
    BY <1>2 DEF Xudt!vars
  <2>2. Xudt!Mandates' = Xudt!Mandates
    BY <2>1 DEF Xudt!Mandates
  <2> QED
    BY <2>1, <2>2, AccountsKept DEF Xudt!Accounts!accounts
<1>3. CASE Xudt!Tick
  BY <1>3, XudtTickIsAdvance
<1>4. ASSUME NEW key \in AssetKeys, NEW core \in Xudt!Drafts, Xudt!Sign(key, core)
      PROVE  [Xudt!Accounts!Next]_(Xudt!Accounts!accounts)
  BY <1>4, XudtSignIsGive
<1>5. ASSUME NEW s \in signed, NEW now \in Xudt!Presentable(tip), Xudt!Issue(s[2], now)
      PROVE  Xudt!Accounts!Next
  BY <1>1, <1>5, XudtIssueIsIssue
<1>6. ASSUME NEW s \in signed, NEW now \in Xudt!Presentable(tip), NEW i \in Xudt!Live,
             Xudt!Transfer(i, s[2], now)
      PROVE  Xudt!Accounts!Next
  BY <1>1, <1>6, XudtTransferIsTransfer
<1>7. ASSUME NEW s \in signed, NEW now \in Xudt!Presentable(tip), NEW i \in Xudt!Live,
             Xudt!Settle(i, s[2], now)
      PROVE  Xudt!Accounts!Next
  BY <1>1, <1>7, XudtSettleIsSettle
<1> QED
  BY <1>2, <1>3, <1>4, <1>5, <1>6, <1>7 DEF Xudt!Next

\* The Fungible xUDT profile implements XudtAccounts: whatever objects there
\* are, replayed issues among them, balances fall only by the mandates of their
\* holders and rise only by what such a mandate or the issuer's says, in time.
THEOREM Mandated == Spec => ImplementsAccounts
<1>1. Init /\ (IsXudt => XudtInv) => (IsXudt => Xudt!Accounts!Init)
  BY AccountsBegin
<1>2. (IsXudt => XudtInv) /\ [Next]_vars =>
        (IsXudt => [Xudt!Accounts!Next]_(Xudt!Accounts!accounts))
  BY XudtSteps, AccountsGoOn
<1> QED
  BY <1>1, <1>2, XudtSpecInv, PTL DEF Spec, ImplementsAccounts
-----------------------------------------------------------------------------
(***************************************************************************)
(* RWA receipts: receipt cells, and how each transaction came about.       *)
(***************************************************************************)

ReceiptFields ==
  {"receipt_id", "papers", "issuer", "holder", "amount", "status",
   "latest_receipt_hash", "nonce", "expiry"}

IsReceipt(cell) ==
  /\ DOMAIN cell = ReceiptFields
  /\ cell.amount \in Rwa!U64 \ {0}
  /\ cell.expiry \in Rwa!U64
  /\ \/ cell.status = Rwa!STATUS_MATERIALIZED /\ cell.nonce = 0
     \/ cell.status = Rwa!STATUS_CLAIMED /\ cell.nonce = 1

RwaCore(j) == ledger[j].event.core

\* Transaction j materialised a receipt.
IsMaterialization(j) ==
  LET core == RwaCore(j) IN
  /\ \E o \in RwaOffers, x \in RwaPayouts : core = Rwa!MaterializeCore(o, x)
  /\ <<core.issuer, core>> \in signed
  /\ ledger[j].spent = {}
  /\ ledger[j].cell = Rwa!ReceiptCell(core)
  /\ ledger[j].event = Rwa!Event(core, core.issuer)
  /\ ledger[j].epoch <= core.expiry + HeaderLag

\* Transaction j took receipt cell i a step on.
IsRwaStep(op, i, j) ==
  LET core == RwaCore(j)
      cell == ledger[i].cell IN
  /\ i \in Rwa!Cells
  /\ cell.nonce < Widths.rwa
  /\ core = Rwa!StepCore(op, cell, cell.nonce, core.payout)
  /\ <<cell.holder, core>> \in signed
  /\ ledger[j].spent = {i}
  /\ ledger[j].epoch <= cell.expiry + HeaderLag

IsClaim(i, j) ==
  /\ IsRwaStep(Rwa!OP_CLAIM, i, j)
  /\ ledger[i].cell.status = Rwa!STATUS_MATERIALIZED
  /\ ledger[j].cell = Rwa!ReceiptCell(RwaCore(j))
  /\ ledger[j].event = Rwa!Event(RwaCore(j), RwaCore(j).holder)

IsPayment(i, j) ==
  /\ IsRwaStep(Rwa!OP_SETTLE, i, j)
  /\ ledger[i].cell.status = Rwa!STATUS_CLAIMED
  /\ <<ledger[i].cell.issuer, RwaCore(j)>> \in signed
  /\ ledger[j].cell = Rwa!NoCell
  /\ ledger[j].event = Rwa!Event(RwaCore(j), RwaCore(j).issuer)

RwaTypes ==
  /\ tip \in 0..MaxEpoch
  /\ IsSequence(ledger)
  /\ \A j \in Rwa!Cells : IsReceipt(ledger[j].cell)

RwaHistory ==
  \A j \in DOMAIN ledger :
    IsMaterialization(j) \/ \E i \in 1..(j - 1) : IsClaim(i, j) \/ IsPayment(i, j)

RwaSpentOnce ==
  \A j, k \in DOMAIN ledger : ledger[j].spent \cap ledger[k].spent # {} => j = k

RwaInv == RwaTypes /\ signed \subseteq RwaWallet /\ RwaHistory /\ RwaSpentOnce
-----------------------------------------------------------------------------
(***************************************************************************)
(* The inductive invariant.                                                *)
(***************************************************************************)

\* What the constants are.
LEMMA RwaConstants ==
  /\ Widths.rwa \in Nat /\ HeaderLag \in Nat /\ MaxEpoch \in Nat
  /\ Rwa!U64 = 0..Widths.rwa
  /\ RwaWallet \subseteq AssetKeys \X Rwa!Cores
  /\ \A o \in RwaOffers : o.amount \in Rwa!U64 /\ o.expiry \in Rwa!U64
BY ProfilesAssumption
DEF ProfilesAssumption, Rwa!RwaAssumption, Rwa!WalletAssumption, Rwa!U64

\* Positions in the ledger.
LEMMA RwaPositions ==
  ASSUME RwaTypes
  PROVE  /\ Len(ledger) \in Nat
         /\ DOMAIN ledger = 1..Len(ledger)
BY SequenceOverSet DEF RwaTypes, IsSequence

\* The fields of an intent to materialise a receipt.
LEMMA MaterializeFields ==
  ASSUME NEW o, NEW x
  PROVE  LET core == Rwa!MaterializeCore(o, x) IN
         /\ core.action = 0 /\ core.receipt_id = o.receipt_id
         /\ core.papers = o.papers /\ core.issuer = o.issuer /\ core.holder = o.holder
         /\ core.new_status = 1 /\ core.settlement_amount = o.amount
         /\ core.old_nonce = 0 /\ core.new_nonce = 0
         /\ core.expiry = o.expiry /\ core.payout = x
BY DEF Rwa!MaterializeCore, Rwa!OP_MATERIALIZE, Rwa!STATUS_MATERIALIZED

\* The fields of an intent to take a receipt a step on.
LEMMA RwaStepFields ==
  ASSUME NEW op, NEW r, NEW n, NEW x
  PROVE  LET core == Rwa!StepCore(op, r, n, x) IN
         /\ core.action = op /\ core.receipt_id = r.receipt_id
         /\ core.papers = r.papers /\ core.issuer = r.issuer /\ core.holder = r.holder
         /\ core.old_status = op /\ core.new_status = op + 1
         /\ core.old_amount = r.amount /\ core.settlement_amount = r.amount
         /\ core.old_nonce = n /\ core.new_nonce = Rwa!Add64(n, 1)
         /\ core.expiry = r.expiry /\ core.payout = x
BY DEF Rwa!StepCore

\* The fields of a receipt cell.
LEMMA ReceiptCellFields ==
  ASSUME NEW core
  PROVE  LET cell == Rwa!ReceiptCell(core) IN
         /\ DOMAIN cell = ReceiptFields
         /\ cell.receipt_id = core.receipt_id /\ cell.papers = core.papers
         /\ cell.issuer = core.issuer /\ cell.holder = core.holder
         /\ cell.amount = core.settlement_amount /\ cell.status = core.new_status
         /\ cell.latest_receipt_hash = Rwa!MaterializedReceiptHash(core)
         /\ cell.nonce = core.new_nonce /\ cell.expiry = core.expiry
BY DEF Rwa!ReceiptCell, ReceiptFields

\* The chain commits a transaction that the script accepts.
LEMMA RwaCommitInv ==
  ASSUME RwaInv, NEW spent, NEW cell, NEW event, Rwa!Commit(spent, cell, event),
         NEW n, n = Len(ledger) + 1,
         spent \subseteq Rwa!Live, cell = Rwa!NoCell \/ IsReceipt(cell),
         [spent |-> spent, cell |-> cell, event |-> event, epoch |-> tip] = ledger'[n]
           => (IsMaterialization(n) \/ \E i \in 1..(n - 1) : IsClaim(i, n) \/ IsPayment(i, n))'
  PROVE  RwaInv'
<1> DEFINE e == [spent |-> spent, cell |-> cell, event |-> event, epoch |-> tip]
<1>1. ledger' = Append(ledger, e) /\ tip' = tip /\ signed' = signed
  BY DEF Rwa!Commit
<1>2. IsSequence(ledger)
  BY DEF RwaInv, RwaTypes
<1>3. e.spent = spent /\ e.cell = cell
  OBVIOUS
<1>4. e = ledger'[n] => (IsMaterialization(n) \/ \E i \in 1..(n - 1) :
                            IsClaim(i, n) \/ IsPayment(i, n))'
  OBVIOUS
<1> HIDE DEF e
<1>5. /\ Len(ledger) \in Nat /\ DOMAIN ledger = 1..Len(ledger)
      /\ IsSequence(ledger') /\ DOMAIN ledger' = 1..(Len(ledger) + 1)
      /\ \A j \in 1..Len(ledger) : ledger'[j] = ledger[j]
      /\ ledger'[Len(ledger) + 1] = e
  BY <1>1, <1>2, AppendFacts
<1>6. /\ ledger'[n] = e /\ n \in DOMAIN ledger' /\ n \in Nat /\ n \notin DOMAIN ledger
      /\ \A j \in DOMAIN ledger' : j = n \/ j \in DOMAIN ledger
      /\ \A j \in DOMAIN ledger : j \in DOMAIN ledger' /\ ledger'[j] = ledger[j]
  BY <1>5
<1>7. /\ Rwa!Cells \subseteq Rwa!Cells'
      /\ \A j \in Rwa!Cells' : j = n \/ j \in Rwa!Cells
      /\ n \in Rwa!Cells' => IsReceipt(cell)
  BY <1>3, <1>6 DEF Rwa!Cells
<1>8. RwaTypes'
  <2>1. \A j \in Rwa!Cells' : IsReceipt(ledger'[j].cell)
    <3>1. \A j \in Rwa!Cells : j \in DOMAIN ledger /\ IsReceipt(ledger[j].cell)
      BY DEF RwaInv, RwaTypes, Rwa!Cells
    <3> QED
      BY <1>3, <1>6, <1>7, <3>1
  <2> QED
    BY <1>1, <1>5, <2>1 DEF RwaInv, RwaTypes
<1>9. RwaHistory'
  <2>1. ASSUME NEW j \in DOMAIN ledger
        PROVE  (IsMaterialization(j) \/ \E i \in 1..(j - 1) : IsClaim(i, j) \/ IsPayment(i, j))'
    <3>1. ledger'[j] = ledger[j] /\ RwaCore(j)' = RwaCore(j)
      BY <1>6 DEF RwaCore
    <3>2. CASE IsMaterialization(j)
      BY <1>1, <3>1, <3>2 DEF IsMaterialization
    <3>3. CASE \E i \in 1..(j - 1) : IsClaim(i, j) \/ IsPayment(i, j)
      <4>1. PICK i \in 1..(j - 1) : IsClaim(i, j) \/ IsPayment(i, j)
        BY <3>3
      <4>2. i \in Rwa!Cells' /\ ledger'[i] = ledger[i]
        BY <1>6, <1>7, <4>1 DEF IsClaim, IsPayment, IsRwaStep, Rwa!Cells
      <4>3. (IsClaim(i, j) \/ IsPayment(i, j))'
        BY <1>1, <3>1, <4>1, <4>2 DEF IsClaim, IsPayment, IsRwaStep
      <4> QED
        BY <4>3
    <3> QED
      BY <3>2, <3>3 DEF RwaInv, RwaHistory
  <2> QED
    BY <1>4, <1>6, <2>1 DEF RwaHistory
<1>10. RwaSpentOnce'
  <2>1. \A j \in DOMAIN ledger : ledger[j].spent \cap spent = {}
    BY DEF Rwa!Live, Rwa!Spent
  <2> QED
    BY <1>3, <1>6, <2>1 DEF RwaInv, RwaSpentOnce
<1> QED
  BY <1>1, <1>8, <1>9, <1>10 DEF RwaInv

\* What the header says of the chain.
LEMMA RwaTimely ==
  ASSUME RwaInv, NEW now \in Rwa!Presentable(tip), NEW expiry \in Rwa!U64, now <= expiry
  PROVE  tip <= expiry + HeaderLag
BY RwaConstants DEF RwaInv, RwaTypes, Rwa!Presentable

\* Materialize.
LEMMA RwaMaterializeInv ==
  ASSUME RwaInv, NEW s \in signed, NEW now \in Rwa!Presentable(tip),
         Rwa!Materialize(s[2], now)
  PROVE  RwaInv'
<1> PICK none : none = {}
  OBVIOUS
<1> DEFINE core == s[2]
           cell == Rwa!ReceiptCell(core)
           event == Rwa!Event(core, core.issuer)
<1>1. Rwa!Commit(none, cell, event) /\ Rwa!MaterializeAccepts(core, now)
  BY DEF Rwa!Materialize
<1>2. PICK o \in RwaOffers, x \in RwaPayouts : core = Rwa!MaterializeCore(o, x)
  <2>1. core \in Rwa!Cores
    BY RwaConstants DEF RwaInv
  <2>2. core.action = 0
    BY <1>1 DEF Rwa!MaterializeAccepts, Rwa!OP_MATERIALIZE
  <2>3. ASSUME NEW op \in {Rwa!OP_CLAIM, Rwa!OP_SETTLE}, NEW o, NEW n, NEW x,
               core = Rwa!StepCore(op, o, n, x)
        PROVE  FALSE
    BY <2>2, <2>3, RwaStepFields DEF Rwa!OP_CLAIM, Rwa!OP_SETTLE
  <2> QED
    BY <2>1, <2>3 DEF Rwa!Cores
<1>3. /\ core.settlement_amount \in Rwa!U64 \ {0} /\ core.expiry \in Rwa!U64
      /\ core.new_status = 1 /\ core.new_nonce = 0
  <2>1. core.settlement_amount \in Rwa!U64 /\ core.expiry \in Rwa!U64
    BY <1>2, RwaConstants, MaterializeFields
  <2>2. core.settlement_amount # 0
    BY <1>1, <2>1, RwaConstants DEF Rwa!MaterializeAccepts
  <2>3. core.new_status = 1 /\ core.new_nonce = 0
    BY <1>2, MaterializeFields
  <2> QED
    BY <2>1, <2>2, <2>3
<1>4. tip <= core.expiry + HeaderLag
  BY <1>1, <1>3, RwaTimely DEF Rwa!MaterializeAccepts
<1>5. IsReceipt(cell)
  BY <1>3, ReceiptCellFields DEF IsReceipt, Rwa!STATUS_MATERIALIZED
<1>6. event.core = core
  BY DEF Rwa!Event
<1>7. ASSUME NEW n, n = Len(ledger) + 1,
             [spent |-> none, cell |-> cell, event |-> event, epoch |-> tip] = ledger'[n]
      PROVE  (IsMaterialization(n) \/ \E i \in 1..(n - 1) : IsClaim(i, n) \/ IsPayment(i, n))'
  <2>1. /\ ledger'[n].spent = {} /\ ledger'[n].cell = cell /\ ledger'[n].event = event
        /\ ledger'[n].epoch = tip
    BY <1>7
  <2>2. RwaCore(n)' = core
    BY <1>6, <2>1 DEF RwaCore
  <2>3. signed' = signed /\ <<core.issuer, core>> \in signed
    BY <1>1 DEF Rwa!MaterializeAccepts, Rwa!SignedBy, Rwa!Commit
  <2>4. IsMaterialization(n)'
    BY <1>2, <1>4, <2>1, <2>2, <2>3 DEF IsMaterialization
  <2> QED
    BY <2>4
<1> HIDE DEF cell, event
<1>8. PICK n : n = Len(ledger) + 1
  OBVIOUS
<1>9. [spent |-> none, cell |-> cell, event |-> event, epoch |-> tip] = ledger'[n]
        => (IsMaterialization(n) \/ \E i \in 1..(n - 1) : IsClaim(i, n) \/ IsPayment(i, n))'
  BY <1>7, <1>8
<1>10. none \subseteq Rwa!Live
  OBVIOUS
<1> QED
  BY <1>1, <1>5, <1>8, <1>9, <1>10, RwaCommitInv

\* The fields of an intent to take a receipt cell a step on, as the lines have it.
LEMMA RwaStepCell ==
  ASSUME NEW cell, IsReceipt(cell), cell.nonce < Widths.rwa,
         NEW op \in {Rwa!OP_CLAIM, Rwa!OP_SETTLE},
         NEW core, core = Rwa!StepCore(op, cell, cell.nonce, core.payout)
  PROVE  /\ core.issuer = cell.issuer /\ core.holder = cell.holder
         /\ core.receipt_id = cell.receipt_id /\ core.papers = cell.papers
         /\ core.expiry = cell.expiry /\ core.expiry \in Rwa!U64
         /\ core.settlement_amount = cell.amount
         /\ core.settlement_amount \in Rwa!U64 \ {0}
         /\ core.old_amount = cell.amount
         /\ core.action = op /\ core.old_status = op /\ core.new_status = op + 1
         /\ core.old_nonce = cell.nonce /\ core.new_nonce = cell.nonce + 1
<1>1. cell.nonce \in Nat /\ Rwa!Add64(cell.nonce, 1) = cell.nonce + 1
  BY RwaConstants DEF IsReceipt, Rwa!Add64
<1>2. /\ cell.expiry \in Rwa!U64 /\ cell.amount \in Rwa!U64 \ {0}
  BY DEF IsReceipt
<1> QED
  BY <1>1, <1>2, RwaStepFields

\* Claim.
LEMMA RwaClaimInv ==
  ASSUME RwaInv, NEW s \in signed, NEW now \in Rwa!Presentable(tip), NEW i \in Rwa!Live,
         Rwa!Claim(i, s[2], now)
  PROVE  RwaInv'
<1> DEFINE core == s[2]
           old == ledger[i].cell
           cell == Rwa!ReceiptCell(core)
           event == Rwa!Event(core, core.holder)
<1>1. Rwa!Commit({i}, cell, event) /\ Rwa!ClaimAccepts(old, core, now)
  BY DEF Rwa!Claim
<1>2. i \in Rwa!Cells /\ i \in DOMAIN ledger /\ IsReceipt(old)
  BY DEF Rwa!Live, Rwa!Cells, RwaInv, RwaTypes
<1>3. /\ core = Rwa!StepCore(Rwa!OP_CLAIM, old, old.nonce, core.payout)
      /\ old.nonce < Widths.rwa /\ old.status = Rwa!STATUS_MATERIALIZED
      /\ <<old.holder, core>> \in signed
  BY <1>1 DEF Rwa!ClaimAccepts, Rwa!SignedBy
<1>4. tip <= old.expiry + HeaderLag
  BY <1>1, <1>2, RwaTimely DEF Rwa!ClaimAccepts, IsReceipt
<1>5. IsReceipt(cell)
  <2>1. old.nonce = 0
    BY <1>2, <1>3 DEF IsReceipt, Rwa!STATUS_MATERIALIZED, Rwa!STATUS_CLAIMED
  <2>2. /\ core.expiry \in Rwa!U64 /\ core.settlement_amount \in Rwa!U64 \ {0}
        /\ core.new_status = Rwa!OP_CLAIM + 1 /\ core.new_nonce = old.nonce + 1
    BY <1>2, <1>3, RwaStepCell
  <2>3. core.new_status = Rwa!STATUS_CLAIMED /\ core.new_nonce = 1
    BY <2>1, <2>2 DEF Rwa!OP_CLAIM, Rwa!STATUS_CLAIMED
  <2> QED
    BY <2>2, <2>3, ReceiptCellFields DEF IsReceipt
<1>6. event.core = core
  BY DEF Rwa!Event
<1>7. ASSUME NEW n, n = Len(ledger) + 1,
             [spent |-> {i}, cell |-> cell, event |-> event, epoch |-> tip] = ledger'[n]
      PROVE  (\E h \in 1..(n - 1) : IsClaim(h, n) \/ IsPayment(h, n))'
  <2>1. /\ ledger'[n].spent = {i} /\ ledger'[n].cell = cell /\ ledger'[n].event = event
        /\ ledger'[n].epoch = tip
    BY <1>7
  <2>2. RwaCore(n)' = core /\ signed' = signed
    BY <1>1, <1>6, <2>1 DEF RwaCore, Rwa!Commit
  <2>3. i \in 1..(n - 1) /\ i \in Rwa!Cells' /\ ledger'[i] = ledger[i]
    BY <1>1, <1>2, <1>7, AppendFacts DEF RwaInv, RwaTypes, Rwa!Commit, Rwa!Cells
  <2>4. IsClaim(i, n)'
    BY <1>3, <1>4, <2>1, <2>2, <2>3 DEF IsClaim, IsRwaStep
  <2> QED
    BY <2>3, <2>4
<1> HIDE DEF cell, event
<1>8. {i} \subseteq Rwa!Live
  OBVIOUS
<1> QED
  BY <1>1, <1>5, <1>7, <1>8, RwaCommitInv

\* Settle.
LEMMA RwaSettleInv ==
  ASSUME RwaInv, NEW s \in signed, NEW now \in Rwa!Presentable(tip), NEW i \in Rwa!Live,
         Rwa!Settle(i, s[2], now)
  PROVE  RwaInv'
<1> DEFINE core == s[2]
           old == ledger[i].cell
           event == Rwa!Event(core, core.issuer)
<1>1. Rwa!Commit({i}, Rwa!NoCell, event) /\ Rwa!SettleAccepts(old, core, now)
  BY DEF Rwa!Settle
<1>2. i \in Rwa!Cells /\ i \in DOMAIN ledger /\ IsReceipt(old)
  BY DEF Rwa!Live, Rwa!Cells, RwaInv, RwaTypes
<1>3. /\ core = Rwa!StepCore(Rwa!OP_SETTLE, old, old.nonce, core.payout)
      /\ old.nonce < Widths.rwa /\ old.status = Rwa!STATUS_CLAIMED
      /\ <<old.holder, core>> \in signed /\ <<old.issuer, core>> \in signed
  BY <1>1 DEF Rwa!SettleAccepts, Rwa!SignedBy
<1>4. tip <= old.expiry + HeaderLag
  BY <1>1, <1>2, RwaTimely DEF Rwa!SettleAccepts, IsReceipt
<1>5. event.core = core
  BY DEF Rwa!Event
<1>6. ASSUME NEW n, n = Len(ledger) + 1,
             [spent |-> {i}, cell |-> Rwa!NoCell, event |-> event, epoch |-> tip] = ledger'[n]
      PROVE  (\E h \in 1..(n - 1) : IsClaim(h, n) \/ IsPayment(h, n))'
  <2>1. /\ ledger'[n].spent = {i} /\ ledger'[n].cell = Rwa!NoCell
        /\ ledger'[n].event = event /\ ledger'[n].epoch = tip
    BY <1>6
  <2>2. RwaCore(n)' = core /\ signed' = signed
    BY <1>1, <1>5, <2>1 DEF RwaCore, Rwa!Commit
  <2>3. i \in 1..(n - 1) /\ i \in Rwa!Cells' /\ ledger'[i] = ledger[i]
    BY <1>1, <1>2, <1>6, AppendFacts DEF RwaInv, RwaTypes, Rwa!Commit, Rwa!Cells
  <2>4. IsPayment(i, n)'
    BY <1>3, <1>4, <2>1, <2>2, <2>3 DEF IsPayment, IsRwaStep
  <2> QED
    BY <2>3, <2>4
<1> HIDE DEF event
<1>7. {i} \subseteq Rwa!Live
  OBVIOUS
<1> QED
  BY <1>1, <1>6, <1>7, RwaCommitInv

\* Every step of the profile keeps the invariant.
LEMMA RwaNextInv ==
  ASSUME RwaInv, [Rwa!Next]_(Rwa!vars)
  PROVE  RwaInv'
<1>1. ASSUME tip' \in 0..MaxEpoch, signed \subseteq signed', signed' \subseteq RwaWallet,
             ledger' = ledger
      PROVE  RwaInv'
  BY <1>1
  DEF RwaInv, RwaTypes, RwaHistory, RwaSpentOnce, IsMaterialization, IsClaim, IsPayment,
      IsRwaStep, RwaCore, Rwa!Cells
<1>2. CASE Rwa!Tick
  BY <1>1, <1>2, RwaConstants DEF Rwa!Tick, RwaInv, RwaTypes
<1>3. ASSUME NEW s \in RwaWallet, Rwa!Sign(s[1], s[2])
      PROVE  RwaInv'
  <2>1. s = <<s[1], s[2]>>
    BY RwaConstants
  <2> QED
    BY <1>1, <1>3, <2>1 DEF Rwa!Sign, RwaInv, RwaTypes
<1>4. ASSUME NEW s \in signed, NEW now \in Rwa!Presentable(tip), Rwa!Materialize(s[2], now)
      PROVE  RwaInv'
  BY <1>4, RwaMaterializeInv
<1>5. ASSUME NEW s \in signed, NEW now \in Rwa!Presentable(tip), NEW i \in Rwa!Live,
             Rwa!Claim(i, s[2], now)
      PROVE  RwaInv'
  BY <1>5, RwaClaimInv
<1>6. ASSUME NEW s \in signed, NEW now \in Rwa!Presentable(tip), NEW i \in Rwa!Live,
             Rwa!Settle(i, s[2], now)
      PROVE  RwaInv'
  BY <1>6, RwaSettleInv
<1>7. CASE UNCHANGED Rwa!vars
  BY <1>1, <1>7 DEF Rwa!vars, RwaInv, RwaTypes
<1> QED
  BY <1>2, <1>3, <1>4, <1>5, <1>6, <1>7 DEF Rwa!Next

\* A ledger of the profile stays one, and takes the steps of the profile.
LEMMA RwaSteps ==
  ASSUME [Next]_vars, IsRwa \/ IsRwa'
  PROVE  IsRwa /\ IsRwa' /\ [Rwa!Next]_(Rwa!vars)
<1>1. CASE UNCHANGED vars
  BY <1>1 DEF vars, IsRwa, Rwa!vars
<1>2. CASE Next
  BY <1>2 DEF Next, IsXudt, IsRwa, IsSeal, Seals!Profiles, Seals!Next
<1> QED
  BY <1>1, <1>2

\* On a ledger of the profile the invariant holds throughout.
LEMMA RwaSpecInv == Spec => [](IsRwa => RwaInv)
<1>1. Init => (IsRwa => RwaInv)
  <2> SUFFICES ASSUME Init
               PROVE  RwaInv
    OBVIOUS
  <2>1. ledger \in Seq({}) /\ DOMAIN ledger = {}
    BY DEF Init
  <2>2. IsSequence(ledger)
    BY <2>1, SequenceOverSet
  <2>3. Rwa!Cells = {} /\ tip \in 0..MaxEpoch /\ signed = {}
    BY <2>1, RwaConstants DEF Init, Rwa!Cells
  <2> QED
    BY <2>1, <2>2, <2>3 DEF RwaInv, RwaTypes, RwaHistory, RwaSpentOnce
<1>2. (IsRwa => RwaInv) /\ [Next]_vars => (IsRwa => RwaInv)'
  BY RwaSteps, RwaNextInv
<1> QED
  BY <1>1, <1>2, PTL DEF Spec
-----------------------------------------------------------------------------
(***************************************************************************)
(* One step of a line.                                                     *)
(***************************************************************************)

\* What a receipt cell has in common with the event of the transaction that
\* created it; its status tells which operation that was.
LEMMA CellOfEvent ==
  ASSUME RwaInv, NEW j \in Rwa!Cells
  PROVE  /\ j \in DOMAIN ledger
         /\ ledger[j].cell = Rwa!ReceiptCell(RwaCore(j))
         /\ ledger[j].cell.latest_receipt_hash = ledger[j].event.latest_receipt_hash
         /\ RwaCore(j).new_status = RwaCore(j).action + 1
<1>1. j \in DOMAIN ledger /\ ledger[j].cell # Rwa!NoCell
  BY DEF Rwa!Cells
<1>2. PICK core : core = RwaCore(j)
  OBVIOUS
<1>3. /\ ledger[j].cell = Rwa!ReceiptCell(core)
      /\ core.new_status = core.action + 1
      /\ \E signer : ledger[j].event = Rwa!Event(core, signer)
  <2>1. CASE IsMaterialization(j)
    <3>1. core.new_status = 1 /\ core.action = 0
      BY <1>2, <2>1, MaterializeFields DEF IsMaterialization
    <3> QED
      BY <1>2, <2>1, <3>1 DEF IsMaterialization
  <2>2. CASE \E i \in 1..(j - 1) : IsClaim(i, j)
    <3>1. PICK i \in 1..(j - 1) : IsClaim(i, j)
      BY <2>2
    <3>2. PICK old : old = ledger[i].cell
      OBVIOUS
    <3>3. core = Rwa!StepCore(Rwa!OP_CLAIM, old, old.nonce, core.payout)
      BY <1>2, <3>1, <3>2 DEF IsClaim, IsRwaStep
    <3>4. core.new_status = core.action + 1
      BY <3>3, RwaStepFields
    <3> QED
      BY <1>2, <3>1, <3>4 DEF IsClaim
  <2> QED
    BY <1>1, <2>1, <2>2 DEF RwaInv, RwaHistory, IsPayment
<1>4. ledger[j].event.latest_receipt_hash = Rwa!MaterializedReceiptHash(core)
  BY <1>3 DEF Rwa!Event
<1> QED
  BY <1>1, <1>2, <1>3, <1>4, ReceiptCellFields

\* A step takes up the receipt cell of an earlier transaction.
LEMMA RwaParent ==
  ASSUME RwaInv, NEW j \in Rwa!Steps
  PROVE  /\ j \in DOMAIN ledger
         /\ Rwa!Parent(j) \in 1..(j - 1)
         /\ Rwa!Parent(j) \in Rwa!Cells
         /\ ledger[j].spent = {Rwa!Parent(j)}
         /\ IsClaim(Rwa!Parent(j), j) \/ IsPayment(Rwa!Parent(j), j)
<1>1. j \in DOMAIN ledger /\ ledger[j].spent # {}
  BY DEF Rwa!Steps
<1>2. PICK i \in 1..(j - 1) : IsClaim(i, j) \/ IsPayment(i, j)
  BY <1>1 DEF RwaInv, RwaHistory, IsMaterialization
<1>3. ledger[j].spent = {i} /\ i \in Rwa!Cells
  BY <1>2 DEF IsClaim, IsPayment, IsRwaStep
<1>4. Rwa!Parent(j) = i
  BY <1>3 DEF Rwa!Parent
<1> QED
  BY <1>1, <1>2, <1>3, <1>4

\* What the event of a step repeats of the event before, and how it goes on.
LEMMA RwaStep ==
  ASSUME RwaInv, NEW j \in Rwa!Steps
  PROVE  LET core   == RwaCore(j)
             before == RwaCore(Rwa!Parent(j)) IN
         /\ core.action = before.action + 1
         /\ core.old_status = before.new_status
         /\ core.old_nonce = before.new_nonce
         /\ core.old_amount = before.settlement_amount
         /\ core.settlement_amount = before.settlement_amount
         /\ core.receipt_id = before.receipt_id /\ core.papers = before.papers
         /\ core.issuer = before.issuer /\ core.holder = before.holder
         /\ core.expiry = before.expiry
         /\ ledger[j].epoch <= before.expiry + HeaderLag
         /\ core.action \in {1, 2}
         /\ <<core.holder, core>> \in signed
         /\ core.action = 2 => <<core.issuer, core>> \in signed
<1> DEFINE i == Rwa!Parent(j)
<1>1. i \in Rwa!Cells /\ (IsClaim(i, j) \/ IsPayment(i, j))
  BY RwaParent
<1> HIDE DEF i
<1>2. PICK core, old, before :
        core = RwaCore(j) /\ old = ledger[i].cell /\ before = RwaCore(i)
  OBVIOUS
<1>3. PICK op \in {Rwa!OP_CLAIM, Rwa!OP_SETTLE} :
        /\ core = Rwa!StepCore(op, old, old.nonce, core.payout)
        /\ old.status = op
        /\ op = Rwa!OP_SETTLE => <<old.issuer, core>> \in signed
  BY <1>1, <1>2 DEF IsClaim, IsPayment, IsRwaStep, Rwa!OP_CLAIM, Rwa!OP_SETTLE,
                    Rwa!STATUS_MATERIALIZED, Rwa!STATUS_CLAIMED
<1>4. /\ ledger[j].epoch <= old.expiry + HeaderLag /\ old.nonce < Widths.rwa
      /\ <<old.holder, core>> \in signed
  BY <1>1, <1>2 DEF IsClaim, IsPayment, IsRwaStep
<1>5. IsReceipt(old)
  BY <1>1, <1>2 DEF RwaInv, RwaTypes
<1>6. /\ old = Rwa!ReceiptCell(before) /\ before.new_status = before.action + 1
  BY <1>1, <1>2, CellOfEvent
<1>7. /\ before.issuer = old.issuer /\ before.holder = old.holder
      /\ before.receipt_id = old.receipt_id /\ before.papers = old.papers
      /\ before.settlement_amount = old.amount /\ before.new_nonce = old.nonce
      /\ before.new_status = old.status /\ before.expiry = old.expiry
  BY <1>6, ReceiptCellFields
<1>8. /\ core.issuer = old.issuer /\ core.holder = old.holder
      /\ core.receipt_id = old.receipt_id /\ core.papers = old.papers
      /\ core.expiry = old.expiry /\ core.settlement_amount = old.amount
      /\ core.old_amount = old.amount /\ core.action = op /\ core.old_status = op
      /\ core.old_nonce = old.nonce
  BY <1>3, <1>4, <1>5, RwaStepCell
<1>9. /\ core.action = before.action + 1 /\ core.action \in {1, 2}
      /\ core.action = 2 => op = Rwa!OP_SETTLE
  BY <1>3, <1>6, <1>7, <1>8 DEF Rwa!OP_CLAIM, Rwa!OP_SETTLE
<1>10. core = RwaCore(j) /\ before = RwaCore(Rwa!Parent(j))
  BY <1>2 DEF i
<1> HIDE DEF i
<1> QED
  BY <1>3, <1>4, <1>7, <1>8, <1>9, <1>10
-----------------------------------------------------------------------------
(***************************************************************************)
(* Lines.                                                                  *)
(***************************************************************************)

\* p names the parents, and with them lines that do not branch.
IsRwaLines(p) ==
  /\ \A j \in Rwa!Steps : p[j] = Rwa!Parent(j)
  /\ Earlier(Rwa!Steps, p)
  /\ OneChild(Rwa!Steps, p)
  /\ IsOrigin(Rwa!Origin, Rwa!Steps, p)

\* The ledger is made of lines.
LEMMA RwaLines ==
  ASSUME RwaInv
  PROVE  \E p : IsRwaLines(p)
<1> DEFINE p == [i \in Nat |-> Rwa!Parent(i)]
<1>1. Rwa!Steps \subseteq Nat
  BY RwaPositions DEF RwaInv, Rwa!Steps
<1>2. \A j \in Nat : p[j] = Rwa!Parent(j)
  OBVIOUS
<1> HIDE DEF p
<1>3. Earlier(Rwa!Steps, p)
  <2>1. \A j \in Rwa!Steps : Rwa!Parent(j) \in 1..(j - 1)
    BY RwaParent
  <2> QED
    BY <1>2, <2>1 DEF Earlier
<1>4. ASSUME NEW a \in Rwa!Steps, NEW b \in Rwa!Steps, p[a] = p[b]
      PROVE  a = b
  <2>1. ledger[a].spent = {p[a]} /\ ledger[b].spent = {p[b]}
    BY <1>1, <1>2, RwaParent
  <2>2. a \in DOMAIN ledger /\ b \in DOMAIN ledger
    BY DEF Rwa!Steps
  <2> QED
    BY <1>4, <2>1, <2>2 DEF RwaInv, RwaSpentOnce
<1>5. IsOrigin(Rwa!Origin, Rwa!Steps, p)
  <2>1. PICK f : /\ IsOrigin(f, Rwa!Steps, p)
                 /\ f = [j \in Nat |-> IF j \in Rwa!Steps THEN f[p[j]] ELSE j]
    BY <1>3, OriginExists
  <2>2. f = [j \in Nat |-> IF j \in Rwa!Steps THEN f[Rwa!Parent(j)] ELSE j]
    BY <1>2, <2>1
  <2>3. Rwa!Origin = [j \in Nat |-> IF j \in Rwa!Steps
                                      THEN Rwa!Origin[Rwa!Parent(j)] ELSE j]
    BY <2>2 DEF Rwa!Origin
  <2>4. PICK g : g = Rwa!Origin
    OBVIOUS
  <2>5. g = [j \in Nat |-> IF j \in Rwa!Steps THEN g[p[j]] ELSE j]
    BY <1>2, <2>3, <2>4
  <2> QED
    BY <1>3, <2>4, <2>5, OriginUnfolds
<1> QED
  BY <1>1, <1>2, <1>3, <1>4, <1>5 DEF IsRwaLines, OneChild

\* A transaction that takes up no receipt cell materialises one.
LEMMA RwaFounder ==
  ASSUME RwaInv, NEW j \in DOMAIN ledger \ Rwa!Steps
  PROVE  IsMaterialization(j) /\ RwaCore(j).action = 0
<1>1. ledger[j].spent = {}
  BY DEF Rwa!Steps
<1>2. IsMaterialization(j)
  BY <1>1 DEF RwaInv, RwaHistory, IsClaim, IsPayment, IsRwaStep
<1> QED
  BY <1>2, MaterializeFields DEF IsMaterialization

\* What a transaction of a line repeats of the materialisation that founded it.
RepeatsMaterialization(j) ==
  LET o == Rwa!Origin[j] IN
  /\ o \in DOMAIN ledger
  /\ RwaCore(j).issuer = RwaCore(o).issuer
  /\ RwaCore(j).holder = RwaCore(o).holder
  /\ ledger[j].epoch <= RwaCore(o).expiry + HeaderLag
  /\ RwaCore(j).expiry = RwaCore(o).expiry
  /\ RwaCore(j).receipt_id = RwaCore(o).receipt_id
  /\ RwaCore(j).papers = RwaCore(o).papers
  /\ RwaCore(j).settlement_amount = RwaCore(o).settlement_amount

\* Every transaction of a line is about what its materialisation names.
LEMMA RwaInLine ==
  ASSUME RwaInv, NEW j \in DOMAIN ledger
  PROVE  RepeatsMaterialization(j)
<1>1. PICK p : IsRwaLines(p)
  BY RwaLines
<1> DEFINE S == {n \in Nat : n \in DOMAIN ledger => RepeatsMaterialization(n)}
<1>2. ASSUME NEW n \in Nat, \A k \in 0..(n - 1) : k \in S, n \in DOMAIN ledger
      PROVE  RepeatsMaterialization(n)
  <2>1. CASE n \in Rwa!Steps
    <3>1. PICK i : i = Rwa!Parent(n)
      OBVIOUS
    <3>2. i \in 1..(n - 1) /\ i \in DOMAIN ledger
      BY <2>1, <3>1, RwaParent DEF Rwa!Cells
    <3>3. RepeatsMaterialization(i)
      <4>1. i \in 0..(n - 1)
        BY <3>2
      <4> QED
        BY <1>2, <3>2, <4>1
    <3>4. Rwa!Origin[n] = Rwa!Origin[i]
      BY <1>1, <2>1, <3>1 DEF IsRwaLines, IsOrigin
    <3>5. /\ RwaCore(n).issuer = RwaCore(i).issuer
          /\ RwaCore(n).holder = RwaCore(i).holder
          /\ RwaCore(n).expiry = RwaCore(i).expiry
          /\ RwaCore(n).receipt_id = RwaCore(i).receipt_id
          /\ RwaCore(n).papers = RwaCore(i).papers
          /\ RwaCore(n).settlement_amount = RwaCore(i).settlement_amount
          /\ ledger[n].epoch <= RwaCore(i).expiry + HeaderLag
      BY <2>1, <3>1, RwaStep
    <3> QED
      BY <3>3, <3>4, <3>5 DEF RepeatsMaterialization
  <2>2. CASE n \notin Rwa!Steps
    <3>1. Rwa!Origin[n] = n
      BY <1>1, <2>2 DEF IsRwaLines, IsOrigin
    <3>2. ledger[n].epoch <= RwaCore(n).expiry + HeaderLag
      BY <1>2, <2>2, RwaFounder DEF IsMaterialization
    <3> QED
      BY <1>2, <3>1, <3>2 DEF RepeatsMaterialization
  <2> QED
    BY <2>1, <2>2
<1>3. \A n \in Nat : (\A k \in 0..(n - 1) : k \in S) => n \in S
  BY <1>2
<1>4. j \in S
  <2> HIDE DEF S
  <2>1. j \in Nat
    BY RwaPositions DEF RwaInv
  <2> QED
    BY <1>3, <2>1, LineInduction
<1> QED
  BY <1>4
-----------------------------------------------------------------------------
(***************************************************************************)
(* What the profile promises.                                              *)
(***************************************************************************)

\* The type invariant of the profile.
LEMMA RwaTypeCorrect == RwaInv => Rwa!TypeOK
<1> SUFFICES ASSUME RwaInv
             PROVE  Rwa!TypeOK
  OBVIOUS
<1>1. ASSUME NEW j \in DOMAIN ledger
      PROVE  ledger[j].spent \subseteq Rwa!Cells \cap 1..(j - 1)
  <2>1. CASE j \in Rwa!Steps
    BY <2>1, RwaParent
  <2>2. CASE j \notin Rwa!Steps
    BY <1>1, <2>2 DEF Rwa!Steps
  <2> QED
    BY <2>1, <2>2
<1>2. ASSUME NEW j \in Rwa!Cells
      PROVE  /\ ledger[j].cell.amount \in Rwa!U64 \ {0}
             /\ <<ledger[j].cell.status, ledger[j].cell.nonce>> \in
                  {<<Rwa!STATUS_MATERIALIZED, 0>>, <<Rwa!STATUS_CLAIMED, 1>>}
  BY DEF RwaInv, RwaTypes, IsReceipt
<1> QED
  BY <1>1, <1>2 DEF RwaInv, RwaTypes, Rwa!TypeOK

\* The named consent, on a ledger with the invariant.
LEMMA RwaConsent == RwaInv => Rwa!ConsentOfTheNamed
<1> SUFFICES ASSUME RwaInv, NEW j \in DOMAIN ledger
             PROVE  LET core  == ledger[j].event.core
                        named == ledger[Rwa!Origin[j]].event.core IN
                    /\ core.action \in {Rwa!OP_MATERIALIZE, Rwa!OP_SETTLE} =>
                         <<named.issuer, core>> \in signed
                    /\ core.action \in {Rwa!OP_CLAIM, Rwa!OP_SETTLE} =>
                         <<named.holder, core>> \in signed
  BY DEF Rwa!ConsentOfTheNamed
<1>1. PICK core, named : core = RwaCore(j) /\ named = RwaCore(Rwa!Origin[j])
  OBVIOUS
<1>2. core.issuer = named.issuer /\ core.holder = named.holder
  BY <1>1, RwaInLine DEF RepeatsMaterialization
<1>3. /\ core.action \in {0, 2} => <<core.issuer, core>> \in signed
      /\ core.action \in {1, 2} => <<core.holder, core>> \in signed
  <2>1. CASE j \in Rwa!Steps
    <3>1. /\ core.action \in {1, 2} /\ <<core.holder, core>> \in signed
          /\ core.action = 2 => <<core.issuer, core>> \in signed
      BY <1>1, <2>1, RwaStep
    <3> QED
      BY <3>1
  <2>2. CASE j \notin Rwa!Steps
    <3>1. <<core.issuer, core>> \in signed /\ core.action = 0
      BY <1>1, <2>2, RwaFounder DEF IsMaterialization
    <3> QED
      BY <3>1
  <2> QED
    BY <2>1, <2>2
<1> QED
  BY <1>1, <1>2, <1>3 DEF RwaCore, Rwa!OP_MATERIALIZE, Rwa!OP_CLAIM, Rwa!OP_SETTLE

\* The story of the events, on a ledger with the invariant.
LEMMA RwaStory == RwaInv => Rwa!EventsTellTheStory
<1> SUFFICES ASSUME RwaInv, NEW j \in DOMAIN ledger
             PROVE  LET event == ledger[j].event IN
                    /\ ledger[j].epoch <= ledger[Rwa!Origin[j]].event.core.expiry + HeaderLag
                    /\ j \in Rwa!Cells =>
                         ledger[j].cell.latest_receipt_hash = event.latest_receipt_hash
                    /\ event.core.action = Rwa!OP_MATERIALIZE <=> j \notin Rwa!Steps
                    /\ j \in Rwa!Steps =>
                         LET before == ledger[Rwa!Parent(j)].event.core IN
                         /\ event.core.action = before.action + 1
                         /\ event.core.old_status = before.new_status
                         /\ event.core.old_nonce = before.new_nonce
                         /\ event.core.old_amount = before.settlement_amount
                         /\ event.core.settlement_amount = before.settlement_amount
                         /\ event.core.papers = before.papers
  BY DEF Rwa!EventsTellTheStory
<1>1. ledger[j].epoch <= ledger[Rwa!Origin[j]].event.core.expiry + HeaderLag
  BY RwaInLine DEF RepeatsMaterialization, RwaCore
<1>2. j \in Rwa!Cells =>
        ledger[j].cell.latest_receipt_hash = ledger[j].event.latest_receipt_hash
  BY CellOfEvent
<1>3. RwaCore(j).action = Rwa!OP_MATERIALIZE <=> j \notin Rwa!Steps
  <2>1. j \in Rwa!Steps => RwaCore(j).action \in {1, 2}
    BY RwaStep
  <2>2. j \notin Rwa!Steps => RwaCore(j).action = 0
    BY RwaFounder
  <2> QED
    BY <2>1, <2>2 DEF Rwa!OP_MATERIALIZE
<1> QED
  BY <1>1, <1>2, <1>3, RwaStep DEF RwaCore

\* The issuer and the holder that the materialisation of a receipt names both
\* signed the settlement that took place, payout included; the holder signed the
\* claim (dual_authority_settlement and holder_only_claim of the lifecycle type).
THEOREM Consent == Spec => []ConsentOfTheNamed
<1>1. (IsRwa => RwaInv) => ConsentOfTheNamed
  BY RwaConsent DEF ConsentOfTheNamed
<1> QED
  BY <1>1, RwaSpecInv, PTL

\* The events of a receipt, each sealing its cell, tell its story in order and
\* within the expiry its issuer signed (immutable_event_audit_trail and
\* amount_conservation of the lifecycle type).
THEOREM Story == Spec => []EventsTellTheStory
<1>1. (IsRwa => RwaInv) => EventsTellTheStory
  BY RwaStory DEF EventsTellTheStory
<1> QED
  BY <1>1, RwaSpecInv, PTL
-----------------------------------------------------------------------------
(***************************************************************************)
(* The last transaction of a line.                                         *)
(***************************************************************************)

\* A line has one transaction whose cell nobody took up, and that is its last.
LEMMA RwaLast ==
  ASSUME RwaInv, NEW k \in DOMAIN ledger \ Rwa!Steps
  PROVE  /\ Rwa!LastOf(k) \in DOMAIN ledger \ Rwa!Spent
         /\ Rwa!Origin[Rwa!LastOf(k)] = k
         /\ \A j \in DOMAIN ledger \ Rwa!Spent :
              Rwa!Origin[j] = k => j = Rwa!LastOf(k)
<1>1. PICK p : IsRwaLines(p)
  BY RwaLines
<1>2. Len(ledger) \in Nat /\ DOMAIN ledger = 1..Len(ledger)
  BY RwaPositions DEF RwaInv
<1> DEFINE T == {j \in DOMAIN ledger : Rwa!Origin[j] = k}
<1>3. k \in T
  BY <1>1, <1>2 DEF IsRwaLines, IsOrigin
<1>4. T \subseteq 0..Len(ledger)
  BY <1>2
<1>5. PICK m \in T : \A j \in T : j <= m
  <2> HIDE DEF T
  <2> QED
    BY <1>2, <1>3, <1>4, GreatestNat
<1>6. Rwa!LastOf(k) = m
  <2> DEFINE IsLast(j) == /\ Rwa!Origin[j] = k
                          /\ \A i \in DOMAIN ledger : Rwa!Origin[i] = k => i <= j
  <2>1. m \in DOMAIN ledger /\ IsLast(m)
    BY <1>5
  <2>2. ASSUME NEW j \in DOMAIN ledger, IsLast(j)
        PROVE  j = m
    <3>1. j <= m /\ m <= j
      BY <2>1, <2>2
    <3> QED
      BY <1>2, <2>1, <3>1
  <2>3. Rwa!LastOf(k) = CHOOSE j \in DOMAIN ledger : IsLast(j)
    BY DEF Rwa!LastOf
  <2> HIDE DEF IsLast
  <2> QED
    BY <2>1, <2>2, <2>3
<1>7. m \notin Rwa!Spent
  <2> SUFFICES ASSUME NEW c \in DOMAIN ledger, m \in ledger[c].spent
               PROVE  FALSE
    BY DEF Rwa!Spent
  <2>1. c \in Rwa!Steps /\ c \in Nat /\ m \in Nat
    BY <1>2 DEF Rwa!Steps
  <2>2. m = Rwa!Parent(c) /\ m \in 1..(c - 1)
    BY <2>1, RwaParent
  <2>3. Rwa!Origin[c] = Rwa!Origin[m]
    BY <1>1, <2>1, <2>2 DEF IsRwaLines, IsOrigin
  <2> QED
    BY <1>5, <2>1, <2>2, <2>3
<1>8. ASSUME NEW j \in DOMAIN ledger \ Rwa!Spent, Rwa!Origin[j] = k, j # m
      PROVE  FALSE
  <2>1. m \in Nat /\ j \in 0..(m - 1) /\ Rwa!Origin[j] = Rwa!Origin[m]
    BY <1>2, <1>5, <1>8
  <2>2. PICK c \in Rwa!Steps : p[c] = j
    <3>1. PICK f, steps : f = Rwa!Origin /\ steps = Rwa!Steps
      OBVIOUS
    <3>2. /\ Earlier(steps, p) /\ IsOrigin(f, steps, p)
          /\ OneChild(steps, p) /\ f[j] = f[m]
      BY <1>1, <2>1, <3>1 DEF IsRwaLines
    <3> HIDE DEF T
    <3>3. \E c \in steps : c <= m /\ p[c] = j
      BY <2>1, <3>2, LineGoesOn
    <3> QED
      BY <3>1, <3>3
  <2>3. j = Rwa!Parent(c)
    BY <1>1, <2>2 DEF IsRwaLines
  <2>4. c \in DOMAIN ledger /\ j \in ledger[c].spent
    BY <2>3, RwaParent
  <2> QED
    BY <2>4 DEF Rwa!Spent
<1> QED
  BY <1>5, <1>6, <1>7, <1>8

RwaLineFacts ==
  /\ \A j \in DOMAIN ledger :
       /\ Rwa!Origin[j] = IF j \in Rwa!Steps THEN Rwa!Origin[Rwa!Parent(j)] ELSE j
       /\ Rwa!Origin[j] \in DOMAIN ledger \ Rwa!Steps
  /\ \A k \in DOMAIN ledger \ Rwa!Steps :
       /\ Rwa!LastOf(k) \in DOMAIN ledger \ Rwa!Spent
       /\ Rwa!Origin[Rwa!LastOf(k)] = k
       /\ \A j \in DOMAIN ledger \ Rwa!Spent :
            Rwa!Origin[j] = k => j = Rwa!LastOf(k)

\* What is known of the lines, in one formula.
LEMMA RwaLineFactsHold == RwaInv => RwaLineFacts
<1> SUFFICES ASSUME RwaInv
             PROVE  RwaLineFacts
  OBVIOUS
<1>1. PICK p : IsRwaLines(p)
  BY RwaLines
<1>2. ASSUME NEW j \in DOMAIN ledger
      PROVE  /\ Rwa!Origin[j] = IF j \in Rwa!Steps THEN Rwa!Origin[Rwa!Parent(j)] ELSE j
             /\ Rwa!Origin[j] \in DOMAIN ledger \ Rwa!Steps
  <2>1. j \in Nat
    BY RwaPositions DEF RwaInv
  <2>2. Rwa!Origin[j] \notin Rwa!Steps
    <3>1. PICK f, steps : f = Rwa!Origin /\ steps = Rwa!Steps
      OBVIOUS
    <3>2. Earlier(steps, p) /\ IsOrigin(f, steps, p)
      BY <1>1, <3>1 DEF IsRwaLines
    <3>3. f[j] \notin steps
      BY <2>1, <3>2, OriginFounds
    <3> QED
      BY <3>1, <3>3
  <2>3. Rwa!Origin[j] \in DOMAIN ledger
    BY RwaInLine DEF RepeatsMaterialization
  <2>4. Rwa!Origin[j] = IF j \in Rwa!Steps THEN Rwa!Origin[Rwa!Parent(j)] ELSE j
    BY <1>1, <2>1 DEF IsRwaLines, IsOrigin
  <2> QED
    BY <2>2, <2>3, <2>4
<1> QED
  BY <1>2, RwaLast DEF RwaLineFacts

\* The same after a step.
LEMMA RwaLineFactsAfter ==
  ASSUME RwaInv'
  PROVE  RwaLineFacts'
  BY RwaLineFactsHold, PTL

\* A step that keeps the transactions keeps their lines.
LEMMA RwaOriginKept ==
  ASSUME RwaInv, RwaInv',
         \A j \in DOMAIN ledger : j \in DOMAIN ledger' /\ ledger'[j] = ledger[j]
  PROVE  \A j \in DOMAIN ledger :
           /\ Rwa!Origin[j]' = Rwa!Origin[j]
           /\ j \in Rwa!Steps' <=> j \in Rwa!Steps
           /\ j \in Rwa!Cells' <=> j \in Rwa!Cells
<1>1. ASSUME NEW j \in DOMAIN ledger
      PROVE  /\ j \in Rwa!Steps' <=> j \in Rwa!Steps
             /\ j \in Rwa!Cells' <=> j \in Rwa!Cells
             /\ Rwa!Parent(j)' = Rwa!Parent(j)
  BY DEF Rwa!Steps, Rwa!Cells, Rwa!Parent
<1> DEFINE S == {j \in Nat : j \in DOMAIN ledger => Rwa!Origin[j]' = Rwa!Origin[j]}
<1>2. ASSUME NEW j \in Nat, \A k \in 0..(j - 1) : k \in S, j \in DOMAIN ledger
      PROVE  Rwa!Origin[j]' = Rwa!Origin[j]
  <2>1. Rwa!Origin[j] = IF j \in Rwa!Steps THEN Rwa!Origin[Rwa!Parent(j)] ELSE j
    BY <1>2, RwaLineFactsHold DEF RwaLineFacts
  <2>2. Rwa!Origin[j]' = IF j \in Rwa!Steps' THEN Rwa!Origin[Rwa!Parent(j)]' ELSE j
    BY <1>2, RwaLineFactsAfter DEF RwaLineFacts
  <2>3. CASE j \in Rwa!Steps
    <3>1. PICK i : i = Rwa!Parent(j)
      OBVIOUS
    <3>2. i \in 0..(j - 1) /\ i \in DOMAIN ledger
      BY <2>3, <3>1, RwaParent DEF Rwa!Cells
    <3>3. Rwa!Origin[i]' = Rwa!Origin[i]
      BY <1>2, <3>2
    <3>4. Rwa!Parent(j)' = i
      BY <1>1, <1>2, <3>1
    <3>5. Rwa!Origin[Rwa!Parent(j)]' = Rwa!Origin[i]'
      BY <3>4
    <3> QED
      BY <1>1, <1>2, <2>1, <2>2, <2>3, <3>1, <3>3, <3>5
  <2>4. CASE j \notin Rwa!Steps
    BY <1>1, <1>2, <2>1, <2>2, <2>4
  <2> QED
    BY <2>3, <2>4
<1>3. \A j \in Nat : (\A k \in 0..(j - 1) : k \in S) => j \in S
  BY <1>2
<1>4. Nat \subseteq S
  <2> HIDE DEF S
  <2> QED
    BY <1>3, LineInduction
<1>5. DOMAIN ledger \subseteq Nat
  BY RwaPositions DEF RwaInv
<1> QED
  BY <1>1, <1>4, <1>5

\* A line whose last cell nobody takes up keeps its last transaction.
LEMMA RwaLastKept ==
  ASSUME RwaInv, RwaInv',
         \A j \in DOMAIN ledger : j \in DOMAIN ledger' /\ ledger'[j] = ledger[j],
         NEW k \in DOMAIN ledger \ Rwa!Steps, Rwa!LastOf(k) \notin Rwa!Spent'
  PROVE  Rwa!LastOf(k)' = Rwa!LastOf(k)
<1>1. PICK m : m = Rwa!LastOf(k)
  OBVIOUS
<1>2. m \in DOMAIN ledger /\ Rwa!Origin[m] = k
  BY <1>1, RwaLineFactsHold DEF RwaLineFacts
<1>3. m \in (DOMAIN ledger \ Rwa!Spent)' /\ Rwa!Origin[m]' = k
  BY <1>1, <1>2, RwaOriginKept
<1>4. k \in (DOMAIN ledger \ Rwa!Steps)'
  BY RwaOriginKept
<1> QED
  BY <1>1, <1>3, <1>4, RwaLineFactsAfter DEF RwaLineFacts
-----------------------------------------------------------------------------
(***************************************************************************)
(* Every line is a cosigned receipt.                                       *)
(***************************************************************************)

RwaKeeps == \A j \in DOMAIN ledger : j \in DOMAIN ledger' /\ ledger'[j] = ledger[j]

\* What the slots of the ledger say.
LEMMA SlotValues ==
  /\ Rwa!ReceiptContent = [k \in Rwa!LedgerSlots |-> Rwa!ReceiptContent[k]]
  /\ Rwa!ReceiptStage = [k \in Rwa!LedgerSlots |-> Rwa!ReceiptStage[k]]
  /\ Rwa!ReceiptPayout = [k \in Rwa!LedgerSlots |-> Rwa!ReceiptPayout[k]]
  /\ \A k \in Rwa!LedgerSlots :
       /\ Rwa!ReceiptContent[k] =
            IF Rwa!Materialized(k) THEN Rwa!ContentOf(RwaCore(k)) ELSE Rwa!Blank
       /\ Rwa!ReceiptStage[k] =
            IF Rwa!Materialized(k) THEN RwaCore(Rwa!LastOf(k)).new_status ELSE 0
       /\ Rwa!ReceiptPayout[k] =
            IF Rwa!Materialized(k) /\ Rwa!LastOf(k) \notin Rwa!Cells
              THEN RwaCore(Rwa!LastOf(k)).payout ELSE Rwa!Blank
BY DEF Rwa!ReceiptContent, Rwa!ReceiptStage, Rwa!ReceiptPayout, RwaCore

\* The same after a step.
LEMMA SlotValuesAfter ==
  /\ Rwa!ReceiptContent' = [k \in Rwa!LedgerSlots |-> Rwa!ReceiptContent'[k]]
  /\ Rwa!ReceiptStage' = [k \in Rwa!LedgerSlots |-> Rwa!ReceiptStage'[k]]
  /\ Rwa!ReceiptPayout' = [k \in Rwa!LedgerSlots |-> Rwa!ReceiptPayout'[k]]
  /\ \A k \in Rwa!LedgerSlots :
       /\ Rwa!ReceiptContent'[k] =
            IF Rwa!Materialized(k)' THEN Rwa!ContentOf(RwaCore(k)') ELSE Rwa!Blank
       /\ Rwa!ReceiptStage'[k] =
            IF Rwa!Materialized(k)' THEN RwaCore(Rwa!LastOf(k))'.new_status ELSE 0
       /\ Rwa!ReceiptPayout'[k] =
            IF Rwa!Materialized(k)' /\ Rwa!LastOf(k)' \notin Rwa!Cells'
              THEN RwaCore(Rwa!LastOf(k))'.payout ELSE Rwa!Blank
BY DEF Rwa!ReceiptContent, Rwa!ReceiptStage, Rwa!ReceiptPayout, RwaCore,
       Rwa!LedgerSlots

\* A slot whose line a step does not touch says what it said.
LEMMA SlotKept ==
  ASSUME RwaInv, RwaInv', RwaKeeps, NEW k \in Rwa!LedgerSlots,
         Rwa!Materialized(k)' <=> Rwa!Materialized(k)
  PROVE  /\ Rwa!ReceiptContent'[k] = Rwa!ReceiptContent[k]
         /\ (Rwa!Materialized(k) => Rwa!LastOf(k) \notin Rwa!Spent') =>
              /\ Rwa!ReceiptStage'[k] = Rwa!ReceiptStage[k]
              /\ Rwa!ReceiptPayout'[k] = Rwa!ReceiptPayout[k]
<1>1. Rwa!ReceiptContent'[k] = Rwa!ReceiptContent[k]
  <2>1. Rwa!Materialized(k) => RwaCore(k)' = RwaCore(k)
    BY DEF RwaKeeps, Rwa!Materialized, RwaCore
  <2> QED
    BY <2>1, SlotValues, SlotValuesAfter
<1>2. ASSUME Rwa!Materialized(k), Rwa!LastOf(k) \notin Rwa!Spent'
      PROVE  /\ Rwa!ReceiptStage'[k] = Rwa!ReceiptStage[k]
             /\ Rwa!ReceiptPayout'[k] = Rwa!ReceiptPayout[k]
  <2>1. PICK m : m = Rwa!LastOf(k)
    OBVIOUS
  <2>2. k \in DOMAIN ledger \ Rwa!Steps
    BY <1>2 DEF Rwa!Materialized
  <2>3. Rwa!LastOf(k)' = m
    BY <1>2, <2>1, <2>2, RwaLastKept DEF RwaKeeps
  <2>4. m \in DOMAIN ledger
    BY <2>1, <2>2, RwaLineFactsHold DEF RwaLineFacts
  <2>5. (m \in Rwa!Cells' <=> m \in Rwa!Cells) /\ ledger'[m] = ledger[m]
    BY <2>4, RwaOriginKept DEF RwaKeeps
  <2>6. RwaCore(Rwa!LastOf(k))' = RwaCore(m)
    BY <2>3, <2>5 DEF RwaCore
  <2>7. RwaCore(Rwa!LastOf(k)) = RwaCore(m)
    BY <2>1
  <2> QED
    BY <2>1, <2>3, <2>5, <2>6, <2>7, SlotValues, SlotValuesAfter
<1>3. ~ Rwa!Materialized(k) => /\ Rwa!ReceiptStage'[k] = Rwa!ReceiptStage[k]
                               /\ Rwa!ReceiptPayout'[k] = Rwa!ReceiptPayout[k]
  BY SlotValues, SlotValuesAfter
<1> QED
  BY <1>1, <1>2, <1>3

\* As long as the ledger stays, so do the receipts.
LEMMA SlotsKept ==
  ASSUME RwaInv, RwaInv', ledger' = ledger
  PROVE  /\ Rwa!ReceiptContent' = Rwa!ReceiptContent
         /\ Rwa!ReceiptStage' = Rwa!ReceiptStage
         /\ Rwa!ReceiptPayout' = Rwa!ReceiptPayout
<1>1. RwaKeeps
  BY DEF RwaKeeps
<1>2. ASSUME NEW k \in Rwa!LedgerSlots
      PROVE  /\ Rwa!ReceiptContent'[k] = Rwa!ReceiptContent[k]
             /\ Rwa!ReceiptStage'[k] = Rwa!ReceiptStage[k]
             /\ Rwa!ReceiptPayout'[k] = Rwa!ReceiptPayout[k]
  <2>1. Rwa!Materialized(k)' <=> Rwa!Materialized(k)
    BY DEF Rwa!Materialized, Rwa!Steps
  <2>2. Rwa!Materialized(k) => Rwa!LastOf(k) \notin Rwa!Spent
    BY RwaLineFactsHold DEF RwaLineFacts, Rwa!Materialized
  <2>3. Rwa!Spent' = Rwa!Spent
    BY DEF Rwa!Spent
  <2> QED
    BY <1>1, <2>1, <2>2, <2>3, SlotKept
<1> QED
  BY <1>2, SlotValues, SlotValuesAfter

\* What a committed transaction does to the ledger.
LEMMA RwaAppended ==
  ASSUME RwaInv, NEW spent, NEW cell, NEW event, Rwa!Commit(spent, cell, event),
         NEW n, n = Len(ledger) + 1
  PROVE  /\ n \in Rwa!LedgerSlots /\ n \notin DOMAIN ledger
         /\ DOMAIN ledger \subseteq Rwa!LedgerSlots
         /\ DOMAIN ledger' = DOMAIN ledger \cup {n}
         /\ RwaKeeps
         /\ ledger'[n].spent = spent /\ ledger'[n].cell = cell
         /\ ledger'[n].event = event
         /\ tip' = tip /\ signed' = signed
         /\ Rwa!Spent' = Rwa!Spent \cup spent
<1> DEFINE e == [spent |-> spent, cell |-> cell, event |-> event, epoch |-> tip]
<1>1. /\ ledger' = Append(ledger, e) /\ Len(ledger) < MaxLedger
      /\ tip' = tip /\ signed' = signed
  BY DEF Rwa!Commit
<1>2. e.spent = spent /\ e.cell = cell /\ e.event = event
  OBVIOUS
<1> HIDE DEF e
<1>3. /\ Len(ledger) \in Nat /\ DOMAIN ledger = 1..Len(ledger)
      /\ DOMAIN ledger' = 1..(Len(ledger) + 1)
      /\ \A j \in 1..Len(ledger) : ledger'[j] = ledger[j]
      /\ ledger'[Len(ledger) + 1] = e
  BY <1>1, AppendFacts DEF RwaInv, RwaTypes
<1>4. MaxLedger \in Nat
  BY ProfilesAssumption DEF ProfilesAssumption, Rwa!RwaAssumption
<1>5. n \in Rwa!LedgerSlots /\ DOMAIN ledger \subseteq Rwa!LedgerSlots
  BY <1>1, <1>3, <1>4 DEF Rwa!LedgerSlots
<1>6. n \notin DOMAIN ledger /\ DOMAIN ledger' = DOMAIN ledger \cup {n} /\ RwaKeeps
  BY <1>3 DEF RwaKeeps
<1>7. Rwa!Spent' = Rwa!Spent \cup spent
  BY <1>2, <1>3, <1>6 DEF Rwa!Spent, RwaKeeps
<1> QED
  BY <1>1, <1>2, <1>3, <1>5, <1>6, <1>7

\* The offers are the contents of what the wallets sign.
LEMMA SignedContent ==
  ASSUME NEW s \in RwaWallet
  PROVE  /\ s[1] \in AssetKeys
         /\ Rwa!ContentOf(s[2]) \in RwaOffers
         /\ s[2].new_status \in 1..3
         /\ s[2].payout \in RwaPayouts
<1>1. PICK core : core = s[2]
  OBVIOUS
<1>2. s[1] \in AssetKeys /\ core \in Rwa!Cores
  BY <1>1, RwaConstants
<1>3. ASSUME NEW o \in RwaOffers
      PROVE  o = [receipt_id |-> o.receipt_id, papers |-> o.papers,
                  issuer |-> o.issuer, holder |-> o.holder,
                  amount |-> o.amount, expiry |-> o.expiry]
  BY ProfilesAssumption DEF ProfilesAssumption, Rwa!RwaAssumption
<1>4. CASE \E o \in RwaOffers, x \in RwaPayouts : core = Rwa!MaterializeCore(o, x)
  <2>1. PICK o \in RwaOffers, x \in RwaPayouts : core = Rwa!MaterializeCore(o, x)
    BY <1>4
  <2>2. Rwa!ContentOf(core) = o
    BY <1>3, <2>1, MaterializeFields DEF Rwa!ContentOf
  <2>3. core.new_status = 1 /\ core.payout = x
    BY <2>1, MaterializeFields
  <2> QED
    BY <1>1, <1>2, <2>2, <2>3
<1>5. CASE \E op \in {Rwa!OP_CLAIM, Rwa!OP_SETTLE}, o \in RwaOffers, n \in Rwa!U64,
              x \in RwaPayouts : core = Rwa!StepCore(op, o, n, x)
  <2>1. PICK op \in {Rwa!OP_CLAIM, Rwa!OP_SETTLE}, o \in RwaOffers, n \in Rwa!U64,
             x \in RwaPayouts : core = Rwa!StepCore(op, o, n, x)
    BY <1>5
  <2>2. Rwa!ContentOf(core) = o
    BY <1>3, <2>1, RwaStepFields DEF Rwa!ContentOf
  <2>3. core.new_status = op + 1 /\ core.payout = x
    BY <2>1, RwaStepFields
  <2>4. core.new_status \in 1..3
    BY <2>1, <2>3 DEF Rwa!OP_CLAIM, Rwa!OP_SETTLE
  <2> QED
    BY <1>1, <1>2, <2>2, <2>3, <2>4
<1> QED
  BY <1>2, <1>4, <1>5 DEF Rwa!Cores

\* A signature that is there in time is consent.
LEMMA SignatureConsents ==
  ASSUME NEW key, NEW core, <<key, core>> \in signed, Rwa!Timely(core)
  PROVE  <<key, Rwa!ContentOf(core), core.new_status, core.payout>> \in Rwa!Consented
<1>1. PICK s \in signed : s = <<key, core>>
  OBVIOUS
<1>2. s[1] = key /\ s[2] = core
  BY <1>1
<1> QED
  BY <1>1, <1>2 DEF Rwa!Consented

\* In the beginning there are no receipts.
LEMMA ReceiptsBegin ==
  ASSUME Init
  PROVE  Rwa!Promise!Init
<1>1. tip = 0 /\ signed = {} /\ DOMAIN ledger = {}
  BY DEF Init
<1>2. \A k : ~ Rwa!Materialized(k)
  BY <1>1 DEF Rwa!Materialized
<1>3. Rwa!Consented = {}
  BY <1>1 DEF Rwa!Consented
<1>4. /\ Rwa!ReceiptContent = [k \in Rwa!LedgerSlots |-> Rwa!Promise!Blank]
      /\ Rwa!ReceiptStage = [k \in Rwa!LedgerSlots |-> 0]
      /\ Rwa!ReceiptPayout = [k \in Rwa!LedgerSlots |-> Rwa!Promise!Blank]
  BY <1>2 DEF Rwa!ReceiptContent, Rwa!ReceiptStage, Rwa!ReceiptPayout, Rwa!Blank,
              Rwa!Promise!Blank
<1> QED
  BY <1>1, <1>3, <1>4 DEF Rwa!Promise!Init

\* The chain moves to its next epoch.
LEMMA TickIsAdvance ==
  ASSUME RwaInv, RwaInv', Rwa!Tick
  PROVE  Rwa!Promise!Next
<1>1. tip < MaxEpoch /\ tip' = tip + 1 /\ signed' = signed /\ ledger' = ledger
  BY DEF Rwa!Tick
<1>2. Rwa!Consented' = Rwa!Consented
  BY <1>1 DEF Rwa!Consented, Rwa!Timely, Rwa!ContentOf, Rwa!OP_SETTLE
<1> QED
  BY <1>1, <1>2, SlotsKept DEF Rwa!Promise!Next, Rwa!Promise!Advance

\* A signature is consent, or comes at a nonce its intent never meets.
LEMMA SignIsAgree ==
  ASSUME RwaInv, RwaInv', NEW s \in RwaWallet, Rwa!Sign(s[1], s[2])
  PROVE  [Rwa!Promise!Next]_(Rwa!Promise!receipts)
<1>1. PICK key, core : s[1] = key /\ s[2] = core
  OBVIOUS
<1>2. signed' = signed \cup {<<key, core>>} /\ tip' = tip /\ ledger' = ledger
  BY <1>1 DEF Rwa!Sign
<1>3. PICK consent : consent = <<key, Rwa!ContentOf(core), core.new_status, core.payout>>
  OBVIOUS
<1>4. CASE Rwa!Timely(core)
  <2>1. Rwa!Consented' = Rwa!Consented \cup {consent}
    <3>1. PICK t : t = <<key, core>>
      OBVIOUS
    <3>2. t[1] = key /\ t[2] = core /\ signed' = signed \cup {t}
      BY <1>2, <3>1
    <3>3. \A x : Rwa!Timely(x)' <=> Rwa!Timely(x)
      BY DEF Rwa!Timely, Rwa!OP_SETTLE
    <3>4. \A x : Rwa!ContentOf(x)' = Rwa!ContentOf(x)
      BY DEF Rwa!ContentOf
    <3> QED
      BY <1>3, <1>4, <3>2, <3>3, <3>4 DEF Rwa!Consented
  <2>2. /\ key \in AssetKeys /\ Rwa!ContentOf(core) \in RwaOffers
        /\ core.new_status \in 1..3 /\ core.payout \in RwaPayouts
    BY <1>1, SignedContent
  <2>3. Rwa!Promise!Agree
    BY <1>2, <1>3, <2>1, <2>2, SlotsKept DEF Rwa!Promise!Agree
  <2> QED
    BY <2>3 DEF Rwa!Promise!Next
<1>5. CASE ~ Rwa!Timely(core)
  <2>1. Rwa!Consented' = Rwa!Consented
    BY <1>2, <1>5 DEF Rwa!Consented, Rwa!Timely, Rwa!ContentOf, Rwa!OP_SETTLE
  <2> QED
    BY <1>2, <2>1, SlotsKept DEF Rwa!Promise!receipts
<1> QED
  BY <1>4, <1>5

\* A materialisation creates a receipt.
LEMMA MaterializeIsCreate ==
  ASSUME RwaInv, RwaInv', NEW s \in signed, NEW now \in Rwa!Presentable(tip),
         Rwa!Materialize(s[2], now)
  PROVE  Rwa!Promise!Next
<1>1. PICK none : none = {}
  OBVIOUS
<1>2. PICK core, cell, event :
        /\ core = s[2] /\ cell = Rwa!ReceiptCell(core)
        /\ event = Rwa!Event(core, core.issuer)
  OBVIOUS
<1>3. Rwa!Commit(none, cell, event) /\ Rwa!MaterializeAccepts(core, now)
  BY <1>1, <1>2 DEF Rwa!Materialize
<1>4. PICK n : n = Len(ledger) + 1
  OBVIOUS
<1>5. /\ n \in Rwa!LedgerSlots /\ n \notin DOMAIN ledger
      /\ DOMAIN ledger \subseteq Rwa!LedgerSlots
      /\ DOMAIN ledger' = DOMAIN ledger \cup {n}
      /\ RwaKeeps
      /\ ledger'[n].spent = none /\ ledger'[n].cell = cell
      /\ ledger'[n].event = event
      /\ tip' = tip /\ signed' = signed
      /\ Rwa!Spent' = Rwa!Spent \cup none
  BY <1>3, <1>4, RwaAppended DEF Rwa!Commit
<1>6. RwaCore(n)' = core
  BY <1>2, <1>5 DEF RwaCore, Rwa!Event
<1>7. /\ Rwa!Materialized(n)' /\ ~ Rwa!Materialized(n)
      /\ \A k \in Rwa!LedgerSlots \ {n} : Rwa!Materialized(k)' <=> Rwa!Materialized(k)
  <2>1. n \notin Rwa!Steps' /\ n \notin DOMAIN ledger
    BY <1>1, <1>5 DEF Rwa!Steps
  <2>2. \A k \in DOMAIN ledger : k \in Rwa!Steps' <=> k \in Rwa!Steps
    BY <1>5, RwaOriginKept DEF RwaKeeps
  <2> QED
    BY <1>5, <2>1, <2>2 DEF Rwa!Materialized
<1>8. n \in Rwa!Cells'
  BY <1>2, <1>5 DEF Rwa!Cells, Rwa!ReceiptCell, Rwa!NoCell
<1>9. Rwa!LastOf(n)' = n
  <2>1. n \notin Rwa!Spent'
    <3>1. \A j \in DOMAIN ledger : ledger[j].spent \subseteq DOMAIN ledger
      BY RwaTypeCorrect DEF Rwa!TypeOK, Rwa!Cells
    <3> QED
      BY <1>1, <1>5, <3>1 DEF Rwa!Spent
  <2>2. n \in DOMAIN ledger' /\ n \notin Rwa!Steps'
    BY <1>7 DEF Rwa!Materialized
  <2> QED
    BY <2>1, <2>2, RwaLineFactsAfter DEF RwaLineFacts
<1>10. ASSUME NEW k \in Rwa!LedgerSlots \ {n}
       PROVE  /\ Rwa!ReceiptContent'[k] = Rwa!ReceiptContent[k]
              /\ Rwa!ReceiptStage'[k] = Rwa!ReceiptStage[k]
              /\ Rwa!ReceiptPayout'[k] = Rwa!ReceiptPayout[k]
  <2>1. Rwa!Materialized(k) => Rwa!LastOf(k) \notin Rwa!Spent
    BY RwaLineFactsHold DEF RwaLineFacts, Rwa!Materialized
  <2> QED
    BY <1>1, <1>5, <1>7, <2>1, SlotKept
<1>11. PICK c : c = Rwa!ContentOf(core)
  OBVIOUS
<1>12. /\ s[1] \in AssetKeys /\ c \in RwaOffers /\ core.payout \in RwaPayouts
  BY <1>2, <1>11, SignedContent DEF RwaInv
<1>13. /\ core.new_status = 1 /\ core.old_nonce = 0 /\ core.action = 0
       /\ <<core.issuer, core>> \in signed /\ tip <= core.expiry + HeaderLag
  <2>1. ~ \E i \in 1..(n - 1) : IsClaim(i, n)' \/ IsPayment(i, n)'
    BY <1>1, <1>5 DEF IsClaim, IsPayment, IsRwaStep
  <2>2. IsMaterialization(n)'
    BY <1>5, <2>1 DEF RwaInv, RwaHistory
  <2>3. /\ \E o \in RwaOffers, x \in RwaPayouts : core = Rwa!MaterializeCore(o, x)
        /\ <<core.issuer, core>> \in signed
    BY <1>5, <1>6, <2>2 DEF IsMaterialization
  <2>4. PICK o \in RwaOffers, x \in RwaPayouts : core = Rwa!MaterializeCore(o, x)
    BY <2>3
  <2>5. core.expiry \in Rwa!U64
    BY <2>4, RwaConstants, MaterializeFields
  <2>6. tip <= core.expiry + HeaderLag
    BY <1>3, <2>5, RwaTimely DEF Rwa!MaterializeAccepts
  <2> QED
    BY <2>3, <2>4, <2>6, MaterializeFields
<1>14. <<c.issuer, c, 1, core.payout>> \in Rwa!Consented
  <2>1. c.issuer = core.issuer
    BY <1>11 DEF Rwa!ContentOf
  <2>2. Rwa!Timely(core)
    BY <1>13 DEF Rwa!Timely, Rwa!OP_SETTLE
  <2> QED
    BY <1>11, <1>13, <2>1, <2>2, SignatureConsents
<1>15. Rwa!ReceiptStage' = [Rwa!ReceiptStage EXCEPT ![n] = 1]
  <2>1. RwaCore(Rwa!LastOf(n))' = core
    BY <1>6, <1>9
  <2>2. Rwa!ReceiptStage'[n] = 1
    BY <1>5, <1>7, <1>13, <2>1, SlotValuesAfter
  <2> QED
    BY <1>5, <1>10, <2>2, SlotValues, SlotValuesAfter, OneValueChanged
<1>16. Rwa!ReceiptContent' = [Rwa!ReceiptContent EXCEPT ![n] = c]
  <2>1. Rwa!ReceiptContent'[n] = c
    BY <1>5, <1>6, <1>7, <1>11, SlotValuesAfter
  <2> QED
    BY <1>5, <1>10, <2>1, SlotValues, SlotValuesAfter, OneValueChanged
<1>17. Rwa!ReceiptPayout' = Rwa!ReceiptPayout
  <2>1. Rwa!ReceiptPayout'[n] = Rwa!ReceiptPayout[n]
    BY <1>5, <1>7, <1>8, <1>9, SlotValues, SlotValuesAfter
  <2> QED
    BY <1>10, <2>1, SlotValues, SlotValuesAfter
<1>18. Rwa!Consented' = Rwa!Consented
  BY <1>5 DEF Rwa!Consented, Rwa!Timely, Rwa!ContentOf, Rwa!OP_SETTLE
<1>19. Rwa!Promise!Create(n, c)
  <2>1. Rwa!ReceiptStage[n] = 0
    BY <1>5, <1>7, SlotValues
  <2>2. c.expiry = core.expiry
    BY <1>11 DEF Rwa!ContentOf
  <2>3. Rwa!Promise!Reach(n, c, 1)
    BY <1>13, <1>15, <2>1, <2>2 DEF Rwa!Promise!Reach
  <2> QED
    BY <1>5, <1>12, <1>14, <1>16, <1>17, <1>18, <2>3 DEF Rwa!Promise!Create
<1> QED
  BY <1>5, <1>12, <1>19 DEF Rwa!Promise!Next

\* What a transaction that takes up a receipt cell does to the slots, and what
\* the cell has to say about its slot.
LEMMA TakingUp ==
  ASSUME RwaInv, RwaInv', NEW i \in Rwa!Live, NEW cell, NEW event,
         Rwa!Commit({i}, cell, event), NEW r, r = Rwa!Origin[i],
         NEW n, n = Len(ledger) + 1
  PROVE  /\ r \in Rwa!LedgerSlots /\ Rwa!Materialized(r) /\ Rwa!Materialized(r)'
         /\ i \in Rwa!Cells
         /\ Rwa!LastOf(r) = i /\ Rwa!LastOf(r)' = n
         /\ n \in DOMAIN ledger' /\ (n \in Rwa!Cells' <=> cell # Rwa!NoCell)
         /\ ledger'[n].event = event /\ tip' = tip /\ signed' = signed
         /\ Rwa!ReceiptContent' = Rwa!ReceiptContent
         /\ \A k \in Rwa!LedgerSlots \ {r} :
              /\ Rwa!ReceiptStage'[k] = Rwa!ReceiptStage[k]
              /\ Rwa!ReceiptPayout'[k] = Rwa!ReceiptPayout[k]
<1>1. PICK spent : spent = {i}
  OBVIOUS
<1>2. /\ n \in Rwa!LedgerSlots /\ n \notin DOMAIN ledger
      /\ DOMAIN ledger \subseteq Rwa!LedgerSlots
      /\ DOMAIN ledger' = DOMAIN ledger \cup {n}
      /\ RwaKeeps
      /\ ledger'[n].spent = spent /\ ledger'[n].cell = cell
      /\ ledger'[n].event = event
      /\ tip' = tip /\ signed' = signed
      /\ Rwa!Spent' = Rwa!Spent \cup spent
  <2>1. Rwa!Commit(spent, cell, event)
    BY <1>1
  <2> QED
    BY <2>1, RwaAppended DEF Rwa!Commit
<1>3. i \in Rwa!Cells /\ i \in DOMAIN ledger \ Rwa!Spent
  BY DEF Rwa!Live, Rwa!Cells
<1>4. r \in DOMAIN ledger \ Rwa!Steps /\ Rwa!LastOf(r) = i
  BY <1>3, RwaLineFactsHold DEF RwaLineFacts
<1>5. \A k \in Rwa!LedgerSlots : Rwa!Materialized(k)' <=> Rwa!Materialized(k)
  <2>1. n \in Rwa!Steps'
    BY <1>1, <1>2 DEF Rwa!Steps
  <2>2. \A k \in DOMAIN ledger : k \in Rwa!Steps' <=> k \in Rwa!Steps
    BY <1>2, RwaOriginKept DEF RwaKeeps
  <2> QED
    BY <1>2, <2>1, <2>2 DEF Rwa!Materialized
<1>6. r \in Rwa!LedgerSlots /\ Rwa!Materialized(r) /\ Rwa!Materialized(r)'
  BY <1>2, <1>4, <1>5 DEF Rwa!Materialized
<1>7. Rwa!LastOf(r)' = n
  <2>1. Rwa!Parent(n)' = i /\ n \in Rwa!Steps'
    BY <1>1, <1>2 DEF Rwa!Parent, Rwa!Steps
  <2>2. Rwa!Origin[n]' = Rwa!Origin[i]'
    <3>1. Rwa!Origin[n]' = Rwa!Origin[Rwa!Parent(n)]'
      BY <1>2, <2>1, RwaLineFactsAfter DEF RwaLineFacts
    <3> QED
      BY <2>1, <3>1
  <2>3. Rwa!Origin[i]' = r
    BY <1>2, <1>3, RwaOriginKept DEF RwaKeeps
  <2>4. n \notin Rwa!Spent'
    <3>1. \A j \in DOMAIN ledger : ledger[j].spent \subseteq DOMAIN ledger
      BY RwaTypeCorrect DEF Rwa!TypeOK, Rwa!Cells
    <3> QED
      BY <1>1, <1>2, <1>3, <3>1 DEF Rwa!Spent
  <2>5. r \in (DOMAIN ledger \ Rwa!Steps)'
    BY <1>6 DEF Rwa!Materialized
  <2>6. n \in (DOMAIN ledger \ Rwa!Spent)'
    BY <1>2, <2>4
  <2> QED
    BY <2>2, <2>3, <2>5, <2>6, RwaLineFactsAfter DEF RwaLineFacts
<1>8. n \in Rwa!Cells' <=> cell # Rwa!NoCell
  BY <1>2 DEF Rwa!Cells, Rwa!NoCell
<1>9. ASSUME NEW k \in Rwa!LedgerSlots \ {r}
      PROVE  /\ Rwa!ReceiptStage'[k] = Rwa!ReceiptStage[k]
             /\ Rwa!ReceiptPayout'[k] = Rwa!ReceiptPayout[k]
  <2>1. ASSUME Rwa!Materialized(k)
        PROVE  Rwa!LastOf(k) \notin Rwa!Spent'
    <3>1. Rwa!LastOf(k) \notin Rwa!Spent /\ Rwa!Origin[Rwa!LastOf(k)] = k
      BY <2>1, RwaLineFactsHold DEF RwaLineFacts, Rwa!Materialized
    <3>2. Rwa!LastOf(k) # i
      BY <3>1
    <3> QED
      BY <1>1, <1>2, <3>1, <3>2
  <2> QED
    BY <1>2, <1>5, <2>1, SlotKept
<1>10. Rwa!ReceiptContent' = Rwa!ReceiptContent
  <2>1. \A k \in Rwa!LedgerSlots : Rwa!ReceiptContent'[k] = Rwa!ReceiptContent[k]
    BY <1>2, <1>5, SlotKept
  <2> QED
    BY <2>1, SlotValues, SlotValuesAfter
<1> QED
  BY <1>2, <1>3, <1>4, <1>6, <1>7, <1>8, <1>9, <1>10

\* What the receipt cell of a line has in common with its slot.
LEMMA SlotOfCell ==
  ASSUME RwaInv, NEW i \in Rwa!Cells, NEW r, r = Rwa!Origin[i],
         r \in Rwa!LedgerSlots, Rwa!Materialized(r), Rwa!LastOf(r) = i,
         NEW old, old = ledger[i].cell, NEW c, c = Rwa!ReceiptContent[r]
  PROVE  /\ c = [receipt_id |-> old.receipt_id, papers |-> old.papers,
                 issuer |-> old.issuer, holder |-> old.holder,
                 amount |-> old.amount, expiry |-> old.expiry]
         /\ Rwa!ReceiptStage[r] = old.status
         /\ Rwa!ReceiptPayout[r] = Rwa!Blank
<1>1. PICK core, named : core = RwaCore(i) /\ named = RwaCore(r)
  OBVIOUS
<1>2. c = Rwa!ContentOf(named)
  BY <1>1, SlotValues
<1>3. /\ core.issuer = named.issuer /\ core.holder = named.holder
      /\ core.expiry = named.expiry /\ core.receipt_id = named.receipt_id
      /\ core.papers = named.papers
      /\ core.settlement_amount = named.settlement_amount
  BY <1>1, RwaInLine DEF RepeatsMaterialization, Rwa!Cells
<1>4. /\ old.receipt_id = core.receipt_id /\ old.papers = core.papers
      /\ old.issuer = core.issuer /\ old.holder = core.holder
      /\ old.amount = core.settlement_amount /\ old.status = core.new_status
      /\ old.expiry = core.expiry
  <2>1. old = Rwa!ReceiptCell(core)
    BY <1>1, CellOfEvent
  <2> QED
    BY <2>1, ReceiptCellFields
<1>5. Rwa!ReceiptStage[r] = core.new_status /\ Rwa!ReceiptPayout[r] = Rwa!Blank
  BY <1>1, SlotValues
<1> QED
  BY <1>2, <1>3, <1>4, <1>5 DEF Rwa!ContentOf

\* A claim moves a receipt on.
LEMMA ClaimIsClaim ==
  ASSUME RwaInv, RwaInv', NEW s \in signed, NEW now \in Rwa!Presentable(tip),
         NEW i \in Rwa!Live, Rwa!Claim(i, s[2], now)
  PROVE  Rwa!Promise!Next
<1>1. PICK core, cell, event, old, r, n :
        /\ core = s[2] /\ cell = Rwa!ReceiptCell(core)
        /\ event = Rwa!Event(core, core.holder) /\ old = ledger[i].cell
        /\ r = Rwa!Origin[i] /\ n = Len(ledger) + 1
  OBVIOUS
<1>2. Rwa!Commit({i}, cell, event) /\ Rwa!ClaimAccepts(old, core, now)
  BY <1>1 DEF Rwa!Claim
<1>3. /\ r \in Rwa!LedgerSlots /\ Rwa!Materialized(r) /\ Rwa!Materialized(r)'
      /\ i \in Rwa!Cells
      /\ Rwa!LastOf(r) = i /\ Rwa!LastOf(r)' = n
      /\ n \in DOMAIN ledger' /\ (n \in Rwa!Cells' <=> cell # Rwa!NoCell)
      /\ ledger'[n].event = event /\ tip' = tip /\ signed' = signed
      /\ Rwa!ReceiptContent' = Rwa!ReceiptContent
      /\ \A k \in Rwa!LedgerSlots \ {r} :
           /\ Rwa!ReceiptStage'[k] = Rwa!ReceiptStage[k]
           /\ Rwa!ReceiptPayout'[k] = Rwa!ReceiptPayout[k]
  BY <1>1, <1>2, TakingUp DEF Rwa!Commit
<1>4. /\ core = Rwa!StepCore(Rwa!OP_CLAIM, old, old.nonce, core.payout)
      /\ old.nonce < Widths.rwa /\ old.status = Rwa!STATUS_MATERIALIZED
      /\ <<old.holder, core>> \in signed
  BY <1>2 DEF Rwa!ClaimAccepts, Rwa!SignedBy
<1>5. IsReceipt(old) /\ old.nonce = 0 /\ old.status = 1
  <2>1. IsReceipt(old)
    BY <1>1, <1>3 DEF RwaInv, RwaTypes
  <2> QED
    BY <1>4, <2>1 DEF IsReceipt, Rwa!STATUS_MATERIALIZED, Rwa!STATUS_CLAIMED
<1>6. tip <= old.expiry + HeaderLag
  BY <1>2, <1>5, RwaTimely DEF Rwa!ClaimAccepts, IsReceipt
<1>7. PICK c : c = Rwa!ReceiptContent[r]
  OBVIOUS
<1>8. /\ c = [receipt_id |-> old.receipt_id, papers |-> old.papers,
              issuer |-> old.issuer, holder |-> old.holder,
              amount |-> old.amount, expiry |-> old.expiry]
      /\ Rwa!ReceiptStage[r] = 1 /\ Rwa!ReceiptPayout[r] = Rwa!Blank
  BY <1>1, <1>3, <1>5, <1>7, SlotOfCell
<1>9. /\ c.issuer = old.issuer /\ c.holder = old.holder /\ c.expiry = old.expiry
  BY <1>8
<1>10. /\ core.issuer = old.issuer /\ core.holder = old.holder
       /\ core.receipt_id = old.receipt_id /\ core.papers = old.papers
       /\ core.expiry = old.expiry /\ core.settlement_amount = old.amount
       /\ core.action = 1 /\ core.new_status = 2
       /\ core.old_nonce = 0
  BY <1>4, <1>5, RwaStepCell DEF Rwa!OP_CLAIM
<1>11. Rwa!ContentOf(core) = c /\ Rwa!Timely(core)
  BY <1>8, <1>10 DEF Rwa!ContentOf, Rwa!Timely, Rwa!OP_SETTLE
<1>12. core.payout \in RwaPayouts
  BY <1>1, SignedContent DEF RwaInv
<1>13. /\ <<c.holder, c, 2, core.payout>> \in Rwa!Consented
  BY <1>4, <1>9, <1>10, <1>11, SignatureConsents
<1>14. RwaCore(Rwa!LastOf(r))' = core
  <2>1. ledger'[n].event.core = core
    BY <1>1, <1>3 DEF Rwa!Event
  <2> QED
    BY <1>3, <2>1 DEF RwaCore
<1>15. Rwa!ReceiptStage' = [Rwa!ReceiptStage EXCEPT ![r] = 2]
  <2>1. Rwa!ReceiptStage'[r] = 2
    BY <1>3, <1>10, <1>14, SlotValuesAfter
  <2> QED
    BY <1>3, <2>1, SlotValues, SlotValuesAfter, OneValueChanged
<1>16. Rwa!ReceiptPayout' = Rwa!ReceiptPayout
  <2>1. n \in Rwa!Cells'
    BY <1>1, <1>3 DEF Rwa!ReceiptCell, Rwa!NoCell
  <2>2. Rwa!ReceiptPayout'[r] = Rwa!ReceiptPayout[r]
    BY <1>3, <1>8, <2>1, SlotValuesAfter
  <2> QED
    BY <1>3, <2>2, SlotValues, SlotValuesAfter
<1>17. Rwa!Consented' = Rwa!Consented
  BY <1>3 DEF Rwa!Consented, Rwa!Timely, Rwa!ContentOf, Rwa!OP_SETTLE
<1>18. Rwa!Promise!Reach(r, c, 2)
  BY <1>6, <1>8, <1>9, <1>15 DEF Rwa!Promise!Reach
<1>19. Rwa!Promise!Claim(r)
  BY <1>3, <1>7, <1>12, <1>13, <1>16, <1>17, <1>18 DEF Rwa!Promise!Claim
<1> QED
  BY <1>3, <1>8, <1>12, <1>19 DEF Rwa!Promise!Next

\* A settlement pays a receipt out.
LEMMA SettleIsSettle ==
  ASSUME RwaInv, RwaInv', NEW s \in signed, NEW now \in Rwa!Presentable(tip),
         NEW i \in Rwa!Live, Rwa!Settle(i, s[2], now)
  PROVE  Rwa!Promise!Next
<1>1. PICK core, cell, event, old, r, n :
        /\ core = s[2] /\ cell = Rwa!NoCell
        /\ event = Rwa!Event(core, core.issuer) /\ old = ledger[i].cell
        /\ r = Rwa!Origin[i] /\ n = Len(ledger) + 1
  OBVIOUS
<1>2. Rwa!Commit({i}, cell, event) /\ Rwa!SettleAccepts(old, core, now)
  BY <1>1 DEF Rwa!Settle
<1>3. /\ r \in Rwa!LedgerSlots /\ Rwa!Materialized(r) /\ Rwa!Materialized(r)'
      /\ i \in Rwa!Cells
      /\ Rwa!LastOf(r) = i /\ Rwa!LastOf(r)' = n
      /\ n \in DOMAIN ledger' /\ (n \in Rwa!Cells' <=> cell # Rwa!NoCell)
      /\ ledger'[n].event = event /\ tip' = tip /\ signed' = signed
      /\ Rwa!ReceiptContent' = Rwa!ReceiptContent
      /\ \A k \in Rwa!LedgerSlots \ {r} :
           /\ Rwa!ReceiptStage'[k] = Rwa!ReceiptStage[k]
           /\ Rwa!ReceiptPayout'[k] = Rwa!ReceiptPayout[k]
  BY <1>1, <1>2, TakingUp DEF Rwa!Commit
<1>4. /\ core = Rwa!StepCore(Rwa!OP_SETTLE, old, old.nonce, core.payout)
      /\ old.nonce < Widths.rwa /\ old.status = Rwa!STATUS_CLAIMED
      /\ <<old.holder, core>> \in signed
      /\ <<old.issuer, core>> \in signed
  BY <1>2 DEF Rwa!SettleAccepts, Rwa!SignedBy
<1>5. IsReceipt(old) /\ old.nonce = 1 /\ old.status = 2
  <2>1. IsReceipt(old)
    BY <1>1, <1>3 DEF RwaInv, RwaTypes
  <2> QED
    BY <1>4, <2>1 DEF IsReceipt, Rwa!STATUS_MATERIALIZED, Rwa!STATUS_CLAIMED
<1>6. tip <= old.expiry + HeaderLag
  BY <1>2, <1>5, RwaTimely DEF Rwa!SettleAccepts, IsReceipt
<1>7. PICK c : c = Rwa!ReceiptContent[r]
  OBVIOUS
<1>8. /\ c = [receipt_id |-> old.receipt_id, papers |-> old.papers,
              issuer |-> old.issuer, holder |-> old.holder,
              amount |-> old.amount, expiry |-> old.expiry]
      /\ Rwa!ReceiptStage[r] = 2 /\ Rwa!ReceiptPayout[r] = Rwa!Blank
  BY <1>1, <1>3, <1>5, <1>7, SlotOfCell
<1>9. /\ c.issuer = old.issuer /\ c.holder = old.holder /\ c.expiry = old.expiry
  BY <1>8
<1>10. /\ core.issuer = old.issuer /\ core.holder = old.holder
       /\ core.receipt_id = old.receipt_id /\ core.papers = old.papers
       /\ core.expiry = old.expiry /\ core.settlement_amount = old.amount
       /\ core.action = 2 /\ core.new_status = 3
       /\ core.old_nonce = 1
  BY <1>4, <1>5, RwaStepCell DEF Rwa!OP_SETTLE
<1>11. Rwa!ContentOf(core) = c /\ Rwa!Timely(core)
  BY <1>8, <1>10 DEF Rwa!ContentOf, Rwa!Timely, Rwa!OP_SETTLE
<1>12. core.payout \in RwaPayouts
  BY <1>1, SignedContent DEF RwaInv
<1>13. /\ <<c.holder, c, 3, core.payout>> \in Rwa!Consented
       /\ <<c.issuer, c, 3, core.payout>> \in Rwa!Consented
  BY <1>4, <1>9, <1>10, <1>11, SignatureConsents
<1>14. RwaCore(Rwa!LastOf(r))' = core
  <2>1. ledger'[n].event.core = core
    BY <1>1, <1>3 DEF Rwa!Event
  <2> QED
    BY <1>3, <2>1 DEF RwaCore
<1>15. Rwa!ReceiptStage' = [Rwa!ReceiptStage EXCEPT ![r] = 3]
  <2>1. Rwa!ReceiptStage'[r] = 3
    BY <1>3, <1>10, <1>14, SlotValuesAfter
  <2> QED
    BY <1>3, <2>1, SlotValues, SlotValuesAfter, OneValueChanged
<1>16. Rwa!ReceiptPayout' = [Rwa!ReceiptPayout EXCEPT ![r] = core.payout]
  <2>1. Rwa!ReceiptPayout'[r] = core.payout
    BY <1>1, <1>3, <1>14, SlotValuesAfter
  <2> QED
    BY <1>3, <2>1, SlotValues, SlotValuesAfter, OneValueChanged
<1>17. Rwa!Consented' = Rwa!Consented
  BY <1>3 DEF Rwa!Consented, Rwa!Timely, Rwa!ContentOf, Rwa!OP_SETTLE
<1>18. Rwa!Promise!Reach(r, c, 3)
  BY <1>6, <1>8, <1>9, <1>15 DEF Rwa!Promise!Reach
<1>19. Rwa!Promise!Settle(r, core.payout)
  BY <1>3, <1>7, <1>13, <1>16, <1>17, <1>18 DEF Rwa!Promise!Settle
<1> QED
  BY <1>3, <1>8, <1>12, <1>19 DEF Rwa!Promise!Next

\* Every step of the profile is one that the parties agreed to, or none.
LEMMA ReceiptsGoOn ==
  ASSUME RwaInv, [Rwa!Next]_(Rwa!vars)
  PROVE  [Rwa!Promise!Next]_(Rwa!Promise!receipts)
<1>1. RwaInv'
  BY RwaNextInv
<1>2. CASE UNCHANGED Rwa!vars
  <2>1. tip' = tip /\ signed' = signed /\ ledger' = ledger
    BY <1>2 DEF Rwa!vars
  <2>2. Rwa!Consented' = Rwa!Consented
    BY <2>1 DEF Rwa!Consented, Rwa!Timely, Rwa!ContentOf, Rwa!OP_SETTLE
  <2> QED
    BY <1>1, <2>1, <2>2, SlotsKept DEF Rwa!Promise!receipts
<1>3. CASE Rwa!Tick
  BY <1>1, <1>3, TickIsAdvance
<1>4. ASSUME NEW s \in RwaWallet, Rwa!Sign(s[1], s[2])
      PROVE  [Rwa!Promise!Next]_(Rwa!Promise!receipts)
  BY <1>1, <1>4, SignIsAgree
<1>5. ASSUME NEW s \in signed, NEW now \in Rwa!Presentable(tip), Rwa!Materialize(s[2], now)
      PROVE  Rwa!Promise!Next
  BY <1>1, <1>5, MaterializeIsCreate
<1>6. ASSUME NEW s \in signed, NEW now \in Rwa!Presentable(tip), NEW i \in Rwa!Live,
             Rwa!Claim(i, s[2], now)
      PROVE  Rwa!Promise!Next
  BY <1>1, <1>6, ClaimIsClaim
<1>7. ASSUME NEW s \in signed, NEW now \in Rwa!Presentable(tip), NEW i \in Rwa!Live,
             Rwa!Settle(i, s[2], now)
      PROVE  Rwa!Promise!Next
  BY <1>1, <1>7, SettleIsSettle
<1> QED
  BY <1>2, <1>3, <1>4, <1>5, <1>6, <1>7 DEF Rwa!Next

\* The RWA receipt profile implements CosignedReceipts: every line is a receipt
\* that is created by its issuer, claimed by its holder and paid out as both
\* agreed, each before it lapses, whatever they signed in whatever order.
THEOREM Cosigned == Spec => ImplementsConsent
<1>1. Init => (IsRwa => Rwa!Promise!Init)
  BY ReceiptsBegin
<1>2. (IsRwa => RwaInv) /\ [Next]_vars =>
        (IsRwa => [Rwa!Promise!Next]_(Rwa!Promise!receipts))
  BY RwaSteps, ReceiptsGoOn
<1> QED
  BY <1>1, <1>2, RwaSpecInv, PTL DEF Spec, ImplementsConsent
=============================================================================
