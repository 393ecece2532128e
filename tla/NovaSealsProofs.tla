--------------------------- MODULE NovaSealsProofs ----------------------------
(***************************************************************************)
(* Proofs about the four seal profiles as NovaProfiles deploys them, for   *)
(* every set of keys, whatever the wallets are willing to sign, every      *)
(* width of the nonce, every header lag and ledgers of any length; and,    *)
(* with the proofs of the other two profiles, the type correctness of the  *)
(* whole.                                                                  *)
(*                                                                         *)
(* The invariant is one for the four: every transaction opens a seal, or   *)
(* closes one that an earlier transaction opened and no other closes.      *)
(* OpensBy and ClosesBy say what that is for each profile.                 *)
(***************************************************************************)
EXTENDS NovaAssetProofs

NoSealCell == [no_cell |-> TRUE]

SealCells == {j \in DOMAIN ledger : ledger[j].cell # NoSealCell}

SealSpent == UNION {ledger[j].spent : j \in DOMAIN ledger}

\* core opens a seal and leaves cell.
OpensBy(core, cell) ==
  /\ profile = "btc_transaction_commitment" =>
       /\ core = Seals!Commitment!InitializeCore(
                   [seal |-> core.seal, committer |-> core.committer,
                    state |-> core.new_state, expiry |-> core.expiry])
       /\ cell = Seals!Commitment!Initialized(core)
  /\ profile = "btc_utxo_seal" =>
       /\ core = Seals!Utxo!InitializeCore(
                   [seal |-> core.seal, owner |-> core.owner, utxo |-> core.utxo,
                    state |-> core.new_state, expiry |-> core.expiry])
       /\ cell = Seals!Utxo!Initialized(core)
  /\ profile = "dual_seal" =>
       /\ core = Seals!Dual!InitializeCore(
                   [seal |-> core.seal, btc_owner |-> core.btc_owner,
                    ckb_authority |-> core.ckb_authority, utxo |-> core.utxo,
                    state |-> core.new_state, maturity |-> core.maturity,
                    expiry |-> core.expiry])
       /\ cell = Seals!Dual!Initialized(core)
  /\ profile = "fiber_candidate" =>
       /\ core = Seals!Fiber!InitializeCore(
                   [candidate |-> core.candidate, operator |-> core.operator,
                    channel |-> core.channel, balance |-> core.new_balance,
                    expiry |-> core.expiry])
       /\ cell = Seals!Fiber!Initialized(core)

\* core closes the seal in the cell old and leaves cell and receipt.
ClosesBy(core, old, cell, receipt) ==
  /\ profile = "btc_transaction_commitment" =>
       /\ core = Seals!Commitment!CommitCore(old, core.tx, core.new_state)
       /\ cell = Seals!Commitment!Committed(old, core)
       /\ receipt = Seals!Commitment!Receipt(core, old.committer)
  /\ profile = "btc_utxo_seal" =>
       /\ core = Seals!Utxo!CloseCore(old, core.utxo, core.spend, core.new_state)
       /\ old.sealed_utxo_commitment_hash = Seals!Utxo!BtcUtxoCommitment(core)
       /\ cell = Seals!Utxo!ClosedSeal(old, core) \/ cell = NoSealCell
       /\ receipt = Seals!Utxo!ClosureReceipt(old, core)
  /\ profile = "dual_seal" =>
       /\ core = Seals!Dual!FinalizeCore(old, core.closure, core.new_state)
       /\ cell = NoSealCell
       /\ receipt = Seals!Dual!Receipt(core, old.ckb_authority)
  /\ profile = "fiber_candidate" =>
       /\ core = Seals!Fiber!SettleCore(old, core.payment, core.new_balance)
       /\ core.new_balance # old.balance
       /\ cell = Seals!Fiber!Settled(old, core)
       /\ receipt = Seals!Fiber!Receipt(core, old.operator)

\* Transaction j opened a seal.
IsOpening(j) ==
  /\ ledger[j].spent = {}
  /\ OpensBy(ledger[j].core, ledger[j].cell)

\* Transaction j closed the seal that transaction i opened.
IsClosing(i, j) ==
  /\ i \in DOMAIN ledger
  /\ IsOpening(i)
  /\ ledger[j].spent = {i}
  /\ ClosesBy(ledger[j].core, ledger[i].cell, ledger[j].cell, ledger[j].receipt)
  /\ 0 < Widths.seals
  /\ profile = "dual_seal" => ledger[i].cell.maturity <= ledger[j].epoch

SealTypes ==
  /\ tip \in 0..MaxEpoch
  /\ IsSequence(ledger)
  /\ signed \subseteq SealWallets[profile]

SealHistory ==
  \A j \in DOMAIN ledger : IsOpening(j) \/ \E i \in 1..(j - 1) : IsClosing(i, j)

SealSpentOnce ==
  \A j, k \in DOMAIN ledger : ledger[j].spent \cap ledger[k].spent # {} => j = k

SealInv == SealTypes /\ SealHistory /\ SealSpentOnce
-----------------------------------------------------------------------------
(***************************************************************************)
(* The cells of seals.                                                     *)
(***************************************************************************)

\* What the constants are.
LEMMA SealConstants ==
  /\ Widths.seals \in Nat /\ HeaderLag \in Nat /\ MaxEpoch \in Nat
  /\ \A p \in Seals!Profiles : \A s \in SealWallets[p] :
       s = <<s[1], s[2]>> /\ s[1] \in Keys /\ s[2].expiry \in Nat
  /\ \A s \in SealWallets["dual_seal"] : s[2].maturity \in Nat
BY ProfilesAssumption DEF ProfilesAssumption, Seals!SealsAssumption

\* An opening leaves an active cell with nonce 0.
LEMMA OpenedCell ==
  ASSUME IsSeal, NEW core, NEW cell, OpensBy(core, cell)
  PROVE  cell # NoSealCell /\ cell.status = 1 /\ cell.nonce = 0
<1>1. CASE profile = "btc_transaction_commitment"
  <2>1. cell = Seals!Commitment!Initialized(core)
    BY <1>1 DEF OpensBy
  <2>2. cell.status = 1 /\ cell.nonce = 0 /\ "seal" \in DOMAIN cell
    BY <2>1 DEF Seals!Commitment!Initialized, Seals!Commitment!STATUS_ACTIVE
  <2> QED
    BY <2>2 DEF NoSealCell
<1>2. CASE profile = "btc_utxo_seal"
  <2>1. cell = Seals!Utxo!Initialized(core)
    BY <1>2 DEF OpensBy
  <2>2. cell.status = 1 /\ cell.nonce = 0 /\ "seal" \in DOMAIN cell
    BY <2>1 DEF Seals!Utxo!Initialized, Seals!Utxo!STATUS_ACTIVE
  <2> QED
    BY <2>2 DEF NoSealCell
<1>3. CASE profile = "dual_seal"
  <2>1. cell = Seals!Dual!Initialized(core)
    BY <1>3 DEF OpensBy
  <2>2. cell.status = 1 /\ cell.nonce = 0 /\ "seal" \in DOMAIN cell
    BY <2>1 DEF Seals!Dual!Initialized, Seals!Dual!STATUS_ACTIVE
  <2> QED
    BY <2>2 DEF NoSealCell
<1>4. CASE profile = "fiber_candidate"
  <2>1. cell = Seals!Fiber!Initialized(core)
    BY <1>4 DEF OpensBy
  <2>2. cell.status = 1 /\ cell.nonce = 0 /\ "channel" \in DOMAIN cell
    BY <2>1 DEF Seals!Fiber!Initialized, Seals!Fiber!STATUS_ACTIVE
  <2> QED
    BY <2>2 DEF NoSealCell
<1> QED
  BY <1>1, <1>2, <1>3, <1>4 DEF IsSeal, Seals!Profiles

\* A closing leaves no cell, or a closed one with nonce 1.
LEMMA ClosedCell ==
  ASSUME IsSeal, NEW opening, NEW old, OpensBy(opening, old), 0 < Widths.seals,
         NEW core, NEW cell, NEW receipt, ClosesBy(core, old, cell, receipt)
  PROVE  cell = NoSealCell \/ (cell # NoSealCell /\ cell.status = 2 /\ cell.nonce = 1)
<1>1. 0 + 1 \in Nat /\ ~(0 + 1 > Widths.seals) /\ 0 + 1 = 1
  BY SealConstants
<1>2. CASE profile = "btc_transaction_commitment"
  <2>1. old = Seals!Commitment!Initialized(opening) /\ cell = Seals!Commitment!Committed(old, core)
    BY <1>2 DEF OpensBy, ClosesBy
  <2>2. cell.status = 2 /\ cell.nonce = 1 /\ "seal" \in DOMAIN cell
    BY <1>1, <2>1 DEF Seals!Commitment!Initialized, Seals!Commitment!Committed,
                      Seals!Commitment!STATUS_CLOSED, Seals!Commitment!Add64
  <2> QED
    BY <2>2 DEF NoSealCell
<1>3. CASE profile = "btc_utxo_seal"
  <2>1. /\ old = Seals!Utxo!Initialized(opening)
        /\ cell = Seals!Utxo!ClosedSeal(old, core) \/ cell = NoSealCell
    BY <1>3 DEF OpensBy, ClosesBy
  <2>2. CASE cell = Seals!Utxo!ClosedSeal(old, core)
    <3>1. cell.status = 2 /\ cell.nonce = 1 /\ "seal" \in DOMAIN cell
      BY <1>1, <2>1, <2>2 DEF Seals!Utxo!Initialized, Seals!Utxo!ClosedSeal,
                              Seals!Utxo!STATUS_CLOSED, Seals!Utxo!Add64
    <3> QED
      BY <3>1 DEF NoSealCell
  <2> QED
    BY <2>1, <2>2
<1>4. CASE profile = "dual_seal"
  BY <1>4 DEF ClosesBy
<1>5. CASE profile = "fiber_candidate"
  <2>1. old = Seals!Fiber!Initialized(opening) /\ cell = Seals!Fiber!Settled(old, core)
    BY <1>5 DEF OpensBy, ClosesBy
  <2>2. cell.status = 2 /\ cell.nonce = 1 /\ "channel" \in DOMAIN cell
    BY <1>1, <2>1 DEF Seals!Fiber!Initialized, Seals!Fiber!Settled,
                      Seals!Fiber!STATUS_CLOSED, Seals!Fiber!Add64
  <2> QED
    BY <2>2 DEF NoSealCell
<1> QED
  BY <1>2, <1>3, <1>4, <1>5 DEF IsSeal, Seals!Profiles

\* A cell that is active is the one its transaction opened.
LEMMA ActiveIsOpened ==
  ASSUME IsSeal, SealInv, NEW i \in SealCells, ledger[i].cell.status = 1
  PROVE  i \in DOMAIN ledger /\ IsOpening(i) /\ ledger[i].cell.nonce = 0
<1>1. i \in DOMAIN ledger /\ ledger[i].cell # NoSealCell
  BY DEF SealCells
<1>2. ASSUME NEW h \in 1..(i - 1), IsClosing(h, i)
      PROVE  FALSE
  <2>1. /\ OpensBy(ledger[h].core, ledger[h].cell) /\ 0 < Widths.seals
        /\ ClosesBy(ledger[i].core, ledger[h].cell, ledger[i].cell, ledger[i].receipt)
    BY <1>2 DEF IsClosing, IsOpening
  <2> QED
    BY <1>1, <2>1, ClosedCell
<1>3. IsOpening(i)
  BY <1>1, <1>2 DEF SealInv, SealHistory
<1> QED
  BY <1>1, <1>3, OpenedCell DEF IsOpening
-----------------------------------------------------------------------------
(***************************************************************************)
(* The inductive invariant.                                                *)
(***************************************************************************)

\* Positions in the ledger.
LEMMA SealPositions ==
  ASSUME SealTypes
  PROVE  /\ Len(ledger) \in Nat
         /\ DOMAIN ledger = 1..Len(ledger)
BY SequenceOverSet DEF SealTypes, IsSequence

\* All parties that core names signed it.
SealAgreed(core) ==
  /\ Seals!PartiesOf(core) # {}
  /\ \A key \in Seals!PartiesOf(core) : <<key, core>> \in signed

\* A transaction is committed, with the signatures of the parties and in time.
SealCommits(core, spent, cell, receipt) ==
  /\ Len(ledger) < MaxLedger
  /\ ledger' = Append(ledger, [core |-> core, spent |-> spent, cell |-> cell,
                               receipt |-> receipt, epoch |-> tip])
  /\ SealAgreed(core)
  /\ tip <= core.expiry + HeaderLag
  /\ UNCHANGED <<tip, signed>>

\* It opens a seal.
SealOpens(core, spent, cell) == spent = {} /\ OpensBy(core, cell)

\* It closes the seal in cell i, which is live.
SealCloses(i, core, spent, cell, receipt) ==
  /\ i \in SealCells \ SealSpent /\ IsOpening(i) /\ spent = {i}
  /\ ClosesBy(core, ledger[i].cell, cell, receipt)
  /\ 0 < Widths.seals
  /\ profile = "dual_seal" => ledger[i].cell.maturity <= tip

SealTick == tip < MaxEpoch /\ tip' = tip + 1 /\ UNCHANGED <<signed, ledger>>

SealSign ==
  /\ \E s \in SealWallets[profile] : s = <<s[1], s[2]>> /\ signed' = signed \cup {s}
  /\ UNCHANGED <<tip, ledger>>

\* What a step of any seal profile is.
SealStep ==
  \/ SealTick
  \/ SealSign
  \/ \E core, spent, cell, receipt :
       /\ SealCommits(core, spent, cell, receipt)
       /\ SealOpens(core, spent, cell)
            \/ \E i : SealCloses(i, core, spent, cell, receipt)

\* The chain commits a transaction that opens a seal or closes one.
LEMMA SealCommitInv ==
  ASSUME SealInv, profile' = profile,
         NEW core, NEW spent, NEW cell, NEW receipt,
         SealCommits(core, spent, cell, receipt),
         SealOpens(core, spent, cell) \/ \E i : SealCloses(i, core, spent, cell, receipt)
  PROVE  SealInv'
<1> DEFINE e == [core |-> core, spent |-> spent, cell |-> cell,
                 receipt |-> receipt, epoch |-> tip]
<1>1. ledger' = Append(ledger, e) /\ tip' = tip /\ signed' = signed /\ profile' = profile
  BY DEF SealCommits
<1>2. IsSequence(ledger)
  BY DEF SealInv, SealTypes
<1>3. /\ e.spent = spent /\ e.cell = cell /\ e.core = core /\ e.receipt = receipt
      /\ e.epoch = tip
  OBVIOUS
<1> HIDE DEF e
<1>4. /\ Len(ledger) \in Nat /\ DOMAIN ledger = 1..Len(ledger)
      /\ IsSequence(ledger') /\ DOMAIN ledger' = 1..(Len(ledger) + 1)
      /\ \A j \in 1..Len(ledger) : ledger'[j] = ledger[j]
      /\ ledger'[Len(ledger) + 1] = e
  BY <1>1, <1>2, AppendFacts
<1>5. PICK n : n = Len(ledger) + 1
  OBVIOUS
<1>6. /\ ledger'[n] = e /\ n \in DOMAIN ledger' /\ n \in Nat /\ n \notin DOMAIN ledger
      /\ \A j \in DOMAIN ledger' : j = n \/ j \in DOMAIN ledger
      /\ \A j \in DOMAIN ledger : j \in 1..(n - 1) /\ j \in DOMAIN ledger'
                                  /\ ledger'[j] = ledger[j]
  BY <1>4, <1>5
<1>7. SealTypes'
  BY <1>1, <1>4 DEF SealInv, SealTypes
<1>8. \A c, d : OpensBy(c, d)' <=> OpensBy(c, d)
  BY <1>1 DEF OpensBy
<1>9. \A c, o, d, r : ClosesBy(c, o, d, r)' <=> ClosesBy(c, o, d, r)
  BY <1>1 DEF ClosesBy
<1>10. ASSUME NEW j \in DOMAIN ledger, IsOpening(j)
       PROVE  IsOpening(j)'
  BY <1>6, <1>8, <1>10 DEF IsOpening
<1>11. SealHistory'
  <2>1. ASSUME NEW j \in DOMAIN ledger
        PROVE  (IsOpening(j) \/ \E i \in 1..(j - 1) : IsClosing(i, j))'
    <3>1. CASE IsOpening(j)
      BY <1>10, <3>1
    <3>2. CASE \E i \in 1..(j - 1) : IsClosing(i, j)
      <4>1. PICK i \in 1..(j - 1) : IsClosing(i, j)
        BY <3>2
      <4>2. /\ i \in DOMAIN ledger /\ IsOpening(i)' /\ ledger'[i] = ledger[i]
            /\ ledger'[j] = ledger[j] /\ i \in DOMAIN ledger'
        BY <1>6, <1>10, <4>1 DEF IsClosing
      <4>3. IsClosing(i, j)'
        BY <1>1, <1>9, <4>1, <4>2 DEF IsClosing
      <4> QED
        BY <4>3
    <3> QED
      BY <3>1, <3>2 DEF SealInv, SealHistory
  <2>2. (IsOpening(n) \/ \E i \in 1..(n - 1) : IsClosing(i, n))'
    <3>1. CASE SealOpens(core, spent, cell)
      BY <1>3, <1>6, <1>8, <3>1 DEF IsOpening, SealOpens
    <3>2. CASE \E i : SealCloses(i, core, spent, cell, receipt)
      <4>1. PICK i : /\ i \in SealCells /\ IsOpening(i) /\ spent = {i}
                     /\ ClosesBy(core, ledger[i].cell, cell, receipt)
                     /\ 0 < Widths.seals
                     /\ profile = "dual_seal" => ledger[i].cell.maturity <= tip
        BY <3>2 DEF SealCloses
      <4>2. /\ i \in DOMAIN ledger /\ IsOpening(i)' /\ ledger'[i] = ledger[i]
            /\ i \in DOMAIN ledger' /\ i \in 1..(n - 1)
        BY <1>6, <1>10, <4>1 DEF SealCells
      <4>3. IsClosing(i, n)'
        BY <1>1, <1>3, <1>6, <1>9, <4>1, <4>2 DEF IsClosing
      <4> QED
        BY <4>2, <4>3
    <3> QED
      BY <3>1, <3>2
  <2> QED
    BY <1>6, <2>1, <2>2 DEF SealHistory
<1>12. SealSpentOnce'
  <2>1. \A j \in DOMAIN ledger : ledger[j].spent \cap spent = {}
    BY DEF SealSpent, SealOpens, SealCloses
  <2> QED
    BY <1>3, <1>6, <2>1 DEF SealInv, SealSpentOnce
<1> QED
  BY <1>7, <1>11, <1>12 DEF SealInv

\* Time passes, or wallets sign.
LEMMA SealQuietInv ==
  ASSUME SealInv, UNCHANGED <<profile, ledger>>, tip' \in 0..MaxEpoch,
         signed' \subseteq SealWallets[profile]
  PROVE  SealInv'
<1>1. ledger' = ledger /\ profile' = profile
  OBVIOUS
<1>2. SealTypes'
  BY <1>1 DEF SealInv, SealTypes
<1>3. SealHistory'
  <2>1. \A c, d : OpensBy(c, d)' <=> OpensBy(c, d)
    BY <1>1 DEF OpensBy
  <2>2. \A c, o, d, r : ClosesBy(c, o, d, r)' <=> ClosesBy(c, o, d, r)
    BY <1>1 DEF ClosesBy
  <2>3. \A j : IsOpening(j)' <=> IsOpening(j)
    BY <1>1, <2>1 DEF IsOpening
  <2>4. \A i, j : IsClosing(i, j)' <=> IsClosing(i, j)
    BY <1>1, <2>2, <2>3 DEF IsClosing
  <2> QED
    BY <1>1, <2>3, <2>4 DEF SealInv, SealHistory
<1>4. SealSpentOnce'
  BY <1>1 DEF SealInv, SealSpentOnce
<1> QED
  BY <1>2, <1>3, <1>4 DEF SealInv

\* An intent that was in time by the header was, but for its lag, by the chain.
LEMMA SealInTime ==
  ASSUME IsSeal, SealTypes, NEW core, SealAgreed(core),
         NEW now \in {n \in 0..tip : tip - n <= HeaderLag}, now <= core.expiry
  PROVE  tip <= core.expiry + HeaderLag
<1>1. PICK key : <<key, core>> \in SealWallets[profile]
  BY DEF SealAgreed, SealTypes
<1>2. core.expiry \in Nat /\ HeaderLag \in Nat
  BY <1>1, SealConstants DEF IsSeal
<1>3. tip \in Nat /\ now \in Nat /\ tip - now <= HeaderLag
  BY SealConstants DEF SealTypes
<1> QED
  BY <1>2, <1>3

\* The parties that an intent of a BTC transaction commitment names.
LEMMA CommitmentParties ==
  ASSUME NEW core, NEW other,
         \/ core = Seals!Commitment!InitializeCore(other)
         \/ \E old, x, y : core = Seals!Commitment!CommitCore(old, x, y)
  PROVE  Seals!PartiesOf(core) = {core.committer}
<1>1. DOMAIN core \cap {"committer", "owner", "btc_owner", "ckb_authority", "operator"}
        = {"committer"}
  BY DEF Seals!Commitment!InitializeCore, Seals!Commitment!CommitCore
<1> QED
  BY <1>1 DEF Seals!PartiesOf

\* Steps of a BTC transaction commitment.
LEMMA CommitmentSteps ==
  ASSUME profile = "btc_transaction_commitment", SealInv, Seals!Commitment!Next
  PROVE  SealStep
<1>1. IsSeal /\ SealTypes
  BY DEF IsSeal, Seals!Profiles, SealInv
<1>2. Seals!Commitment!Cells = SealCells /\ Seals!Commitment!Spent = SealSpent
  BY DEF SealCells, NoSealCell, Seals!Commitment!Cells, Seals!Commitment!NoCell,
         Seals!Commitment!Spent, SealSpent
<1>3. CASE Seals!Commitment!Environment
  <2>1. CASE Seals!Commitment!Tick
    BY <2>1 DEF Seals!Commitment!Tick, SealStep, SealTick
  <2>2. ASSUME NEW s \in SealWallets["btc_transaction_commitment"],
               Seals!Commitment!Sign(s[1], s[2])
        PROVE  SealStep
    <3>1. s = <<s[1], s[2]>>
      BY SealConstants DEF Seals!Profiles
    <3> QED
      BY <2>2, <3>1 DEF Seals!Commitment!Sign, SealStep, SealSign
  <2> QED
    BY <1>3, <2>1, <2>2 DEF Seals!Commitment!Environment
<1>4. ASSUME NEW core, NEW now \in Seals!Commitment!Presentable(tip),
             Seals!Commitment!Initialize(core, now)
      PROVE  SealStep
  <2>1. PICK none : none = {}
    OBVIOUS
  <2>2. /\ Seals!Commitment!InitializeAccepts(core, now)
        /\ Seals!Commitment!Commit(core, none, Seals!Commitment!Initialized(core),
                                Seals!Commitment!NoReceipt)
    BY <1>4, <2>1 DEF Seals!Commitment!Initialize
  <2>3. OpensBy(core, Seals!Commitment!Initialized(core))
    BY <2>2 DEF Seals!Commitment!InitializeAccepts, OpensBy
  <2>4. SealAgreed(core)
    <3>1. Seals!PartiesOf(core) = {core.committer}
      BY <2>2, CommitmentParties DEF Seals!Commitment!InitializeAccepts
    <3> QED
      BY <2>2, <3>1 DEF Seals!Commitment!InitializeAccepts, Seals!Commitment!SignedBy, SealAgreed
  <2>5. tip <= core.expiry + HeaderLag
    BY <1>1, <2>2, <2>4, SealInTime DEF Seals!Commitment!InitializeAccepts,
       Seals!Commitment!Presentable
  <2>6. SealCommits(core, none, Seals!Commitment!Initialized(core), Seals!Commitment!NoReceipt)
    BY <2>2, <2>4, <2>5 DEF Seals!Commitment!Commit, SealCommits
  <2>7. SealOpens(core, none, Seals!Commitment!Initialized(core))
    BY <2>1, <2>3 DEF SealOpens
  <2> QED
    BY <2>6, <2>7 DEF SealStep
<1>5. ASSUME NEW i \in Seals!Commitment!Live, NEW core,
             NEW now \in Seals!Commitment!Presentable(tip),
             Seals!Commitment!commit_btc_transaction_transition(i, core, now)
      PROVE  SealStep
  <2> DEFINE old == ledger[i].cell
             receipt == Seals!Commitment!Receipt(core, old.committer)
  <2>1. i \in SealCells \ SealSpent
    BY <1>2 DEF Seals!Commitment!Live
  <2>2. PICK spent : spent = {i}
    OBVIOUS
  <2>3. Seals!Commitment!CommitAccepts(old, core, now)
    BY <1>5 DEF Seals!Commitment!commit_btc_transaction_transition
  <2>4. Seals!Commitment!Commit(core, spent, Seals!Commitment!Committed(old, core), receipt)
    BY <1>5, <2>2 DEF Seals!Commitment!commit_btc_transaction_transition
  <2>5. IsOpening(i) /\ old.nonce = 0
    BY <1>1, <2>1, <2>3, ActiveIsOpened DEF Seals!Commitment!CommitAccepts,
       Seals!Commitment!STATUS_ACTIVE
  <2>6. ClosesBy(core, old, Seals!Commitment!Committed(old, core), receipt)
    BY <2>3 DEF Seals!Commitment!CommitAccepts, ClosesBy
  <2>7. 0 < Widths.seals
    BY <2>3, <2>5 DEF Seals!Commitment!CommitAccepts
  <2>8. core.committer = old.committer /\ core.expiry = old.expiry
    BY <2>3 DEF Seals!Commitment!CommitAccepts, Seals!Commitment!CommitCore
  <2>9. SealAgreed(core)
    <3>1. Seals!PartiesOf(core) = {core.committer}
      BY <2>3, CommitmentParties DEF Seals!Commitment!CommitAccepts
    <3> QED
      BY <2>3, <2>8, <3>1 DEF Seals!Commitment!CommitAccepts, Seals!Commitment!SignedBy, SealAgreed
  <2>10. tip <= core.expiry + HeaderLag
    BY <1>1, <2>3, <2>8, <2>9, SealInTime
    DEF Seals!Commitment!CommitAccepts, Seals!Commitment!Presentable
  <2> HIDE DEF receipt
  <2>11. SealCommits(core, spent, Seals!Commitment!Committed(old, core), receipt)
    BY <2>4, <2>9, <2>10 DEF Seals!Commitment!Commit, SealCommits
  <2>12. SealCloses(i, core, spent, Seals!Commitment!Committed(old, core), receipt)
    BY <2>1, <2>2, <2>5, <2>6, <2>7 DEF SealCloses
  <2> QED
    BY <2>11, <2>12 DEF SealStep
<1> QED
  BY <1>3, <1>4, <1>5 DEF Seals!Commitment!Next

\* The parties that an intent of a BTC UTXO seal names.
LEMMA UtxoParties ==
  ASSUME NEW core, NEW other,
         \/ core = Seals!Utxo!InitializeCore(other)
         \/ \E old, x, y, z : core = Seals!Utxo!CloseCore(old, x, y, z)
  PROVE  Seals!PartiesOf(core) = {core.owner}
<1>1. DOMAIN core \cap {"committer", "owner", "btc_owner", "ckb_authority", "operator"}
        = {"owner"}
  BY DEF Seals!Utxo!InitializeCore, Seals!Utxo!CloseCore
<1> QED
  BY <1>1 DEF Seals!PartiesOf

\* Steps of a BTC UTXO seal.
LEMMA UtxoSteps ==
  ASSUME profile = "btc_utxo_seal", SealInv, Seals!Utxo!Next
  PROVE  SealStep
<1>1. IsSeal /\ SealTypes
  BY DEF IsSeal, Seals!Profiles, SealInv
<1>2. Seals!Utxo!Cells = SealCells /\ Seals!Utxo!Spent = SealSpent
  BY DEF SealCells, NoSealCell, Seals!Utxo!Cells, Seals!Utxo!NoCell,
         Seals!Utxo!Spent, SealSpent
<1>3. CASE Seals!Utxo!Environment
  <2>1. CASE Seals!Utxo!Tick
    BY <2>1 DEF Seals!Utxo!Tick, SealStep, SealTick
  <2>2. ASSUME NEW s \in SealWallets["btc_utxo_seal"],
               Seals!Utxo!Sign(s[1], s[2])
        PROVE  SealStep
    <3>1. s = <<s[1], s[2]>>
      BY SealConstants DEF Seals!Profiles
    <3> QED
      BY <2>2, <3>1 DEF Seals!Utxo!Sign, SealStep, SealSign
  <2> QED
    BY <1>3, <2>1, <2>2 DEF Seals!Utxo!Environment
<1>4. ASSUME NEW core, NEW now \in Seals!Utxo!Presentable(tip),
             Seals!Utxo!Initialize(core, now)
      PROVE  SealStep
  <2>1. PICK none : none = {}
    OBVIOUS
  <2>2. /\ Seals!Utxo!InitializeAccepts(core, now)
        /\ Seals!Utxo!Commit(core, none, Seals!Utxo!Initialized(core),
                                Seals!Utxo!NoReceipt)
    BY <1>4, <2>1 DEF Seals!Utxo!Initialize
  <2>3. OpensBy(core, Seals!Utxo!Initialized(core))
    BY <2>2 DEF Seals!Utxo!InitializeAccepts, OpensBy
  <2>4. SealAgreed(core)
    <3>1. Seals!PartiesOf(core) = {core.owner}
      BY <2>2, UtxoParties DEF Seals!Utxo!InitializeAccepts
    <3> QED
      BY <2>2, <3>1 DEF Seals!Utxo!InitializeAccepts, Seals!Utxo!SignedBy, SealAgreed
  <2>5. tip <= core.expiry + HeaderLag
    BY <1>1, <2>2, <2>4, SealInTime DEF Seals!Utxo!InitializeAccepts, Seals!Utxo!Presentable
  <2>6. SealCommits(core, none, Seals!Utxo!Initialized(core), Seals!Utxo!NoReceipt)
    BY <2>2, <2>4, <2>5 DEF Seals!Utxo!Commit, SealCommits
  <2>7. SealOpens(core, none, Seals!Utxo!Initialized(core))
    BY <2>1, <2>3 DEF SealOpens
  <2> QED
    BY <2>6, <2>7 DEF SealStep
<1>5. ASSUME NEW i \in Seals!Utxo!Live, NEW core,
             NEW now \in Seals!Utxo!Presentable(tip),
             Seals!Utxo!Close(i, core, now)
      PROVE  SealStep
  <2> DEFINE old == ledger[i].cell
             receipt == Seals!Utxo!ClosureReceipt(old, core)
  <2>1. i \in SealCells \ SealSpent
    BY <1>2 DEF Seals!Utxo!Live
  <2>2. PICK spent : spent = {i}
    OBVIOUS
  <2>3. Seals!Utxo!CloseAccepts(old, core, now)
    BY <1>5 DEF Seals!Utxo!Close
  <2>4. Seals!Utxo!Commit(core, spent, Seals!Utxo!ClosedSeal(old, core), receipt)
    BY <1>5, <2>2 DEF Seals!Utxo!Close
  <2>5. IsOpening(i) /\ old.nonce = 0
    BY <1>1, <2>1, <2>3, ActiveIsOpened DEF Seals!Utxo!CloseAccepts, Seals!Utxo!STATUS_ACTIVE
  <2>6. ClosesBy(core, old, Seals!Utxo!ClosedSeal(old, core), receipt)
    BY <2>3 DEF Seals!Utxo!CloseAccepts, ClosesBy
  <2>7. 0 < Widths.seals
    BY <2>3, <2>5 DEF Seals!Utxo!CloseAccepts
  <2>8. core.owner = old.owner /\ core.expiry = old.expiry
    BY <2>3 DEF Seals!Utxo!CloseAccepts, Seals!Utxo!CloseCore
  <2>9. SealAgreed(core)
    <3>1. Seals!PartiesOf(core) = {core.owner}
      BY <2>3, UtxoParties DEF Seals!Utxo!CloseAccepts
    <3> QED
      BY <2>3, <2>8, <3>1 DEF Seals!Utxo!CloseAccepts, Seals!Utxo!SignedBy, SealAgreed
  <2>10. tip <= core.expiry + HeaderLag
    BY <1>1, <2>3, <2>8, <2>9, SealInTime
    DEF Seals!Utxo!CloseAccepts, Seals!Utxo!Presentable
  <2> HIDE DEF receipt
  <2>11. SealCommits(core, spent, Seals!Utxo!ClosedSeal(old, core), receipt)
    BY <2>4, <2>9, <2>10 DEF Seals!Utxo!Commit, SealCommits
  <2>12. SealCloses(i, core, spent, Seals!Utxo!ClosedSeal(old, core), receipt)
    BY <2>1, <2>2, <2>5, <2>6, <2>7 DEF SealCloses
  <2> QED
    BY <2>11, <2>12 DEF SealStep
<1>6. ASSUME NEW i \in Seals!Utxo!Live, NEW core,
             NEW now \in Seals!Utxo!Presentable(tip),
             Seals!Utxo!close_btc_utxo_seal(i, core, now)
      PROVE  SealStep
  <2> DEFINE old == ledger[i].cell
             receipt == Seals!Utxo!ClosureReceipt(old, core)
  <2>1. i \in SealCells \ SealSpent
    BY <1>2 DEF Seals!Utxo!Live
  <2>2. PICK spent : spent = {i}
    OBVIOUS
  <2>3. Seals!Utxo!CloseAccepts(old, core, now)
    BY <1>6 DEF Seals!Utxo!close_btc_utxo_seal
  <2>4. Seals!Utxo!Commit(core, spent, NoSealCell, receipt)
    BY <1>6, <2>2 DEF Seals!Utxo!close_btc_utxo_seal, NoSealCell, Seals!Utxo!NoCell
  <2>5. IsOpening(i) /\ old.nonce = 0
    BY <1>1, <2>1, <2>3, ActiveIsOpened DEF Seals!Utxo!CloseAccepts, Seals!Utxo!STATUS_ACTIVE
  <2>6. ClosesBy(core, old, NoSealCell, receipt)
    BY <2>3 DEF Seals!Utxo!CloseAccepts, ClosesBy
  <2>7. 0 < Widths.seals
    BY <2>3, <2>5 DEF Seals!Utxo!CloseAccepts
  <2>8. core.owner = old.owner /\ core.expiry = old.expiry
    BY <2>3 DEF Seals!Utxo!CloseAccepts, Seals!Utxo!CloseCore
  <2>9. SealAgreed(core)
    <3>1. Seals!PartiesOf(core) = {core.owner}
      BY <2>3, UtxoParties DEF Seals!Utxo!CloseAccepts
    <3> QED
      BY <2>3, <2>8, <3>1 DEF Seals!Utxo!CloseAccepts, Seals!Utxo!SignedBy, SealAgreed
  <2>10. tip <= core.expiry + HeaderLag
    BY <1>1, <2>3, <2>8, <2>9, SealInTime
    DEF Seals!Utxo!CloseAccepts, Seals!Utxo!Presentable
  <2> HIDE DEF receipt
  <2>11. SealCommits(core, spent, NoSealCell, receipt)
    BY <2>4, <2>9, <2>10 DEF Seals!Utxo!Commit, SealCommits
  <2>12. SealCloses(i, core, spent, NoSealCell, receipt)
    BY <2>1, <2>2, <2>5, <2>6, <2>7 DEF SealCloses
  <2> QED
    BY <2>11, <2>12 DEF SealStep
<1> QED
  BY <1>3, <1>4, <1>5, <1>6 DEF Seals!Utxo!Next

\* The parties that an intent of a dual seal names.
LEMMA DualParties ==
  ASSUME NEW core, NEW other,
         \/ core = Seals!Dual!InitializeCore(other)
         \/ \E old, x, y : core = Seals!Dual!FinalizeCore(old, x, y)
  PROVE  Seals!PartiesOf(core) = {core.btc_owner, core.ckb_authority}
<1>1. DOMAIN core \cap {"committer", "owner", "btc_owner", "ckb_authority", "operator"}
        = {"btc_owner", "ckb_authority"}
  BY DEF Seals!Dual!InitializeCore, Seals!Dual!FinalizeCore
<1> QED
  BY <1>1 DEF Seals!PartiesOf

\* Steps of a dual seal.
LEMMA DualSteps ==
  ASSUME profile = "dual_seal", SealInv, Seals!Dual!Next
  PROVE  SealStep
<1>1. IsSeal /\ SealTypes
  BY DEF IsSeal, Seals!Profiles, SealInv
<1>2. Seals!Dual!Cells = SealCells /\ Seals!Dual!Spent = SealSpent
  BY DEF SealCells, NoSealCell, Seals!Dual!Cells, Seals!Dual!NoCell,
         Seals!Dual!Spent, SealSpent
<1>3. CASE Seals!Dual!Environment
  <2>1. CASE Seals!Dual!Tick
    BY <2>1 DEF Seals!Dual!Tick, SealStep, SealTick
  <2>2. ASSUME NEW s \in SealWallets["dual_seal"],
               Seals!Dual!Sign(s[1], s[2])
        PROVE  SealStep
    <3>1. s = <<s[1], s[2]>>
      BY SealConstants DEF Seals!Profiles
    <3> QED
      BY <2>2, <3>1 DEF Seals!Dual!Sign, SealStep, SealSign
  <2> QED
    BY <1>3, <2>1, <2>2 DEF Seals!Dual!Environment
<1>4. ASSUME NEW core, NEW now \in Seals!Dual!Presentable(tip),
             Seals!Dual!Initialize(core, now)
      PROVE  SealStep
  <2>1. PICK none : none = {}
    OBVIOUS
  <2>2. /\ Seals!Dual!InitializeAccepts(core, now)
        /\ Seals!Dual!Commit(core, none, Seals!Dual!Initialized(core),
                                Seals!Dual!NoReceipt)
    BY <1>4, <2>1 DEF Seals!Dual!Initialize
  <2>3. OpensBy(core, Seals!Dual!Initialized(core))
    BY <2>2 DEF Seals!Dual!InitializeAccepts, OpensBy
  <2>4. SealAgreed(core)
    <3>1. Seals!PartiesOf(core) = {core.btc_owner, core.ckb_authority}
      BY <2>2, DualParties DEF Seals!Dual!InitializeAccepts
    <3> QED
      BY <2>2, <3>1 DEF Seals!Dual!InitializeAccepts, Seals!Dual!SignedByBoth,
         Seals!Dual!SignedBy, SealAgreed
  <2>5. tip <= core.expiry + HeaderLag
    BY <1>1, <2>2, <2>4, SealInTime DEF Seals!Dual!InitializeAccepts, Seals!Dual!Presentable
  <2>6. SealCommits(core, none, Seals!Dual!Initialized(core), Seals!Dual!NoReceipt)
    BY <2>2, <2>4, <2>5 DEF Seals!Dual!Commit, SealCommits
  <2>7. SealOpens(core, none, Seals!Dual!Initialized(core))
    BY <2>1, <2>3 DEF SealOpens
  <2> QED
    BY <2>6, <2>7 DEF SealStep
<1>5. ASSUME NEW i \in Seals!Dual!Live, NEW core,
             NEW now \in Seals!Dual!Presentable(tip),
             Seals!Dual!finalize_dual_seal(i, core, now)
      PROVE  SealStep
  <2> DEFINE old == ledger[i].cell
             receipt == Seals!Dual!Receipt(core, old.ckb_authority)
  <2>1. i \in SealCells \ SealSpent
    BY <1>2 DEF Seals!Dual!Live
  <2>2. PICK spent : spent = {i}
    OBVIOUS
  <2>3. Seals!Dual!FinalizeAccepts(old, core, now)
    BY <1>5 DEF Seals!Dual!finalize_dual_seal
  <2>4. Seals!Dual!Commit(core, spent, NoSealCell, receipt)
    BY <1>5, <2>2 DEF Seals!Dual!finalize_dual_seal, NoSealCell, Seals!Dual!NoCell
  <2>5. IsOpening(i) /\ old.nonce = 0
    BY <1>1, <2>1, <2>3, ActiveIsOpened DEF Seals!Dual!FinalizeAccepts, Seals!Dual!STATUS_ACTIVE
  <2>6. ClosesBy(core, old, NoSealCell, receipt)
    BY <2>3 DEF Seals!Dual!FinalizeAccepts, ClosesBy
  <2>7. 0 < Widths.seals
    BY <2>3, <2>5 DEF Seals!Dual!FinalizeAccepts
  <2>8. /\ core.btc_owner = old.btc_owner /\ core.ckb_authority = old.ckb_authority
        /\ core.expiry = old.expiry /\ core.maturity = old.maturity
    BY <2>3 DEF Seals!Dual!FinalizeAccepts, Seals!Dual!FinalizeCore
  <2>9. SealAgreed(core)
    <3>1. Seals!PartiesOf(core) = {core.btc_owner, core.ckb_authority}
      BY <2>3, DualParties DEF Seals!Dual!FinalizeAccepts
    <3> QED
      BY <2>3, <2>8, <3>1 DEF Seals!Dual!FinalizeAccepts, Seals!Dual!SignedByBoth,
         Seals!Dual!SignedBy, SealAgreed
  <2>10. tip <= core.expiry + HeaderLag
    BY <1>1, <2>3, <2>8, <2>9, SealInTime
    DEF Seals!Dual!FinalizeAccepts, Seals!Dual!Presentable
  <2>11. old.maturity <= tip
    <3>1. old.maturity \in Nat
      <4>1. \E key : <<key, core>> \in SealWallets["dual_seal"]
        BY <1>1, <2>9 DEF SealAgreed, SealTypes
      <4> QED
        BY <2>8, <4>1, SealConstants
    <3>2. now \in Nat /\ now <= tip /\ tip \in Nat
      BY <1>1, SealConstants DEF SealTypes, Seals!Dual!Presentable
    <3> QED
      BY <2>3, <3>1, <3>2 DEF Seals!Dual!FinalizeAccepts
  <2> HIDE DEF receipt
  <2>12. SealCommits(core, spent, NoSealCell, receipt)
    BY <2>4, <2>9, <2>10 DEF Seals!Dual!Commit, SealCommits
  <2>13. SealCloses(i, core, spent, NoSealCell, receipt)
    BY <2>1, <2>2, <2>5, <2>6, <2>7, <2>11 DEF SealCloses
  <2> QED
    BY <2>12, <2>13 DEF SealStep
<1> QED
  BY <1>3, <1>4, <1>5 DEF Seals!Dual!Next

\* The parties that an intent of a Fiber candidate names.
LEMMA FiberParties ==
  ASSUME NEW core, NEW other,
         \/ core = Seals!Fiber!InitializeCore(other)
         \/ \E old, x, y : core = Seals!Fiber!SettleCore(old, x, y)
  PROVE  Seals!PartiesOf(core) = {core.operator}
<1>1. DOMAIN core \cap {"committer", "owner", "btc_owner", "ckb_authority", "operator"}
        = {"operator"}
  BY DEF Seals!Fiber!InitializeCore, Seals!Fiber!SettleCore
<1> QED
  BY <1>1 DEF Seals!PartiesOf

\* Steps of a Fiber candidate.
LEMMA FiberSteps ==
  ASSUME profile = "fiber_candidate", SealInv, Seals!Fiber!Next
  PROVE  SealStep
<1>1. IsSeal /\ SealTypes
  BY DEF IsSeal, Seals!Profiles, SealInv
<1>2. Seals!Fiber!Cells = SealCells /\ Seals!Fiber!Spent = SealSpent
  BY DEF SealCells, NoSealCell, Seals!Fiber!Cells, Seals!Fiber!NoCell,
         Seals!Fiber!Spent, SealSpent
<1>3. CASE Seals!Fiber!Environment
  <2>1. CASE Seals!Fiber!Tick
    BY <2>1 DEF Seals!Fiber!Tick, SealStep, SealTick
  <2>2. ASSUME NEW s \in SealWallets["fiber_candidate"],
               Seals!Fiber!Sign(s[1], s[2])
        PROVE  SealStep
    <3>1. s = <<s[1], s[2]>>
      BY SealConstants DEF Seals!Profiles
    <3> QED
      BY <2>2, <3>1 DEF Seals!Fiber!Sign, SealStep, SealSign
  <2> QED
    BY <1>3, <2>1, <2>2 DEF Seals!Fiber!Environment
<1>4. ASSUME NEW core, NEW now \in Seals!Fiber!Presentable(tip),
             Seals!Fiber!Initialize(core, now)
      PROVE  SealStep
  <2>1. PICK none : none = {}
    OBVIOUS
  <2>2. /\ Seals!Fiber!InitializeAccepts(core, now)
        /\ Seals!Fiber!Commit(core, none, Seals!Fiber!Initialized(core),
                                Seals!Fiber!NoReceipt)
    BY <1>4, <2>1 DEF Seals!Fiber!Initialize
  <2>3. OpensBy(core, Seals!Fiber!Initialized(core))
    BY <2>2 DEF Seals!Fiber!InitializeAccepts, OpensBy
  <2>4. SealAgreed(core)
    <3>1. Seals!PartiesOf(core) = {core.operator}
      BY <2>2, FiberParties DEF Seals!Fiber!InitializeAccepts
    <3> QED
      BY <2>2, <3>1 DEF Seals!Fiber!InitializeAccepts, Seals!Fiber!SignedBy, SealAgreed
  <2>5. tip <= core.expiry + HeaderLag
    BY <1>1, <2>2, <2>4, SealInTime DEF Seals!Fiber!InitializeAccepts, Seals!Fiber!Presentable
  <2>6. SealCommits(core, none, Seals!Fiber!Initialized(core), Seals!Fiber!NoReceipt)
    BY <2>2, <2>4, <2>5 DEF Seals!Fiber!Commit, SealCommits
  <2>7. SealOpens(core, none, Seals!Fiber!Initialized(core))
    BY <2>1, <2>3 DEF SealOpens
  <2> QED
    BY <2>6, <2>7 DEF SealStep
<1>5. ASSUME NEW i \in Seals!Fiber!Live, NEW core,
             NEW now \in Seals!Fiber!Presentable(tip),
             Seals!Fiber!settle_fiber_candidate(i, core, now)
      PROVE  SealStep
  <2> DEFINE old == ledger[i].cell
             receipt == Seals!Fiber!Receipt(core, old.operator)
  <2>1. i \in SealCells \ SealSpent
    BY <1>2 DEF Seals!Fiber!Live
  <2>2. PICK spent : spent = {i}
    OBVIOUS
  <2>3. Seals!Fiber!SettleAccepts(old, core, now)
    BY <1>5 DEF Seals!Fiber!settle_fiber_candidate
  <2>4. Seals!Fiber!Commit(core, spent, Seals!Fiber!Settled(old, core), receipt)
    BY <1>5, <2>2 DEF Seals!Fiber!settle_fiber_candidate
  <2>5. IsOpening(i) /\ old.nonce = 0
    BY <1>1, <2>1, <2>3, ActiveIsOpened DEF Seals!Fiber!SettleAccepts, Seals!Fiber!STATUS_ACTIVE
  <2>6. ClosesBy(core, old, Seals!Fiber!Settled(old, core), receipt)
    BY <2>3 DEF Seals!Fiber!SettleAccepts, ClosesBy
  <2>7. 0 < Widths.seals
    BY <2>3, <2>5 DEF Seals!Fiber!SettleAccepts
  <2>8. core.operator = old.operator /\ core.expiry = old.expiry
    BY <2>3 DEF Seals!Fiber!SettleAccepts, Seals!Fiber!SettleCore
  <2>9. SealAgreed(core)
    <3>1. Seals!PartiesOf(core) = {core.operator}
      BY <2>3, FiberParties DEF Seals!Fiber!SettleAccepts
    <3> QED
      BY <2>3, <2>8, <3>1 DEF Seals!Fiber!SettleAccepts, Seals!Fiber!SignedBy, SealAgreed
  <2>10. tip <= core.expiry + HeaderLag
    BY <1>1, <2>3, <2>8, <2>9, SealInTime
    DEF Seals!Fiber!SettleAccepts, Seals!Fiber!Presentable
  <2> HIDE DEF receipt
  <2>11. SealCommits(core, spent, Seals!Fiber!Settled(old, core), receipt)
    BY <2>4, <2>9, <2>10 DEF Seals!Fiber!Commit, SealCommits
  <2>12. SealCloses(i, core, spent, Seals!Fiber!Settled(old, core), receipt)
    BY <2>1, <2>2, <2>5, <2>6, <2>7 DEF SealCloses
  <2> QED
    BY <2>11, <2>12 DEF SealStep
<1> QED
  BY <1>3, <1>4, <1>5 DEF Seals!Fiber!Next

\* Every step of a seal profile is one of these.
LEMMA SealNextSteps ==
  ASSUME SealInv, Seals!Next
  PROVE  SealStep /\ profile' = profile
<1> SUFFICES SealStep
  BY DEF Seals!Next
<1>1. CASE profile = "btc_transaction_commitment" /\ Seals!Commitment!Next
  BY <1>1, CommitmentSteps
<1>2. CASE profile = "btc_utxo_seal" /\ Seals!Utxo!Next
  BY <1>2, UtxoSteps
<1>3. CASE profile = "dual_seal" /\ Seals!Dual!Next
  BY <1>3, DualSteps
<1>4. CASE profile = "fiber_candidate" /\ Seals!Fiber!Next
  BY <1>4, FiberSteps
<1> QED
  BY <1>1, <1>2, <1>3, <1>4 DEF Seals!Next

\* They preserve the invariant.
LEMMA SealStepInv ==
  ASSUME SealInv, SealStep, profile' = profile
  PROVE  SealInv'
<1>1. CASE SealTick
  BY <1>1, SealConstants, SealQuietInv DEF SealTick, SealInv, SealTypes
<1>2. CASE SealSign
  BY <1>2, SealQuietInv DEF SealSign, SealInv, SealTypes
<1>3. CASE \E core, spent, cell, receipt :
             /\ SealCommits(core, spent, cell, receipt)
             /\ SealOpens(core, spent, cell)
                  \/ \E i : SealCloses(i, core, spent, cell, receipt)
  BY <1>3, SealCommitInv
<1> QED
  BY <1>1, <1>2, <1>3 DEF SealStep

\* A ledger of a seal profile stays one, and takes the steps of the profile.
LEMMA SealSteps ==
  ASSUME [Next]_vars, IsSeal \/ IsSeal'
  PROVE  /\ IsSeal /\ profile' = profile
         /\ Seals!Next \/ UNCHANGED <<tip, signed, ledger>>
<1>1. CASE UNCHANGED vars
  BY <1>1 DEF vars, IsSeal
<1>2. CASE Next
  BY <1>2 DEF Next, IsXudt, IsRwa, IsSeal, Seals!Profiles, Seals!Next
<1> QED
  BY <1>1, <1>2

\* On a ledger of a seal profile the invariant holds throughout.
LEMMA SealSpecInv == Spec => [](IsSeal => SealInv)
<1>1. Init => (IsSeal => SealInv)
  <2> SUFFICES ASSUME Init
               PROVE  SealInv
    OBVIOUS
  <2>1. ledger \in Seq({}) /\ DOMAIN ledger = {}
    BY DEF Init
  <2>2. IsSequence(ledger)
    BY <2>1, SequenceOverSet
  <2>3. tip \in 0..MaxEpoch /\ signed = {}
    BY SealConstants DEF Init
  <2> QED
    BY <2>1, <2>2, <2>3 DEF SealInv, SealTypes, SealHistory, SealSpentOnce
<1>2. (IsSeal => SealInv) /\ [Next]_vars => (IsSeal => SealInv)'
  <2> SUFFICES ASSUME IsSeal => SealInv, [Next]_vars, IsSeal'
               PROVE  SealInv'
    OBVIOUS
  <2>1. IsSeal /\ profile' = profile /\ (Seals!Next \/ UNCHANGED <<tip, signed, ledger>>)
    BY SealSteps
  <2>2. CASE UNCHANGED <<tip, signed, ledger>>
    BY <2>1, <2>2, SealQuietInv DEF SealInv, SealTypes
  <2>3. CASE Seals!Next
    BY <2>1, <2>3, SealNextSteps, SealStepInv
  <2> QED
    BY <2>1, <2>2, <2>3
<1> QED
  BY <1>1, <1>2, PTL DEF Spec
-----------------------------------------------------------------------------
(***************************************************************************)
(* What the profiles promise.                                              *)
(***************************************************************************)

\* A transaction that spends something closes the seal it spends.
LEMMA SpendingCloses ==
  ASSUME SealInv, NEW j \in DOMAIN ledger, ledger[j].spent # {}
  PROVE  \E i \in 1..(j - 1) : IsClosing(i, j) /\ ledger[j].spent = {i}
BY DEF SealInv, SealHistory, IsOpening, IsClosing

\* The cells of the ledger are active with nonce 0 or closed with nonce 1, and a
\* transaction spends earlier cells.
LEMMA SealShapes ==
  ASSUME IsSeal, SealInv, NEW j \in DOMAIN ledger
  PROVE  /\ ledger[j].spent \subseteq SealCells \cap 1..(j - 1)
         /\ j \in SealCells => <<ledger[j].cell.status, ledger[j].cell.nonce>> \in
                                 {<<1, 0>>, <<2, 1>>}
<1>1. CASE IsOpening(j)
  BY <1>1, OpenedCell DEF IsOpening
<1>2. CASE \E i \in 1..(j - 1) : IsClosing(i, j)
  <2>1. PICK i \in 1..(j - 1) : IsClosing(i, j)
    BY <1>2
  <2>2. /\ OpensBy(ledger[i].core, ledger[i].cell) /\ 0 < Widths.seals
        /\ ClosesBy(ledger[j].core, ledger[i].cell, ledger[j].cell, ledger[j].receipt)
        /\ ledger[j].spent = {i} /\ i \in DOMAIN ledger
    BY <2>1 DEF IsClosing, IsOpening
  <2>3. i \in SealCells
    BY <2>2, OpenedCell DEF SealCells
  <2>4. ledger[j].cell = NoSealCell
          \/ (ledger[j].cell.status = 2 /\ ledger[j].cell.nonce = 1)
    BY <2>2, ClosedCell
  <2> QED
    BY <2>2, <2>3, <2>4 DEF SealCells
<1> QED
  BY <1>1, <1>2 DEF SealInv, SealHistory

\* Type correctness of a BTC transaction commitment.
LEMMA CommitmentTypeCorrect ==
  ASSUME profile = "btc_transaction_commitment", SealInv
  PROVE  Seals!Commitment!LedgerTypeOK
<1>1. IsSeal
  BY DEF IsSeal, Seals!Profiles
<1>2. Seals!Commitment!Cells = SealCells
  BY DEF SealCells, NoSealCell, Seals!Commitment!Cells, Seals!Commitment!NoCell
<1> QED
  BY <1>1, <1>2, SealShapes
  DEF SealInv, SealTypes, Seals!Commitment!LedgerTypeOK,
      Seals!Commitment!STATUS_ACTIVE, Seals!Commitment!STATUS_CLOSED

\* Type correctness of a BTC UTXO seal.
LEMMA UtxoTypeCorrect ==
  ASSUME profile = "btc_utxo_seal", SealInv
  PROVE  Seals!Utxo!LedgerTypeOK
<1>1. IsSeal
  BY DEF IsSeal, Seals!Profiles
<1>2. Seals!Utxo!Cells = SealCells
  BY DEF SealCells, NoSealCell, Seals!Utxo!Cells, Seals!Utxo!NoCell
<1> QED
  BY <1>1, <1>2, SealShapes
  DEF SealInv, SealTypes, Seals!Utxo!LedgerTypeOK,
      Seals!Utxo!STATUS_ACTIVE, Seals!Utxo!STATUS_CLOSED

\* Type correctness of a dual seal.
LEMMA DualTypeCorrect ==
  ASSUME profile = "dual_seal", SealInv
  PROVE  Seals!Dual!LedgerTypeOK
<1>1. IsSeal
  BY DEF IsSeal, Seals!Profiles
<1>2. Seals!Dual!Cells = SealCells
  BY DEF SealCells, NoSealCell, Seals!Dual!Cells, Seals!Dual!NoCell
<1> QED
  BY <1>1, <1>2, SealShapes
  DEF SealInv, SealTypes, Seals!Dual!LedgerTypeOK,
      Seals!Dual!STATUS_ACTIVE, Seals!Dual!STATUS_CLOSED

\* Type correctness of a Fiber candidate.
LEMMA FiberTypeCorrect ==
  ASSUME profile = "fiber_candidate", SealInv
  PROVE  Seals!Fiber!LedgerTypeOK
<1>1. IsSeal
  BY DEF IsSeal, Seals!Profiles
<1>2. Seals!Fiber!Cells = SealCells
  BY DEF SealCells, NoSealCell, Seals!Fiber!Cells, Seals!Fiber!NoCell
<1> QED
  BY <1>1, <1>2, SealShapes
  DEF SealInv, SealTypes, Seals!Fiber!LedgerTypeOK,
      Seals!Fiber!STATUS_ACTIVE, Seals!Fiber!STATUS_CLOSED

\* The type invariant of the seal profiles.
LEMMA SealTypeCorrect ==
  ASSUME SealInv
  PROVE  Seals!TypeOK
BY CommitmentTypeCorrect, UtxoTypeCorrect, DualTypeCorrect, FiberTypeCorrect DEF Seals!TypeOK

\* The receipts of a BTC transaction commitment speak of the opening.
LEMMA CommitmentBinds ==
  ASSUME profile = "btc_transaction_commitment", SealInv
  PROVE  Seals!Commitment!ReceiptsBindTheSeal
<1>1. ASSUME NEW opening, NEW old, OpensBy(opening, old),
             NEW core, NEW cell, NEW receipt, ClosesBy(core, old, cell, receipt)
      PROVE  /\ receipt.core = core
             /\ core.old_state = opening.new_state
             /\ core.seal = opening.seal
             /\ core.expiry = opening.expiry
             /\ cell.state = core.new_state
             /\ cell.btc_tx_commitment_hash =
                    Seals!Commitment!Hash([tx |-> core.tx,
                           transition |-> Seals!Commitment!Hash(cell.state)])
             /\ cell.latest_receipt_hash = receipt.latest_receipt_hash
  <2>1. old = Seals!Commitment!Initialized(opening)
    BY <1>1 DEF OpensBy
  <2>2. /\ core = Seals!Commitment!CommitCore(old, core.tx, core.new_state)
        /\ cell = Seals!Commitment!Committed(old, core)
        /\ receipt = Seals!Commitment!Receipt(core, old.committer)
    BY <1>1 DEF ClosesBy
  <2>3. /\ old.state = opening.new_state
        /\ old.seal = opening.seal
        /\ old.expiry = opening.expiry
    BY <2>1 DEF Seals!Commitment!Initialized
  <2>4. /\ core.old_state = old.state
        /\ core.seal = old.seal
        /\ core.expiry = old.expiry
        /\ core.transition_commitment_hash = Seals!Commitment!Hash(core.new_state)
    BY <2>2 DEF Seals!Commitment!CommitCore
  <2>5. /\ cell.state = core.new_state
        /\ cell.btc_tx_commitment_hash = Seals!Commitment!BtcTransactionPublicCommitment(core)
        /\ cell.latest_receipt_hash = Seals!Commitment!MaterializedReceiptHash(core)
    BY <2>1, <2>2 DEF Seals!Commitment!Committed, Seals!Commitment!Initialized
  <2>6. /\ receipt.core = core
        /\ receipt.latest_receipt_hash = Seals!Commitment!MaterializedReceiptHash(core)
    BY <2>2 DEF Seals!Commitment!Receipt
  <2> QED
    BY <2>2, <2>3, <2>4, <2>5, <2>6
    DEF Seals!Commitment!BtcTransactionPublicCommitment
<1>2. SUFFICES ASSUME NEW j \in Seals!Commitment!Closings
               PROVE  Seals!Commitment!ReceiptsBindTheSeal!(j)
  BY DEF Seals!Commitment!ReceiptsBindTheSeal
<1>3. j \in DOMAIN ledger /\ ledger[j].spent # {}
  BY DEF Seals!Commitment!Closings
<1>4. PICK i \in 1..(j - 1) : IsClosing(i, j) /\ ledger[j].spent = {i}
  BY <1>3, SpendingCloses
<1>5. i = Seals!Commitment!Closed(j)
  BY <1>4 DEF Seals!Commitment!Closed
<1>6. /\ OpensBy(ledger[i].core, ledger[i].cell)
      /\ ClosesBy(ledger[j].core, ledger[i].cell, ledger[j].cell, ledger[j].receipt)
  BY <1>4 DEF IsClosing, IsOpening
<1>7. /\ ledger[j].receipt.core = ledger[j].core
      /\ ledger[j].core.old_state = ledger[i].core.new_state
      /\ ledger[j].core.seal = ledger[i].core.seal
      /\ ledger[j].core.expiry = ledger[i].core.expiry
      /\ ledger[j].cell.state = ledger[j].core.new_state
      /\ ledger[j].cell.btc_tx_commitment_hash =
            Seals!Commitment!Hash([tx |-> ledger[j].core.tx,
                   transition |-> Seals!Commitment!Hash(ledger[j].cell.state)])
      /\ ledger[j].cell.latest_receipt_hash = ledger[j].receipt.latest_receipt_hash
  BY <1>1, <1>6
<1> QED
  BY <1>3, <1>5, <1>6, <1>7
  DEF Seals!Commitment!Cells, Seals!Commitment!NoCell, NoSealCell

\* The receipts of a BTC UTXO seal speak of the opening.
LEMMA UtxoBinds ==
  ASSUME profile = "btc_utxo_seal", SealInv
  PROVE  Seals!Utxo!ReceiptsBindTheSeal
<1>1. ASSUME NEW opening, NEW old, OpensBy(opening, old),
             NEW core, NEW cell, NEW receipt, ClosesBy(core, old, cell, receipt)
      PROVE  /\ receipt.core = core
             /\ receipt.closure_commitment_hash =
                    Seals!Utxo!Hash([sealed_utxo_commitment_hash |->
                             Seals!Utxo!Hash([utxo |-> opening.utxo]),
                           spend |-> core.spend,
                           transition_commitment_hash |->
                             Seals!Utxo!Hash(core.new_state)])
             /\ core.old_state = opening.new_state
             /\ core.seal = opening.seal
             /\ core.expiry = opening.expiry
             /\ cell # NoSealCell =>
                  /\ cell.state = core.new_state
                  /\ cell.sealed_utxo_commitment_hash =
                       Seals!Utxo!Hash([utxo |-> opening.utxo])
                  /\ cell.latest_receipt_hash = receipt.latest_receipt_hash
  <2>1. old = Seals!Utxo!Initialized(opening)
    BY <1>1 DEF OpensBy
  <2>2. /\ core = Seals!Utxo!CloseCore(old, core.utxo, core.spend, core.new_state)
        /\ cell = Seals!Utxo!ClosedSeal(old, core) \/ cell = NoSealCell
        /\ receipt = Seals!Utxo!ClosureReceipt(old, core)
        /\ old.sealed_utxo_commitment_hash = Seals!Utxo!BtcUtxoCommitment(core)
    BY <1>1 DEF ClosesBy
  <2>3. /\ old.state = opening.new_state
        /\ old.seal = opening.seal
        /\ old.expiry = opening.expiry
        /\ old.sealed_utxo_commitment_hash = Seals!Utxo!BtcUtxoCommitment(opening)
    BY <2>1 DEF Seals!Utxo!Initialized
  <2>4. /\ core.old_state = old.state
        /\ core.seal = old.seal
        /\ core.expiry = old.expiry
        /\ core.transition_commitment_hash = Seals!Utxo!Hash(core.new_state)
    BY <2>2 DEF Seals!Utxo!CloseCore
  <2>5. /\ cell # NoSealCell =>
            cell.state = core.new_state
        /\ cell # NoSealCell =>
            cell.sealed_utxo_commitment_hash = old.sealed_utxo_commitment_hash
        /\ cell # NoSealCell =>
            cell.latest_receipt_hash = Seals!Utxo!MaterializedReceiptHash(core)
    BY <2>1, <2>2 DEF Seals!Utxo!ClosedSeal, Seals!Utxo!Initialized
  <2>6. /\ receipt.core = core
        /\ receipt.latest_receipt_hash = Seals!Utxo!MaterializedReceiptHash(core)
        /\ receipt.closure_commitment_hash = Seals!Utxo!BtcUtxoClosureCommitment(core)
    BY <2>2 DEF Seals!Utxo!ClosureReceipt
  <2> QED
    BY <2>2, <2>3, <2>4, <2>5, <2>6
    DEF Seals!Utxo!BtcUtxoCommitment, Seals!Utxo!BtcUtxoClosureCommitment
<1>2. SUFFICES ASSUME NEW j \in Seals!Utxo!Closings
               PROVE  Seals!Utxo!ReceiptsBindTheSeal!(j)
  BY DEF Seals!Utxo!ReceiptsBindTheSeal
<1>3. j \in DOMAIN ledger /\ ledger[j].spent # {}
  BY DEF Seals!Utxo!Closings
<1>4. PICK i \in 1..(j - 1) : IsClosing(i, j) /\ ledger[j].spent = {i}
  BY <1>3, SpendingCloses
<1>5. i = Seals!Utxo!Closed(j)
  BY <1>4 DEF Seals!Utxo!Closed
<1>6. /\ OpensBy(ledger[i].core, ledger[i].cell)
      /\ ClosesBy(ledger[j].core, ledger[i].cell, ledger[j].cell, ledger[j].receipt)
  BY <1>4 DEF IsClosing, IsOpening
<1>7. /\ ledger[j].receipt.core = ledger[j].core
      /\ ledger[j].receipt.closure_commitment_hash =
            Seals!Utxo!Hash([sealed_utxo_commitment_hash |->
                     Seals!Utxo!Hash([utxo |-> ledger[i].core.utxo]),
                   spend |-> ledger[j].core.spend,
                   transition_commitment_hash |->
                     Seals!Utxo!Hash(ledger[j].core.new_state)])
      /\ ledger[j].core.old_state = ledger[i].core.new_state
      /\ ledger[j].core.seal = ledger[i].core.seal
      /\ ledger[j].core.expiry = ledger[i].core.expiry
      /\ ledger[j].cell # NoSealCell =>
          /\ ledger[j].cell.state = ledger[j].core.new_state
          /\ ledger[j].cell.sealed_utxo_commitment_hash =
               Seals!Utxo!Hash([utxo |-> ledger[i].core.utxo])
          /\ ledger[j].cell.latest_receipt_hash = ledger[j].receipt.latest_receipt_hash
  BY <1>1, <1>6
<1> QED
  BY <1>3, <1>5, <1>6, <1>7
  DEF Seals!Utxo!Cells, Seals!Utxo!NoCell, NoSealCell

\* The receipts of a dual seal speak of the opening.
LEMMA DualBinds ==
  ASSUME profile = "dual_seal", SealInv
  PROVE  Seals!Dual!ReceiptsBindTheSeal
<1>1. ASSUME NEW opening, NEW old, OpensBy(opening, old),
             NEW core, NEW cell, NEW receipt, ClosesBy(core, old, cell, receipt)
      PROVE  /\ receipt.core = core
             /\ core.utxo = opening.utxo
             /\ core.old_state = opening.new_state
             /\ core.seal = opening.seal
             /\ core.expiry = opening.expiry
             /\ old.maturity = opening.maturity
             /\ cell = NoSealCell
  <2>1. old = Seals!Dual!Initialized(opening)
    BY <1>1 DEF OpensBy
  <2>2. /\ core = Seals!Dual!FinalizeCore(old, core.closure, core.new_state)
        /\ cell = NoSealCell
        /\ receipt = Seals!Dual!Receipt(core, old.ckb_authority)
    BY <1>1 DEF ClosesBy
  <2>3. /\ old.state = opening.new_state
        /\ old.seal = opening.seal
        /\ old.expiry = opening.expiry
        /\ old.utxo = opening.utxo
        /\ old.maturity = opening.maturity
    BY <2>1 DEF Seals!Dual!Initialized
  <2>4. /\ core.old_state = old.state
        /\ core.seal = old.seal
        /\ core.expiry = old.expiry
        /\ core.utxo = old.utxo
    BY <2>2 DEF Seals!Dual!FinalizeCore
  <2>6. /\ receipt.core = core
    BY <2>2 DEF Seals!Dual!Receipt
  <2> QED
    BY <2>2, <2>3, <2>4, <2>6
<1>2. SUFFICES ASSUME NEW j \in Seals!Dual!Closings
               PROVE  Seals!Dual!ReceiptsBindTheSeal!(j)
  BY DEF Seals!Dual!ReceiptsBindTheSeal
<1>3. j \in DOMAIN ledger /\ ledger[j].spent # {}
  BY DEF Seals!Dual!Closings
<1>4. PICK i \in 1..(j - 1) : IsClosing(i, j) /\ ledger[j].spent = {i}
  BY <1>3, SpendingCloses
<1>5. i = Seals!Dual!Closed(j)
  BY <1>4 DEF Seals!Dual!Closed
<1>6. /\ OpensBy(ledger[i].core, ledger[i].cell)
      /\ ClosesBy(ledger[j].core, ledger[i].cell, ledger[j].cell, ledger[j].receipt)
      /\ ledger[i].cell.maturity <= ledger[j].epoch
  BY <1>4 DEF IsClosing, IsOpening
<1>7. /\ ledger[j].receipt.core = ledger[j].core
      /\ ledger[j].core.utxo = ledger[i].core.utxo
      /\ ledger[j].core.old_state = ledger[i].core.new_state
      /\ ledger[j].core.seal = ledger[i].core.seal
      /\ ledger[j].core.expiry = ledger[i].core.expiry
      /\ ledger[i].cell.maturity = ledger[i].core.maturity
      /\ ledger[j].cell = NoSealCell
  BY <1>1, <1>6
<1> QED
  BY <1>3, <1>5, <1>6, <1>7
  DEF Seals!Dual!Cells, Seals!Dual!NoCell, NoSealCell

\* The receipts of a Fiber candidate speak of the opening.
LEMMA FiberBinds ==
  ASSUME profile = "fiber_candidate", SealInv
  PROVE  Seals!Fiber!ReceiptsBindTheSeal
<1>1. ASSUME NEW opening, NEW old, OpensBy(opening, old),
             NEW core, NEW cell, NEW receipt, ClosesBy(core, old, cell, receipt)
      PROVE  /\ receipt.core = core
             /\ core.channel = opening.channel
             /\ core.candidate = opening.candidate
             /\ core.old_balance = opening.new_balance
             /\ core.new_balance # opening.new_balance
             /\ core.expiry = opening.expiry
             /\ cell.balance = core.new_balance
             /\ cell.latest_receipt_hash = receipt.latest_receipt_hash
  <2>1. old = Seals!Fiber!Initialized(opening)
    BY <1>1 DEF OpensBy
  <2>2. /\ core = Seals!Fiber!SettleCore(old, core.payment, core.new_balance)
        /\ cell = Seals!Fiber!Settled(old, core)
        /\ receipt = Seals!Fiber!Receipt(core, old.operator)
        /\ core.new_balance # old.balance
    BY <1>1 DEF ClosesBy
  <2>3. /\ old.balance = opening.new_balance
        /\ old.channel = opening.channel
        /\ old.candidate = opening.candidate
        /\ old.expiry = opening.expiry
    BY <2>1 DEF Seals!Fiber!Initialized
  <2>4. /\ core.old_balance = old.balance
        /\ core.channel = old.channel
        /\ core.candidate = old.candidate
        /\ core.expiry = old.expiry
    BY <2>2 DEF Seals!Fiber!SettleCore
  <2>5. /\ cell.balance = core.new_balance
        /\ cell.latest_receipt_hash = Seals!Fiber!MaterializedReceiptHash(core)
    BY <2>1, <2>2 DEF Seals!Fiber!Settled, Seals!Fiber!Initialized
  <2>6. /\ receipt.core = core
        /\ receipt.latest_receipt_hash = Seals!Fiber!MaterializedReceiptHash(core)
    BY <2>2 DEF Seals!Fiber!Receipt
  <2> QED
    BY <2>2, <2>3, <2>4, <2>5, <2>6
<1>2. SUFFICES ASSUME NEW j \in Seals!Fiber!Closings
               PROVE  Seals!Fiber!ReceiptsBindTheSeal!(j)
  BY DEF Seals!Fiber!ReceiptsBindTheSeal
<1>3. j \in DOMAIN ledger /\ ledger[j].spent # {}
  BY DEF Seals!Fiber!Closings
<1>4. PICK i \in 1..(j - 1) : IsClosing(i, j) /\ ledger[j].spent = {i}
  BY <1>3, SpendingCloses
<1>5. i = Seals!Fiber!Closed(j)
  BY <1>4 DEF Seals!Fiber!Closed
<1>6. /\ OpensBy(ledger[i].core, ledger[i].cell)
      /\ ClosesBy(ledger[j].core, ledger[i].cell, ledger[j].cell, ledger[j].receipt)
  BY <1>4 DEF IsClosing, IsOpening
<1>7. /\ ledger[j].receipt.core = ledger[j].core
      /\ ledger[j].core.channel = ledger[i].core.channel
      /\ ledger[j].core.candidate = ledger[i].core.candidate
      /\ ledger[j].core.old_balance = ledger[i].core.new_balance
      /\ ledger[j].core.new_balance # ledger[i].core.new_balance
      /\ ledger[j].core.expiry = ledger[i].core.expiry
      /\ ledger[j].cell.balance = ledger[j].core.new_balance
      /\ ledger[j].cell.latest_receipt_hash = ledger[j].receipt.latest_receipt_hash
  BY <1>1, <1>6
<1> QED
  BY <1>3, <1>5, <1>6, <1>7
  DEF Seals!Fiber!Cells, Seals!Fiber!NoCell, NoSealCell

\* Whatever profile of seals a ledger is of, each receipt on it is about the seal
\* that its parties opened: the same seal, state, output or channel, maturity and
\* expiry (the tuple bindings the four lifecycle types document).
THEOREM Binding == Spec => []ReceiptsBindTheSeal
<1>1. (IsSeal => SealInv) => ReceiptsBindTheSeal
  BY CommitmentBinds, UtxoBinds, DualBinds, FiberBinds
  DEF ReceiptsBindTheSeal, Seals!ReceiptsBindTheSeal
<1> QED
  BY <1>1, SealSpecInv, PTL

\* Every profile keeps its cells in the shape its script gives them.
THEOREM TypeCorrect == Spec => []TypeOK
<1>1. (IsXudt => XudtInv) /\ (IsRwa => RwaInv) /\ (IsSeal => SealInv) => TypeOK
  BY XudtTypeCorrect, RwaTypeCorrect, SealTypeCorrect DEF TypeOK
<1> QED
  BY <1>1, XudtSpecInv, RwaSpecInv, SealSpecInv, PTL
-----------------------------------------------------------------------------
(***************************************************************************)
(* The seals of the four profiles are single-use seals.                    *)
(***************************************************************************)

\* What the deed of an intent that opens a seal is.
OpeningDeed(core) ==
  /\ core.action = 255
  /\ "maturity" \in DOMAIN core <=> profile = "dual_seal"

\* What the deed of an intent that closes the seal of opening is.
ClosingDeed(opening, old, core, receipt) ==
  /\ core.action = 0
  /\ Seals!PartiesOf(core) = Seals!PartiesOf(opening)
  /\ Seals!Identity(core) = Seals!Identity(opening)
  /\ Seals!StateBefore(core) = Seals!StateAfter(opening)
  /\ receipt.core = core
  /\ core.expiry = opening.expiry
  /\ profile = "dual_seal" => old.maturity = opening.maturity

\* The deeds of a BTC transaction commitment.
LEMMA CommitmentDeeds ==
  ASSUME profile = "btc_transaction_commitment", NEW opening, NEW old, OpensBy(opening, old)
  PROVE  /\ OpeningDeed(opening)
         /\ \A core, cell, receipt :
              ClosesBy(core, old, cell, receipt) =>
                ClosingDeed(opening, old, core, receipt)
<1>1. PICK fields : opening = Seals!Commitment!InitializeCore(fields)
  BY DEF OpensBy
<1>2. old = Seals!Commitment!Initialized(opening)
  BY DEF OpensBy
<1>3. OpeningDeed(opening)
  BY <1>1 DEF OpeningDeed, Seals!Commitment!InitializeCore, Seals!Commitment!OP_INITIALIZE
<1>4. ASSUME NEW core, NEW cell, NEW receipt, ClosesBy(core, old, cell, receipt)
      PROVE  ClosingDeed(opening, old, core, receipt)
  <2> DEFINE Kept == {"seal", "candidate", "committer", "owner", "btc_owner",
                       "ckb_authority", "operator", "channel", "utxo", "maturity",
                       "expiry"}
  <2>1. /\ core = Seals!Commitment!CommitCore(old, core.tx, core.new_state)
        /\ receipt = Seals!Commitment!Receipt(core, old.committer)
    BY <1>4 DEF ClosesBy
  <2>2. /\ old.seal = opening.seal
        /\ old.committer = opening.committer
        /\ old.expiry = opening.expiry
        /\ old.state = opening.new_state
    BY <1>2 DEF Seals!Commitment!Initialized
  <2>3. /\ core.seal = old.seal
        /\ core.committer = old.committer
        /\ core.expiry = old.expiry
        /\ core.old_state = old.state /\ core.action = 0
    BY <2>1 DEF Seals!Commitment!CommitCore, Seals!Commitment!OP_CLOSE
  <2>4. receipt.core = core
    BY <2>1 DEF Seals!Commitment!Receipt
  <2>5. /\ DOMAIN core \cap Kept = {"seal", "committer", "expiry"}
        /\ DOMAIN opening \cap Kept = {"seal", "committer", "expiry"}
    BY <1>1, <2>1 DEF Seals!Commitment!InitializeCore, Seals!Commitment!CommitCore
  <2>6. Seals!Identity(core) = Seals!Identity(opening)
    <3>1. \A a \in {"seal", "committer", "expiry"} : core[a] = opening[a]
      BY <2>2, <2>3
    <3> QED
      BY <2>5, <3>1 DEF Seals!Identity
  <2>7. Seals!StateBefore(core) = Seals!StateAfter(opening)
    <3>1. "operator" \notin DOMAIN core
      BY <2>1 DEF Seals!Commitment!CommitCore
    <3>2. "operator" \notin DOMAIN opening
      BY <1>1 DEF Seals!Commitment!InitializeCore
    <3> QED
      BY <2>2, <2>3, <3>1, <3>2 DEF Seals!StateBefore, Seals!StateAfter, Seals!Names
  <2>8. Seals!PartiesOf(core) = Seals!PartiesOf(opening)
    BY <1>1, <2>1, <2>2, <2>3, CommitmentParties
  <2> QED
    BY <2>2, <2>3, <2>4, <2>6, <2>7, <2>8 DEF ClosingDeed
<1> QED
  BY <1>3, <1>4

\* The deeds of a BTC UTXO seal.
LEMMA UtxoDeeds ==
  ASSUME profile = "btc_utxo_seal", NEW opening, NEW old, OpensBy(opening, old)
  PROVE  /\ OpeningDeed(opening)
         /\ \A core, cell, receipt :
              ClosesBy(core, old, cell, receipt) =>
                ClosingDeed(opening, old, core, receipt)
<1>1. PICK fields : opening = Seals!Utxo!InitializeCore(fields)
  BY DEF OpensBy
<1>2. old = Seals!Utxo!Initialized(opening)
  BY DEF OpensBy
<1>3. OpeningDeed(opening)
  BY <1>1 DEF OpeningDeed, Seals!Utxo!InitializeCore, Seals!Utxo!OP_INITIALIZE
<1>4. ASSUME NEW core, NEW cell, NEW receipt, ClosesBy(core, old, cell, receipt)
      PROVE  ClosingDeed(opening, old, core, receipt)
  <2> DEFINE Kept == {"seal", "candidate", "committer", "owner", "btc_owner",
                       "ckb_authority", "operator", "channel", "utxo", "maturity",
                       "expiry"}
  <2>1. /\ core = Seals!Utxo!CloseCore(old, core.utxo, core.spend, core.new_state)
        /\ receipt = Seals!Utxo!ClosureReceipt(old, core)
    BY <1>4 DEF ClosesBy
  <2>2. /\ old.seal = opening.seal
        /\ old.owner = opening.owner
        /\ old.expiry = opening.expiry
        /\ old.state = opening.new_state
    BY <1>2 DEF Seals!Utxo!Initialized
  <2>3. /\ core.seal = old.seal
        /\ core.owner = old.owner
        /\ core.expiry = old.expiry
        /\ core.old_state = old.state /\ core.action = 0
    BY <2>1 DEF Seals!Utxo!CloseCore, Seals!Utxo!OP_CLOSE
  <2>4. core.utxo = opening.utxo
    <3>1. Seals!Utxo!BtcUtxoCommitment(opening) = Seals!Utxo!BtcUtxoCommitment(core)
      BY <1>2, <1>4 DEF ClosesBy, Seals!Utxo!Initialized
    <3>2. Seals!Utxo!Hash([utxo |-> opening.utxo]).hash_of
            = Seals!Utxo!Hash([utxo |-> core.utxo]).hash_of
      BY <3>1 DEF Seals!Utxo!BtcUtxoCommitment
    <3>3. [utxo |-> opening.utxo] = [utxo |-> core.utxo]
      BY <3>2 DEF Seals!Utxo!Hash
    <3>4. [utxo |-> opening.utxo].utxo = [utxo |-> core.utxo].utxo
      BY <3>3
    <3> QED
      BY <3>4
  <2>5. /\ DOMAIN core \cap Kept = {"seal", "owner", "utxo", "expiry"}
        /\ DOMAIN opening \cap Kept = {"seal", "owner", "utxo", "expiry"}
    BY <1>1, <2>1 DEF Seals!Utxo!InitializeCore, Seals!Utxo!CloseCore
  <2>6. Seals!Identity(core) = Seals!Identity(opening)
    <3>1. \A a \in {"seal", "owner", "utxo", "expiry"} : core[a] = opening[a]
      BY <2>2, <2>3, <2>4
    <3> QED
      BY <2>5, <3>1 DEF Seals!Identity
  <2>7. Seals!StateBefore(core) = Seals!StateAfter(opening)
    <3>1. "operator" \notin DOMAIN core
      BY <2>1 DEF Seals!Utxo!CloseCore
    <3>2. "operator" \notin DOMAIN opening
      BY <1>1 DEF Seals!Utxo!InitializeCore
    <3> QED
      BY <2>2, <2>3, <3>1, <3>2 DEF Seals!StateBefore, Seals!StateAfter, Seals!Names
  <2>8. Seals!PartiesOf(core) = Seals!PartiesOf(opening)
    BY <1>1, <2>1, <2>2, <2>3, UtxoParties
  <2>9. receipt.core = core
    BY <2>1 DEF Seals!Utxo!ClosureReceipt
  <2> QED
    BY <2>2, <2>3, <2>4, <2>6, <2>7, <2>8, <2>9 DEF ClosingDeed
<1> QED
  BY <1>3, <1>4

\* The deeds of a dual seal.
LEMMA DualDeeds ==
  ASSUME profile = "dual_seal", NEW opening, NEW old, OpensBy(opening, old)
  PROVE  /\ OpeningDeed(opening)
         /\ \A core, cell, receipt :
              ClosesBy(core, old, cell, receipt) =>
                ClosingDeed(opening, old, core, receipt)
<1>1. PICK fields : opening = Seals!Dual!InitializeCore(fields)
  BY DEF OpensBy
<1>2. old = Seals!Dual!Initialized(opening)
  BY DEF OpensBy
<1>3. OpeningDeed(opening)
  BY <1>1 DEF OpeningDeed, Seals!Dual!InitializeCore, Seals!Dual!OP_INITIALIZE
<1>4. ASSUME NEW core, NEW cell, NEW receipt, ClosesBy(core, old, cell, receipt)
      PROVE  ClosingDeed(opening, old, core, receipt)
  <2> DEFINE Kept == {"seal", "candidate", "committer", "owner", "btc_owner",
                       "ckb_authority", "operator", "channel", "utxo", "maturity",
                       "expiry"}
  <2>1. /\ core = Seals!Dual!FinalizeCore(old, core.closure, core.new_state)
        /\ receipt = Seals!Dual!Receipt(core, old.ckb_authority)
    BY <1>4 DEF ClosesBy
  <2>2. /\ old.seal = opening.seal
        /\ old.btc_owner = opening.btc_owner
        /\ old.ckb_authority = opening.ckb_authority
        /\ old.utxo = opening.utxo
        /\ old.maturity = opening.maturity
        /\ old.expiry = opening.expiry
        /\ old.state = opening.new_state
    BY <1>2 DEF Seals!Dual!Initialized
  <2>3. /\ core.seal = old.seal
        /\ core.btc_owner = old.btc_owner
        /\ core.ckb_authority = old.ckb_authority
        /\ core.utxo = old.utxo
        /\ core.maturity = old.maturity
        /\ core.expiry = old.expiry
        /\ core.old_state = old.state /\ core.action = 0
    BY <2>1 DEF Seals!Dual!FinalizeCore, Seals!Dual!OP_CLOSE
  <2>4. receipt.core = core
    BY <2>1 DEF Seals!Dual!Receipt
  <2>5. /\ DOMAIN core \cap Kept
             = {"seal", "btc_owner", "ckb_authority", "utxo", "maturity", "expiry"}
        /\ DOMAIN opening \cap Kept
             = {"seal", "btc_owner", "ckb_authority", "utxo", "maturity", "expiry"}
    BY <1>1, <2>1 DEF Seals!Dual!InitializeCore, Seals!Dual!FinalizeCore
  <2>6. Seals!Identity(core) = Seals!Identity(opening)
    <3>1. \A a \in {"seal", "btc_owner", "ckb_authority", "utxo", "maturity", "expiry"} :
            core[a] = opening[a]
      BY <2>2, <2>3
    <3> QED
      BY <2>5, <3>1 DEF Seals!Identity
  <2>7. Seals!StateBefore(core) = Seals!StateAfter(opening)
    <3>1. "operator" \notin DOMAIN core
      BY <2>1 DEF Seals!Dual!FinalizeCore
    <3>2. "operator" \notin DOMAIN opening
      BY <1>1 DEF Seals!Dual!InitializeCore
    <3> QED
      BY <2>2, <2>3, <3>1, <3>2 DEF Seals!StateBefore, Seals!StateAfter, Seals!Names
  <2>8. Seals!PartiesOf(core) = Seals!PartiesOf(opening)
    BY <1>1, <2>1, <2>2, <2>3, DualParties
  <2> QED
    BY <2>2, <2>3, <2>4, <2>6, <2>7, <2>8 DEF ClosingDeed
<1> QED
  BY <1>3, <1>4

\* The deeds of a Fiber candidate.
LEMMA FiberDeeds ==
  ASSUME profile = "fiber_candidate", NEW opening, NEW old, OpensBy(opening, old)
  PROVE  /\ OpeningDeed(opening)
         /\ \A core, cell, receipt :
              ClosesBy(core, old, cell, receipt) =>
                ClosingDeed(opening, old, core, receipt)
<1>1. PICK fields : opening = Seals!Fiber!InitializeCore(fields)
  BY DEF OpensBy
<1>2. old = Seals!Fiber!Initialized(opening)
  BY DEF OpensBy
<1>3. OpeningDeed(opening)
  BY <1>1 DEF OpeningDeed, Seals!Fiber!InitializeCore, Seals!Fiber!OP_INITIALIZE
<1>4. ASSUME NEW core, NEW cell, NEW receipt, ClosesBy(core, old, cell, receipt)
      PROVE  ClosingDeed(opening, old, core, receipt)
  <2> DEFINE Kept == {"seal", "candidate", "committer", "owner", "btc_owner",
                       "ckb_authority", "operator", "channel", "utxo", "maturity",
                       "expiry"}
  <2>1. /\ core = Seals!Fiber!SettleCore(old, core.payment, core.new_balance)
        /\ receipt = Seals!Fiber!Receipt(core, old.operator)
    BY <1>4 DEF ClosesBy
  <2>2. /\ old.candidate = opening.candidate
        /\ old.operator = opening.operator
        /\ old.channel = opening.channel
        /\ old.expiry = opening.expiry
        /\ old.balance = opening.new_balance
    BY <1>2 DEF Seals!Fiber!Initialized
  <2>3. /\ core.candidate = old.candidate
        /\ core.operator = old.operator
        /\ core.channel = old.channel
        /\ core.expiry = old.expiry
        /\ core.old_balance = old.balance /\ core.action = 0
    BY <2>1 DEF Seals!Fiber!SettleCore, Seals!Fiber!OP_CLOSE
  <2>4. receipt.core = core
    BY <2>1 DEF Seals!Fiber!Receipt
  <2>5. /\ DOMAIN core \cap Kept = {"candidate", "operator", "channel", "expiry"}
        /\ DOMAIN opening \cap Kept = {"candidate", "operator", "channel", "expiry"}
    BY <1>1, <2>1 DEF Seals!Fiber!InitializeCore, Seals!Fiber!SettleCore
  <2>6. Seals!Identity(core) = Seals!Identity(opening)
    <3>1. \A a \in {"candidate", "operator", "channel", "expiry"} : core[a] = opening[a]
      BY <2>2, <2>3
    <3> QED
      BY <2>5, <3>1 DEF Seals!Identity
  <2>7. Seals!StateBefore(core) = Seals!StateAfter(opening)
    <3>1. "operator" \in DOMAIN core
      BY <2>1 DEF Seals!Fiber!SettleCore
    <3>2. "operator" \in DOMAIN opening
      BY <1>1 DEF Seals!Fiber!InitializeCore
    <3> QED
      BY <2>2, <2>3, <3>1, <3>2 DEF Seals!StateBefore, Seals!StateAfter, Seals!Names
  <2>8. Seals!PartiesOf(core) = Seals!PartiesOf(opening)
    BY <1>1, <2>1, <2>2, <2>3, FiberParties
  <2> QED
    BY <2>2, <2>3, <2>4, <2>6, <2>7, <2>8 DEF ClosingDeed
<1> QED
  BY <1>3, <1>4

\* The deeds of the four profiles.
LEMMA SealDeedsOf ==
  ASSUME IsSeal, NEW opening, NEW old, OpensBy(opening, old)
  PROVE  /\ OpeningDeed(opening)
         /\ \A core, cell, receipt :
              ClosesBy(core, old, cell, receipt) =>
                ClosingDeed(opening, old, core, receipt)
BY CommitmentDeeds, UtxoDeeds, DualDeeds, FiberDeeds DEF IsSeal, Seals!Profiles

\* Every intent that its parties signed is a deed, and their mandates are for it.
LEMMA AgreedDeeds ==
  ASSUME IsSeal, SealTypes, NEW core, SealAgreed(core)
  PROVE  /\ Seals!Deed(core) \in Seals!SealDeeds
         /\ \A key \in Seals!PartiesOf(core) :
              <<key, Seals!Deed(core)>> \in Seals!SealMandates
<1>1. PICK key \in Seals!PartiesOf(core) : <<key, core>> \in signed
  BY DEF SealAgreed
<1>2. <<key, core>> \in SealWallets[profile] /\ profile \in Seals!Profiles
  BY <1>1 DEF SealTypes, IsSeal
<1>3. <<key, core>> \in UNION {SealWallets[p] : p \in Seals!Profiles}
  BY <1>2
<1>4. Seals!Deed(core) \in Seals!SealDeeds
  <2>1. <<key, core>>[2] = core
    OBVIOUS
  <2> QED
    BY <1>3, <2>1 DEF Seals!SealDeeds
<1>5. ASSUME NEW k \in Seals!PartiesOf(core)
      PROVE  <<k, Seals!Deed(core)>> \in Seals!SealMandates
  <2>1. <<k, core>> \in signed /\ <<k, core>>[1] = k /\ <<k, core>>[2] = core
    BY DEF SealAgreed
  <2> QED
    BY <2>1 DEF Seals!SealMandates
<1> QED
  BY <1>4, <1>5

\* In the beginning there are no seals.
LEMMA SealsBegin ==
  ASSUME Init
  PROVE  Seals!Seals!Init
<1>1. tip = 0 /\ signed = {} /\ DOMAIN ledger = {}
  BY DEF Init
<1>2. Seals!SealMandates = {}
  BY <1>1 DEF Seals!SealMandates
<1>3. Seals!Openings = {}
  BY <1>1 DEF Seals!Openings
<1>4. Seals!SealsInUse = [id \in {} |-> Seals!Seals!Unused]
  BY <1>3 DEF Seals!SealsInUse
<1> QED
  BY <1>1, <1>2, <1>4 DEF Seals!Seals!Init

\* The transactions that use a seal.
UsesOf(id) == {j \in DOMAIN ledger : id \in ledger[j].spent}

\* Use by use, what a seal was used for.
LEMMA UseOfSeal ==
  ASSUME NEW id
  PROVE  /\ UsesOf(id) = {} => Seals!UseOf(id) = Seals!Seals!Unused
         /\ \A j : UsesOf(id) = {j} =>
              Seals!UseOf(id) = Seals!Deed(ledger[j].receipt.core)
BY DEF UsesOf, Seals!UseOf, Seals!Seals!Unused

\* What a committed transaction does to the ledger.
LEMMA SealAppended ==
  ASSUME SealTypes, NEW core, NEW spent, NEW cell, NEW receipt,
         SealCommits(core, spent, cell, receipt),
         NEW n, n = Len(ledger) + 1
  PROVE  /\ n \in 1..MaxLedger /\ n \notin DOMAIN ledger
         /\ DOMAIN ledger' = DOMAIN ledger \cup {n}
         /\ \A j \in DOMAIN ledger : j \in 1..(n - 1) /\ ledger'[j] = ledger[j]
         /\ ledger'[n].core = core /\ ledger'[n].spent = spent
         /\ ledger'[n].receipt = receipt
<1> DEFINE e == [core |-> core, spent |-> spent, cell |-> cell,
                 receipt |-> receipt, epoch |-> tip]
<1>1. ledger' = Append(ledger, e) /\ Len(ledger) < MaxLedger
  BY DEF SealCommits
<1>2. e.core = core /\ e.spent = spent /\ e.receipt = receipt
  OBVIOUS
<1> HIDE DEF e
<1>3. /\ Len(ledger) \in Nat /\ DOMAIN ledger = 1..Len(ledger)
      /\ DOMAIN ledger' = 1..(Len(ledger) + 1)
      /\ \A j \in 1..Len(ledger) : ledger'[j] = ledger[j]
      /\ ledger'[Len(ledger) + 1] = e
  BY <1>1, AppendFacts DEF SealTypes
<1>4. Len(ledger) + 1 <= MaxLedger
  <2>1. MaxLedger \in Nat
    BY ProfilesAssumption DEF ProfilesAssumption, Seals!SealsAssumption
  <2> QED
    BY <1>1, <1>3, <2>1
<1>5. n \in 1..MaxLedger /\ n \notin DOMAIN ledger /\ DOMAIN ledger' = DOMAIN ledger \cup {n}
  BY <1>3, <1>4
<1>6. ASSUME NEW j \in DOMAIN ledger
      PROVE  j \in 1..(n - 1) /\ ledger'[j] = ledger[j]
  BY <1>3
<1> QED
  BY <1>2, <1>3, <1>5, <1>6

\* A cell is spent by one transaction or by none, and earlier than it spends.
LEMMA SealUses ==
  ASSUME SealInv, NEW id
  PROVE  /\ id \notin SealSpent => UsesOf(id) = {}
         /\ UsesOf(id) # {} => \E k \in DOMAIN ledger : UsesOf(id) = {k}
         /\ \A j \in UsesOf(id) : j \in DOMAIN ledger /\ id \in 1..(j - 1)
<1>1. id \notin SealSpent => UsesOf(id) = {}
  BY DEF SealSpent, UsesOf
<1>2. ASSUME UsesOf(id) # {}
      PROVE  \E k \in DOMAIN ledger : UsesOf(id) = {k}
  <2>1. PICK k \in DOMAIN ledger : id \in ledger[k].spent
    BY <1>2 DEF UsesOf
  <2>2. \A j \in DOMAIN ledger : id \in ledger[j].spent => j = k
    BY <2>1 DEF SealInv, SealSpentOnce
  <2> QED
    BY <2>1, <2>2 DEF UsesOf
<1>3. ASSUME NEW j \in UsesOf(id)
      PROVE  j \in DOMAIN ledger /\ id \in 1..(j - 1)
  <2>1. j \in DOMAIN ledger /\ id \in ledger[j].spent
    BY DEF UsesOf
  <2> QED
    BY <2>1 DEF SealInv, SealHistory, IsOpening, IsClosing
<1> QED
  BY <1>1, <1>2, <1>3

\* What a committed transaction does to the uses of the seals.
LEMMA UseAfter ==
  ASSUME SealInv, NEW core, NEW spent, NEW cell, NEW receipt,
         SealCommits(core, spent, cell, receipt), spent \cap SealSpent = {}, NEW id
  PROVE  /\ id \notin spent => Seals!UseOf(id)' = Seals!UseOf(id)
         /\ id \in spent => Seals!UseOf(id)' = Seals!Deed(receipt.core)
<1>1. SealTypes
  BY DEF SealInv
<1>2. PICK n :
         /\ n \in 1..MaxLedger /\ n \notin DOMAIN ledger
         /\ DOMAIN ledger' = DOMAIN ledger \cup {n}
         /\ \A j \in DOMAIN ledger : j \in 1..(n - 1) /\ ledger'[j] = ledger[j]
         /\ ledger'[n].core = core
         /\ ledger'[n].spent = spent /\ ledger'[n].receipt = receipt
  <2>1. PICK n : n = Len(ledger) + 1
    OBVIOUS
  <2> QED
    BY <1>1, <2>1, SealAppended DEF SealCommits
<1>3. UsesOf(id)' = UsesOf(id) \cup (IF id \in spent THEN {n} ELSE {})
  BY <1>2 DEF UsesOf
<1>4. ASSUME NEW k, UsesOf(id)' = {k}
      PROVE  Seals!UseOf(id)' = Seals!Deed(ledger'[k].receipt.core)
  BY <1>4 DEF UsesOf, Seals!UseOf
<1>5. UsesOf(id)' = {} => Seals!UseOf(id)' = Seals!Seals!Unused
  BY DEF UsesOf, Seals!UseOf, Seals!Seals!Unused
<1>6. CASE id \in spent
  <2>1. UsesOf(id)' = {n}
    BY <1>3, <1>6, SealUses
  <2> QED
    BY <1>2, <1>4, <1>6, <2>1
<1>7. CASE id \notin spent
  <2>1. UsesOf(id)' = UsesOf(id)
    BY <1>3, <1>7
  <2>2. CASE UsesOf(id) = {}
    BY <1>5, <1>7, <2>1, <2>2, UseOfSeal
  <2>3. CASE UsesOf(id) # {}
    <3>1. PICK k \in DOMAIN ledger : UsesOf(id) = {k}
      BY <2>3, SealUses
    <3> QED
      BY <1>2, <1>4, <1>7, <2>1, <3>1, UseOfSeal
  <2> QED
    BY <2>2, <2>3
<1> QED
  BY <1>6, <1>7

\* A transaction that opens a seal is an opening.
LEMMA OpeningIsOpen ==
  ASSUME IsSeal, SealInv, NEW core, NEW spent, NEW cell, NEW receipt,
         SealCommits(core, spent, cell, receipt), SealOpens(core, spent, cell)
  PROVE  Seals!Seals!Next
<1>1. PICK n : n = Len(ledger) + 1
  OBVIOUS
<1>2. PICK deed : deed = Seals!Deed(core)
  OBVIOUS
<1>3. /\ n \in 1..MaxLedger /\ n \notin DOMAIN ledger
      /\ DOMAIN ledger' = DOMAIN ledger \cup {n}
      /\ \A j \in DOMAIN ledger : j \in 1..(n - 1) /\ ledger'[j] = ledger[j]
      /\ ledger'[n].core = core /\ ledger'[n].spent = {}
  BY <1>1, SealAppended DEF SealInv, SealOpens
<1>4. /\ deed \in Seals!SealDeeds /\ deed.opens
      /\ Seals!Seals!AgreedByAll(deed.parties, deed)
      /\ tip <= deed.until + HeaderLag
  <2>1. OpeningDeed(core)
    BY SealDeedsOf DEF SealOpens
  <2>2. deed.parties = Seals!PartiesOf(core) /\ deed.until = core.expiry /\ deed.opens
    BY <1>2, <2>1 DEF Seals!Deed, OpeningDeed, Seals!Commitment!OP_INITIALIZE
  <2> QED
    BY <1>2, <2>2, AgreedDeeds DEF SealInv, SealCommits, Seals!Seals!AgreedByAll
<1>5. Seals!Openings' = Seals!Openings \cup {n}
  BY <1>3 DEF Seals!Openings
<1>6. ASSUME NEW id \in Seals!Openings \cup {n}
      PROVE  Seals!UseOf(id)' = Seals!UseOf(id)
  BY UseAfter DEF SealOpens
<1>7. Seals!UseOf(n) = Seals!Seals!Unused
  <2>1. UsesOf(n) = {}
    <3>1. ASSUME NEW j \in UsesOf(n) PROVE FALSE
      <4>1. j \in DOMAIN ledger /\ n \in 1..(j - 1)
        BY SealUses
      <4>2. Len(ledger) \in Nat /\ DOMAIN ledger = 1..Len(ledger)
        BY SealPositions DEF SealInv
      <4> QED
        BY <1>1, <4>1, <4>2
    <3> QED
      BY <3>1
  <2> QED
    BY <2>1, UseOfSeal
<1>8. Seals!SealsInUse' =
        [id \in DOMAIN Seals!SealsInUse \cup {n} |->
           IF id = n THEN [opening |-> deed, use |-> Seals!Seals!Unused]
           ELSE Seals!SealsInUse[id]]
  <2>1. DOMAIN Seals!SealsInUse = Seals!Openings
    BY DEF Seals!SealsInUse
  <2>2. Seals!SealsInUse' =
          [id \in Seals!Openings \cup {n} |->
             [opening |-> Seals!Deed(ledger'[id].core), use |-> Seals!UseOf(id)']]
    BY <1>5 DEF Seals!SealsInUse
  <2>3. \A id \in Seals!Openings :
          Seals!SealsInUse[id] = [opening |-> Seals!Deed(ledger'[id].core),
                                  use |-> Seals!UseOf(id)']
    BY <1>3, <1>6 DEF Seals!SealsInUse, Seals!Openings
  <2>4. n \notin Seals!Openings
    BY <1>3 DEF Seals!Openings
  <2> QED
    BY <1>2, <1>3, <1>6, <1>7, <2>1, <2>2, <2>3, <2>4
<1>9. tip' = tip /\ Seals!SealMandates' = Seals!SealMandates
  BY DEF SealCommits, Seals!SealMandates
<1>10. n \notin DOMAIN Seals!SealsInUse
  BY <1>3 DEF Seals!SealsInUse, Seals!Openings
<1>11. Seals!Seals!Open(n, deed)
  BY <1>4, <1>8, <1>9, <1>10 DEF Seals!Seals!Open
<1> QED
  BY <1>3, <1>4, <1>11 DEF Seals!Seals!Next

\* A transaction that closes a seal is the use of it.
LEMMA ClosingIsUse ==
  ASSUME IsSeal, SealInv, NEW core, NEW spent, NEW cell, NEW receipt, NEW i,
         SealCommits(core, spent, cell, receipt), SealCloses(i, core, spent, cell, receipt)
  PROVE  Seals!Seals!Next
<1>1. PICK n : n = Len(ledger) + 1
  OBVIOUS
<1>2. PICK deed : deed = Seals!Deed(core)
  OBVIOUS
<1>3. PICK opening : opening = Seals!Deed(ledger[i].core)
  OBVIOUS
<1>4. /\ i \in DOMAIN ledger /\ IsOpening(i) /\ i \notin SealSpent
      /\ OpensBy(ledger[i].core, ledger[i].cell)
      /\ ClosesBy(core, ledger[i].cell, cell, receipt)
      /\ spent = {i}
  BY DEF SealCloses, SealCells, IsOpening
<1>5. /\ OpeningDeed(ledger[i].core)
      /\ ClosingDeed(ledger[i].core, ledger[i].cell, core, receipt)
  BY <1>4, SealDeedsOf
<1>6. /\ n \notin DOMAIN ledger
      /\ DOMAIN ledger' = DOMAIN ledger \cup {n}
      /\ \A j \in DOMAIN ledger : ledger'[j] = ledger[j]
      /\ ledger'[n].spent = {i}
  <2>1. SealTypes
    BY DEF SealInv
  <2>2. /\ n \in 1..MaxLedger /\ n \notin DOMAIN ledger
        /\ DOMAIN ledger' = DOMAIN ledger \cup {n}
        /\ \A j \in DOMAIN ledger : j \in 1..(n - 1) /\ ledger'[j] = ledger[j]
        /\ ledger'[n].core = core /\ ledger'[n].spent = spent
        /\ ledger'[n].receipt = receipt
    BY <1>1, <2>1, SealAppended DEF SealCommits
  <2> QED
    BY <1>4, <2>2
<1>7. /\ deed \in Seals!SealDeeds /\ ~deed.opens
      /\ deed.subject = opening.subject
      /\ Seals!Seals!AgreedByAll(opening.parties, deed)
  <2>1. ~deed.opens /\ deed.subject = <<Seals!Identity(core), Seals!StateBefore(core)>>
    <3>1. ~(core.action = Seals!Commitment!OP_INITIALIZE)
      BY <1>5 DEF ClosingDeed, Seals!Commitment!OP_INITIALIZE
    <3> QED
      BY <1>2, <3>1 DEF Seals!Deed
  <2>2. /\ opening.subject = <<Seals!Identity(ledger[i].core), Seals!StateAfter(ledger[i].core)>>
        /\ opening.parties = Seals!PartiesOf(ledger[i].core)
    BY <1>3, <1>5 DEF Seals!Deed, OpeningDeed, Seals!Commitment!OP_INITIALIZE
  <2> QED
    BY <1>2, <1>5, <2>1, <2>2, AgreedDeeds
    DEF SealInv, SealCommits, ClosingDeed, Seals!Seals!AgreedByAll
<1>8. opening.from <= tip /\ tip <= opening.until + HeaderLag
  <2>1. opening.until = core.expiry
    BY <1>3, <1>5 DEF Seals!Deed, ClosingDeed
  <2>2. tip \in Nat
    BY SealConstants DEF SealInv, SealTypes
  <2>3. CASE profile = "dual_seal"
    <3>1. opening.from = ledger[i].core.maturity
      BY <1>3, <1>5, <2>3 DEF Seals!Deed, OpeningDeed, Seals!Names
    <3>2. ledger[i].cell.maturity <= tip
      BY <2>3 DEF SealCloses
    <3> QED
      BY <1>5, <2>1, <2>3, <3>1, <3>2 DEF ClosingDeed, SealCommits
  <2>4. CASE profile # "dual_seal"
    <3>1. opening.from = 0
      BY <1>3, <1>5, <2>4 DEF Seals!Deed, OpeningDeed, Seals!Names
    <3> QED
      BY <2>1, <2>2, <3>1 DEF SealCommits
  <2> QED
    BY <2>3, <2>4
<1>9. Seals!Openings' = Seals!Openings /\ i \in Seals!Openings
  BY <1>4, <1>6 DEF Seals!Openings, IsOpening
<1>10. /\ \A id \in Seals!Openings \ {i} : Seals!UseOf(id)' = Seals!UseOf(id)
       /\ Seals!UseOf(i)' = deed
  <2>1. spent \cap SealSpent = {}
    BY <1>4
  <2>2. receipt.core = core
    BY <1>5 DEF ClosingDeed
  <2> QED
    BY <1>2, <1>4, <2>1, <2>2, UseAfter
<1>11. Seals!UseOf(i) = Seals!Seals!Unused
  BY <1>4, SealUses, UseOfSeal
<1>12. /\ DOMAIN Seals!SealsInUse = Seals!Openings
       /\ Seals!SealsInUse[i] = [opening |-> opening, use |-> Seals!Seals!Unused]
  BY <1>3, <1>9, <1>11 DEF Seals!SealsInUse
<1>13. Seals!SealsInUse' = [Seals!SealsInUse EXCEPT ![i].use = deed]
  <2>1. Seals!SealsInUse' =
          [id \in Seals!Openings |->
             [opening |-> Seals!Deed(ledger'[id].core), use |-> Seals!UseOf(id)']]
    BY <1>9 DEF Seals!SealsInUse
  <2>2. \A id \in Seals!Openings : ledger'[id] = ledger[id]
    BY <1>6 DEF Seals!Openings
  <2>3. \A id \in Seals!Openings \ {i} : Seals!SealsInUse'[id] = Seals!SealsInUse[id]
    BY <1>10, <2>1, <2>2 DEF Seals!SealsInUse
  <2>4. Seals!SealsInUse'[i] = [opening |-> opening, use |-> deed]
    BY <1>3, <1>9, <1>10, <2>1, <2>2
  <2>5. [Seals!SealsInUse[i] EXCEPT !.use = deed] = [opening |-> opening, use |-> deed]
    BY <1>12
  <2> DEFINE after == [id \in Seals!Openings |->
                         IF id = i THEN [opening |-> opening, use |-> deed]
                         ELSE Seals!SealsInUse[id]]
  <2>6. Seals!SealsInUse' = after
    BY <1>9, <2>1, <2>3, <2>4
  <2>7. [Seals!SealsInUse EXCEPT ![i].use = deed] = after
    BY <1>9, <1>12, <2>5 DEF Seals!SealsInUse
  <2> QED
    BY <2>6, <2>7
<1>14. tip' = tip /\ Seals!SealMandates' = Seals!SealMandates
  BY DEF SealCommits, Seals!SealMandates
<1>15. Seals!Seals!Use(i, deed)
  BY <1>7, <1>8, <1>12, <1>13, <1>14 DEF Seals!Seals!Use
<1> QED
  BY <1>7, <1>9, <1>12, <1>15 DEF Seals!Seals!Next

\* Every step of a seal profile is a step of single-use seals.
LEMMA SealsGoOn ==
  ASSUME IsSeal, SealInv, SealStep
  PROVE  Seals!Seals!Next
<1>1. UNCHANGED ledger => Seals!SealsInUse' = Seals!SealsInUse
  BY DEF Seals!SealsInUse, Seals!Openings, Seals!UseOf
<1>2. CASE SealTick
  BY <1>1, <1>2 DEF SealTick, Seals!Seals!Next, Seals!Seals!Pass, Seals!SealMandates
<1>3. CASE SealSign
  <2>1. PICK s \in SealWallets[profile] : s = <<s[1], s[2]>> /\ signed' = signed \cup {s}
    BY <1>3 DEF SealSign
  <2>2. s[1] \in Keys /\ Seals!Deed(s[2]) \in Seals!SealDeeds
    BY <2>1, SealConstants DEF IsSeal, Seals!SealDeeds
  <2>3. Seals!SealMandates' = Seals!SealMandates \cup {<<s[1], Seals!Deed(s[2])>>}
    BY <2>1 DEF Seals!SealMandates
  <2>4. Seals!Seals!Agree
    BY <1>1, <1>3, <2>2, <2>3 DEF SealSign, Seals!Seals!Agree
  <2> QED
    BY <2>4 DEF Seals!Seals!Next
<1>4. CASE \E core, spent, cell, receipt :
             /\ SealCommits(core, spent, cell, receipt)
             /\ SealOpens(core, spent, cell)
                  \/ \E i : SealCloses(i, core, spent, cell, receipt)
  BY <1>4, OpeningIsOpen, ClosingIsUse
<1> QED
  BY <1>2, <1>3, <1>4 DEF SealStep

\* single_use_closure and single_use_finalization of the lifecycle types: a seal
\* of any of the four profiles is opened and used by all its parties, inside the
\* window they signed, and used once, whatever else they sign and in whatever
\* order it arrives.
THEOREM SingleUse == Spec => ImplementsSeals
<1>1. Init => (IsSeal => Seals!Seals!Init)
  BY SealsBegin
<1>2. (IsSeal => SealInv) /\ [Next]_vars
        => (IsSeal => [Seals!Seals!Next]_Seals!Seals!vars)
  <2> SUFFICES ASSUME SealInv, IsSeal, [Next]_vars
               PROVE  [Seals!Seals!Next]_Seals!Seals!vars
    OBVIOUS
  <2>1. CASE Seals!Next
    BY <2>1, SealNextSteps, SealsGoOn
  <2>2. CASE UNCHANGED <<tip, signed, ledger>>
    BY <2>2 DEF Seals!Seals!vars, Seals!SealMandates, Seals!SealsInUse, Seals!Openings, Seals!UseOf
  <2> QED
    BY <2>1, <2>2, SealSteps
<1> QED
  BY <1>1, <1>2, SealSpecInv, PTL DEF Spec, ImplementsSeals
==============================================================================
