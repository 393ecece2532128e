--------------------------- MODULE NovaStateProofs ----------------------------
(***************************************************************************)
(* Theorems about NovaState, for every set of keys, states, policies and   *)
(* expiries, every width of the arithmetic, every header lag, every        *)
(* sequence of founding cells and every number of transitions.             *)
(*                                                                         *)
(* The safety invariants speak of a cell, its parent and the founding cell *)
(* of its line, so none of them is inductive.  The inductive invariant     *)
(* says of every cell either that it is a founding one or that a signed    *)
(* intent made it from an earlier one; what holds along whole lines then   *)
(* follows by induction along the line.                                    *)
(***************************************************************************)
EXTENDS NovaStateRegister, NovaStateFixtures, NovaLineLemmas

CellFields ==
  {"btc_authority_hash", "state_hash", "policy_hash", "latest_receipt_hash",
   "nonce", "expiry", "lock_args"}

IsCell(cell) ==
  /\ DOMAIN cell = CellFields
  /\ cell.btc_authority_hash \in Keys
  /\ cell.state_hash \in States
  /\ cell.policy_hash \in Policies
  /\ cell.nonce \in U64

\* s is an intent that its key signed for out point i, taking cell k for the one
\* there.
IsSigned(s, i, k) ==
  \E key \in Keys, x \in States, e \in Expiries :
    s = <<key, SignedIntent(i, seals[k].cell, x, e)>>

\* The signature s moved cell i, and cell j is what came of it.
Moved(i, s, j) ==
  /\ seals[j].spent = {i}
  /\ seals[j].cell = Successor(seals[i].cell, s[2], seals[j].cell.lock_args)
  /\ seals[j].receipt = Receipt(seals[i].cell, s[2])
  /\ s[1] = seals[i].cell.btc_authority_hash
  /\ BindsOldCell(i, seals[i].cell, s[2].core)
  /\ AdvancesNonce(seals[i].cell, s[2].core)
  /\ s[2].expected_receipt_hash = MaterializedReceiptHash(seals[i].cell, s[2].core)
  /\ seals[j].epoch <= s[2].core.expiry + HeaderLag

TypeInv ==
  /\ tip \in 0..MaxEpoch
  /\ IsSequence(seals)
  /\ Len(Foundings) <= Len(seals)
  /\ \A j \in DOMAIN seals : IsCell(seals[j].cell)

SignedInv ==
  \A s \in signed : \E i, k \in DOMAIN seals : IsSigned(s, i, k)

HistoryInv ==
  \A j \in DOMAIN seals :
    IF j \in DOMAIN Foundings
      THEN seals[j] = Founded(Foundings[j])
      ELSE \E i \in 1..(j - 1), s \in signed : Moved(i, s, j)

SpentOnce ==
  \A j, k \in DOMAIN seals : seals[j].spent \cap seals[k].spent # {} => j = k

IInv == TypeInv /\ SignedInv /\ HistoryInv /\ SpentOnce
-----------------------------------------------------------------------------
(***************************************************************************)
(* The inductive invariant.                                                *)
(***************************************************************************)

\* The cell a transition creates.
LEMMA SuccessorFields ==
  ASSUME NEW cell, DOMAIN cell = CellFields, NEW intent, NEW lock_args
  PROVE  LET next == Successor(cell, intent, lock_args) IN
         /\ DOMAIN next = CellFields
         /\ next.btc_authority_hash = cell.btc_authority_hash
         /\ next.state_hash = intent.core.new_state_hash
         /\ next.policy_hash = cell.policy_hash
         /\ next.latest_receipt_hash = MaterializedReceiptHash(cell, intent.core)
         /\ next.nonce = intent.core.new_nonce
         /\ next.expiry = intent.core.expiry
         /\ next.lock_args = lock_args
  BY DEF Successor, CellFields

\* What a signature in circulation says.
LEMMA SignedFields ==
  ASSUME SignedInv, NEW s \in signed
  PROVE  /\ s = <<s[1], s[2]>>
         /\ s[1] \in Keys
         /\ s[2].core.old_cell \in DOMAIN seals
         /\ s[2].core.new_state_hash \in States
         /\ s[2].core.expiry \in Expiries
         /\ s[2].core = [policy_hash |-> s[2].core.policy_hash,
                         old_cell |-> s[2].core.old_cell,
                         old_state_hash |-> s[2].core.old_state_hash,
                         new_state_hash |-> s[2].core.new_state_hash,
                         old_nonce |-> s[2].core.old_nonce,
                         new_nonce |-> s[2].core.new_nonce,
                         expiry |-> s[2].core.expiry]
         /\ s[2] = [core |-> s[2].core,
                    expected_receipt_hash |-> s[2].expected_receipt_hash]
<1>1. PICK i \in DOMAIN seals, k \in DOMAIN seals, key \in Keys,
           x \in States, e \in Expiries :
        s = <<key, SignedIntent(i, seals[k].cell, x, e)>>
  BY DEF SignedInv, IsSigned
<1> QED
  BY <1>1 DEF SignedIntent, IntentCore

\* The founding cells satisfy the invariant.
LEMMA InitInv ==
  ASSUME StateAssumption, Init
  PROVE  IInv
<1>1. /\ Len(Foundings) \in Nat
      /\ DOMAIN Foundings = 1..Len(Foundings)
      /\ \A j \in DOMAIN Foundings : Foundings[j] \in FoundingCell
  BY DEF StateAssumption
<1> DEFINE S == {Founded(Foundings[j]) : j \in 1..Len(Foundings)}
<1>2. seals \in Seq(S) /\ Len(seals) = Len(Foundings)
  <2>1. seals = [j \in 1..Len(Foundings) |-> Founded(Foundings[j])]
    BY <1>1 DEF Init
  <2>2. seals \in [1..Len(Foundings) -> S]
    BY <2>1
  <2> HIDE DEF S
  <2> QED
    BY <1>1, <2>2
<1>3. IsSequence(seals) /\ DOMAIN seals = DOMAIN Foundings
  BY <1>1, <1>2, SequenceOverSet
<1>4. \A j \in DOMAIN seals : seals[j] = Founded(Foundings[j])
  BY <1>3 DEF Init
<1>5. TypeInv
  <2>1. ASSUME NEW j \in DOMAIN seals
        PROVE  IsCell(seals[j].cell)
    BY <1>1, <1>3, <1>4 DEF Founded, FoundingCell, IsCell, CellFields
  <2>2. tip \in 0..MaxEpoch
    BY DEF Init, StateAssumption
  <2> QED
    BY <1>1, <1>2, <1>3, <2>1, <2>2 DEF TypeInv
<1>6. SignedInv
  BY DEF Init, SignedInv
<1>7. HistoryInv
  BY <1>3, <1>4 DEF HistoryInv
<1>8. SpentOnce
  BY <1>4 DEF SpentOnce, Founded
<1> QED
  BY <1>5, <1>6, <1>7, <1>8 DEF IInv

\* The chain moves to its next epoch.
LEMMA TickInv ==
  ASSUME StateAssumption, IInv, Tick
  PROVE  IInv'
<1>1. tip' \in 0..MaxEpoch
  BY DEF Tick, IInv, TypeInv, StateAssumption
<1>2. signed' = signed /\ seals' = seals
  BY DEF Tick
<1> QED
  BY <1>1, <1>2 DEF IInv, TypeInv, SignedInv, IsSigned, HistoryInv, Moved, SpentOnce

\* A wallet signs an intent for one cell, from the view it has of another.
LEMMA SignInv ==
  ASSUME IInv, NEW key \in Keys, NEW i \in DOMAIN seals, NEW k \in DOMAIN seals,
         NEW x \in States, NEW e \in Expiries, Sign(key, i, k, x, e)
  PROVE  IInv'
<1> DEFINE s == <<key, SignedIntent(i, seals[k].cell, x, e)>>
<1>1. signed' = signed \cup {s} /\ tip' = tip /\ seals' = seals
  BY DEF Sign
<1>2. IsSigned(s, i, k)
  BY DEF IsSigned
<1> HIDE DEF s
<1>3. SignedInv'
  BY <1>1, <1>2 DEF IInv, SignedInv, IsSigned
<1>4. HistoryInv'
  BY <1>1 DEF IInv, HistoryInv, Moved
<1> QED
  BY <1>1, <1>3, <1>4 DEF IInv, TypeInv, SpentOnce

\* What a transition leaves behind.
LEMMA TransitionEffect ==
  ASSUME IInv, NEW i \in Live, NEW s \in signed, NEW now \in Presentable(tip),
         NEW a \in LockArgs, Transition(i, s[1], s[2], now, a),
         NEW n, n = Len(seals) + 1
  PROVE  /\ tip' = tip /\ signed' = signed
         /\ Len(seals) \in Nat
         /\ DOMAIN seals = 1..Len(seals)
         /\ i \in DOMAIN seals
         /\ IsSequence(seals')
         /\ Len(seals') = n
         /\ DOMAIN seals' = 1..n
         /\ \A j \in DOMAIN seals : seals'[j] = seals[j]
         /\ Moved(i, s, n)'
         /\ seals'[n].cell = Successor(seals[i].cell, s[2], a)
         /\ seals'[n].epoch = tip
<1> DEFINE e == [spent |-> {i}, cell |-> Successor(seals[i].cell, s[2], a),
                 receipt |-> Receipt(seals[i].cell, s[2]), epoch |-> tip]
<1>1. seals' = Append(seals, e) /\ tip' = tip /\ signed' = signed
  BY DEF Transition
<1>2. IsSequence(seals)
  BY DEF IInv, TypeInv
<1>3. i \in DOMAIN seals
  BY DEF Live
<1>4. /\ e.spent = {i} /\ e.cell = Successor(seals[i].cell, s[2], a)
      /\ e.receipt = Receipt(seals[i].cell, s[2]) /\ e.epoch = tip
  OBVIOUS
<1> HIDE DEF e
<1>5. /\ Len(seals) \in Nat
      /\ DOMAIN seals = 1..Len(seals)
      /\ IsSequence(seals')
      /\ Len(seals') = Len(seals) + 1
      /\ DOMAIN seals' = 1..(Len(seals) + 1)
      /\ \A j \in 1..Len(seals) : seals'[j] = seals[j]
      /\ seals'[Len(seals) + 1] = e
  BY <1>1, <1>2, AppendFacts
<1>6. e.cell = Successor(seals[i].cell, s[2], e.cell.lock_args)
  BY <1>3, <1>4, SuccessorFields DEF IInv, TypeInv, IsCell
<1>7. seals'[i] = seals[i]
  BY <1>3, <1>5
<1>8. /\ s[1] = seals[i].cell.btc_authority_hash
      /\ BindsOldCell(i, seals[i].cell, s[2].core)
      /\ AdvancesNonce(seals[i].cell, s[2].core)
      /\ s[2].expected_receipt_hash
           = MaterializedReceiptHash(seals[i].cell, s[2].core)
  BY DEF Transition, key_auth_transition, Authorised
<1>9. tip <= s[2].core.expiry + HeaderLag
  <2>1. now <= s[2].core.expiry /\ now \in 0..tip /\ tip - now <= HeaderLag
    BY DEF Transition, key_auth_transition, Unexpired, Presentable
  <2>2. s[2].core.expiry \in Nat /\ tip \in Nat /\ HeaderLag \in Nat
    <3>1. s[2].core.expiry \in U64
      BY SignedFields, StateAssumption DEF IInv, StateAssumption
    <3> QED
      BY <3>1, StateAssumption, CkbAssumption DEF IInv, TypeInv, U64, StateAssumption
  <2> QED
    BY <2>1, <2>2
<1>10. Moved(i, s, n)'
  BY <1>1, <1>4, <1>5, <1>6, <1>7, <1>8, <1>9 DEF Moved, BindsOldCell, AdvancesNonce
<1> QED
  BY <1>1, <1>3, <1>4, <1>5, <1>10

\* A transition that both scripts accept keeps the invariant.
LEMMA TransitionInv ==
  ASSUME IInv, NEW i \in Live, NEW s \in signed, NEW now \in Presentable(tip),
         NEW a \in LockArgs, Transition(i, s[1], s[2], now, a),
         NEW n, n = Len(seals) + 1
  PROVE  IInv'
<1>1. /\ tip' = tip /\ signed' = signed
      /\ Len(seals) \in Nat
      /\ DOMAIN seals = 1..Len(seals)
      /\ i \in DOMAIN seals
      /\ IsSequence(seals')
      /\ Len(seals') = n
      /\ DOMAIN seals' = 1..n
      /\ \A j \in DOMAIN seals : seals'[j] = seals[j]
      /\ Moved(i, s, n)'
      /\ seals'[n].cell = Successor(seals[i].cell, s[2], a)
  BY TransitionEffect
<1>2. n \in Nat /\ \A j \in DOMAIN seals' : j = n \/ j \in DOMAIN seals
  BY <1>1
<1>3. TypeInv'
  <2>1. IsCell(seals'[n].cell)
    <3>1. IsCell(seals[i].cell)
      BY <1>1 DEF IInv, TypeInv
    <3>2. s[2].core.new_state_hash \in States
      BY SignedFields DEF IInv
    <3>3. s[2].core.new_nonce \in U64
      BY <3>1, CkbAssumption DEF Transition, key_auth_transition, AdvancesNonce,
         IsCell, U64, CkbAssumption
    <3> QED
      BY <1>1, <3>1, <3>2, <3>3, SuccessorFields DEF IsCell
  <2>2. Len(Foundings) <= Len(seals')
    BY <1>1, StateAssumption DEF IInv, TypeInv, StateAssumption
  <2>3. \A j \in DOMAIN seals' : IsCell(seals'[j].cell)
    BY <1>1, <1>2, <2>1 DEF IInv, TypeInv
  <2> QED
    BY <1>1, <2>2, <2>3 DEF IInv, TypeInv
<1>4. SignedInv'
  <2>1. ASSUME NEW z \in signed
        PROVE  \E h, k \in DOMAIN seals' : IsSigned(z, h, k)'
    <3>1. PICK h \in DOMAIN seals, k \in DOMAIN seals : IsSigned(z, h, k)
      BY DEF IInv, SignedInv
    <3>2. h \in DOMAIN seals' /\ k \in DOMAIN seals' /\ seals'[k] = seals[k]
      BY <1>1
    <3>3. IsSigned(z, h, k)'
      BY <3>1, <3>2 DEF IsSigned
    <3> QED
      BY <3>2, <3>3
  <2> QED
    BY <1>1, <2>1 DEF SignedInv
<1>5. HistoryInv'
  <2>1. ASSUME NEW j \in DOMAIN seals
        PROVE  IF j \in DOMAIN Foundings
                 THEN seals'[j] = Founded(Foundings[j])
                 ELSE \E h \in 1..(j - 1), z \in signed' : Moved(h, z, j)'
    <3>1. CASE j \in DOMAIN Foundings
      BY <1>1, <2>1, <3>1 DEF IInv, HistoryInv
    <3>2. CASE j \notin DOMAIN Foundings
      <4>1. PICK h \in 1..(j - 1), z \in signed : Moved(h, z, j)
        BY <2>1, <3>2 DEF IInv, HistoryInv
      <4>2. seals'[h] = seals[h] /\ seals'[j] = seals[j]
        BY <1>1
      <4>3. Moved(h, z, j)'
        BY <4>1, <4>2 DEF Moved
      <4> QED
        BY <1>1, <3>2, <4>3
    <3> QED
      BY <3>1, <3>2
  <2>2. n \notin DOMAIN Foundings /\ i \in 1..(n - 1)
    BY <1>1, StateAssumption DEF IInv, TypeInv, StateAssumption
  <2> QED
    BY <1>1, <1>2, <2>1, <2>2 DEF HistoryInv
<1>6. SpentOnce'
  <2>1. seals'[n].spent = {i}
    BY <1>1 DEF Moved
  <2>2. \A j \in DOMAIN seals : i \notin seals[j].spent
    BY DEF Live, Spent
  <2> QED
    BY <1>1, <1>2, <2>1, <2>2 DEF IInv, SpentOnce
<1> QED
  BY <1>3, <1>4, <1>5, <1>6 DEF IInv

\* Every step keeps the invariant.
LEMMA NextInv ==
  ASSUME IInv, [Next]_vars
  PROVE  IInv'
<1>1. CASE Tick
  BY <1>1, TickInv, StateAssumption
<1>2. ASSUME NEW key \in Keys, NEW i \in DOMAIN seals, NEW k \in DOMAIN seals,
             NEW x \in States, NEW e \in Expiries, Sign(key, i, k, x, e)
      PROVE  IInv'
  BY <1>2, SignInv
<1>3. ASSUME NEW i \in Live, NEW s \in signed, NEW now \in Presentable(tip),
             NEW a \in LockArgs, Transition(i, s[1], s[2], now, a)
      PROVE  IInv'
  BY <1>3, TransitionInv
<1>4. CASE UNCHANGED vars
  <2>1. tip' = tip /\ signed' = signed /\ seals' = seals
    BY <1>4 DEF vars
  <2>2. TypeInv' /\ SpentOnce'
    BY <2>1 DEF IInv, TypeInv, SpentOnce
  <2>3. SignedInv'
    BY <2>1 DEF IInv, SignedInv, IsSigned
  <2>4. HistoryInv'
    BY <2>1 DEF IInv, HistoryInv, Moved
  <2> QED
    BY <2>2, <2>3, <2>4 DEF IInv
<1> QED
  BY <1>1, <1>2, <1>3, <1>4 DEF Next

\* The invariant holds throughout.
LEMMA SpecInv == Spec => []IInv
<1>1. Init => IInv
  BY InitInv, StateAssumption
<1>2. IInv /\ [Next]_vars => IInv'
  BY NextInv
<1> QED
  BY <1>1, <1>2, PTL DEF Spec
-----------------------------------------------------------------------------
(***************************************************************************)
(* One step of a line.                                                     *)
(***************************************************************************)

\* Positions, and the cells that are no founding cells.
LEMMA Positions ==
  ASSUME IInv
  PROVE  /\ Len(seals) \in Nat
         /\ DOMAIN seals = 1..Len(seals)
         /\ DOMAIN Foundings = 1..Len(Foundings)
         /\ DOMAIN Foundings \subseteq DOMAIN seals
         /\ Moves = DOMAIN seals \ DOMAIN Foundings
         /\ Moves \subseteq Nat
<1>1. Len(seals) \in Nat /\ DOMAIN seals = 1..Len(seals)
  BY SequenceOverSet DEF IInv, TypeInv, IsSequence
<1>2. /\ Len(Foundings) \in Nat /\ DOMAIN Foundings = 1..Len(Foundings)
      /\ Len(Foundings) <= Len(seals)
  BY StateAssumption DEF StateAssumption, IInv, TypeInv
<1>3. ASSUME NEW j \in DOMAIN seals
      PROVE  j \in Moves <=> j \notin DOMAIN Foundings
  <2>1. CASE j \in DOMAIN Foundings
    BY <2>1 DEF IInv, HistoryInv, Founded, Moves
  <2>2. CASE j \notin DOMAIN Foundings
    <3>1. PICK i \in 1..(j - 1), s \in signed : Moved(i, s, j)
      BY <2>2 DEF IInv, HistoryInv
    <3> QED
      BY <2>2, <3>1 DEF Moved, Moves
  <2> QED
    BY <2>1, <2>2
<1> QED
  BY <1>1, <1>2, <1>3 DEF Moves

\* A cell that is no founding cell was made by a signature from its parent.
LEMMA ParentMoved ==
  ASSUME IInv, NEW j \in Moves
  PROVE  /\ j \in DOMAIN seals
         /\ Parent(j) \in 1..(j - 1)
         /\ Parent(j) \in DOMAIN seals
         /\ \E s \in signed : Moved(Parent(j), s, j)
<1>1. j \in DOMAIN seals /\ j \notin DOMAIN Foundings
  BY Positions
<1>2. PICK i \in 1..(j - 1), s \in signed : Moved(i, s, j)
  BY <1>1 DEF IInv, HistoryInv
<1>3. Parent(j) = i
  BY <1>2 DEF Parent, Moved
<1> QED
  BY <1>1, <1>2, <1>3, Positions

\* TypeOK, from the invariant.
LEMMA TypesHold ==
  ASSUME IInv
  PROVE  TypeOK
<1>1. ASSUME NEW j \in DOMAIN seals
      PROVE  /\ IsCell(seals[j].cell)
             /\ j \in Moves => seals[j].cell.expiry \in Expiries
             /\ seals[j].spent \subseteq 1..(j - 1)
  <2>1. IsCell(seals[j].cell)
    BY DEF IInv, TypeInv
  <2>2. CASE j \in Moves
    <3>1. PICK s \in signed : Moved(Parent(j), s, j)
      BY <2>2, ParentMoved
    <3>2. IsCell(seals[Parent(j)].cell)
      BY <2>2, ParentMoved DEF IInv, TypeInv
    <3>3. seals[j].cell.expiry = s[2].core.expiry
      BY <3>1, <3>2, SuccessorFields DEF Moved, IsCell
    <3>4. s[2].core.expiry \in Expiries
      BY SignedFields DEF IInv
    <3> QED
      BY <2>1, <2>2, <3>1, <3>3, <3>4, ParentMoved DEF Moved
  <2>3. CASE j \notin Moves
    BY <2>1, <2>3 DEF Moves
  <2> QED
    BY <2>2, <2>3
<1>2. \A s \in signed : s[1] \in Keys /\ s[2].core.old_cell \in DOMAIN seals
  BY SignedFields DEF IInv
<1>3. tip \in 0..MaxEpoch
  BY DEF IInv, TypeInv
<1> QED
  BY <1>1, <1>2, <1>3 DEF TypeOK, IsCell

\* The receipt of a step carries the intent and the out point it names.
LEMMA ReceiptOfMove ==
  ASSUME NEW i, NEW s, NEW j, Moved(i, s, j)
  PROVE  /\ seals[j].spent = {i}
         /\ seals[j].receipt.commitment = ReceiptCommitment(seals[i].cell, s[2].core)
         /\ seals[j].receipt.commitment.old_cell = i
         /\ seals[j].receipt.commitment.old_nonce = seals[i].cell.nonce
         /\ seals[j].receipt.commitment.new_cell_commitment
              = NewCellCommitment(seals[i].cell, s[2].core)
         /\ seals[j].receipt.signed_intent_hash = Hash(s[2])
         /\ s[2].core.old_cell = i
  BY DEF Moved, Receipt, ReceiptCommitment, BindsOldCell, AdvancesNonce

\* IntentTakesEffectOnce, from the invariant: equal digests mean equal intents,
\* an intent names the cell it moves, and no cell is moved twice.
LEMMA EffectOnce ==
  ASSUME IInv
  PROVE  IntentTakesEffectOnce
<1>1. ASSUME NEW j \in Moves, NEW k \in Moves,
             seals[j].receipt.signed_intent_hash = seals[k].receipt.signed_intent_hash
      PROVE  j = k
  <2>1. PICK s \in signed : Moved(Parent(j), s, j)
    BY ParentMoved
  <2>2. PICK t \in signed : Moved(Parent(k), t, k)
    BY ParentMoved
  <2>3. Hash(s[2]) = Hash(t[2])
    BY <1>1, <2>1, <2>2, ReceiptOfMove
  <2>4. s[2] = t[2]
    BY <2>3 DEF Hash
  <2>5. Parent(j) = Parent(k)
    BY <2>1, <2>2, <2>4, ReceiptOfMove
  <2>6. seals[j].spent \cap seals[k].spent # {}
    BY <2>1, <2>2, <2>5, ReceiptOfMove
  <2> QED
    BY <2>6, ParentMoved DEF IInv, SpentOnce
<1>2. ASSUME NEW j \in Moves
      PROVE  seals[j].spent = {seals[j].receipt.commitment.old_cell}
  BY ParentMoved, ReceiptOfMove
<1> QED
  BY <1>1, <1>2 DEF IntentTakesEffectOnce

\* ReceiptsOpenHistory, from the invariant.
LEMMA HistoryOpens ==
  ASSUME IInv
  PROVE  ReceiptsOpenHistory
<1> SUFFICES ASSUME NEW j \in Moves
             PROVE  LET receipt == seals[j].receipt.commitment
                        cell    == seals[j].cell IN
                    /\ cell.latest_receipt_hash = Hash(receipt)
                    /\ receipt.old_cell \in seals[j].spent
                    /\ receipt.old_nonce = seals[receipt.old_cell].cell.nonce
                    /\ receipt.new_cell_commitment =
                         Hash([btc_authority_hash |-> cell.btc_authority_hash,
                               state_hash |-> cell.state_hash,
                               policy_hash |-> cell.policy_hash,
                               nonce |-> cell.nonce, expiry |-> cell.expiry])
  BY DEF ReceiptsOpenHistory
<1> DEFINE i == Parent(j)
           old == seals[i].cell
           cell == seals[j].cell
<1>1. PICK s \in signed : Moved(i, s, j)
  BY ParentMoved
<1>2. DOMAIN old = CellFields
  BY ParentMoved DEF IInv, TypeInv, IsCell
<1>3. /\ cell.btc_authority_hash = old.btc_authority_hash
      /\ cell.state_hash = s[2].core.new_state_hash
      /\ cell.policy_hash = old.policy_hash
      /\ cell.latest_receipt_hash = MaterializedReceiptHash(old, s[2].core)
      /\ cell.nonce = s[2].core.new_nonce
      /\ cell.expiry = s[2].core.expiry
  BY <1>1, <1>2, SuccessorFields DEF Moved
<1> HIDE DEF i, old, cell
<1>4. NewCellCommitment(old, s[2].core) =
        Hash([btc_authority_hash |-> cell.btc_authority_hash,
              state_hash |-> cell.state_hash, policy_hash |-> cell.policy_hash,
              nonce |-> cell.nonce, expiry |-> cell.expiry])
  BY <1>3 DEF NewCellCommitment
<1>5. cell.latest_receipt_hash = Hash(ReceiptCommitment(old, s[2].core))
  BY <1>3 DEF MaterializedReceiptHash
<1> QED
  BY <1>1, <1>4, <1>5, ReceiptOfMove DEF i, old, cell
-----------------------------------------------------------------------------
(***************************************************************************)
(* Lines.                                                                  *)
(***************************************************************************)

\* Origin and Age are defined along every line.
LEMMA OriginDefined ==
  ASSUME IInv, NEW j \in Nat
  PROVE  /\ Origin[j] = IF j \in Moves THEN Origin[Parent(j)] ELSE j
         /\ Age[j] = IF j \in Moves THEN Age[Parent(j)] + 1 ELSE 0
<1> DEFINE p == [i \in Nat |-> Parent(i)]
           same == [i \in Nat |-> i]
           next == [i \in Nat |-> i + 1]
           zero == [i \in Nat |-> 0]
<1>1. Earlier(Moves, p)
  <2>1. \A i \in Moves \cap Nat : Parent(i) \in 1..(i - 1)
    BY ParentMoved
  <2> QED
    BY <2>1 DEF Earlier
<1>2. same \in [Nat -> Nat] /\ next \in [Nat -> Nat] /\ zero \in [Nat -> Nat]
  OBVIOUS
<1>3. \A i \in Moves \cap Nat : p[i] = Parent(i)
  OBVIOUS
<1> HIDE DEF p, same, next, zero
<1>4. Origin = [i \in Nat |-> IF i \in Moves THEN Origin[Parent(i)] ELSE i]
  <2>1. PICK f : IsRecursion(f, Moves, p, same, same)
    BY <1>1, <1>2, RecursionExists
  <2>2. ASSUME NEW i \in Nat
        PROVE  f[i] = IF i \in Moves THEN f[Parent(i)] ELSE i
    <3>1. i \in Moves => f[p[i]] \in Nat /\ p[i] = Parent(i)
      <4>1. i \in Moves => p[i] \in Nat
        BY <1>1 DEF Earlier
      <4> QED
        BY <1>3, <2>1, <4>1 DEF IsRecursion
    <3> QED
      BY <2>1, <3>1 DEF same, IsRecursion
  <2>3. f = [i \in Nat |-> IF i \in Moves THEN f[Parent(i)] ELSE i]
    BY <2>1, <2>2 DEF IsRecursion
  <2> QED
    BY <2>3 DEF Origin
<1>5. Age = [i \in Nat |-> IF i \in Moves THEN Age[Parent(i)] + 1 ELSE 0]
  <2>1. PICK f : IsRecursion(f, Moves, p, next, zero)
    BY <1>1, <1>2, RecursionExists
  <2>2. ASSUME NEW i \in Nat
        PROVE  f[i] = IF i \in Moves THEN f[Parent(i)] + 1 ELSE 0
    <3>1. i \in Moves => f[p[i]] \in Nat /\ p[i] = Parent(i)
      <4>1. i \in Moves => p[i] \in Nat
        BY <1>1 DEF Earlier
      <4> QED
        BY <1>3, <2>1, <4>1 DEF IsRecursion
    <3> QED
      BY <2>1, <3>1 DEF next, zero, IsRecursion
  <2>3. f = [i \in Nat |-> IF i \in Moves THEN f[Parent(i)] + 1 ELSE 0]
    BY <2>1, <2>2 DEF IsRecursion
  <2> QED
    BY <2>3 DEF Age
<1> QED
  BY <1>4, <1>5

\* What a step of a line keeps, and what it counts.
LEMMA LineStep ==
  ASSUME IInv, NEW j \in Moves
  PROVE  /\ Origin[j] = Origin[Parent(j)]
         /\ Age[j] = Age[Parent(j)] + 1
         /\ seals[j].cell.btc_authority_hash = seals[Parent(j)].cell.btc_authority_hash
         /\ seals[j].cell.policy_hash = seals[Parent(j)].cell.policy_hash
         /\ seals[j].cell.nonce = seals[Parent(j)].cell.nonce + 1
         /\ seals[Parent(j)].cell.nonce < U64_MAX
<1>1. Origin[j] = Origin[Parent(j)] /\ Age[j] = Age[Parent(j)] + 1
  BY OriginDefined, Positions
<1>2. PICK s \in signed : Moved(Parent(j), s, j)
  BY ParentMoved
<1>3. DOMAIN seals[Parent(j)].cell = CellFields
  BY ParentMoved DEF IInv, TypeInv, IsCell
<1> QED
  BY <1>1, <1>2, <1>3, SuccessorFields DEF Moved, AdvancesNonce

\* A line: its cells keep the authority and the policy of the founding cell,
\* and the nonce counts its steps.
InLine(j) ==
  /\ Origin[j] \in DOMAIN Foundings
  /\ Age[j] \in Nat
  /\ seals[j].cell.btc_authority_hash = seals[Origin[j]].cell.btc_authority_hash
  /\ seals[j].cell.policy_hash = seals[Origin[j]].cell.policy_hash
  /\ seals[j].cell.nonce = seals[Origin[j]].cell.nonce + Age[j]

\* Every cell is in its line.
LEMMA LinesHold ==
  ASSUME IInv
  PROVE  \A j \in DOMAIN seals : InLine(j)
<1> DEFINE S == {j \in Nat : j \in DOMAIN seals => InLine(j)}
<1>1. ASSUME NEW j \in Nat, \A k \in 0..(j - 1) : k \in S, j \in DOMAIN seals
      PROVE  InLine(j)
  <2>1. CASE j \in Moves
    <3>1. Parent(j) \in 0..(j - 1) /\ Parent(j) \in DOMAIN seals
      <4>1. Parent(j) \in 1..(j - 1)
        BY <2>1, ParentMoved
      <4> QED
        BY <2>1, <4>1, ParentMoved
    <3>2. InLine(Parent(j))
      BY <1>1, <3>1
    <3>3. seals[Origin[j]].cell.nonce \in Nat
      BY <2>1, <3>2, LineStep, Positions, CkbAssumption
      DEF InLine, IInv, TypeInv, IsCell, U64, CkbAssumption
    <3> QED
      BY <2>1, <3>2, <3>3, LineStep DEF InLine
  <2>2. CASE j \notin Moves
    <3>1. Origin[j] = j /\ Age[j] = 0 /\ j \in DOMAIN Foundings
      BY <1>1, <2>2, OriginDefined, Positions
    <3>2. seals[j].cell.nonce \in Nat
      BY <1>1, CkbAssumption DEF IInv, TypeInv, IsCell, U64, CkbAssumption
    <3> QED
      BY <3>1, <3>2 DEF InLine
  <2> QED
    BY <2>1, <2>2
<1>2. \A j \in Nat : (\A k \in 0..(j - 1) : k \in S) => j \in S
  BY <1>1
<1> HIDE DEF S
<1>3. Nat \subseteq S
  BY <1>2, LineInduction
<1> QED
  BY <1>3, Positions DEF S

\* StepsAreAuthorised, from the invariant and the lines.
LEMMA StepsAuthorised ==
  ASSUME IInv
  PROVE  StepsAreAuthorised
<1> SUFFICES ASSUME NEW j \in Moves
             PROVE  \E s \in signed :
                      /\ s[1] = seals[Origin[j]].cell.btc_authority_hash
                      /\ seals[j].receipt.signed_intent_hash = Hash(s[2])
                      /\ s[2].core.old_state_hash = seals[Parent(j)].cell.state_hash
                      /\ s[2].core.new_state_hash = seals[j].cell.state_hash
                      /\ s[2].core.policy_hash = seals[Origin[j]].cell.policy_hash
                      /\ seals[j].cell.policy_hash = s[2].core.policy_hash
                      /\ seals[j].epoch <= s[2].core.expiry + HeaderLag
  BY DEF StepsAreAuthorised
<1>1. PICK s \in signed : Moved(Parent(j), s, j)
  BY ParentMoved
<1>2. DOMAIN seals[Parent(j)].cell = CellFields
  BY ParentMoved DEF IInv, TypeInv, IsCell
<1>3. InLine(j)
  BY LinesHold, ParentMoved
<1>4. /\ seals[j].cell.btc_authority_hash = seals[Parent(j)].cell.btc_authority_hash
      /\ seals[j].cell.policy_hash = seals[Parent(j)].cell.policy_hash
  BY LineStep
<1>5. seals[j].cell.state_hash = s[2].core.new_state_hash
  BY <1>1, <1>2, SuccessorFields DEF Moved
<1>6. /\ s[1] = seals[Parent(j)].cell.btc_authority_hash
      /\ s[2].core.old_state_hash = seals[Parent(j)].cell.state_hash
      /\ s[2].core.policy_hash = seals[Parent(j)].cell.policy_hash
      /\ seals[j].epoch <= s[2].core.expiry + HeaderLag
  BY <1>1 DEF Moved, BindsOldCell
<1>7. /\ seals[j].cell.btc_authority_hash = seals[Origin[j]].cell.btc_authority_hash
      /\ seals[j].cell.policy_hash = seals[Origin[j]].cell.policy_hash
  BY <1>3 DEF InLine
<1>8. seals[j].receipt.signed_intent_hash = Hash(s[2])
  BY <1>1, ReceiptOfMove
<1> QED
  BY <1>4, <1>5, <1>6, <1>7, <1>8
-----------------------------------------------------------------------------
(***************************************************************************)
(* The last cell of a line.                                                *)
(***************************************************************************)

\* A line has no two cells as far from its founding cell.
LEMMA NoBranches ==
  ASSUME IInv, NEW j \in DOMAIN seals, NEW k \in DOMAIN seals,
         Origin[j] = Origin[k], Age[j] = Age[k]
  PROVE  j = k
<1> DEFINE Alone(i) == \A h \in DOMAIN seals :
                         Origin[i] = Origin[h] /\ Age[i] = Age[h] => i = h
           S == {i \in Nat : i \in DOMAIN seals => Alone(i)}
<1>1. ASSUME NEW i \in Nat, \A x \in 0..(i - 1) : x \in S, i \in DOMAIN seals,
             NEW h \in DOMAIN seals, Origin[i] = Origin[h], Age[i] = Age[h]
      PROVE  i = h
  <2>1. Age[i] \in Nat /\ Age[h] \in Nat /\ h \in Nat
    BY <1>1, LinesHold, Positions DEF InLine
  <2>2. CASE i \in Moves /\ h \in Moves
    <3> DEFINE a == Parent(i)
               b == Parent(h)
    <3>1. a \in 1..(i - 1) /\ a \in DOMAIN seals /\ b \in DOMAIN seals
      BY <2>2, ParentMoved
    <3>2. /\ Age[i] = Age[a] + 1 /\ Age[h] = Age[b] + 1
          /\ Origin[i] = Origin[a] /\ Origin[h] = Origin[b]
      BY <2>2, LineStep
    <3>3. Age[a] \in Nat /\ Age[b] \in Nat
      BY <3>1, LinesHold DEF InLine
    <3>4. Origin[a] = Origin[b] /\ Age[a] = Age[b]
      <4>1. Origin[i] = Origin[h] /\ Age[i] = Age[h]
        BY <1>1
      <4> HIDE DEF a, b
      <4> QED
        BY <3>2, <3>3, <4>1
    <3>5. seals[i].spent = {a} /\ seals[h].spent = {b}
      <4>1. \A m \in Moves : seals[m].spent = {Parent(m)}
        BY ParentMoved DEF Moved
      <4> QED
        BY <2>2, <4>1
    <3> HIDE DEF a, b
    <3>6. Alone(a)
      <4>1. a \in 0..(i - 1)
        BY <3>1
      <4>2. a \in S
        BY <1>1, <4>1
      <4> QED
        BY <3>1, <4>2
    <3>7. a = b
      BY <3>1, <3>4, <3>6
    <3> QED
      BY <1>1, <3>5, <3>7 DEF IInv, SpentOnce
  <2>3. CASE i \in Moves /\ h \notin Moves
    <3>1. Age[h] = 0 /\ Age[i] = Age[Parent(i)] + 1 /\ Age[Parent(i)] \in Nat
      BY <2>1, <2>3, OriginDefined, LineStep, ParentMoved, LinesHold DEF InLine
    <3> QED
      BY <1>1, <3>1
  <2>4. CASE i \notin Moves /\ h \in Moves
    <3>1. Age[i] = 0
      BY <2>4, OriginDefined
    <3>2. Age[h] = Age[Parent(h)] + 1
      BY <2>4, LineStep
    <3>3. Age[Parent(h)] \in Nat
      BY <2>4, ParentMoved, LinesHold DEF InLine
    <3> QED
      <4>1. Age[i] = Age[h]
        BY <1>1
      <4> QED
        BY <3>1, <3>2, <3>3, <4>1
  <2>5. CASE i \notin Moves /\ h \notin Moves
    BY <1>1, <2>1, <2>5, OriginDefined
  <2> QED
    BY <2>2, <2>3, <2>4, <2>5
<1>2. \A i \in Nat : (\A x \in 0..(i - 1) : x \in S) => i \in S
  BY <1>1
<1> HIDE DEF S
<1>3. Nat \subseteq S
  BY <1>2, LineInduction
<1> QED
  BY <1>3, Positions DEF S

\* A cell that another of its line lies beyond is spent.
LEMMA SpentBehind ==
  ASSUME IInv, NEW j \in DOMAIN seals, NEW k \in DOMAIN seals,
         Origin[j] = Origin[k], Age[j] < Age[k]
  PROVE  j \notin Live
<1> DEFINE S == {i \in Nat : i \in DOMAIN seals /\ Origin[j] = Origin[i]
                               /\ Age[j] < Age[i] => j \notin Live}
<1>1. ASSUME NEW i \in Nat, \A x \in 0..(i - 1) : x \in S, i \in DOMAIN seals,
             Origin[j] = Origin[i], Age[j] < Age[i]
      PROVE  j \notin Live
  <2>1. Age[j] \in Nat /\ Age[i] \in Nat
    BY <1>1, LinesHold DEF InLine
  <2>2. i \in Moves
    BY <1>1, <2>1, OriginDefined
  <2> DEFINE p == Parent(i)
  <2>3. /\ p \in 1..(i - 1) /\ p \in DOMAIN seals
        /\ Origin[i] = Origin[p] /\ Age[i] = Age[p] + 1
        /\ seals[i].spent = {p}
    BY <2>2, ParentMoved, LineStep, ReceiptOfMove
  <2> HIDE DEF p
  <2>4. Age[p] \in Nat
    BY <2>3, LinesHold DEF InLine
  <2>5. CASE Age[j] = Age[p]
    <3>1. j = p
      BY <1>1, <2>3, <2>5, NoBranches
    <3> QED
      BY <1>1, <2>3, <3>1 DEF Live, Spent
  <2>6. CASE Age[j] # Age[p]
    <3>1. Age[j] < Age[p]
      BY <1>1, <2>1, <2>3, <2>4, <2>6
    <3>2. p \in 0..(i - 1)
      BY <2>3
    <3>3. p \in S
      BY <1>1, <3>2
    <3> QED
      BY <1>1, <2>3, <3>1, <3>3
  <2> QED
    BY <2>5, <2>6
<1>2. \A i \in Nat : (\A x \in 0..(i - 1) : x \in S) => i \in S
  BY <1>1
<1> HIDE DEF S
<1>3. Nat \subseteq S
  BY <1>2, LineInduction
<1>4. k \in S
  BY <1>3, Positions
<1> QED
  BY <1>4 DEF S

\* Every line has one live cell, and that is its last.
LEMMA LastIsLive ==
  ASSUME IInv, NEW r \in Lines
  PROVE  /\ LastOf(r) \in Live
         /\ Origin[LastOf(r)] = r
         /\ \A i \in Live : Origin[i] = r => i = LastOf(r)
<1> DEFINE IsLast(j) == /\ Origin[j] = r
                        /\ \A k \in DOMAIN seals : Origin[k] = r => Age[k] <= Age[j]
<1>1. ASSUME NEW i \in Live, Origin[i] = r
      PROVE  i \in DOMAIN seals /\ IsLast(i)
  <2>1. i \in DOMAIN seals
    BY DEF Live
  <2>2. ASSUME NEW k \in DOMAIN seals, Origin[k] = r
        PROVE  Age[k] <= Age[i]
    <3>1. ~ Age[i] < Age[k]
      BY <1>1, <2>1, <2>2, SpentBehind
    <3> QED
      BY <2>1, <3>1, LinesHold DEF InLine
  <2> QED
    BY <1>1, <2>1, <2>2
<1>2. ASSUME NEW i \in DOMAIN seals, NEW j \in DOMAIN seals, IsLast(i), IsLast(j)
      PROVE  i = j
  <2>1. Age[i] = Age[j]
    <3>1. Age[i] <= Age[j] /\ Age[j] <= Age[i]
      BY <1>2
    <3> QED
      BY <3>1, LinesHold DEF InLine
  <2> QED
    BY <1>2, <2>1, NoBranches
<1>3. \E i \in Live : Origin[i] = r
  <2> DEFINE T == {x \in Nat : \E j \in DOMAIN seals : Origin[j] = r /\ x = Len(seals) - j}
  <2>1. r \in DOMAIN seals /\ r \notin Moves /\ r \in Nat
    BY Positions DEF Lines
  <2>2. Origin[r] = r
    BY <2>1, OriginDefined
  <2>3. Len(seals) - r \in T
    BY <2>1, <2>2, Positions
  <2>4. PICK x \in T : \A y \in T : x <= y
    <3>1. T \subseteq Nat /\ T # {}
      BY <2>3
    <3> HIDE DEF T
    <3> QED
      BY <3>1, LeastNat
  <2>5. PICK j \in DOMAIN seals : Origin[j] = r /\ x = Len(seals) - j
    BY <2>4
  <2>6. ASSUME NEW k \in DOMAIN seals, Origin[k] = r
        PROVE  k <= j
    <3>1. Len(seals) - k \in T
      BY <2>6, Positions
    <3>2. x <= Len(seals) - k
      BY <2>4, <3>1
    <3> QED
      BY <2>5, <3>2, Positions
  <2>7. ASSUME NEW k \in DOMAIN seals, j \in seals[k].spent
        PROVE  FALSE
    <3>1. k \in Moves
      BY <2>7 DEF Moves
    <3>2. Parent(k) = j
      BY <2>7, <3>1, ParentMoved, ReceiptOfMove
    <3>3. Origin[k] = r /\ j \in 1..(k - 1)
      BY <2>5, <3>1, <3>2, LineStep, ParentMoved
    <3> QED
      BY <2>6, <3>3, Positions
  <2>8. j \in Live
    BY <2>7 DEF Live, Spent
  <2> QED
    BY <2>5, <2>8
<1>4. PICK i \in Live : Origin[i] = r
  BY <1>3
<1>5. i \in DOMAIN seals /\ IsLast(i) /\ LastOf(r) = CHOOSE j \in DOMAIN seals : IsLast(j)
  BY <1>1, <1>4 DEF LastOf
<1> HIDE DEF IsLast
<1>6. LastOf(r) = i
  BY <1>2, <1>5
<1> QED
  BY <1>1, <1>2, <1>4, <1>5, <1>6
-----------------------------------------------------------------------------
(***************************************************************************)
(* Every line is a register.                                               *)
(***************************************************************************)

LineFacts ==
  /\ \A j \in Nat :
       Origin[j] = IF j \in Moves THEN Origin[Parent(j)] ELSE j
  /\ \A r \in Lines :
       /\ LastOf(r) \in Live
       /\ Origin[LastOf(r)] = r
       /\ \A i \in Live : Origin[i] = r => i = LastOf(r)

\* What is known of the lines, in one formula.
LEMMA LineFactsHold == IInv => LineFacts
  BY OriginDefined, LastIsLive DEF LineFacts

\* The same after a step.
LEMMA LineFactsAfter ==
  ASSUME IInv'
  PROVE  LineFacts'
  BY LineFactsHold, PTL

KeepsCells == \A j \in DOMAIN seals : j \in DOMAIN seals' /\ seals'[j] = seals[j]

\* A step that keeps the cells keeps their lines.
LEMMA OriginKept ==
  ASSUME IInv, IInv', KeepsCells
  PROVE  \A j \in DOMAIN seals : Origin'[j] = Origin[j]
<1> DEFINE S == {j \in Nat : j \in DOMAIN seals => Origin'[j] = Origin[j]}
<1>1. ASSUME NEW j \in Nat, \A k \in 0..(j - 1) : k \in S, j \in DOMAIN seals
      PROVE  Origin'[j] = Origin[j]
  <2>1. j \in Moves' <=> j \in Moves
    BY <1>1 DEF KeepsCells, Moves
  <2>2. Origin'[j] = IF j \in Moves' THEN Origin'[Parent(j)'] ELSE j
    BY LineFactsAfter DEF LineFacts
  <2>3. Origin[j] = IF j \in Moves THEN Origin[Parent(j)] ELSE j
    BY OriginDefined
  <2>4. CASE j \in Moves
    <3>1. Parent(j)' = Parent(j)
      BY <1>1 DEF KeepsCells, Parent
    <3>2. Parent(j) \in 0..(j - 1) /\ Parent(j) \in DOMAIN seals
      <4>1. Parent(j) \in 1..(j - 1) /\ Parent(j) \in DOMAIN seals
        BY <2>4, ParentMoved
      <4> QED
        BY <4>1
    <3>3. Origin'[Parent(j)] = Origin[Parent(j)]
      BY <1>1, <3>2
    <3> QED
      BY <2>1, <2>2, <2>3, <2>4, <3>1, <3>3
  <2> QED
    BY <2>1, <2>2, <2>3, <2>4
<1>2. \A j \in Nat : (\A k \in 0..(j - 1) : k \in S) => j \in S
  BY <1>1
<1> HIDE DEF S
<1>3. Nat \subseteq S
  BY <1>2, LineInduction
<1> QED
  BY <1>3, Positions DEF S

\* A line whose last cell stays unspent keeps its last cell.
LEMMA LastKept ==
  ASSUME IInv, IInv', KeepsCells, NEW r \in Lines, LastOf(r) \in Live'
  PROVE  LastOf(r)' = LastOf(r)
<1>1. LastOf(r) \in DOMAIN seals /\ Origin[LastOf(r)] = r
  BY LastIsLive DEF Live
<1>2. Origin'[LastOf(r)] = r
  BY <1>1, OriginKept
<1>3. \A i \in Live' : Origin'[i] = r => i = LastOf(r)'
  BY LineFactsAfter DEF LineFacts, Lines
<1> QED
  BY <1>2, <1>3

\* A step that keeps the cells keeps what a signature grants.
LEMMA GrantKept ==
  ASSUME IInv, IInv', KeepsCells, NEW s \in signed
  PROVE  (IsGrant(s)' <=> IsGrant(s)) /\ GrantOf(s)' = GrantOf(s)
<1>1. s[2].core.old_cell \in DOMAIN seals
  BY SignedFields DEF IInv
<1>2. seals'[s[2].core.old_cell] = seals[s[2].core.old_cell]
  BY <1>1 DEF KeepsCells
<1>3. Origin'[s[2].core.old_cell] = Origin[s[2].core.old_cell]
  BY <1>1, OriginKept
<1> QED
  BY <1>2, <1>3 DEF IsGrant, GrantOf

\* The initial cells are the initial registers.
LEMMA RegisterInit ==
  ASSUME Init
  PROVE  Register!Init
<1>1. IInv
  BY InitInv, StateAssumption
<1>2. ASSUME NEW r \in Lines
      PROVE  LastOf(r) = r /\ seals[r].cell = Foundings[r]
  <2>1. r \in Nat /\ r \notin Moves /\ r \in DOMAIN seals
    BY <1>1, Positions DEF Lines
  <2>2. Origin[r] = r
    BY <1>1, <2>1, OriginDefined
  <2>3. \A j \in DOMAIN seals : seals[j].spent = {}
    BY DEF Init, Founded
  <2>4. r \in Live
    BY <2>1, <2>3 DEF Live, Spent
  <2>5. seals[r].cell = Foundings[r]
    BY DEF Init, Founded, Lines
  <2> QED
    BY <1>1, <2>2, <2>4, <2>5, LastIsLive
<1>3. LineValue = [r \in Lines |-> LineFirst[r].value]
  BY <1>2 DEF LineValue, LineFirst
<1>4. LineVersion = [r \in Lines |-> LineFirst[r].version]
  BY <1>2 DEF LineVersion, LineFirst
<1>5. LineGrants = {} /\ tip = 0
  BY DEF Init, LineGrants
<1> QED
  BY <1>3, <1>4, <1>5 DEF Register!Init

\* Time passing leaves the registers alone, whatever else stays.
LEMMA RegistersKept ==
  ASSUME IInv, IInv', seals' = seals
  PROVE  LineValue' = LineValue /\ LineVersion' = LineVersion
<1>1. KeepsCells
  BY DEF KeepsCells
<1>2. ASSUME NEW r \in Lines
      PROVE  LastOf(r)' = LastOf(r)
  <2>1. LastOf(r) \in Live'
    BY LastIsLive DEF Live, Spent
  <2> QED
    BY <1>1, <2>1, LastKept
<1> QED
  BY <1>2 DEF LineValue, LineVersion, Lines

\* The chain moves to its next epoch, and so do the registers.
LEMMA TickAdvances ==
  ASSUME IInv, IInv', Tick
  PROVE  Register!Advance
<1>1. tip < MaxEpoch /\ tip' = tip + 1 /\ signed' = signed /\ seals' = seals
  BY DEF Tick
<1>2. KeepsCells
  BY <1>1 DEF KeepsCells
<1>3. LineGrants' = LineGrants
  BY <1>1, <1>2, GrantKept DEF LineGrants
<1> QED
  BY <1>1, <1>3, RegistersKept DEF Register!Advance

\* The version of a register is no older than any cell of its line.
LEMMA VersionIsLatest ==
  ASSUME IInv, NEW i \in DOMAIN seals
  PROVE  /\ Origin[i] \in Lines
         /\ seals[i].cell.nonce \in Nat
         /\ LineVersion[Origin[i]] \in Nat
         /\ seals[i].cell.nonce <= LineVersion[Origin[i]]
<1> DEFINE r == Origin[i]
           k == LastOf(r)
<1>1. r \in Lines
  BY LinesHold DEF InLine, Lines
<1>2. k \in Live /\ k \in DOMAIN seals /\ Origin[k] = r
  BY <1>1, LastIsLive DEF Live
<1>3. seals[r].cell.nonce \in Nat /\ seals[i].cell.nonce \in Nat
  BY <1>1, Positions, CkbAssumption DEF Lines, IInv, TypeInv, IsCell, U64, CkbAssumption
<1>4. LineVersion[r] = seals[k].cell.nonce
  BY <1>1 DEF LineVersion
<1> HIDE DEF k
<1>5. ~ Age[k] < Age[i]
  BY <1>2, SpentBehind
<1>6. /\ Age[i] \in Nat /\ Age[k] \in Nat
      /\ seals[i].cell.nonce = seals[r].cell.nonce + Age[i]
      /\ seals[k].cell.nonce = seals[r].cell.nonce + Age[k]
  BY <1>2, LinesHold DEF InLine
<1> QED
  BY <1>1, <1>3, <1>4, <1>5, <1>6

\* A signature grants a write, or nothing.
LEMMA SignGrants ==
  ASSUME IInv, IInv', NEW key \in Keys, NEW i \in DOMAIN seals,
         NEW k \in DOMAIN seals, NEW x \in States, NEW e \in Expiries,
         Sign(key, i, k, x, e)
  PROVE  [Register!Next]_(Register!register)
<1>0. PICK s : s = <<key, SignedIntent(i, seals[k].cell, x, e)>>
  OBVIOUS
<1>1. signed' = signed \cup {s} /\ tip' = tip /\ seals' = seals
  BY <1>0 DEF Sign
<1>2. KeepsCells
  BY <1>1 DEF KeepsCells
<1>3. LineValue' = LineValue /\ LineVersion' = LineVersion
  BY <1>1, RegistersKept
<1>4. /\ s[2].core.old_cell = i
      /\ s[2].core.new_state_hash = x
      /\ s[2].core.expiry = e
  BY <1>0 DEF SignedIntent, IntentCore
<1>5. s \in signed' /\ signed \subseteq signed'
  BY <1>1
<1>6. (IsGrant(s)' <=> IsGrant(s)) /\ GrantOf(s)' = GrantOf(s)
  <2>1. Origin'[i] = Origin[i]
    BY <1>2, OriginKept
  <2> QED
    BY <1>1, <1>4, <2>1 DEF IsGrant, GrantOf
<1>7. LineGrants' = LineGrants \cup {GrantOf(z) : z \in {t \in {s} : IsGrant(t)}}
  <2>1. \A z \in signed' : (IsGrant(z)' <=> IsGrant(z)) /\ GrantOf(z)' = GrantOf(z)
    BY <1>1, <1>2, <1>6, GrantKept
  <2> QED
    BY <1>1, <2>1 DEF LineGrants
<1>8. CASE IsGrant(s)
  <2> DEFINE r == Origin[i]
             v == s[2].core.old_nonce
  <2>1. v = seals[i].cell.nonce
    BY <1>4, <1>8 DEF IsGrant, SignedIntent, IntentCore
  <2>2. r \in Lines /\ v \in 0..LineVersion[r] /\ v <= LineVersion[r]
    BY <2>1, VersionIsLatest
  <2>3. GrantOf(s) = <<r, v, x, e>>
    BY <1>4 DEF GrantOf
  <2> HIDE DEF r, v
  <2>4. LineGrants' = LineGrants \cup {<<r, v, x, e>>}
    BY <1>7, <1>8, <2>3
  <2>5. Register!Grant(r, v, x, e)
    BY <1>1, <1>3, <2>2, <2>4 DEF Register!Grant
  <2> QED
    BY <2>2, <2>5 DEF Register!Next
<1>9. CASE ~ IsGrant(s)
  <2>1. LineGrants' = LineGrants
    BY <1>7, <1>9
  <2> QED
    BY <1>1, <1>3, <2>1 DEF Register!register
<1> QED
  BY <1>8, <1>9

\* The signature that moves a cell grants the write.
LEMMA MoveIsGranted ==
  ASSUME IInv, NEW s \in signed, NEW i \in DOMAIN seals,
         s[1] = seals[i].cell.btc_authority_hash,
         BindsOldCell(i, seals[i].cell, s[2].core),
         AdvancesNonce(seals[i].cell, s[2].core),
         s[2].expected_receipt_hash = MaterializedReceiptHash(seals[i].cell, s[2].core)
  PROVE  /\ IsGrant(s)
         /\ GrantOf(s) = <<Origin[i], seals[i].cell.nonce,
                           s[2].core.new_state_hash, s[2].core.expiry>>
<1> DEFINE core == s[2].core
           cell == seals[i].cell
<1>1. /\ core = [policy_hash |-> core.policy_hash, old_cell |-> core.old_cell,
                 old_state_hash |-> core.old_state_hash,
                 new_state_hash |-> core.new_state_hash,
                 old_nonce |-> core.old_nonce, new_nonce |-> core.new_nonce,
                 expiry |-> core.expiry]
      /\ s[2] = [core |-> core, expected_receipt_hash |-> s[2].expected_receipt_hash]
  BY SignedFields DEF IInv
<1>2. /\ core.old_cell = i /\ core.old_state_hash = cell.state_hash
      /\ core.policy_hash = cell.policy_hash /\ core.old_nonce = cell.nonce
      /\ cell.nonce < U64_MAX /\ core.new_nonce = cell.nonce + 1
  BY DEF BindsOldCell, AdvancesNonce
<1>3. cell.nonce \in Nat /\ U64_MAX \in Nat
  BY CkbAssumption, VersionIsLatest DEF CkbAssumption
<1>4. core.new_nonce = Add64(cell.nonce, 1)
  <2>1. ~ cell.nonce + 1 > U64_MAX
    BY <1>2, <1>3
  <2> QED
    BY <1>2, <2>1 DEF Add64
<1> HIDE DEF core, cell
<1>5. core = IntentCore(i, cell, core.new_state_hash, core.expiry)
  BY <1>1, <1>2, <1>4 DEF IntentCore
<1>6. s[2] = SignedIntent(i, cell, core.new_state_hash, core.expiry)
  BY <1>1, <1>5 DEF SignedIntent, core, cell
<1> QED
  BY <1>2, <1>6 DEF IsGrant, GrantOf, core, cell

\* A transition writes the register of its line.
LEMMA TransitionWrites ==
  ASSUME IInv, IInv', NEW i \in Live, NEW s \in signed,
         NEW now \in Presentable(tip), NEW a \in LockArgs,
         Transition(i, s[1], s[2], now, a)
  PROVE  Register!Next
<1> DEFINE x == s[2].core.new_state_hash
           d == s[2].core.expiry
<1>0. PICK r : r = Origin[i]
  OBVIOUS
<1>1. PICK n : n = Len(seals) + 1
  OBVIOUS
<1>2. /\ tip' = tip /\ signed' = signed
      /\ Len(seals) \in Nat
      /\ DOMAIN seals = 1..Len(seals)
      /\ i \in DOMAIN seals
      /\ DOMAIN seals' = 1..n
      /\ \A j \in DOMAIN seals : seals'[j] = seals[j]
      /\ Moved(i, s, n)'
      /\ seals'[n].cell = Successor(seals[i].cell, s[2], a)
      /\ seals'[n].epoch = tip
  BY <1>1, TransitionEffect
<1>3. KeepsCells /\ n \in Nat /\ n \in DOMAIN seals' /\ n \notin DOMAIN seals
  BY <1>1, <1>2 DEF KeepsCells
<1>4. /\ seals'[n].spent = {i}
      /\ seals'[i] = seals[i]
      /\ s[1] = seals[i].cell.btc_authority_hash
      /\ BindsOldCell(i, seals[i].cell, s[2].core)
      /\ AdvancesNonce(seals[i].cell, s[2].core)
      /\ s[2].expected_receipt_hash
           = MaterializedReceiptHash(seals[i].cell, s[2].core)
      /\ tip <= d + HeaderLag
  BY <1>2 DEF Moved, BindsOldCell, AdvancesNonce
<1>5. r \in Lines /\ x \in States /\ d \in Expiries
  BY <1>0, <1>2, VersionIsLatest, SignedFields DEF IInv
<1>6. LastOf(r) = i
  BY <1>0, <1>5, LastIsLive
<1>7. LineVersion[r] = seals[i].cell.nonce /\ LineValue[r] = seals[i].cell.state_hash
  BY <1>5, <1>6 DEF LineVersion, LineValue
<1>8. <<r, LineVersion[r], x, d>> \in LineGrants
  <2>1. IsGrant(s) /\ GrantOf(s) = <<r, seals[i].cell.nonce, x, d>>
    BY <1>0, <1>2, <1>4, MoveIsGranted
  <2> QED
    BY <1>7, <2>1 DEF LineGrants
<1>9. Live' = (Live \ {i}) \cup {n}
  <2>2. \A j \in DOMAIN seals : seals[j].spent \subseteq DOMAIN seals
    <3>1. TypeOK
      BY TypesHold
    <3> QED
      BY <1>2, <3>1 DEF TypeOK
  <2>3. Spent' = Spent \cup {i}
    BY <1>1, <1>2, <1>4 DEF Spent
  <2>4. DOMAIN seals' = DOMAIN seals \cup {n}
    BY <1>1, <1>2
  <2>5. n \notin Spent \cup {i}
    BY <1>3, <2>2, <1>2 DEF Spent
  <2> QED
    BY <2>3, <2>4, <2>5 DEF Live
<1>10. Origin'[n] = r
  <2>1. n \in Moves' /\ Parent(n)' = i
    BY <1>3, <1>4 DEF Moves, Parent
  <2>2. Origin'[n] = Origin'[i]
    BY <1>3, <2>1, LineFactsAfter DEF LineFacts
  <2> QED
    BY <1>0, <1>2, <1>3, <2>2, OriginKept
<1>11. LastOf(r)' = n
  BY <1>5, <1>9, <1>10, LineFactsAfter DEF LineFacts, Lines
<1>12. ASSUME NEW q \in Lines, q # r
       PROVE  LastOf(q)' = LastOf(q) /\ LastOf(q) \in DOMAIN seals
  <2>1. LastOf(q) \in Live /\ Origin[LastOf(q)] = q
    BY LastIsLive
  <2>2. LastOf(q) \in Live'
    BY <1>0, <1>9, <1>12, <2>1
  <2> QED
    BY <1>3, <2>1, <2>2, LastKept DEF Live
<1>13. seals'[n].cell.state_hash = x /\ seals'[n].cell.nonce = seals[i].cell.nonce + 1
  <2>1. DOMAIN seals[i].cell = CellFields
    BY <1>2 DEF IInv, TypeInv, IsCell
  <2> QED
    BY <1>2, <1>4, <2>1, SuccessorFields DEF AdvancesNonce
<1> HIDE DEF x, d
<1>14. LineValue' = [LineValue EXCEPT ![r] = x]
  <2>1. LineValue' = [q \in Lines |-> seals'[LastOf(q)'].cell.state_hash]
    BY DEF LineValue, Lines
  <2>2. \A q \in Lines : seals'[LastOf(q)'].cell.state_hash =
          IF q = r THEN x ELSE seals[LastOf(q)].cell.state_hash
    BY <1>2, <1>11, <1>12, <1>13
  <2> QED
    BY <1>5, <2>1, <2>2 DEF LineValue
<1>15. LineVersion' = [LineVersion EXCEPT ![r] = LineVersion[r] + 1]
  <2>1. LineVersion' = [q \in Lines |-> seals'[LastOf(q)'].cell.nonce]
    BY DEF LineVersion, Lines
  <2>2. \A q \in Lines : seals'[LastOf(q)'].cell.nonce =
          IF q = r THEN LineVersion[r] + 1 ELSE seals[LastOf(q)].cell.nonce
    BY <1>2, <1>7, <1>11, <1>12, <1>13
  <2> QED
    BY <1>5, <2>1, <2>2 DEF LineVersion
<1>16. LineGrants' = LineGrants
  <2>1. \A z \in signed : (IsGrant(z)' <=> IsGrant(z)) /\ GrantOf(z)' = GrantOf(z)
    BY <1>3, GrantKept
  <2> QED
    BY <1>2, <2>1 DEF LineGrants
<1>17. LineVersion[r] < U64_MAX /\ tip <= d + HeaderLag
  BY <1>4, <1>7 DEF AdvancesNonce, d
<1>18. Register!Write(r, x, d)
  BY <1>2, <1>8, <1>14, <1>15, <1>16, <1>17 DEF Register!Write, x, d
<1> QED
  BY <1>5, <1>18 DEF Register!Next, x, d

\* Every step of the core is a step of the registers, or none.
LEMMA RegisterNext ==
  ASSUME IInv, IInv', [Next]_vars
  PROVE  [Register!Next]_(Register!register)
<1>1. CASE Tick
  BY <1>1, TickAdvances DEF Register!Next
<1>2. ASSUME NEW key \in Keys, NEW i \in DOMAIN seals, NEW k \in DOMAIN seals,
             NEW x \in States, NEW e \in Expiries, Sign(key, i, k, x, e)
      PROVE  [Register!Next]_(Register!register)
  BY <1>2, SignGrants
<1>3. ASSUME NEW i \in Live, NEW s \in signed, NEW now \in Presentable(tip),
             NEW a \in LockArgs, Transition(i, s[1], s[2], now, a)
      PROVE  Register!Next
  BY <1>3, TransitionWrites
<1>4. CASE UNCHANGED vars
  <2>1. tip' = tip /\ signed' = signed /\ seals' = seals
    BY <1>4 DEF vars
  <2>2. KeepsCells
    BY <2>1 DEF KeepsCells
  <2>3. LineGrants' = LineGrants
    BY <2>1, <2>2, GrantKept DEF LineGrants
  <2> QED
    BY <2>1, <2>3, RegistersKept DEF Register!register
<1> QED
  BY <1>1, <1>2, <1>3, <1>4 DEF Next
-----------------------------------------------------------------------------
(***************************************************************************)
(* The scripts over explicit transactions.                                 *)
(***************************************************************************)

\* tx spends cell i as the chain shows it; the rest is the builder's to choose,
\* but for signatures of the authorities: those are the ones in circulation.
Presented(tx, i) ==
  /\ tx.out_point = i
  /\ tx.cell = CellData(seals[i].cell)
  /\ tx.lock_args = seals[i].cell.lock_args
  /\ tx.sig = [pubkey |-> tx.sig.pubkey, by |-> tx.sig.by,
               over |-> tx.sig.over, intact |-> tx.sig.intact]
  /\ tx.sig.intact \in BOOLEAN
  /\ tx.sig.by \in Keys =>
       \E s \in signed : s[1] = tx.sig.by /\ Hash(s[2]) = tx.sig.over

\* The data of a cell shows the fields that the scripts read.
LEMMA CellDataFields ==
  ASSUME NEW cell
  PROVE  /\ CellData(cell).btc_authority_hash = cell.btc_authority_hash
         /\ CellData(cell).state_hash = cell.state_hash
         /\ CellData(cell).policy_hash = cell.policy_hash
         /\ CellData(cell).nonce = cell.nonce
  BY DEF CellData, encode_struct, Layout

\* The hashes, the receipt and the successor depend on those fields alone.
LEMMA SameFromData ==
  ASSUME NEW cell, NEW intent, NEW lock_args, DOMAIN cell = CellFields
  PROVE  LET data == CellData(cell) IN
         /\ MaterializedReceiptHash(data, intent.core)
              = MaterializedReceiptHash(cell, intent.core)
         /\ ReceiptData(data, intent) = ReceiptData(cell, intent)
         /\ encode_struct("NovaSealCellV0",
              [btc_authority_hash |-> data.btc_authority_hash,
               state_hash |-> intent.core.new_state_hash,
               policy_hash |-> data.policy_hash,
               latest_receipt_hash |-> MaterializedReceiptHash(data, intent.core),
               nonce |-> intent.core.new_nonce,
               expiry |-> intent.core.expiry])
              = CellData(Successor(cell, intent, lock_args))
<1> DEFINE data == CellData(cell)
           next == Successor(cell, intent, lock_args)
           out == [btc_authority_hash |-> data.btc_authority_hash,
                   state_hash |-> intent.core.new_state_hash,
                   policy_hash |-> data.policy_hash,
                   latest_receipt_hash |-> MaterializedReceiptHash(data, intent.core),
                   nonce |-> intent.core.new_nonce,
                   expiry |-> intent.core.expiry]
<1>1. /\ data.btc_authority_hash = cell.btc_authority_hash
      /\ data.policy_hash = cell.policy_hash
  BY CellDataFields
<1> HIDE DEF data
<1>2. NewCellCommitment(data, intent.core) = NewCellCommitment(cell, intent.core)
  BY <1>1 DEF NewCellCommitment
<1>3. ReceiptCommitment(data, intent.core) = ReceiptCommitment(cell, intent.core)
  BY <1>2 DEF ReceiptCommitment
<1>4. MaterializedReceiptHash(data, intent.core)
        = MaterializedReceiptHash(cell, intent.core)
  BY <1>3 DEF MaterializedReceiptHash
<1>5. Receipt(data, intent) = Receipt(cell, intent)
  BY <1>1, <1>3 DEF Receipt
<1>6. ReceiptData(data, intent) = ReceiptData(cell, intent)
  BY <1>5 DEF ReceiptData
<1>7. encode_struct("NovaSealCellV0", out) = CellData(next)
  <2>1. /\ out.btc_authority_hash = next.btc_authority_hash
        /\ out.state_hash = next.state_hash
        /\ out.policy_hash = next.policy_hash
        /\ out.latest_receipt_hash = next.latest_receipt_hash
        /\ out.nonce = next.nonce
        /\ out.expiry = next.expiry
    BY <1>1, <1>4, SuccessorFields
  <2> HIDE DEF out, next
  <2>2. Layout["NovaSealCellV0"] = {"btc_authority_hash", "state_hash",
          "policy_hash", "latest_receipt_hash", "nonce", "expiry"}
    BY DEF Layout
  <2>3. \A f \in Layout["NovaSealCellV0"] : out[f] = next[f]
    BY <2>1, <2>2
  <2> QED
    BY <2>3 DEF encode_struct, CellData
<1> QED
  BY <1>4, <1>6, <1>7 DEF data

\* Lock and type script accept a transaction exactly if it shows a transition
\* that is allowed.
LEMMA ScriptsDecide ==
  ASSUME IInv, NEW i \in DOMAIN seals, NEW tx, Presented(tx, i)
  PROVE  ScriptsAccept(tx) <=> TransitionAllows(tx)
<1> DEFINE cell == seals[i].cell
           core == tx.intent.core
<1>1. IsCell(cell)
  BY DEF IInv, TypeInv
<1>2. /\ tx.cell.btc_authority_hash = cell.btc_authority_hash
      /\ tx.cell.state_hash = cell.state_hash
      /\ tx.cell.policy_hash = cell.policy_hash
      /\ tx.cell.nonce = cell.nonce
      /\ tx.out_point = i
      /\ tx.lock_args = cell.lock_args
  BY CellDataFields DEF Presented
<1>3. /\ MaterializedReceiptHash(tx.cell, core) = MaterializedReceiptHash(cell, core)
      /\ ReceiptData(tx.cell, tx.intent) = ReceiptData(cell, tx.intent)
      /\ OutputsRequired(tx) <=>
           /\ tx.output = CellData(Successor(cell, tx.intent, tx.lock_args))
           /\ tx.receipt = ReceiptData(cell, tx.intent)
  BY <1>1, SameFromData DEF Presented, OutputsRequired, IsCell
<1> HIDE DEF cell
<1>4. ASSUME ScriptsAccept(tx)
      PROVE  TransitionAllows(tx)
  <2>1. /\ LockGuards(tx) /\ WitnessRequired(tx) /\ OutputsRequired(tx)
        /\ tx.sig.by = tx.sig.pubkey /\ tx.sig.over = Hash(tx.intent) /\ tx.sig.intact
    BY <1>4 DEF ScriptsAccept, LockRequires, TypeRequires, TypeGuards, Verifies
  <2>2. tx.sig.pubkey = cell.btc_authority_hash /\ cell.btc_authority_hash \in Keys
    BY <1>1, <1>2, <2>1 DEF LockGuards, IsCell
  <2>3. PICK s \in signed : s[1] = tx.sig.by /\ Hash(s[2]) = tx.sig.over
    BY <2>1, <2>2 DEF Presented
  <2>4. s[2] = tx.intent /\ s[1] = cell.btc_authority_hash
    BY <2>1, <2>2, <2>3 DEF Hash
  <2>5. s = <<s[1], s[2]>>
    BY SignedFields DEF IInv
  <2>6. Authorised(cell, s[1], s[2])
    BY <2>4, <2>5 DEF Authorised
  <2>7. btc_authority(cell, s[1], s[2])
    BY <1>2, <2>1, <2>4, <2>6 DEF btc_authority, LockGuards
  <2>8. key_auth_transition(i, s[1], s[2], tx.now)
    BY <1>2, <1>3, <2>1, <2>4, <2>6 DEF key_auth_transition, WitnessRequired,
       BindsOldCell, AdvancesNonce, Unexpired, cell
  <2>9. tx.sig = Signature(s[1], s[2])
    <3>1. tx.sig.intact = TRUE /\ tx.sig.pubkey = s[1] /\ tx.sig.by = s[1]
            /\ tx.sig.over = Hash(s[2])
      BY <2>1, <2>3 DEF Presented
    <3> QED
      BY <3>1 DEF Presented, Signature
  <2>10. ShowsTransition(tx, s[1], s[2])
    BY <1>2, <1>3, <2>1, <2>4, <2>9 DEF ShowsTransition, WitnessRequired, cell
  <2> QED
    BY <1>2, <2>7, <2>8, <2>10 DEF TransitionAllows, cell
<1>5. ASSUME TransitionAllows(tx)
      PROVE  ScriptsAccept(tx)
  <2>1. PICK s \in signed :
          /\ ShowsTransition(tx, s[1], s[2])
          /\ btc_authority(cell, s[1], s[2])
          /\ key_auth_transition(i, s[1], s[2], tx.now)
    BY <1>2, <1>5 DEF TransitionAllows, cell
  <2>2. /\ tx.intent = s[2]
        /\ tx.sig.pubkey = s[1] /\ tx.sig.by = s[1]
        /\ tx.sig.over = Hash(tx.intent) /\ tx.sig.intact
        /\ tx.state_hash_commitment = Hash(core.new_state_hash)
        /\ s[1] = cell.btc_authority_hash
    BY <2>1 DEF ShowsTransition, Signature, btc_authority, Authorised
  <2>3. OutputsRequired(tx)
    BY <1>2, <1>3, <2>1, <2>2 DEF ShowsTransition, cell
  <2>4. LockGuards(tx)
    BY <1>2, <2>1, <2>2 DEF LockGuards, btc_authority
  <2>5. WitnessRequired(tx)
    BY <1>2, <1>3, <2>1, <2>2 DEF WitnessRequired, key_auth_transition,
       BindsOldCell, AdvancesNonce, Unexpired, cell
  <2> QED
    BY <2>2, <2>3, <2>4, <2>5 DEF ScriptsAccept, LockRequires, TypeRequires,
       TypeGuards, Verifies
<1> QED
  BY <1>4, <1>5

\* What a builder tries around a cell presents that cell.
LEMMA AttemptsPresent ==
  ASSUME IInv, NEW i \in DOMAIN seals, NEW tx \in Attempts(i)
  PROVE  Presented(tx, i)
<1>1. PICK s \in signed, now \in Presentable(tip) :
        LET honest == Built(i, s[2], Signature(s[1], s[2]), now) IN
        tx = honest \/ tx \in Reshown(honest) \/ tx \in Reworded(honest)
  BY DEF Attempts
<1> DEFINE honest == Built(i, s[2], Signature(s[1], s[2]), now)
<1>2. /\ honest.out_point = i
      /\ honest.cell = CellData(seals[i].cell)
      /\ honest.lock_args = seals[i].cell.lock_args
      /\ honest.intent = s[2]
      /\ honest.sig = Signature(s[1], s[2])
      /\ DOMAIN honest = {"out_point", "cell", "lock_args", "intent",
           "state_hash_commitment", "sig", "now", "output", "receipt"}
  BY DEF Built
<1> HIDE DEF honest
<1>3. ASSUME tx.out_point = i, tx.cell = CellData(seals[i].cell),
             tx.lock_args = seals[i].cell.lock_args,
             \/ tx.sig = Signature(s[1], s[2])
             \/ \E intent : tx.sig = Signature(Stranger, intent)
             \/ tx.sig = [Signature(s[1], s[2]) EXCEPT !.by = Stranger]
             \/ tx.sig = [Signature(s[1], s[2]) EXCEPT !.intact = FALSE]
      PROVE  Presented(tx, i)
  <2>1. ASSUME NEW key, NEW by, NEW over, NEW intact \in BOOLEAN,
               tx.sig = [pubkey |-> key, by |-> by, over |-> over, intact |-> intact],
               by = Stranger \/ (by = s[1] /\ over = Hash(s[2]))
        PROVE  Presented(tx, i)
    BY <1>3, <2>1, StrangerAssumption DEF Presented, StrangerAssumption
  <2>2. CASE tx.sig = Signature(s[1], s[2])
    BY <2>1, <2>2 DEF Signature
  <2>3. CASE \E intent : tx.sig = Signature(Stranger, intent)
    BY <2>1, <2>3 DEF Signature
  <2>4. CASE tx.sig = [Signature(s[1], s[2]) EXCEPT !.by = Stranger]
    <3>1. tx.sig = [pubkey |-> s[1], by |-> Stranger, over |-> Hash(s[2]), intact |-> TRUE]
      BY <2>4 DEF Signature
    <3> QED
      BY <2>1, <3>1
  <2>5. CASE tx.sig = [Signature(s[1], s[2]) EXCEPT !.intact = FALSE]
    <3>1. tx.sig = [pubkey |-> s[1], by |-> s[1], over |-> Hash(s[2]), intact |-> FALSE]
      BY <2>5 DEF Signature
    <3> QED
      BY <2>1, <3>1
  <2> QED
    BY <1>3, <2>2, <2>3, <2>4, <2>5
<1>4. CASE tx = honest
  BY <1>2, <1>3, <1>4
<1>5. CASE tx \in Reshown(honest)
  BY <1>2, <1>3, <1>5 DEF Reshown
<1>6. CASE tx \in Reworded(honest)
  BY <1>2, <1>3, <1>6 DEF Reworded
<1> QED
  BY <1>1, <1>4, <1>5, <1>6 DEF honest

\* ScriptIsTheTransition, from the invariant.
LEMMA ScriptsAreExact ==
  ASSUME IInv
  PROVE  ScriptIsTheTransition
  BY AttemptsPresent, ScriptsDecide DEF ScriptIsTheTransition, Live
-----------------------------------------------------------------------------
(***************************************************************************)
(* The fixtures.                                                           *)
(*                                                                         *)
(* What the source model checks of a fixture and what the scripts require  *)
(* of the transaction built of it are the same fourteen conditions,        *)
(* whatever the fixture (CaseDecided); and what the inputs of a fixture    *)
(* leave alone is the baseline's, so that one of the eleven fails no more  *)
(* than one of them (NamedFails).                                          *)
(***************************************************************************)

\* The structs by their fields.
LEMMA CellStruct ==
  ASSUME NEW u
  PROVE  encode_struct("NovaSealCellV0", u) =
           [btc_authority_hash |-> u.btc_authority_hash,
            state_hash |-> u.state_hash, policy_hash |-> u.policy_hash,
            latest_receipt_hash |-> u.latest_receipt_hash,
            nonce |-> u.nonce, expiry |-> u.expiry]
<1>1. Layout["NovaSealCellV0"] =
        {"btc_authority_hash", "state_hash", "policy_hash",
         "latest_receipt_hash", "nonce", "expiry"}
  BY DEF Layout
<1> QED
  BY <1>1 DEF encode_struct

LEMMA CommitmentStruct ==
  ASSUME NEW u
  PROVE  encode_struct("NovaSealCellCommitmentV0", u) =
           [btc_authority_hash |-> u.btc_authority_hash,
            state_hash |-> u.state_hash, policy_hash |-> u.policy_hash,
            nonce |-> u.nonce, expiry |-> u.expiry]
<1>1. Layout["NovaSealCellCommitmentV0"] =
        {"btc_authority_hash", "state_hash", "policy_hash", "nonce",
         "expiry"}
  BY DEF Layout
<1> QED
  BY <1>1 DEF encode_struct

LEMMA CoreStruct ==
  ASSUME NEW u
  PROVE  encode_struct("NovaSealIntentCoreV0", u) =
           [policy_hash |-> u.policy_hash, old_cell |-> u.old_cell,
            old_state_hash |-> u.old_state_hash,
            new_state_hash |-> u.new_state_hash, old_nonce |-> u.old_nonce,
            new_nonce |-> u.new_nonce, expiry |-> u.expiry]
<1>1. Layout["NovaSealIntentCoreV0"] =
        {"policy_hash", "old_cell", "old_state_hash", "new_state_hash",
         "old_nonce", "new_nonce", "expiry"}
  BY DEF Layout, CoreFields
<1> QED
  BY <1>1 DEF encode_struct

LEMMA IntentStruct ==
  ASSUME NEW u
  PROVE  encode_struct("NovaSealSignedIntentV0", u) =
           [core |-> u.core,
            expected_receipt_hash |-> u.expected_receipt_hash]
<1>1. Layout["NovaSealSignedIntentV0"] =
        {"core", "expected_receipt_hash"}
  BY DEF Layout
<1> QED
  BY <1>1 DEF encode_struct

LEMMA ReceiptCommitmentStruct ==
  ASSUME NEW u
  PROVE  encode_struct("ProofReceiptCommitmentV0", u) =
           [policy_hash |-> u.policy_hash, old_cell |-> u.old_cell,
            new_cell_commitment |-> u.new_cell_commitment,
            old_state_hash |-> u.old_state_hash,
            new_state_hash |-> u.new_state_hash, old_nonce |-> u.old_nonce,
            new_nonce |-> u.new_nonce,
            intent_core_hash |-> u.intent_core_hash]
<1>1. Layout["ProofReceiptCommitmentV0"] =
        {"policy_hash", "old_cell", "new_cell_commitment", "old_state_hash",
         "new_state_hash", "old_nonce", "new_nonce", "intent_core_hash"}
  BY DEF Layout, CoreFields
<1> QED
  BY <1>1 DEF encode_struct

\* A vector's commitments to the new cell and to the receipt are the scripts'.
LEMMA CommitmentOf ==
  ASSUME NEW old, {"btc_authority_hash", "policy_hash"} \subseteq DOMAIN old,
         NEW core, NEW new, new = cell_commitment(old, core),
         NEW cell, cell = CellData(old)
  PROVE  Hash(encode_struct("NovaSealCellCommitmentV0", new))
           = NewCellCommitment(cell, core)
<1>1. /\ new.state_hash = core.new_state_hash
      /\ new.nonce = core.new_nonce
      /\ new.expiry = core.expiry
      /\ new.btc_authority_hash = old.btc_authority_hash
      /\ new.policy_hash = old.policy_hash
  BY DEF cell_commitment, Over
<1>2. /\ cell.btc_authority_hash = old.btc_authority_hash
      /\ cell.policy_hash = old.policy_hash
  BY CellStruct DEF CellData
<1> QED
  BY <1>1, <1>2, CommitmentStruct DEF NewCellCommitment

LEMMA ReceiptCommitmentOf ==
  ASSUME NEW cell, NEW core, DOMAIN core = CoreFields, NEW new_cell,
         NEW receipt, receipt = receipt_commitment(core, new_cell, Hash(core)),
         new_cell = NewCellCommitment(cell, core)
  PROVE  encode_struct("ProofReceiptCommitmentV0", receipt)
           = ReceiptCommitment(cell, core)
<1>1. /\ receipt.policy_hash = core.policy_hash
      /\ receipt.old_cell = core.old_cell
      /\ receipt.new_cell_commitment = new_cell
      /\ receipt.old_state_hash = core.old_state_hash
      /\ receipt.new_state_hash = core.new_state_hash
      /\ receipt.old_nonce = core.old_nonce
      /\ receipt.new_nonce = core.new_nonce
      /\ receipt.intent_core_hash = Hash(core)
  BY DEF receipt_commitment, Over, CoreFields
<1> QED
  BY <1>1, ReceiptCommitmentStruct DEF ReceiptCommitment

LEMMA ReceiptOf ==
  ASSUME NEW model, NEW core, DOMAIN core = CoreFields,
         NEW cell, cell.btc_authority_hash = model.old_cell.btc_authority_hash,
         NEW intent, intent.core = core, NEW new_cell,
         new_cell = NewCellCommitment(cell, core), NEW receipt,
         receipt = receipt_values(model, core, new_cell, Hash(core), Hash(intent))
  PROVE  encode_struct("ProofReceiptV0", receipt) = ReceiptData(cell, intent)
<1>1. /\ receipt.policy_hash = core.policy_hash
      /\ receipt.old_cell = core.old_cell
      /\ receipt.new_cell_commitment = new_cell
      /\ receipt.old_state_hash = core.old_state_hash
      /\ receipt.new_state_hash = core.new_state_hash
      /\ receipt.old_nonce = core.old_nonce
      /\ receipt.new_nonce = core.new_nonce
      /\ receipt.expiry = core.expiry
      /\ receipt.intent_core_hash = Hash(core)
      /\ receipt.signed_intent_hash = Hash(intent)
      /\ receipt.signer_authority_hash = cell.btc_authority_hash
  BY DEF receipt_values, receipt_commitment, Over, CoreFields
<1>2. PICK expected : expected = Over(Receipt(cell, intent).commitment, Receipt(cell, intent))
  OBVIOUS
<1>3. /\ expected.policy_hash = core.policy_hash
      /\ expected.old_cell = core.old_cell
      /\ expected.new_cell_commitment = new_cell
      /\ expected.old_state_hash = core.old_state_hash
      /\ expected.new_state_hash = core.new_state_hash
      /\ expected.old_nonce = core.old_nonce
      /\ expected.new_nonce = core.new_nonce
      /\ expected.expiry = core.expiry
      /\ expected.intent_core_hash = Hash(core)
      /\ expected.signed_intent_hash = Hash(intent)
      /\ expected.signer_authority_hash = cell.btc_authority_hash
  BY <1>2 DEF Receipt, ReceiptCommitment, Over
<1>4. ReceiptData(cell, intent) = encode_struct("ProofReceiptV0", expected)
  BY <1>2 DEF ReceiptData
<1>5. \A f \in Layout["ProofReceiptV0"] : receipt[f] = expected[f]
  BY <1>1, <1>3 DEF Layout, CoreFields
<1> QED
  BY <1>4, <1>5 DEF encode_struct

\* The receipt a fixture's transition has is the one the scripts compute.
LEMMA ResolvedParts ==
  ASSUME NEW model,
         {"btc_authority_hash", "policy_hash"} \subseteq DOMAIN model.old_cell,
         NEW core, core = core_values(model),
         NEW cell, cell = CellData(model.old_cell),
         NEW intent, intent = resolved(model).intent
  PROVE  /\ intent.core = core
         /\ resolved(model).receipt_hash = MaterializedReceiptHash(cell, core)
         /\ intent.expected_receipt_hash = MaterializedReceiptHash(cell, core)
         /\ resolved(model).receipt = ReceiptData(cell, intent)
<1>1. DOMAIN core = CoreFields
  BY DEF core_values, encode_struct, Layout
<1>2. PICK new_cell : new_cell = NewCellCommitment(cell, core)
  OBVIOUS
<1>3. Hash(encode_struct("NovaSealCellCommitmentV0", cell_commitment(model.old_cell, core)))
        = new_cell
  BY <1>2, CommitmentOf
<1>4. Hash(encode_struct("ProofReceiptCommitmentV0",
                         receipt_commitment(core, new_cell, Hash(core))))
        = MaterializedReceiptHash(cell, core)
  BY <1>1, <1>2, ReceiptCommitmentOf DEF MaterializedReceiptHash
<1>5. /\ resolved(model).receipt_hash = MaterializedReceiptHash(cell, core)
      /\ intent = SignedValues(core, MaterializedReceiptHash(cell, core))
      /\ resolved(model).receipt = encode_struct("ProofReceiptV0",
           receipt_values(model, core, new_cell, Hash(core), Hash(intent)))
  BY <1>3, <1>4 DEF resolved
<1>6. /\ intent.core = core
      /\ intent.expected_receipt_hash = MaterializedReceiptHash(cell, core)
  BY <1>5, IntentStruct DEF SignedValues
<1>7. cell.btc_authority_hash = model.old_cell.btc_authority_hash
  BY CellStruct DEF CellData
<1> QED
  BY <1>1, <1>2, <1>5, <1>6, <1>7, ReceiptOf

\* What the inputs of fixture name say of the model they are filled in to.
Describes(name, inputs, model) ==
  LET old == model.old_cell
      intent == model.intent
      out_point == Given(inputs, "actual_old_cell", intent.old_cell)
  IN
  /\ old.btc_authority_hash \in Keys
  /\ {"btc_authority_hash", "policy_hash"} \subseteq DOMAIN old
  /\ model.signature_ok <=> name # "wrong_signature_reject"
  /\ model.lock_args_authority_matches
       <=> name # "authority_hash_mapping_mismatch_reject"
  /\ model.btc_authority_pubkey_matches
       <=> name # "wrong_pubkey_valid_signature_reject"
  /\ model.actual_old_cell = out_point
  /\ intent.old_cell = <<intent.old_cell[1], intent.old_cell[2]>>
  /\ out_point = <<out_point[1], out_point[2]>>
  /\ model.state_hash_commitment = Hash(intent.new_state_hash)
  /\ model.current_timepoint = Given(inputs, "current_timepoint", 1)
  /\ model.materialized_receipt_hash = intent.expected_receipt_hash
       <=> name # "receipt_hash_mismatch_reject"
  /\ \E text : intent.expected_receipt_hash = Placeholder(text)
  /\ Given(model.proposed_new_cell, "btc_authority_hash", old.btc_authority_hash)
         = old.btc_authority_hash
       <=> name # "authority_rotation_without_explicit_action_reject"

\* The checks that the model of a fixture fails.
Failing(model) == {k \in 1..14 : ~checks(model)[k][1]}

\* No text is a receipt commitment.
LEMMA PlaceholderDiffers ==
  ASSUME NEW text, NEW cell, NEW core
  PROVE  Placeholder(text) # MaterializedReceiptHash(cell, core)
<1>1. PICK r : r = ReceiptCommitment(cell, core)
  OBVIOUS
<1>2. "placeholder" \notin DOMAIN r
  BY <1>1 DEF ReceiptCommitment
<1>3. PICK p : p = [placeholder |-> text]
  OBVIOUS
<1>4. "placeholder" \in DOMAIN p
  BY <1>3
<1>5. /\ Placeholder(text).hash_of = p
      /\ MaterializedReceiptHash(cell, core).hash_of = r
  BY <1>1, <1>3 DEF Placeholder, Hash, MaterializedReceiptHash
<1>6. p # r
  BY <1>2, <1>4
<1> QED
  BY <1>5, <1>6

\* The fourteen checks of a fixture's model.
LEMMA FailingChecks ==
  ASSUME NEW name, NEW inputs, NEW model, Describes(name, inputs, model),
         NEW old, old = model.old_cell, NEW intent, intent = model.intent
  PROVE  /\ 1 \in Failing(model) <=> name = "wrong_signature_reject"
         /\ 2 \in Failing(model) <=> name = "authority_hash_mapping_mismatch_reject"
         /\ 3 \in Failing(model) <=> name = "wrong_pubkey_valid_signature_reject"
         /\ 4 \in Failing(model) <=> intent.old_cell[1] # model.actual_old_cell[1]
         /\ 5 \in Failing(model) <=> intent.old_cell[2] # model.actual_old_cell[2]
         /\ 6 \in Failing(model) <=> intent.old_state_hash # old.state_hash
         /\ 7 \notin Failing(model)
         /\ 8 \in Failing(model) <=> intent.policy_hash # old.policy_hash
         /\ 9 \in Failing(model) <=> intent.old_nonce # old.nonce
         /\ 10 \in Failing(model) <=> ~(old.nonce < U64_MAX)
         /\ 11 \in Failing(model) <=> intent.new_nonce # old.nonce + 1
         /\ 12 \in Failing(model) <=>
              ~(Given(inputs, "current_timepoint", 1) <= intent.expiry)
         /\ 13 \in Failing(model) <=> name = "receipt_hash_mismatch_reject"
         /\ 14 \in Failing(model) <=>
              name = "authority_rotation_without_explicit_action_reject"
<1>1. /\ checks(model)[1][1] <=> name # "wrong_signature_reject"
      /\ checks(model)[2][1] <=> name # "authority_hash_mapping_mismatch_reject"
      /\ checks(model)[3][1] <=> name # "wrong_pubkey_valid_signature_reject"
      /\ checks(model)[4][1] <=> intent.old_cell[1] = model.actual_old_cell[1]
      /\ checks(model)[5][1] <=> intent.old_cell[2] = model.actual_old_cell[2]
      /\ checks(model)[6][1] <=> intent.old_state_hash = old.state_hash
      /\ checks(model)[7][1]
  BY DEF checks, Describes
<1>2. /\ checks(model)[8][1] <=> intent.policy_hash = old.policy_hash
      /\ checks(model)[9][1] <=> intent.old_nonce = old.nonce
      /\ checks(model)[10][1] <=> old.nonce < U64_MAX
      /\ checks(model)[11][1] <=> intent.new_nonce = old.nonce + 1
      /\ checks(model)[12][1] <=>
           Given(inputs, "current_timepoint", 1) <= intent.expiry
      /\ checks(model)[13][1] <=> name # "receipt_hash_mismatch_reject"
      /\ checks(model)[14][1] <=>
           name # "authority_rotation_without_explicit_action_reject"
  BY DEF checks, Describes
<1> QED
  BY <1>1, <1>2 DEF Failing

\* The transaction that the combined harness builds of a fixture: each group of
\* scripts turns down what fails one of its checks, and nothing else.
LEMMA CaseDecided ==
  ASSUME NEW i, NEW name, NEW inputs,
         NEW model, model = normalize(i, inputs), Describes(name, inputs, model),
         NEW v, v = fixture_vector(i, name, inputs),
         NEW tx, tx = combined_case(v)
  PROVE  /\ LockRequires(tx) <=> Failing(model) \cap {1, 2, 3, 8} = {}
         /\ TypeGuards(tx) <=> Failing(model) \cap 3..14 = {}
         /\ TypeRequires(tx) <=> Failing(model) \cap ({1} \cup 3..14) = {}
<1>1. PICK old, intent : old = model.old_cell /\ intent = model.intent
  OBVIOUS
<1>2. PICK core : core = core_values(model)
  OBVIOUS
<1>3. /\ core.policy_hash = intent.policy_hash
      /\ core.old_cell = intent.old_cell
      /\ core.old_state_hash = intent.old_state_hash
      /\ core.old_nonce = intent.old_nonce
      /\ core.new_nonce = intent.new_nonce
      /\ core.expiry = intent.expiry
  BY <1>1, <1>2, CoreStruct DEF core_values
<1>4. PICK cell : cell = CellData(old)
  OBVIOUS
<1>5. /\ cell.btc_authority_hash = old.btc_authority_hash
      /\ cell.state_hash = old.state_hash
      /\ cell.policy_hash = old.policy_hash
      /\ cell.nonce = old.nonce
  BY <1>4, CellStruct DEF CellData
<1>6. /\ v.fixture = name /\ v.inputs = inputs /\ v.old_cell = cell
      /\ v.resolved = resolved(model)
      /\ v.declared_intent = SignedValues(core, intent.expected_receipt_hash)
  BY <1>1, <1>2, <1>4 DEF fixture_vector, CellData
<1>7. /\ v.resolved.intent.core = core
      /\ v.resolved.receipt_hash = MaterializedReceiptHash(cell, core)
      /\ v.resolved.intent.expected_receipt_hash = MaterializedReceiptHash(cell, core)
      /\ v.resolved.receipt = ReceiptData(cell, v.resolved.intent)
  BY <1>1, <1>2, <1>4, <1>6, ResolvedParts DEF Describes
<1>8. /\ v.declared_intent.core = core
      /\ v.declared_intent.expected_receipt_hash = intent.expected_receipt_hash
  BY <1>6, IntentStruct DEF SignedValues
<1>9. /\ CaseIntent(v).core = core
      /\ CaseIntent(v).expected_receipt_hash = MaterializedReceiptHash(cell, core)
           <=> name # "receipt_hash_mismatch_reject"
      /\ name # "receipt_hash_mismatch_reject" =>
           v.resolved.receipt = ReceiptData(cell, CaseIntent(v))
  <2>1. PICK text : intent.expected_receipt_hash = Placeholder(text)
    BY <1>1 DEF Describes
  <2>2. CASE name = "receipt_hash_mismatch_reject"
    <3>1. CaseIntent(v) = v.declared_intent
      BY <1>6, <2>2 DEF CaseIntent
    <3>2. v.declared_intent.expected_receipt_hash # MaterializedReceiptHash(cell, core)
      BY <1>8, <2>1, PlaceholderDiffers
    <3> QED
      BY <1>8, <2>2, <3>1, <3>2
  <2>3. CASE name # "receipt_hash_mismatch_reject"
    <3>1. CaseIntent(v) = v.resolved.intent
      BY <1>6, <2>3 DEF CaseIntent
    <3> QED
      BY <1>7, <2>3, <3>1
  <2> QED
    BY <2>2, <2>3
<1>10. /\ tx.out_point = model.actual_old_cell
       /\ tx.cell = cell
       /\ tx.intent = CaseIntent(v)
       /\ tx.state_hash_commitment = Hash(core.new_state_hash)
       /\ tx.sig = CaseSignature(v)
       /\ tx.now = Given(inputs, "current_timepoint", 1)
       /\ tx.output = build_output_cell(v)
       /\ tx.receipt = v.resolved.receipt
  BY <1>1, <1>3, <1>6, <1>9 DEF combined_case, Describes, input_out_point_from_fixture
<1>11. tx.lock_args = cell.btc_authority_hash
         <=> name # "authority_hash_mapping_mismatch_reject"
  BY <1>1, <1>5, <1>6, StrangerAssumption DEF combined_case, CaseLockArgs, Describes
<1>12. /\ tx.sig.pubkey = cell.btc_authority_hash
           <=> name # "wrong_pubkey_valid_signature_reject"
       /\ Verifies(tx.sig, Hash(tx.intent)) <=> name # "wrong_signature_reject"
  <2>1. PICK key : key = IF name = "wrong_pubkey_valid_signature_reject"
                         THEN Stranger ELSE cell.btc_authority_hash
    OBVIOUS
  <2>2. /\ tx.sig.pubkey = key /\ tx.sig.by = key /\ tx.sig.over = Hash(tx.intent)
        /\ tx.sig.intact = (name # "wrong_signature_reject")
    BY <1>6, <1>10, <2>1 DEF CaseSignature, Signature
  <2>3. cell.btc_authority_hash # Stranger
    BY <1>1, <1>5, StrangerAssumption DEF Describes
  <2> QED
    <3>1. Verifies(tx.sig, Hash(tx.intent)) <=> name # "wrong_signature_reject"
      BY <2>2, Zenon DEF Verifies
    <3>2. tx.sig.pubkey = cell.btc_authority_hash
            <=> name # "wrong_pubkey_valid_signature_reject"
      BY <2>1, <2>2, <2>3
    <3> QED
      BY <3>1, <3>2, Zenon
<1>13. core.old_cell = tx.out_point <=> Failing(model) \cap {4, 5} = {}
  <2>1. /\ core.old_cell = <<core.old_cell[1], core.old_cell[2]>>
        /\ tx.out_point = <<tx.out_point[1], tx.out_point[2]>>
    BY <1>1, <1>3, <1>10 DEF Describes
  <2>2. core.old_cell = tx.out_point
          <=> core.old_cell[1] = tx.out_point[1] /\ core.old_cell[2] = tx.out_point[2]
    BY <2>1
  <2> QED
    BY <1>1, <1>3, <1>10, <2>2, FailingChecks
<1>14. tx.output = encode_struct("NovaSealCellV0",
         [btc_authority_hash |-> cell.btc_authority_hash,
          state_hash |-> core.new_state_hash,
          policy_hash |-> cell.policy_hash,
          latest_receipt_hash |-> MaterializedReceiptHash(cell, core),
          nonce |-> core.new_nonce,
          expiry |-> core.expiry])
         <=> name # "authority_rotation_without_explicit_action_reject"
  <2>1. tx.output = [btc_authority_hash |->
            IF name = "authority_rotation_without_explicit_action_reject"
            THEN Stranger ELSE cell.btc_authority_hash,
          state_hash |-> core.new_state_hash,
          policy_hash |-> cell.policy_hash,
          latest_receipt_hash |-> MaterializedReceiptHash(cell, core),
          nonce |-> core.new_nonce,
          expiry |-> core.expiry]
    <3>1. DOMAIN cell = Layout["NovaSealCellV0"]
      BY <1>4 DEF CellData, encode_struct
    <3> QED
      BY <3>1, <1>6, <1>7, <1>9, <1>10 DEF build_output_cell, Over, Layout
  <2>2. cell.btc_authority_hash # Stranger
    BY <1>1, <1>5, StrangerAssumption DEF Describes
  <2> QED
    BY <2>1, <2>2, CellStruct
<1>15. LockRequires(tx) <=> Failing(model) \cap {1, 2, 3, 8} = {}
  <2>1. LockRequires(tx) <=>
          /\ name # "authority_hash_mapping_mismatch_reject"
          /\ core.policy_hash = cell.policy_hash
          /\ name # "wrong_pubkey_valid_signature_reject"
          /\ name # "wrong_signature_reject"
    BY <1>9, <1>10, <1>11, <1>12 DEF LockRequires, LockGuards
  <2>2. /\ 1 \in Failing(model) <=> name = "wrong_signature_reject"
        /\ 2 \in Failing(model) <=> name = "authority_hash_mapping_mismatch_reject"
        /\ 3 \in Failing(model) <=> name = "wrong_pubkey_valid_signature_reject"
        /\ 8 \in Failing(model) <=> core.policy_hash # cell.policy_hash
    BY <1>1, <1>3, <1>5, FailingChecks
  <2> QED
    BY <2>1, <2>2
<1>16. TypeGuards(tx) <=>
         /\ core.old_cell = tx.out_point
         /\ core.old_state_hash = cell.state_hash
         /\ core.policy_hash = cell.policy_hash
         /\ core.old_nonce = cell.nonce
         /\ cell.nonce < U64_MAX
         /\ core.new_nonce = cell.nonce + 1
         /\ Given(inputs, "current_timepoint", 1) <= core.expiry
         /\ name # "receipt_hash_mismatch_reject"
         /\ name # "wrong_pubkey_valid_signature_reject"
         /\ name # "authority_rotation_without_explicit_action_reject"
  BY <1>9, <1>10, <1>12, <1>14 DEF TypeGuards, WitnessRequired, OutputsRequired
<1>17. TypeGuards(tx) <=> Failing(model) \cap 3..14 = {}
  <2>1. TypeGuards(tx) <=> \A k \in 3..14 : k \notin Failing(model)
    <3>1. (\A k \in 3..14 : k \notin Failing(model)) <=>
            /\ 3 \notin Failing(model) /\ 4 \notin Failing(model)
            /\ 5 \notin Failing(model) /\ 6 \notin Failing(model)
            /\ 7 \notin Failing(model) /\ 8 \notin Failing(model)
            /\ 9 \notin Failing(model) /\ 10 \notin Failing(model)
            /\ 11 \notin Failing(model) /\ 12 \notin Failing(model)
            /\ 13 \notin Failing(model) /\ 14 \notin Failing(model)
      OBVIOUS
    <3> QED
      BY <3>1, <1>1, <1>3, <1>5, <1>13, <1>16, FailingChecks
  <2> QED
    BY <2>1
<1>18. TypeRequires(tx) <=> Failing(model) \cap ({1} \cup 3..14) = {}
  <2>1. 1 \in Failing(model) <=> name = "wrong_signature_reject"
    BY FailingChecks
  <2> QED
    BY <1>12, <1>17, <2>1 DEF TypeRequires
<1> QED
  BY <1>15, <1>17, <1>18

\* The source model's verdict is the first failure, if there is one.
LEMMA Labels ==
  ASSUME NEW model, NEW k \in 1..14
  PROVE  /\ checks(model)[k][2] # "accepted"
         /\ expected_failure_scope(checks(model)[k][2])
              = IF k \in {1, 2, 3, 8} THEN "lock"
                ELSE IF k \in {6, 7, 9, 10} THEN "unknown" ELSE "type"
BY DEF checks, expected_failure_scope

LEMMA Verdict ==
  ASSUME NEW model
  PROVE  /\ model_result(model) = "accepted" <=> Failing(model) = {}
         /\ \A k \in Failing(model) :
              Failing(model) \subseteq {k} => model_result(model) = checks(model)[k][2]
<1> DEFINE F == {k \in DOMAIN checks(model) : ~checks(model)[k][1]}
<1>1. model_result(model) =
        IF F = {} THEN "accepted"
        ELSE checks(model)[CHOOSE k \in F : \A j \in F : k <= j][2]
  BY Zenon DEF model_result
<1>2. F = Failing(model)
  <2>1. DOMAIN checks(model) = 1..14
    BY DEF checks
  <2> QED
    BY <2>1 DEF Failing
<1>3. F \subseteq 1..14 /\ F \subseteq Nat
  BY <1>2 DEF Failing
<1> HIDE DEF F
<1>4. F # {} => \E k \in F : \A j \in F : k <= j
  BY <1>3, LeastNat, Zenon
<1>5. F # {} => (CHOOSE k \in F : \A j \in F : k <= j) \in F
  BY <1>4, Zenon
<1>6. model_result(model) = "accepted" <=> F = {}
  BY <1>1, <1>3, <1>5, Labels
<1>7. ASSUME NEW k \in F, F \subseteq {k}
      PROVE  model_result(model) = checks(model)[k][2]
  BY <1>1, <1>5, <1>7
<1> QED
  BY <1>2, <1>6, <1>7

\* The scripts and the source model agree on a fixture.
LEMMA OutcomeMatched ==
  ASSUME NEW i, NEW name, NEW inputs,
         NEW model, model = normalize(i, inputs), Describes(name, inputs, model),
         NEW v, v = fixture_vector(i, name, inputs)
  PROVE  outcome_matched(v, combined_case(v))
<1>1. v.source_model_result = model_result(model)
  BY DEF fixture_vector
<1>2. ScriptsAccept(combined_case(v)) <=> Failing(model) = {}
  <2>1. ScriptsAccept(combined_case(v)) <=>
          /\ Failing(model) \cap {1, 2, 3, 8} = {}
          /\ Failing(model) \cap ({1} \cup 3..14) = {}
    BY CaseDecided, Zenon DEF ScriptsAccept
  <2>2. Failing(model) \subseteq 1..14
    BY DEF Failing
  <2>3. 1..14 = {1, 2, 3, 8} \cup ({1} \cup 3..14)
    OBVIOUS
  <2> QED
    BY <2>1, <2>2, <2>3
<1>3. (v.source_model_result = "accepted") <=> ScriptsAccept(combined_case(v))
  BY <1>1, <1>2, Verdict, Zenon
<1> QED
  BY <1>3 DEF outcome_matched, ScriptsAccept, LockRequires, TypeRequires,
             LockGuards, TypeGuards

\* The state type harness puts another signature in, of the key it had.
LEMMA StateTypeDecided ==
  ASSUME NEW v, NEW tx, tx = combined_case(v), NEW st, st = state_type_case(v),
         v.old_cell.btc_authority_hash \in Keys
  PROVE  TypeGuards(st) <=> TypeGuards(tx)
<1>1. /\ st.out_point = tx.out_point /\ st.cell = tx.cell
      /\ st.intent = tx.intent /\ st.now = tx.now
      /\ st.state_hash_commitment = tx.state_hash_commitment
      /\ st.output = tx.output /\ st.receipt = tx.receipt
  BY DEF state_type_case, combined_case
<1>2. tx.cell = v.old_cell
  BY DEF combined_case
<1>3. st.sig.pubkey = v.old_cell.btc_authority_hash
        <=> v.fixture # "wrong_pubkey_valid_signature_reject"
  <2>1. st.sig.pubkey = IF v.fixture = "wrong_pubkey_valid_signature_reject"
                        THEN ZeroHash ELSE v.old_cell.btc_authority_hash
    BY DEF state_type_case, combined_case
  <2> QED
    BY <2>1, ZeroHashAssumption
<1>4. tx.sig.pubkey = v.old_cell.btc_authority_hash
        <=> v.fixture # "wrong_pubkey_valid_signature_reject"
  <2>1. tx.sig.pubkey = IF v.fixture = "wrong_pubkey_valid_signature_reject"
                        THEN Stranger ELSE v.old_cell.btc_authority_hash
    BY DEF combined_case, CaseSignature, Signature
  <2> QED
    BY <2>1, StrangerAssumption
<1>5. WitnessRequired(st) <=> WitnessRequired(tx)
  BY <1>1, <1>2, <1>3, <1>4 DEF WitnessRequired
<1>6. OutputsRequired(st) <=> OutputsRequired(tx)
  BY <1>1 DEF OutputsRequired
<1> QED
  BY <1>5, <1>6, Zenon DEF TypeGuards

\* A fixture that fails no more than one check, none that the harness knows no
\* scope for, is judged by the script group that its failure mode announces, and
\* by the type script alone as the harness expects.
LEMMA SingleFailure ==
  ASSUME NEW i, NEW name, NEW inputs,
         NEW model, model = normalize(i, inputs), Describes(name, inputs, model),
         NEW v, v = fixture_vector(i, name, inputs),
         NEW k \in 1..14 \ {6, 7, 9, 10}, Failing(model) \subseteq {k}
  PROVE  /\ combined_matched(v, combined_case(v))
         /\ state_type_matched(v)
<1>1. PICK tx : tx = combined_case(v)
  OBVIOUS
<1>2. PICK st : st = state_type_case(v)
  OBVIOUS
<1>3. /\ LockRequires(tx) <=> Failing(model) \cap {1, 2, 3, 8} = {}
      /\ TypeGuards(tx) <=> Failing(model) \cap 3..14 = {}
      /\ TypeRequires(tx) <=> Failing(model) \cap ({1} \cup 3..14) = {}
  BY <1>1, CaseDecided
<1>4. v.source_model_result = model_result(model) /\ v.fixture = name
  BY DEF fixture_vector
<1>5. TypeGuards(st) <=> TypeGuards(tx)
  <2>1. v.old_cell = CellData(model.old_cell)
    BY DEF fixture_vector, CellData
  <2>2. v.old_cell.btc_authority_hash \in Keys
    BY <2>1, CellStruct DEF CellData, Describes
  <2> QED
    BY <1>1, <1>2, <2>2, StateTypeDecided
<1>6. CASE Failing(model) = {}
  <2>1. v.source_model_result = "accepted"
    BY <1>4, <1>6, Verdict
  <2>2. LockRequires(tx) /\ TypeGuards(tx) /\ TypeRequires(tx)
    BY <1>3, <1>6
  <2>3. expected_failure_scope(v.source_model_result) = "none"
    BY <2>1 DEF expected_failure_scope
  <2>4. observed_failure_scope(tx) = "none"
    BY <2>2, Zenon DEF observed_failure_scope
  <2>5. combined_matched(v, combined_case(v))
    BY <1>1, <2>3, <2>4, OutcomeMatched DEF combined_matched
  <2>6. state_type_expected(v) = "accepted"
    BY <2>1 DEF state_type_expected
  <2>7. state_type_matched(v)
    BY <1>2, <1>5, <2>2, <2>6 DEF state_type_matched
  <2> QED
    BY <2>5, <2>7
<1>7. CASE Failing(model) = {k}
  <2>1. /\ v.source_model_result = checks(model)[k][2]
        /\ v.source_model_result # "accepted"
        /\ expected_failure_scope(v.source_model_result)
             = IF k \in {1, 2, 3, 8} THEN "lock" ELSE "type"
    BY <1>4, <1>7, Verdict, Labels
  <2>2. observed_failure_scope(tx) = IF k \in {1, 2, 3, 8} THEN "lock" ELSE "type"
    <3>1. CASE k \in {1, 2, 3, 8}
      <4>1. ~LockRequires(tx)
        BY <1>3, <1>7, <3>1
      <4> QED
        BY <3>1, <4>1 DEF observed_failure_scope
    <3>2. CASE k \notin {1, 2, 3, 8}
      <4>1. LockRequires(tx)
        BY <1>3, <1>7, <3>2
      <4>2. ~TypeRequires(tx)
        <5>1. k \in 3..14
          BY <3>2
        <5> QED
          BY <1>3, <1>7, <5>1
      <4> QED
        BY <3>2, <4>1, <4>2 DEF observed_failure_scope
    <3> QED
      BY <3>1, <3>2
  <2>3. combined_matched(v, combined_case(v))
    BY <1>1, <2>1, <2>2, OutcomeMatched DEF combined_matched
  <2>4. 1 \in Failing(model) <=> name = "wrong_signature_reject"
    BY FailingChecks
  <2>5. 2 \in Failing(model) <=> name = "authority_hash_mapping_mismatch_reject"
    BY FailingChecks
  <2>6. state_type_expected(v) = "accepted" <=> k \in {1, 2}
    BY <1>4, <1>7, <2>1, <2>4, <2>5 DEF state_type_expected, lock_scope
  <2>7. TypeGuards(st) <=> k \in {1, 2}
    <3>1. k \in 3..14 <=> k \notin {1, 2}
      OBVIOUS
    <3>2. Failing(model) \cap 3..14 = {} <=> k \notin 3..14
      BY <1>7
    <3> QED
      BY <1>3, <1>5, <3>1, <3>2
  <2>8. state_type_matched(v)
    <3>1. state_type_expected(v) = "accepted" <=> TypeGuards(state_type_case(v))
      BY <1>2, <2>6, <2>7
    <3> QED
      BY <3>1 DEF state_type_matched, TypeGuards, WitnessRequired, OutputsRequired
  <2> QED
    BY <2>3, <2>8
<1> QED
  BY <1>6, <1>7

\* An object of the baseline under what the inputs give of it.
Patched(inputs, o, base) ==
  IF o \in DOMAIN inputs THEN Over(base, inputs[o]) ELSE base

\* The intent core of the baseline.
BaseCore(i) ==
  IntentCore(<<i, 0>>, seals[i].cell, Other(States, seals[i].cell.state_hash), U64_MAX)

\* The intent of the baseline.
BaseIntent(i) == Over(BaseCore(i), [expected_receipt_hash |-> Placeholder("receipt")])

\* The inputs laid over the baseline.
LEMMA Merged ==
  ASSUME NEW i, NEW inputs, NEW merged, merged = merge(baseline(i), inputs),
         NEW f \in {"old_cell", "intent", "current_timepoint", "actual_old_cell",
                    "btc_signature", "btc_authority_pubkey_matches",
                    "lock_args_authority_matches", "proposed_new_cell"}
  PROVE  /\ f \in DOMAIN merged
         /\ merged[f] = IF f \in Objects THEN Patched(inputs, f, baseline(i)[f])
                        ELSE IF f \in DOMAIN inputs THEN inputs[f] ELSE baseline(i)[f]
<1>1. PICK base : base = baseline(i)
  OBVIOUS
<1>2. PICK patch : patch = [g \in DOMAIN inputs |->
                              IF g \in Objects THEN Over(base[g], inputs[g])
                              ELSE inputs[g]]
  OBVIOUS
<1>3. merged = Over(base, patch)
  BY <1>1, <1>2 DEF merge
<1>4. f \in DOMAIN base
  BY <1>1 DEF baseline
<1>5. /\ f \in DOMAIN merged
      /\ merged[f] = IF f \in DOMAIN inputs THEN patch[f] ELSE base[f]
  BY <1>2, <1>3, <1>4 DEF Over
<1> QED
  BY <1>1, <1>2, <1>5 DEF Patched

\* What the model of a fixture takes from its inputs and what from the baseline:
\* its objects, its flags, the rest, and the fields of its intent, under either
\* name.
FilledCells(i, inputs, model) ==
  /\ model.old_cell = Patched(inputs, "old_cell", CellData(seals[i].cell))
  /\ model.proposed_new_cell = Patched(inputs, "proposed_new_cell", <<>>)

FilledFlags(inputs, model) ==
  /\ model.btc_authority_pubkey_matches
       = IF "btc_authority_pubkey_matches" \in DOMAIN inputs
         THEN inputs.btc_authority_pubkey_matches ELSE TRUE
  /\ model.lock_args_authority_matches
       = IF "lock_args_authority_matches" \in DOMAIN inputs
         THEN inputs.lock_args_authority_matches ELSE TRUE
  /\ model.signature_ok
       = IF "btc_signature_result" \in DOMAIN inputs
         THEN inputs.btc_signature_result
         ELSE Given(inputs, "btc_signature", "valid") = "valid"

FilledRest(i, inputs, model) ==
  /\ model.current_timepoint = Given(inputs, "current_timepoint", 1)
  /\ model.actual_old_cell = Given(inputs, "actual_old_cell", <<i, 0>>)
  /\ model.state_hash_commitment
       = Given(inputs, "state_hash_commitment", Hash(model.intent.new_state_hash))
  /\ model.materialized_receipt_hash
       = Given(inputs, "actual_receipt_hash", model.intent.expected_receipt_hash)

FilledIntent(core, raw, intent) ==
  /\ \A f \in CoreFields \ {"new_nonce"} :
       intent[f] = IF f \in DOMAIN raw THEN raw[f] ELSE core[f]
  /\ intent.new_nonce
       = IF "new_nonce" \in DOMAIN raw THEN raw.new_nonce
         ELSE IF "nonce" \in DOMAIN raw THEN raw.nonce ELSE core.new_nonce
  /\ intent.expected_receipt_hash
       = IF "expected_receipt_hash" \in DOMAIN raw THEN raw.expected_receipt_hash
         ELSE IF "receipt_hash" \in DOMAIN raw THEN raw.receipt_hash
         ELSE Placeholder("receipt")

LEMMA Normalized ==
  ASSUME NEW i, NEW inputs, NEW model, model = normalize(i, inputs)
  PROVE  /\ FilledCells(i, inputs, model)
         /\ FilledFlags(inputs, model)
         /\ FilledRest(i, inputs, model)
         /\ FilledIntent(BaseCore(i), Given(inputs, "intent", <<>>), model.intent)
<1>1. PICK raw : raw = Given(inputs, "intent", <<>>)
  OBVIOUS
<1>2. PICK core : core = BaseCore(i)
  OBVIOUS
<1>3. PICK merged : merged = merge(baseline(i), inputs)
  OBVIOUS
<1>4. PICK named :
        named = [new_nonce |->
                   IF "nonce" \in DOMAIN raw /\ "new_nonce" \notin DOMAIN raw
                   THEN raw["nonce"] ELSE merged.intent["new_nonce"],
                 expected_receipt_hash |->
                   IF "receipt_hash" \in DOMAIN raw
                        /\ "expected_receipt_hash" \notin DOMAIN raw
                   THEN raw["receipt_hash"]
                   ELSE merged.intent["expected_receipt_hash"]]
  OBVIOUS
<1>5. PICK intent : intent = Over(merged.intent, named)
  OBVIOUS
<1>6. PICK computed :
        computed =
          [intent |-> intent,
           materialized_receipt_hash |->
             Given(inputs, "actual_receipt_hash", intent.expected_receipt_hash),
           state_hash_commitment |->
             Given(inputs, "state_hash_commitment", Hash(intent.new_state_hash)),
           signature_ok |->
             Given(inputs, "btc_signature_result", merged.btc_signature = "valid")]
  OBVIOUS
<1>7. model = Over(merged, computed)
  BY <1>1, <1>3, <1>4, <1>5, <1>6 DEF normalize
<1>8. PICK base : base = BaseIntent(i)
  OBVIOUS
<1>9. PICK receipt : /\ receipt = [expected_receipt_hash |-> Placeholder("receipt")]
                     /\ base = Over(core, receipt)
  BY <1>2, <1>8 DEF BaseIntent
<1>10. DOMAIN core = CoreFields
  BY <1>2 DEF BaseCore, IntentCore, CoreFields
<1>11. /\ \A f \in CoreFields : base[f] = core[f]
       /\ base.expected_receipt_hash = Placeholder("receipt")
       /\ DOMAIN base = CoreFields \cup {"expected_receipt_hash"}
  <2>1. DOMAIN receipt = {"expected_receipt_hash"}
    BY <1>9
  <2>2. "expected_receipt_hash" \notin CoreFields
    BY DEF CoreFields
  <2>3. receipt.expected_receipt_hash = Placeholder("receipt")
    BY <1>9
  <2> QED
    BY <1>9, <1>10, <2>1, <2>2, <2>3 DEF Over
<1>12. merged.intent = Patched(inputs, "intent", base)
  <2>1. baseline(i).intent = base
    BY <1>8 DEF baseline, BaseIntent, BaseCore
  <2> QED
    BY <1>3, <2>1, Merged DEF Objects
<1>13. /\ DOMAIN merged.intent = DOMAIN base \cup DOMAIN raw
       /\ \A f \in DOMAIN base \cup DOMAIN raw :
            merged.intent[f] = IF f \in DOMAIN raw THEN raw[f] ELSE base[f]
  <2>1. CASE "intent" \in DOMAIN inputs
    <3>1. merged.intent = Over(base, raw)
      BY <1>1, <1>12, <2>1 DEF Patched, Given
    <3> QED
      BY <3>1 DEF Over
  <2>2. CASE "intent" \notin DOMAIN inputs
    <3>1. raw = <<>> /\ DOMAIN raw = {}
      BY <1>1, <2>2 DEF Given
    <3> QED
      BY <1>12, <2>2, <3>1 DEF Patched
  <2> QED
    BY <2>1, <2>2
<1>14. /\ intent.new_nonce = named.new_nonce
       /\ intent.expected_receipt_hash = named.expected_receipt_hash
       /\ \A f \in CoreFields \ {"new_nonce"} : intent[f] = merged.intent[f]
  <2>1. DOMAIN named = {"new_nonce", "expected_receipt_hash"}
    BY <1>4
  <2>2. "expected_receipt_hash" \notin CoreFields
    BY DEF CoreFields
  <2> QED
    BY <1>5, <1>11, <1>13, <2>1, <2>2 DEF Over
<1>15. DOMAIN computed = {"intent", "materialized_receipt_hash",
                          "state_hash_commitment", "signature_ok"}
  BY <1>6
<1>16. DOMAIN baseline(i) = {"old_cell", "intent", "current_timepoint",
         "actual_old_cell", "btc_signature", "btc_authority_pubkey_matches",
         "lock_args_authority_matches", "proposed_new_cell"}
  BY DEF baseline
<1>17. /\ \A f \in DOMAIN computed : model[f] = computed[f]
       /\ \A f \in DOMAIN baseline(i) \ DOMAIN computed : model[f] = merged[f]
  <2>1. DOMAIN baseline(i) \subseteq DOMAIN merged
    BY <1>3, <1>16, Merged
  <2> QED
    BY <1>7, <2>1 DEF Over
<1>18. \A f \in DOMAIN baseline(i) \ {"intent"} :
         model[f] = IF f \in Objects THEN Patched(inputs, f, baseline(i)[f])
                    ELSE IF f \in DOMAIN inputs THEN inputs[f] ELSE baseline(i)[f]
  BY <1>3, <1>15, <1>16, <1>17, Merged
<1>19. /\ model.intent = intent
       /\ model.materialized_receipt_hash
            = Given(inputs, "actual_receipt_hash", intent.expected_receipt_hash)
       /\ model.state_hash_commitment
            = Given(inputs, "state_hash_commitment", Hash(intent.new_state_hash))
  BY <1>6, <1>15, <1>17
<1>20. model.signature_ok
         = IF "btc_signature_result" \in DOMAIN inputs
           THEN inputs.btc_signature_result
           ELSE Given(inputs, "btc_signature", "valid") = "valid"
  <2>1. merged.btc_signature
          = IF "btc_signature" \in DOMAIN inputs THEN inputs.btc_signature ELSE "valid"
    <3>1. baseline(i).btc_signature = "valid"
      BY DEF baseline
    <3> QED
      BY <1>3, <3>1, Merged DEF Objects
  <2>2. model.signature_ok = computed.signature_ok
    BY <1>15, <1>17
  <2>3. computed.signature_ok
          = Given(inputs, "btc_signature_result", merged.btc_signature = "valid")
    BY <1>6
  <2> QED
    BY <2>1, <2>2, <2>3 DEF Given
<1>21. \A f \in CoreFields \ {"new_nonce"} :
         model.intent[f] = IF f \in DOMAIN raw THEN raw[f] ELSE core[f]
  BY <1>11, <1>13, <1>14, <1>19
<1>22. model.intent.new_nonce
         = IF "new_nonce" \in DOMAIN raw THEN raw.new_nonce
           ELSE IF "nonce" \in DOMAIN raw THEN raw.nonce ELSE core.new_nonce
  <2>1. "new_nonce" \in CoreFields
    BY DEF CoreFields
  <2> QED
    BY <1>4, <1>11, <1>13, <1>14, <1>19, <2>1
<1>23. model.intent.expected_receipt_hash
         = IF "expected_receipt_hash" \in DOMAIN raw THEN raw.expected_receipt_hash
           ELSE IF "receipt_hash" \in DOMAIN raw THEN raw.receipt_hash
           ELSE Placeholder("receipt")
  BY <1>4, <1>11, <1>13, <1>14, <1>19
<1>24. FilledCells(i, inputs, model)
  BY <1>16, <1>18 DEF baseline, Objects, FilledCells
<1>25. FilledFlags(inputs, model)
  BY <1>16, <1>18, <1>20 DEF baseline, Objects, FilledFlags
<1>26. FilledRest(i, inputs, model)
  BY <1>16, <1>18, <1>19 DEF baseline, Objects, Given, FilledRest
<1>27. FilledIntent(core, raw, model.intent)
  BY <1>21, <1>22, <1>23 DEF FilledIntent
<1> QED
  BY <1>1, <1>2, <1>24, <1>25, <1>26, <1>27

\* What makes inputs the ones of a fixture of this name.
Drawn(name, inputs) ==
  LET raw == Given(inputs, "intent", <<>>) IN
  /\ "state_hash_commitment" \notin DOMAIN inputs
  /\ IF "btc_signature_result" \in DOMAIN inputs
     THEN inputs.btc_signature_result /\ name # "wrong_signature_reject"
     ELSE Given(inputs, "btc_signature", "valid") = "valid"
            <=> name # "wrong_signature_reject"
  /\ "lock_args_authority_matches" \in DOMAIN inputs
       <=> name = "authority_hash_mapping_mismatch_reject"
  /\ "lock_args_authority_matches" \in DOMAIN inputs
       => ~inputs.lock_args_authority_matches
  /\ "btc_authority_pubkey_matches" \in DOMAIN inputs
       <=> name = "wrong_pubkey_valid_signature_reject"
  /\ "btc_authority_pubkey_matches" \in DOMAIN inputs
       => ~inputs.btc_authority_pubkey_matches
  /\ "actual_old_cell" \in DOMAIN inputs
       => inputs.actual_old_cell
            = <<inputs.actual_old_cell[1], inputs.actual_old_cell[2]>>
  /\ "old_cell" \in DOMAIN raw
       => /\ raw.old_cell = <<raw.old_cell[1], raw.old_cell[2]>>
          /\ "actual_old_cell" \in DOMAIN inputs
  /\ "expected_receipt_hash" \notin DOMAIN raw
  /\ "receipt_hash" \in DOMAIN raw => \E text : raw.receipt_hash = Placeholder(text)
  /\ "actual_receipt_hash" \in DOMAIN inputs
       <=> name = "receipt_hash_mismatch_reject"
  /\ "actual_receipt_hash" \in DOMAIN inputs
       => /\ "receipt_hash" \in DOMAIN raw
          /\ raw.receipt_hash # inputs.actual_receipt_hash
  /\ "proposed_new_cell" \in DOMAIN inputs
       <=> name = "authority_rotation_without_explicit_action_reject"
  /\ "proposed_new_cell" \in DOMAIN inputs
       => inputs.proposed_new_cell = [btc_authority_hash |-> Stranger]
  /\ "old_cell" \in DOMAIN inputs => DOMAIN inputs.old_cell \subseteq {"nonce", "policy_hash"}

LEMMA DrawnDescribes ==
  ASSUME NEW i, seals[i].cell.btc_authority_hash \in Keys,
         NEW name, NEW inputs, Drawn(name, inputs),
         NEW model, model = normalize(i, inputs)
  PROVE  Describes(name, inputs, model)
<1>1. PICK raw : raw = Given(inputs, "intent", <<>>)
  OBVIOUS
<1>2. PICK cell : cell = CellData(seals[i].cell)
  OBVIOUS
<1>3. cell.btc_authority_hash \in Keys /\ DOMAIN cell = Layout["NovaSealCellV0"]
  BY <1>2, CellStruct DEF CellData, encode_struct
<1>4. {"btc_authority_hash", "policy_hash"} \subseteq DOMAIN cell
  BY <1>3 DEF Layout
<1>5. model.old_cell = Patched(inputs, "old_cell", cell)
  BY <1>2, Normalized DEF FilledCells
<1>6. /\ model.old_cell.btc_authority_hash = cell.btc_authority_hash
      /\ {"btc_authority_hash", "policy_hash"} \subseteq DOMAIN model.old_cell
  <2>1. CASE "old_cell" \in DOMAIN inputs
    <3>1. PICK patch : patch = inputs.old_cell
      OBVIOUS
    <3>2. DOMAIN patch \subseteq {"nonce", "policy_hash"}
      BY <2>1, <3>1 DEF Drawn
    <3>3. model.old_cell = Over(cell, patch)
      BY <1>5, <2>1, <3>1 DEF Patched
    <3> QED
      BY <1>4, <3>2, <3>3 DEF Over
  <2>2. CASE "old_cell" \notin DOMAIN inputs
    BY <1>4, <1>5, <2>2 DEF Patched
  <2> QED
    BY <2>1, <2>2
<1>7. /\ model.signature_ok <=> name # "wrong_signature_reject"
      /\ model.lock_args_authority_matches
           <=> name # "authority_hash_mapping_mismatch_reject"
      /\ model.btc_authority_pubkey_matches
           <=> name # "wrong_pubkey_valid_signature_reject"
  <2>1. FilledFlags(inputs, model)
    BY Normalized
  <2> QED
    BY <2>1 DEF FilledFlags, Drawn
<1>8. PICK intent : intent = model.intent
  OBVIOUS
<1>9. intent.old_cell = IF "old_cell" \in DOMAIN raw THEN raw.old_cell ELSE <<i, 0>>
  <2>1. FilledIntent(BaseCore(i), raw, intent)
    BY <1>1, <1>8, Normalized
  <2>2. "old_cell" \in CoreFields \ {"new_nonce"}
    BY DEF CoreFields
  <2>3. BaseCore(i).old_cell = <<i, 0>>
    BY DEF BaseCore, IntentCore
  <2> QED
    BY <2>1, <2>2, <2>3 DEF FilledIntent
<1>10. model.actual_old_cell
         = IF "actual_old_cell" \in DOMAIN inputs THEN inputs.actual_old_cell ELSE <<i, 0>>
  BY Normalized DEF FilledRest, Given
<1>11. /\ model.actual_old_cell = Given(inputs, "actual_old_cell", intent.old_cell)
       /\ intent.old_cell = <<intent.old_cell[1], intent.old_cell[2]>>
       /\ model.actual_old_cell = <<model.actual_old_cell[1], model.actual_old_cell[2]>>
  BY <1>1, <1>9, <1>10 DEF Drawn, Given
<1>12. /\ model.state_hash_commitment = Hash(intent.new_state_hash)
       /\ model.current_timepoint = Given(inputs, "current_timepoint", 1)
  BY <1>8, Normalized DEF FilledRest, Drawn, Given
<1>13. intent.expected_receipt_hash
         = IF "receipt_hash" \in DOMAIN raw THEN raw.receipt_hash
           ELSE Placeholder("receipt")
  <2>1. FilledIntent(BaseCore(i), raw, intent)
    BY <1>1, <1>8, Normalized
  <2> QED
    BY <1>1, <2>1 DEF FilledIntent, Drawn
<1>14. \E text : intent.expected_receipt_hash = Placeholder(text)
  BY <1>1, <1>13 DEF Drawn
<1>15. model.materialized_receipt_hash = intent.expected_receipt_hash
         <=> name # "receipt_hash_mismatch_reject"
  <2>1. model.materialized_receipt_hash
          = IF "actual_receipt_hash" \in DOMAIN inputs THEN inputs.actual_receipt_hash
            ELSE intent.expected_receipt_hash
    BY <1>8, Normalized DEF FilledRest, Given
  <2> QED
    BY <1>1, <1>13, <2>1 DEF Drawn
<1>16. Given(model.proposed_new_cell, "btc_authority_hash",
             model.old_cell.btc_authority_hash) = model.old_cell.btc_authority_hash
         <=> name # "authority_rotation_without_explicit_action_reject"
  <2>1. model.proposed_new_cell = Patched(inputs, "proposed_new_cell", <<>>)
    BY Normalized DEF FilledCells
  <2>2. CASE "proposed_new_cell" \in DOMAIN inputs
    <3>1. PICK patch : patch = [btc_authority_hash |-> Stranger]
      OBVIOUS
    <3>2. model.proposed_new_cell = Over(<<>>, patch)
      BY <2>1, <2>2, <3>1 DEF Patched, Drawn
    <3>3. /\ "btc_authority_hash" \in DOMAIN model.proposed_new_cell
          /\ model.proposed_new_cell.btc_authority_hash = Stranger
      BY <3>1, <3>2 DEF Over
    <3> QED
      BY <1>3, <1>6, <2>2, <3>3, StrangerAssumption DEF Given, Drawn
  <2>3. CASE "proposed_new_cell" \notin DOMAIN inputs
    <3>1. model.proposed_new_cell = <<>>
      BY <2>1, <2>3 DEF Patched
    <3> QED
      BY <2>3, <3>1 DEF Given, Drawn
  <2> QED
    BY <2>2, <2>3
<1> QED
  BY <1>3, <1>6, <1>7, <1>8, <1>11, <1>12, <1>14, <1>15, <1>16 DEF Describes

\* The inputs there are.
LEMMA InputsOf ==
  ASSUME NEW i
  PROVE  /\ DOMAIN NamedInputs(i) =
             {"keyauth_transfer_valid",
              "authority_hash_mapping_mismatch_reject",
              "authority_rotation_without_explicit_action_reject",
              "expired_intent_reject", "old_outpoint_index_mismatch_reject",
              "old_outpoint_tx_hash_mismatch_reject",
              "policy_hash_mismatch_reject", "receipt_hash_mismatch_reject",
              "replay_nonce_reject", "wrong_pubkey_valid_signature_reject",
              "wrong_signature_reject"}
         /\ DOMAIN FurtherInputs(i) =
             {"other_state", "other_nonce", "moved_on", "last_nonce",
              "other_line", "last_moment"}
         /\ DOMAIN Inputs(i) = DOMAIN NamedInputs(i) \cup DOMAIN FurtherInputs(i)
         /\ \A name \in DOMAIN NamedInputs(i) : Inputs(i)[name] = NamedInputs(i)[name]
         /\ \A name \in DOMAIN FurtherInputs(i) : Inputs(i)[name] = FurtherInputs(i)[name]
<1>1. PICK named, further : named = NamedInputs(i) /\ further = FurtherInputs(i)
  OBVIOUS
<1>2. DOMAIN named = {"keyauth_transfer_valid",
                   "authority_hash_mapping_mismatch_reject",
                   "authority_rotation_without_explicit_action_reject",
                   "expired_intent_reject",
                   "old_outpoint_index_mismatch_reject",
                   "old_outpoint_tx_hash_mismatch_reject",
                   "policy_hash_mismatch_reject",
                   "receipt_hash_mismatch_reject", "replay_nonce_reject",
                   "wrong_pubkey_valid_signature_reject",
                   "wrong_signature_reject"}
  BY <1>1 DEF NamedInputs
<1>3. DOMAIN further = {"other_state", "other_nonce", "moved_on", "last_nonce",
                     "other_line", "last_moment"}
  BY <1>1 DEF FurtherInputs
<1>4. Inputs(i) = Over(named, further)
  BY <1>1 DEF Inputs
<1>5. /\ DOMAIN Inputs(i) = DOMAIN named \cup DOMAIN further
      /\ \A name \in DOMAIN named \ DOMAIN further : Inputs(i)[name] = named[name]
      /\ \A name \in DOMAIN further : Inputs(i)[name] = further[name]
  BY <1>4 DEF Over
<1>6. DOMAIN named \cap DOMAIN further = {}
  BY <1>2, <1>3
<1> QED
  BY <1>1, <1>2, <1>3, <1>5, <1>6

\* Every input is one of its fixture's name.
LEMMA NamedDrawn ==
  ASSUME NEW i, NEW name \in DOMAIN NamedInputs(i),
         NEW inputs, inputs = NamedInputs(i)[name]
  PROVE  Drawn(name, inputs)
<1>1. CASE name = "keyauth_transfer_valid"
  BY <1>1 DEF NamedInputs, Drawn, Given
<1>2. CASE name = "authority_hash_mapping_mismatch_reject"
  BY <1>2 DEF NamedInputs, Drawn, Given
<1>3. CASE name = "authority_rotation_without_explicit_action_reject"
  BY <1>3 DEF NamedInputs, Drawn, Given
<1>4. CASE name = "expired_intent_reject"
  BY <1>4 DEF NamedInputs, Drawn, Given
<1>5. CASE name = "old_outpoint_index_mismatch_reject"
  BY <1>5 DEF NamedInputs, Drawn, Given
<1>6. CASE name = "old_outpoint_tx_hash_mismatch_reject"
  BY <1>6 DEF NamedInputs, Drawn, Given
<1>7. CASE name = "policy_hash_mismatch_reject"
  BY <1>7 DEF NamedInputs, Drawn, Given
<1>8. CASE name = "receipt_hash_mismatch_reject"
  <2>1. Placeholder("claimed") # Placeholder("actual")
    BY DEF Placeholder, Hash
  <2> QED
    BY <1>8, <2>1 DEF NamedInputs, Drawn, Given
<1>9. CASE name = "replay_nonce_reject"
  BY <1>9 DEF NamedInputs, Drawn, Given
<1>10. CASE name = "wrong_pubkey_valid_signature_reject"
  BY <1>10 DEF NamedInputs, Drawn, Given
<1>11. CASE name = "wrong_signature_reject"
  BY <1>11 DEF NamedInputs, Drawn, Given
<1> QED
  BY <1>1, <1>2, <1>3, <1>4, <1>5, <1>6, <1>7, <1>8, <1>9, <1>10, <1>11, InputsOf

LEMMA FurtherDrawn ==
  ASSUME NEW i, NEW name \in DOMAIN FurtherInputs(i),
         NEW inputs, inputs = FurtherInputs(i)[name]
  PROVE  Drawn(name, inputs)
<1>1. CASE name = "other_state"
  BY <1>1 DEF FurtherInputs, Drawn, Given
<1>2. CASE name = "other_nonce"
  BY <1>2 DEF FurtherInputs, Drawn, Given
<1>3. CASE name = "moved_on"
  BY <1>3 DEF FurtherInputs, Drawn, Given
<1>4. CASE name = "last_nonce"
  BY <1>4 DEF FurtherInputs, Drawn, Given
<1>5. CASE name = "other_line"
  BY <1>5 DEF FurtherInputs, Drawn, Given
<1>6. CASE name = "last_moment"
  BY <1>6 DEF FurtherInputs, Drawn, Given
<1> QED
  BY <1>1, <1>2, <1>3, <1>4, <1>5, <1>6, InputsOf

\* A fixture of the eleven departs from a valid transfer in one thing at most.
OneThing(i, name, inputs) ==
  LET raw == Given(inputs, "intent", <<>>)
      cell == seals[i].cell
  IN
  /\ "old_cell" \in DOMAIN inputs
       => \A f \in DOMAIN inputs.old_cell : inputs.old_cell[f] = cell[f]
  /\ DOMAIN raw \cap {"old_state_hash", "old_nonce", "new_nonce"} = {}
  /\ "policy_hash" \in DOMAIN raw => name = "policy_hash_mismatch_reject"
  /\ "nonce" \in DOMAIN raw /\ name # "replay_nonce_reject"
       => raw.nonce = Add64(cell.nonce, 1)
  /\ "actual_old_cell" \in DOMAIN inputs
       => /\ "old_cell" \in DOMAIN raw
          /\ name \in {"old_outpoint_index_mismatch_reject",
                       "old_outpoint_tx_hash_mismatch_reject"}
          /\ name = "old_outpoint_index_mismatch_reject"
               => inputs.actual_old_cell[1] = raw.old_cell[1]
          /\ name = "old_outpoint_tx_hash_mismatch_reject"
               => inputs.actual_old_cell[2] = raw.old_cell[2]
  /\ "expiry" \in DOMAIN raw \/ "current_timepoint" \in DOMAIN inputs
       => name = "expired_intent_reject"

LEMMA NamedDepart ==
  ASSUME NEW i, NEW name \in DOMAIN NamedInputs(i),
         NEW inputs, inputs = NamedInputs(i)[name]
  PROVE  OneThing(i, name, inputs)
<1>1. CASE name = "keyauth_transfer_valid"
  BY <1>1 DEF NamedInputs, OneThing, Given
<1>2. CASE name = "authority_hash_mapping_mismatch_reject"
  BY <1>2 DEF NamedInputs, OneThing, Given
<1>3. CASE name = "authority_rotation_without_explicit_action_reject"
  BY <1>3 DEF NamedInputs, OneThing, Given
<1>4. CASE name = "expired_intent_reject"
  BY <1>4 DEF NamedInputs, OneThing, Given
<1>5. CASE name = "old_outpoint_index_mismatch_reject"
  BY <1>5 DEF NamedInputs, OneThing, Given
<1>6. CASE name = "old_outpoint_tx_hash_mismatch_reject"
  BY <1>6 DEF NamedInputs, OneThing, Given
<1>7. CASE name = "policy_hash_mismatch_reject"
  BY <1>7 DEF NamedInputs, OneThing, Given
<1>8. CASE name = "receipt_hash_mismatch_reject"
  BY <1>8 DEF NamedInputs, OneThing, Given
<1>9. CASE name = "replay_nonce_reject"
  BY <1>9 DEF NamedInputs, OneThing, Given
<1>10. CASE name = "wrong_pubkey_valid_signature_reject"
  BY <1>10 DEF NamedInputs, OneThing, Given
<1>11. CASE name = "wrong_signature_reject"
  BY <1>11 DEF NamedInputs, OneThing, Given
<1> QED
  BY <1>1, <1>2, <1>3, <1>4, <1>5, <1>6, <1>7, <1>8, <1>9, <1>10, <1>11, InputsOf

\* The fields that the checks compare: of the cell, and of the intent.
LEMMA NamedOld ==
  ASSUME NEW i, NEW cell, cell = seals[i].cell,
         NEW name \in DOMAIN NamedInputs(i),
         NEW inputs, inputs = NamedInputs(i)[name],
         NEW model, model = normalize(i, inputs), NEW old, old = model.old_cell
  PROVE  /\ old.state_hash = cell.state_hash
         /\ old.policy_hash = cell.policy_hash
         /\ old.nonce = cell.nonce
<1>1. PICK data : data = CellData(cell)
  OBVIOUS
<1>2. /\ data.state_hash = cell.state_hash
      /\ data.policy_hash = cell.policy_hash
      /\ data.nonce = cell.nonce
      /\ {"state_hash", "policy_hash", "nonce"} \subseteq DOMAIN data
  BY <1>1, CellStruct DEF CellData
<1>3. old = Patched(inputs, "old_cell", data)
  BY <1>1, Normalized DEF FilledCells
<1>4. CASE "old_cell" \in DOMAIN inputs
  <2>1. PICK patch : patch = inputs.old_cell
    OBVIOUS
  <2>2. old = Over(data, patch)
    BY <1>3, <1>4, <2>1 DEF Patched
  <2>3. \A f \in DOMAIN patch : patch[f] = cell[f]
    BY <1>4, <2>1, NamedDepart DEF OneThing
  <2> QED
    BY <1>2, <2>2, <2>3 DEF Over
<1>5. CASE "old_cell" \notin DOMAIN inputs
  BY <1>2, <1>3, <1>5 DEF Patched
<1> QED
  BY <1>4, <1>5

LEMMA NamedIntent ==
  ASSUME NEW i, NEW cell, cell = seals[i].cell,
         NEW name \in DOMAIN NamedInputs(i),
         NEW inputs, inputs = NamedInputs(i)[name],
         NEW model, model = normalize(i, inputs),
         NEW raw, raw = Given(inputs, "intent", <<>>),
         NEW intent, intent = model.intent
  PROVE  /\ intent.policy_hash = IF "policy_hash" \in DOMAIN raw THEN raw.policy_hash
                                 ELSE cell.policy_hash
         /\ intent.old_cell = IF "old_cell" \in DOMAIN raw THEN raw.old_cell
                              ELSE <<i, 0>>
         /\ intent.old_state_hash = cell.state_hash
         /\ intent.old_nonce = cell.nonce
         /\ intent.expiry = IF "expiry" \in DOMAIN raw THEN raw.expiry ELSE U64_MAX
         /\ intent.new_nonce = IF "nonce" \in DOMAIN raw THEN raw.nonce
                               ELSE Add64(cell.nonce, 1)
<1>1. OneThing(i, name, inputs)
  BY NamedDepart
<1>2. PICK core : core = BaseCore(i)
  OBVIOUS
<1>3. /\ core.policy_hash = cell.policy_hash
      /\ core.old_cell = <<i, 0>>
      /\ core.old_state_hash = cell.state_hash
      /\ core.old_nonce = cell.nonce
      /\ core.new_nonce = Add64(cell.nonce, 1)
      /\ core.expiry = U64_MAX
  BY <1>2 DEF BaseCore, IntentCore
<1>4. FilledIntent(core, raw, intent)
  BY <1>2, Normalized
<1>5. /\ intent.policy_hash = IF "policy_hash" \in DOMAIN raw THEN raw.policy_hash
                              ELSE cell.policy_hash
      /\ intent.old_cell = IF "old_cell" \in DOMAIN raw THEN raw.old_cell ELSE <<i, 0>>
      /\ intent.old_state_hash = cell.state_hash
      /\ intent.old_nonce = cell.nonce
      /\ intent.expiry = IF "expiry" \in DOMAIN raw THEN raw.expiry ELSE U64_MAX
  <2>1. {"policy_hash", "old_cell", "old_state_hash", "old_nonce", "expiry"}
          \subseteq CoreFields \ {"new_nonce"}
    BY DEF CoreFields
  <2>2. "old_state_hash" \notin DOMAIN raw /\ "old_nonce" \notin DOMAIN raw
    BY <1>1 DEF OneThing
  <2> QED
    BY <1>3, <1>4, <2>1, <2>2 DEF FilledIntent
<1>6. intent.new_nonce = IF "nonce" \in DOMAIN raw THEN raw.nonce
                         ELSE Add64(cell.nonce, 1)
  BY <1>1, <1>3, <1>4 DEF FilledIntent, OneThing
<1> QED
  BY <1>5, <1>6

\* And so it fails one check at most, of those whose scope the harness knows.
LEMMA NamedFails ==
  ASSUME NEW i, NEW cell, cell = seals[i].cell, IsCell(cell),
         cell.nonce < U64_MAX, 1 <= U64_MAX,
         NEW name \in DOMAIN NamedInputs(i),
         NEW inputs, inputs = NamedInputs(i)[name],
         NEW model, model = normalize(i, inputs)
  PROVE  \E k \in 1..14 \ {6, 7, 9, 10} : Failing(model) \subseteq {k}
<1>1. PICK raw : raw = Given(inputs, "intent", <<>>)
  OBVIOUS
<1>2. PICK old : old = model.old_cell
  OBVIOUS
<1>3. PICK intent : intent = model.intent
  OBVIOUS
<1>4. Describes(name, inputs, model)
  BY NamedDrawn, DrawnDescribes DEF IsCell
<1>5. OneThing(i, name, inputs) /\ Drawn(name, inputs)
  BY NamedDepart, NamedDrawn
<1>6. /\ old.state_hash = cell.state_hash
      /\ old.policy_hash = cell.policy_hash
      /\ old.nonce = cell.nonce
  BY <1>2, NamedOld
<1>7. /\ intent.policy_hash = IF "policy_hash" \in DOMAIN raw THEN raw.policy_hash
                              ELSE cell.policy_hash
      /\ intent.old_cell = IF "old_cell" \in DOMAIN raw THEN raw.old_cell ELSE <<i, 0>>
      /\ intent.old_state_hash = cell.state_hash
      /\ intent.old_nonce = cell.nonce
      /\ intent.expiry = IF "expiry" \in DOMAIN raw THEN raw.expiry ELSE U64_MAX
      /\ intent.new_nonce = IF "nonce" \in DOMAIN raw THEN raw.nonce
                            ELSE Add64(cell.nonce, 1)
  BY <1>1, <1>3, NamedIntent
<1>8. Add64(cell.nonce, 1) = cell.nonce + 1
  BY CkbAssumption DEF IsCell, U64, Add64
<1>9. name # "replay_nonce_reject" => intent.new_nonce = cell.nonce + 1
  BY <1>1, <1>5, <1>7, <1>8 DEF OneThing
<1>10. /\ name # "old_outpoint_tx_hash_mismatch_reject"
            => intent.old_cell[1] = model.actual_old_cell[1]
       /\ name # "old_outpoint_index_mismatch_reject"
            => intent.old_cell[2] = model.actual_old_cell[2]
  <2>1. model.actual_old_cell
          = IF "actual_old_cell" \in DOMAIN inputs THEN inputs.actual_old_cell ELSE <<i, 0>>
    BY Normalized DEF FilledRest, Given
  <2>2. "old_cell" \in DOMAIN raw <=> "actual_old_cell" \in DOMAIN inputs
    BY <1>1, <1>5 DEF OneThing, Drawn
  <2>3. CASE "actual_old_cell" \in DOMAIN inputs
    BY <1>1, <1>5, <1>7, <2>1, <2>2, <2>3 DEF OneThing
  <2>4. CASE "actual_old_cell" \notin DOMAIN inputs
    BY <1>7, <2>1, <2>2, <2>4
  <2> QED
    BY <2>3, <2>4
<1>11. name # "expired_intent_reject"
         => Given(inputs, "current_timepoint", 1) <= intent.expiry
  BY <1>1, <1>5, <1>7 DEF OneThing, Given
<1>12. name # "policy_hash_mismatch_reject" => intent.policy_hash = old.policy_hash
  BY <1>1, <1>5, <1>6, <1>7 DEF OneThing
<1>13. /\ 1 \in Failing(model) => name = "wrong_signature_reject"
       /\ 2 \in Failing(model) => name = "authority_hash_mapping_mismatch_reject"
       /\ 3 \in Failing(model) => name = "wrong_pubkey_valid_signature_reject"
       /\ 4 \in Failing(model) => name = "old_outpoint_tx_hash_mismatch_reject"
       /\ 5 \in Failing(model) => name = "old_outpoint_index_mismatch_reject"
       /\ 8 \in Failing(model) => name = "policy_hash_mismatch_reject"
       /\ 11 \in Failing(model) => name = "replay_nonce_reject"
       /\ 12 \in Failing(model) => name = "expired_intent_reject"
       /\ 13 \in Failing(model) => name = "receipt_hash_mismatch_reject"
       /\ 14 \in Failing(model) =>
            name = "authority_rotation_without_explicit_action_reject"
  BY <1>2, <1>3, <1>4, <1>6, <1>9, <1>10, <1>11, <1>12, FailingChecks
<1>14. Failing(model) \cap {6, 7, 9, 10} = {}
  BY <1>2, <1>3, <1>4, <1>6, <1>7, FailingChecks
<1>15. Failing(model) \subseteq 1..14
  BY DEF Failing
<1>16. \A j, k \in Failing(model) : j = k
  <2>1. Failing(model) \subseteq {1, 2, 3, 4, 5, 8, 11, 12, 13, 14}
    BY <1>14, <1>15
  <2> QED
    BY <1>13, <2>1
<1>17. CASE Failing(model) = {}
  BY <1>17
<1>18. CASE Failing(model) # {}
  <2>1. PICK k \in Failing(model) : TRUE
    BY <1>18
  <2>2. k \in 1..14 \ {6, 7, 9, 10}
    BY <1>14, <1>15, <2>1
  <2>3. Failing(model) \subseteq {k}
    BY <1>16, <2>1
  <2> QED
    BY <2>2, <2>3
<1> QED
  BY <1>17, <1>18

\* Where a fixture of the eleven passes, other than the expired one, none fails
\* for the cell's nonce or for the width of the arithmetic.
LEMMA PlainFails ==
  ASSUME NEW i, NEW cell, cell = seals[i].cell, IsCell(cell),
         NEW name \in DOMAIN NamedInputs(i), name # "expired_intent_reject",
         NEW inputs, inputs = NamedInputs(i)[name],
         NEW model, model = normalize(i, inputs), Failing(model) = {}
  PROVE  cell.nonce < U64_MAX /\ 1 <= U64_MAX
<1>1. PICK raw : raw = Given(inputs, "intent", <<>>)
  OBVIOUS
<1>2. PICK old : old = model.old_cell
  OBVIOUS
<1>3. PICK intent : intent = model.intent
  OBVIOUS
<1>4. /\ Describes(name, inputs, model)
      /\ OneThing(i, name, inputs)
      /\ old.nonce = cell.nonce
      /\ intent.expiry = IF "expiry" \in DOMAIN raw THEN raw.expiry ELSE U64_MAX
  <2>1. Describes(name, inputs, model)
    BY NamedDrawn, DrawnDescribes DEF IsCell
  <2>2. OneThing(i, name, inputs)
    BY NamedDepart
  <2>3. old.nonce = cell.nonce
    BY <1>2, NamedOld
  <2>4. intent.expiry = IF "expiry" \in DOMAIN raw THEN raw.expiry ELSE U64_MAX
    <3>1. FilledIntent(BaseCore(i), raw, intent)
      BY <1>1, <1>3, Normalized
    <3>2. BaseCore(i).expiry = U64_MAX
      BY DEF BaseCore, IntentCore
    <3> QED
      BY <3>1, <3>2 DEF FilledIntent, CoreFields
  <2> QED
    BY <2>1, <2>2, <2>3, <2>4
<1>5. /\ "expiry" \notin DOMAIN raw
      /\ "current_timepoint" \notin DOMAIN inputs
  BY <1>1, <1>4 DEF OneThing
<1>6. Given(inputs, "current_timepoint", 1) = 1
  BY <1>5 DEF Given
<1>7. /\ old.nonce < U64_MAX
      /\ Given(inputs, "current_timepoint", 1) <= intent.expiry
  BY <1>2, <1>3, <1>4, FailingChecks
<1> QED
  BY <1>4, <1>5, <1>6, <1>7

\* The four cases of the parent lock harness.
LEMMA ParentMatched ==
  ASSUME NEW cell, cell.btc_authority_hash \in Keys,
         NEW cases, cases = ParentCases(cell), NEW name \in DOMAIN cases
  PROVE  parent_matched(name, cases[name])
<1>1. PICK authority : authority = cell.btc_authority_hash
  OBVIOUS
<1>2. authority # Stranger
  BY <1>1, StrangerAssumption
<1>3. PICK tx : tx = cases[name]
  OBVIOUS
<1>4. DOMAIN cases = {"parent_valid_signature_accept", "parent_signature_bitflip_reject",
                      "parent_authority_hash_mismatch_reject",
                      "parent_wrong_pubkey_valid_signature_reject"}
  BY DEF ParentCases
<1>5. PICK key : key = IF name = "parent_wrong_pubkey_valid_signature_reject"
                       THEN Stranger ELSE authority
  OBVIOUS
<1>6. /\ tx.cell = cell
      /\ tx.lock_args = IF name = "parent_authority_hash_mismatch_reject"
                        THEN Stranger ELSE authority
      /\ tx.intent.core.policy_hash = cell.policy_hash
      /\ tx.sig.pubkey = key
      /\ tx.sig.by = key
      /\ tx.sig.over = Hash(tx.intent)
      /\ tx.sig.intact <=> name # "parent_signature_bitflip_reject"
  <2>1. CASE name = "parent_valid_signature_accept"
    BY <1>1, <1>3, <1>5, <2>1 DEF ParentCases, parent_case, Signature
  <2>2. CASE name = "parent_signature_bitflip_reject"
    BY <1>1, <1>3, <1>5, <2>2 DEF ParentCases, parent_case, Signature
  <2>3. CASE name = "parent_authority_hash_mismatch_reject"
    BY <1>1, <1>3, <1>5, <2>3 DEF ParentCases, parent_case, Signature
  <2>4. CASE name = "parent_wrong_pubkey_valid_signature_reject"
    BY <1>1, <1>3, <1>5, <2>4 DEF ParentCases, parent_case, Signature
  <2> QED
    BY <1>4, <2>1, <2>2, <2>3, <2>4
<1>7. LockGuards(tx) <=> name \notin RejectedBeforeSpawn
  BY <1>1, <1>2, <1>4, <1>5, <1>6 DEF LockGuards, RejectedBeforeSpawn
<1>8. Verifies(tx.sig, Hash(tx.intent)) <=> name # "parent_signature_bitflip_reject"
  BY <1>6, Zenon DEF Verifies
<1>9. LockRequires(tx) <=> name = "parent_valid_signature_accept"
  BY <1>4, <1>7, <1>8 DEF LockRequires, RejectedBeforeSpawn
<1>10. name \notin RejectedBeforeSpawn
         => observed_ipc_blob(tx) = expected_ipc_blob(name, tx)
  BY <1>7 DEF observed_ipc_blob, expected_ipc_blob
<1>11. LockRequires(tx) = (name = "parent_valid_signature_accept")
  BY <1>9 DEF LockRequires, LockGuards
<1> QED
  BY <1>3, <1>10, <1>11, Zenon DEF parent_matched

LEMMA VectorResult ==
  ASSUME NEW i, NEW name, NEW inputs, NEW v, v = fixture_vector(i, name, inputs)
  PROVE  /\ v.source_model_result = model_result(normalize(i, inputs))
         /\ v.fixture = name
BY DEF fixture_vector

\* FixturesDecided, of a cell.
LEMMA FixturesOf ==
  ASSUME NEW i, IsCell(seals[i].cell),
         NEW vectors, vectors = VectorsOf(i),
         NEW plain, plain = CHOOSE v \in vectors : v.fixture = "keyauth_transfer_valid"
  PROVE  /\ \A v \in vectors : outcome_matched(v, combined_case(v))
         /\ plain.source_model_result = "accepted" =>
              \A v \in vectors : v.fixture \in DOMAIN NamedInputs(i) =>
                combined_matched(v, combined_case(v)) /\ state_type_matched(v)
<1>1. PICK cell : cell = seals[i].cell
  OBVIOUS
<1>2. cell.btc_authority_hash \in Keys
  BY <1>1 DEF IsCell
<1>3. \A v \in vectors : \E name \in DOMAIN Inputs(i) :
        v = fixture_vector(i, name, Inputs(i)[name]) /\ v.fixture = name
  BY DEF VectorsOf, fixture_vector
<1>4. ASSUME NEW name \in DOMAIN Inputs(i), NEW inputs, inputs = Inputs(i)[name],
             NEW model, model = normalize(i, inputs)
      PROVE  Describes(name, inputs, model)
  <2>1. Drawn(name, inputs)
    <3>1. CASE name \in DOMAIN NamedInputs(i)
      BY <1>4, <3>1, InputsOf, NamedDrawn
    <3>2. CASE name \in DOMAIN FurtherInputs(i)
      BY <1>4, <3>2, InputsOf, FurtherDrawn
    <3> QED
      BY <3>1, <3>2, InputsOf
  <2> QED
    BY <1>1, <1>2, <1>4, <2>1, DrawnDescribes
<1>5. ASSUME NEW v \in vectors
      PROVE  outcome_matched(v, combined_case(v))
  <2>1. PICK name \in DOMAIN Inputs(i) : v = fixture_vector(i, name, Inputs(i)[name])
    BY <1>3
  <2>2. PICK inputs : inputs = Inputs(i)[name]
    OBVIOUS
  <2>3. PICK model : model = normalize(i, inputs)
    OBVIOUS
  <2>4. Describes(name, inputs, model)
    BY <1>4, <2>2, <2>3
  <2> QED
    BY <2>1, <2>2, <2>3, <2>4, OutcomeMatched
<1>6. ASSUME plain.source_model_result = "accepted"
      PROVE  cell.nonce < U64_MAX /\ 1 <= U64_MAX
  <2>1. PICK name : name = "keyauth_transfer_valid"
    OBVIOUS
  <2>2. PICK inputs : inputs = NamedInputs(i)[name]
    OBVIOUS
  <2>3. name \in DOMAIN Inputs(i) /\ inputs = Inputs(i)[name]
    BY <2>1, <2>2, InputsOf
  <2>4. fixture_vector(i, name, inputs) \in vectors
    BY <2>3 DEF VectorsOf
  <2>5. fixture_vector(i, name, inputs).fixture = name
    BY DEF fixture_vector
  <2>6. plain \in vectors /\ plain.fixture = name
    BY <2>1, <2>4, <2>5
  <2>7. plain = fixture_vector(i, name, inputs)
    BY <1>3, <2>3, <2>6
  <2>8. PICK model : model = normalize(i, inputs)
    OBVIOUS
  <2>9. model_result(model) = "accepted"
    <3>1. PICK v : v = fixture_vector(i, name, inputs)
      OBVIOUS
    <3>2. v.source_model_result = model_result(model)
      BY <2>8, <3>1, VectorResult
    <3> QED
      BY <1>6, <2>7, <3>1, <3>2
  <2>10. Failing(model) = {}
    BY <2>9, Verdict
  <2> QED
    <3>1. name \in DOMAIN NamedInputs(i) /\ name # "expired_intent_reject"
      BY <2>1, InputsOf
    <3> QED
      BY <1>1, <2>2, <2>8, <2>10, <3>1, PlainFails
<1>7. ASSUME plain.source_model_result = "accepted",
             NEW v \in vectors, v.fixture \in DOMAIN NamedInputs(i)
      PROVE  combined_matched(v, combined_case(v)) /\ state_type_matched(v)
  <2>1. PICK name \in DOMAIN Inputs(i) :
          v = fixture_vector(i, name, Inputs(i)[name]) /\ v.fixture = name
    BY <1>3
  <2>2. name \in DOMAIN NamedInputs(i)
    BY <1>7, <2>1
  <2>3. PICK inputs : inputs = Inputs(i)[name]
    OBVIOUS
  <2>4. inputs = NamedInputs(i)[name]
    BY <2>2, <2>3, InputsOf
  <2>5. PICK model : model = normalize(i, inputs)
    OBVIOUS
  <2>6. Describes(name, inputs, model)
    BY <1>4, <2>3, <2>5
  <2>7. PICK k \in 1..14 \ {6, 7, 9, 10} : Failing(model) \subseteq {k}
    BY <1>1, <1>6, <1>7, <2>2, <2>4, <2>5, NamedFails
  <2> QED
    BY <2>1, <2>3, <2>5, <2>6, <2>7, SingleFailure
<1> QED
  BY <1>5, <1>6, <1>7

LEMMA FixturesHold ==
  ASSUME IInv
  PROVE  FixturesDecided
<1>1. ASSUME NEW i \in Latest
      PROVE  i \in DOMAIN seals /\ IsCell(seals[i].cell)
  <2>1. CASE Moves = {}
    BY <1>1, <2>1 DEF Latest, IInv, TypeInv
  <2>2. CASE Moves # {}
    <3>1. DOMAIN seals # {}
      BY <2>2 DEF Moves
    <3>2. Len(seals) \in DOMAIN seals
      BY <3>1 DEF IInv, TypeInv, IsSequence
    <3> QED
      BY <1>1, <2>2, <3>2 DEF Latest, IInv, TypeInv
  <2> QED
    BY <2>1, <2>2
<1>2. ASSUME NEW i \in Latest, NEW vectors \in {VectorsOf(i)},
             NEW plain, plain = CHOOSE v \in vectors : v.fixture = "keyauth_transfer_valid"
      PROVE  /\ \A v \in vectors : outcome_matched(v, combined_case(v))
             /\ plain.source_model_result = "accepted" =>
                  \A v \in vectors : v.fixture \in DOMAIN NamedInputs(i) =>
                    combined_matched(v, combined_case(v)) /\ state_type_matched(v)
             /\ \A name \in DOMAIN ParentCases(seals[i].cell) :
                  parent_matched(name, ParentCases(seals[i].cell)[name])
  <2>1. IsCell(seals[i].cell)
    BY <1>1
  <2>2. seals[i].cell.btc_authority_hash \in Keys
    BY <2>1 DEF IsCell
  <2>3. \A name \in DOMAIN ParentCases(seals[i].cell) :
          parent_matched(name, ParentCases(seals[i].cell)[name])
    BY <2>2, ParentMatched
  <2>4. vectors = VectorsOf(i)
    OBVIOUS
  <2> QED
    BY <1>2, <2>1, <2>3, <2>4, FixturesOf
<1> QED
  BY <1>2, Zenon DEF FixturesDecided
-----------------------------------------------------------------------------
(***************************************************************************)
(* The theorems.                                                           *)
(***************************************************************************)

\* Type correctness.
THEOREM TypeCorrect == Spec => []TypeOK
  BY SpecInv, TypesHold, PTL

\* A signed intent takes effect at most once, on the cell it names, however the
\* signatures are hoarded, replayed or aimed at twins.
THEOREM EffectAtMostOnce == Spec => []IntentTakesEffectOnce
  BY SpecInv, EffectOnce, PTL

\* Nothing moves a line but an intent that the key of its founding cell signed,
\* for the step the two cells show, not after its expiry and the header's lag.
THEOREM Authorisation == Spec => []StepsAreAuthorised
  BY SpecInv, StepsAuthorised, PTL

\* Every latest receipt hash opens to a commitment that names the consumed and
\* the created cell.
THEOREM ReceiptHistory == Spec => []ReceiptsOpenHistory
  BY SpecInv, HistoryOpens, PTL

\* Every line of cells is a register that only its founding authority can write,
\* one granted write per version.
THEOREM Implementation == Spec => ImplementsRegister
<1>1. Init => Register!Init
  BY RegisterInit
<1>2. IInv /\ IInv' /\ [Next]_vars => [Register!Next]_(Register!register)
  BY RegisterNext
<1> QED
  BY <1>1, <1>2, SpecInv, PTL DEF Spec, ImplementsRegister, Register!Spec

\* Around every live cell lock and type script together accept exactly the
\* transactions that show a transition which the core commits.
THEOREM ScriptDecides == Spec => []ScriptIsTheTransition
  BY SpecInv, ScriptsAreExact, PTL

\* On whatever cell the fixtures are drawn up, the source model, the two scripts
\* and the three harnesses judge every one of them alike.
THEOREM Fixtures == Spec => []FixturesDecided
  BY SpecInv, FixturesHold, PTL
==============================================================================
