----------------------- MODULE NovaStateLifecycleProofs -----------------------
(***************************************************************************)
(* Theorems about NovaStateLifecycle, for every set of keys, states,       *)
(* policies, expiries and messages, every width of the nonce and any       *)
(* number of cells.                                                        *)
(*                                                                         *)
(* A receipt is compared with the cell its transaction spends, and that    *)
(* cell with the bootstrap of its line, so that the invariant of the runs  *)
(* is not inductive.  The inductive invariant says of every cell that it   *)
(* was bootstrapped, or which signature moved it from which earlier cell;  *)
(* induction along the line carries the bootstrap's terms to every step.   *)
(***************************************************************************)
EXTENDS NovaStateLifecycle, NovaLineLemmas

Bootstrapped(j) ==
  /\ seals[j].spent = {}
  /\ BootstrapAccepts(seals[j].cell)

\* Cell i was moved, and cell j is what came of it.
Moved(i, j) ==
  \E named \in Nat, s \in signed :
    /\ seals[j].spent = {i}
    /\ SuccessorAccepts(seals[i].cell, seals[j].cell)
    /\ SignatureAccepts(seals[i].cell, s[1], s[2])
    /\ seals[j].receipt = Receipt(seals[i].cell, seals[j].cell, named)

TypeInv ==
  /\ tip \in 0..MaxEpoch
  /\ signed \subseteq Keys \X Messages
  /\ IsSequence(seals)
  /\ \A j \in DOMAIN seals : seals[j].cell \in NovaSealCellV0

Explained(j) == Bootstrapped(j) \/ \E i \in 1..(j - 1) : Moved(i, j)

HistoryInv == \A j \in DOMAIN seals : Explained(j)

IInv == TypeInv /\ HistoryInv
-----------------------------------------------------------------------------
(***************************************************************************)
(* The inductive invariant.                                                *)
(***************************************************************************)

\* Before there is a cell, the invariant holds.
LEMMA InitInv ==
  ASSUME Init
  PROVE  IInv
<1>1. seals = <<>> /\ <<>> \in Seq({}) /\ DOMAIN seals = {}
  BY DEF Init
<1>2. IsSequence(seals)
  BY <1>1, SequenceOverSet
<1> QED
  BY <1>1, <1>2, LifecycleAssumption DEF Init, IInv, TypeInv, HistoryInv

\* The history stays true when signatures are only added and the ledger grows
\* at its end.
LEMMA HistoryStable ==
  ASSUME IInv, signed \subseteq signed', NEW j \in DOMAIN seals,
         \A k \in DOMAIN seals : seals'[k] = seals[k]
  PROVE  Explained(j)'
<1>1. DOMAIN seals = 1..Len(seals) /\ Len(seals) \in Nat
  BY SequenceOverSet DEF IInv, TypeInv, IsSequence
<1>2. CASE Bootstrapped(j)
  BY <1>2 DEF Bootstrapped, Explained
<1>3. ASSUME NEW i \in 1..(j - 1), Moved(i, j)
      PROVE  Moved(i, j)'
  <2>1. seals'[i] = seals[i] /\ seals'[j] = seals[j]
    BY <1>1
  <2> QED
    BY <1>3, <2>1 DEF Moved, SignatureAccepts
<1> QED
  BY <1>2, <1>3 DEF IInv, HistoryInv, Explained

\* What a committed transaction leaves behind.
LEMMA CommitEffect ==
  ASSUME IInv, NEW spent, NEW cell, NEW receipt, Commit(spent, cell, receipt),
         NEW n, n = Len(seals) + 1
  PROVE  /\ tip' = tip /\ signed' = signed
         /\ n \in Nat /\ DOMAIN seals = 1..(n - 1)
         /\ IsSequence(seals') /\ DOMAIN seals' = 1..n
         /\ seals'[n].spent = spent /\ seals'[n].cell = cell
         /\ seals'[n].receipt = receipt
         /\ \A j \in DOMAIN seals : seals'[j] = seals[j]
<1> DEFINE e == [spent |-> spent, cell |-> cell, receipt |-> receipt, epoch |-> tip]
<1>1. seals' = Append(seals, e) /\ tip' = tip /\ signed' = signed
  BY DEF Commit
<1>2. e.spent = spent /\ e.cell = cell /\ e.receipt = receipt
  OBVIOUS
<1>3. IsSequence(seals)
  BY DEF IInv, TypeInv
<1> HIDE DEF e
<1>4. /\ Len(seals) \in Nat
      /\ DOMAIN seals = 1..Len(seals)
      /\ IsSequence(seals')
      /\ DOMAIN seals' = 1..(Len(seals) + 1)
      /\ \A j \in 1..Len(seals) : seals'[j] = seals[j]
      /\ seals'[Len(seals) + 1] = e
  BY <1>1, <1>3, AppendFacts
<1> QED
  BY <1>1, <1>2, <1>4

\* A transaction of a cell that was bootstrapped or moved keeps the invariant.
LEMMA CommitInv ==
  ASSUME IInv, NEW spent, NEW cell \in NovaSealCellV0, NEW receipt,
         Commit(spent, cell, receipt), NEW n, n = Len(seals) + 1, Explained(n)'
  PROVE  IInv'
<1>1. /\ tip' = tip /\ signed' = signed
      /\ n \in Nat /\ DOMAIN seals = 1..(n - 1)
      /\ IsSequence(seals') /\ DOMAIN seals' = 1..n
      /\ seals'[n].cell = cell
      /\ \A j \in DOMAIN seals : seals'[j] = seals[j]
  BY CommitEffect
<1>2. \A j \in DOMAIN seals' : j = n \/ j \in DOMAIN seals
  BY <1>1
<1>3. TypeInv'
  BY <1>1, <1>2 DEF IInv, TypeInv
<1>4. ASSUME NEW j \in DOMAIN seals
      PROVE  Explained(j)'
  BY <1>1, HistoryStable
<1> QED
  BY <1>2, <1>3, <1>4 DEF IInv, HistoryInv

\* Every step keeps the invariant.
LEMMA NextInv ==
  ASSUME IInv, [Next]_vars
  PROVE  IInv'
<1>1. ASSUME seals' = seals, signed \subseteq signed',
             signed' \subseteq Keys \X Messages, tip' \in 0..MaxEpoch
      PROVE  IInv'
  <2>1. ASSUME NEW j \in DOMAIN seals
        PROVE  Explained(j)'
    BY <1>1, HistoryStable
  <2> QED
    BY <1>1, <2>1 DEF IInv, TypeInv, HistoryInv
<1>2. CASE Tick
  BY <1>1, <1>2, LifecycleAssumption DEF Tick, IInv, TypeInv
<1>3. ASSUME NEW key \in Keys, NEW message \in Messages, Sign(key, message)
      PROVE  IInv'
  BY <1>1, <1>3 DEF Sign, IInv, TypeInv
<1>4. ASSUME NEW cell \in NovaSealCellV0, OP_BOOTSTRAP(cell)
      PROVE  IInv'
  <2>0. PICK n, spent : n = Len(seals) + 1 /\ spent = {}
    OBVIOUS
  <2>1. Commit(spent, cell, NoReceipt) /\ BootstrapAccepts(cell)
    BY <1>4, <2>0 DEF OP_BOOTSTRAP
  <2>2. seals'[n].spent = spent /\ seals'[n].cell = cell
    BY <2>0, <2>1, CommitEffect
  <2>3. seals'[n].spent = {} /\ BootstrapAccepts(seals'[n].cell)
    BY <2>0, <2>1, <2>2
  <2>4. Explained(n)'
    BY <2>2, <2>3 DEF Bootstrapped, BootstrapAccepts, Explained
  <2> QED
    BY <2>0, <2>1, <2>4, CommitInv
<1>5. ASSUME NEW i \in Live, NEW new \in NovaSealCellV0, NEW named \in DOMAIN seals,
             NEW s \in signed, OP_KEY_AUTH_TRANSITION(i, new, named, s[1], s[2])
      PROVE  IInv'
  <2>0. PICK n, old, spent :
          n = Len(seals) + 1 /\ old = seals[i].cell /\ spent = {i}
    OBVIOUS
  <2>1. /\ Commit(spent, new, Receipt(old, new, named))
        /\ SuccessorAccepts(old, new)
        /\ SignatureAccepts(old, s[1], s[2])
    BY <1>5, <2>0 DEF OP_KEY_AUTH_TRANSITION
  <2>2. /\ n \in Nat /\ DOMAIN seals = 1..(n - 1)
        /\ seals'[n].spent = spent /\ seals'[n].cell = new
        /\ seals'[n].receipt = Receipt(old, new, named)
        /\ \A j \in DOMAIN seals : seals'[j] = seals[j]
    BY <2>0, <2>1, CommitEffect
  <2>3. i \in 1..(n - 1) /\ named \in Nat /\ seals'[i].cell = old /\ signed' = signed
    BY <2>0, <2>1, <2>2 DEF Live, Commit
  <2>4. Moved(i, n)'
    BY <2>0, <2>1, <2>2, <2>3 DEF Moved, SuccessorAccepts, SignatureAccepts, Receipt
  <2>5. Explained(n)'
    BY <2>3, <2>4 DEF Explained
  <2> QED
    BY <2>0, <2>1, <2>5, CommitInv
<1>6. CASE UNCHANGED vars
  BY <1>1, <1>6 DEF vars, IInv, TypeInv
<1> QED
  BY <1>2, <1>3, <1>4, <1>5, <1>6 DEF Next

\* The inductive invariant holds in every state.
LEMMA SpecInv == Spec => []IInv
<1> QED
  BY InitInv, NextInv, PTL DEF Spec
-----------------------------------------------------------------------------
(***************************************************************************)
(* Lines.                                                                  *)
(***************************************************************************)

\* The cells have naturals for positions.
LEMMA Positions ==
  ASSUME IInv
  PROVE  Len(seals) \in Nat /\ DOMAIN seals = 1..Len(seals) /\ Moves \subseteq Nat
  BY SequenceOverSet DEF IInv, TypeInv, IsSequence, Moves

\* A cell that spends one was moved from an earlier cell, its parent.
LEMMA ParentMoved ==
  ASSUME IInv, NEW j \in Moves
  PROVE  /\ j \in DOMAIN seals
         /\ Parent(j) \in 1..(j - 1)
         /\ Parent(j) \in DOMAIN seals
         /\ Moved(Parent(j), j)
<1>1. j \in DOMAIN seals /\ ~Bootstrapped(j)
  BY DEF Moves, Bootstrapped
<1>2. PICK i \in 1..(j - 1) : Moved(i, j)
  BY <1>1 DEF IInv, HistoryInv, Explained
<1>3. Parent(j) = i
  BY <1>2 DEF Parent, Moved
<1> QED
  BY <1>1, <1>2, <1>3, Positions

\* A cell that spends none is a bootstrap.
LEMMA RootBootstrapped ==
  ASSUME IInv, NEW j \in DOMAIN seals, j \notin Moves
  PROVE  Bootstrapped(j)
  BY DEF IInv, HistoryInv, Explained, Moves, Moved

\* Origin is defined along every line.
LEMMA OriginDefined ==
  ASSUME IInv, NEW j \in Nat
  PROVE  Origin[j] = IF j \in Moves THEN Origin[Parent(j)] ELSE j
<1> DEFINE p == [i \in Nat |-> Parent(i)]
<1>1. Earlier(Moves, p)
  <2>1. \A i \in Moves \cap Nat : Parent(i) \in 1..(i - 1)
    BY ParentMoved
  <2> QED
    BY <2>1 DEF Earlier
<1>2. \A i \in Nat : p[i] = Parent(i)
  OBVIOUS
<1> HIDE DEF p
<1>3. PICK f : IsOrigin(f, Moves, p)
                 /\ f = [i \in Nat |-> IF i \in Moves THEN f[p[i]] ELSE i]
  BY <1>1, OriginExists
<1>4. f = [i \in Nat |-> IF i \in Moves THEN f[Parent(i)] ELSE i]
  BY <1>2, <1>3
<1>5. Origin = [i \in Nat |-> IF i \in Moves THEN Origin[Parent(i)] ELSE i]
  BY <1>4 DEF Origin
<1> QED
  BY <1>5

\* What every cell of a line has from the bootstrap.
InLine(j) ==
  /\ seals[j].cell.btc_authority_hash = seals[Origin[j]].cell.btc_authority_hash
  /\ seals[j].cell.policy_hash = seals[Origin[j]].cell.policy_hash
  /\ seals[j].cell.expiry = seals[Origin[j]].cell.expiry

\* Every cell is in its line.
LEMMA LinesHold ==
  ASSUME IInv
  PROVE  \A j \in DOMAIN seals : InLine(j)
<1> DEFINE S == {j \in Nat : j \in DOMAIN seals => InLine(j)}
<1>1. ASSUME NEW j \in Nat, \A k \in 0..(j - 1) : k \in S, j \in DOMAIN seals
      PROVE  InLine(j)
  <2>1. CASE j \in Moves
    <3>1. Parent(j) \in 0..(j - 1) /\ Parent(j) \in DOMAIN seals
      <4>1. Parent(j) \in 1..(j - 1)
        BY <2>1, ParentMoved
      <4> QED
        BY <2>1, <4>1, ParentMoved
    <3>2. InLine(Parent(j)) /\ Origin[j] = Origin[Parent(j)]
      BY <1>1, <2>1, <3>1, OriginDefined
    <3> QED
      BY <2>1, <3>2, ParentMoved DEF InLine, Moved, SuccessorAccepts
  <2>2. CASE j \notin Moves
    <3>1. Origin[j] = j
      BY <2>2, OriginDefined
    <3> QED
      BY <3>1 DEF InLine
  <2> QED
    BY <2>1, <2>2
<1>2. \A j \in Nat : (\A k \in 0..(j - 1) : k \in S) => j \in S
  BY <1>1
<1> HIDE DEF S
<1>3. Nat \subseteq S
  BY <1>2, LineInduction
<1> QED
  BY <1>3, Positions DEF S
-----------------------------------------------------------------------------
(***************************************************************************)
(* What the script enforces.                                               *)
(***************************************************************************)

\* What the receipt of a step says of the two cells.
LEMMA ReceiptOfMove ==
  ASSUME IInv, NEW j \in Moves
  PROVE  LET receipt == seals[j].receipt
             old     == seals[Parent(j)].cell
             new     == seals[j].cell
         IN  /\ receipt.old_state_hash = old.state_hash
             /\ receipt.new_state_hash = new.state_hash
             /\ receipt.old_nonce = old.nonce
             /\ receipt.new_nonce = new.nonce
             /\ new.nonce = old.nonce + 1
             /\ old.nonce \in Nat
             /\ receipt.signer_authority_hash = old.btc_authority_hash
             /\ \E s \in signed : s[1] = old.btc_authority_hash
<1>1. Moved(Parent(j), j) /\ Parent(j) \in DOMAIN seals
  BY ParentMoved
<1>2. seals[Parent(j)].cell.nonce \in Nat
  BY <1>1, CkbAssumption DEF IInv, TypeInv, NovaSealCellV0, U64
<1> QED
  BY <1>1, <1>2 DEF Moved, Receipt, SuccessorAccepts, SignatureAccepts

\* TypeOK, from the invariant.
LEMMA TypesHold ==
  ASSUME IInv
  PROVE  TypeOK
<1>1. ASSUME NEW j \in DOMAIN seals
      PROVE  /\ seals[j].spent \subseteq 1..(j - 1)
             /\ j \in Moves => seals[j].receipt.old_nonce < seals[j].receipt.new_nonce
  <2>1. CASE j \in Moves
    <3>1. Parent(j) \in 1..(j - 1) /\ seals[j].spent = {Parent(j)}
      BY <2>1, ParentMoved DEF Moved
    <3> QED
      BY <2>1, <3>1, ReceiptOfMove
  <2>2. CASE j \notin Moves
    BY <2>2 DEF Moves
  <2> QED
    BY <2>1, <2>2
<1> QED
  BY <1>1 DEF TypeOK, IInv, TypeInv

\* TypeOK: for every value of the constants, a cell is a typed cell that spends
\* earlier ones only, and a receipt counts upwards.
THEOREM TypeCorrect == Spec => []TypeOK
<1> QED
  BY SpecInv, TypesHold, PTL

\* ReceiptsReplayTheLine, from the invariant and the lines.
LEMMA LinesReplayed ==
  ASSUME IInv
  PROVE  ReceiptsReplayTheLine
<1> SUFFICES ASSUME NEW j \in Moves
             PROVE  LET receipt == seals[j].receipt
                        cell    == seals[j].cell
                        root    == seals[Origin[j]].cell IN
                    /\ <<cell.policy_hash, cell.expiry>> = <<root.policy_hash, root.expiry>>
                    /\ receipt.new_state_hash = cell.state_hash
                    /\ receipt.new_nonce = cell.nonce
                    /\ receipt.new_nonce = receipt.old_nonce + 1
                    /\ receipt.signer_authority_hash = root.btc_authority_hash
                    /\ \E s \in signed : s[1] = root.btc_authority_hash
                    /\ IF Parent(j) \in Moves
                       THEN /\ receipt.old_state_hash
                                 = seals[Parent(j)].receipt.new_state_hash
                            /\ receipt.old_nonce = seals[Parent(j)].receipt.new_nonce
                       ELSE /\ receipt.old_state_hash = seals[Parent(j)].cell.state_hash
                            /\ receipt.old_nonce = 0
  BY DEF ReceiptsReplayTheLine
<1> DEFINE i == Parent(j)
<1>1. i \in DOMAIN seals /\ InLine(i) /\ InLine(j) /\ Origin[j] = Origin[i]
  BY ParentMoved, LinesHold, OriginDefined, Positions
<1>2. /\ seals[j].receipt.old_state_hash = seals[i].cell.state_hash
      /\ seals[j].receipt.new_state_hash = seals[j].cell.state_hash
      /\ seals[j].receipt.old_nonce = seals[i].cell.nonce
      /\ seals[j].receipt.new_nonce = seals[j].cell.nonce
      /\ seals[j].cell.nonce = seals[i].cell.nonce + 1
      /\ seals[j].receipt.signer_authority_hash = seals[i].cell.btc_authority_hash
      /\ \E s \in signed : s[1] = seals[i].cell.btc_authority_hash
  BY ReceiptOfMove
<1>3. i \in Moves => /\ seals[i].receipt.new_state_hash = seals[i].cell.state_hash
                     /\ seals[i].receipt.new_nonce = seals[i].cell.nonce
  BY ReceiptOfMove
<1>4. i \notin Moves => seals[i].cell.nonce = 0
  BY <1>1, RootBootstrapped DEF Bootstrapped, BootstrapAccepts
<1> HIDE DEF i
<1> QED
  BY <1>1, <1>2, <1>3, <1>4 DEF InLine, i

\* ReceiptsReplayTheLine: on every line, however many bootstraps and
\* transitions there are, the receipts replay it under the bootstrap's terms.
THEOREM Replay == Spec => []ReceiptsReplayTheLine
<1> QED
  BY SpecInv, LinesReplayed, PTL
==============================================================================
