---------------------------- MODULE NovaLineLemmas ---------------------------
(***************************************************************************)
(* Lemmas on the data every NovaSeal ledger is made of: sequences that     *)
(* only grow, and lines of cells in them, where each cell but the first    *)
(* has an earlier one as its parent.  A property of positions is stated as *)
(* the set of the positions that have it, which makes induction, and       *)
(* recursion along the lines, first-order.                                 *)
(***************************************************************************)
EXTENDS Naturals, Sequences, SequenceTheorems, WellFoundedInduction, TLAPS

Less == {p \in Nat \X Nat : p[1] < p[2]}

\* The order of the naturals is well founded.
LEMMA LessWellFounded == IsWellFoundedOn(Less, Nat)
<1> USE DEF OpToRel
<1> QED
  BY NatLessThanWellFounded, Zenon DEF Less

\* A set of naturals that is not empty has a least member.
LEMMA LeastNat ==
  ASSUME NEW T, T \subseteq Nat, T # {}
  PROVE  \E m \in T : \A k \in T : m <= k
<1>1. PICK m \in T : \A k \in T : <<k, m>> \notin Less
  BY LessWellFounded, WFMin
<1>2. ASSUME NEW k \in T
      PROVE  m <= k
  <2>1. <<k, m>> \notin Less
    BY <1>1, <1>2
  <2>2. k \in Nat /\ m \in Nat
    OBVIOUS
  <2>3. ~ k < m
    BY <2>1, <2>2 DEF Less
  <2> QED
    BY <2>2, <2>3
<1> QED
  BY <1>2

\* A set of naturals that is bounded and not empty has a greatest member.
LEMMA GreatestNat ==
  ASSUME NEW n \in Nat, NEW T, T \subseteq 0..n, T # {}
  PROVE  \E m \in T : \A k \in T : k <= m
<1> DEFINE D == {x \in 0..n : n - x \in T}
<1>1. D \subseteq Nat /\ D # {}
  <2>1. PICK k \in T : TRUE
    OBVIOUS
  <2>2. k \in 0..n /\ n - k \in 0..n /\ n - (n - k) = k
    BY <2>1
  <2>3. n - k \in D
    BY <2>1, <2>2
  <2>4. D \subseteq Nat
    OBVIOUS
  <2> HIDE DEF D
  <2> QED
    BY <2>3, <2>4
<1>2. PICK x \in D : \A y \in D : x <= y
  <2> HIDE DEF D
  <2> QED
    BY <1>1, LeastNat
<1>3. ASSUME NEW k \in T
      PROVE  k <= n - x
  <2>1. k \in 0..n /\ n - k \in 0..n /\ n - (n - k) = k
    OBVIOUS
  <2>2. n - k \in D
    BY <2>1
  <2>3. x <= n - k
    BY <1>2, <2>2
  <2> QED
    BY <2>1, <2>3
<1> QED
  BY <1>2, <1>3

\* Induction: what 0 has, and passes on to the next number, every number has.
LEMMA SetInduction ==
  ASSUME NEW S, 0 \in S, \A n \in Nat : n \in S => n + 1 \in S
  PROVE  Nat \subseteq S
<1> SUFFICES ASSUME Nat \ S # {}
             PROVE  FALSE
  OBVIOUS
<1>1. PICK m \in Nat \ S : \A k \in Nat \ S : m <= k
  BY LeastNat
<1>2. m # 0 /\ m - 1 \in Nat /\ m - 1 \in S
  BY <1>1
<1> QED
  BY <1>2

\* Course-of-values induction: what a number has when all below it have it,
\* every number has.
LEMMA LineInduction ==
  ASSUME NEW S, \A n \in Nat : (\A k \in 0..(n - 1) : k \in S) => n \in S
  PROVE  Nat \subseteq S
<1> SUFFICES ASSUME Nat \ S # {}
             PROVE  FALSE
  OBVIOUS
<1>1. PICK m \in Nat \ S : \A k \in Nat \ S : m <= k
  BY LeastNat
<1>2. \A k \in 0..(m - 1) : k \in S
  BY <1>1
<1> QED
  BY <1>1, <1>2
-----------------------------------------------------------------------------
(***************************************************************************)
(* A cell j in M has the parent p[j]; the others found a line.  step says  *)
(* what a cell makes of the value of its parent, base what a founding cell *)
(* starts from.                                                            *)
(***************************************************************************)

\* Parents come before their children.
Earlier(M, p) == \A j \in M \cap Nat : p[j] \in 0..(j - 1)

\* f is the recursion along the lines.
IsRecursion(f, M, p, step, base) ==
  /\ f \in [Nat -> Nat]
  /\ \A j \in Nat : f[j] = IF j \in M THEN step[f[p[j]]] ELSE base[j]

\* f is the recursion along the lines, as far as n.
Recursion(f, M, p, step, base, n) ==
  \A j \in 0..n : f[j] = IF j \in M THEN step[f[p[j]]] ELSE base[j]

\* Two such recursions agree as far as both go.
LEMMA RecursionUnique ==
  ASSUME NEW M, NEW p, NEW step, NEW base, NEW f, NEW g, NEW n \in Nat,
         Earlier(M, p),
         Recursion(f, M, p, step, base, n), Recursion(g, M, p, step, base, n)
  PROVE  \A j \in 0..n : f[j] = g[j]
<1> USE DEF Earlier
<1> DEFINE S == {j \in Nat : j <= n => f[j] = g[j]}
<1>1. ASSUME NEW j \in Nat, \A k \in 0..(j - 1) : k \in S, j <= n
      PROVE  f[j] = g[j]
  <2>1. f[j] = IF j \in M THEN step[f[p[j]]] ELSE base[j]
    BY <1>1 DEF Recursion
  <2>2. g[j] = IF j \in M THEN step[g[p[j]]] ELSE base[j]
    BY <1>1 DEF Recursion
  <2>3. CASE j \in M
    <3>1. p[j] \in 0..(j - 1)
      BY <2>3
    <3>2. f[p[j]] = g[p[j]]
      BY <1>1, <3>1
    <3> QED
      BY <2>1, <2>2, <2>3, <3>2
  <2> QED
    BY <2>1, <2>2, <2>3
<1>2. Nat \subseteq S
  <2>1. \A j \in Nat : (\A k \in 0..(j - 1) : k \in S) => j \in S
    BY <1>1
  <2> HIDE DEF S
  <2> QED
    BY <2>1, LineInduction
<1> QED
  BY <1>2

\* The recursion along the lines of a ledger defines a value for every cell.
LEMMA RecursionExists ==
  ASSUME NEW M, NEW p, NEW step \in [Nat -> Nat], NEW base \in [Nat -> Nat],
         Earlier(M, p)
  PROVE  \E f : IsRecursion(f, M, p, step, base)
<1> USE DEF Earlier
<1> DEFINE R(f, n) == Recursion(f, M, p, step, base, n)
           S == {n \in Nat : \E f \in [Nat -> Nat] : R(f, n)}
<1>1. ASSUME NEW n \in Nat, NEW f \in [Nat -> Nat],
             \A j \in 0..(n - 1) : f[j] = IF j \in M THEN step[f[p[j]]] ELSE base[j]
      PROVE  \E g \in [Nat -> Nat] : R(g, n)
  <2> DEFINE v == IF n \in M THEN step[f[p[n]]] ELSE base[n]
             g == [f EXCEPT ![n] = v]
  <2>1. v \in Nat
    <3>1. n \in M => p[n] \in Nat
      OBVIOUS
    <3>2. n \in M => f[p[n]] \in Nat
      BY <3>1
    <3> QED
      BY <3>2
  <2> HIDE DEF v
  <2>2. g \in [Nat -> Nat] /\ g[n] = v /\ \A j \in 0..(n - 1) : g[j] = f[j]
    BY <2>1
  <2> HIDE DEF g
  <2>3. ASSUME NEW j \in 0..n
        PROVE  g[j] = IF j \in M THEN step[g[p[j]]] ELSE base[j]
    <3>1. j \in M => p[j] \in 0..(n - 1) /\ g[p[j]] = f[p[j]]
      <4>1. j \in M => p[j] \in 0..(j - 1)
        OBVIOUS
      <4>2. j \in M => p[j] \in 0..(n - 1)
        BY <4>1
      <4> QED
        BY <2>2, <4>2
    <3>2. CASE j = n
      BY <2>2, <3>1, <3>2 DEF v
    <3>3. CASE j # n
      <4>1. j \in 0..(n - 1)
        BY <3>3
      <4>2. g[j] = f[j]
        BY <2>2, <4>1
      <4>3. f[j] = IF j \in M THEN step[f[p[j]]] ELSE base[j]
        BY <1>1, <4>1
      <4> QED
        BY <3>1, <4>2, <4>3
    <3> QED
      BY <3>2, <3>3
  <2>4. R(g, n)
    BY <2>3 DEF Recursion
  <2> QED
    BY <2>2, <2>4
<1>2. Nat \subseteq S
  <2>1. 0 \in S
    <3>1. base \in [Nat -> Nat] /\ \A j \in 0..(0 - 1) : FALSE
      OBVIOUS
    <3>2. \E g \in [Nat -> Nat] : R(g, 0)
      BY <1>1, <3>1
    <3> QED
      BY <3>2
  <2>2. ASSUME NEW n \in Nat, n \in S
        PROVE  n + 1 \in S
    <3>1. PICK f \in [Nat -> Nat] : R(f, n)
      BY <2>2
    <3>2. \A j \in 0..((n + 1) - 1) : f[j] = IF j \in M THEN step[f[p[j]]] ELSE base[j]
      BY <3>1 DEF Recursion
    <3>3. \E g \in [Nat -> Nat] : R(g, n + 1)
      <4>1. n + 1 \in Nat
        OBVIOUS
      <4> HIDE DEF R
      <4> QED
        BY <1>1, <3>2, <4>1
    <3> QED
      BY <3>3
  <2> HIDE DEF S
  <2> QED
    BY <2>1, <2>2, SetInduction
<1> DEFINE part(n) == CHOOSE f \in [Nat -> Nat] : R(f, n)
           h == [n \in Nat |-> part(n)[n]]
<1>3. \A n \in Nat : part(n) \in [Nat -> Nat] /\ R(part(n), n)
  BY <1>2
<1> HIDE DEF part
<1>4. h \in [Nat -> Nat]
  BY <1>3
<1>5. ASSUME NEW j \in Nat
      PROVE  h[j] = IF j \in M THEN step[h[p[j]]] ELSE base[j]
  <2>1. part(j)[j] = IF j \in M THEN step[part(j)[p[j]]] ELSE base[j]
    <3>1. R(part(j), j)
      BY <1>3
    <3> QED
      BY <3>1 DEF Recursion
  <2>2. j \in M => part(j)[p[j]] = h[p[j]]
    <3> SUFFICES ASSUME j \in M
                 PROVE  part(j)[p[j]] = h[p[j]]
      OBVIOUS
    <3> DEFINE i == p[j]
    <3>1. i \in Nat /\ i \in 0..i /\ 0..i \subseteq 0..j
      OBVIOUS
    <3> HIDE DEF i
    <3>2. R(part(i), i) /\ R(part(j), i)
      <4>1. R(part(i), i) /\ R(part(j), j)
        BY <1>3, <3>1
      <4> QED
        BY <3>1, <4>1 DEF Recursion
    <3>3. part(j)[i] = part(i)[i]
      BY <3>1, <3>2, RecursionUnique
    <3>4. h[i] = part(i)[i]
      BY <3>1
    <3> QED
      BY <3>3, <3>4 DEF i
  <2> QED
    BY <2>1, <2>2
<1> QED
  BY <1>4, <1>5 DEF IsRecursion
-----------------------------------------------------------------------------
(***************************************************************************)
(* The cell that founded the line of a cell.                               *)
(***************************************************************************)

IsOrigin(f, M, p) ==
  /\ f \in [Nat -> Nat]
  /\ \A j \in Nat : f[j] = IF j \in M THEN f[p[j]] ELSE j

\* Every cell has an origin, and a recursive definition of it names it.
LEMMA OriginExists ==
  ASSUME NEW M, NEW p, Earlier(M, p)
  PROVE  \E f : IsOrigin(f, M, p) /\ f = [j \in Nat |-> IF j \in M THEN f[p[j]] ELSE j]
<1> DEFINE same == [i \in Nat |-> i]
<1>1. same \in [Nat -> Nat]
  OBVIOUS
<1> HIDE DEF same
<1>2. PICK f : IsRecursion(f, M, p, same, same)
  BY <1>1, RecursionExists
<1>3. ASSUME NEW i \in Nat
      PROVE  f[i] = IF i \in M THEN f[p[i]] ELSE i
  <2>1. i \in M => f[p[i]] \in Nat
    BY <1>2 DEF Earlier, IsRecursion
  <2> QED
    BY <1>2, <2>1 DEF same, IsRecursion
<1>4. f = [j \in Nat |-> IF j \in M THEN f[p[j]] ELSE j]
  BY <1>2, <1>3 DEF IsRecursion
<1> QED
  BY <1>2, <1>3, <1>4 DEF IsRecursion, IsOrigin

\* What is defined so is the origin.
LEMMA OriginUnfolds ==
  ASSUME NEW M, NEW p, Earlier(M, p),
         NEW f, f = [j \in Nat |-> IF j \in M THEN f[p[j]] ELSE j]
  PROVE  IsOrigin(f, M, p)
<1>1. \A j \in Nat : f[j] = IF j \in M THEN f[p[j]] ELSE j
  <2> DEFINE g == [j \in Nat |-> IF j \in M THEN f[p[j]] ELSE j]
  <2>1. \A j \in Nat : g[j] = IF j \in M THEN f[p[j]] ELSE j
    OBVIOUS
  <2>2. f = g
    OBVIOUS
  <2> HIDE DEF g
  <2> QED
    BY <2>1, <2>2
<1> DEFINE S == {i \in Nat : f[i] \in Nat}
<1>2. ASSUME NEW i \in Nat, \A k \in 0..(i - 1) : k \in S
      PROVE  f[i] \in Nat
  <2>1. i \in M => p[i] \in 0..(i - 1)
    BY DEF Earlier
  <2> QED
    BY <1>1, <1>2, <2>1
<1>3. \A i \in Nat : (\A k \in 0..(i - 1) : k \in S) => i \in S
  BY <1>2
<1>4. Nat \subseteq S
  <2> HIDE DEF S
  <2> QED
    BY <1>3, LineInduction
<1>5. \A i \in Nat : f[i] \in Nat
  BY <1>4
<1>6. DOMAIN f = Nat /\ f = [i \in Nat |-> f[i]]
  <2>1. PICK g : g = [j \in Nat |-> IF j \in M THEN f[p[j]] ELSE j]
    OBVIOUS
  <2>2. DOMAIN g = Nat /\ g = [i \in Nat |-> g[i]]
    BY <2>1
  <2> QED
    BY <2>1, <2>2
<1>7. f \in [Nat -> Nat]
  BY <1>5, <1>6
<1> QED
  BY <1>1, <1>7 DEF IsOrigin

\* The origin of a cell lies at or before it, is a founding cell, and its own.
LEMMA OriginFounds ==
  ASSUME NEW M, NEW p, NEW f, Earlier(M, p), IsOrigin(f, M, p), NEW j \in Nat
  PROVE  f[j] \in 0..j /\ f[j] \notin M /\ f[f[j]] = f[j]
<1> DEFINE S == {i \in Nat : f[i] \in 0..i /\ f[i] \notin M}
<1>1. ASSUME NEW i \in Nat, \A k \in 0..(i - 1) : k \in S
      PROVE  f[i] \in 0..i /\ f[i] \notin M
  <2>1. CASE i \in M
    <3>1. p[i] \in 0..(i - 1) /\ f[i] = f[p[i]]
      BY <2>1 DEF Earlier, IsOrigin
    <3> DEFINE q == p[i]
    <3>2. q \in S /\ q \in 0..(i - 1) /\ f[i] = f[q]
      BY <1>1, <3>1
    <3> HIDE DEF q
    <3> QED
      BY <3>2
  <2>2. CASE i \notin M
    BY <2>2 DEF IsOrigin
  <2> QED
    BY <2>1, <2>2
<1>2. \A i \in Nat : (\A k \in 0..(i - 1) : k \in S) => i \in S
  BY <1>1
<1>3. j \in S
  <2> HIDE DEF S
  <2> QED
    BY <1>2, LineInduction
<1> QED
  BY <1>3 DEF IsOrigin

\* No cell has two children.
OneChild(M, p) ==
  /\ M \subseteq Nat
  /\ \A a, b \in M : p[a] = p[b] => a = b

\* When no cell has two children, a line does not branch: a cell that another of
\* its line lies beyond has a child, at or before the other.
LEMMA LineGoesOn ==
  ASSUME NEW M, NEW p, NEW f, Earlier(M, p), IsOrigin(f, M, p), OneChild(M, p),
         NEW n \in Nat, NEW j \in 0..(n - 1), f[j] = f[n]
  PROVE  \E m \in M : m <= n /\ p[m] = j
<1> USE DEF OneChild
<1> DEFINE Goes(i) == \A k \in 0..(i - 1) :
                        f[k] = f[i] => \E m \in M : m <= i /\ p[m] = k
           S == {i \in Nat : Goes(i)}
<1>1. ASSUME NEW i \in Nat, \A k \in 0..(i - 1) : k \in S,
             NEW k \in 0..(i - 1), f[k] = f[i]
      PROVE  \E m \in M : m <= i /\ p[m] = k
  <2>1. i \in M
    <3>1. f[k] \in 0..k
      BY OriginFounds
    <3> QED
      BY <1>1, <3>1 DEF IsOrigin
  <2>2. PICK q : q = p[i]
    OBVIOUS
  <2>3. q \in 0..(i - 1) /\ f[q] = f[i]
    BY <2>1, <2>2 DEF Earlier, IsOrigin
  <2>4. Goes(q) /\ Goes(k)
    BY <1>1, <2>3
  <2>5. CASE k = q
    BY <2>1, <2>2, <2>5
  <2>6. CASE k < q
    <3>1. k \in 0..(q - 1) /\ f[k] = f[q]
      BY <1>1, <2>3, <2>6
    <3>2. PICK m \in M : m <= q /\ p[m] = k
      BY <2>4, <3>1
    <3> QED
      BY <2>3, <3>2
  <2>7. CASE q < k
    <3>1. q \in 0..(k - 1) /\ f[q] = f[k]
      BY <1>1, <2>3, <2>7
    <3>2. PICK m \in M : m <= k /\ p[m] = q
      BY <2>4, <3>1
    <3>3. m = i
      BY <2>1, <2>2, <3>2
    <3> QED
      BY <3>2, <3>3
  <2> QED
    BY <2>3, <2>5, <2>6, <2>7
<1>2. \A i \in Nat : (\A k \in 0..(i - 1) : k \in S) => i \in S
  BY <1>1
<1>3. n \in S
  <2> HIDE DEF S
  <2> QED
    BY <1>2, LineInduction
<1> QED
  BY <1>3
-----------------------------------------------------------------------------
(***************************************************************************)
(* Sequences whose entries nobody cares to name a set for.                 *)
(***************************************************************************)

IsSequence(s) == s \in Seq({s[j] : j \in DOMAIN s})

\* A sequence over a set is one over its own entries.
LEMMA SequenceOverSet ==
  ASSUME NEW S, NEW s \in Seq(S)
  PROVE  /\ IsSequence(s)
         /\ Len(s) \in Nat
         /\ DOMAIN s = 1..Len(s)
<1>1. Len(s) \in Nat /\ DOMAIN s = 1..Len(s) /\ s \in [1..Len(s) -> S]
  OBVIOUS
<1>2. s \in [1..Len(s) -> {s[j] : j \in DOMAIN s}]
  BY <1>1
<1>3. s \in Seq({s[j] : j \in DOMAIN s})
  BY <1>1, <1>2
<1> QED
  BY <1>1, <1>3 DEF IsSequence

\* What appending does to a sequence.
LEMMA AppendFacts ==
  ASSUME NEW s, NEW e, IsSequence(s)
  PROVE  /\ Len(s) \in Nat
         /\ DOMAIN s = 1..Len(s)
         /\ IsSequence(Append(s, e))
         /\ Len(Append(s, e)) = Len(s) + 1
         /\ DOMAIN Append(s, e) = 1..(Len(s) + 1)
         /\ \A j \in 1..Len(s) : Append(s, e)[j] = s[j]
         /\ Append(s, e)[Len(s) + 1] = e
<1> DEFINE S == {s[j] : j \in DOMAIN s} \cup {e}
<1>1. s \in Seq({s[j] : j \in DOMAIN s})
  BY DEF IsSequence
<1>2. {s[j] : j \in DOMAIN s} \subseteq S
  OBVIOUS
<1>3. s \in Seq(S) /\ e \in S
  BY <1>1, <1>2, SeqMonotonic
<1> HIDE DEF S
<1>4. Append(s, e) \in Seq(S)
  BY <1>3
<1>5. IsSequence(Append(s, e))
  BY <1>4, SequenceOverSet
<1> QED
  BY <1>3, <1>4, <1>5

\* What a function says after one of its values has changed.
LEMMA OneValueChanged ==
  ASSUME NEW D, NEW f, NEW g, f = [k \in D |-> f[k]], g = [k \in D |-> g[k]],
         NEW s \in D, NEW v, g[s] = v, \A k \in D \ {s} : g[k] = f[k]
  PROVE  g = [f EXCEPT ![s] = v]
<1>1. [f EXCEPT ![s] = v] = [k \in D |-> IF k = s THEN v ELSE f[k]]
  OBVIOUS
<1> QED
  BY <1>1
-----------------------------------------------------------------------------
(***************************************************************************)
(* Sums of amounts, one for each position.                                 *)
(***************************************************************************)

\* u[k] is the sum of the first k amounts.
IsSum(u, amounts, n) ==
  /\ u \in [0..n -> Nat]
  /\ u[0] = 0
  /\ \A k \in 1..n : u[k] = u[k - 1] + amounts[k]

\* Amounts have a sum, and a recursive definition of it names it.
LEMMA SumExists ==
  ASSUME NEW n \in Nat, NEW amounts \in [1..n -> Nat]
  PROVE  \E u : /\ IsSum(u, amounts, n)
                /\ u = [k \in 0..n |-> IF k = 0 THEN 0 ELSE u[k - 1] + amounts[k]]
<1> DEFINE S == {m \in Nat : m <= n => \E u : IsSum(u, amounts, m)}
<1>1. 0 \in S
  <2>1. IsSum([k \in 0..0 |-> 0], amounts, 0)
    BY DEF IsSum
  <2> QED
    BY <2>1
<1>2. ASSUME NEW m \in Nat, m \in S
      PROVE  m + 1 \in S
  <2>1. SUFFICES ASSUME m + 1 <= n
                 PROVE  \E w : IsSum(w, amounts, m + 1)
    OBVIOUS
  <2>2. PICK u : IsSum(u, amounts, m)
    BY <1>2, <2>1
  <2>3. PICK v \in Nat : v = u[m] + amounts[m + 1]
    BY <2>1, <2>2 DEF IsSum
  <2> DEFINE w == [k \in 0..(m + 1) |-> IF k = m + 1 THEN v ELSE u[k]]
  <2>4. w \in [0..(m + 1) -> Nat] /\ w[0] = 0
    BY <2>2 DEF IsSum
  <2>5. ASSUME NEW k \in 1..(m + 1)
        PROVE  w[k] = w[k - 1] + amounts[k]
    <3>1. k - 1 \in 0..m /\ w[k - 1] = u[k - 1]
      OBVIOUS
    <3>2. CASE k = m + 1
      BY <2>3, <3>1, <3>2
    <3>3. CASE k # m + 1
      <4>1. k \in 1..m /\ w[k] = u[k]
        BY <3>3
      <4> QED
        BY <2>2, <3>1, <4>1 DEF IsSum
    <3> QED
      BY <3>2, <3>3
  <2> HIDE DEF w
  <2> QED
    BY <2>4, <2>5 DEF IsSum
<1>3. n \in S
  <2> HIDE DEF S
  <2> QED
    BY <1>1, <1>2, SetInduction
<1>4. PICK u : IsSum(u, amounts, n)
  BY <1>3
<1>5. u = [k \in 0..n |-> IF k = 0 THEN 0 ELSE u[k - 1] + amounts[k]]
  <2>1. u = [k \in 0..n |-> u[k]]
    BY <1>4 DEF IsSum
  <2>2. \A k \in 0..n : u[k] = IF k = 0 THEN 0 ELSE u[k - 1] + amounts[k]
    BY <1>4 DEF IsSum
  <2> QED
    BY <2>1, <2>2
<1> QED
  BY <1>4, <1>5

\* What is defined so is the sum.
LEMMA SumUnfolds ==
  ASSUME NEW n \in Nat, NEW amounts \in [1..n -> Nat], NEW u,
         u = [k \in 0..n |-> IF k = 0 THEN 0 ELSE u[k - 1] + amounts[k]]
  PROVE  IsSum(u, amounts, n)
<1>1. \A k \in 0..n : u[k] = IF k = 0 THEN 0 ELSE u[k - 1] + amounts[k]
  <2> DEFINE v == [k \in 0..n |-> IF k = 0 THEN 0 ELSE u[k - 1] + amounts[k]]
  <2>1. \A k \in 0..n : v[k] = IF k = 0 THEN 0 ELSE u[k - 1] + amounts[k]
    OBVIOUS
  <2>2. u = v
    OBVIOUS
  <2> HIDE DEF v
  <2> QED
    BY <2>1, <2>2
<1> DEFINE S == {k \in Nat : k <= n => u[k] \in Nat}
<1>2. 0 \in S
  BY <1>1
<1>3. ASSUME NEW k \in Nat, k \in S
      PROVE  k + 1 \in S
  <2>1. SUFFICES ASSUME k + 1 <= n
                 PROVE  u[k + 1] \in Nat
    OBVIOUS
  <2>2. k + 1 \in 0..n /\ k + 1 # 0 /\ (k + 1) - 1 = k /\ k + 1 \in 1..n
    BY <2>1
  <2>3. u[k + 1] = u[k] + amounts[k + 1]
    BY <1>1, <2>2
  <2>4. u[k] \in Nat /\ amounts[k + 1] \in Nat
    BY <1>3, <2>1, <2>2
  <2> QED
    BY <2>3, <2>4
<1>4. \A k \in 0..n : u[k] \in Nat
  <2> HIDE DEF S
  <2>1. Nat \subseteq S
    BY <1>2, <1>3, SetInduction
  <2>2. ASSUME NEW k \in 0..n
        PROVE  u[k] \in Nat
    <3>1. k \in S /\ k \in Nat /\ k <= n
      BY <2>1
    <3> QED
      BY <3>1 DEF S
  <2> QED
    BY <2>2
<1>5. u \in [0..n -> Nat]
  <2>1. PICK v : v = [k \in 0..n |-> IF k = 0 THEN 0 ELSE u[k - 1] + amounts[k]]
    OBVIOUS
  <2>2. DOMAIN v = 0..n /\ v = [k \in 0..n |-> v[k]]
    BY <2>1
  <2>3. u = [k \in 0..n |-> u[k]]
    BY <2>1, <2>2
  <2> QED
    BY <1>4, <2>3
<1>6. u[0] = 0
  BY <1>1
<1>7. \A k \in 1..n : u[k] = u[k - 1] + amounts[k]
  BY <1>1
<1> QED
  BY <1>5, <1>6, <1>7 DEF IsSum

\* The amounts are the same but for one position.
SameBut(f, g, n, i) == \A k \in 1..n : k # i => g[k] = f[k]

\* u and w hold the partial sums of the amounts f and g, n amounts each.
AreSums(u, f, w, g, n) ==
  /\ f \in [1..n -> Nat] /\ g \in [1..n -> Nat]
  /\ IsSum(u, f, n) /\ IsSum(w, g, n)

\* Another amount at one position changes the sum by as much.
LEMMA SumChanges ==
  ASSUME NEW n \in Nat, NEW f, NEW g, NEW u, NEW w, AreSums(u, f, w, g, n),
         NEW i \in 1..n, SameBut(f, g, n, i)
  PROVE  u[n] + g[i] = w[n] + f[i]
<1> SUFFICES ASSUME f \in [1..n -> Nat], g \in [1..n -> Nat],
                    IsSum(u, f, n), IsSum(w, g, n)
             PROVE  u[n] + g[i] = w[n] + f[i]
  BY DEF AreSums
<1> DEFINE Good(k) == IF k < i THEN u[k] = w[k] ELSE u[k] + g[i] = w[k] + f[i]
           S == {k \in Nat : k <= n => Good(k)}
<1>1. 0 \in S
  BY DEF IsSum
<1>2. ASSUME NEW k \in Nat, k \in S
      PROVE  k + 1 \in S
  <2>1. SUFFICES ASSUME k + 1 <= n
                 PROVE  Good(k + 1)
    OBVIOUS
  <2>2. k + 1 \in 1..n /\ (k + 1) - 1 = k /\ k \in 0..n
    BY <2>1
  <2>3. /\ u[k + 1] = u[k] + f[k + 1] /\ w[k + 1] = w[k] + g[k + 1]
        /\ u[k] \in Nat /\ w[k] \in Nat /\ f[k + 1] \in Nat /\ g[k + 1] \in Nat
        /\ f[i] \in Nat /\ g[i] \in Nat
    BY <2>2 DEF IsSum
  <2>4. Good(k)
    BY <1>2, <2>1
  <2>5. CASE k + 1 = i
    <3>1. u[k] = w[k]
      BY <2>4, <2>5
    <3>2. PICK a \in Nat, b \in Nat, c \in Nat : a = u[k] /\ b = g[i] /\ c = f[i]
      BY <2>3
    <3>3. u[k + 1] = a + c /\ w[k + 1] = a + b
      BY <2>3, <2>5, <3>1, <3>2
    <3>4. (a + c) + b = (a + b) + c
      OBVIOUS
    <3>5. ~(k + 1 < i)
      BY <2>5
    <3> QED
      BY <3>2, <3>3, <3>4, <3>5
  <2>6. CASE k + 1 # i
    <3>1. g[k + 1] = f[k + 1]
      BY <2>2, <2>6 DEF SameBut
    <3>2. CASE k + 1 < i
      BY <2>3, <2>4, <3>1, <3>2
    <3>3. CASE ~(k + 1 < i)
      <4>1. ~(k < i)
        BY <2>6, <3>3
      <4>2. u[k] + g[i] = w[k] + f[i]
        BY <2>4, <4>1
      <4>3. PICK a \in Nat, b \in Nat, c \in Nat, d \in Nat, e \in Nat :
              /\ a = u[k] /\ b = w[k] /\ c = g[i] /\ d = f[i] /\ e = f[k + 1]
        BY <2>3
      <4>4. a + c = b + d
        BY <4>2, <4>3
      <4>5. (a + e) + c = (b + e) + d
        BY <4>4
      <4>6. u[k + 1] = a + e /\ w[k + 1] = b + e
        BY <2>3, <3>1, <4>3
      <4> QED
        BY <3>3, <4>3, <4>5, <4>6
    <3> QED
      BY <3>2, <3>3
  <2> QED
    BY <2>5, <2>6
<1>3. n \in S
  <2> HIDE DEF S
  <2> QED
    BY <1>1, <1>2, SetInduction
<1> QED
  BY <1>3

\* The same amounts have one sum.
LEMMA SumUnique ==
  ASSUME NEW n \in Nat, NEW f \in [1..n -> Nat],
         NEW u, IsSum(u, f, n), NEW w, IsSum(w, f, n)
  PROVE  u[n] = w[n]
<1>1. CASE n = 0
  BY <1>1 DEF IsSum
<1>2. CASE n # 0
  <2>1. PICK i \in 1..n : SameBut(f, f, n, i)
    BY <1>2 DEF SameBut
  <2>2. AreSums(u, f, w, f, n)
    BY DEF AreSums
  <2>3. u[n] + f[i] = w[n] + f[i]
    BY <2>1, <2>2, SumChanges
  <2>4. u[n] \in Nat /\ w[n] \in Nat /\ f[i] \in Nat
    BY DEF IsSum
  <2> QED
    BY <2>3, <2>4
<1> QED
  BY <1>1, <1>2

\* A sum is one further amount more than the sum before.
LEMMA SumExtends ==
  ASSUME NEW n \in Nat, NEW f \in [1..(n + 1) -> Nat], NEW u, IsSum(u, f, n + 1)
  PROVE  \E w : /\ IsSum(w, [k \in 1..n |-> f[k]], n)
                /\ u[n + 1] = w[n] + f[n + 1]
<1> DEFINE w == [k \in 0..n |-> u[k]]
           g == [k \in 1..n |-> f[k]]
<1>1. w \in [0..n -> Nat] /\ w[0] = 0
  BY DEF IsSum
<1>2. ASSUME NEW k \in 1..n
      PROVE  w[k] = w[k - 1] + g[k]
  BY DEF IsSum
<1>3. u[n + 1] = w[n] + f[n + 1]
  <2>1. n + 1 \in 1..(n + 1) /\ (n + 1) - 1 = n
    OBVIOUS
  <2> QED
    BY <2>1 DEF IsSum
<1> HIDE DEF w, g
<1>4. IsSum(w, g, n)
  BY <1>1, <1>2 DEF IsSum
<1> QED
  BY <1>3, <1>4 DEF g

\* No amount is more than the sum.
LEMMA SumIncludes ==
  ASSUME NEW n \in Nat, NEW f \in [1..n -> Nat], NEW u, IsSum(u, f, n), NEW i \in 1..n
  PROVE  f[i] <= u[n]
<1> DEFINE g == [f EXCEPT ![i] = 0]
<1>1. g \in [1..n -> Nat] /\ g[i] = 0 /\ SameBut(f, g, n, i)
  BY DEF SameBut
<1> HIDE DEF g
<1>2. PICK w : IsSum(w, g, n)
  BY <1>1, SumExists
<1>3. u[n] + g[i] = w[n] + f[i]
  <2>1. AreSums(u, f, w, g, n)
    BY <1>1, <1>2 DEF AreSums
  <2> QED
    BY <1>1, <2>1, SumChanges
<1>4. u[n] \in Nat /\ w[n] \in Nat /\ f[i] \in Nat
  BY <1>2 DEF IsSum
<1> QED
  BY <1>1, <1>3, <1>4

\* The sum of the first n amounts.
SumOf(amounts, n) ==
  LET upto[k \in 0..n] == IF k = 0 THEN 0 ELSE upto[k - 1] + amounts[k]
  IN upto[n]

\* It is one.
LEMMA SumOfIs ==
  ASSUME NEW n \in Nat, NEW amounts \in [1..n -> Nat]
  PROVE  /\ SumOf(amounts, n) \in Nat
         /\ \E u : IsSum(u, amounts, n) /\ SumOf(amounts, n) = u[n]
<1> DEFINE Def(u) == u = [k \in 0..n |-> IF k = 0 THEN 0 ELSE u[k - 1] + amounts[k]]
           upto == CHOOSE u : Def(u)
<1>1. \E u : Def(u)
  BY SumExists
<1>2. Def(upto)
  BY <1>1
<1>3. SumOf(amounts, n) = upto[n]
  BY DEF SumOf
<1> HIDE DEF upto
<1>4. IsSum(upto, amounts, n)
  BY <1>2, SumUnfolds
<1>5. upto[n] \in Nat
  BY <1>4 DEF IsSum
<1> HIDE DEF Def
<1> QED
  BY <1>3, <1>4, <1>5

\* A further amount adds to the sum.
LEMMA SumGrows ==
  ASSUME NEW n \in Nat, NEW f \in [1..n -> Nat], NEW g \in [1..(n + 1) -> Nat],
         \A k \in 1..n : g[k] = f[k]
  PROVE  SumOf(g, n + 1) = SumOf(f, n) + g[n + 1]
<1>1. PICK u : IsSum(u, f, n) /\ SumOf(f, n) = u[n]
  BY SumOfIs
<1>2. PICK w : IsSum(w, g, n + 1) /\ SumOf(g, n + 1) = w[n + 1]
  BY SumOfIs
<1>3. f = [k \in 1..n |-> g[k]]
  OBVIOUS
<1>4. PICK v : IsSum(v, f, n) /\ w[n + 1] = v[n] + g[n + 1]
  BY <1>2, <1>3, SumExtends
<1>5. v[n] = u[n]
  BY <1>1, <1>4, SumUnique
<1> QED
  BY <1>1, <1>2, <1>4, <1>5

\* An amount that goes while a further one comes.
LEMMA SumMoves ==
  ASSUME NEW n \in Nat, NEW f \in [1..n -> Nat], NEW g \in [1..(n + 1) -> Nat],
         NEW i \in 1..n, g[i] = 0, \A k \in 1..n : k # i => g[k] = f[k]
  PROVE  SumOf(g, n + 1) + f[i] = SumOf(f, n) + g[n + 1]
<1> DEFINE h == [k \in 1..n |-> g[k]]
<1>1. h \in [1..n -> Nat] /\ \A k \in 1..n : h[k] = g[k]
  OBVIOUS
<1> HIDE DEF h
<1>2. SumOf(g, n + 1) = SumOf(h, n) + g[n + 1]
  BY <1>1, SumGrows
<1>3. PICK u : IsSum(u, f, n) /\ SumOf(f, n) = u[n]
  BY SumOfIs
<1>4. PICK w : IsSum(w, h, n) /\ SumOf(h, n) = w[n]
  BY <1>1, SumOfIs
<1>5. u[n] + h[i] = w[n] + f[i] /\ h[i] = 0
  <2>1. SameBut(f, h, n, i)
    BY <1>1 DEF SameBut
  <2>2. AreSums(u, f, w, h, n)
    BY <1>1, <1>3, <1>4 DEF AreSums
  <2> QED
    BY <1>1, <2>1, <2>2, SumChanges
<1>6. PICK a \in Nat, b \in Nat, c \in Nat, d \in Nat :
        a = u[n] /\ b = w[n] /\ c = f[i] /\ d = g[n + 1]
  BY <1>3, <1>4 DEF IsSum
<1>7. a = b + c
  BY <1>5, <1>6
<1>8. (b + d) + c = a + d
  BY <1>7
<1> QED
  BY <1>2, <1>3, <1>4, <1>6, <1>8

\* No amount is more than the sum.
LEMMA SumCovers ==
  ASSUME NEW n \in Nat, NEW f \in [1..n -> Nat], NEW i \in 1..n
  PROVE  f[i] <= SumOf(f, n)
BY SumOfIs, SumIncludes
=============================================================================
