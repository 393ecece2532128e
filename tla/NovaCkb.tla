------------------------------- MODULE NovaCkb -------------------------------
(***************************************************************************)
(* What every NovaSeal profile script uses of its host chain, modelled     *)
(* from how the scripts and their harnesses use it:                        *)
(*                                                                         *)
(*  - ckb::hash_data_packed: an ideal, collision-free hash.  Hash is a     *)
(*    free constructor, so two digests are equal exactly when the packed   *)
(*    values are, and no packed value hashes to Hash::zero();              *)
(*  - u64 arithmetic, which wraps;                                         *)
(*  - env::current_timepoint(): the epoch number of the header that the    *)
(*    transaction names as header dep 0.  The builder picks that header    *)
(*    among the committed ones, so it is never ahead of the chain's tip,   *)
(*    and no script asks how far it trails it.  HeaderLag is a bound of    *)
(*    the model on that: as large as the chain is long it is no bound, and *)
(*    every committed header can be presented.                             *)
(***************************************************************************)
EXTENDS Naturals

CONSTANTS
  U64_MAX,    \* 2^64 - 1 in the code, a small number in a model
  HeaderLag   \* bound: how many epochs a presented header trails the tip

ASSUME CkbAssumption == U64_MAX \in Nat /\ HeaderLag \in Nat

Hash(x) == [hash_of |-> x]

ZeroHash == [zero |-> TRUE]

\* The sum of two u64 values as the machine computes it.
Add64(x, y) == IF x + y > U64_MAX THEN x + y - (U64_MAX + 1) ELSE x + y

\* The timepoints a transaction committed at epoch tip can present.
Presentable(tip) == {now \in 0..tip : tip - now <= HeaderLag}
==============================================================================
