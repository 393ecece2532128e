-------------------------- MODULE AuthorityRegister ---------------------------
(***************************************************************************)
(* What the NovaSeal core promises, without cells, hashes, signatures or   *)
(* transactions: a set of registers, each with a version that only its     *)
(* writes advance.  The owner grants a write for one version; the write    *)
(* takes effect while that version is current and before the grant lapses, *)
(* or never.                                                               *)
(***************************************************************************)
EXTENDS Naturals

CONSTANTS
  Registers, Values,
  Deadlines,   \* the deadlines a grant may carry
  Grace,       \* epochs past its deadline in which a grant may still be used
  LastVersion, \* a register at this version is never written again
  Horizon,     \* bound: the last epoch
  First        \* First[r]: the value and version r starts from

VARIABLES
  epoch,
  value, version,
  grants  \* <<r, v, x, d>>: at version v, register r may be set to x by d

register == <<epoch, value, version, grants>>

Init ==
  /\ epoch = 0
  /\ value = [r \in Registers |-> First[r].value]
  /\ version = [r \in Registers |-> First[r].version]
  /\ grants = {}

Advance ==
  /\ epoch < Horizon
  /\ epoch' = epoch + 1
  /\ UNCHANGED <<value, version, grants>>

\* The owner may grant writes for the current version or for one gone by.
Grant(r, v, x, d) ==
  /\ v <= version[r]
  /\ grants' = grants \cup {<<r, v, x, d>>}
  /\ UNCHANGED <<epoch, value, version>>

Write(r, x, d) ==
  /\ <<r, version[r], x, d>> \in grants
  /\ version[r] < LastVersion
  /\ epoch <= d + Grace
  /\ value' = [value EXCEPT ![r] = x]
  /\ version' = [version EXCEPT ![r] = version[r] + 1]
  /\ UNCHANGED <<epoch, grants>>

Next ==
  \/ Advance
  \/ \E r \in Registers, x \in Values, d \in Deadlines :
       \/ \E v \in 0..version[r] : Grant(r, v, x, d)
       \/ Write(r, x, d)

Spec == Init /\ [][Next]_register
==============================================================================
