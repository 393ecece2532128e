------------------------- MODULE NovaStateRegister ---------------------------
(***************************************************************************)
(* NovaState implements AuthorityRegister: a register is the line of a     *)
(* founding cell, its value and version the state and nonce of the line's  *)
(* last cell, and a grant a signature of the line's authority on an intent *)
(* that describes one of the line's cells as it is.                        *)
(***************************************************************************)
EXTENDS NovaState

Lines == DOMAIN Foundings

LastOf(r) ==
  CHOOSE j \in DOMAIN seals :
    Origin[j] = r /\ \A k \in DOMAIN seals : Origin[k] = r => Age[k] <= Age[j]

IsGrant(s) ==
  LET core == s[2].core
      cell == seals[core.old_cell].cell IN
  /\ s[1] = cell.btc_authority_hash
  /\ s[2] = SignedIntent(core.old_cell, cell, core.new_state_hash, core.expiry)

GrantOf(s) ==
  <<Origin[s[2].core.old_cell], s[2].core.old_nonce,
    s[2].core.new_state_hash, s[2].core.expiry>>

LineFirst ==
  [r \in Lines |-> [value |-> Foundings[r].state_hash,
                    version |-> Foundings[r].nonce]]

LineValue   == [r \in Lines |-> seals[LastOf(r)].cell.state_hash]
LineVersion == [r \in Lines |-> seals[LastOf(r)].cell.nonce]

LineGrants == {GrantOf(s) : s \in {t \in signed : IsGrant(t)}}

Register == INSTANCE AuthorityRegister WITH
  Registers   <- Lines,
  Values      <- States,
  Deadlines   <- Expiries,
  Grace       <- HeaderLag,
  LastVersion <- U64_MAX,
  Horizon     <- MaxEpoch,
  First       <- LineFirst,
  epoch       <- tip,
  value       <- LineValue,
  version     <- LineVersion,
  grants      <- LineGrants

\* Every line of cells behaves as a register that only its founding authority
\* can write, one granted write per version, however signatures are hoarded,
\* replayed, aimed at the wrong cell or overtaken by others.
ImplementsRegister == Register!Spec
==============================================================================
