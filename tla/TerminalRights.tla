--------------------------- MODULE TerminalRights ----------------------------
(***************************************************************************)
(* What the Agreement profile promises, without cells, hashes, signatures  *)
(* or transactions: a deal is opened once and ends in at most one of two   *)
(* ways.  The borrower's way pays the lender principal and fee and returns *)
(* the collateral; the lender's way, only open after the expiry, pays the  *)
(* lender the collateral and nobody else anything.                         *)
(***************************************************************************)
EXTENDS Naturals

CONSTANTS
  Deals,   \* [collateral, principal, fee, expiry : Nat]
  Slots,   \* the identities of the deals
  Grace,   \* epochs past the expiry in which repayment may still happen
  Horizon  \* bound: the last epoch

VARIABLES
  epoch,
  phase,  \* phase[s]: "none", "open", "repaid" or "defaulted"
  deal,   \* deal[s]: the deal in slot s, once it is open
  paid    \* paid[s]: what the end of the deal paid to each party

rights == <<epoch, phase, deal, paid>>

NoDeal == [collateral |-> 0, principal |-> 0, fee |-> 0, expiry |-> 0]

Nothing == [lender |-> 0, borrower |-> 0]

Init ==
  /\ epoch = 0
  /\ phase = [s \in Slots |-> "none"]
  /\ deal = [s \in Slots |-> NoDeal]
  /\ paid = [s \in Slots |-> Nothing]

Advance ==
  /\ epoch < Horizon
  /\ epoch' = epoch + 1
  /\ UNCHANGED <<phase, deal, paid>>

Open(s, d) ==
  /\ phase[s] = "none"
  /\ epoch <= d.expiry + Grace
  /\ phase' = [phase EXCEPT ![s] = "open"]
  /\ deal' = [deal EXCEPT ![s] = d]
  /\ UNCHANGED <<epoch, paid>>

Repay(s) ==
  /\ phase[s] = "open"
  /\ epoch <= deal[s].expiry + Grace
  /\ phase' = [phase EXCEPT ![s] = "repaid"]
  /\ paid' = [paid EXCEPT ![s] =
       [lender |-> deal[s].principal + deal[s].fee,
        borrower |-> deal[s].collateral]]
  /\ UNCHANGED <<epoch, deal>>

Claim(s) ==
  /\ phase[s] = "open"
  /\ epoch > deal[s].expiry
  /\ phase' = [phase EXCEPT ![s] = "defaulted"]
  /\ paid' = [paid EXCEPT ![s] =
       [lender |-> deal[s].collateral, borrower |-> 0]]
  /\ UNCHANGED <<epoch, deal>>

Next ==
  \/ Advance
  \/ \E s \in Slots, d \in Deals : Open(s, d)
  \/ \E s \in Slots : Repay(s) \/ Claim(s)

Spec == Init /\ [][Next]_rights
==============================================================================
