---------------------------- MODULE XudtAccounts -----------------------------
(***************************************************************************)
(* What the Fungible xUDT profile promises, without objects, nonces,       *)
(* hashes or transactions: accounts per kind of token.  A party that wants *)
(* its tokens to move gives a mandate, and no balance falls without one.   *)
(*                                                                         *)
(* A mandate may be used again: a signed intent fits every balance object  *)
(* with the same fields, and an issuer's fits as often as it is delivered. *)
(***************************************************************************)
EXTENDS Naturals

CONSTANTS
  Kinds, Parties, Amounts,
  Outsider,   \* nobody: a mandate that names it is never used
  Deadlines,  \* the deadlines a mandate may carry
  Grace,      \* epochs past its deadline in which a mandate may be used
  Horizon     \* bound: the last epoch

VARIABLES
  epoch,
  balance,   \* balance[k][p]: what party p holds of kind k
  redeemed,  \* redeemed[k]: what has been taken out of circulation
  mandates   \* what the parties have agreed to

accounts == <<epoch, balance, redeemed, mandates>>

Mandate ==
  [by : Parties, does : {"issue", "transfer", "settle"}, kind : Kinds,
   to : Parties \cup {Outsider}, amount : Amounts, deadline : Deadlines]

Init ==
  /\ epoch = 0
  /\ balance = [k \in Kinds |-> [p \in Parties |-> 0]]
  /\ redeemed = [k \in Kinds |-> 0]
  /\ mandates = {}

Advance ==
  /\ epoch < Horizon
  /\ epoch' = epoch + 1
  /\ UNCHANGED <<balance, redeemed, mandates>>

Give ==
  /\ UNCHANGED <<epoch, balance, redeemed>>
  /\ \E m \in Mandate : mandates' = mandates \cup {m}

InTime(m) == epoch <= m.deadline + Grace

\* Only the issuer of the kind adds to what is in circulation.
Issue(m) ==
  /\ m.does = "issue" /\ m.by = m.kind.issuer /\ m.to # Outsider
  /\ InTime(m)
  /\ balance' = [balance EXCEPT ![m.kind][m.to] = @ + m.amount]
  /\ UNCHANGED <<epoch, redeemed, mandates>>

Transfer(m) ==
  /\ m.does = "transfer" /\ InTime(m)
  /\ m.to \notin {m.by, Outsider}
  /\ balance[m.kind][m.by] >= m.amount
  /\ balance' = [balance EXCEPT ![m.kind][m.by] = @ - m.amount,
                                ![m.kind][m.to] = @ + m.amount]
  /\ UNCHANGED <<epoch, redeemed, mandates>>

Settle(m) ==
  /\ m.does = "settle" /\ InTime(m)
  /\ balance[m.kind][m.by] >= m.amount
  /\ balance' = [balance EXCEPT ![m.kind][m.by] = @ - m.amount]
  /\ redeemed' = [redeemed EXCEPT ![m.kind] = @ + m.amount]
  /\ UNCHANGED <<epoch, mandates>>

Next ==
  \/ Advance
  \/ Give
  \/ \E m \in mandates : Issue(m) \/ Transfer(m) \/ Settle(m)

Spec == Init /\ [][Next]_accounts
==============================================================================
