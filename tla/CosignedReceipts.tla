-------------------------- MODULE CosignedReceipts ---------------------------
(***************************************************************************)
(* What the RWA receipt profile promises, without cells, nonces, hashes or *)
(* transactions: a receipt is created by its issuer, then claimed by its   *)
(* holder, then paid out as both agreed, each before it lapses.            *)
(*                                                                         *)
(* Consent is to a stage of a receipt's content: receipts with the same    *)
(* content share it.                                                       *)
(***************************************************************************)
EXTENDS Naturals

CONSTANTS
  Slots,     \* the identities of receipts
  Contents,  \* what a receipt says, with its issuer, holder and expiry
  Payouts,   \* what a settlement may pay
  Parties,
  Grace,     \* epochs past the expiry in which a receipt has not lapsed yet
  Horizon    \* bound: the last epoch

VARIABLES
  epoch,
  content,  \* content[s]: what receipt s says, or Blank
  stage,    \* stage[s]: 0 blank, 1 materialised, 2 claimed, 3 settled
  payout,   \* payout[s]: how receipt s was settled, or Blank
  consent   \* <<p, c, n, x>>: p agrees to stage n of content c with payout x

receipts == <<epoch, content, stage, payout, consent>>

Blank == [blank |-> TRUE]

Init ==
  /\ epoch = 0
  /\ content = [s \in Slots |-> Blank]
  /\ stage = [s \in Slots |-> 0]
  /\ payout = [s \in Slots |-> Blank]
  /\ consent = {}

Advance ==
  /\ epoch < Horizon
  /\ epoch' = epoch + 1
  /\ UNCHANGED <<content, stage, payout, consent>>

Agree ==
  /\ UNCHANGED <<epoch, content, stage, payout>>
  /\ \E p \in Parties, c \in Contents, n \in 1..3, x \in Payouts :
       consent' = consent \cup {<<p, c, n, x>>}

\* Receipt s, with content c, comes to stage n.
Reach(s, c, n) ==
  /\ stage[s] = n - 1
  /\ epoch <= c.expiry + Grace
  /\ stage' = [stage EXCEPT ![s] = n]

Create(s, c) ==
  /\ Reach(s, c, 1)
  /\ \E x \in Payouts : <<c.issuer, c, 1, x>> \in consent
  /\ content' = [content EXCEPT ![s] = c]
  /\ UNCHANGED <<epoch, payout, consent>>

Claim(s) ==
  /\ Reach(s, content[s], 2)
  /\ \E x \in Payouts : <<content[s].holder, content[s], 2, x>> \in consent
  /\ UNCHANGED <<epoch, content, payout, consent>>

Settle(s, x) ==
  /\ Reach(s, content[s], 3)
  /\ <<content[s].issuer, content[s], 3, x>> \in consent
  /\ <<content[s].holder, content[s], 3, x>> \in consent
  /\ payout' = [payout EXCEPT ![s] = x]
  /\ UNCHANGED <<epoch, content, consent>>

Next ==
  \/ Advance
  \/ Agree
  \/ \E s \in Slots :
       \/ \E c \in Contents : Create(s, c)
       \/ stage[s] = 1 /\ Claim(s)
       \/ stage[s] = 2 /\ \E x \in Payouts : Settle(s, x)

Spec == Init /\ [][Next]_receipts
==============================================================================
