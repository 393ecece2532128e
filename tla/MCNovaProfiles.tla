--------------------------- MODULE MCNovaProfiles ----------------------------
(***************************************************************************)
(* A small instance of NovaProfiles for TLC.  alice issues and bob holds   *)
(* what is issued; mallory is a party that is not asked.                   *)
(***************************************************************************)
EXTENDS NovaProfiles

CONSTANTS alice, bob, mallory  \* model values

\* A nonce can reach the limit of a balance, and pass every stage of an RWA
\* receipt; an initialisation of a seal is operation 255.
MCWidths == [xudt |-> 2, rwa |-> 3, seals |-> 300]
-----------------------------------------------------------------------------
(***************************************************************************)
(* Fungible xUDT: one object to issue; an object issued to nobody, and one *)
(* of another amount than its receipt says, may not come to be.            *)
(***************************************************************************)

\* For the hash that stands for nobody.
Ckb == INSTANCE NovaCkb WITH U64_MAX <- MCWidths.xudt

Gold ==
  [asset_id |-> "gold", xudt_type_hash |-> "xudt", issuer |-> alice,
   holder |-> bob, transfer_amount |-> 2, new_amount |-> 2, expiry |-> 0]

Unheld   == [Gold EXCEPT !.holder = Ckb!ZeroHash]
Mismatch == [Gold EXCEPT !.new_amount = 1]

MCXudtOffers == {Gold, Unheld, Mismatch}
-----------------------------------------------------------------------------
(***************************************************************************)
(* RWA receipts: each party may sign each operation; the parties may       *)
(* settle either way, and sign a settlement for the nonce before the claim.*)
(***************************************************************************)

RwaDeed ==
  [receipt_id |-> "deed", papers |-> "papers", issuer |-> alice,
   holder |-> bob, amount |-> 2, expiry |-> 0]

MCRwaOffers == {RwaDeed}

\* The intents, whoever signs them.
RwaCores ==
  INSTANCE NovaRwaReceipt
    WITH U64_MAX <- MCWidths.rwa, Offers <- {}, Payouts <- {}, WillSign <- {}

MCRwaWallet ==
  {alice, bob} \X
    ({RwaCores!MaterializeCore(RwaDeed, "cash"),
      RwaCores!StepCore(RwaCores!OP_CLAIM, RwaDeed, 0, "cash"),
      RwaCores!StepCore(RwaCores!OP_SETTLE, RwaDeed, 0, "cash")}
       \cup {RwaCores!StepCore(RwaCores!OP_SETTLE, RwaDeed, 1, x) : x \in RwaPayouts})
-----------------------------------------------------------------------------
(***************************************************************************)
(* The seals: each profile has one thing to open, two rival closings of    *)
(* it, a closing of what the first closing leaves and closings that must   *)
(* be refused.                                                             *)
(***************************************************************************)

NoWallets ==
  [btc_transaction_commitment |-> {}, btc_utxo_seal |-> {}, dual_seal |-> {},
   fiber_candidate |-> {}]

\* The intents, whoever signs them.
SealCores == INSTANCE NovaSeals WITH U64_MAX <- MCWidths.seals, Wallets <- NoWallets

\* The cell a first closing to state leaves, as far as a wallet cares.
After(cell, state) == [cell EXCEPT !.state = state, !.nonce = 1]

State0 == Ckb!Hash("s0")
State1 == Ckb!Hash("s1")
State2 == Ckb!Hash("s2")

Tx1 == [txid |-> "tx1"]
Tx2 == [txid |-> "tx2"]

CommitmentOffer ==
  [seal |-> "seal", committer |-> alice, state |-> State0, nonce |-> 0,
   expiry |-> 0]

CommitmentWallet ==
  {alice} \X
    {SealCores!Commitment!InitializeCore(CommitmentOffer),
     SealCores!Commitment!CommitCore(CommitmentOffer, Tx1, State1),
     SealCores!Commitment!CommitCore(CommitmentOffer, Tx2, State2),
     SealCores!Commitment!CommitCore(CommitmentOffer, SealCores!Commitment!NoTx, State1),
     SealCores!Commitment!CommitCore(After(CommitmentOffer, State1), Tx2, State2)}

Spend1 == [txid |-> "spend1"]
Spend2 == [txid |-> "spend2"]

UtxoOffer ==
  [seal |-> "seal", owner |-> alice, utxo |-> "coin", state |-> State0,
   nonce |-> 0, expiry |-> 0]

UtxoWallet ==
  {alice} \X
    {SealCores!Utxo!InitializeCore(UtxoOffer),
     SealCores!Utxo!CloseCore(UtxoOffer, "coin", Spend1, State1),
     SealCores!Utxo!CloseCore(UtxoOffer, "coin", Spend2, State2),
     SealCores!Utxo!CloseCore(UtxoOffer, "other coin", Spend1, State1),
     SealCores!Utxo!CloseCore(After(UtxoOffer, State1), "coin", Spend2, State2)}

DualOffer ==
  [seal |-> "seal", btc_owner |-> alice, ckb_authority |-> bob,
   utxo |-> "coin", state |-> State0, nonce |-> 0, maturity |-> 1, expiry |-> 1]

DualWallet ==
  {alice, bob} \X
    {SealCores!Dual!InitializeCore(DualOffer),
     SealCores!Dual!FinalizeCore(DualOffer, Spend1, State1),
     SealCores!Dual!FinalizeCore(DualOffer, Spend2, State2)}

Balance0 == Ckb!Hash("b0")
Balance1 == Ckb!Hash("b1")
Balance2 == Ckb!Hash("b2")

Payment1 == [payment_hash |-> "pay1"]
Payment2 == [payment_hash |-> "pay2"]

FiberOffer ==
  [candidate |-> "candidate", operator |-> alice, channel |-> "channel",
   balance |-> Balance0, nonce |-> 0, expiry |-> 0]

FiberWallet ==
  {alice} \X
    {SealCores!Fiber!InitializeCore(FiberOffer),
     SealCores!Fiber!SettleCore(FiberOffer, Payment1, Balance1),
     SealCores!Fiber!SettleCore(FiberOffer, Payment2, Balance2),
     SealCores!Fiber!SettleCore(FiberOffer, Payment1, Balance0),
     SealCores!Fiber!SettleCore([FiberOffer EXCEPT !.balance = Balance1, !.nonce = 1],
                            Payment2, Balance2)}
  \cup {<<mallory, SealCores!Fiber!SettleCore(FiberOffer, Payment2, Balance2)>>}

MCSealWallets ==
  [btc_transaction_commitment |-> CommitmentWallet, btc_utxo_seal |-> UtxoWallet,
   dual_seal |-> DualWallet, fiber_candidate |-> FiberWallet]
==============================================================================
