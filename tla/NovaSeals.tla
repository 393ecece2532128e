------------------------------ MODULE NovaSeals ------------------------------
(***************************************************************************)
(* The four seal profiles over one ledger, each deployed on its own: which *)
(* one it is, is chosen at the start and stays.  The composition states    *)
(* what they share, and that each of them implements SingleUseSeals.       *)
(***************************************************************************)
EXTENDS NovaCkb, Sequences

CONSTANTS
  Keys,       \* BIP340 keys and authority hashes alike
  Wallets,    \* what the wallets will sign, <<key, core>>, by profile
  MaxEpoch,   \* bound: the last epoch of the chain
  MaxLedger   \* bound: no transaction once the ledger is this long

VARIABLES
  profile,  \* the profile this ledger is about
  tip, signed, ledger

vars == <<profile, tip, signed, ledger>>

Profiles == {"btc_transaction_commitment", "btc_utxo_seal", "dual_seal",
             "fiber_candidate"}

\* What an instance assumes of the constants: the wallets sign intents, whose
\* timepoints are u64 fields.
SealsAssumption ==
  /\ DOMAIN Wallets = Profiles
  /\ \A p \in Profiles : \A s \in Wallets[p] :
       s = <<s[1], s[2]>> /\ s[1] \in Keys /\ s[2].expiry \in 0..U64_MAX
  /\ \A s \in Wallets["dual_seal"] : s[2].maturity \in 0..U64_MAX
  /\ MaxEpoch \in Nat /\ MaxLedger \in Nat

Commitment ==
  INSTANCE NovaBtcTransactionCommitment
    WITH WillSign <- Wallets["btc_transaction_commitment"]

Utxo == INSTANCE NovaBtcUtxoSeal WITH WillSign <- Wallets["btc_utxo_seal"]

Dual == INSTANCE NovaDualSeal WITH WillSign <- Wallets["dual_seal"]

Fiber == INSTANCE NovaFiberCandidate WITH WillSign <- Wallets["fiber_candidate"]

Init ==
  /\ profile \in Profiles
  /\ Commitment!Init

Next ==
  \/ /\ profile = "btc_transaction_commitment"
     /\ Commitment!Next
     /\ UNCHANGED profile
  \/ /\ profile = "btc_utxo_seal"
     /\ Utxo!Next
     /\ UNCHANGED profile
  \/ /\ profile = "dual_seal"
     /\ Dual!Next
     /\ UNCHANGED profile
  \/ /\ profile = "fiber_candidate"
     /\ Fiber!Next
     /\ UNCHANGED profile

Spec == Init /\ [][Next]_vars
-----------------------------------------------------------------------------
(***************************************************************************)
(* Properties.                                                             *)
(***************************************************************************)

\* Type invariant: an active cell has nonce 0 and a closed one nonce 1.
TypeOK ==
  /\ profile = "btc_transaction_commitment" => Commitment!LedgerTypeOK
  /\ profile = "btc_utxo_seal" => Utxo!LedgerTypeOK
  /\ profile = "dual_seal" => Dual!LedgerTypeOK
  /\ profile = "fiber_candidate" => Fiber!LedgerTypeOK

\* A receipt of any profile is about the seal that its parties opened.
ReceiptsBindTheSeal ==
  /\ profile = "btc_transaction_commitment" => Commitment!ReceiptsBindTheSeal
  /\ profile = "btc_utxo_seal" => Utxo!ReceiptsBindTheSeal
  /\ profile = "dual_seal" => Dual!ReceiptsBindTheSeal
  /\ profile = "fiber_candidate" => Fiber!ReceiptsBindTheSeal
-----------------------------------------------------------------------------
(***************************************************************************)
(* The refinement.                                                         *)
(***************************************************************************)

\* The profile an intent is of shows in the authority it names.
Names(core, authority) == authority \in DOMAIN core

PartiesOf(core) ==
  {core[a] : a \in DOMAIN core \cap
     {"committer", "owner", "btc_owner", "ckb_authority", "operator"}}

StateBefore(core) ==
  IF Names(core, "operator") THEN core.old_balance ELSE core.old_state

StateAfter(core) ==
  IF Names(core, "operator") THEN core.new_balance ELSE core.new_state

\* What an intent is about but for the state: the fields that stay.
Identity(core) ==
  [a \in DOMAIN core \cap {"seal", "candidate", "committer", "owner", "btc_owner",
      "ckb_authority", "operator", "channel", "utxo", "maturity", "expiry"} |->
     core[a]]

\* A signed intent as a deed: an initialisation opens the
\* state it leads to, and a closing is about the state it starts from.
Deed(core) ==
  LET opens == core.action = Commitment!OP_INITIALIZE IN
  [opens |-> opens, parties |-> PartiesOf(core),
   subject |-> <<Identity(core),
                 IF opens THEN StateAfter(core) ELSE StateBefore(core)>>,
   from |-> IF Names(core, "maturity") THEN core.maturity ELSE 0,
   until |-> core.expiry, body |-> core]

Openings == {j \in DOMAIN ledger : ledger[j].spent = {}}

UseOf(id) ==
  LET uses == {j \in DOMAIN ledger : id \in ledger[j].spent} IN
  IF uses = {} THEN [unused |-> TRUE]
  ELSE Deed(ledger[CHOOSE j \in uses : TRUE].receipt.core)

SealDeeds    == {Deed(s[2]) : s \in UNION {Wallets[p] : p \in Profiles}}
SealMandates == {<<s[1], Deed(s[2])>> : s \in signed}
SealsInUse   == [id \in Openings |->
                   [opening |-> Deed(ledger[id].core), use |-> UseOf(id)]]

Seals == INSTANCE SingleUseSeals WITH
  Deeds    <- SealDeeds,
  Ids      <- 1..MaxLedger,
  Lag      <- HeaderLag,
  clock    <- tip,
  mandates <- SealMandates,
  seals    <- SealsInUse

\* Each profile implements SingleUseSeals.  single_use_closure and
\* single_use_finalization: whatever intents for it are signed and in whatever
\* order they come, a seal is used once.
ImplementsSeals == Seals!Spec
==============================================================================
