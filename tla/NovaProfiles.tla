---------------------------- MODULE NovaProfiles -----------------------------
(***************************************************************************)
(* The profiles that live by signed intents over one ledger each: balances *)
(* (Fungible xUDT), RWA receipts, and the four kinds of seal.  Every       *)
(* profile is deployed on its own; which one a ledger is about is chosen   *)
(* at the start and stays.  The composition gives each profile its         *)
(* constants and states what it promises, among it the abstract            *)
(* specification it implements.                                            *)
(***************************************************************************)
EXTENDS Naturals, Sequences

CONSTANTS
  Widths,       \* the last u64, by kind of profile: "xudt", "rwa" and "seals"
  HeaderLag,    \* how many epochs the presented header may trail the tip
  Keys,         \* BIP340 keys and authority hashes alike
  AssetKeys,    \* those that issue and hold balances and receipts
  XudtOffers,   \* the objects an issuer may be asked to issue
  RwaOffers,    \* the receipts an issuer may be asked to materialise
  RwaPayouts,   \* the payout commitments a wallet may sign
  RwaWallet,    \* what the wallets will sign of an RWA receipt
  SealWallets,  \* what the wallets will sign of a seal, by seal profile
  MaxEpoch,     \* bound: the last epoch of the chain
  MaxLedger,    \* bound: no transaction once the ledger is this long
  MaxSigned     \* bound: no xUDT signature once there are this many

VARIABLES
  profile,  \* the profile this ledger is about
  tip, signed, ledger

vars == <<profile, tip, signed, ledger>>

Xudt == INSTANCE NovaFungibleXudtAccounts
  WITH U64_MAX <- Widths.xudt, Keys <- AssetKeys, Offers <- XudtOffers

Rwa == INSTANCE NovaRwaReceiptConsent
  WITH U64_MAX <- Widths.rwa, Keys <- AssetKeys, Offers <- RwaOffers,
       Payouts <- RwaPayouts, WillSign <- RwaWallet

Seals == INSTANCE NovaSeals
  WITH U64_MAX <- Widths.seals, Wallets <- SealWallets

ASSUME ProfilesAssumption ==
  /\ Widths \in [{"xudt", "rwa", "seals"} -> Nat] /\ HeaderLag \in Nat
  /\ AssetKeys \subseteq Keys
  /\ Xudt!XudtAssumption
  /\ Rwa!RwaAssumption /\ Rwa!WalletAssumption
  /\ Seals!SealsAssumption

IsXudt == profile = "fungible_xudt"
IsRwa  == profile = "rwa_receipt"
IsSeal == profile \in Seals!Profiles

Init ==
  /\ profile \in {"fungible_xudt", "rwa_receipt"} \cup Seals!Profiles
  /\ tip = 0
  /\ signed = {}
  /\ ledger = <<>>

Next ==
  \/ IsXudt /\ Xudt!Next /\ UNCHANGED profile
  \/ IsRwa /\ Rwa!Next /\ UNCHANGED profile
  \/ IsSeal /\ Seals!Next

Spec == Init /\ [][Next]_vars
-----------------------------------------------------------------------------
(***************************************************************************)
(* Properties.                                                             *)
(***************************************************************************)

\* Type invariant: each profile keeps its cells in the shape its script gives
\* them.
TypeOK ==
  /\ IsXudt => Xudt!TypeOK
  /\ IsRwa => Rwa!TypeOK
  /\ IsSeal => Seals!TypeOK

\* amount_conservation and settlement_terminal of the xUDT profile, over whole
\* lines.
SupplyConserved == IsXudt => Xudt!SupplyConserved

\* The receipts of a balance trace its line, and no intent is in it twice.
ReceiptsTraceTheLine == IsXudt => Xudt!ReceiptsTraceTheLine

\* An RWA receipt moves on by the signatures of the issuer and the holder that
\* its materialisation names, on one intent where both are asked.
ConsentOfTheNamed == IsRwa => Rwa!ConsentOfTheNamed

\* The events of an RWA receipt alone tell its story.
EventsTellTheStory == IsRwa => Rwa!EventsTellTheStory

\* A receipt of any seal profile is about the seal that its parties opened.
ReceiptsBindTheSeal == IsSeal => Seals!ReceiptsBindTheSeal

\* Seen through balances alone, the xUDT objects are accounts.
ImplementsAccounts ==
  /\ IsXudt => Xudt!Accounts!Init
  /\ [][IsXudt => [Xudt!Accounts!Next]_Xudt!Accounts!accounts]_vars

\* An RWA receipt is created, claimed and paid out as its parties consented.
ImplementsConsent ==
  /\ IsRwa => Rwa!Promise!Init
  /\ [][IsRwa => [Rwa!Promise!Next]_Rwa!Promise!receipts]_vars

\* A seal of any profile is used once, by all its parties, in its window.
ImplementsSeals ==
  /\ IsSeal => Seals!Seals!Init
  /\ [][IsSeal => [Seals!Seals!Next]_Seals!Seals!vars]_vars
==============================================================================
