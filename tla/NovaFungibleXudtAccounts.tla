---------------------- MODULE NovaFungibleXudtAccounts -----------------------
(***************************************************************************)
(* NovaFungibleXudt implements XudtAccounts: the balance of a party is the *)
(* sum over the live objects it holds, and a mandate is a signature by the *)
(* authority that the intent it signs is up to.                            *)
(***************************************************************************)
EXTENDS NovaFungibleXudt

\* A kind of token: two issuers who use one asset_id issue different tokens.
KindOf(x) ==
  [asset_id |-> x.asset_id, xudt_type_hash |-> x.xudt_type_hash,
   issuer |-> x.issuer]

Kinds == {KindOf(o) : o \in Offers}

\* The sum of amounts, one for each transaction of the ledger.
Total(amounts) ==
  LET upto[n \in 0..Len(ledger)] ==
        IF n = 0 THEN 0 ELSE upto[n - 1] + amounts[n]
  IN upto[Len(ledger)]

\* What the objects hold, and what the settlements paid.
Held(kind, party) ==
  [j \in 1..Len(ledger) |->
     IF j \in Live /\ KindOf(ledger[j].cell) = kind /\ ledger[j].cell.holder = party
     THEN ledger[j].cell.amount ELSE 0]

Paid(kind) ==
  [j \in 1..Len(ledger) |->
     IF j \notin Objects /\ KindOf(ledger[j].receipt.core) = kind
     THEN ledger[j].receipt.core.transfer_amount ELSE 0]

Balances == [k \in Kinds |-> [p \in Keys |-> Total(Held(k, p))]]
Redeemed == [k \in Kinds |-> Total(Paid(k))]

\* The authority that an intent is up to.
AuthorityOf(core) ==
  IF core.action = OP_ISSUE THEN core.issuer ELSE core.old_holder

Does == <<"issue", "transfer", "settle">>

MandateOf(core) ==
  [by |-> AuthorityOf(core), does |-> Does[core.action + 1],
   kind |-> KindOf(core), to |-> core.new_holder,
   amount |-> core.transfer_amount, deadline |-> core.expiry]

\* An intent that its authority has signed is a mandate.
Mandates ==
  {MandateOf(s[2]) : s \in {t \in signed : t[1] = AuthorityOf(t[2])}}

Accounts == INSTANCE XudtAccounts WITH
  Parties   <- Keys,
  Outsider  <- ZeroHash,
  Amounts   <- U64,
  Deadlines <- {o.expiry : o \in Offers},
  Grace     <- HeaderLag,
  Horizon   <- MaxEpoch,
  epoch     <- tip,
  balance   <- Balances,
  redeemed  <- Redeemed,
  mandates  <- Mandates

\* Seen through balances alone, the objects are accounts: a balance falls only
\* by its holder's mandate and arrives whole with the party the mandate names,
\* and only the issuer adds to the supply.
ImplementsAccounts == Accounts!Spec
==============================================================================
