# NovaSeal in TLA+

NovaSeal is a family of CellScript contracts for CKB, a chain of *cells* that
transactions consume and create, with a Rust verifier for BIP340 signatures.
Each contract moves a cell of one kind through a few states. A transition is
accepted when a signed *intent* and the cells around it satisfy the `require`
equalities of the type script. Nothing in the repository keeps state between
two transactions: what makes the contracts work or fail is the order in which
signed intents, headers and competing transactions meet the same cell.

This directory models that. Each profile has a module of its own that holds
the script and the chain, wallets and builders around it. TLC checks small
instances of each; TLAPS proves for every instance the safety of all the
profiles, of the core, of the verifier and of the evidence procedure, that five
abstract specifications are implemented, that the scripts of the agreement and of
the core decide as the models do, and that everything which judges an envelope
judges it as the verifier child does.

## 1. Inventory

Paths are relative to `src/`.

| Component | State | Operations | Where it is modelled |
|---|---|---|---|
| Agreement (`agreement-profile-v0`) | agreement cell: status, nonce, parties, amounts, expiry, latest receipt hash | originate, repay before expiry, claim after expiry | `NovaAgreement`, on explicit transactions `NovaAgreementScript` |
| Core (`v0-mvp-skeleton/src/nova_state_type.cell`, `nova_btc_authority_lock.cell`) | NovaSeal cell: authority, state hash, policy, nonce, latest receipt hash | `key_auth_transition`, guarded by the lock `btc_authority` | `NovaState`, on explicit transactions `NovaStateScript` |
| Core lifecycle (`nova_state_lifecycle_type.cell`) | the same cell with an expiry | bootstrap, transition | `NovaStateLifecycle` |
| BIP340 verifier child (`v0-mvp-skeleton/verifier`) | the words read, the exit code | read the envelope from a pipe, probe for more, decide, exit | `NovaVerifierIpc`, its decision in `NovaIpcEnvelope` |
| Host verifier (`v0-mvp-skeleton/verifier/novaseal_btc_verifier`) | none | verify a digest, an envelope, a file of vectors | `NovaIpcEnvelope`, `NovaEvidence` |
| Fungible xUDT (`fungible-xudt-profile-v0`) | object: holder, amount, nonce, expiry, status | issue, transfer, settle | `NovaFungibleXudt` |
| RWA receipt (`rwa-receipt-profile-v0`) | receipt: issuer, holder, stage, nonce, expiry | materialize, claim, settle | `NovaRwaReceipt` |
| BTC transaction commitment | active or committed cell | initialise, commit | `NovaBtcTransactionCommitment` |
| BTC UTXO seal | active or closed cell | initialise, close | `NovaBtcUtxoSeal` |
| Dual seal | active or finalised cell, maturity and expiry | initialise, finalise | `NovaDualSeal` |
| Fiber candidate | active or settled channel balance | initialise, settle | `NovaFiberCandidate` |
| Receipt and schema packages | none: record declarations | none | their fields, in the modules above |
| Agreement shape evaluator (`tools/src/agreement_shape.rs`) | none: a pure function of a described transaction | evaluate | `NovaAgreementShape` |
| Core harnesses (`v0-mvp-skeleton/harness`) | an emulated pipe and child | build a transaction per fixture, run the programs, report | `NovaSpawnHarness`, `NovaStateFixtures`, `NovaEvidence` |
| Agreement transaction harness (`agreement-profile-v0/harness`) | none of its own | build and run transactions | its builder and reject cases in `NovaAgreementScript`; the older action harness is not modelled (section 8) |
| Evidence tools (`tools/src`) | the files under `target/` | generate vectors, build, measure, report | `NovaEvidence`; the vectors in `NovaIpcEnvelope` and `NovaStateFixtures` |
| Acceptance and build scripts | none | run the certifier, build the verifier | not modelled (section 8) |

**How they interact.** A builder assembles a transaction: the spent cell, the
witness (operation, old cell, intent, signatures), a header dep and the
outputs. CKB runs the type script of the cell. The script compares fields,
hashes packed structures, reads the time as the epoch of header dep 0, and for
each signature spawns the verifier child and feeds it an envelope through a
pipe. The core also runs `btc_authority` on the input. If everything accepts,
the transaction is committed, the input is dead and the outputs are live.
Wallets sign intents at any time. A signature is data: it can be used late,
used again, or used with another cell that happens to look the same.

Beside the chain there is the evidence: tools and harnesses that an operator runs
one after another. They talk through files alone, each reading what others left,
while the sources are edited.

**What is hard.**

- Rival transactions race for a cell: repay and claim, two intents for
  one nonce, two closings of a seal.
- The clock belongs to the builder. `current_timepoint` is the epoch of a
  header the builder names; it cannot be ahead of the tip and may be as far behind
  as the builder likes.
- Intents outlive what they were signed for: the cell moves on, comes back
  to an earlier content, or has a twin with the same content.
- Sums and nonces are u64; a closing path may overflow where the opening path
  did not look.
- Two signatures of one step are given at different times and must be for one
  and the same intent.
- Parent and verifier child are separate VMs that meet at blocking syscalls.
- One question has several answers in code: an envelope is judged by the child,
  the host verifier, the shell report, a harness and the expectation of its
  generator; a core transaction by a source model, two scripts and three harnesses.
- A file of evidence outlives the sources it was made from.

**What correctness means, by component.**

- *Agreement*: an active agreement ends at most once; what is paid is the amounts
  of terms whose origination intent both parties signed; a claim follows the
  expiry, and a repayment shows a header of the expiry or before; receipts form a
  chain; every receipt was authorised by those it names; a willing lender is never left with an
  agreement that the script would let close. The script leaves the builder no field
  to choose but the header, and one signed intent has one outcome.
- *Core*: a signed intent takes effect at most once, on the cell it names; a
  line of cells is a register that only its authority writes, one version at a
  time. Lock and type script leave the builder no field to choose and read none
  differently.
- *Verifier*: the exit code is a function of the bytes sent, never of the
  schedule; the script accepts only if all its signatures verify; nobody waits
  for ever. Everyone who judges an envelope judges it alike, the emulators of the
  harnesses included.
- *Evidence*: after a pass in which every command succeeds and nothing is edited,
  the reports of success are about the sources as they are.
- *xUDT*: amounts are conserved; balances fall only by the holder's mandate.
- *RWA*: three stages, in order, once each; a settlement has the consent of
  issuer and holder to the same payout.
- *Seals*: a seal is used once, by all its parties, in its window; the receipt
  is about the seal that was opened.

## 2. Modules

| Layer | Modules |
|---|---|
| The host chain as the scripts use it: hashes, u64 sums, header epochs | `NovaCkb` |
| One module per component | `NovaAgreement` with `NovaAgreementScript` and `NovaAgreementShape`, `NovaState` with `NovaStateScript`, `NovaStateLifecycle`, `NovaVerifierIpc` with `NovaIpcEnvelope`, `NovaFungibleXudt`, `NovaRwaReceipt`, `NovaBtcTransactionCommitment`, `NovaBtcUtxoSeal`, `NovaDualSeal`, `NovaFiberCandidate` |
| Ledger and wallets shared by the four seal profiles, and their composition | `SealLedger`, `NovaSeals` |
| The six intent profiles together | `NovaProfiles` |
| What the components are tried on, and how | `NovaSpawnHarness`, `NovaStateFixtures`, `NovaEvidence` |
| Abstract specifications | `TerminalRights`, `AuthorityRegister`, `XudtAccounts`, `CosignedReceipts`, `SingleUseSeals` |
| Refinement mappings | `NovaAgreementRights`, `NovaStateRegister`, `NovaFungibleXudtAccounts`, `NovaRwaReceiptConsent`; for the seals, in `NovaSeals` |
| Instances for TLC | `MC*` |
| Proofs | `NovaAgreementProofs` (script and shapes included), `NovaStateProofs`, `NovaStateLifecycleProofs`, `NovaVerifierIpcProofs` (emulators and host judges included), `NovaAssetProofs` (xUDT and RWA), `NovaSealsProofs`, `NovaEvidenceProofs`; lemmas on ledgers, lines and sums in `NovaLineLemmas` |

### Common conventions

- A script that accepts is an action's guard; a transaction that is committed
  is one step. CKB is atomic per transaction, so this is the code's own grain.
- The state of a profile module is `tip` (the epoch of the chain), `signed` (the
  signatures in circulation, which only grows) and the history of
  transactions or cells. Out points are positions in that history. A cell is
  live when nothing has spent it.
- `Tick` advances the chain. A sign action (`Sign`) adds a signature by a key on a
  digest. Every other action is one operation of the script: it picks the
  header among `Presentable(tip)`, asks for the signatures in `signed`, and
  appends.
- Equalities that the builder of the witness can always satisfy, because they
  only pin a witness field to another value of the same transaction, are not
  guards. The pinned field is then computed in place: an intent, a receipt, a
  successor are functions of the cell before and the operation. That is what
  those equalities say. For the agreement this is not taken on trust:
  `NovaAgreementScript` has every field presented by the builder and compared,
  and `ScriptIsTheAction` (checked) and `ScriptDecides` (proved) say that the
  actions accept the same.
- `ckb::hash_data_packed` is an ideal hash: `Hash` is a free constructor. The
  preimage starts with a domain string, the name of the type and the length
  (`v0-mvp-skeleton/docs/RECEIPT_COMMITMENT_SPEC.md`, "Hash Rule"), so structures
  of different types never share one, which is what the constructor says.
- Fields that are carried over and never compared are left out. Constants that
  a witness must equal are gathered in one flag where a test distinguishes them
  (`supported` in the agreement's terms).
- Signatures do not leak secrets: a key signs what the wallets are willing to
  sign (`WillSign`, or any well-formed intent where the instance is small
  enough), and nothing else.

### `NovaAgreement` and `nova_agreement_lifecycle_type.cell`

`Originate(t, now)`, `Repay(i, now)` and `Claim(i, now)` are the three branches
of the script. `OriginateAccepts`, `RepayAccepts` and `ClaimAccepts` gather its
conditions; `Payouts` and `PayoutOutputAccepts` the outputs it checks by
position, data, lock and capacity; `IntentCore`, `CanonicalEnvelopeHash`,
`MaterializedReceiptHash` and `SignedIntentHash` the chain of hashes;
`Successor` and `Receipt` the new cell and receipt. The resource actions of
`nova_agreement_type.cell` make the same checks and have the same effects, and
the actions stand for both forms.

`DocumentedShape = TRUE` is the transaction shape of the harness and the
documents: no agreement input to originate, one to close. With `FALSE` a
transaction may carry more agreement inputs, which the script allows because it
reads group input 0 only.

`NovaAgreementScript` has the transaction as the script sees it: the witnesses,
the header's time, the group input and output, the other outputs.
`OriginateRequires`, `RepayRequires` and `ClaimRequires` are the `require`s one by
one, `Materialize` is the builder, and `RejectCases` the cases of the transaction
harness, each a field changed in an accepted transaction. The harness tries them
on the resource actions and on one agreement; here they are made of every
transition of the run, and of the form the lifecycle script takes. One case,
under-capacity, is the node's to reject and not the script's. `AGREEMENT_OCCUPIED`
and `RECEIPT_OCCUPIED` are what the node counts for these two outputs; the case has
the agreement output one below.

`NovaAgreementShape` has the evaluator of the tools, which judges a described
transaction without witnesses, cells or hashes. `ShapeAgreesWithNode` compares
its verdict with that of script and node, on what the outputs hold above the
occupied capacity that each side counts, and states every difference:

- with the outputs in full (`FullVerdicts`), only the overflow checks differ. The
  evaluator asks principal plus fee to fit of any path, the script of a repayment
  only; the script asks each payout output to fit, the evaluator does not;
- with one output a unit short (`ShortVerdicts`), both refuse, except where it is the
  agreement output of an origination: the evaluator wants the collateral in it,
  script and node accept;
- with one a unit over (`LongVerdicts`), the evaluator refuses and the chain accepts;
- a case about sums alone (`repay_arithmetic_boundary`, `BoundaryVerdicts`) is the
  script's guards on a repayment without those on the payout outputs, for every
  principal, fee and nonce.

`TerminalRights` says what an agreement promises without scripts, intents,
hashes or outputs: a right to repay, a right to claim, and an end.
`NovaAgreementRights` maps each agreement to it.

### `NovaState` and the core scripts

`Transition` is `key_auth_transition` and `btc_authority` on one input, in the
transaction the combined harness builds. A wallet draws up an intent for an out
point from a *view* of the cell there, which may be of another cell. The lock of
the successor is the builder's choice, because no check reads it. Founding
cells carry whatever first receipt hash and nonce their creator wrote.
`AuthorityRegister` is a register with versioned write grants;
`NovaStateRegister` maps each line of cells to one.

`NovaStateScript` has the transaction as the two scripts see it: input, shared
witness, time, outputs. `LockRequires` and `TypeRequires` are the `require`s of
each; the builder presents what an honest one would, with at most one field
changed. `ScriptIsTheTransition` says that together they accept what
`Transition` commits and nothing else.

`NovaStateFixtures` has the fixtures, the source model of
`novaseal-canonical-vectors` that predicts their outcome from flags and
placeholders, and what the combined, the state-type and the parent-lock harness
build for each. A harness alters several cases by the *name* of the fixture.
`FixturesDecided` says, over every cell the ledger can have in the place of the
baseline, that the prediction matches, that each harness finds what it expects,
and that the script that rejects is the one expected.

### `NovaStateLifecycle` and `nova_state_lifecycle_type.cell`

`Bootstrap` and `Transition` are the dispatching script's two branches. The
signed message is a witness field of its own there, which the script does not
tie to the step. The properties therefore say what it does enforce: the terms a
line keeps, the count, and a receipt history that replays the line.

### `NovaVerifierIpc` and the verifier

Every syscall of the child (`inherited_fd`, `pipe_read`, `probe`, `close_fd`,
`Exit`) and of the parent (`Pipe`, `Spawn`, `PipeWrite`, its return or failure,
`CloseWrite`, `Wait`) is an action. A word is one 8-byte write; `Short` is a write
of fewer bytes. The child's code is in the repository. The parent's side of
`require_signature` and the pipe itself are compiled or provided elsewhere, and
are modelled from the parent-lock harness, which issues the same syscalls.

`NovaIpcEnvelope` has the envelope in its parts and everyone who judges one:
`decide_words` of the child, the crates' parser, the host commands, the shell
report's `decision`, and the generators with the verdict they expect. A signature
verifies if it is intact and by the key over the message; curve arithmetic is
not modelled.

`NovaSpawnHarness` has the emulators. They keep the parent's writes and run the
child to its end inside the parent's wait; an emulation takes the syscalls of a
program one after another, and a script its signatures one after another.
`VerdictsAgree` compares every judge on the stream that the interleaved VMs of
`NovaVerifierIpc` have carried, whether a generator made it or not;
`EmulatorAgrees` compares the emulators with the VMs on whole scripts. The stub of
the state-type harness, which answers without a child, is in the second.

### `NovaEvidence`, the tools and the harnesses

Each of the twenty tools is an outcome: the files it wrote and its exit code, as a
function of the sources and of what is on disk. A file is its provenance (which
version of which source went into it) and whether it reports success. `RunTool`
runs the next command of a procedure, the README's twenty-one or the three of the
runbook's Phase 6 (`step` counts those that are over); an operator may go on after a
failure or give up, and anyone may `Edit` a source between two commands. The
compiler, cargo and the curve are external.

### `NovaFungibleXudt`, `NovaRwaReceipt` and the lifecycle scripts

Their actions are the three operations each. Both scripts bind an intent to the fields of
the cell, nonce included, and to no out point; so a replayed first step makes a
twin, and intents for one fit the other. The abstract specifications
allow this: `XudtAccounts` has balances that fall only by a mandate of the
holder, `CosignedReceipts` has receipts that move by the consent of those they
name.

### The seals

`SealLedger` holds what the four profiles share; each profile module has the
guards, intents, cells and receipts of its own script. For the BTC UTXO seal
the lifecycle script leaves a closed cell and the resource action a receipt
only: both are actions. `NovaSeals` chooses a profile in `Init`, so that one
run checks all four against `SingleUseSeals`.

`NovaProfiles` does the same for these four and the two profiles above: one run
checks all six, each with its own constants.

## 3. Runs

`tlc -config <cfg> <module>` for each.

| Run | Module, cfg | What it asks |
|---|---|---|
| `agreement_safety` | `MCNovaAgreement`, `NovaAgreement_safety.cfg` | Two agreements, of two wordings that share an origination intent, headers up to an epoch late, payouts at, below and above the right capacity. Finality, settlement, authorisation, receipt chain, deadlines, one outcome per intent, refinement of `TerminalRights`. |
| `agreement_limits` | `MCNovaAgreement`, `NovaAgreement_limits.cfg` | Terms at the limits of u64 and any committed header. The script decides the transactions around each transition as the actions do, and the harness's cases as the harness expects; evaluator, script and node compared case by case. With fairness, a willing lender gets every closable agreement closed. |
| `agreement_late` | `MCNovaAgreement`, `NovaAgreement_late.cfg` | Violation: a repayment is committed after the expiry, under a header of before it. |
| `agreement_inputs` | `MCNovaAgreement`, `NovaAgreement_inputs.cfg` | Violation: an origination may consume active agreements. |
| `agreement_reuse` | `MCNovaAgreement`, `NovaAgreement_reuse.cfg` | Violation: the signatures of one origination take effect twice. |
| `verifier_ipc` | `MCNovaVerifierIpc`, `NovaVerifierIpc.cfg` | All interleavings of script and child, one or two signatures, streams whole, short, overlong and ragged and every generated vector, any syscall failing. Verdict, outcome, no deadlock, termination; host verifier, shell report, generators and emulators judge alike. |
| `verifier_ipc_length` | `MCNovaVerifierIpc`, `NovaVerifierIpc_length.cfg` | Violation: an envelope with one to seven bytes after it is accepted. |
| `state` | `MCNovaState`, `NovaState.cfg` | Two lines of one key that become alike, a line of another key, stale views, the nonce limit. Replay, authority, receipts, expiry, refinement of `AuthorityRegister`; the scripts decide the transactions around every cell as the action does; source model and harnesses decide the fixtures alike. |
| `lifecycle_safety` | `MCNovaStateLifecycle`, `NovaStateLifecycle_safety.cfg` | What the dispatching script enforces over every sequence of bootstraps and transitions. |
| `lifecycle_expiry` | `MCNovaStateLifecycle`, `NovaStateLifecycle_expiry.cfg` | Violation: a transition after the expiry is accepted. |
| `profiles` | `MCNovaProfiles`, `NovaProfiles.cfg` | xUDT: conservation, replay within a line, history, expiry, refinement of `XudtAccounts`. RWA: consent, order of the stages, expiry, refinement of `CosignedReceipts`. Four seals: receipts, refinement of `SingleUseSeals`. |
| `evidence` | `NovaEvidence`, `NovaEvidence.cfg` | Up to three procedures with two edits at any moment: what one clean pass shows, and what it takes two for. |

The action properties are the refinements: each one says which abstract step, if
any, a step of the script may be, and so what no step may do.

### Bounds, and why they are enough

Bounds are CONSTANTS; the guards that use them are commented as bounds.

- *Agreement*: `U64_MAX` 9 and a payout that occupies 2 leave room for terms
  whose principal plus fee overflows, whose collateral fits u64 and no payout
  output, and for a loan that fits everywhere. `Capacities` {3, 6} are what the
  collateral of its two wordings, 1 and 4, takes in a payout output; 3 is short for every
  other payout and 6 more than enough. The wordings differ in nothing that the intent
  of an origination names. Expiry 1 and `MaxEpoch` 2 give an epoch before, at and after
  the expiry, each with a header that may be late. No term starts later than epoch 0,
  so an origination that is too early is left to the theorems. The occupied capacities
  of node, script and evaluator differ (1 or 2). Two originations (`MaxLedger`) are enough
  for twins and replay; the scripts compare nothing across three cells.
- *Verifier*: an envelope of 5 words for 18, one for each thing that can be wrong
  in it: magic; version, scheme and flags; message; key; signature. The child
  treats all words alike until it has them all. Two fixtures give every kind of
  generated vector, and four streams by hand what no generator makes.
- *Core*: `U64_MAX` 2 with founding nonces 0 and 1, so that one line reaches the
  limit, another passes through the same nonce, and both become alike; 5 cells
  and 2 signatures are enough for two steps of one line or one of each. Around
  every live cell the builder tries each honest transaction and some fifteen
  variants of it.
- *Lifecycle*: `U64_MAX` 1, 3 cells: bootstrap, step to the limit, and a
  second line.
- *xUDT*: four transactions let an object leave its holder, come back and meet
  the earlier signature again, and let a twin from a replayed issue do so.
- *RWA*: four transactions: all three steps of one receipt and the first of its twin,
  in any order.
- *Seals*: four transactions: initialise and close the seal and its twin, or close
  what a closing left. Their `U64_MAX` is 300 since the operation code of an
  initialisation is 255 and nonces stay at 0 and 1. A width of 2 lets a balance reach
  the nonce limit, and 3 lets an RWA receipt pass its stages (`MCWidths`).
- *Evidence*: three procedures are two passes after one that was spoilt or was of the
  other kind, and two edits let a source change and change back.

No script limits the age of a header, so `HeaderLag` is a bound of the model. It is
`MaxEpoch`, which is any committed header, in the agreement runs but `agreement_safety`.
There it is 1, as in the runs of the core and the profiles, so that the epoch of the
chain in what is said of a deadline (`DeadlinesHold`, `StepsAreAuthorised`, the
refinements) is tied to something. A longer lag adds epochs, not cases, since scripts
compare a header with an expiry and with nothing else; the theorems hold for every
lag.

No run uses symmetry: the keys play different parts in the terms.

### Deadlock and fairness

A profile's chain stops at its bounds, so those runs do not check deadlock. The
verifier runs do: there a finished script stutters and every other stop is an error,
so that parent and child never wait for each other.

- `NovaVerifierIpc`: weak fairness of the parent and of the child. The VM
  scheduler runs any VM that is not blocked in a syscall.
- `NovaAgreement` (`FairSpec`, for `EveryAgreementCloses`): epochs advance; a
  lender that is willing to claim does sign; and its claim, once acceptable
  under the tip's own header, is committed. Anyone can build that transaction,
  so it needs nobody but the lender. Nothing is assumed of the borrower, who may
  repay or not, in time or under an old header. Both payout overflow cases are in the instance: terms whose
  repayment overflows still close by the claim; terms whose collateral fits no
  payout output are excluded by `Closable`, and they are stranded.

## 4. Proofs

Every theorem is about the specification with any value of the constants: any set
of keys, terms, offers and wallets, any u64 width, any header lag, ledgers and
streams of any length. Assumptions on the constants (`CkbAssumption`,
`AgreementAssumption`, `StrangerAssumption`, `OccupiedAssumption`, `ShapeAssumption`, `StateAssumption`,
`ZeroHashAssumption`, `LifecycleAssumption`, `EnvelopeAssumption`, `IpcAssumption`,
`ProfilesAssumption`, `EvidenceAssumption`) give them their types, and say that the
stranger and the zero hash of a harness are no party's key (no point of the curve has
the coordinate 0) and a damaged magic is not the magic; TLC evaluates each in the runs
of its module. What else a theorem needs is under "Under".

| Theorem | Property | Under |
|---|---|---|
| `NovaAgreementProofs!TypeCorrect` | `TypeOK` | |
| `Authorisation` | `ReceiptsAreAuthorised` | |
| `Finality` | `TerminalIsFinal` | `DocumentedShape` |
| `Deadlines` | `DeadlinesHold` | `DocumentedShape` |
| `ReceiptChain` | `ReceiptsChain` | `DocumentedShape` |
| `Settlement` | `SettlementAsNegotiated` | `DocumentedShape` |
| `ExactRights` | `ImplementsTerminalRights` (refinement) | `DocumentedShape` |
| `ScriptDecides` | for every transaction what `ScriptIsTheAction` checks on some | `WellFormed` |
| `ActionsOnly` | `ScriptIsTheAction` | |
| `IntentOutcome` | `IntentFixesOutcome` | |
| `HarnessCases` | `HarnessCasesDecided` | `DocumentedShape`, `TermsToldApart` |
| `ShapeAgrees` | `ShapeAgreesWithNode` | |
| `NovaStateProofs!TypeCorrect` | `TypeOK` | |
| `EffectAtMostOnce` | `IntentTakesEffectOnce` | |
| `Authorisation` | `StepsAreAuthorised` | |
| `ReceiptHistory` | `ReceiptsOpenHistory` | |
| `ScriptDecides` | `ScriptIsTheTransition` | |
| `Fixtures` | `FixturesDecided` | |
| `Implementation` | `ImplementsRegister` (refinement) | |
| `NovaStateLifecycleProofs!TypeCorrect` | `TypeOK` | |
| `Replay` | `ReceiptsReplayTheLine` | |
| `NovaVerifierIpcProofs!TypeCorrect` | `TypeOK` | |
| `ExitCode` | `VerdictOfStream` | |
| `Outcomes` | `ScriptOutcome` | |
| `Emulators` | `EmulatorAgrees` | |
| `Verdicts` | `VerdictsAgree` | |
| `NovaEvidenceProofs!TypeCorrect` | `TypeOK` | |
| `CleanPass` | `CleanPassIsEvidence` | |
| `SecondPass` | `SecondPassIsCurrent` | |
| `NovaAssetProofs!SupplyIsConserved` | `SupplyConserved` | |
| `ReceiptsTrace` | `ReceiptsTraceTheLine` | |
| `Mandated` | `ImplementsAccounts` (refinement) | |
| `Consent` | `ConsentOfTheNamed` | |
| `Story` | `EventsTellTheStory` | |
| `Cosigned` | `ImplementsConsent` (refinement) | |
| `NovaSealsProofs!TypeCorrect` | `NovaProfiles!TypeOK`, all six profiles | |
| `Binding` | `ReceiptsBindTheSeal` | |
| `SingleUse` | `ImplementsSeals` (refinement) | |

The hypotheses, and why each is there:

- `DocumentedShape`, the transaction shape of the harness and the documents. It is not a
  convenience: run `agreement_inputs` shows that without it an origination may
  consume agreements.
- `WellFormed`: an intent witness has its three fields and parties are keys, which the
  typed decoding of a witness gives.
- `TermsToldApart`, for the cases of the harness: no two terms make one offer, and none
  has the hash the harness writes for "other terms". A cell does not carry the
  start of its terms; with two terms alike but for it the harness could not show
  which it closes.

### The inductive invariants

The properties are not inductive. Each compares the cell that a transaction
spends with what the transaction that *created* it went through, or with the
founder of its line. That the status was active is known only because an
origination wrote it, that an amount is the one issued only because every transfer
since has kept it. So each inductive invariant keeps the whole history: every entry
of the ledger was accepted, from some earlier entry, under some header, by
signatures that are in circulation still; and no two entries spend one cell.
Signatures only accumulate and entries never change, so what was accepted stays
accepted.

| Module | Invariant | History says of each entry |
|---|---|---|
| `NovaAgreementProofs` | `IInv`: `TypeInv`, `SignedInv`, `HistoryInv`, `SpentOnce` | `Accepted`: it took some path from some terms, with the signatures and payouts the path asks for |
| `NovaStateProofs` | `IInv`: the same parts | a founding cell, or `Moved` by a signed intent from an earlier cell |
| `NovaStateLifecycleProofs` | `IInv`: `TypeInv`, `HistoryInv` | `Explained`: bootstrapped, or moved by a signature |
| `NovaAssetProofs` | `XudtInv`; `RwaInv` | issued, transferred or settled; materialised, claimed or paid out |
| `NovaSealsProofs` | `SealInv`, one for four profiles | it opens a seal, or closes one; `OpensBy` and `ClosesBy` say how for each |

`NovaVerifierIpcProofs` has no ledger. Its `IInv` says that what the child has read, with
what lies in the pipe, is what the parent has begun to write (`ProgressInv`);
that the signatures before this one verified (`RoundsInv`); and where each of the two
programs can be while the other is where it is.

`NovaEvidenceProofs` has none either. What its properties say of the end of a pass is
known only from what was known in the middle of it. Its `IInv` is:

- `PassInv`: while a README pass is under way and unspoilt, every file whose command is
  over is `Fresh` (a report of success about the sources as they are), and the exit
  codes of the harnesses so far have told that the verifier, the lock, the state script
  and the fixtures are good. Four files are excepted in a first pass, `FirstPass` names
  the others: the audit surface, which reads a report of a later command, and the three
  made from it.
- `CleanInv`: after one clean pass the tree is good and all but these four are fresh,
  after two all are. That survives a later pass, failing or not, and the runbook's, since
  a tool that finds what it reads fresh makes a fresh file; an edit takes the count
  back to 0.
- `Counted`: a pass under way is not yet among the clean ones.

### Along whole lines

`Origin`, `Age` and the sums over a ledger are recursive functions over the history,
and facts about them need induction. The library's induction theorems take an
operator as a parameter, which the provers cannot instantiate; `NovaLineLemmas` states
what is needed with sets instead. `LeastNat` gets a least member from the
well-foundedness of `<`; `SetInduction` and `LineInduction` are induction and
course-of-values induction for the set of positions that have a property. From
them come the existence of what a recursive function over positions defines
(`RecursionExists`, `SumExists`), its unfolding, that origins found their lines, and
how a sum changes when an amount goes and another comes (`SumMoves`).

### How the theorems are reached

- *Agreement.* `Spending` turns `IInv` into the fact all the safety theorems use: a spent
  cell is the active agreement of some terms, and the transaction spending it closed
  it along a path open at its header. `ExactAmounts` carries the arithmetic: where the
  script's overflow guards passed, the wrapped sums are the true ones.
  `ScriptDecides` needs no invariant: `IntentDetermined` shows that the intent witness can
  only be `SignedIntent`, `WrittenDetermined` that cell and receipt are the
  `Successor` and `Receipt` of the action, `SignatureDetermined` that an accepted signature
  is one of the named party on that intent. `IntentOutcome` rests on the hash being
  injective: `SameIntent` unfolds two equal digests into equal cores. The
  collateral and the fee of an origination are not in the outcome: its intent has
  them in `terms_hash` alone, whose preimage the script does not open. `HarnessCases` and
  `ActionsOnly` apply `ScriptDecides` to what the harness and the builder make;
  `ShapeAgrees` compares guard with guard, path by path: `OutputsDecide` reduces the
  script's verdict on a transaction with one output changed to that output, and
  `CapacityIgnored` says that the script never looks at the agreement output's capacity.
- *Core.* `EffectAtMostOnce` and `Implementation` rest on the out point in the signed
  intent and on `SpentOnce`. `ScriptDecides` is per live cell: an attempt with one
  field changed fails exactly where the changed field is compared. `Fixtures` does not
  go case by case through scripts. `CaseDecided` shows that, for any fixture, what the
  source model checks and what the scripts require of the transaction built from it are
  the same fourteen conditions. `NamedFails` shows that each of the eleven fixtures fails
  at most one of them, since what its inputs leave alone is the baseline's.
- *Profiles.* `XudtStep`, `RwaStep` and their like say what one step repeats of the
  transaction it takes up; induction along the line does the rest. That a line of
  balances has exactly one end (`XudtLastOfLine`) gives conservation.

- *Verifier.* `WholeVerdict` reduces the interleaved VMs to `decide_words` of the
  stream. `AllDecideAlike` shows that each judge, with its own order of checks, gives
  that verdict on every blob whose length a judge of words sees too (`Framed`).
  `GeneratedVectors` goes through what the generators make: a positive vector is signed,
  a negative has one thing wrong with it, a damaged envelope is refused. An emulation is
  a recursive function; `EmulationExists` gives the states after each syscall,
  `ChildEmulated`, `SignatureEmulated` and `SignatureStubbed` follow them through a
  program for a stream of any length, `ScriptEmulated` through the signatures of a
  script.
- *Evidence.* `Maker`, `Needs` and `Stage` tabulate which tool writes a file, what has
  to be fresh for that, and which command makes it first. `Makes` says, file by file,
  that a tool makes a fresh one if what it needs is fresh and it exits with 0, or
  the sources are good.

The refinements are proved step by step: initial states map to initial states, and each
action to a named action of the abstract specification or to a stutter.

- *Terminal rights*: `OriginationsFit` joins `IInv`, since the mapping has one slot for
  each possible origination.
- *Registers*: a transition is one granted write to the line of its founding cell.
- *Accounts*: a balance is a sum over the ledger, so a transfer has to take from one
  sum what it adds to another (`BalancesAfterStep`); a signature by the authority of its
  intent gives a mandate, any other stutters.
- *Cosigned receipts*: a signature is consent if its intent can still take effect, and a
  stutter if it is for a nonce that will not come.
- *Single-use seals*: an initialisation opens, and a closing uses once. Twins of a
  replayed initialisation are seals of their own.

### Only model-checked

Liveness under fairness, which is out of the prover's reach: `EveryAgreementCloses` and
`Termination`. Every other property of a passing run has its theorem.

## 5. Where the code and its documents disagree

Each has a run that finds the behaviour.

1. **Origination and agreement inputs** (`agreement_inputs`). The script says
   "Origination has no active agreement input"
   (`nova_agreement_lifecycle_type.cell:185`) and reads no group input on
   that path. Active agreements among the inputs end without a terminal path.
2. **Replay of an origination** (`agreement_reuse`).
   `NOVASEAL_ARCHITECTURE_EXPLAINED.md:328` bounds replay by "Nonce, expiry and
   old Cell binding". An origination has nonce 0 and binds no cell: until its
   expiry, the same signatures originate again, at the cost of whoever funds it.
3. **Length of the envelope** (`verifier_ipc_length`).
   `VERIFIER_IPC_CONTRACT.md:26-28` demands rejection of a wrong total length. The
   probe for a nineteenth word rejects a whole word only; one to seven more bytes
   make the read fail, which the child takes for the end.
4. **Expiry in the lifecycle script** (`lifecycle_expiry`). `README.md:66` of
   the skeleton says an expired intent is rejected. `novaseal_lifecycle` carries
   the expiry along and compares it with no clock.
5. **Repayment after the expiry** (`agreement_late`). The agreement's `SECURITY.md:16`
   lists "Repayment only before or at expiry." among the implemented guards, and
   `invariant_matrix.json:20` claims the same. The script compares the expiry with the
   epoch of the header the builder names and asks nothing of its age. Under an old
   header a repayment is committed any number of epochs after the expiry, so that from
   the expiry on it races the claim. `DeadlinesHold` says how far the model's bound on
   headers lets it trail; the claim has no such gap.

Read in the code, without a run:

- The agreement schema gives `terminal_amount` as 0 for an origination; the
  script writes the principal.
- `agreement_shape.rs:14` counts 40 CKB of occupied capacity for a payout,
  the script 300 (`nova_agreement_lifecycle_type.cell:43`). A payout that
  passes the evaluator may fail the script; `ShapeAgreesWithNode` takes off each
  side's own constant, and holds for what is left. For agreement and receipt it counts
  40 and 20 CKB, where the harness takes these as a floor under what the node counts
  (`novaseal_agreement_tx_harness.rs:1280`, `:1285`). The agreement's `SECURITY.md:25-26`
  names the shape harness as the place that checks occupied-capacity floors.
- No check reads the capacity of the agreement output, so the collateral an
  agreement names need not be in its cell; whoever closes provides it. The evaluator
  does ask for it: `ShapeAgreesWithNode` has this difference as its exception.
- The evaluator accepts `repay_principal_max_fee_0_accept` (`agreement_shape.rs:171`), a
  principal of `U64_MAX` and no fee, where the script rejects for want of room in the
  payout output; the note of the case says that these guards are separate.
- The BTC UTXO profile's `SECURITY.md` says a closing creates only a terminal
  receipt; the lifecycle form also leaves a closed cell. It cannot be used
  again, as `ImplementsSeals` shows.
- A dual seal may be initialised with a maturity after its expiry; it can never be
  finalised.
- In the core nothing constrains the lock of a successor: a builder may end a
  line that its authority meant to continue.
- The settlements of xUDT (`nova_fungible_xudt_lifecycle_type.cell:275-353`) and RWA
  (`nova_rwa_receipt_lifecycle_type.cell:457-461`) and the finalisation of a dual seal
  (`nova_dual_seal_type.cell:457-458`) look at no group output; an issue, a
  materialisation and the initialisation of a seal look at no group input; and where
  one cell goes in and one out, index 0 only is read. Conservation, single use and the
  consent to every step rest on the one-object shape of the transactions, which the
  modules assume: a live object among the inputs of an issue would end without mandate.
- The audit surface is written before the combined report that it takes its
  measurements from; one pass of the README's commands leaves it about an older report or
  none, and its blockers are not its exit code. `CleanPassIsEvidence` and
  `SecondPassIsCurrent` say what one and two passes are worth.
- `WALLET_SIGNING_ALIGNMENT.md:83-88` claims readiness of the wallet digest only when,
  among others, the combined harness signs the production message.
  `wallet_alignment.rs:165` looks at the vectors and the source texts alone and reads no
  harness report; only a clean pass puts one of success beside it
  (`CleanPassIsEvidence`).
- The preimage of `terms_hash` is not verified on chain, as the agreement's
  `SECURITY.md` says; so the collateral and the fee that both parties meant are
  theirs to check before they sign a closing.

## 6. Hazards and the properties for them

`PROJECT.json` lists each hazard at its line with its properties. In short:

- races for a cell: `TerminalIsFinal`, `ImplementsTerminalRights`, `ImplementsSeals`;
- the builder's clock: `DeadlinesHold`, `RepaymentOnlyBeforeExpiry` (which fails), and the epochs in `StepsAreAuthorised`,
  `ReceiptsTraceTheLine`, `EventsTellTheStory`;
- replay and twins: `IntentTakesEffectOnce`, `ReceiptsTraceTheLine` and the refinements;
- u64 limits: `SettlementAsNegotiated`, `ImplementsRegister`, `ReceiptsReplayTheLine`,
  `EveryAgreementCloses`;
- two signatures on one intent: `ReceiptsAreAuthorised`, `ConsentOfTheNamed`;
- a comparison left out of a script, or made differently in two: `ScriptIsTheAction`,
  `HarnessCasesDecided`, `ScriptIsTheTransition`, `FixturesDecided`;
- what a signature binds: `IntentFixesOutcome`;
- a second judgement of the same rules: `ShapeAgreesWithNode`, `VerdictsAgree`,
  `EmulatorAgrees`;
- broken history: `ReceiptsChain`, `ReceiptsOpenHistory`, `ReceiptsTraceTheLine`,
  `ReceiptsReplayTheLine`, `EventsTellTheStory`, `ReceiptsBindTheSeal`;
- blocking syscalls: `Termination`, `VerdictOfStream`, `ScriptOutcome`;
- stale or partial evidence: `CleanPassIsEvidence`, `SecondPassIsCurrent`.

Two hazards have no property: a dual seal that can never be finalised, since nothing
promises that it can, and xUDT transactions of several objects, which the profile
leaves out.

## 7. Plan

Done, in this order: the Agreement profile with its refinement and proofs; the
verifier's IPC; the core and its lifecycle script; xUDT and RWA; the four seals;
the agreement's script on explicit transactions, with its proofs, and the
evaluator of shapes; the core's scripts on explicit transactions with their
fixtures, the envelope with everyone who judges it, the emulators, and the
evidence procedure; the six profiles in one composition.

Then the proofs of section 4, in this order: the core; the verifier; the agreement's
refinement; the asset profiles; the seals; the lifecycle script; the harness's cases and
the evaluator of shapes; the accounts; the evidence procedure; the emulators; the judges
of an envelope; the fixtures.

Next, in the model: the lifecycle scripts of the profiles on explicit transactions, as
for the agreement and the core.

## 8. Not modelled

- The text of the reports, the strict predictions of cost, and the reading of assembly
  in `spawn_backend.rs`: they change no verdict that another component reads. Cycle
  counts and transaction sizes of the harnesses.
- `agreement-profile-v0/harness/ckb_vm/src/main.rs`: an older harness of the three
  actions. Its witnesses carry terms, an originator or actor and a receipt hash, and
  none of the intents, signatures and payout hashes that
  `nova_agreement_type.cell` takes; its syscalls offer neither lock args nor a spawned
  verifier. None of its cases is a run of the actions as they stand.
- `novaseal_devnet_stateful_acceptance.sh` and `build_reproducible_release.sh`: what they
  decide rests on programs outside the repository (the certifier plug-in, the summary tool).
- BIP340 itself, hashing, the compiler from CellScript: assumed to do what their
  names say.
- Transactions with several objects of one type, except for the agreement's
  inputs: the harness builds none, and the one-object shape is stated in
  the header of each module, with the branches that would not notice another object.
- Five of the six blockers of the audit surface (`audit_surface.rs:315-329`): runtime
  gaps, the lock, named guards, spawn wiring and the receipt output. They depend on the
  bundle and the source alone, and `NovaEvidence` takes them as clear, as the skeleton's
  `FIELD_GUARD_GAPS.md` and `AUDIT_STATUS.md` report them. `ok` of the surface is the
  sixth, the measurement.
- Chain reorganisations: a committed transaction stays committed.
