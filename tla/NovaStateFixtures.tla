------------------------- MODULE NovaStateFixtures ---------------------------
(***************************************************************************)
(* The v0 fixtures, the source model that predicts their outcome           *)
(* (novaseal-canonical-vectors), and the three harnesses that build a      *)
(* transaction of a fixture and run the compiled scripts on it.            *)
(*                                                                         *)
(* A fixture is a name and the inputs it gives; what it does not give is   *)
(* filled in from a baseline.  The source model judges those inputs, most  *)
(* of them flags and placeholders; a harness builds a real transaction,    *)
(* for several fixtures by their name and not from their inputs.  The two  *)
(* are tied together by nothing but the verdicts.                          *)
(*                                                                         *)
(* The code has one baseline cell; here it is any cell of the ledger.      *)
(***************************************************************************)
EXTENDS NovaStateScript

\* The zero hash, which a harness shows where it has no key, is nobody's.
ASSUME ZeroHashAssumption == ZeroHash \notin Keys

Placeholder(text) == Hash([placeholder |-> text])

Other(S, x) == CHOOSE y \in S : y # x
-----------------------------------------------------------------------------
(***************************************************************************)
(* The fixtures, with cell i in the place of the baseline cell.            *)
(***************************************************************************)

baseline(i) ==
  LET cell == seals[i].cell IN
  [old_cell |-> CellData(cell),
   intent |->
     Over(IntentCore(<<i, 0>>, cell, Other(States, cell.state_hash), U64_MAX),
          [expected_receipt_hash |-> Placeholder("receipt")]),
   current_timepoint |-> 1,
   actual_old_cell |-> <<i, 0>>,
   btc_signature |-> "valid",
   btc_authority_pubkey_matches |-> TRUE,
   lock_args_authority_matches |-> TRUE,
   proposed_new_cell |-> <<>>]

NamedInputs(i) ==
  LET cell == seals[i].cell IN
  [keyauth_transfer_valid |->
     [old_cell |-> [nonce |-> cell.nonce],
      intent |-> [nonce |-> Add64(cell.nonce, 1),
                  receipt_hash |-> Placeholder("receipt...")],
      btc_signature |-> "valid"],
   authority_hash_mapping_mismatch_reject |->
     [lock_args_authority_matches |-> FALSE],
   authority_rotation_without_explicit_action_reject |->
     [proposed_new_cell |-> [btc_authority_hash |-> Stranger]],
   expired_intent_reject |->
     [intent |-> [expiry |-> 0], current_timepoint |-> 1],
   old_outpoint_index_mismatch_reject |->
     [intent |-> [old_cell |-> <<i, 1>>], actual_old_cell |-> <<i, 0>>],
   old_outpoint_tx_hash_mismatch_reject |->
     [intent |-> [old_cell |-> <<i, 0>>], actual_old_cell |-> <<i + 1, 0>>],
   policy_hash_mismatch_reject |->
     [old_cell |-> [policy_hash |-> cell.policy_hash],
      intent |-> [policy_hash |-> Other(Policies, cell.policy_hash)]],
   receipt_hash_mismatch_reject |->
     [intent |-> [receipt_hash |-> Placeholder("claimed")],
      actual_receipt_hash |-> Placeholder("actual")],
   replay_nonce_reject |->
     [intent |-> [nonce |-> cell.nonce], old_cell |-> [nonce |-> cell.nonce]],
   wrong_pubkey_valid_signature_reject |->
     [btc_signature |-> "valid", btc_signature_result |-> TRUE,
      btc_authority_pubkey_matches |-> FALSE],
   wrong_signature_reject |-> [btc_signature |-> "invalid"]]

\* Inputs nobody wrote a fixture for, of the kind that a harness reads.
FurtherInputs(i) ==
  LET cell == seals[i].cell IN
  [other_state |-> [intent |-> [old_state_hash |-> Other(States, cell.state_hash)]],
   other_nonce |-> [intent |-> [old_nonce |-> Add64(cell.nonce, 1)]],
   moved_on    |-> [old_cell |-> [nonce |-> Add64(cell.nonce, 1)]],
   last_nonce  |-> [old_cell |-> [nonce |-> U64_MAX],
                    intent |-> [old_nonce |-> U64_MAX, new_nonce |-> 0]],
   other_line  |-> [old_cell |-> [policy_hash |-> Other(Policies, cell.policy_hash)]],
   last_moment |-> [intent |-> [expiry |-> 1]]]

Inputs(i) == Over(NamedInputs(i), FurtherInputs(i))
-----------------------------------------------------------------------------
(***************************************************************************)
(* novaseal-canonical-vectors.                                             *)
(***************************************************************************)

Objects == {"old_cell", "intent", "proposed_new_cell"}

merge(base, patch) ==
  Over(base, [f \in DOMAIN patch |->
                IF f \in Objects THEN Over(base[f], patch[f]) ELSE patch[f]])

\* What the inputs give under a name, or else a default.
Given(inputs, f, default) == IF f \in DOMAIN inputs THEN inputs[f] ELSE default

normalize(i, inputs) ==
  LET merged == merge(baseline(i), inputs)
      raw    == Given(inputs, "intent", <<>>)
      alias(old, new) ==
        IF old \in DOMAIN raw /\ new \notin DOMAIN raw THEN raw[old]
        ELSE merged.intent[new]
      intent == Over(merged.intent,
        [new_nonce |-> alias("nonce", "new_nonce"),
         expected_receipt_hash |-> alias("receipt_hash", "expected_receipt_hash")])
  IN Over(merged,
       [intent |-> intent,
        materialized_receipt_hash |->
          Given(inputs, "actual_receipt_hash", intent.expected_receipt_hash),
        state_hash_commitment |->
          Given(inputs, "state_hash_commitment", Hash(intent.new_state_hash)),
        signature_ok |->
          Given(inputs, "btc_signature_result", merged.btc_signature = "valid")])

\* What is checked, in order, and the failure each check stands for.
checks(model) ==
  LET old == model.old_cell
      intent == model.intent
      proposed == Given(model.proposed_new_cell, "btc_authority_hash",
                        old.btc_authority_hash)
  IN
  << <<model.signature_ok, "btc_signature_verification_failed">>,
     <<model.lock_args_authority_matches, "authority_hash_mapping_mismatch">>,
     <<model.btc_authority_pubkey_matches, "btc_authority_pubkey_mismatch">>,
     <<intent.old_cell[1] = model.actual_old_cell[1], "old_outpoint_tx_hash_mismatch">>,
     <<intent.old_cell[2] = model.actual_old_cell[2], "old_outpoint_index_mismatch">>,
     <<intent.old_state_hash = old.state_hash, "state_hash_mismatch">>,
     <<model.state_hash_commitment = Hash(intent.new_state_hash),
       "state_hash_commitment_mismatch">>,
     <<intent.policy_hash = old.policy_hash, "policy_hash_mismatch">>,
     <<intent.old_nonce = old.nonce, "old_nonce_mismatch">>,
     <<old.nonce < U64_MAX, "nonce_overflow">>,
     <<intent.new_nonce = old.nonce + 1, "nonce_must_increment">>,
     <<model.current_timepoint <= intent.expiry, "intent_expired">>,
     <<model.materialized_receipt_hash = intent.expected_receipt_hash,
       "receipt_hash_mismatch">>,
     <<proposed = old.btc_authority_hash, "implicit_authority_rotation">> >>

\* The first check that fails decides.
model_result(model) ==
  LET results == checks(model)
      failing == {k \in DOMAIN results : ~results[k][1]}
  IN IF failing = {} THEN "accepted"
     ELSE results[CHOOSE k \in failing : \A j \in failing : k <= j][2]

core_values(model) == encode_struct("NovaSealIntentCoreV0", model.intent)

cell_commitment(old, core) ==
  Over(old, [state_hash |-> core.new_state_hash, nonce |-> core.new_nonce,
             expiry |-> core.expiry])

receipt_commitment(core, new_cell_hash, intent_hash) ==
  Over(core, [new_cell_commitment |-> new_cell_hash, intent_core_hash |-> intent_hash])

receipt_values(model, core, new_cell_hash, intent_hash, signed_hash) ==
  Over(receipt_commitment(core, new_cell_hash, intent_hash),
       [signed_intent_hash |-> signed_hash,
        signer_authority_hash |-> model.old_cell.btc_authority_hash,
        expiry |-> core.expiry])

SignedValues(core, receipt_hash) ==
  encode_struct("NovaSealSignedIntentV0",
                [core |-> core, expected_receipt_hash |-> receipt_hash])

\* The intent with the receipt hash that the transition really has.
resolved(model) ==
  LET core == core_values(model)
      intent_hash == Hash(core)
      new_hash == Hash(encode_struct("NovaSealCellCommitmentV0",
                                     cell_commitment(model.old_cell, core)))
      receipt_hash == Hash(encode_struct("ProofReceiptCommitmentV0",
                             receipt_commitment(core, new_hash, intent_hash)))
      intent == SignedValues(core, receipt_hash)
  IN [receipt_hash |-> receipt_hash,
      intent |-> intent,
      receipt |-> encode_struct("ProofReceiptV0",
        receipt_values(model, core, new_hash, intent_hash, Hash(intent)))]

fixture_vector(i, name, inputs) ==
  LET model == normalize(i, inputs) IN
  [fixture |-> name, inputs |-> inputs,
   source_model_result |-> model_result(model),
   old_cell |-> encode_struct("NovaSealCellV0", model.old_cell),
   declared_intent |->
     SignedValues(core_values(model), model.intent.expected_receipt_hash),
   resolved |-> resolved(model)]
-----------------------------------------------------------------------------
(***************************************************************************)
(* The combined harness: one transaction with the lock and the type script *)
(* for each vector.  The authority of its cells is a key it holds.         *)
(***************************************************************************)

\* Mutant: the resolved intent is taken for every fixture.
CaseIntent_Resolved(v) == v.resolved.intent

\* Both harnesses take the declared intent for one fixture only.
CaseIntent(v) ==
  IF v.fixture = "receipt_hash_mismatch_reject" THEN v.declared_intent
  ELSE v.resolved.intent

build_output_cell(v) ==
  Over(v.old_cell,
       [btc_authority_hash |->
          IF v.fixture = "authority_rotation_without_explicit_action_reject"
          THEN Stranger ELSE v.old_cell.btc_authority_hash,
        state_hash |-> CaseIntent(v).core.new_state_hash,
        latest_receipt_hash |-> v.resolved.receipt_hash,
        nonce |-> CaseIntent(v).core.new_nonce,
        expiry |-> CaseIntent(v).core.expiry])

CaseSignature(v) ==
  [Signature(IF v.fixture = "wrong_pubkey_valid_signature_reject" THEN Stranger
             ELSE v.old_cell.btc_authority_hash, CaseIntent(v))
     EXCEPT !.intact = v.fixture # "wrong_signature_reject"]

input_out_point_from_fixture(v) ==
  Given(v.inputs, "actual_old_cell", CaseIntent(v).core.old_cell)

\* The lock args of the input.
CaseLockArgs(v) ==
  IF v.fixture = "authority_hash_mapping_mismatch_reject" THEN Stranger
  ELSE v.old_cell.btc_authority_hash

combined_case(v) ==
  [out_point |-> input_out_point_from_fixture(v),
   cell |-> v.old_cell, lock_args |-> CaseLockArgs(v),
   intent |-> CaseIntent(v),
   state_hash_commitment |-> Hash(CaseIntent(v).core.new_state_hash),
   sig |-> CaseSignature(v),
   now |-> Given(v.inputs, "current_timepoint", 1),
   output |-> build_output_cell(v), receipt |-> v.resolved.receipt]

expected_failure_scope(failure_mode) ==
  CASE failure_mode \in {"btc_signature_verification_failed", "policy_hash_mismatch",
         "authority_hash_mapping_mismatch", "btc_authority_pubkey_mismatch"} -> "lock"
    [] failure_mode \in {"intent_expired", "nonce_must_increment",
         "receipt_hash_mismatch", "old_outpoint_tx_hash_mismatch",
         "old_outpoint_index_mismatch", "implicit_authority_rotation"} -> "type"
    [] failure_mode = "accepted" -> "none"
    [] OTHER -> "unknown"

\* The lock group is verified before the type group.
observed_failure_scope(tx) ==
  CASE ~LockRequires(tx) -> "lock"
    [] LockRequires(tx) /\ ~TypeRequires(tx) -> "type"
    [] OTHER -> "none"

outcome_matched(v, tx) == (v.source_model_result = "accepted") = ScriptsAccept(tx)

combined_matched(v, tx) ==
  /\ outcome_matched(v, tx)
  /\ expected_failure_scope(v.source_model_result) = observed_failure_scope(tx)
-----------------------------------------------------------------------------
(***************************************************************************)
(* The state type harness: the type script alone, behind syscalls that     *)
(* answer from the case, with a verifier that accepts every signature.     *)
(***************************************************************************)

lock_scope == {"wrong_signature_reject", "authority_hash_mapping_mismatch_reject"}

state_type_expected(v) ==
  IF v.fixture \in lock_scope THEN "accepted" ELSE v.source_model_result

\* The signature bytes are zero, and no lock runs.
state_type_case(v) ==
  [combined_case(v) EXCEPT
     !.sig = [pubkey |-> IF v.fixture = "wrong_pubkey_valid_signature_reject"
                         THEN ZeroHash ELSE v.old_cell.btc_authority_hash,
              by |-> ZeroHash, over |-> ZeroHash, intact |-> FALSE]]

state_type_matched(v) ==
  (state_type_expected(v) = "accepted") = TypeGuards(state_type_case(v))
-----------------------------------------------------------------------------
(***************************************************************************)
(* The parent lock harness: the lock alone, on four cases of its own, and  *)
(* on the envelope it sends the child.                                     *)
(***************************************************************************)

Envelope(tx) == [message |-> Hash(tx.intent), pubkey |-> tx.sig.pubkey, signature |-> tx.sig]

NoEnvelope == [none |-> TRUE]

\* Only what the lock looks at is filled in.
parent_case(cell, key, lock_args, intact) ==
  LET intent == [core |-> [policy_hash |-> cell.policy_hash],
                 expected_receipt_hash |-> Placeholder("parent receipt")]
  IN [cell |-> cell, lock_args |-> lock_args, intent |-> intent,
      sig |-> [Signature(key, intent) EXCEPT !.intact = intact]]

ParentCases(cell) ==
  LET authority == cell.btc_authority_hash IN
  [parent_valid_signature_accept |-> parent_case(cell, authority, authority, TRUE),
   parent_signature_bitflip_reject |-> parent_case(cell, authority, authority, FALSE),
   parent_authority_hash_mismatch_reject |-> parent_case(cell, authority, Stranger, TRUE),
   parent_wrong_pubkey_valid_signature_reject |->
     parent_case(cell, Stranger, authority, TRUE)]

\* In these the lock gives up before it spawns.
RejectedBeforeSpawn == {"parent_authority_hash_mismatch_reject",
                        "parent_wrong_pubkey_valid_signature_reject"}

expected_ipc_blob(name, tx) ==
  IF name \in RejectedBeforeSpawn THEN NoEnvelope ELSE Envelope(tx)

observed_ipc_blob(tx) == IF LockGuards(tx) THEN Envelope(tx) ELSE NoEnvelope

parent_matched(name, tx) ==
  /\ LockRequires(tx) = (name = "parent_valid_signature_accept")
  /\ name \notin RejectedBeforeSpawn => observed_ipc_blob(tx) = expected_ipc_blob(name, tx)
-----------------------------------------------------------------------------
(***************************************************************************)
(* Properties.                                                             *)
(***************************************************************************)

\* The cells whose fixtures are worth another look.
Latest == IF Moves = {} THEN DOMAIN seals ELSE {Len(seals)}

VectorsOf(i) ==
  {fixture_vector(i, name, Inputs(i)[name]) : name \in DOMAIN Inputs(i)}

\* Whatever cell the fixtures are drawn up on, at the nonce limit too, the
\* source model and the two scripts give the same verdict on every one; the
\* vector's intent is the one a wallet would sign and its receipt the one the
\* script wants.  Where the valid fixture is accepted, each of the eleven is
\* rejected by the script group that its failure mode announces; the type
\* script by itself rejects all but the two it cannot see; and the lock sends
\* the verifier what the harness signed, or nothing.
FixturesDecided ==
  \A i \in Latest : \A vectors \in {VectorsOf(i)} :
    LET plain == CHOOSE v \in vectors : v.fixture = "keyauth_transfer_valid" IN
    /\ \A v \in vectors : outcome_matched(v, combined_case(v))
    /\ plain.source_model_result = "accepted" =>
         \A v \in vectors : v.fixture \in DOMAIN NamedInputs(i) =>
           combined_matched(v, combined_case(v)) /\ state_type_matched(v)
    /\ \A name \in DOMAIN ParentCases(seals[i].cell) :
         parent_matched(name, ParentCases(seals[i].cell)[name])
==============================================================================
