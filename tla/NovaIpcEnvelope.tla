--------------------------- MODULE NovaIpcEnvelope ---------------------------
(***************************************************************************)
(* The verifier envelope and everything outside the VM that judges one:    *)
(* the verifier crates, the host command line, the shell report, and the   *)
(* generators of the vectors they are tried on.  Each has code of its own  *)
(* for the same question, so that each is modelled on its own.             *)
(*                                                                         *)
(* A blob is its whole eight-byte words and how many bytes are left over.  *)
(* An envelope has five words here (18 in the code): magic; version,       *)
(* scheme and flags; message; x-only public key; signature.                *)
(***************************************************************************)
EXTENDS Naturals, FiniteSets, SequencesExt

CONSTANTS
  Magic,     \* IPC_MAGIC
  Fixtures   \* the fixtures that have a canonical vector, in order

\* The magic that a generator damages is another one.
ASSUME EnvelopeAssumption == Magic # "wrong magic"

IPC_VERSION       == 0
IPC_SCHEME_BIP340 == 1
IPC_FLAGS_NONE    == 0
IPC_WORD_COUNT    == 5

IpcHeader == [version |-> IPC_VERSION, scheme |-> IPC_SCHEME_BIP340,
              flags |-> IPC_FLAGS_NONE]

Blob(ws) == [words |-> ws, tail |-> 0]

(***************************************************************************)
(* BIP340: a signature is intact, has a flipped bit, or encodes no point   *)
(* and scalar at all.  A public key that is no point lifts to nothing.     *)
(***************************************************************************)

Sign(key, message) == [by |-> key, over |-> message, form |-> "intact"]
Lifts(pubkey)      == pubkey.signer # "off the curve"
Encodes(signature) == signature.form # "unencodable"
Verifies(message, pubkey, signature) ==
  signature = Sign(pubkey, message)
-----------------------------------------------------------------------------
(***************************************************************************)
(* novaseal_btc_verifier_core and novaseal_btc_verifier_riscv.             *)
(***************************************************************************)

parse_ipc_request(blob) ==
  IF Len(blob.words) # IPC_WORD_COUNT \/ blob.tail # 0 THEN "BlobLength"
  ELSE IF blob.words[1] # Magic THEN "Magic"
  ELSE IF blob.words[2].version # IPC_VERSION THEN "Version"
  ELSE IF blob.words[2].scheme # IPC_SCHEME_BIP340 THEN "Scheme"
  ELSE IF blob.words[2].flags # IPC_FLAGS_NONE THEN "Flags"
  ELSE "ok"

verify_bip340_message32(message, pubkey, signature) ==
  IF ~Lifts(pubkey) THEN "InvalidPubkey"
  ELSE IF ~Encodes(signature) THEN "InvalidSignature"
  ELSE IF ~Verifies(message, pubkey, signature) THEN "VerificationFailed"
  ELSE "ok"

verify_ipc_blob(blob) ==
  LET parsed == parse_ipc_request(blob) IN
  IF parsed # "ok" THEN parsed
  ELSE verify_bip340_message32(blob.words[3], blob.words[4], blob.words[5])

EXIT_ACCEPT          == 0
EXIT_REJECT_ENVELOPE == 10
EXIT_REJECT_SPAWN_IO == 11
EXIT_REJECT_CRYPTO   == 12

\* The exit code of the decision on a blob.
decide(blob) ==
  IF parse_ipc_request(blob) # "ok" THEN EXIT_REJECT_ENVELOPE
  ELSE IF verify_ipc_blob(blob) # "ok" THEN EXIT_REJECT_CRYPTO
  ELSE EXIT_ACCEPT

decide_words(ws) ==
  IF Len(ws) # IPC_WORD_COUNT THEN EXIT_REJECT_SPAWN_IO ELSE decide(Blob(ws))
-----------------------------------------------------------------------------
(***************************************************************************)
(* novaseal-btc-vectors: four signers and five ways to be wrong for each   *)
(* canonical vector.                                                       *)
(***************************************************************************)

derived_key(fixture, signer) == [fixture |-> fixture, signer |-> signer]

signed_intent_hash(fixture) == [of |-> fixture, flipped |-> FALSE]

SignerIndices == {"0", "1", "2", "3"}

positive(fixture, signer) ==
  [id           |-> <<fixture, "positive", signer>>,
   message32    |-> signed_intent_hash(fixture),
   xonly_pubkey |-> derived_key(fixture, signer),
   signature64  |-> Sign(derived_key(fixture, signer), signed_intent_hash(fixture)),
   expected     |-> "accept"]

\* Every negative is the first positive with one thing wrong.
negatives(fixture) ==
  LET first == positive(fixture, "0")
      wrong(mutation, case) ==
        [case EXCEPT !.id = <<fixture, "negative", mutation>>, !.expected = "reject"]
  IN { wrong("wrong_message", [first EXCEPT !.message32.flipped = TRUE]),
       wrong("wrong_pubkey",
             [first EXCEPT !.xonly_pubkey = derived_key(fixture, "wrong-pubkey")]),
       wrong("signature_bitflip", [first EXCEPT !.signature64.form = "flipped"]),
       wrong("s_out_of_range", [first EXCEPT !.signature64.form = "unencodable"]),
       wrong("r_out_of_range", [first EXCEPT !.signature64.form = "unencodable"]) }

btc_vectors ==
  UNION {{positive(f, i) : i \in SignerIndices} \cup negatives(f) : f \in ToSet(Fixtures)}

\* The generator's own verdict on a vector, written beside it.
self_verified(case) ==
  /\ Lifts(case.xonly_pubkey) /\ Encodes(case.signature64)
  /\ Verifies(case.message32, case.xonly_pubkey, case.signature64)

btc_vectors_passed ==
  \A case \in btc_vectors : self_verified(case) = (case.expected = "accept")
-----------------------------------------------------------------------------
(***************************************************************************)
(* novaseal-btc-ipc-vectors: the envelope of each of these, and six ways   *)
(* to damage the first.                                                    *)
(***************************************************************************)

build_blob(case) ==
  Blob(<<Magic, IpcHeader, case.message32, case.xonly_pubkey, case.signature64>>)

vector(case) == [id |-> case.id, expected |-> case.expected, ipc_blob |-> build_blob(case)]

malformed(seed) ==
  LET damaged(mutation, blob) ==
        [id |-> <<Fixtures[1], "malformed", mutation>>, expected |-> "reject",
         ipc_blob |-> blob]
  IN { damaged("wrong_magic", [seed EXCEPT !.words[1] = "wrong magic"]),
       damaged("unsupported_version", [seed EXCEPT !.words[2].version = 1]),
       damaged("unsupported_scheme", [seed EXCEPT !.words[2].scheme = 2]),
       damaged("nonzero_flags", [seed EXCEPT !.words[2].flags = 1]),
       damaged("truncated",
               [words |-> SubSeq(seed.words, 1, IPC_WORD_COUNT - 1), tail |-> 7]),
       damaged("trailing_word", [seed EXCEPT !.words = Append(@, "NSBVTW00")]) }

ipc_vectors ==
  {vector(case) : case \in btc_vectors}
    \cup malformed(build_blob(positive(Fixtures[1], "0")))
-----------------------------------------------------------------------------
(***************************************************************************)
(* novaseal-btc-verifier-shell: a report on the RISC-V shell that does not *)
(* run it.                                                                 *)
(***************************************************************************)

parse(blob) ==
  IF Len(blob.words) # IPC_WORD_COUNT \/ blob.tail # 0 THEN "blob_length"
  ELSE IF blob.words[1] # Magic THEN "magic"
  ELSE IF blob.words[2].version # 0 THEN "version"
  ELSE IF blob.words[2].scheme # 1 THEN "scheme"
  ELSE IF blob.words[2].flags # 0 THEN "flags"
  ELSE "ok"

shell_verify(blob) ==
  /\ Lifts(blob.words[4])
  /\ Encodes(blob.words[5])
  /\ Verifies(blob.words[3], blob.words[4], blob.words[5])

\* Mutant: the report parses before it counts the words, as the host does.
decision_ParsesFirst(case) ==
  LET blob == case.ipc_blob
      accepted == parse(blob) = "ok" /\ shell_verify(blob)
  IN [parsed |-> parse(blob) = "ok", accepted |-> accepted,
      exit_code |-> IF accepted THEN 0 ELSE IF parse(blob) = "ok" THEN 12 ELSE 10,
      matched_expected |-> accepted = (case.expected = "accept")]

decision(case) ==
  LET blob == case.ipc_blob
      canonical == Len(blob.words) = IPC_WORD_COUNT /\ blob.tail = 0
      parsed == canonical /\ parse(blob) = "ok"
      accepted == parsed /\ shell_verify(blob)
  IN [parsed    |-> parsed,
      accepted  |-> accepted,
      exit_code |-> IF ~canonical THEN 11 ELSE IF ~parsed THEN 10
                    ELSE IF accepted THEN 0 ELSE 12,
      matched_expected |-> accepted = (case.expected = "accept")]

\* The summary of the report, which the artifact report quotes.
all_expected_matched == \A case \in ipc_vectors : decision(case).matched_expected
-----------------------------------------------------------------------------
(***************************************************************************)
(* novaseal_btc_verifier, the host command line.  A case that cannot be    *)
(* decoded counts as rejected.                                             *)
(***************************************************************************)

verify_case(case) ==
  verify_bip340_message32(case.message32, case.xonly_pubkey, case.signature64) = "ok"

\* The command exits with 0.
verify_ipc_command(blob) == verify_ipc_blob(blob) = "ok"

verify_ipc_case(case) == verify_ipc_blob(case.ipc_blob) = "ok"

\* The commands exit with 0 when nothing mismatches.
verify_vectors_command ==
  \A case \in btc_vectors : verify_case(case) = (case.expected = "accept")

verify_ipc_vectors_command ==
  \A case \in ipc_vectors : verify_ipc_case(case) = (case.expected = "accept")
==============================================================================
