-------------------------- MODULE MCNovaVerifierIpc --------------------------
(***************************************************************************)
(* Small instances of NovaVerifierIpc and NovaSpawnHarness for TLC: an     *)
(* envelope of five words, the vectors of two fixtures.                    *)
(***************************************************************************)
EXTENDS NovaSpawnHarness

Good     == build_blob(positive("transfer", "0")).words
WrongMsg == [Good EXCEPT ![3].flipped = TRUE]
WrongVer == [Good EXCEPT ![2].version = 1]

MCFixtures == <<"transfer", "replay">>

\* Streams that no generator makes: a key that is no point, and two things wrong
\* at once, of which the first decides the exit code.
ByHand ==
  { [Good EXCEPT ![4].signer = "off the curve"],
    [Good EXCEPT ![2].flags = 1, ![3].flipped = TRUE],
    [Good EXCEPT ![1] = "wrong magic", ![5].form = "unencodable"],
    Append(WrongVer, Magic) }

\* Streams a parent may write: whole, too short, too long, cut inside a word.
Whole   == {Good, WrongMsg, WrongVer}
Ragged  == {<<>>, SubSeq(Good, 1, 2), <<Magic, Short>>, Append(Good, "signature"),
            Good \o <<Short, "signature">>}
Padded  == {Append(Good, Short)}

\* One signature on any stream, or two (an origination has two).
MCScripts ==
  {<<s>> : s \in Whole \cup Ragged \cup Padded \cup ByHand}
    \cup {<<words_from_blob(c.ipc_blob)>> : c \in ipc_vectors}
    \cup {<<s, t>> : s, t \in Whole \cup Ragged}

OneScript == {<<Good>>} \cup {<<s>> : s \in Padded}
==============================================================================
