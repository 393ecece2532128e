-------------------------- MODULE NovaEvidenceProofs --------------------------
(***************************************************************************)
(* Proofs about the evidence tools (NovaEvidence), for any number of       *)
(* procedures and of edits, made at any moment.                            *)
(*                                                                         *)
(* What the runs check speaks of the end of a pass.  The inductive         *)
(* invariant says what is known in the middle of one: which files the      *)
(* commands that are over have made of the current sources, and what their *)
(* exit codes tell of the sources.  It rests on one fact about each file:  *)
(* a tool that finds what it reads fresh makes a fresh file of it.         *)
(***************************************************************************)
EXTENDS NovaEvidence, TLAPS

-----------------------------------------------------------------------------
(***************************************************************************)
(* The files.                                                              *)
(***************************************************************************)

\* The tool that writes a file.
Maker ==
  [layout     |-> "schema-layout",
   canonical  |-> "canonical-vectors",
   btc        |-> "btc-verifier-vectors",
   ipc        |-> "btc-verifier-ipc-vectors",
   shell      |-> "btc-verifier-shell-report",
   release    |-> "build-verifier",
   staged     |-> "riscv-shell-artifact",
   bundle     |-> "audit-bundle",
   surface    |-> "audit-surface",
   artifact   |-> "riscv-shell-artifact",
   child      |-> "child-harness",
   probe      |-> "spawn-backend-probe",
   preflight  |-> "parent-lock-abi-preflight",
   lockelf    |-> "parent-lock-abi-preflight",
   parent     |-> "parent-harness",
   actionelf  |-> "build-action",
   statetype  |-> "state-type-harness",
   combined   |-> "combined-harness",
   wallet     |-> "wallet-signing-alignment",
   fixturereport |-> "fixture-harness"]

\* What has to be fresh for it to make a fresh one.
Needs ==
  [layout     |-> {},
   canonical  |-> {"layout"},
   btc        |-> {"canonical"},
   ipc        |-> {"btc"},
   shell      |-> {"ipc"},
   release    |-> {},
   staged     |-> {"release"},
   bundle     |-> {},
   surface    |-> {"bundle", "combined"},
   artifact   |-> {"release", "shell", "surface"},
   child      |-> {"staged", "ipc"},
   probe      |-> {"surface"},
   preflight  |-> {},
   lockelf    |-> {},
   parent     |-> {"lockelf", "staged"},
   actionelf  |-> {},
   statetype  |-> {"actionelf", "canonical"},
   combined   |-> {"lockelf", "actionelf", "staged", "canonical"},
   wallet     |-> {"canonical"},
   fixturereport |-> Attached \cup {"surface"}]

\* The command of the README that makes it first.
Stage ==
  [layout     |-> 3,
   canonical  |-> 4,
   btc        |-> 5,
   ipc        |-> 7,
   shell      |-> 10,
   release    |-> 9,
   staged     |-> 11,
   bundle     |-> 1,
   surface    |-> 2,
   artifact   |-> 11,
   child      |-> 12,
   probe      |-> 13,
   preflight  |-> 14,
   lockelf    |-> 14,
   parent     |-> 15,
   actionelf  |-> 16,
   statetype  |-> 17,
   combined   |-> 18,
   wallet     |-> 20,
   fixturereport |-> 19]

\* The files that need nothing made by a later command.
FirstPass == Files \ {"surface", "artifact", "probe", "fixturereport"}

Fresh(f) == disk[f].ok /\ Current(f)

AllFresh(fs) == \A f \in fs : Fresh(f)
-----------------------------------------------------------------------------
(***************************************************************************)
(* The inductive invariant.                                                *)
(***************************************************************************)

\* What a pass without a failure tells of the sources.
GoodTree == \A s \in {"verifier", "lock", "state", "fixtures"} : source[s] = Good(s)

\* The first n commands of the README have succeeded, and nothing was edited.
Passed(n) ==
  /\ \A f \in FirstPass : Stage[f] <= n => Fresh(f)
  /\ n >= 18 => /\ \A s \in {"verifier", "lock", "state"} : source[s] = Good(s)
                /\ source["fixtures"] # "twelve"
  /\ n >= 19 => source["fixtures"] # "wrong"
  /\ clean >= 1 => \A f \in Files : Stage[f] <= n => Fresh(f)

\* A pass that is under way is not counted yet.
Counted == ~AtRest => clean < passes

PassInv == proc = "readme" /\ ~spoilt /\ ~AtRest => Passed(step)

CleanInv ==
  /\ clean >= 1 => GoodTree /\ AllFresh(FirstPass)
  /\ clean >= 2 => AllFresh(Files)

IInv == TypeOK /\ Counted /\ PassInv /\ CleanInv
-----------------------------------------------------------------------------
(***************************************************************************)
(* Provenance.                                                             *)
(***************************************************************************)

\* The files by name.
LEMMA FilesByName ==
  Files =
    {"layout", "canonical", "btc", "ipc", "shell", "release", "staged", "bundle",
     "surface", "artifact", "child", "probe", "preflight", "lockelf", "parent",
     "actionelf", "statetype", "combined", "wallet", "fixturereport"}
BY DEF Files, Roots

\* The sources by name, and which version of each is the good one.
LEMMA SourcesByName ==
  /\ Sources = {"schemas", "fixtures", "verifier", "lock", "state", "cellc"}
  /\ Good("fixtures") = "eleven" /\ Good("verifier") = "bip340"
  /\ Good("lock") = "packed" /\ Good("state") = "packed"
  /\ VersionsOf("fixtures") = {"eleven", "twelve", "wrong"}
<1>1. DOMAIN Versions["fixtures"] = 1..3
  BY DEF Versions
<1>2. VersionsOf("fixtures") = {"eleven", "twelve", "wrong"}
  BY <1>1 DEF VersionsOf, Versions
<1> QED
  BY <1>2 DEF Sources, Versions, Good

\* What is read from files that are current is of the sources they depend on.
LEMMA CurrentFiles ==
  ASSUME NEW fs, \A f \in fs : Current(f)
  PROVE  FromFiles(fs) = FromSources(UNION {Roots[f] : f \in fs})
BY DEF FromFiles, FromSources, Current

\* Sources together.
LEMMA SourcesTogether ==
  ASSUME NEW ss, NEW tt
  PROVE  FromSources(ss) \cup FromSources(tt) = FromSources(ss \cup tt)
BY DEF FromSources

\* What is read from one of them, beside sources.
LEMMA CurrentFile ==
  ASSUME NEW f, Current(f), NEW ss
  PROVE  FromSources(ss) \cup FromFiles({f}) = FromSources(ss \cup Roots[f])
<1>1. FromFiles({f}) = FromSources(Roots[f])
  BY DEF FromFiles, Current
<1> QED
  BY <1>1, SourcesTogether

\* A file depends on sources.
LEMMA RootsAreSources ==
  ASSUME NEW f \in Files
  PROVE  Roots[f] \subseteq Sources /\ Roots[f] # {}
BY FilesByName, SourcesByName DEF Roots

\* A current file is on disk.
LEMMA CurrentExists ==
  ASSUME NEW f \in Files, Current(f)
  PROVE  Exists(f)
BY RootsAreSources DEF Current, Exists, FromSources

\* What a harness finds when its programs are built from sources as they are.
LEMMA SoundSources ==
  ASSUME NEW ss
  PROVE  Sound(FromSources(ss)) <=>
           \A s \in ss \cap {"verifier", "lock", "state"} : source[s] = Good(s)
<1>1. ASSUME NEW q \in FromSources(ss)
      PROVE  \E s \in ss : q[1] = s /\ q[2] = source[s]
  BY DEF FromSources
<1>2. ASSUME NEW s \in ss
      PROVE  \E q \in FromSources(ss) : q[1] = s /\ q[2] = source[s]
  <2>1. <<s, source[s]>> \in FromSources(ss)
    BY DEF FromSources
  <2> QED
    BY <2>1
<1> QED
  BY <1>1, <1>2 DEF Sound
-----------------------------------------------------------------------------
(***************************************************************************)
(* A tool that finds what it reads fresh makes a fresh file.               *)
(***************************************************************************)

\* The good sources, by name.
LEMMA GoodSources ==
  GoodTree <=> /\ source["verifier"] = "bip340" /\ source["fixtures"] = "eleven"
               /\ source["lock"] = "packed" /\ source["state"] = "packed"
BY SourcesByName DEF GoodTree

\* File f is written, of the current sources and with success.
MadeOf(outcome, f) ==
  /\ f \in DOMAIN outcome.wrote
  /\ outcome.wrote[f].of = FromSources(Roots[f])
  /\ outcome.wrote[f].ok

\* One file written.
LEMMA WritesOne ==
  ASSUME NEW f, NEW of, NEW ok, NEW exit
  PROVE  /\ DOMAIN Writes(f, of, ok, exit).wrote = {f}
         /\ Writes(f, of, ok, exit).wrote[f].of = of
         /\ Writes(f, of, ok, exit).wrote[f].ok = ok
         /\ Writes(f, of, ok, exit).exit = exit
BY DEF Writes

\* Written with success, of the current sources.
LEMMA WritesFresh ==
  ASSUME NEW f, NEW ok, ok, NEW exit
  PROVE  MadeOf(Writes(f, FromSources(Roots[f]), ok, exit), f)
BY DEF Writes, MadeOf

\* A failure writes nothing.
LEMMA FailsWritesNothing == DOMAIN Fails.wrote = {} /\ Fails.exit = 1
BY DEF Fails, Nothing

\* Fresh files are all there.
LEMMA FreshExist ==
  ASSUME NEW fs, fs \subseteq Files, AllFresh(fs)
  PROVE  AllExist(fs) /\ \A f \in fs : Exists(f)
BY CurrentExists DEF AllFresh, Fresh, AllExist

\* A generator.
LEMMA GeneratorMakes ==
  ASSUME NEW from \in Files, NEW to, Fresh(from), Roots[to] = Roots[from]
  PROVE  MadeOf(Generator(from, to), to)
<1>1. Exists(from)
  BY CurrentExists DEF Fresh
<1>2. FromFiles({from}) = FromSources(Roots[to])
  BY CurrentFiles DEF Fresh
<1>3. Generator(from, to) = Writes(to, FromSources(Roots[to]), TRUE, 0)
  BY <1>1, <1>2 DEF Generator
<1> QED
  BY <1>3, WritesFresh

\* A harness, when it exits with 0 or the sources are good.
LEMMA HarnessMakes ==
  ASSUME NEW report, NEW fs, fs \subseteq Files, NEW ss, AllFresh(fs),
         Roots[report] = (UNION {Roots[f] : f \in fs}) \cup ss,
         Harness(report, fs, ss).exit = 0 \/ GoodTree
  PROVE  /\ MadeOf(Harness(report, fs, ss), report)
         /\ Sound(FromSources(Roots[report]))
<1> DEFINE of == FromFiles(fs) \cup FromSources(ss)
<1>1. of = FromSources(Roots[report])
  <2>1. FromFiles(fs) = FromSources(UNION {Roots[f] : f \in fs})
    BY CurrentFiles DEF AllFresh, Fresh
  <2>2. PICK tt : tt = UNION {Roots[f] : f \in fs}
    OBVIOUS
  <2>3. Roots[report] = tt \cup ss
    BY <2>2
  <2> QED
    BY <2>1, <2>2, <2>3, SourcesTogether
<1>2. Harness(report, fs, ss) = Writes(report, of, Sound(of), Code(Sound(of)))
  BY FreshExist DEF Harness
<1>3. Sound(of)
  <2>1. CASE Harness(report, fs, ss).exit = 0
    BY <2>1, <1>2, WritesOne DEF Code
  <2>2. CASE GoodTree
    BY <2>2, <1>1, SoundSources DEF GoodTree
  <2> QED
    BY <2>1, <2>2
<1> HIDE DEF of
<1>4. MadeOf(Writes(report, FromSources(Roots[report]), Sound(of), Code(Sound(of))), report)
  BY <1>3, WritesFresh
<1> QED
  BY <1>1, <1>2, <1>3, <1>4

\* Whether the canonical vectors hold the twelfth.
LEMMA TwelveInSources ==
  ASSUME Current("canonical")
  PROVE  TwelveVectors <=> source["fixtures"] = "twelve"
BY FilesByName DEF Current, TwelveVectors, FromSources, Roots
\* Every file is made fresh of fresh ones by its tool, when the tool exits with
\* 0 or the sources are good.
LEMMA Makes ==
  ASSUME NEW f \in Files, AllFresh(Needs[f]), Outcome(Maker[f]).exit = 0 \/ GoodTree
  PROVE  MadeOf(Outcome(Maker[f]), f)
<1> USE FilesByName
<1>1. CASE f = "layout"
  <2>1. Outcome(Maker[f]) = Writes("layout", FromSources(Roots["layout"]), TRUE, 0)
    BY <1>1 DEF Maker, Outcome, SchemaLayout, Roots
  <2> QED
    BY <1>1, <2>1, WritesFresh
<1>2. CASE f = "canonical"
  <2>1. Fresh("layout") /\ Exists("layout")
    BY <1>2, CurrentExists DEF Needs, AllFresh, Fresh
  <2>2. FromSources({"fixtures"}) \cup FromFiles({"layout"})
          = FromSources({"fixtures"} \cup Roots["layout"])
    BY <2>1, CurrentFile DEF Fresh
  <2>3. {"fixtures"} \cup Roots["layout"] = Roots["canonical"]
    BY DEF Roots
  <2>4. Outcome(Maker[f]) = Writes("canonical", FromSources(Roots["canonical"]), TRUE, 0)
    BY <1>2, <2>1, <2>2, <2>3 DEF Maker, Outcome, CanonicalVectors
  <2> QED
    BY <1>2, <2>4, WritesFresh
<1>3. CASE f = "btc"
  <2>1. Fresh("canonical") /\ Roots["btc"] = Roots["canonical"]
    BY <1>3 DEF Needs, AllFresh, Roots
  <2>2. Outcome(Maker[f]) = Generator("canonical", "btc")
    BY <1>3 DEF Maker, Outcome, BtcVerifierVectors
  <2> QED
    BY <1>3, <2>1, <2>2, GeneratorMakes
<1>4. CASE f = "ipc"
  <2>1. Fresh("btc") /\ Roots["ipc"] = Roots["btc"]
    BY <1>4 DEF Needs, AllFresh, Roots
  <2>2. Outcome(Maker[f]) = Generator("btc", "ipc")
    BY <1>4 DEF Maker, Outcome, BtcVerifierIpcVectors
  <2> QED
    BY <1>4, <2>1, <2>2, GeneratorMakes
<1>5. CASE f = "shell"
  <2>1. Fresh("ipc") /\ Roots["shell"] = Roots["ipc"]
    BY <1>5 DEF Needs, AllFresh, Roots
  <2>2. Outcome(Maker[f]) = Generator("ipc", "shell")
    BY <1>5 DEF Maker, Outcome, BtcVerifierShellReport
  <2> QED
    BY <1>5, <2>1, <2>2, GeneratorMakes
<1>6. CASE f = "release"
  <2>1. Outcome(Maker[f]) = Writes("release", FromSources(Roots["release"]), TRUE, 0)
    BY <1>6 DEF Maker, Outcome, BuildVerifier, Roots
  <2> QED
    BY <1>6, <2>1, WritesFresh
<1>7. CASE f \in {"staged", "artifact"}
  <2>1. Fresh("release") /\ Exists("release") /\ Roots["staged"] = Roots["release"]
    BY <1>7, CurrentExists DEF Needs, AllFresh, Fresh, Roots
  <2>2. Outcome(Maker[f]) = RiscvShellArtifact
    BY <1>7 DEF Maker, Outcome
  <2>3. CASE f = "staged"
    BY <2>1, <2>2, <2>3 DEF RiscvShellArtifact, MadeOf, Fresh, Current
  <2>4. CASE f = "artifact"
    <3> DEFINE read == {"release", "shell", "surface"}
    <3>1. AllFresh(read) /\ read \subseteq Files
      BY <2>4 DEF Needs
    <3>2. AllExist(read)
      BY <3>1, FreshExist
    <3>3. FromFiles(read) = FromSources(UNION {Roots[g] : g \in read})
      BY <3>1, CurrentFiles DEF AllFresh, Fresh
    <3>4. UNION {Roots[g] : g \in read} = Roots["artifact"]
      BY SourcesByName DEF Roots
    <3>5. disk["shell"].ok
      BY <3>1 DEF AllFresh, Fresh
    <3>6. RiscvShellArtifact =
            [wrote |-> [staged   |-> disk["release"],
                        artifact |-> [of |-> FromFiles(read), ok |-> disk["shell"].ok]],
             exit |-> 0]
      BY <2>1, <3>2 DEF RiscvShellArtifact
    <3>7. FromFiles(read) = FromSources(Roots["artifact"])
      BY <3>3, <3>4
    <3> HIDE DEF read
    <3> QED
      BY <2>2, <2>4, <3>5, <3>6, <3>7 DEF MadeOf
  <2> QED
    BY <1>7, <2>3, <2>4
<1>8. CASE f = "bundle"
  <2>1. Outcome(Maker[f]) = AuditBundle
    BY <1>8 DEF Maker, Outcome
  <2>2. Compiles("lock") /\ Compiles("state")
    <3>1. CASE GoodTree
      BY <3>1, GoodSources DEF Compiles
    <3>2. CASE AuditBundle.exit = 0
      <4>1. ~(Compiles("lock") /\ Compiles("state")) => AuditBundle = Fails
        BY DEF AuditBundle
      <4> QED
        BY <3>2, <4>1, FailsWritesNothing
    <3> QED
      BY <2>1, <3>1, <3>2
  <2>3. AuditBundle = Writes("bundle", FromSources(Roots["bundle"]), TRUE, 0)
    BY <2>2 DEF AuditBundle, Roots
  <2> QED
    BY <1>8, <2>1, <2>3, WritesFresh
<1>9. CASE f = "surface"
  <2>1. Fresh("bundle") /\ Fresh("combined") /\ Exists("bundle")
    BY <1>9, CurrentExists DEF Needs, AllFresh, Fresh
  <2>2. FromFiles({"bundle", "combined"})
          = FromSources(UNION {Roots[g] : g \in {"bundle", "combined"}})
    BY <2>1, CurrentFiles DEF Fresh
  <2>3. {"state"} \cup UNION {Roots[g] : g \in {"bundle", "combined"}} = Roots["surface"]
    BY SourcesByName DEF Roots
  <2>4. FromSources({"state"}) \cup FromFiles({"bundle", "combined"})
          = FromSources(Roots["surface"])
    BY <2>2, <2>3, SourcesTogether
  <2>5. Outcome(Maker[f]) = Writes("surface", FromSources(Roots["surface"]), Measured, 0)
    BY <1>9, <2>1, <2>4 DEF Maker, Outcome, AuditSurface
  <2>6. Measured
    BY <2>1 DEF Measured, Fresh
  <2> QED
    BY <1>9, <2>5, <2>6, WritesFresh
<1>10. CASE f = "child"
  <2>1. Outcome(Maker[f]) = Harness("child", {"staged", "ipc"}, {})
    BY <1>10 DEF Maker, Outcome, ChildHarness
  <2>2. Roots["child"] = (UNION {Roots[g] : g \in {"staged", "ipc"}}) \cup {}
    BY DEF Roots
  <2>3. AllFresh({"staged", "ipc"}) /\ {"staged", "ipc"} \subseteq Files
    BY <1>10 DEF Needs
  <2> QED
    BY <1>10, <2>1, <2>2, <2>3, HarnessMakes
<1>11. CASE f = "probe"
  <2>1. Fresh("surface")
    BY <1>11 DEF Needs, AllFresh
  <2>2. FromSources({"cellc"}) \cup FromFiles({"surface"})
          = FromSources({"cellc"} \cup Roots["surface"])
    BY <2>1, CurrentFile DEF Fresh
  <2>3. {"cellc"} \cup Roots["surface"] = Roots["probe"]
    BY SourcesByName DEF Roots
  <2>4. Outcome(Maker[f]) = Writes("probe", FromSources(Roots["probe"]), disk["surface"].ok, 0)
    BY <1>11, <2>2, <2>3 DEF Maker, Outcome, SpawnBackendProbe
  <2> QED
    BY <1>11, <2>1, <2>4, WritesFresh DEF Fresh
<1>12. CASE f \in {"preflight", "lockelf"}
  <2>1. Outcome(Maker[f]) = ParentLockAbiPreflight
    BY <1>12 DEF Maker, Outcome
  <2>2. Compiles("lock")
    <3>1. CASE GoodTree
      BY <3>1, GoodSources DEF Compiles
    <3>2. CASE ParentLockAbiPreflight.exit = 0
      <4>1. ~Compiles("lock") => ParentLockAbiPreflight.exit = 1
        BY DEF ParentLockAbiPreflight, Writes
      <4> QED
        BY <3>2, <4>1
    <3> QED
      BY <2>1, <3>1, <3>2
  <2> QED
    BY <1>12, <2>1, <2>2 DEF ParentLockAbiPreflight, MadeOf, Roots
<1>13. CASE f = "parent"
  <2>1. Outcome(Maker[f]) = Harness("parent", {"lockelf", "staged"}, {})
    BY <1>13 DEF Maker, Outcome, ParentHarness
  <2>2. Roots["parent"] = (UNION {Roots[g] : g \in {"lockelf", "staged"}}) \cup {}
    BY DEF Roots
  <2>3. AllFresh({"lockelf", "staged"}) /\ {"lockelf", "staged"} \subseteq Files
    BY <1>13 DEF Needs
  <2> QED
    BY <1>13, <2>1, <2>2, <2>3, HarnessMakes
<1>14. CASE f = "actionelf"
  <2>1. Outcome(Maker[f]) = BuildAction
    BY <1>14 DEF Maker, Outcome
  <2>2. Compiles("state")
    <3>1. CASE GoodTree
      BY <3>1, GoodSources DEF Compiles
    <3>2. CASE BuildAction.exit = 0
      <4>1. ~Compiles("state") => BuildAction = Fails
        BY DEF BuildAction
      <4> QED
        BY <3>2, <4>1, FailsWritesNothing
    <3> QED
      BY <2>1, <3>1, <3>2
  <2>3. BuildAction = Writes("actionelf", FromSources(Roots["actionelf"]), TRUE, 0)
    BY <2>2 DEF BuildAction, Roots
  <2> QED
    BY <1>14, <2>1, <2>3, WritesFresh
<1>15. CASE f = "statetype"
  <2> DEFINE read == {"actionelf", "canonical"}
  <2>1. Outcome(Maker[f]) = StateTypeHarness
    BY <1>15 DEF Maker, Outcome
  <2>2. Roots["statetype"] = (UNION {Roots[g] : g \in read}) \cup {"fixtures"}
    BY DEF Roots
  <2>3. AllFresh(read) /\ read \subseteq Files /\ Current("canonical")
    BY <1>15 DEF Needs, AllFresh, Fresh
  <2>4. StateTypeHarness = Harness("statetype", read, {"fixtures"})
    BY <2>3, TwelveInSources DEF StateTypeHarness
  <2>5. Harness("statetype", read, {"fixtures"}).exit = 0 \/ GoodTree
    BY <2>1, <2>4
  <2> HIDE DEF read
  <2>6. MadeOf(Harness("statetype", read, {"fixtures"}), "statetype")
    BY <2>2, <2>3, <2>5, HarnessMakes
  <2> QED
    BY <1>15, <2>1, <2>4, <2>6
<1>16. CASE f = "combined"
  <2> DEFINE read == {"lockelf", "actionelf", "staged", "canonical"}
  <2>1. Outcome(Maker[f]) = CombinedHarness
    BY <1>16 DEF Maker, Outcome
  <2>2. Roots["combined"] = (UNION {Roots[g] : g \in read}) \cup {"fixtures"}
    BY SourcesByName DEF Roots
  <2>3. AllFresh(read) /\ read \subseteq Files /\ Current("canonical")
    BY <1>16 DEF Needs, AllFresh, Fresh
  <2>4. ~TwelveVectors
    BY <2>1, <2>3, TwelveInSources, SourcesByName, FailsWritesNothing
    DEF CombinedHarness, GoodTree
  <2>5. CombinedHarness = Harness("combined", read, {"fixtures"})
    BY <2>4 DEF CombinedHarness
  <2>6. Harness("combined", read, {"fixtures"}).exit = 0 \/ GoodTree
    BY <2>1, <2>5
  <2> HIDE DEF read
  <2>7. MadeOf(Harness("combined", read, {"fixtures"}), "combined")
    BY <2>2, <2>3, <2>6, HarnessMakes
  <2> QED
    BY <1>16, <2>1, <2>5, <2>7
<1>17. CASE f = "wallet"
  <2>1. Outcome(Maker[f]) = WalletSigningAlignment
    BY <1>17 DEF Maker, Outcome
  <2>2. Fresh("canonical") /\ Exists("canonical") /\ Current("canonical")
    BY <1>17, CurrentExists DEF Needs, AllFresh, Fresh
  <2>3. ~TwelveVectors
    BY <2>1, <2>2, TwelveInSources, SourcesByName, FailsWritesNothing
    DEF WalletSigningAlignment, GoodTree
  <2>4. FromSources({"lock", "state"}) \cup FromFiles({"canonical"})
          = FromSources({"lock", "state"} \cup Roots["canonical"])
    BY <2>2, CurrentFile
  <2>5. {"lock", "state"} \cup Roots["canonical"] = Roots["wallet"]
    BY DEF Roots
  <2>6. WalletSigningAlignment =
          Writes("wallet", FromSources(Roots["wallet"]), AllRequiredSnippetsPresent,
                 Code(AllRequiredSnippetsPresent))
    BY <2>2, <2>3, <2>4, <2>5 DEF WalletSigningAlignment
  <2>7. AllRequiredSnippetsPresent
    <3>1. CASE GoodTree
      BY <3>1, SourcesByName DEF AllRequiredSnippetsPresent, GoodTree
    <3>2. CASE WalletSigningAlignment.exit = 0
      BY <3>2, <2>6, WritesOne DEF Code
    <3> QED
      BY <2>1, <3>1, <3>2
  <2> QED
    BY <1>17, <2>1, <2>6, <2>7, WritesFresh
<1>18. CASE f = "fixturereport"
  <2> DEFINE read == Attached \cup {"surface"}
             ok == \A g \in Harnesses \cup {"wallet"} : disk[g].ok
             code == Code(source["fixtures"] # "wrong")
  <2>1. AllFresh(read) /\ read \subseteq Files
    BY <1>18 DEF Needs, Attached
  <2>2. Exists("surface")
    BY <2>1, FreshExist
  <2>3. FromFiles(read) = FromSources(UNION {Roots[g] : g \in read})
    BY <2>1, CurrentFiles DEF AllFresh, Fresh
  <2>4. {"fixtures", "state"} \cup UNION {Roots[g] : g \in read} = Roots["fixturereport"]
    BY SourcesByName DEF Roots, Attached
  <2>5. ok
    BY <2>1 DEF Attached, Harnesses, AllFresh, Fresh
  <2>6. FromSources({"fixtures", "state"}) \cup FromFiles(read)
          = FromSources(Roots["fixturereport"])
    BY <2>3, <2>4, SourcesTogether
  <2>7. Outcome(Maker[f]) = Writes("fixturereport", FromSources(Roots["fixturereport"]), ok, code)
    BY <1>18, <2>2, <2>6 DEF Maker, Outcome, FixtureHarness
  <2> HIDE DEF ok, code
  <2> QED
    BY <1>18, <2>5, <2>7, WritesFresh
<1> QED
  BY <1>1, <1>2, <1>3, <1>4, <1>5, <1>6, <1>7, <1>8, <1>9, <1>10, <1>11, <1>12, <1>13,
     <1>14, <1>15, <1>16, <1>17, <1>18
-----------------------------------------------------------------------------
(***************************************************************************)
(* What a tool writes: its own files, of their roots.                      *)
(***************************************************************************)

Tools == {Maker[f] : f \in Files} \cup {"verify-vectors", "verify-ipc-vectors"}

\* The sources that something depends on.
NamesOf(of) == {q[1] : q \in of}

DiskTypes == \A f \in Files : disk[f].ok \in BOOLEAN /\ NamesOf(disk[f].of) \subseteq Roots[f]

WritesWell(outcome, tool) ==
  \A f \in DOMAIN outcome.wrote :
    /\ f \in Files /\ Maker[f] = tool
    /\ outcome.wrote[f].ok \in BOOLEAN
    /\ NamesOf(outcome.wrote[f].of) \subseteq Roots[f]

\* Sources are their own provenance, and a file's is among its roots.
LEMMA NamesRead ==
  ASSUME DiskTypes, NEW ss, NEW fs, fs \subseteq Files
  PROVE  /\ NamesOf(FromSources(ss)) = ss
         /\ NamesOf(FromFiles(fs)) \subseteq UNION {Roots[f] : f \in fs}
         /\ NamesOf(FromSources(ss) \cup FromFiles(fs))
              \subseteq ss \cup UNION {Roots[f] : f \in fs}
<1>1. NamesOf(FromSources(ss)) = ss
  <2>1. ASSUME NEW s \in ss
        PROVE  s \in NamesOf(FromSources(ss))
    <3>1. <<s, source[s]>> \in FromSources(ss) /\ <<s, source[s]>>[1] = s
      BY DEF FromSources
    <3> QED
      BY <3>1 DEF NamesOf
  <2> QED
    BY <2>1 DEF NamesOf, FromSources
<1>2. NamesOf(FromFiles(fs)) \subseteq UNION {Roots[f] : f \in fs}
  <2>1. ASSUME NEW q \in FromFiles(fs)
        PROVE  \E f \in fs : q[1] \in Roots[f]
    BY DEF FromFiles, NamesOf, DiskTypes
  <2> QED
    BY <2>1 DEF NamesOf
<1>3. \A a, b : NamesOf(a \cup b) = NamesOf(a) \cup NamesOf(b)
  BY DEF NamesOf
<1> QED
  BY <1>1, <1>2, <1>3

\* A tool that writes one file.
LEMMA WritesOneWell ==
  ASSUME NEW f \in Files, NEW of, NamesOf(of) \subseteq Roots[f],
         NEW ok \in BOOLEAN, NEW exit
  PROVE  WritesWell(Writes(f, of, ok, exit), Maker[f])
BY DEF Writes, WritesWell

\* A tool that fails, or writes nothing.
LEMMA FailsWell ==
  ASSUME NEW tool
  PROVE  /\ WritesWell(Fails, tool)
         /\ \A exit : WritesWell([wrote |-> Nothing, exit |-> exit], tool)
BY DEF Fails, Nothing, WritesWell

\* A generator and a harness.
LEMMA FromWell ==
  ASSUME DiskTypes, NEW to \in Files
  PROVE  /\ \A from \in Files :
              Roots[from] \subseteq Roots[to] => WritesWell(Generator(from, to), Maker[to])
         /\ \A fs \in SUBSET Files : \A ss :
              (UNION {Roots[f] : f \in fs}) \cup ss \subseteq Roots[to]
                => WritesWell(Harness(to, fs, ss), Maker[to])
<1>1. ASSUME NEW from \in Files, Roots[from] \subseteq Roots[to]
      PROVE  WritesWell(Generator(from, to), Maker[to])
  <2>1. NamesOf(FromFiles({from})) \subseteq Roots[to]
    <3>1. NamesOf(FromFiles({from})) \subseteq UNION {Roots[f] : f \in {from}}
      BY NamesRead
    <3>2. UNION {Roots[f] : f \in {from}} = Roots[from]
      OBVIOUS
    <3> QED
      BY <1>1, <3>1, <3>2
  <2>2. WritesWell(Writes(to, FromFiles({from}), TRUE, 0), Maker[to])
    BY <2>1, WritesOneWell
  <2> QED
    BY <2>2, FailsWell DEF Generator
<1>2. ASSUME NEW fs \in SUBSET Files, NEW ss,
             (UNION {Roots[f] : f \in fs}) \cup ss \subseteq Roots[to]
      PROVE  WritesWell(Harness(to, fs, ss), Maker[to])
  <2> DEFINE of == FromFiles(fs) \cup FromSources(ss)
  <2>1. NamesOf(of) \subseteq Roots[to]
    <3>1. of = FromSources(ss) \cup FromFiles(fs)
      OBVIOUS
    <3> QED
      BY <1>2, <3>1, NamesRead
  <2>2. Sound(of) \in BOOLEAN
    BY DEF Sound
  <2>3. Harness(to, fs, ss) = IF AllExist(fs) THEN Writes(to, of, Sound(of), Code(Sound(of)))
                              ELSE Fails
    BY DEF Harness
  <2> HIDE DEF of
  <2>4. WritesWell(Writes(to, of, Sound(of), Code(Sound(of))), Maker[to])
    BY <2>1, <2>2, WritesOneWell
  <2> QED
    BY <2>3, <2>4, FailsWell
<1> QED
  BY <1>1, <1>2
\* Every tool.
LEMMA OutcomeWell ==
  ASSUME DiskTypes, NEW tool \in Tools
  PROVE  WritesWell(Outcome(tool), tool)
<1> USE FilesByName, SourcesByName
<1>1. CASE tool = "schema-layout"
  <2>1. NamesOf(FromSources({"schemas"})) \subseteq Roots["layout"]
    BY NamesRead DEF Roots
  <2>2. WritesWell(SchemaLayout, Maker["layout"])
    BY <2>1, WritesOneWell DEF SchemaLayout
  <2> QED
    BY <1>1, <2>2 DEF Outcome, Maker
<1>2. CASE tool = "canonical-vectors"
  <2> DEFINE of == FromSources({"fixtures"}) \cup FromFiles({"layout"})
  <2>1. NamesOf(of) \subseteq {"fixtures"} \cup UNION {Roots[f] : f \in {"layout"}}
    BY NamesRead
  <2>2. NamesOf(of) \subseteq Roots["canonical"]
    <3>1. {"fixtures"} \cup UNION {Roots[f] : f \in {"layout"}} \subseteq Roots["canonical"]
      BY DEF Roots
    <3> HIDE DEF of
    <3> QED
      BY <2>1, <3>1
  <2>3. CanonicalVectors \in {Writes("canonical", of, TRUE, 0), Fails}
    BY DEF CanonicalVectors
  <2> HIDE DEF of
  <2>4. WritesWell(Writes("canonical", of, TRUE, 0), Maker["canonical"])
    BY <2>2, WritesOneWell
  <2> QED
    BY <1>2, <2>3, <2>4, FailsWell DEF Outcome, Maker
<1>3. CASE tool \in {"btc-verifier-vectors", "btc-verifier-ipc-vectors",
                     "btc-verifier-shell-report"}
  <2>1. /\ WritesWell(BtcVerifierVectors, Maker["btc"])
        /\ WritesWell(BtcVerifierIpcVectors, Maker["ipc"])
        /\ WritesWell(BtcVerifierShellReport, Maker["shell"])
    BY FromWell DEF BtcVerifierVectors, BtcVerifierIpcVectors, BtcVerifierShellReport, Roots
  <2> QED
    BY <1>3, <2>1 DEF Outcome, Maker
<1>4. CASE tool \in {"verify-vectors", "verify-ipc-vectors"}
  BY <1>4, FailsWell DEF Outcome, HostVerify
<1>5. CASE tool = "build-verifier"
  <2>1. NamesOf(FromSources({"verifier"})) \subseteq Roots["release"]
    BY NamesRead DEF Roots
  <2>2. WritesWell(BuildVerifier, Maker["release"])
    BY <2>1, WritesOneWell DEF BuildVerifier
  <2> QED
    BY <1>5, <2>2 DEF Outcome, Maker
<1>6. CASE tool = "riscv-shell-artifact"
  <2> DEFINE read == {"release", "shell", "surface"}
             whole == [wrote |-> [staged   |-> disk["release"],
                                  artifact |-> [of |-> FromFiles(read), ok |-> disk["shell"].ok]],
                       exit |-> 0]
             part == [wrote |-> [staged |-> disk["release"]], exit |-> 1]
  <2>1. disk["release"].ok \in BOOLEAN /\ NamesOf(disk["release"].of) \subseteq Roots["staged"]
    BY DEF DiskTypes, Roots
  <2>2. NamesOf(FromFiles(read)) \subseteq Roots["artifact"]
    <3>1. NamesOf(FromFiles(read)) \subseteq UNION {Roots[f] : f \in read}
      BY NamesRead
    <3>2. UNION {Roots[f] : f \in read} \subseteq Roots["artifact"]
      BY DEF Roots
    <3> QED
      BY <3>1, <3>2
  <2>3. disk["shell"].ok \in BOOLEAN
    BY DEF DiskTypes
  <2>4. RiscvShellArtifact \in {Fails, whole, part}
    BY DEF RiscvShellArtifact
  <2>5. WritesWell(part, tool)
    BY <1>6, <2>1 DEF WritesWell, Maker
  <2>6. WritesWell(whole, tool)
    <3> HIDE DEF read
    <3> QED
      BY <1>6, <2>1, <2>2, <2>3 DEF WritesWell, Maker
  <2> HIDE DEF whole, part
  <2> QED
    BY <1>6, <2>4, <2>5, <2>6, FailsWell DEF Outcome
<1>7. CASE tool = "audit-bundle"
  <2>1. NamesOf(FromSources({"lock", "state", "cellc"})) \subseteq Roots["bundle"]
    BY NamesRead DEF Roots
  <2>2. WritesWell(AuditBundle, Maker["bundle"])
    BY <2>1, WritesOneWell, FailsWell DEF AuditBundle
  <2> QED
    BY <1>7, <2>2 DEF Outcome, Maker
<1>8. CASE tool = "audit-surface"
  <2> DEFINE of == FromSources({"state"}) \cup FromFiles({"bundle", "combined"})
  <2>1. NamesOf(of) \subseteq {"state"} \cup UNION {Roots[f] : f \in {"bundle", "combined"}}
    BY NamesRead
  <2>2. NamesOf(of) \subseteq Roots["surface"]
    <3>1. {"state"} \cup UNION {Roots[f] : f \in {"bundle", "combined"}} \subseteq Roots["surface"]
      BY DEF Roots
    <3> HIDE DEF of
    <3> QED
      BY <2>1, <3>1
  <2>3. AuditSurface \in {Writes("surface", of, Measured, 0), Fails}
    BY DEF AuditSurface
  <2>4. Measured \in BOOLEAN
    BY DEF Measured, DiskTypes
  <2> HIDE DEF of
  <2>5. WritesWell(Writes("surface", of, Measured, 0), Maker["surface"])
    BY <2>2, <2>4, WritesOneWell
  <2> QED
    BY <1>8, <2>3, <2>5, FailsWell DEF Outcome, Maker
<1>9. CASE tool = "spawn-backend-probe"
  <2> DEFINE of == FromSources({"cellc"}) \cup FromFiles({"surface"})
  <2>1. NamesOf(of) \subseteq {"cellc"} \cup UNION {Roots[f] : f \in {"surface"}}
    BY NamesRead
  <2>2. NamesOf(of) \subseteq Roots["probe"]
    <3>1. {"cellc"} \cup UNION {Roots[f] : f \in {"surface"}} \subseteq Roots["probe"]
      BY DEF Roots
    <3> HIDE DEF of
    <3> QED
      BY <2>1, <3>1
  <2>3. SpawnBackendProbe = Writes("probe", of, disk["surface"].ok, 0)
    BY DEF SpawnBackendProbe
  <2>4. disk["surface"].ok \in BOOLEAN
    BY DEF DiskTypes
  <2> HIDE DEF of
  <2>5. WritesWell(Writes("probe", of, disk["surface"].ok, 0), Maker["probe"])
    BY <2>2, <2>4, WritesOneWell
  <2> QED
    BY <1>9, <2>3, <2>5 DEF Outcome, Maker
<1>10. CASE tool = "parent-lock-abi-preflight"
  <2> DEFINE of == FromSources({"lock", "cellc"})
             built == [wrote |-> [preflight |-> [of |-> of, ok |-> TRUE],
                                  lockelf   |-> [of |-> of, ok |-> TRUE]],
                       exit |-> 0]
  <2>1. NamesOf(of) \subseteq Roots["preflight"] /\ Roots["lockelf"] = Roots["preflight"]
    BY NamesRead DEF Roots
  <2>2. ParentLockAbiPreflight \in {built, Writes("preflight", of, FALSE, 1)}
    BY DEF ParentLockAbiPreflight
  <2> HIDE DEF of
  <2>3. WritesWell(built, tool)
    <3>1. DOMAIN built.wrote = {"preflight", "lockelf"}
      OBVIOUS
    <3>2. ASSUME NEW f \in {"preflight", "lockelf"}
          PROVE  built.wrote[f].of = of /\ built.wrote[f].ok = TRUE
      OBVIOUS
    <3>3. Maker["preflight"] = tool /\ Maker["lockelf"] = tool
      BY <1>10 DEF Maker
    <3> HIDE DEF built
    <3> QED
      BY <2>1, <3>1, <3>2, <3>3 DEF WritesWell
  <2>4. WritesWell(Writes("preflight", of, FALSE, 1), Maker["preflight"])
    BY <2>1, WritesOneWell
  <2> HIDE DEF built
  <2> QED
    BY <1>10, <2>2, <2>3, <2>4 DEF Outcome, Maker
<1>11. CASE tool = "build-action"
  <2>1. NamesOf(FromSources({"state", "cellc"})) \subseteq Roots["actionelf"]
    BY NamesRead DEF Roots
  <2>2. WritesWell(BuildAction, Maker["actionelf"])
    BY <2>1, WritesOneWell, FailsWell DEF BuildAction
  <2> QED
    BY <1>11, <2>2 DEF Outcome, Maker
<1>12. CASE tool \in {"child-harness", "parent-harness"}
  <2>1. /\ (UNION {Roots[f] : f \in {"staged", "ipc"}}) \cup {} \subseteq Roots["child"]
        /\ (UNION {Roots[f] : f \in {"lockelf", "staged"}}) \cup {} \subseteq Roots["parent"]
    BY DEF Roots
  <2>2. /\ WritesWell(ChildHarness, Maker["child"])
        /\ WritesWell(ParentHarness, Maker["parent"])
    BY <2>1, FromWell DEF ChildHarness, ParentHarness
  <2> QED
    BY <1>12, <2>2 DEF Outcome, Maker
<1>13. CASE tool = "state-type-harness"
  <2>1. (UNION {Roots[f] : f \in {"actionelf", "canonical"}}) \cup {"fixtures"}
          \subseteq Roots["statetype"]
    BY DEF Roots
  <2>2. WritesWell(Harness("statetype", {"actionelf", "canonical"}, {"fixtures"}),
                   Maker["statetype"])
    BY <2>1, FromWell
  <2> QED
    BY <1>13, <2>2, FailsWell DEF Outcome, Maker, StateTypeHarness
<1>14. CASE tool = "combined-harness"
  <2> DEFINE read == {"lockelf", "actionelf", "staged", "canonical"}
  <2>1. (UNION {Roots[f] : f \in read}) \cup {"fixtures"} \subseteq Roots["combined"]
    BY DEF Roots
  <2>2. WritesWell(Harness("combined", read, {"fixtures"}), Maker["combined"])
    BY <2>1, FromWell
  <2> QED
    BY <1>14, <2>2, FailsWell DEF Outcome, Maker, CombinedHarness
<1>15. CASE tool = "fixture-harness"
  <2> DEFINE read == Attached \cup {"surface"}
             of == FromSources({"fixtures", "state"}) \cup FromFiles(read)
             ok == \A g \in Harnesses \cup {"wallet"} : disk[g].ok
             code == Code(source["fixtures"] # "wrong")
  <2>1. read \subseteq Files
    BY DEF Attached
  <2>2. NamesOf(of) \subseteq Roots["fixturereport"]
    <3>1. NamesOf(of) \subseteq {"fixtures", "state"} \cup UNION {Roots[f] : f \in read}
      BY <2>1, NamesRead
    <3>2. {"fixtures", "state"} \cup UNION {Roots[f] : f \in read} \subseteq Sources
      BY <2>1, RootsAreSources
    <3>3. Roots["fixturereport"] = Sources
      BY DEF Roots
    <3> QED
      BY <3>1, <3>2, <3>3
  <2>3. FixtureHarness \in {Writes("fixturereport", of, ok, code), Fails}
    BY DEF FixtureHarness
  <2>4. ok \in BOOLEAN
    OBVIOUS
  <2> HIDE DEF of, ok, code
  <2>5. WritesWell(Writes("fixturereport", of, ok, code), Maker["fixturereport"])
    BY <2>2, <2>4, WritesOneWell
  <2> QED
    BY <1>15, <2>3, <2>5, FailsWell DEF Outcome, Maker
<1>16. CASE tool = "wallet-signing-alignment"
  <2> DEFINE of == FromSources({"lock", "state"}) \cup FromFiles({"canonical"})
             ok == AllRequiredSnippetsPresent
  <2>1. NamesOf(of) \subseteq {"lock", "state"} \cup UNION {Roots[f] : f \in {"canonical"}}
    BY NamesRead
  <2>2. NamesOf(of) \subseteq Roots["wallet"]
    <3>1. {"lock", "state"} \cup UNION {Roots[f] : f \in {"canonical"}} \subseteq Roots["wallet"]
      BY DEF Roots
    <3> HIDE DEF of
    <3> QED
      BY <2>1, <3>1
  <2>3. WalletSigningAlignment \in {Writes("wallet", of, ok, Code(ok)), Fails}
    BY DEF WalletSigningAlignment
  <2>4. ok \in BOOLEAN
    BY DEF AllRequiredSnippetsPresent
  <2> HIDE DEF of, ok
  <2>5. WritesWell(Writes("wallet", of, ok, Code(ok)), Maker["wallet"])
    BY <2>2, <2>4, WritesOneWell
  <2> QED
    BY <1>16, <2>3, <2>5, FailsWell DEF Outcome, Maker
<1> QED
  BY <1>1, <1>2, <1>3, <1>4, <1>5, <1>6, <1>7, <1>8, <1>9, <1>10, <1>11, <1>12, <1>13, <1>14,
     <1>15, <1>16 DEF Tools, Maker
-----------------------------------------------------------------------------
(***************************************************************************)
(* The procedures.                                                         *)
(***************************************************************************)

\* How long they are, and what tools they are made of.
LEMMA Procedures ==
  /\ DOMAIN Procedure = {"readme", "phase6"}
  /\ Len(Procedure["readme"]) = 21 /\ Len(Procedure["phase6"]) = 3
  /\ \A p \in DOMAIN Procedure : \A n \in 1..Len(Procedure[p]) : Procedure[p][n] \in Tools
<1>1. DOMAIN Procedure = {"readme", "phase6"}
  BY DEF Procedure
<1>2. Len(Procedure["readme"]) = 21 /\ Len(Procedure["phase6"]) = 3
  BY DEF Procedure
<1>3. \A n \in 1..21 : Procedure["readme"][n] \in Tools
  BY FilesByName DEF Procedure, Tools, Maker
<1>4. \A n \in 1..3 : Procedure["phase6"][n] \in Tools
  BY FilesByName DEF Procedure, Tools, Maker
<1> QED
  BY <1>1, <1>2, <1>3, <1>4

\* A file is first made by the command of its stage.
LEMMA Stages ==
  ASSUME NEW f \in Files
  PROVE  /\ Stage[f] \in 1..20
         /\ Procedure["readme"][Stage[f]] = Maker[f]
         /\ \A n \in 1..21 : Procedure["readme"][n] = Maker[f] => Stage[f] <= n
BY FilesByName DEF Stage, Procedure, Maker

\* What a file needs is made before it; the reports on the surface need some
\* that the commands behind them make.
LEMMA NeedsEarlier ==
  ASSUME NEW f \in Files
  PROVE  /\ Needs[f] \subseteq Files
         /\ f \in FirstPass => \A g \in Needs[f] : g \in FirstPass /\ Stage[g] < Stage[f]
         /\ \A g \in Needs[f] : g \in FirstPass \/ Stage[g] < Stage[f]
BY FilesByName DEF Needs, Stage, FirstPass, Attached
-----------------------------------------------------------------------------
(***************************************************************************)
(* The steps.                                                              *)
(***************************************************************************)

Tool == Procedure[proc][step + 1]

\* What running a tool does to the files.
LEMMA DiskAfter ==
  ASSUME TypeOK, RunTool
  PROVE  /\ Tool \in Tools /\ source' = source
         /\ \A f \in Files : Maker[f] # Tool => disk'[f] = disk[f]
         /\ \A f \in Files : MadeOf(Outcome(Tool), f) => Fresh(f)'
         /\ DOMAIN disk' = Files /\ DiskTypes'
<1>1. DiskTypes /\ proc \in DOMAIN Procedure /\ step \in 0..Len(Procedure[proc])
  BY DEF TypeOK, DiskTypes, NamesOf
<1>2. Len(Procedure[proc]) \in Nat /\ step # Len(Procedure[proc])
  BY <1>1, Procedures DEF RunTool, AtRest
<1>3. Tool \in Tools
  BY <1>1, <1>2, Procedures DEF Tool
<1>4. /\ source' = source
      /\ disk' = [f \in Files |-> IF f \in DOMAIN Outcome(Tool).wrote
                                  THEN Outcome(Tool).wrote[f] ELSE disk[f]]
  BY DEF RunTool, Tool
<1>5. WritesWell(Outcome(Tool), Tool)
  BY <1>1, <1>3, OutcomeWell
<1>6. \A f \in Files : Maker[f] # Tool => disk'[f] = disk[f]
  BY <1>4, <1>5 DEF WritesWell
<1>7. \A f \in Files : MadeOf(Outcome(Tool), f) => Fresh(f)'
  BY <1>4 DEF MadeOf, Fresh, Current, FromSources
<1>8. DiskTypes'
  BY <1>1, <1>4, <1>5 DEF DiskTypes, WritesWell
<1> QED
  BY <1>3, <1>4, <1>6, <1>7, <1>8

\* A file stays fresh, or is made fresh again, while the sources are good and
\* what it needs is fresh.
LEMMA FreshAgain ==
  ASSUME TypeOK, RunTool, NEW f \in Files, Fresh(f), AllFresh(Needs[f]), GoodTree
  PROVE  Fresh(f)'
<1>1. CASE Maker[f] = Tool
  BY <1>1, Makes, DiskAfter
<1>2. CASE Maker[f] # Tool
  BY <1>2, DiskAfter DEF Fresh, Current, FromSources
<1> QED
  BY <1>1, <1>2

\* The next command of the README succeeds.
LEMMA PassedOn ==
  ASSUME IInv, RunTool, proc = "readme", ~spoilt, Outcome(Tool).exit = 0
  PROVE  /\ \A f \in FirstPass : Stage[f] <= step + 1 => Fresh(f)'
         /\ step + 1 >= 18 => /\ \A s \in {"verifier", "lock", "state"} : source[s] = Good(s)
                              /\ source["fixtures"] # "twelve"
         /\ step + 1 >= 19 => source["fixtures"] # "wrong"
         /\ clean >= 1 => \A f \in Files : Stage[f] <= step + 1 => Fresh(f)'
<1>1. TypeOK /\ Passed(step) /\ step \in 0..20 /\ step + 1 \in 1..21
  <2>1. ~AtRest
    BY DEF RunTool
  <2>2. TypeOK /\ Passed(step)
    BY <2>1 DEF IInv, PassInv
  <2>3. step \in 0..Len(Procedure["readme"]) /\ step # Len(Procedure["readme"])
    BY <2>1, <2>2 DEF TypeOK, AtRest
  <2> QED
    BY <2>2, <2>3, Procedures
<1>2. Tool = Procedure["readme"][step + 1]
  BY DEF Tool
<1>3. ASSUME NEW f \in Files, Stage[f] <= step + 1, AllFresh(Needs[f]),
             Stage[f] <= step => Fresh(f)
      PROVE  Fresh(f)'
  <2>1. CASE Maker[f] = Tool
    BY <1>1, <1>3, <2>1, Makes, DiskAfter
  <2>2. CASE Maker[f] # Tool
    <3>1. Stage[f] # step + 1 /\ Stage[f] \in Nat
      BY <1>2, <2>2, Stages
    <3>2. Fresh(f)
      BY <1>1, <1>3, <3>1
    <3> QED
      BY <1>1, <2>2, <3>2, DiskAfter DEF Fresh, Current, FromSources
  <2> QED
    BY <2>1, <2>2
<1>4. ASSUME NEW f \in FirstPass, Stage[f] <= step + 1
      PROVE  Fresh(f)'
  <2>1. f \in Files /\ Stage[f] \in Nat
    BY Stages DEF FirstPass
  <2>2. AllFresh(Needs[f])
    <3>1. ASSUME NEW g \in Needs[f]
          PROVE  Fresh(g)
      <4>1. g \in FirstPass /\ Stage[g] < Stage[f] /\ Stage[g] \in Nat
        BY <1>4, <2>1, NeedsEarlier, Stages
      <4> QED
        BY <1>1, <1>4, <2>1, <4>1 DEF Passed
    <3> QED
      BY <3>1 DEF AllFresh
  <2> QED
    BY <1>1, <1>3, <1>4, <2>1, <2>2 DEF Passed
<1>5. ASSUME clean >= 1, NEW f \in Files, Stage[f] <= step + 1
      PROVE  Fresh(f)'
  <2>1. AllFresh(Needs[f])
    <3>1. ASSUME NEW g \in Needs[f]
          PROVE  Fresh(g)
      <4>1. g \in Files /\ Stage[f] \in Nat /\ Stage[g] \in Nat
        BY NeedsEarlier, Stages
      <4>2. CASE g \in FirstPass
        BY <1>5, <4>2 DEF IInv, CleanInv, AllFresh
      <4>3. CASE Stage[g] < Stage[f]
        BY <1>1, <1>5, <4>1, <4>3 DEF Passed
      <4> QED
        BY <4>2, <4>3, NeedsEarlier
    <3> QED
      BY <3>1 DEF AllFresh
  <2> QED
    BY <1>1, <1>3, <1>5, <2>1 DEF Passed
<1>6. ASSUME step + 1 >= 18
      PROVE  /\ \A s \in {"verifier", "lock", "state"} : source[s] = Good(s)
             /\ source["fixtures"] # "twelve"
  <2>1. CASE step >= 18
    BY <1>1, <2>1 DEF Passed
  <2>2. CASE step = 17
    <3>1. Maker["combined"] = Tool /\ "combined" \in Files
      BY <1>2, <2>2, FilesByName DEF Maker, Procedure
    <3>2. AllFresh(Needs["combined"]) /\ Current("canonical")
      BY <1>1, <2>2, FilesByName DEF Needs, AllFresh, Passed, FirstPass, Stage, Fresh
    <3>3. Tool = "combined-harness"
      BY <3>1 DEF Maker
    <3>4. Outcome(Tool) = CombinedHarness
      BY <3>3 DEF Outcome
    <3>5. ~TwelveVectors
      BY <3>4, FailsWritesNothing DEF CombinedHarness
    <3>6. source["fixtures"] # "twelve"
      BY <3>2, <3>5, TwelveInSources
    <3> DEFINE read == {"lockelf", "actionelf", "staged", "canonical"}
    <3>7. Outcome(Tool) = Harness("combined", read, {"fixtures"})
      BY <3>4, <3>5 DEF CombinedHarness
    <3>8. Roots["combined"] = (UNION {Roots[g] : g \in read}) \cup {"fixtures"}
      BY SourcesByName DEF Roots
    <3>9. AllFresh(read) /\ read \subseteq Files
      BY <3>2, FilesByName DEF Needs
    <3> HIDE DEF read
    <3>10. Harness("combined", read, {"fixtures"}).exit = 0
      BY <3>7
    <3>11. Sound(FromSources(Roots["combined"]))
      BY <3>8, <3>9, <3>10, HarnessMakes
    <3>12. Roots["combined"] = Sources
      BY DEF Roots
    <3>13. \A s \in {"verifier", "lock", "state"} : source[s] = Good(s)
      BY <3>11, <3>12, SoundSources, SourcesByName
    <3> QED
      BY <3>6, <3>13
  <2> QED
    BY <1>1, <1>6, <2>1, <2>2
<1>7. ASSUME step + 1 >= 19
      PROVE  source["fixtures"] # "wrong"
  <2>1. CASE step >= 19
    BY <1>1, <2>1 DEF Passed
  <2>2. CASE step = 18
    <3>1. Tool = "fixture-harness"
      BY <1>2, <2>2 DEF Procedure
    <3>2. Outcome(Tool) = FixtureHarness
      BY <3>1 DEF Outcome
    <3>3. FixtureHarness.exit \in {1, Code(source["fixtures"] # "wrong")}
      BY FailsWritesNothing DEF FixtureHarness, Writes
    <3> QED
      BY <3>2, <3>3 DEF Code
  <2> QED
    BY <1>1, <1>7, <2>1, <2>2
<1> QED
  BY <1>4, <1>5, <1>6, <1>7

\* A run of a tool leaves the number of commands that are over within the
\* procedure, and the next command of the README does not end a pass twice.
LEMMA StepAfter ==
  ASSUME TypeOK, RunTool
  PROVE  /\ step \in Nat /\ step < Len(Procedure[proc]) /\ Len(Procedure[proc]) \in Nat
         /\ \/ step' = step + 1
            \/ Outcome(Tool).exit # 0 /\ step' = Len(Procedure[proc])
         /\ spoilt' = (spoilt \/ Outcome(Tool).exit # 0)
         /\ clean' = IF step' = Len(Procedure[proc]) /\ proc = "readme" /\ ~spoilt'
                     THEN clean + 1 ELSE clean
         /\ proc' = proc /\ passes' = passes /\ edits' = edits /\ source' = source
<1>1. proc \in DOMAIN Procedure /\ step \in 0..Len(Procedure[proc])
  BY DEF TypeOK
<1>2. Len(Procedure[proc]) \in Nat
  BY <1>1, Procedures
<1>3. step # Len(Procedure[proc])
  BY DEF RunTool, AtRest
<1>4. step \in Nat /\ step < Len(Procedure[proc])
  BY <1>1, <1>2, <1>3
<1> QED
  BY <1>2, <1>4 DEF RunTool, Tool
-----------------------------------------------------------------------------
(***************************************************************************)
(* The invariant.                                                          *)
(***************************************************************************)

\* Nothing is on disk and nothing under way.
LEMMA InitInv == Init => IInv
<1> SUFFICES ASSUME Init
             PROVE  IInv
  OBVIOUS
<1>1. TypeOK
  <2>1. \A s \in Sources : Good(s) \in VersionsOf(s)
    <3>1. \A s \in Sources : 1 \in DOMAIN Versions[s]
      BY SourcesByName DEF Versions
    <3> QED
      BY <3>1 DEF Good, VersionsOf
  <2>2. /\ source \in [Sources -> UNION {VersionsOf(s) : s \in Sources}]
        /\ \A s \in Sources : source[s] \in VersionsOf(s)
    BY <2>1 DEF Init
  <2>3. /\ DOMAIN disk = Files
        /\ \A f \in Files : disk[f].ok \in BOOLEAN
                            /\ {p[1] : p \in disk[f].of} \subseteq Roots[f]
    BY DEF Init, Absent
  <2>4. /\ proc \in DOMAIN Procedure /\ step \in 0..Len(Procedure[proc])
        /\ spoilt \in BOOLEAN
    <3>1. proc = "readme" /\ step = Len(Procedure["readme"]) /\ spoilt = FALSE
      BY DEF Init
    <3>2. proc \in DOMAIN Procedure /\ Len(Procedure[proc]) \in Nat
      BY <3>1, Procedures
    <3>3. step \in 0..Len(Procedure[proc])
      <4> DEFINE n == Len(Procedure[proc])
      <4>1. n \in Nat /\ step = n
        BY <3>1, <3>2
      <4> HIDE DEF n
      <4>2. step \in 0..n
        BY <4>1
      <4> QED
        BY <4>2 DEF n
    <3>4. spoilt \in BOOLEAN
      BY <3>1
    <3> QED
      BY <3>2, <3>3, <3>4
  <2>5. passes \in 0..MaxPasses /\ edits \in 0..MaxEdits /\ clean \in 0..passes
    BY EvidenceAssumption DEF Init
  <2> QED
    BY <2>2, <2>3, <2>4, <2>5 DEF TypeOK
<1>2. AtRest
  BY DEF Init, AtRest
<1>3. clean = 0
  BY DEF Init
<1> QED
  BY <1>1, <1>2, <1>3 DEF IInv, Counted, PassInv, CleanInv

\* An edit spoils the pass it falls into, and what was clean.
LEMMA EditInv ==
  ASSUME IInv, NEW s \in Sources, Edit(s)
  PROVE  IInv'
<1>1. TypeOK'
  <2>1. PICK v \in VersionsOf(s) : source' = [source EXCEPT ![s] = v]
    BY DEF Edit
  <2>2. /\ source' \in [Sources -> UNION {VersionsOf(t) : t \in Sources}]
        /\ \A t \in Sources : source'[t] \in VersionsOf(t)
    BY <2>1 DEF IInv, TypeOK
  <2>3. disk' = disk /\ proc' = proc /\ step' = step /\ passes' = passes
    BY DEF Edit
  <2>4. /\ DOMAIN disk' = Files
        /\ \A f \in Files : disk'[f].ok \in BOOLEAN
                            /\ {p[1] : p \in disk'[f].of} \subseteq Roots[f]
        /\ proc' \in DOMAIN Procedure /\ step' \in 0..Len(Procedure[proc'])
        /\ passes' \in 0..MaxPasses
    BY <2>3 DEF IInv, TypeOK
  <2>5. edits' \in 0..MaxEdits /\ clean' \in 0..passes' /\ spoilt' \in BOOLEAN
    <3>1. edits \in 0..MaxEdits /\ passes \in 0..MaxPasses
      BY DEF IInv, TypeOK
    <3>2. edits < MaxEdits /\ edits' = edits + 1 /\ clean' = 0 /\ spoilt' = TRUE
      BY DEF Edit
    <3> QED
      BY <2>3, <3>1, <3>2, EvidenceAssumption
  <2> QED
    BY <2>2, <2>4, <2>5 DEF TypeOK
<1>2. Counted'
  <2>1. clean' = 0 /\ passes' = passes /\ AtRest' = AtRest
    BY DEF Edit, AtRest
  <2>2. ~AtRest => clean < passes
    BY DEF IInv, Counted
  <2>3. clean \in 0..passes /\ passes \in Nat
    BY DEF IInv, TypeOK
  <2> QED
    BY <2>1, <2>2, <2>3 DEF Counted
<1>3. spoilt' = TRUE /\ clean' = 0
  BY DEF Edit
<1> QED
  BY <1>1, <1>2, <1>3 DEF IInv, PassInv, CleanInv

\* Nothing of a pass that begins is over.
LEMMA BeginInv ==
  ASSUME IInv, NEW p \in DOMAIN Procedure, Begin(p)
  PROVE  IInv'
<1>1. /\ source' = source /\ disk' = disk /\ edits' = edits /\ clean' = clean
      /\ proc' = p /\ step' = 0 /\ spoilt' = FALSE /\ passes' = passes + 1
      /\ passes < MaxPasses
  BY DEF Begin
<1>2. TypeOK
  BY DEF IInv
<1>3. clean \in 0..passes /\ passes \in 0..MaxPasses
  BY <1>2 DEF TypeOK
<1>4. TypeOK'
  <2>1. 0 \in 0..Len(Procedure[p])
    BY Procedures
  <2>2. passes' \in 0..MaxPasses /\ clean' \in 0..passes'
    BY <1>1, <1>3, EvidenceAssumption
  <2> QED
    BY <1>1, <1>2, <2>1, <2>2 DEF TypeOK
<1>5. Counted'
  BY <1>1, <1>3 DEF Counted
<1>6. PassInv'
  <2>1. \A f \in Files : ~(Stage[f] <= 0)
    BY Stages
  <2>2. \A f \in FirstPass : f \in Files
    BY DEF FirstPass
  <2>3. Passed(0)'
    BY <2>1, <2>2 DEF Passed
  <2> QED
    BY <1>1, <2>3 DEF PassInv
<1>7. CleanInv'
  <2>1. GoodTree' = GoodTree /\ AllFresh(FirstPass)' = AllFresh(FirstPass)
        /\ AllFresh(Files)' = AllFresh(Files)
    BY <1>1 DEF GoodTree, AllFresh, Fresh, Current, FromSources
  <2> QED
    BY <1>1, <2>1 DEF CleanInv, IInv
<1> QED
  BY <1>4, <1>5, <1>6, <1>7 DEF IInv

\* The types and the count after a tool has run.
LEMMA RunToolTypes ==
  ASSUME IInv, RunTool
  PROVE  TypeOK' /\ Counted'
<1>1. TypeOK /\ Counted /\ ~AtRest
  BY DEF IInv, RunTool
<1>2. clean \in 0..passes /\ passes \in 0..MaxPasses /\ clean < passes
  BY <1>1 DEF TypeOK, Counted
<1>3. clean' \in {clean, clean + 1}
  BY <1>1, StepAfter
<1>4. TypeOK'
  <2>1. /\ source' \in [Sources -> UNION {VersionsOf(s) : s \in Sources}]
        /\ \A s \in Sources : source'[s] \in VersionsOf(s)
        /\ proc' \in DOMAIN Procedure
        /\ passes' \in 0..MaxPasses /\ edits' \in 0..MaxEdits
    BY <1>1, StepAfter DEF TypeOK
  <2>2. step' \in 0..Len(Procedure[proc'])
    BY <1>1, StepAfter
  <2>3. clean' \in 0..passes'
    BY <1>1, <1>2, <1>3, StepAfter
  <2>4. spoilt' \in BOOLEAN
    BY <1>1, StepAfter
  <2>5. DOMAIN disk' = Files /\ DiskTypes'
    BY <1>1, DiskAfter
  <2> QED
    BY <2>1, <2>2, <2>3, <2>4, <2>5 DEF TypeOK, DiskTypes, NamesOf
<1>5. Counted'
  <2>1. ASSUME ~AtRest'
        PROVE  clean' < passes'
    <3>1. step' # Len(Procedure[proc]) /\ proc' = proc
      BY <1>1, <2>1, StepAfter DEF AtRest
    <3>2. clean' = clean /\ passes' = passes
      BY <1>1, <3>1, StepAfter
    <3> QED
      BY <1>2, <3>2
  <2> QED
    BY <2>1 DEF Counted
<1> QED
  BY <1>4, <1>5

\* What a pass knows after its next command.
LEMMA RunToolPass ==
  ASSUME IInv, RunTool
  PROVE  PassInv'
<1> SUFFICES ASSUME proc' = "readme", ~spoilt', ~AtRest'
             PROVE  Passed(step)'
  BY DEF PassInv
<1>1. TypeOK
  BY DEF IInv
<1>2. /\ proc = "readme" /\ ~spoilt /\ Outcome(Tool).exit = 0
      /\ step' = step + 1 /\ source' = source
  BY <1>1, StepAfter
<1>3. step' # Len(Procedure[proc])
  BY <1>2 DEF AtRest
<1>4. clean' = clean
  BY <1>1, <1>3, StepAfter
<1>5. /\ \A f \in FirstPass : Stage[f] <= step + 1 => Fresh(f)'
      /\ step + 1 >= 18 => /\ \A s \in {"verifier", "lock", "state"} : source[s] = Good(s)
                           /\ source["fixtures"] # "twelve"
      /\ step + 1 >= 19 => source["fixtures"] # "wrong"
      /\ clean >= 1 => \A f \in Files : Stage[f] <= step + 1 => Fresh(f)'
  BY <1>2, PassedOn
<1> QED
  BY <1>2, <1>4, <1>5 DEF Passed

\* The pass that a tool has ended, and those before it.
LEMMA RunToolClean ==
  ASSUME IInv, RunTool
  PROVE  CleanInv'
<1>1. TypeOK /\ CleanInv
  BY DEF IInv
<1>2. clean \in Nat /\ clean' \in {clean, clean + 1} /\ source' = source
  BY <1>1, StepAfter DEF TypeOK
<1>3. GoodTree' = GoodTree
  BY <1>2 DEF GoodTree
<1>4. ASSUME clean >= 1
      PROVE  GoodTree /\ AllFresh(FirstPass)'
  <2>1. GoodTree /\ AllFresh(FirstPass)
    BY <1>1, <1>4 DEF CleanInv
  <2>2. ASSUME NEW f \in FirstPass
        PROVE  Fresh(f)'
    <3>1. f \in Files
      BY DEF FirstPass
    <3>2. Fresh(f) /\ AllFresh(Needs[f])
      BY <2>1, <3>1, NeedsEarlier DEF AllFresh
    <3> QED
      BY <1>1, <2>1, <3>1, <3>2, FreshAgain
  <2> QED
    BY <2>1, <2>2 DEF AllFresh
<1>5. ASSUME clean >= 2
      PROVE  AllFresh(Files)'
  <2>1. GoodTree /\ AllFresh(Files)
    BY <1>1, <1>2, <1>5 DEF CleanInv
  <2>2. ASSUME NEW f \in Files
        PROVE  Fresh(f)'
    <3>1. Fresh(f) /\ AllFresh(Needs[f])
      BY <2>1, NeedsEarlier DEF AllFresh
    <3> QED
      BY <1>1, <2>1, <3>1, FreshAgain
  <2> QED
    BY <2>2 DEF AllFresh
<1>6. ASSUME clean' = clean + 1
      PROVE  GoodTree /\ AllFresh(FirstPass)' /\ (clean >= 1 => AllFresh(Files)')
  <2>1. /\ proc = "readme" /\ ~spoilt /\ Outcome(Tool).exit = 0
        /\ step' = step + 1 /\ step' = Len(Procedure["readme"])
    <3>1. step' = Len(Procedure[proc]) /\ proc = "readme" /\ ~spoilt'
      BY <1>1, <1>2, <1>6, StepAfter
    <3>2. ~spoilt /\ Outcome(Tool).exit = 0
      BY <1>1, <3>1, StepAfter
    <3> QED
      BY <1>1, <3>1, <3>2, StepAfter
  <2>2. step + 1 = 21
    BY <2>1, Procedures
  <2>3. \A f \in Files : Stage[f] <= step + 1 /\ (f \in FirstPass => Fresh(f)')
    <3>1. \A f \in Files : Stage[f] <= 21
      BY Stages
    <3> QED
      BY <2>1, <2>2, <3>1, PassedOn
  <2>4. AllFresh(FirstPass)'
    BY <2>3 DEF AllFresh, FirstPass
  <2>5. clean >= 1 => AllFresh(Files)'
    BY <2>1, <2>3, PassedOn DEF AllFresh
  <2>6. /\ \A s \in {"verifier", "lock", "state"} : source[s] = Good(s)
        /\ source["fixtures"] # "twelve" /\ source["fixtures"] # "wrong"
    BY <2>1, <2>2, PassedOn
  <2>7. source["fixtures"] \in VersionsOf("fixtures")
    BY <1>1, SourcesByName DEF TypeOK
  <2>8. GoodTree
    BY <2>6, <2>7, SourcesByName DEF GoodTree
  <2> QED
    BY <2>4, <2>5, <2>8
<1> QED
  BY <1>2, <1>3, <1>4, <1>5, <1>6 DEF CleanInv

\* Every step keeps the invariant.
LEMMA NextInv == IInv /\ [Next]_vars => IInv'
<1> SUFFICES ASSUME IInv, [Next]_vars
             PROVE  IInv'
  OBVIOUS
<1>1. ASSUME NEW s \in Sources, Edit(s)
      PROVE  IInv'
  BY <1>1, EditInv
<1>2. ASSUME NEW p \in DOMAIN Procedure, Begin(p)
      PROVE  IInv'
  BY <1>2, BeginInv
<1>3. CASE RunTool
  BY <1>3, RunToolTypes, RunToolPass, RunToolClean DEF IInv
<1>4. CASE UNCHANGED vars
  BY <1>4 DEF vars, IInv, TypeOK, Counted, AtRest, PassInv, Passed, CleanInv, GoodTree,
              AllFresh, Fresh, Current, FromSources
<1> QED
  BY <1>1, <1>2, <1>3, <1>4 DEF Next

\* The invariant holds throughout.
LEMMA SpecInv == Spec => []IInv
<1>1. Init => IInv
  BY InitInv
<1>2. IInv /\ [Next]_vars => IInv'
  BY NextInv
<1> QED
  BY <1>1, <1>2, PTL DEF Spec
-----------------------------------------------------------------------------
(***************************************************************************)
(* The theorems.                                                           *)
(***************************************************************************)

\* Type correctness; in particular every tool under tools/src and every harness
\* writes files that depend on the sources Roots names and on no other.
THEOREM TypeCorrect == Spec => []TypeOK
<1>1. IInv => TypeOK
  BY DEF IInv
<1> QED
  BY <1>1, SpecInv, PTL

\* One pass over the README's commands in which all exit with 0 and nothing is
\* edited leaves reports of success about the sources as they are, whatever
\* earlier passes, given up or failed, left under target/.
THEOREM CleanPass == Spec => []CleanPassIsEvidence
<1>1. IInv => CleanPassIsEvidence
  <2>1. Harnesses \cup {"wallet"} \subseteq FirstPass
    BY FilesByName DEF Harnesses, FirstPass
  <2> QED
    BY <2>1 DEF IInv, CleanInv, AllFresh, Fresh, CleanPassIsEvidence
<1> QED
  BY <1>1, SpecInv, PTL

\* The audit surface is made before what it reads; after a second such pass
\* every file under target/ reports success about the sources as they are.
THEOREM SecondPass == Spec => []SecondPassIsCurrent
<1>1. IInv => SecondPassIsCurrent
  BY DEF IInv, CleanInv, AllFresh, Fresh, SecondPassIsCurrent
<1> QED
  BY <1>1, SpecInv, PTL
==============================================================================
