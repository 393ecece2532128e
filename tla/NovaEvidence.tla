----------------------------- MODULE NovaEvidence -----------------------------
(***************************************************************************)
(* The evidence of the core package: the tools and harnesses that write    *)
(* target/novaseal-*, run one after another by an operator as the README   *)
(* and the acceptance runbook list them, while the sources are edited.     *)
(*                                                                         *)
(* The tools talk through files alone: each reads what the others left,    *)
(* fails without writing when a file it must have is missing, writes its   *)
(* own and leaves an exit code.  No file is ever removed, so a tool that   *)
(* fails leaves its last result for its readers.                           *)
(*                                                                         *)
(* A file is its provenance, the source versions that went into it, and    *)
(* whether it reports success.  What the programs behind the harnesses do  *)
(* is the subject of the other modules; here a harness finds what it       *)
(* expects iff the programs it runs were built from good sources.          *)
(***************************************************************************)
EXTENDS Naturals, Sequences

CONSTANTS
  MaxEdits,   \* bound: edits of the sources
  MaxPasses   \* bound: procedures the operator begins

VARIABLES
  source,   \* the version of each source in the working tree
  disk,     \* the files under target/
  proc,     \* the procedure that is under way, or was last
  step,     \* how many of its commands are over
  spoilt,   \* whether a tool failed or a source was edited since it began
  passes,   \* procedures begun
  edits,    \* edits made
  clean     \* unspoilt README passes since the last edit

vars == <<source, disk, proc, step, spoilt, passes, edits, clean>>

ASSUME EvidenceAssumption == MaxEdits \in Nat /\ MaxPasses \in Nat
-----------------------------------------------------------------------------
(***************************************************************************)
(* Sources and files.                                                      *)
(***************************************************************************)

\* The first version of each source is a good one.  A lock or a state script
\* may also hash by the legacy domain rule, lack a guard, or not compile; the
\* fixtures may be one too many, or expect what the source model does not give.
\* The compiler is a working tree of its own.
Versions ==
  [schemas  |-> <<"v0", "v0-reordered">>,
   fixtures |-> <<"eleven", "twelve", "wrong">>,
   verifier |-> <<"bip340", "broken">>,
   lock     |-> <<"packed", "domain", "lax", "broken">>,
   state    |-> <<"packed", "domain", "lax", "broken">>,
   cellc    |-> <<"0.16", "0.17">>]

Sources == DOMAIN Versions
VersionsOf(s) == {Versions[s][i] : i \in DOMAIN Versions[s]}
Good(s) == Versions[s][1]

Absent == [of |-> {}, ok |-> FALSE]

\* What the tools write, and the sources that it depends on.
Roots ==
  [layout     |-> {"schemas"},
   canonical  |-> {"schemas", "fixtures"},
   btc        |-> {"schemas", "fixtures"},
   ipc        |-> {"schemas", "fixtures"},
   shell      |-> {"schemas", "fixtures"},
   release    |-> {"verifier"},
   staged     |-> {"verifier"},
   bundle     |-> {"lock", "state", "cellc"},
   surface    |-> Sources,
   artifact   |-> Sources,
   child      |-> {"schemas", "fixtures", "verifier"},
   probe      |-> Sources,
   preflight  |-> {"lock", "cellc"},
   lockelf    |-> {"lock", "cellc"},
   parent     |-> {"lock", "verifier", "cellc"},
   actionelf  |-> {"state", "cellc"},
   statetype  |-> {"schemas", "fixtures", "state", "cellc"},
   combined   |-> Sources,
   wallet     |-> {"schemas", "fixtures", "lock", "state"},
   fixturereport |-> Sources]

Files == DOMAIN Roots

Exists(f) == disk[f].of # {}
AllExist(fs) == \A f \in fs : Exists(f)

\* What a tool reads: the versions of sources, and the provenance of files.
FromSources(ss) == {<<s, source[s]>> : s \in ss}
FromFiles(fs) == UNION {disk[f].of : f \in fs}

\* Programs built from these versions do what the harnesses expect.
Sound(of) ==
  \A p \in of : p[1] \in {"verifier", "lock", "state"} => p[2] = Good(p[1])

\* The outcomes of a tool: an error before anything is written, and a file.
Nothing == [f \in {} |-> Absent]
Fails == [wrote |-> Nothing, exit |-> 1]
Writes(f, of, ok, exit) ==
  [wrote |-> [g \in {f} |-> [of |-> of, ok |-> ok]], exit |-> exit]
Code(ok) == IF ok THEN 0 ELSE 1
-----------------------------------------------------------------------------
(***************************************************************************)
(* Vectors and reports that are computed from files.                       *)
(***************************************************************************)

SchemaLayout == Writes("layout", FromSources({"schemas"}), TRUE, 0)

CanonicalVectors ==
  IF Exists("layout")
  THEN Writes("canonical", FromSources({"fixtures"}) \cup FromFiles({"layout"}),
              TRUE, 0)
  ELSE Fails

\* A generator that reads one file and whose own checks of it always pass.
Generator(from, to) ==
  IF Exists(from) THEN Writes(to, FromFiles({from}), TRUE, 0) ELSE Fails

BtcVerifierVectors    == Generator("canonical", "btc")
BtcVerifierIpcVectors == Generator("btc", "ipc")
BtcVerifierShellReport == Generator("ipc", "shell")

\* The host verifier over the vectors: an exit code and no file.
HostVerify(vectors) ==
  [wrote |-> Nothing,
   exit |-> Code(Exists(vectors) /\ Sound(FromSources({"verifier"})))]

\* The combined harness and the wallet alignment want eleven vectors.
TwelveVectors == <<"fixtures", "twelve">> \in disk["canonical"].of

\* The packed rule is looked for in the texts of both scripts taken together,
\* and the state script has a copy of the lock; the legacy rule in either.
AllRequiredSnippetsPresent ==
  source["state"] # "domain" /\ source["lock"] # "domain"

\* The vectors are signed and verified here; no harness report is read.
WalletSigningAlignment ==
  IF Exists("canonical") /\ ~TwelveVectors
  THEN Writes("wallet",
              FromSources({"lock", "state"}) \cup FromFiles({"canonical"}),
              AllRequiredSnippetsPresent, Code(AllRequiredSnippetsPresent))
  ELSE Fails

\* Cycles, size and capacity are measured when every case of the combined report
\* matched; no report is an empty one.
Measured == disk["combined"].ok

\* Mutant: the measurement of the combined report is not taken over.
AuditSurface_NoMeasurement ==
  IF Exists("bundle")
  THEN Writes("surface", FromSources({"state"}) \cup FromFiles({"bundle"}), Measured,
              0)
  ELSE Fails

\* The surface of the bundle with the measurements of the combined report, if
\* there is one: ok when nothing blocks it.  Its blockers are not its exit code.
\* Of the six blockers only the measurement depends on another report.  The five
\* about the bundle and the source (runtime gaps, the lock, named guards, spawn
\* wiring, the receipt output) are taken as clear, as FIELD_GUARD_GAPS.md and
\* AUDIT_STATUS.md of the skeleton report them.
AuditSurface ==
  IF Exists("bundle")
  THEN Writes("surface",
              FromSources({"state"}) \cup FromFiles({"bundle", "combined"}),
              Measured, 0)
  ELSE Fails

\* The reports on the surface say what it says and exit with 0.
SpawnBackendProbe ==
  Writes("probe", FromSources({"cellc"}) \cup FromFiles({"surface"}),
         disk["surface"].ok, 0)

\* The report on everything there is; only the source model's verdict on the
\* fixtures is its exit code.
Attached == {"canonical", "btc", "wallet", "ipc", "shell", "child", "preflight",
             "parent", "statetype", "combined"}

Harnesses == {"child", "preflight", "parent", "statetype", "combined"}

FixtureHarness ==
  IF Exists("surface")
  THEN Writes("fixturereport",
              FromSources({"fixtures", "state"})
                \cup FromFiles(Attached \cup {"surface"}),
              \A f \in Harnesses \cup {"wallet"} : disk[f].ok,
              Code(source["fixtures"] # "wrong"))
  ELSE Fails
-----------------------------------------------------------------------------
(***************************************************************************)
(* Programs that are built and run.                                        *)
(***************************************************************************)

Compiles(s) == source[s] # "broken"

\* cellc audit-bundle over the package.
AuditBundle ==
  IF Compiles("lock") /\ Compiles("state")
  THEN Writes("bundle", FromSources({"lock", "state", "cellc"}), TRUE, 0)
  ELSE Fails

\* cargo build --release of the child verifier.
BuildVerifier == Writes("release", FromSources({"verifier"}), TRUE, 0)

\* --sync stages the release before the two reports are read, so that the copy
\* is made even if one of them is missing.  The verdict is not its exit code.
RiscvShellArtifact ==
  LET read == {"release", "shell", "surface"}
  IN IF ~Exists("release")
     THEN Fails
     ELSE IF AllExist(read)
     THEN [wrote |-> [staged   |-> disk["release"],
                      artifact |-> [of |-> FromFiles(read), ok |-> disk["shell"].ok]],
           exit |-> 0]
     ELSE [wrote |-> [staged |-> disk["release"]], exit |-> 1]

\* Mutant: a mismatch is reported and exits with 0.
Harness_ExitZero(report, files, ss) ==
  IF AllExist(files)
  THEN LET of == FromFiles(files) \cup FromSources(ss)
       IN Writes(report, of, Sound(of), 0)
  ELSE Fails

\* A harness reads the programs and vectors it needs, runs every case, writes
\* its report and only then exits by the cases that did not match.
Harness(report, files, ss) ==
  IF AllExist(files)
  THEN LET of == FromFiles(files) \cup FromSources(ss)
       IN Writes(report, of, Sound(of), Code(Sound(of)))
  ELSE Fails

ChildHarness == Harness("child", {"staged", "ipc"}, {})

\* A failed build leaves the program of the last one that succeeded.
ParentLockAbiPreflight ==
  LET of == FromSources({"lock", "cellc"})
  IN IF Compiles("lock")
     THEN [wrote |-> [preflight |-> [of |-> of, ok |-> TRUE],
                      lockelf   |-> [of |-> of, ok |-> TRUE]],
           exit |-> 0]
     ELSE Writes("preflight", of, FALSE, 1)

\* Mutant: the authority cases are taken from the canonical vectors.
ParentHarness_Canonical ==
  Harness("parent", {"lockelf", "staged", "canonical"}, {})

\* Its authority cases are its own.
ParentHarness == Harness("parent", {"lockelf", "staged"}, {})

\* cellc --entry-action key_auth_transition.
BuildAction ==
  IF Compiles("state")
  THEN Writes("actionelf", FromSources({"state", "cellc"}), TRUE, 0)
  ELSE Fails

\* The timepoint and the out point of a vector come from the fixture it was
\* made of, which may be gone.
StateTypeHarness ==
  IF TwelveVectors /\ source["fixtures"] # "twelve"
  THEN Fails
  ELSE Harness("statetype", {"actionelf", "canonical"}, {"fixtures"})

CombinedHarness ==
  IF TwelveVectors
  THEN Fails
  ELSE Harness("combined", {"lockelf", "actionelf", "staged", "canonical"},
               {"fixtures"})
-----------------------------------------------------------------------------
(***************************************************************************)
(* The procedures and the operator.                                        *)
(***************************************************************************)

Procedure ==
  [readme |->
     <<"audit-bundle", "audit-surface", "schema-layout", "canonical-vectors",
       "btc-verifier-vectors", "verify-vectors", "btc-verifier-ipc-vectors",
       "verify-ipc-vectors", "build-verifier", "btc-verifier-shell-report",
       "riscv-shell-artifact", "child-harness", "spawn-backend-probe",
       "parent-lock-abi-preflight", "parent-harness", "build-action",
       "state-type-harness", "combined-harness", "fixture-harness",
       "wallet-signing-alignment", "fixture-harness">>,
   phase6 |->
     <<"canonical-vectors", "wallet-signing-alignment", "fixture-harness">>]

Outcome(tool) ==
  CASE tool = "audit-bundle"              -> AuditBundle
    [] tool = "audit-surface"             -> AuditSurface
    [] tool = "schema-layout"             -> SchemaLayout
    [] tool = "canonical-vectors"         -> CanonicalVectors
    [] tool = "btc-verifier-vectors"      -> BtcVerifierVectors
    [] tool = "verify-vectors"            -> HostVerify("btc")
    [] tool = "btc-verifier-ipc-vectors"  -> BtcVerifierIpcVectors
    [] tool = "verify-ipc-vectors"        -> HostVerify("ipc")
    [] tool = "build-verifier"            -> BuildVerifier
    [] tool = "btc-verifier-shell-report" -> BtcVerifierShellReport
    [] tool = "riscv-shell-artifact"      -> RiscvShellArtifact
    [] tool = "child-harness"             -> ChildHarness
    [] tool = "spawn-backend-probe"       -> SpawnBackendProbe
    [] tool = "parent-lock-abi-preflight" -> ParentLockAbiPreflight
    [] tool = "parent-harness"            -> ParentHarness
    [] tool = "build-action"              -> BuildAction
    [] tool = "state-type-harness"        -> StateTypeHarness
    [] tool = "combined-harness"          -> CombinedHarness
    [] tool = "fixture-harness"           -> FixtureHarness
    [] tool = "wallet-signing-alignment"  -> WalletSigningAlignment

Init ==
  /\ source = [s \in Sources |-> Good(s)]
  /\ disk = [f \in Files |-> Absent]
  /\ proc = "readme" /\ step = Len(Procedure["readme"]) /\ spoilt = FALSE
  /\ passes = 0 /\ edits = 0 /\ clean = 0

\* The operator has come to the end of a procedure, or has given it up.
AtRest == step = Len(Procedure[proc])

\* Someone edits a source, at any moment.
Edit(s) ==
  /\ edits < MaxEdits
  /\ \E v \in VersionsOf(s) \ {source[s]} : source' = [source EXCEPT ![s] = v]
  /\ edits' = edits + 1
  /\ spoilt' = TRUE
  /\ clean' = 0
  /\ UNCHANGED <<disk, proc, step, passes>>

Begin(p) ==
  /\ AtRest
  /\ passes < MaxPasses
  /\ proc' = p
  /\ step' = 0
  /\ spoilt' = FALSE
  /\ passes' = passes + 1
  /\ UNCHANGED <<source, disk, edits, clean>>

\* The next tool runs.  After a failure the operator may go on or give up.
RunTool ==
  /\ ~AtRest
  /\ LET done == Outcome(Procedure[proc][step + 1])
         bad  == spoilt \/ done.exit # 0
     IN /\ disk' = [f \in Files |-> IF f \in DOMAIN done.wrote THEN done.wrote[f]
                                    ELSE disk[f]]
        /\ spoilt' = bad
        /\ \/ step' = step + 1
           \/ done.exit # 0 /\ step' = Len(Procedure[proc])
        /\ clean' = IF step' = Len(Procedure[proc]) /\ proc = "readme" /\ ~bad
                    THEN clean + 1 ELSE clean
  /\ UNCHANGED <<source, proc, passes, edits>>

Next ==
  \/ \E s \in Sources : Edit(s)
  \/ \E p \in DOMAIN Procedure : Begin(p)
  \/ RunTool

Spec == Init /\ [][Next]_vars
-----------------------------------------------------------------------------
(***************************************************************************)
(* Properties.                                                             *)
(***************************************************************************)

\* A file is made of the current sources.
Current(f) ==
  disk[f].of = FromSources(Roots[f])

\* Type invariant; in particular a file depends on its roots and on nothing else.
TypeOK ==
  /\ source \in [Sources -> UNION {VersionsOf(s) : s \in Sources}]
  /\ \A s \in Sources : source[s] \in VersionsOf(s)
  /\ DOMAIN disk = Files
  /\ \A f \in Files : disk[f].ok \in BOOLEAN
                      /\ {p[1] : p \in disk[f].of} \subseteq Roots[f]
  /\ proc \in DOMAIN Procedure /\ step \in 0..Len(Procedure[proc])
  /\ passes \in 0..MaxPasses /\ edits \in 0..MaxEdits /\ clean \in 0..passes
  /\ spoilt \in BOOLEAN

\* One pass over the README in which every command exits with 0 and nothing is
\* edited leaves harness reports of success about the current sources, whatever
\* was on disk before.  That takes the staging of the verifier, the rebuilding
\* of both scripts and the harness's exit codes; the exit codes of the surface,
\* the artifact report, the probe and the fixture report add nothing to it.
\* The wallet alignment reads no harness report, so that it is the pass that puts
\* a combined report of success beside its readiness.
CleanPassIsEvidence ==
  clean >= 1 =>
    \A f \in Harnesses \cup {"wallet"} : disk[f].ok /\ Current(f)

\* The audit surface takes over the measurements of the combined report, which
\* is made sixteen commands later: after one pass the surface and what is read
\* from it may be about older sources, or about none.  After a second pass
\* every file is about the current ones and the fixture report has everything.
SecondPassIsCurrent ==
  clean >= 2 => \A f \in Files : disk[f].ok /\ Current(f)
==============================================================================
