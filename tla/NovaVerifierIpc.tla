--------------------------- MODULE NovaVerifierIpc ---------------------------
(***************************************************************************)
(* verifier::btc::bip340::require_signature at run time: the script (the   *)
(* parent) opens a pipe, spawns the verifier ELF (the child) with the read *)
(* end, writes the IPC envelope word by word, closes the write end and     *)
(* waits for the exit code; a script with several signatures does so once  *)
(* for each.  Parent and child are separate VMs that meet only in the pipe *)
(* and in wait, so they interleave at every syscall.                       *)
(*                                                                         *)
(* The child is novaseal_btc_verifier_riscv; the parent's syscalls and the *)
(* pipe are modelled from the parent-lock harness.  A pipe holds one write *)
(* at a time: a write returns when it has been read, or fails when the     *)
(* read end is closed; a read waits for a write, or fails when the write   *)
(* end is closed.                                                          *)
(***************************************************************************)
EXTENDS NovaIpcEnvelope

CONSTANTS
  Short,    \* a write of fewer than eight bytes
  Scripts,  \* what a parent may ask: sequences of streams of words
  MayFail   \* TRUE: a syscall may fail of itself

VARIABLES
  script,   \* the streams this parent sends, one per signature
  round,    \* which of them it is at
  parent,   \* the parent's next syscall, or its outcome
  written,  \* how many words of the stream it has begun to write
  pipe,     \* the write that is not read yet, as a sequence of length at most 1
  ends,     \* the open ends of the pipe: a subset of {"read", "write"}
  child,    \* the child's next syscall
  words,    \* the words it has read
  ok,       \* the child's flag of that name
  exit,     \* its exit code, or NoExit
  faulted   \* has some syscall failed of itself?

parentVars == <<script, round, parent, written>>
childVars  == <<child, words, ok, exit>>
vars == <<parentVars, pipe, ends, childVars, faulted>>

NoExit == 255

\* A finite sequence, whatever its entries are.
Tuple(s) == Len(s) \in Nat /\ s = [k \in 1..Len(s) |-> s[k]]

ASSUME IpcAssumption ==
  /\ MayFail \in BOOLEAN
  /\ \A s \in Scripts : Tuple(s) /\ s # <<>> /\ \A k \in DOMAIN s : Tuple(s[k])

Stream == script[round]
-----------------------------------------------------------------------------
(***************************************************************************)
(* The parent.                                                             *)
(***************************************************************************)

Finished == parent \in {"accepted", "rejected"}

Pipe ==
  /\ parent = "pipe"
  /\ parent' = "spawn"
  /\ pipe' = <<>>
  /\ ends' = {"read", "write"}
  /\ UNCHANGED <<script, round, written, childVars, faulted>>

\* The read end moves to the child.
Spawn ==
  /\ parent = "spawn"
  /\ parent' = "pipe_write"
  /\ child' = "inherited_fd"
  /\ UNCHANGED <<script, round, written, pipe, ends, words, ok, exit, faulted>>

PipeWrite ==
  /\ parent = "pipe_write"
  /\ written < Len(Stream)
  /\ "read" \in ends
  /\ pipe' = <<Stream[written + 1]>>
  /\ written' = written + 1
  /\ parent' = "in_write"
  /\ UNCHANGED <<script, round, ends, childVars, faulted>>

PipeWriteReturns ==
  /\ parent = "in_write"
  /\ pipe = <<>>
  /\ parent' = "pipe_write"
  /\ UNCHANGED <<script, round, written, pipe, ends, childVars, faulted>>

\* The child has closed its end: the write fails and the script rejects.
PipeWriteFails ==
  /\ \/ parent = "in_write" /\ pipe # <<>>
     \/ parent = "pipe_write" /\ written < Len(Stream)
  /\ "read" \notin ends
  /\ parent' = "rejected"
  /\ UNCHANGED <<script, round, written, pipe, ends, childVars, faulted>>

CloseWrite ==
  /\ parent = "pipe_write"
  /\ written = Len(Stream)
  /\ ends' = ends \ {"write"}
  /\ parent' = "wait"
  /\ UNCHANGED <<script, round, written, pipe, childVars, faulted>>

Outcome(result) == parent' = result /\ UNCHANGED <<round, written, childVars>>

NextSignature ==
  /\ parent' = "pipe"
  /\ written' = 0
  /\ child' = "none" /\ words' = <<>> /\ ok' = TRUE /\ exit' = NoExit

\* Mutant: only the exit code of the last child is looked at.
Wait_LastOnly ==
  /\ parent = "wait"
  /\ child = "exited"
  /\ \/ round < Len(script) /\ round' = round + 1 /\ NextSignature
     \/ round = Len(script) /\ exit = EXIT_ACCEPT /\ Outcome("accepted")
     \/ round = Len(script) /\ exit # EXIT_ACCEPT /\ Outcome("rejected")
  /\ UNCHANGED <<script, pipe, ends, faulted>>

\* Mutant: the parent never gets past its first signature.
Wait_Again ==
  /\ parent = "wait"
  /\ child = "exited"
  /\ \/ exit # EXIT_ACCEPT /\ Outcome("rejected")
     \/ exit = EXIT_ACCEPT /\ round < Len(script) /\ round' = round /\ NextSignature
     \/ exit = EXIT_ACCEPT /\ round = Len(script) /\ Outcome("accepted")
  /\ UNCHANGED <<script, pipe, ends, faulted>>

Wait ==
  /\ parent = "wait"
  /\ child = "exited"
  /\ \/ exit # EXIT_ACCEPT /\ Outcome("rejected")
     \/ exit = EXIT_ACCEPT /\ round < Len(script) /\ round' = round + 1 /\ NextSignature
     \/ exit = EXIT_ACCEPT /\ round = Len(script) /\ Outcome("accepted")
  /\ UNCHANGED <<script, pipe, ends, faulted>>

\* A syscall of the parent returns an error: the generated code rejects.
ParentFault ==
  /\ MayFail
  /\ parent \in {"pipe", "spawn", "pipe_write", "wait"}
  /\ parent' = "rejected"
  /\ faulted' = TRUE
  /\ UNCHANGED <<script, round, written, pipe, ends, childVars>>
-----------------------------------------------------------------------------
(***************************************************************************)
(* The child: _start and read_spawn_words.                                 *)
(***************************************************************************)

inherited_fd ==
  /\ child = "inherited_fd"
  /\ child' = "pipe_read"
  /\ UNCHANGED <<parentVars, pipe, ends, words, ok, exit, faulted>>

\* Mutant: the loop runs once too often.
pipe_read_OneMore ==
  /\ child = "pipe_read"
  /\ pipe # <<>> /\ pipe[1] # Short
  /\ pipe' = <<>>
  /\ words' = Append(words, pipe[1])
  /\ child' = IF Len(words) + 1 > IPC_WORD_COUNT THEN "probe" ELSE "pipe_read"
  /\ UNCHANGED <<parentVars, ends, ok, exit, faulted>>

\* A word arrives.
pipe_read ==
  /\ child = "pipe_read"
  /\ pipe # <<>> /\ pipe[1] # Short
  /\ pipe' = <<>>
  /\ words' = Append(words, pipe[1])
  /\ child' = IF Len(words) + 1 = IPC_WORD_COUNT THEN "probe" ELSE "pipe_read"
  /\ UNCHANGED <<parentVars, ends, ok, exit, faulted>>

\* Fewer than eight bytes arrive, or the stream ends: not a word.
pipe_read_fails ==
  /\ child = "pipe_read"
  /\ pipe = <<Short>> \/ (pipe = <<>> /\ "write" \notin ends)
  /\ pipe' = <<>>
  /\ ok' = FALSE
  /\ child' = "close"
  /\ UNCHANGED <<parentVars, ends, words, exit, faulted>>

\* Mutant: no nineteenth read.
probe_Skipped ==
  /\ child = "probe"
  /\ child' = "close"
  /\ UNCHANGED <<parentVars, pipe, ends, words, ok, exit, faulted>>

\* The read past the last word: only a whole word is a reason to reject.
probe ==
  /\ child = "probe"
  /\ pipe # <<>> \/ "write" \notin ends
  /\ pipe' = <<>>
  /\ ok' = (pipe \in {<<>>, <<Short>>})
  /\ child' = "close"
  /\ UNCHANGED <<parentVars, ends, words, exit, faulted>>

close_fd ==
  /\ child = "close"
  /\ ends' = ends \ {"read"}
  /\ child' = "exit"
  /\ UNCHANGED <<parentVars, pipe, words, ok, exit, faulted>>

\* The VM's exit closes whatever it has open.
Exit ==
  /\ child = "exit"
  /\ exit' = IF ok THEN decide_words(words) ELSE EXIT_REJECT_SPAWN_IO
  /\ child' = "exited"
  /\ ends' = ends \ {"read"}
  /\ UNCHANGED <<parentVars, pipe, words, ok, faulted>>

\* inherited_fd or close returns an error.  The child alone holds the read end,
\* so that pipe_read fails for no other reason than those above.
ChildFault ==
  /\ MayFail
  /\ child \in {"inherited_fd", "close"}
  /\ child' = "exit"
  /\ ok' = FALSE
  /\ faulted' = TRUE
  /\ UNCHANGED <<parentVars, pipe, ends, words, exit>>
-----------------------------------------------------------------------------
Init ==
  /\ script \in Scripts
  /\ round = 1
  /\ parent = "pipe"
  /\ written = 0
  /\ pipe = <<>>
  /\ ends = {}
  /\ child = "none" /\ words = <<>> /\ ok = TRUE /\ exit = NoExit
  /\ faulted = FALSE

ParentStep ==
  \/ Pipe \/ Spawn
  \/ PipeWrite \/ PipeWriteReturns \/ PipeWriteFails
  \/ CloseWrite \/ Wait \/ ParentFault

ChildStep ==
  \/ inherited_fd
  \/ pipe_read \/ pipe_read_fails \/ probe
  \/ close_fd \/ Exit \/ ChildFault

\* The outcome of the parent is the outcome of the script: the VMs stop.
Next ==
  \/ ~Finished /\ (ParentStep \/ ChildStep)
  \/ Finished /\ UNCHANGED vars

\* The VM scheduler runs a VM that is not blocked in a syscall.
Fairness ==
  /\ WF_vars(~Finished /\ ParentStep)
  /\ WF_vars(~Finished /\ ChildStep)

Spec == Init /\ [][Next]_vars /\ Fairness
-----------------------------------------------------------------------------
(***************************************************************************)
(* Properties.                                                             *)
(***************************************************************************)

\* The whole words a stream starts with.
LeadingWords(stream) ==
  CHOOSE n \in 0..Len(stream) :
    /\ \A k \in 1..n : stream[k] # Short
    /\ n < Len(stream) => stream[n + 1] = Short

\* The verdict that a stream deserves, however it is cut into reads: it must
\* hold the words of one envelope and not one word more.
Verdict(stream) ==
  IF LeadingWords(stream) # IPC_WORD_COUNT THEN EXIT_REJECT_SPAWN_IO
  ELSE decide_words(SubSeq(stream, 1, IPC_WORD_COUNT))

\* Type invariant.
TypeOK ==
  /\ script \in Scripts
  /\ round \in 1..Len(script)
  /\ parent \in {"pipe", "spawn", "pipe_write", "in_write", "wait",
                 "accepted", "rejected"}
  /\ written \in 0..Len(Stream)
  /\ pipe = <<>> \/ (written > 0 /\ pipe = <<Stream[written]>>)
  /\ ends \subseteq {"read", "write"}
  /\ child \in {"none", "inherited_fd", "pipe_read", "probe", "close", "exit",
                "exited"}
  /\ words = SubSeq(Stream, 1, Len(words)) /\ Len(words) <= IPC_WORD_COUNT
  /\ ok \in BOOLEAN /\ faulted \in BOOLEAN
  /\ exit \in {EXIT_ACCEPT, EXIT_REJECT_ENVELOPE, EXIT_REJECT_SPAWN_IO,
               EXIT_REJECT_CRYPTO, NoExit}

\* The exit code is the verdict on the stream, whatever the interleaving: it
\* never depends on how far the parent was when the child read, and never on
\* the words of an earlier signature.
VerdictOfStream ==
  child = "exited" =>
    exit = Verdict(Stream) \/ (faulted /\ exit = EXIT_REJECT_SPAWN_IO)

\* A script is accepted only if every signature it asks about verifies, and
\* rejected only for one that does not, or for a syscall that failed.
Carried(stream) ==
  Verdict(stream) = EXIT_ACCEPT /\ Len(stream) <= IPC_WORD_COUNT + 1

ScriptOutcome ==
  /\ parent = "accepted" => \A k \in DOMAIN script : Carried(script[k])
  /\ parent = "rejected" =>
       faulted \/ \E k \in 1..round : ~Carried(script[k])

\* Every script comes to an end.  In particular parent and child never wait for
\* each other: the nineteenth read ends when the parent closes its end, which it
\* does before it waits.
Termination == <>Finished

(***************************************************************************)
(* What the documents say and the code does not do.                        *)
(***************************************************************************)

\* VERIFIER_IPC_CONTRACT.md: the verifier "must reject" a "wrong total length".
ExactLength ==
  child = "exited" /\ exit = EXIT_ACCEPT => Len(Stream) = IPC_WORD_COUNT
==============================================================================
