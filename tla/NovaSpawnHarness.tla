-------------------------- MODULE NovaSpawnHarness --------------------------
(***************************************************************************)
(* The syscall emulators of the skeleton harnesses.  They are what a       *)
(* script and its verifier are tried on outside a node, and they do not    *)
(* run parent and child side by side: the parent's writes are kept, and    *)
(* the child runs to its end, on all of them, inside the parent's wait.    *)
(* An emulation takes the syscalls a program makes one after another;      *)
(* NovaVerifierIpc has the same programs on the real VM.                   *)
(***************************************************************************)
EXTENDS NovaVerifierIpc

\* What a program's syscalls make of a state, one after another.
Emulation(Ecall(_, _), start, calls) ==
  LET after[k \in 0..Len(calls)] ==
        IF k = 0 THEN start ELSE Ecall(after[k - 1], calls[k])
  IN after[Len(calls)]
-----------------------------------------------------------------------------
(***************************************************************************)
(* The child: SpawnInputSyscalls of the child harness, ChildInputSyscalls  *)
(* of the parent harness, on the program of read_spawn_words.              *)
(***************************************************************************)

ChildProgram ==
  <<"inherited_fd">> \o [k \in 1..IPC_WORD_COUNT |-> "pipe_read"] \o <<"probe", "close">>

ChildInput(input) == [input |-> input, cursor |-> 0, read |-> <<>>, ok |-> TRUE,
                      closed |-> FALSE]

HasWord(c) == ~c.closed /\ c.cursor < Len(c.input)

child_ecall(c, call) ==
  CASE call = "pipe_read" /\ c.ok /\ HasWord(c) ->
         [c EXCEPT !.cursor = @ + 1, !.read = Append(@, c.input[c.cursor + 1])]
    [] call = "pipe_read" /\ c.ok /\ ~HasWord(c) -> [c EXCEPT !.ok = FALSE]
    [] call = "probe" /\ c.ok  -> [c EXCEPT !.ok = ~HasWord(c)]
    [] call = "close"          -> [c EXCEPT !.closed = TRUE, !.ok = @ /\ ~c.closed]
    [] OTHER                   -> c

run_child_elf(input) ==
  LET end == Emulation(child_ecall, ChildInput(input), ChildProgram) IN
  IF end.ok THEN decide_words(end.read) ELSE EXIT_REJECT_SPAWN_IO
-----------------------------------------------------------------------------
(***************************************************************************)
(* The parent: ParentSyscalls of the parent-lock harness.  A script stops  *)
(* at the first syscall that fails, and at a child that did not accept.    *)
(***************************************************************************)

ParentStart ==
  [pipe_words |-> <<>>, read_closed |-> FALSE, write_closed |-> FALSE,
   child_spawned |-> FALSE, child_run_attempted |-> FALSE,
   child_exit_code |-> NoExit, rejected |-> FALSE]

Fails(p) == [p EXCEPT !.rejected = TRUE]

\* Mutant: the exit code of an earlier child survives the next pipe.
emulated_pipe_KeepsExit(p) ==
  [ParentStart EXCEPT !.child_exit_code = p.child_exit_code]

emulated_pipe(p) == ParentStart

emulated_spawn(p) ==
  IF p.child_spawned \/ p.read_closed THEN Fails(p)
  ELSE [p EXCEPT !.child_spawned = TRUE, !.read_closed = TRUE]

emulated_pipe_write(p, word) ==
  IF p.write_closed \/ ~p.child_spawned \/ word = Short THEN Fails(p)
  ELSE [p EXCEPT !.pipe_words = Append(@, word)]

emulated_close(p) == IF p.write_closed THEN Fails(p) ELSE [p EXCEPT !.write_closed = TRUE]

\* The exit code that wait hands out: the child runs at the first of them.
emulated_wait(p) ==
  LET runs == p.child_exit_code = NoExit
      code == IF runs THEN run_child_elf(p.pipe_words) ELSE p.child_exit_code
      tooSoon == runs /\ (p.child_run_attempted \/ Len(p.pipe_words) # IPC_WORD_COUNT)
  IN IF ~p.child_spawned \/ tooSoon
     THEN Fails(p)
     ELSE [p EXCEPT !.child_run_attempted = TRUE, !.child_exit_code = code,
                    !.rejected = code # EXIT_ACCEPT]

parent_ecall(p, call) ==
  IF p.rejected THEN p
  ELSE CASE call.op = "pipe"       -> emulated_pipe(p)
         [] call.op = "spawn"      -> emulated_spawn(p)
         [] call.op = "pipe_write" -> emulated_pipe_write(p, call.word)
         [] call.op = "close"      -> emulated_close(p)
         [] call.op = "wait"       -> emulated_wait(p)

\* The syscalls of one require_signature, and of a script with several.
Calls(stream) ==
  <<[op |-> "pipe"], [op |-> "spawn"]>>
    \o [k \in DOMAIN stream |-> [op |-> "pipe_write", word |-> stream[k]]]
    \o <<[op |-> "close"], [op |-> "wait"]>>

EmulatedSignature(p, stream) == Emulation(parent_ecall, p, Calls(stream))

EmulatedParent(streams) == Emulation(EmulatedSignature, ParentStart, streams)
-----------------------------------------------------------------------------
(***************************************************************************)
(* StateTypeSyscalls of the state type harness: the same pipe, but nobody  *)
(* reads it.  Every wait on a whole envelope, the first or a later one,    *)
(* reports a child that accepted.                                          *)
(***************************************************************************)

StubStart == [pipe_words |-> <<>>, read_closed |-> FALSE, write_closed |-> FALSE,
              child_spawned |-> FALSE, rejected |-> FALSE]

stub_pipe(p) == StubStart

stub_spawn(p) ==
  IF p.child_spawned \/ p.read_closed THEN Fails(p)
  ELSE [p EXCEPT !.child_spawned = TRUE, !.read_closed = TRUE]

stub_pipe_write(p, word) ==
  IF p.write_closed \/ ~p.child_spawned \/ word = Short THEN Fails(p)
  ELSE [p EXCEPT !.pipe_words = Append(@, word)]

stub_close(p) == IF p.write_closed THEN Fails(p) ELSE [p EXCEPT !.write_closed = TRUE]

stub_wait(p) ==
  [p EXCEPT !.rejected = ~p.child_spawned \/ Len(p.pipe_words) # IPC_WORD_COUNT]

stub_ecall(p, call) ==
  IF p.rejected THEN p
  ELSE CASE call.op = "pipe"       -> stub_pipe(p)
         [] call.op = "spawn"      -> stub_spawn(p)
         [] call.op = "pipe_write" -> stub_pipe_write(p, call.word)
         [] call.op = "close"      -> stub_close(p)
         [] call.op = "wait"       -> stub_wait(p)

StubbedSignature(p, stream) == Emulation(stub_ecall, p, Calls(stream))

EmulatedStub(streams) == Emulation(StubbedSignature, StubStart, streams)
-----------------------------------------------------------------------------
(***************************************************************************)
(* The child harness on a vector.                                          *)
(***************************************************************************)

\* The bytes past the last whole word are counted and then dropped.
words_from_blob(blob) == blob.words

harness_exit_code(case) == run_child_elf(words_from_blob(case.ipc_blob))

matched_expected(case) ==
  (harness_exit_code(case) = EXIT_ACCEPT) = (case.expected = "accept")

mismatched == Cardinality({case \in ipc_vectors : ~matched_expected(case)})
-----------------------------------------------------------------------------
(***************************************************************************)
(* Properties.                                                             *)
(***************************************************************************)

\* A blob that no generator made, with either expectation.
Cases(blob) == [id : {<<"a stream">>}, expected : {"accept", "reject"}, ipc_blob : {blob}]

\* Four programs and a list of expectations judge an envelope, each by code of
\* its own.  Any whole words sent down the pipe get from the child, at any pace,
\* the exit code that the shell report predicts and the child harness measures,
\* and 0 exactly when the host command line accepts them; 0 exactly when the
\* generator of the vector expects it; and none of the five tools exits with an
\* error on the vectors.
VerdictsAgree ==
  /\ btc_vectors_passed /\ verify_vectors_command
  /\ verify_ipc_vectors_command /\ all_expected_matched /\ mismatched = 0
  /\ child = "exited" /\ ~faulted /\ Short \notin ToSet(Stream) =>
       \A case \in ipc_vectors \cup Cases(Blob(Stream)) :
         words_from_blob(case.ipc_blob) = Stream =>
           /\ exit = decision(case).exit_code
           /\ exit = harness_exit_code(case)
           /\ (exit = EXIT_ACCEPT) = verify_ipc_command(case.ipc_blob)
           /\ case \in ipc_vectors => (exit = EXIT_ACCEPT) = (case.expected = "accept")

\* The emulator decides a script as the VM does although it never interleaves
\* parent and child, never blocks, and runs the child only at the end: what it
\* does differently (a write after the child has gone, a wait on a short stream)
\* changes the place of a rejection and not the outcome.  The stub of the state
\* type harness errs on one side only: what it rejects, the VM rejects too.
EmulatorAgrees ==
  Finished /\ ~faulted /\ (\A k \in DOMAIN script : Short \notin ToSet(script[k])) =>
    /\ (parent = "accepted") = ~EmulatedParent(script).rejected
    /\ EmulatedStub(script).rejected => parent # "accepted"
==============================================================================
