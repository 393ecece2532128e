------------------------ MODULE NovaVerifierIpcProofs ------------------------
(***************************************************************************)
(* Proofs about the verifier and its parent (NovaVerifierIpc): in every    *)
(* interleaving, for scripts with any number of signatures and streams of  *)
(* any length, the exit code is the verdict on the stream and the outcome  *)
(* of the script is what its streams deserve.                              *)
(***************************************************************************)
EXTENDS NovaSpawnHarness, NovaLineLemmas, FiniteSetTheorems

-----------------------------------------------------------------------------
(***************************************************************************)
(* The inductive invariant.  What the child has read and what lies in the  *)
(* pipe is what the parent has begun to write; where each of the two is    *)
(* bounds how far the other can be.                                        *)
(***************************************************************************)

Unread == IF pipe = <<>> THEN 0 ELSE 1

\* The child has read the beginning of the stream.
WordsInv ==
  /\ Len(words) \in 0..IPC_WORD_COUNT
  /\ Len(words) <= Len(Stream)
  /\ words = SubSeq(Stream, 1, Len(words))

\* What the parent's next syscall says of the pipe and of the child.
ParentInv ==
  /\ parent \in {"pipe", "spawn"} => written = 0 /\ child = "none"
  /\ parent \in {"pipe", "spawn", "pipe_write", "wait"} => pipe = <<>>
  /\ parent = "spawn" => ends = {"read", "write"}
  /\ parent \in {"pipe_write", "in_write", "wait"} => child # "none"
  /\ parent \in {"pipe_write", "in_write"} => "write" \in ends
  /\ parent = "wait" => written = Len(Stream)

\* While the child reads, every word that was written and has left the pipe is
\* one it has, and a whole one.
Reading ==
  /\ ok
  /\ "read" \in ends
  /\ written = Len(words) + Unread
  /\ \A k \in 1..Len(words) : Stream[k] # Short
  /\ child = "inherited_fd" => words = <<>>
  /\ child = "pipe_read" => Len(words) < IPC_WORD_COUNT
  /\ child = "probe" => Len(words) = IPC_WORD_COUNT

\* Once it has stopped reading, its flag says whether the stream holds the
\* words of one envelope, and the parent is stuck a word further at most.
Stopped ==
  /\ written <= IPC_WORD_COUNT + 1 + Unread
  /\ IF ok
     THEN /\ Len(words) = IPC_WORD_COUNT
          /\ LeadingWords(Stream) = IPC_WORD_COUNT
          /\ written = IPC_WORD_COUNT + 1 + Unread \/ "write" \notin ends
     ELSE faulted \/ LeadingWords(Stream) # IPC_WORD_COUNT

ChildInv ==
  /\ child = "none" => words = <<>> /\ ok
  /\ child \in {"inherited_fd", "pipe_read", "probe"} => Reading
  /\ child \in {"close", "exit", "exited"} => Stopped
  /\ child = "close" => "read" \in ends
  /\ child # "exited" => exit = NoExit
  /\ child = "exited" => exit = IF ok THEN decide_words(words) ELSE EXIT_REJECT_SPAWN_IO
  \* a parent that runs has closed its end only after its last word
  /\ ~Finished /\ child # "none" /\ "write" \notin ends => parent = "wait"

\* The signatures before this one verified.
RoundsInv == \A k \in 1..(round - 1) : Carried(script[k])

ProgressInv == WordsInv /\ ParentInv /\ ChildInv

IInv == TypeOK /\ ProgressInv /\ RoundsInv /\ ScriptOutcome
-----------------------------------------------------------------------------
(***************************************************************************)
(* Streams.                                                                *)
(***************************************************************************)

\* What Tuple says is what the lemmas on sequences ask for.
LEMMA TupleIsSequence ==
  ASSUME NEW s, Tuple(s)
  PROVE  IsSequence(s) /\ Len(s) \in Nat /\ DOMAIN s = 1..Len(s)
<1>1. Len(s) \in Nat /\ s = [k \in 1..Len(s) |-> s[k]]
  BY DEF Tuple
<1>2. DOMAIN s = 1..Len(s)
  <2>1. DOMAIN [k \in 1..Len(s) |-> s[k]] = 1..Len(s)
    OBVIOUS
  <2> QED
    BY <1>1, <2>1
<1>3. s \in [1..Len(s) -> {s[k] : k \in DOMAIN s}]
  BY <1>1, <1>2
<1> QED
  BY <1>1, <1>2, <1>3 DEF IsSequence

\* The streams of a script are sequences, and so is the script.
LEMMA Streams ==
  ASSUME NEW t \in Scripts
  PROVE  /\ Len(t) \in Nat /\ Len(t) >= 1
         /\ DOMAIN t = 1..Len(t)
         /\ \A k \in 1..Len(t) : IsSequence(t[k]) /\ Len(t[k]) \in Nat
<1>1. Tuple(t) /\ t # <<>> /\ \A k \in DOMAIN t : Tuple(t[k])
  BY IpcAssumption
<1>2. IsSequence(t) /\ Len(t) \in Nat /\ DOMAIN t = 1..Len(t)
  BY <1>1, TupleIsSequence
<1>3. Len(t) # 0
  BY <1>1, <1>2 DEF IsSequence
<1> QED
  BY <1>1, <1>2, <1>3, TupleIsSequence

\* Reading one word more of a stream.
LEMMA ReadOn ==
  ASSUME NEW s, IsSequence(s), NEW n \in Nat, n < Len(s)
  PROVE  /\ Append(SubSeq(s, 1, n), s[n + 1]) = SubSeq(s, 1, n + 1)
         /\ Len(SubSeq(s, 1, n + 1)) = n + 1
<1>1. s \in Seq({s[j] : j \in DOMAIN s})
  BY DEF IsSequence
<1> DEFINE S == {s[j] : j \in DOMAIN s}
<1>2. s \in Seq(S)
  BY <1>1
<1> HIDE DEF S
<1> QED
  BY <1>2

\* Nothing read, and all that a prefix says.
LEMMA Beginnings ==
  ASSUME NEW s, IsSequence(s)
  PROVE  /\ SubSeq(s, 1, 0) = <<>> /\ Len(<<>>) = 0
         /\ \A n \in 0..Len(s) : Len(SubSeq(s, 1, n)) = n
<1>1. s \in Seq({s[j] : j \in DOMAIN s})
  BY DEF IsSequence
<1> DEFINE S == {s[j] : j \in DOMAIN s}
<1>2. s \in Seq(S)
  BY <1>1
<1> HIDE DEF S
<1> QED
  BY <1>2

\* All of it read.
LEMMA WholeStream ==
  ASSUME NEW s, IsSequence(s)
  PROVE  SubSeq(s, 1, Len(s)) = s
<1>1. s \in Seq({s[j] : j \in DOMAIN s})
  BY DEF IsSequence
<1> QED
  BY <1>1, SubSeqFull

IsLeading(s, n) ==
  /\ n \in 0..Len(s)
  /\ \A k \in 1..n : s[k] # Short
  /\ n < Len(s) => s[n + 1] = Short

\* A stream has a number of leading words.
LEMMA LeadingWordsExist ==
  ASSUME NEW s, Len(s) \in Nat
  PROVE  IsLeading(s, LeadingWords(s))
<1> DEFINE T == {n \in 0..Len(s) : n < Len(s) => s[n + 1] = Short}
<1>1. T \subseteq Nat /\ T # {}
  BY Len(s) \in T
<1>2. PICK m \in T : \A k \in T : m <= k
  BY <1>1, LeastNat
<1>3. ASSUME NEW k \in 1..m
      PROVE  s[k] # Short
  <2>1. k - 1 \in 0..Len(s) /\ k - 1 < m /\ (k - 1) + 1 = k
    BY <1>2
  <2>2. ASSUME k - 1 \in T
        PROVE  FALSE
    <3>1. m <= k - 1
      BY <1>2, <2>2
    <3> QED
      BY <2>1, <3>1
  <2> QED
    BY <2>1, <2>2
<1>4. \E n \in 0..Len(s) : (\A k \in 1..n : s[k] # Short) /\ (n < Len(s) => s[n + 1] = Short)
  BY <1>2, <1>3
<1> QED
  BY <1>4 DEF LeadingWords, IsLeading

\* And one only.
LEMMA LeadingWordsUnique ==
  ASSUME NEW s, Len(s) \in Nat, NEW n \in 0..Len(s),
         \A k \in 1..n : s[k] # Short
  PROVE  /\ LeadingWords(s) >= n /\ LeadingWords(s) \in Nat
         /\ (n < Len(s) => s[n + 1] = Short) => LeadingWords(s) = n
<1>1. PICK m : m = LeadingWords(s)
  OBVIOUS
<1>2. IsLeading(s, m)
  BY <1>1, LeadingWordsExist
<1> QED
  BY <1>1, <1>2 DEF IsLeading

\* The exit codes of the decision on the words.
LEMMA Decisions ==
  ASSUME NEW ws
  PROVE  decide_words(ws) \in {EXIT_ACCEPT, EXIT_REJECT_ENVELOPE, EXIT_REJECT_SPAWN_IO,
                               EXIT_REJECT_CRYPTO}
BY DEF decide_words, decide, EXIT_ACCEPT, EXIT_REJECT_ENVELOPE, EXIT_REJECT_SPAWN_IO,
       EXIT_REJECT_CRYPTO
-----------------------------------------------------------------------------
(***************************************************************************)
(* The steps.                                                              *)
(***************************************************************************)

\* The states a program starts in.
LEMMA InitInv == Init => IInv
<1> SUFFICES ASSUME Init
             PROVE  IInv
  OBVIOUS
<1> USE DEF Init
<1>1. Len(script) \in Nat /\ Len(script) >= 1 /\ IsSequence(Stream) /\ Len(Stream) \in Nat
  BY Streams DEF Stream
<1>2. SubSeq(Stream, 1, 0) = <<>> /\ Len(<<>>) = 0
  BY <1>1, Beginnings
<1>3. words = SubSeq(Stream, 1, Len(words)) /\ Len(words) <= IPC_WORD_COUNT
  BY <1>2 DEF IPC_WORD_COUNT
<1> HIDE DEF Init
<1>4. TypeOK
  <2>1. round \in 1..Len(script) /\ written \in 0..Len(Stream)
    BY <1>1 DEF Init
  <2>2. ok \in BOOLEAN /\ faulted \in BOOLEAN
    BY DEF Init
  <2> QED
    BY <1>3, <2>1, <2>2 DEF Init, TypeOK
<1>5. ProgressInv
  BY <1>1, <1>2, <1>3 DEF Init, ProgressInv, WordsInv, ParentInv, ChildInv, IPC_WORD_COUNT
<1>6. RoundsInv /\ ScriptOutcome
  BY DEF Init, RoundsInv, ScriptOutcome
<1> QED
  BY <1>4, <1>5, <1>6 DEF IInv

\* The stream of a state.
LEMMA StreamFacts ==
  IInv => /\ IsSequence(Stream) /\ Len(Stream) \in Nat
          /\ SubSeq(Stream, 1, 0) = <<>> /\ Len(<<>>) = 0
          /\ Len(script) \in Nat /\ DOMAIN script = 1..Len(script)
          /\ round \in 1..Len(script) /\ written \in 0..Len(Stream)
          /\ Len(words) \in Nat
<1> SUFFICES ASSUME IInv
             PROVE  /\ IsSequence(Stream) /\ Len(Stream) \in Nat
                    /\ SubSeq(Stream, 1, 0) = <<>> /\ Len(<<>>) = 0
                    /\ Len(script) \in Nat /\ DOMAIN script = 1..Len(script)
                    /\ round \in 1..Len(script) /\ written \in 0..Len(Stream)
                    /\ Len(words) \in Nat
  OBVIOUS
<1>1. script \in Scripts /\ round \in 1..Len(script) /\ written \in 0..Len(Stream)
  BY DEF IInv, TypeOK
<1>2. IsSequence(Stream) /\ Len(Stream) \in Nat /\ Len(script) \in Nat
      /\ DOMAIN script = 1..Len(script)
  BY <1>1, Streams DEF Stream
<1>3. Len(words) \in Nat
  BY DEF IInv, ProgressInv, WordsInv, IPC_WORD_COUNT
<1> QED
  BY <1>1, <1>2, <1>3, Beginnings

\* A step of the parent on one stream.
LEMMA ParentStepInv ==
  ASSUME IInv, ~Finished,
         \/ Pipe \/ Spawn \/ PipeWrite \/ PipeWriteReturns \/ CloseWrite
  PROVE  IInv'
<1>1. Stream' = Stream /\ script' = script /\ round' = round
  BY DEF Pipe, Spawn, PipeWrite, PipeWriteReturns, CloseWrite, Stream
<1>2. ~Finished' /\ words' = words /\ ok' = ok /\ exit' = exit /\ faulted' = faulted
  BY DEF Pipe, Spawn, PipeWrite, PipeWriteReturns, CloseWrite, Finished, childVars
<1>3. WordsInv'
  BY <1>1, <1>2 DEF IInv, ProgressInv, WordsInv
<1>4. RoundsInv' /\ ScriptOutcome'
  BY <1>1, <1>2 DEF IInv, RoundsInv, ScriptOutcome, Finished
<1>5. /\ written \in Nat /\ Len(Stream) \in Nat /\ Len(words) \in Nat
      /\ written <= Len(Stream)
  BY StreamFacts
<1>6. CASE Pipe
  <2> USE <1>6 DEF Pipe
  <2>1. TypeOK' /\ ParentInv'
    BY <1>1, <1>2 DEF IInv, ProgressInv, TypeOK, ParentInv, childVars
  <2>2. ChildInv'
    BY <1>1, <1>2
    DEF IInv, ProgressInv, ParentInv, ChildInv, Finished, childVars
  <2> QED
    BY <1>3, <1>4, <2>1, <2>2 DEF IInv, ProgressInv
<1>7. CASE Spawn
  <2> USE <1>7 DEF Spawn
  <2>1. TypeOK' /\ ParentInv'
    BY <1>1, <1>2 DEF IInv, ProgressInv, TypeOK, ParentInv
  <2>2. ChildInv'
    BY <1>1, <1>2, StreamFacts
    DEF IInv, ProgressInv, ParentInv, ChildInv, Reading, Unread, Finished
  <2> QED
    BY <1>3, <1>4, <2>1, <2>2 DEF IInv, ProgressInv
<1>8. CASE PipeWrite
  <2> USE <1>8 DEF PipeWrite
  <2>1. written' > 0 /\ written' <= Len(Stream) /\ written' \in Nat /\ written' = written + 1
        /\ pipe' = <<Stream[written']>> /\ pipe' # <<>> /\ pipe = <<>>
    BY <1>5 DEF IInv, ProgressInv, ParentInv
  <2>2. TypeOK'
    BY <1>1, <1>2, <1>5, <2>1 DEF IInv, TypeOK, childVars
  <2>3. ParentInv'
    BY <1>1, <1>2, <2>1 DEF IInv, ProgressInv, ParentInv, childVars
  <2>4. ChildInv'
    BY <1>1, <1>2, <1>5, <2>1
    DEF IInv, ProgressInv, ParentInv, ChildInv, Reading, Stopped, Unread, Finished, childVars,
        IPC_WORD_COUNT
  <2> QED
    BY <1>3, <1>4, <2>2, <2>3, <2>4 DEF IInv, ProgressInv
<1>9. CASE PipeWriteReturns
  <2> USE <1>9 DEF PipeWriteReturns
  <2>1. TypeOK' /\ ParentInv'
    BY <1>1, <1>2 DEF IInv, ProgressInv, TypeOK, ParentInv, childVars
  <2>2. ChildInv'
    BY <1>1, <1>2
    DEF IInv, ProgressInv, ParentInv, ChildInv, Reading, Stopped, Unread, Finished, childVars
  <2> QED
    BY <1>3, <1>4, <2>1, <2>2 DEF IInv, ProgressInv
<1>10. CASE CloseWrite
  <2> USE <1>10 DEF CloseWrite
  <2>1. TypeOK' /\ ParentInv'
    BY <1>1, <1>2 DEF IInv, ProgressInv, TypeOK, ParentInv, childVars
  <2>2. ChildInv'
    BY <1>1, <1>2
    DEF IInv, ProgressInv, ParentInv, ChildInv, Reading, Stopped, Unread, Finished, childVars
  <2> QED
    BY <1>3, <1>4, <2>1, <2>2 DEF IInv, ProgressInv
<1> QED
  BY <1>6, <1>7, <1>8, <1>9, <1>10

\* A read of the child: what is in the pipe, and what may be behind it.
LEMMA ReadFacts ==
  ASSUME IInv, ~Finished, child \in {"pipe_read", "probe"}
  PROVE  /\ Reading
         /\ pipe # <<>> => /\ Len(words) < Len(Stream)
                           /\ written = Len(words) + 1
                           /\ pipe[1] = Stream[Len(words) + 1]
                           /\ pipe = <<Short>> <=> pipe[1] = Short
         /\ pipe = <<>> /\ "write" \notin ends => Len(words) = Len(Stream)
<1>1. Reading
  BY DEF IInv, ProgressInv, ChildInv
<1>2. CASE pipe # <<>>
  <2>1. pipe = <<Stream[written]>> /\ written = Len(words) + 1
    BY <1>1, <1>2 DEF IInv, TypeOK, Reading, Unread
  <2> QED
    BY <1>1, <2>1, <1>2, StreamFacts
<1>3. CASE pipe = <<>> /\ "write" \notin ends
  <2>1. parent = "wait" /\ written = Len(Stream)
    BY <1>3 DEF IInv, ProgressInv, ChildInv, ParentInv
  <2>2. Len(words) + 0 = Len(words)
    BY StreamFacts
  <2> QED
    BY <1>1, <1>3, <2>1, <2>2 DEF Reading, Unread
<1> QED
  BY <1>1, <1>2, <1>3

\* A step of the child.
LEMMA ChildStepInv ==
  ASSUME IInv, ~Finished, ChildStep
  PROVE  IInv'
<1> USE DEF ChildStep
<1>1. Stream' = Stream /\ script' = script /\ round' = round
      /\ parent' = parent /\ written' = written
  BY DEF inherited_fd, pipe_read, pipe_read_fails, probe, close_fd, Exit, ChildFault, Stream,
         parentVars
<1>2. ~Finished'
  BY <1>1 DEF Finished
<1>3. ParentInv'
  BY <1>1, <1>2, StreamFacts
  DEF IInv, ProgressInv, ParentInv, inherited_fd, pipe_read, pipe_read_fails, probe,
      close_fd, Exit, ChildFault
<1>4. RoundsInv' /\ ScriptOutcome'
  BY <1>1, <1>2 DEF IInv, RoundsInv, ScriptOutcome, Finished
<1>5. /\ written \in Nat /\ Len(Stream) \in Nat /\ Len(words) \in Nat
      /\ written <= Len(Stream) /\ IsSequence(Stream)
  BY StreamFacts
<1>6. ASSUME words' = words
      PROVE  WordsInv'
  BY <1>1, <1>6 DEF IInv, ProgressInv, WordsInv
<1>7. CASE inherited_fd
  <2> USE <1>7 DEF inherited_fd
  <2>1. TypeOK'
    BY <1>1 DEF IInv, TypeOK
  <2>2. ChildInv'
    BY <1>1, <1>2, <1>5
    DEF IInv, ProgressInv, ParentInv, ChildInv, Reading, Unread, Finished, IPC_WORD_COUNT
  <2> QED
    BY <1>3, <1>4, <1>6, <2>1, <2>2 DEF IInv, ProgressInv
<1>8. CASE pipe_read
  <2> USE <1>8 DEF pipe_read
  <2>1. /\ Reading /\ pipe[1] # Short /\ Len(words) < IPC_WORD_COUNT /\ Len(words) < Len(Stream)
        /\ written = Len(words) + 1 /\ pipe[1] = Stream[Len(words) + 1]
    BY ReadFacts DEF Reading
  <2>2. /\ words' = SubSeq(Stream, 1, Len(words) + 1)
        /\ Len(words') = Len(words) + 1
    <3>1. words = SubSeq(Stream, 1, Len(words))
      BY DEF IInv, ProgressInv, WordsInv
    <3> QED
      BY <1>5, <2>1, <3>1, ReadOn
  <2>3. WordsInv'
    BY <1>1, <1>5, <2>1, <2>2 DEF WordsInv, IPC_WORD_COUNT
  <2>4. TypeOK'
    BY <1>1, <1>5, <2>1, <2>2 DEF IInv, TypeOK, IPC_WORD_COUNT
  <2>5. \A k \in 1..Len(words') : Stream'[k] # Short
    BY <1>1, <1>5, <2>1, <2>2 DEF Reading
  <2>6. Reading' /\ child' \in {"pipe_read", "probe"}
    BY <1>1, <1>5, <2>1, <2>2, <2>5 DEF Reading, Unread, IPC_WORD_COUNT
  <2>7. ChildInv'
    BY <1>1, <2>6 DEF IInv, ProgressInv, ChildInv, Finished
  <2> QED
    BY <1>3, <1>4, <2>3, <2>4, <2>7 DEF IInv, ProgressInv
<1>9. CASE pipe_read_fails
  <2> USE <1>9 DEF pipe_read_fails
  <2>1. Reading /\ Len(words) < IPC_WORD_COUNT /\ Len(words) <= Len(Stream)
        /\ written <= Len(words) + 1
        /\ (Len(words) < Len(Stream) => Stream[Len(words) + 1] = Short)
    BY <1>5, ReadFacts DEF Reading, Unread
  <2>2. LeadingWords(Stream) # IPC_WORD_COUNT
    BY <1>5, <2>1, LeadingWordsUnique DEF Reading
  <2>3. Stopped' /\ "read" \in ends' /\ child' = "close"
    BY <1>1, <1>5, <2>1, <2>2 DEF Stopped, Reading, Unread, IPC_WORD_COUNT
  <2>4. ChildInv'
    BY <1>1, <2>3 DEF IInv, ProgressInv, ChildInv, Finished
  <2>5. TypeOK'
    BY <1>1 DEF IInv, TypeOK
  <2> QED
    BY <1>3, <1>4, <1>6, <2>4, <2>5 DEF IInv, ProgressInv
<1>10. CASE probe
  <2> USE <1>10 DEF probe
  <2>1. Reading /\ Len(words) = IPC_WORD_COUNT /\ written <= Len(words) + 1
    BY <1>5, ReadFacts DEF Reading, Unread
  <2>2. ASSUME pipe = <<>> \/ pipe = <<Short>>
        PROVE  Stopped'
    <3>1. ok'
      BY <2>2, Zenon
    <3>2. Len(words) <= Len(Stream) /\ (Len(words) < Len(Stream) => Stream[Len(words) + 1] = Short)
      BY <1>5, <2>2, ReadFacts
    <3>3. LeadingWords(Stream) = IPC_WORD_COUNT
      BY <1>5, <2>1, <3>2, LeadingWordsUnique DEF Reading
    <3>4. written = IPC_WORD_COUNT + 1 \/ "write" \notin ends
      BY <1>5, <2>1, <2>2, ReadFacts
    <3>5. pipe' = <<>> /\ words' = words /\ ends' = ends
      OBVIOUS
    <3> HIDE DEF probe
    <3> QED
      BY <1>1, <1>5, <2>1, <3>1, <3>3, <3>4, <3>5 DEF Stopped, Unread, IPC_WORD_COUNT
  <2>3. ASSUME pipe # <<>> /\ pipe # <<Short>>
        PROVE  Stopped'
    <3>1. ~ok'
      BY <2>3, Zenon
    <3>2. /\ Len(words) + 1 \in 1..Len(Stream)
          /\ \A k \in 1..(Len(words) + 1) : Stream[k] # Short
      BY <1>5, <2>1, <2>3, ReadFacts DEF Reading
    <3>3. LeadingWords(Stream) # IPC_WORD_COUNT
      BY <1>5, <2>1, <3>2, LeadingWordsUnique DEF IPC_WORD_COUNT
    <3>4. pipe' = <<>> /\ words' = words /\ ends' = ends
      OBVIOUS
    <3> HIDE DEF probe
    <3> QED
      BY <1>1, <1>5, <2>1, <3>1, <3>3, <3>4 DEF Stopped, Unread, IPC_WORD_COUNT
  <2>4. Stopped' /\ "read" \in ends' /\ child' = "close"
    BY <2>1, <2>2, <2>3 DEF Reading
  <2>5. ChildInv'
    BY <1>1, <2>4 DEF IInv, ProgressInv, ChildInv, Finished
  <2>6. TypeOK'
    BY <1>1 DEF IInv, TypeOK
  <2> QED
    BY <1>3, <1>4, <1>6, <2>5, <2>6 DEF IInv, ProgressInv
<1>11. CASE close_fd
  <2> USE <1>11 DEF close_fd
  <2>1. TypeOK'
    BY <1>1 DEF IInv, TypeOK
  <2>2. Stopped'
    BY <1>1 DEF IInv, ProgressInv, ChildInv, Stopped, Unread
  <2>3. ChildInv'
    BY <1>1, <2>2 DEF IInv, ProgressInv, ChildInv, Finished
  <2> QED
    BY <1>3, <1>4, <1>6, <2>1, <2>3 DEF IInv, ProgressInv
<1>12. CASE Exit
  <2> USE <1>12 DEF Exit
  <2>1. TypeOK'
    BY <1>1, Decisions DEF IInv, TypeOK
  <2>2. Stopped'
    BY <1>1 DEF IInv, ProgressInv, ChildInv, Stopped, Unread
  <2>3. ChildInv'
    BY <1>1, <2>2 DEF IInv, ProgressInv, ChildInv, Finished
  <2> QED
    BY <1>3, <1>4, <1>6, <2>1, <2>3 DEF IInv, ProgressInv
<1>13. CASE ChildFault
  <2> USE <1>13 DEF ChildFault
  <2>1. TypeOK'
    BY <1>1 DEF IInv, TypeOK
  <2>2. Stopped'
    <3>1. written <= IPC_WORD_COUNT + 1 + Unread
      <4>1. CASE child = "inherited_fd"
        BY <1>5, <4>1
        DEF IInv, ProgressInv, ChildInv, Reading, Unread, WordsInv, IPC_WORD_COUNT
      <4>2. CASE child = "close"
        BY <4>2 DEF IInv, ProgressInv, ChildInv, Stopped
      <4> QED
        BY <4>1, <4>2
    <3>2. Unread' = Unread
      BY DEF Unread
    <3> QED
      BY <1>1, <3>1, <3>2 DEF Stopped
  <2>3. ChildInv'
    BY <1>1, <2>2 DEF IInv, ProgressInv, ChildInv, Finished
  <2> QED
    BY <1>3, <1>4, <1>6, <2>1, <2>3 DEF IInv, ProgressInv
<1> QED
  BY <1>7, <1>8, <1>9, <1>10, <1>11, <1>12, <1>13
\* A parent that stops early does so for a reason.
LEMMA RejectedInv ==
  ASSUME IInv, ~Finished, PipeWriteFails \/ ParentFault
  PROVE  IInv'
<1>1. /\ UNCHANGED <<script, round, written, pipe, ends, childVars>>
      /\ parent' = "rejected" /\ faulted' \in BOOLEAN /\ (faulted => faulted')
      /\ Stream' = Stream /\ Finished'
  BY DEF PipeWriteFails, ParentFault, IInv, TypeOK, Stream, Finished
<1>2. TypeOK'
  BY <1>1 DEF IInv, TypeOK, childVars
<1>3. ProgressInv'
  <2>1. WordsInv' /\ ParentInv'
    BY <1>1 DEF IInv, ProgressInv, WordsInv, ParentInv, childVars
  <2>2. Reading => Reading'
    BY <1>1 DEF Reading, Unread, childVars
  <2>3. Stopped => Stopped'
    BY <1>1 DEF Stopped, Unread, childVars
  <2>4. ChildInv'
    BY <1>1, <2>2, <2>3 DEF IInv, ProgressInv, ChildInv, childVars
  <2> QED
    BY <2>1, <2>4 DEF ProgressInv
<1>4. RoundsInv'
  BY <1>1 DEF IInv, RoundsInv
<1>5. faulted' \/ ~Carried(Stream)
  <2>1. CASE ParentFault
    BY <2>1 DEF ParentFault
  <2>2. CASE PipeWriteFails
    <3>1. /\ child \in {"exit", "exited"} /\ Stopped
          /\ "write" \in ends
          /\ written + 1 - Unread <= Len(Stream)
      <4>1. "read" \notin ends /\ parent \in {"pipe_write", "in_write"}
        BY <2>2 DEF PipeWriteFails
      <4>2. child \notin {"none", "inherited_fd", "pipe_read", "probe", "close"}
        BY <4>1 DEF IInv, ProgressInv, ParentInv, ChildInv, Reading
      <4>3. child \in {"exit", "exited"} /\ Stopped
        BY <4>2 DEF IInv, TypeOK, ProgressInv, ChildInv
      <4>4. "write" \in ends
        BY <4>1 DEF IInv, ProgressInv, ParentInv
      <4>5. written + 1 - Unread <= Len(Stream)
        <5>1. CASE parent = "in_write" /\ pipe # <<>>
          BY <5>1, StreamFacts DEF Unread
        <5>2. CASE parent = "pipe_write" /\ written < Len(Stream)
          BY <5>2, StreamFacts DEF Unread, IInv, ProgressInv, ParentInv
        <5> QED
          BY <2>2, <5>1, <5>2 DEF PipeWriteFails
      <4> QED
        BY <4>3, <4>4, <4>5
    <3>2. CASE ok
      <4>1. written = IPC_WORD_COUNT + 1 + Unread
        BY <3>1, <3>2 DEF Stopped
      <4>2. Len(Stream) > IPC_WORD_COUNT + 1
        BY <3>1, <4>1, StreamFacts DEF Unread, IPC_WORD_COUNT
      <4> QED
        BY <4>2, StreamFacts DEF Carried, IPC_WORD_COUNT
    <3>3. CASE ~ok
      <4>1. faulted \/ LeadingWords(Stream) # IPC_WORD_COUNT
        BY <3>1, <3>3 DEF Stopped
      <4> QED
        BY <1>1, <4>1 DEF Carried, Verdict, EXIT_REJECT_SPAWN_IO, EXIT_ACCEPT
    <3> QED
      BY <3>2, <3>3
  <2> QED
    BY <2>1, <2>2
<1>6. ScriptOutcome'
  BY <1>1, <1>5, StreamFacts DEF ScriptOutcome, Stream
<1> QED
  BY <1>2, <1>3, <1>4, <1>6 DEF IInv

\* The verdict of a child that has stopped.
LEMMA ChildVerdict ==
  ASSUME IInv, child = "exited"
  PROVE  /\ VerdictOfStream
         /\ exit = EXIT_ACCEPT => ok /\ Verdict(Stream) = EXIT_ACCEPT
<1>1. Stopped /\ exit = IF ok THEN decide_words(words) ELSE EXIT_REJECT_SPAWN_IO
  BY DEF IInv, ProgressInv, ChildInv
<1>2. CASE ok
  <2>1. /\ words = SubSeq(Stream, 1, IPC_WORD_COUNT)
        /\ LeadingWords(Stream) = IPC_WORD_COUNT
    BY <1>1, <1>2 DEF IInv, ProgressInv, WordsInv, Stopped
  <2>2. Verdict(Stream) = decide_words(words)
    BY <2>1 DEF Verdict
  <2> QED
    BY <1>1, <1>2, <2>2 DEF VerdictOfStream
<1>3. CASE ~ok
  <2>1. exit = EXIT_REJECT_SPAWN_IO
    BY <1>1, <1>3
  <2>2. faulted \/ Verdict(Stream) = EXIT_REJECT_SPAWN_IO
    BY <1>1, <1>3 DEF Stopped, Verdict
  <2> QED
    BY <2>1, <2>2 DEF VerdictOfStream, EXIT_REJECT_SPAWN_IO, EXIT_ACCEPT
<1> QED
  BY <1>2, <1>3

\* The parent learns the exit code, and goes on or stops.
LEMMA WaitInv ==
  ASSUME IInv, ~Finished, Wait
  PROVE  IInv'
<1> USE DEF Wait
<1>1. child = "exited" /\ Stopped /\ pipe = <<>> /\ written = Len(Stream)
  BY DEF IInv, ProgressInv, ParentInv, ChildInv
<1>2. exit = EXIT_ACCEPT => Carried(Stream)
  <2>1. exit = EXIT_ACCEPT => ok /\ Verdict(Stream) = EXIT_ACCEPT
    BY <1>1, ChildVerdict
  <2>2. written <= IPC_WORD_COUNT + 1
    BY <1>1, StreamFacts DEF Stopped, Unread, IPC_WORD_COUNT
  <2> QED
    BY <1>1, <2>1, <2>2 DEF Carried
<1>3. exit # EXIT_ACCEPT => faulted \/ ~Carried(Stream)
  BY <1>1, ChildVerdict
  DEF VerdictOfStream, Carried, EXIT_REJECT_SPAWN_IO, EXIT_ACCEPT
<1>4. CASE exit # EXIT_ACCEPT /\ Outcome("rejected")
  <2>1. Stream' = Stream /\ Finished' /\ parent' = "rejected"
    BY <1>4 DEF Outcome, Stream, Finished
  <2>2. TypeOK'
    BY <1>4, <2>1 DEF IInv, TypeOK, Outcome, childVars
  <2>3. ProgressInv'
    BY <1>1, <1>4, <2>1
    DEF IInv, ProgressInv, WordsInv, ParentInv, ChildInv, Stopped, Unread, Outcome, childVars
  <2>4. RoundsInv'
    BY <1>4 DEF IInv, RoundsInv, Outcome
  <2>5. ScriptOutcome'
    BY <1>3, <1>4, <2>1, StreamFacts DEF ScriptOutcome, Outcome, Stream
  <2> QED
    BY <2>2, <2>3, <2>4, <2>5 DEF IInv
<1>5. CASE exit = EXIT_ACCEPT /\ round = Len(script) /\ Outcome("accepted")
  <2>1. Stream' = Stream /\ Finished' /\ parent' = "accepted"
    BY <1>5 DEF Outcome, Stream, Finished
  <2>2. TypeOK'
    BY <1>5, <2>1 DEF IInv, TypeOK, Outcome, childVars
  <2>3. ProgressInv'
    BY <1>1, <1>5, <2>1
    DEF IInv, ProgressInv, WordsInv, ParentInv, ChildInv, Stopped, Unread, Outcome, childVars
  <2>4. RoundsInv'
    BY <1>5 DEF IInv, RoundsInv, Outcome
  <2>5. ScriptOutcome'
    <3>1. \A k \in 1..Len(script) : Carried(script[k])
      BY <1>2, <1>5, StreamFacts DEF IInv, RoundsInv, Stream
    <3> QED
      BY <2>1, <3>1, StreamFacts DEF ScriptOutcome
  <2> QED
    BY <2>2, <2>3, <2>4, <2>5 DEF IInv
<1>6. CASE exit = EXIT_ACCEPT /\ round < Len(script) /\ round' = round + 1 /\ NextSignature
  <2>1. /\ script' = script /\ script \in Scripts /\ round' \in 1..Len(script')
        /\ Stream' = script[round']
    BY <1>6, StreamFacts DEF IInv, TypeOK, Stream
  <2>2. IsSequence(Stream') /\ Len(Stream') \in Nat
    BY <2>1, Streams
  <2>3. SubSeq(Stream', 1, 0) = <<>> /\ Len(<<>>) = 0
    BY <2>2, Beginnings
  <2>4. /\ parent' = "pipe" /\ written' = 0 /\ child' = "none" /\ words' = <<>> /\ ok' = TRUE
        /\ exit' = NoExit /\ pipe' = <<>> /\ ends' = ends /\ faulted' = faulted
    BY <1>1, <1>6 DEF NextSignature
  <2>5. words' = SubSeq(Stream', 1, Len(words')) /\ Len(words') = 0
    BY <2>3, <2>4
  <2>6. TypeOK'
    BY <2>1, <2>2, <2>4, <2>5 DEF IInv, TypeOK, IPC_WORD_COUNT
  <2>7. ProgressInv'
    BY <2>1, <2>2, <2>4, <2>5 DEF ProgressInv, WordsInv, ParentInv, ChildInv, IPC_WORD_COUNT
  <2>8. RoundsInv'
    BY <1>2, <1>6, <2>1, StreamFacts DEF IInv, RoundsInv, Stream
  <2>9. ScriptOutcome'
    BY <2>4 DEF ScriptOutcome
  <2> QED
    BY <2>6, <2>7, <2>8, <2>9 DEF IInv
<1> QED
  BY <1>4, <1>5, <1>6

\* Every step keeps the invariant.
LEMMA NextInv == IInv /\ [Next]_vars => IInv'
<1> SUFFICES ASSUME IInv, [Next]_vars
             PROVE  IInv'
  OBVIOUS
<1>1. CASE ~Finished /\ ParentStep
  BY <1>1, ParentStepInv, RejectedInv, WaitInv DEF ParentStep
<1>2. CASE ~Finished /\ ChildStep
  BY <1>2, ChildStepInv
<1>3. CASE UNCHANGED vars
  <2>1. /\ UNCHANGED <<script, round, parent, written, pipe, ends, child, words, ok, exit, faulted>>
        /\ Stream' = Stream
    BY <1>3 DEF vars, parentVars, childVars, Stream
  <2>2. TypeOK' /\ WordsInv' /\ ParentInv' /\ RoundsInv' /\ ScriptOutcome'
    BY <2>1 DEF IInv, ProgressInv, TypeOK, WordsInv, ParentInv, RoundsInv, ScriptOutcome
  <2>3. ChildInv'
    BY <2>1 DEF IInv, ProgressInv, ChildInv, Reading, Stopped, Unread, Finished
  <2> QED
    BY <2>2, <2>3 DEF IInv, ProgressInv
<1> QED
  BY <1>1, <1>2, <1>3 DEF Next

\* In every reachable state of parent and child the invariant holds.
LEMMA SpecInv == Spec => []IInv
BY InitInv, NextInv, PTL DEF Spec
-----------------------------------------------------------------------------
(***************************************************************************)
(* What the runs check.                                                    *)
(***************************************************************************)

\* The variables of parent, pipe and child have their types; in particular the
\* child has read a prefix of the stream of this signature, and the pipe holds
\* the word written last.
THEOREM TypeCorrect == Spec => []TypeOK
<1>1. IInv => TypeOK
  BY DEF IInv
<1> QED
  BY <1>1, SpecInv, PTL

\* novaseal_btc_verifier_riscv: the exit code is the verdict on the stream, or
\* SPAWN_IO after a syscall that failed, whatever the interleaving of parent and
\* child, the length of the stream and the signatures before.
THEOREM ExitCode == Spec => []VerdictOfStream
<1>1. IInv => VerdictOfStream
  BY ChildVerdict DEF VerdictOfStream
<1> QED
  BY <1>1, SpecInv, PTL

\* require_signature: a script with any number of signatures is accepted only if
\* all of them verify, and rejected only for one that does not or for a syscall
\* that failed.
THEOREM Outcomes == Spec => []ScriptOutcome
<1>1. IInv => ScriptOutcome
  BY DEF IInv
<1> QED
  BY <1>1, SpecInv, PTL
-----------------------------------------------------------------------------
(***************************************************************************)
(* Emulations.                                                             *)
(***************************************************************************)

Machines == {"child", "parent", "stub", "signatures", "stubbed"}

\* The syscalls, or signatures, that each of the emulations takes.
Ecall(machine, state, call) ==
  CASE machine = "child"      -> child_ecall(state, call)
    [] machine = "parent"     -> parent_ecall(state, call)
    [] machine = "stub"       -> stub_ecall(state, call)
    [] machine = "signatures" -> EmulatedSignature(state, call)
    [] machine = "stubbed"    -> StubbedSignature(state, call)

\* f has the states of an emulation, after each of its calls.
States(f, machine, start, calls) ==
  /\ f[0] = start
  /\ \A k \in 1..Len(calls) : f[k] = Ecall(machine, f[k - 1], calls[k])

Emulates(f, machine, start, calls) ==
  f = [k \in 0..Len(calls) |-> IF k = 0 THEN start ELSE Ecall(machine, f[k - 1], calls[k])]

\* An emulation has a state after each of its calls.
LEMMA EmulationExists ==
  ASSUME NEW machine, NEW start, NEW calls, Len(calls) \in Nat
  PROVE  \E f : Emulates(f, machine, start, calls)
<1> DEFINE E(x, k) == Ecall(machine, x, calls[k])
<1> HIDE DEF E
<1> DEFINE upto(f, n) == f = [k \in 0..n |-> IF k = 0 THEN start ELSE E(f[k - 1], k)]
           S == {n \in Nat : \E f : upto(f, n)}
<1>1. 0 \in S
  <2> DEFINE f == [k \in 0..0 |-> start]
  <2>1. upto(f, 0)
    <3>1. \A k \in 0..0 : k = 0
      OBVIOUS
    <3> QED
      BY <3>1
  <2> QED
    BY <2>1
<1>2. ASSUME NEW n \in Nat, n \in S
      PROVE  n + 1 \in S
  <2>1. PICK f : upto(f, n)
    BY <1>2
  <2>2. \A k \in 0..n : f[k] = IF k = 0 THEN start ELSE E(f[k - 1], k)
    BY <2>1
  <2> HIDE DEF upto
  <2> DEFINE v == E(f[n], n + 1)
  <2> HIDE DEF v
  <2> DEFINE g == [k \in 0..(n + 1) |-> IF k = n + 1 THEN v ELSE f[k]]
             h == [k \in 0..(n + 1) |-> IF k = 0 THEN start ELSE E(g[k - 1], k)]
  <2>3. ASSUME NEW k \in 0..(n + 1)
        PROVE  g[k] = h[k]
    <3>1. CASE k = n + 1
      <4>1. g[n] = f[n] /\ (n + 1) - 1 = n /\ n + 1 # 0
        OBVIOUS
      <4>2. h[n + 1] = E(g[n], n + 1)
        BY <4>1
      <4> QED
        BY <3>1, <4>1, <4>2 DEF v
    <3>2. CASE k # n + 1
      <4>1. k \in 0..n /\ (k # 0 => k - 1 \in 0..n /\ k - 1 # n + 1)
        BY <3>2
      <4>2. g[k] = f[k] /\ (k # 0 => g[k - 1] = f[k - 1])
        BY <4>1
      <4> QED
        BY <2>2, <4>1, <4>2
    <3> QED
      BY <3>1, <3>2
  <2>4. g = h
    BY <2>3
  <2>5. upto(g, n + 1)
    BY <2>4 DEF upto
  <2> QED
    BY <2>5
<1>3. Nat \subseteq S
  <2> HIDE DEF S
  <2> QED
    BY <1>1, <1>2, SetInduction
<1>4. PICK f : upto(f, Len(calls))
  BY <1>3
<1> QED
  BY <1>4 DEF E, Emulates

\* The child's emulation by its states.
LEMMA ChildStates ==
  ASSUME NEW start, NEW calls, Len(calls) \in Nat
  PROVE  \E f : /\ States(f, "child", start, calls)
                /\ Emulation(child_ecall, start, calls) = f[Len(calls)]
<1> DEFINE f == CHOOSE g : g = [k \in 0..Len(calls) |->
                                 IF k = 0 THEN start ELSE child_ecall(g[k - 1], calls[k])]
<1>1. PICK g : Emulates(g, "child", start, calls)
  BY EmulationExists
<1>2. g = [k \in 0..Len(calls) |-> IF k = 0 THEN start ELSE child_ecall(g[k - 1], calls[k])]
  BY <1>1 DEF Emulates, Ecall
<1>3. f = [k \in 0..Len(calls) |-> IF k = 0 THEN start ELSE child_ecall(f[k - 1], calls[k])]
  BY <1>2
<1>4. Emulation(child_ecall, start, calls) = f[Len(calls)]
  BY DEF Emulation
<1> HIDE DEF f
<1>5. f[0] = start /\ \A k \in 1..Len(calls) : f[k] = child_ecall(f[k - 1], calls[k])
  BY <1>3
<1>6. States(f, "child", start, calls)
  BY <1>5 DEF States, Ecall
<1> QED
  BY <1>4, <1>6

\* The parent's, for one signature.
LEMMA ParentStates ==
  ASSUME NEW start, NEW calls, Len(calls) \in Nat
  PROVE  \E f : /\ States(f, "parent", start, calls)
                /\ Emulation(parent_ecall, start, calls) = f[Len(calls)]
<1> DEFINE f == CHOOSE g : g = [k \in 0..Len(calls) |->
                                 IF k = 0 THEN start ELSE parent_ecall(g[k - 1], calls[k])]
<1>1. PICK g : Emulates(g, "parent", start, calls)
  BY EmulationExists
<1>2. g = [k \in 0..Len(calls) |-> IF k = 0 THEN start ELSE parent_ecall(g[k - 1], calls[k])]
  BY <1>1 DEF Emulates, Ecall
<1>3. f = [k \in 0..Len(calls) |-> IF k = 0 THEN start ELSE parent_ecall(f[k - 1], calls[k])]
  BY <1>2
<1>4. Emulation(parent_ecall, start, calls) = f[Len(calls)]
  BY DEF Emulation
<1> HIDE DEF f
<1>5. f[0] = start /\ \A k \in 1..Len(calls) : f[k] = parent_ecall(f[k - 1], calls[k])
  BY <1>3
<1>6. States(f, "parent", start, calls)
  BY <1>5 DEF States, Ecall
<1> QED
  BY <1>4, <1>6

\* The stub's, for one signature.
LEMMA StubStates ==
  ASSUME NEW start, NEW calls, Len(calls) \in Nat
  PROVE  \E f : /\ States(f, "stub", start, calls)
                /\ Emulation(stub_ecall, start, calls) = f[Len(calls)]
<1> DEFINE f == CHOOSE g : g = [k \in 0..Len(calls) |->
                                 IF k = 0 THEN start ELSE stub_ecall(g[k - 1], calls[k])]
<1>1. PICK g : Emulates(g, "stub", start, calls)
  BY EmulationExists
<1>2. g = [k \in 0..Len(calls) |-> IF k = 0 THEN start ELSE stub_ecall(g[k - 1], calls[k])]
  BY <1>1 DEF Emulates, Ecall
<1>3. f = [k \in 0..Len(calls) |-> IF k = 0 THEN start ELSE stub_ecall(f[k - 1], calls[k])]
  BY <1>2
<1>4. Emulation(stub_ecall, start, calls) = f[Len(calls)]
  BY DEF Emulation
<1> HIDE DEF f
<1>5. f[0] = start /\ \A k \in 1..Len(calls) : f[k] = stub_ecall(f[k - 1], calls[k])
  BY <1>3
<1>6. States(f, "stub", start, calls)
  BY <1>5 DEF States, Ecall
<1> QED
  BY <1>4, <1>6

\* The parent's, from signature to signature.
LEMMA SignatureStates ==
  ASSUME NEW start, NEW calls, Len(calls) \in Nat
  PROVE  \E f : /\ States(f, "signatures", start, calls)
                /\ Emulation(EmulatedSignature, start, calls) = f[Len(calls)]
<1> DEFINE f == CHOOSE g : g = [k \in 0..Len(calls) |->
                                 IF k = 0 THEN start ELSE EmulatedSignature(g[k - 1], calls[k])]
<1>1. PICK g : Emulates(g, "signatures", start, calls)
  BY EmulationExists
<1>2. g = [k \in 0..Len(calls) |-> IF k = 0 THEN start ELSE EmulatedSignature(g[k - 1], calls[k])]
  BY <1>1 DEF Emulates, Ecall
<1>3. f = [k \in 0..Len(calls) |-> IF k = 0 THEN start ELSE EmulatedSignature(f[k - 1], calls[k])]
  BY <1>2
<1>4. Emulation(EmulatedSignature, start, calls) = f[Len(calls)]
  BY DEF Emulation
<1> HIDE DEF f
<1>5. f[0] = start /\ \A k \in 1..Len(calls) : f[k] = EmulatedSignature(f[k - 1], calls[k])
  BY <1>3
<1>6. States(f, "signatures", start, calls)
  BY <1>5 DEF States, Ecall
<1> QED
  BY <1>4, <1>6

\* The stub's, from signature to signature.
LEMMA StubbedStates ==
  ASSUME NEW start, NEW calls, Len(calls) \in Nat
  PROVE  \E f : /\ States(f, "stubbed", start, calls)
                /\ Emulation(StubbedSignature, start, calls) = f[Len(calls)]
<1> DEFINE f == CHOOSE g : g = [k \in 0..Len(calls) |->
                                 IF k = 0 THEN start ELSE StubbedSignature(g[k - 1], calls[k])]
<1>1. PICK g : Emulates(g, "stubbed", start, calls)
  BY EmulationExists
<1>2. g = [k \in 0..Len(calls) |-> IF k = 0 THEN start ELSE StubbedSignature(g[k - 1], calls[k])]
  BY <1>1 DEF Emulates, Ecall
<1>3. f = [k \in 0..Len(calls) |-> IF k = 0 THEN start ELSE StubbedSignature(f[k - 1], calls[k])]
  BY <1>2
<1>4. Emulation(StubbedSignature, start, calls) = f[Len(calls)]
  BY DEF Emulation
<1> HIDE DEF f
<1>5. f[0] = start /\ \A k \in 1..Len(calls) : f[k] = StubbedSignature(f[k - 1], calls[k])
  BY <1>3
<1>6. States(f, "stubbed", start, calls)
  BY <1>5 DEF States, Ecall
<1> QED
  BY <1>4, <1>6
-----------------------------------------------------------------------------
(***************************************************************************)
(* The emulated child on the words of an envelope.                         *)
(***************************************************************************)

\* The child's program, call by call.
LEMMA ChildCalls ==
  /\ Len(ChildProgram) = IPC_WORD_COUNT + 3
  /\ ChildProgram[1] = "inherited_fd"
  /\ \A k \in 2..(IPC_WORD_COUNT + 1) : ChildProgram[k] = "pipe_read"
  /\ ChildProgram[IPC_WORD_COUNT + 2] = "probe"
  /\ ChildProgram[IPC_WORD_COUNT + 3] = "close"
<1> DEFINE first == <<"inherited_fd">>
           reads == [k \in 1..IPC_WORD_COUNT |-> "pipe_read"]
           last  == <<"probe", "close">>
           Names == {"inherited_fd", "pipe_read", "probe", "close"}
<1>1. first \in Seq(Names) /\ Len(first) = 1 /\ first[1] = "inherited_fd"
  OBVIOUS
<1>2. /\ reads \in Seq(Names) /\ Len(reads) = IPC_WORD_COUNT
      /\ \A k \in 1..IPC_WORD_COUNT : reads[k] = "pipe_read"
  BY DEF IPC_WORD_COUNT
<1>3. last \in Seq(Names) /\ Len(last) = 2 /\ last[1] = "probe" /\ last[2] = "close"
  OBVIOUS
<1> HIDE DEF first, reads, last, Names
<1>4. /\ first \o reads \in Seq(Names) /\ Len(first \o reads) = 1 + IPC_WORD_COUNT
      /\ \A i \in 1..(1 + IPC_WORD_COUNT) :
           (first \o reads)[i] = IF i <= 1 THEN first[i] ELSE reads[i - 1]
  <2>1. /\ first \o reads \in Seq(Names) /\ Len(first \o reads) = Len(first) + Len(reads)
        /\ \A i \in 1..(Len(first) + Len(reads)) :
             (first \o reads)[i] = IF i <= Len(first) THEN first[i] ELSE reads[i - Len(first)]
    BY <1>1, <1>2, ConcatProperties
  <2> QED
    BY <1>1, <1>2, <2>1
<1>5. /\ Len((first \o reads) \o last) = 1 + IPC_WORD_COUNT + 2
      /\ \A i \in 1..(1 + IPC_WORD_COUNT + 2) :
           ((first \o reads) \o last)[i] =
             IF i <= 1 + IPC_WORD_COUNT THEN (first \o reads)[i]
             ELSE last[i - (1 + IPC_WORD_COUNT)]
  <2> DEFINE both == first \o reads
  <2>1. both \in Seq(Names) /\ Len(both) = 1 + IPC_WORD_COUNT
    BY <1>4
  <2> HIDE DEF both
  <2>2. /\ Len(both \o last) = Len(both) + Len(last)
        /\ \A i \in 1..(Len(both) + Len(last)) :
             (both \o last)[i] = IF i <= Len(both) THEN both[i] ELSE last[i - Len(both)]
    BY <1>3, <2>1, ConcatProperties
  <2> QED
    BY <1>3, <2>1, <2>2 DEF both
<1>6. ChildProgram = (first \o reads) \o last
  BY DEF ChildProgram, first, reads, last
<1> QED
  BY <1>1, <1>2, <1>3, <1>4, <1>5, <1>6 DEF IPC_WORD_COUNT

\* The child after k words.
HasRead(c, input, k) ==
  /\ DOMAIN c = {"input", "cursor", "read", "ok", "closed"}
  /\ c.input = input /\ c.cursor = k /\ c.read = SubSeq(input, 1, k)
  /\ c.ok /\ ~c.closed

\* A child that a syscall has failed.
HasFailed(c) == DOMAIN c = {"input", "cursor", "read", "ok", "closed"} /\ ~c.ok

\* It never recovers.
LEMMA FailedStays ==
  ASSUME NEW c, HasFailed(c), NEW call, NEW d, d = child_ecall(c, call)
  PROVE  HasFailed(d)
<1>1. CASE call = "close"
  <2>1. d = [c EXCEPT !.closed = TRUE, !.ok = @ /\ ~c.closed]
    BY <1>1 DEF child_ecall
  <2> QED
    BY <2>1 DEF HasFailed
<1>2. CASE call # "close"
  <2>1. d = c
    BY <1>2 DEF child_ecall, HasFailed
  <2> QED
    BY <2>1
<1> QED
  BY <1>1, <1>2

\* The emulated child decides on the words it is given, however many.
LEMMA ChildEmulated ==
  ASSUME NEW input, IsSequence(input), Len(input) \in Nat
  PROVE  run_child_elf(input) = decide_words(input)
<1> DEFINE n == IPC_WORD_COUNT
<1>1. n \in Nat /\ Len(ChildProgram) = n + 3
  BY ChildCalls DEF IPC_WORD_COUNT
<1>2. PICK f : /\ States(f, "child", ChildInput(input), ChildProgram)
               /\ Emulation(child_ecall, ChildInput(input), ChildProgram)
                    = f[Len(ChildProgram)]
  <2>1. Len(ChildProgram) \in Nat
    BY <1>1
  <2> QED
    BY <2>1, ChildStates
<1>3. f[0] = ChildInput(input)
  BY <1>2 DEF States
<1>4. \A k \in 1..(n + 3) : f[k] = child_ecall(f[k - 1], ChildProgram[k])
  BY <1>1, <1>2 DEF States, Ecall
<1>5. HasRead(f[1], input, 0)
  <2>1. f[1] = child_ecall(f[0], "inherited_fd")
    BY <1>1, <1>4, ChildCalls
  <2>2. SubSeq(input, 1, 0) = <<>>
    BY Beginnings
  <2>3. f[1] = ChildInput(input)
    BY <1>3, <2>1 DEF child_ecall
  <2> QED
    BY <2>2, <2>3 DEF ChildInput, HasRead
<1>6. ASSUME NEW k \in 0..(n - 1), HasRead(f[k + 1], input, k)
      PROVE  /\ k < Len(input) => HasRead(f[k + 2], input, k + 1)
             /\ k = Len(input) => HasFailed(f[k + 2])
  <2>1. f[k + 2] = child_ecall(f[k + 1], "pipe_read")
    <3>1. k + 2 \in 2..(n + 1) /\ k + 2 \in 1..(n + 3) /\ (k + 2) - 1 = k + 1
      BY <1>1
    <3> QED
      BY <1>4, <3>1, ChildCalls
  <2> DEFINE c == f[k + 1]
  <2>2. HasRead(c, input, k)
    BY <1>6
  <2>3. ASSUME k < Len(input)
        PROVE  HasRead(f[k + 2], input, k + 1)
    <3>1. Append(SubSeq(input, 1, k), input[k + 1]) = SubSeq(input, 1, k + 1)
      BY <1>1, <2>3, ReadOn
    <3>2. HasWord(c) /\ c.ok
      BY <1>1, <1>6, <2>3 DEF HasWord, HasRead
    <3>3. f[k + 2] = [c EXCEPT !.cursor = @ + 1, !.read = Append(@, c.input[c.cursor + 1])]
      BY <2>1, <3>2 DEF child_ecall
    <3> HIDE DEF c
    <3> QED
      BY <2>2, <3>1, <3>3 DEF HasRead
  <2>4. ASSUME k = Len(input)
        PROVE  HasFailed(f[k + 2])
    <3>1. ~HasWord(c) /\ c.ok
      BY <1>1, <1>6, <2>4 DEF HasWord, HasRead
    <3>2. f[k + 2] = [c EXCEPT !.ok = FALSE]
      BY <2>1, <3>1 DEF child_ecall
    <3> HIDE DEF c
    <3> QED
      BY <2>2, <3>2 DEF HasRead, HasFailed
  <2> QED
    BY <2>3, <2>4
<1>7. ASSUME NEW k \in 0..n, k <= Len(input)
      PROVE  HasRead(f[k + 1], input, k)
  BY <1>5, <1>6, <1>7 DEF IPC_WORD_COUNT
<1>8. f[n + 2] = child_ecall(f[n + 1], "probe") /\ f[n + 3] = child_ecall(f[n + 2], "close")
  BY <1>1, <1>4, ChildCalls
<1>9. CASE Len(input) = n
  <2>1. HasRead(f[n + 1], input, n)
    BY <1>1, <1>7, <1>9
  <2>2. ~HasWord(f[n + 1]) /\ f[n + 1].ok
    BY <1>1, <1>9, <2>1 DEF HasWord, HasRead
  <2>3. f[n + 2] = [f[n + 1] EXCEPT !.ok = ~HasWord(f[n + 1])]
    BY <1>8, <2>2 DEF child_ecall
  <2>4. HasRead(f[n + 2], input, n)
    BY <2>1, <2>2, <2>3 DEF HasRead
  <2>5. f[n + 3] = [f[n + 2] EXCEPT !.closed = TRUE, !.ok = @ /\ ~f[n + 2].closed]
    BY <1>8 DEF child_ecall
  <2>6. f[n + 3].ok /\ f[n + 3].read = SubSeq(input, 1, n)
    BY <2>4, <2>5 DEF HasRead
  <2>7. SubSeq(input, 1, n) = input
    BY <1>9, WholeStream
  <2> QED
    BY <1>1, <1>2, <2>6, <2>7 DEF run_child_elf
<1>10. CASE Len(input) > n
  <2>1. HasRead(f[n + 1], input, n)
    BY <1>1, <1>7, <1>10
  <2>2. HasWord(f[n + 1]) /\ f[n + 1].ok
    BY <1>1, <1>10, <2>1 DEF HasWord, HasRead
  <2>3. f[n + 2] = [f[n + 1] EXCEPT !.ok = ~HasWord(f[n + 1])]
    BY <1>8, <2>2 DEF child_ecall
  <2>4. HasFailed(f[n + 2])
    BY <2>1, <2>2, <2>3 DEF HasRead, HasFailed
  <2>5. HasFailed(f[n + 3])
    BY <1>8, <2>4, FailedStays
  <2> QED
    BY <1>1, <1>2, <1>10, <2>5 DEF run_child_elf, decide_words, HasFailed
<1>11. CASE Len(input) < n
  <2>1. Len(input) \in 0..(n - 1) /\ HasRead(f[Len(input) + 1], input, Len(input))
    BY <1>1, <1>7, <1>11
  <2>2. HasFailed(f[Len(input) + 2])
    BY <1>6, <2>1
  <2>3. ASSUME NEW k \in 1..(n + 2), HasFailed(f[k])
        PROVE  HasFailed(f[k + 1])
    <3>1. f[k + 1] = child_ecall(f[k], ChildProgram[k + 1])
      BY <1>1, <1>4
    <3> QED
      BY <2>3, <3>1, FailedStays
  <2>4. HasFailed(f[n + 3])
    <3>1. \A k \in 2..(n + 2) : HasFailed(f[k]) => HasFailed(f[n + 3])
      BY <2>3 DEF IPC_WORD_COUNT
    <3>2. Len(input) + 2 \in 2..(n + 2)
      BY <1>1, <2>1
    <3> QED
      BY <2>2, <3>1, <3>2
  <2> QED
    BY <1>1, <1>2, <1>11, <2>4 DEF run_child_elf, decide_words, HasFailed
<1> QED
  BY <1>1, <1>9, <1>10, <1>11
-----------------------------------------------------------------------------
(***************************************************************************)
(* The emulated parent and the stub, on one signature.                     *)
(***************************************************************************)

\* The syscalls of a signature, one by one.
LEMMA SignatureCalls ==
  ASSUME NEW stream, IsSequence(stream), NEW n \in Nat, n = Len(stream)
  PROVE  /\ Len(Calls(stream)) = n + 4
         /\ Calls(stream)[1].op = "pipe" /\ Calls(stream)[2].op = "spawn"
         /\ \A k \in 1..n : /\ Calls(stream)[k + 2].op = "pipe_write"
                            /\ Calls(stream)[k + 2].word = stream[k]
         /\ Calls(stream)[n + 3].op = "close" /\ Calls(stream)[n + 4].op = "wait"
<1> DEFINE write(k) == [op |-> "pipe_write", word |-> stream[k]]
           first == <<[op |-> "pipe"], [op |-> "spawn"]>>
           writes == [k \in DOMAIN stream |-> write(k)]
           last == <<[op |-> "close"], [op |-> "wait"]>>
           All == {[op |-> "pipe"], [op |-> "spawn"], [op |-> "close"], [op |-> "wait"]}
                    \cup {write(k) : k \in 1..n}
<1>1. DOMAIN stream = 1..n
  BY DEF IsSequence
<1>2. /\ \A k \in 1..n : write(k).op = "pipe_write" /\ write(k).word = stream[k]
      /\ \A k \in 1..n : write(k) \in All
  OBVIOUS
<1>3. /\ first \in Seq(All) /\ Len(first) = 2
      /\ first[1].op = "pipe" /\ first[2].op = "spawn"
  OBVIOUS
<1>4. /\ last \in Seq(All) /\ Len(last) = 2
      /\ last[1].op = "close" /\ last[2].op = "wait"
  OBVIOUS
<1> HIDE DEF write, All
<1>5. /\ writes \in Seq(All) /\ Len(writes) = n /\ \A k \in 1..n : writes[k] = write(k)
  BY <1>1, <1>2
<1> HIDE DEF first, writes, last
<1> DEFINE both == first \o writes
<1>6. /\ both \in Seq(All) /\ Len(both) = n + 2
      /\ \A i \in 1..(n + 2) : both[i] = IF i <= 2 THEN first[i] ELSE writes[i - 2]
  <2>1. /\ both \in Seq(All) /\ Len(both) = Len(first) + Len(writes)
        /\ \A i \in 1..(Len(first) + Len(writes)) :
             both[i] = IF i <= Len(first) THEN first[i] ELSE writes[i - Len(first)]
    BY <1>3, <1>5, ConcatProperties
  <2> QED
    BY <1>3, <1>5, <2>1
<1> HIDE DEF both
<1>7. /\ Len(both \o last) = n + 4
      /\ \A i \in 1..(n + 4) : (both \o last)[i] = IF i <= n + 2 THEN both[i] ELSE last[i - (n + 2)]
  <2>1. /\ Len(both \o last) = Len(both) + Len(last)
        /\ \A i \in 1..(Len(both) + Len(last)) :
             (both \o last)[i] = IF i <= Len(both) THEN both[i] ELSE last[i - Len(both)]
    BY <1>4, <1>6, ConcatProperties
  <2> QED
    BY <1>4, <1>6, <2>1
<1>8. Calls(stream) = both \o last
  BY DEF Calls, both, first, writes, last, write
<1> DEFINE c == Calls(stream)
<1>9. Len(c) = n + 4 /\ c[1] = first[1] /\ c[2] = first[2]
  BY <1>6, <1>7, <1>8
<1>10. c[n + 3] = last[1] /\ c[n + 4] = last[2]
  BY <1>7, <1>8
<1>11. ASSUME NEW k \in 1..n
       PROVE  c[k + 2] = write(k)
  <2>1. k + 2 \in 1..(n + 2) /\ k + 2 \in 1..(n + 4) /\ (k + 2) - 2 = k /\ ~(k + 2 <= 2)
    OBVIOUS
  <2> QED
    BY <1>5, <1>6, <1>7, <1>8, <2>1
<1> HIDE DEF c
<1>12. /\ Len(c) = n + 4 /\ c[1].op = "pipe" /\ c[2].op = "spawn"
       /\ \A k \in 1..n : c[k + 2].op = "pipe_write" /\ c[k + 2].word = stream[k]
       /\ c[n + 3].op = "close" /\ c[n + 4].op = "wait"
  BY <1>2, <1>3, <1>4, <1>9, <1>10, <1>11
<1> QED
  BY <1>12 DEF c

Start(machine) == IF machine = "parent" THEN ParentStart ELSE StubStart

\* The machine after k writes.
HasWritten(machine, p, stream, k) ==
  /\ DOMAIN p = DOMAIN Start(machine)
  /\ p.pipe_words = SubSeq(stream, 1, k)
  /\ ~p.write_closed /\ p.child_spawned /\ ~p.rejected
  /\ machine = "parent" => ~p.child_run_attempted /\ p.child_exit_code = NoExit

\* What the parent and the stub do alike.
LEMMA SameSyscalls ==
  ASSUME NEW machine \in {"parent", "stub"}, NEW p, ~p.rejected, NEW call, NEW q,
         q = Ecall(machine, p, call)
  PROVE  /\ call.op = "pipe" => q = Start(machine)
         /\ call.op = "spawn" /\ ~p.child_spawned /\ ~p.read_closed =>
              q = [p EXCEPT !.child_spawned = TRUE, !.read_closed = TRUE]
         /\ call.op = "pipe_write" /\ ~p.write_closed /\ p.child_spawned /\ call.word # Short =>
              q = [p EXCEPT !.pipe_words = Append(@, call.word)]
         /\ call.op = "close" /\ ~p.write_closed => q = [p EXCEPT !.write_closed = TRUE]
<1>1. CASE machine = "parent"
  BY <1>1 DEF Ecall, Start, parent_ecall, emulated_pipe, emulated_spawn, emulated_pipe_write,
              emulated_close
<1>2. CASE machine = "stub"
  BY <1>2 DEF Ecall, Start, stub_ecall, stub_pipe, stub_spawn, stub_pipe_write, stub_close
<1> QED
  BY <1>1, <1>2

\* A whole stream of whole words is written, whichever machine it is.
LEMMA AllWritten ==
  ASSUME NEW machine \in {"parent", "stub"}, NEW p, ~p.rejected,
         NEW stream, IsSequence(stream), NEW n \in Nat, n = Len(stream),
         \A k \in 1..n : stream[k] # Short,
         NEW f, States(f, machine, p, Calls(stream))
  PROVE  /\ DOMAIN f[n + 3] = DOMAIN Start(machine)
         /\ f[n + 3].pipe_words = stream /\ f[n + 3].child_spawned /\ ~f[n + 3].rejected
         /\ machine = "parent" =>
              ~f[n + 3].child_run_attempted /\ f[n + 3].child_exit_code = NoExit
<1> DEFINE c == Calls(stream)
<1>1. f[0] = p /\ \A k \in 1..(n + 4) : f[k] = Ecall(machine, f[k - 1], c[k])
  BY SignatureCalls DEF States
<1>2. f[1] = Start(machine)
  <2>1. f[1] = Ecall(machine, p, c[1]) /\ c[1].op = "pipe"
    BY <1>1, SignatureCalls
  <2> HIDE DEF c
  <2> QED
    BY <2>1, SameSyscalls
<1>3. HasWritten(machine, f[2], stream, 0)
  <2>1. f[2] = Ecall(machine, f[1], c[2]) /\ c[2].op = "spawn"
    BY <1>1, SignatureCalls
  <2>2. ~f[1].rejected /\ ~f[1].child_spawned /\ ~f[1].read_closed
    BY <1>2 DEF Start, ParentStart, StubStart
  <2>3. f[2] = [f[1] EXCEPT !.child_spawned = TRUE, !.read_closed = TRUE]
    <3> HIDE DEF c
    <3> QED
      BY <2>1, <2>2, SameSyscalls
  <2>4. SubSeq(stream, 1, 0) = <<>>
    BY Beginnings
  <2>5. CASE machine = "parent"
    BY <1>2, <2>3, <2>4, <2>5 DEF Start, ParentStart, HasWritten
  <2>6. CASE machine = "stub"
    BY <1>2, <2>3, <2>4, <2>6 DEF Start, StubStart, HasWritten
  <2> QED
    BY <2>5, <2>6
<1>4. ASSUME NEW k \in Nat, k < n, HasWritten(machine, f[k + 2], stream, k)
      PROVE  HasWritten(machine, f[k + 3], stream, k + 1)
  <2>1. f[k + 3] = Ecall(machine, f[k + 2], c[k + 3])
    <3>1. k + 3 \in 1..(n + 4) /\ (k + 3) - 1 = k + 2
      BY <1>4
    <3> QED
      BY <1>1, <3>1
  <2>2. c[k + 3].op = "pipe_write" /\ c[k + 3].word = stream[k + 1] /\ stream[k + 1] # Short
    <3>1. k + 1 \in 1..n /\ (k + 1) + 2 = k + 3
      BY <1>4
    <3> QED
      BY <3>1, SignatureCalls
  <2> DEFINE q == f[k + 2]
  <2>3. HasWritten(machine, q, stream, k)
    BY <1>4
  <2>4. f[k + 3] = [q EXCEPT !.pipe_words = Append(@, stream[k + 1])]
    <3>1. ~q.rejected /\ ~q.write_closed /\ q.child_spawned
      BY <2>3 DEF HasWritten
    <3> HIDE DEF c, q
    <3>2. f[k + 3] = Ecall(machine, q, c[k + 3])
      BY <2>1 DEF q
    <3>3. f[k + 3] = [q EXCEPT !.pipe_words = Append(@, c[k + 3].word)]
      BY <2>2, <3>1, <3>2, SameSyscalls
    <3> QED
      BY <2>2, <3>3
  <2>5. Append(SubSeq(stream, 1, k), stream[k + 1]) = SubSeq(stream, 1, k + 1)
    BY <1>4, ReadOn
  <2> HIDE DEF q
  <2>6. CASE machine = "parent"
    BY <2>3, <2>4, <2>5, <2>6 DEF Start, ParentStart, HasWritten
  <2>7. CASE machine = "stub"
    BY <2>3, <2>4, <2>5, <2>7 DEF Start, StubStart, HasWritten
  <2> QED
    BY <2>6, <2>7
<1>5. HasWritten(machine, f[n + 2], stream, n)
  <2> DEFINE S == {k \in Nat : k <= n => HasWritten(machine, f[k + 2], stream, k)}
  <2>1. 0 \in S
    BY <1>3
  <2>2. ASSUME NEW k \in Nat, k \in S
        PROVE  k + 1 \in S
    <3>1. ASSUME k + 1 <= n
          PROVE  HasWritten(machine, f[k + 3], stream, k + 1)
      BY <1>4, <2>2, <3>1
    <3>2. (k + 1) + 2 = k + 3
      OBVIOUS
    <3> QED
      BY <3>1, <3>2
  <2>3. Nat \subseteq S
    <3> HIDE DEF S
    <3> QED
      BY <2>1, <2>2, SetInduction
  <2> QED
    BY <2>3
<1>6. f[n + 3] = Ecall(machine, f[n + 2], c[n + 3]) /\ c[n + 3].op = "close"
  <2>1. n + 3 \in 1..(n + 4) /\ (n + 3) - 1 = n + 2
    OBVIOUS
  <2> QED
    BY <1>1, <2>1, SignatureCalls
<1> DEFINE q == f[n + 2]
<1>7. HasWritten(machine, q, stream, n)
  BY <1>5
<1>8. f[n + 3] = [q EXCEPT !.write_closed = TRUE]
  <2>1. ~q.rejected /\ ~q.write_closed
    BY <1>7 DEF HasWritten
  <2> HIDE DEF c, q
  <2>2. f[n + 3] = Ecall(machine, q, c[n + 3]) /\ c[n + 3].op = "close"
    BY <1>6 DEF q
  <2> QED
    BY <2>1, <2>2, SameSyscalls
<1>9. SubSeq(stream, 1, n) = stream
  BY WholeStream
<1> HIDE DEF q
<1>10. CASE machine = "parent"
  BY <1>7, <1>8, <1>9, <1>10 DEF Start, ParentStart, HasWritten
<1>11. CASE machine = "stub"
  BY <1>7, <1>8, <1>9, <1>11 DEF Start, StubStart, HasWritten
<1> QED
  BY <1>10, <1>11

\* A script that has rejected makes no further syscall.
LEMMA RejectedForGood ==
  ASSUME NEW machine \in {"parent", "stub"}, NEW p, p.rejected, NEW calls,
         NEW n \in Nat, n = Len(calls), NEW f, States(f, machine, p, calls)
  PROVE  f[n] = p
<1> DEFINE S == {k \in Nat : k <= n => f[k] = p}
<1>1. 0 \in S
  BY DEF States
<1>2. ASSUME NEW k \in Nat, k \in S, k + 1 <= n
      PROVE  f[k + 1] = p
  <2>1. f[k + 1] = Ecall(machine, f[k], calls[k + 1])
    <3>1. k + 1 \in 1..Len(calls) /\ (k + 1) - 1 = k
      BY <1>2
    <3> QED
      BY <3>1 DEF States
  <2>2. f[k] = p
    BY <1>2
  <2> QED
    BY <2>1, <2>2 DEF Ecall, parent_ecall, stub_ecall
<1>3. Nat \subseteq S
  <2>1. \A k \in Nat : k \in S => k + 1 \in S
    BY <1>2
  <2> HIDE DEF S
  <2> QED
    BY <1>1, <2>1, SetInduction
<1> QED
  BY <1>3

\* The emulated parent takes a signature whose envelope the child accepts.
LEMMA SignatureEmulated ==
  ASSUME NEW p, NEW stream, IsSequence(stream), NEW n \in Nat, n = Len(stream),
         \A k \in 1..n : stream[k] # Short
  PROVE  EmulatedSignature(p, stream).rejected
           <=> p.rejected \/ decide_words(stream) # EXIT_ACCEPT
<1>1. Len(Calls(stream)) = n + 4 /\ n + 4 \in Nat
  BY SignatureCalls
<1>2. PICK f : /\ States(f, "parent", p, Calls(stream))
               /\ EmulatedSignature(p, stream) = f[n + 4]
  BY <1>1, ParentStates DEF EmulatedSignature
<1>3. CASE p.rejected
  BY <1>1, <1>2, <1>3, RejectedForGood
<1>4. CASE ~p.rejected
  <2> DEFINE q == f[n + 3]
  <2>1. /\ DOMAIN q = DOMAIN ParentStart /\ q.pipe_words = stream /\ q.child_spawned
        /\ ~q.rejected /\ ~q.child_run_attempted /\ q.child_exit_code = NoExit
    BY <1>2, <1>4, AllWritten DEF Start
  <2>2. f[n + 4] = parent_ecall(q, Calls(stream)[n + 4]) /\ Calls(stream)[n + 4].op = "wait"
    <3>1. n + 4 \in 1..(n + 4) /\ (n + 4) - 1 = n + 3
      OBVIOUS
    <3> QED
      BY <1>1, <1>2, <3>1, SignatureCalls DEF States, Ecall
  <2> HIDE DEF q
  <2>3. f[n + 4] = emulated_wait(q)
    BY <2>1, <2>2 DEF parent_ecall
  <2>4. CASE n # IPC_WORD_COUNT
    <3>1. f[n + 4] = Fails(q)
      BY <2>1, <2>3, <2>4 DEF emulated_wait
    <3>2. decide_words(stream) = EXIT_REJECT_SPAWN_IO
      BY <2>4 DEF decide_words
    <3>3. f[n + 4].rejected
      BY <2>1, <3>1 DEF Fails, ParentStart
    <3> QED
      BY <1>2, <1>4, <3>2, <3>3 DEF EXIT_ACCEPT, EXIT_REJECT_SPAWN_IO
  <2>5. CASE n = IPC_WORD_COUNT
    <3> DEFINE code == run_child_elf(stream)
    <3>1. code = decide_words(stream)
      BY <2>5, ChildEmulated
    <3> HIDE DEF code
    <3>2. f[n + 4] = [q EXCEPT !.child_run_attempted = TRUE, !.child_exit_code = code,
                               !.rejected = code # EXIT_ACCEPT]
      BY <2>1, <2>3, <2>5 DEF emulated_wait, code
    <3>3. f[n + 4].rejected <=> code # EXIT_ACCEPT
      BY <2>1, <3>2 DEF ParentStart
    <3> QED
      BY <1>2, <1>4, <3>1, <3>3
  <2> QED
    BY <2>4, <2>5
<1> QED
  BY <1>3, <1>4

\* The stub takes every signature whose envelope has the right length.
LEMMA SignatureStubbed ==
  ASSUME NEW p, NEW stream, IsSequence(stream), NEW n \in Nat, n = Len(stream),
         \A k \in 1..n : stream[k] # Short
  PROVE  StubbedSignature(p, stream).rejected <=> p.rejected \/ n # IPC_WORD_COUNT
<1>1. Len(Calls(stream)) = n + 4 /\ n + 4 \in Nat
  BY SignatureCalls
<1>2. PICK f : /\ States(f, "stub", p, Calls(stream))
               /\ StubbedSignature(p, stream) = f[n + 4]
  BY <1>1, StubStates DEF StubbedSignature
<1>3. CASE p.rejected
  BY <1>1, <1>2, <1>3, RejectedForGood
<1>4. CASE ~p.rejected
  <2> DEFINE q == f[n + 3]
  <2>1. /\ DOMAIN q = DOMAIN StubStart /\ q.pipe_words = stream /\ q.child_spawned
        /\ ~q.rejected
    BY <1>2, <1>4, AllWritten DEF Start
  <2>2. f[n + 4] = stub_ecall(q, Calls(stream)[n + 4]) /\ Calls(stream)[n + 4].op = "wait"
    <3>1. n + 4 \in 1..(n + 4) /\ (n + 4) - 1 = n + 3
      OBVIOUS
    <3> QED
      BY <1>1, <1>2, <3>1, SignatureCalls DEF States, Ecall
  <2> HIDE DEF q
  <2>3. f[n + 4] = stub_wait(q)
    BY <2>1, <2>2 DEF stub_ecall
  <2>4. f[n + 4].rejected <=> n # IPC_WORD_COUNT
    BY <2>1, <2>3 DEF stub_wait, StubStart
  <2> QED
    BY <1>2, <1>4, <2>4
<1> QED
  BY <1>3, <1>4
-----------------------------------------------------------------------------
(***************************************************************************)
(* The emulators on a whole script.                                        *)
(***************************************************************************)

\* A stream of whole words.
WholeWords(stream) ==
  IsSequence(stream) /\ Len(stream) \in Nat /\ \A k \in 1..Len(stream) : stream[k] # Short

\* What an emulator refuses.
Refuses(machine, stream) ==
  IF machine = "signatures" THEN decide_words(stream) # EXIT_ACCEPT
  ELSE Len(stream) # IPC_WORD_COUNT

\* One signature more.
LEMMA NextSignatureEmulated ==
  ASSUME NEW machine \in {"signatures", "stubbed"}, NEW p, NEW stream, WholeWords(stream)
  PROVE  Ecall(machine, p, stream).rejected <=> p.rejected \/ Refuses(machine, stream)
<1>1. CASE machine = "signatures"
  <2>1. Ecall(machine, p, stream) = EmulatedSignature(p, stream)
    BY <1>1 DEF Ecall
  <2> QED
    BY <1>1, <2>1, SignatureEmulated DEF Refuses, WholeWords
<1>2. CASE machine = "stubbed"
  <2>1. Ecall(machine, p, stream) = StubbedSignature(p, stream)
    BY <1>2 DEF Ecall
  <2> QED
    BY <1>2, <2>1, SignatureStubbed DEF Refuses, WholeWords
<1> QED
  BY <1>1, <1>2

\* A script is refused when one of its signatures is.
LEMMA ScriptEmulated ==
  ASSUME NEW machine \in {"signatures", "stubbed"}, NEW streams, NEW n \in Nat,
         n = Len(streams), \A k \in 1..n : WholeWords(streams[k]),
         NEW start, ~start.rejected, NEW f, States(f, machine, start, streams)
  PROVE  f[n].rejected <=> \E k \in 1..n : Refuses(machine, streams[k])
<1> DEFINE refused(m) == \E k \in 1..m : Refuses(machine, streams[k])
           S == {m \in Nat : m <= n => (f[m].rejected <=> refused(m))}
<1>1. 0 \in S
  BY DEF States
<1>2. ASSUME NEW m \in Nat, m \in S, m + 1 <= n
      PROVE  f[m + 1].rejected <=> refused(m + 1)
  <2>1. m + 1 \in 1..n /\ (m + 1) - 1 = m
    BY <1>2
  <2>2. f[m + 1] = Ecall(machine, f[m], streams[m + 1])
    BY <2>1 DEF States
  <2>3. f[m].rejected <=> refused(m)
    BY <1>2
  <2>4. f[m + 1].rejected <=> f[m].rejected \/ Refuses(machine, streams[m + 1])
    BY <2>1, <2>2, NextSignatureEmulated
  <2>5. refused(m + 1) <=> refused(m) \/ Refuses(machine, streams[m + 1])
    <3>1. \A k : k \in 1..(m + 1) <=> k \in 1..m \/ k = m + 1
      OBVIOUS
    <3> QED
      BY <3>1
  <2> HIDE DEF refused
  <2> QED
    BY <2>3, <2>4, <2>5
<1>3. Nat \subseteq S
  <2>1. \A m \in Nat : m \in S => m + 1 \in S
    BY <1>2
  <2> HIDE DEF S
  <2> QED
    BY <1>1, <2>1, SetInduction
<1> QED
  BY <1>3

\* What the parent of the harness and the stub make of a script.
LEMMA EmulatorsDecide ==
  ASSUME NEW streams, NEW n \in Nat, n = Len(streams), \A k \in 1..n : WholeWords(streams[k])
  PROVE  /\ EmulatedParent(streams).rejected
              <=> \E k \in 1..n : decide_words(streams[k]) # EXIT_ACCEPT
         /\ EmulatedStub(streams).rejected
              <=> \E k \in 1..n : Len(streams[k]) # IPC_WORD_COUNT
<1>1. PICK f : States(f, "signatures", ParentStart, streams) /\ EmulatedParent(streams) = f[n]
  BY SignatureStates DEF EmulatedParent
<1>2. PICK g : States(g, "stubbed", StubStart, streams) /\ EmulatedStub(streams) = g[n]
  BY StubbedStates DEF EmulatedStub
<1>3. ~ParentStart.rejected /\ ~StubStart.rejected
  BY DEF ParentStart, StubStart
<1>4. f[n].rejected <=> \E k \in 1..n : Refuses("signatures", streams[k])
  BY <1>1, <1>3, ScriptEmulated
<1>5. g[n].rejected <=> \E k \in 1..n : Refuses("stubbed", streams[k])
  BY <1>2, <1>3, ScriptEmulated
<1> QED
  BY <1>1, <1>2, <1>4, <1>5 DEF Refuses

\* The verdict on a stream of whole words is that on its words.
LEMMA WholeVerdict ==
  ASSUME NEW stream, WholeWords(stream)
  PROVE  Verdict(stream) = decide_words(stream)
<1> USE DEF WholeWords
<1>1. LeadingWords(stream) = Len(stream)
  BY LeadingWordsUnique
<1>2. CASE Len(stream) = IPC_WORD_COUNT
  BY <1>1, <1>2, WholeStream DEF Verdict
<1>3. CASE Len(stream) # IPC_WORD_COUNT
  BY <1>1, <1>3 DEF Verdict, decide_words
<1> QED
  BY <1>2, <1>3

\* The machines run side by side carry a stream of whole words if the child
\* accepts them.
LEMMA WholeCarried ==
  ASSUME NEW stream, WholeWords(stream)
  PROVE  Carried(stream) <=> decide_words(stream) = EXIT_ACCEPT
<1>1. Verdict(stream) = decide_words(stream)
  BY WholeVerdict
<1>2. CASE Len(stream) = IPC_WORD_COUNT
  BY <1>1, <1>2 DEF Carried, IPC_WORD_COUNT
<1>3. CASE Len(stream) # IPC_WORD_COUNT
  <2>1. decide_words(stream) = EXIT_REJECT_SPAWN_IO
    BY <1>3 DEF decide_words
  <2> QED
    BY <1>1, <2>1 DEF Carried, EXIT_ACCEPT, EXIT_REJECT_SPAWN_IO
<1> QED
  BY <1>2, <1>3

\* The emulator of the parent-lock harness, which runs the child on a buffer at
\* the end, accepts exactly the scripts that parent and child side by side
\* accept in every interleaving without a failing syscall; the stub of the
\* state-type harness refuses none of them.
THEOREM Emulators == Spec => []EmulatorAgrees
<1>1. IInv => EmulatorAgrees
  <2> SUFFICES ASSUME IInv, Finished, ~faulted,
                      \A k \in DOMAIN script : Short \notin ToSet(script[k])
               PROVE  /\ (parent = "accepted") = ~EmulatedParent(script).rejected
                      /\ EmulatedStub(script).rejected => parent # "accepted"
    BY DEF EmulatorAgrees
  <2>1. script \in Scripts /\ round \in 1..Len(script) /\ ScriptOutcome
    BY DEF IInv, TypeOK
  <2> DEFINE n == Len(script)
  <2>2. n \in Nat /\ DOMAIN script = 1..n /\ round \in 1..n
    BY <2>1, Streams
  <2>3. ASSUME NEW k \in 1..n
        PROVE  WholeWords(script[k])
    <3>1. IsSequence(script[k]) /\ Len(script[k]) \in Nat /\ Short \notin ToSet(script[k])
      BY <2>1, <2>2, Streams
    <3>2. DOMAIN script[k] = 1..Len(script[k])
      BY <3>1 DEF IsSequence
    <3> QED
      BY <3>1, <3>2 DEF WholeWords, ToSet
  <2> HIDE DEF n
  <2>4. parent = "accepted" <=> \A k \in 1..n : Carried(script[k])
    BY <2>1, <2>2 DEF ScriptOutcome, Finished
  <2>5. parent = "accepted" <=> \A k \in 1..n : decide_words(script[k]) = EXIT_ACCEPT
    BY <2>3, <2>4, WholeCarried
  <2>6. /\ EmulatedParent(script).rejected
             <=> \E k \in 1..n : decide_words(script[k]) # EXIT_ACCEPT
        /\ EmulatedStub(script).rejected
             <=> \E k \in 1..n : Len(script[k]) # IPC_WORD_COUNT
    BY <2>2, <2>3, EmulatorsDecide DEF n
  <2>7. \A k \in 1..n : Len(script[k]) # IPC_WORD_COUNT
                          => decide_words(script[k]) # EXIT_ACCEPT
    BY DEF decide_words, EXIT_ACCEPT, EXIT_REJECT_SPAWN_IO
  <2> QED
    BY <2>5, <2>6, <2>7
<1> QED
  BY <1>1, SpecInv, PTL
-----------------------------------------------------------------------------
(***************************************************************************)
(* Everyone who judges an envelope.                                        *)
(***************************************************************************)

\* Bytes are left over only of a blob that has not the words of an envelope.
Framed(blob) == blob.tail = 0 \/ Len(blob.words) # IPC_WORD_COUNT

\* A signature is one by the key over the message.
Signed(message, pubkey, signature) ==
  Lifts(pubkey) /\ Encodes(signature) /\ Verifies(message, pubkey, signature)

\* The header words are what the code asks for.
Headed(ws) ==
  /\ ws[1] = Magic
  /\ ws[2].version = IPC_VERSION /\ ws[2].scheme = IPC_SCHEME_BIP340
  /\ ws[2].flags = IPC_FLAGS_NONE

\* The crates' verdict on a signature.
LEMMA CratesVerdict ==
  ASSUME NEW message, NEW pubkey, NEW signature
  PROVE  verify_bip340_message32(message, pubkey, signature) = "ok"
           <=> Signed(message, pubkey, signature)
BY DEF verify_bip340_message32, Signed

\* The child's verdict on the words of an envelope.
LEMMA ChildDecides ==
  ASSUME NEW ws, Len(ws) = IPC_WORD_COUNT
  PROVE  decide_words(ws) = IF ~Headed(ws) THEN EXIT_REJECT_ENVELOPE
                            ELSE IF Signed(ws[3], ws[4], ws[5]) THEN EXIT_ACCEPT
                            ELSE EXIT_REJECT_CRYPTO
<1> DEFINE blob == Blob(ws)
<1>1. blob.words = ws /\ blob.tail = 0
  BY DEF Blob
<1>2. decide_words(ws) = decide(blob)
  BY DEF decide_words
<1> HIDE DEF blob
<1>3. parse_ipc_request(blob) = "ok" <=> Headed(ws)
  BY <1>1 DEF parse_ipc_request, Headed
<1>4. Headed(ws) => (verify_ipc_blob(blob) = "ok" <=> Signed(ws[3], ws[4], ws[5]))
  BY <1>1, <1>3, CratesVerdict DEF verify_ipc_blob
<1> QED
  BY <1>2, <1>3, <1>4 DEF decide

\* The shell report and the host command line give the child's verdict.
LEMMA AllDecideAlike ==
  ASSUME NEW case, Framed(case.ipc_blob), NEW code,
         code = decide_words(case.ipc_blob.words)
  PROVE  /\ decision(case).exit_code = code
         /\ decision(case).matched_expected <=> (code = EXIT_ACCEPT <=> case.expected = "accept")
         /\ verify_ipc_command(case.ipc_blob) <=> code = EXIT_ACCEPT
         /\ verify_ipc_case(case) <=> code = EXIT_ACCEPT
<1> DEFINE blob == case.ipc_blob
           ws == blob.words
<1>1. CASE Len(ws) # IPC_WORD_COUNT
  <2>1. code = EXIT_REJECT_SPAWN_IO
    BY <1>1 DEF decide_words
  <2>2. parse_ipc_request(blob) = "BlobLength"
    BY <1>1 DEF parse_ipc_request
  <2>3. verify_ipc_blob(blob) # "ok"
    BY <2>2 DEF verify_ipc_blob
  <2>4. /\ decision(case).exit_code = 11
        /\ decision(case).matched_expected <=> ~(case.expected = "accept")
    BY <1>1 DEF decision
  <2> QED
    BY <2>1, <2>3, <2>4 DEF verify_ipc_command, verify_ipc_case, EXIT_REJECT_SPAWN_IO, EXIT_ACCEPT
<1>2. CASE Len(ws) = IPC_WORD_COUNT
  <2>1. blob.tail = 0
    BY <1>2 DEF Framed
  <2>2. code = IF ~Headed(ws) THEN 10 ELSE IF Signed(ws[3], ws[4], ws[5]) THEN 0 ELSE 12
    BY <1>2, ChildDecides DEF EXIT_REJECT_ENVELOPE, EXIT_ACCEPT, EXIT_REJECT_CRYPTO
  <2>3. (parse(blob) = "ok" <=> Headed(ws)) /\ (parse_ipc_request(blob) = "ok" <=> Headed(ws))
    BY <1>2, <2>1 DEF parse, parse_ipc_request, Headed, IPC_VERSION, IPC_SCHEME_BIP340,
                      IPC_FLAGS_NONE
  <2>4. shell_verify(blob) <=> Signed(ws[3], ws[4], ws[5])
    BY DEF shell_verify, Signed
  <2>5. verify_ipc_blob(blob) = "ok" <=> Headed(ws) /\ Signed(ws[3], ws[4], ws[5])
    BY <2>3, CratesVerdict DEF verify_ipc_blob
  <2>6. /\ decision(case).exit_code =
             IF ~Headed(ws) THEN 10 ELSE IF Signed(ws[3], ws[4], ws[5]) THEN 0 ELSE 12
        /\ decision(case).matched_expected
             <=> ((Headed(ws) /\ Signed(ws[3], ws[4], ws[5])) <=> case.expected = "accept")
    BY <1>2, <2>1, <2>3, <2>4 DEF decision
  <2> QED
    BY <2>2, <2>5, <2>6 DEF verify_ipc_command, verify_ipc_case, EXIT_ACCEPT
<1> QED
  BY <1>1, <1>2

\* The digest vectors: a positive one is signed, a negative one has one thing
\* wrong with it.
LEMMA DigestVectors ==
  ASSUME NEW case \in btc_vectors
  PROVE  /\ Signed(case.message32, case.xonly_pubkey, case.signature64)
              <=> case.expected = "accept"
         /\ case.expected \in {"accept", "reject"}
<1>1. PICK fixture : \/ \E i \in SignerIndices : case = positive(fixture, i)
                     \/ case \in negatives(fixture)
  BY DEF btc_vectors
<1> DEFINE first == positive(fixture, "0")
           key == derived_key(fixture, "0")
           hash == signed_intent_hash(fixture)
<1>2. ASSUME NEW i \in SignerIndices
      PROVE  LET c == positive(fixture, i) IN
             /\ Signed(c.message32, c.xonly_pubkey, c.signature64) /\ c.expected = "accept"
  BY DEF positive, derived_key, SignerIndices, Signed, Lifts, Encodes, Verifies, Sign
<1>3. CASE case \in negatives(fixture)
  <2>1. /\ first.message32 = hash /\ first.xonly_pubkey = key
        /\ first.signature64 = Sign(key, hash)
        /\ DOMAIN first = {"id", "message32", "xonly_pubkey", "signature64", "expected"}
    BY DEF positive
  <2>2. /\ hash.flipped = FALSE /\ key.signer = "0"
        /\ DOMAIN hash = {"of", "flipped"}
        /\ derived_key(fixture, "wrong-pubkey").signer = "wrong-pubkey"
    BY DEF signed_intent_hash, derived_key
  <2>3. /\ \A m, k : /\ Sign(k, m).by = k /\ Sign(k, m).over = m /\ Sign(k, m).form = "intact"
                     /\ DOMAIN Sign(k, m) = {"by", "over", "form"}
    BY DEF Sign
  <2> HIDE DEF first, key, hash
  <2>4. PICK mutation, c :
          /\ case = [c EXCEPT !.id = <<fixture, "negative", mutation>>, !.expected = "reject"]
          /\ \/ c = [first EXCEPT !.message32.flipped = TRUE]
             \/ c = [first EXCEPT !.xonly_pubkey = derived_key(fixture, "wrong-pubkey")]
             \/ c = [first EXCEPT !.signature64.form = "flipped"]
             \/ c = [first EXCEPT !.signature64.form = "unencodable"]
    BY <1>3 DEF negatives, first
  <2>5. /\ DOMAIN c = DOMAIN first /\ case.expected = "reject"
        /\ case.message32 = c.message32 /\ case.xonly_pubkey = c.xonly_pubkey
        /\ case.signature64 = c.signature64
    BY <2>1, <2>4
  <2>6. CASE c = [first EXCEPT !.message32.flipped = TRUE]
    <3>1. c.message32.flipped = TRUE /\ c.signature64.over.flipped = FALSE
      BY <2>1, <2>2, <2>3, <2>6
    <3>2. c.signature64.over # c.message32
      BY <3>1
    <3> QED
      BY <2>3, <2>5, <3>2 DEF Signed, Verifies
  <2>7. CASE c = [first EXCEPT !.xonly_pubkey = derived_key(fixture, "wrong-pubkey")]
    <3>1. c.xonly_pubkey.signer = "wrong-pubkey" /\ c.signature64.by.signer = "0"
      BY <2>1, <2>2, <2>3, <2>7
    <3>2. c.signature64.by # c.xonly_pubkey
      BY <3>1
    <3> QED
      BY <2>3, <2>5, <3>2 DEF Signed, Verifies
  <2>8. CASE \/ c = [first EXCEPT !.signature64.form = "flipped"]
             \/ c = [first EXCEPT !.signature64.form = "unencodable"]
    <3>1. c.signature64.form # "intact"
      BY <2>1, <2>3, <2>8
    <3> QED
      BY <2>3, <2>5, <3>1 DEF Signed, Verifies
  <2> QED
    BY <2>4, <2>5, <2>6, <2>7, <2>8
<1> QED
  BY <1>1, <1>2, <1>3

\* The words of a vector.
Fits(case) ==
  /\ Framed(case.ipc_blob) /\ IsSequence(case.ipc_blob.words)
  /\ decide_words(case.ipc_blob.words) = EXIT_ACCEPT <=> case.expected = "accept"

\* The words of an envelope, as the generator lays them out.
Envelope(m, k, s) == <<Magic, IpcHeader, m, k, s>>

\* What stands where in it.
LEMMA EnvelopeWords ==
  ASSUME NEW m, NEW k, NEW s, NEW T, {Magic, IpcHeader, m, k, s} \subseteq T
  PROVE  /\ Envelope(m, k, s) \in Seq(T) /\ IsSequence(Envelope(m, k, s))
         /\ Len(Envelope(m, k, s)) = IPC_WORD_COUNT
         /\ Envelope(m, k, s)[1] = Magic /\ Envelope(m, k, s)[2] = IpcHeader
         /\ Envelope(m, k, s)[3] = m /\ Envelope(m, k, s)[4] = k /\ Envelope(m, k, s)[5] = s
<1> DEFINE ws == <<Magic, IpcHeader, m, k, s>>
<1>1. /\ ws \in Seq(T) /\ Len(ws) = 5
      /\ ws[1] = Magic /\ ws[2] = IpcHeader /\ ws[3] = m /\ ws[4] = k /\ ws[5] = s
  OBVIOUS
<1> HIDE DEF ws
<1>2. IsSequence(ws)
  BY <1>1, TupleIsSequence DEF Tuple
<1> QED
  BY <1>1, <1>2 DEF Envelope, ws, IPC_WORD_COUNT

\* The header that the generator writes.
LEMMA GeneratedHeader ==
  /\ DOMAIN IpcHeader = {"version", "scheme", "flags"}
  /\ IpcHeader.version = IPC_VERSION /\ IpcHeader.scheme = IPC_SCHEME_BIP340
  /\ IpcHeader.flags = IPC_FLAGS_NONE
BY DEF IpcHeader

\* A digest vector in its envelope.
LEMMA EnvelopeVectors ==
  ASSUME NEW case \in btc_vectors
  PROVE  Fits(vector(case))
<1> DEFINE m == case.message32
           k == case.xonly_pubkey
           s == case.signature64
           T == {Magic, IpcHeader, m, k, s}
           ws == Envelope(m, k, s)
<1>1. /\ vector(case).ipc_blob.words = ws /\ vector(case).ipc_blob.tail = 0
      /\ vector(case).expected = case.expected
  BY DEF vector, build_blob, Blob, Envelope
<1>2. Signed(m, k, s) <=> case.expected = "accept"
  BY DigestVectors
<1> HIDE DEF m, k, s
<1>3. /\ ws \in Seq(T) /\ IsSequence(ws) /\ Len(ws) = IPC_WORD_COUNT
      /\ ws[1] = Magic /\ ws[2] = IpcHeader /\ ws[3] = m /\ ws[4] = k /\ ws[5] = s
  <2>1. {Magic, IpcHeader, m, k, s} \subseteq T
    OBVIOUS
  <2> HIDE DEF T
  <2> QED
    BY <2>1, EnvelopeWords
<1> HIDE DEF ws
<1>4. Headed(ws)
  BY <1>3, GeneratedHeader DEF Headed
<1>5. decide_words(ws) = EXIT_ACCEPT <=> Signed(m, k, s)
  BY <1>3, <1>4, ChildDecides DEF EXIT_ACCEPT, EXIT_REJECT_CRYPTO
<1> QED
  BY <1>1, <1>2, <1>3, <1>5 DEF Fits, Framed

\* A damaged envelope.
LEMMA DamagedVectors ==
  ASSUME NEW case \in malformed(build_blob(positive(Fixtures[1], "0")))
  PROVE  Fits(case)
<1> DEFINE m == positive(Fixtures[1], "0").message32
           k == positive(Fixtures[1], "0").xonly_pubkey
           s == positive(Fixtures[1], "0").signature64
           T == {Magic, IpcHeader, m, k, s, "NSBVTW00"}
           ws == Envelope(m, k, s)
           seed == build_blob(positive(Fixtures[1], "0"))
<1>1. seed = Blob(ws) /\ case \in malformed(seed)
  BY DEF build_blob, Envelope
<1> HIDE DEF m, k, s
<1>2. /\ ws \in Seq(T) /\ IsSequence(ws) /\ Len(ws) = IPC_WORD_COUNT
      /\ DOMAIN ws = 1..IPC_WORD_COUNT
      /\ ws[1] = Magic /\ ws[2] = IpcHeader /\ ws[3] = m /\ ws[4] = k /\ ws[5] = s
  <2>1. {Magic, IpcHeader, m, k, s} \subseteq T
    OBVIOUS
  <2> HIDE DEF T
  <2> QED
    BY <2>1, EnvelopeWords
<1>3. "NSBVTW00" \in T
  OBVIOUS
<1> HIDE DEF ws, seed, T
<1>4. DOMAIN seed = {"words", "tail"} /\ seed.words = ws /\ seed.tail = 0
  BY <1>1 DEF Blob
<1>5. /\ case.expected = "reject"
      /\ \/ case.ipc_blob = [seed EXCEPT !.words[1] = "wrong magic"]
         \/ case.ipc_blob = [seed EXCEPT !.words[2].version = 1]
         \/ case.ipc_blob = [seed EXCEPT !.words[2].scheme = 2]
         \/ case.ipc_blob = [seed EXCEPT !.words[2].flags = 1]
         \/ case.ipc_blob = [words |-> SubSeq(seed.words, 1, IPC_WORD_COUNT - 1), tail |-> 7]
         \/ case.ipc_blob = [seed EXCEPT !.words = Append(@, "NSBVTW00")]
  <2>1. PICK mutation, blob :
          /\ case = [id |-> <<Fixtures[1], "malformed", mutation>>, expected |-> "reject",
                     ipc_blob |-> blob]
          /\ \/ blob = [seed EXCEPT !.words[1] = "wrong magic"]
             \/ blob = [seed EXCEPT !.words[2].version = 1]
             \/ blob = [seed EXCEPT !.words[2].scheme = 2]
             \/ blob = [seed EXCEPT !.words[2].flags = 1]
             \/ blob = [words |-> SubSeq(seed.words, 1, IPC_WORD_COUNT - 1), tail |-> 7]
             \/ blob = [seed EXCEPT !.words = Append(@, "NSBVTW00")]
    BY <1>1, Zenon DEF malformed
  <2>2. case.expected = "reject" /\ case.ipc_blob = blob
    BY <2>1
  <2> QED
    BY <2>1, <2>2
<1>6. case.expected = "reject"
  BY <1>5
<1>7. ASSUME NEW n \in 1..2, NEW w, case.ipc_blob = [seed EXCEPT !.words[n] = w],
             \/ n = 1 /\ w # Magic
             \/ n = 2 /\ (w.version # IPC_VERSION \/ w.scheme # IPC_SCHEME_BIP340
                            \/ w.flags # IPC_FLAGS_NONE)
      PROVE  Fits(case)
  <2> DEFINE vs == [ws EXCEPT ![n] = w]
  <2>1. case.ipc_blob.words = vs /\ case.ipc_blob.tail = 0
    BY <1>4, <1>7
  <2> DEFINE U == T \cup {w}
  <2>2. vs \in Seq(U) /\ Len(vs) = IPC_WORD_COUNT /\ vs[n] = w
    <3>1. {Magic, IpcHeader, m, k, s} \subseteq U /\ w \in U
      BY DEF T
    <3> HIDE DEF U
    <3>2. ws \in Seq(U)
      BY <3>1, EnvelopeWords DEF ws
    <3>3. n \in 1..Len(ws)
      BY <1>2, <1>7 DEF IPC_WORD_COUNT
    <3>4. /\ vs \in Seq(U) /\ Len(vs) = Len(ws)
          /\ \A j \in 1..Len(ws) : vs[j] = IF j = n THEN w ELSE ws[j]
      BY <3>1, <3>2, <3>3, ExceptSeq
    <3> QED
      BY <1>2, <3>3, <3>4
  <2> HIDE DEF vs
  <2>3. IsSequence(vs)
    BY <2>2, TupleIsSequence DEF Tuple
  <2>4. ~Headed(vs)
    BY <1>7, <2>2 DEF Headed
  <2>5. decide_words(vs) # EXIT_ACCEPT
    BY <2>2, <2>4, ChildDecides DEF EXIT_ACCEPT, EXIT_REJECT_ENVELOPE
  <2>6. case.expected # "accept"
    BY <1>6
  <2>7. Framed(case.ipc_blob)
    BY <2>1 DEF Framed
  <2>8. IsSequence(case.ipc_blob.words) /\ decide_words(case.ipc_blob.words) # EXIT_ACCEPT
    BY <2>1, <2>3, <2>5
  <2> QED
    BY <2>6, <2>7, <2>8 DEF Fits
<1>8. CASE case.ipc_blob = [seed EXCEPT !.words[1] = "wrong magic"]
  <2>1. PICK w : case.ipc_blob = [seed EXCEPT !.words[1] = w] /\ w = "wrong magic"
    BY <1>8
  <2>2. w # Magic
    BY <2>1, EnvelopeAssumption
  <2>3. 1 \in 1..2
    OBVIOUS
  <2> QED
    BY <1>7, <2>1, <2>2, <2>3
<1>9. CASE \/ case.ipc_blob = [seed EXCEPT !.words[2].version = 1]
           \/ case.ipc_blob = [seed EXCEPT !.words[2].scheme = 2]
           \/ case.ipc_blob = [seed EXCEPT !.words[2].flags = 1]
  <2>1. PICK w : /\ case.ipc_blob = [seed EXCEPT !.words[2] = w]
                 /\ \/ w = [IpcHeader EXCEPT !.version = 1]
                    \/ w = [IpcHeader EXCEPT !.scheme = 2]
                    \/ w = [IpcHeader EXCEPT !.flags = 1]
    BY <1>2, <1>4, <1>9
  <2>2. \/ w.version # IPC_VERSION \/ w.scheme # IPC_SCHEME_BIP340
        \/ w.flags # IPC_FLAGS_NONE
    BY <2>1, GeneratedHeader DEF IPC_VERSION, IPC_SCHEME_BIP340, IPC_FLAGS_NONE
  <2> QED
    BY <1>7, <2>1, <2>2
<1>10. ASSUME case.ipc_blob.words \in Seq(T), Len(case.ipc_blob.words) # IPC_WORD_COUNT
      PROVE  Fits(case)
  <2> DEFINE vs == case.ipc_blob.words
  <2>1. IsSequence(vs)
    <3> HIDE DEF vs
    <3>1. vs \in Seq(T)
      BY <1>10 DEF vs
    <3> QED
      BY <3>1, TupleIsSequence DEF Tuple
  <2>2. decide_words(vs) # EXIT_ACCEPT
    BY <1>10 DEF decide_words, EXIT_ACCEPT, EXIT_REJECT_SPAWN_IO
  <2> QED
    BY <1>10, <1>6, <2>1, <2>2 DEF Fits, Framed
<1>11. CASE case.ipc_blob = [words |-> SubSeq(seed.words, 1, IPC_WORD_COUNT - 1), tail |-> 7]
  <2>1. case.ipc_blob.words = SubSeq(ws, 1, 4)
    BY <1>4, <1>11 DEF IPC_WORD_COUNT
  <2>2. SubSeq(ws, 1, 4) \in Seq(T) /\ Len(SubSeq(ws, 1, 4)) = 4
    <3>1. \A i \in 1..4 : ws[i] \in T
      BY <1>2 DEF IPC_WORD_COUNT
    <3>2. /\ SubSeq(ws, 1, 4) \in Seq(T)
          /\ Len(SubSeq(ws, 1, 4)) = IF 1 <= 4 THEN 4 - 1 + 1 ELSE 0
      BY <3>1, SubSeqProperties
    <3> QED
      BY <3>2
  <2> QED
    BY <1>10, <2>1, <2>2 DEF IPC_WORD_COUNT
<1>12. CASE case.ipc_blob = [seed EXCEPT !.words = Append(@, "NSBVTW00")]
  <2>1. case.ipc_blob.words = Append(ws, "NSBVTW00")
    BY <1>4, <1>12
  <2>2. Append(ws, "NSBVTW00") \in Seq(T) /\ Len(Append(ws, "NSBVTW00")) = IPC_WORD_COUNT + 1
    BY <1>2, <1>3, AppendProperties
  <2> QED
    BY <1>10, <2>1, <2>2 DEF IPC_WORD_COUNT
<1> QED
  BY <1>5, <1>8, <1>9, <1>11, <1>12

\* Every vector of the envelope generator.
LEMMA GeneratedVectors ==
  ASSUME NEW case \in ipc_vectors
  PROVE  Fits(case)
BY EnvelopeVectors, DamagedVectors DEF ipc_vectors
-----------------------------------------------------------------------------
(***************************************************************************)
(* The tools' summaries, and a stream of whole words.                      *)
(***************************************************************************)

\* The child harness gives the child's verdict.
LEMMA HarnessDecides ==
  ASSUME NEW case, IsSequence(case.ipc_blob.words)
  PROVE  harness_exit_code(case) = decide_words(case.ipc_blob.words)
<1>1. Len(case.ipc_blob.words) \in Nat
  BY Streams DEF IsSequence
<1> QED
  BY <1>1, ChildEmulated DEF harness_exit_code, words_from_blob

\* No vector surprises any tool.
LEMMA SummariesPass ==
  /\ btc_vectors_passed /\ verify_vectors_command
  /\ verify_ipc_vectors_command /\ all_expected_matched /\ mismatched = 0
<1>1. btc_vectors_passed
  BY DigestVectors DEF btc_vectors_passed, self_verified, Signed
<1>2. verify_vectors_command
  BY DigestVectors, CratesVerdict DEF verify_vectors_command, verify_case
<1>3. ASSUME NEW case \in ipc_vectors
      PROVE  /\ decision(case).matched_expected
             /\ verify_ipc_case(case) <=> case.expected = "accept"
             /\ matched_expected(case)
  <2> DEFINE code == decide_words(case.ipc_blob.words)
  <2>1. /\ Framed(case.ipc_blob) /\ IsSequence(case.ipc_blob.words)
        /\ code = EXIT_ACCEPT <=> case.expected = "accept"
    BY GeneratedVectors DEF Fits
  <2>2. harness_exit_code(case) = code
    BY <2>1, HarnessDecides
  <2>3. /\ decision(case).matched_expected <=> (code = EXIT_ACCEPT <=> case.expected = "accept")
        /\ verify_ipc_case(case) <=> code = EXIT_ACCEPT
    BY <2>1, AllDecideAlike
  <2> HIDE DEF code
  <2> QED
    BY <2>1, <2>2, <2>3 DEF matched_expected
<1>4. mismatched = 0
  <2>1. {case \in ipc_vectors : ~matched_expected(case)} = {}
    BY <1>3
  <2> QED
    BY <2>1, FS_EmptySet DEF mismatched
<1> QED
  BY <1>1, <1>2, <1>3, <1>4 DEF verify_ipc_vectors_command, all_expected_matched, verify_ipc_case

\* Four programs and a list of expectations agree on what a child that has
\* read any stream of whole words must exit with, and so does the child.
THEOREM Verdicts == Spec => []VerdictsAgree
<1>1. IInv => VerdictsAgree
  <2> SUFFICES ASSUME IInv, child = "exited", ~faulted, Short \notin ToSet(Stream),
                      NEW case \in ipc_vectors \cup Cases(Blob(Stream)),
                      words_from_blob(case.ipc_blob) = Stream
               PROVE  /\ exit = decision(case).exit_code
                      /\ exit = harness_exit_code(case)
                      /\ (exit = EXIT_ACCEPT) = verify_ipc_command(case.ipc_blob)
                      /\ case \in ipc_vectors
                           => (exit = EXIT_ACCEPT) = (case.expected = "accept")
    BY SummariesPass DEF VerdictsAgree
  <2>1. case.ipc_blob.words = Stream
    BY DEF words_from_blob
  <2>2. IsSequence(Stream) /\ Len(Stream) \in Nat /\ WholeWords(Stream)
    <3>1. script \in Scripts /\ round \in 1..Len(script)
      BY DEF IInv, TypeOK
    <3>2. IsSequence(Stream) /\ Len(Stream) \in Nat
      BY <3>1, Streams DEF Stream
    <3>3. DOMAIN Stream = 1..Len(Stream)
      BY <3>2 DEF IsSequence
    <3> QED
      BY <3>2, <3>3 DEF WholeWords, ToSet
  <2>3. exit = decide_words(Stream)
    <3>1. exit = Verdict(Stream)
      BY ChildVerdict DEF VerdictOfStream
    <3> QED
      BY <2>2, <3>1, WholeVerdict
  <2>4. Framed(case.ipc_blob) /\ (case \in ipc_vectors
                                   => (exit = EXIT_ACCEPT <=> case.expected = "accept"))
    <3>1. CASE case \in ipc_vectors
      BY <2>1, <2>3, <3>1, GeneratedVectors DEF Fits
    <3>2. CASE case \in Cases(Blob(Stream)) /\ case \notin ipc_vectors
      <4>1. case.ipc_blob = Blob(Stream)
        BY <3>2 DEF Cases
      <4>2. Blob(Stream).tail = 0
        BY DEF Blob
      <4> QED
        BY <3>2, <4>1, <4>2 DEF Framed
    <3> QED
      BY <3>1, <3>2
  <2>5. exit = harness_exit_code(case)
    BY <2>1, <2>2, <2>3, HarnessDecides
  <2>6. /\ exit = decision(case).exit_code
        /\ verify_ipc_command(case.ipc_blob) <=> exit = EXIT_ACCEPT
    BY <2>1, <2>3, <2>4, AllDecideAlike
  <2> QED
    BY <2>4, <2>5, <2>6 DEF verify_ipc_command
<1> QED
  BY <1>1, SpecInv, PTL
==============================================================================
