---------------------------- MODULE LogRefinement ----------------------------
(***************************************************************************)
(* The persistent invocation log implements LogPromise. The file is mapped *)
(* to what it means; the versions that a crash may leave are the meanings  *)
(* of the prefixes of what the stream holds back. They are kept in a       *)
(* history variable, a function of the other variables.                    *)
(***************************************************************************)
EXTENDS InvocationLog, SequencesExt

CONSTANT AtomicRecompaction  \* what is asked of recompaction, see LogPromise

VARIABLE history

\* What a file means: the commands its entries stand for, and its directories.
Value(file) ==
  LET r == Parse(file, Paths) IN
  [entries |-> [h \in Hashes |->
     IF r.entries[h] = NoEntry THEN NoEntry ELSE Resolve(r, r.entries[h])],
   dirs |-> r.dirs]

\* The meanings a crash may leave on disk, oldest first.
Meanings(file, stream) ==
  LET push(vs, i) == LET v == Value(file \o SubSeq(stream, 1, i))
                     IN  IF v = Last(vs) THEN vs ELSE Append(vs, v)
  IN  FoldLeft(push, <<Value(file)>>, [i \in 1..Len(stream) |-> i])

HistoryInit == Init /\ history = <<Value(disk)>>

\* Until it is renamed, what recompaction writes is not at the log's path.
HistoryNext ==
  /\ Next
  /\ history' = Meanings(disk', IF phase' = "written" THEN <<>> ELSE log'.stream)

HistorySpec == HistoryInit /\ [][HistoryNext]_<<vars, history>>

Promise == INSTANCE LogPromise WITH versions <- history

\* The log implements LogPromise: whatever order the calls, crashes, truncations
\* and recompactions come in, the next process reads a version of the log that
\* the calls of the earlier ones made, and after a clean exit the last one
\* (the whole of persistent_invocation_log.cpp).
KeepsItsPromise == Promise!Spec

=============================================================================
