----------------------------- MODULE LogPromise -----------------------------
(***************************************************************************)
(* What the invocation log promises to the rest of Shuriken, without its   *)
(* file format: a map from step hashes to what the step's last successful  *)
(* run read and wrote, a set of directories Shuriken is responsible for,   *)
(* and the versions of the two that a crash may leave behind.              *)
(***************************************************************************)
EXTENDS Naturals, Sequences, SequencesExt

CONSTANTS
  Hashes,        \* hashes of build steps
  Paths,         \* paths of files and directories
  Commands,      \* what a run may report: [outs, ins, deps], files as [path, fp]
  Directory,     \* the fingerprint of a directory (Fingerprint::stat.isDir)
  NoEntry,       \* no invocation of a step is known
  AtomicRecompaction  \* whether a crash while recompacting loses nothing

VARIABLE
  versions       \* from what is certainly on disk to what all calls amount to

Nothing == [entries |-> [h \in Hashes |-> NoEntry], dirs |-> {}]

Current == Last(versions)

\* Versions that are equal to the one before them are not told apart.
Push(vs, v) == IF v = Last(vs) THEN vs ELSE Append(vs, v)

AddDirectory(vs, file) ==
  IF file.fp = Directory
    THEN Push(vs, [Last(vs) EXCEPT !.dirs = @ \cup {file.path}])
    ELSE vs

OnlyFiles(files) == SelectSeq(files, LAMBDA f : f.fp # Directory)

Invocation(c) ==
  [outs |-> OnlyFiles(c.outs), ins |-> OnlyFiles(c.ins), deps |-> c.deps]

\* A step ran. Its output directories become Shuriken's, one by one and before
\* the step itself is known to have run.
Ran(h, c) ==
  LET withDirs == FoldLeft(AddDirectory, versions, c.outs)
  IN  versions' = Push(withDirs, [Last(withDirs) EXCEPT !.entries[h] = Invocation(c)])

Cleaned(h) == versions' = Push(versions, [Current EXCEPT !.entries[h] = NoEntry])

Created(p) == versions' = Push(versions, [Current EXCEPT !.dirs = @ \cup {p}])

Removed(p) == versions' = Push(versions, [Current EXCEPT !.dirs = @ \ {p}])

\* The log is closed: everything is on disk.
Close == versions' = <<Current>>

\* The process dies: some version since the last close remains, none other.
Crash == \E i \in DOMAIN versions : versions' = <<versions[i]>>

\* `part' is a version from which entries and directories are missing.
IsPartOf(part, whole) ==
  /\ part.dirs \subseteq whole.dirs
  /\ \A h \in Hashes : part.entries[h] \in {NoEntry, whole.entries[h]}

\* The log is rewritten. Directories that were gone when it was read are
\* forgotten. Unless recompaction is atomic, the rewritten log reaches the disk
\* entry by entry, after the old one is gone.
Recompact ==
  \E present \in SUBSET Paths :
    LET kept == [Current EXCEPT !.dirs = @ \cap present] IN
    /\ versions' # <<>>
    /\ Last(versions') = kept
    /\ \A i \in DOMAIN versions' : IsPartOf(versions'[i], kept)
    /\ AtomicRecompaction => Len(versions') = 1

\* shk -t clean without targets removes the log.
CleanAll == versions' = <<Nothing>>

Init == versions = <<Nothing>>

Next ==
  \/ \E h \in Hashes : Cleaned(h) \/ \E c \in Commands : Ran(h, c)
  \/ \E p \in Paths : Created(p) \/ Removed(p)
  \/ Close
  \/ Crash
  \/ Recompact
  \/ CleanAll

Spec == Init /\ [][Next]_versions

=============================================================================
