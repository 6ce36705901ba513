---------------------------- MODULE InvocationLog ----------------------------
(***************************************************************************)
(* The persistent invocation log (log/persistent_invocation_log.cpp) over  *)
(* the life of several shk processes: records appended through a stdio     *)
(* stream that may never reach the disk, the parser that reads them back   *)
(* and truncates what it cannot read, and the recompaction that rewrites   *)
(* the file.                                                               *)
(*                                                                         *)
(* A file is its sequence of records; `torn' says that a part of one more  *)
(* record follows. Only the process crashes: what the stream has handed to *)
(* the operating system stays. The stream may hand over its buffer at any  *)
(* byte, so a crash keeps any prefix of the records and may tear the next. *)
(***************************************************************************)
EXTENDS Integers, Sequences, FiniteSets, Functions

CONSTANTS
  Hashes, Paths, Commands, Directory, NoEntry,   \* see LogPromise
  Directories,              \* paths at which builds create directories
  MinCompactionEntryCount,  \* kMinCompactionEntryCount
  CompactionRatio,          \* kCompactionRatio
  MaxRecords                \* bound on the records of a file

VARIABLES
  disk,         \* the records of the file at the log's path
  torn,         \* a part of another record follows them
  phase,        \* how far the shk process is, "off" between two of them
  tool,         \* the process runs a tool (shk -t)
  invocations,  \* what it read: Invocations
  log           \* its PersistentInvocationLog, or the ParseData to make one of

vars == <<disk, torn, phase, tool, invocations, log>>

Phases == {"off", "read", "recompact", "clean", "written", "renamed", "open", "leaked"}

\* The fingerprints of what commands read and write, by path.
Fingerprint == UNION {{f.fp : f \in Range(c.outs \o c.ins)} : c \in Commands}
LoggedFile == [path : Paths, fp : Fingerprint]

ASSUME LogAssumption ==
  /\ Directories \subseteq Paths
  /\ MinCompactionEntryCount \in Nat
  /\ CompactionRatio \in Nat
  /\ MaxRecords \in Nat
  /\ \A c \in Commands : c.outs \in Seq(LoggedFile) /\ c.ins \in Seq(LoggedFile)

-----------------------------------------------------------------------------
\* Records. A record refers to paths and to fingerprints by their number.

Signature == [type |-> "signature"]
PathEntry(p) == [type |-> "path", path |-> p]
DirectoryEntry(id) == [type |-> "created_dir", id |-> id]
FingerprintEntry(id, fp) == [type |-> "fingerprint", id |-> id, fp |-> fp]
InvocationEntry(h, outs, ins, deps) ==
  [type |-> "invocation", hash |-> h, outs |-> outs, ins |-> ins, deps |-> deps]
DeletedDirectory(id) == [type |-> "deleted_dir", id |-> id]
DeletedInvocation(h) == [type |-> "deleted_invocation", hash |-> h]

\* kInvalidEntry, and the id of a path that has none.
NoId == -1

NoFingerprint == [id |-> NoId, fp |-> NoEntry]

-----------------------------------------------------------------------------
\* Reading.

\* InvocationLogParseResult, with the paths_by_id of the parser.
NothingRead ==
  [pathsById |-> <<>>, fingerprints |-> <<>>,
   pathIds |-> [p \in Paths |-> NoId],
   fingerprintIds |-> [p \in Paths |-> NoFingerprint],
   entries |-> [h \in Hashes |-> NoEntry], dirs |-> {},
   entryCount |-> 0, failed |-> FALSE]

Fail(r) == [r EXCEPT !.failed = TRUE]

\* readPath and readIndices: ids must be of earlier records.
IsPathRef(r, id) == id \in 0..(Len(r.pathsById) - 1)
AreFingerprintRefs(r, ids) == \A i \in DOMAIN ids : ids[i] < Len(r.fingerprints)

PathOf(r, id) == r.pathsById[id + 1]

parsePath(r, e) ==
  [r EXCEPT !.pathIds[e.path] = Len(r.pathsById), !.pathsById = Append(@, e.path)]

\* A directory counts only if lstat finds it while the log is read: `present'.
parseCreatedDir(r, e, present) ==
  IF ~IsPathRef(r, e.id) THEN Fail(r)
  ELSE [r EXCEPT !.dirs = @ \cup ({PathOf(r, e.id)} \cap present)]

parseFingerprint(r, e) ==
  IF ~IsPathRef(r, e.id) THEN Fail(r)
  ELSE LET p == PathOf(r, e.id) IN
    [r EXCEPT !.fingerprintIds[p] = [id |-> Len(r.fingerprints), fp |-> e.fp],
              !.fingerprints = Append(@, [path |-> p, fp |-> e.fp])]

parseInvocation(r, e) ==
  IF ~AreFingerprintRefs(r, e.outs \o e.ins) THEN Fail(r)
  ELSE [r EXCEPT !.entries[e.hash] = [outs |-> e.outs, ins |-> e.ins, deps |-> e.deps]]

parseDeleted(r, e, present) ==
  IF e.type = "deleted_invocation" THEN [r EXCEPT !.entries[e.hash] = NoEntry]
  ELSE IF ~IsPathRef(r, e.id) THEN Fail(r)
  ELSE [r EXCEPT !.dirs = @ \ ({PathOf(r, e.id)} \cap present)]

parseEntry(r, e, present) ==
  CASE e.type = "path" -> parsePath(r, e)
    [] e.type = "created_dir" -> parseCreatedDir(r, e, present)
    [] e.type = "fingerprint" -> parseFingerprint(r, e)
    [] e.type = "invocation" -> parseInvocation(r, e)
    [] e.type \in {"deleted_dir", "deleted_invocation"} -> parseDeleted(r, e, present)

\* One turn of the loop of parsePersistentInvocationLog, which stops at the first
\* record that it cannot read.
Read(present, r, e) ==
  IF r.failed THEN r
  ELSE LET next == parseEntry(r, e, present)
       IN  IF next.failed THEN next ELSE [next EXCEPT !.entryCount = @ + 1]

Reading == INSTANCE ListFolds WITH Step <- Read

\* A file without a whole signature reads as no file.
Parse(file, present) ==
  IF file = <<>> THEN NothingRead ELSE Reading!Folded(present, NothingRead, Tail(file))

Known(r) == {h \in Hashes : r.entries[h] # NoEntry}

\* Invocations::countUsedFingerprints
countUsedFingerprints(r) ==
  Cardinality(UNION {Range(r.entries[h].outs \o r.entries[h].ins) : h \in Known(r)})

uniqueRecordCount(r) ==
  Cardinality(Known(r)) + Cardinality(r.dirs)
    + Cardinality({p \in Paths : r.pathIds[p] # NoId}) + countUsedFingerprints(r)

needsRecompaction(r) ==
  /\ r.entryCount > MinCompactionEntryCount
  /\ r.entryCount > uniqueRecordCount(r) * CompactionRatio

-----------------------------------------------------------------------------
\* Writing: PersistentInvocationLog, with what its stream holds back.

\* The members a log takes over from the ParseData of a parse.
ParseData(r) ==
  [pathIds |-> r.pathIds, fingerprintIds |-> r.fingerprintIds,
   pathEntryCount |-> Len(r.pathsById), fingerprintEntryCount |-> Len(r.fingerprints),
   stream |-> <<>>]

Write(l, record) == [l EXCEPT !.stream = Append(@, record)]

\* The constructor: an empty file gets its signature.
NewLog(parseData, file) == IF file = <<>> THEN Write(parseData, Signature) ELSE parseData

\* Mutant: the id of a path is taken after the count has been increased.
IdAfterCounting(l, p) ==
  IF l.pathIds[p] # NoId THEN l
  ELSE [Write(l, PathEntry(p)) EXCEPT !.pathIds[p] = l.pathEntryCount + 1,
                                      !.pathEntryCount = @ + 1]

ensurePathIsWritten(l, p) ==
  IF l.pathIds[p] # NoId THEN l
  ELSE [Write(l, PathEntry(p)) EXCEPT !.pathIds[p] = l.pathEntryCount,
                                      !.pathEntryCount = @ + 1]

writeFingerprintEntry(l, f) ==
  [Write(l, FingerprintEntry(l.pathIds[f.path], f.fp)) EXCEPT
     !.fingerprintEntryCount = @ + 1,
     !.fingerprintIds[f.path] = [id |-> l.fingerprintEntryCount, fp |-> f.fp]]

writeDirectoryEntry(l, p) == Write(l, DirectoryEntry(l.pathIds[p]))

\* The log after the call and the id it returns. `asDirectory' is
\* WriteType::DIRECTORY_AS_DIRECTORY_ENTRY.
writeFingerprintOrDirectoryEntry(l, f, asDirectory) ==
  IF f.fp = Directory
    THEN [log |-> IF asDirectory THEN writeDirectoryEntry(l, f.path) ELSE l, id |-> NoId]
    ELSE [log |-> writeFingerprintEntry(l, f), id |-> l.fingerprintEntryCount]

\* Mutant: the path alone decides whether its last fingerprint is used again.
PathIsEnough(l, f, asDirectory) ==
  LET written == ensurePathIsWritten(l, f.path)
      old == written.fingerprintIds[f.path]
  IN  IF old.id # NoId
        THEN [log |-> written, id |-> old.id]
        ELSE writeFingerprintOrDirectoryEntry(written, f, asDirectory)

ensureRecentFingerprintIsWritten(l, f, asDirectory) ==
  LET written == ensurePathIsWritten(l, f.path)
      old == written.fingerprintIds[f.path]
  IN  IF old.id # NoId /\ old.fp = f.fp
        THEN [log |-> written, id |-> old.id]
        ELSE writeFingerprintOrDirectoryEntry(written, f, asDirectory)

\* writeOutputPathsAndFingerprints and writeInputPathsAndFingerprints: the log
\* and the ids, directories left out of them.
WriteFile(asDirectory, acc, f) ==
  LET one == ensureRecentFingerprintIsWritten(acc.log, f, asDirectory)
  IN  [log |-> one.log,
       ids |-> IF one.id = NoId THEN acc.ids ELSE Append(acc.ids, one.id)]

Writing == INSTANCE ListFolds WITH Step <- WriteFile

WriteFiles(l, files, asDirectory) ==
  Writing!Folded(asDirectory, [log |-> l, ids |-> <<>>], files)

ranCommand(l, h, c) ==
  LET outs == WriteFiles(l, c.outs, TRUE)
      ins == WriteFiles(outs.log, c.ins, FALSE)
  IN  Write(ins.log, InvocationEntry(h, outs.ids, ins.ids, c.deps))

cleanedCommand(l, h) == Write(l, DeletedInvocation(h))

createdDirectory(l, p) == writeDirectoryEntry(ensurePathIsWritten(l, p), p)

removedDirectory(l, p) ==
  IF l.pathIds[p] = NoId THEN l ELSE Write(l, DeletedDirectory(l.pathIds[p]))

\* Mutant: leaking resets the counts of written entries with the maps.
LeaksTheCounts(l) ==
  [l EXCEPT !.pathIds = [p \in Paths |-> NoId],
            !.fingerprintIds = [p \in Paths |-> NoFingerprint],
            !.pathEntryCount = 0, !.fingerprintEntryCount = 0]

\* leakMemory moves the maps away; the counts stay.
leakMemory(l) ==
  [l EXCEPT !.pathIds = [p \in Paths |-> NoId],
            !.fingerprintIds = [p \in Paths |-> NoFingerprint]]

\* relogCommand: the command an entry stands for, from the fingerprints it
\* refers to.
Resolve(r, e) ==
  [outs |-> [i \in DOMAIN e.outs |-> r.fingerprints[e.outs[i] + 1]],
   ins |-> [i \in DOMAIN e.ins |-> r.fingerprints[e.ins[i] + 1]],
   deps |-> e.deps]

relogDirectory(r, l, p) == createdDirectory(l, p)
relogCommand(r, l, h) == ranCommand(l, h, Resolve(r, r.entries[h]))

RelogDirectories == INSTANCE ListFolds WITH Step <- relogDirectory
RelogCommands == INSTANCE ListFolds WITH Step <- relogCommand

\* The file recompactPersistentInvocationLog writes, for one order of the two
\* unordered maps it goes through.
Recompacted(r, dirs, hashes) ==
  RelogCommands!Folded(r,
    RelogDirectories!Folded(r, NewLog(ParseData(NothingRead), <<>>), dirs), hashes)

Orders(S) == UNION {Bijection(1..n, S) : n \in 0..Cardinality(S)}

-----------------------------------------------------------------------------
\* The life of shk processes, one at a time.

Init ==
  /\ disk = <<>> /\ torn = FALSE
  /\ phase = "off" /\ tool = FALSE
  /\ invocations = NothingRead /\ log = ParseData(NothingRead)

\* What is left of a file once it has been parsed.
Readable(file, r) ==
  IF r.failed THEN SubSeq(file, 1, 1 + r.entryCount) ELSE file

\* ShurikenMain::readInvocationLog up to the recompaction, and the choice of the
\* tool that follows it.
ReadInvocationLog ==
  /\ phase = "off"
  /\ \E present \in SUBSET Directories, next \in {"build", "recompact", "clean", "other"} :
       LET r == Parse(disk, present) IN
       /\ invocations' = r /\ log' = ParseData(r)
       /\ disk' = Readable(disk, r) /\ torn' = FALSE
       /\ tool' = (next # "build")
       /\ phase' = CASE next = "build" -> IF needsRecompaction(r) THEN "recompact" ELSE "read"
                     [] next = "other" -> "read"
                     [] next \in {"recompact", "clean"} -> next

\* Recompaction writes all of the new log into a temporary file ...
RecompactWrite ==
  /\ phase = "recompact"
  /\ \E dirs \in Orders(invocations.dirs), hashes \in Orders(Known(invocations)) :
       log' = Recompacted(invocations, dirs, hashes)
  /\ phase' = "written"
  /\ UNCHANGED <<disk, torn, tool, invocations>>

\* ... renames it to the log's path, while the stream is still open ...
RecompactRename ==
  /\ phase = "written"
  /\ phase' = "renamed"
  /\ disk' = <<>> /\ torn' = FALSE
  /\ UNCHANGED <<tool, invocations, log>>

\* ... and closes the stream when `log' goes out of scope.
RecompactClose ==
  /\ phase = "renamed"
  /\ phase' = "read"
  /\ disk' = disk \o log.stream
  /\ log' = [log EXCEPT !.stream = <<>>]
  /\ UNCHANGED <<torn, tool, invocations>>

\* shk -t clean without targets.
ToolClean ==
  /\ phase = "clean"
  /\ phase' = "read"
  /\ disk' = <<>> /\ torn' = FALSE
  /\ UNCHANGED <<tool, invocations, log>>

OpenInvocationLog ==
  /\ phase = "read" /\ ~tool
  /\ phase' = "open"
  /\ log' = NewLog(log, disk)
  /\ UNCHANGED <<disk, torn, tool, invocations>>

Bounded(l) == Len(disk) + Len(l.stream) <= MaxRecords

Do(l) ==
  /\ log' = l
  /\ Bounded(l)
  /\ UNCHANGED <<disk, torn, phase, tool, invocations>>

\* Steps may be logged after leakMemory too: the delayed log writes what it has
\* held back when it is destroyed.
RanCommand ==
  /\ phase \in {"open", "leaked"}
  /\ \E h \in Hashes, c \in Commands : Do(ranCommand(log, h, c))

CleanedCommand ==
  /\ phase \in {"open", "leaked"}
  /\ \E h \in Hashes : Do(cleanedCommand(log, h))

CreatedDirectory == phase = "open" /\ \E p \in Directories : Do(createdDirectory(log, p))

RemovedDirectory == phase = "open" /\ \E p \in Directories : Do(removedDirectory(log, p))

LeakMemory ==
  /\ phase = "open"
  /\ phase' = "leaked"
  /\ log' = leakMemory(log)
  /\ UNCHANGED <<disk, torn, tool, invocations>>

Forget == invocations' = NothingRead /\ log' = ParseData(NothingRead) /\ tool' = FALSE

\* The process ends. An open stream is closed, and so written.
Exit ==
  /\ phase \in {"read", "open", "leaked"}
  /\ phase' = "off"
  /\ disk' = disk \o log.stream
  /\ UNCHANGED torn
  /\ Forget

\* The process dies, or gives up because mkstemp, open or rename failed. Of a
\* stream to the log's path some records are on disk, and maybe a part of one.
Crash ==
  /\ phase # "off"
  /\ phase' = "off"
  /\ LET stream == IF phase \in {"open", "leaked", "renamed"} THEN log.stream ELSE <<>> IN
     \E n \in 0..Len(stream) :
       /\ disk' = disk \o SubSeq(stream, 1, n)
       /\ torn' \in {FALSE, n < Len(stream)}
  /\ Forget

Next ==
  \/ ReadInvocationLog
  \/ RecompactWrite \/ RecompactRename \/ RecompactClose
  \/ ToolClean
  \/ OpenInvocationLog
  \/ RanCommand \/ CleanedCommand \/ CreatedDirectory \/ RemovedDirectory
  \/ LeakMemory
  \/ Exit
  \/ Crash

Spec == Init /\ [][Next]_vars

-----------------------------------------------------------------------------
\* Properties.

\* The file the process's stream writes to, with all that it holds back.
Written == IF phase = "written" THEN log.stream ELSE disk \o log.stream

\* No whole record is ever refused: the references of what Shuriken wrote are
\* valid wherever a crash cuts the file, so the truncation of a log
\* (persistent_invocation_log.cpp:846) never removes more than a torn record.
WholeRecordsParse == ~Parse(Written, Paths).failed

\* The ids that a log has in memory are those the parser would give to the
\* records of the file it writes to, through crashes, recompactions, duplicated
\* path records after leakMemory, and files taken over from earlier processes
\* (_path_ids, _fingerprint_ids and the counts of PersistentInvocationLog).
IdsAreTheFiles ==
  phase \in {"open", "leaked"} =>
    LET r == Parse(Written, Paths) IN
    /\ log.pathEntryCount = Len(r.pathsById)
    /\ log.fingerprintEntryCount = Len(r.fingerprints)
    /\ \A p \in Paths :
         /\ log.pathIds[p] # NoId => PathOf(r, log.pathIds[p]) = p
         /\ log.fingerprintIds[p].id # NoId =>
              r.fingerprints[log.fingerprintIds[p].id + 1]
                = [path |-> p, fp |-> log.fingerprintIds[p].fp]

-----------------------------------------------------------------------------
(* What makes the properties inductive. *)

Deps == {c.deps : c \in Commands}
Entry == [outs : Seq(Nat), ins : Seq(Nat), deps : Deps]
Record ==
  [type : {"path"}, path : Paths]
    \cup [type : {"created_dir", "deleted_dir"}, id : Nat]
    \cup [type : {"fingerprint"}, id : Nat, fp : Fingerprint]
    \cup [type : {"invocation"}, hash : Hashes, outs : Seq(Nat), ins : Seq(Nat), deps : Deps]
    \cup [type : {"deleted_invocation"}, hash : Hashes]

\* A file that starts with the signature, if with anything.
IsLog(file) ==
  /\ file \in Seq(Record \cup {Signature})
  /\ file # <<>> => Head(file) = Signature /\ Tail(file) \in Seq(Record)

FingerprintId == [id : Int, fp : Fingerprint \cup {NoEntry}]

\* The ids in the maps of x are those of the records that r was read from.
IdsAgree(x, r) ==
  /\ \A p \in Paths : x.pathIds[p] # NoId =>
       IsPathRef(r, x.pathIds[p]) /\ PathOf(r, x.pathIds[p]) = p
  /\ \A p \in Paths : LET f == x.fingerprintIds[p] IN f.id # NoId =>
       /\ f.id \in 0..(Len(r.fingerprints) - 1)
       /\ r.fingerprints[f.id + 1] = [path |-> p, fp |-> f.fp]

\* What the parser returns: all that its maps and its entries refer to it has read.
IsRead(r) ==
  /\ r \in [pathsById : Seq(Paths), fingerprints : Seq(LoggedFile),
            pathIds : [Paths -> Int],
            fingerprintIds : [Paths -> FingerprintId],
            entries : [Hashes -> Entry \cup {NoEntry}], dirs : SUBSET Paths,
            entryCount : Nat, failed : BOOLEAN]
  /\ IdsAgree(r, r)
  /\ \A h \in Known(r) : AreFingerprintRefs(r, r.entries[h].outs \o r.entries[h].ins)

\* The log l is one that continues a file which was read as r.
Continues(l, r) ==
  /\ l \in [pathIds : [Paths -> Int],
            fingerprintIds : [Paths -> FingerprintId],
            pathEntryCount : Nat, fingerprintEntryCount : Nat,
            stream : Seq(Record \cup {Signature})]
  /\ ~r.failed
  /\ l.pathEntryCount = Len(r.pathsById) /\ l.fingerprintEntryCount = Len(r.fingerprints)
  /\ IdsAgree(l, r)

\* The log l writes to a file that holds the records of `file'.
WritesTo(l, file) ==
  /\ IsLog(file \o l.stream) /\ file \o l.stream # <<>>
  /\ Continues(l, Parse(file \o l.stream, Paths))

LogInv ==
  /\ phase \in Phases /\ tool \in BOOLEAN
  /\ IsLog(disk) /\ ~Parse(disk, Paths).failed
  /\ IsRead(invocations)
  /\ phase \in {"off", "read", "recompact", "clean"} => log.stream = <<>>
  /\ phase = "clean" => tool
  /\ phase \in {"read", "recompact"} /\ ~tool => Continues(log, Parse(disk, Paths))
  /\ phase \in {"written", "renamed"} => WritesTo(log, <<>>)
  /\ phase = "renamed" => disk = <<>>
  /\ phase \in {"open", "leaked"} => WritesTo(log, disk)
=============================================================================
