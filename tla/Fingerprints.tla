---------------------------- MODULE Fingerprints ----------------------------
(***************************************************************************)
(* The fingerprint of one file through successive runs of shk: how it is   *)
(* taken, kept in memory by DelayedInvocationLog, written to the log, and  *)
(* matched against the file by a later run (src/src/shk/src/fs/            *)
(* fingerprint.cpp, src/src/shk/src/log/delayed_invocation_log.cpp and     *)
(* PersistentInvocationLog::fingerprint).                                  *)
(*                                                                         *)
(* Time stamps are whole seconds, as in Stat::mtime and Clock.  The file   *)
(* is an input or an output of one step: during a run of shk only that     *)
(* step's command may write it, before it is fingerprinted.  Between runs  *)
(* the user may do anything to it.  A hash is the mode and the content of  *)
(* the file: hashing is assumed to be free of collisions.                  *)
(***************************************************************************)
EXTENDS Integers, Sequences

CONSTANTS
  Mode, Content, Ino,   \* of files that exist
  Size,                 \* size of each content
  NoFingerprint,        \* the log has no fingerprint for the file
  Quiet                 \* no file is written in the rest of the second in which shk ends

Absent == "absent"      \* mode of a file that is not there (st_mode 0)

File == [mode : Mode \cup {Absent}, content : Content, ino : Ino, mtime : Nat]

\* Fingerprint::Stat::fromStat; all that is not known of an absent file is 0.
fromStat(f) ==
  IF f.mode = Absent THEN [size |-> 0, ino |-> 0, mode |-> Absent, mtime |-> 0]
  ELSE [size |-> Size[f.content], ino |-> f.ino, mode |-> f.mode, mtime |-> f.mtime]

\* detail::computeFingerprintHash
computeFingerprintHash(f) ==
  IF f.mode = Absent THEN <<>> ELSE <<f.mode, f.content>>

FStat == [size : Nat, ino : Ino \cup {0}, mode : Mode \cup {Absent}, mtime : Nat]
Fingerprint ==
  [stat : FStat, racily_clean : BOOLEAN, hash : {<<>>} \cup (Mode \X Content)]

ASSUME FingerprintsTyped ==
  /\ Absent \notin Mode
  /\ Size \in [Content -> Nat]
  /\ 0 \notin Ino
  /\ NoFingerprint \notin Fingerprint
  /\ Quiet \in BOOLEAN

VARIABLES
  now,        \* the clock
  file,       \* the file
  known,      \* the last fingerprint of the file in the log
  entry,      \* its fingerprint in the log entry of the step
  phase,      \* what shk is doing
  mine,       \* whether it is logging the step, and not another user of the file
  failed,     \* whether the command of the step failed in this run
  timestamp,  \* the time that takeFingerprint was called with
  taken,      \* the fingerprint that it returned
  delayed,    \* DelayedInvocationLog::_delayed_entries
  saved,      \* what <<known, entry>> may be on disk: the stream is buffered
  exit_time   \* when the last run of shk ended

vars == <<now, file, known, entry, phase, mine, failed, timestamp, taken, delayed, saved, exit_time>>

Phases == {"idle", "command", "fingerprint", "stat", "log", "running"}

isRacilyClean(stat, time) == stat.mtime >= time

(***************************************************************************)
(* fingerprintMatches, for the fingerprint fp and the file f.              *)
(***************************************************************************)
NeedsHash(fp, f) ==
  /\ ~(fromStat(f) = fp.stat /\ (~fp.racily_clean \/ fp.stat.mode = Absent))
  /\ fromStat(f).size = fp.stat.size
  /\ fromStat(f).mode = fp.stat.mode

fingerprintMatches(fp, f) ==
  IF NeedsHash(fp, f)
  THEN [clean |-> computeFingerprintHash(f) = fp.hash, should_update |-> TRUE]
  ELSE [clean |-> fromStat(f) = fp.stat, should_update |-> FALSE]

takeFingerprint(f, time) ==
  [stat |-> fromStat(f), racily_clean |-> isRacilyClean(fromStat(f), time),
   hash |-> computeFingerprintHash(f)]

\* The old hash is kept when the file need not be hashed.
retakeFingerprint(f, time, old) ==
  LET m == fingerprintMatches(old, f)
  IN  IF m.clean \/ m.should_update
      THEN [stat |-> fromStat(f), racily_clean |-> isRacilyClean(fromStat(f), time),
            hash |-> IF m.should_update THEN computeFingerprintHash(f) ELSE old.hash]
      ELSE takeFingerprint(f, time)

Init ==
  /\ now = 1
  /\ file \in [mode : Mode \cup {Absent}, content : Content, ino : Ino, mtime : {1}]
  /\ known = NoFingerprint /\ entry = NoFingerprint
  /\ phase = "idle" /\ mine = FALSE /\ failed = FALSE
  /\ timestamp = 0 /\ taken = NoFingerprint /\ delayed = <<>>
  /\ saved = {} /\ exit_time = 0

Tick ==
  /\ now' = now + 1
  /\ UNCHANGED <<file, known, entry, phase, mine, failed, timestamp, taken, delayed, saved, exit_time>>

\* The file is written or replaced, deleted, or has its mode changed (which leaves
\* its mtime alone).
IsQuiet == Quiet => now > exit_time

Change ==
  \/ /\ IsQuiet
     /\ \E m \in Mode, c \in Content, i \in Ino :
          file' = [mode |-> m, content |-> c, ino |-> i, mtime |-> now]
  \/ file' = [file EXCEPT !.mode = Absent]
  \/ file.mode # Absent /\ \E m \in Mode : file' = [file EXCEPT !.mode = m]

Edit ==
  /\ phase = "idle"
  /\ Change
  /\ UNCHANGED <<now, known, entry, phase, mine, failed, timestamp, taken, delayed, saved, exit_time>>

\* nonGeneratorStepIsClean for the step of the file.  Other files of the step may
\* make it dirty; when it is clean it is logged again if a file had to be hashed.
Check ==
  /\ phase = "idle"
  /\ LET m == fingerprintMatches(entry, file)
     IN  \/ phase' = "command"
         \/ entry # NoFingerprint /\ m.clean /\ m.should_update /\ phase' = "fingerprint"
         \/ entry # NoFingerprint /\ m.clean /\ ~m.should_update /\ phase' = "running"
  /\ mine' = TRUE
  /\ saved' = {<<known, entry>>}
  /\ UNCHANGED <<now, file, known, entry, failed, timestamp, taken, delayed, exit_time>>

\* The command runs; the file is its input or its output.
Command ==
  /\ phase = "command"
  /\ UNCHANGED file \/ Change
  /\ failed' \in BOOLEAN
  /\ phase' = "fingerprint"
  /\ UNCHANGED <<now, known, entry, mine, timestamp, taken, delayed, saved, exit_time>>

\* PersistentInvocationLog::fingerprint asks the clock first.
AskClock ==
  /\ phase = "fingerprint"
  /\ timestamp' = now
  /\ phase' = "stat"
  /\ UNCHANGED <<now, file, known, entry, mine, failed, taken, delayed, saved, exit_time>>

TakeFingerprint ==
  /\ phase = "stat"
  /\ taken' = IF known = NoFingerprint THEN takeFingerprint(file, timestamp)
              ELSE retakeFingerprint(file, timestamp, known)
  /\ phase' = "log"
  /\ UNCHANGED <<now, file, known, entry, mine, failed, timestamp, delayed, saved, exit_time>>

(***************************************************************************)
(* writeDelayedEntries(time): the entries that are strictly older than     *)
(* time are written, with their fingerprints marked as not racily clean.   *)
(***************************************************************************)
RanCommandEntry ==
  [timestamp |-> now, mine |-> mine, cleaned |-> FALSE, fingerprint |-> taken]
CleanedCommandEntry ==
  [timestamp |-> now, mine |-> TRUE, cleaned |-> TRUE, fingerprint |-> NoFingerprint]

LastOf(S) == CHOOSE k \in S : \A j \in S : j <= k

NotRacilyClean(fp) == [fp EXCEPT !.racily_clean = FALSE]

\* known and entry after the first n entries have been written.
KnownAfter(n) ==
  LET ran == {k \in 1..n : ~delayed[k].cleaned}
  IN  IF ran = {} THEN known ELSE NotRacilyClean(delayed[LastOf(ran)].fingerprint)

EntryAfter(n) ==
  LET step == {k \in 1..n : delayed[k].mine}
  IN  IF step = {} THEN entry
      ELSE IF delayed[LastOf(step)].cleaned THEN NoFingerprint
      ELSE NotRacilyClean(delayed[LastOf(step)].fingerprint)

WriteEntries(n) == known' = KnownAfter(n) /\ entry' = EntryAfter(n)

\* The fingerprints of an entry are written before the entry that refers to them.
SavedBy(n) ==
  {<<KnownAfter(m), EntryAfter(m)>> : m \in 0..n}
    \cup {<<KnownAfter(m), EntryAfter(m - 1)>> : m \in 1..n}

\* Mutant: entries of the present second are written too.
WriteUpToNow(time, added) ==
  \E n \in 0..Len(delayed) :
    /\ \A k \in 1..n : delayed[k].timestamp <= time
    /\ n < Len(delayed) => delayed[n + 1].timestamp > time
    /\ WriteEntries(n)
    /\ saved' = saved \cup SavedBy(n)
    /\ delayed' = SubSeq(delayed, n + 1, Len(delayed)) \o added

writeDelayedEntries(time, added) ==
  \E n \in 0..Len(delayed) :
    /\ \A k \in 1..n : delayed[k].timestamp < time
    /\ n < Len(delayed) => delayed[n + 1].timestamp >= time
    /\ WriteEntries(n)
    /\ saved' = saved \cup SavedBy(n)
    /\ delayed' = SubSeq(delayed, n + 1, Len(delayed)) \o added

RanCommand ==
  /\ phase = "log"
  /\ ~(mine /\ failed)
  /\ writeDelayedEntries(now, <<RanCommandEntry>>)
  /\ taken' = NoFingerprint
  /\ phase' = "running"
  /\ UNCHANGED <<now, file, mine, failed, timestamp, exit_time>>

\* commandDone of a command that failed: it is not logged.
NotLogged ==
  /\ phase = "log"
  /\ mine /\ failed
  /\ taken' = NoFingerprint
  /\ phase' = "running"
  /\ UNCHANGED <<now, file, known, entry, mine, failed, timestamp, delayed, saved, exit_time>>

\* A step that does not use the file is logged.
RanOther ==
  /\ phase = "running"
  /\ delayed # <<>>
  /\ writeDelayedEntries(now, <<>>)
  /\ UNCHANGED <<now, file, phase, mine, failed, timestamp, taken, exit_time>>

\* Another step that has the file as an input is done, and logged.
OtherUser ==
  /\ phase = "running"
  /\ phase' = "fingerprint"
  /\ mine' = FALSE
  /\ UNCHANGED <<now, file, known, entry, failed, timestamp, taken, delayed, saved, exit_time>>

\* deleteStaleOutputs: the file is deleted, and the step's log entry with it.
Clean ==
  /\ phase = "idle"
  /\ entry # NoFingerprint
  /\ file' = [file EXCEPT !.mode = Absent]
  /\ delayed' = <<CleanedCommandEntry>>
  /\ saved' = {<<known, entry>>}
  /\ phase' = "running"
  /\ UNCHANGED <<now, known, entry, mine, failed, timestamp, taken, exit_time>>

\* shk ends: the destructor writes all the delayed entries, however young.
Exit ==
  /\ phase = "running"
  /\ WriteEntries(Len(delayed))
  /\ delayed' = <<>> /\ saved' = {}
  /\ phase' = "idle"
  /\ mine' = FALSE /\ failed' = FALSE
  /\ timestamp' = 0
  /\ exit_time' = now
  /\ UNCHANGED <<now, file, taken>>

\* shk is killed: the delayed entries are lost, and what the stream had not yet
\* passed on to the file.
Kill ==
  /\ phase # "idle"
  /\ \E p \in saved : known' = p[1] /\ entry' = p[2]
  /\ phase' = "idle"
  /\ mine' = FALSE /\ failed' = FALSE
  /\ delayed' = <<>> /\ saved' = {} /\ taken' = NoFingerprint /\ timestamp' = 0
  /\ UNCHANGED <<now, file, exit_time>>

Next ==
  \/ Tick \/ Edit \/ Check \/ Command \/ AskClock \/ TakeFingerprint
  \/ RanCommand \/ NotLogged \/ RanOther \/ OtherUser \/ Clean \/ Exit \/ Kill

Spec == Init /\ [][Next]_vars

----------------------------------------------------------------------------
\* Type correctness.
DelayedEntry ==
  [timestamp : Nat, mine : BOOLEAN, cleaned : BOOLEAN,
   fingerprint : Fingerprint \cup {NoFingerprint}]

TypeOK ==
  /\ now \in Nat /\ exit_time \in Nat /\ timestamp \in Nat
  /\ file \in File
  /\ known \in Fingerprint \cup {NoFingerprint}
  /\ entry \in Fingerprint \cup {NoFingerprint}
  /\ taken \in Fingerprint \cup {NoFingerprint}
  /\ phase \in Phases /\ mine \in BOOLEAN /\ failed \in BOOLEAN
  /\ delayed \in Seq(DelayedEntry)
  /\ \A p \in saved : \A k \in 1..2 : p[k] \in Fingerprint \cup {NoFingerprint}

\* A fingerprint in the log is found to match only a file whose mode and content
\* are the ones that were fingerprinted, so that a step is not taken for clean
\* when one of its files has changed (fingerprintMatches).
MatchIsSound ==
  (phase = "idle" /\ entry # NoFingerprint /\ fingerprintMatches(entry, file).clean)
    => entry.hash = computeFingerprintHash(file)

\* When a run of shk in which the step did not fail has come to its end, a second one right after it finds the
\* file clean by its stat alone, without hashing it (MatchesResult::should_update:
\* "hashing will no longer be needed later").
SecondRunIsNoOp ==
  [][(Exit /\ ~failed /\ entry' # NoFingerprint)
       => fingerprintMatches(entry', file') = [clean |-> TRUE, should_update |-> FALSE]]_vars
=============================================================================
