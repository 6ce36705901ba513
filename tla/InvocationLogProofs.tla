------------------------- MODULE InvocationLogProofs -------------------------
(***************************************************************************)
(* The invocation log for any steps, paths, commands and bounds: no whole  *)
(* record is ever refused, and the ids in memory are those of the file.    *)
(***************************************************************************)
EXTENDS InvocationLog, TLAPS

\* Zenon proves the steps that name no other prover.
USE Zenon

\* The hypothesis of the lemmas about the loops of the log, which
\* LoopInduction discharges below.
Loops ==
  /\ Reading!Induction /\ Writing!Induction
  /\ RelogDirectories!Induction /\ RelogCommands!Induction

\* The record types that the parser tells apart.
LEMMA RecordKinds ==
  ASSUME NEW e \in Record
  PROVE  \/ \E p \in Paths : e = PathEntry(p)
         \/ \E id \in Nat : e = DirectoryEntry(id) \/ e = DeletedDirectory(id)
         \/ \E id \in Nat, fp \in Fingerprint : e = FingerprintEntry(id, fp)
         \/ \E h \in Hashes, outs \in Seq(Nat), ins \in Seq(Nat), deps \in Deps :
              e = InvocationEntry(h, outs, ins, deps)
         \/ \E h \in Hashes : e = DeletedInvocation(h)
<1>1. CASE e \in [type : {"path"}, path : Paths]
  <2>1. e.path \in Paths /\ e = PathEntry(e.path)
    BY <1>1 DEF PathEntry
  <2> QED BY <2>1
<1>2. CASE e \in [type : {"created_dir", "deleted_dir"}, id : Nat]
  <2>1. e.id \in Nat /\ (e = DirectoryEntry(e.id) \/ e = DeletedDirectory(e.id))
    BY <1>2 DEF DirectoryEntry, DeletedDirectory
  <2> QED BY <2>1
<1>3. CASE e \in [type : {"fingerprint"}, id : Nat, fp : Fingerprint]
  <2>1. e.id \in Nat /\ e.fp \in Fingerprint /\ e = FingerprintEntry(e.id, e.fp)
    BY <1>3 DEF FingerprintEntry
  <2> QED BY <2>1
<1>4. CASE e \in [type : {"invocation"}, hash : Hashes, outs : Seq(Nat), ins : Seq(Nat),
                  deps : Deps]
  <2>1. /\ e.hash \in Hashes /\ e.outs \in Seq(Nat) /\ e.ins \in Seq(Nat) /\ e.deps \in Deps
        /\ e = InvocationEntry(e.hash, e.outs, e.ins, e.deps)
    BY <1>4 DEF InvocationEntry
  <2> QED BY <2>1
<1>5. CASE e \in [type : {"deleted_invocation"}, hash : Hashes]
  <2>1. e.hash \in Hashes /\ e = DeletedInvocation(e.hash)
    BY <1>5 DEF DeletedInvocation
  <2> QED BY <2>1
<1> QED BY <1>1, <1>2, <1>3, <1>4, <1>5 DEF Record

\* The types of what the parser returns, as IsRead has them.
ReadResult ==
  [pathsById : Seq(Paths), fingerprints : Seq(LoggedFile), pathIds : [Paths -> Int],
   fingerprintIds : [Paths -> FingerprintId], entries : [Hashes -> Entry \cup {NoEntry}],
   dirs : SUBSET Paths, entryCount : Nat, failed : BOOLEAN]

\* Two results that differ at most in the number of entries.
SameRead(m, n) ==
  /\ n.pathsById = m.pathsById /\ n.fingerprints = m.fingerprints
  /\ n.pathIds = m.pathIds /\ n.fingerprintIds = m.fingerprintIds
  /\ n.entries = m.entries /\ n.dirs = m.dirs /\ n.failed = m.failed

\* A turn of the loop does what its record says, and counts it.
LEMMA ReadStep ==
  ASSUME NEW P, NEW r \in ReadResult, ~r.failed, NEW e, NEW m \in ReadResult,
         parseEntry(r, e, P) = m
  PROVE  Read(P, r, e) \in ReadResult /\ SameRead(m, Read(P, r, e))
<1>1. CASE m.failed
  BY Zenon, <1>1 DEF Read, SameRead
<1>2. CASE ~m.failed
  <2> DEFINE n == [m EXCEPT !.entryCount = @ + 1]
  <2>1. Read(P, r, e) = n
    BY <1>2 DEF Read
  <2>2. m.entryCount + 1 \in Nat
    BY SMT DEF ReadResult
  <2>3. n \in ReadResult /\ SameRead(m, n)
    BY Zenon, <2>2 DEF ReadResult, SameRead
  <2> QED BY <2>1, <2>3
<1> QED BY <1>1, <1>2

\* A record that cannot be read changes nothing but the flag.
LEMMA FailFields ==
  ASSUME NEW r \in ReadResult
  PROVE  LET m == Fail(r) IN
         /\ m \in ReadResult /\ m.failed
         /\ m.pathsById = r.pathsById /\ m.fingerprints = r.fingerprints
         /\ m.pathIds = r.pathIds /\ m.fingerprintIds = r.fingerprintIds
         /\ m.entries = r.entries /\ m.dirs = r.dirs
  BY Zenon DEF Fail, ReadResult

\* One more path.
AddsPath(n, r, p) ==
  /\ n.pathsById = Append(r.pathsById, p)
  /\ n.pathIds = [r.pathIds EXCEPT ![p] = Len(r.pathsById)]

\* A path record gets the next path id.
LEMMA ReadPath ==
  ASSUME NEW P, NEW r \in ReadResult, ~r.failed, NEW p \in Paths
  PROVE  LET n == Read(P, r, PathEntry(p)) IN
         /\ n \in ReadResult /\ ~n.failed /\ AddsPath(n, r, p)
         /\ n.fingerprints = r.fingerprints /\ n.fingerprintIds = r.fingerprintIds
         /\ n.entries = r.entries /\ n.dirs = r.dirs
<1> DEFINE m == [r EXCEPT !.pathIds[p] = Len(r.pathsById), !.pathsById = Append(@, p)]
<1>1. parseEntry(r, PathEntry(p), P) = m
  BY DEF parseEntry, PathEntry, parsePath
<1>2. r.pathsById \in Seq(Paths) /\ r.pathIds \in [Paths -> Int]
  BY DEF ReadResult
<1>3. /\ Append(r.pathsById, p) \in Seq(Paths)
      /\ [r.pathIds EXCEPT ![p] = Len(r.pathsById)] \in [Paths -> Int]
  BY SMT, <1>2
<1>4. /\ m \in ReadResult /\ m.failed = r.failed
      /\ m.pathsById = Append(r.pathsById, p)
      /\ m.pathIds = [r.pathIds EXCEPT ![p] = Len(r.pathsById)]
      /\ m.fingerprints = r.fingerprints /\ m.fingerprintIds = r.fingerprintIds
      /\ m.entries = r.entries /\ m.dirs = r.dirs
  BY Zenon, <1>3 DEF ReadResult
<1> HIDE DEF m
<1> QED BY SMT, <1>1, <1>4, ReadStep DEF SameRead, AddsPath

\* A directory record changes the directories, if its path is known.
LEMMA ReadDirectory ==
  ASSUME NEW P, NEW r \in ReadResult, ~r.failed, NEW id \in Nat,
         NEW e \in {DirectoryEntry(id), DeletedDirectory(id)}
  PROVE  LET n == Read(P, r, e) IN
         /\ n \in ReadResult /\ (n.failed <=> ~IsPathRef(r, id))
         /\ n.pathsById = r.pathsById /\ n.pathIds = r.pathIds
         /\ n.fingerprints = r.fingerprints /\ n.fingerprintIds = r.fingerprintIds
         /\ n.entries = r.entries
<1> USE DEF parseEntry, DirectoryEntry, DeletedDirectory, parseCreatedDir, parseDeleted
<1>1. CASE ~IsPathRef(r, id)
  <2>1. parseEntry(r, e, P) = Fail(r)
    BY SMT, <1>1
  <2> QED BY SMT, <1>1, <2>1, FailFields, ReadStep DEF SameRead
<1>2. CASE IsPathRef(r, id)
  <2> DEFINE d == {PathOf(r, id)} \cap P
  <2>1. PathOf(r, id) \in Paths
    BY SMT, <1>2 DEF PathOf, IsPathRef, ReadResult
  <2>2. PICK dirs \in SUBSET Paths : parseEntry(r, e, P) = [r EXCEPT !.dirs = dirs]
    <3>1. r.dirs \cup d \in SUBSET Paths /\ r.dirs \ d \in SUBSET Paths
      BY <2>1 DEF ReadResult
    <3>2. \/ parseEntry(r, e, P) = [r EXCEPT !.dirs = r.dirs \cup d]
          \/ parseEntry(r, e, P) = [r EXCEPT !.dirs = r.dirs \ d]
      BY SMT, <1>2
    <3> HIDE DEF d, parseEntry
    <3> QED BY <3>1, <3>2
  <2> DEFINE m == [r EXCEPT !.dirs = dirs]
  <2>3. /\ m \in ReadResult /\ ~m.failed
        /\ m.pathsById = r.pathsById /\ m.pathIds = r.pathIds
        /\ m.fingerprints = r.fingerprints /\ m.fingerprintIds = r.fingerprintIds
        /\ m.entries = r.entries
    BY Zenon DEF ReadResult
  <2> HIDE DEF m, parseEntry
  <2>4. parseEntry(r, e, P) = m
    BY <2>2 DEF m
  <2> QED BY SMT, <1>2, <2>3, <2>4, ReadStep DEF SameRead
<1> QED BY <1>1, <1>2

\* One more fingerprint, of the path p, and the id it has in the map of y, which
\* differs from that of x in nothing else.
NextFingerprint(n, r, p, fp) ==
  n.fingerprints = Append(r.fingerprints, [path |-> p, fp |-> fp])
NextFingerprintId(y, x, r, p, fp) ==
  y.fingerprintIds = [x.fingerprintIds EXCEPT ![p] = [id |-> Len(r.fingerprints), fp |-> fp]]
AddsFingerprint(n, r, p, fp) ==
  p \in Paths /\ NextFingerprint(n, r, p, fp) /\ NextFingerprintId(n, r, r, p, fp)

\* A fingerprint record gets the next fingerprint id, if its path is known.
LEMMA ReadFingerprint ==
  ASSUME NEW P, NEW r \in ReadResult, ~r.failed, NEW id \in Nat, NEW fp \in Fingerprint
  PROVE  LET n == Read(P, r, FingerprintEntry(id, fp)) IN
         /\ n \in ReadResult /\ (n.failed <=> ~IsPathRef(r, id))
         /\ n.pathsById = r.pathsById /\ n.pathIds = r.pathIds
         /\ n.entries = r.entries /\ n.dirs = r.dirs
         /\ n.failed => n.fingerprints = r.fingerprints /\ n.fingerprintIds = r.fingerprintIds
         /\ ~n.failed => AddsFingerprint(n, r, PathOf(r, id), fp)
<1> USE DEF parseEntry, FingerprintEntry, parseFingerprint
<1>1. CASE ~IsPathRef(r, id)
  <2>1. parseEntry(r, FingerprintEntry(id, fp), P) = Fail(r)
    BY <1>1
  <2> HIDE DEF parseEntry, FingerprintEntry
  <2> QED BY SMT, <1>1, <2>1, FailFields, ReadStep DEF SameRead
<1>2. CASE IsPathRef(r, id)
  <2> DEFINE p == PathOf(r, id)
             f == [path |-> p, fp |-> fp]
             i == [id |-> Len(r.fingerprints), fp |-> fp]
             fps == Append(r.fingerprints, f)
             ids == [r.fingerprintIds EXCEPT ![p] = i]
             m == [r EXCEPT !.fingerprintIds = ids, !.fingerprints = fps]
  <2>1. p \in Paths
    BY SMT, <1>2 DEF PathOf, IsPathRef, ReadResult
  <2>2. r.fingerprints \in Seq(LoggedFile) /\ r.fingerprintIds \in [Paths -> FingerprintId]
    BY DEF ReadResult
  <2>3. f \in LoggedFile
    BY <2>1 DEF LoggedFile
  <2>4. i \in FingerprintId
    BY SMT, <2>2 DEF FingerprintId
  <2>5. fps \in Seq(LoggedFile) /\ ids \in [Paths -> FingerprintId]
    <3> HIDE DEF f, i, p
    <3> QED BY SMT, <2>1, <2>2, <2>3, <2>4
  <2>6. parseEntry(r, FingerprintEntry(id, fp), P) = m
    BY <1>2
  <2> HIDE DEF p, fps, ids, parseEntry, FingerprintEntry
  <2>7. /\ m \in ReadResult /\ ~m.failed
        /\ m.pathsById = r.pathsById /\ m.pathIds = r.pathIds
        /\ m.entries = r.entries /\ m.dirs = r.dirs
        /\ m.fingerprints = fps /\ m.fingerprintIds = ids
    BY Zenon, <2>5 DEF ReadResult
  <2> HIDE DEF m
  <2> QED BY SMT, <1>2, <2>1, <2>6, <2>7, ReadStep DEF SameRead, AddsFingerprint, NextFingerprint,
        NextFingerprintId, p, f, i, fps, ids
<1> QED BY <1>1, <1>2

\* The entry of the step h is a new one.
SetsEntry(n, r, h, outs, ins, deps) ==
  n.entries = [r.entries EXCEPT ![h] = [outs |-> outs, ins |-> ins, deps |-> deps]]

\* An invocation record is the last word on its step, if it refers to fingerprints
\* that are known.
LEMMA ReadInvocation ==
  ASSUME NEW P, NEW r \in ReadResult, ~r.failed, NEW h \in Hashes,
         NEW outs \in Seq(Nat), NEW ins \in Seq(Nat), NEW deps \in Deps
  PROVE  LET n == Read(P, r, InvocationEntry(h, outs, ins, deps)) IN
         /\ n \in ReadResult /\ (n.failed <=> ~AreFingerprintRefs(r, outs \o ins))
         /\ n.pathsById = r.pathsById /\ n.pathIds = r.pathIds
         /\ n.fingerprints = r.fingerprints /\ n.fingerprintIds = r.fingerprintIds
         /\ n.dirs = r.dirs
         /\ n.failed => n.entries = r.entries
         /\ ~n.failed => SetsEntry(n, r, h, outs, ins, deps)
<1> DEFINE e == InvocationEntry(h, outs, ins, deps)
<1> USE DEF parseEntry, InvocationEntry, parseInvocation
<1>1. CASE ~AreFingerprintRefs(r, outs \o ins)
  <2>1. parseEntry(r, e, P) = Fail(r)
    BY <1>1
  <2> HIDE DEF parseEntry, InvocationEntry
  <2> QED BY SMT, <1>1, <2>1, FailFields, ReadStep DEF SameRead
<1>2. CASE AreFingerprintRefs(r, outs \o ins)
  <2> DEFINE entry == [outs |-> outs, ins |-> ins, deps |-> deps]
             all == [r.entries EXCEPT ![h] = entry]
             m == [r EXCEPT !.entries = all]
  <2>1. entry \in Entry
    BY DEF Entry
  <2>2. parseEntry(r, e, P) = m
    BY <1>2
  <2> HIDE DEF entry, parseEntry, InvocationEntry
  <2>3. all \in [Hashes -> Entry \cup {NoEntry}]
    BY <2>1 DEF ReadResult
  <2> HIDE DEF all
  <2>4. /\ m \in ReadResult /\ ~m.failed
        /\ m.pathsById = r.pathsById /\ m.pathIds = r.pathIds
        /\ m.fingerprints = r.fingerprints /\ m.fingerprintIds = r.fingerprintIds
        /\ m.dirs = r.dirs /\ m.entries = all
    BY Zenon, <2>3 DEF ReadResult
  <2> HIDE DEF m
  <2> QED BY SMT, <1>2, <2>2, <2>4, ReadStep DEF SameRead, SetsEntry, all, entry
<1> QED BY <1>1, <1>2

\* The record of a cleaned step forgets it.
LEMMA ReadDeletedInvocation ==
  ASSUME NEW P, NEW r \in ReadResult, ~r.failed, NEW h \in Hashes
  PROVE  LET n == Read(P, r, DeletedInvocation(h)) IN
         /\ n \in ReadResult /\ ~n.failed
         /\ n.pathsById = r.pathsById /\ n.pathIds = r.pathIds
         /\ n.fingerprints = r.fingerprints /\ n.fingerprintIds = r.fingerprintIds
         /\ n.dirs = r.dirs
         /\ n.entries = [r.entries EXCEPT ![h] = NoEntry]
<1> DEFINE all == [r.entries EXCEPT ![h] = NoEntry]
           m == [r EXCEPT !.entries = all]
<1>1. parseEntry(r, DeletedInvocation(h), P) = m
  BY DEF parseEntry, DeletedInvocation, parseDeleted
<1>2. all \in [Hashes -> Entry \cup {NoEntry}]
  BY DEF ReadResult
<1> HIDE DEF all
<1>3. /\ m \in ReadResult /\ ~m.failed
      /\ m.pathsById = r.pathsById /\ m.pathIds = r.pathIds
      /\ m.fingerprints = r.fingerprints /\ m.fingerprintIds = r.fingerprintIds
      /\ m.dirs = r.dirs /\ m.entries = all
  BY Zenon, <1>2 DEF ReadResult
<1> HIDE DEF m
<1> QED BY SMT, <1>1, <1>3, ReadStep DEF SameRead, all

-----------------------------------------------------------------------------
\* More records only add paths and fingerprints, with which ids stay what they are.
Extends(n, r) ==
  /\ Len(r.pathsById) <= Len(n.pathsById) /\ Len(r.fingerprints) <= Len(n.fingerprints)
  /\ \A i \in 1..Len(r.pathsById) : n.pathsById[i] = r.pathsById[i]
  /\ \A i \in 1..Len(r.fingerprints) : n.fingerprints[i] = r.fingerprints[i]

\* The ids in the maps of x still agree with what was read when more is.
LEMMA IdsStayAgreed ==
  ASSUME NEW x, NEW r \in ReadResult, NEW n \in ReadResult, IdsAgree(x, r), Extends(n, r),
         x.pathIds \in [Paths -> Int], x.fingerprintIds \in [Paths -> FingerprintId]
  PROVE  IdsAgree(x, n)
<1>1. /\ Len(r.pathsById) \in Nat /\ Len(n.pathsById) \in Nat
      /\ Len(r.fingerprints) \in Nat /\ Len(n.fingerprints) \in Nat
  BY SMT DEF ReadResult
<1>2. ASSUME NEW p \in Paths, x.pathIds[p] # NoId
      PROVE  IsPathRef(n, x.pathIds[p]) /\ PathOf(n, x.pathIds[p]) = p
  <2> DEFINE i == x.pathIds[p]
  <2>1. i \in 0..(Len(r.pathsById) - 1) /\ r.pathsById[i + 1] = p
    BY <1>2 DEF IdsAgree, IsPathRef, PathOf
  <2> HIDE DEF i
  <2>2. i + 1 \in 1..Len(r.pathsById) /\ i \in 0..(Len(n.pathsById) - 1)
    BY SMT, <1>1, <2>1 DEF Extends
  <2>3. n.pathsById[i + 1] = r.pathsById[i + 1]
    BY <2>2 DEF Extends
  <2> QED BY <2>1, <2>2, <2>3 DEF i, IsPathRef, PathOf
<1>3. ASSUME NEW p \in Paths, x.fingerprintIds[p].id # NoId
      PROVE  /\ x.fingerprintIds[p].id \in 0..(Len(n.fingerprints) - 1)
             /\ n.fingerprints[x.fingerprintIds[p].id + 1]
                  = [path |-> p, fp |-> x.fingerprintIds[p].fp]
  <2> DEFINE i == x.fingerprintIds[p].id
  <2>1. i \in 0..(Len(r.fingerprints) - 1)
        /\ r.fingerprints[i + 1] = [path |-> p, fp |-> x.fingerprintIds[p].fp]
    BY <1>3 DEF IdsAgree
  <2> HIDE DEF i
  <2>2. i + 1 \in 1..Len(r.fingerprints) /\ i \in 0..(Len(n.fingerprints) - 1)
    BY SMT, <1>1, <2>1 DEF Extends
  <2>3. n.fingerprints[i + 1] = r.fingerprints[i + 1]
    BY <2>2 DEF Extends
  <2> QED BY <2>1, <2>2, <2>3 DEF i
<1> QED BY <1>2, <1>3 DEF IdsAgree

\* The next path id goes to the path of the record that was added.
LEMMA PathAdded ==
  ASSUME NEW x, NEW y, NEW r \in ReadResult, NEW n \in ReadResult, NEW p \in Paths,
         IdsAgree(x, r),
         x.pathIds \in [Paths -> Int], x.fingerprintIds \in [Paths -> FingerprintId],
         n.pathsById = Append(r.pathsById, p), n.fingerprints = r.fingerprints,
         y.pathIds = [x.pathIds EXCEPT ![p] = Len(r.pathsById)],
         y.fingerprintIds = x.fingerprintIds
  PROVE  IdsAgree(y, n) /\ Extends(n, r)
<1>1. r.pathsById \in Seq(Paths) /\ r.fingerprints \in Seq(LoggedFile)
  BY DEF ReadResult
<1>2. Extends(n, r)
  BY SMT, <1>1 DEF Extends
<1>3. IdsAgree(x, n)
  BY <1>2, IdsStayAgreed
<1>4. y.pathIds[p] = Len(r.pathsById) /\ \A q \in Paths : q # p => y.pathIds[q] = x.pathIds[q]
  OBVIOUS
<1>5. IsPathRef(n, y.pathIds[p]) /\ PathOf(n, y.pathIds[p]) = p
  BY SMT, <1>1, <1>4 DEF IsPathRef, PathOf
<1>6. \A q \in Paths : y.pathIds[q] # NoId =>
        IsPathRef(n, y.pathIds[q]) /\ PathOf(n, y.pathIds[q]) = q
  BY <1>3, <1>4, <1>5 DEF IdsAgree
<1> QED BY <1>2, <1>3, <1>6 DEF IdsAgree

\* The next fingerprint id goes to the fingerprint of the record that was added.
LEMMA FingerprintAdded ==
  ASSUME NEW x, NEW y, NEW r \in ReadResult, NEW n \in ReadResult, NEW p \in Paths, NEW fp,
         IdsAgree(x, r),
         x.pathIds \in [Paths -> Int], x.fingerprintIds \in [Paths -> FingerprintId],
         n.pathsById = r.pathsById,
         NextFingerprint(n, r, p, fp), NextFingerprintId(y, x, r, p, fp),
         y.pathIds = x.pathIds
  PROVE  IdsAgree(y, n) /\ Extends(n, r)
<1> DEFINE f == [path |-> p, fp |-> fp]
           i == [id |-> Len(r.fingerprints), fp |-> fp]
<1>1. /\ r.pathsById \in Seq(Paths) /\ r.fingerprints \in Seq(LoggedFile)
      /\ n.fingerprints = Append(r.fingerprints, f)
  BY DEF ReadResult, NextFingerprint
<1>2. y.fingerprintIds[p] = i
      /\ \A q \in Paths : q # p => y.fingerprintIds[q] = x.fingerprintIds[q]
  BY DEF NextFingerprintId
<1>3. i.id = Len(r.fingerprints) /\ [path |-> p, fp |-> i.fp] = f
  OBVIOUS
<1> HIDE DEF f, i
<1>4. Extends(n, r)
  BY SMT, <1>1 DEF Extends
<1>5. IdsAgree(x, n)
  BY <1>4, IdsStayAgreed
<1>6. i.id \in 0..(Len(n.fingerprints) - 1) /\ n.fingerprints[i.id + 1] = f
  BY SMT, <1>1, <1>3
<1>7. ASSUME NEW q \in Paths, y.fingerprintIds[q].id # NoId
      PROVE  /\ y.fingerprintIds[q].id \in 0..(Len(n.fingerprints) - 1)
             /\ n.fingerprints[y.fingerprintIds[q].id + 1]
                  = [path |-> q, fp |-> y.fingerprintIds[q].fp]
  <2>1. CASE q = p
    BY <1>2, <1>3, <1>6, <2>1
  <2>2. CASE q # p
    BY <1>2, <1>5, <1>7, <2>2 DEF IdsAgree
  <2> QED BY <2>1, <2>2
<1>8. \A q \in Paths : y.pathIds[q] # NoId =>
        IsPathRef(n, y.pathIds[q]) /\ PathOf(n, y.pathIds[q]) = q
  BY <1>5 DEF IdsAgree
<1> QED BY <1>4, <1>7, <1>8 DEF IdsAgree

\* The entries of steps still refer to fingerprints when there are more of these.
LEMMA EntriesStayValid ==
  ASSUME NEW r \in ReadResult, NEW n \in ReadResult, Extends(n, r), NEW ids,
         ids \in Seq(Nat), AreFingerprintRefs(r, ids)
  PROVE  AreFingerprintRefs(n, ids)
<1>1. Len(r.fingerprints) \in Nat /\ Len(n.fingerprints) \in Nat
  BY SMT DEF ReadResult
<1> QED BY SMT, <1>1 DEF AreFingerprintRefs, Extends

\* The parser keeps what IsRead says, whatever record comes next.
LEMMA ReadKeeps ==
  ASSUME NEW P, NEW r, IsRead(r), NEW e \in Record
  PROVE  IsRead(Read(P, r, e)) /\ Extends(Read(P, r, e), r)
<1> DEFINE n == Read(P, r, e)
<1>0. r \in ReadResult /\ IdsAgree(r, r)
  BY DEF IsRead, ReadResult
<1>1. /\ r.pathIds \in [Paths -> Int] /\ r.fingerprintIds \in [Paths -> FingerprintId]
      /\ r.pathsById \in Seq(Paths) /\ r.fingerprints \in Seq(LoggedFile)
      /\ r.entries \in [Hashes -> Entry \cup {NoEntry}]
  BY <1>0 DEF ReadResult
<1>2. ASSUME NEW h \in Known(r)
      PROVE  /\ r.entries[h].outs \o r.entries[h].ins \in Seq(Nat)
             /\ AreFingerprintRefs(r, r.entries[h].outs \o r.entries[h].ins)
  <2>1. r.entries[h] \in Entry
    BY <1>1 DEF Known
  <2> QED BY SMT, <2>1 DEF Entry, IsRead
<1>3. ASSUME n \in ReadResult, IdsAgree(n, n), Extends(n, r),
             \A h \in Known(n) :
               \/ h \in Known(r) /\ n.entries[h] = r.entries[h]
               \/ AreFingerprintRefs(n, n.entries[h].outs \o n.entries[h].ins)
      PROVE  IsRead(n)
  <2> HIDE DEF n
  <2>1. \A h \in Known(n) : AreFingerprintRefs(n, n.entries[h].outs \o n.entries[h].ins)
    BY ZenonT(30), <1>0, <1>2, <1>3, EntriesStayValid
  <2> QED BY <1>3, <2>1 DEF IsRead, ReadResult
<1>4. ASSUME n \in ReadResult, n.pathsById = r.pathsById, n.fingerprints = r.fingerprints,
             n.pathIds = r.pathIds, n.fingerprintIds = r.fingerprintIds
      PROVE  IdsAgree(n, n) /\ Extends(n, r)
  <2> HIDE DEF n
  <2>1. Extends(n, r)
    BY SMT, <1>1, <1>4 DEF Extends
  <2>2. IdsAgree(r, n)
    BY <1>0, <1>1, <1>4, <2>1, IdsStayAgreed
  <2> QED BY <1>4, <2>1, <2>2 DEF IdsAgree
<1>5. CASE r.failed
  <2>1. n = r
    BY <1>5 DEF Read
  <2> QED BY <1>0, <1>4, <2>1
<1>6. CASE ~r.failed /\ \E p \in Paths : e = PathEntry(p)
  <2>1. PICK p \in Paths : e = PathEntry(p)
    BY <1>6
  <2>2. /\ n \in ReadResult /\ AddsPath(n, r, p)
        /\ n.fingerprints = r.fingerprints /\ n.fingerprintIds = r.fingerprintIds
        /\ n.entries = r.entries
    BY <1>0, <1>6, <2>1, ReadPath
  <2> HIDE DEF n
  <2>3. IdsAgree(n, n) /\ Extends(n, r)
    BY Zenon, <1>0, <1>1, <2>2, PathAdded DEF AddsPath
  <2>4. Known(n) = Known(r)
    BY <2>2 DEF Known
  <2> QED BY <1>3, <2>2, <2>3, <2>4 DEF n
<1>7. CASE ~r.failed /\ \E id \in Nat : e = DirectoryEntry(id) \/ e = DeletedDirectory(id)
  <2>1. PICK id \in Nat : e \in {DirectoryEntry(id), DeletedDirectory(id)}
    BY <1>7
  <2>2. /\ n \in ReadResult /\ n.pathsById = r.pathsById /\ n.pathIds = r.pathIds
        /\ n.fingerprints = r.fingerprints /\ n.fingerprintIds = r.fingerprintIds
        /\ n.entries = r.entries
    BY SMT, <1>0, <1>7, <2>1, ReadDirectory
  <2>3. Known(n) = Known(r)
    BY <2>2 DEF Known
  <2> HIDE DEF n
  <2> QED BY <1>3, <1>4, <2>2, <2>3 DEF n
<1>8. CASE ~r.failed /\ \E id \in Nat, fp \in Fingerprint : e = FingerprintEntry(id, fp)
  <2>1. PICK id \in Nat, fp \in Fingerprint : e = FingerprintEntry(id, fp)
    BY <1>8
  <2>2. /\ n \in ReadResult /\ n.pathsById = r.pathsById /\ n.pathIds = r.pathIds
        /\ n.entries = r.entries
        /\ n.failed => n.fingerprints = r.fingerprints /\ n.fingerprintIds = r.fingerprintIds
        /\ ~n.failed => AddsFingerprint(n, r, PathOf(r, id), fp)
    BY SMT, <1>0, <1>8, <2>1, ReadFingerprint
  <2> HIDE DEF n
  <2>3. Known(n) = Known(r)
    BY <2>2 DEF Known
  <2>4. CASE n.failed
    BY <1>3, <1>4, <2>2, <2>3, <2>4 DEF n
  <2>5. CASE ~n.failed
    <3>1. IdsAgree(n, n) /\ Extends(n, r)
      BY <1>0, <1>1, <2>2, <2>5, FingerprintAdded DEF AddsFingerprint
    <3> QED BY <1>3, <2>2, <2>3, <3>1 DEF n
  <2> QED BY <2>4, <2>5
<1>9. CASE ~r.failed /\ \E h \in Hashes, outs \in Seq(Nat), ins \in Seq(Nat), deps \in Deps :
             e = InvocationEntry(h, outs, ins, deps)
  <2>1. PICK h \in Hashes, outs \in Seq(Nat), ins \in Seq(Nat), deps \in Deps :
               e = InvocationEntry(h, outs, ins, deps)
    BY <1>9
  <2> DEFINE entry == [outs |-> outs, ins |-> ins, deps |-> deps]
  <2>2. /\ n \in ReadResult /\ n.pathsById = r.pathsById /\ n.pathIds = r.pathIds
        /\ n.fingerprints = r.fingerprints /\ n.fingerprintIds = r.fingerprintIds
        /\ n.failed => n.entries = r.entries
        /\ ~n.failed => /\ AreFingerprintRefs(r, outs \o ins)
                        /\ SetsEntry(n, r, h, outs, ins, deps)
    BY SMT, <1>0, <1>9, <2>1, ReadInvocation
  <2>3. entry.outs = outs /\ entry.ins = ins
    OBVIOUS
  <2> HIDE DEF n, entry
  <2>4. IdsAgree(n, n) /\ Extends(n, r)
    BY <1>4, <2>2 DEF n
  <2>5. CASE n.failed
    <3>1. Known(n) = Known(r)
      BY <2>2, <2>5 DEF Known
    <3> QED BY <1>3, <2>2, <2>4, <2>5, <3>1 DEF n
  <2>6. CASE ~n.failed
    <3>1. n.entries[h] = entry /\ \A g \in Hashes : g # h => n.entries[g] = r.entries[g]
      BY <1>1, <2>2, <2>6 DEF SetsEntry, entry
    <3>2. AreFingerprintRefs(n, n.entries[h].outs \o n.entries[h].ins)
      BY ZenonT(30), <2>2, <2>3, <2>6, <3>1 DEF AreFingerprintRefs
    <3>3. \A g \in Known(n) : g = h \/ (g \in Known(r) /\ n.entries[g] = r.entries[g])
      BY <3>1 DEF Known
    <3> QED BY <1>3, <2>2, <2>4, <3>2, <3>3 DEF n
  <2> QED BY <2>5, <2>6
<1>10. CASE ~r.failed /\ \E h \in Hashes : e = DeletedInvocation(h)
  <2>1. PICK h \in Hashes : e = DeletedInvocation(h)
    BY <1>10
  <2>2. /\ n \in ReadResult /\ n.pathsById = r.pathsById /\ n.pathIds = r.pathIds
        /\ n.fingerprints = r.fingerprints /\ n.fingerprintIds = r.fingerprintIds
        /\ n.entries = [r.entries EXCEPT ![h] = NoEntry]
    BY SMT, <1>0, <1>10, <2>1, ReadDeletedInvocation
  <2>3. \A g \in Known(n) : g \in Known(r) /\ n.entries[g] = r.entries[g]
    BY <1>1, <2>2 DEF Known
  <2> HIDE DEF n
  <2> QED BY <1>3, <1>4, <2>2, <2>3 DEF n
<1> QED BY <1>5, <1>6, <1>7, <1>8, <1>9, <1>10, RecordKinds

-----------------------------------------------------------------------------
\* What the parser returns for a file that starts with the signature.
LEMMA ParseIsRead ==
  ASSUME Loops, NEW P, NEW file, IsLog(file)
  PROVE  IsRead(Parse(file, P))
<1> DEFINE S == {s \in Seq(Record) : IsRead(Reading!Folded(P, NothingRead, s))}
<1>0. IsRead(NothingRead)
  BY SMT DEF IsRead, NothingRead, IdsAgree, Known, NoFingerprint, NoId, FingerprintId
<1>1. <<>> \in S
  <2>1. Reading!Folded(P, NothingRead, <<>>) = NothingRead
    BY Reading!FoldedEmpty
  <2> QED BY SMT, <1>0, <2>1
<1>2. ASSUME NEW s \in Seq(Record), NEW e \in Record, s \in S PROVE Append(s, e) \in S
  <2>1. /\ Append(s, e) \in Seq(Record)
        /\ Reading!Folded(P, NothingRead, Append(s, e))
             = Read(P, Reading!Folded(P, NothingRead, s), e)
    BY SMT, Reading!FoldedAppend DEF Loops
  <2>2. IsRead(Read(P, Reading!Folded(P, NothingRead, s), e))
    BY <1>2, ReadKeeps
  <2> QED BY <2>1, <2>2
<1>3. Seq(Record) \subseteq S
  <2> HIDE DEF S
  <2> QED BY <1>1, <1>2, Reading!ListInduction DEF Loops
<1> QED BY Zenon, <1>0, <1>3 DEF Parse, IsLog

\* A record that is appended to a file is the next that the parser reads.
LEMMA ParseAppends ==
  ASSUME Loops, NEW P, NEW file, IsLog(file), file # <<>>, NEW e \in Record
  PROVE  /\ IsLog(Append(file, e)) /\ Append(file, e) # <<>>
         /\ Parse(Append(file, e), P) = Read(P, Parse(file, P), e)
<1> DEFINE longer == Append(file, e)
           t == Tail(file)
<1>1. /\ file \in Seq(Record \cup {Signature}) /\ Head(file) = Signature
      /\ t \in Seq(Record) /\ Len(file) \in Nat \ {0}
  BY SMT DEF IsLog
<1>2. /\ longer \in Seq(Record \cup {Signature}) /\ longer # <<>> /\ Head(longer) = Signature
      /\ Len(longer) = Len(file) + 1
  BY SMT, <1>1
<1>3. Tail(longer) = Append(t, e) /\ Append(t, e) \in Seq(Record)
  BY SMT, <1>1
<1>4. Reading!Folded(P, NothingRead, Append(t, e)) = Read(P, Reading!Folded(P, NothingRead, t), e)
  BY Zenon, <1>1, Reading!FoldedAppend DEF Loops
<1>5. Parse(file, P) = Reading!Folded(P, NothingRead, t)
      /\ Parse(longer, P) = Reading!Folded(P, NothingRead, Tail(longer))
  BY <1>2 DEF Parse
<1> HIDE DEF longer, t
<1>6. IsLog(longer) /\ Parse(longer, P) = Read(P, Parse(file, P), e)
  BY Zenon, <1>2, <1>3, <1>4, <1>5 DEF IsLog
<1> QED BY <1>2, <1>6 DEF longer

\* A file of nothing but the signature has no records.
LEMMA ParseSignature ==
  ASSUME NEW P
  PROVE  IsLog(<<Signature>>) /\ Parse(<<Signature>>, P) = NothingRead
<1> DEFINE file == <<Signature>>
           none == <<>>
<1>1. file \in Seq(Record \cup {Signature}) /\ file # <<>> /\ Head(file) = Signature
      /\ Tail(file) = none /\ none \in Seq(Record)
  BY SMT
<1>2. Reading!Folded(P, NothingRead, none) = NothingRead
  BY Reading!FoldedEmpty
<1> HIDE DEF file, none
<1>3. IsLog(file) /\ Parse(file, P) = NothingRead
  BY ZenonT(30), <1>1, <1>2 DEF IsLog, Parse
<1> QED BY <1>3 DEF file

-----------------------------------------------------------------------------
\* What the parser returns apart from the directories does not depend on which
\* directories it finds.
SameIds(a, b) ==
  /\ a.pathsById = b.pathsById /\ a.fingerprints = b.fingerprints
  /\ a.pathIds = b.pathIds /\ a.fingerprintIds = b.fingerprintIds
  /\ a.failed = b.failed

\* A record is read the same whichever directories there are.
LEMMA ReadSame ==
  ASSUME NEW P, NEW Q, NEW a, NEW b, IsRead(a), IsRead(b), SameIds(a, b), NEW e \in Record
  PROVE  SameIds(Read(P, a, e), Read(Q, b, e))
<1> DEFINE m == Read(P, a, e)
           n == Read(Q, b, e)
<1>0. a \in ReadResult /\ b \in ReadResult
  BY Zenon DEF IsRead, ReadResult
<1>1. CASE a.failed
  <2>1. m = a /\ n = b
    BY <1>1 DEF Read, SameIds
  <2> QED BY <2>1
<1>2. CASE ~a.failed /\ \E p \in Paths : e = PathEntry(p)
  <2>1. PICK p \in Paths : e = PathEntry(p)
    BY <1>2
  <2>2. ~a.failed /\ ~b.failed
    BY <1>2 DEF SameIds
  <2>3. /\ ~m.failed /\ AddsPath(m, a, p)
        /\ m.fingerprints = a.fingerprints /\ m.fingerprintIds = a.fingerprintIds
    BY <1>0, <2>1, <2>2, ReadPath
  <2>4. /\ ~n.failed /\ AddsPath(n, b, p)
        /\ n.fingerprints = b.fingerprints /\ n.fingerprintIds = b.fingerprintIds
    BY <1>0, <2>1, <2>2, ReadPath
  <2>5. m \in ReadResult /\ n \in ReadResult
    BY <1>0, <2>1, <2>2, ReadPath
  <2> HIDE DEF m, n
  <2>6. SameIds(m, n)
    BY <2>3, <2>4, <2>5 DEF SameIds, AddsPath, ReadResult
  <2> QED BY <2>6 DEF m, n
<1>3. CASE ~a.failed /\ \E id \in Nat : e = DirectoryEntry(id) \/ e = DeletedDirectory(id)
  <2>1. PICK id \in Nat : e \in {DirectoryEntry(id), DeletedDirectory(id)}
    BY <1>3
  <2>2. ~a.failed /\ ~b.failed /\ (IsPathRef(a, id) <=> IsPathRef(b, id))
    BY <1>3 DEF SameIds, IsPathRef
  <2>3. /\ m \in ReadResult /\ (m.failed <=> ~IsPathRef(a, id))
        /\ m.pathsById = a.pathsById /\ m.pathIds = a.pathIds
        /\ m.fingerprints = a.fingerprints /\ m.fingerprintIds = a.fingerprintIds
    BY SMT, <1>0, <2>1, <2>2, ReadDirectory
  <2>4. /\ n \in ReadResult /\ (n.failed <=> ~IsPathRef(b, id))
        /\ n.pathsById = b.pathsById /\ n.pathIds = b.pathIds
        /\ n.fingerprints = b.fingerprints /\ n.fingerprintIds = b.fingerprintIds
    BY SMT, <1>0, <2>1, <2>2, ReadDirectory
  <2> HIDE DEF m, n
  <2>5. SameIds(m, n)
    BY <2>2, <2>3, <2>4 DEF SameIds, ReadResult
  <2> QED BY <2>5 DEF m, n
<1>4. CASE ~a.failed /\ \E id \in Nat, fp \in Fingerprint : e = FingerprintEntry(id, fp)
  <2>1. PICK id \in Nat, fp \in Fingerprint : e = FingerprintEntry(id, fp)
    BY <1>4
  <2>2. ~a.failed /\ ~b.failed /\ (IsPathRef(a, id) <=> IsPathRef(b, id))
        /\ PathOf(a, id) = PathOf(b, id)
    BY <1>4 DEF SameIds, IsPathRef, PathOf
  <2>3. /\ m \in ReadResult /\ (m.failed <=> ~IsPathRef(a, id))
        /\ m.pathsById = a.pathsById /\ m.pathIds = a.pathIds
        /\ m.failed => m.fingerprints = a.fingerprints /\ m.fingerprintIds = a.fingerprintIds
        /\ ~m.failed => AddsFingerprint(m, a, PathOf(a, id), fp)
    BY SMT, <1>0, <2>1, <2>2, ReadFingerprint
  <2>4. /\ n \in ReadResult /\ (n.failed <=> ~IsPathRef(b, id))
        /\ n.pathsById = b.pathsById /\ n.pathIds = b.pathIds
        /\ n.failed => n.fingerprints = b.fingerprints /\ n.fingerprintIds = b.fingerprintIds
        /\ ~n.failed => AddsFingerprint(n, b, PathOf(b, id), fp)
    BY SMT, <1>0, <2>1, <2>2, ReadFingerprint
  <2> HIDE DEF m, n
  <2>5. m.failed = n.failed
    BY ZenonT(30), <2>2, <2>3, <2>4 DEF ReadResult
  <2>6. m.fingerprints = n.fingerprints /\ m.fingerprintIds = n.fingerprintIds
    <3>1. CASE m.failed
      BY <2>3, <2>4, <2>5, <3>1 DEF SameIds
    <3>2. CASE ~m.failed
      BY <2>2, <2>3, <2>4, <2>5, <3>2 DEF SameIds, AddsFingerprint, NextFingerprint,
           NextFingerprintId
    <3> QED BY <3>1, <3>2
  <2>7. SameIds(m, n)
    BY <2>3, <2>4, <2>5, <2>6 DEF SameIds
  <2> QED BY <2>7 DEF m, n
<1>5. CASE ~a.failed /\ \E h \in Hashes, outs \in Seq(Nat), ins \in Seq(Nat), deps \in Deps :
             e = InvocationEntry(h, outs, ins, deps)
  <2>1. PICK h \in Hashes, outs \in Seq(Nat), ins \in Seq(Nat), deps \in Deps :
               e = InvocationEntry(h, outs, ins, deps)
    BY <1>5
  <2>2. /\ ~a.failed /\ ~b.failed
        /\ AreFingerprintRefs(a, outs \o ins) <=> AreFingerprintRefs(b, outs \o ins)
    BY <1>5 DEF SameIds, AreFingerprintRefs
  <2>3. /\ m \in ReadResult /\ (m.failed <=> ~AreFingerprintRefs(a, outs \o ins))
        /\ m.pathsById = a.pathsById /\ m.pathIds = a.pathIds
        /\ m.fingerprints = a.fingerprints /\ m.fingerprintIds = a.fingerprintIds
    BY SMT, <1>0, <2>1, <2>2, ReadInvocation
  <2>4. /\ n \in ReadResult /\ (n.failed <=> ~AreFingerprintRefs(b, outs \o ins))
        /\ n.pathsById = b.pathsById /\ n.pathIds = b.pathIds
        /\ n.fingerprints = b.fingerprints /\ n.fingerprintIds = b.fingerprintIds
    BY SMT, <1>0, <2>1, <2>2, ReadInvocation
  <2> HIDE DEF m, n
  <2>5. SameIds(m, n)
    BY <2>2, <2>3, <2>4 DEF SameIds, ReadResult
  <2> QED BY <2>5 DEF m, n
<1>6. CASE ~a.failed /\ \E h \in Hashes : e = DeletedInvocation(h)
  <2>1. PICK h \in Hashes : e = DeletedInvocation(h)
    BY <1>6
  <2>2. ~a.failed /\ ~b.failed
    BY <1>6 DEF SameIds
  <2>3. /\ m \in ReadResult /\ ~m.failed
        /\ m.pathsById = a.pathsById /\ m.pathIds = a.pathIds
        /\ m.fingerprints = a.fingerprints /\ m.fingerprintIds = a.fingerprintIds
        /\ m.entries = [a.entries EXCEPT ![h] = NoEntry]
    BY SMT, <1>0, <2>1, <2>2, ReadDeletedInvocation
  <2>4. /\ n \in ReadResult /\ ~n.failed
        /\ n.pathsById = b.pathsById /\ n.pathIds = b.pathIds
        /\ n.fingerprints = b.fingerprints /\ n.fingerprintIds = b.fingerprintIds
        /\ n.entries = [b.entries EXCEPT ![h] = NoEntry]
    BY SMT, <1>0, <2>1, <2>2, ReadDeletedInvocation
  <2> HIDE DEF m, n
  <2>5. SameIds(m, n)
    BY <2>2, <2>3, <2>4 DEF SameIds, ReadResult
  <2> QED BY <2>5 DEF m, n
<1> QED BY <1>1, <1>2, <1>3, <1>4, <1>5, <1>6, RecordKinds

\* A file is read the same whichever directories there are.
LEMMA ParseSame ==
  ASSUME Loops, NEW P, NEW Q, NEW file, IsLog(file)
  PROVE  SameIds(Parse(file, P), Parse(file, Q))
<1> DEFINE F(R, s) == Reading!Folded(R, NothingRead, s)
           S == {s \in Seq(Record) : IsRead(F(P, s)) /\ IsRead(F(Q, s)) /\ SameIds(F(P, s), F(Q, s))}
<1>0. IsRead(NothingRead) /\ SameIds(NothingRead, NothingRead)
  <2>1. IsLog(<<>>) /\ Parse(<<>>, P) = NothingRead
    BY SMT DEF IsLog, Parse
  <2> QED BY <2>1, ParseIsRead DEF SameIds
<1>1. <<>> \in S
  <2>1. F(P, <<>>) = NothingRead /\ F(Q, <<>>) = NothingRead
    BY Reading!FoldedEmpty
  <2> HIDE DEF F
  <2> QED BY SMT, <1>0, <2>1
<1>2. ASSUME NEW s \in Seq(Record), NEW e \in Record, s \in S PROVE Append(s, e) \in S
  <2>1. /\ Append(s, e) \in Seq(Record)
        /\ F(P, Append(s, e)) = Read(P, F(P, s), e)
        /\ F(Q, Append(s, e)) = Read(Q, F(Q, s), e)
    BY SMT, Reading!FoldedAppend DEF Loops
  <2> HIDE DEF F
  <2>2. IsRead(F(P, s)) /\ IsRead(F(Q, s)) /\ SameIds(F(P, s), F(Q, s))
    BY <1>2
  <2>3. IsRead(Read(P, F(P, s), e)) /\ IsRead(Read(Q, F(Q, s), e))
    BY <2>2, ReadKeeps
  <2>4. SameIds(Read(P, F(P, s), e), Read(Q, F(Q, s), e))
    BY <2>2, ReadSame
  <2> QED BY <2>1, <2>3, <2>4
<1>3. Seq(Record) \subseteq S
  <2> HIDE DEF S
  <2> QED BY <1>1, <1>2, Reading!ListInduction DEF Loops
<1>4. CASE file = <<>>
  BY <1>0, <1>4 DEF Parse
<1>5. CASE file # <<>>
  <2>1. Tail(file) \in Seq(Record)
    BY <1>5 DEF IsLog
  <2>2. SameIds(F(P, Tail(file)), F(Q, Tail(file)))
    BY Zenon, <1>3, <2>1
  <2> QED BY <1>5, <2>2 DEF Parse
<1> QED BY <1>4, <1>5

\* What a file starts with is read without failure if the whole file is.
LEMMA PrefixParses ==
  ASSUME Loops, NEW P, NEW a, NEW b \in Seq(Record), IsLog(a), a # <<>>, ~Parse(a \o b, P).failed
  PROVE  ~Parse(a, P).failed
<1> DEFINE Good(w) == IsLog(w) /\ w # <<>> /\ (Parse(a, P).failed => Parse(w, P).failed)
           S == {s \in Seq(Record) : Good(a \o s)}
<1>0. a \in Seq(Record \cup {Signature})
  BY DEF IsLog
<1>1. <<>> \in S
  <2>1. a \o <<>> = a
    BY SMT, <1>0
  <2>2. Good(a)
    OBVIOUS
  <2> HIDE DEF Good
  <2> QED BY SMT, <2>1, <2>2
<1>2. ASSUME NEW s \in Seq(Record), NEW e \in Record, s \in S PROVE Append(s, e) \in S
  <2>1. Append(s, e) \in Seq(Record) /\ a \o Append(s, e) = Append(a \o s, e)
    BY SMT, <1>0
  <2> DEFINE w == a \o s
  <2>2. Good(w)
    BY <1>2
  <2> HIDE DEF w
  <2>3. /\ IsLog(Append(w, e)) /\ Append(w, e) # <<>>
        /\ Parse(Append(w, e), P) = Read(P, Parse(w, P), e)
    BY <2>2, ParseAppends
  <2>4. Parse(w, P).failed => Read(P, Parse(w, P), e).failed
    BY DEF Read
  <2>5. Good(Append(w, e))
    BY <2>2, <2>3, <2>4
  <2> HIDE DEF Good
  <2> QED BY Zenon, <2>1, <2>5 DEF w
<1>3. Seq(Record) \subseteq S
  <2> HIDE DEF S
  <2> QED BY <1>1, <1>2, Reading!ListInduction DEF Loops
<1>4. Good(a \o b)
  BY <1>3
<1> DEFINE w == a \o b
<1>5. ~Parse(w, P).failed /\ Good(w)
  BY <1>4
<1> HIDE DEF w
<1> QED BY <1>5

-----------------------------------------------------------------------------
\* The types of a log, as Continues has them.
LogState ==
  [pathIds : [Paths -> Int], fingerprintIds : [Paths -> FingerprintId],
   pathEntryCount : Nat, fingerprintEntryCount : Nat, stream : Seq(Record \cup {Signature})]

\* The files that the lemmas are about.
IsFile(file) == file \in Seq(Record \cup {Signature})

\* Everything that is written is a record.
LEMMA RecordsAreRecords ==
  /\ \A p \in Paths : PathEntry(p) \in Record
  /\ \A id \in Nat : DirectoryEntry(id) \in Record /\ DeletedDirectory(id) \in Record
  /\ \A id \in Nat, fp \in Fingerprint : FingerprintEntry(id, fp) \in Record
  /\ \A h \in Hashes, outs \in Seq(Nat), ins \in Seq(Nat), deps \in Deps :
       InvocationEntry(h, outs, ins, deps) \in Record
  /\ \A h \in Hashes : DeletedInvocation(h) \in Record
<1>1. \A p \in Paths : PathEntry(p) \in Record
  BY DEF PathEntry, Record
<1>2. \A id \in Nat : DirectoryEntry(id) \in Record /\ DeletedDirectory(id) \in Record
  BY DEF DirectoryEntry, DeletedDirectory, Record
<1>3. \A id \in Nat, fp \in Fingerprint : FingerprintEntry(id, fp) \in Record
  BY DEF FingerprintEntry, Record
<1>4. \A h \in Hashes, outs \in Seq(Nat), ins \in Seq(Nat), deps \in Deps :
        InvocationEntry(h, outs, ins, deps) \in Record
  BY DEF InvocationEntry, Record
<1>5. \A h \in Hashes : DeletedInvocation(h) \in Record
  BY DEF DeletedInvocation, Record
<1> QED BY <1>1, <1>2, <1>3, <1>4, <1>5

\* What a log that writes to a file knows.
LEMMA WritesToFacts ==
  ASSUME Loops, NEW file, NEW l, WritesTo(l, file)
  PROVE  LET r == Parse(file \o l.stream, Paths) IN
         /\ l \in LogState /\ r \in ReadResult /\ ~r.failed /\ IdsAgree(l, r)
         /\ l.pathEntryCount = Len(r.pathsById)
         /\ l.fingerprintEntryCount = Len(r.fingerprints)
<1>1. IsRead(Parse(file \o l.stream, Paths))
  BY ParseIsRead DEF WritesTo
<1> QED BY <1>1 DEF WritesTo, Continues, LogState, IsRead, ReadResult

\* A log still writes to its file after one more record, if it has kept count of it.
LEMMA WriteAppends ==
  ASSUME Loops, NEW file, IsFile(file), NEW l, WritesTo(l, file), NEW e \in Record,
         NEW n \in LogState, n.stream = Append(l.stream, e),
         NEW r, r = Read(Paths, Parse(file \o l.stream, Paths), e), ~r.failed,
         n.pathEntryCount = Len(r.pathsById), n.fingerprintEntryCount = Len(r.fingerprints),
         IdsAgree(n, r)
  PROVE  WritesTo(n, file)
<1> DEFINE w == file \o l.stream
<1>1. l.stream \in Seq(Record \cup {Signature})
  BY DEF WritesTo, Continues
<1>2. file \o n.stream = Append(w, e)
  BY SMT, <1>1 DEF IsFile
<1>3. IsLog(w) /\ w # <<>> /\ r = Read(Paths, Parse(w, Paths), e)
  BY DEF WritesTo
<1> HIDE DEF w
<1>4. /\ IsLog(Append(w, e)) /\ Append(w, e) # <<>>
      /\ Parse(Append(w, e), Paths) = r
  BY <1>3, ParseAppends
<1>5. Continues(n, r)
  BY DEF Continues, LogState
<1> QED BY <1>2, <1>4, <1>5 DEF WritesTo

\* ensurePathIsWritten gives the path an id, that of the file.
LEMMA PathIsWritten ==
  ASSUME Loops, NEW file, IsFile(file), NEW l, WritesTo(l, file), NEW p \in Paths
  PROVE  LET n == ensurePathIsWritten(l, p) IN
         /\ WritesTo(n, file) /\ n.pathIds[p] # NoId
         /\ n.fingerprintEntryCount = l.fingerprintEntryCount
<1> DEFINE n == ensurePathIsWritten(l, p)
           r == Parse(file \o l.stream, Paths)
           e == PathEntry(p)
           m == Read(Paths, r, e)
<1>1. /\ l \in LogState /\ r \in ReadResult /\ ~r.failed /\ IdsAgree(l, r)
      /\ l.pathEntryCount = Len(r.pathsById) /\ l.fingerprintEntryCount = Len(r.fingerprints)
  BY WritesToFacts
<1>2. CASE l.pathIds[p] # NoId
  BY <1>2 DEF ensurePathIsWritten
<1>3. CASE l.pathIds[p] = NoId
  <2>1. e \in Record
    BY RecordsAreRecords
  <2>2. /\ l.pathIds \in [Paths -> Int] /\ l.fingerprintIds \in [Paths -> FingerprintId]
        /\ l.pathEntryCount \in Nat /\ l.fingerprintEntryCount \in Nat
        /\ l.stream \in Seq(Record \cup {Signature}) /\ r.pathsById \in Seq(Paths)
    BY <1>1 DEF LogState, ReadResult
  <2>3. /\ m \in ReadResult /\ ~m.failed /\ AddsPath(m, r, p)
        /\ m.fingerprints = r.fingerprints
    BY <1>1, ReadPath
  <2> DEFINE stream == Append(l.stream, e)
             ids == [l.pathIds EXCEPT ![p] = l.pathEntryCount]
             count == l.pathEntryCount + 1
  <2> HIDE DEF r, m, e
  <2>4. /\ stream \in Seq(Record \cup {Signature}) /\ ids \in [Paths -> Int] /\ count \in Nat
        /\ ids[p] # NoId
    BY SMT, <2>1, <2>2 DEF NoId
  <2>5. n = [l EXCEPT !.stream = stream, !.pathIds = ids, !.pathEntryCount = count]
    BY Zenon, <1>1, <1>3, <2>2 DEF ensurePathIsWritten, Write, LogState, e
  <2> HIDE DEF stream, ids, count, n
  <2>6. /\ n \in LogState /\ n.stream = stream /\ n.pathIds = ids /\ n.pathEntryCount = count
        /\ n.fingerprintIds = l.fingerprintIds
        /\ n.fingerprintEntryCount = l.fingerprintEntryCount
    BY Zenon, <1>1, <2>4, <2>5 DEF LogState
  <2>7. IdsAgree(n, m)
    BY <1>1, <2>2, <2>3, <2>6, PathAdded DEF AddsPath, ids
  <2>8. n.pathEntryCount = Len(m.pathsById) /\ n.fingerprintEntryCount = Len(m.fingerprints)
    BY SMT, <1>1, <2>2, <2>3, <2>6 DEF AddsPath, count
  <2>9. WritesTo(n, file)
    BY <2>1, <2>3, <2>6, <2>7, <2>8, WriteAppends DEF stream, m, r
  <2> QED BY <2>4, <2>6, <2>9 DEF n
<1> QED BY <1>2, <1>3

\* A record that adds neither a path nor a fingerprint leaves the ids as they are.
LEMMA PlainRecordIsWritten ==
  ASSUME Loops, NEW file, IsFile(file), NEW l, WritesTo(l, file), NEW e \in Record, NEW r, NEW m,
         r = Parse(file \o l.stream, Paths), m = Read(Paths, r, e), ~m.failed,
         m.pathsById = r.pathsById, m.fingerprints = r.fingerprints
  PROVE  /\ WritesTo(Write(l, e), file)
         /\ Write(l, e).fingerprintEntryCount = l.fingerprintEntryCount
<1> DEFINE n == Write(l, e)
           stream == Append(l.stream, e)
<1>1. /\ l \in LogState /\ r \in ReadResult /\ IdsAgree(l, r)
      /\ l.pathEntryCount = Len(r.pathsById) /\ l.fingerprintEntryCount = Len(r.fingerprints)
  BY WritesToFacts
<1>2. stream \in Seq(Record \cup {Signature})
  BY SMT, <1>1 DEF LogState
<1>3. n = [l EXCEPT !.stream = stream]
  BY DEF Write
<1> HIDE DEF stream, n
<1>4. /\ n \in LogState /\ n.stream = stream
      /\ n.pathIds = l.pathIds /\ n.fingerprintIds = l.fingerprintIds
      /\ n.pathEntryCount = l.pathEntryCount
      /\ n.fingerprintEntryCount = l.fingerprintEntryCount
  BY Zenon, <1>1, <1>2, <1>3 DEF LogState
<1>5. IdsAgree(n, m)
  BY <1>1, <1>4 DEF IdsAgree, IsPathRef, PathOf
<1>6. WritesTo(n, file)
  BY <1>1, <1>4, <1>5, WriteAppends DEF stream
<1> QED BY <1>4, <1>6 DEF n

\* A directory record refers to a path of the file.
LEMMA DirectoryIsWritten ==
  ASSUME Loops, NEW file, IsFile(file), NEW l, WritesTo(l, file), NEW p \in Paths,
         l.pathIds[p] # NoId,
         NEW e \in {DirectoryEntry(l.pathIds[p]), DeletedDirectory(l.pathIds[p])}
  PROVE  /\ WritesTo(Write(l, e), file)
         /\ Write(l, e).fingerprintEntryCount = l.fingerprintEntryCount
<1> DEFINE r == Parse(file \o l.stream, Paths)
           m == Read(Paths, r, e)
           id == l.pathIds[p]
<1>1. l \in LogState /\ r \in ReadResult /\ ~r.failed /\ IdsAgree(l, r)
  BY WritesToFacts
<1>2. IsPathRef(r, id) /\ id \in Nat
  BY SMT, <1>1 DEF IdsAgree, IsPathRef
<1>3. e \in Record
  BY <1>2, RecordsAreRecords
<1>4. e \in {DirectoryEntry(id), DeletedDirectory(id)}
  OBVIOUS
<1> HIDE DEF r, id
<1>5. ~m.failed /\ m.pathsById = r.pathsById /\ m.fingerprints = r.fingerprints
  BY SMT, <1>1, <1>2, <1>4, ReadDirectory
<1> HIDE DEF m
<1> QED BY SMT, <1>3, <1>5, PlainRecordIsWritten DEF m, r

\* A fingerprint record refers to a path of the file, and gets the next id.
LEMMA FingerprintIsWritten ==
  ASSUME Loops, NEW file, IsFile(file), NEW l, WritesTo(l, file), NEW f \in LoggedFile,
         l.pathIds[f.path] # NoId
  PROVE  LET n == writeFingerprintEntry(l, f) IN
         /\ WritesTo(n, file)
         /\ n.fingerprintEntryCount = l.fingerprintEntryCount + 1
<1> DEFINE n == writeFingerprintEntry(l, f)
           r == Parse(file \o l.stream, Paths)
           id == l.pathIds[f.path]
           e == FingerprintEntry(id, f.fp)
           m == Read(Paths, r, e)
<1>1. /\ l \in LogState /\ r \in ReadResult /\ ~r.failed /\ IdsAgree(l, r)
      /\ l.pathEntryCount = Len(r.pathsById) /\ l.fingerprintEntryCount = Len(r.fingerprints)
  BY WritesToFacts
<1>2. f.path \in Paths /\ f.fp \in Fingerprint
  BY DEF LoggedFile
<1>3. IsPathRef(r, id) /\ PathOf(r, id) = f.path /\ id \in Nat
  BY SMT, <1>1, <1>2 DEF IdsAgree, IsPathRef
<1>4. e \in Record
  BY <1>2, <1>3, RecordsAreRecords
<1>5. /\ l.pathIds \in [Paths -> Int] /\ l.fingerprintIds \in [Paths -> FingerprintId]
      /\ l.pathEntryCount \in Nat /\ l.fingerprintEntryCount \in Nat
      /\ l.stream \in Seq(Record \cup {Signature}) /\ r.fingerprints \in Seq(LoggedFile)
  BY <1>1 DEF LogState, ReadResult
<1> HIDE DEF r, id
<1>6. /\ m \in ReadResult /\ ~m.failed /\ m.pathsById = r.pathsById
      /\ AddsFingerprint(m, r, f.path, f.fp)
  <2>1. /\ m \in ReadResult /\ (m.failed <=> ~IsPathRef(r, id))
        /\ m.pathsById = r.pathsById /\ m.pathIds = r.pathIds
        /\ m.entries = r.entries /\ m.dirs = r.dirs
        /\ m.failed => m.fingerprints = r.fingerprints /\ m.fingerprintIds = r.fingerprintIds
        /\ ~m.failed => AddsFingerprint(m, r, PathOf(r, id), f.fp)
    BY <1>1, <1>2, <1>3, ReadFingerprint, Zenon
  <2> QED BY Zenon, <1>3, <2>1
<1> HIDE DEF m
<1> DEFINE stream == Append(l.stream, e)
           i == [id |-> l.fingerprintEntryCount, fp |-> f.fp]
           ids == [l.fingerprintIds EXCEPT ![f.path] = i]
           count == l.fingerprintEntryCount + 1
<1>7. i \in FingerprintId
  BY SMT, <1>2, <1>5 DEF FingerprintId
<1>8. stream \in Seq(Record \cup {Signature}) /\ count \in Nat
  BY SMT, <1>4, <1>5
<1>9. ids \in [Paths -> FingerprintId]
  <2> HIDE DEF i
  <2> QED BY <1>2, <1>5, <1>7
<1>10. n = [l EXCEPT !.stream = stream, !.fingerprintEntryCount = count, !.fingerprintIds = ids]
  BY Zenon, <1>1, <1>5 DEF writeFingerprintEntry, Write, LogState, id
<1> HIDE DEF stream, count, ids, n, e
<1>11. /\ n \in LogState /\ n.stream = stream /\ n.fingerprintIds = ids
       /\ n.fingerprintEntryCount = count
       /\ n.pathIds = l.pathIds /\ n.pathEntryCount = l.pathEntryCount
  BY ZenonT(30), <1>1, <1>8, <1>9, <1>10 DEF LogState
<1>12. IdsAgree(n, m)
  <2>1. NextFingerprintId(n, l, r, f.path, f.fp) /\ NextFingerprint(m, r, f.path, f.fp)
    BY <1>1, <1>6, <1>11 DEF AddsFingerprint, NextFingerprintId, ids
  <2> QED BY ZenonT(30), <1>1, <1>2, <1>5, <1>6, <1>11, <2>1, FingerprintAdded
<1>13. n.pathEntryCount = Len(m.pathsById) /\ n.fingerprintEntryCount = Len(m.fingerprints)
  <2> DEFINE g == [path |-> f.path, fp |-> f.fp]
  <2>1. m.fingerprints = Append(r.fingerprints, g) /\ g \in LoggedFile
    BY <1>2, <1>6 DEF AddsFingerprint, NextFingerprint, LoggedFile
  <2> HIDE DEF g
  <2> QED BY SMT, <1>1, <1>5, <1>6, <1>11, <2>1 DEF count
<1>14. WritesTo(n, file)
  BY ZenonT(30), <1>4, <1>6, <1>11, <1>12, <1>13, WriteAppends DEF stream, m, r
<1> QED BY <1>11, <1>14 DEF n, count

-----------------------------------------------------------------------------
\* The id that ensureRecentFingerprintIsWritten returns is one of the file.
LEMMA RecentFingerprintIsWritten ==
  ASSUME Loops, NEW file, IsFile(file), NEW l, WritesTo(l, file), NEW f \in LoggedFile,
         NEW asDirectory \in BOOLEAN
  PROVE  LET one == ensureRecentFingerprintIsWritten(l, f, asDirectory) IN
         /\ WritesTo(one.log, file)
         /\ l.fingerprintEntryCount <= one.log.fingerprintEntryCount
         /\ one.id # NoId => one.id \in Nat /\ one.id < one.log.fingerprintEntryCount
<1> DEFINE one == ensureRecentFingerprintIsWritten(l, f, asDirectory)
           w == ensurePathIsWritten(l, f.path)
           old == w.fingerprintIds[f.path]
           p == f.path
           n == writeFingerprintEntry(w, f)
           d == writeDirectoryEntry(w, p)
<1>1. p \in Paths
  BY DEF LoggedFile
<1>2. /\ WritesTo(w, file) /\ w.pathIds[p] # NoId
      /\ w.fingerprintEntryCount = l.fingerprintEntryCount
  BY <1>1, PathIsWritten
<1>3. \/ one = [log |-> w, id |-> old.id] /\ old.id # NoId
      \/ one = [log |-> d, id |-> NoId]
      \/ one = [log |-> w, id |-> NoId]
      \/ one = [log |-> n, id |-> w.fingerprintEntryCount]
  BY Zenon DEF ensureRecentFingerprintIsWritten, writeFingerprintOrDirectoryEntry
<1> HIDE DEF w, one, n, d
<1>4. w.fingerprintEntryCount \in Nat
      /\ (old.id # NoId => old.id \in 0..(w.fingerprintEntryCount - 1))
  <2> DEFINE r == Parse(file \o w.stream, Paths)
  <2>1. w \in LogState /\ IdsAgree(w, r) /\ w.fingerprintEntryCount = Len(r.fingerprints)
    BY <1>2, WritesToFacts
  <2> HIDE DEF r
  <2> QED BY Zenon, <1>1, <2>1 DEF LogState, IdsAgree
<1>5. WritesTo(n, file) /\ n.fingerprintEntryCount = w.fingerprintEntryCount + 1
  BY <1>2, FingerprintIsWritten DEF n
<1>6. WritesTo(d, file) /\ d.fingerprintEntryCount = w.fingerprintEntryCount
  BY <1>1, <1>2, DirectoryIsWritten DEF d, writeDirectoryEntry
<1> HIDE DEF old
<1>7. CASE one = [log |-> w, id |-> old.id] /\ old.id # NoId
  BY SMT, <1>2, <1>4, <1>7 DEF one
<1>8. CASE one = [log |-> d, id |-> NoId]
  BY SMT, <1>2, <1>4, <1>6, <1>8 DEF one
<1>9. CASE one = [log |-> w, id |-> NoId]
  BY SMT, <1>2, <1>4, <1>9 DEF one
<1>10. CASE one = [log |-> n, id |-> w.fingerprintEntryCount]
  BY SMT, <1>2, <1>4, <1>5, <1>10 DEF one
<1> QED BY ZenonT(30), <1>3, <1>7, <1>8, <1>9, <1>10

\* The ids are of fingerprints that the file of l has.
RefersTo(ids, l) ==
  ids \in Seq(Nat) /\ \A i \in DOMAIN ids : ids[i] < l.fingerprintEntryCount

\* All the ids that are written for the files of a command are of the file.
LEMMA FilesAreWritten ==
  ASSUME Loops, NEW file, IsFile(file), NEW l, WritesTo(l, file), NEW files \in Seq(LoggedFile),
         NEW asDirectory \in BOOLEAN
  PROVE  LET all == WriteFiles(l, files, asDirectory) IN
         /\ WritesTo(all.log, file) /\ RefersTo(all.ids, all.log)
         /\ l.fingerprintEntryCount <= all.log.fingerprintEntryCount
<1> DEFINE base == [log |-> l, ids |-> <<>>]
           F(s) == Writing!Folded(asDirectory, base, s)
           Good(x) == /\ WritesTo(x.log, file) /\ RefersTo(x.ids, x.log)
                      /\ l.fingerprintEntryCount <= x.log.fingerprintEntryCount
           S == {s \in Seq(LoggedFile) : Good(F(s))}
<1>0. ASSUME NEW x, WritesTo(x, file) PROVE x.fingerprintEntryCount \in Nat
  BY <1>0, WritesToFacts DEF LogState
<1>1. <<>> \in S
  <2>1. F(<<>>) = base
    BY Writing!FoldedEmpty
  <2>2. base.log = l /\ base.ids = <<>>
    OBVIOUS
  <2>3. RefersTo(<<>>, l) /\ l.fingerprintEntryCount <= l.fingerprintEntryCount
    BY SMT, <1>0 DEF RefersTo
  <2> HIDE DEF F, base
  <2>4. Good(base)
    BY <2>2, <2>3
  <2> HIDE DEF Good
  <2> QED BY SMT, <2>1, <2>4
<1>2. ASSUME NEW s \in Seq(LoggedFile), NEW f \in LoggedFile, s \in S PROVE Append(s, f) \in S
  <2> DEFINE x == F(s)
             one == ensureRecentFingerprintIsWritten(x.log, f, asDirectory)
             ids == IF one.id = NoId THEN x.ids ELSE Append(x.ids, one.id)
             y == [log |-> one.log, ids |-> ids]
  <2>1. Append(s, f) \in Seq(LoggedFile) /\ F(Append(s, f)) = WriteFile(asDirectory, x, f)
    BY SMT, Writing!FoldedAppend DEF Loops
  <2>2. WriteFile(asDirectory, x, f) = y
    BY DEF WriteFile
  <2>3. Good(x)
    BY <1>2
  <2> HIDE DEF F, x, base
  <2>4. /\ WritesTo(one.log, file)
        /\ x.log.fingerprintEntryCount <= one.log.fingerprintEntryCount
        /\ one.id # NoId => one.id \in Nat /\ one.id < one.log.fingerprintEntryCount
    BY <2>3, RecentFingerprintIsWritten
  <2> HIDE DEF one
  <2>5. /\ x.log.fingerprintEntryCount \in Nat /\ one.log.fingerprintEntryCount \in Nat
        /\ l.fingerprintEntryCount \in Nat
    BY <1>0, <2>3, <2>4
  <2>6. RefersTo(ids, one.log)
    <3>1. CASE one.id = NoId
      BY SMT, <2>3, <2>4, <2>5, <3>1 DEF RefersTo
    <3>2. CASE one.id # NoId
      <4>1. ids = Append(x.ids, one.id) /\ x.ids \in Seq(Nat) /\ one.id \in Nat
        BY <2>3, <2>4, <3>2 DEF RefersTo
      <4> HIDE DEF ids
      <4>2. /\ ids \in Seq(Nat) /\ DOMAIN ids = 1..(Len(x.ids) + 1)
            /\ ids[Len(x.ids) + 1] = one.id
            /\ \A i \in 1..Len(x.ids) : ids[i] = x.ids[i]
        BY SMT, <4>1
      <4>3. \A i \in 1..Len(x.ids) : x.ids[i] \in Nat /\ x.ids[i] < x.log.fingerprintEntryCount
        BY SMT, <2>3, <4>1 DEF RefersTo
      <4>4. ASSUME NEW i \in DOMAIN ids PROVE ids[i] < one.log.fingerprintEntryCount
        <5>1. Len(x.ids) \in Nat
          BY SMT, <4>1
        <5>2. CASE i \in 1..Len(x.ids)
          <6>1. ids[i] = x.ids[i] /\ x.ids[i] \in Nat /\ x.ids[i] < x.log.fingerprintEntryCount
            BY <4>2, <4>3, <5>2, Zenon
          <6> QED BY SMT, <2>4, <2>5, <6>1
        <5>3. CASE i = Len(x.ids) + 1
          BY <2>4, <3>2, <4>2, <5>3
        <5> QED BY SMT, <4>2, <5>1, <5>2, <5>3
      <4> QED BY <4>2, <4>4 DEF RefersTo
    <3> QED BY <3>1, <3>2
  <2>7. y.log = one.log /\ y.ids = ids
    OBVIOUS
  <2> HIDE DEF y, ids
  <2>8. Good(y)
    BY SMT, <2>3, <2>4, <2>5, <2>6, <2>7
  <2> HIDE DEF Good
  <2> QED BY <2>1, <2>2, <2>8
<1>3. Seq(LoggedFile) \subseteq S
  <2> HIDE DEF S
  <2> QED BY <1>1, <1>2, Writing!ListInduction DEF Loops
<1>4. Good(F(files))
  BY <1>3
<1> QED BY <1>4 DEF WriteFiles

\* What holds of the ids of the outputs and of those of the inputs holds of both.
LEMMA RefsOfBoth ==
  ASSUME NEW outs \in Seq(Nat), NEW ins \in Seq(Nat), NEW n,
         \A i \in DOMAIN outs : outs[i] < n, \A i \in DOMAIN ins : ins[i] < n
  PROVE  \A i \in DOMAIN (outs \o ins) : (outs \o ins)[i] < n
<1> DEFINE ids == outs \o ins
<1>1. /\ DOMAIN ids = 1..(Len(outs) + Len(ins)) /\ DOMAIN outs = 1..Len(outs)
      /\ DOMAIN ins = 1..Len(ins) /\ Len(outs) \in Nat /\ Len(ins) \in Nat
  BY SMT
<1>2. ASSUME NEW i \in DOMAIN ids PROVE ids[i] < n
  <2>1. CASE i <= Len(outs)
    <3>1. i \in DOMAIN outs /\ ids[i] = outs[i]
      BY SMT, <1>1, <2>1
    <3> QED BY <3>1
  <2>2. CASE ~(i <= Len(outs))
    <3>1. i - Len(outs) \in DOMAIN ins /\ ids[i] = ins[i - Len(outs)]
      BY SMT, <1>1, <2>2
    <3> QED BY <3>1
  <2> QED BY <2>1, <2>2
<1> QED BY <1>2

\* ranCommand leaves a log that writes to its file.
LEMMA RanCommandWrites ==
  ASSUME Loops, NEW file, IsFile(file), NEW l, WritesTo(l, file), NEW h \in Hashes, NEW c,
         c.outs \in Seq(LoggedFile), c.ins \in Seq(LoggedFile), c.deps \in Deps
  PROVE  WritesTo(ranCommand(l, h, c), file)
<1> DEFINE outs == WriteFiles(l, c.outs, TRUE)
           ins == WriteFiles(outs.log, c.ins, FALSE)
           e == InvocationEntry(h, outs.ids, ins.ids, c.deps)
           r == Parse(file \o ins.log.stream, Paths)
           m == Read(Paths, r, e)
<1>1. WritesTo(outs.log, file) /\ RefersTo(outs.ids, outs.log)
  BY ZenonT(30), FilesAreWritten
<1>2. ranCommand(l, h, c) = Write(ins.log, e)
  BY DEF ranCommand
<1> HIDE DEF outs
<1>3. /\ WritesTo(ins.log, file) /\ RefersTo(ins.ids, ins.log)
      /\ outs.log.fingerprintEntryCount <= ins.log.fingerprintEntryCount
  BY ZenonT(30), <1>1, FilesAreWritten
<1> HIDE DEF ins
<1>4. /\ r \in ReadResult /\ ~r.failed /\ ins.log.fingerprintEntryCount = Len(r.fingerprints)
      /\ ins.log \in LogState /\ outs.log \in LogState
  BY <1>1, <1>3, WritesToFacts
<1> HIDE DEF r
<1>5. /\ outs.log.fingerprintEntryCount \in Nat /\ ins.log.fingerprintEntryCount \in Nat
      /\ outs.ids \in Seq(Nat) /\ ins.ids \in Seq(Nat)
  BY <1>1, <1>3, <1>4 DEF LogState, RefersTo
<1>6. AreFingerprintRefs(r, outs.ids \o ins.ids)
  <2>1. \A i \in DOMAIN outs.ids : outs.ids[i] \in Nat
    BY SMT, <1>5
  <2>2. \A i \in DOMAIN outs.ids : outs.ids[i] < Len(r.fingerprints)
    BY SMT, <1>1, <1>3, <1>4, <1>5, <2>1 DEF RefersTo
  <2>3. \A i \in DOMAIN ins.ids : ins.ids[i] < Len(r.fingerprints)
    BY <1>3, <1>4 DEF RefersTo
  <2> QED BY Zenon, <1>5, <2>2, <2>3, RefsOfBoth DEF AreFingerprintRefs
<1>7. e \in Record
  BY <1>5, RecordsAreRecords
<1>8. /\ m \in ReadResult /\ (m.failed <=> ~AreFingerprintRefs(r, outs.ids \o ins.ids))
      /\ m.pathsById = r.pathsById /\ m.pathIds = r.pathIds
      /\ m.fingerprints = r.fingerprints /\ m.fingerprintIds = r.fingerprintIds
      /\ m.dirs = r.dirs
      /\ m.failed => m.entries = r.entries
      /\ ~m.failed => SetsEntry(m, r, h, outs.ids, ins.ids, c.deps)
  BY <1>4, <1>5, ReadInvocation, Zenon
<1> HIDE DEF e, m
<1>9. WritesTo(Write(ins.log, e), file)
  BY ZenonT(30), <1>3, <1>6, <1>7, <1>8, PlainRecordIsWritten DEF m, r
<1> QED BY <1>2, <1>9

\* cleanedCommand does so too.
LEMMA CleanedCommandWrites ==
  ASSUME Loops, NEW file, IsFile(file), NEW l, WritesTo(l, file), NEW h \in Hashes
  PROVE  WritesTo(cleanedCommand(l, h), file)
<1> DEFINE e == DeletedInvocation(h)
           r == Parse(file \o l.stream, Paths)
           m == Read(Paths, r, e)
<1>1. r \in ReadResult /\ ~r.failed
  BY WritesToFacts
<1>2. e \in Record
  BY RecordsAreRecords
<1> HIDE DEF r
<1>3. /\ ~m.failed /\ m.pathsById = r.pathsById /\ m.fingerprints = r.fingerprints
      /\ m.entries = [r.entries EXCEPT ![h] = NoEntry]
  BY SMT, <1>1, ReadDeletedInvocation
<1> HIDE DEF m
<1> QED BY ZenonT(30), <1>2, <1>3, PlainRecordIsWritten DEF m, r, cleanedCommand

\* And so do createdDirectory, removedDirectory and leakMemory.
LEMMA DirectoriesWrite ==
  ASSUME Loops, NEW file, IsFile(file), NEW l, WritesTo(l, file), NEW p \in Paths
  PROVE  WritesTo(createdDirectory(l, p), file) /\ WritesTo(removedDirectory(l, p), file)
<1> DEFINE w == ensurePathIsWritten(l, p)
<1>1. WritesTo(w, file) /\ w.pathIds[p] # NoId
  BY PathIsWritten
<1>2. createdDirectory(l, p) = Write(w, DirectoryEntry(w.pathIds[p]))
  BY DEF createdDirectory, writeDirectoryEntry
<1> HIDE DEF w
<1>3. WritesTo(createdDirectory(l, p), file)
  BY SMT, <1>1, <1>2, DirectoryIsWritten
<1>4. WritesTo(removedDirectory(l, p), file)
  BY DirectoryIsWritten DEF removedDirectory
<1> QED BY <1>3, <1>4

\* leakMemory forgets ids, and counts on: what it keeps is still that of the file.
LEMMA LeakMemoryWrites ==
  ASSUME Loops, NEW file, NEW l, WritesTo(l, file)
  PROVE  WritesTo(leakMemory(l), file)
<1> DEFINE n == leakMemory(l)
           r == Parse(file \o l.stream, Paths)
<1>1. /\ l \in LogState /\ ~r.failed
      /\ l.pathEntryCount = Len(r.pathsById) /\ l.fingerprintEntryCount = Len(r.fingerprints)
  BY WritesToFacts
<1> DEFINE pathIds == [p \in Paths |-> NoId]
           fingerprintIds == [p \in Paths |-> NoFingerprint]
<1>2. pathIds \in [Paths -> Int] /\ \A p \in Paths : pathIds[p] = NoId
  BY SMT DEF NoId
<1>3. NoFingerprint \in FingerprintId /\ NoFingerprint.id = NoId
  BY SMT DEF NoFingerprint, NoId, FingerprintId
<1>4. fingerprintIds \in [Paths -> FingerprintId]
      /\ \A p \in Paths : fingerprintIds[p] = NoFingerprint
  BY <1>3
<1>5. n = [l EXCEPT !.pathIds = pathIds, !.fingerprintIds = fingerprintIds]
  BY DEF leakMemory
<1> HIDE DEF n, pathIds, fingerprintIds, r
<1>6. /\ n \in LogState /\ n.pathIds = pathIds /\ n.fingerprintIds = fingerprintIds
      /\ n.stream = l.stream /\ n.pathEntryCount = l.pathEntryCount
      /\ n.fingerprintEntryCount = l.fingerprintEntryCount
  BY ZenonT(30), <1>1, <1>2, <1>4, <1>5 DEF LogState
<1>7. IdsAgree(n, r)
  BY <1>2, <1>3, <1>4, <1>6 DEF IdsAgree
<1>8. Continues(n, r)
  BY <1>1, <1>6, <1>7 DEF Continues, LogState
<1> QED BY <1>6, <1>8 DEF WritesTo, n, r

-----------------------------------------------------------------------------
\* The ids that a process takes over are those of what it has read.
LEMMA ParseDataContinues ==
  ASSUME NEW r, IsRead(r), ~r.failed, NEW q, SameIds(q, r)
  PROVE  Continues(ParseData(r), q) /\ ParseData(r).stream = <<>>
<1> DEFINE l == ParseData(r)
<1>1. /\ r.pathIds \in [Paths -> Int] /\ r.fingerprintIds \in [Paths -> FingerprintId]
      /\ Len(r.pathsById) \in Nat /\ Len(r.fingerprints) \in Nat
  BY SMT DEF IsRead
<1>2. /\ l.pathIds = r.pathIds /\ l.fingerprintIds = r.fingerprintIds /\ l.stream = <<>>
      /\ l.pathEntryCount = Len(r.pathsById) /\ l.fingerprintEntryCount = Len(r.fingerprints)
  BY DEF ParseData
<1>3. l \in LogState
  BY SMT, <1>1 DEF ParseData, LogState
<1> HIDE DEF l
<1>4. IdsAgree(l, q)
  BY ZenonT(30), <1>2 DEF IdsAgree, IsRead, SameIds, IsPathRef, PathOf
<1>5. Continues(l, q)
  BY ZenonT(30), <1>2, <1>3, <1>4 DEF Continues, LogState, SameIds
<1> QED BY <1>2, <1>5 DEF l

\* A new log writes to the file it was made for, which is one it has read, or
\* which is empty and gets its signature.
LEMMA NewLogWrites ==
  ASSUME NEW file, IsLog(file), NEW l, Continues(l, Parse(file, Paths)), l.stream = <<>>
  PROVE  WritesTo(NewLog(l, file), file)
<1>0. IsFile(file) /\ l \in LogState
  BY DEF IsLog, IsFile, Continues, LogState
<1>1. CASE file # <<>>
  <2>1. NewLog(l, file) = l /\ file \o l.stream = file
    BY SMT, <1>0, <1>1 DEF NewLog, IsFile
  <2> QED BY Zenon, <1>1, <2>1 DEF WritesTo
<1>2. CASE file = <<>>
  <2> DEFINE n == NewLog(l, file)
             stream == <<Signature>>
  <2>1. n = [l EXCEPT !.stream = stream]
    <3>1. Append(l.stream, Signature) = stream
      BY SMT
    <3> QED BY <1>2, <3>1 DEF NewLog, Write
  <2>2. stream \in Seq(Record \cup {Signature}) /\ file \o stream = stream /\ stream # <<>>
    BY SMT, <1>2
  <2>3. IsLog(stream) /\ Parse(stream, Paths) = NothingRead
    BY ParseSignature
  <2>4. Parse(file, Paths) = NothingRead
    BY <1>2 DEF Parse
  <2> HIDE DEF stream, n
  <2>5. /\ n \in LogState /\ n.stream = stream
        /\ n.pathIds = l.pathIds /\ n.fingerprintIds = l.fingerprintIds
        /\ n.pathEntryCount = l.pathEntryCount
        /\ n.fingerprintEntryCount = l.fingerprintEntryCount
    BY <1>0, <2>1, <2>2 DEF LogState
  <2>6. Continues(l, NothingRead)
    BY <2>4
  <2>7. Continues(n, NothingRead)
    BY ZenonT(30), <2>5, <2>6 DEF Continues, IdsAgree, LogState
  <2> QED BY Zenon, <2>2, <2>3, <2>5, <2>7 DEF WritesTo, n
<1> QED BY <1>1, <1>2

\* The command that an entry stands for is one that can be logged.
LEMMA ResolvedIsLoggable ==
  ASSUME NEW r, IsRead(r), NEW h \in Known(r)
  PROVE  LET c == Resolve(r, r.entries[h]) IN
         c.outs \in Seq(LoggedFile) /\ c.ins \in Seq(LoggedFile) /\ c.deps \in Deps
<1> DEFINE e == r.entries[h]
           outs == [i \in DOMAIN e.outs |-> r.fingerprints[e.outs[i] + 1]]
           ins == [i \in DOMAIN e.ins |-> r.fingerprints[e.ins[i] + 1]]
<1>1. e \in Entry /\ r.fingerprints \in Seq(LoggedFile)
  BY DEF IsRead, Known
<1>2. AreFingerprintRefs(r, e.outs \o e.ins)
  BY DEF IsRead
<1>3. Resolve(r, e) = [outs |-> outs, ins |-> ins, deps |-> e.deps]
  BY DEF Resolve
<1> HIDE DEF e
<1>4. e.outs \in Seq(Nat) /\ e.ins \in Seq(Nat) /\ e.deps \in Deps
  BY <1>1 DEF Entry
<1>5. ASSUME NEW a \in Seq(Nat), NEW b \in Seq(Nat), AreFingerprintRefs(r, a \o b)
      PROVE  AreFingerprintRefs(r, a) /\ AreFingerprintRefs(r, b)
  <2>1. \A i \in DOMAIN a : i \in DOMAIN (a \o b) /\ (a \o b)[i] = a[i]
    BY SMT
  <2>2. \A i \in DOMAIN b : Len(a) + i \in DOMAIN (a \o b) /\ (a \o b)[Len(a) + i] = b[i]
    BY SMT
  <2> QED BY Zenon, <1>5, <2>1, <2>2 DEF AreFingerprintRefs
<1>6. ASSUME NEW a \in Seq(Nat), AreFingerprintRefs(r, a)
      PROVE  [i \in DOMAIN a |-> r.fingerprints[a[i] + 1]] \in Seq(LoggedFile)
  <2>1. DOMAIN a = 1..Len(a) /\ Len(a) \in Nat /\ \A i \in DOMAIN a : a[i] \in Nat
    BY SMT
  <2>2. \A i \in DOMAIN a : r.fingerprints[a[i] + 1] \in LoggedFile
    BY SMT, <1>1, <1>6, <2>1 DEF AreFingerprintRefs
  <2> QED BY SMT, <2>1, <2>2
<1>7. outs \in Seq(LoggedFile) /\ ins \in Seq(LoggedFile)
  BY Zenon, <1>2, <1>4, <1>5, <1>6
<1> HIDE DEF outs, ins
<1> QED BY SMT, <1>3, <1>4, <1>7 DEF e

\* The orders of a set are sequences of its elements.
LEMMA OrdersAreLists ==
  ASSUME NEW S, NEW s \in Orders(S)
  PROVE  s \in Seq(S)
<1>1. PICK n \in 0..Cardinality(S) : s \in Bijection(1..n, S)
  BY DEF Orders
<1>2. n \in Nat /\ s \in [1..n -> S]
  BY SMT, <1>1 DEF Bijection, Injection
<1> QED BY SMT, <1>2

\* Recompaction writes a whole log into an empty file.
LEMMA RecompactedWrites ==
  ASSUME Loops, NEW r, IsRead(r), NEW dirs \in Seq(r.dirs), NEW hashes \in Seq(Known(r))
  PROVE  WritesTo(Recompacted(r, dirs, hashes), <<>>)
<1> DEFINE file == <<>>
           base == NewLog(ParseData(NothingRead), file)
           D(s) == RelogDirectories!Folded(r, base, s)
           S == {s \in Seq(r.dirs) : WritesTo(D(s), file)}
           middle == D(dirs)
           C(s) == RelogCommands!Folded(r, middle, s)
           T == {s \in Seq(Known(r)) : WritesTo(C(s), file)}
<1>0. IsLog(file) /\ Parse(file, Paths) = NothingRead /\ IsFile(file)
  BY SMT DEF IsLog, Parse, IsFile
<1>1. WritesTo(base, file)
  <2>1. IsRead(NothingRead) /\ ~NothingRead.failed /\ SameIds(NothingRead, NothingRead)
    BY ZenonT(30), <1>0, ParseIsRead DEF NothingRead, SameIds
  <2>2. Continues(ParseData(NothingRead), NothingRead) /\ ParseData(NothingRead).stream = <<>>
    BY <2>1, ParseDataContinues
  <2> HIDE DEF file
  <2> QED BY <1>0, <2>2, NewLogWrites
<1> HIDE DEF file, base
<1>2. <<>> \in S
  BY SMT, <1>1, RelogDirectories!FoldedEmpty
<1>3. ASSUME NEW s \in Seq(r.dirs), NEW p \in r.dirs, s \in S PROVE Append(s, p) \in S
  <2>1. Append(s, p) \in Seq(r.dirs) /\ D(Append(s, p)) = relogDirectory(r, D(s), p)
    BY SMT, RelogDirectories!FoldedAppend DEF Loops
  <2> HIDE DEF D
  <2>2. WritesTo(D(s), file) /\ p \in Paths
    BY <1>3 DEF IsRead
  <2>3. WritesTo(createdDirectory(D(s), p), file)
    BY <1>0, <2>2, DirectoriesWrite
  <2> QED BY <2>1, <2>3 DEF relogDirectory
<1>4. Seq(r.dirs) \subseteq S
  <2> HIDE DEF S
  <2> QED BY <1>2, <1>3, RelogDirectories!ListInduction DEF Loops
<1>5. WritesTo(middle, file)
  BY <1>4
<1>6. Recompacted(r, dirs, hashes) = C(hashes)
  BY DEF Recompacted, file, base
<1> HIDE DEF middle
<1>7. <<>> \in T
  BY SMT, <1>5, RelogCommands!FoldedEmpty
<1>8. ASSUME NEW s \in Seq(Known(r)), NEW h \in Known(r), s \in T PROVE Append(s, h) \in T
  <2> DEFINE c == Resolve(r, r.entries[h])
  <2>1. Append(s, h) \in Seq(Known(r)) /\ C(Append(s, h)) = relogCommand(r, C(s), h)
    BY SMT, RelogCommands!FoldedAppend DEF Loops
  <2>2. c.outs \in Seq(LoggedFile) /\ c.ins \in Seq(LoggedFile) /\ c.deps \in Deps
    BY ResolvedIsLoggable
  <2>3. relogCommand(r, C(s), h) = ranCommand(C(s), h, c)
    BY DEF relogCommand
  <2> HIDE DEF C, c
  <2>4. WritesTo(C(s), file) /\ h \in Hashes
    BY <1>8 DEF Known
  <2>5. WritesTo(ranCommand(C(s), h, c), file)
    BY <1>0, <2>2, <2>4, RanCommandWrites
  <2> QED BY <2>1, <2>3, <2>5
<1>9. Seq(Known(r)) \subseteq T
  <2> HIDE DEF T
  <2> QED BY <1>7, <1>8, RelogCommands!ListInduction DEF Loops
<1>10. WritesTo(C(hashes), file)
  BY <1>9
<1> HIDE DEF C
<1> QED BY <1>6, <1>10 DEF file

\* The elements of a concatenation.
LEMMA Concatenated ==
  ASSUME NEW D, NEW a \in Seq(D), NEW b \in Seq(D)
  PROVE  /\ a \o b \in Seq(D) /\ Len(a \o b) = Len(a) + Len(b)
         /\ \A i \in 1..Len(a) : (a \o b)[i] = a[i]
         /\ \A i \in (Len(a) + 1)..(Len(a) + Len(b)) : (a \o b)[i] = b[i - Len(a)]
<1>1. a \o b \in Seq(D) /\ Len(a \o b) = Len(a) + Len(b)
      /\ \A i \in 1..Len(a) : (a \o b)[i] = a[i]
  BY SMT
<1>2. ASSUME NEW i \in (Len(a) + 1)..(Len(a) + Len(b)) PROVE (a \o b)[i] = b[i - Len(a)]
  BY SMT
<1> QED BY <1>1, <1>2

\* A file that a crash has cut after any of the records of the stream is one that
\* can be read, to its end.
LEMMA CutFileParses ==
  ASSUME Loops, NEW file, IsFile(file), NEW s \in Seq(Record \cup {Signature}), NEW n \in 0..Len(s),
         IsLog(file \o s), ~Parse(file \o s, Paths).failed
  PROVE  LET a == file \o SubSeq(s, 1, n) IN IsLog(a) /\ ~Parse(a, Paths).failed
<1> DEFINE w == file \o s
           a == file \o SubSeq(s, 1, n)
           b == SubSeq(s, n + 1, Len(s))
           k == Len(file) + n
<1>0. /\ file \in Seq(Record \cup {Signature}) /\ Len(file) \in Nat /\ n \in Nat
      /\ Len(s) \in Nat /\ n <= Len(s)
  BY SMT DEF IsFile
<1>1. SubSeq(s, 1, n) \in Seq(Record \cup {Signature}) /\ Len(SubSeq(s, 1, n)) = n
      /\ \A i \in 1..n : SubSeq(s, 1, n)[i] = s[i]
  BY SMT, <1>0
<1>2. b \in Seq(Record \cup {Signature}) /\ Len(b) = Len(s) - n
      /\ \A i \in 1..(Len(s) - n) : b[i] = s[n + i]
  BY SMT, <1>0
<1>3. /\ w \in Seq(Record \cup {Signature}) /\ Len(w) = Len(file) + Len(s)
      /\ \A i \in 1..Len(file) : w[i] = file[i]
      /\ \A i \in 1..Len(s) : w[Len(file) + i] = s[i]
  BY SMT, <1>0
<1>4. /\ a \in Seq(Record \cup {Signature}) /\ Len(a) = k
      /\ \A i \in 1..k : a[i] = w[i]
  <2> DEFINE t == SubSeq(s, 1, n)
  <2>1. t \in Seq(Record \cup {Signature}) /\ Len(t) = n /\ \A i \in 1..n : t[i] = s[i]
    BY <1>1
  <2> HIDE DEF t, w
  <2>2. /\ file \o t \in Seq(Record \cup {Signature}) /\ Len(file \o t) = k
        /\ \A i \in 1..Len(file) : (file \o t)[i] = file[i]
        /\ \A i \in 1..n : (file \o t)[Len(file) + i] = t[i]
    BY SMT, <1>0, <2>1
  <2>3. ASSUME NEW i \in 1..k PROVE (file \o t)[i] = w[i]
    <3>1. CASE i <= Len(file)
      BY SMT, <1>0, <1>3, <2>2, <3>1
    <3>2. CASE ~(i <= Len(file))
      <4>1. i - Len(file) \in 1..n /\ i - Len(file) \in 1..Len(s)
            /\ Len(file) + (i - Len(file)) = i
        BY SMT, <1>0, <3>2
      <4> QED BY ZenonT(30), <1>3, <2>1, <2>2, <4>1
    <3> QED BY ZenonT(30), <3>1, <3>2
  <2> QED BY <2>2, <2>3 DEF t
<1>5. \A i \in 1..(Len(w) - k) : b[i] = w[k + i]
  <2> HIDE DEF w, b
  <2> SUFFICES ASSUME NEW i \in 1..(Len(w) - k) PROVE b[i] = w[k + i]
    OBVIOUS
  <2>1. n + i \in 1..Len(s) /\ i \in 1..(Len(s) - n) /\ Len(file) + (n + i) = k + i
    BY SMT, <1>0, <1>3
  <2> QED BY Zenon, <1>2, <1>3, <2>1
<1>6. Len(b) = Len(w) - k /\ k \in 0..Len(w)
  BY SMT, <1>0, <1>2, <1>3
<1>7. IsLog(w) /\ ~Parse(w, Paths).failed
  OBVIOUS
<1> HIDE DEF w, a, b, k
<1>8. CASE a = <<>>
  <2>1. IsLog(<<>>) /\ Parse(<<>>, Paths) = NothingRead /\ ~NothingRead.failed
    BY SMT DEF IsLog, Parse, NothingRead
  <2>2. IsLog(a) /\ ~Parse(a, Paths).failed
    BY <1>8, <2>1
  <2> QED BY <2>2 DEF a
<1>9. CASE a # <<>>
  <2>1. k >= 1 /\ w # <<>>
    BY SMT, <1>3, <1>4, <1>6, <1>9
  <2>2. Head(w) = Signature /\ Tail(w) \in Seq(Record)
    BY <1>7, <2>1 DEF IsLog
  <2>3. \A i \in 2..Len(w) : w[i] \in Record
    <3> SUFFICES ASSUME NEW i \in 2..Len(w) PROVE w[i] \in Record
      OBVIOUS
    <3>1. i - 1 \in 1..Len(Tail(w)) /\ Tail(w)[i - 1] = w[i]
      BY SMT, <1>3, <2>1
    <3>2. Tail(w)[i - 1] \in Record
      BY SMT, <2>2, <3>1
    <3> QED BY <3>1, <3>2
  <2>4. b \in Seq(Record)
    <3>1. \A i \in 1..Len(b) : b[i] \in Record
      BY SMT, <1>5, <1>6, <2>1, <2>3
    <3> QED BY SMT, <1>2, <3>1
  <2>5. Head(a) = Signature /\ Tail(a) \in Seq(Record)
    <3>1. Head(a) = w[1] /\ Head(w) = w[1]
      BY SMT, <1>3, <1>4, <1>9, <2>1
    <3>2. \A i \in 2..k : a[i] \in Record
      BY SMT, <1>4, <1>6, <2>3
    <3>3. Tail(a) \in Seq(Record \cup {Signature}) /\ Len(Tail(a)) = k - 1
          /\ \A i \in 1..(k - 1) : Tail(a)[i] = a[i + 1]
      BY SMT, <1>4, <1>6, <1>9, <2>1
    <3>4. \A i \in 1..(k - 1) : Tail(a)[i] \in Record
      BY SMT, <1>6, <3>2, <3>3
    <3> QED BY SMT, <2>2, <3>1, <3>3, <3>4
  <2>6. a \o b = w
    <3>1. /\ a \o b \in Seq(Record \cup {Signature}) /\ Len(a \o b) = Len(w)
          /\ \A i \in 1..k : (a \o b)[i] = a[i]
          /\ \A i \in (k + 1)..Len(w) : (a \o b)[i] = b[i - k]
      <4>1. /\ a \o b \in Seq(Record \cup {Signature}) /\ Len(a \o b) = Len(a) + Len(b)
            /\ \A i \in 1..Len(a) : (a \o b)[i] = a[i]
            /\ \A i \in (Len(a) + 1)..(Len(a) + Len(b)) : (a \o b)[i] = b[i - Len(a)]
        BY ZenonT(30), <1>2, <1>4, Concatenated
      <4>2. Len(a) = k /\ Len(a) + Len(b) = Len(w)
        BY SMT, <1>3, <1>4, <1>6
      <4> QED BY <4>1, <4>2
    <3>2. ASSUME NEW i \in 1..Len(w) PROVE (a \o b)[i] = w[i]
      <4>1. CASE i <= k
        BY SMT, <1>4, <1>6, <3>1, <4>1
      <4>2. CASE ~(i <= k)
        <5>1. i - k \in 1..(Len(w) - k) /\ k + (i - k) = i /\ i \in (k + 1)..Len(w)
          BY SMT, <1>6, <4>2
        <5> QED BY <1>5, <3>1, <5>1
      <4> QED BY ZenonT(30), <4>1, <4>2
    <3> DEFINE ab == a \o b
    <3> HIDE DEF ab
    <3>3. ab = w
      BY SMT, <1>3, <3>1, <3>2 DEF ab
    <3> QED BY <3>3 DEF ab
  <2>7. IsLog(a)
    BY <1>4, <2>5 DEF IsLog
  <2>8. ~Parse(a, Paths).failed
    BY ZenonT(30), <1>7, <1>9, <2>4, <2>6, <2>7, PrefixParses
  <2> QED BY <2>7, <2>8 DEF a
<1> QED BY <1>8, <1>9

-----------------------------------------------------------------------------
\* An empty file is a log, in which nothing is to be read.
LEMMA EmptyFile ==
  ASSUME Loops
  PROVE  /\ IsLog(<<>>) /\ Parse(<<>>, Paths) = NothingRead /\ ~NothingRead.failed
         /\ IsRead(NothingRead) /\ ParseData(NothingRead).stream = <<>>
<1>1. IsLog(<<>>) /\ Parse(<<>>, Paths) = NothingRead
  BY SMT DEF IsLog, Parse
<1>2. ~NothingRead.failed /\ ParseData(NothingRead).stream = <<>>
  BY DEF NothingRead, ParseData
<1> QED BY <1>1, <1>2, ParseIsRead

\* Whatever a process leaves behind, the next one finds a file that it can read.
LEMMA EndsKeep ==
  ASSUME Loops, LogInv, phase' = "off", Forget, IsLog(disk'), ~Parse(disk', Paths).failed
  PROVE  LogInv'
<1>1. tool' \in BOOLEAN /\ invocations' = NothingRead /\ log' = ParseData(NothingRead)
  BY Zenon DEF Forget
<1>2. IsRead(invocations') /\ log'.stream = <<>>
  BY <1>1, EmptyFile
<1> QED BY ZenonT(30), <1>1, <1>2 DEF LogInv, Phases

\* Before the first process there is no file.
LEMMA InitKeeps ==
  ASSUME Loops, Init
  PROVE  LogInv
<1>1. disk = <<>> /\ invocations = NothingRead /\ log = ParseData(NothingRead)
      /\ phase = "off" /\ tool = FALSE
  BY DEF Init
<1> QED BY ZenonT(30), <1>1, EmptyFile DEF LogInv, Phases

\* A process reads all of the file, whichever directories it finds.
LEMMA ReadInvocationLogKeeps ==
  ASSUME Loops, LogInv, ReadInvocationLog
  PROVE  LogInv'
<1>1. PICK present \in SUBSET Directories, next \in {"build", "recompact", "clean", "other"} :
        LET r == Parse(disk, present) IN
        /\ invocations' = r /\ log' = ParseData(r)
        /\ disk' = Readable(disk, r)
        /\ tool' = (next # "build")
        /\ phase' = CASE next = "build" -> IF needsRecompaction(r) THEN "recompact" ELSE "read"
                      [] next = "other" -> "read"
                      [] next \in {"recompact", "clean"} -> next
  BY DEF ReadInvocationLog
<1> DEFINE r == Parse(disk, present)
           q == Parse(disk, Paths)
<1>2. IsLog(disk) /\ ~q.failed
  BY DEF LogInv
<1>3. IsRead(r) /\ SameIds(q, r)
  BY <1>2, ParseIsRead, ParseSame
<1>4. ~r.failed /\ disk' = disk
  BY <1>1, <1>2, <1>3 DEF SameIds, Readable
<1>5. invocations' = r /\ log' = ParseData(r)
  BY <1>1
<1>6. Continues(log', Parse(disk', Paths)) /\ log'.stream = <<>>
  <2> HIDE DEF r
  <2>1. Continues(ParseData(r), q) /\ ParseData(r).stream = <<>>
    BY <1>3, <1>4, ParseDataContinues
  <2> QED BY <1>4, <1>5, <2>1
<1>7. /\ phase' \in {"read", "recompact", "clean"} /\ tool' \in BOOLEAN
      /\ phase' = "clean" => tool'
  BY Zenon, <1>1
<1>8. IsLog(disk') /\ ~Parse(disk', Paths).failed /\ IsRead(invocations')
  BY <1>2, <1>3, <1>4, <1>5
<1> QED BY <1>6, <1>7, <1>8 DEF LogInv, Phases

\* Recompaction.
LEMMA RecompactKeeps ==
  ASSUME Loops, LogInv, RecompactWrite \/ RecompactRename \/ RecompactClose
  PROVE  LogInv'
<1>1. CASE RecompactWrite
  <2>1. PICK dirs \in Orders(invocations.dirs), hashes \in Orders(Known(invocations)) :
          log' = Recompacted(invocations, dirs, hashes)
    BY <1>1 DEF RecompactWrite
  <2>2. IsRead(invocations)
    BY DEF LogInv
  <2>3. dirs \in Seq(invocations.dirs) /\ hashes \in Seq(Known(invocations))
    BY OrdersAreLists
  <2>4. WritesTo(log', <<>>)
    BY <2>1, <2>2, <2>3, RecompactedWrites
  <2>5. phase' = "written" /\ disk' = disk /\ tool' = tool /\ invocations' = invocations
    BY <1>1 DEF RecompactWrite
  <2> QED BY ZenonT(30), <2>4, <2>5 DEF LogInv, Phases
<1>2. CASE RecompactRename
  <2>1. /\ phase = "written" /\ phase' = "renamed" /\ disk' = <<>>
        /\ tool' = tool /\ invocations' = invocations /\ log' = log
    BY <1>2 DEF RecompactRename
  <2> QED BY <2>1, EmptyFile DEF LogInv, Phases
<1>3. CASE RecompactClose
  <2>1. /\ phase = "renamed" /\ phase' = "read" /\ disk' = disk \o log.stream
        /\ log' = [log EXCEPT !.stream = <<>>] /\ tool' = tool /\ invocations' = invocations
    BY <1>3 DEF RecompactClose
  <2>2. WritesTo(log, <<>>) /\ disk = <<>>
    BY <2>1 DEF LogInv
  <2>3. log \in LogState
    BY <2>2, WritesToFacts
  <2>4. <<>> \o log.stream = log.stream /\ disk' = log.stream
    BY SMT, <2>1, <2>2, <2>3 DEF LogState
  <2>5. IsLog(log.stream) /\ Continues(log, Parse(log.stream, Paths))
    BY <2>2, <2>4 DEF WritesTo
  <2> DEFINE none == <<>>
  <2>6. none \in Seq(Record \cup {Signature})
    BY SMT
  <2>7. /\ log' = [log EXCEPT !.stream = none]
    BY <2>1
  <2> HIDE DEF none
  <2>8. /\ log' \in LogState /\ log'.stream = none
        /\ log'.pathIds = log.pathIds /\ log'.fingerprintIds = log.fingerprintIds
        /\ log'.pathEntryCount = log.pathEntryCount
        /\ log'.fingerprintEntryCount = log.fingerprintEntryCount
    BY Zenon, <2>3, <2>6, <2>7 DEF LogState
  <2>9. Continues(log', Parse(log.stream, Paths))
    BY ZenonT(30), <2>5, <2>8 DEF Continues, IdsAgree, LogState
  <2>10. ~Parse(log.stream, Paths).failed
    BY <2>5 DEF Continues
  <2> QED BY <2>1, <2>4, <2>5, <2>8, <2>9, <2>10 DEF LogInv, Phases, none
<1> QED BY <1>1, <1>2, <1>3

\* Opening the log, and what a build logs.
LEMMA LoggingKeeps ==
  ASSUME Loops, LogInv,
         \/ OpenInvocationLog \/ RanCommand \/ CleanedCommand
         \/ CreatedDirectory \/ RemovedDirectory \/ LeakMemory
  PROVE  LogInv'
<1>0. IsLog(disk) /\ IsFile(disk)
  BY DEF LogInv, IsLog, IsFile
<1>1. ASSUME phase' \in {"open", "leaked"}, disk' = disk, tool' = tool,
             invocations' = invocations, WritesTo(log', disk)
      PROVE  LogInv'
  BY <1>1 DEF LogInv, Phases
<1>2. ASSUME NEW l, Do(l), phase \in {"open", "leaked"}, WritesTo(l, disk)
      PROVE  LogInv'
  BY <1>1, <1>2 DEF Do
<1>3. CASE OpenInvocationLog
  <2>1. /\ phase = "read" /\ ~tool /\ phase' = "open" /\ log' = NewLog(log, disk)
        /\ disk' = disk /\ tool' = tool /\ invocations' = invocations
    BY <1>3 DEF OpenInvocationLog
  <2>2. Continues(log, Parse(disk, Paths)) /\ log.stream = <<>>
    BY <2>1 DEF LogInv
  <2>3. WritesTo(NewLog(log, disk), disk)
    BY <1>0, <2>2, NewLogWrites
  <2> QED BY <1>1, <2>1, <2>3
<1>4. CASE RanCommand
  <2>1. PICK h \in Hashes, c \in Commands : Do(ranCommand(log, h, c))
    BY <1>4 DEF RanCommand
  <2>2. phase \in {"open", "leaked"} /\ WritesTo(log, disk)
    BY Zenon, <1>4 DEF RanCommand, LogInv
  <2>3. c.outs \in Seq(LoggedFile) /\ c.ins \in Seq(LoggedFile) /\ c.deps \in Deps
    BY LogAssumption DEF Deps
  <2>4. WritesTo(ranCommand(log, h, c), disk)
    BY <1>0, <2>2, <2>3, RanCommandWrites
  <2> QED BY <1>2, <2>1, <2>2, <2>4
<1>5. CASE CleanedCommand
  <2>1. PICK h \in Hashes : Do(cleanedCommand(log, h))
    BY <1>5 DEF CleanedCommand
  <2>2. phase \in {"open", "leaked"} /\ WritesTo(log, disk)
    BY <1>5 DEF CleanedCommand, LogInv
  <2>3. WritesTo(cleanedCommand(log, h), disk)
    BY <1>0, <2>2, CleanedCommandWrites
  <2> QED BY <1>2, <2>1, <2>2, <2>3
<1>6. CASE CreatedDirectory \/ RemovedDirectory
  <2>1. PICK p \in Directories : Do(createdDirectory(log, p)) \/ Do(removedDirectory(log, p))
    BY <1>6 DEF CreatedDirectory, RemovedDirectory
  <2>2. phase \in {"open", "leaked"} /\ WritesTo(log, disk)
    BY <1>6 DEF CreatedDirectory, RemovedDirectory, LogInv
  <2>3. p \in Paths
    BY LogAssumption
  <2>4. WritesTo(createdDirectory(log, p), disk) /\ WritesTo(removedDirectory(log, p), disk)
    BY <1>0, <2>2, <2>3, DirectoriesWrite
  <2> QED BY <1>2, <2>1, <2>2, <2>4
<1>7. CASE LeakMemory
  <2>1. /\ phase = "open" /\ phase' = "leaked" /\ log' = leakMemory(log)
        /\ disk' = disk /\ tool' = tool /\ invocations' = invocations
    BY <1>7 DEF LeakMemory
  <2>2. WritesTo(log, disk)
    BY <2>1 DEF LogInv
  <2>3. WritesTo(leakMemory(log), disk)
    BY <2>2, LeakMemoryWrites
  <2> QED BY <1>1, <2>1, <2>3
<1> QED BY <1>3, <1>4, <1>5, <1>6, <1>7

\* The tool that deletes the log, and the two ends of a process.
LEMMA ProcessesEndWell ==
  ASSUME Loops, LogInv, ToolClean \/ Exit \/ Crash
  PROVE  LogInv'
<1>0. IsLog(disk) /\ IsFile(disk) /\ ~Parse(disk, Paths).failed
  BY DEF LogInv, IsLog, IsFile
<1>1. disk \o <<>> = disk
  BY SMT, <1>0 DEF IsFile
<1>2. CASE ToolClean
  <2>1. /\ phase = "clean" /\ phase' = "read" /\ disk' = <<>>
        /\ tool' = tool /\ invocations' = invocations /\ log' = log
    BY <1>2 DEF ToolClean
  <2> QED BY <2>1, EmptyFile DEF LogInv, Phases
<1>3. ASSUME phase \in {"open", "leaked", "renamed"}
      PROVE  /\ log.stream \in Seq(Record \cup {Signature})
             /\ IsLog(disk \o log.stream) /\ ~Parse(disk \o log.stream, Paths).failed
  <2>1. WritesTo(log, disk)
    BY <1>3 DEF LogInv
  <2> QED BY <2>1 DEF WritesTo, Continues
<1>4. CASE Exit
  <2>1. /\ phase \in {"read", "open", "leaked"} /\ phase' = "off"
        /\ disk' = disk \o log.stream /\ Forget
    BY <1>4 DEF Exit
  <2>2. IsLog(disk') /\ ~Parse(disk', Paths).failed
    <3>1. CASE phase = "read"
      <4>1. log.stream = <<>>
        BY <3>1 DEF LogInv
      <4> QED BY <1>0, <1>1, <2>1, <4>1
    <3>2. CASE phase # "read"
      BY <1>3, <2>1, <3>2
    <3> QED BY <3>1, <3>2
  <2> QED BY <2>1, <2>2, EndsKeep
<1>5. CASE Crash
  <2> DEFINE stream == IF phase \in {"open", "leaked", "renamed"} THEN log.stream ELSE <<>>
  <2>1. PICK n \in 0..Len(stream) : disk' = disk \o SubSeq(stream, 1, n)
    BY <1>5 DEF Crash
  <2>2. phase' = "off" /\ Forget
    BY <1>5 DEF Crash
  <2>3. stream \in Seq(Record \cup {Signature})
        /\ IsLog(disk \o stream) /\ ~Parse(disk \o stream, Paths).failed
    <3>1. CASE phase \in {"open", "leaked", "renamed"}
      BY <1>3, <3>1
    <3>2. CASE phase \notin {"open", "leaked", "renamed"}
      <4> DEFINE none == <<>>
      <4>1. stream = none /\ none \in Seq(Record \cup {Signature}) /\ disk \o none = disk
        BY SMT, <1>1, <3>2
      <4> HIDE DEF stream, none
      <4> QED BY <1>0, <4>1
    <3> QED BY <3>1, <3>2
  <2> HIDE DEF stream
  <2>4. IsLog(disk') /\ ~Parse(disk', Paths).failed
    BY <1>0, <2>1, <2>3, CutFileParses
  <2> QED BY <2>2, <2>4, EndsKeep
<1> QED BY <1>2, <1>4, <1>5

\* Every step keeps the invariant.
LEMMA LogStep ==
  ASSUME Loops
  PROVE  LogInv /\ [Next]_vars => LogInv'
<1> SUFFICES ASSUME LogInv, [Next]_vars PROVE LogInv'
  OBVIOUS
<1>1. CASE UNCHANGED vars
  BY <1>1 DEF vars, LogInv
<1>2. CASE Next
  BY <1>2, ReadInvocationLogKeeps, RecompactKeeps, LoggingKeeps, ProcessesEndWell DEF Next
<1> QED BY <1>1, <1>2

-----------------------------------------------------------------------------
LOCAL INSTANCE WellFoundedInduction

\* A set of natural numbers that is not empty has a least element.
LEMMA LeastNumber ==
  ASSUME NEW T \in SUBSET Nat, T # {}
  PROVE  \E n \in T : \A m \in T : n <= m
<1> DEFINE R == {ss \in Nat \X Nat : ss[1] < ss[2]}
<1>1. IsWellFoundedOn(R, Nat)
  BY NatLessThanWellFounded DEF OpToRel
<1>2. PICK n \in T : \A m \in T : ~ (<<m, n>> \in R)
  <2> HIDE DEF R
  <2> QED BY <1>1, WFMin
<1>3. \A m \in T : ~ (m < n)
  BY <1>2
<1> QED BY SMT, <1>3

\* Induction over the natural numbers, stated for a set: the library states it
\* for a predicate, which the provers cannot instantiate.
LEMMA SetInduction ==
  ASSUME NEW S, 0 \in S, \A n \in Nat : n \in S => n + 1 \in S
  PROVE  Nat \subseteq S
<1> SUFFICES ASSUME ~(Nat \subseteq S) PROVE FALSE
  OBVIOUS
<1> DEFINE T == {n \in Nat : n \notin S}
<1>1. T # {} /\ T \in SUBSET Nat
  OBVIOUS
<1>2. PICK n \in T : \A m \in T : n <= m
  BY <1>1, LeastNumber
<1>3. n \in Nat /\ n # 0 /\ n \notin S
  BY <1>2
<1>4. n - 1 \in Nat /\ n - 1 \notin T
  BY SMT, <1>2, <1>3
<1>5. n - 1 \in S /\ (n - 1) + 1 = n
  BY SMT, <1>3, <1>4
<1> QED BY <1>3, <1>4, <1>5

\* The lists that the loops go through are finite.
LEMMA LoopInduction == Loops
  BY SetInduction DEF Loops, Reading!Induction, Writing!Induction,
     RelogDirectories!Induction, RelogCommands!Induction

\* However the processes that use a log run, end and crash, the ids it has are
\* those of its file, and the file can be read to its end.
THEOREM LogInvariant == Spec => []LogInv
<1>1. Init => LogInv
  BY LoopInduction, InitKeeps
<1>2. LogInv /\ [Next]_vars => LogInv'
  BY LoopInduction, LogStep
<1> QED BY <1>1, <1>2, PTL DEF Spec

\* No whole record is ever refused, so that the truncation of a log
\* (persistent_invocation_log.cpp:846) never removes more than a torn record,
\* whatever was logged and wherever crashes cut the file.
THEOREM WholeRecordsParseCorrect == Spec => []WholeRecordsParse
<1>1. LogInv => WholeRecordsParse
  <2> SUFFICES ASSUME LogInv PROVE ~Parse(Written, Paths).failed
    BY DEF WholeRecordsParse
  <2>0. disk \in Seq(Record \cup {Signature}) /\ ~Parse(disk, Paths).failed
    BY DEF LogInv, IsLog
  <2>1. CASE phase \in {"off", "read", "recompact", "clean"}
    <3>1. log.stream = <<>> /\ disk \o <<>> = disk
      BY SMT, <2>0, <2>1 DEF LogInv
    <3> QED BY <2>0, <2>1, <3>1 DEF Written
  <2>2. CASE phase = "written"
    <3>1. WritesTo(log, <<>>)
      BY <2>2 DEF LogInv
    <3>2. log \in LogState
      BY <3>1, LoopInduction, WritesToFacts
    <3>3. <<>> \o log.stream = log.stream
      BY SMT, <3>2 DEF LogState
    <3> QED BY <2>2, <3>1, <3>3 DEF Written, WritesTo, Continues
  <2>3. CASE phase \in {"open", "leaked", "renamed"}
    <3>1. WritesTo(log, disk)
      BY <2>3 DEF LogInv
    <3> QED BY <2>3, <3>1 DEF Written, WritesTo, Continues
  <2> QED BY <2>1, <2>2, <2>3 DEF LogInv, Phases
<1> QED BY <1>1, LogInvariant, PTL

\* The ids and counts in memory (_path_ids, _fingerprint_ids and the counts of
\* PersistentInvocationLog) are those the parser gives to the records of the file.
THEOREM IdsAreTheFilesCorrect == Spec => []IdsAreTheFiles
<1>1. LogInv => IdsAreTheFiles
  <2> SUFFICES ASSUME LogInv, phase \in {"open", "leaked"}
               PROVE  Continues(log, Parse(Written, Paths))
    BY ZenonT(30) DEF IdsAreTheFiles, Continues, IdsAgree
  <2>1. WritesTo(log, disk)
    BY Zenon DEF LogInv
  <2> QED BY <2>1 DEF Written, WritesTo
<1> QED BY <1>1, LogInvariant, PTL
=============================================================================
