------------------------- MODULE IncrementalProofs -------------------------
(***************************************************************************)
(* Proofs about IncrementalBuild, for every project that ProjectOK         *)
(* describes: any steps, files, manifests, edits and numbers of builds,    *)
(* failures, interruptions and crashes.                                    *)
(***************************************************************************)
EXTENDS IncrementalBuild, BuildProofs

\* Zenon proves the steps that name no other prover: few of them are about more
\* than sets and functions.
USE Zenon

(***************************************************************************)
(* What ProjectOK says, in the forms in which it is used.                  *)
(***************************************************************************)
LEMMA CommandFacts ==
  ASSUME ProjectOK, NEW h \in Def, NEW f \in FileSystems
  PROVE  /\ Reads(h, f) \subseteq File /\ Writes(h, f) = Products[h]
         /\ Products[h] \subseteq File /\ Products[h] \cap Reads(h, f) = {}
         /\ \A x \in Products[h] : Compute(h, x, f) \in Value
BY DEF ProjectOK, CommandsAreFunctions

\* A command that reads the same does the same.
LEMMA SameReads ==
  ASSUME ProjectOK, NEW h \in Def, NEW f \in FileSystems, NEW g \in FileSystems,
         \A x \in Reads(h, f) : g[x] = f[x]
  PROVE  Reads(h, g) = Reads(h, f) /\ \A x \in Products[h] : Compute(h, x, g) = Compute(h, x, f)
BY SMT DEF ProjectOK, CommandsAreFunctions

\* The steps of a manifest.
LEMMA ManifestFacts ==
  ASSUME NEW m \in Manifests
  PROVE  /\ DOMAIN m \subseteq Step
         /\ \A i \in DOMAIN m : m[i] \in Def
         /\ \A i, j \in DOMAIN m : m[i] = m[j] => i = j
BY SMT, IncrementalTyped DEF IsInjective, Range

\* No two steps make the same file.
LEMMA ProductsDisjoint ==
  ASSUME ProjectOK, NEW m \in Manifests, NEW i \in DOMAIN m, NEW j \in DOMAIN m, i # j
  PROVE  Products[m[i]] \cap Products[m[j]] = {}
BY DEF ProjectOK, EditsKeepTheSteps

\* Ancestors is closed under dependencies, and is the least set that is.
LEMMA AncestorsClosed ==
  ASSUME NEW m, NEW i
  PROVE  /\ Ancestors(m, i) \subseteq DOMAIN m /\ Dependencies(m, i) \subseteq Ancestors(m, i)
         /\ \A j \in Ancestors(m, i) : Dependencies(m, j) \subseteq Ancestors(m, i)
BY DEF Ancestors, Dependencies

LEMMA AncestorsLeast ==
  ASSUME NEW m, NEW i, NEW S \in SUBSET DOMAIN m, Dependencies(m, i) \subseteq S,
         \A s \in S : Dependencies(m, s) \subseteq S
  PROVE  Ancestors(m, i) \subseteq S
BY DEF Ancestors

-----------------------------------------------------------------------------
(***************************************************************************)
(* A build that goes on.                                                   *)
(***************************************************************************)
\* What the scheduler is told about a step of the manifest.
LEMMA InputFacts ==
  ASSUME InputInv, NEW i \in DOMAIN manifest, i \in Step
  PROVE  /\ in.deps[i] = Dependencies(manifest, i) \cup
              (IF HasEntry(log, i) THEN StepIn(log[manifest[i]].additional_dependencies) ELSE {})
         /\ in.ignored[i] = IF HasEntry(log, i) THEN log[manifest[i]].ignored_dependencies ELSE {}
         /\ i \in in.unknown <=> /\ HasEntry(log, i)
                                 /\ \E h \in log[manifest[i]].additional_dependencies : StepOf(h) = {}
         /\ i \in in.phony <=> manifest[i] \in Phony
<1>1. in.phony = StepIn(Phony)
  BY DEF InputInv, BuildInput
<1>2. i \in StepIn(Phony) <=> manifest[i] \in Phony
  BY SMT DEF StepIn, StepOf
<1> QED BY <1>1, <1>2 DEF InputInv, BuildInput, stepDependencies

\* Nothing of it changes while the build goes on.
LEMMA InputFrame ==
  ASSUME InputInv, UNCHANGED <<manifest, log, in, invocations, should_build>>
  PROVE  InputInv'
BY SMT DEF InputInv, BuildInput, stepDependencies, Dependencies, HasEntry, StepIn, StepOf

\* All that a step that is ready depends on is done.
LEMMA AncestorsDone ==
  ASSUME IncrementalInv, Active, NEW t \in Released
  PROVE  t \in DOMAIN manifest /\ t \in Step /\ Ancestors(manifest, t) \subseteq Done
<1>1. IInv /\ InputInv /\ manifest \in Manifests
  BY DEF IncrementalInv, StoreInv
<1>2. Done \subseteq should_build /\ should_build \subseteq DOMAIN manifest
  BY <1>1 DEF IInv, Partition, Released, InputInv
<1>3. ASSUME NEW s \in Released
      PROVE  s \in DOMAIN manifest /\ s \in Step /\ Dependencies(manifest, s) \subseteq Done
  <2>1. s \in should_build /\ in.deps[s] \subseteq Done
    BY <1>1, ReleasedAfterDependencies
  <2>2. s \in DOMAIN manifest /\ s \in Step
    BY <1>1, <1>2, <2>1, ManifestFacts
  <2> QED BY <1>1, <2>1, <2>2, InputFacts
<1>4. Done \subseteq Released
  BY DEF Released
<1> QED BY <1>2, <1>3, <1>4, AncestorsLeast

\* What a step that is ready reads and another step makes is made.
LEMMA MakersDone ==
  ASSUME ProjectOK, IncrementalInv, Active, NEW t \in Released, NEW g \in FileSystems,
         NEW m \in Manifests, NEW j \in DOMAIN m, Products[m[j]] \cap Reads(manifest[t], g) # {}
  PROVE  j \in Done
<1>1. t \in DOMAIN manifest /\ Ancestors(manifest, t) \subseteq Done
  BY AncestorsDone
<1>2. manifest \in Manifests
  BY DEF IncrementalInv, StoreInv
<1>3. j \in Ancestors(manifest, t)
  BY <1>1, <1>2 DEF ProjectOK, ReadsAreDeclared
<1> QED BY <1>1, <1>3
-----------------------------------------------------------------------------
(***************************************************************************)
(* A change of the products of a step that is not done.                    *)
(***************************************************************************)
OnlyProductsOf(i) ==
  fs' \in FileSystems /\ \A x \in File \ Products[manifest[i]] : fs'[x] = fs[x]

\* The files of an entry.
LEMMA EntryFiles ==
  ASSUME ProjectOK, NEW h, NEW e, IsEntry(h, e)
  PROVE  /\ h \in Def /\ IsTraced(h)
         /\ DOMAIN e.output_files = Products[h] /\ Products[h] \subseteq File
         /\ DOMAIN e.input_files \subseteq File
         /\ \A x \in Products[h] : e.output_files[x] \in Value
         /\ \E g \in FileSystems : DOMAIN e.input_files = Reads(h, g)
<1>1. h \in Def /\ IsTraced(h)
  BY DEF IsEntry
<1>2. PICK g \in FileSystems : Recalls(h, e, g)
  BY DEF IsEntry
<1> QED BY <1>1, <1>2, CommandFacts DEF Recalls

\* It is nothing that a step that is done, and its entry, could notice.
LEMMA MatchesStill ==
  ASSUME ProjectOK, IncrementalInv, Active, NEW i \in DOMAIN manifest, i \notin Done,
         OnlyProductsOf(i), NEW t \in Done, NEW e, IsEntry(manifest[t], e), Matches(e, fs)
  PROVE  Matches(e, fs')
<1>1. manifest \in Manifests
  BY DEF IncrementalInv, StoreInv
<1>2. t \in Released /\ t \in DOMAIN manifest /\ t # i
  BY AncestorsDone DEF Released
<1>3. /\ DOMAIN e.output_files = Products[manifest[t]] /\ Products[manifest[t]] \subseteq File
      /\ DOMAIN e.input_files \subseteq File
  BY EntryFiles
<1>4. PICK g \in FileSystems : DOMAIN e.input_files = Reads(manifest[t], g)
  BY EntryFiles
<1>5. Products[manifest[i]] \cap DOMAIN e.output_files = {}
  BY <1>1, <1>2, <1>3, ProductsDisjoint
<1>6. Products[manifest[i]] \cap DOMAIN e.input_files = {}
  BY <1>1, <1>2, <1>4, MakersDone
<1> QED BY <1>3, <1>5, <1>6 DEF Matches, OnlyProductsOf

\* The products of other steps stay as they are.
LEMMA ProductsStill ==
  ASSUME ProjectOK, StoreInv, NEW i \in DOMAIN manifest, OnlyProductsOf(i),
         NEW t \in DOMAIN manifest, t # i
  PROVE  \A x \in Products[manifest[t]] : fs'[x] = fs[x]
<1>1. manifest \in Manifests /\ manifest[t] \in Def /\ fs \in FileSystems
  BY ManifestFacts DEF StoreInv
<1>2. Products[manifest[t]] \subseteq File
  BY <1>1, CommandFacts
<1> QED BY <1>1, <1>2, ProductsDisjoint DEF OnlyProductsOf

\* What is left of the invariant after such a change.
LEMMA FilesChange ==
  ASSUME ProjectOK, IncrementalInv, Active, NEW i \in DOMAIN manifest, i \notin Done,
         OnlyProductsOf(i), UNCHANGED <<manifest, log, in>>,
         i \in Touched', Touched \subseteq Touched'
  PROVE  /\ CleanInv'
         /\ \A t \in skipped \ in.phony : isClean(log, fs, t)'
         /\ \A t \in built : IsTraced(manifest[t]) =>
              \E k \in DOMAIN pending : pending[k].hash = manifest[t]
                                      /\ \A e \in pending[k].entry : Matches(e, fs')
         /\ \A t \in Done : \A x \in Products[manifest[t]] : fs'[x] = fs[x]
<1>1. StoreInv /\ InputInv /\ CleanInv /\ DoneInv /\ manifest \in Manifests
  BY DEF IncrementalInv, StoreInv
<1>2. \A t \in Done : t \in DOMAIN manifest
  BY AncestorsDone DEF Released
<1>3. CleanInv'
  <2> SUFFICES ASSUME NEW t \in in.clean \ Touched'
               PROVE  LET e == log[manifest[t]]
                      IN  /\ \A x \in DOMAIN e.output_files : fs'[x] = e.output_files[x]
                          /\ \A x \in DOMAIN e.input_files :
                               \/ fs'[x] = e.input_files[x]
                               \/ \E j \in Touched' : x \in Products[manifest[j]]
    BY DEF CleanInv
  <2> DEFINE e == log[manifest[t]]
  <2>1. t \in in.clean \ Touched /\ t # i
    OBVIOUS
  <2>2. t \in DOMAIN manifest /\ IsEntry(manifest[t], e)
    BY <1>1 DEF InputInv, HasEntry, StoreInv, IsEntries
  <2>3. /\ \A x \in DOMAIN e.output_files : fs[x] = e.output_files[x]
        /\ \A x \in DOMAIN e.input_files :
             fs[x] = e.input_files[x] \/ \E j \in Touched : x \in Products[manifest[j]]
    BY <1>1, <2>1 DEF CleanInv
  <2> HIDE DEF e
  <2>4. DOMAIN e.output_files = Products[manifest[t]] /\ DOMAIN e.input_files \subseteq File
    BY <2>2, EntryFiles
  <2>5. \A x \in DOMAIN e.output_files : fs'[x] = e.output_files[x]
    BY <1>1, <2>1, <2>2, <2>3, <2>4, ProductsStill
  <2>6. ASSUME NEW x \in DOMAIN e.input_files
        PROVE  fs'[x] = e.input_files[x] \/ \E j \in Touched' : x \in Products[manifest[j]]
    <3>1. CASE x \in Products[manifest[i]]
      BY <3>1
    <3>2. CASE x \notin Products[manifest[i]]
      BY <2>3, <2>4, <3>2 DEF OnlyProductsOf
    <3> QED BY <3>1, <3>2
  <2> QED BY <2>5, <2>6 DEF e
<1>4. ASSUME NEW t \in skipped \ in.phony PROVE isClean(log, fs, t)'
  <2>1. t \in Done /\ isClean(log, fs, t)
    BY <1>1 DEF DoneInv, Done
  <2>2. HasEntry(log, t) /\ Matches(log[manifest[t]], fs) /\ IsEntry(manifest[t], log[manifest[t]])
    BY <1>1, <2>1 DEF isClean, HasEntry, StoreInv, IsEntries
  <2>3. Matches(log[manifest[t]], fs')
    BY <2>1, <2>2, MatchesStill
  <2> QED BY <2>2, <2>3 DEF isClean, HasEntry, Matches
<1>5. ASSUME NEW t \in built, IsTraced(manifest[t])
      PROVE  \E k \in DOMAIN pending : pending[k].hash = manifest[t]
                                     /\ \A e \in pending[k].entry : Matches(e, fs')
  <2>1. PICK k \in DOMAIN pending : pending[k].hash = manifest[t]
                                     /\ \A e \in pending[k].entry : Matches(e, fs)
    BY <1>1, <1>5 DEF DoneInv
  <2>2. \A e \in pending[k].entry : IsEntry(manifest[t], e)
    BY <1>1, <2>1 DEF StoreInv
  <2>3. t \in Done
    BY DEF Done
  <2> QED BY <2>1, <2>2, <2>3, MatchesStill
<1>6. \A t \in Done : \A x \in Products[manifest[t]] : fs'[x] = fs[x]
  BY <1>1, <1>2, ProductsStill
<1> QED BY <1>3, <1>4, <1>5, <1>6
-----------------------------------------------------------------------------
(***************************************************************************)
(* Steps that are not run.                                                 *)
(***************************************************************************)
\* The entry of a step that was clean when the build began.
LEMMA CleanEntry ==
  ASSUME IncrementalInv, Active, NEW i \in in.clean
  PROVE  i \in DOMAIN manifest /\ HasEntry(log, i) /\ IsEntry(manifest[i], log[manifest[i]])
BY DEF IncrementalInv, InputInv, HasEntry, StoreInv, IsEntries

\* discardCleanSteps comes before any command.
LEMMA DiscardedIsClean ==
  ASSUME IncrementalInv, phase = "discard", NEW i \in in.clean
  PROVE  isClean(log, fs, i)
<1>1. Active /\ Touched = {}
  BY DEF Active, IncrementalInv, IInv, PhaseOK, Started, Touched
<1>2. HasEntry(log, i)
  BY <1>1, CleanEntry
<1> QED BY <1>1, <1>2 DEF IncrementalInv, CleanInv, isClean, Matches

\* Both ways of canSkipBuildCommand to skip a step are right.
LEMMA BypassedIsClean ==
  ASSUME ProjectOK, IncrementalInv, Active, NEW i \in ready_steps, canSkipBuildCommand(i)
  PROVE  isClean(log, fs, i)
<1> DEFINE h == manifest[i]
           e == log[h]
<1>1. i \in in.clean /\ IInv /\ InputInv /\ CleanInv /\ MapsInv /\ StoreInv /\ manifest \in Manifests
  BY DEF canSkipBuildCommand, IncrementalInv, StoreInv
<1>2. i \in DOMAIN manifest /\ HasEntry(log, i) /\ IsEntry(h, e)
  BY <1>1, CleanEntry
<1>3. i \in Released /\ i \in should_build /\ i \notin Touched /\ i \in Step
  BY <1>1 DEF Released, IInv, Partition, Touched, Done, TypeOK
<1>4. PICK g \in FileSystems : Recalls(h, e, g) /\ KnowsItsMakers(h, e, g)
  BY <1>2 DEF IsEntry
<1>5. \A x \in DOMAIN e.output_files : fs[x] = e.output_files[x]
  BY <1>1, <1>3 DEF CleanInv
<1>6. ASSUME NEW x \in DOMAIN e.input_files PROVE fs[x] = e.input_files[x]
  <2> SUFFICES ASSUME fs[x] # e.input_files[x] PROVE FALSE
    OBVIOUS
  <2>1. PICK j \in Touched : x \in Products[manifest[j]]
    BY <1>1, <1>3 DEF CleanInv
  <2>2. j \in DOMAIN manifest
    BY <1>1, <2>1 DEF Touched, IInv, Partition, Released, Done, InputInv
  <2>3. x \in Reads(h, g)
    BY <1>4 DEF Recalls
  <2> HIDE DEF e
  <2>4. j \in Done
    BY <1>1, <1>3, <2>1, <2>2, <2>3, MakersDone
  <2>5. j \in built
    BY <1>1, <2>1, <2>4 DEF Touched, IInv, Partition
  <2>6. CASE no_direct_dependencies_built[i]
    <3>1. i \notin in.unknown /\ in.deps[i] \cap built \subseteq in.ignored[i]
      BY <1>1, <1>3, <2>6 DEF IInv, FastPathIsSound
    <3>2. /\ j \notin e.ignored_dependencies
          /\ \/ j \in Dependencies(manifest, i)
             \/ manifest[j] \in e.additional_dependencies
             \/ \E a \in e.additional_dependencies : a \notin Range(manifest)
      BY <1>1, <1>2, <1>4, <2>1, <2>2, <2>3 DEF KnowsItsMakers, Makers
    <3>3. \A a \in e.additional_dependencies : StepOf(a) # {}
      BY <1>1, <1>2, <1>3, <3>1, InputFacts DEF e
    <3>4. \A a \in e.additional_dependencies : a \in Range(manifest)
      BY <3>3 DEF StepOf, Range
    <3>5. j \in in.deps[i] /\ in.ignored[i] = e.ignored_dependencies
      <4>1. in.deps[i] = Dependencies(manifest, i) \cup StepIn(e.additional_dependencies)
            /\ in.ignored[i] = e.ignored_dependencies
        BY <1>1, <1>2, <1>3, InputFacts DEF e
      <4>2. manifest[j] \in e.additional_dependencies => j \in StepIn(e.additional_dependencies)
        BY SMT, <2>2 DEF StepIn, StepOf
      <4> QED BY <3>2, <3>4, <4>1, <4>2
    <3> QED BY <2>5, <3>1, <3>2, <3>5
  <2>7. CASE ~no_direct_dependencies_built[i]
    <3>1. invocations = log
      BY <1>1 DEF InputInv
    <3>2. (fs[x] # Missing /\ x \in DOMAIN written_files) => written_files[x] = e.input_files[x]
      BY <2>7, <3>1 DEF canSkipBuildCommand, e
    <3>3. fs[x] # Missing /\ x \in DOMAIN written_files
      BY <1>1, <2>1, <2>4, <2>5 DEF MapsInv
    <3>4. written_files[x] = fs[x]
      BY <1>1, <3>3 DEF MapsInv
    <3> QED BY <3>2, <3>3, <3>4
  <2> QED BY <2>6, <2>7
<1> QED BY <1>2, <1>5, <1>6 DEF isClean, Matches

\* The outputs that are recorded of a step that is not run are its products.
LEMMA SkippedProducts ==
  ASSUME ProjectOK, IncrementalInv, Active, NEW i \in DOMAIN manifest,
         i \in in.phony \/ isClean(log, fs, i)
  PROVE  /\ SkippedOutputs(i) = Products[manifest[i]]
         /\ \A x \in Products[manifest[i]] : fs[x] # Missing
<1>1. InputInv /\ StoreInv /\ manifest \in Manifests /\ manifest[i] \in Def /\ i \in Step
  BY ManifestFacts DEF IncrementalInv, StoreInv
<1>2. CASE i \in in.phony
  <2>1. ~IsTraced(manifest[i])
    BY <1>1, <1>2, InputFacts DEF IsTraced
  <2>2. Products[manifest[i]] = {}
    BY <1>1, <2>1 DEF ProjectOK, UntracedWriteNothing
  <2> QED BY <1>2, <2>2 DEF SkippedOutputs
<1>3. CASE i \notin in.phony /\ isClean(log, fs, i)
  <2> DEFINE e == log[manifest[i]]
  <2>1. HasEntry(log, i) /\ Matches(e, fs) /\ IsEntry(manifest[i], e)
    BY <1>1, <1>3 DEF isClean, HasEntry, StoreInv, IsEntries
  <2>2. SkippedOutputs(i) = {x \in DOMAIN e.output_files : e.output_files[x] # Missing}
    BY <1>1, <1>3, <2>1 DEF SkippedOutputs, InputInv
  <2> HIDE DEF e
  <2>3. /\ DOMAIN e.output_files = Products[manifest[i]]
        /\ \A x \in Products[manifest[i]] : e.output_files[x] \in Value
    BY <2>1, EntryFiles
  <2>4. \A x \in Products[manifest[i]] : e.output_files[x] # Missing /\ fs[x] = e.output_files[x]
    BY <2>1, <2>3, IncrementalTyped DEF Matches
  <2> QED BY <2>2, <2>3, <2>4
<1> QED BY <1>2, <1>3

\* markStepNodeAsDone for such a step.
LEMMA SkipKeeps ==
  ASSUME ProjectOK, IncrementalInv, Active, NEW i \in DOMAIN manifest,
         i \in in.phony \/ isClean(log, fs, i), recordOutputs(i, SkippedOutputs(i)),
         skipped' = skipped \cup {i}, phase' # "idle",
         UNCHANGED <<storeVars, invocations, written_files, in, should_build, running, built, failed>>
  PROVE  StoreInv' /\ PendingInv' /\ InputInv' /\ CleanInv' /\ DoneInv' /\ MapsInv'
<1>1. StoreInv /\ PendingInv /\ InputInv /\ CleanInv /\ DoneInv /\ MapsInv
  BY DEF IncrementalInv
<1>2. UNCHANGED <<fs, log, pending, manifest, in, invocations, should_build>>
  BY DEF storeVars
<1>3. StoreInv' /\ PendingInv'
  BY <1>1, <1>2 DEF StoreInv, PendingInv, IsEntries, StepOf
<1>4. InputInv'
  BY <1>1, <1>2, InputFrame
<1>5. CleanInv'
  BY SMT, <1>1, <1>2 DEF CleanInv, Touched
<1>6. DoneInv'
  BY SMT, <1>1, <1>2 DEF DoneInv, isClean, HasEntry, Matches
<1>7. MapsInv'
  <2>1. /\ SkippedOutputs(i) = Products[manifest[i]]
        /\ \A x \in Products[manifest[i]] : fs[x] # Missing
    BY SkippedProducts
  <2>2. /\ DOMAIN output_files' = DOMAIN output_files \cup Products[manifest[i]]
        /\ \A x \in Products[manifest[i]] : output_files'[x] = i /\ x \notin DOMAIN output_files
        /\ \A x \in DOMAIN output_files : output_files'[x] = output_files[x]
    BY <2>1 DEF recordOutputs, Override
  <2>3. Done' = Done \cup {i}
    BY <1>2 DEF Done
  <2> QED BY SMT, <1>1, <1>2, <2>1, <2>2, <2>3 DEF MapsInv
<1> QED BY <1>3, <1>4, <1>5, <1>6, <1>7
-----------------------------------------------------------------------------
(***************************************************************************)
(* One lemma per action: what it does to the invariant but for IInv.       *)
(***************************************************************************)
FilesInv ==
  /\ StoreInv /\ PendingInv
  /\ Active => InputInv /\ CleanInv /\ DoneInv /\ MapsInv

\* The scheduler's variables when a step is taken from the ready ones.
LEMMA ReadyFacts ==
  ASSUME IncrementalInv, Active, NEW i \in ready_steps \cup running
  PROVE  i \in Released /\ i \in DOMAIN manifest /\ i \in Step /\ i \notin Done
<1>1. i \in Released
  BY DEF Released
<1> QED BY <1>1, AncestorsDone DEF IncrementalInv, IInv, Partition, Done

\* Steps of the scheduler that concern no file.
LEMMA QuietKeeps ==
  ASSUME IncrementalInv, Active, phase' # "idle",
         UNCHANGED <<storeVars, invocations, written_files>>,
         UNCHANGED <<in, should_build, running, built, failed, skipped>>,
         DOMAIN output_files' = DOMAIN output_files,
         \A x \in DOMAIN output_files : output_files'[x] = output_files[x]
  PROVE  FilesInv'
<1>1. StoreInv /\ PendingInv /\ InputInv /\ CleanInv /\ DoneInv /\ MapsInv
  BY DEF IncrementalInv
<1>2. UNCHANGED <<fs, log, pending, manifest, in, invocations, should_build>>
  BY DEF storeVars
<1>3. StoreInv' /\ PendingInv'
  BY <1>1, <1>2 DEF StoreInv, PendingInv, IsEntries, StepOf
<1>4. InputInv'
  BY <1>1, <1>2, InputFrame
<1>5. CleanInv'
  BY SMT, <1>1, <1>2 DEF CleanInv, Touched
<1>6. DoneInv'
  BY SMT, <1>1, <1>2 DEF DoneInv, isClean, HasEntry, Matches
<1>7. MapsInv'
  <2>1. Done' = Done
    BY DEF Done
  <2> QED BY <1>1, <1>2, <2>1 DEF MapsInv
<1> QED BY <1>3, <1>4, <1>5, <1>6, <1>7 DEF FilesInv

LEMMA DiscardKeeps ==
  ASSUME ProjectOK, IncrementalInv, NEW i \in Step, IDiscardStep(i)
  PROVE  FilesInv'
<1>1. /\ phase = "discard" /\ i \in ready_steps /\ phase' = "discard"
      /\ UNCHANGED <<storeVars, invocations, written_files>>
      /\ UNCHANGED <<in, should_build, running, built, failed>>
  BY DEF IDiscardStep, DiscardStep
<1>2. Active /\ i \in DOMAIN manifest
  BY <1>1, ReadyFacts DEF Active
<1>3. CASE i \in in.clean \cup in.phony
  <2>1. i \in in.phony \/ isClean(log, fs, i)
    BY <1>1, <1>3, DiscardedIsClean
  <2>2. skipped' = skipped \cup {i} /\ recordOutputs(i, SkippedOutputs(i))
    BY <1>3 DEF IDiscardStep, DiscardStep
  <2> QED BY <1>1, <1>2, <2>1, <2>2, SkipKeeps DEF FilesInv
<1>4. CASE i \notin in.clean \cup in.phony
  <2>1. UNCHANGED skipped /\ recordOutputs(i, {})
    BY <1>4 DEF IDiscardStep, DiscardStep
  <2>2. /\ DOMAIN output_files' = DOMAIN output_files
        /\ \A x \in DOMAIN output_files : output_files'[x] = output_files[x]
    BY <2>1 DEF recordOutputs, Override
  <2> QED BY <1>1, <1>2, <2>1, <2>2, QuietKeeps
<1> QED BY <1>3, <1>4

LEMMA BypassKeeps ==
  ASSUME ProjectOK, IncrementalInv, NEW i \in Step, IBypassCommand(i)
  PROVE  FilesInv'
<1>1. /\ phase = "enqueue" /\ i \in ready_steps /\ phase' = "enqueue" /\ canSkipBuildCommand(i)
      /\ skipped' = skipped \cup {i} /\ recordOutputs(i, SkippedOutputs(i))
      /\ UNCHANGED <<storeVars, invocations, written_files>>
      /\ UNCHANGED <<in, should_build, running, built, failed>>
  BY DEF IBypassCommand, BypassCommand
<1>2. Active /\ i \in DOMAIN manifest
  BY <1>1, ReadyFacts DEF Active
<1>3. isClean(log, fs, i)
  BY <1>1, <1>2, BypassedIsClean
<1> QED BY <1>1, <1>2, <1>3, SkipKeeps DEF FilesInv

\* A command that starts, or one that fails: its products may change.
LEMMA RunKeeps ==
  ASSUME ProjectOK, IncrementalInv, Active, NEW i \in DOMAIN manifest, i \notin Done,
         OnlyProductsOf(i), i \in Touched', Touched \subseteq Touched', phase' # "idle",
         UNCHANGED <<log, pending, manifest, fileVars, in, should_build, skipped, built>>
  PROVE  FilesInv'
<1>1. StoreInv /\ PendingInv /\ InputInv /\ CleanInv /\ DoneInv /\ MapsInv
  BY DEF IncrementalInv
<1>2. /\ CleanInv'
      /\ \A t \in skipped \ in.phony : isClean(log, fs, t)'
      /\ \A t \in built : IsTraced(manifest[t]) =>
           \E k \in DOMAIN pending : pending[k].hash = manifest[t]
                                   /\ \A e \in pending[k].entry : Matches(e, fs')
      /\ \A t \in Done : \A x \in Products[manifest[t]] : fs'[x] = fs[x]
  BY FilesChange
<1>3. StoreInv' /\ PendingInv'
  BY <1>1 DEF StoreInv, PendingInv, IsEntries, StepOf, OnlyProductsOf
<1>4. InputInv'
  BY <1>1, InputFrame DEF fileVars
<1>5. DoneInv'
  BY <1>2 DEF DoneInv, Matches
<1>6. MapsInv'
  <2>1. Done' = Done /\ built \subseteq Done
    BY DEF Done
  <2> QED BY SMT, <1>1, <1>2, <2>1 DEF MapsInv, fileVars
<1> QED BY <1>2, <1>3, <1>4, <1>5, <1>6 DEF FilesInv

LEMMA InvokeKeeps ==
  ASSUME ProjectOK, IncrementalInv, NEW i \in Step, IInvokeCommand(i)
  PROVE  FilesInv'
<1>1. /\ phase = "enqueue" /\ i \in ready_steps /\ phase' = "enqueue" /\ running' = running \cup {i}
      /\ fs' = deleteOldOutputs(i)
      /\ UNCHANGED <<log, pending, manifest, fileVars, in, should_build, skipped, built, failed>>
  BY DEF IInvokeCommand, InvokeCommand
<1>2. Active /\ i \in DOMAIN manifest /\ i \notin Done
  BY <1>1, ReadyFacts DEF Active
<1>3. StoreInv /\ InputInv /\ manifest \in Manifests /\ fs \in FileSystems
  BY <1>2 DEF IncrementalInv, StoreInv
<1>4. OnlyProductsOf(i)
  <2>1. CASE HasEntry(log, i)
    <3> DEFINE e == log[manifest[i]]
    <3>1. IsEntry(manifest[i], e)
      BY <1>3, <2>1 DEF HasEntry, StoreInv, IsEntries
    <3>2. fs' = Delete(fs, DOMAIN e.output_files)
      BY <1>1, <1>3, <2>1 DEF deleteOldOutputs, InputInv
    <3> HIDE DEF e
    <3>3. DOMAIN e.output_files = Products[manifest[i]]
      BY <3>1, EntryFiles
    <3> QED BY <1>3, <3>2, <3>3 DEF OnlyProductsOf, Delete, FileSystems, Content
  <2>2. CASE ~HasEntry(log, i)
    BY <1>1, <1>3, <2>2 DEF deleteOldOutputs, InputInv, OnlyProductsOf
  <2> QED BY <2>1, <2>2
<1>5. i \in Touched' /\ Touched \subseteq Touched'
  BY <1>1 DEF Touched
<1> QED BY <1>1, <1>2, <1>4, <1>5, RunKeeps

LEMMA FailsKeeps ==
  ASSUME ProjectOK, IncrementalInv, NEW i \in Step, CommandFails(i)
  PROVE  FilesInv'
<1>1. /\ phase = "wait" /\ i \in running /\ phase' = "enqueue" /\ running' = running \ {i}
      /\ failed' = failed \cup {i}
      /\ UNCHANGED <<log, pending, manifest, fileVars, in, should_build, skipped, built>>
  BY DEF CommandFails, CommandDone
<1>2. Active /\ i \in DOMAIN manifest /\ i \notin Done
  BY <1>1, ReadyFacts DEF Active
<1>3. manifest \in Manifests /\ fs \in FileSystems /\ manifest[i] \in Def
  BY <1>2, ManifestFacts DEF IncrementalInv, StoreInv
<1>4. Interrupted({i}) \subseteq Products[manifest[i]]
  BY <1>3, CommandFacts DEF Interrupted
<1>5. OnlyProductsOf(i)
  <2>1. PICK partial \in {{}, Interrupted({i})} :
          fs' = [x \in File |-> IF x \in partial THEN Partial ELSE fs[x]]
    BY DEF CommandFails
  <2>2. Partial \in Content /\ partial \subseteq Products[manifest[i]]
    BY <1>4, IncrementalTyped DEF Content
  <2> QED BY <1>3, <2>1, <2>2 DEF OnlyProductsOf, FileSystems
<1>6. i \in Touched' /\ Touched \subseteq Touched'
  BY <1>1 DEF Touched
<1> QED BY <1>1, <1>2, <1>5, <1>6, RunKeeps
-----------------------------------------------------------------------------
(***************************************************************************)
(* A command that succeeds, and what is logged of it.                      *)
(***************************************************************************)
\* Its effect on the files.
LEMMA CommandEffect ==
  ASSUME ProjectOK, IncrementalInv, NEW i \in DOMAIN manifest
  PROVE  LET h == manifest[i]
             f == AfterCommand(h)
         IN  /\ f \in FileSystems /\ fs \in FileSystems /\ h \in Def
             /\ Writes(h, fs) = Products[h]
             /\ \A x \in Products[h] : f[x] = Compute(h, x, fs) /\ f[x] \in Value
             /\ \A x \in File \ Products[h] : f[x] = fs[x]
             /\ \A x \in Reads(h, fs) : x \in File /\ f[x] = fs[x]
<1>1. manifest[i] \in Def /\ fs \in FileSystems
  BY ManifestFacts DEF IncrementalInv, StoreInv
<1>2. /\ Reads(manifest[i], fs) \subseteq File /\ Writes(manifest[i], fs) = Products[manifest[i]]
      /\ Products[manifest[i]] \subseteq File /\ Products[manifest[i]] \cap Reads(manifest[i], fs) = {}
      /\ \A x \in Products[manifest[i]] : Compute(manifest[i], x, fs) \in Value
  BY <1>1, CommandFacts
<1> QED BY <1>1, <1>2 DEF AfterCommand, FileSystems, Content

\* What is logged names the steps whose products it read.
LEMMA UsedAreMakers ==
  ASSUME ProjectOK, IncrementalInv, Active, NEW i \in running
  PROVE  LET h == manifest[i]
             used == usedDependencies(Reads(h, fs), AfterCommand(h))
         IN  /\ \A j \in used : j \in DOMAIN manifest /\ Products[manifest[j]] \cap Reads(h, fs) # {}
             /\ \A m \in Manifests : \A j \in DOMAIN m : Products[m[j]] \cap Reads(h, fs) # {} =>
                  j \in used /\ j \in DOMAIN manifest
<1> DEFINE h == manifest[i]
           f == AfterCommand(h)
           used == usedDependencies(Reads(h, fs), f)
<1>1. i \in Released /\ i \in DOMAIN manifest /\ MapsInv /\ manifest \in Manifests
  BY ReadyFacts DEF IncrementalInv, StoreInv
<1>2. fs \in FileSystems /\ \A x \in Reads(h, fs) : f[x] = fs[x]
  BY <1>1, CommandEffect
<1>3. \A t \in Done : t \in DOMAIN manifest
  BY AncestorsDone DEF Released
<1>4. ASSUME NEW j \in used
      PROVE  j \in DOMAIN manifest /\ Products[manifest[j]] \cap Reads(h, fs) # {}
  <2>1. PICK x \in Reads(h, fs) \cap DOMAIN output_files : j = output_files[x]
    BY DEF usedDependencies
  <2>2. j \in Done /\ x \in Products[manifest[j]]
    BY <1>1, <2>1 DEF MapsInv
  <2> QED BY <1>3, <2>1, <2>2
<1>5. ASSUME NEW m \in Manifests, NEW j \in DOMAIN m, NEW x \in Products[m[j]], x \in Reads(h, fs)
      PROVE  j \in used /\ j \in DOMAIN manifest
  <2> HIDE DEF h, f
  <2>1. j \in Done
    BY <1>1, <1>2, <1>5, MakersDone DEF h
  <2>2. j \in DOMAIN manifest /\ Products[m[j]] = Products[manifest[j]]
    BY SMT, <1>1, <1>3, <2>1 DEF ProjectOK, EditsKeepTheSteps
  <2>3. x \in DOMAIN output_files /\ output_files[x] = j /\ fs[x] # Missing
    BY <1>1, <2>1, <2>2 DEF MapsInv
  <2> QED BY <1>2, <1>5, <2>2, <2>3 DEF usedDependencies
<1> QED BY <1>4, <1>5

LEMMA LoggedIsEntry ==
  ASSUME ProjectOK, IncrementalInv, Active, NEW i \in running, IsTraced(manifest[i])
  PROVE  LET h == manifest[i]
             f == AfterCommand(h)
             e == LogEntry(i, Reads(h, fs), Writes(h, fs), f)
         IN  e \in Entry /\ IsEntry(h, e) /\ Matches(e, f)
<1> DEFINE h == manifest[i]
           f == AfterCommand(h)
           reads == Reads(h, fs)
           used == usedDependencies(reads, f)
           e == LogEntry(i, reads, Writes(h, fs), f)
<1>1. i \in DOMAIN manifest /\ manifest \in Manifests
  BY ReadyFacts DEF IncrementalInv, StoreInv
<1>2. /\ f \in FileSystems /\ fs \in FileSystems /\ h \in Def
      /\ Writes(h, fs) = Products[h]
      /\ \A x \in Products[h] : f[x] = Compute(h, x, fs) /\ f[x] \in Value
      /\ \A x \in reads : x \in File /\ f[x] = fs[x]
  BY <1>1, CommandEffect
<1>3. Products[h] \subseteq File
  BY <1>2, CommandFacts
<1>4. /\ \A j \in used : j \in DOMAIN manifest /\ Products[manifest[j]] \cap reads # {}
      /\ \A m \in Manifests : \A j \in DOMAIN m : Products[m[j]] \cap reads # {} =>
           j \in used /\ j \in DOMAIN manifest
  BY UsedAreMakers
<1>5. e = [output_files |-> [x \in Products[h] |-> f[x]],
           input_files |-> [x \in reads |-> f[x]],
           ignored_dependencies |-> Dependencies(manifest, i) \ used,
           additional_dependencies |-> {manifest[j] : j \in used \ Dependencies(manifest, i)}]
  BY <1>2 DEF LogEntry, stepDependencies
<1> HIDE DEF e, f, reads, used, h
<1>6. e \in Entry
  <2>1. \A x \in File : f[x] \in Content
    BY <1>2 DEF FileSystems
  <2>2. [x \in Products[h] |-> f[x]] \in PartOf(Content) /\ [x \in reads |-> f[x]] \in PartOf(Content)
    <3>1. reads \subseteq File
      BY <1>2
    <3>2. \A X \in SUBSET File : [x \in X |-> f[x]] \in [X -> Content]
      BY <2>1
    <3> QED BY SMT, <1>3, <3>1, <3>2 DEF PartOf
  <2>3. Dependencies(manifest, i) \ used \in SUBSET Step
    BY <1>1, ManifestFacts DEF Dependencies
  <2>4. {manifest[j] : j \in used \ Dependencies(manifest, i)} \in SUBSET Def
    BY SMT, <1>1, <1>4, ManifestFacts
  <2> QED BY <1>5, <2>2, <2>3, <2>4 DEF Entry
<1>7. Recalls(h, e, fs) /\ Matches(e, f)
  BY <1>2, <1>5 DEF Recalls, Matches, reads
<1>8. NamesMakers(h, e, fs)
  BY <1>4, <1>5 DEF NamesMakers, reads
<1>9. KnowsItsMakers(h, e, fs)
  <2> SUFFICES ASSUME NEW m \in Manifests, NEW k \in DOMAIN m, m[k] = h, NEW j \in Makers(m, h, fs)
               PROVE  /\ j \notin e.ignored_dependencies
                      /\ \/ j \in Dependencies(m, k)
                         \/ m[j] \in e.additional_dependencies
                         \/ \E a \in e.additional_dependencies : a \notin Range(m)
    BY DEF KnowsItsMakers
  <2>1. j \in used /\ j \in DOMAIN manifest /\ j \in DOMAIN m
    BY <1>4 DEF Makers, reads
  <2>2. k = i
    BY SMT, <1>1 DEF ProjectOK, EditsKeepTheSteps, h
  <2>3. Outputs[m[j]] = Outputs[manifest[j]]
    BY SMT, <1>1, <2>1 DEF ProjectOK, EditsKeepTheSteps
  <2>4. j \in Dependencies(manifest, i) => j \in Dependencies(m, k)
    BY <2>1, <2>2, <2>3 DEF Dependencies, h
  <2>5. CASE j \in Dependencies(manifest, i)
    BY <1>5, <2>1, <2>4, <2>5
  <2>6. CASE j \notin Dependencies(manifest, i)
    <3>1. manifest[j] \in e.additional_dependencies
      BY <1>5, <2>1, <2>6
    <3>2. CASE m[j] = manifest[j]
      BY <1>5, <2>1, <3>1, <3>2
    <3>3. CASE m[j] # manifest[j]
      <4>1. \A n \in DOMAIN m : m[n] = manifest[j] => n = j
        BY SMT, <1>1, <2>1 DEF ProjectOK, EditsKeepTheSteps
      <4>2. manifest[j] \notin Range(m)
        BY <3>3, <4>1 DEF Range
      <4> QED BY <1>5, <2>1, <3>1, <4>2
    <3> QED BY <3>2, <3>3
  <2> QED BY <2>5, <2>6
<1>10. IsEntry(h, e)
  BY <1>2, <1>6, <1>7, <1>8, <1>9 DEF IsEntry, h
<1> QED BY <1>6, <1>7, <1>10 DEF e, f, reads, h
\* Its record is the only one about the step.
LEMMA RecordKeeps ==
  ASSUME ProjectOK, IncrementalInv, Active, NEW i \in running, UNCHANGED <<manifest, log>>,
         phase' # "idle", fs' \in FileSystems, built' = built \cup {i},
         NEW e, e \in Entry, IsEntry(manifest[i], e),
         pending' = Append(pending, RanCommand(manifest[i], e))
  PROVE  /\ StoreInv' /\ PendingInv' /\ DOMAIN pending \subseteq DOMAIN pending'
         /\ \A k \in DOMAIN pending : pending'[k] = pending[k]
         /\ \E k \in DOMAIN pending' : pending'[k] = RanCommand(manifest[i], e)
<1> DEFINE r == RanCommand(manifest[i], e)
           n == Len(pending)
<1>1. StoreInv /\ PendingInv /\ pending \in Seq(LogRecord) /\ manifest \in Manifests
  BY DEF IncrementalInv, StoreInv
<1>2. i \in DOMAIN manifest /\ i \notin Done /\ \A t \in Done : t \in DOMAIN manifest
  BY ReadyFacts, AncestorsDone DEF Released
<1>3. r.hash = manifest[i] /\ r.entry = {e} /\ r \in LogRecord
  BY <1>1, <1>2, ManifestFacts DEF RanCommand, LogRecord
<1> HIDE DEF r
<1>4. /\ pending' \in Seq(LogRecord) /\ n \in Nat
      /\ DOMAIN pending' = 1..(n + 1) /\ DOMAIN pending = 1..n
      /\ \A k \in 1..n : pending'[k] = pending[k]
      /\ pending'[n + 1] = r
  BY SMT, <1>1, <1>3 DEF r
<1> HIDE DEF n
<1>5. \A k \in DOMAIN pending' : k \in DOMAIN pending \/ k = n + 1
  BY SMT, <1>4
<1>6. StoreInv'
  <2>1. \A k \in DOMAIN pending' : \A d \in pending'[k].entry : IsEntry(pending'[k].hash, d)
    BY <1>1, <1>3, <1>4, <1>5 DEF StoreInv
  <2> QED BY <1>1, <1>4, <2>1 DEF StoreInv, IsEntries
<1>7. \A k \in DOMAIN pending : pending[k].hash # manifest[i]
  <2> SUFFICES ASSUME NEW k \in DOMAIN pending, pending[k].hash = manifest[i] PROVE FALSE
    OBVIOUS
  <2>1. i \in StepOf(pending[k].hash)
    BY <1>2 DEF StepOf
  <2>2. PICK t \in built : manifest[i] = manifest[t]
    BY <1>1, <2>1 DEF PendingInv
  <2>3. t \in Done
    BY DEF Done
  <2> QED BY <1>1, <1>2, <2>2, <2>3, ManifestFacts
<1>8. PendingInv'
  <2>1. \A k, l \in DOMAIN pending' : pending'[k].hash = pending'[l].hash => k = l
    BY SMT, <1>1, <1>3, <1>4, <1>5, <1>7 DEF PendingInv
  <2>2. ASSUME NEW k \in DOMAIN pending'
        PROVE  \/ pending'[k].entry = {} /\ StepOf(pending'[k].hash) = {}
               \/ /\ \E d \in Entry : pending'[k].entry = {d}
                  /\ \E t \in built' : pending'[k].hash = manifest[t]
    <3>1. CASE k \in DOMAIN pending
      <4>1. \/ pending[k].entry = {} /\ StepOf(pending[k].hash) = {}
            \/ /\ \E d \in Entry : pending[k].entry = {d}
               /\ \E t \in built : pending[k].hash = manifest[t]
        BY <1>1, <3>1 DEF PendingInv
      <4>2. pending'[k] = pending[k] /\ built \subseteq built'
        BY <1>4, <3>1
      <4> QED BY <4>1, <4>2, Zenon
    <3>2. CASE k = n + 1
      BY <1>3, <1>4, <3>2
    <3> QED BY <1>5, <3>1, <3>2
  <2> QED BY <2>1, <2>2 DEF PendingInv, StepOf
<1> QED BY SMT, <1>4, <1>6, <1>8 DEF r

LEMMA SucceedsKeeps ==
  ASSUME ProjectOK, IncrementalInv, NEW i \in Step, CommandSucceeds(i)
  PROVE  FilesInv'
<1> DEFINE h == manifest[i]
           f == AfterCommand(h)
           reads == IF IsTraced(h) THEN Reads(h, fs) ELSE {}
           writes == IF IsTraced(h) THEN Writes(h, fs) ELSE {}
           e == LogEntry(i, Reads(h, fs), Writes(h, fs), f)
<1>1. /\ i \in running /\ phase = "wait" /\ phase' = "enqueue" /\ fs' = f
      /\ written_files' = Override([x \in writes |-> f[x]], written_files)
      /\ UNCHANGED <<log, manifest, invocations, in, should_build, skipped>>
  BY DEF CommandSucceeds, CommandDone
<1>2. Active
  BY <1>1 DEF Active
<1>3. i \in DOMAIN manifest /\ i \notin Done /\ \A t \in Done : t \in DOMAIN manifest
  BY <1>1, <1>2, ReadyFacts, AncestorsDone DEF Released
<1>4. /\ StoreInv /\ PendingInv /\ InputInv /\ CleanInv /\ DoneInv /\ MapsInv
      /\ manifest \in Manifests
  BY <1>2 DEF IncrementalInv, StoreInv
<1>5. /\ f \in FileSystems /\ h \in Def /\ Writes(h, fs) = Products[h]
      /\ \A x \in Products[h] : f[x] \in Value
      /\ \A x \in File \ Products[h] : f[x] = fs[x]
  BY <1>3, CommandEffect
<1>6. writes = Products[h]
  BY <1>5 DEF ProjectOK, UntracedWriteNothing
<1>7. \A t \in Done : Products[h] \cap Products[manifest[t]] = {}
  BY <1>3, <1>4, ProductsDisjoint
<1>8. writes \cap DOMAIN written_files = {}
  <2>1. built \subseteq Done
    BY DEF Done
  <2> HIDE DEF h, writes
  <2> QED BY SMT, <1>4, <1>6, <1>7, <2>1 DEF MapsInv
<1>9. /\ CommandDone(i, "SUCCESS") /\ recordOutputs(i, writes)
      /\ pending' = IF IsTraced(h) THEN Append(pending, RanCommand(h, e)) ELSE pending
  BY <1>8 DEF CommandSucceeds
<1>10. running' = running \ {i} /\ built' = built \cup {i} /\ UNCHANGED failed
  BY <1>9 DEF CommandDone
<1>11. OnlyProductsOf(i)
  BY <1>1, <1>5 DEF OnlyProductsOf
<1>12. Touched' = Touched /\ i \in Touched
  BY <1>1, <1>10 DEF Touched
<1>13. /\ CleanInv'
       /\ \A t \in skipped \ in.phony : isClean(log, fs, t)'
       /\ \A t \in built : IsTraced(manifest[t]) =>
            \E k \in DOMAIN pending : pending[k].hash = manifest[t]
                                    /\ \A d \in pending[k].entry : Matches(d, fs')
       /\ \A t \in Done : \A x \in Products[manifest[t]] : fs'[x] = fs[x]
  BY <1>1, <1>2, <1>3, <1>11, <1>12, FilesChange
<1>14. InputInv'
  BY <1>1, <1>4, InputFrame
<1>15. MapsInv'
  <2>1. Done' = Done \cup {i} /\ built \subseteq Done
    BY <1>1, <1>10 DEF Done
  <2>2. /\ DOMAIN output_files' = DOMAIN output_files \cup Products[h]
        /\ \A x \in Products[h] : output_files'[x] = i /\ x \notin DOMAIN output_files
        /\ \A x \in DOMAIN output_files : output_files'[x] = output_files[x]
    <3> HIDE DEF h, writes
    <3> QED BY <1>6, <1>9 DEF recordOutputs, Override
  <2>3. /\ DOMAIN written_files' = DOMAIN written_files \cup Products[h]
        /\ \A x \in Products[h] : written_files'[x] = fs'[x]
        /\ \A x \in DOMAIN written_files : written_files'[x] = written_files[x]
    <3> HIDE DEF h, writes, f
    <3> QED BY <1>1, <1>6, <1>8 DEF Override
  <2>4. \A x \in Products[h] : fs'[x] # Missing
    BY <1>1, <1>5, IncrementalTyped
  <2>5. \A t \in Done' : \A x \in Products[manifest[t]] :
          x \in DOMAIN output_files' /\ output_files'[x] = t /\ fs'[x] # Missing
    <3> SUFFICES ASSUME NEW t \in Done', NEW x \in Products[manifest[t]]
                 PROVE  x \in DOMAIN output_files' /\ output_files'[x] = t /\ fs'[x] # Missing
      OBVIOUS
    <3>1. CASE t \in Done
      BY <1>4, <1>13, <2>2, <3>1 DEF MapsInv
    <3>2. CASE t = i
      BY <2>2, <2>4, <3>2
    <3> QED BY <2>1, <3>1, <3>2
  <2>6. \A x \in DOMAIN output_files' :
          output_files'[x] \in Done' /\ x \in Products[manifest[output_files'[x]]]
    BY <1>4, <2>1, <2>2 DEF MapsInv
  <2>7. \A t \in built' : Products[manifest[t]] \subseteq DOMAIN written_files'
    BY <1>4, <1>10, <2>3 DEF MapsInv
  <2>8. \A x \in DOMAIN written_files' :
          written_files'[x] = fs'[x] /\ \E t \in built' : x \in Products[manifest[t]]
    BY <1>4, <1>10, <1>13, <2>1, <2>3 DEF MapsInv
  <2> QED BY <1>1, <2>5, <2>6, <2>7, <2>8 DEF MapsInv
<1>16. CASE IsTraced(h)
  <2>1. e \in Entry /\ IsEntry(h, e) /\ Matches(e, f)
    BY <1>1, <1>2, <1>16, LoggedIsEntry
  <2> HIDE DEF e, f
  <2>2. /\ StoreInv' /\ PendingInv' /\ DOMAIN pending \subseteq DOMAIN pending'
        /\ \A k \in DOMAIN pending : pending'[k] = pending[k]
        /\ \E k \in DOMAIN pending' : pending'[k] = RanCommand(h, e)
    BY <1>1, <1>2, <1>5, <1>9, <1>10, <1>16, <2>1, RecordKeeps
  <2>3. DoneInv'
    <3>1. \E k \in DOMAIN pending' : pending'[k].hash = h /\ \A d \in pending'[k].entry : Matches(d, fs')
      BY SMT, <1>1, <2>1, <2>2 DEF RanCommand
    <3>2. ASSUME NEW t \in built', IsTraced(manifest[t])
          PROVE  \E k \in DOMAIN pending' : pending'[k].hash = manifest[t]
                                          /\ \A d \in pending'[k].entry : Matches(d, fs')
      <4>1. CASE t = i
        BY <3>1, <4>1
      <4>2. CASE t \in built
        BY SMT, <1>13, <2>2, <3>2, <4>2
      <4> QED BY <1>10, <4>1, <4>2
    <3> QED BY <1>1, <1>13, <3>2 DEF DoneInv, Matches
  <2> QED BY <1>13, <1>14, <1>15, <2>2, <2>3 DEF FilesInv
<1>17. CASE ~IsTraced(h)
  <2>1. pending' = pending
    BY <1>9, <1>17
  <2>2. StoreInv' /\ PendingInv'
    BY SMT, <1>1, <1>4, <1>5, <1>10, <2>1 DEF StoreInv, PendingInv, IsEntries, StepOf
  <2>3. DoneInv'
    BY <1>1, <1>10, <1>13, <1>17, <2>1 DEF DoneInv, Matches
  <2> QED BY <1>13, <1>14, <1>15, <2>2, <2>3 DEF FilesInv
<1> QED BY <1>16, <1>17
-----------------------------------------------------------------------------
(***************************************************************************)
(* The beginning of a build, its end, and what happens in between builds.  *)
(***************************************************************************)
LEMMA DeleteTyped ==
  ASSUME NEW f \in FileSystems, NEW X
  PROVE  Delete(f, X) \in FileSystems
BY DEF Delete, FileSystems, Content

\* Between builds there is nothing in the scheduler and nothing to be written.
LEMMA IdleFacts ==
  ASSUME IncrementalInv, phase = "idle"
  PROVE  /\ Done = {} /\ Touched = {} /\ pending = <<>>
         /\ written_files = NoFunction /\ output_files = NoFunction
<1>1. IInv /\ StoreInv
  BY DEF IncrementalInv
<1>2. should_build = {}
  BY <1>1 DEF IInv, PhaseOK
<1>3. Released = {}
  BY <1>1, <1>2 DEF IInv, Partition
<1> QED BY <1>1, <1>3 DEF Released, Done, Touched, StoreInv

\* Everything that is visited is in the manifest.
LEMMA VisitedInManifest ==
  ASSUME manifest \in Manifests, NEW f, NEW targets
  PROVE  visitStep(BuildInput(f, targets).deps, BuildInput(f, targets).targets) \subseteq DOMAIN manifest
<1> DEFINE b == BuildInput(f, targets)
<1>1. DOMAIN manifest \in SUBSET Step
  BY ManifestFacts
<1>2. b.targets \subseteq DOMAIN manifest
  BY DEF BuildInput, StepIn, StepOf
<1>3. ClosedUnder(b.deps, DOMAIN manifest)
  <2> SUFFICES ASSUME NEW s \in DOMAIN manifest PROVE b.deps[s] \subseteq DOMAIN manifest
    BY DEF ClosedUnder
  <2>1. b.deps[s] = stepDependencies(s) \cup
           (IF HasEntry(log, s) THEN StepIn(log[manifest[s]].additional_dependencies) ELSE {})
    BY <1>1 DEF BuildInput
  <2>2. stepDependencies(s) \subseteq DOMAIN manifest
    BY DEF stepDependencies, Dependencies
  <2>3. StepIn(log[manifest[s]].additional_dependencies) \subseteq DOMAIN manifest
    BY DEF StepIn, StepOf
  <2> QED BY <2>1, <2>2, <2>3
<1> HIDE DEF b
<1> QED BY <1>1, <1>2, <1>3 DEF visitStep, b

\* deleteStaleOutputs
LEMMA StaleKeeps ==
  ASSUME IncrementalInv, phase = "idle", phase' # "idle", fs' \in FileSystems,
         UNCHANGED <<log, manifest>>, NEW order \in Orders(StaleEntries),
         pending' = [k \in DOMAIN order |-> CleanedCommand(order[k])]
  PROVE  StoreInv' /\ PendingInv'
<1>1. StoreInv
  BY DEF IncrementalInv
<1>2. PICK n \in 0..Cardinality(StaleEntries) : order \in Bijection(1..n, StaleEntries)
  BY DEF Orders
<1>3. /\ DOMAIN order = 1..n /\ \A k \in 1..n : order[k] \in StaleEntries
      /\ \A k, l \in 1..n : order[k] = order[l] => k = l
  BY <1>2 DEF Bijection, Injection, Surjection, IsInjective
<1>4. n \in Nat
  BY SMT
<1>5. \A h \in StaleEntries : h \in Def /\ StepOf(h) = {}
  BY <1>1 DEF StaleEntries, StoreInv, IsEntries, IsEntry
<1>6. /\ DOMAIN pending' = 1..n
      /\ \A k \in 1..n : pending'[k].hash = order[k] /\ pending'[k].entry = {}
                         /\ pending'[k] \in LogRecord
  BY <1>3, <1>5 DEF CleanedCommand, LogRecord
<1>7. pending' \in Seq(LogRecord)
  BY SMT, <1>3, <1>4, <1>6
<1>8. StoreInv'
  BY <1>1, <1>6, <1>7 DEF StoreInv, IsEntries
<1>9. PendingInv'
  BY SMT, <1>3, <1>5, <1>6 DEF PendingInv, StepOf
<1> QED BY <1>8, <1>9

LEMMA BeginKeeps ==
  ASSUME IncrementalInv, NEW targets, BeginBuild(targets)
  PROVE  FilesInv'
<1> DEFINE f == Delete(fs, UNION {DOMAIN log[h].output_files : h \in StaleEntries})
           input == BuildInput(f, targets)
           visited == visitStep(input.deps, input.targets)
<1>1. /\ phase = "idle" /\ Construct(input) /\ fs' = f /\ invocations' = log
      /\ UNCHANGED <<log, manifest, written_files, output_files, running, skipped, built, failed>>
      /\ \E order \in Orders(StaleEntries) :
           pending' = [k \in DOMAIN order |-> CleanedCommand(order[k])]
  BY DEF BeginBuild, Construct
<1>2. StoreInv /\ manifest \in Manifests /\ fs \in FileSystems
  BY DEF IncrementalInv, StoreInv
<1>3. fs' \in FileSystems
  BY <1>1, <1>2, DeleteTyped
<1>4. phase' # "idle"
  BY <1>1 DEF Construct
<1>5. StoreInv' /\ PendingInv'
  BY <1>1, <1>3, <1>4, StaleKeeps
<1>6. SUFFICES ASSUME Active' PROVE InputInv' /\ CleanInv' /\ DoneInv' /\ MapsInv'
  BY <1>5 DEF FilesInv
<1>7. in' = [input EXCEPT !.clean = input.clean \cap visited] /\ should_build' = visited
  BY <1>1, <1>6 DEF Construct, Active, Succeeded
<1>8. visited \subseteq DOMAIN manifest
  BY <1>2, VisitedInManifest
<1>9. \A i \in input.clean : i \in DOMAIN manifest /\ isClean(log, f, i)
  BY DEF BuildInput
<1>10. /\ in'.deps = input.deps /\ in'.ignored = input.ignored /\ in'.unknown = input.unknown
       /\ in'.phony = input.phony /\ in'.clean = input.clean \cap visited
  BY <1>7 DEF BuildInput
<1> HIDE DEF f, visited
<1>11. InputInv'
  <2>1. /\ BuildInput(fs, {})'.deps = input.deps /\ BuildInput(fs, {})'.ignored = input.ignored
        /\ BuildInput(fs, {})'.unknown = input.unknown /\ BuildInput(fs, {})'.phony = input.phony
    <3>1. UNCHANGED <<manifest, log>>
      BY <1>1
    <3>2. /\ \A i : stepDependencies(i)' = stepDependencies(i)
          /\ \A i : HasEntry(log, i)' <=> HasEntry(log, i)
          /\ \A S : StepIn(S)' = StepIn(S)
          /\ \A h : StepOf(h)' = StepOf(h)
      BY SMT, <3>1 DEF stepDependencies, Dependencies, HasEntry, StepIn, StepOf
    <3>3. BuildInput(fs, {})'.deps = input.deps
      BY <3>1, <3>2 DEF BuildInput
    <3>4. BuildInput(fs, {})'.ignored = input.ignored
      BY <3>1, <3>2 DEF BuildInput
    <3>5. BuildInput(fs, {})'.unknown = input.unknown
      BY <3>1, <3>2 DEF BuildInput
    <3>6. BuildInput(fs, {})'.phony = input.phony
      BY <3>1, <3>2 DEF BuildInput
    <3> QED BY <3>3, <3>4, <3>5, <3>6
  <2>2. \A i \in in'.clean : HasEntry(log, i)'
    BY <1>1, <1>9, <1>10 DEF isClean, HasEntry
  <2> HIDE DEF input
  <2> QED BY <1>1, <1>7, <1>8, <1>10, <2>1, <2>2 DEF InputInv
<1> HIDE DEF input
<1>12. CleanInv'
  BY <1>1, <1>9, <1>10 DEF CleanInv, isClean, Matches
<1>13. Done' = {} /\ skipped' = {} /\ built' = {}
  BY <1>1, IdleFacts DEF Done
<1>14. DoneInv'
  BY <1>13 DEF DoneInv
<1>15. MapsInv'
  <2>1. DOMAIN written_files' = {} /\ DOMAIN output_files' = {}
    BY <1>1, IdleFacts DEF NoFunction
  <2> QED BY <1>13, <2>1 DEF MapsInv
<1> QED BY <1>11, <1>12, <1>14, <1>15
\* Records of different steps.
DistinctRecords(p) ==
  p \in Seq(LogRecord) /\ \A k, l \in DOMAIN p : p[k].hash = p[l].hash => k = l

LEMMA LastRecordIs ==
  ASSUME NEW p, DistinctRecords(p), NEW k \in DOMAIN p
  PROVE  LastRecord(p, p[k].hash) = p[k]
<1> DEFINE P(c) == p[c].hash = p[k].hash /\ \A j \in DOMAIN p : p[j].hash = p[k].hash => j <= c
<1>1. \A c \in DOMAIN p : P(c) => c = k
  BY DEF DistinctRecords
<1>2. P(k)
  <2>1. k \in Int
    BY SMT DEF DistinctRecords
  <2> QED BY SMT, <2>1 DEF DistinctRecords
<1>3. (CHOOSE c \in DOMAIN p : P(c)) = k
  <2> HIDE DEF P
  <2> QED BY <1>1, <1>2
<1> QED BY <1>3 DEF LastRecord

\* The log after such records have been written.
LEMMA WrittenFacts ==
  ASSUME NEW l, NEW p, DistinctRecords(p)
  PROVE  /\ \A h \in DOMAIN Written(l, p) :
              \/ h \in DOMAIN l /\ Written(l, p)[h] = l[h]
              \/ \E k \in DOMAIN p : p[k].hash = h /\ Written(l, p)[h] \in p[k].entry
         /\ \A h \in DOMAIN l : (\A k \in DOMAIN p : p[k].hash # h) =>
              h \in DOMAIN Written(l, p) /\ Written(l, p)[h] = l[h]
         /\ \A k \in DOMAIN p : p[k].entry # {} =>
              p[k].hash \in DOMAIN Written(l, p) /\ Written(l, p)[p[k].hash] \in p[k].entry
<1> DEFINE touched == {p[k].hash : k \in DOMAIN p}
           left == (DOMAIN l \ touched) \cup {h \in touched : LastRecord(p, h).entry # {}}
           w == [h \in left |-> IF h \in touched THEN CHOOSE e \in LastRecord(p, h).entry : TRUE ELSE l[h]]
<1>1. Written(l, p) = w
  BY DEF Written
<1>2. ASSUME NEW k \in DOMAIN p
      PROVE  /\ p[k].hash \in touched
             /\ p[k].hash \in left <=> p[k].entry # {}
             /\ p[k].hash \in left => w[p[k].hash] \in p[k].entry
  <2>1. p[k].hash \in touched
    OBVIOUS
  <2>2. LastRecord(p, p[k].hash) = p[k]
    BY LastRecordIs
  <2>3. p[k].hash \in left <=> p[k].entry # {}
    BY <2>1, <2>2
  <2>4. ASSUME p[k].hash \in left PROVE w[p[k].hash] \in p[k].entry
    <3>1. w[p[k].hash] = CHOOSE e \in p[k].entry : TRUE
      BY <2>1, <2>2, <2>4
    <3> QED BY <2>3, <2>4, <3>1
  <2> QED BY <2>1, <2>3, <2>4
<1>3. ASSUME NEW h \in DOMAIN l, h \notin touched PROVE h \in left /\ w[h] = l[h]
  BY <1>3
<1>4. ASSUME NEW h \in left
      PROVE  \/ h \in DOMAIN l /\ w[h] = l[h]
             \/ \E k \in DOMAIN p : p[k].hash = h /\ w[h] \in p[k].entry
  <2>1. CASE h \in touched
    BY <1>2, <2>1
  <2>2. CASE h \notin touched
    BY <1>3, <2>2
  <2> QED BY <2>1, <2>2
<1>5. DOMAIN w = left /\ \A h \in DOMAIN l : (\A k \in DOMAIN p : p[k].hash # h) => h \notin touched
  OBVIOUS
<1> HIDE DEF w, left, touched
<1> QED BY <1>1, <1>2, <1>3, <1>4, <1>5

LEMMA WrittenIsEntries ==
  ASSUME IncrementalInv, NEW k \in 0..Len(pending)
  PROVE  IsEntries(Written(log, SubSeq(pending, 1, k)))
<1> DEFINE p == SubSeq(pending, 1, k)
<1>1. StoreInv /\ PendingInv /\ pending \in Seq(LogRecord)
  BY DEF IncrementalInv, StoreInv
<1>2. p \in Seq(LogRecord) /\ DOMAIN p \subseteq DOMAIN pending /\ \A j \in DOMAIN p : p[j] = pending[j]
  BY SMT, <1>1
<1> HIDE DEF p
<1>3. DistinctRecords(p)
  BY <1>1, <1>2 DEF DistinctRecords, PendingInv
<1>4. \A j \in DOMAIN p : \A e \in p[j].entry : IsEntry(p[j].hash, e)
  BY <1>1, <1>2 DEF StoreInv
<1>5. \A h \in DOMAIN log : IsEntry(h, log[h])
  BY <1>1 DEF StoreInv, IsEntries
<1>6. \A h \in DOMAIN Written(log, p) :
        \/ h \in DOMAIN log /\ Written(log, p)[h] = log[h]
        \/ \E j \in DOMAIN p : p[j].hash = h /\ Written(log, p)[h] \in p[j].entry
  BY <1>3, WrittenFacts
<1> QED BY SMT, <1>4, <1>5, <1>6 DEF IsEntries, p

LEMMA StopKeeps ==
  ASSUME ProjectOK, IncrementalInv, IInterrupt \/ Abort
  PROVE  FilesInv'
<1>1. /\ phase' = "finished" /\ result' \in {"INTERRUPTED", "ERROR"} /\ UNCHANGED <<manifest, built>>
      /\ fs' = fs \/ fs' = [x \in File |-> IF x \in Interrupted(running) THEN Partial ELSE fs[x]]
  BY DEF IInterrupt, Abort, Stop, Interrupt, Throw, Returns
<1>2. StoreInv /\ PendingInv
  BY DEF IncrementalInv
<1>3. ~Active'
  BY <1>1 DEF Active, Succeeded
<1>4. fs' \in FileSystems
  BY <1>1, <1>2, IncrementalTyped DEF StoreInv, FileSystems, Content
<1>5. CASE IInterrupt
  <2>1. UNCHANGED <<log, pending>>
    BY <1>5 DEF IInterrupt
  <2> QED BY <1>1, <1>2, <1>3, <1>4, <2>1 DEF FilesInv, StoreInv, PendingInv, IsEntries, StepOf
<1>6. CASE Abort
  <2>1. IsEntries(log') /\ pending' = <<>>
    BY <1>6, WrittenIsEntries DEF Abort
  <2> QED BY SMT, <1>1, <1>2, <1>3, <1>4, <2>1 DEF FilesInv, StoreInv, PendingInv, IsEntries
<1> QED BY <1>5, <1>6

LEMMA ReturnKeeps ==
  ASSUME IncrementalInv, IReturn
  PROVE  FilesInv'
<1>1. /\ phase' = "idle" /\ log' = Written(log, pending) /\ pending' = <<>> /\ UNCHANGED <<fs, manifest>>
      /\ written_files' = NoFunction /\ output_files' = NoFunction
  BY DEF IReturn, Return
<1>2. StoreInv /\ pending \in Seq(LogRecord)
  BY DEF IncrementalInv, StoreInv
<1>3. Len(pending) \in 0..Len(pending) /\ SubSeq(pending, 1, Len(pending)) = pending
  BY SMT, <1>2
<1>4. IsEntries(log')
  BY <1>1, <1>3, WrittenIsEntries
<1>5. ~Active'
  BY <1>1 DEF Active, Succeeded
<1> QED BY SMT, <1>1, <1>2, <1>4, <1>5 DEF FilesInv, StoreInv, PendingInv, IsEntries

LEMMA EditKeeps ==
  ASSUME IncrementalInv, EditFile \/ EditManifest
  PROVE  FilesInv'
<1>1. /\ phase = "idle" /\ phase' = "idle" /\ UNCHANGED <<log, pending, written_files, output_files>>
      /\ manifest' \in Manifests
  BY DEF EditFile, EditManifest, vars, fileVars, IncrementalInv, StoreInv
<1>2. StoreInv /\ fs \in FileSystems
  BY DEF IncrementalInv, StoreInv
<1>3. fs' \in FileSystems
  BY <1>2, IncrementalTyped DEF EditFile, EditManifest, FileSystems
<1>4. ~Active' /\ pending' = <<>>
  BY <1>1, <1>2 DEF Active, Succeeded, StoreInv
<1> QED BY SMT, <1>1, <1>2, <1>3, <1>4 DEF FilesInv, StoreInv, PendingInv, IsEntries
-----------------------------------------------------------------------------
(***************************************************************************)
(* The invariant.                                                          *)
(***************************************************************************)
\* What this module adds to Build does not change what the scheduler does.
LEMMA SchedulerStep == [INext]_allVars => [Next]_vars
<1> SUFFICES ASSUME INext PROVE [Next]_vars
  BY DEF allVars
<1>1. CASE EditFile \/ EditManifest
  BY <1>1 DEF EditFile, EditManifest
<1>2. CASE \E t \in TargetSets : BeginBuild(t)
  BY <1>2 DEF BeginBuild, Next
<1>3. CASE \E i \in Step : IDiscardStep(i)
  BY <1>3 DEF IDiscardStep, Next, Work
<1>4. CASE \E i \in Step : IBypassCommand(i)
  BY <1>4 DEF IBypassCommand, Next, Work
<1>5. CASE \E i \in Step : IInvokeCommand(i)
  BY <1>5 DEF IInvokeCommand, Next, Work
<1>6. CASE \E i \in Step : CommandSucceeds(i) \/ CommandFails(i)
  <2>1. PICK i \in Step : CommandSucceeds(i) \/ CommandFails(i)
    BY <1>6
  <2>2. CommandDone(i, "SUCCESS") \/ CommandDone(i, "FAILURE")
    BY <2>1 DEF CommandSucceeds, CommandFails
  <2> QED BY <2>2 DEF Next, Work, ExitStatus
<1>7. CASE IDiscardEnd \/ IEnqueueEnd \/ IFinish
  BY <1>7 DEF IDiscardEnd, IEnqueueEnd, IFinish, Next, Work
<1>8. CASE IInterrupt \/ Abort \/ IReturn
  BY <1>8 DEF IInterrupt, Abort, IReturn, Stop, Next
<1> QED BY <1>1, <1>2, <1>3, <1>4, <1>5, <1>6, <1>7, <1>8 DEF INext

LEMMA IncrementalInit == IInit => IncrementalInv
<1> SUFFICES ASSUME IInit PROVE IncrementalInv
  OBVIOUS
<1>1. IInv
  BY EmptyBuildOK DEF IInit
<1>2. ~Active /\ phase = "idle" /\ pending = <<>> /\ DOMAIN log = {}
  BY DEF IInit, Init, Active, Succeeded, NoFunction
<1>3. StoreInv
  BY SMT, <1>2 DEF IInit, StoreInv, IsEntries, FileSystems, Content
<1>4. PendingInv
  BY SMT, <1>2 DEF PendingInv
<1> QED BY <1>1, <1>2, <1>3, <1>4 DEF IncrementalInv

LEMMA StepKeepsFilesInv ==
  ASSUME ProjectOK, IncrementalInv, [INext]_allVars
  PROVE  FilesInv'
<1>1. CASE EditFile \/ EditManifest
  BY <1>1, EditKeeps
<1>2. CASE \E t \in TargetSets : BeginBuild(t)
  BY <1>2, BeginKeeps
<1>3. CASE \E i \in Step : IDiscardStep(i)
  BY <1>3, DiscardKeeps
<1>4. CASE \E i \in Step : IBypassCommand(i)
  BY <1>4, BypassKeeps
<1>5. CASE \E i \in Step : IInvokeCommand(i)
  BY <1>5, InvokeKeeps
<1>6. CASE \E i \in Step : CommandSucceeds(i)
  BY <1>6, SucceedsKeeps
<1>7. CASE \E i \in Step : CommandFails(i)
  BY <1>7, FailsKeeps
<1>8. CASE IDiscardEnd \/ IEnqueueEnd \/ IFinish
  <2>1. /\ phase \in {"discard", "enqueue", "wait"} /\ phase' # "idle"
        /\ UNCHANGED <<storeVars, invocations, written_files, output_files>>
        /\ UNCHANGED <<in, should_build, running, built, failed, skipped>>
    BY <1>8 DEF IDiscardEnd, IEnqueueEnd, IFinish, DiscardEnd, EnqueueEnd, StopEnqueueing,
                Finish, Returns, fileVars
  <2>2. Active
    BY <2>1 DEF Active
  <2> QED BY <2>1, <2>2, QuietKeeps
<1>9. CASE IInterrupt \/ Abort
  BY <1>9, StopKeeps
<1>10. CASE IReturn
  BY <1>10, ReturnKeeps
<1>11. CASE UNCHANGED allVars
  <2>1. /\ UNCHANGED <<storeVars, invocations, written_files, output_files, phase, result>>
        /\ UNCHANGED <<in, should_build, running, built, failed, skipped>>
    BY <1>11 DEF allVars, vars, fileVars
  <2>2. CASE Active
    <3>1. phase' # "idle"
      BY <2>1, <2>2 DEF Active, Succeeded
    <3> QED BY <2>1, <2>2, <3>1, QuietKeeps
  <2>3. CASE ~Active
    <3>1. ~Active'
      BY <2>1, <2>3 DEF Active, Succeeded
    <3>2. StoreInv' /\ PendingInv'
      BY <2>1 DEF IncrementalInv, StoreInv, PendingInv, IsEntries, StepOf, storeVars
    <3> QED BY <3>1, <3>2 DEF FilesInv
  <2> QED BY <2>2, <2>3
<1> QED BY <1>1, <1>2, <1>3, <1>4, <1>5, <1>6, <1>7, <1>8, <1>9, <1>10, <1>11 DEF INext

LEMMA StepKeepsIncrementalInv ==
  ProjectOK => (IncrementalInv /\ [INext]_allVars => IncrementalInv')
<1> SUFFICES ASSUME ProjectOK, IncrementalInv, [INext]_allVars PROVE IncrementalInv'
  OBVIOUS
<1>1. IInv'
  BY SchedulerStep, StepKeepsIInv DEF IncrementalInv
<1>2. FilesInv'
  BY StepKeepsFilesInv
<1> QED BY <1>1, <1>2 DEF IncrementalInv, FilesInv

(***************************************************************************)
(* However builds, edits, failures, interruptions and crashes follow each  *)
(* other, each entry of the invocation log tells of a run of the command   *)
(* of its step and knows the makers of what it read; and while a build     *)
(* goes on, its maps and clean steps are as the files are.                 *)
(***************************************************************************)
THEOREM IncrementalInductive == ProjectOK => (ISpec => []IncrementalInv)
<1> SUFFICES ASSUME ProjectOK PROVE ISpec => []IncrementalInv
  OBVIOUS
<1>1. IncrementalInv /\ [INext]_allVars => IncrementalInv'
  BY StepKeepsIncrementalInv
<1> QED BY <1>1, IncrementalInit, PTL DEF ISpec
-----------------------------------------------------------------------------
(***************************************************************************)
(* Theorems.                                                               *)
(***************************************************************************)
\* A step that is done has an entry, in the log or still to be written, that
\* matches the files.
LEMMA DoneHasEntry ==
  ASSUME ProjectOK, IncrementalInv, Active, NEW t \in Done, IsTraced(manifest[t])
  PROVE  /\ t \in DOMAIN manifest
         /\ \/ t \notin built /\ isClean(log, fs, t) /\ IsEntry(manifest[t], log[manifest[t]])
            \/ \E k \in DOMAIN pending, e \in Entry :
                 /\ pending[k].hash = manifest[t] /\ pending[k].entry = {e}
                 /\ IsEntry(manifest[t], e) /\ Matches(e, fs)
<1>1. StoreInv /\ PendingInv /\ InputInv /\ DoneInv /\ manifest \in Manifests
  BY DEF IncrementalInv, StoreInv
<1>2. t \in DOMAIN manifest /\ t \in Step
  BY AncestorsDone DEF Released
<1>3. CASE t \in built
  <2>1. PICK k \in DOMAIN pending : pending[k].hash = manifest[t]
                                     /\ \A e \in pending[k].entry : Matches(e, fs)
    BY <1>1, <1>3 DEF DoneInv
  <2>2. t \in StepOf(pending[k].hash)
    BY <1>2, <2>1 DEF StepOf
  <2>3. PICK e \in Entry : pending[k].entry = {e}
    BY <1>1, <2>2 DEF PendingInv
  <2>4. IsEntry(manifest[t], e)
    BY <1>1, <2>1, <2>3 DEF StoreInv
  <2> QED BY <1>2, <2>1, <2>3, <2>4
<1>4. CASE t \notin built
  <2>1. t \in skipped /\ t \notin in.phony
    BY <1>1, <1>2, <1>4, InputFacts DEF Done, IsTraced
  <2>2. isClean(log, fs, t)
    BY <1>1, <2>1 DEF DoneInv
  <2> QED BY <1>1, <1>2, <1>4, <2>2 DEF isClean, HasEntry, StoreInv, IsEntries
<1> QED BY <1>3, <1>4

\* An entry that matches the files says what the command would do now.
LEMMA MatchingIsUpToDate ==
  ASSUME ProjectOK, NEW h, NEW e, IsEntry(h, e), Matches(e, fs), fs \in FileSystems
  PROVE  \A x \in Products[h] : fs[x] = Compute(h, x, fs)
<1>1. h \in Def
  BY DEF IsEntry
<1>2. PICK g \in FileSystems : Recalls(h, e, g)
  BY DEF IsEntry
<1>3. \A x \in Reads(h, g) : fs[x] = g[x]
  BY <1>2 DEF Matches, Recalls
<1>4. \A x \in Products[h] : Compute(h, x, fs) = Compute(h, x, g)
  BY <1>1, <1>3, SameReads
<1> QED BY <1>2, <1>4 DEF Matches, Recalls

\* All steps of a build that has succeeded are done.
LEMMA SucceededIsDone ==
  ASSUME IncrementalInv, Succeeded, NEW i \in should_build
  PROVE  Active /\ i \in Done /\ i \in DOMAIN manifest /\ manifest[i] \in Def /\ fs \in FileSystems
<1>1. Active
  BY DEF Active
<1>2. i \in Done
  BY SuccessLeavesNone DEF IncrementalInv, SuccessIsComplete, Succeeded
<1>3. i \in DOMAIN manifest
  BY <1>1, <1>2, AncestorsDone DEF Released
<1> QED BY <1>1, <1>2, <1>3, ManifestFacts DEF IncrementalInv, StoreInv

(***************************************************************************)
(* A build that reports success leaves every product of its steps as       *)
(* running the command now would make it, whatever builds, edits,          *)
(* failures, interruptions and crashes came before (Build::build with      *)
(* discardCleanSteps, canSkipBuildCommand and the invocation log).         *)
(***************************************************************************)
THEOREM UpToDateCorrect == ProjectOK => (ISpec => []SuccessIsUpToDate)
<1> SUFFICES ASSUME ProjectOK PROVE ISpec => []SuccessIsUpToDate
  OBVIOUS
<1>1. IncrementalInv => SuccessIsUpToDate
  <2> SUFFICES ASSUME IncrementalInv, Succeeded, NEW i \in should_build, NEW x \in Writes(manifest[i], fs)
               PROVE  fs[x] = Compute(manifest[i], x, fs)
    BY DEF SuccessIsUpToDate
  <2>1. Active /\ i \in Done /\ i \in DOMAIN manifest /\ manifest[i] \in Def /\ fs \in FileSystems
    BY SucceededIsDone
  <2>2. x \in Products[manifest[i]]
    BY <2>1, CommandFacts
  <2>3. IsTraced(manifest[i])
    BY <2>1, <2>2 DEF ProjectOK, UntracedWriteNothing
  <2>4. PICK e : IsEntry(manifest[i], e) /\ Matches(e, fs)
    BY <2>1, <2>3, DoneHasEntry DEF isClean
  <2> QED BY <2>1, <2>2, <2>4, MatchingIsUpToDate
<1> QED BY <1>1, IncrementalInductive, PTL

(***************************************************************************)
(* After a build that reports success, the log as it is being written says *)
(* of each of its traced steps that it is clean (Build::logInvocation).    *)
(***************************************************************************)
THEOREM LeavesNoWorkCorrect == ProjectOK => (ISpec => []SuccessLeavesNoWork)
<1> SUFFICES ASSUME ProjectOK PROVE ISpec => []SuccessLeavesNoWork
  OBVIOUS
<1>1. IncrementalInv => SuccessLeavesNoWork
  <2> DEFINE w == Written(log, pending)
  <2> SUFFICES ASSUME IncrementalInv, Succeeded, NEW i \in should_build, IsTraced(manifest[i])
               PROVE  HasEntry(w, i) /\ Matches(w[manifest[i]], fs)
    BY DEF SuccessLeavesNoWork, isClean
  <2>1. Active /\ i \in Done /\ i \in DOMAIN manifest
    BY SucceededIsDone
  <2>2. StoreInv /\ PendingInv /\ manifest \in Manifests /\ DistinctRecords(pending)
    BY DEF IncrementalInv, StoreInv, PendingInv, DistinctRecords
  <2>3. /\ \A h \in DOMAIN log : (\A k \in DOMAIN pending : pending[k].hash # h) =>
             h \in DOMAIN w /\ w[h] = log[h]
        /\ \A k \in DOMAIN pending : pending[k].entry # {} =>
             pending[k].hash \in DOMAIN w /\ w[pending[k].hash] \in pending[k].entry
    BY SMT, <2>2, WrittenFacts
  <2> HIDE DEF w
  <2>4. CASE i \notin built /\ isClean(log, fs, i)
    <3>1. \A k \in DOMAIN pending : pending[k].hash # manifest[i]
      <4> SUFFICES ASSUME NEW k \in DOMAIN pending, pending[k].hash = manifest[i] PROVE FALSE
        OBVIOUS
      <4>1. i \in StepOf(pending[k].hash)
        BY <2>1 DEF StepOf
      <4>2. PICK t \in built : manifest[i] = manifest[t]
        BY <2>2, <4>1 DEF PendingInv
      <4>3. t \in DOMAIN manifest
        BY <2>1, AncestorsDone DEF Released, Done
      <4> QED BY <2>1, <2>2, <2>4, <4>2, <4>3, ManifestFacts
    <3> QED BY <2>3, <2>4, <3>1 DEF isClean, HasEntry
  <2>5. CASE \E k \in DOMAIN pending, e \in Entry :
               /\ pending[k].hash = manifest[i] /\ pending[k].entry = {e} /\ Matches(e, fs)
    BY <2>1, <2>3, <2>5 DEF HasEntry
  <2> QED BY <2>1, <2>4, <2>5, DoneHasEntry
<1> QED BY <1>1, IncrementalInductive, PTL
(***************************************************************************)
(* A step that is skipped, by discardCleanSteps or by either way of        *)
(* canSkipBuildCommand, is clean at that moment.                           *)
(***************************************************************************)
THEOREM SkippedCleanCorrect == ProjectOK => (ISpec => SkippedStepsAreClean)
<1> SUFFICES ASSUME ProjectOK PROVE ISpec => SkippedStepsAreClean
  OBVIOUS
<1> DEFINE A == \A i \in skipped' \ skipped : i \notin in.phony => isClean(invocations, fs, i)
<1>1. IncrementalInv /\ [INext]_allVars => [A]_allVars
  <2> SUFFICES ASSUME IncrementalInv, INext, NEW i \in skipped' \ skipped, i \notin in.phony
               PROVE  isClean(invocations, fs, i)
    OBVIOUS
  <2>1. CASE \E s \in Step : IDiscardStep(s)
    <3>1. phase = "discard" /\ i \in in.clean
      BY <2>1 DEF IDiscardStep, DiscardStep
    <3>2. Active /\ isClean(log, fs, i)
      BY <3>1, DiscardedIsClean DEF Active
    <3> QED BY <3>2 DEF IncrementalInv, InputInv
  <2>2. CASE \E s \in Step : IBypassCommand(s)
    <3>1. phase = "enqueue" /\ i \in ready_steps /\ canSkipBuildCommand(i)
      BY <2>2 DEF IBypassCommand, BypassCommand
    <3>2. Active /\ isClean(log, fs, i)
      BY <3>1, BypassedIsClean DEF Active
    <3> QED BY <3>2 DEF IncrementalInv, InputInv
  <2>3. CASE EditFile \/ EditManifest \/ (\E t \in TargetSets : BeginBuild(t))
    BY <2>3 DEF EditFile, EditManifest, BeginBuild, Construct, vars
  <2>4. CASE \E s \in Step : IInvokeCommand(s) \/ CommandSucceeds(s) \/ CommandFails(s)
    BY <2>4 DEF IInvokeCommand, InvokeCommand, CommandSucceeds, CommandFails, CommandDone
  <2>5. CASE IDiscardEnd \/ IEnqueueEnd \/ IFinish \/ IInterrupt \/ Abort \/ IReturn
    BY <2>5 DEF IDiscardEnd, DiscardEnd, IEnqueueEnd, EnqueueEnd, StopEnqueueing, IFinish, Finish,
                IInterrupt, Interrupt, Abort, Throw, Stop, Returns, IReturn, Return
  <2> QED BY <2>1, <2>2, <2>3, <2>4, <2>5 DEF INext
<1> QED BY <1>1, IncrementalInductive, PTL DEF ISpec, SkippedStepsAreClean

(***************************************************************************)
(* A step that was clean at the start is only run when a file that it read *)
(* has really changed in this build ("restat").                            *)
(***************************************************************************)
THEOREM NoNeedlessRebuildCorrect == ProjectOK => (ISpec => NoNeedlessRebuild)
<1> SUFFICES ASSUME ProjectOK PROVE ISpec => NoNeedlessRebuild
  OBVIOUS
<1> DEFINE A == \A i \in running' \ running : i \in in.clean => ~isClean(invocations, fs, i)
<1>1. IncrementalInv /\ [INext]_allVars => [A]_allVars
  <2> SUFFICES ASSUME IncrementalInv, INext, NEW i \in running' \ running, i \in in.clean
               PROVE  ~isClean(invocations, fs, i)
    OBVIOUS
  <2>1. CASE \E s \in Step : IInvokeCommand(s)
    <3>1. phase = "enqueue" /\ ~canSkipBuildCommand(i)
      BY <2>1 DEF IInvokeCommand, InvokeCommand
    <3>2. MapsInv
      BY <3>1 DEF IncrementalInv, Active
    <3>3. PICK x \in DOMAIN invocations[manifest[i]].input_files :
            x \in DOMAIN written_files /\ written_files[x] # invocations[manifest[i]].input_files[x]
      BY <3>1 DEF canSkipBuildCommand
    <3>4. written_files[x] = fs[x]
      BY <3>2, <3>3 DEF MapsInv
    <3> QED BY <3>3, <3>4 DEF isClean, Matches
  <2>2. CASE EditFile \/ EditManifest \/ (\E t \in TargetSets : BeginBuild(t))
    BY <2>2 DEF EditFile, EditManifest, BeginBuild, Construct, vars
  <2>3. CASE \E s \in Step : IDiscardStep(s) \/ IBypassCommand(s) \/ CommandSucceeds(s) \/ CommandFails(s)
    BY <2>3 DEF IDiscardStep, DiscardStep, IBypassCommand, BypassCommand, CommandSucceeds,
                CommandFails, CommandDone
  <2>4. CASE IDiscardEnd \/ IEnqueueEnd \/ IFinish \/ IInterrupt \/ Abort \/ IReturn
    BY <2>4 DEF IDiscardEnd, DiscardEnd, IEnqueueEnd, EnqueueEnd, StopEnqueueing, IFinish, Finish,
                IInterrupt, Interrupt, Abort, Throw, Stop, Returns, IReturn, Return
  <2> QED BY <2>1, <2>2, <2>3, <2>4 DEF INext
<1> QED BY <1>1, IncrementalInductive, PTL DEF ISpec, NoNeedlessRebuild

\* An ancestor is a dependency or an ancestor of one.
LEMMA AncestorsStep ==
  ASSUME NEW m, NEW t \in DOMAIN m, NEW u \in Ancestors(m, t)
  PROVE  u \in Dependencies(m, t) \/ \E d \in Dependencies(m, t) : u \in Ancestors(m, d)
<1> DEFINE S == Dependencies(m, t) \cup UNION {Ancestors(m, d) : d \in Dependencies(m, t)}
<1>1. S \in SUBSET DOMAIN m
  BY AncestorsClosed
<1>2. \A s \in S : Dependencies(m, s) \subseteq S
  BY AncestorsClosed
<1>3. Dependencies(m, t) \subseteq S
  OBVIOUS
<1> HIDE DEF S
<1>4. Ancestors(m, t) \subseteq S
  BY <1>1, <1>2, <1>3, AncestorsLeast
<1> QED BY <1>4 DEF S

(***************************************************************************)
(* The additional dependencies in the log never make Build::construct      *)
(* report a dependency cycle that is not in the manifest.                  *)
(***************************************************************************)
THEOREM NoSpuriousCycleCorrect == ProjectOK => (ISpec => NoSpuriousCycle)
<1> SUFFICES ASSUME ProjectOK PROVE ISpec => NoSpuriousCycle
  OBVIOUS
<1> DEFINE deps == [i \in Step |-> IF i \in DOMAIN manifest THEN stepDependencies(i) ELSE {}]
           A == (phase = "idle" /\ phase' = "finished") => HasCycle(deps, DOMAIN manifest)
<1>1. IncrementalInv /\ [INext]_allVars => [A]_allVars
  <2> SUFFICES ASSUME IncrementalInv, INext, phase = "idle", phase' = "finished"
               PROVE  HasCycle(deps, DOMAIN manifest)
    OBVIOUS
  <2>1. PICK targets \in TargetSets : BeginBuild(targets)
    BY DEF INext, EditFile, EditManifest, vars, IDiscardStep, DiscardStep, IBypassCommand,
           BypassCommand, IInvokeCommand, InvokeCommand, CommandSucceeds, CommandFails, CommandDone,
           IDiscardEnd, DiscardEnd, IEnqueueEnd, EnqueueEnd, StopEnqueueing, IFinish, Finish,
           IInterrupt, Interrupt, Abort, Throw, Stop, Returns, IReturn, Return
  <2> DEFINE f == Delete(fs, UNION {DOMAIN log[h].output_files : h \in StaleEntries})
             input == BuildInput(f, targets)
             visited == visitStep(input.deps, input.targets)
  <2>2. manifest \in Manifests /\ IsEntries(log)
    BY DEF IncrementalInv, StoreInv
  <2>3. visited \subseteq DOMAIN manifest /\ DOMAIN manifest \subseteq Step
    BY <2>2, VisitedInManifest, ManifestFacts
  <2>4. HasCycle(input.deps, visited)
    BY <2>1 DEF BeginBuild, Construct
  <2>5. \A s \in DOMAIN manifest : input.deps[s] = Dependencies(manifest, s) \cup
          (IF HasEntry(log, s) THEN StepIn(log[manifest[s]].additional_dependencies) ELSE {})
    BY <2>3 DEF BuildInput, stepDependencies
  <2> HIDE DEF input, visited
  <2>6. PICK S \in SUBSET visited : S # {} /\ \A s \in S : input.deps[s] \cap S # {}
    BY <2>4 DEF HasCycle
  <2>7. ASSUME NEW s \in S, NEW u \in input.deps[s] PROVE u \in Ancestors(manifest, s)
    <3>1. s \in DOMAIN manifest
      BY <2>3
    <3>2. CASE u \in Dependencies(manifest, s)
      BY <3>2, AncestorsClosed
    <3>3. CASE HasEntry(log, s) /\ u \in StepIn(log[manifest[s]].additional_dependencies)
      <4>1. u \in DOMAIN manifest /\ manifest[u] \in log[manifest[s]].additional_dependencies
        BY <3>3 DEF StepIn, StepOf
      <4>2. IsEntry(manifest[s], log[manifest[s]])
        BY <2>2, <3>3 DEF HasEntry, IsEntries
      <4>3. PICK g \in FileSystems : NamesMakers(manifest[s], log[manifest[s]], g)
        BY <4>2 DEF IsEntry
      <4>4. Products[manifest[u]] \cap Reads(manifest[s], g) # {}
        BY <4>1, <4>3 DEF NamesMakers
      <4> QED BY <2>2, <3>1, <4>1, <4>4 DEF ProjectOK, ReadsAreDeclared
    <3> QED BY <2>5, <2>7, <3>1, <3>2, <3>3
  <2> DEFINE T == {t \in DOMAIN manifest : Ancestors(manifest, t) \cap S # {}}
  <2>8. S \subseteq T
    BY <2>3, <2>6, <2>7
  <2>9. ASSUME NEW t \in T PROVE deps[t] \cap T # {}
    <3>1. PICK u \in S : u \in Ancestors(manifest, t)
      OBVIOUS
    <3>2. deps[t] = Dependencies(manifest, t)
      BY <2>3 DEF stepDependencies
    <3>3. CASE u \in Dependencies(manifest, t)
      BY <2>8, <3>2, <3>3
    <3>4. CASE \E d \in Dependencies(manifest, t) : u \in Ancestors(manifest, d)
      BY <3>1, <3>2, <3>4 DEF Dependencies
    <3> QED BY <3>1, <3>3, <3>4, AncestorsStep
  <2>10. T \in SUBSET DOMAIN manifest /\ T # {}
    BY <2>6, <2>8
  <2> HIDE DEF T, deps
  <2> QED BY <2>9, <2>10 DEF HasCycle
<1> QED BY <1>1, IncrementalInductive, PTL DEF ISpec, NoSpuriousCycle
=============================================================================
