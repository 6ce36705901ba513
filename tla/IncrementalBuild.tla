-------------------------- MODULE IncrementalBuild --------------------------
(***************************************************************************)
(* Builds that follow each other on one file system and invocation log,    *)
(* with edits of sources, build products and the manifest in between.      *)
(* Every action is an action of Build that also says what it does to the   *)
(* files and to the log; what Build leaves open (which steps are clean,    *)
(* whether a command can be skipped) is decided here as in build.cpp.      *)
(*                                                                         *)
(* A file is known by its path, and its fingerprint is its content: the    *)
(* time stamps behind fingerprints are not part of this module.  A command *)
(* is a function of the files it reads and takes effect when it is called  *)
(* back.  Log entries are written behind (DelayedInvocationLog): those in  *)
(* `pending` are lost when shk is killed.  Generator steps are left out;   *)
(* normal steps may not depend on them.                                    *)
(***************************************************************************)
EXTENDS Build, Sequences, Functions

CONSTANTS
  Def,           \* steps as the log knows them, by Step::hash
  File,
  Sources,       \* the files that are there before the first build
  Value,         \* contents that commands and edits produce
  Manifests,     \* the manifests that the user may write: sequences of Def
  Inputs, Outputs,   \* paths declared in the manifest, by Def; those of steps
                     \*   that write nothing need not be in File
  Reads(_, _),       \* files that a command reads, given the file system
  Writes(_, _),      \* files that it writes
  Compute(_, _, _),  \* what it writes, given a written file and the file system
  Phony, Console,    \* steps without a command; steps of the console pool
  Partial,           \* content left by a command that did not run to its end
  TargetSets,        \* what the user may ask to build: sets of Def
  Edits              \* pairs of a file and a content that the user may set

Missing == "missing"   \* content of a file that is not there
Content == Value \cup {Missing}

\* A log record sets the entry of a step (ranCommand) or deletes it
\* (cleanedCommand): it holds at most one entry.
RanCommand(h, e) == [hash |-> h, entry |-> {e}]
CleanedCommand(h) == [hash |-> h, entry |-> {}]

ASSUME IncrementalTyped ==
  /\ \A m \in Manifests : DOMAIN m \subseteq Step /\ IsInjective(m) /\ Range(m) \subseteq Def
  /\ DOMAIN Inputs = Def /\ DOMAIN Outputs = Def
  /\ Phony \subseteq Def /\ Console \subseteq Def
  /\ Partial \in Value /\ Missing \notin Value
  /\ Edits \subseteq File \X Content

VARIABLES
  fs,             \* contents of the files
  log,            \* invocation log on disk: entries by step hash
  pending,        \* log records not written yet
  manifest,       \* the current manifest
  invocations,    \* the log as it was read when shk started
  written_files,  \* Build::written_files, contents of files by path
  output_files    \* Build::output_files, the step that wrote a file

storeVars == <<fs, log, pending, manifest>>
fileVars == <<invocations, written_files, output_files>>
allVars == <<vars, storeVars, fileVars>>

NoFunction == [x \in {} |-> {}]

\* The later function wins.
Override(f, g) == [x \in DOMAIN f \cup DOMAIN g |-> IF x \in DOMAIN g THEN g[x] ELSE f[x]]

\* The last record of p that is about the step h.
LastRecord(p, h) ==
  p[CHOOSE k \in DOMAIN p :
      p[k].hash = h /\ \A j \in DOMAIN p : p[j].hash = h => j <= k]

\* The log after the records of p have been written to it.
Written(l, p) ==
  LET touched == {p[k].hash : k \in DOMAIN p}
  IN  [h \in (DOMAIN l \ touched) \cup {h \in touched : LastRecord(p, h).entry # {}} |->
         IF h \in touched THEN CHOOSE e \in LastRecord(p, h).entry : TRUE ELSE l[h]]

StepOf(h) == {i \in DOMAIN manifest : manifest[i] = h}
StepIn(defs) == UNION {StepOf(h) : h \in defs}

\* Step::dependencies, by index in the manifest.
Dependencies(m, i) == {j \in DOMAIN m : Outputs[m[j]] \cap Inputs[m[i]] # {}}

stepDependencies(i) == Dependencies(manifest, i)

HasEntry(l, i) == i \in DOMAIN manifest /\ manifest[i] \in DOMAIN l

\* The fingerprints of a log entry match the files f.
Matches(e, f) ==
  /\ \A x \in DOMAIN e.output_files : f[x] = e.output_files[x]
  /\ \A x \in DOMAIN e.input_files : f[x] = e.input_files[x]

\* nonGeneratorStepIsClean on the log l and the files f.
isClean(l, f, i) == HasEntry(l, i) /\ Matches(l[manifest[i]], f)

\* Log entries whose step is not in the manifest (deleteStaleOutputs).
StaleEntries == {h \in DOMAIN log : StepOf(h) = {}}

\* The orders in which the entries of an unordered_map may come.
Orders(S) == UNION {Bijection(1..n, S) : n \in 0..Cardinality(S)}

Delete(f, paths) == [x \in File |-> IF x \in paths THEN Missing ELSE f[x]]

\* The inputs that build() gets from the manifest, the log and the files f.
BuildInput(f, targets) ==
  [deps |-> [i \in Step |->
      IF i \notin DOMAIN manifest THEN {}
      ELSE stepDependencies(i) \cup
           (IF HasEntry(log, i) THEN StepIn(log[manifest[i]].additional_dependencies) ELSE {})],
   ignored |-> [i \in Step |->
      IF HasEntry(log, i) THEN log[manifest[i]].ignored_dependencies ELSE {}],
   unknown |-> {i \in DOMAIN manifest :
      /\ HasEntry(log, i)
      /\ \E h \in log[manifest[i]].additional_dependencies : StepOf(h) = {}},
   phony |-> StepIn(Phony),
   clean |-> {i \in DOMAIN manifest : isClean(log, f, i)},
   targets |-> StepIn(targets)]

IInit ==
  /\ Init
  /\ manifest \in Manifests
  /\ fs \in [File -> Value \cup {Missing}]
  /\ \A x \in File : fs[x] # Missing <=> x \in Sources
  /\ log = NoFunction /\ pending = <<>>
  /\ invocations = NoFunction /\ written_files = NoFunction /\ output_files = NoFunction

\* The user changes a file or the manifest while no build is running.
EditFile ==
  /\ phase = "idle"
  /\ \E e \in Edits : fs[e[1]] # e[2] /\ fs' = [fs EXCEPT ![e[1]] = e[2]]
  /\ UNCHANGED <<vars, log, pending, manifest, fileVars>>

EditManifest ==
  /\ phase = "idle"
  /\ manifest' \in Manifests \ {manifest}
  /\ UNCHANGED <<vars, fs, log, pending, fileVars>>

\* runBuild: deleteStaleOutputs, Build::construct and computeCleanSteps.
BeginBuild(targets) ==
  LET stale == StaleEntries
      f == Delete(fs, UNION {DOMAIN log[h].output_files : h \in stale})
      input == BuildInput(f, targets)
  IN  /\ StepIn(targets) # {}
      /\ input \in Scenario
      /\ Construct(input)
      /\ fs' = f
      /\ \E order \in Orders(stale) :
           pending' = [k \in DOMAIN order |-> CleanedCommand(order[k])]
      /\ invocations' = log
      /\ UNCHANGED <<log, manifest, written_files, output_files>>

\* outputFileIdsForBuildStep for a step that is skipped; phony steps and steps
\* that are not in the log have none.
SkippedOutputs(i) ==
  IF i \in in.phony \/ ~HasEntry(invocations, i) THEN {}
  ELSE LET o == invocations[manifest[i]].output_files
       IN  {x \in DOMAIN o : o[x] # Missing}

\* The part of markStepNodeAsDone that records who wrote a file.  The second
\* writer of a file makes it throw: Abort is then the only way on.
recordOutputs(i, paths) ==
  /\ paths \cap DOMAIN output_files = {}
  /\ output_files' = Override(output_files, [x \in paths |-> i])

IDiscardStep(i) ==
  /\ DiscardStep(i)
  /\ recordOutputs(i, IF i \in in.clean \cup in.phony THEN SkippedOutputs(i) ELSE {})
  /\ UNCHANGED <<storeVars, invocations, written_files>>

IDiscardEnd == DiscardEnd /\ UNCHANGED <<storeVars, fileVars>>

\* Faulty variants of definitions stand before them, as in Build.
SkipWhateverWasClean(i) == i \in in.clean

SkipUnlessDependencyBuilt(i) == i \in in.clean /\ no_direct_dependencies_built[i]

canSkipBuildCommand(i) ==
  /\ i \in in.clean
  /\ \/ no_direct_dependencies_built[i]
     \/ LET inputs == invocations[manifest[i]].input_files
        IN  \A x \in DOMAIN inputs :
              (fs[x] # Missing /\ x \in DOMAIN written_files) => written_files[x] = inputs[x]

IBypassCommand(i) ==
  /\ canSkipBuildCommand(i)
  /\ BypassCommand(i)
  /\ recordOutputs(i, SkippedOutputs(i))
  /\ UNCHANGED <<storeVars, invocations, written_files>>

deleteOldOutputs(i) ==
  IF HasEntry(invocations, i)
  THEN Delete(fs, DOMAIN invocations[manifest[i]].output_files)
  ELSE fs

IInvokeCommand(i) ==
  /\ ~canSkipBuildCommand(i)
  /\ InvokeCommand(i)
  /\ fs' = deleteOldOutputs(i)
  /\ UNCHANGED <<log, pending, manifest, fileVars>>

IEnqueueEnd == EnqueueEnd /\ UNCHANGED <<storeVars, fileVars>>

\* The files after the command of step h has run to its end.
AfterCommand(h) == [x \in File |-> IF x \in Writes(h, fs) THEN Compute(h, x, fs) ELSE fs[x]]

\* TracingCommandRunner: empty commands and console commands are not traced.
IsTraced(h) == h \notin Phony \cup Console

\* The steps that wrote the files that are read.
usedDependencies(reads, f) ==
  {output_files[x] : x \in {x \in reads \cap DOMAIN output_files : f[x] # Missing}}

LogWithoutAdditionalDependencies(i, reads, writes, f) ==
  LET used == usedDependencies(reads, f)
  IN  [output_files |-> [x \in writes |-> f[x]],
       input_files |-> [x \in reads |-> f[x]],
       ignored_dependencies |-> stepDependencies(i) \ used,
       additional_dependencies |-> {}]

LogOwnHash(i, reads, writes, f) ==
  LET used == usedDependencies(reads, f)
  IN  [output_files |-> [x \in writes |-> f[x]],
       input_files |-> [x \in reads |-> f[x]],
       ignored_dependencies |-> stepDependencies(i) \ used,
       additional_dependencies |-> {manifest[i] : j \in used \ stepDependencies(i)}]

LogOutputsFromBefore(i, reads, writes, f) ==
  LET used == usedDependencies(reads, f)
  IN  [output_files |-> [x \in writes |-> fs[x]],
       input_files |-> [x \in reads |-> f[x]],
       ignored_dependencies |-> stepDependencies(i) \ used,
       additional_dependencies |-> {manifest[j] : j \in used \ stepDependencies(i)}]

\* ignoredAndAdditionalDependencies
LogEntry(i, reads, writes, f) ==
  LET used == usedDependencies(reads, f)
  IN  [output_files |-> [x \in writes |-> f[x]],
       input_files |-> [x \in reads |-> f[x]],
       ignored_dependencies |-> stepDependencies(i) \ used,
       additional_dependencies |-> {manifest[j] : j \in used \ stepDependencies(i)}]

\* commandDone for a command that exited with status 0.  A traced command that
\* wrote a file that another one has written counts as failed.
CommandSucceeds(i) ==
  LET h == manifest[i]
      f == AfterCommand(h)
      reads == IF IsTraced(h) THEN Reads(h, fs) ELSE {}
      writes == IF IsTraced(h) THEN Writes(h, fs) ELSE {}
      ok == writes \cap DOMAIN written_files = {}
  IN  /\ i \in running
      /\ fs' = f
      /\ written_files' = Override([x \in writes |-> f[x]], written_files)
      /\ IF ok
         THEN /\ CommandDone(i, "SUCCESS")
              /\ pending' = IF IsTraced(h)
                            THEN Append(pending, RanCommand(h, LogEntry(i, reads, writes, f)))
                            ELSE pending
              /\ recordOutputs(i, writes)
         ELSE /\ CommandDone(i, "FAILURE")
              /\ UNCHANGED <<pending, output_files>>
      /\ UNCHANGED <<log, manifest, invocations>>

\* What commands that did not run to their end leave behind: nothing, or
\* incomplete files.
Interrupted(steps) == {x \in File : \E i \in steps : x \in Writes(manifest[i], fs)}

CommandFails(i) ==
  /\ CommandDone(i, "FAILURE")
  /\ \E partial \in {{}, Interrupted({i})} :
       fs' = [x \in File |-> IF x \in partial THEN Partial ELSE fs[x]]
  /\ UNCHANGED <<log, pending, manifest, fileVars>>

IFinish == Finish /\ UNCHANGED <<storeVars, fileVars>>

\* SIGINT, or an exception that leaves build(): the running commands are killed.
\* One that runs on to its end is covered by Abort after its CommandSucceeds.
Stop(builds) ==
  /\ builds
  /\ \/ UNCHANGED fs
     \/ fs' = [x \in File |-> IF x \in Interrupted(running) THEN Partial ELSE fs[x]]
  /\ UNCHANGED <<manifest, fileVars>>

IInterrupt == Stop(Interrupt) /\ UNCHANGED <<log, pending>>

\* An exception leaves build(), and the destructor of the log writes the pending
\* records; or shk dies (SIGKILL, or an exception that is not in a throw
\* specification), and only the records written by then survive.
Abort ==
  /\ Stop(Throw)
  /\ \E k \in 0..Len(pending) : log' = Written(log, SubSeq(pending, 1, k))
  /\ pending' = <<>>

\* The invocation log is destroyed, which writes what is pending, and shk exits.
IReturn ==
  /\ Return
  /\ log' = Written(log, pending)
  /\ pending' = <<>>
  /\ invocations' = NoFunction /\ written_files' = NoFunction /\ output_files' = NoFunction
  /\ UNCHANGED <<fs, manifest>>

INext ==
  \/ EditFile
  \/ EditManifest
  \/ \E t \in TargetSets : BeginBuild(t)
  \/ \E i \in Step : IDiscardStep(i)
  \/ IDiscardEnd
  \/ \E i \in Step : IBypassCommand(i)
  \/ \E i \in Step : IInvokeCommand(i)
  \/ IEnqueueEnd
  \/ \E i \in Step : CommandSucceeds(i)
  \/ \E i \in Step : CommandFails(i)
  \/ IFinish
  \/ IInterrupt
  \/ Abort
  \/ IReturn

ISpec == IInit /\ [][INext]_allVars

----------------------------------------------------------------------------
Succeeded == phase = "finished" /\ result \in {"SUCCESS", "NO_WORK_TO_DO"}

\* After a build that reports success, every file that a step of the build writes
\* has the content that running its command now would give it: no step was
\* wrongly discarded or skipped, whatever edits, failures, interruptions and
\* crashes came before.
SuccessIsUpToDate ==
  Succeeded => \A i \in should_build : \A x \in Writes(manifest[i], fs) :
                 fs[x] = Compute(manifest[i], x, fs)

\* A step that is skipped is clean at that moment: its log entry matches the
\* files.  "If the step was clean at the start of the build, and no direct
\* dependencies have been built, then we know for sure that this step is still
\* clean" (canSkipBuildCommand), and so for the check of the inputs after it.
SkippedStepsAreClean ==
  [][\A i \in skipped' \ skipped : i \notin in.phony => isClean(invocations, fs, i)]_allVars

\* After a build that reports success, the log that is being written says of each
\* of its steps that it is clean: a second build has no work to do, but for
\* console steps, which are never logged.
SuccessLeavesNoWork ==
  Succeeded => \A i \in should_build :
                 IsTraced(manifest[i]) => isClean(Written(log, pending), fs, i)

\* A step that was clean when the build started is only run again when a file
\* that it depends on has really changed since ("restat").
NoNeedlessRebuild ==
  [][\A i \in running' \ running :
        i \in in.clean => ~isClean(invocations, fs, i)]_allVars

\* The dependencies in the log never turn an acyclic manifest into a cyclic graph.
NoSpuriousCycle ==
  [][(phase = "idle" /\ phase' = "finished") =>
       HasCycle([i \in Step |-> IF i \in DOMAIN manifest THEN stepDependencies(i) ELSE {}],
                DOMAIN manifest)]_allVars

----------------------------------------------------------------------------
(***************************************************************************)
(* What a project has to be like for the properties above to hold of it.   *)
(***************************************************************************)
FileSystems == [File -> Content]

\* The files that the command of a step writes.
Products == [h \in Def |-> UNION {Writes(h, f) : f \in FileSystems}]

\* A command is a function of the files it reads.  It always writes the same
\* files, which it does not read.  (A command that writes a file in one run and
\* not in another is beyond what shk does: see SkippedStepsAreClean.)
CommandsAreFunctions ==
  \A h \in Def, f \in FileSystems :
    /\ Reads(h, f) \subseteq File
    /\ Writes(h, f) \subseteq File \ Reads(h, f)
    /\ Writes(h, f) = Products[h]
    /\ \A x \in Writes(h, f) : Compute(h, x, f) \in Value
    /\ \A g \in FileSystems : (\A x \in Reads(h, f) : g[x] = f[x]) =>
         /\ Reads(h, g) = Reads(h, f)
         /\ \A x \in Writes(h, f) : Compute(h, x, g) = Compute(h, x, f)

\* Commands that are not traced write nothing that others could read.
UntracedWriteNothing == \A h \in Def : ~IsTraced(h) => Products[h] = {}

\* An edit of the manifest may change the commands and the inputs of steps, add
\* steps at its end and remove them there, but a step keeps its index and what it
\* makes, and every file is made by one step.
EditsKeepTheSteps ==
  \A m, n \in Manifests : \A i \in DOMAIN m, j \in DOMAIN n :
    /\ m[i] = n[j] => i = j
    /\ i = j => Outputs[m[i]] = Outputs[n[j]] /\ Products[m[i]] = Products[n[j]]
    /\ i # j => Products[m[i]] \cap Products[n[j]] = {}

\* The steps that step i of the manifest m depends on, directly or not.
Ancestors(m, i) ==
  {j \in DOMAIN m : \A S \in SUBSET DOMAIN m :
     Dependencies(m, i) \subseteq S /\ (\A s \in S : Dependencies(m, s) \subseteq S) => j \in S}

\* A step depends, directly or not, on the steps that make what it reads.
ReadsAreDeclared ==
  \A m, n \in Manifests : \A i \in DOMAIN m, j \in DOMAIN n, f \in FileSystems :
    Products[n[j]] \cap Reads(m[i], f) # {} => j \in Ancestors(m, i)

ProjectOK ==
  /\ CommandsAreFunctions
  /\ UntracedWriteNothing
  /\ EditsKeepTheSteps
  /\ ReadsAreDeclared

----------------------------------------------------------------------------
(***************************************************************************)
(* The inductive invariant behind the properties, for such a project.      *)
(***************************************************************************)
PartOf(contents) == UNION {[X -> contents] : X \in SUBSET File}
Entry ==
  [output_files : PartOf(Content), input_files : PartOf(Content),
   ignored_dependencies : SUBSET Step, additional_dependencies : SUBSET Def]
LogRecord == [hash : Def, entry : SUBSET Entry]

\* The steps of the manifest m that make something that step h reads in g.
Makers(m, h, g) == {j \in DOMAIN m : Products[m[j]] \cap Reads(h, g) # {}}

\* The entry e tells of a run of the command of step h: on some files g.
Recalls(h, e, g) ==
  /\ DOMAIN e.input_files = Reads(h, g)
  /\ \A x \in Reads(h, g) : e.input_files[x] = g[x]
  /\ DOMAIN e.output_files = Products[h]
  /\ \A x \in Products[h] : e.output_files[x] = Compute(h, x, g)

\* In no manifest does it ignore a step whose products the command read, and it
\* leads to all of them, unless a step that it names has gone.
KnowsItsMakers(h, e, g) ==
  \A m \in Manifests : \A i \in DOMAIN m : m[i] = h =>
    \A j \in Makers(m, h, g) :
      /\ j \notin e.ignored_dependencies
      /\ \/ j \in Dependencies(m, i)
         \/ m[j] \in e.additional_dependencies
         \/ \E a \in e.additional_dependencies : a \notin Range(m)

\* The steps that it names made something that the command read.
NamesMakers(h, e, g) ==
  \A a \in e.additional_dependencies : Products[a] \cap Reads(h, g) # {}

IsEntry(h, e) ==
  /\ h \in Def /\ IsTraced(h) /\ e \in Entry
  /\ \E g \in FileSystems : Recalls(h, e, g) /\ KnowsItsMakers(h, e, g) /\ NamesMakers(h, e, g)

IsEntries(l) == \A h \in DOMAIN l : IsEntry(h, l[h])

\* What was true of the files and the log between any two builds.
StoreInv ==
  /\ manifest \in Manifests
  /\ fs \in FileSystems
  /\ IsEntries(log)
  /\ pending \in Seq(LogRecord)
  /\ \A k \in DOMAIN pending : \A e \in pending[k].entry : IsEntry(pending[k].hash, e)
  /\ phase = "idle" => pending = <<>> /\ written_files = NoFunction /\ output_files = NoFunction

\* Each step has at most one record that is not written yet: of its removal, if it
\* is not in the manifest any more, or of its run.
PendingInv ==
  /\ \A k, l \in DOMAIN pending : pending[k].hash = pending[l].hash => k = l
  /\ \A k \in DOMAIN pending :
       \/ pending[k].entry = {} /\ StepOf(pending[k].hash) = {}
       \/ /\ \E e \in Entry : pending[k].entry = {e}
          /\ \E i \in built : pending[k].hash = manifest[i]

\* A build that goes on, or has ended well.
Active == phase \in {"discard", "enqueue", "wait"} \/ Succeeded

\* It works on what the log and the manifest say.
InputInv ==
  /\ invocations = log
  /\ LET b == BuildInput(fs, {})
     IN in.deps = b.deps /\ in.ignored = b.ignored /\ in.unknown = b.unknown /\ in.phony = b.phony
  /\ should_build \subseteq DOMAIN manifest
  /\ \A i \in in.clean : HasEntry(log, i)

\* Steps whose products may have changed in this build.
Touched == running \cup built \cup failed

\* A step that was clean is so still, but for the products of these.
CleanInv ==
  \A i \in in.clean \ Touched :
    LET e == log[manifest[i]]
    IN  /\ \A x \in DOMAIN e.output_files : fs[x] = e.output_files[x]
        /\ \A x \in DOMAIN e.input_files :
             fs[x] = e.input_files[x] \/ \E j \in Touched : x \in Products[manifest[j]]

\* Steps that are done are as the log, or what is to be written to it, says.
DoneInv ==
  /\ \A i \in skipped \ in.phony : isClean(log, fs, i)
  /\ \A i \in built : IsTraced(manifest[i]) =>
       \E k \in DOMAIN pending : pending[k].hash = manifest[i]
                               /\ \A e \in pending[k].entry : Matches(e, fs)

\* The two maps of Build know the products of the steps that are done.
MapsInv ==
  /\ \A i \in Done : \A x \in Products[manifest[i]] :
       x \in DOMAIN output_files /\ output_files[x] = i /\ fs[x] # Missing
  /\ \A x \in DOMAIN output_files :
       output_files[x] \in Done /\ x \in Products[manifest[output_files[x]]]
  /\ \A i \in built : Products[manifest[i]] \subseteq DOMAIN written_files
  /\ \A x \in DOMAIN written_files :
       written_files[x] = fs[x] /\ \E i \in built : x \in Products[manifest[i]]

IncrementalInv ==
  /\ IInv
  /\ StoreInv /\ PendingInv
  /\ Active => InputInv /\ CleanInv /\ DoneInv /\ MapsInv
=============================================================================
