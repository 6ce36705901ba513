------------------------------- MODULE ShkMain -------------------------------
\* The life of shk processes in one build directory (src/shk/src/shk.cpp,
\* real_main): each loads the manifest, from the file in which the last one left
\* it compiled if that is up to date (compiled_manifest.cpp), takes the lock of
\* the invocation log, lets the manifest's own step regenerate the manifest and
\* starts over if it did, and builds.
EXTENDS ManifestRules, FileLock

CONSTANTS
    Projects,       \* what may happen in a build directory, see Init
    CycleLimit      \* kCycleLimit

ASSUME MainAssumption == CycleLimit \in Nat \ {0}

VARIABLES
    project,        \* the build directory in question
    disk,           \* the manifest files and the source that generates them
    cache,          \* .shk_manifest
    clock,          \* the time in seconds
    proc,           \* the processes
    raced,          \* a manifest file changed while a process had read it but not
                    \* yet written what it made of it
    overtaken,      \* the processes under which somebody else changed a file
    starts, edits   \* how often processes were started and files edited

mainVars == <<project, disk, cache, clock, proc, raced, overtaken, starts, edits>>
vars == <<mainVars, lockVars>>

NoManifest == [outcome |-> "none"]
NoTime == 0

\* A process that has ended, or has not been started.
Ended(status, manifest) ==
    [pc |-> "idle", input |-> "", tool |-> "none", dry |-> FALSE, cycle |-> 0,
     time |-> NoTime, dirty |-> {}, manifest |-> manifest, again |-> FALSE,
     exit |-> status]

\* A project has its files, the contents that edits may give them, the manifest
\* that the generator makes of each content of the source (unless it is lazy and
\* leaves the files alone), the command lines, the state in which the
\* cache may be found, whether processes are killed and fail to write files, and
\* bounds.
Init ==
    /\ project \in Projects
    /\ disk = [n \in DOMAIN project.files |->
                [exists |-> TRUE, content |-> project.files[n], mtime |-> 1]]
    /\ cache \in {[state |-> s, manifest |-> NoManifest, mtime |-> 1] : s \in project.caches}
    /\ clock = 1
    /\ proc = [p \in Processes |-> Ended("none", NoManifest)]
    /\ raced = FALSE
    /\ overtaken = {}
    /\ starts = 0 /\ edits = 0
    /\ LockInit

\* The files that can be read, and the manifest that they make.
Readable == [n \in {m \in DOMAIN disk : disk[m].exists} |-> disk[n].content]

CompiledFrom(raw, input) == IF raw.outcome = "ok" THEN compile(raw, <<input>>) ELSE raw

Compiled(input) == CompiledFrom(parseManifest(Readable, input), input)

At(p, pc) == proc[p].pc = pc

Goto(p, pc) == proc' = [proc EXCEPT ![p].pc = pc]

\* real_main returns, with whatever exit code, and with a lock first releases it.
Return(p) ==
    proc' = [proc EXCEPT ![p] = IF stage[p] = "held" THEN [@ EXCEPT !.pc = "release"]
                                ELSE Ended("returned", NoManifest)]

Running == {p \in Processes : ~ At(p, "idle")}
SomeoneWrites == \E p \in Processes : At(p, "open") \/ At(p, "write")

\* Nothing but the process itself changes.
OnlyProc == UNCHANGED <<project, disk, cache, clock, raced, overtaken, starts, edits>>
-----------------------------------------------------------------------------
\* CompiledManifest::maxMtime and minMtime.
Mtimes(names) == {disk[n].mtime : n \in names}
AllExist(names) == names # {} /\ \A n \in names : n \in DOMAIN disk /\ disk[n].exists
maxMtime(names) == IF AllExist(names) THEN Max(Mtimes(names)) ELSE NoTime
minMtime(names) == IF AllExist(names) THEN Min(Mtimes(names)) ELSE NoTime

Start(p) ==
    /\ At(p, "idle") /\ p \in project.processes /\ starts < project.starts
    /\ \E o \in project.options :
          proc' = [proc EXCEPT ![p] = [@ EXCEPT !.pc = "stat", !.input = o.input,
                    !.tool = o.tool, !.dry = o.dry, !.cycle = 1, !.exit = "none"]]
    /\ starts' = starts + 1
    /\ overtaken' = overtaken \ {p}
    /\ UNCHANGED <<project, disk, cache, clock, raced, edits, lockVars>>

\* loadPrecompiledManifest: stat of the compiled manifest ...
StatCompiled(p) ==
    /\ At(p, "stat")
    /\ IF cache.state = "absent" THEN Goto(p, "parse")
       ELSE proc' = [proc EXCEPT ![p].pc = "read", ![p].time = cache.mtime]
    /\ OnlyProc /\ UNCHANGED lockVars

\* Mutant: a process waits for the one that seems to be writing the file.
AwaitsCompiled(p) ==
    /\ At(p, "read")
    /\ IF cache.state # "whole" THEN Goto(p, "stat")
       ELSE proc' = [proc EXCEPT ![p].pc = "check", ![p].manifest = cache.manifest]
    /\ OnlyProc /\ UNCHANGED lockVars

\* ... reading it, where a file that is cut short or of another version will not
\* do ...
ReadCompiled(p) ==
    /\ At(p, "read")
    /\ IF cache.state # "whole" THEN Goto(p, "parse")
       ELSE IF ~ IsLoadable(cache.manifest) THEN Goto(p, "parse")
       ELSE proc' = [proc EXCEPT ![p].pc = "check", ![p].manifest = cache.manifest]
    /\ OnlyProc /\ UNCHANGED lockVars

\* ... and comparing its time with those of the files that it was made from.
\* Mutant: equal times will do.
NotOlder(inputs, compiled) == inputs # NoTime /\ inputs <= compiled

IsUpToDate(inputs, compiled) == inputs # NoTime /\ ~ inputs >= compiled

CheckFiles(p) ==
    /\ At(p, "check")
    /\ LET inputs == maxMtime(Range(proc[p].manifest.manifest_files))
       IN  Goto(p, IF IsUpToDate(inputs, proc[p].time) THEN "loaded" ELSE "parse")
    /\ OnlyProc /\ UNCHANGED lockVars

\* parseAndCompile: parsing and compiling, which may fail. A BuildError is caught
\* by nobody.
AfterParsing(process, m) ==
    IF m.outcome = "ok" THEN [process EXCEPT !.pc = "open", !.manifest = m]
    ELSE Ended(IF m.outcome = "thrown" THEN "aborted" ELSE "returned", m)

Parse(p) ==
    /\ At(p, "parse")
    /\ proc' = [proc EXCEPT ![p] = AfterParsing(@, Compiled(@.input))]
    /\ OnlyProc /\ UNCHANGED lockVars

\* Opening the compiled manifest for writing empties it, or fails ...
OpenCompiled(p) ==
    /\ At(p, "open")
    /\ \/ /\ cache' = [state |-> "torn", manifest |-> NoManifest, mtime |-> clock]
          /\ Goto(p, "write")
       \/ /\ project.faults /\ Return(p)
          /\ UNCHANGED cache
    /\ UNCHANGED <<project, disk, clock, raced, overtaken, starts, edits, lockVars>>

\* ... and then the manifest is written, or a part of it, and loaded again.
WriteCompiled(p) ==
    /\ At(p, "write")
    /\ \/ /\ cache' = [state |-> "whole", manifest |-> proc[p].manifest, mtime |-> clock]
          /\ IF IsLoadable(proc[p].manifest) THEN Goto(p, "loaded") ELSE Return(p)
       \/ /\ project.faults /\ Return(p)
          /\ cache' = [state |-> "torn", manifest |-> NoManifest, mtime |-> clock]
    /\ UNCHANGED <<project, disk, clock, raced, overtaken, starts, edits, lockVars>>

\* A tool that needs no log runs now.
RunToolAfterLoad(p) ==
    /\ At(p, "loaded") /\ proc[p].tool = "load"
    /\ Return(p)
    /\ OnlyProc /\ UNCHANGED lockVars

\* readInvocationLog: the lock, in the two steps that FileLock takes.
OpenLock(p) ==
    /\ At(p, "loaded") /\ proc[p].tool # "load"
    /\ \/ OpenLockFile(p) /\ Goto(p, "lock")
       \/ project.faults /\ OpenFails(p) /\ Return(p)
    /\ OnlyProc

TakeLock(p) ==
    /\ At(p, "lock")
    /\ \/ LockSucceeds(p) /\ Goto(p, "log")
       \/ LockFails(p) /\ Return(p)
    /\ OnlyProc

\* The rest of readInvocationLog and openInvocationLog, which may fail; a tool
\* runs in between. The log itself is the subject of InvocationLog.
ReadInvocationLog(p) ==
    /\ At(p, "log")
    /\ \/ Return(p)
       \/ IF proc[p].tool = "log" THEN Return(p) ELSE Goto(p, "rebuild")
    /\ OnlyProc /\ UNCHANGED lockVars

\* generatorStepIsClean: a generator step is judged by times alone.
Named(paths) == {path[1] : path \in Range(paths)}
generatorStepIsClean(step) ==
    \/ step.generator_inputs = <<>> \/ step.generator_outputs = <<>>
    \/ LET inputs == maxMtime(Named(step.generator_inputs))
           outputs == minMtime(Named(step.generator_outputs))
       IN  inputs # NoTime /\ outputs # NoTime /\ inputs <= outputs

\* The steps that building step i involves.
RECURSIVE Below(_, _)
Below(steps, i) == {i} \cup UNION {Below(steps, d) : d \in steps[i].dependencies}

\* rebuildManifest: whether steps have to run for the manifest. A normal step is
\* judged by the log.
RebuildManifest(p) ==
    /\ At(p, "rebuild")
    /\ LET m == proc[p].manifest
           below == IF m.manifest_step = NoStep THEN {}
                    ELSE {i \in Below(m.steps, m.manifest_step) : ~ m.steps[i].phony}
           generators == {i \in below : m.steps[i].generator}
       IN  \E logged \in SUBSET (below \ generators) :
              LET dirty == logged \cup {i \in generators : ~ generatorStepIsClean(m.steps[i])}
              IN  proc' = [proc EXCEPT ![p].dirty = dirty,
                                       ![p].pc = IF dirty = {} THEN "build" ELSE "generate"]
    /\ OnlyProc /\ UNCHANGED lockVars

\* What a command writes into the files that are the outputs of its step.
Generated(p) ==
    LET m == proc[p].manifest
        written == IF project.lazy THEN {}
                   ELSE {path[1] : path \in {o \in DOMAIN m.outputs :
                                                m.outputs[o] \in proc[p].dirty}}
    IN  [n \in DOMAIN disk |->
            IF n \in written
            THEN [exists |-> TRUE, content |-> project.generates[disk["source"].content],
                  mtime |-> clock]
            ELSE disk[n]]

\* Mutant: the build goes on with the manifest that was loaded before.
GoesOn(p) ==
    /\ At(p, "generate") /\ ~ proc[p].dry /\ disk["source"].exists
    /\ disk' = Generated(p)
    /\ raced' = (raced \/ SomeoneWrites)
    /\ overtaken' = overtaken \cup (Running \ {p})
    /\ Goto(p, "build")
    /\ UNCHANGED <<project, cache, clock, starts, edits, lockVars>>

\* The manifest is regenerated and real_main starts over, with the log and its
\* lock released in between; a dry run ends here.
GeneratorSucceeds(p) ==
    /\ At(p, "generate") /\ ~ proc[p].dry /\ disk["source"].exists
    /\ disk' = Generated(p)
    /\ raced' = (raced \/ SomeoneWrites)
    /\ overtaken' = overtaken \cup (Running \ {p})
    /\ proc' = [proc EXCEPT ![p].pc = "release", ![p].again = TRUE]
    /\ UNCHANGED <<project, cache, clock, starts, edits, lockVars>>

GeneratorPretends(p) ==
    /\ At(p, "generate") /\ proc[p].dry
    /\ Return(p)
    /\ OnlyProc /\ UNCHANGED lockVars

\* It fails or is interrupted.
GeneratorFails(p) ==
    /\ At(p, "generate") /\ ~ proc[p].dry
    /\ Return(p)
    /\ OnlyProc /\ UNCHANGED lockVars

\* runBuild looks up the targets (interpretPath) and calls build(), which Build and
\* IncrementalBuild are about.
RunBuild(p) ==
    /\ At(p, "build")
    /\ Return(p)
    /\ OnlyProc /\ UNCHANGED lockVars

\* The destructor of ShurikenMain closes the log and then releases the lock.
ReleaseLock(p) ==
    /\ At(p, "release")
    /\ Unlock(p)
    /\ Goto(p, "unlink")
    /\ OnlyProc

UnlinkLock(p) ==
    /\ At(p, "unlink")
    /\ Unlink(p)
    /\ LET again == proc[p].again /\ proc[p].cycle < CycleLimit
       IN  proc' = [proc EXCEPT ![p] =
              IF again THEN [@ EXCEPT !.pc = "stat", !.cycle = @ + 1, !.again = FALSE]
              ELSE Ended(IF @.again THEN "still dirty" ELSE "returned", NoManifest)]
    /\ OnlyProc

\* The process is killed.
Kill(p) ==
    /\ ~ At(p, "idle") /\ project.faults
    /\ Killed(p)
    /\ proc' = [proc EXCEPT ![p] = Ended("killed", NoManifest)]
    /\ OnlyProc
-----------------------------------------------------------------------------
Edit(n) ==
    /\ edits < project.maxEdits
    /\ \E content \in project.edits[n] :
          /\ disk[n].content # content
          /\ disk' = [disk EXCEPT ![n] = [exists |-> TRUE, content |-> content,
                                          mtime |-> clock]]
    /\ edits' = edits + 1
    /\ raced' = (raced \/ SomeoneWrites)
    /\ overtaken' = Running
    /\ UNCHANGED <<project, cache, clock, proc, starts, lockVars>>

DeleteFile(n) ==
    /\ edits < project.maxEdits /\ disk[n].exists /\ project.removes
    /\ disk' = [disk EXCEPT ![n].exists = FALSE]
    /\ edits' = edits + 1
    /\ raced' = (raced \/ SomeoneWrites)
    /\ overtaken' = Running
    /\ UNCHANGED <<project, cache, clock, proc, starts, lockVars>>

Tick ==
    /\ clock < project.maxTime
    /\ clock' = clock + 1
    /\ UNCHANGED <<project, disk, cache, proc, raced, overtaken, starts, edits, lockVars>>

ProcessStep(p) ==
    \/ StatCompiled(p) \/ ReadCompiled(p) \/ CheckFiles(p)
    \/ OpenCompiled(p) \/ WriteCompiled(p) \/ RunToolAfterLoad(p) \/ OpenLock(p)
    \/ TakeLock(p) \/ ReadInvocationLog(p) \/ RebuildManifest(p)
    \/ GeneratorSucceeds(p) \/ GeneratorPretends(p) \/ GeneratorFails(p) \/ RunBuild(p) \/ ReleaseLock(p)
    \/ UnlinkLock(p)

Next ==
    \/ \E p \in Processes : ProcessStep(p) \/ Parse(p) \/ Start(p) \/ Kill(p)
    \/ \E n \in DOMAIN project.edits : Edit(n) \/ DeleteFile(n)
    \/ Tick

\* A process that is not killed goes on. Parse can always be taken where it
\* applies, so the second conjunct is weak fairness of it.
Fairness(p) ==
    /\ WF_vars(ProcessStep(p))
    /\ []<> ~ At(p, "parse") \/ []<><<Parse(p)>>_vars

Spec == Init /\ [][Next]_vars /\ \A p \in Processes : Fairness(p)
-----------------------------------------------------------------------------
\* Parsing and compiling accept exactly the manifests whose graph can be built,
\* and yield that graph: what ManifestRules takes the files to mean, whatever the
\* order of statements, scopes and searches (raw_manifest.cpp,
\* compiled_manifest.cpp). Files with other mistakes are left aside.
CompileIsRight ==
    [][\A p \in Processes :
        At(p, "parse") /\ proc'[p].pc \in {"open", "idle"} /\ proc'[p].exit # "killed" =>
            LET raw == parseManifest(Readable, proc[p].input)
            IN  \/ raw.outcome # "ok"
                \/ HasOtherMistakes(raw)
                \/ CompilesTo(Readable, proc[p].input, proc'[p].manifest)]_vars

\* A process goes on with the manifest that the files hold at that time, whether
\* it has compiled it itself or found it compiled, unless a file was once changed
\* between the reading of it and the writing of what was read
\* (compiled_manifest.cpp:799): that cannot be told from the times.
ManifestIsCurrent ==
    [][\A p \in Processes :
        proc[p].pc \in {"check", "parse"} /\ proc'[p].pc \in {"loaded", "open"} =>
            raced \/ proc'[p].manifest = Compiled(proc[p].input)]_vars

\* What is built is the manifest that the generator makes of the source that there
\* is, and no process gives up for having generated it too often (shk.cpp,
\* real_main), unless a file was changed under the process or in the second in
\* which the manifest was generated (build.cpp:521 "This is technically racy"), or
\* the generator leaves the manifest alone.
BuildIsRegenerated ==
    [][\A p \in Processes :
        \/ raced \/ p \in overtaken \/ project.lazy \/ "source" \notin DOMAIN disk
        \/ /\ ~ At(p, "build") /\ proc'[p].pc = "build" =>
                \/ disk["source"].mtime = disk[proc[p].input].mtime
                \/ proc[p].manifest =
                     compile(parseManifest(
                        proc[p].input :> project.generates[disk["source"].content],
                        proc[p].input), <<proc[p].input>>)
           /\ proc[p].exit # "still dirty" => proc'[p].exit # "still dirty"]_vars

\* Every process ends (shk.cpp:668 "Limit number of rebuilds, to prevent infinite
\* loops"): whoever has the lock, and whatever is found in the cache.
ProcessesFinish == \A p \in Processes : At(p, "stat") ~> At(p, "idle")
=============================================================================
