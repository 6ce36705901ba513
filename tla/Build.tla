------------------------------- MODULE Build -------------------------------
(***************************************************************************)
(* The scheduler of shk: shk::build() and the detail::Build object it      *)
(* drives (src/src/shk/src/build.cpp, build.h).                            *)
(*                                                                         *)
(* One invocation of build() constructs the step graph, discards the steps *)
(* that are clean, and then alternates between handing ready steps to the  *)
(* command runner and reacting to the callbacks of finished commands.      *)
(* build() is single threaded: `phase` is its program counter, and the     *)
(* only concurrency is in which running command calls back next.           *)
(*                                                                         *)
(* What files and the invocation log decide (which steps are clean, which  *)
(* dependencies a step ignores, whether a command fails) is an input or a  *)
(* nondeterministic choice here; IncrementalBuild decides it from a file   *)
(* system and an invocation log.  ready_steps is a stack in the code; here *)
(* it is a set from which any element may be popped, so every order in     *)
(* which the depth first search could have pushed is covered.              *)
(***************************************************************************)
EXTENDS Integers, FiniteSets

CONSTANTS
  Step,             \* StepIndex values of the compiled manifest
  FailuresAllowed,  \* failures_allowed, the value of -k
  Scenario          \* the inputs that build() may be called with

(***************************************************************************)
(* The inputs of build() as far as scheduling can tell them apart:         *)
(*   deps     manifest dependencies of a step together with those of its   *)
(*            logged additional_dependencies that are still in the manifest*)
(*   ignored  the ignored_dependencies of the step's log entry             *)
(*   unknown  steps with a logged additional dependency whose hash is no   *)
(*            longer in the manifest                                       *)
(*   phony    steps with an empty command                                  *)
(*   clean    steps for which isClean() returns true                       *)
(*   targets  the result of computeStepsToBuild                            *)
(***************************************************************************)
ScenarioType ==
  [deps : [Step -> SUBSET Step], ignored : [Step -> SUBSET Step],
   unknown : SUBSET Step, phony : SUBSET Step, clean : SUBSET Step,
   targets : SUBSET Step]

ASSUME StepFinite == IsFiniteSet(Step)
ASSUME FailuresAllowedPositive == FailuresAllowed \in Nat \ {0}

VARIABLES
  in,                            \* the inputs of the current build() call
  should_build,                  \* steps with StepNode::should_build
  dependencies,                  \* StepNode::dependencies
  no_direct_dependencies_built,  \* StepNode::no_direct_dependencies_built
  ready_steps,                   \* Build::ready_steps
  new_ready_steps,               \* discardCleanSteps' local list
  running,                       \* steps invoked and not called back yet
  remaining_failures,            \* Build::remaining_failures
  invoked_commands,              \* Build::invoked_commands
  phase,                         \* where build() is
  result,                        \* what build() returned
  discarded, skipped,            \* history: skipped steps; discarded is the
                                 \*   part that discardCleanSteps skipped
  built, failed                  \* history: commands that were called back

nodeVars == <<dependencies, no_direct_dependencies_built>>
vars == <<in, should_build, nodeVars, ready_steps, new_ready_steps, running,
          remaining_failures, invoked_commands, phase, result,
          discarded, skipped, built, failed>>

Results == {"NONE", "SUCCESS", "NO_WORK_TO_DO", "FAILURE", "INTERRUPTED", "ERROR"}
Phases == {"idle", "discard", "enqueue", "wait", "finished"}
ExitStatus == {"SUCCESS", "FAILURE", "INTERRUPTED"}

NoInput ==
  [deps |-> [s \in Step |-> {}], ignored |-> [s \in Step |-> {}],
   unknown |-> {}, phony |-> {}, clean |-> {}, targets |-> {}]

Done == built \cup skipped

(***************************************************************************)
(* visitStep: the depth first search marks the targets and everything they *)
(* depend on, and throws "Dependency cycle" when it meets a step that is   *)
(* still being visited.  A finite graph is free of cycles exactly when     *)
(* every nonempty set of its steps has one that depends on none of them.   *)
(***************************************************************************)
ClosedUnder(deps, S) == \A s \in S : deps[s] \subseteq S

visitStep(deps, targets) ==
  {s \in Step : \A S \in SUBSET Step :
                   (targets \subseteq S /\ ClosedUnder(deps, S)) => s \in S}

HasCycle(deps, steps) ==
  \E S \in SUBSET steps : S # {} /\ \A s \in S : deps[s] \cap S # {}

Dependents(s) == {t \in should_build : s \in in.deps[t]}

(***************************************************************************)
(* Faulty variants of the definitions that follow are placed before them.  *)
(* The names say what is wrong; none of them is used by the specification. *)
(***************************************************************************)
MarkDoneReleasesAtOnce(s, was_skipped, ready) ==
  /\ dependencies' = [t \in Step |-> dependencies[t] - (IF t \in Dependents(s) THEN 1 ELSE 0)]
  /\ no_direct_dependencies_built' = no_direct_dependencies_built
  /\ ready_steps' = ready \cup Dependents(s)

MarkDoneHeedsAnyIgnored(s, was_skipped, ready) ==
  /\ dependencies' = [t \in Step |-> dependencies[t] - (IF t \in Dependents(s) THEN 1 ELSE 0)]
  /\ no_direct_dependencies_built' =
       [t \in Step |-> /\ no_direct_dependencies_built[t]
                       /\ \/ was_skipped
                          \/ t \notin Dependents(s)
                          \/ in.ignored[t] # {}]
  /\ ready_steps' = ready \cup {t \in Dependents(s) : dependencies[t] = 1}

(***************************************************************************)
(* Build::markStepNodeAsDone.  `ready` is ready_steps after the caller has *)
(* popped s.  That the counter of every dependent is positive beforehand   *)
(* (the SHK_ASSERT) is DependencyCounts below.  A dependency that is both  *)
(* declared and logged is counted twice in the code, but its two counts    *)
(* are taken away by the same call, so the set in.deps[t] may count it     *)
(* once.                                                                   *)
(***************************************************************************)
markStepNodeAsDone(s, was_skipped, ready) ==
  /\ dependencies' =
       [t \in Step |-> IF t \in Dependents(s) THEN dependencies[t] - 1
                                              ELSE dependencies[t]]
  /\ no_direct_dependencies_built' =
       [t \in Step |-> /\ no_direct_dependencies_built[t]
                       /\ \/ was_skipped
                          \/ t \notin Dependents(s)
                          \/ s \in in.ignored[t]]
  /\ ready_steps' = ready \cup {t \in Dependents(s) : dependencies[t] = 1}

Init ==
  /\ in = NoInput
  /\ should_build = {}
  /\ dependencies = [s \in Step |-> 0]
  /\ no_direct_dependencies_built = [s \in Step |-> TRUE]
  /\ ready_steps = {} /\ new_ready_steps = {} /\ running = {}
  /\ remaining_failures = FailuresAllowed
  /\ invoked_commands = 0
  /\ phase = "idle"
  /\ result = "NONE"
  /\ discarded = {} /\ skipped = {} /\ built = {} /\ failed = {}

computeReadySteps(steps, counts) == {s \in steps : counts[s] = 0}

\* Build::construct and computeCleanSteps.
Construct(i) ==
  LET visited == visitStep(i.deps, i.targets)
      counts  == [s \in Step |-> IF s \in visited THEN Cardinality(i.deps[s]) ELSE 0]
  IN  /\ phase = "idle"
      /\ i \in ScenarioType
      /\ IF HasCycle(i.deps, visited)
         THEN /\ phase' = "finished"
              /\ result' = "ERROR"
              /\ UNCHANGED <<in, should_build, nodeVars, ready_steps>>
         ELSE /\ phase' = "discard"
              /\ result' = "NONE"
              /\ in' = [i EXCEPT !.clean = i.clean \cap visited]
              /\ should_build' = visited
              /\ dependencies' = counts
              /\ no_direct_dependencies_built' = [s \in Step |-> s \notin visited \cap i.unknown]
              /\ ready_steps' = computeReadySteps(visited, counts)
      /\ UNCHANGED <<new_ready_steps, running, remaining_failures, invoked_commands,
                     discarded, skipped, built, failed>>

DiscardWithoutPop(s) ==
  /\ phase = "discard"
  /\ s \in ready_steps
  /\ IF s \in in.clean \cup in.phony
     THEN /\ markStepNodeAsDone(s, TRUE, ready_steps \ {s})
          /\ discarded' = discarded \cup {s}
          /\ skipped' = skipped \cup {s}
          /\ UNCHANGED new_ready_steps
     ELSE /\ new_ready_steps' = new_ready_steps \cup {s}
          /\ UNCHANGED <<ready_steps, nodeVars, discarded, skipped>>
  /\ UNCHANGED <<in, should_build, running, remaining_failures, invoked_commands,
                 phase, result, built, failed>>

\* One iteration of the loop of Build::discardCleanSteps.
DiscardStep(s) ==
  /\ phase = "discard"
  /\ s \in ready_steps
  /\ IF s \in in.clean \cup in.phony
     THEN /\ markStepNodeAsDone(s, TRUE, ready_steps \ {s})
          /\ discarded' = discarded \cup {s}
          /\ skipped' = skipped \cup {s}
          /\ UNCHANGED new_ready_steps
     ELSE /\ new_ready_steps' = new_ready_steps \cup {s}
          /\ ready_steps' = ready_steps \ {s}
          /\ UNCHANGED <<nodeVars, discarded, skipped>>
  /\ UNCHANGED <<in, should_build, running, remaining_failures, invoked_commands,
                 phase, result, built, failed>>

\* ready_steps.swap(new_ready_steps), the end of discardCleanSteps.
DiscardEnd ==
  /\ phase = "discard"
  /\ ready_steps = {}
  /\ ready_steps' = new_ready_steps
  /\ new_ready_steps' = {}
  /\ phase' = "enqueue"
  /\ UNCHANGED <<in, should_build, nodeVars, running, remaining_failures,
                 invoked_commands, result, discarded, skipped, built, failed>>

\* invoked_commands after enqueueBuildCommand has popped s.
CountInvoked(s) ==
  invoked_commands' = IF s \in in.phony THEN invoked_commands ELSE invoked_commands + 1

\* enqueueBuildCommand when canSkipBuildCommand returns true: commandBypassed.
BypassCommand(s) ==
  /\ phase = "enqueue"
  /\ s \in ready_steps
  /\ remaining_failures # 0
  /\ s \in in.clean
  /\ CountInvoked(s)
  /\ markStepNodeAsDone(s, TRUE, ready_steps \ {s})
  /\ skipped' = skipped \cup {s}
  /\ UNCHANGED <<in, should_build, new_ready_steps, running, remaining_failures,
                 phase, result, discarded, built, failed>>

\* enqueueBuildCommand when canSkipBuildCommand returns false: the command is
\* handed to the command runner.  A step that was clean at the start and none
\* of whose direct dependencies have been built is always skipped.
InvokeCommand(s) ==
  /\ phase = "enqueue"
  /\ s \in ready_steps
  /\ remaining_failures # 0
  /\ s \notin in.clean \/ ~no_direct_dependencies_built[s]
  /\ CountInvoked(s)
  /\ ready_steps' = ready_steps \ {s}
  /\ running' = running \cup {s}
  /\ UNCHANGED <<in, should_build, nodeVars, new_ready_steps, remaining_failures,
                 phase, result, discarded, skipped, built, failed>>

\* The loop of enqueueBuildCommands ends.  canRunMore() may only be false when
\* commands are running (LimitedCommandRunner::canRunMore, -j is positive).
StopEnqueueing(cannot_run_more) ==
  /\ phase = "enqueue"
  /\ ready_steps = {} \/ remaining_failures = 0 \/ cannot_run_more
  /\ phase' = "wait"
  /\ UNCHANGED <<in, should_build, nodeVars, ready_steps, new_ready_steps, running,
                 remaining_failures, invoked_commands, result,
                 discarded, skipped, built, failed>>

EnqueueEnd == StopEnqueueing(running # {})

\* commandDone, called back from runCommands(); it ends in enqueueBuildCommands.
CommandDone(s, exit_status) ==
  /\ phase = "wait"
  /\ s \in running
  /\ running' = running \ {s}
  /\ IF exit_status = "SUCCESS"
     THEN /\ markStepNodeAsDone(s, FALSE, ready_steps)
          /\ built' = built \cup {s}
          /\ UNCHANGED <<remaining_failures, failed>>
     ELSE /\ remaining_failures' =
               IF remaining_failures # 0 THEN remaining_failures - 1 ELSE 0
          /\ failed' = failed \cup {s}
          /\ UNCHANGED <<nodeVars, ready_steps, built>>
  /\ phase' = "enqueue"
  /\ UNCHANGED <<in, should_build, new_ready_steps, invoked_commands, result,
                 discarded, skipped>>

Returns(r) ==
  /\ phase' = "finished"
  /\ result' = r
  /\ UNCHANGED <<in, should_build, nodeVars, ready_steps, new_ready_steps, running,
                 remaining_failures, invoked_commands, discarded, skipped, built, failed>>

BuildResultIgnoresSomeFailures ==
  IF remaining_failures = 0 THEN "FAILURE"
  ELSE IF invoked_commands = 0 THEN "NO_WORK_TO_DO" ELSE "SUCCESS"

\* What build() returns once its loop has ended.
BuildResult ==
  IF remaining_failures # FailuresAllowed THEN "FAILURE"
  ELSE IF invoked_commands = 0 THEN "NO_WORK_TO_DO" ELSE "SUCCESS"

\* The end of build(): the command runner is empty.
Finish ==
  /\ phase = "wait"
  /\ running = {}
  /\ Returns(BuildResult)

\* runCommands() returns true: build() returns at once, whatever is running.
Interrupt ==
  /\ phase = "wait"
  /\ running # {}
  /\ Returns("INTERRUPTED")

\* A file system call or markStepNodeAsDone throws out of build().
Throw ==
  /\ phase \in {"discard", "enqueue", "wait"}
  /\ Returns("ERROR")

\* The caller of build() has used its result; the Build object is gone.
Return ==
  /\ phase = "finished"
  /\ in' = NoInput
  /\ should_build' = {}
  /\ dependencies' = [s \in Step |-> 0]
  /\ no_direct_dependencies_built' = [s \in Step |-> TRUE]
  /\ ready_steps' = {} /\ new_ready_steps' = {} /\ running' = {}
  /\ remaining_failures' = FailuresAllowed
  /\ invoked_commands' = 0
  /\ phase' = "idle"
  /\ result' = "NONE"
  /\ discarded' = {} /\ skipped' = {} /\ built' = {} /\ failed' = {}

Work ==
  \/ \E s \in Step : DiscardStep(s)
  \/ DiscardEnd
  \/ \E s \in Step : BypassCommand(s)
  \/ \E s \in Step : InvokeCommand(s)
  \/ EnqueueEnd
  \/ \E s \in Step, e \in ExitStatus : CommandDone(s, e)
  \/ Finish

Next ==
  \/ \E i \in Scenario : Construct(i)
  \/ Work
  \/ Interrupt
  \/ Throw
  \/ Return

Spec == Init /\ [][Next]_vars

\* build() runs to its end once called: its loops are sequential code, and the
\* commands it waits for are assumed to terminate.
FairSpec == Spec /\ WF_vars(Work)
----------------------------------------------------------------------------
(***************************************************************************)
(* Properties.                                                             *)
(***************************************************************************)
\* Type correctness of the Build object and of build()'s locals.
TypeOK ==
  /\ in \in ScenarioType
  /\ should_build \in SUBSET Step
  /\ dependencies \in [Step -> Nat]
  /\ no_direct_dependencies_built \in [Step -> BOOLEAN]
  /\ ready_steps \in SUBSET Step
  /\ new_ready_steps \in SUBSET Step
  /\ running \in SUBSET Step
  /\ remaining_failures \in 0..FailuresAllowed
  /\ invoked_commands \in Nat
  /\ phase \in Phases
  /\ result \in Results
  /\ discarded \in SUBSET Step /\ skipped \in SUBSET Step
  /\ built \in SUBSET Step /\ failed \in SUBSET Step

\* Steps that have left the state of waiting for their dependencies.
Released == ready_steps \cup new_ready_steps \cup running \cup Done \cup failed

\* The counter of a step is the number of its dependencies that are not done,
\* so markStepNodeAsDone never decrements a counter that is 0 (its SHK_ASSERT)
\* and releases a step exactly when its last dependency is done.
DependencyCounts ==
  \A t \in should_build :
    /\ dependencies[t] = Cardinality(in.deps[t] \ Done)
    /\ t \in Released <=> dependencies[t] = 0

\* A step that has been handed to the command runner, or that was skipped, had
\* all its dependencies built or skipped; none of them failed or is in flight.
DependenciesFirst ==
  \A t \in running \cup Done \cup failed :
    /\ in.deps[t] \subseteq Done
    /\ in.deps[t] \cap (failed \cup running) = {}

\* SUCCESS and NO_WORK_TO_DO are only returned when every step that the targets
\* need has been built or skipped.
SuccessIsComplete ==
  (phase = "finished" /\ result \in {"SUCCESS", "NO_WORK_TO_DO"})
    => should_build = Done /\ failed = {}

\* NO_WORK_TO_DO is only returned when discardCleanSteps has discarded every
\* step: everything but phony steps was clean and no command at all was run.
NoWorkMeansClean ==
  (phase = "finished" /\ result = "NO_WORK_TO_DO")
    => should_build = discarded /\ should_build \ in.phony \subseteq in.clean

\* A step may take the fast path of canSkipBuildCommand ("no direct dependencies
\* have been built") only when none of the dependencies that its log entry does
\* not ignore were built, and none of its logged dependencies are unknown.
FastPathIsSound ==
  \A t \in should_build :
    no_direct_dependencies_built[t] <=>
      /\ t \notin in.unknown
      /\ in.deps[t] \cap built \subseteq in.ignored[t]

\* The step count given to the build status, countStepsToBuild minus the number
\* of discarded steps, is never exceeded by the steps that are started, and a
\* build that succeeds starts exactly that many.
ProgressCountIsRight ==
  LET total_steps == Cardinality(should_build \ (in.phony \cup discarded))
  IN  phase \in {"enqueue", "wait", "finished"} =>
        /\ invoked_commands <= total_steps
        /\ result \in {"SUCCESS", "NO_WORK_TO_DO"} => invoked_commands = total_steps

\* A step is handed to the command runner at most once in a build, never after it
\* was skipped, and no command is handed over once too many have failed.
StartedOnce ==
  [][\A s \in running' \ running :
        s \notin Done \cup failed /\ remaining_failures # 0]_vars

\* build() returns: the counters never leave it waiting for a step that nothing
\* will release.
Terminates == (phase = "discard") ~> (phase = "finished")

----------------------------------------------------------------------------
(***************************************************************************)
(* The inductive invariant behind the properties above.                    *)
(***************************************************************************)
\* A step is in one place only, and only steps that should be built are moved.
Partition ==
  /\ Released \subseteq should_build
  /\ ready_steps \cap (new_ready_steps \cup running \cup Done \cup failed) = {}
  /\ new_ready_steps \cap (running \cup Done \cup failed) = {}
  /\ running \cap (Done \cup failed) = {}
  /\ failed \cap Done = {}
  /\ built \cap skipped = {}
  /\ discarded \subseteq skipped
  /\ discarded \subseteq in.clean \cup in.phony

\* The graph that visitStep built is closed under dependencies and acyclic.
GraphOK ==
  /\ ClosedUnder(in.deps, should_build)
  /\ ~HasCycle(in.deps, should_build)

\* Steps that enqueueBuildCommand has popped.
Started == running \cup built \cup failed \cup (skipped \ discarded)

\* The two counters of Build are determined by the sets of steps.
CountersOK ==
  /\ remaining_failures = IF Cardinality(failed) < FailuresAllowed
                          THEN FailuresAllowed - Cardinality(failed) ELSE 0
  /\ invoked_commands = Cardinality(Started \ in.phony)
  /\ invoked_commands = 0 =>
       /\ Started = {}
       /\ phase \in {"enqueue", "wait"} => ready_steps \cap in.phony = {}

\* What holds at each point of build().
PhaseOK ==
  /\ phase = "idle" => should_build = {}
  /\ phase \in {"idle", "discard"} => Started = {}
  /\ phase = "discard" => new_ready_steps \cap in.phony = {}
  /\ phase \in {"enqueue", "wait"} => new_ready_steps = {}
  /\ phase = "wait" => ready_steps = {} \/ remaining_failures = 0 \/ running # {}
  /\ result # "NONE" <=> phase = "finished"
  /\ result \in {"SUCCESS", "NO_WORK_TO_DO"} =>
       Released = Done /\ (result = "NO_WORK_TO_DO" <=> invoked_commands = 0)

IInv ==
  /\ TypeOK
  /\ Partition
  /\ GraphOK
  /\ DependencyCounts
  /\ FastPathIsSound
  /\ CountersOK
  /\ PhaseOK
=============================================================================
