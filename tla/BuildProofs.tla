---------------------------- MODULE BuildProofs ----------------------------
(***************************************************************************)
(* Proofs about Build, for every finite set of steps, every number of      *)
(* allowed failures and every input.                                       *)
(***************************************************************************)
EXTENDS Build, FiniteSetTheorems, TLAPS

(***************************************************************************)
(* Sets of steps are finite, so their cardinalities are natural numbers.   *)
(***************************************************************************)
LEMMA StepSetCard ==
  ASSUME NEW S \in SUBSET Step
  PROVE  /\ IsFiniteSet(S)
         /\ Cardinality(S) \in Nat
         /\ Cardinality(S) = 0 <=> S = {}
<1>1. IsFiniteSet(S)
  BY StepFinite, FS_Subset
<1> QED
  BY <1>1, FS_CardinalityType, FS_EmptySet

(***************************************************************************)
(* Removing and adding one step changes a cardinality by one.              *)
(***************************************************************************)
LEMMA StepSetRemove ==
  ASSUME NEW S \in SUBSET Step, NEW s \in S
  PROVE  Cardinality(S \ {s}) = Cardinality(S) - 1
BY StepSetCard, FS_RemoveElement

\* Adding a step that is not in the set makes its cardinality one larger.
LEMMA StepSetAdd ==
  ASSUME NEW S \in SUBSET Step, NEW s \in Step, s \notin S
  PROVE  Cardinality(S \cup {s}) = Cardinality(S) + 1
BY StepSetCard, FS_AddElement

(***************************************************************************)
(* A larger set of steps has no smaller cardinality.                       *)
(***************************************************************************)
LEMMA StepSetSubset ==
  ASSUME NEW S \in SUBSET Step, NEW T \in SUBSET S
  PROVE  Cardinality(T) <= Cardinality(S)
BY StepSetCard, FS_Subset

(***************************************************************************)
(* What markStepNodeAsDone does to the counters: when the step s that is   *)
(* marked was released and not done, the counters count the remaining      *)
(* undone dependencies, stay natural numbers, and the steps pushed to      *)
(* ready_steps are those that had s as their only undone dependency.       *)
(***************************************************************************)
LEMMA MarkDoneCounts ==
  ASSUME TypeOK, GraphOK, DependencyCounts,
         NEW s \in should_build, s \in Released, s \notin Done,
         NEW w \in BOOLEAN, NEW ready \in SUBSET Step,
         markStepNodeAsDone(s, w, ready),
         in' = in, should_build' = should_build,
         Done' = Done \cup {s},
         Released' = Released \cup {t \in Dependents(s) : dependencies[t] = 1}
  PROVE  /\ dependencies' \in [Step -> Nat]
         /\ DependencyCounts'
         /\ {t \in Dependents(s) : dependencies[t] = 1} \cap Released = {}
<1>1. ASSUME NEW t \in should_build
      PROVE  dependencies[t] = Cardinality(in.deps[t] \ Done) /\ in.deps[t] \subseteq Step
  BY DEF DependencyCounts, TypeOK, ScenarioType
<1>2. ASSUME NEW t \in Dependents(s)
      PROVE  /\ t \in should_build
             /\ dependencies[t] # 0
             /\ dependencies[t] \in Nat
             /\ dependencies'[t] \in Nat
             /\ dependencies'[t] = 0 <=> dependencies[t] = 1
             /\ dependencies'[t] = Cardinality(in.deps[t] \ Done')
  <2>1. t \in should_build /\ s \in in.deps[t] \ Done /\ t \in Step
    BY DEF Dependents, TypeOK
  <2>2. in.deps[t] \ Done \in SUBSET Step
    BY <1>1, <2>1
  <2>3. dependencies[t] # 0 /\ dependencies[t] \in Nat
    BY <1>1, <2>1, <2>2, StepSetCard
  <2>4. Cardinality((in.deps[t] \ Done) \ {s}) = Cardinality(in.deps[t] \ Done) - 1
    BY <2>1, <2>2, StepSetRemove
  <2>5. in.deps[t] \ Done' = (in.deps[t] \ Done) \ {s}
    OBVIOUS
  <2>6. dependencies'[t] = dependencies[t] - 1
    BY <2>1 DEF markStepNodeAsDone
  <2>7. dependencies'[t] \in Nat /\ (dependencies'[t] = 0 <=> dependencies[t] = 1)
    BY <2>3, <2>6
  <2>8. dependencies'[t] = Cardinality(in.deps[t] \ Done')
    BY <1>1, <2>1, <2>4, <2>5, <2>6
  <2> QED
    BY <2>1, <2>3, <2>7, <2>8
<1>3. ASSUME NEW t \in Step, t \notin Dependents(s)
      PROVE  dependencies'[t] = dependencies[t]
  BY <1>3 DEF markStepNodeAsDone
<1>4. ASSUME NEW t \in should_build, t \notin Dependents(s)
      PROVE  dependencies'[t] = Cardinality(in.deps[t] \ Done')
  <2>1. in.deps[t] \ Done' = in.deps[t] \ Done
    BY <1>4 DEF Dependents
  <2> QED
    BY <1>1, <1>3, <1>4, <2>1 DEF TypeOK
<1>5. dependencies' \in [Step -> Nat]
  <2>1. ASSUME NEW t \in Step
        PROVE  dependencies'[t] \in Nat
    <3>1. CASE t \in Dependents(s)
      BY <3>1, <1>2
    <3>2. CASE t \notin Dependents(s)
      BY <3>2, <1>3 DEF TypeOK
    <3> QED
      BY <3>1, <3>2
  <2>2. dependencies' = [t \in Step |-> dependencies'[t]]
    BY DEF markStepNodeAsDone
  <2> QED
    BY <2>1, <2>2
<1>6. {t \in Dependents(s) : dependencies[t] = 1} \cap Released = {}
  BY <1>2 DEF DependencyCounts
<1>7. ASSUME NEW t \in should_build
      PROVE  t \in Released' <=> dependencies'[t] = 0
  <2>0. t \in Step /\ (t \in Released <=> dependencies[t] = 0)
    BY DEF DependencyCounts, TypeOK
  <2>1. CASE t \in Dependents(s)
    <3>1. t \in Released' <=> dependencies[t] = 1
      BY <2>0, <2>1, <1>2
    <3> QED
      BY <2>1, <3>1, <1>2
  <2>2. CASE t \notin Dependents(s)
    BY <2>0, <2>2, <1>3
  <2> QED
    BY <2>1, <2>2
<1>8. DependencyCounts'
  <2>1. ASSUME NEW t \in should_build'
        PROVE  /\ dependencies'[t] = Cardinality(in'.deps[t] \ Done')
               /\ t \in Released' <=> dependencies'[t] = 0
    BY <1>2, <1>4, <1>7
  <2> QED
    BY <2>1 DEF DependencyCounts
<1> QED
  BY <1>5, <1>6, <1>8

(***************************************************************************)
(* What markStepNodeAsDone does to no_direct_dependencies_built, for a     *)
(* step that was skipped and for one that was built.                       *)
(***************************************************************************)
LEMMA MarkSkippedFlag ==
  ASSUME TypeOK, FastPathIsSound, NEW s, NEW ready,
         markStepNodeAsDone(s, TRUE, ready),
         in' = in, should_build' = should_build, built' = built
  PROVE  /\ no_direct_dependencies_built' \in [Step -> BOOLEAN]
         /\ FastPathIsSound'
BY DEF TypeOK, FastPathIsSound, markStepNodeAsDone

\* markStepNodeAsDone for a step that was built (step_was_skipped is false) keeps
\* FastPathIsSound: it clears the flag of exactly the dependents that do not ignore s.
LEMMA MarkBuiltFlag ==
  ASSUME TypeOK, FastPathIsSound, NEW s, NEW ready,
         markStepNodeAsDone(s, FALSE, ready),
         in' = in, should_build' = should_build, built' = built \cup {s}
  PROVE  /\ no_direct_dependencies_built' \in [Step -> BOOLEAN]
         /\ FastPathIsSound'
<1>1. no_direct_dependencies_built' =
        [t \in Step |-> /\ no_direct_dependencies_built[t]
                        /\ t \notin Dependents(s) \/ s \in in.ignored[t]]
  BY DEF markStepNodeAsDone
<1>2. no_direct_dependencies_built' \in [Step -> BOOLEAN]
  BY <1>1 DEF TypeOK
<1>3. ASSUME NEW t \in should_build
      PROVE  no_direct_dependencies_built'[t] <=>
               t \notin in.unknown /\ in.deps[t] \cap (built \cup {s}) \subseteq in.ignored[t]
  <2>1. t \in Step /\ (t \in Dependents(s) <=> s \in in.deps[t])
    BY DEF TypeOK, Dependents
  <2>2. no_direct_dependencies_built'[t] <=>
          no_direct_dependencies_built[t] /\ (t \notin Dependents(s) \/ s \in in.ignored[t])
    BY <1>1, <2>1
  <2> QED
    BY <2>1, <2>2 DEF FastPathIsSound
<1> QED
  BY <1>2, <1>3 DEF FastPathIsSound

(***************************************************************************)
(* The initial state, and the state in which build() returns to its        *)
(* caller, satisfy the invariant.                                          *)
(***************************************************************************)
LEMMA EmptyBuildOK == Init => IInv
<1> SUFFICES ASSUME Init PROVE IInv
  OBVIOUS
<1> USE DEF Init
<1>1. TypeOK
  BY FailuresAllowedPositive DEF TypeOK, NoInput, ScenarioType, Phases, Results
<1>2. Partition /\ DependencyCounts /\ FastPathIsSound
  BY DEF Partition, DependencyCounts, FastPathIsSound, Released, Done
<1>3. GraphOK
  BY DEF GraphOK, ClosedUnder, HasCycle
<1>4. Cardinality(failed) = 0 /\ Cardinality(Started \ in.phony) = 0 /\ Started = {}
  BY FS_EmptySet DEF Started
<1>5. CountersOK
  BY <1>4, FailuresAllowedPositive DEF CountersOK
<1>6. PhaseOK
  BY <1>4 DEF PhaseOK
<1> QED
  BY <1>1, <1>2, <1>3, <1>5, <1>6 DEF IInv

\* When the caller of build() is done, the state is that of a program without a
\* Build object, for which the invariant holds.
LEMMA ReturnOK == Return => IInv'
<1> SUFFICES ASSUME Return PROVE IInv'
  OBVIOUS
<1> USE DEF Return
<1>1. TypeOK'
  BY FailuresAllowedPositive DEF TypeOK, NoInput, ScenarioType, Phases, Results
<1>2. Partition' /\ DependencyCounts' /\ FastPathIsSound'
  BY DEF Partition, DependencyCounts, FastPathIsSound, Released, Done
<1>3. GraphOK'
  BY DEF GraphOK, ClosedUnder, HasCycle
<1>4. Cardinality(failed') = 0 /\ Cardinality(Started' \ in'.phony) = 0 /\ Started' = {}
  BY FS_EmptySet DEF Started
<1>5. CountersOK'
  BY <1>4, FailuresAllowedPositive DEF CountersOK
<1>6. PhaseOK'
  BY <1>4 DEF PhaseOK
<1> QED
  BY <1>1, <1>2, <1>3, <1>5, <1>6 DEF IInv

(***************************************************************************)
(* Build::construct: the steps that visitStep marks are closed under       *)
(* dependencies, and the counters start at the number of dependencies.     *)
(***************************************************************************)
LEMMA VisitStepClosed ==
  ASSUME NEW deps \in [Step -> SUBSET Step], NEW targets \in SUBSET Step
  PROVE  /\ visitStep(deps, targets) \subseteq Step
         /\ ClosedUnder(deps, visitStep(deps, targets))
BY DEF visitStep, ClosedUnder

\* Build::construct and visitStep establish the invariant, or throw on a cycle.
LEMMA ConstructOK ==
  ASSUME IInv, NEW i \in Scenario, Construct(i)
  PROVE  IInv'
<1> DEFINE visited == visitStep(i.deps, i.targets)
<1>0. /\ phase = "idle" /\ should_build = {} /\ Released = {} /\ Started = {} /\ Done = {}
      /\ ready_steps = {} /\ new_ready_steps = {} /\ running = {} /\ failed = {}
      /\ skipped = {} /\ built = {} /\ discarded = {}
  BY DEF IInv, PhaseOK, Partition, Released, Done, Started, Construct
<1>1. i \in ScenarioType /\ visited \subseteq Step /\ ClosedUnder(i.deps, visited)
  BY VisitStepClosed DEF ScenarioType, Construct
<1>2. CASE HasCycle(i.deps, visited)
  <2>1. /\ phase' = "finished" /\ result' = "ERROR"
        /\ UNCHANGED <<in, should_build, dependencies, no_direct_dependencies_built,
                       ready_steps, new_ready_steps, running, remaining_failures,
                       invoked_commands, discarded, skipped, built, failed>>
    BY <1>2 DEF Construct, nodeVars
  <2>2. Released' = Released /\ Done' = Done /\ Started' = Started
    BY <2>1 DEF Released, Done, Started
  <2>3. TypeOK'
    BY <2>1 DEF IInv, TypeOK, Phases, Results
  <2>4. Partition' /\ GraphOK' /\ DependencyCounts' /\ FastPathIsSound'
    BY <2>1, <2>2 DEF IInv, Partition, GraphOK, DependencyCounts, FastPathIsSound
  <2>5. CountersOK'
    BY <2>1, <2>2 DEF IInv, CountersOK
  <2>6. PhaseOK'
    BY <2>1, <2>2 DEF IInv, PhaseOK
  <2> QED
    BY <2>3, <2>4, <2>5, <2>6 DEF IInv
<1>3. CASE ~HasCycle(i.deps, visited)
  <2>1. /\ phase' = "discard" /\ result' = "NONE"
        /\ in' = [i EXCEPT !.clean = i.clean \cap visited]
        /\ should_build' = visited
        /\ dependencies' = [s \in Step |-> IF s \in visited THEN Cardinality(i.deps[s]) ELSE 0]
        /\ no_direct_dependencies_built' = [s \in Step |-> s \notin visited \cap i.unknown]
        /\ ready_steps' = {s \in visited : dependencies'[s] = 0}
        /\ UNCHANGED <<new_ready_steps, running, remaining_failures,
                       invoked_commands, discarded, skipped, built, failed>>
    BY <1>1, <1>3 DEF Construct, computeReadySteps
  <2>2. /\ in' \in ScenarioType /\ in'.deps = i.deps /\ in'.unknown = i.unknown
    BY <1>1, <2>1 DEF ScenarioType
  <2>3. ASSUME NEW s \in visited
        PROVE  dependencies'[s] = Cardinality(i.deps[s]) /\ dependencies'[s] \in Nat
    BY <1>1, <2>1, StepSetCard DEF ScenarioType
  <2>4. dependencies' \in [Step -> Nat]
    BY <2>1, <2>3
  <2>5. TypeOK'
    BY <1>1, <2>1, <2>2, <2>4 DEF IInv, TypeOK, Phases, Results
  <2>6. /\ Released' = ready_steps' /\ Done' = {} /\ Started' = {}
        /\ built' = {} /\ failed' = {}
    BY <1>0, <2>1 DEF Released, Done, Started
  <2>7. Partition'
    BY <1>0, <2>1, <2>6 DEF Partition
  <2>8. GraphOK'
    BY <1>1, <1>3, <2>1, <2>2 DEF GraphOK
  <2>9. DependencyCounts'
    BY <2>1, <2>2, <2>3, <2>6 DEF DependencyCounts
  <2>10. FastPathIsSound'
    BY <1>1, <2>1, <2>2, <2>6 DEF FastPathIsSound
  <2>11. Cardinality(Started' \ in'.phony) = 0 /\ Cardinality(failed') = 0
         /\ Cardinality(Started \ in.phony) = 0
    BY <1>0, <2>6, FS_EmptySet
  <2>12. CountersOK'
    BY <1>0, <2>1, <2>6, <2>11 DEF IInv, CountersOK
  <2>13. PhaseOK'
    BY <1>0, <2>1, <2>6 DEF PhaseOK
  <2> QED
    BY <2>5, <2>7, <2>8, <2>9, <2>10, <2>12, <2>13 DEF IInv
<1> QED
  BY <1>2, <1>3

(***************************************************************************)
(* discardCleanSteps.                                                      *)
(***************************************************************************)
LEMMA DiscardStepOK ==
  ASSUME IInv, NEW s \in Step, DiscardStep(s)
  PROVE  IInv'
<1> USE DEF IInv
<1>0. /\ phase = "discard" /\ s \in ready_steps
      /\ UNCHANGED <<in, should_build, running, remaining_failures, invoked_commands,
                     phase, result, built, failed>>
  BY DEF DiscardStep
<1>1. /\ s \in should_build /\ s \in Released /\ s \notin Done
      /\ running = {} /\ built = {} /\ failed = {} /\ skipped = discarded
      /\ result = "NONE"
  BY <1>0 DEF PhaseOK, Partition, Released, Started, Done
<1>2. GraphOK'
  BY <1>0 DEF GraphOK
<1>3. CASE s \in in.clean \cup in.phony
  <2> DEFINE pushed == {t \in Dependents(s) : dependencies[t] = 1}
  <2>1. /\ markStepNodeAsDone(s, TRUE, ready_steps \ {s})
        /\ discarded' = discarded \cup {s} /\ skipped' = skipped \cup {s}
        /\ new_ready_steps' = new_ready_steps
    BY <1>3 DEF DiscardStep
  <2>2. ready_steps' = (ready_steps \ {s}) \cup pushed
    BY <2>1 DEF markStepNodeAsDone
  <2>3. Done' = Done \cup {s} /\ Released' = Released \cup pushed /\ Started' = Started
    BY <1>0, <1>1, <2>1, <2>2 DEF Done, Released, Started
  <2>4. /\ dependencies' \in [Step -> Nat] /\ DependencyCounts'
        /\ pushed \cap Released = {}
    BY <1>0, <1>1, <2>1, <2>3, MarkDoneCounts DEF TypeOK
  <2>5. no_direct_dependencies_built' \in [Step -> BOOLEAN] /\ FastPathIsSound'
    BY <1>0, <2>1, MarkSkippedFlag
  <2>6. pushed \subseteq should_build /\ should_build \subseteq Step
    BY DEF Dependents, TypeOK
  <2>7. TypeOK'
    BY <1>0, <2>1, <2>2, <2>4, <2>5, <2>6 DEF TypeOK
  <2>8. Partition'
    BY <1>0, <1>1, <1>3, <2>1, <2>2, <2>4, <2>6 DEF Partition, Released, Done
  <2>9. CountersOK' /\ PhaseOK'
    BY <1>0, <1>1, <2>1, <2>3 DEF CountersOK, PhaseOK
  <2> QED
    BY <1>2, <2>4, <2>5, <2>7, <2>8, <2>9
<1>4. CASE s \notin in.clean \cup in.phony
  <2>1. /\ new_ready_steps' = new_ready_steps \cup {s} /\ ready_steps' = ready_steps \ {s}
        /\ UNCHANGED <<dependencies, no_direct_dependencies_built, discarded, skipped>>
    BY <1>4 DEF DiscardStep, nodeVars
  <2>2. Done' = Done /\ Released' = Released /\ Started' = Started
    BY <1>0, <2>1 DEF Done, Released, Started
  <2>3. TypeOK'
    BY <1>0, <2>1 DEF TypeOK
  <2>4. Partition'
    BY <1>0, <1>1, <2>1, <2>2 DEF Partition, Released, Done
  <2>5. DependencyCounts' /\ FastPathIsSound'
    BY <1>0, <2>1, <2>2 DEF DependencyCounts, FastPathIsSound
  <2>6. CountersOK' /\ PhaseOK'
    BY <1>0, <1>1, <1>4, <2>1, <2>2 DEF CountersOK, PhaseOK
  <2> QED
    BY <1>2, <2>3, <2>4, <2>5, <2>6
<1> QED
  BY <1>3, <1>4

\* The swap at the end of discardCleanSteps keeps the invariant.
LEMMA DiscardEndOK ==
  ASSUME IInv, DiscardEnd
  PROVE  IInv'
<1> USE DEF IInv
<1>0. /\ phase = "discard" /\ ready_steps = {} /\ ready_steps' = new_ready_steps
      /\ new_ready_steps' = {} /\ phase' = "enqueue"
      /\ UNCHANGED <<in, should_build, dependencies, no_direct_dependencies_built, running,
                     remaining_failures, invoked_commands, result, discarded, skipped,
                     built, failed>>
  BY DEF DiscardEnd, nodeVars
<1>1. Done' = Done /\ Released' = Released /\ Started' = Started
  BY <1>0 DEF Done, Released, Started
<1>2. TypeOK'
  BY <1>0 DEF TypeOK, Phases
<1>3. Partition' /\ GraphOK'
  BY <1>0, <1>1 DEF Partition, GraphOK
<1>4. DependencyCounts' /\ FastPathIsSound'
  BY <1>0, <1>1 DEF DependencyCounts, FastPathIsSound
<1>5. CountersOK' /\ PhaseOK'
  BY <1>0, <1>1 DEF CountersOK, PhaseOK
<1> QED
  BY <1>2, <1>3, <1>4, <1>5

(***************************************************************************)
(* The counter of invoked commands follows the set of started steps.       *)
(***************************************************************************)
LEMMA CountInvokedOK ==
  ASSUME TypeOK, Partition, CountersOK, phase = "enqueue", NEW s \in ready_steps,
         CountInvoked(s), in' = in,
         Started' = Started \cup {s}, s \notin Started
  PROVE  /\ invoked_commands' \in Nat
         /\ invoked_commands' = Cardinality(Started' \ in.phony)
         /\ invoked_commands' # 0
<1>1. /\ s \in Step /\ Started \ in.phony \in SUBSET Step
      /\ invoked_commands = Cardinality(Started \ in.phony)
  BY DEF TypeOK, CountersOK, Started
<1>2. Cardinality(Started \ in.phony) \in Nat
  BY <1>1, StepSetCard
<1>3. CASE s \in in.phony
  <2>1. invoked_commands # 0
    BY <1>3 DEF CountersOK
  <2>2. Started' \ in.phony = Started \ in.phony
    BY <1>3
  <2> QED
    BY <1>1, <1>2, <1>3, <2>1, <2>2 DEF CountInvoked
<1>4. CASE s \notin in.phony
  <2>1. Started' \ in.phony = (Started \ in.phony) \cup {s}
    BY <1>4
  <2>2. Cardinality((Started \ in.phony) \cup {s}) = Cardinality(Started \ in.phony) + 1
    BY <1>1, StepSetAdd
  <2>3. invoked_commands' = invoked_commands + 1
    BY <1>4 DEF CountInvoked
  <2>4. invoked_commands' \in Nat /\ invoked_commands' # 0
    BY <1>1, <1>2, <2>3
  <2> QED
    BY <1>1, <2>1, <2>2, <2>3, <2>4
<1> QED
  BY <1>3, <1>4

(***************************************************************************)
(* enqueueBuildCommands.                                                   *)
(***************************************************************************)
LEMMA BypassCommandOK ==
  ASSUME IInv, NEW s \in Step, BypassCommand(s)
  PROVE  IInv'
<1> USE DEF IInv
<1> DEFINE pushed == {t \in Dependents(s) : dependencies[t] = 1}
<1>0. /\ phase = "enqueue" /\ s \in ready_steps /\ CountInvoked(s)
      /\ markStepNodeAsDone(s, TRUE, ready_steps \ {s})
      /\ skipped' = skipped \cup {s}
      /\ UNCHANGED <<in, should_build, new_ready_steps, running, remaining_failures,
                     phase, result, discarded, built, failed>>
  BY DEF BypassCommand
<1>1. s \in should_build /\ s \in Released /\ s \notin Done /\ s \notin discarded
  BY <1>0 DEF Partition, Released, Done
<1>2. s \notin Started
  BY <1>0 DEF Partition, Started, Done
<1>3. ready_steps' = (ready_steps \ {s}) \cup pushed
  BY <1>0 DEF markStepNodeAsDone
<1>4. Done' = Done \cup {s} /\ Released' = Released \cup pushed /\ Started' = Started \cup {s}
  BY <1>0, <1>1, <1>3 DEF Done, Released, Started
<1>5. /\ dependencies' \in [Step -> Nat] /\ DependencyCounts'
      /\ pushed \cap Released = {}
  BY <1>0, <1>1, <1>4, MarkDoneCounts DEF TypeOK
<1>6. no_direct_dependencies_built' \in [Step -> BOOLEAN] /\ FastPathIsSound'
  BY <1>0, MarkSkippedFlag
<1>7. /\ invoked_commands' \in Nat /\ invoked_commands' # 0
      /\ invoked_commands' = Cardinality(Started' \ in.phony)
  BY <1>0, <1>2, <1>4, CountInvokedOK
<1>8. pushed \subseteq should_build /\ should_build \subseteq Step
  BY DEF Dependents, TypeOK
<1>9. TypeOK'
  BY <1>0, <1>3, <1>5, <1>6, <1>7, <1>8 DEF TypeOK
<1>10. Partition'
  BY <1>0, <1>1, <1>3, <1>5, <1>8 DEF Partition, Released, Done
<1>11. GraphOK'
  BY <1>0 DEF GraphOK
<1>12. CountersOK'
  BY <1>0, <1>7 DEF CountersOK
<1>13. PhaseOK'
  BY <1>0 DEF PhaseOK
<1> QED
  BY <1>5, <1>6, <1>9, <1>10, <1>11, <1>12, <1>13

\* Handing a ready step to the command runner keeps the invariant.
LEMMA InvokeCommandOK ==
  ASSUME IInv, NEW s \in Step, InvokeCommand(s)
  PROVE  IInv'
<1> USE DEF IInv
<1>0. /\ phase = "enqueue" /\ s \in ready_steps /\ CountInvoked(s)
      /\ ready_steps' = ready_steps \ {s} /\ running' = running \cup {s}
      /\ UNCHANGED <<in, should_build, dependencies, no_direct_dependencies_built,
                     new_ready_steps, remaining_failures, phase, result, discarded,
                     skipped, built, failed>>
  BY DEF InvokeCommand, nodeVars
<1>1. s \notin Started
  BY <1>0 DEF Partition, Started, Done
<1>2. Done' = Done /\ Released' = Released /\ Started' = Started \cup {s}
  BY <1>0 DEF Done, Released, Started
<1>3. /\ invoked_commands' \in Nat /\ invoked_commands' # 0
      /\ invoked_commands' = Cardinality(Started' \ in.phony)
  BY <1>0, <1>1, <1>2, CountInvokedOK
<1>4. TypeOK'
  BY <1>0, <1>3 DEF TypeOK
<1>5. Partition' /\ GraphOK'
  BY <1>0, <1>2 DEF Partition, GraphOK, Done, Released
<1>6. DependencyCounts' /\ FastPathIsSound'
  BY <1>0, <1>2 DEF DependencyCounts, FastPathIsSound
<1>7. CountersOK'
  BY <1>0, <1>3 DEF CountersOK
<1>8. PhaseOK'
  BY <1>0 DEF PhaseOK
<1> QED
  BY <1>4, <1>5, <1>6, <1>7, <1>8

\* Leaving the loop of enqueueBuildCommands keeps the invariant.
LEMMA EnqueueEndOK ==
  ASSUME IInv, EnqueueEnd
  PROVE  IInv'
<1> USE DEF IInv
<1>0. /\ phase = "enqueue" /\ phase' = "wait"
      /\ ready_steps = {} \/ remaining_failures = 0 \/ running # {}
      /\ UNCHANGED <<in, should_build, dependencies, no_direct_dependencies_built,
                     ready_steps, new_ready_steps, running, remaining_failures,
                     invoked_commands, result, discarded, skipped, built, failed>>
  BY DEF EnqueueEnd, StopEnqueueing, nodeVars
<1>1. Done' = Done /\ Released' = Released /\ Started' = Started
  BY <1>0 DEF Done, Released, Started
<1>2. TypeOK' /\ Partition' /\ GraphOK'
  BY <1>0, <1>1 DEF TypeOK, Phases, Partition, GraphOK
<1>3. DependencyCounts' /\ FastPathIsSound'
  BY <1>0, <1>1 DEF DependencyCounts, FastPathIsSound
<1>4. CountersOK' /\ PhaseOK'
  BY <1>0, <1>1 DEF CountersOK, PhaseOK
<1> QED
  BY <1>2, <1>3, <1>4

(***************************************************************************)
(* commandDone.                                                            *)
(***************************************************************************)
LEMMA CommandDoneOK ==
  ASSUME IInv, NEW s \in Step, NEW e \in ExitStatus, CommandDone(s, e)
  PROVE  IInv'
<1> USE DEF IInv
<1> DEFINE pushed == {t \in Dependents(s) : dependencies[t] = 1}
<1>0. /\ phase = "wait" /\ phase' = "enqueue" /\ s \in running
      /\ running' = running \ {s}
      /\ UNCHANGED <<in, should_build, new_ready_steps, invoked_commands, result,
                     discarded, skipped>>
  BY DEF CommandDone
<1>1. /\ s \in should_build /\ s \in Released /\ s \notin Done /\ s \notin failed
      /\ s \notin ready_steps /\ s \in Started
  BY <1>0 DEF Partition, Released, Done, Started
<1>2. GraphOK'
  BY <1>0 DEF GraphOK
<1>3. invoked_commands # 0
  BY <1>1 DEF CountersOK
<1>4. CASE e = "SUCCESS"
  <2>1. /\ markStepNodeAsDone(s, FALSE, ready_steps) /\ built' = built \cup {s}
        /\ UNCHANGED <<remaining_failures, failed>>
    BY <1>4 DEF CommandDone
  <2>2. ready_steps' = ready_steps \cup pushed
    BY <2>1 DEF markStepNodeAsDone
  <2>3. Done' = Done \cup {s} /\ Released' = Released \cup pushed /\ Started' = Started
    BY <1>0, <1>1, <2>1, <2>2 DEF Done, Released, Started
  <2>4. /\ dependencies' \in [Step -> Nat] /\ DependencyCounts'
        /\ pushed \cap Released = {}
    BY <1>0, <1>1, <2>1, <2>3, MarkDoneCounts DEF TypeOK
  <2>5. no_direct_dependencies_built' \in [Step -> BOOLEAN] /\ FastPathIsSound'
    BY <1>0, <2>1, MarkBuiltFlag
  <2>6. pushed \subseteq should_build /\ should_build \subseteq Step
    BY DEF Dependents, TypeOK
  <2>7. TypeOK'
    BY <1>0, <2>1, <2>2, <2>4, <2>5, <2>6 DEF TypeOK, Phases
  <2>8. Partition'
    BY <1>0, <1>1, <2>1, <2>2, <2>4, <2>6 DEF Partition, Released, Done
  <2>9. CountersOK' /\ PhaseOK'
    BY <1>0, <1>3, <2>1, <2>3 DEF CountersOK, PhaseOK
  <2> QED
    BY <1>2, <2>4, <2>5, <2>7, <2>8, <2>9
<1>5. CASE e # "SUCCESS"
  <2>1. /\ remaining_failures' =
             IF remaining_failures # 0 THEN remaining_failures - 1 ELSE 0
        /\ failed' = failed \cup {s}
        /\ UNCHANGED <<dependencies, no_direct_dependencies_built, ready_steps, built>>
    BY <1>5 DEF CommandDone, nodeVars
  <2>2. Done' = Done /\ Released' = Released /\ Started' = Started
    BY <1>0, <2>1 DEF Done, Released, Started
  <2>3. Cardinality(failed') = Cardinality(failed) + 1 /\ Cardinality(failed) \in Nat
    BY <1>1, <2>1, StepSetAdd, StepSetCard DEF TypeOK
  <2>4. remaining_failures' = IF Cardinality(failed') < FailuresAllowed
                              THEN FailuresAllowed - Cardinality(failed') ELSE 0
    BY <2>1, <2>3, FailuresAllowedPositive DEF CountersOK
  <2>5. remaining_failures' \in 0..FailuresAllowed
    BY <2>3, <2>4, FailuresAllowedPositive
  <2>6. TypeOK'
    BY <1>0, <2>1, <2>5 DEF TypeOK, Phases
  <2>7. Partition'
    BY <1>0, <1>1, <2>1, <2>2 DEF Partition, Released, Done
  <2>8. DependencyCounts' /\ FastPathIsSound'
    BY <1>0, <2>1, <2>2 DEF DependencyCounts, FastPathIsSound
  <2>9. CountersOK' /\ PhaseOK'
    BY <1>0, <1>3, <2>2, <2>4 DEF CountersOK, PhaseOK
  <2> QED
    BY <1>2, <2>6, <2>7, <2>8, <2>9
<1> QED
  BY <1>4, <1>5

(***************************************************************************)
(* The ways out of build().  SUCCESS and NO_WORK_TO_DO need an argument:   *)
(* when no command is running and none has failed, the loop of             *)
(* enqueueBuildCommands can only have ended because nothing was ready.     *)
(***************************************************************************)
LEMMA ReturnsOK ==
  ASSUME IInv, NEW r \in Results \ {"NONE"}, Returns(r),
         r \in {"SUCCESS", "NO_WORK_TO_DO"} =>
           Released = Done /\ (r = "NO_WORK_TO_DO" <=> invoked_commands = 0)
  PROVE  IInv'
<1> USE DEF IInv
<1>0. /\ phase' = "finished" /\ result' = r
      /\ UNCHANGED <<in, should_build, dependencies, no_direct_dependencies_built,
                     ready_steps, new_ready_steps, running, remaining_failures,
                     invoked_commands, discarded, skipped, built, failed>>
  BY DEF Returns, nodeVars
<1>1. Done' = Done /\ Released' = Released /\ Started' = Started
  BY <1>0 DEF Done, Released, Started
<1>2. TypeOK'
  BY <1>0 DEF TypeOK, Phases
<1>3. Partition' /\ GraphOK'
  BY <1>0, <1>1 DEF Partition, GraphOK
<1>4. DependencyCounts' /\ FastPathIsSound'
  BY <1>0, <1>1 DEF DependencyCounts, FastPathIsSound
<1>5. CountersOK' /\ PhaseOK'
  BY <1>0, <1>1 DEF CountersOK, PhaseOK
<1> QED
  BY <1>2, <1>3, <1>4, <1>5

\* The return at the end of build() keeps the invariant: with no command left in
\* the command runner and no failure, acyclicity leaves no step unreleased.
LEMMA FinishOK ==
  ASSUME IInv, Finish
  PROVE  IInv'
<1> DEFINE r == BuildResult
<1>1. phase = "wait" /\ running = {} /\ Returns(r)
  BY DEF Finish
<1>2. r \in Results \ {"NONE"}
  BY DEF Results, BuildResult
<1>3. ASSUME r \in {"SUCCESS", "NO_WORK_TO_DO"}
      PROVE  Released = Done /\ (r = "NO_WORK_TO_DO" <=> invoked_commands = 0)
  <2>1. remaining_failures = FailuresAllowed
    BY <1>3 DEF BuildResult
  <2>2. Cardinality(failed) \in Nat /\ (Cardinality(failed) = 0 <=> failed = {})
    BY StepSetCard DEF IInv, TypeOK
  <2>3. failed = {}
    BY <2>1, <2>2, FailuresAllowedPositive DEF IInv, CountersOK
  <2>4. ready_steps = {} /\ new_ready_steps = {}
    BY <1>1, <2>1, FailuresAllowedPositive DEF IInv, PhaseOK
  <2>5. Released = Done
    BY <1>1, <2>3, <2>4 DEF Released
  <2> QED
    BY <2>1, <2>5 DEF BuildResult
<1> QED
  BY <1>1, <1>2, <1>3, ReturnsOK

(***************************************************************************)
(* Every step of the scheduler preserves IInv.                             *)
(***************************************************************************)
LEMMA StepKeepsIInv == IInv /\ [Next]_vars => IInv'
<1> SUFFICES ASSUME IInv, [Next]_vars PROVE IInv'
  OBVIOUS
<1>1. ASSUME NEW i \in Scenario, Construct(i) PROVE IInv'
  BY <1>1, ConstructOK
<1>2. ASSUME NEW s \in Step, DiscardStep(s) PROVE IInv'
  BY <1>2, DiscardStepOK
<1>3. CASE DiscardEnd
  BY <1>3, DiscardEndOK
<1>4. ASSUME NEW s \in Step, BypassCommand(s) PROVE IInv'
  BY <1>4, BypassCommandOK
<1>5. ASSUME NEW s \in Step, InvokeCommand(s) PROVE IInv'
  BY <1>5, InvokeCommandOK
<1>6. CASE EnqueueEnd
  BY <1>6, EnqueueEndOK
<1>7. ASSUME NEW s \in Step, NEW e \in ExitStatus, CommandDone(s, e) PROVE IInv'
  BY <1>7, CommandDoneOK
<1>8. CASE Finish
  BY <1>8, FinishOK
<1>9. CASE Interrupt \/ Throw
  BY <1>9, ReturnsOK DEF Interrupt, Throw, Results
<1>10. CASE Return
  BY <1>10, ReturnOK
<1>11. CASE UNCHANGED vars
  BY <1>11 DEF vars, nodeVars, IInv, TypeOK, Partition, GraphOK, DependencyCounts,
       FastPathIsSound, CountersOK, PhaseOK, Released, Done, Started
<1> QED
  BY <1>1, <1>2, <1>3, <1>4, <1>5, <1>6, <1>7, <1>8, <1>9, <1>10, <1>11 DEF Next, Work

(***************************************************************************)
(* IInv is an inductive invariant of the scheduler.                        *)
(***************************************************************************)
THEOREM Inductive == Spec => []IInv
<1>1. Init => IInv
  BY EmptyBuildOK
<1> QED
  BY <1>1, StepKeepsIInv, PTL DEF Spec

(***************************************************************************)
(* Every variable of build() keeps its type; in particular no dependency   *)
(* counter of a StepNode becomes negative.                                 *)
(***************************************************************************)
THEOREM TypeCorrect == Spec => []TypeOK
<1>1. IInv => TypeOK
  BY DEF IInv
<1> QED
  BY <1>1, Inductive, PTL

(***************************************************************************)
(* The counters count the undone dependencies, and a step is released      *)
(* exactly when its counter is 0: the SHK_ASSERT of markStepNodeAsDone     *)
(* never fails.                                                            *)
(***************************************************************************)
THEOREM CountsCorrect == Spec => []DependencyCounts
<1>1. IInv => DependencyCounts
  BY DEF IInv
<1> QED
  BY <1>1, Inductive, PTL

(***************************************************************************)
(* A step becomes ready when all its dependencies are done.                *)
(***************************************************************************)
LEMMA ReleasedAfterDependencies ==
  ASSUME IInv, NEW t \in Released
  PROVE  t \in should_build /\ in.deps[t] \subseteq Done
<1>1. t \in should_build /\ t \in Step
  BY DEF IInv, Partition, TypeOK
<1>2. Cardinality(in.deps[t] \ Done) = 0
  BY <1>1 DEF IInv, DependencyCounts
<1>3. in.deps[t] \ Done \in SUBSET Step
  BY <1>1 DEF IInv, TypeOK, ScenarioType
<1>4. in.deps[t] \ Done = {}
  BY <1>2, <1>3, StepSetCard
<1> QED BY <1>1, <1>4

(***************************************************************************)
(* No step is run or skipped before all its dependencies are done.         *)
(***************************************************************************)
THEOREM DependenciesFirstCorrect == Spec => []DependenciesFirst
<1>1. IInv => DependenciesFirst
  <2> SUFFICES ASSUME IInv, NEW t \in running \cup Done \cup failed
               PROVE  in.deps[t] \subseteq Done /\ in.deps[t] \cap (failed \cup running) = {}
    BY DEF DependenciesFirst
  <2>1. in.deps[t] \subseteq Done
    BY ReleasedAfterDependencies DEF Released
  <2> QED
    BY <2>1 DEF IInv, Partition
<1> QED
  BY <1>1, Inductive, PTL

(***************************************************************************)
(* A build that reports success has built or skipped every step that the   *)
(* targets need: were one left, a minimal one in the acyclic graph would   *)
(* have no undone dependency, so it would have been released.              *)
(***************************************************************************)
LEMMA SuccessLeavesNone == IInv => SuccessIsComplete
<1> SUFFICES ASSUME IInv, phase = "finished", result \in {"SUCCESS", "NO_WORK_TO_DO"}
             PROVE  should_build = Done /\ failed = {}
  BY DEF SuccessIsComplete
<1>1. Released = Done /\ Done \subseteq should_build
  BY DEF IInv, PhaseOK, Partition
<1>2. failed = {}
  BY <1>1 DEF IInv, Partition, Released
<1>3. should_build \ Done = {}
  <2> SUFFICES ASSUME should_build \ Done # {} PROVE FALSE
    OBVIOUS
  <2>1. PICK s \in should_build \ Done : in.deps[s] \cap (should_build \ Done) = {}
    BY DEF IInv, GraphOK, HasCycle
  <2>2. in.deps[s] \ Done = {}
    BY <2>1 DEF IInv, GraphOK, ClosedUnder
  <2>3. dependencies[s] = 0
    BY <2>2, FS_EmptySet DEF IInv, DependencyCounts
  <2> QED
    BY <1>1, <2>3 DEF IInv, DependencyCounts
<1> QED
  BY <1>1, <1>2, <1>3

\* Success is only reported of a build in which every step is done.
THEOREM SuccessCorrect == Spec => []SuccessIsComplete
BY SuccessLeavesNone, Inductive, PTL

(***************************************************************************)
(* The fast path of canSkipBuildCommand is taken only when no dependency   *)
(* that counts was built.                                                  *)
(***************************************************************************)
THEOREM FastPathCorrect == Spec => []FastPathIsSound
<1>1. IInv => FastPathIsSound
  BY DEF IInv
<1> QED
  BY <1>1, Inductive, PTL

(***************************************************************************)
(* "No work to do" means that every step was discarded as clean or phony.  *)
(***************************************************************************)
THEOREM NoWorkCorrect == Spec => [](SuccessIsComplete /\ NoWorkMeansClean)
<1>1. IInv /\ SuccessIsComplete => NoWorkMeansClean
  <2> SUFFICES ASSUME IInv, SuccessIsComplete, phase = "finished", result = "NO_WORK_TO_DO"
               PROVE  should_build = discarded /\ should_build \ in.phony \subseteq in.clean
    BY DEF NoWorkMeansClean
  <2>1. should_build = Done /\ Started = {}
    BY DEF SuccessIsComplete, IInv, PhaseOK, CountersOK
  <2> QED
    BY <2>1 DEF IInv, Partition, Started, Done
<1> QED
  BY <1>1, Inductive, SuccessCorrect, PTL

(***************************************************************************)
(* The progress count shown to the user is right.                          *)
(***************************************************************************)
THEOREM ProgressCorrect == Spec => []ProgressCountIsRight
<1>1. IInv /\ SuccessIsComplete => ProgressCountIsRight
  <2> DEFINE rest == should_build \ (in.phony \cup discarded)
  <2> SUFFICES ASSUME IInv, SuccessIsComplete, phase \in {"enqueue", "wait", "finished"}
               PROVE  /\ invoked_commands <= Cardinality(rest)
                      /\ result \in {"SUCCESS", "NO_WORK_TO_DO"} =>
                           invoked_commands = Cardinality(rest)
    BY DEF ProgressCountIsRight
  <2>1. invoked_commands = Cardinality(Started \ in.phony)
    BY DEF IInv, CountersOK
  <2>2. Started \ in.phony \subseteq rest /\ rest \in SUBSET Step
    BY DEF IInv, Partition, TypeOK, Started, Released, Done
  <2>3. invoked_commands <= Cardinality(rest)
    BY <2>1, <2>2, StepSetSubset
  <2>4. ASSUME result \in {"SUCCESS", "NO_WORK_TO_DO"}
        PROVE  Started \ in.phony = rest
    <3>1. should_build = Done /\ Released = Done
      BY <2>4 DEF SuccessIsComplete, IInv, PhaseOK
    <3> QED
      BY <2>2, <3>1 DEF Started, Done
  <2> QED
    BY <2>1, <2>3, <2>4
<1> QED
  BY <1>1, Inductive, SuccessCorrect, PTL

(***************************************************************************)
(* A step is started at most once, and never after too many failures.      *)
(***************************************************************************)
THEOREM StartedOnceCorrect == Spec => StartedOnce
<1> DEFINE A == \A s \in running' \ running : s \notin Done \cup failed /\ remaining_failures # 0
<1>1. IInv /\ [Next]_vars => [A]_vars
  <2> SUFFICES ASSUME IInv, Next, NEW s \in running' \ running
               PROVE  s \notin Done \cup failed /\ remaining_failures # 0
    OBVIOUS
  <2>1. PICK t \in Step : InvokeCommand(t) /\ s \in running \cup {t}
    BY DEF Next, Work, Construct, DiscardStep, DiscardEnd, BypassCommand, InvokeCommand,
         EnqueueEnd, StopEnqueueing, CommandDone, Finish, Interrupt, Throw, Return, Returns
  <2>2. s \in ready_steps /\ remaining_failures # 0
    BY <2>1 DEF InvokeCommand
  <2> QED
    BY <2>2 DEF IInv, Partition
<1> QED
  BY <1>1, Inductive, PTL DEF Spec, StartedOnce
=============================================================================
