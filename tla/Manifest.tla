------------------------------ MODULE Manifest ------------------------------
\* The compilation of a RawManifest into the graph that build() works on, and the
\* choice of targets (src/shk/src/manifest/compiled_manifest.cpp and
\* src/shk/src/build.cpp).
\*
\* compile() either returns a manifest, returns an error, or lets a BuildError
\* escape to its caller.
EXTENDS ManifestParser

NoStep == 0

\* The steps that have the path among their outputs.
Generating(steps, path) == {i \in DOMAIN steps : path \in Range(steps[i].outputs)}

Outputs(steps) == UNION {Range(steps[i].outputs) : i \in DOMAIN steps}

\* "Multiple rules generate".
OutputsClash(steps) ==
    \E path \in Outputs(steps), i, j \in DOMAIN steps :
        i # j /\ {i, j} \subseteq Generating(steps, path)

computeOutputPathMap(steps) ==
    [path \in Outputs(steps) |-> CHOOSE i \in Generating(steps, path) : TRUE]

\* Of the steps that have a path as an input the map keeps the first.
computeInputPathMap(steps) ==
    LET Inputs(i) == Range(steps[i].inputs) \cup Range(steps[i].implicit_inputs)
                        \cup Range(steps[i].dependencies)
        Using(path) == {i \in DOMAIN steps : path \in Inputs(i)}
    IN  [path \in UNION {Inputs(i) : i \in DOMAIN steps} |->
            CHOOSE i \in Using(path) : \A j \in Using(path) : i <= j]

\* The steps that generate the paths.
StepsOf(outputs, paths) == {outputs[path] : path \in Range(paths) \cap DOMAIN outputs}

convertRawStep(outputs, raw) ==
    [dependencies |-> StepsOf(outputs, raw.inputs \o raw.implicit_inputs
                                        \o raw.dependencies),
     order_only_dependencies |-> StepsOf(outputs, raw.dependencies),
     direct_inputs |-> Range(raw.inputs \o raw.implicit_inputs) \ DOMAIN outputs,
     pool_name |-> raw.pool_name,
     phony |-> raw.command = <<>>,
     generator |-> raw.generator,
     generator_inputs |-> IF raw.generator THEN raw.inputs \o raw.implicit_inputs
                          ELSE <<>>,
     generator_outputs |-> IF raw.generator THEN raw.outputs ELSE <<>>,
     hash |-> <<raw.inputs, raw.implicit_inputs, raw.dependencies, raw.outputs,
                IF raw.generator THEN <<>> ELSE raw.command, raw.rspfile,
                raw.rspfile_content>>]

\* Steps that no step depends on.
Roots(steps) ==
    {i \in DOMAIN steps : \A j \in DOMAIN steps : i \notin steps[j].dependencies}
-----------------------------------------------------------------------------
\* hasDependencyCycle for step i. The search is the record [current, visited,
\* path, found]: the steps on the way to i, those ever visited, the paths that led
\* there, and whether a step was met on the way to itself. Once that happens
\* nothing changes any more.
RECURSIVE hasDependencyCycle(_, _, _, _)
hasDependencyCycle(outputs, steps, search, i) ==
    LET entered == [search EXCEPT !.current = @ \cup {i}, !.visited = @ \cup {i}]
        Follow(s, path) ==
            IF s.found \/ path \notin DOMAIN outputs THEN s
            ELSE LET below == hasDependencyCycle(outputs, steps,
                                 [s EXCEPT !.path = Append(@, path)], outputs[path])
                 IN  IF below.found THEN below ELSE [below EXCEPT !.path = s.path]
        left == FoldLeft(Follow, entered, steps[i].inputs \o steps[i].implicit_inputs
                                            \o steps[i].dependencies)
    IN  IF i \in search.current THEN [search EXCEPT !.found = TRUE]
        ELSE IF i \in search.visited THEN search
        ELSE [left EXCEPT !.current = @ \ {i}]

getDependencyCycle(outputs, steps) ==
    FoldLeft(LAMBDA search, i : IF search.found THEN search
                                ELSE hasDependencyCycle(outputs, steps, search, i),
             [current |-> {}, visited |-> {}, path |-> <<>>, found |-> FALSE],
             [i \in DOMAIN steps |-> i])

\* searchStepDependenciesHelper: the search is the record [visited, result], where
\* the result of a step is a step of the wanted ones that it is or depends on, or
\* NoStep.
RECURSIVE searchStepDependenciesHelper(_, _, _, _)

\* Mutant: the last dependency decides.
SearchedLast(steps, wanted, search, i) ==
    LET entered == [search EXCEPT !.visited = @ \cup {i}]
        Try(s, d) ==
            LET below == searchStepDependenciesHelper(steps, wanted, s, d)
            IN  [below EXCEPT !.result[i] = below.result[d]]
    IN  IF i \in search.visited THEN search
        ELSE IF i \in wanted THEN [entered EXCEPT !.result[i] = i]
        ELSE FoldLeft(Try, entered, SetToSortSeq(steps[i].dependencies, <))

searchStepDependenciesHelper(steps, wanted, search, i) ==
    LET entered == [search EXCEPT !.visited = @ \cup {i}]
        Try(s, d) ==
            IF s.result[i] # NoStep THEN s
            ELSE LET below == searchStepDependenciesHelper(steps, wanted, s, d)
                 IN  [below EXCEPT !.result[i] = below.result[d]]
    IN  IF i \in search.visited THEN search
        ELSE IF i \in wanted THEN [entered EXCEPT !.result[i] = i]
        ELSE FoldLeft(Try, entered, SetToSortSeq(steps[i].dependencies, <))

searchStepDependencies(steps, wanted) ==
    FoldLeft(LAMBDA search, i : searchStepDependenciesHelper(steps, wanted, search, i),
             [visited |-> {}, result |-> [i \in DOMAIN steps |-> NoStep]],
             [i \in DOMAIN steps |-> i]).result

getBadGeneratorDependency(steps) ==
    LET commands == {i \in DOMAIN steps : ~ steps[i].phony}
        generators == {i \in commands : steps[i].generator}
        toGenerator == searchStepDependencies(steps, generators)
        toNormal == searchStepDependencies(steps, commands \ generators)
    IN  \E i \in commands :
            (IF steps[i].generator THEN toNormal ELSE toGenerator)[i] # NoStep
-----------------------------------------------------------------------------
getManifestStep(outputs, path) ==
    IF path \in DOMAIN outputs THEN outputs[path] ELSE NoStep

\* CompiledManifest::compile: clashing outputs or an unknown default throw, other
\* mistakes are returned as errors.
compile(raw, manifestPath) ==
    LET outputs == computeOutputPathMap(raw.steps)
        steps == [i \in DOMAIN raw.steps |-> convertRawStep(outputs, raw.steps[i])]
        Fail(how) == [outcome |-> how]
    IN  IF OutputsClash(raw.steps) THEN Fail("thrown")
        ELSE IF \E i \in DOMAIN raw.steps :
                    raw.steps[i].generator /\ raw.steps[i].depfile # <<>>
             THEN Fail("error")
        ELSE IF ~ Range(raw.defaults) \subseteq DOMAIN outputs THEN Fail("thrown")
        ELSE IF \/ getDependencyCycle(outputs, raw.steps).found
                \/ getBadGeneratorDependency(steps)
             THEN Fail("error")
        ELSE [outcome |-> "ok",
              steps |-> steps,
              outputs |-> outputs,
              inputs |-> computeInputPathMap(raw.steps),
              defaults |-> [i \in DOMAIN raw.defaults |-> outputs[raw.defaults[i]]],
              roots |-> Roots(steps),
              pools |-> raw.pools,
              build_dir |-> raw.build_dir,
              manifest_step |-> getManifestStep(outputs, manifestPath),
              manifest_files |-> raw.files]

\* The checks of CompiledManifest::load on a buffer that holds a manifest.
IsLoadable(manifest) ==
    LET indices == DOMAIN manifest.steps
    IN  /\ Range(manifest.outputs) \cup Range(manifest.inputs) \subseteq indices
        /\ \A i \in indices : manifest.steps[i].dependencies \subseteq indices
        /\ Range(manifest.defaults) \cup manifest.roots \subseteq indices
        /\ \A pool \in DOMAIN manifest.pools : manifest.pools[pool] >= 0
        /\ manifest.manifest_step \in indices \cup {NoStep}

\* interpretPath: a target on the command line is an output, or with a trailing ^
\* an input of the step that is meant.
interpretPath(manifest, target) ==
    LET paths == IF target.input THEN manifest.inputs ELSE manifest.outputs
    IN  IF target.path \in DOMAIN paths THEN paths[target.path] ELSE NoStep

\* computeStepsToBuild.
computeStepsToBuild(manifest, specified) ==
    IF specified # <<>> THEN Range(specified)
    ELSE IF manifest.defaults # <<>> THEN Range(manifest.defaults)
    ELSE manifest.roots
=============================================================================
