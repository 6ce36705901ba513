---------------------------- MODULE ManifestRules ----------------------------
\* What build.ninja files mean, stated without scopes, searches or memos, for
\* comparison with what Manifest computes.
EXTENDS Manifest

\* The statements of a file and of those it includes, in the order in which they
\* are read, each with its scope: the places of the subninja statements around it.
RECURSIVE Reading(_, _, _)
Reading(files, name, scope) ==
    FlattenSeq([i \in DOMAIN files[name] |->
        LET s == files[name][i] IN
        CASE s.token = "INCLUDE" -> Reading(files, s.file, scope)
          [] s.token = "SUBNINJA" -> Reading(files, s.file, Append(scope, i))
          [] OTHER -> <<[statement |-> s, scope |-> scope]>>])

\* The value of a variable in a scope, as far as the statements before "limit"
\* give it one: that of the last assignment in the scope, or else in those around
\* it. An assignment sees the assignments before it.
RECURSIVE ValueAt(_, _, _, _)
ValueAt(reading, limit, scope, var) ==
    LET lets == {i \in 1..(limit - 1) :
                    /\ reading[i].statement.token = "IDENT"
                    /\ reading[i].statement.name = var
                    /\ reading[i].scope = scope}
        last == CHOOSE i \in lets : \A j \in lets : j <= i
        Earlier(v) == ValueAt(reading, last, scope, v)
    IN  IF lets # {} THEN evaluate(reading[last].statement.value, Earlier)
        ELSE IF scope = <<>> THEN <<>>
        ELSE ValueAt(reading, limit, Front(scope), var)

\* The bindings of the rule that a build statement in a scope names: those of the
\* nearest scope in which it has been defined by then.
RECURSIVE RuleAt(_, _, _, _)
RuleAt(reading, limit, scope, name) ==
    LET rules == {i \in 1..(limit - 1) :
                    /\ reading[i].statement.token = "RULE"
                    /\ reading[i].statement.name = name
                    /\ reading[i].scope = scope}
    IN  IF rules # {} THEN reading[CHOOSE i \in rules : TRUE].statement.bindings
        ELSE IF scope = <<>> THEN << >>
        ELSE RuleAt(reading, limit, Front(scope), name)

\* The inputs, outputs and command of the build statement at place i. Its own
\* bindings and its paths see what is assigned before it; the rule's bindings see
\* the step's, the rule's own and whatever its scope has in the end.
StepAt(reading, i) ==
    LET s == reading[i].statement
        Before(var) == ValueAt(reading, i, reading[i].scope, var)
        Finally(var) == ValueAt(reading, Len(reading) + 1, reading[i].scope, var)
        Own(var) == {j \in DOMAIN s.bindings : s.bindings[j][1] = var}
        OwnValue(var) == evaluate(s.bindings[Max(Own(var))][2], Before)
        PathVar(var) == IF Own(var) # {} THEN OwnValue(var) ELSE Before(var)
        Paths(strings) == [j \in DOMAIN strings |-> evaluate(strings[j], PathVar)]
        rule == RuleAt(reading, i, reading[i].scope, s.rule)
        Plain(var) == CASE var = "in" -> FlattenSeq(Paths(s.ins))
                        [] var = "out" -> FlattenSeq(Paths(s.outs))
                        [] Own(var) # {} -> OwnValue(var)
                        [] OTHER -> Finally(var)
        RuleVar(var) == IF Own(var) = {} /\ var \in DOMAIN rule
                        THEN evaluate(rule[var], Plain) ELSE Plain(var)
    IN  [ins |-> Paths(s.ins), implicit |-> Paths(s.implicit),
         orderOnly |-> Paths(s.orderOnly), outs |-> Paths(s.outs),
         command |-> IF "command" \in DOMAIN rule
                     THEN evaluate(rule["command"], RuleVar) ELSE <<>>,
         generator |-> "generator" \in DOMAIN rule]

\* The build statements that a manifest is made of.
Meaning(files, name) ==
    LET reading == Reading(files, name, <<>>)
        builds == SelectSeq([i \in DOMAIN reading |-> i],
                            LAMBDA i : reading[i].statement.token = "BUILD")
    IN  [k \in DOMAIN builds |-> StepAt(reading, builds[k])]

\* The steps that generate what step i needs.
Needs(meaning, i) ==
    {j \in DOMAIN meaning :
        Range(meaning[i].ins \o meaning[i].implicit \o meaning[i].orderOnly)
            \cap Range(meaning[j].outs) # {}}

\* A set of steps that has with each step also those that it needs.
Closed(meaning, set) == \A i \in set : Needs(meaning, i) \subseteq set

\* Step i needs step j, perhaps by way of others.
Reaches(meaning, i, j) ==
    \A set \in SUBSET DOMAIN meaning :
        Needs(meaning, i) \subseteq set /\ Closed(meaning, set) => j \in set

\* In every set of steps there is one that needs none of them.
IsAcyclic(meaning) ==
    \A set \in (SUBSET DOMAIN meaning) \ {{}} :
        \E i \in set : Needs(meaning, i) \cap set = {}

\* Generator steps and normal steps are islands (compiled_manifest.cpp:480
\* "keeping generator vs non-generator steps as separate islands").
AreIslands(meaning) ==
    LET commands == {i \in DOMAIN meaning : meaning[i].command # <<>>}
    IN  \A i, j \in commands :
            Reaches(meaning, i, j) => meaning[i].generator = meaning[j].generator

OutputsAreUnique(meaning) ==
    \A i, j \in DOMAIN meaning :
        i # j => Range(meaning[i].outs) \cap Range(meaning[j].outs) = {}

\* Mistakes that the rules below are not about.
HasOtherMistakes(raw) ==
    \/ \E i \in DOMAIN raw.steps : raw.steps[i].generator /\ raw.steps[i].depfile # <<>>
    \/ ~ Range(raw.defaults) \subseteq Outputs(raw.steps)

\* The steps that a target on the command line can mean.
Meant(meaning, target) ==
    {i \in DOMAIN meaning :
        target.path \in Range(IF target.input
                              THEN meaning[i].ins \o meaning[i].implicit \o meaning[i].orderOnly
                              ELSE meaning[i].outs)}

\* A manifest is accepted exactly when its graph can be built. It is then that
\* graph, a target is found in it where there is one, and without targets all of
\* it is built.
CompilesTo(files, name, manifest) ==
    LET meaning == Meaning(files, name)
        accepted == manifest.outcome = "ok"
        paths == UNION {Range(meaning[i].ins \o meaning[i].implicit \o meaning[i].orderOnly
                                \o meaning[i].outs) : i \in DOMAIN meaning}
    IN  /\ accepted = ( /\ OutputsAreUnique(meaning)
                        /\ IsAcyclic(meaning)
                        /\ AreIslands(meaning) )
        /\ accepted =>
            /\ DOMAIN manifest.steps = DOMAIN meaning
            /\ \A i \in DOMAIN meaning :
                 /\ manifest.steps[i].dependencies = Needs(meaning, i)
                 /\ manifest.steps[i].phony = (meaning[i].command = <<>>)
                 /\ manifest.steps[i].generator \/ manifest.steps[i].phony
                        \/ manifest.steps[i].hash[5] = meaning[i].command
            /\ \A target \in [path : paths, input : BOOLEAN] :
                 LET steps == Meant(meaning, target)
                     found == interpretPath(manifest, target)
                 IN  IF steps = {} THEN found = NoStep ELSE found \in steps
            /\ manifest.defaults = <<>> =>
                 \A set \in SUBSET DOMAIN meaning :
                    computeStepsToBuild(manifest, <<>>) \subseteq set /\ Closed(meaning, set)
                        => set = DOMAIN meaning
=============================================================================
