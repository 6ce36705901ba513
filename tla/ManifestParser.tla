--------------------------- MODULE ManifestParser ---------------------------
\* How shk reads build.ninja and the files that it includes
\* (src/shk/src/manifest/raw_manifest.cpp, eval_env.cpp, eval_string.cpp).
\*
\* A file is a sequence of statements, as the lexer delivers them. A string is a
\* sequence of words, and so is a path; an EvalString is a sequence of tokens
\* <<"raw", word>> and <<"var", name>>. parseManifest computes the RawManifest
\* that a set of files denotes, or the way in which it fails.
EXTENDS Integers, Sequences, SequencesExt

NoEnv == 0
RootEnv == 1

\* EvalString::evaluate.
evaluate(string, Lookup(_)) ==
    FoldLeft(LAMBDA text, token :
                text \o IF token[1] = "raw" THEN <<token[2]>> ELSE Lookup(token[2]),
             <<>>, string)

\* A BindingEnv.
NewEnv(parent) == [bindings |-> << >>, rules |-> << >>, parent |-> parent]

Bound(table, key, value) ==
    [k \in DOMAIN table \cup {key} |-> IF k = key THEN value ELSE table[k]]

RECURSIVE lookupVariable(_, _, _)
lookupVariable(envs, e, var) ==
    IF e = NoEnv THEN <<>>
    ELSE IF var \in DOMAIN envs[e].bindings THEN envs[e].bindings[var]
    ELSE lookupVariable(envs, envs[e].parent, var)

\* The rule of that name in the scope or the nearest enclosing one, in a set.
RECURSIVE lookupRule(_, _, _)
lookupRule(envs, e, name) ==
    IF e = NoEnv THEN {}
    ELSE IF name \in DOMAIN envs[e].rules THEN {envs[e].rules[name]}
    ELSE lookupRule(envs, envs[e].parent, name)

\* StepEnv::lookupVariable and StepEnvWithoutInAndOut::lookupVariable, one object
\* of which serves the lookup of one variable and those that it leads to. The
\* step has the fields envs, env, rule and special ($in and $out); the object is
\* the record [text, lookups, recursive, cycle], to whose text the value is
\* appended. No name is ever taken out of _lookups.
RECURSIVE StepLookup(_, _, _)
StepLookup(step, object, var) ==
    LET bound == var \in DOMAIN step.rule
        entered == [object EXCEPT
            !.recursive = TRUE,
            !.lookups = IF object.recursive /\ bound THEN @ \cup {var} ELSE @]
        WithText(text) == [entered EXCEPT !.text = @ \o text]
        Token(o, token) == IF token[1] = "raw"
                           THEN [o EXCEPT !.text = Append(@, token[2])]
                           ELSE StepLookup(step, o, token[2])
    IN  IF object.cycle THEN object
        ELSE IF var \in DOMAIN step.special
             THEN [object EXCEPT !.text = @ \o step.special[var]]
        ELSE IF object.recursive /\ var \in object.lookups
             THEN [object EXCEPT !.cycle = TRUE]
        ELSE IF var \in DOMAIN step.envs[step.env].bindings
             THEN WithText(step.envs[step.env].bindings[var])
        ELSE IF bound THEN FoldLeft(Token, entered, step.rule[var])
        ELSE WithText(lookupVariable(step.envs, step.envs[step.env].parent, var))

getBinding(step, var) ==
    StepLookup(step, [text |-> <<>>, lookups |-> {}, recursive |-> FALSE,
                      cycle |-> FALSE], var)
-----------------------------------------------------------------------------
\* The state of a parse: the scopes, what has been parsed, and "ok" or the way in
\* which the parse has failed, which ends it.
InitialParse ==
    [envs     |-> <<[NewEnv(NoEnv) EXCEPT !.rules = "phony" :> << >>]>>,
     steps    |-> <<>>,
     defaults |-> <<>>,
     pools    |-> "console" :> 1,
     files    |-> <<>>,
     outcome  |-> "ok"]

Fails(parse) == [parse EXCEPT !.outcome = "ParseError"]

\* checkNinjaVersion: of a version it only matters whether it is beyond shk's.
checkNinjaVersion(version) == version # <<"newer">>

parseLet(parse, e, s) ==
    LET Lookup(var) == lookupVariable(parse.envs, e, var)
        value == evaluate(s.value, Lookup)
    IN  IF s.name = "ninja_required_version" /\ ~ checkNinjaVersion(value)
        THEN [parse EXCEPT !.outcome = "fatal"]
        ELSE [parse EXCEPT !.envs[e].bindings = Bound(@, s.name, value)]

parsePool(parse, s) ==
    IF s.name \in DOMAIN parse.pools \/ s.depth < 0 THEN Fails(parse)
    ELSE [parse EXCEPT !.pools = Bound(@, s.name, s.depth)]

ReservedBindings == {"command", "depfile", "description", "deps", "generator",
                     "pool", "restat", "rspfile", "rspfile_content",
                     "msvc_deps_prefix"}

\* The comparisons with rule.bindings[...] leave empty bindings behind for the
\* keys that the rule does not have.
parseRule(parse, e, s) ==
    LET Binding(key) == IF key \in DOMAIN s.bindings THEN s.bindings[key] ELSE <<>>
    IN  IF \/ s.name \in DOMAIN parse.envs[e].rules
           \/ ~ DOMAIN s.bindings \subseteq ReservedBindings
           \/ (Binding("rspfile") = <<>>) # (Binding("rspfile_content") = <<>>)
           \/ Binding("command") = <<>>
        THEN Fails(parse)
        ELSE [parse EXCEPT !.envs[e].rules = Bound(@, s.name,
                [key \in DOMAIN s.bindings \cup {"rspfile", "rspfile_content"} |->
                    Binding(key)])]

StepPaths(step) ==
    Range(step.inputs) \cup Range(step.implicit_inputs)
        \cup Range(step.dependencies) \cup Range(step.outputs)

\* The end of parseStep: the checks of what was evaluated.
addStep(parse, envs, step, pool) ==
    IF <<>> \in StepPaths(step) THEN Fails(parse)
    ELSE IF pool.cycle THEN [parse EXCEPT !.outcome = "fatal"]
    ELSE IF pool.text # <<>> /\ ~ \E n \in DOMAIN parse.pools : pool.text = <<n>>
         THEN Fails(parse)
    ELSE [parse EXCEPT !.envs = envs,
                       !.steps = Append(@, [step EXCEPT !.pool_name = pool.text])]

\* The scope of a build statement is its file's, unless it has bindings.
parseStep(parse, e, s) ==
    LET rules == lookupRule(parse.envs, e, s.rule)
        FileLookup(var) == lookupVariable(parse.envs, e, var)
        own == FoldLeft(LAMBDA table, b : Bound(table, b[1], evaluate(b[2], FileLookup)),
                        << >>, s.bindings)
        envs == IF s.bindings = <<>> THEN parse.envs
                ELSE Append(parse.envs, [NewEnv(e) EXCEPT !.bindings = own])
        env == IF s.bindings = <<>> THEN e ELSE Len(envs)
        Lookup(var) == lookupVariable(envs, env, var)
        Evaluated(strings) == [i \in DOMAIN strings |-> evaluate(strings[i], Lookup)]
        rule == CHOOSE r \in rules : TRUE
        pool == getBinding([envs |-> envs, env |-> env, rule |-> rule,
                            special |-> << >>],
                           "pool")
        step == [inputs |-> Evaluated(s.ins), implicit_inputs |-> Evaluated(s.implicit),
                 dependencies |-> Evaluated(s.orderOnly), outputs |-> Evaluated(s.outs),
                 pool_name |-> <<>>, env |-> env, rule |-> rule]
    IN  IF s.outs = <<>> \/ rules = {} THEN Fails(parse)
        ELSE addStep(parse, envs, step, pool)

parseDefault(parse, e, s) ==
    LET Lookup(var) == lookupVariable(parse.envs, e, var)
        paths == [i \in DOMAIN s.paths |-> evaluate(s.paths[i], Lookup)]
    IN  IF paths = <<>> \/ <<>> \in Range(paths) THEN Fails(parse)
        ELSE [parse EXCEPT !.defaults = @ \o paths]

\* ManifestParser::load and parse. An included file shares the scope of the file
\* that includes it; a subninja gets a scope of its own.
RECURSIVE load(_, _, _, _)
load(files, parse, e, name) ==
    LET parseFileInclude(p, s) ==
            IF s.token = "INCLUDE" THEN load(files, p, e, s.file)
            ELSE load(files, [p EXCEPT !.envs = Append(@, NewEnv(e))],
                      Len(p.envs) + 1, s.file)
        Statement(p, s) ==
            CASE p.outcome # "ok" -> p
              [] OTHER ->
            CASE s.token = "IDENT" -> parseLet(p, e, s)
              [] s.token = "POOL" -> parsePool(p, s)
              [] s.token = "RULE" -> parseRule(p, e, s)
              [] s.token = "BUILD" -> parseStep(p, e, s)
              [] s.token = "DEFAULT" -> parseDefault(p, e, s)
              [] s.token \in {"INCLUDE", "SUBNINJA"} -> parseFileInclude(p, s)
              [] s.token = "ERROR" -> Fails(p)
    IN  IF name \notin DOMAIN files THEN Fails(parse)
        ELSE FoldLeft(Statement, [parse EXCEPT !.files = Append(@, name)], files[name])

\* The bindings of a rule are evaluated when every file has been read.
postprocessSteps(parse) ==
    LET Context(step) == [envs |-> parse.envs, env |-> step.env, rule |-> step.rule,
            special |-> [v \in {"in", "in_newline", "out"} |->
                IF v = "out" THEN FlattenSeq(step.outputs) ELSE FlattenSeq(step.inputs)]]
        Get(step, key) == getBinding(Context(step), key)
        Evaluated(step) ==
            [inputs |-> step.inputs, implicit_inputs |-> step.implicit_inputs,
             dependencies |-> step.dependencies, outputs |-> step.outputs,
             pool_name |-> step.pool_name,
             command |-> Get(step, "command").text,
             generator |-> Get(step, "generator").text # <<>>,
             depfile |-> Get(step, "depfile").text,
             rspfile |-> Get(step, "rspfile").text,
             rspfile_content |-> Get(step, "rspfile_content").text]
        fatal == \E i \in DOMAIN parse.steps :
            \E key \in {"command", "description", "generator", "depfile", "rspfile",
                        "rspfile_content"} : Get(parse.steps[i], key).cycle
    IN  [outcome  |-> IF fatal THEN "fatal" ELSE "ok",
         steps    |-> [i \in DOMAIN parse.steps |-> Evaluated(parse.steps[i])],
         defaults |-> parse.defaults, pools |-> parse.pools,
         build_dir |-> lookupVariable(parse.envs, RootEnv, "builddir"),
         files    |-> parse.files]

Finished(parse) ==
    IF parse.outcome = "ok" THEN postprocessSteps(parse) ELSE [outcome |-> parse.outcome]

parseManifest(files, path) == Finished(load(files, InitialParse, RootEnv, path))
=============================================================================
