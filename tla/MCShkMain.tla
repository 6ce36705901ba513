------------------------------ MODULE MCShkMain ------------------------------
\* Build directories for ShkMain: many manifests that one process reads once, and
\* a few in which processes, a generator and an editor get in each other's way.
EXTENDS ShkMain

CONSTANTS p1, p2, i1, i2, i3

Raw(w) == <<"raw", w>>
Var(n) == <<"var", n>>
Let(name, value) == [token |-> "IDENT", name |-> name, value |-> value]
Rule(name, bindings) == [token |-> "RULE", name |-> name, bindings |-> bindings]
Build(outs, rule, ins, implicit, orderOnly, bindings) ==
    [token |-> "BUILD", outs |-> outs, rule |-> rule, ins |-> ins, implicit |-> implicit,
     orderOnly |-> orderOnly, bindings |-> bindings]
Command(string) == "command" :> string
Generator(string) == Command(string) @@ ("generator" :> <<Raw("1")>>)

LoadOnly == [input |-> "build.ninja", tool |-> "load", dry |-> FALSE]
LogOnly == [LoadOnly EXCEPT !.tool = "log"]
DryRun == [LoadOnly EXCEPT !.tool = "none", !.dry = TRUE]
Normal == [LoadOnly EXCEPT !.tool = "none"]

\* One process reads the manifest in peace.
Quiet(files) ==
    [files |-> files, edits |-> << >>, removes |-> FALSE, maxEdits |-> 0, generates |-> << >>,
     lazy |-> FALSE, options |-> {LoadOnly}, caches |-> {"absent"},
     processes |-> {p1}, starts |-> 1, maxTime |-> 1, faults |-> FALSE]
-----------------------------------------------------------------------------
\* Every order of a few statements that assign, read and shadow variables, in
\* which rules and scopes meet.
Statements ==
    {Let("x", <<Raw("1")>>), Let("y", <<Var("x"), Raw("y")>>),
     Rule("r", Command(<<Var("x"), Var("y"), Var("in")>>)),
     Build(<< <<Var("x"), Raw("a")>> >>, "r", << <<Raw("i"), Var("y")>> >>, <<>>, <<>>, <<>>),
     Build(<< <<Raw("b")>> >>, "r", << <<Raw("a")>> >>, <<>>, << <<Var("x"), Raw("a")>> >>,
           << <<"x", <<Var("y"), Raw("2")>> >>, <<"y", <<Var("x")>> >> >>),
     [token |-> "SUBNINJA", file |-> "sub.ninja"],
     [token |-> "INCLUDE", file |-> "sub.ninja"]}

SubBuild == Build(<< <<Raw("c"), Var("x")>> >>, "r", <<>>, << <<Raw("b")>> >>, <<>>, <<>>)
Subs ==
    {<<SubBuild>>,
     <<Let("x", <<Raw("3")>>), SubBuild>>,
     <<Rule("r", Command(<<Raw("s"), Var("y")>>)), Let("y", <<Var("x")>>), SubBuild>>}

ScopeProjects ==
    {Quiet(("build.ninja" :> main) @@ ("sub.ninja" :> sub)) :
        main \in SeqOf(Statements, 4), sub \in Subs}

\* Every graph of three steps, of which the last may need itself, that are commands, generators or aliases.
Rules == <<Rule("cc", Command(<<Raw("cc")>>)), Rule("gen", Generator(<<Raw("gen")>>))>>
Some(set, p) == IF p \in set THEN << <<Raw(p)>> >> ELSE <<>>
Step(out, kind, needs) ==
    Build(<< <<Raw(out)>> >>, kind, Some(needs, "a"), Some(needs, "b"), Some(needs, "c"), <<>>)
Kinds == {"cc", "gen", "phony"}

GraphProjects ==
    {Quiet("build.ninja" :> Rules \o <<Step("a", k[1], n[1]), Step("b", k[2], n[2]),
                                       Step("c", k[3], n[3])>>) :
        k \in [1..3 -> Kinds],
        n \in (SUBSET {"b", "c"}) \X (SUBSET {"a", "c"}) \X (SUBSET {"a", "b", "c"})}

\* Mistakes that are found elsewhere.
MistakenProjects ==
    {Quiet("build.ninja" :> Rules \o statements) : statements \in {
        <<Step("a", "cc", {}), Step("a", "cc", {"b"})>>,
        <<Let("ninja_required_version", <<Raw("newer")>>), [token |-> "ERROR"]>>,
        <<Let("ninja_required_version", <<Raw("1")>>), Step("a", "cc", {})>>,
        <<Step("a", "cc", {}), [token |-> "DEFAULT", paths |-> << <<Raw("b")>> >>]>>,
        <<Step("a", "cc", {}), [token |-> "DEFAULT", paths |-> << <<Raw("a")>> >>]>>,
        <<Rule("r", Generator(<<Raw("g")>>) @@ ("depfile" :> <<Raw("d")>>)),
          Step("a", "r", {})>>,
        <<Rule("r", ("command" :> <<Var("depfile")>>) @@ ("depfile" :> <<Var("command")>>)),
          Step("a", "r", {})>>,
        <<[token |-> "POOL", name |-> "console", depth |-> 1]>>,
        <<[token |-> "POOL", name |-> "p", depth |-> 1],
          Build(<< <<Raw("a")>> >>, "cc", <<>>, <<>>, <<>>, << <<"pool", <<Raw("p")>> >> >>)>>,
        <<Build(<< <<Raw("a")>> >>, "cc", <<>>, <<>>, <<>>, << <<"pool", <<Raw("q")>> >> >>)>> }}
-----------------------------------------------------------------------------
\* A manifest that a generator makes of a source. The number of the source turns
\* up in what it builds.
Making(n) ==
    Rules \o <<Build(<< <<Raw("build.ninja")>> >>, "gen", << <<Raw("source")>> >>, <<>>, <<>>, <<>>),
               Step(n, "cc", {})>>

Regenerated ==
    [Quiet(("build.ninja" :> Making("1")) @@ ("source" :> <<1>>)) EXCEPT
        !.edits = "source" :> {<<1>>, <<2>>}, !.maxEdits = 1,
        !.generates = (<<1>> :> Making("1")) @@ (<<2>> :> Making("2")),
        !.options = {Normal}, !.maxTime = 2]

\* A source that changes under two processes, under one that is killed, or in
\* several seconds; and a generator that does nothing.
RegenerationProjects ==
    {[Regenerated EXCEPT !.processes = Processes, !.starts = 2],
     [Regenerated EXCEPT !.starts = 2, !.faults = TRUE],
     [Regenerated EXCEPT !.starts = 2, !.maxTime = 3, !.maxEdits = 2],
     [Regenerated EXCEPT !.lazy = TRUE, !.removes = TRUE,
                         !.options = {Normal, DryRun}]}

\* A manifest and a file it includes change, vanish or break between processes of
\* every kind.
Including == Rules \o <<[token |-> "INCLUDE", file |-> "sub.ninja"], Step("a", "cc", {"b"})>>
Edited ==
    [Quiet(("build.ninja" :> Including) @@ ("sub.ninja" :> <<Step("b", "cc", {})>>)) EXCEPT
        !.edits = ("build.ninja" :> {Rules \o <<Step("a", "phony", {})>>})
                    @@ ("sub.ninja" :> {<<Step("b", "phony", {})>>, <<[token |-> "ERROR"]>>}),
        !.maxEdits = 1, !.starts = 2, !.maxTime = 2]

EditingProjects ==
    {[Edited EXCEPT !.removes = TRUE, !.caches = {"absent", "old"}, !.maxEdits = 2,
                    !.options = {LogOnly, Normal}],
     [Edited EXCEPT !.processes = Processes]}

\* Processes that come and go while others have opened the lock file.
LockingProjects ==
    {[Edited EXCEPT !.processes = Processes, !.options = {LogOnly}, !.maxEdits = 0,
                    !.starts = 4, !.maxTime = 1, !.faults = TRUE]}

MCProjects == ScopeProjects \cup GraphProjects \cup MistakenProjects
                \cup RegenerationProjects \cup EditingProjects \cup LockingProjects
=============================================================================
