--------------------------- MODULE MCIncremental ---------------------------
(***************************************************************************)
(* IncrementalBuild on a small project:                                    *)
(*   gen    reads src and cfg, writes a, which only depends on src         *)
(*   gen2   what gen becomes when its command line is edited               *)
(*   hdrs   a phony name for a                                             *)
(*   comp   declares hdrs, reads a and, if a is 1, also cfg; writes b      *)
(*   link   declares a and b but only reads b; writes c                    *)
(*   show   in the console pool, declares c                                *)
(***************************************************************************)
EXTENDS IncrementalBuild

MCStep == 1..5
MCDef == {"gen", "gen2", "hdrs", "comp", "link", "show"}
MCFile == {"src", "cfg", "a", "b", "c"}
MCValue == {"0", "1"}

MCInputs == [h \in MCDef |->
  CASE h \in {"gen", "gen2"} -> {"src"}
    [] h = "hdrs" -> {"a"}
    [] h = "comp" -> {"hdrs"}
    [] h = "link" -> {"a", "b"}
    [] h = "show" -> {"c"}]
MCOutputs == [h \in MCDef |->
  CASE h \in {"gen", "gen2"} -> {"a"}
    [] h = "hdrs" -> {"hdrs"}
    [] h = "comp" -> {"b"}
    [] h = "link" -> {"c"}
    [] h = "show" -> {"t"}]

MCReads(h, f) ==
  CASE h = "gen" -> {"src", "cfg"}
    [] h = "gen2" -> {"cfg"}
    [] h = "comp" -> IF f["a"] = "1" THEN {"a", "cfg"} ELSE {"a"}
    [] h = "link" -> {"b"}
    [] OTHER -> {}
MCWrites(h, f) == IF h \in {"hdrs", "show"} THEN {} ELSE MCOutputs[h]

Flip(v) == IF v = "1" THEN "0" ELSE "1"
MCCompute(h, x, f) ==
  CASE h = "gen" -> IF f["src"] = "1" THEN "1" ELSE "0"
    [] h = "gen2" -> "1"
    [] h = "comp" -> IF f["a"] = "1" /\ f["cfg"] = "1" THEN "1" ELSE "0"
    [] h = "link" -> Flip(f["b"])
    [] OTHER -> Missing

MCManifests == {<<"gen", "hdrs", "comp", "link", "show">>,
                <<"gen2", "hdrs", "comp", "link">>}
MCTargetSets == {{"show", "link"}, {"comp"}}
MCEdits == ({"src", "cfg"} \X MCValue) \cup {<<"a", Missing>>}
MCScenario == ScenarioType

\* The theorems of IncrementalProofs are about this project too.
ASSUME ProjectOK
=============================================================================
