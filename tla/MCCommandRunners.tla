-------------------------- MODULE MCCommandRunners --------------------------
(***************************************************************************)
(* CommandRunners with six steps and two pools: steps 1 to 3 share pool    *)
(* "link", step 4 is in the console pool, and steps 5 and 6 in no pool.    *)
(***************************************************************************)
EXTENDS CommandRunners

MCStep == 1..6

MCPool == {"link", "console"}
MCNoPool == ""
MCPoolDepth == [p \in MCPool |-> IF p = "link" THEN 2 ELSE 1]
MCPoolName ==
  [s \in MCStep |-> CASE s \in 1..3 -> "link" [] s = 4 -> "console" [] OTHER -> ""]

Input(d, c) ==
  [deps |-> d, ignored |-> [s \in MCStep |-> {}], unknown |-> {}, phony |-> {},
   clean |-> c, targets |-> MCStep]

Flat == [s \in MCStep |-> {}]
Diamond == [s \in MCStep |-> CASE s = 2 -> {1, 3} [] s = 5 -> {6} [] OTHER -> {}]
Late == [s \in MCStep |-> CASE s \in {2, 3} -> {6} [] s = 4 -> {1} [] OTHER -> {}]

MCScenario == {Input(Flat, {}), Input(Diamond, {2}), Input(Late, {3})}
=============================================================================
