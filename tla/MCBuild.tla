------------------------------ MODULE MCBuild ------------------------------
(***************************************************************************)
(* Build over every acyclic graph of four steps (dependencies point to     *)
(* smaller indices, which loses no graph up to renaming) and one cyclic    *)
(* graph, with the choices of log and file system state that the scheduler *)
(* tells apart.                                                            *)
(***************************************************************************)
EXTENDS Build

MCStep == 1..4

Dags == {d \in [MCStep -> SUBSET MCStep] : \A s \in MCStep : d[s] \subseteq 1..(s - 1)}

Cyclic == [s \in MCStep |-> IF s = 1 THEN {3} ELSE {s - 1}]

NoneIgnored == [s \in MCStep |-> {}]

MCScenario ==
  [deps : Dags,
   ignored : {NoneIgnored, [s \in MCStep |-> {1, 2}]},
   unknown : {{}, {4}},
   phony : {{}, {3}},
   clean : SUBSET {1, 2, 4},
   targets : {{4}}]
  \cup
  [deps : {Cyclic}, ignored : {NoneIgnored}, unknown : {{}}, phony : {{}},
   clean : {{}}, targets : {{3}}]
=============================================================================
