--------------------------- MODULE MCSubprocesses ---------------------------
(* Subprocesses with three commands of several programs. *)
EXTENDS Subprocesses, TLC

CONSTANTS c1, c2, c3

Runs(chunks, habits) ==
  [console |-> FALSE, chunks |-> chunks, exit |-> "success", habits |-> habits]
Fails(chunks, habits) == [Runs(chunks, habits) EXCEPT !.exit = "failure"]
InConsole(habits) == [Runs(0, habits) EXCEPT !.console = TRUE]

MCBuilds ==
  { c1 :> Runs(2, {"leaves"}) @@ c2 :> Fails(0, {"early", "throws"}) @@ c3 :> InConsole({}),
    c1 :> Runs(0, {"stubborn"}) @@ c2 :> Runs(1, {"endless", "leaves"}) @@ c3 :> Fails(0, {}),
    c1 :> Runs(0, {"endless", "early"}) @@ c2 :> InConsole({"endless"}) @@ c3 :> Runs(0, {"throws"}),
    c1 :> Runs(0, {"endless", "stubborn"}) @@ c2 :> Runs(1, {"endless"}) @@ c3 :> InConsole({}) }
=============================================================================
