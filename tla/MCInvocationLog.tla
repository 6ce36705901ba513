--------------------------- MODULE MCInvocationLog ---------------------------
(***************************************************************************)
(* Two steps, a file and a directory. The commands write a fingerprint for *)
(* the first time, write a changed one, use one again, and report a        *)
(* directory that a step created.                                          *)
(***************************************************************************)
EXTENDS LogRefinement, TLC

CONSTANTS a, d, f1, f2, h1, h2

File(p, fp) == [path |-> p, fp |-> fp]

MCHashes == {h1, h2}
MCPaths == {a, d}
MCDirectories == {d}

Symmetry == Permutations(MCHashes)

MCCommands ==
  { [outs |-> <<File(a, f1)>>, ins |-> <<>>, deps |-> 0],
    [outs |-> <<File(d, Directory)>>, ins |-> <<File(a, f2), File(d, Directory)>>, deps |-> 1] }

=============================================================================
