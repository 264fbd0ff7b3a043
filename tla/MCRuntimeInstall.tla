--------------------------- MODULE MCRuntimeInstall ---------------------------
(***************************************************************************)
(* Two runtimes that share a file, and two commands: they may need the     *)
(* same runtime, or download the same digest for different ones, and other *)
(* content beside it.                                                      *)
(***************************************************************************)
EXTENDS RuntimeInstall, TLC

CONSTANTS f1, f2, r1, r2, w1, w2

MCPlan == r1 :> {f1} @@ r2 :> {f1}
Symmetry == Permutations(Workers)
=============================================================================
