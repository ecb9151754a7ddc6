-------------------------- MODULE MCProcessorCommand --------------------------
(***************************************************************************)
(* A small instance of ProcessorCommand.  With two contexts the two calls  *)
(* overlap or use one number after the other; with three imports each of   *)
(* the values of a call may be of another one, and an import may be cut    *)
(* short by the next.                                                      *)
(***************************************************************************)
EXTENDS ProcessorCommand, TLC

Symmetry == Permutations(Call) \cup Permutations(Context)
=============================================================================
