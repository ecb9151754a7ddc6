--------------------------- MODULE MCPMICertExit ----------------------------
(***************************************************************************)
(* Small instances of PMICertExit.  Calls, names and process identifiers   *)
(* are model values; none of them is special, so their permutations are    *)
(* symmetries of the safety runs.                                          *)
(***************************************************************************)
EXTENDS PMICertExitInv, TLC

Symmetry ==
  Permutations(Call) \cup Permutations(TempName) \cup Permutations(Pid)

(* Nothing fails of itself.                                                 *)
NoFaults == {}

(* Failures that reach Notify with their entry in the log.                  *)
ReportedFaults ==
  {"server", "registry", "tempname", "write", "launch", "wait", "exitcode"}
=============================================================================
