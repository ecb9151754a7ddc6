-------------------------- MODULE MCMessagesSetup ---------------------------
(***************************************************************************)
(* Small instances of MessagesSetup.                                       *)
(***************************************************************************)
EXTENDS MessagesSetup, TLC

Symmetry == Permutations(Setup)
=============================================================================
