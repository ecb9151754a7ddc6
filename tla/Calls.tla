--------------------------------- MODULE Calls ---------------------------------
(***************************************************************************)
(* What the parts of a notification have in common in ProcessorCommand.    *)
(***************************************************************************)
EXTENDS Naturals, Sequences

CONSTANTS
  Call,   \* calls of ICertExit::Notify, a thread of certsrv.exe each
  NoCall

ASSUME CallAssumption == NoCall \notin Call
=============================================================================
