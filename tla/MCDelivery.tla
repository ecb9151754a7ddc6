----------------------------- MODULE MCDelivery -----------------------------
(***************************************************************************)
(* Small instances for the promise: refinement and return, and the         *)
(* inductive invariant of the proofs.                                      *)
(***************************************************************************)
EXTENDS DeliveryRefinement

(* Every failure but the two that break the promise of a certificate.       *)
HandledFaults == FaultKinds \ {"shortwrite", "badalloc"}
=============================================================================
