------------------------- MODULE DeliveryRefinement -------------------------
(***************************************************************************)
(* PMICertExit implements CertDelivery: the mapping reads the promised     *)
(* state off the threads, the processes, the temp folder and the log.      *)
(***************************************************************************)
EXTENDS PMICertExitInv

StageOf(c) ==
  IF pc[c] = "idle" THEN "idle" ELSE IF Active(c) THEN "notified" ELSE "answered"

ProcessorOf(c) ==
  IF proc[c] # "exited" THEN proc[c]
  ELSE IF exitStatus[c] = 0 THEN "ok" ELSE "error"

ProblemMessage == EvidenceMessage \cup {"MSG_NOTIFY_FAILED"}

Logged(c, M) == \E i \in DOMAIN log : log[i].call = c /\ log[i].msg \in M

ToldOf(c) ==
  IF Logged(c, ProblemMessage) THEN "problem"
  ELSE IF Logged(c, {"MSG_PROCESS_SUCCEEDED"}) THEN "success" ELSE "nothing"

Delivery ==
  INSTANCE CertDelivery
    WITH stage     <- [c \in Call |-> StageOf(c)],
         processor <- [c \in Call |-> ProcessorOf(c)],
         available <- [c \in Call |-> CertAvailable(c)],
         told      <- [c \in Call |-> ToldOf(c)]

(* Every behavior of the exit module, its failures and crashes included, is *)
(* a behavior of CertDelivery, as long as ::WriteFile writes all it is      *)
(* asked to and no allocation throws.                                       *)
ImplementsDelivery == Delivery!Spec

-----------------------------------------------------------------------------
(* What the mapping needs to know of a call besides FileInv and OutcomeInv: *)
(* its file holds the certificate or nothing; nothing is told of it before  *)
(* RunProcess is about to return; and when the file is going to be deleted  *)
(* under a processor, that one has succeeded and no problem was reported.   *)
DeliveryPlace(c) ==
  /\ proc[c] = "none" => rawCertPath[c] = NoPath
  /\ strTempFile[c] # NoPath => disk[strTempFile[c]] \in {<<>>, RawCert(c)}
  /\ ToldOf(c) # "nothing" => pc[c] \in KeepLabel
  /\ (pc[c] = "unwind" /\ ~ FAILED(hr[c])) =>
       /\ proc[c] = "exited" /\ exitStatus[c] = dwExitCode[c]
       /\ dwExitCode[c] = 0 => ToldOf(c) # "problem"
  /\ (pc[c] = "dispose" /\ ~ m_fPreserve[c] /\ rawCertPath[c] # NoPath) =>
       ProcessorOf(c) = "ok" /\ ToldOf(c) # "problem"

DeliveryInv == \A c \in Call : DeliveryPlace(c)
=============================================================================
