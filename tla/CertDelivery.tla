---------------------------- MODULE CertDelivery ----------------------------
(***************************************************************************)
(* What the exit module promises about one issued certificate, without     *)
(* threads, files, handles or result codes: a processor is only ever       *)
(* started on an available certificate; the certificate is withdrawn only  *)
(* after that processor succeeded within the call, and never once anything *)
(* but success was reported; success is reported only of a processor that  *)
(* succeeded.                                                              *)
(***************************************************************************)
CONSTANT Call

VARIABLES
  stage,      \* of the notification: "idle", "notified" or "answered"
  processor,  \* "none", "running", "ok" or "error"
  available,  \* can the processor read the certificate?
  told        \* reported to the administrator: "nothing", "success", "problem"

dvars == <<stage, processor, available, told>>

Init ==
  /\ stage = [c \in Call |-> "idle"]
  /\ processor = [c \in Call |-> "none"]
  /\ available = [c \in Call |-> FALSE]
  /\ told = [c \in Call |-> "nothing"]

Announce(c) ==
  /\ stage[c] = "idle"
  /\ stage' = [stage EXCEPT ![c] = "notified"]
  /\ UNCHANGED <<processor, available, told>>

Offer(c) ==
  /\ stage[c] = "notified"
  /\ processor[c] = "none"
  /\ processor' = [processor EXCEPT ![c] = "running"]
  /\ available' = [available EXCEPT ![c] = TRUE]
  /\ UNCHANGED <<stage, told>>

Finish(c) ==
  /\ processor[c] = "running"
  /\ \E p \in {"ok", "error"} : processor' = [processor EXCEPT ![c] = p]
  /\ UNCHANGED <<stage, available, told>>

Tell(c) ==
  /\ stage[c] = "notified"
  /\ told[c] = "nothing"
  /\ \/ processor[c] = "ok" /\ told' = [told EXCEPT ![c] = "success"]
     \/ told' = [told EXCEPT ![c] = "problem"]
  /\ UNCHANGED <<stage, processor, available>>

Withdraw(c) ==
  /\ stage[c] = "notified"
  /\ processor[c] = "ok"
  /\ told[c] # "problem"
  /\ available' = [available EXCEPT ![c] = FALSE]
  /\ UNCHANGED <<stage, processor, told>>

(* The notification returns, with a last chance to report a problem.        *)
Answer(c) ==
  /\ stage[c] = "notified"
  /\ stage' = [stage EXCEPT ![c] = "answered"]
  /\ \/ told[c] = "nothing" /\ told' = [told EXCEPT ![c] = "problem"]
     \/ UNCHANGED told
  /\ UNCHANGED <<processor, available>>

(* The service dies with all its notifications.                             *)
Die ==
  /\ stage' = [c \in Call |->
                 IF stage[c] = "notified" THEN "answered" ELSE stage[c]]
  /\ UNCHANGED <<processor, available, told>>

Next ==
  \/ \E c \in Call :
       \/ Announce(c) \/ Offer(c) \/ Finish(c) \/ Tell(c) \/ Withdraw(c)
       \/ Answer(c)
  \/ Die

Spec == Init /\ [][Next]_dvars
=============================================================================
