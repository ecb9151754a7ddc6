----------------------------- MODULE EventSource ----------------------------
(***************************************************************************)
(* CEventSource and CPMIExitModuleEventSource: the handle to the Windows   *)
(* Application Log and the six messages written through it.  An entry      *)
(* keeps the inserts that identify something: the process identifier, and  *)
(* the temp file when its path is in the text (as an insert or inside the  *)
(* command line).  The field call is not in the text: it is the            *)
(* notification the entry was written for.                                 *)
(***************************************************************************)
EXTENDS ExitModuleBase

VARIABLES
  hEventLog,  \* is the event source open?
  log         \* the Application Log, oldest entry first

eventVars == <<hEventLog, log>>

Message ==
  { "MSG_PROCESS_START_SUCCEEDED", "MSG_PROCESS_START_FAILED",
    "MSG_PROCESS_SUCCEEDED", "MSG_PROCESS_FAILED", "MSG_PROCESS_TIMEDOUT",
    "MSG_NOTIFY_FAILED" }

Entry == [msg : Message, call : Call, pid : Pid \cup {NoPid},
          file : TempName \cup {NoPath}]

EventSourceTypeOK ==
  /\ hEventLog \in BOOLEAN
  /\ log \in Seq(Entry)

EventSourceInit ==
  /\ hEventLog = FALSE
  /\ log = <<>>

(* CEventSource::Open: whatever was open is closed first.                   *)
EventSourceOpen(h) ==
  /\ \/ h = "S_OK" /\ hEventLog' = TRUE
     \/ h = "E_WIN32" /\ "eventsource" \in Faults /\ hEventLog' = FALSE
  /\ UNCHANGED log

EventSourceClose ==
  /\ hEventLog' = FALSE
  /\ UNCHANGED log

(* CErrorMessageEventArg::Format: the text of an error comes from the       *)
(* system's table; the numeric code alone would always be there.            *)
HasMessageText(t) == t \notin Undecodable

(* CEventSource::ReportEvent for the entry e, whose inserts contain the     *)
(* text of the error t when t is a failure.  The result is dropped by all   *)
(* the Report methods, so an entry that cannot be formatted or written is   *)
(* lost without a trace.                                                    *)
ReportEvent(e, t) ==
  /\ \/ /\ hEventLog
        /\ HasMessageText(t)
        /\ log' = Append(log, e)
     \/ /\ \/ ~ hEventLog
           \/ ~ HasMessageText(t)
           \/ "oom" \in Faults
           \/ "report" \in Faults
        /\ UNCHANGED log
  /\ UNCHANGED hEventLog

ReportProcessSucceeded(c, p) ==
  ReportEvent([msg |-> "MSG_PROCESS_SUCCEEDED", call |-> c, pid |-> p,
               file |-> NoPath], "S_OK")

ReportProcessFailed(c, p, n) ==
  ReportEvent([msg |-> "MSG_PROCESS_FAILED", call |-> c, pid |-> p,
               file |-> n], "S_OK")

ReportProcessTimedOut(c, p, n) ==
  ReportEvent([msg |-> "MSG_PROCESS_TIMEDOUT", call |-> c, pid |-> p,
               file |-> n], "S_OK")

ReportProcessStartSucceeded(c, p, n) ==
  ReportEvent([msg |-> "MSG_PROCESS_START_SUCCEEDED", call |-> c, pid |-> p,
               file |-> n], "S_OK")

ReportProcessStartFailed(c, n, h) ==
  ReportEvent([msg |-> "MSG_PROCESS_START_FAILED", call |-> c, pid |-> NoPid,
               file |-> n], h)

ReportNotifyFailedInternalError(c, h) ==
  ReportEvent([msg |-> "MSG_NOTIFY_FAILED", call |-> c, pid |-> NoPid,
               file |-> NoPath], h)
=============================================================================
