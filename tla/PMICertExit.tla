----------------------------- MODULE PMICertExit ----------------------------
(***************************************************************************)
(* CPMICertExit (PMICertExit.cpp): the COM object that certsrv.exe loads,  *)
(* initializes once, and notifies of exit events, one thread for each      *)
(* call in progress.  For a CERTISSUED event it reads the certificate from *)
(* the server (CCertServerExit), the registered command from the registry  *)
(* (CEventProcessorConfig), and runs the event processor.                  *)
(*                                                                         *)
(* The specification composes this object with everything below it and     *)
(* with its environment: the event processors, which exit when they like,  *)
(* and the service, which may stop or crash and be started again.          *)
(***************************************************************************)
EXTENDS EventProcessor

VARIABLES
  module,  \* the loaded exit module: "down", "ready" or "failed"
  evt      \* the event of each call, or "NONE" before the call

vars == <<tempFileVars, processVars, eventVars, localVars, module, evt>>

(* "OTHER" stands for the seven events whose handlers return S_OK at once   *)
(* and for the values that are no event.                                    *)
ExitEvent == {"CERTISSUED", "CRLISSUED", "OTHER"}

(* The labels of the code in which a call is in progress.                   *)
ActiveLabel == ProcessorLabel \cup {"server", "properties", "config", "leave"}

Label == ActiveLabel \cup {"idle", "done", "thrown", "crashed"}

Active(c) == pc[c] \in ActiveLabel

Init ==
  /\ TempFileInit
  /\ ProcessInit
  /\ EventSourceInit
  /\ pc = [c \in Call |-> "idle"]
  /\ hr = [c \in Call |-> "S_OK"]
  /\ strTempFile = [c \in Call |-> NoPath]
  /\ cbTotal = [c \in Call |-> 0]
  /\ dwExitCode = [c \in Call |-> 0]
  /\ module = "down"
  /\ evt = [c \in Call |-> "NONE"]

-----------------------------------------------------------------------------
(* What the calls below Notify return.  CCertServerExit::Init creates an    *)
(* ICertServerExit and sets its context.                                    *)
CertServerInit == {"S_OK"} \cup Failing("server", {"E_CERTSRV"})

(* CCertServerExit::GetCertificateProperty.                                 *)
CertificateProperty ==
  {"S_OK"} \cup Failing("server", {"E_CERTSRV"})
           \cup Failing("oom", {"E_OUTOFMEMORY"})

(* GetCertificateStringProperty copies the value, whatever its type, to a   *)
(* buffer of its own.                                                       *)
(* CHeapWString::Copy takes a null BSTR for a success, with a null string;  *)
(* that certsrv.exe ever answers with one is not modelled.                  *)
CertStringProperty == CertificateProperty \cup Failing("oom", {"E_OUTOFMEMORY"})

(* GetRawCertificateProperty insists on the type VT_BSTR.                   *)
RawCertificateProperty ==
  CertificateProperty \cup Failing("server", {"E_WIN32"})
                      \cup Failing("oom", {"E_OUTOFMEMORY"})

(* CEventProcessorConfig::Init.  A missing key or ExePath value and an      *)
(* ExePath of another type are failures; EscapeForPS and Arguments may be   *)
(* missing.                                                                 *)
ProcessorConfigInit ==
  {"S_OK"} \cup Failing("registry", {"E_WIN32", "E_UNEXPECTED"})
           \cup Failing("oom", {"E_OUTOFMEMORY"})

(* ICertExit::Initialize.  An event source opened before a later step fails *)
(* stays open until the object is released.  Of the two buffers it makes,   *)
(* the one for strConfig comes before that step, the other one after it.    *)
Initialize ==
  /\ module = "down"
  /\ \E h \in HRESULT :
       \/ EventSourceOpen(h) /\ module' = IF FAILED(h) THEN "failed" ELSE "ready"
       \/ /\ h = "E_OUTOFMEMORY"     \* copying strConfig
          /\ Faults \cap {"oom", "badalloc"} # {}
          /\ module' = "failed"
          /\ UNCHANGED eventVars
       \/ /\ FAILED(h)
          /\ h \in CertServerInit \cup Failing("badalloc", {"E_OUTOFMEMORY"})
          /\ EventSourceOpen("S_OK")
          /\ module' = "failed"
  /\ UNCHANGED <<tempFileVars, processVars, localVars, evt>>

(* ICertExit::Notify, up to the call that the event selects.                *)
Notify(c, e) ==
  /\ module = "ready"
  /\ pc[c] = "idle"
  /\ evt' = [evt EXCEPT ![c] = e]
  /\ Goto(c, IF e = "OTHER" THEN "leave" ELSE "server")
  /\ UNCHANGED <<tempFileVars, processVars, eventVars, hr, strTempFile,
                 cbTotal, dwExitCode, module>>

(* A mistake: to handle another event in the place of CERTISSUED.           *)
InitServerForCRL(c) ==
  /\ pc[c] = "server"
  /\ \E h \in HRESULT :
       /\ h \in CertServerInit
       /\ Result(c, h,
            IF evt[c] = "CRLISSUED" THEN "properties" ELSE "leave", "leave")
  /\ UNCHANGED <<tempFileVars, processVars, eventVars, strTempFile, cbTotal,
                 dwExitCode, module, evt>>

(* CCertServerExit::Init with the context of the call.                      *)
InitServer(c) ==
  /\ pc[c] = "server"
  /\ \E h \in HRESULT :
       /\ h \in CertServerInit
       /\ Result(c, h,
            IF evt[c] = "CERTISSUED" THEN "properties" ELSE "leave", "leave")
  /\ UNCHANGED <<tempFileVars, processVars, eventVars, strTempFile, cbTotal,
                 dwExitCode, module, evt>>

(* The subject key identifier, the serial number and the raw certificate,   *)
(* which are RawCert(c) from here on.                                       *)
ReadProperties(c) ==
  /\ pc[c] = "properties"
  /\ \E h \in HRESULT :
       /\ h \in CertStringProperty \cup RawCertificateProperty
       /\ Result(c, h, "config", "leave")
  /\ UNCHANGED <<tempFileVars, processVars, eventVars, strTempFile, cbTotal,
                 dwExitCode, module, evt>>

(* A mistake: to leave without keeping the result of the failed call.       *)
InitProcessorSilent(c) ==
  /\ pc[c] = "config"
  /\ \E h \in HRESULT :
       /\ h \in ProcessorConfigInit
       /\ Goto(c, IF FAILED(h) THEN "leave" ELSE "tempname")
  /\ UNCHANGED <<tempFileVars, processVars, eventVars, hr, strTempFile,
                 cbTotal, dwExitCode, module, evt>>

(* CEventProcessor::Init, that is CEventProcessorConfig::Init.              *)
InitProcessor(c) ==
  /\ pc[c] = "config"
  /\ \E h \in HRESULT :
       /\ h \in ProcessorConfigInit
       /\ Result(c, h, "tempname", "leave")
  /\ UNCHANGED <<tempFileVars, processVars, eventVars, strTempFile, cbTotal,
                 dwExitCode, module, evt>>

(* The end of Notify: a failure becomes an event, and Notify returns S_OK.  *)
LeaveNotify(c) ==
  /\ pc[c] = "leave"
  /\ \/ /\ FAILED(hr[c])
        /\ ReportNotifyFailedInternalError(c, hr[c])
     \/ ~ FAILED(hr[c]) /\ UNCHANGED eventVars
  /\ hr' = [hr EXCEPT ![c] = "S_OK"]
  /\ Goto(c, "done")
  /\ UNCHANGED <<tempFileVars, processVars, strTempFile, cbTotal, dwExitCode,
                 module, evt>>

(* CHeapBuffer::Alloc is called by the code of these labels, before         *)
(* anything the rest of that code does to a file, a process or the log.     *)
Allocating(c) ==
  \/ pc[c] \in {"properties", "config", "tempname", "create", "format",
                "launch", "startfailed", "started", "timedout", "verdict"}
  \/ pc[c] = "leave" /\ FAILED(hr[c])

(* Alloc tests what operator new returns, but operator new throws: nothing  *)
(* in the module catches the exception, which unwinds the call out of       *)
(* Notify and destroys its locals on the way.  That the service survives it *)
(* is up to the service; that it does not is CrashService.                  *)
AllocThrows(c) ==
  /\ "badalloc" \in Faults
  /\ Allocating(c)
  /\ ProcessDestroy(c)
  /\ TempFileDestroy(c)
  /\ hr' = [hr EXCEPT ![c] = "S_OK"]
  /\ strTempFile' = [strTempFile EXCEPT ![c] = NoPath]
  /\ cbTotal' = [cbTotal EXCEPT ![c] = 0]
  /\ dwExitCode' = [dwExitCode EXCEPT ![c] = 0]
  /\ Goto(c, "thrown")
  /\ UNCHANGED <<eventVars, module, evt>>

-----------------------------------------------------------------------------
(* The environment                                                          *)

(* The service stops between two calls and releases the object, whose       *)
(* CEventSource closes itself.                                              *)
StopService ==
  /\ module # "down"
  /\ \A c \in Call : ~ Active(c)
  /\ module' = "down"
  /\ EventSourceClose
  /\ UNCHANGED <<tempFileVars, processVars, localVars, evt>>

(* The service process ends abruptly: every thread is gone and no           *)
(* destructor runs.  Event processors already started are not affected.     *)
CrashService ==
  /\ "crash" \in Faults
  /\ module # "down"
  /\ LET lost == {c \in Call : Active(c)}
     IN  /\ TempFileAbandon(lost)
         /\ ProcessAbandon(lost)
         /\ pc' = [c \in Call |-> IF c \in lost THEN "crashed" ELSE pc[c]]
         /\ hr' = [c \in Call |-> IF c \in lost THEN "S_OK" ELSE hr[c]]
         /\ strTempFile' =
              [c \in Call |-> IF c \in lost THEN NoPath ELSE strTempFile[c]]
         /\ cbTotal' = [c \in Call |-> IF c \in lost THEN 0 ELSE cbTotal[c]]
         /\ dwExitCode' =
              [c \in Call |-> IF c \in lost THEN 0 ELSE dwExitCode[c]]
  /\ EventSourceClose
  /\ module' = "down"
  /\ UNCHANGED evt

ProcessorExits(c) ==
  /\ ProcessExit(c)
  /\ UNCHANGED <<tempFileVars, eventVars, localVars, module, evt>>

-----------------------------------------------------------------------------
(* A step of the thread that runs call c.                                   *)
Step(c) ==
  \/ InitServer(c)
  \/ ReadProperties(c)
  \/ InitProcessor(c)
  \/ EventProcessorNext(c) /\ UNCHANGED <<module, evt>>
  \/ LeaveNotify(c)

Next ==
  \/ Initialize
  \/ \E c \in Call :
       \/ \E e \in ExitEvent : Notify(c, e)
       \/ Step(c)
       \/ AllocThrows(c)
       \/ ProcessorExits(c)
  \/ StopService
  \/ CrashService

(* A thread that can go on does; nothing else has to happen.                *)
Fairness == \A c \in Call : WF_vars(Step(c))

Spec == Init /\ [][Next]_vars /\ Fairness
-----------------------------------------------------------------------------
(* Every variable stays in its domain; cbTotal, which counts every          *)
(* WriteFile in full, never gets past twice the length of the certificate.  *)
TypeOK ==
  /\ TempFileTypeOK
  /\ ProcessTypeOK
  /\ EventSourceTypeOK
  /\ pc \in [Call -> Label]
  /\ hr \in [Call -> HRESULT]
  /\ strTempFile \in [Call -> TempName \cup {NoPath}]
  /\ cbTotal \in [Call -> 0 .. 2 * CertLength - 1]
  /\ dwExitCode \in [Call -> ExitCode]
  /\ module \in {"down", "ready", "failed"}
  /\ evt \in [Call -> ExitEvent \cup {"NONE"}]

(* The exit module does not hold the file open.                             *)
Closed(n) == \A d \in Call : m_hFile[d] => m_strPath[d] # n

(* What an event processor is handed is the certificate: as long as it      *)
(* runs, also after Notify gave up on it and after the service is gone, the *)
(* file its -rawcertpath names holds exactly the certificate of its call,   *)
(* and the exit module does not hold that file open.                        *)
RunningProcessorHasCert ==
  \A c \in Call : proc[c] = "running" =>
    disk[rawCertPath[c]] = RawCert(c) /\ Closed(rawCertPath[c])

(* The entries that point an administrator to a temp file for debugging.    *)
EvidenceMessage ==
  {"MSG_PROCESS_START_FAILED", "MSG_PROCESS_FAILED", "MSG_PROCESS_TIMEDOUT"}

(* The certificate that such an entry names is never deleted or reused for  *)
(* another call: not when the processor ends successfully after its         *)
(* timeout, not by later calls, not by a crash.                             *)
EvidenceKept ==
  \A i \in DOMAIN log :
    (log[i].msg \in EvidenceMessage /\ log[i].file # NoPath) =>
      disk[log[i].file] = RawCert(log[i].call)

(* What is in the file is of the certificate of c, and no shorter.          *)
HoldsOwn(n, c) ==
  /\ disk[n] # NoFile
  /\ CertLength <= Len(disk[n])
  /\ \A i \in 1 .. Len(disk[n]) : disk[n][i][1] = c

(* This much is left of the two when writes may be short and allocations    *)
(* may throw: the processor of another call, and the one who looks at       *)
(* evidence, still find a file in which nothing is of another certificate,  *)
(* and which is closed.  Only the processor of the call that an exception   *)
(* ends, past Preserve, loses its file.                                     *)
CertsNotMixed ==
  /\ \A c \in Call : proc[c] = "running" /\ pc[c] # "thrown" =>
       HoldsOwn(rawCertPath[c], c) /\ Closed(rawCertPath[c])
  /\ \A i \in DOMAIN log :
       (log[i].msg \in EvidenceMessage /\ log[i].file # NoPath) =>
         HoldsOwn(log[i].file, log[i].call)

VerdictIsTrue(e) ==
  /\ e.msg = "MSG_PROCESS_SUCCEEDED" =>
       proc[e.call] = "exited" /\ exitStatus[e.call] = 0
  /\ e.msg = "MSG_PROCESS_FAILED" =>
       proc[e.call] = "exited" /\ exitStatus[e.call] # 0

(* An entry that gives a verdict on a processor is about a processor that   *)
(* has ended, and gives the verdict its exit code calls for.                *)
VerdictsAreTrue == \A i \in DOMAIN log : VerdictIsTrue(log[i])

(* Each way a notification can turn out leaves one of these.                *)
OutcomeMessage ==
  {"MSG_PROCESS_SUCCEEDED", "MSG_PROCESS_FAILED", "MSG_NOTIFY_FAILED"}

HasOutcome(c, i) == log[i].call = c /\ log[i].msg \in OutcomeMessage

(* No call leaves two outcomes in the log, so a success is never followed   *)
(* by an internal error for the same certificate.                           *)
OutcomesDoNotConflict ==
  \A c \in Call : \A i, j \in DOMAIN log :
    HasOutcome(c, i) /\ HasOutcome(c, j) => i = j

(* Notify hides every failure from CertSvc and logs it instead: when the    *)
(* notification of an issued certificate returns, its outcome is in the log *)
EveryCertHasOutcome ==
  \A c \in Call :
    (evt[c] = "CERTISSUED" /\ pc[c] = "done") =>
      \E i \in DOMAIN log : HasOutcome(c, i)

Started(i, p) == log[i].msg = "MSG_PROCESS_START_SUCCEEDED" /\ log[i].pid = p

(* A reader of the log identifies a processor by its process identifier,    *)
(* which Windows uses again: the newest start entry with that identifier    *)
(* before a result is the start of the process the result is about.         *)
PidsAttributable ==
  \A i, j \in DOMAIN log :
    (/\ i < j
     /\ log[j].pid # NoPid
     /\ Started(i, log[j].pid)
     /\ \A k \in i + 1 .. j - 1 : ~ Started(k, log[j].pid)
     /\ ~ Started(j, log[j].pid)) =>
       log[i].call = log[j].call

(* The temp folder does not fill up with files nobody knows of: a file is   *)
(* in use by a call in progress, or an entry of the log names it.           *)
NoOrphanTempFile ==
  \A n \in TempName :
    disk[n] # NoFile =>
      \/ \E c \in Call : Active(c) /\ strTempFile[c] = n
      \/ \E i \in DOMAIN log : log[i].file = n

-----------------------------------------------------------------------------
(* The certificate of c is where the command line of its processor says.    *)
CertAvailable(c) ==
  rawCertPath[c] # NoPath /\ disk[rawCertPath[c]] = RawCert(c)

(* A call that enters Notify returns, unless the service dies: no event     *)
(* processor can hold up certificate issuance for longer than the timeout.  *)
NotifyReturns ==
  \A c \in Call : Active(c) ~> pc[c] \in {"done", "crashed"}

(* When nothing fails, every issued certificate is given to a processor.    *)
IssuedCertIsOffered ==
  \A c \in Call : (evt[c] = "CERTISSUED") ~> (proc[c] # "none")

(* The temp file of a processor that succeeded is deleted.                  *)
SuccessfulFileIsDeleted ==
  \A c \in Call :
    (\E i \in DOMAIN log :
       log[i].call = c /\ log[i].msg = "MSG_PROCESS_SUCCEEDED")
      ~> ~ CertAvailable(c)
=============================================================================
