--------------------------- MODULE EventProcessor ---------------------------
(***************************************************************************)
(* CEventProcessor::NotifyCertIssued and RunProcess (EventProcessor.cpp):  *)
(* write the raw certificate to a temp file, start the registered event    *)
(* processor on it, wait ten seconds for it, report what happened.         *)
(*                                                                         *)
(* Every call of ICertExit::Notify runs this code in a thread of its own;  *)
(* pc[c] is where the thread of call c is.  The objects it uses (CTempFile,*)
(* CProcess, the strings) are locals, constructed empty for each call; the *)
(* temp folder, the processes and the event source are shared.  One action *)
(* is the code up to and including its next use of something shared.       *)
(***************************************************************************)
EXTENDS TempFile, Process, EventSource

VARIABLES
  pc,           \* where the thread of each call is
  hr,           \* the HRESULT in flight
  strTempFile,  \* the path filled in by GetTempFilePath
  cbTotal,      \* units of the certificate counted as written
  dwExitCode    \* the OUT parameter of RunProcess

localVars == <<pc, hr, strTempFile, cbTotal, dwExitCode>>

(* The labels of NotifyCertIssued and RunProcess.                           *)
ProcessorLabel ==
  { "tempname", "create", "write", "format", "launch", "startfailed",
    "started", "wait", "timedout", "exitcode", "verdict", "unwind",
    "dispose" }

Goto(c, label) == pc' = [pc EXCEPT ![c] = label]

(* The pattern hr = call(); if (FAILED(hr)) leave for bad; else go on to ok *)
Result(c, h, ok, bad) ==
  /\ hr' = [hr EXCEPT ![c] = h]
  /\ Goto(c, IF FAILED(h) THEN bad ELSE ok)

-----------------------------------------------------------------------------
(* CEventProcessor::NotifyCertIssued                                        *)

GetTempFilePath(c) ==
  /\ pc[c] = "tempname"
  /\ \E n \in TempName \cup {NoPath}, h \in HRESULT :
       /\ TempFileName(n, h)
       /\ strTempFile' = [strTempFile EXCEPT ![c] = n]
       /\ Result(c, h, "create", "dispose")
  /\ UNCHANGED <<cbTotal, dwExitCode, processVars, eventVars>>

CreateTempFile(c) ==
  /\ pc[c] = "create"
  /\ \E h \in HRESULT :
       /\ TempFileCreate(c, strTempFile[c], h)
       /\ Result(c, h, "write", "dispose")
  /\ UNCHANGED <<strTempFile, cbTotal, dwExitCode, processVars, eventVars>>

(* A mistake: to loop while cbTotal <= buf.GetLength().                     *)
WriteCertOnceMore(c) ==
  /\ pc[c] = "write"
  /\ \E cb \in 0 .. CertLength, h \in HRESULT :
       /\ TempFileWrite(c, cb, h)
       /\ IF FAILED(h)
          THEN UNCHANGED cbTotal
          ELSE cbTotal' = [cbTotal EXCEPT ![c] = @ + cb]
       /\ Result(c, h,
            IF cbTotal'[c] <= CertLength THEN "write" ELSE "format",
            "dispose")
  /\ UNCHANGED <<strTempFile, dwExitCode, processVars, eventVars>>

(* One iteration of the write loop.  Every iteration asks for the whole     *)
(* certificate from index 0, whatever earlier iterations wrote.             *)
WriteCert(c) ==
  /\ pc[c] = "write"
  /\ cbTotal[c] < CertLength
  /\ \E cb \in 0 .. CertLength, h \in HRESULT :
       /\ TempFileWrite(c, cb, h)
       /\ IF FAILED(h)
          THEN UNCHANGED cbTotal
          ELSE cbTotal' = [cbTotal EXCEPT ![c] = @ + cb]
       /\ Result(c, h,
            IF cbTotal'[c] < CertLength THEN "write" ELSE "format",
            "dispose")
  /\ UNCHANGED <<strTempFile, dwExitCode, processVars, eventVars>>

(* A mistake: to leave the file open for the destructor to close.           *)
FormatArgumentsWithoutClose(c) ==
  /\ pc[c] = "format"
  /\ \E h \in HRESULT :
       /\ h = "S_OK" \/ (h = "E_OUTOFMEMORY" /\ "oom" \in Faults)
       /\ Result(c, h, "launch", "dispose")
  /\ UNCHANGED <<strTempFile, cbTotal, dwExitCode, tempFileVars, processVars,
                 eventVars>>

(* Close the file, then build the argument array, in heap buffers.          *)
FormatArguments(c) ==
  /\ pc[c] = "format"
  /\ TempFileClose(c)
  /\ \E h \in HRESULT :
       /\ h = "S_OK" \/ (h = "E_OUTOFMEMORY" /\ "oom" \in Faults)
       /\ Result(c, h, "launch", "dispose")
  /\ UNCHANGED <<strTempFile, cbTotal, dwExitCode, processVars, eventVars>>

-----------------------------------------------------------------------------
(* CEventProcessor::RunProcess                                              *)

StartProcess(c) ==
  /\ pc[c] = "launch"
  /\ \E h \in HRESULT :
       /\ ProcessCreate(c, strTempFile[c], h)
       /\ Result(c, h, "started", "startfailed")
  /\ UNCHANGED <<strTempFile, cbTotal, dwExitCode, tempFileVars, eventVars>>

(* CProcess has no command line to report when its buffer was not allocated *)
ReportStartFailed(c) ==
  /\ pc[c] = "startfailed"
  /\ ReportProcessStartFailed(c,
       IF hr[c] = "E_OUTOFMEMORY" THEN NoPath ELSE strTempFile[c], hr[c])
  /\ Goto(c, "unwind")
  /\ UNCHANGED <<hr, strTempFile, cbTotal, dwExitCode, tempFileVars,
                 processVars>>

ReportStarted(c) ==
  /\ pc[c] = "started"
  /\ ReportProcessStartSucceeded(c, dwProcessId[c], strTempFile[c])
  /\ Goto(c, "wait")
  /\ UNCHANGED <<hr, strTempFile, cbTotal, dwExitCode, tempFileVars,
                 processVars>>

(* A mistake: to wait again when the wait fails.                            *)
WaitForProcessAgain(c) ==
  /\ pc[c] = "wait"
  /\ \E h \in HRESULT :
       /\ ProcessWait(c, h)
       /\ Result(c, h, "exitcode", "wait")
  /\ UNCHANGED <<strTempFile, cbTotal, dwExitCode, tempFileVars, eventVars>>

(* A timeout is reported before RunProcess returns, other failures are not. *)
WaitForProcess(c) ==
  /\ pc[c] = "wait"
  /\ \E h \in HRESULT :
       /\ ProcessWait(c, h)
       /\ Result(c, h, "exitcode",
            IF h = "E_TIMEOUT" THEN "timedout" ELSE "unwind")
  /\ UNCHANGED <<strTempFile, cbTotal, dwExitCode, tempFileVars, eventVars>>

ReportTimedOut(c) ==
  /\ pc[c] = "timedout"
  /\ ReportProcessTimedOut(c, dwProcessId[c], strTempFile[c])
  /\ Goto(c, "unwind")
  /\ UNCHANGED <<hr, strTempFile, cbTotal, dwExitCode, tempFileVars,
                 processVars>>

(* A mistake: not to look at the result of GetExitCode.                     *)
ReadExitCodeUnchecked(c) ==
  /\ pc[c] = "exitcode"
  /\ \E x \in ExitCode, h \in HRESULT :
       /\ ProcessGetExitCode(c, x, h)
       /\ dwExitCode' = [dwExitCode EXCEPT ![c] = x]
       /\ hr' = [hr EXCEPT ![c] = h]
       /\ Goto(c, "verdict")
  /\ UNCHANGED <<strTempFile, cbTotal, tempFileVars, eventVars>>

ReadExitCode(c) ==
  /\ pc[c] = "exitcode"
  /\ \E x \in ExitCode, h \in HRESULT :
       /\ ProcessGetExitCode(c, x, h)
       /\ dwExitCode' = [dwExitCode EXCEPT ![c] = x]
       /\ Result(c, h, "verdict", "unwind")
  /\ UNCHANGED <<strTempFile, cbTotal, tempFileVars, eventVars>>

ReportVerdict(c) ==
  /\ pc[c] = "verdict"
  /\ \/ /\ dwExitCode[c] # 0
        /\ ReportProcessFailed(c, dwProcessId[c], strTempFile[c])
     \/ /\ dwExitCode[c] = 0
        /\ ReportProcessSucceeded(c, dwProcessId[c])
  /\ Goto(c, "unwind")
  /\ UNCHANGED <<hr, strTempFile, cbTotal, dwExitCode, tempFileVars,
                 processVars>>

(* Three mistakes about whether to keep the file: to look at the exit code  *)
(* only, to look at the HRESULT only, and to keep it always.                *)
UnwindByExitCode(c) ==
  /\ pc[c] = "unwind"
  /\ ProcessDestroy(c)
  /\ IF dwExitCode[c] # 0 THEN TempFilePreserve(c) ELSE UNCHANGED tempFileVars
  /\ Goto(c, "dispose")
  /\ UNCHANGED <<hr, strTempFile, cbTotal, dwExitCode, eventVars>>

UnwindByResult(c) ==
  /\ pc[c] = "unwind"
  /\ ProcessDestroy(c)
  /\ IF FAILED(hr[c]) THEN TempFilePreserve(c) ELSE UNCHANGED tempFileVars
  /\ Goto(c, "dispose")
  /\ UNCHANGED <<hr, strTempFile, cbTotal, dwExitCode, eventVars>>

UnwindKeeping(c) ==
  /\ pc[c] = "unwind"
  /\ ProcessDestroy(c)
  /\ TempFilePreserve(c)
  /\ Goto(c, "dispose")
  /\ UNCHANGED <<hr, strTempFile, cbTotal, dwExitCode, eventVars>>

(* A mistake: to hand a failure of the processor on to Notify.              *)
UnwindFailing(c) ==
  /\ pc[c] = "unwind"
  /\ ProcessDestroy(c)
  /\ hr' = [hr EXCEPT ![c] = IF dwExitCode[c] # 0 THEN "E_UNEXPECTED" ELSE @]
  /\ TempFilePreserve(c)
  /\ Goto(c, "dispose")
  /\ UNCHANGED <<strTempFile, cbTotal, dwExitCode, eventVars>>

(* RunProcess returns, which destroys its CProcess; its caller keeps the    *)
(* temp file unless the processor ran to a successful end.                  *)
Unwind(c) ==
  /\ pc[c] = "unwind"
  /\ ProcessDestroy(c)
  /\ \/ /\ FAILED(hr[c]) \/ dwExitCode[c] # 0
        /\ TempFilePreserve(c)
     \/ /\ ~ FAILED(hr[c])
        /\ dwExitCode[c] = 0
        /\ UNCHANGED tempFileVars
  /\ Goto(c, "dispose")
  /\ UNCHANGED <<hr, strTempFile, cbTotal, dwExitCode, eventVars>>

(* NotifyCertIssued returns, from wherever: its locals are destroyed.       *)
Dispose(c) ==
  /\ pc[c] = "dispose"
  /\ TempFileDestroy(c)
  /\ strTempFile' = [strTempFile EXCEPT ![c] = NoPath]
  /\ cbTotal' = [cbTotal EXCEPT ![c] = 0]
  /\ dwExitCode' = [dwExitCode EXCEPT ![c] = 0]
  /\ Goto(c, "leave")
  /\ UNCHANGED <<hr, processVars, eventVars>>

EventProcessorNext(c) ==
  \/ GetTempFilePath(c) \/ CreateTempFile(c) \/ WriteCert(c)
  \/ FormatArguments(c) \/ StartProcess(c) \/ ReportStartFailed(c)
  \/ ReportStarted(c) \/ WaitForProcess(c) \/ ReportTimedOut(c)
  \/ ReadExitCode(c) \/ ReportVerdict(c) \/ Unwind(c) \/ Dispose(c)
=============================================================================
