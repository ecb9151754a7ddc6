------------------------------- MODULE Process ------------------------------
(***************************************************************************)
(* CProcess (Process.cpp) and the event-processor processes it starts.     *)
(* A notification starts at most one process, so the process of call c is  *)
(* a function of c.  The process lives on after its CProcess object is     *)
(* destroyed, and after certsrv.exe itself stops.                          *)
(*                                                                         *)
(* The operating system keeps a process identifier taken while the process *)
(* runs or a handle to it is open; after that it may give it out again.    *)
(***************************************************************************)
EXTENDS ExitModuleBase

VARIABLES
  proc,         \* "none", "running" or "exited"
  dwProcessId,  \* the identifier of the process
  rawCertPath,  \* the -rawcertpath argument on its command line
  exitStatus,   \* the code it exited with
  hProcess      \* has the CProcess object its handles open?

processVars == <<proc, dwProcessId, rawCertPath, exitStatus, hProcess>>

(* Success, and any code that is not success.                               *)
ExitCode == {0, 1}

(* STILL_ACTIVE is one of the codes that are not success.                   *)
StillActive == 1

ProcessTypeOK ==
  /\ proc \in [Call -> {"none", "running", "exited"}]
  /\ dwProcessId \in [Call -> Pid \cup {NoPid}]
  /\ rawCertPath \in [Call -> TempName \cup {NoPath}]
  /\ exitStatus \in [Call -> ExitCode]
  /\ hProcess \in [Call -> BOOLEAN]

ProcessInit ==
  /\ proc = [c \in Call |-> "none"]
  /\ dwProcessId = [c \in Call |-> NoPid]
  /\ rawCertPath = [c \in Call |-> NoPath]
  /\ exitStatus = [c \in Call |-> 0]
  /\ hProcess = [c \in Call |-> FALSE]

TakenPids ==
  {dwProcessId[c] : c \in {d \in Call : proc[d] = "running" \/ hProcess[d]}}

-----------------------------------------------------------------------------
(* CProcess::Create with the path n among the arguments: the command line   *)
(* buffer is allocated and filled, then ::CreateProcessW is called.         *)
(* E_OUTOFMEMORY stands for the buffer that is refused: the entry then has  *)
(* no command line to name the file with.  CreateProcessW may fail for want *)
(* of memory too, with the same HRESULT but with the command line in the    *)
(* entry; that is E_WIN32 here, as any other failure of CreateProcessW.     *)
ProcessCreate(c, n, h) ==
  /\ ~ hProcess[c]
  /\ \/ /\ h = "S_OK"
        /\ \E p \in Pid \ TakenPids :
             dwProcessId' = [dwProcessId EXCEPT ![c] = p]
        /\ proc' = [proc EXCEPT ![c] = "running"]
        /\ rawCertPath' = [rawCertPath EXCEPT ![c] = n]
        /\ hProcess' = [hProcess EXCEPT ![c] = TRUE]
     \/ /\ \/ h = "E_OUTOFMEMORY" /\ "oom" \in Faults
           \/ h = "E_WIN32" /\ ("launch" \in Faults \/ Pid \subseteq TakenPids)
        /\ UNCHANGED <<proc, dwProcessId, rawCertPath, hProcess>>
  /\ UNCHANGED exitStatus

(* A mistake: to wait with INFINITE.                                        *)
ProcessWaitForever(c, h) ==
  /\ hProcess[c]
  /\ \/ h = "S_OK" /\ proc[c] = "exited"
     \/ h = "E_WIN32" /\ "wait" \in Faults
  /\ UNCHANGED processVars

(* A mistake: to take every return but WAIT_FAILED for the end of the       *)
(* process.                                                                 *)
ProcessWaitIgnoringTimeout(c, h) ==
  /\ hProcess[c]
  /\ \/ h = "S_OK"
     \/ h = "E_WIN32" /\ "wait" \in Faults
  /\ UNCHANGED processVars

(* CProcess::Wait: a running process may always outlast the timeout.        *)
(* What is neither the end of the process nor the timeout is a failure,     *)
(* which its caller treats alike: WAIT_FAILED, WAIT_ABANDONED (E_ABORT, and *)
(* only a mutex is ever abandoned) and any other return (E_UNEXPECTED).     *)
(* All are E_WIN32 here.                                                    *)
ProcessWait(c, h) ==
  /\ hProcess[c]
  /\ \/ h = "S_OK" /\ proc[c] = "exited"
     \/ h = "E_TIMEOUT" /\ proc[c] = "running"
     \/ h = "E_WIN32" /\ "wait" \in Faults
  /\ UNCHANGED processVars

(* A mistake: to close the handle as soon as the exit code is known.        *)
ProcessGetExitCodeAndClose(c, x, h) ==
  /\ hProcess[c]
  /\ \/ h = "S_OK" /\ proc[c] = "exited" /\ x = exitStatus[c]
     \/ h = "E_WIN32" /\ "exitcode" \in Faults /\ x = 0
  /\ hProcess' = [hProcess EXCEPT ![c] = FALSE]
  /\ UNCHANGED <<proc, dwProcessId, rawCertPath, exitStatus>>

(* CProcess::GetExitCode: on success the OUT parameter receives x, which is *)
(* the code STILL_ACTIVE when the process has not exited.                   *)
ProcessGetExitCode(c, x, h) ==
  /\ hProcess[c]
  /\ \/ h = "S_OK" /\ proc[c] = "exited" /\ x = exitStatus[c]
     \/ h = "S_OK" /\ proc[c] = "running" /\ x = StillActive
     \/ h = "E_WIN32" /\ "exitcode" \in Faults /\ x = 0
  /\ UNCHANGED processVars

(* CProcess::~CProcess closes the handles; it does not touch the process.   *)
ProcessDestroy(c) ==
  /\ hProcess' = [hProcess EXCEPT ![c] = FALSE]
  /\ UNCHANGED <<proc, dwProcessId, rawCertPath, exitStatus>>

ProcessAbandon(C) ==
  /\ hProcess' = [c \in Call |-> IF c \in C THEN FALSE ELSE hProcess[c]]
  /\ UNCHANGED <<proc, dwProcessId, rawCertPath, exitStatus>>

(* The event processor is any program: it may exit at any time, with any    *)
(* code, or never.                                                          *)
ProcessExit(c) ==
  /\ proc[c] = "running"
  /\ proc' = [proc EXCEPT ![c] = "exited"]
  /\ \E x \in ExitCode : exitStatus' = [exitStatus EXCEPT ![c] = x]
  /\ UNCHANGED <<dwProcessId, rawCertPath, hProcess>>
=============================================================================
