--------------------------- MODULE ExitModuleBase ---------------------------
(***************************************************************************)
(* Constants and result codes shared by the modules of the exit module.    *)
(*                                                                         *)
(* Every Win32, registry and CertSvc call the code makes can fail.  Which  *)
(* of them do in a given instance is the constant Faults: a failing branch *)
(* of the code is reachable exactly when its kind is in Faults (a full     *)
(* temp folder and an exhausted process table fail without any fault).     *)
(***************************************************************************)
EXTENDS Naturals, Sequences

CONSTANTS
  Call,         \* calls of ICertExit::Notify; each announces its own certificate
  TempName,     \* the names ::GetTempFileNameW can produce
  Pid,          \* process identifiers of the operating system
  CertLength,   \* units of data in a raw certificate
  Faults,       \* the kinds of failure that may happen
  Undecodable,  \* the error codes for which ::FormatMessageW has no text
  NoPath,       \* an empty or unset path
  NoFile,       \* the content of a name that no file has
  NoPid         \* no process

FaultKinds ==
  { "oom",          \* an allocation fails and the code is told
    "badalloc",     \* operator new throws std::bad_alloc
    "eventsource",  \* ::RegisterEventSourceW
    "server",       \* ICertServerExit: creation, SetContext, properties
    "registry",     \* opening the key, the ExePath value or its type
    "tempname",     \* ::GetTempPathW, ::GetTempFileNameW
    "createfile",   \* ::CreateFileW
    "write",        \* ::WriteFile fails
    "shortwrite",   \* ::WriteFile succeeds with fewer bytes than asked
    "delete",       \* ::DeleteFileW
    "launch",       \* ::CreateProcessW
    "wait",         \* ::WaitForSingleObject returns WAIT_FAILED
    "exitcode",     \* ::GetExitCodeProcess
    "report",       \* ::ReportEventW
    "crash" }       \* the certsrv.exe process stops

(* The HRESULTs the code tells apart; E_WIN32 is any code made from         *)
(* ::GetLastError(), E_CERTSRV any code returned by ICertServerExit.        *)
HRESULT ==
  { "S_OK", "E_OUTOFMEMORY", "E_WIN32", "E_TIMEOUT", "E_CERTSRV",
    "E_UNEXPECTED" }

FAILED(h) == h # "S_OK"

(* The codes that failures of one kind add to what a call may return.       *)
Failing(kind, codes) == IF kind \in Faults THEN codes ELSE {}

(* A unit of certificate data: which certificate it is of, and where in it. *)
Byte == Call \X (1 .. CertLength)

(* The first cb units of the certificate announced by call c.               *)
CertPrefix(c, cb) == [i \in 1 .. cb |-> <<c, i>>]

(* The buffer that CCertServerExit::GetRawCertificateProperty fills.        *)
RawCert(c) == CertPrefix(c, CertLength)

ASSUME ConstantsAssumption ==
  /\ CertLength \in Nat \ {0}
  /\ Faults \subseteq FaultKinds
  /\ Undecodable \subseteq HRESULT \ {"S_OK"}
  /\ NoPath \notin TempName
  /\ NoPid \notin Pid
  /\ NoFile \notin Seq(Byte)
=============================================================================
