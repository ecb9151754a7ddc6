--------------------------- MODULE PMICertExitInv ---------------------------
(***************************************************************************)
(* The inductive invariant behind the safety properties of PMICertExit.    *)
(* RunningProcessorHasCert and EvidenceKept say what the temp folder holds *)
(* long after a call is over; that a later call cannot undo it follows     *)
(* from who may delete a file: the one call whose strTempFile names it,    *)
(* and that call is bound to preserve it.                                  *)
(***************************************************************************)
EXTENDS PMICertExit

(* NotifyCertIssued has not obtained a file name yet, or has returned.      *)
BeforeFile == {"idle", "server", "properties", "config", "tempname"}
Ended == {"leave", "done", "thrown", "crashed"}

(* The file holds the whole certificate.                                    *)
WrittenLabel == {"format", "launch", "startfailed", "started", "wait",
                 "timedout", "exitcode", "verdict", "unwind"}

(* What the locals of a thread are at each place of the code.               *)
LocalInv(c) ==
  /\ pc[c] \in BeforeFile \cup Ended => strTempFile[c] = NoPath
  /\ pc[c] \in {"create", "write"} \cup WrittenLabel => strTempFile[c] \in TempName
  /\ pc[c] \in BeforeFile \cup Ended \cup {"create"} => m_strPath[c] = NoPath
  /\ pc[c] \in {"write"} \cup WrittenLabel => m_strPath[c] = strTempFile[c]
  /\ m_strPath[c] \in {NoPath, strTempFile[c]}
  /\ m_hFile[c] =>
       \/ pc[c] \in {"write", "format"}
       \/ pc[c] = "dispose" /\ ~ m_fPreserve[c]
  /\ m_fPreserve[c] => pc[c] = "dispose"

(* What the thread knows of its process.                                    *)
ProcessInv(c) ==
  /\ pc[c] \in BeforeFile \cup {"create", "write", "format", "launch", "startfailed"} =>
       proc[c] = "none"
  /\ pc[c] \in {"started", "wait", "timedout", "exitcode", "verdict"} =>
       proc[c] # "none" /\ rawCertPath[c] = strTempFile[c]
  /\ pc[c] \in {"exitcode", "verdict"} => proc[c] = "exited"
  /\ pc[c] = "verdict" => dwExitCode[c] = exitStatus[c]
  /\ pc[c] \in {"startfailed", "timedout"} => FAILED(hr[c])

(* A file that a call has named exists, and belongs to that call alone.     *)
FileOwned ==
  \A c \in Call : strTempFile[c] # NoPath =>
    /\ disk[strTempFile[c]] # NoFile
    /\ \A d \in Call : strTempFile[c] = strTempFile[d] => c = d

(* This much holds whatever fails.                                          *)
StructInv ==
  /\ TypeOK
  /\ \A c \in Call : LocalInv(c)
  /\ \A c \in Call : ProcessInv(c)
  /\ FileOwned

-----------------------------------------------------------------------------
(* A notification still in progress has an outcome in the log only behind   *)
(* its verdict, and then what it returns is no failure.                     *)
OutcomePlace(c) ==
  \/ pc[c] \in {"unwind", "dispose", "leave"} /\ ~ FAILED(hr[c])
  \/ pc[c] \in {"done", "thrown", "crashed"}

(* One outcome for each notification, whatever fails.                       *)
OutcomeInv ==
  /\ \A c \in Call : pc[c] = "verdict" => ~ FAILED(hr[c])
  /\ \A c \in Call : \A i \in DOMAIN log : HasOutcome(c, i) => OutcomePlace(c)
  /\ OutcomesDoNotConflict

(* What the log is good for, as long as every entry that is reported gets   *)
(* into it.                                                                 *)
NothingLost == "oom" \notin Faults /\ "report" \notin Faults /\ Undecodable = {}

(* The event source is open while a call is in progress.                    *)
ServiceInv ==
  /\ module = "ready" => hEventLog
  /\ \A c \in Call : Active(c) => module = "ready"

(* A notification that comes to an end without a failure has its outcome in *)
(* the log.                                                                 *)
Answered(c) ==
  (/\ evt[c] = "CERTISSUED"
   /\ \/ pc[c] = "done"
      \/ pc[c] \in {"unwind", "dispose", "leave"} /\ ~ FAILED(hr[c])) =>
    \E i \in DOMAIN log : HasOutcome(c, i)

AnswerInv == \A c \in Call : Answered(c)

(* The newest start entry with the identifier of c's process is of c.       *)
NewestStart(c) ==
  \E i \in DOMAIN log :
    /\ Started(i, dwProcessId[c])
    /\ log[i].call = c
    /\ \A k \in DOMAIN log : Started(k, dwProcessId[c]) => k <= i

(* The places at which a thread works with its process, and those of them   *)
(* behind the start entry.                                                  *)
HandleLabel == {"started", "wait", "timedout", "exitcode", "verdict"}
StartedLabel == HandleLabel \ {"started"}

(* Until its last entry is written a call holds its process by a handle, so *)
(* that no other process gets the identifier.                               *)
PidInv ==
  /\ \A c \in Call :
       pc[c] \in HandleLabel => hProcess[c] /\ dwProcessId[c] \in Pid
  /\ \A c, d \in Call :
       (hProcess[c] /\ hProcess[d] /\ dwProcessId[c] = dwProcessId[d]) => c = d
  /\ \A c \in Call : pc[c] \in StartedLabel => NewestStart(c)
  /\ PidsAttributable

Named(n) == \E i \in DOMAIN log : log[i].file = n

(* No destructor is passed over, none fails, and a file that has got its    *)
(* name gets its CTempFile.                                                 *)
FilesDeletable == Faults \cap {"createfile", "delete", "badalloc", "crash"} = {}

(* A file that is going to be preserved is named by an entry, and the other *)
(* ones are going to be deleted.                                            *)
NamedPlace(c) ==
  /\ pc[c] \in StartedLabel \cup {"unwind"} => Named(strTempFile[c])
  /\ pc[c] = "startfailed" => hr[c] # "E_OUTOFMEMORY"
  /\ pc[c] = "dispose" =>
       /\ m_strPath[c] = strTempFile[c]
       /\ m_fPreserve[c] => Named(strTempFile[c])

NamedInv ==
  /\ \A c \in Call : NamedPlace(c)
  /\ NoOrphanTempFile

(* What the proofs about the log rest on.                                   *)
LogInv == ServiceInv /\ AnswerInv /\ PidInv /\ NamedInv

-----------------------------------------------------------------------------
(* The file has the certificate in it: all of it, and nothing else, if no   *)
(* write is short, and then the write loop runs once.                       *)
CertWritten(n, c) ==
  /\ HoldsOwn(n, c)
  /\ "shortwrite" \notin Faults => disk[n] = RawCert(c)

(* What the write loop has done to the file.                                *)
ContentInv(c) ==
  /\ pc[c] \in BeforeFile \cup {"create"} => cbTotal[c] = 0
  /\ pc[c] = "write" =>
       /\ Len(disk[strTempFile[c]]) = cbTotal[c]
       /\ \A i \in 1 .. cbTotal[c] : disk[strTempFile[c]][i][1] = c
       /\ "shortwrite" \notin Faults => disk[strTempFile[c]] = <<>>
  /\ pc[c] \in WrittenLabel => CertWritten(strTempFile[c], c)

(* The thread will not delete its file unless the process has ended well.   *)
BoundToKeep(c) ==
  \/ pc[c] \in {"started", "wait", "timedout"}
  \/ pc[c] = "unwind" /\ (FAILED(hr[c]) \/ dwExitCode[c] # 0)
  \/ pc[c] = "dispose" /\ m_fPreserve[c]

(* The certificate of c under the name n is not going to be touched.        *)
FileKept(n, c) ==
  /\ n \in TempName
  /\ CertWritten(n, c)
  /\ \A d \in Call : strTempFile[d] = n => d = c /\ BoundToKeep(c)

(* An exception has ended the call and destroyed its file, without the      *)
(* decision that Unwind makes.                                              *)
Thrown(c) == pc[c] = "thrown" /\ "badalloc" \in Faults

RunningKept ==
  \A c \in Call : proc[c] = "running" => FileKept(rawCertPath[c], c) \/ Thrown(c)

(* The places of the code in which a call may have left evidence.           *)
KeepLabel == {"unwind", "dispose"} \cup Ended

Evidence(e) == e.msg \in EvidenceMessage /\ e.file # NoPath

EntryKept(e) == Evidence(e) => FileKept(e.file, e.call) /\ pc[e.call] \in KeepLabel

EvidenceInv == \A i \in DOMAIN log : EntryKept(log[i])

(* The inductive invariant.                                                 *)
FileInv ==
  /\ StructInv
  /\ \A c \in Call : ContentInv(c)
  /\ RunningKept
  /\ EvidenceInv
=============================================================================
