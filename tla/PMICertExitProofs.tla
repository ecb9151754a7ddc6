------------------------- MODULE PMICertExitProofs --------------------------
(***************************************************************************)
(* Proofs about PMICertExit, for every number of calls, names and process  *)
(* identifiers, every certificate length and every combination of faults   *)
(* the statements do not exclude.                                          *)
(***************************************************************************)
EXTENDS PMICertExitInv, SequenceTheorems, TLAPS

-----------------------------------------------------------------------------
(* Facts about certificates                                                 *)

(* Every prefix of a certificate is a sequence of bytes, and so no prefix   *)
(* is mistaken for a missing file.                                          *)
LEMMA CertPrefixType ==
  ASSUME NEW c \in Call, NEW cb \in 0 .. CertLength
  PROVE  CertPrefix(c, cb) \in Seq(Byte)
<1>1. CertLength \in Nat /\ cb \in Nat
  BY ConstantsAssumption
<1>2. \A i \in 1 .. cb : <<c, i>> \in Byte
  BY <1>1 DEF Byte
<1>3. CertPrefix(c, cb) \in [1 .. cb -> Byte]
  BY <1>2 DEF CertPrefix
<1> QED
  BY <1>1, <1>3, SeqDef

(* The whole certificate is what one full write leaves in an empty file.    *)
LEMMA CertFacts ==
  ASSUME NEW c \in Call
  PROVE  /\ RawCert(c) \in Seq(Byte)
         /\ RawCert(c) # NoFile
         /\ <<>> \in Seq(Byte)
         /\ <<>> # NoFile
         /\ <<>> \o RawCert(c) = RawCert(c)
<1>1. CertLength \in Nat /\ CertLength \in 0 .. CertLength
  BY ConstantsAssumption
<1>2. RawCert(c) \in Seq(Byte)
  BY <1>1, CertPrefixType DEF RawCert
<1>3. <<>> \o RawCert(c) = RawCert(c)
  BY <1>2, ConcatEmptySeq
<1> QED
  BY <1>2, <1>3, EmptySeq, ConstantsAssumption

-----------------------------------------------------------------------------
(* The operations on temp files: what they do to the temp folder, and that  *)
(* they keep its types                                                      *)

(* The folder after one name got new content.                               *)
LEMMA DiskUpdate ==
  ASSUME TempFileTypeOK, NEW n \in TempName,
         NEW v \in Seq(Byte) \cup {NoFile}, disk' = [disk EXCEPT ![n] = v]
  PROVE  /\ disk' \in [TempName -> Seq(Byte) \cup {NoFile}]
         /\ disk'[n] = v
         /\ \A m \in TempName \ {n} : disk'[m] = disk[m]
BY DEF TempFileTypeOK

LEMMA EmptyContent == <<>> \in Seq(Byte) /\ <<>> # NoFile
BY EmptySeq, ConstantsAssumption

(* A temp file name is fresh, and taken from then on.                       *)
LEMMA TempFileNameEffect ==
  ASSUME TempFileTypeOK, NEW n, NEW h, TempFileName(n, h)
  PROVE  /\ TempFileTypeOK'
         /\ \/ /\ h = "S_OK"
               /\ n \in TempName
               /\ disk[n] = NoFile
               /\ disk'[n] # NoFile
               /\ \A m \in TempName \ {n} : disk'[m] = disk[m]
            \/ h \in {"E_OUTOFMEMORY", "E_WIN32"} /\ n = NoPath /\ disk' = disk
<1>1. CASE h = "S_OK"
  <2>1. n \in TempName /\ disk[n] = NoFile /\ disk' = [disk EXCEPT ![n] = <<>>]
    BY <1>1 DEF TempFileName
  <2>2. /\ disk' \in [TempName -> Seq(Byte) \cup {NoFile}]
        /\ disk'[n] = <<>>
        /\ \A m \in TempName \ {n} : disk'[m] = disk[m]
    BY <2>1, EmptyContent, DiskUpdate
  <2> QED
    BY <1>1, <2>1, <2>2, EmptyContent DEF TempFileName, TempFileTypeOK
<1>2. CASE h # "S_OK"
  BY <1>2 DEF TempFileName, TempFileTypeOK
<1> QED
  BY <1>1, <1>2

LEMMA TempFileCreateEffect ==
  ASSUME TempFileTypeOK, NEW c \in Call, NEW n \in TempName, NEW h,
         TempFileCreate(c, n, h)
  PROVE  /\ TempFileTypeOK'
         /\ m_strPath[c] = NoPath
         /\ UNCHANGED m_fPreserve
         /\ \/ /\ h = "S_OK"
               /\ disk'[n] = <<>>
               /\ \A m \in TempName \ {n} : disk'[m] = disk[m]
               /\ m_strPath' = [m_strPath EXCEPT ![c] = n]
               /\ m_hFile' = [m_hFile EXCEPT ![c] = TRUE]
            \/ /\ h \in {"E_OUTOFMEMORY", "E_WIN32"}
               /\ UNCHANGED <<disk, m_strPath, m_hFile>>
<1>1. CASE h = "S_OK"
  <2>1. /\ disk' = [disk EXCEPT ![n] = <<>>]
        /\ m_strPath[c] = NoPath
        /\ UNCHANGED m_fPreserve
        /\ m_strPath' = [m_strPath EXCEPT ![c] = n]
        /\ m_hFile' = [m_hFile EXCEPT ![c] = TRUE]
    BY <1>1 DEF TempFileCreate
  <2>2. /\ disk' \in [TempName -> Seq(Byte) \cup {NoFile}]
        /\ disk'[n] = <<>>
        /\ \A m \in TempName \ {n} : disk'[m] = disk[m]
    BY <2>1, EmptyContent, DiskUpdate
  <2>3. /\ m_strPath' \in [Call -> TempName \cup {NoPath}]
        /\ m_hFile' \in [Call -> BOOLEAN]
        /\ m_fPreserve' \in [Call -> BOOLEAN]
    BY <2>1 DEF TempFileTypeOK
  <2> QED
    BY <1>1, <2>1, <2>2, <2>3 DEF TempFileTypeOK
<1>2. CASE h # "S_OK"
  BY <1>2 DEF TempFileCreate, TempFileTypeOK
<1> QED
  BY <1>1, <1>2

LEMMA TempFileWriteEffect ==
  ASSUME TempFileTypeOK, NEW c \in Call, NEW cb \in 0 .. CertLength, NEW h,
         TempFileWrite(c, cb, h),
         m_strPath[c] \in TempName, disk[m_strPath[c]] # NoFile
  PROVE  /\ TempFileTypeOK'
         /\ UNCHANGED <<m_strPath, m_hFile, m_fPreserve>>
         /\ disk'[m_strPath[c]] # NoFile
         /\ \A m \in TempName \ {m_strPath[c]} : disk'[m] = disk[m]
         /\ \/ /\ h = "S_OK"
               /\ cb = CertLength \/ "shortwrite" \in Faults
               /\ disk'[m_strPath[c]] = disk[m_strPath[c]] \o CertPrefix(c, cb)
            \/ h = "E_WIN32" /\ disk' = disk
<1> DEFINE n == m_strPath[c]
           v == disk[n] \o CertPrefix(c, cb)
<1>1. UNCHANGED <<m_strPath, m_hFile, m_fPreserve>>
  BY DEF TempFileWrite
<1>2. CASE h = "S_OK"
  <2>1. disk[n] \in Seq(Byte)
    BY DEF TempFileTypeOK
  <2>2. v \in Seq(Byte)
    BY <2>1, CertPrefixType, ConcatProperties
  <2>3. v # NoFile
    BY <2>2, ConstantsAssumption
  <2>4. disk' = [disk EXCEPT ![n] = v]
    BY <1>2 DEF TempFileWrite
  <2> HIDE DEF n, v
  <2>5. /\ disk' \in [TempName -> Seq(Byte) \cup {NoFile}]
        /\ disk'[n] = v
        /\ \A m \in TempName \ {n} : disk'[m] = disk[m]
    BY <2>2, <2>4, DiskUpdate DEF n
  <2> QED
    BY <1>1, <1>2, <2>3, <2>5 DEF n, v, TempFileWrite, TempFileTypeOK
<1>3. CASE h # "S_OK"
  BY <1>1, <1>3 DEF TempFileWrite, TempFileTypeOK
<1> QED
  BY <1>2, <1>3

LEMMA TempFileDestroyEffect ==
  ASSUME TempFileTypeOK, NEW c \in Call, TempFileDestroy(c)
  PROVE  /\ TempFileTypeOK'
         /\ m_strPath' = [m_strPath EXCEPT ![c] = NoPath]
         /\ m_hFile' = [m_hFile EXCEPT ![c] = FALSE]
         /\ m_fPreserve' = [m_fPreserve EXCEPT ![c] = FALSE]
         /\ \/ disk' = disk
            \/ /\ ~ m_fPreserve[c]
               /\ \A m \in TempName \ {m_strPath[c]} : disk'[m] = disk[m]
<1>1. /\ m_strPath' = [m_strPath EXCEPT ![c] = NoPath]
      /\ m_hFile' = [m_hFile EXCEPT ![c] = FALSE]
      /\ m_fPreserve' = [m_fPreserve EXCEPT ![c] = FALSE]
  BY DEF TempFileDestroy
<1>2. CASE /\ ~ m_fPreserve[c]
           /\ m_strPath[c] \in TempName
           /\ disk' = [disk EXCEPT ![m_strPath[c]] = NoFile]
  <2>1. /\ disk' \in [TempName -> Seq(Byte) \cup {NoFile}]
        /\ \A m \in TempName \ {m_strPath[c]} : disk'[m] = disk[m]
    BY <1>2, DiskUpdate
  <2> QED
    BY <1>1, <1>2, <2>1 DEF TempFileTypeOK
<1>3. CASE disk' = disk
  BY <1>1, <1>3 DEF TempFileTypeOK
<1> QED
  BY <1>2, <1>3 DEF TempFileDestroy, TempFileTypeOK

-----------------------------------------------------------------------------
(* The log only grows, by the entry that was reported.                      *)
LEMMA ReportEventEffect ==
  ASSUME EventSourceTypeOK, NEW e \in Entry, NEW t, ReportEvent(e, t)
  PROVE  /\ EventSourceTypeOK'
         /\ \A i \in DOMAIN log' :
              (i \in DOMAIN log /\ log'[i] = log[i]) \/ log'[i] = e
<1>1. log \in Seq(Entry) /\ hEventLog \in BOOLEAN /\ hEventLog' = hEventLog
  BY DEF EventSourceTypeOK, ReportEvent
<1>2. CASE log' = log
  BY <1>1, <1>2 DEF EventSourceTypeOK
<1>3. CASE log' = Append(log, e)
  <2>1. /\ log' \in Seq(Entry)
        /\ Len(log') = Len(log) + 1
        /\ \A i \in 1 .. Len(log) : log'[i] = log[i]
        /\ log'[Len(log) + 1] = e
    BY <1>1, <1>3, AppendProperties
  <2>2. DOMAIN log = 1 .. Len(log) /\ DOMAIN log' = 1 .. Len(log')
    BY <1>1, <2>1, LenProperties
  <2>3. Len(log) \in Nat
    BY <1>1, LenProperties
  <2>4. \A i \in 1 .. Len(log) + 1 : i \in 1 .. Len(log) \/ i = Len(log) + 1
    BY <2>3
  <2> QED
    BY <1>1, <2>1, <2>2, <2>4 DEF EventSourceTypeOK
<1> QED
  BY <1>2, <1>3 DEF ReportEvent

-----------------------------------------------------------------------------
(* The operations on processes keep the types                               *)

LEMMA ProcessCreateEffect ==
  ASSUME ProcessTypeOK, NEW c \in Call, NEW n \in TempName, NEW h,
         ProcessCreate(c, n, h)
  PROVE  /\ ProcessTypeOK'
         /\ UNCHANGED exitStatus
         /\ \/ /\ h = "S_OK"
               /\ proc' = [proc EXCEPT ![c] = "running"]
               /\ rawCertPath' = [rawCertPath EXCEPT ![c] = n]
            \/ /\ h \in {"E_OUTOFMEMORY", "E_WIN32"}
               /\ UNCHANGED <<proc, rawCertPath>>
<1>1. CASE h = "S_OK"
  <2>1. PICK p \in Pid : dwProcessId' = [dwProcessId EXCEPT ![c] = p]
    BY <1>1 DEF ProcessCreate
  <2>2. /\ proc' = [proc EXCEPT ![c] = "running"]
        /\ rawCertPath' = [rawCertPath EXCEPT ![c] = n]
        /\ hProcess' = [hProcess EXCEPT ![c] = TRUE]
        /\ UNCHANGED exitStatus
    BY <1>1 DEF ProcessCreate
  <2> QED
    BY <1>1, <2>1, <2>2 DEF ProcessTypeOK
<1>2. CASE h # "S_OK"
  <2>1. /\ h \in {"E_OUTOFMEMORY", "E_WIN32"}
        /\ UNCHANGED <<proc, dwProcessId, rawCertPath, hProcess, exitStatus>>
    BY <1>2 DEF ProcessCreate
  <2> QED
    BY <2>1 DEF ProcessTypeOK
<1> QED
  BY <1>1, <1>2

LEMMA ProcessDestroyEffect ==
  ASSUME ProcessTypeOK, NEW c \in Call, ProcessDestroy(c)
  PROVE  /\ ProcessTypeOK'
         /\ UNCHANGED <<proc, dwProcessId, rawCertPath, exitStatus>>
BY DEF ProcessDestroy, ProcessTypeOK

LEMMA ProcessExitEffect ==
  ASSUME ProcessTypeOK, NEW c \in Call, ProcessExit(c)
  PROVE  /\ ProcessTypeOK'
         /\ proc[c] = "running"
         /\ proc' = [proc EXCEPT ![c] = "exited"]
         /\ UNCHANGED rawCertPath
         /\ \E x \in ExitCode : exitStatus' = [exitStatus EXCEPT ![c] = x]
BY DEF ProcessExit, ProcessTypeOK

-----------------------------------------------------------------------------
(* The structural invariant                                                 *)

(* A step of one thread cannot take a file from another: it writes only     *)
(* its own file, or one that did not exist.                                 *)
LEMMA FileOwnedStep ==
  ASSUME StructInv, NEW c \in Call,
         \A d \in Call \ {c} : strTempFile'[d] = strTempFile[d],
         \A m \in TempName :
           disk'[m] = disk[m] \/ m \in {strTempFile[c], strTempFile'[c]},
         \/ strTempFile'[c] = NoPath
         \/ /\ strTempFile'[c] \in TempName
            /\ \/ strTempFile'[c] = strTempFile[c]
               \/ disk[strTempFile'[c]] = NoFile
            /\ disk'[strTempFile'[c]] # NoFile
  PROVE  FileOwned'
<1>1. \A d \in Call : strTempFile[d] \in TempName \cup {NoPath}
  BY DEF StructInv, TypeOK
<1>2. ASSUME NEW d \in Call \ {c}, strTempFile[d] # NoPath
      PROVE  /\ strTempFile'[c] # strTempFile[d]
             /\ disk'[strTempFile[d]] # NoFile
  BY <1>1, <1>2 DEF StructInv, FileOwned
<1>3. ASSUME NEW d \in Call, strTempFile'[d] # NoPath
      PROVE  /\ disk'[strTempFile'[d]] # NoFile
             /\ \A e \in Call : strTempFile'[d] = strTempFile'[e] => d = e
  BY <1>1, <1>2, <1>3 DEF StructInv, FileOwned
<1> QED
  BY <1>3 DEF FileOwned

LEMMA GetTempFilePathStruct ==
  ASSUME StructInv, NEW c \in Call, GetTempFilePath(c), UNCHANGED <<module, evt>>
  PROVE  StructInv'
<1>1. PICK n \in TempName \cup {NoPath}, h \in HRESULT :
        /\ TempFileName(n, h)
        /\ strTempFile' = [strTempFile EXCEPT ![c] = n]
        /\ Result(c, h, "create", "dispose")
  BY DEF GetTempFilePath
<1>2. /\ pc[c] = "tempname"
      /\ UNCHANGED <<cbTotal, dwExitCode, processVars, eventVars>>
  BY DEF GetTempFilePath
<1>3. UNCHANGED <<m_strPath, m_hFile, m_fPreserve>>
  BY <1>1 DEF TempFileName
<1>4. /\ TempFileTypeOK'
      /\ \/ /\ h = "S_OK"
            /\ n \in TempName
            /\ disk[n] = NoFile
            /\ disk'[n] # NoFile
            /\ \A m \in TempName \ {n} : disk'[m] = disk[m]
         \/ h # "S_OK" /\ n = NoPath /\ disk' = disk
  BY <1>1, TempFileNameEffect DEF StructInv, TypeOK
<1>5. pc' = [pc EXCEPT ![c] = IF h = "S_OK" THEN "create" ELSE "dispose"]
  BY <1>1 DEF Result, Goto, FAILED
<1>6. TypeOK'
  BY <1>1, <1>2, <1>4, <1>5
     DEF StructInv, TypeOK, ProcessTypeOK, EventSourceTypeOK, processVars,
         eventVars, Result, Label, ActiveLabel, ProcessorLabel
<1>7. \A d \in Call : LocalInv(d)'
  BY <1>1, <1>2, <1>3, <1>4, <1>5
     DEF StructInv, TypeOK, LocalInv, BeforeFile, Ended, WrittenLabel
<1>8. \A d \in Call : ProcessInv(d)'
  BY <1>1, <1>2, <1>5
     DEF StructInv, TypeOK, ProcessInv, BeforeFile, processVars, Result
<1>9. FileOwned'
  <2>1. strTempFile'[c] = n /\ \A d \in Call \ {c} : strTempFile'[d] = strTempFile[d]
    BY <1>1 DEF StructInv, TypeOK
  <2> QED
    BY <1>4, <2>1, FileOwnedStep
<1> QED
  BY <1>6, <1>7, <1>8, <1>9 DEF StructInv

(* A step that moves one thread, sets its result and may write the log.     *)
LEMMA ThreadStep ==
  ASSUME StructInv, NEW c \in Call, NEW l \in Label, NEW h \in HRESULT,
         pc' = [pc EXCEPT ![c] = l], hr' = [hr EXCEPT ![c] = h],
         UNCHANGED <<tempFileVars, processVars, strTempFile, cbTotal,
                     dwExitCode, module>>,
         evt' \in [Call -> ExitEvent \cup {"NONE"}],
         EventSourceTypeOK',
         LocalInv(c)', ProcessInv(c)'
  PROVE  StructInv'
<1>1. TypeOK'
  BY DEF StructInv, TypeOK, TempFileTypeOK, ProcessTypeOK, tempFileVars,
         processVars
<1>2. \A d \in Call \ {c} : LocalInv(d)'
  BY DEF StructInv, TypeOK, LocalInv, tempFileVars
<1>3. \A d \in Call \ {c} : ProcessInv(d)'
  BY DEF StructInv, TypeOK, ProcessInv, processVars
<1>4. FileOwned'
  BY DEF StructInv, FileOwned, tempFileVars
<1> QED
  BY <1>1, <1>2, <1>3, <1>4 DEF StructInv

(* Outside NotifyCertIssued of CEventProcessor a thread has no file.        *)
LEMMA OutsideStep ==
  ASSUME StructInv, NEW c \in Call, NEW l, NEW h \in HRESULT,
         \/ /\ pc[c] \in BeforeFile
            /\ l \in BeforeFile \cup Ended
         \/ pc[c] = "leave" /\ l \in Ended,
         pc' = [pc EXCEPT ![c] = l], hr' = [hr EXCEPT ![c] = h],
         UNCHANGED <<tempFileVars, processVars, strTempFile, cbTotal,
                     dwExitCode, module>>,
         evt' \in [Call -> ExitEvent \cup {"NONE"}],
         EventSourceTypeOK'
  PROVE  StructInv'
<1>1. l \in Label /\ pc'[c] = l
  BY DEF BeforeFile, Ended, Label, ActiveLabel, ProcessorLabel, StructInv, TypeOK
<1>2. LocalInv(c)'
  BY <1>1 DEF StructInv, LocalInv, BeforeFile, Ended, WrittenLabel, tempFileVars
<1>3. ProcessInv(c)'
  BY <1>1 DEF StructInv, ProcessInv, BeforeFile, Ended, processVars
<1> QED
  BY <1>1, <1>2, <1>3, ThreadStep

LEMMA NotifyStruct ==
  ASSUME StructInv, NEW c \in Call, NEW e \in ExitEvent, Notify(c, e)
  PROVE  StructInv'
<1> DEFINE l == IF e = "OTHER" THEN "leave" ELSE "server"
<1>1. /\ pc[c] = "idle"
      /\ pc' = [pc EXCEPT ![c] = l]
      /\ evt' = [evt EXCEPT ![c] = e]
      /\ UNCHANGED <<tempFileVars, processVars, eventVars, hr, strTempFile,
                     cbTotal, dwExitCode, module>>
  BY DEF Notify, Goto
<1>2. hr[c] \in HRESULT /\ hr' = [hr EXCEPT ![c] = hr[c]]
  BY <1>1 DEF StructInv, TypeOK
<1>3. evt' \in [Call -> ExitEvent \cup {"NONE"}] /\ EventSourceTypeOK'
  BY <1>1 DEF StructInv, TypeOK, EventSourceTypeOK, eventVars
<1>4. l \in BeforeFile \cup Ended /\ pc[c] \in BeforeFile
  BY <1>1 DEF BeforeFile, Ended
<1> HIDE DEF l
<1> QED
  BY <1>1, <1>2, <1>3, <1>4, OutsideStep

LEMMA BeforeProcessorStruct ==
  ASSUME StructInv, NEW c \in Call,
         InitServer(c) \/ ReadProperties(c) \/ InitProcessor(c)
  PROVE  StructInv'
<1>1. PICK h \in HRESULT, l \in BeforeFile \cup Ended :
        hr' = [hr EXCEPT ![c] = h] /\ pc' = [pc EXCEPT ![c] = l]
  BY DEF InitServer, ReadProperties, InitProcessor, Result, Goto, BeforeFile,
         Ended
<1>2. /\ pc[c] \in BeforeFile
      /\ UNCHANGED <<tempFileVars, processVars, eventVars, strTempFile,
                     cbTotal, dwExitCode, module, evt>>
  BY DEF InitServer, ReadProperties, InitProcessor, BeforeFile
<1>3. evt' \in [Call -> ExitEvent \cup {"NONE"}] /\ EventSourceTypeOK'
  BY <1>2 DEF StructInv, TypeOK, EventSourceTypeOK, eventVars
<1> QED
  BY <1>1, <1>2, <1>3, OutsideStep

LEMMA LeaveNotifyStruct ==
  ASSUME StructInv, NEW c \in Call, LeaveNotify(c)
  PROVE  StructInv'
<1>1. /\ pc[c] = "leave"
      /\ hr' = [hr EXCEPT ![c] = "S_OK"]
      /\ pc' = [pc EXCEPT ![c] = "done"]
      /\ UNCHANGED <<tempFileVars, processVars, strTempFile, cbTotal,
                     dwExitCode, module, evt>>
  BY DEF LeaveNotify, Goto
<1>2. EventSourceTypeOK'
  <2> DEFINE e == [msg |-> "MSG_NOTIFY_FAILED", call |-> c, pid |-> NoPid,
                   file |-> NoPath]
  <2>1. e \in Entry
    BY DEF Entry, Message
  <2>2. CASE UNCHANGED eventVars
    BY <2>2 DEF StructInv, TypeOK, EventSourceTypeOK, eventVars
  <2>3. CASE ReportEvent(e, hr[c])
    BY <2>1, <2>3, ReportEventEffect DEF StructInv, TypeOK
  <2> QED
    BY <2>2, <2>3 DEF LeaveNotify, ReportNotifyFailedInternalError
<1>3. evt' \in [Call -> ExitEvent \cup {"NONE"}]
  BY <1>1 DEF StructInv, TypeOK
<1>4. "S_OK" \in HRESULT /\ "done" \in Ended
  BY DEF HRESULT, Ended
<1> QED
  BY <1>1, <1>2, <1>3, <1>4, OutsideStep

LEMMA CreateTempFileStruct ==
  ASSUME StructInv, NEW c \in Call, CreateTempFile(c), UNCHANGED <<module, evt>>
  PROVE  StructInv'
<1>1. PICK h \in HRESULT :
        TempFileCreate(c, strTempFile[c], h) /\ Result(c, h, "write", "dispose")
  BY DEF CreateTempFile
<1>2. /\ pc[c] = "create"
      /\ UNCHANGED <<strTempFile, cbTotal, dwExitCode, processVars, eventVars>>
  BY DEF CreateTempFile
<1>3. strTempFile[c] \in TempName
  BY <1>2 DEF StructInv, LocalInv
<1>4. /\ TempFileTypeOK'
      /\ m_strPath[c] = NoPath
      /\ UNCHANGED m_fPreserve
      /\ \/ /\ h = "S_OK"
            /\ disk'[strTempFile[c]] = <<>>
            /\ \A m \in TempName \ {strTempFile[c]} : disk'[m] = disk[m]
            /\ m_strPath' = [m_strPath EXCEPT ![c] = strTempFile[c]]
            /\ m_hFile' = [m_hFile EXCEPT ![c] = TRUE]
         \/ h # "S_OK" /\ UNCHANGED <<disk, m_strPath, m_hFile>>
  BY <1>1, <1>3, TempFileCreateEffect DEF StructInv, TypeOK
<1>5. pc' = [pc EXCEPT ![c] = IF h = "S_OK" THEN "write" ELSE "dispose"]
  BY <1>1 DEF Result, Goto, FAILED
<1>6. TypeOK'
  BY <1>1, <1>2, <1>4, <1>5
     DEF StructInv, TypeOK, ProcessTypeOK, EventSourceTypeOK, processVars,
         eventVars, Result, Label, ActiveLabel, ProcessorLabel
<1>7. \A d \in Call : LocalInv(d)'
  BY <1>2, <1>3, <1>4, <1>5
     DEF StructInv, TypeOK, TempFileTypeOK, LocalInv, BeforeFile, Ended,
         WrittenLabel
<1>8. \A d \in Call : ProcessInv(d)'
  BY <1>1, <1>2, <1>5
     DEF StructInv, TypeOK, ProcessInv, BeforeFile, processVars, Result
<1>9. FileOwned'
  <2>1. disk'[strTempFile[c]] # NoFile
    BY <1>3, <1>4, EmptyContent, ConstantsAssumption DEF StructInv, FileOwned
  <2> QED
    BY <1>2, <1>3, <1>4, <2>1, FileOwnedStep
<1> QED
  BY <1>6, <1>7, <1>8, <1>9 DEF StructInv

LEMMA WriteCertStruct ==
  ASSUME StructInv, NEW c \in Call, WriteCert(c), UNCHANGED <<module, evt>>
  PROVE  StructInv'
<1>1. PICK cb \in 0 .. CertLength, h \in HRESULT :
        /\ TempFileWrite(c, cb, h)
        /\ IF FAILED(h) THEN UNCHANGED cbTotal
           ELSE cbTotal' = [cbTotal EXCEPT ![c] = @ + cb]
        /\ Result(c, h, IF cbTotal'[c] < CertLength THEN "write" ELSE "format",
                  "dispose")
  BY DEF WriteCert
<1>2. /\ pc[c] = "write"
      /\ cbTotal[c] < CertLength
      /\ UNCHANGED <<strTempFile, dwExitCode, processVars, eventVars>>
  BY DEF WriteCert
<1>3. /\ strTempFile[c] \in TempName
      /\ m_strPath[c] = strTempFile[c]
      /\ disk[m_strPath[c]] # NoFile
  BY <1>2, ConstantsAssumption DEF StructInv, LocalInv, FileOwned
<1>4. /\ TempFileTypeOK'
      /\ UNCHANGED <<m_strPath, m_hFile, m_fPreserve>>
      /\ disk'[strTempFile[c]] # NoFile
      /\ \A m \in TempName \ {strTempFile[c]} : disk'[m] = disk[m]
  BY <1>1, <1>3, TempFileWriteEffect DEF StructInv, TypeOK
<1>5. PICK l \in {"write", "format", "dispose"} :
        /\ pc' = [pc EXCEPT ![c] = l]
        /\ hr' = [hr EXCEPT ![c] = h]
  BY <1>1 DEF Result, Goto, FAILED
<1>6. cbTotal' \in [Call -> 0 .. 2 * CertLength - 1]
  <2>1. CertLength \in Nat /\ cbTotal \in [Call -> 0 .. 2 * CertLength - 1]
    BY ConstantsAssumption DEF StructInv, TypeOK
  <2>2. cbTotal[c] + cb \in 0 .. 2 * CertLength - 1
    BY <1>2, <2>1
  <2> QED
    BY <1>1, <2>1, <2>2
<1>7. TypeOK'
  BY <1>2, <1>4, <1>5, <1>6
     DEF StructInv, TypeOK, ProcessTypeOK, EventSourceTypeOK, processVars,
         eventVars, Label, ActiveLabel, ProcessorLabel
<1>8. \A d \in Call : LocalInv(d)'
  BY <1>2, <1>3, <1>4, <1>5
     DEF StructInv, TypeOK, LocalInv, BeforeFile, Ended, WrittenLabel
<1>9. \A d \in Call : ProcessInv(d)'
  BY <1>2, <1>5 DEF StructInv, TypeOK, ProcessInv, BeforeFile, processVars
<1>10. FileOwned'
  BY <1>2, <1>3, <1>4, FileOwnedStep
<1> QED
  BY <1>7, <1>8, <1>9, <1>10 DEF StructInv

LEMMA FormatArgumentsStruct ==
  ASSUME StructInv, NEW c \in Call, FormatArguments(c), UNCHANGED <<module, evt>>
  PROVE  StructInv'
<1>1. PICK h \in HRESULT : Result(c, h, "launch", "dispose")
  BY DEF FormatArguments
<1>2. /\ pc[c] = "format"
      /\ m_hFile' = [m_hFile EXCEPT ![c] = FALSE]
      /\ UNCHANGED <<disk, m_strPath, m_fPreserve, strTempFile, cbTotal,
                     dwExitCode, processVars, eventVars>>
  BY DEF FormatArguments, TempFileClose
<1>3. PICK l \in {"launch", "dispose"} :
        pc' = [pc EXCEPT ![c] = l] /\ hr' = [hr EXCEPT ![c] = h]
  BY <1>1 DEF Result, Goto, FAILED
<1>4. TypeOK'
  BY <1>2, <1>3
     DEF StructInv, TypeOK, TempFileTypeOK, ProcessTypeOK, EventSourceTypeOK,
         processVars, eventVars, Label, ActiveLabel, ProcessorLabel
<1>5. \A d \in Call : LocalInv(d)'
  BY <1>2, <1>3
     DEF StructInv, TypeOK, TempFileTypeOK, LocalInv, BeforeFile, Ended,
         WrittenLabel
<1>6. \A d \in Call : ProcessInv(d)'
  BY <1>2, <1>3 DEF StructInv, TypeOK, ProcessInv, BeforeFile, processVars
<1>7. FileOwned'
  BY <1>2 DEF StructInv, FileOwned
<1> QED
  BY <1>4, <1>5, <1>6, <1>7 DEF StructInv

LEMMA StartProcessStruct ==
  ASSUME StructInv, NEW c \in Call, StartProcess(c), UNCHANGED <<module, evt>>
  PROVE  StructInv'
<1>1. PICK h \in HRESULT :
        /\ ProcessCreate(c, strTempFile[c], h)
        /\ Result(c, h, "started", "startfailed")
  BY DEF StartProcess
<1>2. /\ pc[c] = "launch"
      /\ UNCHANGED <<strTempFile, cbTotal, dwExitCode, tempFileVars, eventVars>>
  BY DEF StartProcess
<1>3. strTempFile[c] \in TempName
  BY <1>2 DEF StructInv, LocalInv, WrittenLabel
<1>4. /\ ProcessTypeOK'
      /\ UNCHANGED exitStatus
      /\ \/ /\ h = "S_OK"
            /\ proc' = [proc EXCEPT ![c] = "running"]
            /\ rawCertPath' = [rawCertPath EXCEPT ![c] = strTempFile[c]]
         \/ h # "S_OK" /\ UNCHANGED <<proc, rawCertPath>>
  BY <1>1, <1>3, ProcessCreateEffect DEF StructInv, TypeOK
<1>5. /\ pc' = [pc EXCEPT ![c] = IF h = "S_OK" THEN "started" ELSE "startfailed"]
      /\ hr' = [hr EXCEPT ![c] = h]
  BY <1>1 DEF Result, Goto, FAILED
<1>6. TypeOK'
  BY <1>2, <1>4, <1>5
     DEF StructInv, TypeOK, TempFileTypeOK, EventSourceTypeOK, tempFileVars,
         eventVars, Label, ActiveLabel, ProcessorLabel
<1>7. \A d \in Call : LocalInv(d)'
  BY <1>2, <1>5
     DEF StructInv, TypeOK, LocalInv, BeforeFile, Ended, WrittenLabel,
         tempFileVars
<1>8. \A d \in Call : ProcessInv(d)'
  BY <1>2, <1>4, <1>5
     DEF StructInv, TypeOK, ProcessTypeOK, ProcessInv, BeforeFile, FAILED
<1>9. FileOwned'
  BY <1>2 DEF StructInv, FileOwned, tempFileVars
<1> QED
  BY <1>6, <1>7, <1>8, <1>9 DEF StructInv

(* The entries the threads write are entries of the log's type.             *)
LEMMA ReportType ==
  ASSUME StructInv, NEW c \in Call, NEW m \in Message,
         NEW p \in Pid \cup {NoPid}, NEW n \in TempName \cup {NoPath}, NEW t,
         ReportEvent([msg |-> m, call |-> c, pid |-> p, file |-> n], t)
  PROVE  EventSourceTypeOK'
<1>1. [msg |-> m, call |-> c, pid |-> p, file |-> n] \in Entry
  BY DEF Entry
<1> QED
  BY <1>1, ReportEventEffect DEF StructInv, TypeOK

(* The steps that report something of a process: they go on to the end of   *)
(* RunProcess, or from its start to the wait.                               *)
LEMMA ReportStruct ==
  ASSUME StructInv, NEW c \in Call,
         \/ ReportStartFailed(c)
         \/ ReportStarted(c)
         \/ ReportTimedOut(c)
         \/ ReportVerdict(c),
         UNCHANGED <<module, evt>>
  PROVE  StructInv'
<1>1. PICK l \in {"wait", "unwind"} :
        /\ pc' = [pc EXCEPT ![c] = l]
        /\ pc[c] \in {"startfailed", "started", "timedout", "verdict"}
        /\ l = "wait" => pc[c] = "started"
        /\ UNCHANGED <<hr, strTempFile, cbTotal, dwExitCode, tempFileVars,
                       processVars>>
  BY DEF ReportStartFailed, ReportStarted, ReportTimedOut, ReportVerdict, Goto
<1>2. hr[c] \in HRESULT /\ hr' = [hr EXCEPT ![c] = hr[c]]
  BY <1>1 DEF StructInv, TypeOK
<1>3. EventSourceTypeOK'
  <2>1. dwProcessId[c] \in Pid \cup {NoPid} /\ strTempFile[c] \in TempName \cup {NoPath}
    BY DEF StructInv, TypeOK, ProcessTypeOK
  <2>2. CASE ReportStartFailed(c)
    BY <2>1, <2>2, ReportType
       DEF ReportStartFailed, ReportProcessStartFailed, Message
  <2>3. CASE ReportStarted(c)
    BY <2>1, <2>3, ReportType
       DEF ReportStarted, ReportProcessStartSucceeded, Message
  <2>4. CASE ReportTimedOut(c)
    BY <2>1, <2>4, ReportType
       DEF ReportTimedOut, ReportProcessTimedOut, Message
  <2>5. CASE ReportVerdict(c)
    BY <2>1, <2>5, ReportType
       DEF ReportVerdict, ReportProcessFailed, ReportProcessSucceeded, Message
  <2> QED
    BY <2>2, <2>3, <2>4, <2>5
<1>4. LocalInv(c)'
  BY <1>1
     DEF StructInv, TypeOK, LocalInv, BeforeFile, Ended, WrittenLabel,
         tempFileVars
<1>5. ProcessInv(c)'
  BY <1>1 DEF StructInv, TypeOK, ProcessInv, BeforeFile, processVars
<1>6. l \in Label /\ evt' \in [Call -> ExitEvent \cup {"NONE"}]
  BY <1>1 DEF StructInv, TypeOK, Label, ActiveLabel, ProcessorLabel
<1> QED
  BY <1>1, <1>2, <1>3, <1>4, <1>5, <1>6, ThreadStep

LEMMA WaitForProcessStruct ==
  ASSUME StructInv, NEW c \in Call, WaitForProcess(c), UNCHANGED <<module, evt>>
  PROVE  StructInv'
<1>1. PICK h \in HRESULT, l \in {"exitcode", "timedout", "unwind"} :
        /\ hr' = [hr EXCEPT ![c] = h]
        /\ pc' = [pc EXCEPT ![c] = l]
        /\ l = "exitcode" => proc[c] = "exited"
        /\ l = "timedout" => FAILED(h)
  BY DEF WaitForProcess, ProcessWait, Result, Goto, FAILED
<1>2. /\ pc[c] = "wait"
      /\ UNCHANGED <<strTempFile, cbTotal, dwExitCode, tempFileVars,
                     eventVars, processVars>>
  BY DEF WaitForProcess, ProcessWait
<1>3. EventSourceTypeOK'
  BY <1>2 DEF StructInv, TypeOK, EventSourceTypeOK, eventVars
<1>4. LocalInv(c)'
  BY <1>1, <1>2
     DEF StructInv, TypeOK, LocalInv, BeforeFile, Ended, WrittenLabel,
         tempFileVars
<1>5. ProcessInv(c)'
  BY <1>1, <1>2 DEF StructInv, TypeOK, ProcessInv, BeforeFile, processVars
<1>6. l \in Label /\ evt' \in [Call -> ExitEvent \cup {"NONE"}]
  BY <1>1 DEF StructInv, TypeOK, Label, ActiveLabel, ProcessorLabel
<1> QED
  BY <1>1, <1>2, <1>3, <1>4, <1>5, <1>6, ThreadStep

LEMMA ReadExitCodeStruct ==
  ASSUME StructInv, NEW c \in Call, ReadExitCode(c), UNCHANGED <<module, evt>>
  PROVE  StructInv'
<1>1. PICK x \in ExitCode, h \in HRESULT :
        /\ ProcessGetExitCode(c, x, h)
        /\ dwExitCode' = [dwExitCode EXCEPT ![c] = x]
        /\ Result(c, h, "verdict", "unwind")
  BY DEF ReadExitCode
<1>2. /\ pc[c] = "exitcode"
      /\ UNCHANGED <<strTempFile, cbTotal, tempFileVars, processVars, eventVars>>
  BY <1>1 DEF ReadExitCode, ProcessGetExitCode
<1>3. /\ pc' = [pc EXCEPT ![c] = IF h = "S_OK" THEN "verdict" ELSE "unwind"]
      /\ hr' = [hr EXCEPT ![c] = h]
      /\ h = "S_OK" => x = exitStatus[c]
  <2>1. proc[c] = "exited"
    BY <1>2 DEF StructInv, ProcessInv
  <2> QED
    BY <1>1, <2>1 DEF Result, Goto, FAILED, ProcessGetExitCode
<1>4. TypeOK'
  BY <1>1, <1>2, <1>3
     DEF StructInv, TypeOK, TempFileTypeOK, ProcessTypeOK, EventSourceTypeOK,
         tempFileVars, processVars, eventVars, Label, ActiveLabel,
         ProcessorLabel
<1>5. \A d \in Call : LocalInv(d)'
  BY <1>2, <1>3
     DEF StructInv, TypeOK, LocalInv, BeforeFile, Ended, WrittenLabel,
         tempFileVars
<1>6. \A d \in Call : ProcessInv(d)'
  BY <1>1, <1>2, <1>3
     DEF StructInv, TypeOK, ProcessInv, BeforeFile, processVars
<1>7. FileOwned'
  BY <1>2 DEF StructInv, FileOwned, tempFileVars
<1> QED
  BY <1>4, <1>5, <1>6, <1>7 DEF StructInv

LEMMA UnwindStruct ==
  ASSUME StructInv, NEW c \in Call, Unwind(c), UNCHANGED <<module, evt>>
  PROVE  StructInv'
<1>1. /\ pc[c] = "unwind"
      /\ pc' = [pc EXCEPT ![c] = "dispose"]
      /\ UNCHANGED <<hr, strTempFile, cbTotal, dwExitCode, eventVars, disk,
                     m_strPath, m_hFile>>
  BY DEF Unwind, Goto, TempFilePreserve, tempFileVars
<1>2. m_fPreserve' = m_fPreserve \/ m_fPreserve' = [m_fPreserve EXCEPT ![c] = TRUE]
  BY DEF Unwind, TempFilePreserve, tempFileVars
<1>3. /\ ProcessTypeOK'
      /\ UNCHANGED <<proc, rawCertPath, exitStatus>>
  BY ProcessDestroyEffect DEF Unwind, StructInv, TypeOK
<1>4. TypeOK'
  BY <1>1, <1>2, <1>3
     DEF StructInv, TypeOK, TempFileTypeOK, EventSourceTypeOK, eventVars,
         Label, ActiveLabel, ProcessorLabel
<1>5. \A d \in Call : LocalInv(d)'
  BY <1>1, <1>2
     DEF StructInv, TypeOK, TempFileTypeOK, LocalInv, BeforeFile, Ended,
         WrittenLabel
<1>6. \A d \in Call : ProcessInv(d)'
  BY <1>1, <1>3 DEF StructInv, TypeOK, ProcessInv, BeforeFile
<1>7. FileOwned'
  BY <1>1 DEF StructInv, FileOwned
<1> QED
  BY <1>4, <1>5, <1>6, <1>7 DEF StructInv

LEMMA DisposeStruct ==
  ASSUME StructInv, NEW c \in Call, Dispose(c), UNCHANGED <<module, evt>>
  PROVE  StructInv'
<1>1. /\ pc[c] = "dispose"
      /\ pc' = [pc EXCEPT ![c] = "leave"]
      /\ strTempFile' = [strTempFile EXCEPT ![c] = NoPath]
      /\ cbTotal' = [cbTotal EXCEPT ![c] = 0]
      /\ dwExitCode' = [dwExitCode EXCEPT ![c] = 0]
      /\ UNCHANGED <<hr, processVars, eventVars>>
  BY DEF Dispose, Goto
<1>2. /\ TempFileTypeOK'
      /\ m_strPath' = [m_strPath EXCEPT ![c] = NoPath]
      /\ m_hFile' = [m_hFile EXCEPT ![c] = FALSE]
      /\ m_fPreserve' = [m_fPreserve EXCEPT ![c] = FALSE]
      /\ \A m \in TempName \ {m_strPath[c]} : disk'[m] = disk[m]
  BY TempFileDestroyEffect DEF Dispose, StructInv, TypeOK
<1>3. TypeOK'
  <2>1. 0 \in 0 .. 2 * CertLength - 1
    BY ConstantsAssumption
  <2> QED
    BY <1>1, <1>2, <2>1
       DEF StructInv, TypeOK, ProcessTypeOK, EventSourceTypeOK, processVars,
           eventVars, Label, ActiveLabel, ProcessorLabel, ExitCode
<1>4. \A d \in Call : LocalInv(d)'
  BY <1>1, <1>2
     DEF StructInv, TypeOK, TempFileTypeOK, LocalInv, BeforeFile, Ended,
         WrittenLabel
<1>5. \A d \in Call : ProcessInv(d)'
  BY <1>1 DEF StructInv, TypeOK, ProcessInv, BeforeFile, processVars
<1>6. FileOwned'
  <2>1. m_strPath[c] \in {NoPath, strTempFile[c]} /\ NoPath \notin TempName
    BY ConstantsAssumption DEF StructInv, LocalInv
  <2>2. strTempFile'[c] = NoPath /\ \A d \in Call \ {c} : strTempFile'[d] = strTempFile[d]
    BY <1>1 DEF StructInv, TypeOK
  <2>3. \A m \in TempName :
          disk'[m] = disk[m] \/ m \in {strTempFile[c], strTempFile'[c]}
    BY <1>2, <2>1
  <2> QED
    BY <2>2, <2>3, FileOwnedStep
<1> QED
  BY <1>3, <1>4, <1>5, <1>6 DEF StructInv

LEMMA AllocThrowsStruct ==
  ASSUME StructInv, NEW c \in Call, AllocThrows(c)
  PROVE  StructInv'
<1>1. /\ pc' = [pc EXCEPT ![c] = "thrown"]
      /\ hr' = [hr EXCEPT ![c] = "S_OK"]
      /\ strTempFile' = [strTempFile EXCEPT ![c] = NoPath]
      /\ cbTotal' = [cbTotal EXCEPT ![c] = 0]
      /\ dwExitCode' = [dwExitCode EXCEPT ![c] = 0]
      /\ UNCHANGED <<eventVars, module, evt>>
  BY DEF AllocThrows, Goto
<1>2. /\ TempFileTypeOK'
      /\ m_strPath' = [m_strPath EXCEPT ![c] = NoPath]
      /\ m_hFile' = [m_hFile EXCEPT ![c] = FALSE]
      /\ m_fPreserve' = [m_fPreserve EXCEPT ![c] = FALSE]
      /\ \A m \in TempName \ {m_strPath[c]} : disk'[m] = disk[m]
  BY TempFileDestroyEffect DEF AllocThrows, StructInv, TypeOK
<1>3. /\ ProcessTypeOK'
      /\ UNCHANGED <<proc, dwProcessId, rawCertPath, exitStatus>>
  BY ProcessDestroyEffect DEF AllocThrows, StructInv, TypeOK
<1>4. TypeOK'
  <2>1. 0 \in 0 .. 2 * CertLength - 1
    BY ConstantsAssumption
  <2> QED
    BY <1>1, <1>2, <1>3, <2>1
       DEF StructInv, TypeOK, EventSourceTypeOK, eventVars, Label, HRESULT,
           ExitCode
<1>5. \A d \in Call : LocalInv(d)'
  BY <1>1, <1>2
     DEF StructInv, TypeOK, TempFileTypeOK, LocalInv, BeforeFile, Ended,
         WrittenLabel
<1>6. \A d \in Call : ProcessInv(d)'
  BY <1>1, <1>3 DEF StructInv, TypeOK, ProcessInv, BeforeFile
<1>7. FileOwned'
  <2>1. m_strPath[c] \in {NoPath, strTempFile[c]} /\ NoPath \notin TempName
    BY ConstantsAssumption DEF StructInv, LocalInv
  <2>2. strTempFile'[c] = NoPath /\ \A d \in Call \ {c} : strTempFile'[d] = strTempFile[d]
    BY <1>1 DEF StructInv, TypeOK
  <2>3. \A m \in TempName :
          disk'[m] = disk[m] \/ m \in {strTempFile[c], strTempFile'[c]}
    BY <1>2, <2>1
  <2> QED
    BY <2>2, <2>3, FileOwnedStep
<1> QED
  BY <1>4, <1>5, <1>6, <1>7 DEF StructInv

-----------------------------------------------------------------------------
(* The environment and the structural invariant                             *)

LEMMA ProcessorExitsStruct ==
  ASSUME StructInv, NEW c \in Call, ProcessorExits(c)
  PROVE  StructInv'
<1>1. UNCHANGED <<tempFileVars, eventVars, localVars, module, evt>>
  BY DEF ProcessorExits
<1>2. PICK x \in ExitCode :
        /\ ProcessTypeOK'
        /\ proc[c] = "running"
        /\ proc' = [proc EXCEPT ![c] = "exited"]
        /\ UNCHANGED rawCertPath
        /\ exitStatus' = [exitStatus EXCEPT ![c] = x]
  BY ProcessExitEffect DEF ProcessorExits, StructInv, TypeOK
<1>3. TypeOK'
  BY <1>1, <1>2
     DEF StructInv, TypeOK, TempFileTypeOK, EventSourceTypeOK, tempFileVars,
         eventVars, localVars
<1>4. \A d \in Call : LocalInv(d)'
  BY <1>1 DEF StructInv, LocalInv, tempFileVars, localVars
<1>5. \A d \in Call : ProcessInv(d)'
  BY <1>1, <1>2
     DEF StructInv, TypeOK, ProcessTypeOK, ProcessInv, BeforeFile, localVars
<1>6. FileOwned'
  BY <1>1 DEF StructInv, FileOwned, tempFileVars, localVars
<1> QED
  BY <1>3, <1>4, <1>5, <1>6 DEF StructInv

LEMMA ServiceStruct ==
  ASSUME StructInv, Initialize \/ StopService
  PROVE  StructInv'
<1>1. UNCHANGED <<tempFileVars, processVars, localVars, evt, log>>
  BY DEF Initialize, StopService, EventSourceOpen, EventSourceClose, eventVars
<1>2. hEventLog' \in BOOLEAN /\ module' \in {"down", "ready", "failed"}
  BY DEF Initialize, StopService, EventSourceOpen, EventSourceClose, eventVars,
         StructInv, TypeOK, EventSourceTypeOK
<1>3. TypeOK'
  BY <1>1, <1>2
     DEF StructInv, TypeOK, TempFileTypeOK, ProcessTypeOK, EventSourceTypeOK,
         tempFileVars, processVars, localVars
<1>4. \A d \in Call : LocalInv(d)'
  BY <1>1 DEF StructInv, LocalInv, tempFileVars, localVars
<1>5. \A d \in Call : ProcessInv(d)'
  BY <1>1 DEF StructInv, ProcessInv, processVars, localVars
<1>6. FileOwned'
  BY <1>1 DEF StructInv, FileOwned, tempFileVars, localVars
<1> QED
  BY <1>3, <1>4, <1>5, <1>6 DEF StructInv

LEMMA CrashStruct ==
  ASSUME StructInv, CrashService
  PROVE  StructInv'
<1> DEFINE lost == {c \in Call : Active(c)}
<1>1. /\ m_strPath' = [c \in Call |-> IF c \in lost THEN NoPath ELSE m_strPath[c]]
      /\ m_hFile' = [c \in Call |-> IF c \in lost THEN FALSE ELSE m_hFile[c]]
      /\ m_fPreserve' = [c \in Call |-> IF c \in lost THEN FALSE ELSE m_fPreserve[c]]
      /\ disk' = disk
  BY DEF CrashService, TempFileAbandon
<1>2. /\ hProcess' = [c \in Call |-> IF c \in lost THEN FALSE ELSE hProcess[c]]
      /\ UNCHANGED <<proc, dwProcessId, rawCertPath, exitStatus>>
  BY DEF CrashService, ProcessAbandon
<1>3. /\ pc' = [c \in Call |-> IF c \in lost THEN "crashed" ELSE pc[c]]
      /\ hr' = [c \in Call |-> IF c \in lost THEN "S_OK" ELSE hr[c]]
      /\ strTempFile' = [c \in Call |-> IF c \in lost THEN NoPath ELSE strTempFile[c]]
      /\ cbTotal' = [c \in Call |-> IF c \in lost THEN 0 ELSE cbTotal[c]]
      /\ dwExitCode' = [c \in Call |-> IF c \in lost THEN 0 ELSE dwExitCode[c]]
      /\ hEventLog' = FALSE
      /\ module' = "down"
      /\ UNCHANGED <<log, evt>>
  BY DEF CrashService, EventSourceClose
<1> HIDE DEF lost
<1>4. TypeOK'
  <2>1. 0 \in 0 .. 2 * CertLength - 1
    BY ConstantsAssumption
  <2> QED
    BY <1>1, <1>2, <1>3, <2>1
       DEF StructInv, TypeOK, TempFileTypeOK, ProcessTypeOK, EventSourceTypeOK,
           Label, HRESULT, ExitCode
<1>5. \A d \in Call : LocalInv(d)'
  BY <1>1, <1>3 DEF StructInv, LocalInv, BeforeFile, Ended, WrittenLabel
<1>6. \A d \in Call : ProcessInv(d)'
  BY <1>2, <1>3 DEF StructInv, ProcessInv, BeforeFile
<1>7. FileOwned'
  BY <1>1, <1>3 DEF StructInv, FileOwned
<1> QED
  BY <1>4, <1>5, <1>6, <1>7 DEF StructInv

-----------------------------------------------------------------------------
LEMMA StructInit == Init => StructInv
<1> SUFFICES ASSUME Init PROVE StructInv
  OBVIOUS
<1>1. TypeOK
  <2>1. 0 \in 0 .. 2 * CertLength - 1 /\ <<>> \in Seq(Entry)
    BY ConstantsAssumption, EmptySeq
  <2> QED
    BY <2>1
       DEF Init, TypeOK, TempFileInit, ProcessInit, EventSourceInit,
           TempFileTypeOK, ProcessTypeOK, EventSourceTypeOK, Label, HRESULT,
           ExitCode
<1>2. \A c \in Call : LocalInv(c)
  BY DEF Init, TempFileInit, LocalInv, BeforeFile, Ended, WrittenLabel
<1>3. \A c \in Call : ProcessInv(c)
  BY DEF Init, ProcessInit, ProcessInv, BeforeFile
<1>4. FileOwned
  BY DEF Init, FileOwned
<1> QED
  BY <1>1, <1>2, <1>3, <1>4 DEF StructInv

LEMMA StructStep == StructInv /\ [Next]_vars => StructInv'
<1> SUFFICES ASSUME StructInv, [Next]_vars PROVE StructInv'
  OBVIOUS
<1>1. CASE Initialize \/ StopService
  BY <1>1, ServiceStruct
<1>2. CASE CrashService
  BY <1>2, CrashStruct
<1>3. ASSUME NEW c \in Call, NEW e \in ExitEvent, Notify(c, e)
      PROVE  StructInv'
  BY <1>3, NotifyStruct
<1>4. ASSUME NEW c \in Call, Step(c)
      PROVE  StructInv'
  <2>1. CASE InitServer(c) \/ ReadProperties(c) \/ InitProcessor(c)
    BY <2>1, BeforeProcessorStruct
  <2>2. CASE EventProcessorNext(c) /\ UNCHANGED <<module, evt>>
    BY <2>2, GetTempFilePathStruct, CreateTempFileStruct, WriteCertStruct,
       FormatArgumentsStruct, StartProcessStruct, ReportStruct,
       WaitForProcessStruct, ReadExitCodeStruct, UnwindStruct, DisposeStruct
       DEF EventProcessorNext
  <2>3. CASE LeaveNotify(c)
    BY <2>3, LeaveNotifyStruct
  <2> QED
    BY <1>4, <2>1, <2>2, <2>3 DEF Step
<1>5. ASSUME NEW c \in Call, ProcessorExits(c)
      PROVE  StructInv'
  BY <1>5, ProcessorExitsStruct
<1>6. ASSUME NEW c \in Call, AllocThrows(c)
      PROVE  StructInv'
  BY <1>6, AllocThrowsStruct
<1>7. CASE UNCHANGED vars
  BY <1>7
     DEF vars, tempFileVars, processVars, eventVars, localVars, StructInv,
         TypeOK, TempFileTypeOK, ProcessTypeOK, EventSourceTypeOK, LocalInv,
         ProcessInv, FileOwned
<1> QED
  BY <1>1, <1>2, <1>3, <1>4, <1>5, <1>6, <1>7 DEF Next

(* The structural invariant holds whatever fails.                           *)
LEMMA StructAlways == Spec => []StructInv
BY StructInit, StructStep, PTL DEF Spec

(* Type correctness, under every fault: no call ever counts more than two   *)
(* certificate lengths as written, and the log holds only whole entries.    *)
THEOREM TypeCorrect == Spec => []TypeOK
<1>1. StructInv => TypeOK
  BY DEF StructInv
<1> QED
  BY <1>1, StructAlways, PTL

-----------------------------------------------------------------------------
(* The log, whatever fails                                                  *)

LEMMA ReportAdds ==
  ASSUME StructInv, NEW c \in Call, NEW m \in Message,
         NEW p \in Pid \cup {NoPid}, NEW n \in TempName \cup {NoPath}, NEW t,
         ReportEvent([msg |-> m, call |-> c, pid |-> p, file |-> n], t)
  PROVE  \A i \in DOMAIN log' :
           \/ i \in DOMAIN log /\ log'[i] = log[i]
           \/ log'[i].msg = m /\ log'[i].call = c /\ log'[i].file = n
<1>1. [msg |-> m, call |-> c, pid |-> p, file |-> n] \in Entry
  BY DEF Entry
<1> QED
  BY <1>1, ReportEventEffect DEF StructInv, TypeOK

(* What the entry of a report says, for the place of the code it is in.     *)
LEMMA ReportedEntry ==
  ASSUME StructInv, NEW c \in Call,
         \/ ReportStartFailed(c)
         \/ ReportStarted(c)
         \/ ReportTimedOut(c)
         \/ ReportVerdict(c)
  PROVE  \A i \in DOMAIN log' :
           \/ i \in DOMAIN log /\ log'[i] = log[i]
           \/ /\ log'[i].call = c
              /\ log'[i].file \in {NoPath, strTempFile[c]}
              /\ \/ log'[i].msg = "MSG_PROCESS_START_FAILED" /\ pc[c] = "startfailed"
                 \/ log'[i].msg = "MSG_PROCESS_START_SUCCEEDED" /\ pc[c] = "started"
                 \/ log'[i].msg = "MSG_PROCESS_TIMEDOUT" /\ pc[c] = "timedout"
                 \/ /\ log'[i].msg = "MSG_PROCESS_FAILED"
                    /\ pc[c] = "verdict"
                    /\ dwExitCode[c] # 0
                 \/ /\ log'[i].msg = "MSG_PROCESS_SUCCEEDED"
                    /\ pc[c] = "verdict"
                    /\ dwExitCode[c] = 0
<1>1. /\ dwProcessId[c] \in Pid \cup {NoPid}
      /\ strTempFile[c] \in TempName \cup {NoPath}
  BY DEF StructInv, TypeOK, ProcessTypeOK
<1>2. CASE ReportStartFailed(c)
  <2>1. PICK n \in {NoPath, strTempFile[c]} :
          ReportEvent([msg |-> "MSG_PROCESS_START_FAILED", call |-> c,
                       pid |-> NoPid, file |-> n], hr[c])
    BY <1>2 DEF ReportStartFailed, ReportProcessStartFailed
  <2>2. \A i \in DOMAIN log' :
          \/ i \in DOMAIN log /\ log'[i] = log[i]
          \/ /\ log'[i].msg = "MSG_PROCESS_START_FAILED"
             /\ log'[i].call = c
             /\ log'[i].file = n
    BY <1>1, <2>1, ReportAdds DEF Message
  <2> QED
    BY <1>2, <2>2 DEF ReportStartFailed
<1>3. CASE ReportStarted(c)
  BY <1>1, <1>3, ReportAdds
     DEF ReportStarted, ReportProcessStartSucceeded, Message
<1>4. CASE ReportTimedOut(c)
  BY <1>1, <1>4, ReportAdds DEF ReportTimedOut, ReportProcessTimedOut, Message
<1>5. CASE ReportVerdict(c) /\ dwExitCode[c] # 0
  BY <1>1, <1>5, ReportAdds DEF ReportVerdict, ReportProcessFailed, Message
<1>6. CASE ReportVerdict(c) /\ dwExitCode[c] = 0
  BY <1>1, <1>6, ReportAdds DEF ReportVerdict, ReportProcessSucceeded, Message
<1> QED
  BY <1>2, <1>3, <1>4, <1>5, <1>6

LEMMA FailureEntry ==
  ASSUME StructInv, NEW c \in Call, LeaveNotify(c)
  PROVE  \A i \in DOMAIN log' :
           \/ i \in DOMAIN log /\ log'[i] = log[i]
           \/ log'[i].msg = "MSG_NOTIFY_FAILED"
<1>1. CASE UNCHANGED eventVars
  BY <1>1 DEF eventVars
<1>2. CASE ReportNotifyFailedInternalError(c, hr[c])
  BY <1>2, ReportAdds DEF ReportNotifyFailedInternalError, Message
<1> QED
  BY <1>1, <1>2 DEF LeaveNotify

(* Exit codes do not change once a process has ended.                       *)
LEMMA VerdictStep ==
  ASSUME StructInv, VerdictsAreTrue,
         \A d \in Call : proc[d] = "exited" =>
           proc'[d] = "exited" /\ exitStatus'[d] = exitStatus[d],
         \A i \in DOMAIN log' :
           (i \in DOMAIN log /\ log'[i] = log[i]) \/ VerdictIsTrue(log[i])'
  PROVE  VerdictsAreTrue'
<1>1. ASSUME NEW i \in DOMAIN log, log'[i] = log[i]
      PROVE  VerdictIsTrue(log[i])'
  <2>1. log[i] \in Entry
    BY ElementOfSeq, LenProperties DEF StructInv, TypeOK, EventSourceTypeOK
  <2>2. log[i].call \in Call /\ VerdictIsTrue(log[i])
    BY <2>1 DEF Entry, VerdictsAreTrue
  <2> QED
    BY <1>1, <2>2 DEF VerdictIsTrue
<1> QED
  BY <1>1 DEF VerdictsAreTrue

(* The steps that have nothing to do with the log or with an exit code.     *)
LEMMA UnloggedStep ==
  ASSUME StructInv, VerdictsAreTrue, log' = log,
         UNCHANGED <<proc, exitStatus>>
  PROVE  VerdictsAreTrue'
BY DEF VerdictsAreTrue, VerdictIsTrue

LEMMA VerdictNext ==
  StructInv /\ VerdictsAreTrue /\ [Next]_vars => VerdictsAreTrue'
<1> SUFFICES ASSUME StructInv, VerdictsAreTrue, [Next]_vars
             PROVE  VerdictsAreTrue'
  OBVIOUS
<1>1. CASE Initialize \/ StopService \/ CrashService
  BY <1>1, UnloggedStep
     DEF Initialize, StopService, CrashService, EventSourceOpen,
         EventSourceClose, ProcessAbandon, processVars, eventVars
<1>2. ASSUME NEW c \in Call,
             \/ \E e \in ExitEvent : Notify(c, e)
             \/ InitServer(c) \/ ReadProperties(c) \/ InitProcessor(c)
      PROVE  VerdictsAreTrue'
  BY <1>2, UnloggedStep
     DEF Notify, InitServer, ReadProperties, InitProcessor, processVars, eventVars
<1>3. ASSUME NEW c \in Call,
             \/ GetTempFilePath(c) \/ CreateTempFile(c) \/ WriteCert(c)
             \/ FormatArguments(c) \/ WaitForProcess(c) \/ ReadExitCode(c)
             \/ Unwind(c) \/ Dispose(c) \/ AllocThrows(c)
      PROVE  VerdictsAreTrue'
  BY <1>3, UnloggedStep
     DEF GetTempFilePath, CreateTempFile, WriteCert, FormatArguments,
         WaitForProcess, ReadExitCode, Unwind, Dispose, AllocThrows, ProcessWait,
         ProcessGetExitCode, ProcessDestroy, processVars, eventVars
<1>4. ASSUME NEW c \in Call, StartProcess(c)
      PROVE  VerdictsAreTrue'
  <2>1. pc[c] = "launch" /\ log' = log
    BY <1>4 DEF StartProcess, eventVars
  <2>2. proc[c] = "none" /\ strTempFile[c] \in TempName
    BY <2>1 DEF StructInv, LocalInv, ProcessInv, WrittenLabel
  <2>3. \A d \in Call : proc[d] = "exited" =>
          proc'[d] = "exited" /\ exitStatus'[d] = exitStatus[d]
    BY <1>4, <2>2, ProcessCreateEffect
       DEF StartProcess, StructInv, TypeOK, ProcessTypeOK
  <2> QED
    BY <2>1, <2>3, VerdictStep
<1>5. ASSUME NEW c \in Call, ProcessorExits(c)
      PROVE  VerdictsAreTrue'
  <2>1. \A d \in Call : proc[d] = "exited" =>
          proc'[d] = "exited" /\ exitStatus'[d] = exitStatus[d]
    BY <1>5, ProcessExitEffect
       DEF ProcessorExits, StructInv, TypeOK, ProcessTypeOK
  <2> QED
    BY <1>5, <2>1, VerdictStep DEF ProcessorExits, eventVars
<1>6. ASSUME NEW c \in Call,
             \/ ReportStartFailed(c) \/ ReportStarted(c)
             \/ ReportTimedOut(c) \/ ReportVerdict(c)
      PROVE  VerdictsAreTrue'
  <2>1. UNCHANGED <<proc, exitStatus>>
    BY <1>6 DEF ReportStartFailed, ReportStarted, ReportTimedOut, ReportVerdict,
                processVars
  <2>2. pc[c] = "verdict" => proc[c] = "exited" /\ dwExitCode[c] = exitStatus[c]
    BY DEF StructInv, ProcessInv
  <2>3. \A i \in DOMAIN log' :
          (i \in DOMAIN log /\ log'[i] = log[i]) \/ VerdictIsTrue(log[i])'
    BY <1>6, <2>1, <2>2, ReportedEntry DEF VerdictIsTrue
  <2> QED
    BY <2>1, <2>3, VerdictStep
<1>7. ASSUME NEW c \in Call, LeaveNotify(c)
      PROVE  VerdictsAreTrue'
  <2>1. UNCHANGED <<proc, exitStatus>>
    BY <1>7 DEF LeaveNotify, processVars
  <2>2. \A i \in DOMAIN log' :
          (i \in DOMAIN log /\ log'[i] = log[i]) \/ VerdictIsTrue(log[i])'
    BY <1>7, FailureEntry DEF VerdictIsTrue
  <2> QED
    BY <2>1, <2>2, VerdictStep
<1>8. CASE UNCHANGED vars
  BY <1>8, UnloggedStep DEF vars, processVars, eventVars
<1> QED
  BY <1>1, <1>2, <1>3, <1>4, <1>5, <1>6, <1>7, <1>8
     DEF Next, Step, EventProcessorNext

(* No entry gives a verdict on a processor that has not ended, or a verdict *)
(* its exit code does not bear out, whatever fails.                         *)
THEOREM VerdictsHold == Spec => []VerdictsAreTrue
<1>1. Init => VerdictsAreTrue
  BY DEF Init, EventSourceInit, VerdictsAreTrue
<1> QED
  BY <1>1, StructInit, StructStep, VerdictNext, PTL DEF Spec

-----------------------------------------------------------------------------
(* Who may touch a file: the lemmas below are about a step of thread c      *)

(* What a step of thread c leaves alone: the other threads, and every file  *)
(* but its own; its own too when it is bound to keep it and not thrown out. *)
ThreadFrame(c) ==
  /\ \A d \in Call \ {c} :
       /\ pc'[d] = pc[d]
       /\ strTempFile'[d] = strTempFile[d]
       /\ cbTotal'[d] = cbTotal[d]
       /\ proc'[d] = proc[d]
       /\ rawCertPath'[d] = rawCertPath[d]
       /\ exitStatus'[d] = exitStatus[d]
       /\ BoundToKeep(d) => BoundToKeep(d)'
  /\ \A m \in TempName :
       disk'[m] = disk[m] \/ m \in {strTempFile[c], strTempFile'[c]}
  /\ \/ strTempFile'[c] \in {strTempFile[c], NoPath}
     \/ disk[strTempFile'[c]] = NoFile
  /\ BoundToKeep(c) =>
       pc'[c] = "thrown" \/ \A m \in TempName : disk'[m] = disk[m]

(* The step does not end the obligation of c to keep its file.              *)
StaysBound(c) ==
  BoundToKeep(c) =>
    pc'[c] # "thrown" /\ (BoundToKeep(c)' \/ strTempFile'[c] = NoPath)

LEMMA CertWrittenStays ==
  ASSUME NEW n, NEW c, CertWritten(n, c), disk'[n] = disk[n]
  PROVE  CertWritten(n, c)' /\ disk[n] # NoFile
BY DEF CertWritten, HoldsOwn

(* A kept file stays kept, unless the step is of its own call and ends its  *)
(* obligation.                                                              *)
LEMMA KeptStep ==
  ASSUME StructInv, NEW c \in Call, ThreadFrame(c),
         NEW n, NEW e \in Call, FileKept(n, e),
         e = c => StaysBound(c)
  PROVE  FileKept(n, e)'
<1>1. n \in TempName /\ CertWritten(n, e) /\ disk[n] # NoFile /\ n # NoPath
  BY ConstantsAssumption DEF FileKept, CertWritten, HoldsOwn
<1>2. CASE n = strTempFile[c]
  <2>1. e = c /\ BoundToKeep(c)
    BY <1>2 DEF FileKept
  <2>2. disk'[n] = disk[n]
    BY <1>1, <2>1 DEF ThreadFrame, StaysBound
  <2>3. ASSUME NEW d \in Call, strTempFile'[d] = n
        PROVE  d = e /\ BoundToKeep(e)'
    <3>1. d = c
      BY <2>1, <2>3 DEF ThreadFrame, FileKept
    <3> QED
      BY <1>1, <2>1, <2>3, <3>1 DEF StaysBound
  <2> QED
    BY <1>1, <2>2, <2>3, CertWrittenStays DEF FileKept
<1>3. CASE n # strTempFile[c]
  <2>1. n # strTempFile'[c]
    BY <1>1, <1>3 DEF ThreadFrame
  <2>2. disk'[n] = disk[n]
    BY <1>1, <1>3, <2>1 DEF ThreadFrame
  <2>3. ASSUME NEW d \in Call, strTempFile'[d] = n
        PROVE  d = e /\ BoundToKeep(e)'
    BY <2>1, <2>3 DEF ThreadFrame, FileKept
  <2> QED
    BY <1>1, <2>2, <2>3, CertWrittenStays DEF FileKept
<1> QED
  BY <1>2, <1>3

LEMMA RunningKeptStep ==
  ASSUME StructInv, RunningKept, NEW c \in Call, ThreadFrame(c),
         proc'[c] = "running" => (FileKept(rawCertPath[c], c) \/ Thrown(c))'
  PROVE  RunningKept'
<1>1. ASSUME NEW d \in Call \ {c}, proc'[d] = "running"
      PROVE  (FileKept(rawCertPath[d], d) \/ Thrown(d))'
  <2>1. /\ FileKept(rawCertPath[d], d) \/ Thrown(d)
        /\ rawCertPath'[d] = rawCertPath[d] /\ pc'[d] = pc[d]
    BY <1>1 DEF ThreadFrame, RunningKept
  <2>2. \A n : FileKept(n, d) => FileKept(n, d)'
    BY KeptStep
  <2>3. CASE Thrown(d)
    BY <2>1, <2>3 DEF Thrown
  <2>4. CASE FileKept(rawCertPath[d], d)
    BY <2>1, <2>2, <2>4 DEF FileKept
  <2> QED
    BY <2>1, <2>3, <2>4
<1> QED
  BY <1>1 DEF RunningKept

(* The evidence of other calls stays; that of c does while c keeps its file *)
LEMMA EvidenceStep ==
  ASSUME StructInv, EvidenceInv, NEW c \in Call, ThreadFrame(c),
         pc[c] \in KeepLabel => pc'[c] \in KeepLabel /\ StaysBound(c),
         \A i \in DOMAIN log' :
           (i \in DOMAIN log /\ log'[i] = log[i]) \/ EntryKept(log[i])'
  PROVE  EvidenceInv'
<1>1. ASSUME NEW i \in DOMAIN log, log'[i] = log[i]
      PROVE  EntryKept(log[i])'
  <2> DEFINE e == log[i]
  <2>1. e.call \in Call
    <3>1. e \in Entry
      BY ElementOfSeq, LenProperties DEF StructInv, TypeOK, EventSourceTypeOK
    <3> QED
      BY <3>1 DEF Entry
  <2>2. CASE Evidence(e)
    <3>1. FileKept(e.file, e.call) /\ pc[e.call] \in KeepLabel
      BY <2>2 DEF EvidenceInv, EntryKept
    <3>2. ASSUME NEW n, NEW d \in Call, d = e.call, FileKept(n, d)
          PROVE  FileKept(n, d)'
      <4>1. d = c => StaysBound(c)
        BY <3>1, <3>2
      <4> QED
        BY <3>2, <4>1, KeptStep
    <3>3. pc'[e.call] \in KeepLabel
      BY <2>1, <3>1 DEF ThreadFrame
    <3> QED
      BY <1>1, <2>1, <3>1, <3>2, <3>3 DEF EntryKept, FileKept
  <2>3. CASE ~ Evidence(e)
    BY <1>1, <2>3 DEF EntryKept, Evidence
  <2> QED
    BY <2>2, <2>3
<1> QED
  BY <1>1 DEF EvidenceInv

LEMMA ContentStep ==
  ASSUME StructInv, \A d \in Call : ContentInv(d), NEW c \in Call,
         ThreadFrame(c), ContentInv(c)'
  PROVE  \A d \in Call : ContentInv(d)'
<1>1. ASSUME NEW d \in Call \ {c}, pc[d] \in {"write"} \cup WrittenLabel
      PROVE  disk'[strTempFile[d]] = disk[strTempFile[d]]
  <2>1. /\ strTempFile[d] \in TempName
        /\ strTempFile[d] # NoPath
        /\ disk[strTempFile[d]] # NoFile
        /\ strTempFile[d] # strTempFile[c]
    BY <1>1, ConstantsAssumption DEF StructInv, LocalInv, FileOwned
  <2> QED
    BY <2>1 DEF ThreadFrame
<1>2. ASSUME NEW d \in Call \ {c}
      PROVE  ContentInv(d)'
  <2>1. /\ pc'[d] = pc[d] /\ cbTotal'[d] = cbTotal[d]
        /\ strTempFile'[d] = strTempFile[d]
    BY DEF ThreadFrame
  <2>2. pc[d] \in WrittenLabel => CertWritten(strTempFile[d], d)'
    <3>1. ASSUME pc[d] \in WrittenLabel
          PROVE  CertWritten(strTempFile[d], d)
      BY <3>1 DEF ContentInv
    <3> QED
      BY <1>1, <2>1, <3>1, CertWrittenStays
  <2> QED
    BY <1>1, <2>1, <2>2 DEF ContentInv
<1> QED
  BY <1>2

(* A step of thread c that starts no process, and whose entry, if it writes *)
(* one, names no file or one that is going to be kept.                      *)
LEMMA ReportingStep ==
  ASSUME FileInv, StructInv', NEW c \in Call, ThreadFrame(c),
         UNCHANGED <<proc, rawCertPath, exitStatus>>,
         ContentInv(c)',
         \/ proc[c] # "running" /\ pc[c] \notin KeepLabel
         \/ /\ StaysBound(c) /\ pc[c] # "thrown"
            /\ pc[c] \in KeepLabel => pc'[c] \in KeepLabel,
         \A i \in DOMAIN log' :
           \/ i \in DOMAIN log /\ log'[i] = log[i]
           \/ EntryKept(log[i])'
  PROVE  FileInv'
<1>1. \A d \in Call : ContentInv(d)'
  BY ContentStep DEF FileInv
<1>2. RunningKept'
  <2>1. ASSUME proc'[c] = "running"
        PROVE  FileKept(rawCertPath[c], c)'
    <3>1. FileKept(rawCertPath[c], c) /\ StaysBound(c)
      BY <2>1 DEF FileInv, RunningKept, Thrown
    <3>2. \A n : FileKept(n, c) => FileKept(n, c)'
      BY <3>1, KeptStep DEF FileInv
    <3> QED
      BY <3>1, <3>2 DEF FileKept
  <2> QED
    BY <2>1, RunningKeptStep DEF FileInv
<1>3. EvidenceInv'
  BY EvidenceStep DEF FileInv
<1> QED
  BY <1>1, <1>2, <1>3 DEF FileInv

(* A step of thread c that writes no entry and starts no process.           *)
LEMMA QuietStep ==
  ASSUME FileInv, StructInv', NEW c \in Call, ThreadFrame(c), log' = log,
         UNCHANGED <<proc, rawCertPath, exitStatus>>,
         ContentInv(c)',
         \/ proc[c] # "running" /\ pc[c] \notin KeepLabel
         \/ /\ StaysBound(c) /\ pc[c] # "thrown"
            /\ pc[c] \in KeepLabel => pc'[c] \in KeepLabel
  PROVE  FileInv'
<1>1. \A i \in DOMAIN log' : i \in DOMAIN log /\ log'[i] = log[i]
  OBVIOUS
<1> QED
  BY <1>1, ReportingStep

-----------------------------------------------------------------------------
(* The steps of a thread                                                    *)

(* A step that leaves the files, the processes and the log alone, and moves *)
(* only one thread.                                                         *)
LEMMA MoveFrame ==
  ASSUME StructInv, NEW c \in Call, NEW l, NEW h,
         pc' = [pc EXCEPT ![c] = l], hr' = [hr EXCEPT ![c] = h],
         UNCHANGED <<disk, m_fPreserve, strTempFile, cbTotal, dwExitCode,
                     proc, rawCertPath, exitStatus>>
  PROVE  ThreadFrame(c)
BY DEF StructInv, TypeOK, ThreadFrame, BoundToKeep

LEMMA OutsideInd ==
  ASSUME FileInv, StructInv', NEW c \in Call,
         \/ \E e \in ExitEvent : Notify(c, e)
         \/ InitServer(c) \/ ReadProperties(c) \/ InitProcessor(c)
  PROVE  FileInv'
<1>1. PICK h \in HRESULT, l \in BeforeFile \cup {"leave"} :
        pc' = [pc EXCEPT ![c] = l] /\ hr' = [hr EXCEPT ![c] = h]
  <2>1. hr = [hr EXCEPT ![c] = hr[c]] /\ hr[c] \in HRESULT
    BY DEF FileInv, StructInv, TypeOK
  <2>2. "server" \in BeforeFile /\ "properties" \in BeforeFile
        /\ "config" \in BeforeFile /\ "tempname" \in BeforeFile
    BY DEF BeforeFile
  <2>3. ASSUME NEW e \in ExitEvent, Notify(c, e)
        PROVE  \E h \in HRESULT, l \in BeforeFile \cup {"leave"} :
                 pc' = [pc EXCEPT ![c] = l] /\ hr' = [hr EXCEPT ![c] = h]
    BY <2>1, <2>2, <2>3 DEF Notify, Goto
  <2>4. CASE InitServer(c)
    BY <2>2, <2>4 DEF InitServer, Result, Goto
  <2>5. CASE ReadProperties(c)
    BY <2>2, <2>5 DEF ReadProperties, Result, Goto
  <2>6. CASE InitProcessor(c)
    BY <2>2, <2>6 DEF InitProcessor, Result, Goto
  <2> QED
    BY <2>3, <2>4, <2>5, <2>6
<1>2. /\ pc[c] \in BeforeFile
      /\ UNCHANGED <<disk, m_fPreserve, strTempFile, cbTotal, dwExitCode,
                     proc, rawCertPath, exitStatus, log>>
  BY DEF Notify, InitServer, ReadProperties, InitProcessor, BeforeFile,
         tempFileVars, processVars, eventVars
<1>3. ThreadFrame(c)
  BY <1>1, <1>2, MoveFrame DEF FileInv
<1>4. ContentInv(c)'
  BY <1>1, <1>2
     DEF FileInv, StructInv, TypeOK, ContentInv, CertWritten, HoldsOwn,
         BeforeFile, WrittenLabel
<1>5. proc[c] # "running" /\ pc[c] \notin KeepLabel
  BY <1>2 DEF FileInv, StructInv, ProcessInv, KeepLabel, BeforeFile, Ended
<1> QED
  BY <1>2, <1>3, <1>4, <1>5, QuietStep

LEMMA GetTempFilePathInd ==
  ASSUME FileInv, StructInv', NEW c \in Call, GetTempFilePath(c)
  PROVE  FileInv'
<1>1. PICK n \in TempName \cup {NoPath}, h \in HRESULT :
        /\ TempFileName(n, h)
        /\ strTempFile' = [strTempFile EXCEPT ![c] = n]
        /\ Result(c, h, "create", "dispose")
  BY DEF GetTempFilePath
<1>2. /\ pc[c] = "tempname"
      /\ UNCHANGED <<cbTotal, dwExitCode, processVars, eventVars, m_fPreserve>>
  BY <1>1 DEF GetTempFilePath, TempFileName
<1>3. \/ /\ n \in TempName
         /\ disk[n] = NoFile
         /\ \A m \in TempName \ {n} : disk'[m] = disk[m]
      \/ n = NoPath /\ disk' = disk
  BY <1>1, TempFileNameEffect DEF FileInv, StructInv, TypeOK
<1>4. PICK l \in {"create", "dispose"} :
        pc' = [pc EXCEPT ![c] = l] /\ hr' = [hr EXCEPT ![c] = h]
  BY <1>1 DEF Result, Goto, FAILED
<1>5. ThreadFrame(c)
  BY <1>1, <1>2, <1>3, <1>4
     DEF FileInv, StructInv, TypeOK, ThreadFrame, BoundToKeep, processVars
<1>6. ContentInv(c)'
  BY <1>2, <1>4
     DEF FileInv, StructInv, TypeOK, ContentInv, CertWritten, HoldsOwn,
         BeforeFile, WrittenLabel
<1>7. proc[c] # "running" /\ pc[c] \notin KeepLabel
  BY <1>2 DEF FileInv, StructInv, ProcessInv, KeepLabel, BeforeFile, Ended
<1> QED
  BY <1>2, <1>5, <1>6, <1>7, QuietStep DEF processVars, eventVars

LEMMA CreateTempFileInd ==
  ASSUME FileInv, StructInv', NEW c \in Call, CreateTempFile(c)
  PROVE  FileInv'
<1>1. PICK h \in HRESULT :
        TempFileCreate(c, strTempFile[c], h) /\ Result(c, h, "write", "dispose")
  BY DEF CreateTempFile
<1>2. /\ pc[c] = "create"
      /\ UNCHANGED <<strTempFile, cbTotal, dwExitCode, processVars, eventVars>>
  BY DEF CreateTempFile
<1>3. strTempFile[c] \in TempName
  BY <1>2 DEF FileInv, StructInv, LocalInv
<1>4. /\ UNCHANGED m_fPreserve
      /\ \A m \in TempName \ {strTempFile[c]} : disk'[m] = disk[m]
      /\ h = "S_OK" => disk'[strTempFile[c]] = <<>>
  BY <1>1, <1>3, TempFileCreateEffect DEF FileInv, StructInv, TypeOK
<1>5. /\ pc' = [pc EXCEPT ![c] = IF h = "S_OK" THEN "write" ELSE "dispose"]
      /\ hr' = [hr EXCEPT ![c] = h]
  BY <1>1 DEF Result, Goto, FAILED
<1>6. ThreadFrame(c)
  BY <1>2, <1>4, <1>5
     DEF FileInv, StructInv, TypeOK, ThreadFrame, BoundToKeep, processVars
<1>7. ContentInv(c)'
  BY <1>2, <1>4, <1>5
     DEF FileInv, StructInv, TypeOK, ContentInv, CertWritten, HoldsOwn,
         BeforeFile, WrittenLabel
<1>8. proc[c] # "running" /\ pc[c] \notin KeepLabel
  BY <1>2 DEF FileInv, StructInv, ProcessInv, KeepLabel, Ended
<1> QED
  BY <1>2, <1>6, <1>7, <1>8, QuietStep DEF processVars, eventVars

(* What one more write leaves in the file.                                  *)
LEMMA AppendedPrefix ==
  ASSUME NEW c \in Call, NEW s \in Seq(Byte), NEW cb \in 0 .. CertLength,
         \A i \in 1 .. Len(s) : s[i][1] = c
  PROVE  /\ Len(s \o CertPrefix(c, cb)) = Len(s) + cb
         /\ \A i \in 1 .. Len(s) + cb : (s \o CertPrefix(c, cb))[i][1] = c
<1> DEFINE t == s \o CertPrefix(c, cb)
<1>1. cb \in Nat /\ Len(s) \in Nat
  BY ConstantsAssumption, LenProperties
<1>2. CertPrefix(c, cb) \in Seq(Byte)
  BY ConstantsAssumption, CertPrefixType
<1>3. Len(CertPrefix(c, cb)) = cb
  BY <1>1, <1>2, LenProperties DEF CertPrefix
<1>4. \A i \in 1 .. cb : CertPrefix(c, cb)[i][1] = c
  BY DEF CertPrefix
<1>5. /\ Len(t) = Len(s) + cb
      /\ \A i \in 1 .. Len(s) + cb :
           t[i] = IF i <= Len(s) THEN s[i] ELSE CertPrefix(c, cb)[i - Len(s)]
  <2> DEFINE u == CertPrefix(c, cb)
  <2>1. u \in Seq(Byte) /\ Len(u) = cb
    BY <1>2, <1>3
  <2> HIDE DEF u
  <2>2. /\ Len(s \o u) = Len(s) + Len(u)
        /\ \A i \in 1 .. Len(s) + Len(u) :
             (s \o u)[i] = IF i <= Len(s) THEN s[i] ELSE u[i - Len(s)]
    BY <2>1, ConcatProperties
  <2> QED
    BY <2>1, <2>2 DEF u
<1> HIDE DEF t
<1>6. ASSUME NEW i \in 1 .. Len(s) + cb
      PROVE  t[i][1] = c
  <2>1. CASE i <= Len(s)
    BY <1>1, <1>5, <1>6, <2>1
  <2>2. CASE ~ (i <= Len(s))
    <3>1. i - Len(s) \in 1 .. cb
      BY <1>1, <1>5, <2>2
    <3> QED
      BY <1>4, <1>5, <2>2, <3>1
  <2> QED
    BY <2>1, <2>2
<1> QED
  BY <1>5, <1>6 DEF t

(* The loop appends nothing but pieces of the certificate, until they are   *)
(* as long as it is; without short writes there is one iteration.           *)
LEMMA WriteCertInd ==
  ASSUME FileInv, StructInv', NEW c \in Call, WriteCert(c)
  PROVE  FileInv'
<1> DEFINE n == strTempFile[c]
<1>1. PICK cb \in 0 .. CertLength, h \in HRESULT :
        /\ TempFileWrite(c, cb, h)
        /\ IF FAILED(h) THEN UNCHANGED cbTotal
           ELSE cbTotal' = [cbTotal EXCEPT ![c] = @ + cb]
        /\ Result(c, h, IF cbTotal'[c] < CertLength THEN "write" ELSE "format",
                  "dispose")
  BY DEF WriteCert
<1>2. /\ pc[c] = "write"
      /\ UNCHANGED <<strTempFile, dwExitCode, processVars, eventVars>>
  BY DEF WriteCert
<1>3. /\ n \in TempName
      /\ m_strPath[c] = n
      /\ disk[n] # NoFile
      /\ Len(disk[n]) = cbTotal[c]
      /\ \A i \in 1 .. cbTotal[c] : disk[n][i][1] = c
      /\ "shortwrite" \notin Faults => disk[n] = <<>>
  BY <1>2, ConstantsAssumption
     DEF FileInv, StructInv, LocalInv, FileOwned, ContentInv
<1>4. /\ UNCHANGED m_fPreserve
      /\ disk'[n] # NoFile
      /\ \A m \in TempName \ {n} : disk'[m] = disk[m]
      /\ \/ /\ h = "S_OK"
            /\ cb = CertLength \/ "shortwrite" \in Faults
            /\ disk'[n] = disk[n] \o CertPrefix(c, cb)
         \/ h = "E_WIN32"
  <2>1. TempFileTypeOK /\ m_strPath[c] \in TempName
    BY <1>3 DEF FileInv, StructInv, TypeOK
  <2>2. disk[m_strPath[c]] # NoFile
    BY <1>3
  <2>3. /\ UNCHANGED <<m_strPath, m_hFile, m_fPreserve>>
        /\ disk'[m_strPath[c]] # NoFile
        /\ \A m \in TempName \ {m_strPath[c]} : disk'[m] = disk[m]
        /\ \/ /\ h = "S_OK"
              /\ cb = CertLength \/ "shortwrite" \in Faults
              /\ disk'[m_strPath[c]] = disk[m_strPath[c]] \o CertPrefix(c, cb)
           \/ h = "E_WIN32" /\ disk' = disk
    BY <1>1, <2>1, <2>2, TempFileWriteEffect
  <2> QED
    BY <1>3, <2>3
<1>5. \A d \in Call \ {c} : cbTotal'[d] = cbTotal[d]
  BY <1>1 DEF FileInv, StructInv, TypeOK
<1>6. /\ hr' = [hr EXCEPT ![c] = h]
      /\ \/ pc' = [pc EXCEPT ![c] = "dispose"]
         \/ /\ h = "S_OK"
            /\ cbTotal' = [cbTotal EXCEPT ![c] = @ + cb]
            /\ pc' = [pc EXCEPT ![c] =
                        IF cbTotal'[c] < CertLength THEN "write" ELSE "format"]
  BY <1>1, <1>4 DEF Result, Goto, FAILED
<1>7. ThreadFrame(c)
  BY <1>2, <1>4, <1>5, <1>6
     DEF FileInv, StructInv, TypeOK, ThreadFrame, BoundToKeep, processVars
<1>8. ContentInv(c)'
  <2>1. CASE pc' = [pc EXCEPT ![c] = "dispose"]
    BY <2>1
       DEF FileInv, StructInv, TypeOK, ContentInv, BeforeFile, WrittenLabel
  <2>2. CASE /\ h = "S_OK"
             /\ cbTotal' = [cbTotal EXCEPT ![c] = @ + cb]
             /\ pc' = [pc EXCEPT ![c] =
                         IF cbTotal'[c] < CertLength THEN "write" ELSE "format"]
    <3>1. /\ CertLength \in Nat
          /\ cbTotal[c] \in Nat
          /\ cbTotal'[c] = cbTotal[c] + cb
      BY <2>2, ConstantsAssumption DEF FileInv, StructInv, TypeOK
    <3>2. /\ disk[n] \in Seq(Byte)
          /\ cb = CertLength \/ "shortwrite" \in Faults
          /\ disk'[n] = disk[n] \o CertPrefix(c, cb)
      BY <1>3, <1>4, <2>2 DEF FileInv, StructInv, TypeOK, TempFileTypeOK
    <3>3. /\ Len(disk'[n]) = cbTotal'[c]
          /\ \A i \in 1 .. Len(disk'[n]) : disk'[n][i][1] = c
      <4>1. \A i \in 1 .. Len(disk[n]) : disk[n][i][1] = c
        BY <1>3
      <4>2. /\ Len(disk'[n]) = Len(disk[n]) + cb
            /\ \A i \in 1 .. Len(disk'[n]) : disk'[n][i][1] = c
        <5>1. /\ Len(disk[n] \o CertPrefix(c, cb)) = Len(disk[n]) + cb
              /\ \A i \in 1 .. Len(disk[n]) + cb :
                   (disk[n] \o CertPrefix(c, cb))[i][1] = c
          <6> HIDE DEF n
          <6> QED
            BY <3>2, <4>1, AppendedPrefix
        <5> QED
          BY <3>2, <5>1
      <4> QED
        BY <1>3, <3>1, <4>2
    <3>4. ASSUME "shortwrite" \notin Faults
          PROVE  disk'[n] = RawCert(c) /\ ~ (cbTotal'[c] < CertLength)
      <4>1. disk[n] = <<>> /\ cb = CertLength
        BY <1>3, <3>2, <3>4
      <4> QED
        BY <3>1, <3>2, <4>1, CertFacts DEF RawCert
    <3>5. CASE cbTotal'[c] < CertLength
      <4>1. pc'[c] = "write" /\ "shortwrite" \in Faults
        BY <2>2, <3>4, <3>5 DEF FileInv, StructInv, TypeOK
      <4> QED
        BY <1>2, <3>3, <4>1 DEF ContentInv, BeforeFile, WrittenLabel
    <3>6. CASE ~ (cbTotal'[c] < CertLength)
      <4>1. pc'[c] = "format"
        BY <2>2, <3>6 DEF FileInv, StructInv, TypeOK
      <4>2. CertLength <= Len(disk'[n])
        BY <3>1, <3>3, <3>6
      <4>3. CertWritten(n, c)'
        BY <1>2, <1>4, <3>3, <3>4, <4>2 DEF CertWritten, HoldsOwn
      <4> QED
        BY <1>2, <4>1, <4>3 DEF ContentInv, BeforeFile, WrittenLabel
    <3> QED
      BY <3>5, <3>6
  <2> QED
    BY <1>6, <2>1, <2>2
<1>9. proc[c] # "running" /\ pc[c] \notin KeepLabel
  BY <1>2 DEF FileInv, StructInv, ProcessInv, KeepLabel, Ended
<1> QED
  BY <1>2, <1>7, <1>8, <1>9, QuietStep DEF processVars, eventVars

LEMMA FormatArgumentsInd ==
  ASSUME FileInv, StructInv', NEW c \in Call, FormatArguments(c)
  PROVE  FileInv'
<1>1. PICK h \in HRESULT, l \in {"launch", "dispose"} :
        pc' = [pc EXCEPT ![c] = l] /\ hr' = [hr EXCEPT ![c] = h]
  BY DEF FormatArguments, Result, Goto, FAILED
<1>2. /\ pc[c] = "format"
      /\ UNCHANGED <<disk, m_fPreserve, strTempFile, cbTotal, dwExitCode,
                     proc, rawCertPath, exitStatus, log>>
  BY DEF FormatArguments, TempFileClose, processVars, eventVars
<1>3. ThreadFrame(c)
  BY <1>1, <1>2, MoveFrame DEF FileInv
<1>4. ContentInv(c)'
  BY <1>1, <1>2
     DEF FileInv, StructInv, TypeOK, ContentInv, CertWritten, HoldsOwn,
         BeforeFile, WrittenLabel
<1>5. proc[c] # "running" /\ pc[c] \notin KeepLabel
  BY <1>2 DEF FileInv, StructInv, ProcessInv, KeepLabel, Ended
<1> QED
  BY <1>2, <1>3, <1>4, <1>5, QuietStep

(* The process starts on a file that holds the certificate and that its     *)
(* call is bound to keep from here to the end of its wait.                  *)
LEMMA StartProcessInd ==
  ASSUME FileInv, StructInv', NEW c \in Call, StartProcess(c)
  PROVE  FileInv'
<1>1. PICK h \in HRESULT :
        /\ ProcessCreate(c, strTempFile[c], h)
        /\ Result(c, h, "started", "startfailed")
  BY DEF StartProcess
<1>2. /\ pc[c] = "launch"
      /\ UNCHANGED <<strTempFile, cbTotal, dwExitCode, tempFileVars, eventVars>>
  BY DEF StartProcess
<1>3. /\ strTempFile[c] \in TempName
      /\ CertWritten(strTempFile[c], c)
      /\ proc[c] = "none"
  BY <1>2 DEF FileInv, StructInv, LocalInv, ProcessInv, ContentInv, WrittenLabel
<1>4. /\ UNCHANGED exitStatus
      /\ \/ /\ h = "S_OK"
            /\ proc' = [proc EXCEPT ![c] = "running"]
            /\ rawCertPath' = [rawCertPath EXCEPT ![c] = strTempFile[c]]
         \/ h # "S_OK" /\ UNCHANGED <<proc, rawCertPath>>
  BY <1>1, <1>3, ProcessCreateEffect DEF FileInv, StructInv, TypeOK
<1>5. /\ pc' = [pc EXCEPT ![c] = IF h = "S_OK" THEN "started" ELSE "startfailed"]
      /\ hr' = [hr EXCEPT ![c] = h]
  BY <1>1 DEF Result, Goto, FAILED
<1>6. ThreadFrame(c)
  BY <1>2, <1>4, <1>5
     DEF FileInv, StructInv, TypeOK, ProcessTypeOK, ThreadFrame, BoundToKeep,
         tempFileVars
<1>7. ContentInv(c)'
  BY <1>2, <1>3, <1>5
     DEF FileInv, StructInv, TypeOK, ContentInv, CertWritten, HoldsOwn,
         BeforeFile, WrittenLabel, tempFileVars
<1>8. \A d \in Call : ContentInv(d)'
  BY <1>6, <1>7, ContentStep DEF FileInv
<1>9. RunningKept'
  <2>1. ASSUME proc'[c] = "running"
        PROVE  FileKept(rawCertPath[c], c)'
    <3>1. rawCertPath'[c] = strTempFile[c] /\ BoundToKeep(c)'
      BY <1>3, <1>4, <1>5, <2>1
         DEF FileInv, StructInv, TypeOK, ProcessTypeOK, BoundToKeep
    <3>2. \A d \in Call : strTempFile[d] = strTempFile[c] => d = c
      BY <1>3, ConstantsAssumption DEF FileInv, StructInv, FileOwned
    <3> QED
      BY <1>2, <1>3, <3>1, <3>2, CertWrittenStays DEF FileKept, tempFileVars
  <2> QED
    BY <1>6, <2>1, RunningKeptStep DEF FileInv
<1>10. EvidenceInv'
  <2>1. pc[c] \notin KeepLabel /\ log' = log
    BY <1>2 DEF KeepLabel, Ended, eventVars
  <2> QED
    BY <1>6, <2>1, EvidenceStep DEF FileInv
<1> QED
  BY <1>8, <1>9, <1>10 DEF FileInv

LEMMA WaitForProcessInd ==
  ASSUME FileInv, StructInv', NEW c \in Call, WaitForProcess(c)
  PROVE  FileInv'
<1>1. PICK h \in HRESULT, l \in {"exitcode", "timedout", "unwind"} :
        /\ hr' = [hr EXCEPT ![c] = h]
        /\ pc' = [pc EXCEPT ![c] = l]
        /\ l = "exitcode" => proc[c] = "exited"
        /\ l = "unwind" => FAILED(h)
  BY DEF WaitForProcess, ProcessWait, Result, Goto, FAILED
<1>2. /\ pc[c] = "wait"
      /\ UNCHANGED <<disk, m_fPreserve, strTempFile, cbTotal, dwExitCode,
                     proc, rawCertPath, exitStatus, log>>
  BY DEF WaitForProcess, ProcessWait, tempFileVars, processVars, eventVars
<1>3. ThreadFrame(c)
  BY <1>1, <1>2, MoveFrame DEF FileInv
<1>4. ContentInv(c)'
  BY <1>1, <1>2
     DEF FileInv, StructInv, TypeOK, ContentInv, CertWritten, HoldsOwn,
         BeforeFile, WrittenLabel
<1>5. pc[c] \notin KeepLabel
  BY <1>2 DEF KeepLabel, Ended
<1>6. \/ proc[c] # "running"
      \/ StaysBound(c) /\ pc[c] # "thrown"
  BY <1>1, <1>2
     DEF FileInv, StructInv, TypeOK, StaysBound, BoundToKeep
<1> QED
  BY <1>2, <1>3, <1>4, <1>5, <1>6, QuietStep

LEMMA ReadExitCodeInd ==
  ASSUME FileInv, StructInv', NEW c \in Call, ReadExitCode(c)
  PROVE  FileInv'
<1>1. PICK x \in ExitCode, h \in HRESULT, l \in {"verdict", "unwind"} :
        /\ dwExitCode' = [dwExitCode EXCEPT ![c] = x]
        /\ hr' = [hr EXCEPT ![c] = h]
        /\ pc' = [pc EXCEPT ![c] = l]
  BY DEF ReadExitCode, Result, Goto, FAILED
<1>2. /\ pc[c] = "exitcode"
      /\ UNCHANGED <<disk, m_fPreserve, strTempFile, cbTotal, proc,
                     rawCertPath, exitStatus, log>>
  BY DEF ReadExitCode, ProcessGetExitCode, tempFileVars, processVars, eventVars
<1>3. ThreadFrame(c)
  BY <1>1, <1>2 DEF FileInv, StructInv, TypeOK, ThreadFrame, BoundToKeep
<1>4. ContentInv(c)'
  BY <1>1, <1>2
     DEF FileInv, StructInv, TypeOK, ContentInv, CertWritten, HoldsOwn,
         BeforeFile, WrittenLabel
<1>5. proc[c] # "running" /\ pc[c] \notin KeepLabel
  BY <1>2 DEF FileInv, StructInv, ProcessInv, KeepLabel, Ended
<1> QED
  BY <1>2, <1>3, <1>4, <1>5, QuietStep

(* A call that was bound to keep its file is told to preserve it.           *)
LEMMA UnwindInd ==
  ASSUME FileInv, StructInv', NEW c \in Call, Unwind(c)
  PROVE  FileInv'
<1>1. /\ pc[c] = "unwind"
      /\ pc' = [pc EXCEPT ![c] = "dispose"]
      /\ UNCHANGED <<hr, strTempFile, cbTotal, dwExitCode, log, disk, proc,
                     rawCertPath, exitStatus>>
  BY DEF Unwind, Goto, TempFilePreserve, ProcessDestroy, tempFileVars, eventVars
<1>2. \/ m_fPreserve' = [m_fPreserve EXCEPT ![c] = TRUE]
      \/ ~ FAILED(hr[c]) /\ dwExitCode[c] = 0 /\ m_fPreserve' = m_fPreserve
  BY DEF Unwind, TempFilePreserve, tempFileVars
<1>3. ThreadFrame(c)
  BY <1>1, <1>2
     DEF FileInv, StructInv, TypeOK, TempFileTypeOK, ThreadFrame, BoundToKeep
<1>4. ContentInv(c)'
  BY <1>1
     DEF FileInv, StructInv, TypeOK, ContentInv, CertWritten, HoldsOwn,
         BeforeFile, WrittenLabel
<1>5. StaysBound(c) /\ pc[c] # "thrown" /\ pc'[c] \in KeepLabel
  BY <1>1, <1>2
     DEF FileInv, StructInv, TypeOK, TempFileTypeOK, StaysBound, BoundToKeep,
         KeepLabel
<1> QED
  BY <1>1, <1>3, <1>4, <1>5, QuietStep

LEMMA DisposeInd ==
  ASSUME FileInv, StructInv', NEW c \in Call, Dispose(c)
  PROVE  FileInv'
<1>1. /\ pc[c] = "dispose"
      /\ pc' = [pc EXCEPT ![c] = "leave"]
      /\ strTempFile' = [strTempFile EXCEPT ![c] = NoPath]
      /\ cbTotal' = [cbTotal EXCEPT ![c] = 0]
      /\ dwExitCode' = [dwExitCode EXCEPT ![c] = 0]
      /\ UNCHANGED <<hr, proc, rawCertPath, exitStatus, log>>
  BY DEF Dispose, Goto, processVars, eventVars
<1>2. /\ m_fPreserve' = [m_fPreserve EXCEPT ![c] = FALSE]
      /\ \A m \in TempName \ {m_strPath[c]} : disk'[m] = disk[m]
      /\ m_fPreserve[c] => disk' = disk
  BY TempFileDestroyEffect DEF Dispose, FileInv, StructInv, TypeOK
<1>3. m_strPath[c] \in {NoPath, strTempFile[c]} /\ NoPath \notin TempName
  BY ConstantsAssumption DEF FileInv, StructInv, LocalInv
<1>4. ThreadFrame(c)
  BY <1>1, <1>2, <1>3
     DEF FileInv, StructInv, TypeOK, TempFileTypeOK, ThreadFrame, BoundToKeep
<1>5. ContentInv(c)'
  BY <1>1
     DEF FileInv, StructInv, TypeOK, ContentInv, CertWritten, HoldsOwn,
         BeforeFile, WrittenLabel
<1>6. StaysBound(c) /\ pc[c] # "thrown" /\ pc'[c] \in KeepLabel
  BY <1>1 DEF FileInv, StructInv, TypeOK, StaysBound, KeepLabel, Ended
<1> QED
  BY <1>1, <1>4, <1>5, <1>6, QuietStep

LEMMA ReportInd ==
  ASSUME FileInv, StructInv', NEW c \in Call,
         \/ ReportStartFailed(c)
         \/ ReportStarted(c)
         \/ ReportTimedOut(c)
         \/ ReportVerdict(c)
  PROVE  FileInv'
<1>1. PICK l \in {"wait", "unwind"} :
        /\ pc' = [pc EXCEPT ![c] = l]
        /\ pc[c] \in {"startfailed", "started", "timedout", "verdict"}
        /\ l = "wait" <=> pc[c] = "started"
        /\ UNCHANGED <<hr, strTempFile, cbTotal, dwExitCode, tempFileVars,
                       processVars>>
  BY DEF ReportStartFailed, ReportStarted, ReportTimedOut, ReportVerdict, Goto
<1>2. /\ strTempFile[c] \in TempName
      /\ CertWritten(strTempFile[c], c)
      /\ dwProcessId[c] \in Pid \cup {NoPid}
      /\ \A d \in Call : strTempFile[d] = strTempFile[c] => d = c
  <2>1. pc[c] \in WrittenLabel
    BY <1>1 DEF WrittenLabel
  <2>2. strTempFile[c] \in TempName /\ strTempFile[c] # NoPath
    BY <2>1, ConstantsAssumption DEF FileInv, StructInv, LocalInv
  <2>3. CertWritten(strTempFile[c], c)
    BY <2>1 DEF FileInv, ContentInv
  <2>4. dwProcessId[c] \in Pid \cup {NoPid}
    BY DEF FileInv, StructInv, TypeOK, ProcessTypeOK
  <2> QED
    BY <2>2, <2>3, <2>4 DEF FileInv, StructInv, FileOwned
<1>3. /\ pc[c] \in {"startfailed", "timedout"} => FAILED(hr[c])
      /\ pc[c] = "verdict" => proc[c] = "exited" /\ dwExitCode[c] = exitStatus[c]
      /\ pc[c] = "startfailed" => proc[c] = "none"
  BY DEF FileInv, StructInv, ProcessInv
<1>4. /\ pc'[c] = l
      /\ UNCHANGED <<disk, m_fPreserve, proc, rawCertPath, exitStatus>>
  BY <1>1 DEF FileInv, StructInv, TypeOK, tempFileVars, processVars
<1>5. ThreadFrame(c)
  <2>1. hr' = [hr EXCEPT ![c] = hr[c]]
    BY <1>1 DEF FileInv, StructInv, TypeOK
  <2> QED
    BY <1>1, <1>4, <2>1, MoveFrame DEF FileInv
<1>6. ContentInv(c)'
  BY <1>1, <1>2, <1>4
     DEF ContentInv, CertWritten, HoldsOwn, BeforeFile, WrittenLabel
<1>7. \/ pc[c] = "verdict" /\ dwExitCode[c] = 0
      \/ BoundToKeep(c)'
  BY <1>1, <1>3, <1>4 DEF BoundToKeep
<1>8. \/ proc[c] # "running" /\ pc[c] \notin KeepLabel
      \/ /\ StaysBound(c) /\ pc[c] # "thrown"
         /\ pc[c] \in KeepLabel => pc'[c] \in KeepLabel
  BY <1>1, <1>3, <1>4, <1>7 DEF StaysBound, KeepLabel, Ended
(* Whatever is written of a call with a failure names its file, or none.    *)
<1>9. ASSUME BoundToKeep(c)', pc[c] # "started"
      PROVE  FileKept(strTempFile[c], c)' /\ pc'[c] \in KeepLabel
  BY <1>1, <1>2, <1>4, <1>9, CertWrittenStays DEF FileKept, KeepLabel
<1>10. ASSUME NEW i \in DOMAIN log', ~ (i \in DOMAIN log /\ log'[i] = log[i]),
              Evidence(log[i])'
       PROVE  EntryKept(log[i])'
  <2>1. log'[i].call = c /\ log'[i].file = strTempFile[c]
    BY <1>10, ReportedEntry DEF FileInv, Evidence
  <2>2. pc[c] # "started" /\ ~ (pc[c] = "verdict" /\ dwExitCode[c] = 0)
    BY <1>10, ReportedEntry DEF FileInv, Evidence, EvidenceMessage
  <2>3. FileKept(strTempFile[c], c)' /\ pc'[c] \in KeepLabel
    BY <1>7, <1>9, <2>2
  <2> QED
    BY <1>1, <2>1, <2>3 DEF EntryKept
<1>11. \A i \in DOMAIN log' :
         \/ i \in DOMAIN log /\ log'[i] = log[i]
         \/ EntryKept(log[i])'
  BY <1>10 DEF EntryKept
<1> QED
  BY <1>4, <1>5, <1>6, <1>8, <1>11, ReportingStep

LEMMA LeaveNotifyInd ==
  ASSUME FileInv, StructInv', NEW c \in Call, LeaveNotify(c)
  PROVE  FileInv'
<1>1. /\ pc[c] = "leave"
      /\ pc' = [pc EXCEPT ![c] = "done"]
      /\ hr' = [hr EXCEPT ![c] = "S_OK"]
      /\ UNCHANGED <<disk, m_fPreserve, strTempFile, cbTotal, dwExitCode,
                     proc, rawCertPath, exitStatus>>
  BY DEF LeaveNotify, Goto, tempFileVars, processVars
<1>2. ThreadFrame(c)
  BY <1>1, MoveFrame DEF FileInv
<1>3. ContentInv(c)'
  BY <1>1
     DEF FileInv, StructInv, TypeOK, ContentInv, CertWritten, HoldsOwn,
         BeforeFile, WrittenLabel
<1>4. StaysBound(c) /\ pc[c] # "thrown" /\ pc'[c] \in KeepLabel
  BY <1>1
     DEF FileInv, StructInv, TypeOK, StaysBound, BoundToKeep, KeepLabel, Ended
<1>5. \A i \in DOMAIN log' :
        \/ i \in DOMAIN log /\ log'[i] = log[i]
        \/ log'[i].msg = "MSG_NOTIFY_FAILED"
  BY FailureEntry DEF FileInv
<1>6. \A i \in DOMAIN log' :
        \/ i \in DOMAIN log /\ log'[i] = log[i]
        \/ EntryKept(log[i])'
  BY <1>5 DEF EntryKept, Evidence, EvidenceMessage
<1> QED
  BY <1>1, <1>2, <1>3, <1>4, <1>6, ReportingStep

(* An exception takes no file but the one of its own call, of which there   *)
(* is no evidence yet: behind the entries nothing is allocated before the   *)
(* file is out of the hands of the call.                                    *)
LEMMA AllocThrowsInd ==
  ASSUME FileInv, StructInv', NEW c \in Call, AllocThrows(c)
  PROVE  FileInv'
<1>1. /\ pc' = [pc EXCEPT ![c] = "thrown"]
      /\ hr' = [hr EXCEPT ![c] = "S_OK"]
      /\ strTempFile' = [strTempFile EXCEPT ![c] = NoPath]
      /\ cbTotal' = [cbTotal EXCEPT ![c] = 0]
      /\ dwExitCode' = [dwExitCode EXCEPT ![c] = 0]
      /\ log' = log /\ "badalloc" \in Faults
  BY DEF AllocThrows, Goto, eventVars
<1>2. /\ m_fPreserve' = [m_fPreserve EXCEPT ![c] = FALSE]
      /\ \A m \in TempName \ {m_strPath[c]} : disk'[m] = disk[m]
  BY TempFileDestroyEffect DEF AllocThrows, FileInv, StructInv, TypeOK
<1>3. UNCHANGED <<proc, rawCertPath, exitStatus>>
  BY ProcessDestroyEffect DEF AllocThrows, FileInv, StructInv, TypeOK
<1>4. m_strPath[c] \in {NoPath, strTempFile[c]} /\ NoPath \notin TempName
  BY ConstantsAssumption DEF FileInv, StructInv, LocalInv
<1>5. /\ pc'[c] = "thrown"
      /\ pc[c] \in KeepLabel => pc[c] = "leave"
  BY <1>1
     DEF AllocThrows, Allocating, KeepLabel, Ended, FileInv, StructInv, TypeOK
<1>6. ThreadFrame(c)
  BY <1>1, <1>2, <1>3, <1>4, <1>5
     DEF FileInv, StructInv, TypeOK, TempFileTypeOK, ThreadFrame, BoundToKeep
<1>7. \A d \in Call : ContentInv(d)'
  <2>1. ContentInv(c)'
    BY <1>5 DEF ContentInv, BeforeFile, WrittenLabel
  <2> QED
    BY <1>6, <2>1, ContentStep DEF FileInv
<1>8. RunningKept'
  <2>1. Thrown(c)'
    BY <1>1, <1>5 DEF Thrown
  <2> QED
    BY <1>6, <2>1, RunningKeptStep DEF FileInv
<1>9. EvidenceInv'
  <2>1. pc[c] \in KeepLabel => pc'[c] \in KeepLabel /\ StaysBound(c)
    BY <1>5 DEF StaysBound, BoundToKeep, KeepLabel, Ended
  <2> QED
    BY <1>1, <1>6, <2>1, EvidenceStep DEF FileInv
<1> QED
  BY <1>7, <1>8, <1>9 DEF FileInv

-----------------------------------------------------------------------------
(* The steps of the environment                                             *)

(* What is kept stays kept when the folder and the threads are not touched. *)
LEMMA ProcessorExitsInd ==
  ASSUME FileInv, StructInv', NEW c \in Call, ProcessorExits(c)
  PROVE  FileInv'
<1>1. UNCHANGED <<disk, m_fPreserve, log, pc, hr, strTempFile, cbTotal, dwExitCode>>
  BY DEF ProcessorExits, tempFileVars, eventVars, localVars
<1>2. PICK x \in ExitCode :
        /\ proc[c] = "running"
        /\ proc' = [proc EXCEPT ![c] = "exited"]
        /\ UNCHANGED rawCertPath
        /\ exitStatus' = [exitStatus EXCEPT ![c] = x]
  BY ProcessExitEffect DEF ProcessorExits, FileInv, StructInv, TypeOK
<1>3. \A d \in Call : ContentInv(d)'
  BY <1>1 DEF FileInv, ContentInv, CertWritten, HoldsOwn
<1>4. \A n, d : FileKept(n, d) => FileKept(n, d)'
  BY <1>1 DEF FileKept, CertWritten, HoldsOwn, BoundToKeep
<1>5. RunningKept'
  BY <1>1, <1>2, <1>4
     DEF FileInv, StructInv, TypeOK, ProcessTypeOK, RunningKept, Thrown
<1>6. EvidenceInv'
  BY <1>1, <1>4 DEF FileInv, EvidenceInv, EntryKept
<1> QED
  BY <1>3, <1>5, <1>6 DEF FileInv

LEMMA ServiceInd ==
  ASSUME FileInv, StructInv', Initialize \/ StopService
  PROVE  FileInv'
<1>1. UNCHANGED <<tempFileVars, processVars, localVars, log>>
  BY DEF Initialize, StopService, EventSourceOpen, EventSourceClose, eventVars
<1>2. UNCHANGED <<disk, m_fPreserve, log, pc, hr, strTempFile, cbTotal,
                  dwExitCode, proc, rawCertPath, exitStatus>>
  BY <1>1 DEF tempFileVars, processVars, localVars
<1>3. \A d \in Call : ContentInv(d)'
  BY <1>2 DEF FileInv, ContentInv, CertWritten, HoldsOwn
<1>4. \A n, d : FileKept(n, d) => FileKept(n, d)'
  BY <1>2 DEF FileKept, CertWritten, HoldsOwn, BoundToKeep
<1>5. RunningKept' /\ EvidenceInv'
  BY <1>2, <1>4 DEF FileInv, RunningKept, Thrown, EvidenceInv, EntryKept
<1> QED
  BY <1>3, <1>5 DEF FileInv

(* A crash keeps every file, and the threads that could delete one are gone *)
LEMMA CrashInd ==
  ASSUME FileInv, StructInv', CrashService
  PROVE  FileInv'
<1> DEFINE lost == {c \in Call : Active(c)}
<1>1. /\ m_fPreserve' = [c \in Call |-> IF c \in lost THEN FALSE ELSE m_fPreserve[c]]
      /\ pc' = [c \in Call |-> IF c \in lost THEN "crashed" ELSE pc[c]]
      /\ hr' = [c \in Call |-> IF c \in lost THEN "S_OK" ELSE hr[c]]
      /\ strTempFile' = [c \in Call |-> IF c \in lost THEN NoPath ELSE strTempFile[c]]
      /\ cbTotal' = [c \in Call |-> IF c \in lost THEN 0 ELSE cbTotal[c]]
      /\ dwExitCode' = [c \in Call |-> IF c \in lost THEN 0 ELSE dwExitCode[c]]
      /\ UNCHANGED <<disk, log, proc, rawCertPath, exitStatus>>
  BY DEF CrashService, TempFileAbandon, ProcessAbandon, EventSourceClose
<1> HIDE DEF lost
<1>2. \A d \in Call : ContentInv(d)'
  BY <1>1 DEF FileInv, ContentInv, CertWritten, HoldsOwn, BeforeFile, WrittenLabel
<1>3. ASSUME NEW n, NEW d \in Call, FileKept(n, d)
      PROVE  FileKept(n, d)'
  <2>1. n \in TempName /\ n # NoPath
    BY <1>3, ConstantsAssumption DEF FileKept
  <2>2. ASSUME NEW e \in Call, strTempFile'[e] = n
        PROVE  e = d /\ BoundToKeep(d)'
    <3>1. e \notin lost /\ strTempFile[e] = n
      BY <1>1, <2>1, <2>2
    <3>2. e = d /\ BoundToKeep(d)
      BY <1>3, <3>1 DEF FileKept
    <3> QED
      BY <1>1, <3>1, <3>2 DEF BoundToKeep
  <2> QED
    BY <1>1, <1>3, <2>1, <2>2, CertWrittenStays DEF FileKept
<1>4. RunningKept'
  <2>1. \A d \in Call : Thrown(d) => Thrown(d)'
    BY <1>1 DEF Thrown, lost, Active, ActiveLabel, ProcessorLabel
  <2> QED
    BY <1>1, <1>3, <2>1 DEF FileInv, RunningKept
<1>5. EvidenceInv'
  <2>1. \A i \in DOMAIN log : log[i].call \in Call
    <3>1. \A i \in DOMAIN log : log[i] \in Entry
      BY ElementOfSeq, LenProperties DEF FileInv, StructInv, TypeOK, EventSourceTypeOK
    <3> QED
      BY <3>1 DEF Entry
  <2>2. \A d \in Call : pc[d] \in KeepLabel => pc'[d] \in KeepLabel
    BY <1>1 DEF KeepLabel, Ended
  <2> QED
    BY <1>1, <1>3, <2>1, <2>2 DEF FileInv, EvidenceInv, EntryKept
<1> QED
  BY <1>2, <1>4, <1>5 DEF FileInv

-----------------------------------------------------------------------------
LEMMA IndInit == Init => FileInv
<1> SUFFICES ASSUME Init PROVE FileInv
  OBVIOUS
<1>1. \A c \in Call : ContentInv(c)
  BY DEF Init, ContentInv, BeforeFile, WrittenLabel
<1>2. RunningKept
  BY DEF Init, ProcessInit, RunningKept
<1>3. log = <<>>
  BY DEF Init, EventSourceInit
<1>4. EvidenceInv
  BY <1>3 DEF EvidenceInv
<1> QED
  BY <1>1, <1>2, <1>4, StructInit DEF FileInv

(* The strengthened invariant is inductive, whatever fails.                 *)
LEMMA IndStep == FileInv /\ [Next]_vars => FileInv'
<1> SUFFICES ASSUME FileInv, [Next]_vars PROVE FileInv'
  OBVIOUS
<1>1. StructInv'
  BY StructStep DEF FileInv
<1>2. CASE Initialize \/ StopService
  BY <1>1, <1>2, ServiceInd
<1>3. CASE CrashService
  BY <1>1, <1>3, CrashInd
<1>4. ASSUME NEW c \in Call, NEW e \in ExitEvent, Notify(c, e)
      PROVE  FileInv'
  BY <1>1, <1>4, OutsideInd
<1>5. ASSUME NEW c \in Call, Step(c)
      PROVE  FileInv'
  <2>1. CASE InitServer(c) \/ ReadProperties(c) \/ InitProcessor(c)
    BY <1>1, <2>1, OutsideInd
  <2>2. CASE EventProcessorNext(c)
    BY <1>1, <2>2, GetTempFilePathInd, CreateTempFileInd, WriteCertInd,
       FormatArgumentsInd, StartProcessInd, ReportInd, WaitForProcessInd,
       ReadExitCodeInd, UnwindInd, DisposeInd
       DEF EventProcessorNext
  <2>3. CASE LeaveNotify(c)
    BY <1>1, <2>3, LeaveNotifyInd
  <2> QED
    BY <1>5, <2>1, <2>2, <2>3 DEF Step
<1>6. ASSUME NEW c \in Call, ProcessorExits(c)
      PROVE  FileInv'
  BY <1>1, <1>6, ProcessorExitsInd
<1>7. ASSUME NEW c \in Call, AllocThrows(c)
      PROVE  FileInv'
  BY <1>1, <1>7, AllocThrowsInd
<1>8. CASE UNCHANGED vars
  <2>1. UNCHANGED <<disk, m_fPreserve, log, pc, hr, strTempFile, cbTotal,
                    dwExitCode, proc, rawCertPath, exitStatus>>
    BY <1>8 DEF vars, tempFileVars, processVars, eventVars, localVars
  <2>2. \A d \in Call : ContentInv(d)'
    BY <2>1 DEF FileInv, ContentInv, CertWritten, HoldsOwn
  <2>3. \A n, d : FileKept(n, d) => FileKept(n, d)'
    BY <2>1 DEF FileKept, CertWritten, HoldsOwn, BoundToKeep
  <2>4. RunningKept' /\ EvidenceInv'
    BY <2>1, <2>3 DEF FileInv, RunningKept, Thrown, EvidenceInv, EntryKept
  <2> QED
    BY <1>1, <2>2, <2>4 DEF FileInv
<1> QED
  BY <1>2, <1>3, <1>4, <1>5, <1>6, <1>7, <1>8 DEF Next

(* A thread deletes no file but its own, and not that one either once a     *)
(* processor or an entry of the log depends on it, unless an exception ends *)
(* it; with this the proofs of the theorems below, and of the refinement,   *)
(* need no history.                                                         *)
THEOREM Invariance == Spec => []FileInv
BY IndInit, IndStep, PTL DEF Spec

(* The certificate of a processor is there, and its file is closed.         *)
LEMMA KeptIsClosed ==
  ASSUME StructInv, NEW c \in Call, FileKept(rawCertPath[c], c)
  PROVE  CertWritten(rawCertPath[c], c) /\ Closed(rawCertPath[c])
<1>1. rawCertPath[c] # NoPath
  BY ConstantsAssumption DEF FileKept
<1>2. ASSUME NEW d \in Call, m_hFile[d], m_strPath[d] = rawCertPath[c]
      PROVE  FALSE
  <2>1. strTempFile[d] = rawCertPath[c]
    BY <1>1, <1>2 DEF StructInv, LocalInv
  <2>2. BoundToKeep(d)
    BY <1>1, <2>1 DEF FileKept
  <2> QED
    BY <1>2, <2>2 DEF StructInv, LocalInv, BoundToKeep
<1> QED
  BY <1>1, <1>2 DEF FileKept, Closed

(* Whatever fails, exceptions and short writes included: in the file of a   *)
(* running processor, and in the file an entry points to, there is nothing  *)
(* but the certificate they are about, unless an exception has ended the    *)
(* call of that processor.                                                  *)
THEOREM CertificatesStayApart == Spec => []CertsNotMixed
<1>1. ASSUME FileInv PROVE CertsNotMixed
  <2>1. ASSUME NEW c \in Call, proc[c] = "running", pc[c] # "thrown"
        PROVE  HoldsOwn(rawCertPath[c], c) /\ Closed(rawCertPath[c])
    BY <1>1, <2>1, KeptIsClosed DEF FileInv, RunningKept, Thrown, CertWritten
  <2>2. ASSUME NEW i \in DOMAIN log,
               log[i].msg \in EvidenceMessage, log[i].file # NoPath
        PROVE  HoldsOwn(log[i].file, log[i].call)
    BY <1>1, <2>2
       DEF FileInv, EvidenceInv, EntryKept, Evidence, FileKept, CertWritten
  <2> QED
    BY <2>1, <2>2 DEF CertsNotMixed
<1> QED
  BY <1>1, Invariance, PTL

(* A running event processor finds exactly the certificate of its call in   *)
(* the file it was given, and finds that file closed, whatever other calls  *)
(* do, however long it runs and whether or not the service survives.        *)
THEOREM ProcessorHasCert ==
  ASSUME "shortwrite" \notin Faults, "badalloc" \notin Faults
  PROVE  Spec => []RunningProcessorHasCert
<1>1. FileInv => RunningProcessorHasCert
  BY KeptIsClosed
     DEF FileInv, RunningKept, Thrown, CertWritten, RunningProcessorHasCert
<1> QED
  BY <1>1, Invariance, PTL

(* The file an entry points to is never deleted or given to another call,   *)
(* exceptions or not, and holds the certificate.                            *)
THEOREM EvidenceIsKept ==
  ASSUME "shortwrite" \notin Faults
  PROVE  Spec => []EvidenceKept
<1>1. FileInv => EvidenceKept
  BY DEF FileInv, EvidenceInv, EntryKept, Evidence, FileKept, CertWritten,
         EvidenceKept
<1> QED
  BY <1>1, Invariance, PTL
=============================================================================
