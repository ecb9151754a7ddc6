---------------------- MODULE DeliveryRefinementProofs ----------------------
(***************************************************************************)
(* The proof that PMICertExit implements CertDelivery: every step of a     *)
(* thread is, read through the mapping, one step of the promise to its own *)
(* call or none at all, and leaves the promises to the other calls alone.  *)
(***************************************************************************)
EXTENDS DeliveryRefinement, PMICertExitLogProofs

(* The contents that a certificate could be mistaken for.                   *)
LEMMA CertsDiffer ==
  ASSUME NEW c \in Call
  PROVE  /\ RawCert(c) # <<>>
         /\ RawCert(c) # NoFile
         /\ \A d \in Call : RawCert(c) = RawCert(d) => c = d
<1>1. CertLength \in Nat /\ 1 \in 1 .. CertLength
  BY ConstantsAssumption
<1>2. \A d : RawCert(d) = [i \in 1 .. CertLength |-> <<d, i>>]
  BY DEF RawCert, CertPrefix
<1>3. \A d : DOMAIN RawCert(d) = 1 .. CertLength /\ RawCert(d)[1] = <<d, 1>>
  BY <1>1, <1>2
<1>4. RawCert(c) # <<>>
  BY <1>1, <1>3
<1>5. ASSUME NEW d \in Call, RawCert(c) = RawCert(d)
      PROVE  c = d
  <2>1. <<c, 1>> = <<d, 1>>
    BY <1>3, <1>5
  <2> QED
    BY <2>1
<1> QED
  BY <1>4, <1>5, CertFacts

-----------------------------------------------------------------------------
(* From one call to all of them                                             *)

SameStage(c) == StageOf(c)' = StageOf(c)
SameProcessor(c) == ProcessorOf(c)' = ProcessorOf(c)
SameCert(c) == CertAvailable(c)' = CertAvailable(c)
SameTold(c) == ToldOf(c)' = ToldOf(c)

Same(c) == SameStage(c) /\ SameProcessor(c) /\ SameCert(c) /\ SameTold(c)

(* The actions of the promise, for the one call they are about.             *)
PromiseStep(c) ==
  \/ Same(c)
  \/ /\ StageOf(c) = "idle" /\ StageOf(c)' = "notified"
     /\ SameProcessor(c) /\ SameCert(c) /\ SameTold(c)
  \/ /\ StageOf(c) = "notified" /\ SameStage(c)
     /\ ProcessorOf(c) = "none" /\ ProcessorOf(c)' = "running"
     /\ CertAvailable(c)' = TRUE /\ SameTold(c)
  \/ /\ ProcessorOf(c) = "running" /\ ProcessorOf(c)' \in {"ok", "error"}
     /\ SameStage(c) /\ SameCert(c) /\ SameTold(c)
  \/ /\ StageOf(c) = "notified" /\ ToldOf(c) = "nothing"
     /\ \/ ProcessorOf(c) = "ok" /\ ToldOf(c)' = "success"
        \/ ToldOf(c)' = "problem"
     /\ SameStage(c) /\ SameProcessor(c) /\ SameCert(c)
  \/ /\ StageOf(c) = "notified" /\ ProcessorOf(c) = "ok" /\ ToldOf(c) # "problem"
     /\ CertAvailable(c)' = FALSE
     /\ SameStage(c) /\ SameProcessor(c) /\ SameTold(c)
  \/ /\ StageOf(c) = "notified" /\ StageOf(c)' = "answered"
     /\ \/ ToldOf(c) = "nothing" /\ ToldOf(c)' = "problem"
        \/ SameTold(c)
     /\ SameProcessor(c) /\ SameCert(c)

LEMMA PromiseOfOne ==
  ASSUME NEW c \in Call, PromiseStep(c), \A d \in Call \ {c} : Same(d)
  PROVE  [Delivery!Next]_(Delivery!dvars)
<1> DEFINE stage == [d \in Call |-> StageOf(d)]
           processor == [d \in Call |-> ProcessorOf(d)]
           available == [d \in Call |-> CertAvailable(d)]
           told == [d \in Call |-> ToldOf(d)]
<1>1. /\ SameStage(c) => stage' = stage
      /\ SameProcessor(c) => processor' = processor
      /\ SameCert(c) => available' = available
      /\ SameTold(c) => told' = told
  BY DEF Same, SameStage, SameProcessor, SameCert, SameTold
<1>2. /\ \A s : StageOf(c)' = s => stage' = [stage EXCEPT ![c] = s]
      /\ \A s : ProcessorOf(c)' = s => processor' = [processor EXCEPT ![c] = s]
      /\ \A s : CertAvailable(c)' = s => available' = [available EXCEPT ![c] = s]
      /\ \A s : ToldOf(c)' = s => told' = [told EXCEPT ![c] = s]
  BY DEF Same, SameStage, SameProcessor, SameCert, SameTold
<1>3. /\ stage[c] = StageOf(c) /\ processor[c] = ProcessorOf(c)
      /\ available[c] = CertAvailable(c) /\ told[c] = ToldOf(c)
  OBVIOUS
<1> QED
  BY <1>1, <1>2, <1>3
     DEF PromiseStep, Same, Delivery!Next, Delivery!dvars, Delivery!Announce,
         Delivery!Offer, Delivery!Finish, Delivery!Tell, Delivery!Withdraw,
         Delivery!Answer

-----------------------------------------------------------------------------
(* What a step of thread c leaves alone                                     *)

(* It changes no file but its own, or one that did not exist, and leaves no *)
(* certificate there but its own.                                           *)
DiskFrame(c) ==
  \A m \in TempName :
    \/ disk'[m] = disk[m]
    \/ /\ m = strTempFile[c] \/ disk[m] = NoFile
       /\ disk'[m] \in {NoFile, <<>>, RawCert(c)}

ProcessFrame(c) ==
  \A d \in Call \ {c} :
    /\ dwExitCode'[d] = dwExitCode[d] /\ proc'[d] = proc[d]
    /\ rawCertPath'[d] = rawCertPath[d] /\ exitStatus'[d] = exitStatus[d]

LEMMA ThreadDisk ==
  ASSUME "shortwrite" \notin Faults, FileInv, NEW c \in Call,
         (\E e \in ExitEvent : Notify(c, e)) \/ Step(c)
  PROVE  DiskFrame(c)
<1>0. /\ disk \in [TempName -> Seq(Byte) \cup {NoFile}]
      /\ TempFileTypeOK
  BY DEF FileInv, StructInv, TypeOK, TempFileTypeOK
<1>1. CASE UNCHANGED disk
  BY <1>1 DEF DiskFrame
<1>2. CASE GetTempFilePath(c)
  <2>1. PICK n \in TempName \cup {NoPath}, h \in HRESULT : TempFileName(n, h)
    BY <1>2 DEF GetTempFilePath
  <2> QED
    BY <1>0, <2>1 DEF TempFileName, DiskFrame
<1>3. CASE CreateTempFile(c)
  <2>1. PICK h \in HRESULT : TempFileCreate(c, strTempFile[c], h)
    BY <1>3 DEF CreateTempFile
  <2> QED
    BY <1>0, <2>1 DEF TempFileCreate, DiskFrame
<1>4. CASE WriteCert(c)
  <2>1. PICK cb \in 0 .. CertLength, h \in HRESULT : TempFileWrite(c, cb, h)
    BY <1>4 DEF WriteCert
  <2>2. /\ strTempFile[c] \in TempName
        /\ m_strPath[c] = strTempFile[c]
        /\ disk[strTempFile[c]] = <<>>
    BY <1>4 DEF WriteCert, FileInv, StructInv, LocalInv, ContentInv
  <2>3. <<>> \o CertPrefix(c, CertLength) = RawCert(c)
    BY CertFacts DEF RawCert
  <2>4. \/ disk' = disk
        \/ disk' = [disk EXCEPT ![strTempFile[c]] = RawCert(c)]
    BY <2>1, <2>2, <2>3 DEF TempFileWrite
  <2> QED
    BY <1>0, <2>2, <2>4 DEF DiskFrame
<1>5. CASE Dispose(c)
  <2>1. m_strPath[c] \in {NoPath, strTempFile[c]} /\ NoPath \notin TempName
    BY ConstantsAssumption DEF FileInv, StructInv, LocalInv
  <2> QED
    BY <1>0, <1>5, <2>1 DEF Dispose, TempFileDestroy, DiskFrame
<1> QED
  BY <1>1, <1>2, <1>3, <1>4, <1>5
     DEF Step, EventProcessorNext, Notify, InitServer, ReadProperties,
         InitProcessor, LeaveNotify, FormatArguments, TempFileClose,
         StartProcess, ReportStartFailed, ReportStarted, WaitForProcess,
         ReportTimedOut, ReadExitCode, ReportVerdict, Unwind,
         TempFilePreserve, tempFileVars

LEMMA ThreadProcess ==
  ASSUME StructInv, NEW c \in Call,
         (\E e \in ExitEvent : Notify(c, e)) \/ Step(c)
  PROVE  ProcessFrame(c)
<1>0. /\ dwExitCode \in [Call -> ExitCode]
      /\ proc \in [Call -> {"none", "running", "exited"}]
      /\ rawCertPath \in [Call -> TempName \cup {NoPath}]
  BY DEF StructInv, TypeOK, ProcessTypeOK
<1>1. CASE UNCHANGED <<dwExitCode, proc, rawCertPath, exitStatus>>
  BY <1>1 DEF ProcessFrame
<1>2. CASE StartProcess(c)
  BY <1>0, <1>2 DEF StartProcess, ProcessCreate, ProcessFrame
<1>3. CASE ReadExitCode(c)
  BY <1>0, <1>3
     DEF ReadExitCode, ProcessGetExitCode, ProcessFrame, processVars
<1>4. CASE Dispose(c)
  BY <1>0, <1>4 DEF Dispose, ProcessFrame, processVars
<1> QED
  BY <1>1, <1>2, <1>3, <1>4
     DEF Step, EventProcessorNext, Notify, InitServer, ReadProperties,
         InitProcessor, LeaveNotify, GetTempFilePath, CreateTempFile, WriteCert,
         FormatArguments, ReportStartFailed, ReportStarted, WaitForProcess,
         ProcessWait, ReportTimedOut, ReportVerdict, Unwind, ProcessDestroy,
         processVars

-----------------------------------------------------------------------------
(* What is told                                                             *)

LEMMA ToldStays ==
  ASSUME NEW d, log' = log
  PROVE  SameTold(d)
BY DEF SameTold, ToldOf, Logged

(* Entries of another call tell nothing of d.                               *)
LEMMA ToldOther ==
  ASSUME NEW c \in Call, NEW d \in Call \ {c}, NEW M, LogGrowsBy(c, M),
         \A i \in DOMAIN log : i \in DOMAIN log' /\ log'[i] = log[i]
  PROVE  SameTold(d)
<1>1. \A N : Logged(d, N)' <=> Logged(d, N)
  BY DEF Logged, LogGrowsBy
<1> QED
  BY <1>1 DEF SameTold, ToldOf

(* One entry more of c.                                                     *)
LEMMA ToldOwn ==
  ASSUME NEW c \in Call, NEW m, LogGrowsBy(c, {m}),
         \A i \in DOMAIN log : i \in DOMAIN log' /\ log'[i] = log[i]
  PROVE  /\ m \in ProblemMessage => SameTold(c) \/ ToldOf(c)' = "problem"
         /\ (m = "MSG_PROCESS_SUCCEEDED" /\ ToldOf(c) = "nothing") =>
              SameTold(c) \/ ToldOf(c)' = "success"
         /\ m = "MSG_PROCESS_START_SUCCEEDED" => SameTold(c)
<1>1. \A N : Logged(c, N) => Logged(c, N)'
  BY DEF Logged
<1>2. \A N : m \notin N => (Logged(c, N)' <=> Logged(c, N))
  BY DEF Logged, LogGrowsBy
<1>3. "MSG_PROCESS_SUCCEEDED" \notin ProblemMessage
      /\ "MSG_PROCESS_START_SUCCEEDED" \notin ProblemMessage
  BY DEF ProblemMessage, EvidenceMessage
<1> QED
  BY <1>1, <1>2, <1>3 DEF SameTold, ToldOf

-----------------------------------------------------------------------------
(* The promises to the other calls do not notice a step of thread c.        *)
LEMMA OthersUndisturbed ==
  ASSUME StructInv, DeliveryInv, NEW c \in Call,
         Alone(c), DiskFrame(c), ProcessFrame(c),
         \A d \in Call \ {c} : SameTold(d)
  PROVE  \A d \in Call \ {c} : Same(d) /\ DeliveryPlace(d)'
<1> SUFFICES ASSUME NEW d \in Call \ {c}
             PROVE  Same(d) /\ DeliveryPlace(d)'
  OBVIOUS
<1>1. /\ pc'[d] = pc[d] /\ hr'[d] = hr[d] /\ strTempFile'[d] = strTempFile[d]
      /\ m_fPreserve'[d] = m_fPreserve[d] /\ dwExitCode'[d] = dwExitCode[d]
      /\ proc'[d] = proc[d] /\ rawCertPath'[d] = rawCertPath[d]
      /\ exitStatus'[d] = exitStatus[d]
  BY DEF Alone, ProcessFrame
<1>2. SameStage(d) /\ SameProcessor(d)
  BY <1>1 DEF SameStage, SameProcessor, StageOf, ProcessorOf, Active
<1>3. DeliveryPlace(c) /\ DeliveryPlace(d)
  BY DEF DeliveryInv
<1>4. ASSUME rawCertPath[d] # NoPath
      PROVE  disk'[rawCertPath[d]] = RawCert(d) <=> disk[rawCertPath[d]] = RawCert(d)
  <2>1. rawCertPath[d] \in TempName
    BY <1>4 DEF StructInv, TypeOK, ProcessTypeOK
  <2>2. CASE disk'[rawCertPath[d]] = disk[rawCertPath[d]]
    BY <2>2
  <2>3. CASE disk'[rawCertPath[d]] # disk[rawCertPath[d]]
    <3>1. /\ rawCertPath[d] = strTempFile[c] \/ disk[rawCertPath[d]] = NoFile
          /\ disk'[rawCertPath[d]] \in {NoFile, <<>>, RawCert(c)}
      BY <2>1, <2>3 DEF DiskFrame
    <3>2. disk[rawCertPath[d]] \in {NoFile, <<>>, RawCert(c)}
      BY <1>3, <1>4, <3>1 DEF DeliveryPlace
    <3> QED
      BY <3>1, <3>2, CertsDiffer
  <2> QED
    BY <2>2, <2>3
<1>5. SameCert(d)
  BY <1>1, <1>4 DEF SameCert, CertAvailable
<1>6. ASSUME strTempFile[d] # NoPath
      PROVE  disk'[strTempFile[d]] = disk[strTempFile[d]]
  <2>1. strTempFile[d] \in TempName
    BY <1>6 DEF StructInv, TypeOK
  <2>2. disk[strTempFile[d]] # NoFile /\ strTempFile[d] # strTempFile[c]
    BY <1>6 DEF StructInv, FileOwned
  <2> QED
    BY <2>1, <2>2 DEF DiskFrame
<1>7. DeliveryPlace(d)'
  BY <1>1, <1>2, <1>3, <1>6
     DEF DeliveryPlace, SameProcessor, SameTold
<1> QED
  BY <1>2, <1>5, <1>7 DEF Same

-----------------------------------------------------------------------------
(* The steps of a thread, seen from its own call                            *)

(* A file of its own keeps to one of the two contents.                      *)
LEMMA OwnContent ==
  ASSUME StructInv, StructInv', DeliveryInv, NEW c \in Call, DiskFrame(c),
         \/ strTempFile'[c] \in {strTempFile[c], NoPath}
         \/ disk[strTempFile'[c]] = NoFile
  PROVE  strTempFile'[c] # NoPath =>
           disk'[strTempFile'[c]] \in {<<>>, RawCert(c)}
<1> SUFFICES ASSUME strTempFile'[c] # NoPath
             PROVE  disk'[strTempFile'[c]] \in {<<>>, RawCert(c)}
  OBVIOUS
<1>1. strTempFile'[c] \in TempName /\ disk'[strTempFile'[c]] # NoFile
  BY DEF StructInv, TypeOK, FileOwned
<1>2. CASE disk'[strTempFile'[c]] = disk[strTempFile'[c]]
  BY <1>1, <1>2 DEF DeliveryInv, DeliveryPlace
<1>3. CASE disk'[strTempFile'[c]] # disk[strTempFile'[c]]
  BY <1>1, <1>3 DEF DiskFrame
<1> QED
  BY <1>2, <1>3

(* The thread moves on, and nothing else that the promise is about changes. *)
LEMMA QuietMove ==
  ASSUME NEW c \in Call, Active(c), Active(c)',
         UNCHANGED <<proc, exitStatus, log>>, SameCert(c)
  PROVE  Same(c)
BY ToldStays
   DEF Same, SameStage, StageOf, SameProcessor, ProcessorOf, Active, ActiveLabel,
       ProcessorLabel

LEMMA NotifyPromise ==
  ASSUME FileInv, StructInv', DeliveryInv, NEW c \in Call, NEW e \in ExitEvent,
         Notify(c, e), DiskFrame(c)
  PROVE  PromiseStep(c) /\ DeliveryPlace(c)'
<1>1. /\ pc[c] = "idle" /\ pc'[c] \in {"leave", "server"}
      /\ UNCHANGED <<disk, m_fPreserve, proc, rawCertPath, exitStatus, log,
                     strTempFile>>
  BY DEF Notify, Goto, FileInv, StructInv, TypeOK, tempFileVars, processVars, eventVars
<1>2. StageOf(c) = "idle" /\ StageOf(c)' = "notified"
  BY <1>1 DEF StageOf, Active, ActiveLabel, ProcessorLabel
<1>3. SameProcessor(c) /\ SameCert(c) /\ SameTold(c)
  BY <1>1, ToldStays
     DEF SameProcessor, SameCert, ProcessorOf, CertAvailable
<1>4. DeliveryPlace(c)'
  BY <1>1, <1>3
     DEF DeliveryInv, DeliveryPlace, KeepLabel, Ended, SameTold
<1> QED
  BY <1>2, <1>3, <1>4 DEF PromiseStep

(* Before there is a process no certificate is promised to it.              *)
LEMMA EarlyPromise ==
  ASSUME FileInv, StructInv', DeliveryInv, NEW c \in Call, DiskFrame(c),
         \/ InitServer(c) \/ ReadProperties(c) \/ InitProcessor(c)
         \/ GetTempFilePath(c) \/ CreateTempFile(c) \/ WriteCert(c)
         \/ FormatArguments(c)
  PROVE  PromiseStep(c) /\ DeliveryPlace(c)'
<1>0. /\ pc \in [Call -> Label]
      /\ hr \in [Call -> HRESULT]
      /\ strTempFile \in [Call -> TempName \cup {NoPath}]
  BY DEF FileInv, StructInv, TypeOK
<1>1. /\ pc[c] \in {"server", "properties", "config", "tempname", "create",
                    "write", "format"}
      /\ pc'[c] \in {"properties", "config", "tempname", "create", "write",
                     "format", "launch", "dispose", "leave"}
      /\ UNCHANGED <<proc, rawCertPath, exitStatus, log>>
  BY <1>0
     DEF InitServer, ReadProperties, InitProcessor, GetTempFilePath,
         CreateTempFile, WriteCert, FormatArguments, Result, Goto, processVars,
         eventVars
<1>2. proc[c] = "none" /\ rawCertPath[c] = NoPath
  BY <1>1
     DEF FileInv, StructInv, ProcessInv, BeforeFile, DeliveryInv, DeliveryPlace
<1>3. SameCert(c)
  BY <1>1, <1>2 DEF SameCert, CertAvailable
<1>4. Same(c)
  BY <1>1, <1>3, QuietMove DEF Active, ActiveLabel, ProcessorLabel
<1>5. \/ strTempFile'[c] \in {strTempFile[c], NoPath}
      \/ disk[strTempFile'[c]] = NoFile
  BY <1>0
     DEF InitServer, ReadProperties, InitProcessor, GetTempFilePath, TempFileName,
         CreateTempFile, WriteCert, FormatArguments
<1>6. ToldOf(c)' = "nothing"
  BY <1>1, <1>4
     DEF Same, SameTold, DeliveryInv, DeliveryPlace, KeepLabel, Ended
<1>7. DeliveryPlace(c)'
  BY <1>1, <1>2, <1>5, <1>6, OwnContent DEF DeliveryPlace, FileInv
<1> QED
  BY <1>4, <1>7 DEF PromiseStep

(* The processor is started on its certificate, or not at all.              *)
LEMMA StartPromise ==
  ASSUME "shortwrite" \notin Faults, FileInv, StructInv', DeliveryInv,
         NEW c \in Call, DiskFrame(c), StartProcess(c)
  PROVE  PromiseStep(c) /\ DeliveryPlace(c)'
<1>0. /\ pc \in [Call -> Label]
      /\ hr \in [Call -> HRESULT]
      /\ proc \in [Call -> {"none", "running", "exited"}]
      /\ rawCertPath \in [Call -> TempName \cup {NoPath}]
  BY DEF FileInv, StructInv, TypeOK, ProcessTypeOK
<1>1. PICK h \in HRESULT :
        /\ ProcessCreate(c, strTempFile[c], h)
        /\ Result(c, h, "started", "startfailed")
  BY DEF StartProcess
<1>2. /\ pc[c] = "launch" /\ pc'[c] \in {"started", "startfailed"}
      /\ UNCHANGED <<strTempFile, m_fPreserve, disk, log>>
  BY <1>0, <1>1 DEF StartProcess, Result, Goto, tempFileVars, eventVars
<1>3. /\ proc[c] = "none"
      /\ strTempFile[c] \in TempName /\ strTempFile[c] # NoPath
      /\ disk[strTempFile[c]] = RawCert(c)
  BY <1>2, ConstantsAssumption
     DEF FileInv, StructInv, LocalInv, ProcessInv, ContentInv, CertWritten,
         WrittenLabel
<1>4. ToldOf(c) = "nothing" /\ SameTold(c)
  BY <1>2, ToldStays DEF DeliveryInv, DeliveryPlace, KeepLabel, Ended
<1>5. StageOf(c) = "notified" /\ SameStage(c)
  BY <1>2 DEF StageOf, SameStage, Active, ActiveLabel, ProcessorLabel
<1>6. \/ /\ proc'[c] = "running" /\ rawCertPath'[c] = strTempFile[c]
      \/ UNCHANGED <<proc, rawCertPath, exitStatus>>
  BY <1>0, <1>1 DEF ProcessCreate
<1>7. PromiseStep(c)
  <2>1. CASE proc'[c] = "running" /\ rawCertPath'[c] = strTempFile[c]
    BY <1>2, <1>3, <1>4, <1>5, <2>1
       DEF PromiseStep, ProcessorOf, CertAvailable
  <2>2. CASE UNCHANGED <<proc, rawCertPath, exitStatus>>
    BY <1>2, <1>4, <1>5, <2>2
       DEF PromiseStep, Same, SameProcessor, ProcessorOf, SameCert, CertAvailable
  <2> QED
    BY <1>6, <2>1, <2>2
<1>8. DeliveryPlace(c)'
  BY <1>2, <1>3, <1>4, <1>6 DEF DeliveryPlace, DeliveryInv, SameTold
<1> QED
  BY <1>7, <1>8

(* Waiting, reading the exit code and leaving RunProcess promise nothing    *)
(* new; a thread that has waited out its processor knows how it ended.      *)
LEMMA WaitPromise ==
  ASSUME FileInv, StructInv', DeliveryInv, NEW c \in Call, DiskFrame(c),
         WaitForProcess(c) \/ ReadExitCode(c) \/ Unwind(c)
  PROVE  PromiseStep(c) /\ DeliveryPlace(c)'
<1>0. /\ pc \in [Call -> Label]
      /\ hr \in [Call -> HRESULT]
      /\ m_fPreserve \in [Call -> BOOLEAN]
      /\ dwExitCode \in [Call -> ExitCode]
  BY DEF FileInv, StructInv, TypeOK, TempFileTypeOK
<1>1. /\ pc[c] \in {"wait", "exitcode", "unwind"}
      /\ pc'[c] \in {"exitcode", "timedout", "verdict", "unwind", "dispose"}
      /\ UNCHANGED <<disk, strTempFile, proc, rawCertPath, exitStatus, log>>
  BY <1>0
     DEF WaitForProcess, ProcessWait, ReadExitCode, ProcessGetExitCode, Unwind,
         ProcessDestroy, TempFilePreserve, Result, Goto, tempFileVars,
         processVars, eventVars
<1>2. Same(c)
  BY <1>1, QuietMove
     DEF SameCert, CertAvailable, Active, ActiveLabel, ProcessorLabel
<1>3. pc'[c] = "unwind" => FAILED(hr'[c])
  BY <1>0, <1>1
     DEF WaitForProcess, ReadExitCode, Unwind, Result, Goto, FAILED
<1>4. pc[c] = "unwind" => pc'[c] = "dispose"
  BY <1>0 DEF WaitForProcess, ReadExitCode, Unwind, Goto
<1>5. pc'[c] = "dispose" =>
        /\ pc[c] = "unwind"
        /\ ~ m_fPreserve'[c] => ~ FAILED(hr[c]) /\ dwExitCode[c] = 0
  BY <1>0
     DEF WaitForProcess, ReadExitCode, Unwind, TempFilePreserve, tempFileVars,
         Result, Goto
<1>6. pc[c] # "unwind" => ToldOf(c) = "nothing"
  BY <1>1 DEF DeliveryInv, DeliveryPlace, KeepLabel, Ended
<1>7. DeliveryPlace(c)'
  BY <1>1, <1>2, <1>3, <1>4, <1>5, <1>6
     DEF DeliveryInv, DeliveryPlace, Same, SameProcessor, SameTold, ProcessorOf,
         KeepLabel
<1> QED
  BY <1>2, <1>7 DEF PromiseStep

(* What RunProcess reports is the first thing told of the call, and true.   *)
LEMMA ReportPromise ==
  ASSUME FileInv, StructInv', DeliveryInv, NEW c \in Call, DiskFrame(c), Alone(c),
         \/ ReportStartFailed(c) \/ ReportStarted(c)
         \/ ReportTimedOut(c) \/ ReportVerdict(c)
  PROVE  /\ PromiseStep(c) /\ DeliveryPlace(c)'
         /\ \E M : LogGrowsBy(c, M)
<1>0. /\ pc \in [Call -> Label]
      /\ strTempFile \in [Call -> TempName \cup {NoPath}]
      /\ dwProcessId \in [Call -> Pid \cup {NoPid}]
  BY DEF FileInv, StructInv, TypeOK, ProcessTypeOK
<1>1. /\ pc[c] \in {"startfailed", "started", "timedout", "verdict"}
      /\ pc'[c] = IF pc[c] = "started" THEN "wait" ELSE "unwind"
      /\ UNCHANGED <<hr, m_fPreserve, disk, strTempFile, dwExitCode, proc,
                     rawCertPath, exitStatus>>
  BY <1>0
     DEF ReportStartFailed, ReportStarted, ReportTimedOut, ReportVerdict, Goto,
         tempFileVars, processVars
<1>2. PICK m \in Message, p \in Pid \cup {NoPid}, n \in TempName \cup {NoPath} :
        /\ \E t : ReportEvent([msg |-> m, call |-> c, pid |-> p, file |-> n], t)
        /\ pc[c] = "startfailed" => m = "MSG_PROCESS_START_FAILED"
        /\ pc[c] = "started" => m = "MSG_PROCESS_START_SUCCEEDED"
        /\ pc[c] = "timedout" => m = "MSG_PROCESS_TIMEDOUT"
        /\ pc[c] = "verdict" =>
             m = IF dwExitCode[c] = 0 THEN "MSG_PROCESS_SUCCEEDED"
                 ELSE "MSG_PROCESS_FAILED"
  <2>1. CASE ReportStartFailed(c)
    BY <1>0, <2>1 DEF ReportStartFailed, ReportProcessStartFailed, Message
  <2>2. CASE ReportStarted(c)
    BY <1>0, <2>2 DEF ReportStarted, ReportProcessStartSucceeded, Message
  <2>3. CASE ReportTimedOut(c)
    BY <1>0, <2>3 DEF ReportTimedOut, ReportProcessTimedOut, Message
  <2>4. CASE ReportVerdict(c)
    BY <1>0, <2>4
       DEF ReportVerdict, ReportProcessFailed, ReportProcessSucceeded, Message
  <2> QED
    BY <2>1, <2>2, <2>3, <2>4
<1>3. LogGrowsBy(c, {m})
  BY <1>2, ReportGrows DEF FileInv
<1>4. ToldOf(c) = "nothing"
  BY <1>1 DEF DeliveryInv, DeliveryPlace, KeepLabel, Ended
<1>5. /\ StageOf(c) = "notified" /\ SameStage(c)
      /\ SameProcessor(c) /\ SameCert(c)
  BY <1>1
     DEF StageOf, SameStage, SameProcessor, ProcessorOf, SameCert, CertAvailable,
         Active, ActiveLabel, ProcessorLabel
<1>6. /\ pc[c] = "verdict" => proc[c] = "exited" /\ dwExitCode[c] = exitStatus[c]
      /\ pc[c] \in {"startfailed", "timedout"} => FAILED(hr[c])
  BY DEF FileInv, StructInv, ProcessInv
<1>7. \/ SameTold(c)
      \/ pc[c] # "started" /\ ToldOf(c)' = "problem"
           /\ (pc[c] = "verdict" => dwExitCode[c] # 0)
      \/ pc[c] = "verdict" /\ dwExitCode[c] = 0 /\ ToldOf(c)' = "success"
  BY <1>1, <1>2, <1>3, <1>4, ToldOwn DEF ProblemMessage, EvidenceMessage, Alone
<1>8. PromiseStep(c)
  BY <1>4, <1>5, <1>6, <1>7 DEF PromiseStep, Same, ProcessorOf
<1>9. DeliveryPlace(c)'
  BY <1>1, <1>4, <1>5, <1>6, <1>7
     DEF DeliveryInv, DeliveryPlace, SameTold, KeepLabel
<1> QED
  BY <1>3, <1>8, <1>9

(* The file goes only when the processor has succeeded.                     *)
LEMMA DisposePromise ==
  ASSUME FileInv, StructInv', DeliveryInv, NEW c \in Call, DiskFrame(c), Dispose(c)
  PROVE  PromiseStep(c) /\ DeliveryPlace(c)'
<1>0. /\ pc \in [Call -> Label]
      /\ strTempFile \in [Call -> TempName \cup {NoPath}]
      /\ m_strPath[c] \in {NoPath, strTempFile[c]}
      /\ disk \in [TempName -> Seq(Byte) \cup {NoFile}]
      /\ rawCertPath[c] \in TempName \cup {NoPath}
  BY DEF FileInv, StructInv, TypeOK, LocalInv, TempFileTypeOK, ProcessTypeOK
<1>1. /\ pc[c] = "dispose" /\ pc'[c] = "leave"
      /\ strTempFile'[c] = NoPath
      /\ UNCHANGED <<hr, proc, rawCertPath, exitStatus, log>>
      /\ \/ /\ ~ m_fPreserve[c] /\ m_strPath[c] # NoPath
            /\ disk' = [disk EXCEPT ![m_strPath[c]] = NoFile]
         \/ disk' = disk
  BY <1>0 DEF Dispose, TempFileDestroy, Goto, processVars, eventVars
<1>2. /\ StageOf(c) = "notified" /\ SameStage(c) /\ SameProcessor(c) /\ SameTold(c)
  BY <1>1, ToldStays
     DEF StageOf, SameStage, SameProcessor, ProcessorOf, Active, ActiveLabel,
         ProcessorLabel
<1>3. SameCert(c) \/ /\ ~ m_fPreserve[c] /\ rawCertPath[c] # NoPath
                     /\ CertAvailable(c)' = FALSE
  <2>1. CASE rawCertPath[c] = NoPath \/ disk'[rawCertPath[c]] = disk[rawCertPath[c]]
    BY <1>1, <2>1 DEF SameCert, CertAvailable
  <2>2. CASE rawCertPath[c] # NoPath /\ disk'[rawCertPath[c]] # disk[rawCertPath[c]]
    <3>1. ~ m_fPreserve[c] /\ disk'[rawCertPath[c]] = NoFile
      BY <1>0, <1>1, <2>2
    <3> QED
      BY <1>1, <2>2, <3>1, CertsDiffer DEF CertAvailable
  <2> QED
    BY <2>1, <2>2
<1>4. (~ m_fPreserve[c] /\ rawCertPath[c] # NoPath) =>
        ProcessorOf(c) = "ok" /\ ToldOf(c) # "problem"
  BY <1>1 DEF DeliveryInv, DeliveryPlace
<1>5. DeliveryPlace(c)'
  BY <1>1, <1>2
     DEF DeliveryInv, DeliveryPlace, SameTold, KeepLabel, Ended
<1> QED
  BY <1>2, <1>3, <1>4, <1>5 DEF PromiseStep, Same

(* A failure that Notify hides is reported as a problem, and then no        *)
(* success has been: whatever has an outcome does not return a failure.     *)
LEMMA LeavePromise ==
  ASSUME FileInv, OutcomeInv, StructInv', DeliveryInv, NEW c \in Call,
         DiskFrame(c), Alone(c), LeaveNotify(c)
  PROVE  /\ PromiseStep(c) /\ DeliveryPlace(c)'
         /\ \E M : LogGrowsBy(c, M)
<1>0. pc \in [Call -> Label] /\ hr \in [Call -> HRESULT]
  BY DEF FileInv, StructInv, TypeOK
<1>1. /\ pc[c] = "leave" /\ pc'[c] = "done"
      /\ UNCHANGED <<disk, strTempFile, proc, rawCertPath, exitStatus>>
  BY <1>0 DEF LeaveNotify, Goto, tempFileVars, processVars
<1>2. LogGrowsBy(c, {"MSG_NOTIFY_FAILED"})
  <2>1. CASE log' = log
    BY <2>1 DEF LogGrowsBy
  <2>2. CASE ReportNotifyFailedInternalError(c, hr[c])
    BY <2>2, ReportGrows DEF FileInv, ReportNotifyFailedInternalError, Message
  <2> QED
    BY <2>1, <2>2 DEF LeaveNotify, eventVars
<1>3. ~ FAILED(hr[c]) => SameTold(c)
  BY ToldStays DEF LeaveNotify, eventVars
<1>4. FAILED(hr[c]) => ToldOf(c) # "success"
  <2>1. SUFFICES ASSUME FAILED(hr[c]), ToldOf(c) = "success"
                 PROVE  FALSE
    OBVIOUS
  <2>2. PICK i \in DOMAIN log :
          log[i].call = c /\ log[i].msg \in {"MSG_PROCESS_SUCCEEDED"}
    BY <2>1 DEF ToldOf, Logged
  <2>3. HasOutcome(c, i)
    BY <2>2 DEF HasOutcome, OutcomeMessage
  <2> QED
    BY <1>1, <2>1, <2>3 DEF OutcomeInv, OutcomePlace
<1>5. SameTold(c) \/ ToldOf(c)' = "problem"
  BY <1>2, ToldOwn DEF ProblemMessage, Alone
<1>6. /\ StageOf(c) = "notified" /\ StageOf(c)' = "answered"
      /\ SameProcessor(c) /\ SameCert(c)
  BY <1>1
     DEF StageOf, SameProcessor, ProcessorOf, SameCert, CertAvailable, Active,
         ActiveLabel, ProcessorLabel
<1>7. ToldOf(c) \in {"nothing", "problem", "success"}
  BY DEF ToldOf
<1>8. PromiseStep(c)
  BY <1>3, <1>4, <1>5, <1>6, <1>7 DEF PromiseStep, SameTold
<1>9. DeliveryPlace(c)'
  BY <1>1 DEF DeliveryInv, DeliveryPlace, KeepLabel, Ended
<1> QED
  BY <1>2, <1>8, <1>9

-----------------------------------------------------------------------------
(* The steps that are no thread's                                           *)

(* The event processor ends; its call is where it was.                      *)
LEMMA ExitPromise ==
  ASSUME FileInv, DeliveryInv, NEW c \in Call, ProcessorExits(c)
  PROVE  [Delivery!Next]_(Delivery!dvars) /\ DeliveryInv'
<1>1. /\ proc[c] = "running"
      /\ proc' = [proc EXCEPT ![c] = "exited"]
      /\ \E x \in ExitCode : exitStatus' = [exitStatus EXCEPT ![c] = x]
      /\ UNCHANGED <<rawCertPath, disk, log, strTempFile, pc, hr, dwExitCode,
                     m_fPreserve>>
  BY DEF ProcessorExits, ProcessExit, tempFileVars, eventVars, localVars
<1>2. /\ proc \in [Call -> {"none", "running", "exited"}]
      /\ exitStatus \in [Call -> ExitCode]
  BY DEF FileInv, StructInv, TypeOK, ProcessTypeOK
<1>3. proc'[c] = "exited"
  BY <1>1, <1>2
<1>4. \A d \in Call \ {c} : proc'[d] = proc[d] /\ exitStatus'[d] = exitStatus[d]
  BY <1>1, <1>2
<1>5. \A d \in Call : SameStage(d) /\ SameCert(d) /\ SameTold(d)
  BY <1>1, ToldStays
     DEF SameStage, StageOf, Active, SameCert, CertAvailable
<1>6. \A d \in Call \ {c} : Same(d)
  BY <1>4, <1>5 DEF Same, SameProcessor, ProcessorOf
<1>7. PromiseStep(c)
  BY <1>1, <1>3, <1>5 DEF PromiseStep, ProcessorOf
<1>8. \A d \in Call \ {c} : DeliveryPlace(d)'
  BY <1>1, <1>4, <1>6 DEF DeliveryInv, DeliveryPlace, Same, SameProcessor, SameTold
<1>9. DeliveryPlace(c)'
  <2>1. ~ (pc[c] = "unwind" /\ ~ FAILED(hr[c]))
    BY <1>1 DEF DeliveryInv, DeliveryPlace
  <2>2. ~ (pc[c] = "dispose" /\ ~ m_fPreserve[c] /\ rawCertPath[c] # NoPath)
    BY <1>1 DEF DeliveryInv, DeliveryPlace, ProcessorOf
  <2> QED
    BY <1>1, <1>3, <1>5, <2>1, <2>2 DEF DeliveryInv, DeliveryPlace, SameTold
<1> QED
  BY <1>6, <1>7, <1>8, <1>9, PromiseOfOne DEF DeliveryInv

(* The service starts and stops between two calls.                          *)
LEMMA StutterPromise ==
  ASSUME DeliveryInv,
         UNCHANGED <<pc, hr, proc, rawCertPath, exitStatus, dwExitCode, disk,
                     log, strTempFile, m_fPreserve>>
  PROVE  [Delivery!Next]_(Delivery!dvars) /\ DeliveryInv'
<1>1. \A c \in Call : Same(c)
  BY ToldStays
     DEF Same, SameStage, StageOf, Active, SameProcessor, ProcessorOf, SameCert,
         CertAvailable
<1>2. UNCHANGED Delivery!dvars
  BY <1>1
     DEF Same, SameStage, SameProcessor, SameCert, SameTold, Delivery!dvars
<1>3. DeliveryInv'
  BY <1>1 DEF DeliveryInv, DeliveryPlace, Same, SameProcessor, SameTold
<1> QED
  BY <1>2, <1>3

(* The service dies, and every notification in progress with it.            *)
LEMMA CrashPromise ==
  ASSUME StructInv, DeliveryInv, CrashService
  PROVE  [Delivery!Next]_(Delivery!dvars) /\ DeliveryInv'
<1>1. /\ UNCHANGED <<disk, log, proc, rawCertPath, exitStatus>>
      /\ \A c \in Call : pc'[c] = IF Active(c) THEN "crashed" ELSE pc[c]
      /\ \A c \in Call :
           ~ Active(c) =>
             /\ hr'[c] = hr[c] /\ strTempFile'[c] = strTempFile[c]
             /\ dwExitCode'[c] = dwExitCode[c]
             /\ m_fPreserve'[c] = m_fPreserve[c]
      /\ \A c \in Call : Active(c) => strTempFile'[c] = NoPath
  BY DEF CrashService, TempFileAbandon, ProcessAbandon, EventSourceClose
<1>2. \A c \in Call :
        StageOf(c)' = IF StageOf(c) = "notified" THEN "answered" ELSE StageOf(c)
  BY <1>1 DEF StageOf, Active, ActiveLabel, ProcessorLabel
<1>3. \A c \in Call : SameProcessor(c) /\ SameCert(c) /\ SameTold(c)
  BY <1>1, ToldStays DEF SameProcessor, ProcessorOf, SameCert, CertAvailable
<1>4. Delivery!Die
  BY <1>2, <1>3 DEF Delivery!Die, SameProcessor, SameCert, SameTold
<1>5. ASSUME NEW c \in Call
      PROVE  DeliveryPlace(c)'
  <2>1. CASE Active(c)
    BY <1>1, <2>1 DEF DeliveryInv, DeliveryPlace, KeepLabel, Ended
  <2>2. CASE ~ Active(c)
    BY <1>1, <1>3, <2>2
       DEF DeliveryInv, DeliveryPlace, SameProcessor, SameTold
  <2> QED
    BY <2>1, <2>2
<1> QED
  BY <1>4, <1>5 DEF DeliveryInv, Delivery!Next

-----------------------------------------------------------------------------
(* All steps together                                                       *)

LEMMA ThreadPromise ==
  ASSUME "shortwrite" \notin Faults, FileInv, OutcomeInv, StructInv', DeliveryInv,
         NEW c \in Call, (\E e \in ExitEvent : Notify(c, e)) \/ Step(c)
  PROVE  [Delivery!Next]_(Delivery!dvars) /\ DeliveryInv'
<1>1. StructInv /\ Alone(c) /\ DiskFrame(c) /\ ProcessFrame(c)
  BY ThreadAlone, ThreadDisk, ThreadProcess DEF FileInv
<1>2. PromiseStep(c) /\ DeliveryPlace(c)' /\ (log' = log \/ \E M : LogGrowsBy(c, M))
  <2>1. CASE \E e \in ExitEvent : Notify(c, e)
    BY <1>1, <2>1, NotifyPromise DEF Notify, eventVars
  <2>2. CASE \/ InitServer(c) \/ ReadProperties(c) \/ InitProcessor(c)
             \/ GetTempFilePath(c) \/ CreateTempFile(c) \/ WriteCert(c)
             \/ FormatArguments(c)
    <3>1. log' = log
      BY <2>2
         DEF InitServer, ReadProperties, InitProcessor, GetTempFilePath,
             CreateTempFile, WriteCert, FormatArguments, eventVars
    <3> QED
      BY <1>1, <2>2, <3>1, EarlyPromise
  <2>3. CASE StartProcess(c)
    BY <1>1, <2>3, StartPromise DEF StartProcess, eventVars
  <2>4. CASE WaitForProcess(c) \/ ReadExitCode(c) \/ Unwind(c)
    <3>1. log' = log
      BY <2>4 DEF WaitForProcess, ReadExitCode, Unwind, eventVars
    <3> QED
      BY <1>1, <2>4, <3>1, WaitPromise
  <2>5. CASE \/ ReportStartFailed(c) \/ ReportStarted(c)
             \/ ReportTimedOut(c) \/ ReportVerdict(c)
    BY <1>1, <2>5, ReportPromise
  <2>6. CASE Dispose(c)
    BY <1>1, <2>6, DisposePromise DEF Dispose, eventVars
  <2>7. CASE LeaveNotify(c)
    BY <1>1, <2>7, LeavePromise
  <2> QED
    BY <2>1, <2>2, <2>3, <2>4, <2>5, <2>6, <2>7 DEF Step, EventProcessorNext
<1>3. \A d \in Call \ {c} : SameTold(d)
  BY <1>1, <1>2, ToldStays, ToldOther DEF Alone
<1>4. \A d \in Call \ {c} : Same(d) /\ DeliveryPlace(d)'
  BY <1>1, <1>3, OthersUndisturbed
<1> QED
  BY <1>2, <1>4, PromiseOfOne DEF DeliveryInv

LEMMA DeliveryInit == Init => Delivery!Init /\ DeliveryInv
<1> SUFFICES ASSUME Init PROVE Delivery!Init /\ DeliveryInv
  OBVIOUS
<1>1. \A c \in Call :
        /\ pc[c] = "idle" /\ proc[c] = "none" /\ rawCertPath[c] = NoPath
        /\ strTempFile[c] = NoPath
  BY DEF Init, ProcessInit
<1>2. \A c \in Call : \A M : ~ Logged(c, M)
  BY DEF Init, EventSourceInit, Logged
<1>3. \A c \in Call :
        /\ StageOf(c) = "idle" /\ ProcessorOf(c) = "none"
        /\ CertAvailable(c) = FALSE /\ ToldOf(c) = "nothing"
  BY <1>1, <1>2 DEF StageOf, ProcessorOf, CertAvailable, ToldOf
<1>4. Delivery!Init
  BY <1>3 DEF Delivery!Init
<1>5. DeliveryInv
  BY <1>1, <1>3 DEF DeliveryInv, DeliveryPlace
<1> QED
  BY <1>4, <1>5

LEMMA DeliveryStep ==
  ASSUME "shortwrite" \notin Faults, "badalloc" \notin Faults
  PROVE  FileInv /\ OutcomeInv /\ DeliveryInv /\ [Next]_vars =>
           [Delivery!Next]_(Delivery!dvars) /\ DeliveryInv'
<1> SUFFICES ASSUME FileInv, OutcomeInv, DeliveryInv, [Next]_vars
             PROVE  [Delivery!Next]_(Delivery!dvars) /\ DeliveryInv'
  OBVIOUS
<1>1. StructInv /\ StructInv'
  BY StructStep DEF FileInv
<1>2. CASE Initialize \/ StopService \/ UNCHANGED vars
  <2>1. UNCHANGED <<pc, hr, proc, rawCertPath, exitStatus, dwExitCode, disk,
                    log, strTempFile, m_fPreserve>>
    BY <1>2
       DEF Initialize, StopService, EventSourceOpen, EventSourceClose, vars,
           tempFileVars, processVars, eventVars, localVars
  <2> QED
    BY <2>1, StutterPromise
<1>3. CASE CrashService
  BY <1>1, <1>3, CrashPromise
<1>4. CASE \E c \in Call : (\E e \in ExitEvent : Notify(c, e)) \/ Step(c)
  BY <1>1, <1>4, ThreadPromise
<1>5. CASE \E c \in Call : ProcessorExits(c)
  BY <1>5, ExitPromise
<1> QED
  BY <1>2, <1>3, <1>4, <1>5 DEF Next, AllocThrows

(* A temp file is only ever deleted under a processor that has succeeded    *)
(* and of which no problem was reported; nothing is told of a call before   *)
(* its processor is done with, whatever else fails and whenever certsrv.exe *)
(* dies.                                                                    *)
THEOREM DeliveryHolds ==
  ASSUME "shortwrite" \notin Faults, "badalloc" \notin Faults
  PROVE  Spec => []DeliveryInv
<1>1. Spec => []FileInv
  BY Invariance
<1>2. Spec => []OutcomeInv
  BY OutcomeInvariance
<1>3. Init => DeliveryInv
  BY DeliveryInit
<1>4. FileInv /\ OutcomeInv /\ DeliveryInv /\ [Next]_vars => DeliveryInv'
  BY DeliveryStep
<1> QED
  BY <1>1, <1>2, <1>3, <1>4, PTL DEF Spec

(* The whole module, threads, files, handles and crashes included, keeps    *)
(* the promise of CertDelivery about every certificate: it implements that  *)
(* specification.                                                           *)
THEOREM Implementation ==
  ASSUME "shortwrite" \notin Faults, "badalloc" \notin Faults
  PROVE  Spec => ImplementsDelivery
<1>1. Spec => []FileInv
  BY Invariance
<1>2. Spec => []OutcomeInv
  BY OutcomeInvariance
<1>3. Spec => []DeliveryInv
  BY DeliveryHolds
<1>4. Init => Delivery!Init
  BY DeliveryInit
<1>5. FileInv /\ OutcomeInv /\ DeliveryInv /\ [Next]_vars =>
        [Delivery!Next]_(Delivery!dvars)
  BY DeliveryStep
<1> QED
  BY <1>1, <1>2, <1>3, <1>4, <1>5, PTL DEF Spec, ImplementsDelivery, Delivery!Spec
=============================================================================
