------------------------ MODULE PMICertExitLogProofs ------------------------
(***************************************************************************)
(* Proofs about what an administrator can read in the log: one outcome for *)
(* each notification whatever fails, and, as long as no entry is lost, an  *)
(* outcome for every certificate, no file without an entry, and process    *)
(* identifiers that lead to the right process.                             *)
(***************************************************************************)
EXTENDS PMICertExitProofs

(* The log grows by at most one entry, and that entry is of call c and has  *)
(* one of the messages M.                                                   *)
LogGrowsBy(c, M) ==
  \A i \in DOMAIN log' :
    \/ i \in DOMAIN log /\ log'[i] = log[i]
    \/ /\ log'[i].call = c
       /\ log'[i].msg \in M
       /\ \A j \in DOMAIN log' : j # i => j \in DOMAIN log /\ log'[j] = log[j]

LEMMA ReportGrows ==
  ASSUME StructInv, NEW c \in Call, NEW m \in Message,
         NEW p \in Pid \cup {NoPid}, NEW n \in TempName \cup {NoPath}, NEW t,
         ReportEvent([msg |-> m, call |-> c, pid |-> p, file |-> n], t)
  PROVE  LogGrowsBy(c, {m})
<1> DEFINE e == [msg |-> m, call |-> c, pid |-> p, file |-> n]
<1>1. log \in Seq(Entry) /\ e \in Entry
  BY DEF StructInv, TypeOK, EventSourceTypeOK, Entry
<1>2. CASE log' = log
  BY <1>2 DEF LogGrowsBy
<1>3. CASE log' = Append(log, e)
  <2>1. e.msg = m /\ e.call = c
    OBVIOUS
  <2> HIDE DEF e
  <2>2. /\ Len(log) \in Nat
        /\ DOMAIN log = 1 .. Len(log)
        /\ DOMAIN log' = 1 .. Len(log) + 1
        /\ \A i \in 1 .. Len(log) : log'[i] = log[i]
        /\ log'[Len(log) + 1] = e
    BY <1>1, <1>3, AppendProperties, LenProperties
  <2>3. \A i \in 1 .. Len(log) + 1 : i \in 1 .. Len(log) \/ i = Len(log) + 1
    BY <2>2
  <2> QED
    BY <2>1, <2>2, <2>3 DEF LogGrowsBy
<1> QED
  BY <1>2, <1>3 DEF ReportEvent

(* A step of thread c that reports no outcome.                              *)
LEMMA NoOutcomeStep ==
  ASSUME StructInv, OutcomeInv, NEW c \in Call,
         NEW M, M \cap OutcomeMessage = {}, LogGrowsBy(c, M),
         \A d \in Call \ {c} : pc'[d] = pc[d] /\ hr'[d] = hr[d],
         pc'[c] = "verdict" => ~ FAILED(hr'[c]),
         OutcomePlace(c) => OutcomePlace(c)'
  PROVE  OutcomeInv'
<1>1. \A d \in Call : \A i \in DOMAIN log' :
        HasOutcome(d, i)' => i \in DOMAIN log /\ HasOutcome(d, i)
  BY DEF LogGrowsBy, HasOutcome
<1>2. \A d \in Call : pc'[d] = "verdict" => ~ FAILED(hr'[d])
  BY DEF OutcomeInv
<1>3. \A d \in Call : OutcomePlace(d) => OutcomePlace(d)'
  BY DEF OutcomePlace
<1> QED
  BY <1>1, <1>2, <1>3 DEF OutcomeInv, OutcomesDoNotConflict

(* A step of thread c that may report one, and had reported none.           *)
LEMMA OutcomeStep ==
  ASSUME StructInv, OutcomeInv, NEW c \in Call, NEW M, LogGrowsBy(c, M),
         \A d \in Call \ {c} : pc'[d] = pc[d] /\ hr'[d] = hr[d],
         pc'[c] # "verdict",
         ~ OutcomePlace(c), OutcomePlace(c)'
  PROVE  OutcomeInv'
<1>1. \A i \in DOMAIN log : ~ HasOutcome(c, i)
  BY DEF OutcomeInv
<1>2. ASSUME NEW d \in Call, NEW i \in DOMAIN log', HasOutcome(d, i)'
      PROVE  \/ d # c /\ i \in DOMAIN log /\ HasOutcome(d, i)
             \/ /\ d = c
                /\ \A j \in DOMAIN log' : j # i => ~ HasOutcome(c, j)'
  BY <1>1, <1>2 DEF LogGrowsBy, HasOutcome
<1>3. \A d \in Call : pc'[d] = "verdict" => ~ FAILED(hr'[d])
  BY DEF OutcomeInv
<1>4. \A d \in Call \ {c} : OutcomePlace(d) => OutcomePlace(d)'
  BY DEF OutcomePlace
<1>5. \A d \in Call : \A i \in DOMAIN log' : HasOutcome(d, i)' => OutcomePlace(d)'
  BY <1>2, <1>4 DEF OutcomeInv
<1>6. OutcomesDoNotConflict'
  BY <1>2 DEF OutcomesDoNotConflict, OutcomeInv
<1> QED
  BY <1>3, <1>5, <1>6 DEF OutcomeInv

(* A step that leaves the log alone, and ends calls if it moves any.        *)
LEMMA SilentStep ==
  ASSUME OutcomeInv, log' = log,
         \A d \in Call : \/ pc'[d] = pc[d] /\ hr'[d] = hr[d]
                        \/ pc'[d] = "crashed"
  PROVE  OutcomeInv'
BY DEF OutcomeInv, OutcomesDoNotConflict, HasOutcome, OutcomePlace

LEMMA OutcomeNext == StructInv /\ OutcomeInv /\ [Next]_vars => OutcomeInv'
<1> SUFFICES ASSUME StructInv, OutcomeInv, [Next]_vars
             PROVE  OutcomeInv'
  OBVIOUS
<1> USE DEF Goto
<1>0. /\ pc \in [Call -> Label]
      /\ hr \in [Call -> HRESULT]
      /\ strTempFile \in [Call -> TempName \cup {NoPath}]
      /\ dwProcessId \in [Call -> Pid \cup {NoPid}]
  BY DEF StructInv, TypeOK, ProcessTypeOK
<1>1. CASE Initialize \/ StopService \/ CrashService
  BY <1>0, <1>1, SilentStep
     DEF Initialize, StopService, CrashService, EventSourceOpen,
         EventSourceClose, localVars, eventVars
<1>2. ASSUME NEW c \in Call, ProcessorExits(c)
      PROVE  OutcomeInv'
  BY <1>2, SilentStep DEF ProcessorExits, localVars, eventVars
<1>3. ASSUME NEW c \in Call,
             \/ \E e \in ExitEvent : Notify(c, e)
             \/ InitServer(c) \/ ReadProperties(c) \/ InitProcessor(c)
             \/ GetTempFilePath(c) \/ CreateTempFile(c) \/ WriteCert(c)
             \/ FormatArguments(c) \/ StartProcess(c) \/ WaitForProcess(c)
             \/ ReadExitCode(c) \/ Unwind(c) \/ Dispose(c) \/ AllocThrows(c)
      PROVE  OutcomeInv'
  <2>1. LogGrowsBy(c, {})
    BY <1>3
       DEF LogGrowsBy, Notify, InitServer, ReadProperties, InitProcessor,
           GetTempFilePath, CreateTempFile, WriteCert, FormatArguments,
           StartProcess, WaitForProcess, ReadExitCode, Unwind, Dispose,
           AllocThrows, eventVars
  <2>2. \A d \in Call \ {c} : pc'[d] = pc[d] /\ hr'[d] = hr[d]
    BY <1>0, <1>3
       DEF Notify, InitServer, ReadProperties, InitProcessor, Result,
           GetTempFilePath, CreateTempFile, WriteCert, FormatArguments,
           StartProcess, WaitForProcess, ReadExitCode, Unwind, Dispose,
           AllocThrows
  <2>3. pc'[c] = "verdict" => ~ FAILED(hr'[c])
    BY <1>0, <1>3
       DEF Notify, InitServer, ReadProperties, InitProcessor, Result,
           GetTempFilePath, CreateTempFile, WriteCert, FormatArguments,
           StartProcess, WaitForProcess, ReadExitCode, Unwind, Dispose,
           AllocThrows
  <2>4. OutcomePlace(c) => OutcomePlace(c)'
    BY <1>0, <1>3
       DEF Notify, InitServer, ReadProperties, InitProcessor,
           GetTempFilePath, CreateTempFile, WriteCert, FormatArguments,
           StartProcess, WaitForProcess, ReadExitCode, Unwind, Dispose,
           AllocThrows, OutcomePlace
  <2> QED
    BY <2>1, <2>2, <2>3, <2>4, NoOutcomeStep
<1>4. ASSUME NEW c \in Call,
             \/ ReportStartFailed(c) \/ ReportStarted(c) \/ ReportTimedOut(c)
      PROVE  OutcomeInv'
  <2> DEFINE M == {"MSG_PROCESS_START_FAILED", "MSG_PROCESS_START_SUCCEEDED",
                   "MSG_PROCESS_TIMEDOUT"}
  <2>1. LogGrowsBy(c, M)
    <3>1. PICK m \in M, p \in Pid \cup {NoPid}, n \in TempName \cup {NoPath} :
            \E t : ReportEvent([msg |-> m, call |-> c, pid |-> p, file |-> n], t)
      BY <1>0, <1>4
         DEF ReportStartFailed, ReportStarted, ReportTimedOut,
             ReportProcessStartFailed, ReportProcessStartSucceeded,
             ReportProcessTimedOut
    <3>2. LogGrowsBy(c, {m})
      BY <3>1, ReportGrows DEF Message
    <3> QED
      BY <3>2 DEF LogGrowsBy
  <2>2. /\ pc[c] \in {"startfailed", "started", "timedout"}
        /\ pc' = [pc EXCEPT ![c] = IF pc[c] = "started" THEN "wait" ELSE "unwind"]
        /\ hr' = hr
    BY <1>4 DEF ReportStartFailed, ReportStarted, ReportTimedOut
  <2>3. M \cap OutcomeMessage = {}
    BY DEF OutcomeMessage
  <2>4. /\ \A d \in Call \ {c} : pc'[d] = pc[d] /\ hr'[d] = hr[d]
        /\ pc'[c] # "verdict"
        /\ ~ OutcomePlace(c)
    BY <1>0, <2>2 DEF OutcomePlace
  <2> HIDE DEF M
  <2> QED
    BY <2>1, <2>3, <2>4, NoOutcomeStep
<1>5. ASSUME NEW c \in Call, ReportVerdict(c)
      PROVE  OutcomeInv'
  <2> DEFINE M == {"MSG_PROCESS_FAILED", "MSG_PROCESS_SUCCEEDED"}
  <2>1. LogGrowsBy(c, M)
    <3>1. PICK m \in M, p \in Pid \cup {NoPid}, n \in TempName \cup {NoPath} :
            \E t : ReportEvent([msg |-> m, call |-> c, pid |-> p, file |-> n], t)
      BY <1>0, <1>5
         DEF ReportVerdict, ReportProcessFailed, ReportProcessSucceeded
    <3>2. LogGrowsBy(c, {m})
      BY <3>1, ReportGrows DEF Message
    <3> QED
      BY <3>2 DEF LogGrowsBy
  <2>2. /\ pc[c] = "verdict"
        /\ pc' = [pc EXCEPT ![c] = "unwind"]
        /\ hr' = hr
        /\ ~ FAILED(hr[c])
    BY <1>5 DEF ReportVerdict, OutcomeInv
  <2> QED
    BY <1>0, <2>1, <2>2, OutcomeStep DEF OutcomePlace
<1>6. ASSUME NEW c \in Call, LeaveNotify(c)
      PROVE  OutcomeInv'
  <2>1. /\ pc[c] = "leave"
        /\ pc' = [pc EXCEPT ![c] = "done"]
        /\ hr' = [hr EXCEPT ![c] = "S_OK"]
    BY <1>6 DEF LeaveNotify
  <2>2. CASE UNCHANGED eventVars
    <3>1. LogGrowsBy(c, {})
      BY <2>2 DEF LogGrowsBy, eventVars
    <3>2. OutcomePlace(c)' /\ pc'[c] # "verdict"
      BY <1>0, <2>1 DEF OutcomePlace
    <3>3. \A d \in Call \ {c} : pc'[d] = pc[d] /\ hr'[d] = hr[d]
      BY <1>0, <2>1
    <3> QED
      BY <3>1, <3>2, <3>3, NoOutcomeStep
  <2>3. CASE FAILED(hr[c]) /\ ReportNotifyFailedInternalError(c, hr[c])
    <3>1. LogGrowsBy(c, {"MSG_NOTIFY_FAILED"})
      BY <2>3, ReportGrows DEF ReportNotifyFailedInternalError, Message
    <3> QED
      BY <1>0, <2>1, <2>3, <3>1, OutcomeStep DEF OutcomePlace
  <2> QED
    BY <1>6, <2>2, <2>3 DEF LeaveNotify
<1>7. CASE UNCHANGED vars
  BY <1>7, SilentStep DEF vars, localVars, eventVars
<1> QED
  BY <1>1, <1>2, <1>3, <1>4, <1>5, <1>6, <1>7
     DEF Next, Step, EventProcessorNext

(* An outcome is only in the log of a call that is past its verdict, and    *)
(* that then returns no failure, whatever fails.                            *)
THEOREM OutcomeInvariance == Spec => []OutcomeInv
<1>1. Init => OutcomeInv
  BY DEF Init, EventSourceInit, OutcomeInv, OutcomesDoNotConflict
<1> QED
  BY <1>1, StructInit, StructStep, OutcomeNext, PTL DEF Spec

(* No call of Notify leaves two outcomes in the log, whatever fails: not a  *)
(* verdict and an internal error for the same certificate, and no outcome   *)
(* twice.                                                                   *)
THEOREM OutcomesHold == Spec => []OutcomesDoNotConflict
<1>1. OutcomeInv => OutcomesDoNotConflict
  BY DEF OutcomeInv
<1> QED
  BY <1>1, OutcomeInvariance, PTL

-----------------------------------------------------------------------------
(* From here on no entry is lost: the log is there while a call is in       *)
(* progress, and nothing that is reported fails to get into it.             *)

(* What a thread leaves alone: the other threads, and what is in the log.   *)
Alone(c) ==
  /\ UNCHANGED <<module, hEventLog>>
  /\ \A d \in Call \ {c} :
       /\ pc'[d] = pc[d] /\ hr'[d] = hr[d] /\ evt'[d] = evt[d]
       /\ strTempFile'[d] = strTempFile[d]
       /\ m_strPath'[d] = m_strPath[d] /\ m_fPreserve'[d] = m_fPreserve[d]
       /\ hProcess'[d] = hProcess[d] /\ dwProcessId'[d] = dwProcessId[d]
  /\ \A i \in DOMAIN log : i \in DOMAIN log' /\ log'[i] = log[i]

(* The entry e, and nothing else, is added at the end of the log.           *)
Adds(e) ==
  \E n \in Nat :
    /\ DOMAIN log' = DOMAIN log \cup {n}
    /\ log'[n] = e
    /\ \A i \in DOMAIN log : i \in Nat /\ i < n /\ log'[i] = log[i]

LEMMA AppendAdds ==
  ASSUME StructInv, NEW e \in Entry, log' = Append(log, e)
  PROVE  Adds(e)
<1>1. log \in Seq(Entry)
  BY DEF StructInv, TypeOK, EventSourceTypeOK
<1>2. /\ Len(log) \in Nat
      /\ DOMAIN log = 1 .. Len(log)
      /\ DOMAIN log' = 1 .. Len(log) + 1
      /\ \A i \in 1 .. Len(log) : log'[i] = log[i]
      /\ log'[Len(log) + 1] = e
  BY <1>1, AppendProperties, LenProperties
<1>3. 1 .. Len(log) + 1 = (1 .. Len(log)) \cup {Len(log) + 1}
  BY <1>2
<1>4. \A i \in 1 .. Len(log) : i \in Nat /\ i < Len(log) + 1
  BY <1>2
<1>5. Len(log) + 1 \in Nat
  BY <1>2
<1> QED
  BY <1>2, <1>3, <1>4, <1>5 DEF Adds

(* Whatever is reported, the entries there are stay.                        *)
LEMMA ReportKeeps ==
  ASSUME StructInv, NEW e \in Entry, NEW t, ReportEvent(e, t)
  PROVE  /\ hEventLog' = hEventLog
         /\ \A i \in DOMAIN log : i \in DOMAIN log' /\ log'[i] = log[i]
<1>1. CASE log' = log
  BY <1>1 DEF ReportEvent
<1>2. CASE log' = Append(log, e)
  BY <1>2, AppendAdds DEF Adds, ReportEvent
<1> QED
  BY <1>1, <1>2 DEF ReportEvent

LEMMA ReportsAreEntries ==
  ASSUME StructInv, NEW c \in Call
  PROVE  \A m \in Message, p \in {dwProcessId[c], NoPid},
            n \in {strTempFile[c], NoPath} :
           [msg |-> m, call |-> c, pid |-> p, file |-> n] \in Entry
BY DEF StructInv, TypeOK, ProcessTypeOK, Entry

LEMMA ThreadAlone ==
  ASSUME StructInv, NEW c \in Call,
         \/ \E e \in ExitEvent : Notify(c, e)
         \/ Step(c)
         \/ AllocThrows(c)
  PROVE  Alone(c)
<1> USE DEF Goto, Alone
<1>0. /\ pc \in [Call -> Label]
      /\ hr \in [Call -> HRESULT]
      /\ evt \in [Call -> ExitEvent \cup {"NONE"}]
      /\ strTempFile \in [Call -> TempName \cup {NoPath}]
      /\ m_strPath \in [Call -> TempName \cup {NoPath}]
      /\ m_fPreserve \in [Call -> BOOLEAN]
      /\ hProcess \in [Call -> BOOLEAN]
      /\ dwProcessId \in [Call -> Pid \cup {NoPid}]
  BY DEF StructInv, TypeOK, TempFileTypeOK, ProcessTypeOK
<1>1. CASE \E e \in ExitEvent : Notify(c, e)
  BY <1>0, <1>1 DEF Notify, tempFileVars, processVars, eventVars
<1>2. CASE InitServer(c) \/ ReadProperties(c) \/ InitProcessor(c)
  BY <1>0, <1>2
     DEF InitServer, ReadProperties, InitProcessor, Result, tempFileVars,
         processVars, eventVars
<1>3. CASE GetTempFilePath(c) /\ UNCHANGED <<module, evt>>
  BY <1>0, <1>3
     DEF GetTempFilePath, TempFileName, Result, processVars, eventVars
<1>4. CASE CreateTempFile(c) /\ UNCHANGED <<module, evt>>
  BY <1>0, <1>4
     DEF CreateTempFile, TempFileCreate, Result, processVars, eventVars
<1>5. CASE WriteCert(c) /\ UNCHANGED <<module, evt>>
  BY <1>0, <1>5
     DEF WriteCert, TempFileWrite, Result, processVars, eventVars
<1>6. CASE FormatArguments(c) /\ UNCHANGED <<module, evt>>
  BY <1>0, <1>6
     DEF FormatArguments, TempFileClose, Result, processVars, eventVars
<1>7. CASE StartProcess(c) /\ UNCHANGED <<module, evt>>
  BY <1>0, <1>7
     DEF StartProcess, ProcessCreate, Result, tempFileVars, eventVars
<1>8. CASE /\ UNCHANGED <<module, evt>>
           /\ \/ ReportStartFailed(c) \/ ReportStarted(c)
              \/ ReportTimedOut(c) \/ ReportVerdict(c)
  <2>1. PICK e \in Entry : \E t : ReportEvent(e, t)
    BY <1>8, ReportsAreEntries
       DEF ReportStartFailed, ReportStarted, ReportTimedOut, ReportVerdict,
           ReportProcessStartFailed, ReportProcessStartSucceeded,
           ReportProcessTimedOut, ReportProcessFailed, ReportProcessSucceeded,
           Message
  <2> QED
    BY <1>0, <1>8, <2>1, ReportKeeps
       DEF ReportStartFailed, ReportStarted, ReportTimedOut, ReportVerdict,
           tempFileVars, processVars
<1>9. CASE /\ UNCHANGED <<module, evt>>
           /\ WaitForProcess(c) \/ ReadExitCode(c)
  BY <1>0, <1>9
     DEF WaitForProcess, ReadExitCode, ProcessWait, ProcessGetExitCode, Result,
         tempFileVars, processVars, eventVars
<1>10. CASE Unwind(c) /\ UNCHANGED <<module, evt>>
  BY <1>0, <1>10
     DEF Unwind, ProcessDestroy, TempFilePreserve, tempFileVars, eventVars
<1>11. CASE Dispose(c) /\ UNCHANGED <<module, evt>>
  BY <1>0, <1>11 DEF Dispose, TempFileDestroy, processVars, eventVars
<1>12. CASE LeaveNotify(c)
  <2>1. CASE UNCHANGED eventVars
    BY <1>0, <1>12, <2>1
       DEF LeaveNotify, tempFileVars, processVars, eventVars
  <2>2. CASE ReportNotifyFailedInternalError(c, hr[c])
    <3>1. PICK e \in Entry : \E t : ReportEvent(e, t)
      BY <2>2, ReportsAreEntries DEF ReportNotifyFailedInternalError, Message
    <3> QED
      BY <1>0, <1>12, <3>1, ReportKeeps DEF LeaveNotify, tempFileVars, processVars
  <2> QED
    BY <1>12, <2>1, <2>2 DEF LeaveNotify
<1>13. CASE AllocThrows(c)
  BY <1>0, <1>13
     DEF AllocThrows, ProcessDestroy, TempFileDestroy, eventVars
<1> QED
  BY <1>1, <1>2, <1>3, <1>4, <1>5, <1>6, <1>7, <1>8, <1>9, <1>10, <1>11, <1>12,
     <1>13
     DEF Step, EventProcessorNext

(* A thread that takes a step is in progress.                               *)
LEMMA StepIsActive ==
  ASSUME NEW c \in Call, Step(c) \/ AllocThrows(c)
  PROVE  Active(c)
BY DEF Step, AllocThrows, Allocating, InitServer, ReadProperties, InitProcessor,
       EventProcessorNext, GetTempFilePath, CreateTempFile, WriteCert,
       FormatArguments, StartProcess, ReportStartFailed, ReportStarted,
       WaitForProcess, ReportTimedOut, ReadExitCode, ReportVerdict, Unwind,
       Dispose, LeaveNotify, Active, ActiveLabel, ProcessorLabel

LEMMA ServiceNext == StructInv /\ ServiceInv /\ [Next]_vars => ServiceInv'
<1> SUFFICES ASSUME StructInv, ServiceInv, [Next]_vars PROVE ServiceInv'
  OBVIOUS
<1>1. CASE Initialize
  BY <1>1
     DEF Initialize, EventSourceOpen, eventVars, localVars, ServiceInv, Active,
         FAILED
<1>2. CASE StopService
  BY <1>2 DEF StopService, localVars, ServiceInv, Active
<1>3. CASE CrashService
  <2>1. module' = "down" /\ \A c \in Call : ~ Active(c)'
    BY <1>3 DEF CrashService, Active, ActiveLabel, ProcessorLabel
  <2> QED
    BY <2>1 DEF ServiceInv
<1>4. ASSUME NEW c \in Call,
             (\E e \in ExitEvent : Notify(c, e)) \/ Step(c) \/ AllocThrows(c)
      PROVE  ServiceInv'
  <2>1. Alone(c)
    BY <1>4, ThreadAlone
  <2>2. module = "ready"
    BY <1>4, StepIsActive DEF Notify, ServiceInv
  <2> QED
    BY <2>1, <2>2 DEF Alone, ServiceInv
<1>5. ASSUME NEW c \in Call, ProcessorExits(c)
      PROVE  ServiceInv'
  BY <1>5 DEF ProcessorExits, eventVars, localVars, ServiceInv, Active
<1>6. CASE UNCHANGED vars
  BY <1>6 DEF vars, eventVars, localVars, ServiceInv, Active
<1> QED
  BY <1>1, <1>2, <1>3, <1>4, <1>5, <1>6 DEF Next

-----------------------------------------------------------------------------
(* The entries of a call                                                    *)

LEMMA ReportAppends ==
  ASSUME NothingLost, StructInv, ServiceInv, NEW c \in Call, Active(c),
         NEW e \in Entry, NEW t, ReportEvent(e, t)
  PROVE  Adds(e)
<1>1. hEventLog /\ HasMessageText(t) /\ "oom" \notin Faults /\ "report" \notin Faults
  BY DEF NothingLost, ServiceInv, HasMessageText
<1> QED
  BY <1>1, AppendAdds DEF ReportEvent

(* What the entry of each place of the code identifies.                     *)
EntryOf(c, e) ==
  /\ e.call = c
  /\ \/ /\ pc[c] = "startfailed"
        /\ e.msg = "MSG_PROCESS_START_FAILED"
        /\ e.pid = NoPid
        /\ hr[c] # "E_OUTOFMEMORY" => e.file = strTempFile[c]
     \/ /\ pc[c] = "started"
        /\ e.msg = "MSG_PROCESS_START_SUCCEEDED"
        /\ e.pid = dwProcessId[c]
        /\ e.file = strTempFile[c]
     \/ /\ pc[c] = "timedout"
        /\ e.msg = "MSG_PROCESS_TIMEDOUT"
        /\ e.pid = dwProcessId[c]
     \/ /\ pc[c] = "verdict"
        /\ e.msg \in {"MSG_PROCESS_FAILED", "MSG_PROCESS_SUCCEEDED"}
        /\ e.pid = dwProcessId[c]

LEMMA ReportEntry ==
  ASSUME NothingLost, StructInv, ServiceInv, NEW c \in Call,
         \/ ReportStartFailed(c) \/ ReportStarted(c)
         \/ ReportTimedOut(c) \/ ReportVerdict(c)
  PROVE  \E e \in Entry : EntryOf(c, e) /\ Adds(e)
<1>1. PICK e \in Entry : EntryOf(c, e) /\ \E t : ReportEvent(e, t)
  <2>1. CASE ReportStartFailed(c)
    BY <2>1, ReportsAreEntries
       DEF ReportStartFailed, ReportProcessStartFailed, EntryOf, Message
  <2>2. CASE ReportStarted(c)
    BY <2>2, ReportsAreEntries
       DEF ReportStarted, ReportProcessStartSucceeded, EntryOf, Message
  <2>3. CASE ReportTimedOut(c)
    BY <2>3, ReportsAreEntries
       DEF ReportTimedOut, ReportProcessTimedOut, EntryOf, Message
  <2>4. CASE ReportVerdict(c)
    BY <2>4, ReportsAreEntries
       DEF ReportVerdict, ReportProcessFailed, ReportProcessSucceeded, EntryOf,
           Message
  <2> QED
    BY <2>1, <2>2, <2>3, <2>4
<1>2. Active(c)
  BY DEF ReportStartFailed, ReportStarted, ReportTimedOut, ReportVerdict,
         Active, ActiveLabel, ProcessorLabel
<1> QED
  BY <1>1, <1>2, ReportAppends

(* The end of Notify reports every failure.                                 *)
LEMMA LeaveEntry ==
  ASSUME NothingLost, StructInv, ServiceInv, NEW c \in Call, LeaveNotify(c)
  PROVE  \/ ~ FAILED(hr[c]) /\ log' = log
         \/ \E e \in Entry :
              e.call = c /\ e.msg = "MSG_NOTIFY_FAILED" /\ e.pid = NoPid /\ Adds(e)
<1>1. CASE ~ FAILED(hr[c])
  BY <1>1 DEF LeaveNotify, eventVars
<1>2. CASE FAILED(hr[c]) /\ ReportNotifyFailedInternalError(c, hr[c])
  <2>1. Active(c)
    BY DEF LeaveNotify, Active, ActiveLabel
  <2>2. PICK e \in Entry :
          /\ e.call = c /\ e.msg = "MSG_NOTIFY_FAILED" /\ e.pid = NoPid
          /\ \E t : ReportEvent(e, t)
    BY <1>2, ReportsAreEntries DEF ReportNotifyFailedInternalError, Message
  <2> QED
    BY <2>1, <2>2, ReportAppends
<1> QED
  BY <1>1, <1>2 DEF LeaveNotify

-----------------------------------------------------------------------------
(* An outcome for every certificate                                         *)

LEMMA AnswerStep ==
  ASSUME AnswerInv, NEW c \in Call, Alone(c), Answered(c)'
  PROVE  AnswerInv'
<1>1. ASSUME NEW d \in Call \ {c}
      PROVE  Answered(d)'
  <2>1. /\ pc'[d] = pc[d] /\ hr'[d] = hr[d] /\ evt'[d] = evt[d]
        /\ \A i \in DOMAIN log : i \in DOMAIN log' /\ log'[i] = log[i]
    BY DEF Alone
  <2>2. \A i \in DOMAIN log : HasOutcome(d, i) => i \in DOMAIN log' /\ HasOutcome(d, i)'
    BY <2>1 DEF HasOutcome
  <2>3. Answered(d)
    BY DEF AnswerInv
  <2> QED
    BY <2>1, <2>2, <2>3, Zenon DEF Answered
<1> QED
  BY <1>1 DEF AnswerInv

LEMMA AnswerNext ==
  ASSUME NothingLost
  PROVE  StructInv /\ ServiceInv /\ AnswerInv /\ [Next]_vars => AnswerInv'
<1> SUFFICES ASSUME StructInv, ServiceInv, AnswerInv, [Next]_vars
             PROVE  AnswerInv'
  OBVIOUS
<1>0. /\ pc \in [Call -> Label]
      /\ hr \in [Call -> HRESULT]
      /\ evt \in [Call -> ExitEvent \cup {"NONE"}]
  BY DEF StructInv, TypeOK
<1>1. CASE Initialize \/ StopService \/ UNCHANGED vars
  BY <1>1
     DEF Initialize, StopService, EventSourceOpen, EventSourceClose, vars,
         localVars, eventVars, AnswerInv, Answered, HasOutcome
<1>2. CASE CrashService
  <2>1. /\ UNCHANGED <<evt, log>>
        /\ \A c \in Call :
             pc'[c] = "crashed" \/ (pc'[c] = pc[c] /\ hr'[c] = hr[c])
    BY <1>2 DEF CrashService, EventSourceClose
  <2> QED
    BY <2>1 DEF AnswerInv, Answered, HasOutcome
<1>3. ASSUME NEW c \in Call, ProcessorExits(c)
      PROVE  AnswerInv'
  BY <1>3 DEF ProcessorExits, eventVars, localVars, AnswerInv, Answered, HasOutcome
<1>4. ASSUME NEW c \in Call,
             (\E e \in ExitEvent : Notify(c, e)) \/ Step(c) \/ AllocThrows(c)
      PROVE  AnswerInv'
  <2>0. Alone(c)
    BY <1>4, ThreadAlone
  <2>1. CASE \E e \in ExitEvent : Notify(c, e)
    <3>1. Answered(c)'
      BY <1>0, <2>1 DEF Notify, Goto, Answered
    <3> QED
      BY <2>0, <3>1, AnswerStep
  <2>2. CASE InitServer(c) \/ ReadProperties(c) \/ InitProcessor(c)
    <3>1. Answered(c)'
      BY <1>0, <2>2
         DEF InitServer, ReadProperties, InitProcessor, Result, Goto, Answered
    <3> QED
      BY <2>0, <3>1, AnswerStep
  <2>3. CASE \/ GetTempFilePath(c) \/ CreateTempFile(c) \/ WriteCert(c)
             \/ FormatArguments(c) \/ StartProcess(c) \/ WaitForProcess(c)
             \/ ReadExitCode(c)
    <3>1. Answered(c)'
      <4>1. PICK h \in HRESULT, l \in Label :
              /\ hr' = [hr EXCEPT ![c] = h]
              /\ pc' = [pc EXCEPT ![c] = l]
              /\ l \in {"unwind", "dispose"} => FAILED(h)
              /\ l \notin {"done", "leave"}
        BY <2>3
           DEF GetTempFilePath, CreateTempFile, WriteCert, FormatArguments,
               StartProcess, WaitForProcess, ReadExitCode, Result, Goto, FAILED,
               Label, ActiveLabel, ProcessorLabel
      <4> QED
        BY <1>0, <4>1 DEF Answered
    <3> QED
      BY <2>0, <3>1, AnswerStep
  <2>4. CASE ReportStartFailed(c) \/ ReportStarted(c) \/ ReportTimedOut(c)
    <3>1. pc[c] \in {"startfailed", "timedout"} => FAILED(hr[c])
      BY DEF StructInv, ProcessInv
    <3>2. Answered(c)'
      BY <1>0, <2>4, <3>1
         DEF ReportStartFailed, ReportStarted, ReportTimedOut, Goto, Answered
    <3> QED
      BY <2>0, <3>2, AnswerStep
  <2>5. CASE ReportVerdict(c)
    <3>1. PICK e \in Entry : EntryOf(c, e) /\ Adds(e)
      BY <2>5, ReportEntry
    <3>2. e.call = c /\ e.msg \in OutcomeMessage
      BY <2>5, <3>1 DEF ReportVerdict, EntryOf, OutcomeMessage
    <3>3. Answered(c)'
      BY <3>1, <3>2 DEF Adds, Answered, HasOutcome
    <3> QED
      BY <2>0, <3>3, AnswerStep
  <2>6. CASE Unwind(c) \/ Dispose(c)
    <3>1. /\ pc[c] \in {"unwind", "dispose"} /\ pc'[c] \in {"dispose", "leave"}
          /\ UNCHANGED <<hr, log>>
      BY <1>0, <2>6 DEF Unwind, Dispose, Goto, eventVars
    <3>2. evt'[c] = evt[c]
      BY <1>4, <2>6
         DEF Step, AllocThrows, InitServer, ReadProperties, InitProcessor,
             LeaveNotify, Notify, Unwind, Dispose
    <3>3. Answered(c)'
      BY <3>1, <3>2 DEF AnswerInv, Answered, HasOutcome
    <3> QED
      BY <2>0, <3>3, AnswerStep
  <2>7. CASE LeaveNotify(c)
    <3>1. pc[c] = "leave" /\ evt' = evt
      BY <2>7 DEF LeaveNotify
    <3>2. CASE ~ FAILED(hr[c]) /\ log' = log
      BY <2>0, <3>1, <3>2, AnswerStep DEF AnswerInv, Answered, HasOutcome
    <3>3. CASE \E e \in Entry : e.call = c /\ e.msg = "MSG_NOTIFY_FAILED" /\ Adds(e)
      <4>1. Answered(c)'
        BY <3>3 DEF Adds, Answered, HasOutcome, OutcomeMessage
      <4> QED
        BY <2>0, <4>1, AnswerStep
    <3> QED
      BY <2>7, <3>2, <3>3, LeaveEntry
  <2>8. CASE AllocThrows(c)
    <3>1. Answered(c)'
      BY <1>0, <2>8 DEF AllocThrows, Goto, Answered
    <3> QED
      BY <2>0, <3>1, AnswerStep
  <2> QED
    BY <1>4, <2>1, <2>2, <2>3, <2>4, <2>5, <2>6, <2>7, <2>8
       DEF Step, EventProcessorNext
<1> QED
  BY <1>1, <1>2, <1>3, <1>4 DEF Next

LEMMA ServiceInit == Init => ServiceInv
BY DEF Init, ServiceInv, Active, ActiveLabel, ProcessorLabel

LEMMA AnswerAlways ==
  ASSUME NothingLost
  PROVE  Spec => [](ServiceInv /\ AnswerInv)
<1>1. Init => AnswerInv
  BY DEF Init, AnswerInv, Answered
<1> QED
  BY <1>1, ServiceInit, StructInit, StructStep, ServiceNext, AnswerNext, PTL
     DEF Spec

(* When Notify returns for an issued certificate, the log holds an outcome: *)
(* no path through the code swallows a failure.                             *)
THEOREM OutcomeForEveryCert ==
  ASSUME NothingLost
  PROVE  Spec => []EveryCertHasOutcome
<1>1. AnswerInv => EveryCertHasOutcome
  BY DEF AnswerInv, Answered, EveryCertHasOutcome
<1> QED
  BY <1>1, AnswerAlways, PTL

-----------------------------------------------------------------------------
(* Process identifiers                                                      *)

LEMMA NewestStays ==
  ASSUME NEW d \in Call, NEW e, NewestStart(d), Adds(e),
         dwProcessId'[d] = dwProcessId[d],
         ~ (e.msg = "MSG_PROCESS_START_SUCCEEDED" /\ e.pid = dwProcessId[d])
  PROVE  NewestStart(d)'
<1> DEFINE p == dwProcessId[d]
<1>1. PICK i \in DOMAIN log :
        /\ Started(i, p) /\ log[i].call = d
        /\ \A k \in DOMAIN log : Started(k, p) => k <= i
  BY DEF NewestStart
<1>2. PICK n \in Nat :
        /\ DOMAIN log' = DOMAIN log \cup {n}
        /\ log'[n] = e
        /\ \A k \in DOMAIN log : k \in Nat /\ k < n /\ log'[k] = log[k]
  BY DEF Adds
<1> HIDE DEF p
<1>3. i \in DOMAIN log' /\ Started(i, p)' /\ log'[i].call = d /\ p' = p
  BY <1>1, <1>2 DEF Started, p
<1>4. ASSUME NEW k \in DOMAIN log', Started(k, p)'
      PROVE  k <= i
  <2>1. k # n
    BY <1>2, <1>3, <1>4 DEF Started, p
  <2>2. k \in DOMAIN log /\ Started(k, p)
    BY <1>2, <1>3, <1>4, <2>1 DEF Started
  <2> QED
    BY <1>1, <2>2
<1> QED
  BY <1>3, <1>4 DEF NewestStart, p

LEMMA NewestAdded ==
  ASSUME NEW c \in Call, NEW e, Adds(e), e.call = c,
         e.msg = "MSG_PROCESS_START_SUCCEEDED", e.pid = dwProcessId[c],
         dwProcessId'[c] = dwProcessId[c]
  PROVE  NewestStart(c)'
<1>1. PICK n \in Nat :
        /\ DOMAIN log' = DOMAIN log \cup {n}
        /\ log'[n] = e
        /\ \A k \in DOMAIN log : k \in Nat /\ k < n /\ log'[k] = log[k]
  BY DEF Adds
<1>2. n \in DOMAIN log' /\ Started(n, dwProcessId[c])' /\ log'[n].call = c
  BY <1>1 DEF Started
<1>3. \A k \in DOMAIN log' : k <= n
  BY <1>1
<1> QED
  BY <1>2, <1>3 DEF NewestStart

(* An entry with the identifier of a process is its start, or the result of *)
(* the process that was started last with that identifier.                  *)
LEMMA AttributableAdds ==
  ASSUME StructInv, PidsAttributable, NEW c \in Call, NEW e, Adds(e),
         \/ e.pid = NoPid
         \/ e.msg = "MSG_PROCESS_START_SUCCEEDED"
         \/ e.call = c /\ e.pid = dwProcessId[c] /\ NewestStart(c)
  PROVE  PidsAttributable'
<1>1. PICK n \in Nat :
        /\ DOMAIN log' = DOMAIN log \cup {n}
        /\ log'[n] = e
        /\ \A k \in DOMAIN log : k \in Nat /\ k < n /\ log'[k] = log[k]
  BY DEF Adds
<1> SUFFICES ASSUME NEW i \in DOMAIN log', NEW j \in DOMAIN log',
                    i < j,
                    log'[j].pid # NoPid,
                    Started(i, log[j].pid)',
                    \A k \in i + 1 .. j - 1 : ~ Started(k, log[j].pid)',
                    ~ Started(j, log[j].pid)'
             PROVE  log'[i].call = log'[j].call
  BY Zenon DEF PidsAttributable
<1>2. i \in Nat /\ j \in Nat /\ i \in DOMAIN log
  BY <1>1
<1>3. CASE j \in DOMAIN log
  <2>1. log'[i] = log[i] /\ log'[j] = log[j]
    BY <1>1, <1>2, <1>3
  <2>2. Started(i, log[j].pid) /\ ~ Started(j, log[j].pid)
    BY <2>1 DEF Started
  <2>3. ASSUME NEW k \in i + 1 .. j - 1, Started(k, log[j].pid)
        PROVE  FALSE
    <3>1. k \in DOMAIN log
      <4>1. Len(log) \in Nat /\ DOMAIN log = 1 .. Len(log)
        BY LenProperties DEF StructInv, TypeOK, EventSourceTypeOK
      <4> QED
        BY <1>2, <1>3, <2>3, <4>1
    <3> QED
      BY <1>1, <2>1, <2>3, <3>1 DEF Started
  <2> QED
    BY <2>1, <2>2, <2>3, <1>2, <1>3 DEF PidsAttributable
<1>4. CASE j = n
  <2>1. e.call = c /\ e.pid = dwProcessId[c] /\ NewestStart(c)
    BY <1>1, <1>4 DEF Started
  <2>2. PICK s \in DOMAIN log :
          /\ Started(s, e.pid) /\ log[s].call = c
          /\ \A k \in DOMAIN log : Started(k, e.pid) => k <= s
    BY <2>1 DEF NewestStart
  <2>3. /\ s \in Nat /\ s < n
        /\ log'[s] = log[s] /\ log'[i] = log[i]
        /\ log'[j].pid = e.pid
    BY <1>1, <1>2, <1>4, <2>2
  <2>4. Started(i, e.pid) /\ Started(s, e.pid)'
    BY <1>1, <2>1, <2>2, <2>3 DEF Started
  <2>5. i <= s
    BY <1>2, <2>2, <2>4
  <2>6. ~ (s \in i + 1 .. j - 1)
    BY <2>3, <2>4 DEF Started
  <2>7. s = i
    BY <1>2, <1>4, <2>3, <2>5, <2>6
  <2> QED
    BY <1>1, <1>4, <2>1, <2>2, <2>3, <2>7
<1> QED
  BY <1>1, <1>3, <1>4

(* A step that reports nothing and gets no new process.                     *)
LEMMA PidQuiet ==
  ASSUME PidInv, log' = log, dwProcessId' = dwProcessId,
         \A c \in Call :
           /\ hProcess'[c] => hProcess[c]
           /\ pc'[c] \in HandleLabel => pc[c] \in HandleLabel /\ hProcess'[c] = hProcess[c]
           /\ pc'[c] \in StartedLabel => pc[c] \in StartedLabel
  PROVE  PidInv'
<1>1. \A c \in Call : NewestStart(c) => NewestStart(c)'
  BY DEF NewestStart, Started
<1>2. PidsAttributable'
  BY DEF PidInv, PidsAttributable, Started
<1> QED
  BY <1>1, <1>2 DEF PidInv

(* A step of thread c that reports e.                                       *)
LEMMA PidReport ==
  ASSUME StructInv, PidInv, NEW c \in Call, NEW e, Adds(e), Alone(c),
         UNCHANGED processVars,
         pc[c] \in HandleLabel \/ pc'[c] \notin HandleLabel,
         pc'[c] \in StartedLabel =>
           \/ pc[c] \in StartedLabel
           \/ e.msg = "MSG_PROCESS_START_SUCCEEDED",
         \/ e.pid = NoPid /\ e.msg # "MSG_PROCESS_START_SUCCEEDED"
         \/ /\ e.call = c /\ e.pid = dwProcessId[c]
            /\ pc[c] \in HandleLabel
            /\ e.msg # "MSG_PROCESS_START_SUCCEEDED" => pc[c] \in StartedLabel
  PROVE  PidInv'
<1> USE DEF StartedLabel, processVars
<1>1. \A d \in Call : pc'[d] \in HandleLabel => hProcess'[d] /\ dwProcessId'[d] \in Pid
  BY DEF Alone, PidInv
<1>2. \A d1, d2 \in Call :
        (hProcess'[d1] /\ hProcess'[d2] /\ dwProcessId'[d1] = dwProcessId'[d2]) => d1 = d2
  BY DEF PidInv
<1>3. ASSUME NEW d \in Call, pc'[d] \in StartedLabel
      PROVE  NewestStart(d)'
  <2>1. CASE e.msg = "MSG_PROCESS_START_SUCCEEDED" /\ d = c
    BY <2>1, NewestAdded DEF HandleLabel
  <2>2. CASE e.msg = "MSG_PROCESS_START_SUCCEEDED" /\ d # c
    <3>1. NewestStart(d) /\ hProcess[d] /\ hProcess[c]
      BY <1>3, <2>2 DEF Alone, PidInv
    <3>2. e.pid # dwProcessId[d]
      BY <2>2, <3>1 DEF PidInv
    <3> QED
      BY <3>1, <3>2, NewestStays
  <2>3. CASE e.msg # "MSG_PROCESS_START_SUCCEEDED"
    <3>1. NewestStart(d)
      BY <1>3, <2>3 DEF Alone, PidInv
    <3> QED
      BY <2>3, <3>1, NewestStays
  <2> QED
    BY <2>1, <2>2, <2>3
<1>4. PidsAttributable'
  <2>1. pc[c] \in StartedLabel => NewestStart(c)
    BY DEF PidInv
  <2>2. PidsAttributable
    BY DEF PidInv
  <2> QED
    BY <2>1, <2>2, AttributableAdds
<1> QED
  BY <1>1, <1>2, <1>3, <1>4 DEF PidInv

LEMMA StartPid ==
  ASSUME StructInv, PidInv, NEW c \in Call, StartProcess(c)
  PROVE  PidInv'
<1>0. /\ pc \in [Call -> Label]
      /\ hProcess \in [Call -> BOOLEAN]
      /\ dwProcessId \in [Call -> Pid \cup {NoPid}]
  BY DEF StructInv, TypeOK, ProcessTypeOK
<1>1. PICK h \in HRESULT :
        ProcessCreate(c, strTempFile[c], h)
        /\ Result(c, h, "started", "startfailed")
  BY DEF StartProcess
<1>2. log' = log
  BY DEF StartProcess, eventVars
<1>3. CASE h = "S_OK"
  <2>1. /\ hProcess' = [hProcess EXCEPT ![c] = TRUE]
        /\ pc' = [pc EXCEPT ![c] = "started"]
    BY <1>1, <1>3 DEF ProcessCreate, Result, Goto, FAILED
  <2>2. PICK p \in Pid \ TakenPids : dwProcessId' = [dwProcessId EXCEPT ![c] = p]
    BY <1>1, <1>3 DEF ProcessCreate
  <2>3. \A d \in Call : hProcess[d] => dwProcessId[d] # p
    BY <2>2 DEF TakenPids
  <2>4. \A d \in Call \ {c} :
          /\ pc'[d] = pc[d] /\ hProcess'[d] = hProcess[d]
          /\ dwProcessId'[d] = dwProcessId[d]
    BY <1>0, <2>1, <2>2
  <2>5. pc'[c] = "started" /\ hProcess'[c] /\ dwProcessId'[c] = p
    BY <1>0, <2>1, <2>2
  <2>6. \A d \in Call \ {c} : NewestStart(d) => NewestStart(d)'
    BY <1>2, <2>4 DEF NewestStart, Started
  <2>7. PidsAttributable'
    BY <1>2 DEF PidInv, PidsAttributable, Started
  <2>8. \A d \in Call : pc'[d] \in HandleLabel => hProcess'[d] /\ dwProcessId'[d] \in Pid
    BY <2>2, <2>4, <2>5 DEF PidInv
  <2>9. \A d1, d2 \in Call :
          (hProcess'[d1] /\ hProcess'[d2] /\ dwProcessId'[d1] = dwProcessId'[d2])
            => d1 = d2
    BY <2>3, <2>4, <2>5 DEF PidInv
  <2>10. \A d \in Call : pc'[d] \in StartedLabel => NewestStart(d)'
    BY <2>4, <2>5, <2>6 DEF PidInv, StartedLabel
  <2> QED
    BY <2>7, <2>8, <2>9, <2>10 DEF PidInv
<1>4. CASE h # "S_OK"
  <2>1. /\ UNCHANGED <<hProcess, dwProcessId>>
        /\ pc' = [pc EXCEPT ![c] = "startfailed"]
    BY <1>1, <1>4 DEF ProcessCreate, Result, Goto, FAILED
  <2> QED
    BY <1>0, <1>2, <2>1, PidQuiet DEF HandleLabel, StartedLabel
<1> QED
  BY <1>3, <1>4

LEMMA PidNext ==
  ASSUME NothingLost
  PROVE  StructInv /\ ServiceInv /\ PidInv /\ [Next]_vars => PidInv'
<1> SUFFICES ASSUME StructInv, ServiceInv, PidInv, [Next]_vars
             PROVE  PidInv'
  OBVIOUS
<1> USE DEF Goto, HandleLabel, StartedLabel
<1>0. /\ pc \in [Call -> Label]
      /\ hProcess \in [Call -> BOOLEAN]
      /\ dwProcessId \in [Call -> Pid \cup {NoPid}]
  BY DEF StructInv, TypeOK, ProcessTypeOK
<1>1. CASE Initialize \/ StopService \/ UNCHANGED vars
  BY <1>1, PidQuiet
     DEF Initialize, StopService, EventSourceOpen, EventSourceClose, vars,
         localVars, eventVars, processVars
<1>2. CASE CrashService
  BY <1>0, <1>2, PidQuiet DEF CrashService, ProcessAbandon, EventSourceClose
<1>3. ASSUME NEW c \in Call, \E e \in ExitEvent : Notify(c, e)
      PROVE  PidInv'
  BY <1>0, <1>3, PidQuiet DEF Notify, processVars, eventVars
<1>4. ASSUME NEW c \in Call, AllocThrows(c)
      PROVE  PidInv'
  BY <1>0, <1>4, PidQuiet DEF AllocThrows, ProcessDestroy, eventVars
<1>5. ASSUME NEW c \in Call, ProcessorExits(c)
      PROVE  PidInv'
  BY <1>5, PidQuiet DEF ProcessorExits, ProcessExit, eventVars, localVars
<1>6. ASSUME NEW c \in Call, Step(c)
      PROVE  PidInv'
  <2>0. Alone(c)
    BY <1>6, ThreadAlone
  <2>1. CASE InitServer(c) \/ ReadProperties(c) \/ InitProcessor(c)
    BY <1>0, <2>1, PidQuiet
       DEF InitServer, ReadProperties, InitProcessor, Result, processVars,
           eventVars
  <2>2. CASE \/ GetTempFilePath(c) \/ CreateTempFile(c) \/ WriteCert(c)
             \/ FormatArguments(c) \/ Dispose(c)
    BY <1>0, <2>2, PidQuiet
       DEF GetTempFilePath, CreateTempFile, WriteCert, FormatArguments, Dispose,
           Result, processVars, eventVars
  <2>3. CASE StartProcess(c)
    BY <2>3, StartPid
  <2>4. CASE WaitForProcess(c) \/ ReadExitCode(c)
    BY <1>0, <2>4, PidQuiet
       DEF WaitForProcess, ReadExitCode, ProcessWait, ProcessGetExitCode,
           Result, processVars, eventVars
  <2>5. CASE Unwind(c)
    BY <1>0, <2>5, PidQuiet DEF Unwind, ProcessDestroy, eventVars
  <2>6. CASE \/ ReportStartFailed(c) \/ ReportStarted(c)
             \/ ReportTimedOut(c) \/ ReportVerdict(c)
    <3>1. PICK e \in Entry : EntryOf(c, e) /\ Adds(e)
      BY <2>6, ReportEntry
    <3>2. /\ UNCHANGED processVars
          /\ \/ pc[c] = "started" /\ pc'[c] = "wait"
             \/ /\ pc[c] \in {"startfailed", "timedout", "verdict"}
                /\ pc'[c] = "unwind"
      BY <1>0, <2>6
         DEF ReportStartFailed, ReportStarted, ReportTimedOut, ReportVerdict
    <3> QED
      BY <2>0, <3>1, <3>2, PidReport DEF EntryOf
  <2>7. CASE LeaveNotify(c)
    <3>1. UNCHANGED processVars /\ pc' = [pc EXCEPT ![c] = "done"]
      BY <2>7 DEF LeaveNotify
    <3>2. CASE log' = log
      BY <1>0, <3>1, <3>2, PidQuiet DEF processVars
    <3>3. ASSUME NEW e \in Entry,
                 e.msg = "MSG_NOTIFY_FAILED", e.pid = NoPid, Adds(e)
          PROVE  PidInv'
      BY <1>0, <2>0, <3>1, <3>3, PidReport
    <3> QED
      BY <2>7, <3>2, <3>3, LeaveEntry
  <2> QED
    BY <1>6, <2>1, <2>2, <2>3, <2>4, <2>5, <2>6, <2>7
       DEF Step, EventProcessorNext
<1> QED
  BY <1>1, <1>2, <1>3, <1>4, <1>5, <1>6 DEF Next

LEMMA PidAlways ==
  ASSUME NothingLost
  PROVE  Spec => []PidInv
<1>1. Init => PidInv
  BY DEF Init, ProcessInit, EventSourceInit, PidInv, PidsAttributable,
         HandleLabel, StartedLabel
<1> QED
  BY <1>1, ServiceInit, StructInit, StructStep, ServiceNext, PidNext, PTL
     DEF Spec

(* Windows uses a process identifier again, and still the log leads from    *)
(* each result to the start of the process that the result is about.        *)
THEOREM PidsLeadToTheirProcess ==
  ASSUME NothingLost
  PROVE  Spec => []PidsAttributable
<1>1. PidInv => PidsAttributable
  BY DEF PidInv
<1> QED
  BY <1>1, PidAlways, PTL

-----------------------------------------------------------------------------
(* The temp folder                                                          *)

(* A step of thread c.                                                      *)
LEMMA NamedStep ==
  ASSUME NamedInv, NEW c \in Call, Alone(c), NamedPlace(c)',
         \A n \in TempName :
           disk'[n] # NoFile =>
             \/ disk[n] # NoFile
             \/ Active(c)' /\ strTempFile'[c] = n,
         \A n \in TempName :
           Active(c) /\ strTempFile[c] = n =>
             \/ Active(c)' /\ strTempFile'[c] = n
             \/ disk'[n] = NoFile
             \/ Named(n)
  PROVE  NamedInv'
<1>1. \A n : Named(n) => Named(n)'
  BY DEF Alone, Named
<1>2. ASSUME NEW d \in Call \ {c}
      PROVE  NamedPlace(d)' /\ (Active(d) => Active(d)') /\ strTempFile'[d] = strTempFile[d]
  <2>1. /\ pc'[d] = pc[d] /\ hr'[d] = hr[d] /\ strTempFile'[d] = strTempFile[d]
        /\ m_strPath'[d] = m_strPath[d] /\ m_fPreserve'[d] = m_fPreserve[d]
    BY DEF Alone
  <2>2. NamedPlace(d)
    BY DEF NamedInv
  <2> QED
    BY <1>1, <2>1, <2>2 DEF NamedPlace, Active
<1>3. ASSUME NEW n \in TempName, disk'[n] # NoFile
      PROVE  \/ \E d \in Call : Active(d)' /\ strTempFile'[d] = n
             \/ Named(n)'
  <2>1. CASE disk[n] # NoFile
    <3>1. CASE Named(n)
      BY <1>1, <3>1
    <3>2. ASSUME NEW d \in Call, Active(d), strTempFile[d] = n
          PROVE  \/ Active(d)' /\ strTempFile'[d] = n
                 \/ Named(n)'
      BY <1>1, <1>2, <1>3, <3>2
    <3> QED
      BY <2>1, <3>1, <3>2 DEF NamedInv, NoOrphanTempFile, Named
  <2>2. CASE disk[n] = NoFile
    BY <1>3, <2>2
  <2> QED
    BY <2>1, <2>2
<1>4. NoOrphanTempFile'
  BY <1>3 DEF NoOrphanTempFile, Named
<1> QED
  BY <1>2, <1>4 DEF NamedInv

LEMMA NamedNext ==
  ASSUME NothingLost, FilesDeletable
  PROVE  StructInv /\ ServiceInv /\ NamedInv /\ [Next]_vars => NamedInv'
<1> SUFFICES ASSUME StructInv, ServiceInv, NamedInv, [Next]_vars
             PROVE  NamedInv'
  OBVIOUS
<1> USE DEF Goto, StartedLabel, HandleLabel
<1>0. /\ pc \in [Call -> Label]
      /\ hr \in [Call -> HRESULT]
      /\ strTempFile \in [Call -> TempName \cup {NoPath}]
      /\ m_strPath \in [Call -> TempName \cup {NoPath}]
      /\ m_fPreserve \in [Call -> BOOLEAN]
      /\ disk \in [TempName -> Seq(Byte) \cup {NoFile}]
  BY DEF StructInv, TypeOK, TempFileTypeOK
<1>1. CASE Initialize \/ StopService \/ UNCHANGED vars
  <2>1. UNCHANGED <<pc, hr, strTempFile, m_strPath, m_fPreserve, disk, log>>
    BY <1>1
       DEF Initialize, StopService, EventSourceOpen, EventSourceClose, vars,
           localVars, eventVars, tempFileVars
  <2> QED
    BY <2>1 DEF NamedInv, NamedPlace, Named, NoOrphanTempFile, Active
<1>2. ASSUME NEW c \in Call, ProcessorExits(c)
      PROVE  NamedInv'
  <2>1. UNCHANGED <<pc, hr, strTempFile, m_strPath, m_fPreserve, disk, log>>
    BY <1>2 DEF ProcessorExits, localVars, eventVars, tempFileVars
  <2> QED
    BY <2>1 DEF NamedInv, NamedPlace, Named, NoOrphanTempFile, Active
<1>3. ASSUME NEW c \in Call, \E e \in ExitEvent : Notify(c, e)
      PROVE  NamedInv'
  <2>1. Alone(c)
    BY <1>3, ThreadAlone
  <2>2. /\ pc'[c] \in {"leave", "server"}
        /\ pc[c] = "idle"
        /\ UNCHANGED <<disk, strTempFile>>
    BY <1>0, <1>3 DEF Notify, tempFileVars
  <2> QED
    BY <2>1, <2>2, NamedStep DEF NamedPlace, Active, ActiveLabel, ProcessorLabel
<1>4. ASSUME NEW c \in Call, Step(c)
      PROVE  NamedInv'
  <2>0. Alone(c) /\ NamedPlace(c) /\ LocalInv(c)
    BY <1>4, ThreadAlone DEF NamedInv, StructInv
  <2>1. \A n : Named(n) => Named(n)'
    BY <2>0 DEF Alone, Named
  <2>2. CASE InitServer(c) \/ ReadProperties(c) \/ InitProcessor(c)
    <3>1. /\ pc'[c] \in {"leave", "properties", "config", "tempname"}
          /\ UNCHANGED <<disk, strTempFile>>
      BY <1>0, <2>2
         DEF InitServer, ReadProperties, InitProcessor, Result, tempFileVars
    <3> QED
      BY <2>0, <3>1, NamedStep DEF NamedPlace, Active, ActiveLabel, ProcessorLabel
  <2>3. CASE GetTempFilePath(c)
    <3>1. PICK n \in TempName \cup {NoPath}, h \in HRESULT :
            /\ TempFileName(n, h)
            /\ strTempFile' = [strTempFile EXCEPT ![c] = n]
            /\ Result(c, h, "create", "dispose")
      BY <2>3 DEF GetTempFilePath
    <3>2. pc[c] = "tempname" /\ strTempFile[c] = NoPath /\ m_strPath[c] = NoPath
          /\ ~ m_fPreserve[c]
      BY <2>0, <2>3 DEF GetTempFilePath, LocalInv, BeforeFile
    <3>3. /\ strTempFile'[c] = n
          /\ UNCHANGED <<m_strPath, m_fPreserve>>
      BY <1>0, <3>1 DEF TempFileName
    <3>4. CASE h = "S_OK"
      <4>1. pc'[c] = "create" /\ disk' = [disk EXCEPT ![n] = <<>>]
        BY <1>0, <3>1, <3>4 DEF TempFileName, Result, FAILED
      <4> QED
        BY <1>0, <2>0, <3>2, <3>3, <4>1, NamedStep, ConstantsAssumption
           DEF NamedPlace, Active, ActiveLabel, ProcessorLabel
    <3>5. CASE h # "S_OK"
      <4>1. pc'[c] = "dispose" /\ disk' = disk /\ n = NoPath
        BY <1>0, <3>1, <3>5 DEF TempFileName, Result, FAILED
      <4> QED
        BY <2>0, <3>2, <3>3, <4>1, NamedStep, ConstantsAssumption
           DEF NamedPlace
    <3> QED
      BY <3>4, <3>5
  <2>4. CASE CreateTempFile(c)
    <3>1. /\ pc'[c] = "write" /\ UNCHANGED strTempFile
          /\ disk' = [disk EXCEPT ![strTempFile[c]] = <<>>]
      BY <1>0, <2>4
         DEF CreateTempFile, TempFileCreate, Result, NothingLost, FilesDeletable,
             FAILED
    <3>2. Active(c)' /\ NamedPlace(c)'
      BY <3>1 DEF NamedPlace, Active, ActiveLabel, ProcessorLabel
    <3>3. \A n \in TempName : disk'[n] # NoFile => disk[n] # NoFile \/ strTempFile'[c] = n
      BY <1>0, <3>1
    <3> QED
      BY <2>0, <3>1, <3>2, <3>3, NamedStep
  <2>5. CASE WriteCert(c)
    <3>1. PICK cb \in 0 .. CertLength, h \in HRESULT :
            /\ TempFileWrite(c, cb, h)
            /\ Result(c, h, IF cbTotal'[c] < CertLength THEN "write" ELSE "format",
                 "dispose")
      BY <2>5 DEF WriteCert
    <3>2. /\ UNCHANGED <<strTempFile, m_strPath, m_fPreserve>>
          /\ m_strPath[c] = strTempFile[c] /\ ~ m_fPreserve[c]
          /\ strTempFile[c] \in TempName
          /\ pc'[c] \in {"write", "format", "dispose"}
      BY <1>0, <2>0, <2>5, <3>1
         DEF WriteCert, TempFileWrite, Result, LocalInv
    <3>3. Active(c)' /\ NamedPlace(c)'
      BY <3>2 DEF NamedPlace, Active, ActiveLabel, ProcessorLabel
    <3>4. \A n \in TempName : disk'[n] # NoFile => disk[n] # NoFile \/ strTempFile'[c] = n
      BY <1>0, <3>1, <3>2 DEF TempFileWrite
    <3> QED
      BY <2>0, <3>2, <3>3, <3>4, NamedStep
  <2>6. CASE FormatArguments(c)
    <3>1. /\ UNCHANGED <<disk, strTempFile, m_strPath, m_fPreserve>>
          /\ m_strPath[c] = strTempFile[c] /\ ~ m_fPreserve[c]
          /\ pc'[c] \in {"launch", "dispose"}
      BY <1>0, <2>0, <2>6
         DEF FormatArguments, TempFileClose, Result, LocalInv, WrittenLabel
    <3> QED
      BY <2>0, <3>1, NamedStep DEF NamedPlace, Active, ActiveLabel, ProcessorLabel
  <2>7. CASE StartProcess(c)
    <3>1. PICK h \in HRESULT :
            ProcessCreate(c, strTempFile[c], h)
            /\ Result(c, h, "started", "startfailed")
      BY <2>7 DEF StartProcess
    <3>2. /\ UNCHANGED <<disk, strTempFile>>
          /\ pc'[c] \in {"started", "startfailed"}
          /\ hr'[c] # "E_OUTOFMEMORY"
      BY <1>0, <2>7, <3>1
         DEF StartProcess, ProcessCreate, Result, NothingLost, tempFileVars
    <3> QED
      BY <2>0, <3>2, NamedStep DEF NamedPlace, Active, ActiveLabel, ProcessorLabel
  <2>8. CASE ReportStartFailed(c) \/ ReportStarted(c)
    <3>1. /\ UNCHANGED <<disk, strTempFile>>
          /\ pc'[c] \in {"wait", "unwind"}
      BY <1>0, <2>8 DEF ReportStartFailed, ReportStarted, tempFileVars
    <3>2. PICK e \in Entry : EntryOf(c, e) /\ Adds(e)
      BY <2>8, ReportEntry
    <3>3. e.file = strTempFile[c]
      BY <2>0, <2>8, <3>2
         DEF ReportStartFailed, ReportStarted, EntryOf, NamedPlace
    <3>4. Named(strTempFile[c])'
      BY <3>1, <3>2, <3>3 DEF Adds, Named
    <3> QED
      BY <2>0, <3>1, <3>4, NamedStep
         DEF NamedPlace, Active, ActiveLabel, ProcessorLabel
  <2>9. CASE \/ WaitForProcess(c) \/ ReadExitCode(c)
             \/ ReportTimedOut(c) \/ ReportVerdict(c)
    <3>1. /\ UNCHANGED <<disk, strTempFile>>
          /\ pc[c] \in StartedLabel
          /\ pc'[c] \in StartedLabel \cup {"unwind"}
      BY <1>0, <2>9
         DEF WaitForProcess, ReadExitCode, ReportTimedOut, ReportVerdict, Result,
             tempFileVars
    <3> QED
      BY <2>0, <2>1, <3>1, NamedStep
         DEF NamedPlace, Active, ActiveLabel, ProcessorLabel
  <2>10. CASE Unwind(c)
    <3>1. /\ UNCHANGED <<disk, strTempFile, m_strPath>>
          /\ m_strPath[c] = strTempFile[c]
          /\ pc[c] = "unwind" /\ pc'[c] = "dispose"
      BY <1>0, <2>0, <2>10
         DEF Unwind, TempFilePreserve, tempFileVars, LocalInv, WrittenLabel
    <3> QED
      BY <2>0, <2>1, <3>1, NamedStep
         DEF NamedPlace, Active, ActiveLabel, ProcessorLabel
  <2>11. CASE Dispose(c)
    <3>1. /\ pc[c] = "dispose" /\ pc'[c] = "leave"
          /\ TempFileDestroy(c)
      BY <1>0, <2>11 DEF Dispose
    <3>2. m_strPath[c] = strTempFile[c] /\ (m_fPreserve[c] => Named(strTempFile[c]))
      BY <2>0, <3>1 DEF NamedPlace
    <3>3. \A n \in TempName : disk'[n] # NoFile => disk[n] # NoFile
      BY <1>0, <3>1 DEF TempFileDestroy
    <3>4. \A n \in TempName : strTempFile[c] = n => disk'[n] = NoFile \/ Named(n)
      BY <1>0, <3>1, <3>2, ConstantsAssumption DEF TempFileDestroy, FilesDeletable
    <3>5. NamedPlace(c)'
      BY <3>1 DEF NamedPlace
    <3> QED
      BY <2>0, <3>3, <3>4, <3>5, NamedStep
  <2>12. CASE LeaveNotify(c)
    <3>1. /\ pc'[c] = "done" /\ strTempFile[c] = NoPath
          /\ UNCHANGED <<disk, strTempFile>>
      BY <1>0, <2>0, <2>12 DEF LeaveNotify, tempFileVars, LocalInv, Ended
    <3> QED
      BY <2>0, <3>1, NamedStep, ConstantsAssumption DEF NamedPlace
  <2> QED
    BY <1>4, <2>2, <2>3, <2>4, <2>5, <2>6, <2>7, <2>8, <2>9, <2>10, <2>11, <2>12
       DEF Step, EventProcessorNext
<1> QED
  BY <1>1, <1>2, <1>3, <1>4
     DEF Next, FilesDeletable, AllocThrows, CrashService

(* What the log is good for, all of it together: as long as nothing that is *)
(* reported is lost and every file gets its CTempFile and its destructor,   *)
(* each call that is over has its outcome there, each result leads to the   *)
(* start of its process, and each file that stays is named.                 *)
THEOREM LogInvariance ==
  ASSUME NothingLost, FilesDeletable
  PROVE  Spec => []LogInv
<1>1. Init => NamedInv
  BY DEF Init, TempFileInit, NamedInv, NamedPlace, StartedLabel, HandleLabel,
         NoOrphanTempFile
<1>2. Spec => []NamedInv
  BY <1>1, ServiceInit, StructInit, StructStep, ServiceNext, NamedNext, PTL
     DEF Spec
<1> QED
  BY <1>2, AnswerAlways, PidAlways, PTL DEF LogInv

(* The temp folder does not fill up with files nobody knows of, as long as  *)
(* every file gets its CTempFile and every CTempFile its destructor.        *)
THEOREM EveryFileIsKnown ==
  ASSUME NothingLost, FilesDeletable
  PROVE  Spec => []NoOrphanTempFile
<1>1. LogInv => NoOrphanTempFile
  BY DEF LogInv, NamedInv
<1> QED
  BY <1>1, LogInvariance, PTL
=============================================================================
