# A TLA+ development of the PMI exit module for AD CS

The repository (`src/PKI`) holds an exit module for Active Directory
Certificate Services. `certsrv.exe` loads it as a COM object and calls
`ICertExit::Notify` when it has issued a certificate. The module writes the
certificate to a temp file, starts a registered program (the *event processor*)
on it, waits ten seconds for the program, and writes what happened to the
Windows Application Log. A second program registers the texts of those log
messages.

This directory models both programs in TLA+, checks the models with TLC, and
proves every safety property that a passing run checks, and that the exit module
implements its promise, with TLAPS.

Paths below are relative to `src/PKI` of the repository; `ExitModule/` is left
out where the file name is clear.

## 1. Inventory

| Part | Code | State | Operations |
|---|---|---|---|
| Exit module object | `PMICertExit.cpp` | configuration, open event source | `Initialize`, `Notify`, release |
| Certificate server access | `CertServerExit.cpp` | one call's interface and the context set on it; the contexts of `certsrv.exe` | `Init`, `Clear`, properties |
| Processor registration | `EventProcessorConfig.cpp` | one call's copy of three registry values; the registry key | `Init`, an import of values |
| Event processor | `EventProcessor.cpp` | locals of one call | `NotifyCertIssued`, `RunProcess` |
| Temp file | `TempFile.cpp` | path, handle, preserve flag; the temp folder | `Create`, `Write`, `Close`, `Preserve`, destructor |
| Process | `Process.cpp` | handles, identifier; the process itself; its command line | `Create`, `Wait`, `GetExitCode`, destructor; formatting the command line |
| Event source | `EventSource.cpp`, `EventArg.cpp`, `PMIExitModuleEventSource.cpp` | log handle; the Application Log | `Open`, `Close`, six `Report...` |
| Message registration | `PMIExitModuleMessagesSetup/` | a registry key | parse, install, uninstall |
| Buffers | `Buffer.h` | heap memory of one owner | `Alloc`, `Copy`, `Clear` |
| Management UI, COM registration, proxy, message DLL | `PMIExitModule.cpp`, `*.rgs`, `ExitModulePS`, `PMIExitModuleMessages` | none, or generated | |

How they interact. `Notify` runs in a thread of `certsrv.exe`, several at once.
Each call builds its own server object, registration, temp file and process
objects on the stack; nothing in the module is locked. What calls share is the
operating system: the temp folder, the process table, the registry and the log,
and through them also the event processors, which outlive the call and even the
service. Every call down the stack returns an `HRESULT`; failures travel up to
`Notify`, which logs one event and returns `S_OK`.

What is hard about it:

- **Processes that outlive their call.** After a timeout the processor goes on
  with a file the call has left behind, while later calls choose file names in
  the same folder and Windows reuses process identifiers.
- **A decision spread over return paths.** Whether the file is deleted depends
  on a flag set after `RunProcess`, from an `HRESULT` and an exit code that
  some paths do not set, and is carried out by a destructor.
- **Failures that are swallowed.** `Notify` never fails, and no `Report...`
  method does, so the log is the only witness and may have holes.
- **Partial work.** A crash, a short write, a throwing allocation, or a
  registration program killed half way.
- **A command put together from many reads.** Three properties of the
  certificate and three values of the registry are read one by one, without a
  lock, while other notifications read theirs and an administrator may be
  importing new values.
- **Strings taken apart and put together by hand.** A list walked twice without
  a test of the room, arguments quoted by one program and unquoted by another.

What makes each part correct:

- *Event processor, temp file, process*: a running processor has its
  certificate; evidence named in the log is kept; other temp files go away.
- *Event source, exit module object*: the log tells the truth, one outcome per
  certificate, attributable to the right process; `Notify` comes back.
- *Certificate server access*: everything a processor is told is of one
  certificate, its own.
- *Processor registration*: a registration takes effect at once, and an import
  that overlaps a notification can mix only so much.
- *Arguments and command line*: the walk over the registered list stays inside
  the buffer and its array, nothing is cut off, and the program that is started
  reads back the arguments that were meant.
- *Message registration*: a run that reports success did what it was asked,
  whatever overlapped with it.

## 2. Modules

```
ExitModuleBase      constants, fault kinds, HRESULTs, certificate data
  TempFile          CTempFile and the temp folder
  Process           CProcess and the processes
  EventSource       the event source and the log
    EventProcessor  CEventProcessor: the three above, composed by a thread
      PMICertExit   CPMICertExit: all threads, the service, the processors;
                    Spec and the properties
        PMICertExitInv          the inductive invariants
          PMICertExitProofs     theorems about certificates and evidence
            PMICertExitLogProofs  theorems about the log
          MCPMICertExit         instances for TLC
        DeliveryRefinement      mapping to CertDelivery, and what it needs
          DeliveryRefinementProofs  theorems about the refinement (with those
                                    about certificates and the log)
          MCDelivery            instances for TLC
CertDelivery        what one issued certificate is promised

Calls               the calls of Notify
  CertServerExit        CCertServerExit and the contexts of certsrv.exe
  EventProcessorConfig  CEventProcessorConfig, the registry, imports
    ProcessorCommand    the two above, composed in overlapping notifications
      ProcessorCommandProofs, MCProcessorCommand

ArgumentList        the walk over the registered arguments
  CommandLine       from them to the arguments that the program receives
    CommandLineProofs     theorems about the list and the room
      ReceivedProofs      what the started program reads
        PowerShellProofs  what PowerShell reads of that
    MCCommandLine         instances for TLC

MessagesSetup       the registration program
  MessagesSetupProofs, MCMessagesSetup
```

The three groups below the exit module look closer at something `PMICertExit`
takes in one step: `ProcessorCommand` at `InitServer`, `ReadProperties` and
`InitProcessor`, `CommandLine` at `FormatArguments` and the first half of
`StartProcess`. They are specifications of their own, because their variables
would multiply the states of `PMICertExit` without touching its properties: the
only thing that flows between them is success or failure.

### The exit module

`TempFile`, `Process` and `EventSource` define one operator per method. An
operator with a last parameter `h` is a call that returns the `HRESULT` `h`;
its disjuncts are the ways the method can return. `EventProcessor` and
`PMICertExit` define the actions: `pc[c]` is the place of the thread of call
`c`, and one action is the code up to its next use of something shared, so
everything that two threads, a processor or a crash can get between is a step of
its own.

| Action | Code |
|---|---|
| `Initialize`, `Notify`, `InitServer`, `ReadProperties`, `InitProcessor` | `PMICertExit.cpp` 27-144, 202-294 |
| `GetTempFilePath`, `CreateTempFile`, `WriteCert` (one iteration), `FormatArguments` | `EventProcessor.cpp` 90-166 |
| `StartProcess`, `ReportStartFailed`, `ReportStarted`, `WaitForProcess`, `ReportTimedOut`, `ReadExitCode`, `ReportVerdict` | `RunProcess`, `EventProcessor.cpp` 186-265 |
| `Unwind` | `RunProcess` returns and destroys its `CProcess`; the decision at 170-181 |
| `Dispose` | `NotifyCertIssued` returns and destroys its locals |
| `LeaveNotify` | `PMICertExit.cpp` 146-158 |
| `AllocThrows` | `Buffer.h` 186: `operator new` throws through `Notify` |
| `StopService`, `CrashService`, `ProcessorExits` | environment |

Modelling decisions:

- A certificate is a sequence of `CertLength` units, each a pair of its call
  and its position; a file that mixes two certificates, or has one twice, is
  different from every certificate.
- `disk[n]` is the content of the temp file name `n`, or `NoFile`.
  `GetTempFileNameW` with `uUnique = 0` creates the file it names; it fails when
  every name is taken, which happens without any injected fault.
- A process identifier is taken while its process runs or a handle to it is
  open. `CreateProcessW` fails when none is free.
- A log entry keeps its message, its process identifier and the temp file its
  text names. The field `call` is a ghost: it says for which notification the
  entry was written, and no action reads it.
- `Faults` names the kinds of failure an instance allows. With an empty set only
  scarcity of names and identifiers fails. Short writes are one such kind;
  allocations have two, because `Alloc` tests for a null result of an
  `operator new` that throws in this build (no nothrow form, no
  `nothrownew.obj`): `oom` is the branch the code is written for, and
  `badalloc` the exception.
- The time-out is not a clock: a running processor may always outlast it.
- A crash leaves the folder, the log and the processors; calls in progress are
  lost and the service may start again. Each member of `Call` is one
  notification, so an instance with `n` calls has `n` notifications in a
  history with any number of restarts.

### Where a command comes from

`ProcessorCommand` has one action per query of a notification: `InitServer`,
`ReadProperty` (three), `OpenRegistry`, `ReadValue` (three), then `Launch` and
`Return`. Anything may happen between two of them: another notification, or one
more value of an import.

| Action | Code |
|---|---|
| `InitServer` | `CertServerExit.cpp` 34-72, called at `PMICertExit.cpp` 284 |
| `ReadProperty` | `PMICertExit.cpp` 213-232, `CertServerExit.cpp` 115-226 |
| `OpenRegistry`, `ReadValue` | `EventProcessorConfig.cpp` 50-170 |
| `Launch`, `Return` | `PMICertExit.cpp` 247-259 |
| `Notify`, `Import` | environment: `certsrv.exe`, `REG IMPORT` |

Modelling decisions:

- A property is represented by the notification whose certificate it is of, a
  registry value by the number of the import that wrote it, 0 when there is none.
  Both are all the properties ask about.
- `certsrv.exe` gives each call a context number that is free, and uses it again
  after the call. An `ICertServerExit` answers for the context last set on it.
- `REG IMPORT` writes the values in the order of `ExitModuleExe.reg`. An import
  may be cut off: the next one begins whether or not all three values are there.
  Files with the values in another order are left out; the mutant of `CommandInv`
  shows what they would do.
- `EscapeForPS` and `Arguments` are optional, and a query for one that fails
  counts as none.

### Arguments and command line

`ArgumentList` is the code of `EventProcessorConfig.cpp` 112-170, one action per
turn of each of its two loops, over a buffer whose unused part holds garbage.
`CommandLine` goes on with the arguments that `EventProcessor.cpp` 121-166 adds,
escaped for PowerShell or not, with `FormatCommandLine` and `WriteArgument`
(`Process.cpp` 139-259), one action per argument, and then reads the result as
the program that is started does: `ArgvChar` and `TokenChar` are what one more
character does to each reader, `ArgvRead` and `TokenRead` all characters of a
text, and `Argv` and `Tokens` what the reader has at the end of it.

- A string is a sequence of characters. Option names, in which no character is
  special, are one character each.
- External, modelled by their documented rules: `QueryMultiStringValue` (accepts
  what fits and ends like a list), `StringCchLengthW`, `StringCchCopyExW`,
  `CommandLineToArgvW`, and how PowerShell reads a command from its arguments.
- Embedded quotes are left out: `Process.cpp:209` says that they are not
  handled. `PlainStrings` says so of the constants, and that `ExePath` names a
  program that can be started.

### The registration program

`MessagesSetup` has one action per system call of a run: parse (`Start`), look
for the DLL, create the key, write the next value, delete the key. Any call may
fail and a run may be killed between two of them. A handle that was open when
another run deleted the key is stale, and every write through it fails. The
variable `intact` is a ghost: nobody else has touched the key since this run
opened it.

### The promise

`CertDelivery` says what the exit module promises about one certificate,
without threads, files or result codes: a processor is started only on an
available certificate, which is withdrawn only after that processor succeeded
within the call and nothing but success was reported; success is reported only
of a processor that succeeded. `DeliveryRefinement` reads the abstract state off
the threads, processes, folder and log.

## 3. Runs

| Run (cfg) | Instance | Checks |
|---|---|---|
| concurrent (`Concurrent`) | 3 calls, 2 names, 2 pids, seven faults | `RunningProcessorHasCert`, `EvidenceKept`, `OutcomesDoNotConflict`, `EveryCertHasOutcome`, `PidsAttributable`, `NoOrphanTempFile`, `LogInv` |
| every_fault (`EveryFault`) | 2 calls, 2 names, 1 pid, length 2, all faults | `TypeOK`, `FileInv`, `CertsNotMixed`, `VerdictsAreTrue`, `OutcomeInv` |
| liveness (`Liveness`) | 2 calls, 2 names, 2 pids, no faults | `NotifyReturns`, `IssuedCertIsOffered`, `SuccessfulFileIsDeleted` |
| promise (`Promise`) | 2 calls, 2 names, 1 pid, all faults but `shortwrite` and `badalloc`, no symmetry | `DeliveryInv`, `NotifyReturns`, `ImplementsDelivery` |
| processor_command (`ProcessorCommand`) | 2 calls, 2 contexts, 3 imports | `CommandInv`, `OneCertificate`, `NothingOutdated`, `ArgumentsNotOlder` |
| command_line (`CommandLine`) | 6 characters of registry buffer, 42 of command line | `WalkInv`, `LineInv`, `WalkStaysInside`, `RoomForEach`, `ArgumentsAreRegistered`, `NothingTruncated`, `ReceivedAsGiven`, `PowerShellReceives` |
| setup (`Setup`) | 2 runs, 2 paths, up to 3 arguments | `SetupInv`, `InstallationStands`, `SuccessIsAsAsked` |

The largest has 0.7 million states and each takes about a minute or less.
Deadlock is not checked: each call and each run of the registration program
happens once, after which the system rightly stops, and the walk of
`CommandLine` comes to an end.

What they show:

- **`RunningProcessorHasCert`**: as long as a processor runs, also after `Notify`
  gave up on it and after the service crashed and came back, the file it was
  given holds exactly its certificate and the module does not hold it open.
- **`EvidenceKept`**: a certificate that a start-failed, failed or timed-out entry
  points to is never deleted or reused, not even when the processor succeeds
  late.
- **`CertsNotMixed`**: what is left of the two when writes may be short and
  allocations may throw. In a file that a processor or an administrator looks at
  there is nothing of another certificate, and it is no shorter than a
  certificate. An exception that leaves `Notify` takes the file from under the
  one processor its own call has started (alloc_throws shows it), and from
  nobody else.
- **`VerdictsAreTrue`**: a success or failure entry is about a processor that has
  ended, with such an exit code.
- **`OutcomesDoNotConflict`, `EveryCertHasOutcome`**: exactly one outcome per
  notified certificate; the second half only while log entries can be written.
- **`PidsAttributable`**: an administrator who matches entries by process
  identifier, reused as it is, matches the right processes. It depends on
  `CProcess` keeping its handle until the result is logged.
- **`NoOrphanTempFile`**: every file in the folder is in use by a call in
  progress or named by an entry. It needs every file to get its `CTempFile` and
  every `CTempFile` its destructor; run create_file_fails shows it false
  otherwise.
- **`OneCertificate`**: identifier, serial number and certificate given to a
  processor are of one certificate, its own, although they are read in three
  calls between which context numbers are used again. It depends on each
  notification having a `CCertServerExit` of its own.
- **`NothingOutdated`**: nothing a processor is started with is older than the
  registration that was complete when its notification opened the key. So only
  an import that overlaps the reads can mix registrations.
- **`ArgumentsNotOlder`**: and in such a mixture the arguments are never older
  than the program and the escaping flag. Nobody wrote this down: it follows
  from the module reading the program before the arguments while the `.reg` file
  writes the arguments before the program. The other way round, new arguments
  for the old program, does happen.
- **`WalkStaysInside`, `RoomForEach`**: neither walk over the list reads a
  character the query did not fill in, and the second one, which does not test
  the room in its array, stores exactly as many pointers as the first counted.
- **`ArgumentsAreRegistered`**: the arguments are the strings of the list up to
  the first empty one, in order.
- **`NothingTruncated`**: `FormatCommandLine` returns `S_OK` although an argument
  did not fit, but with the sizes in the code that cannot happen.
- **`ReceivedAsGiven`**: the started program reads back the arguments exactly
  when none is awkward: empty, or with a tab and no space (it is not quoted), or
  with a space and a backslash at its end (it escapes the closing quote).
- **`PowerShellReceives`**: with `EscapeForPS`, PowerShell reads identifier and
  path back exactly when neither has an apostrophe.
- **`ImplementsDelivery`**: all of this together, as a state machine of one
  certificate: offered, then finished, then withdrawn only after a success of
  which no problem was reported, with crashes at any point.
- **`NotifyReturns`**: no processor can hold up the service.
- **`IssuedCertIsOffered`, `SuccessfulFileIsDeleted`**: without failures the
  certificate reaches a processor, and its file goes away after success.
- **`InstallationStands`, `SuccessIsAsAsked`**: an installation that returned 0
  stands in full over any half-finished one, until another run touches the key;
  one that lost its key to an uninstall does not return 0.

Why the bounds are enough. Two calls suffice for one call to harm another, and
the third in *concurrent* lets a name or identifier freed by one call be fought
over by two more. One name less than calls makes the folder run full; a single
process identifier makes every reuse happen. Length 2 is the least at which a
write can be short and not empty. In *setup* three arguments include every list
the parser can accept (at most two) and the over-long ones. In
*processor_command* three imports let each of the three values come from
another one, and two contexts for two calls let them overlap or follow each
other under one number. In *command_line* four characters of arguments, out of
a letter, a space, a tab, a backslash and a null, make every list with up to two
strings, with an empty string inside, with all the awkward endings; five values
that are no list, or too long, come on top, and an identifier may be empty.
`MaxCommandLine` is exactly what
`CommandLineAssumption` asks for: the bound of the code scaled down with the
buffer, with nothing to spare. The runs with temporal formulas use no symmetry,
except for the action property of *setup*, which is invariant under renaming of
the runs. `cbTotal`, `log` and `next` are bounded by the code itself: at most
two certificate lengths, three entries per call, and five values.

Fairness is weak fairness of `Step(c)`, for each thread: the Windows scheduler
runs a runnable thread eventually, and every Win32 call but the wait returns. The
wait returns because it has a timeout. Nothing is assumed of processors, of the
service, or of allocations; `NotifyReturns` therefore holds with processors that
never exit. It is checked once without faults, where nothing but the timeout can
end a wait, and once with them, where every early return has to lead out of
`Notify` too. It is not claimed with short writes: a `WriteFile` that forever
succeeds with no bytes written keeps the loop at `EventProcessor.cpp:106` going.

### Where code and documentation disagree

| Run | What happens |
|---|---|
| short_write (`ShortWrite`) | The loop at `EventProcessor.cpp:106-117` writes the whole buffer from index 0 in each iteration. After a short write the file holds a prefix followed by the certificate from its start, and the processor is run on it. |
| alloc_throws (`AllocThrows`) | An allocation that throws while the start is being reported unwinds past `Preserve`, and the temp file is deleted under the running processor. |
| undecodable_error (`UndecodableError`) | An `HRESULT` without a system message makes `CErrorMessageEventArg::Format` fail, and the whole entry is dropped: the notification fails with no trace, against the comment at `PMICertExit.cpp:146`. |
| create_file_fails (`CreateFileFails`) | When `CreateFileW` fails, `CTempFile` forgets the path, and the file that `GetTempFileNameW` created stays. |
| path_argument (`PathArgument`) | A path given to the registration program as its only argument is skipped, against its usage text and `README.md:71`. |

The statement at `README.md:21` that the temp file "gets deleted when the
process exits" is also untrue of a processor that takes longer than the timeout;
the message texts say so, so it is not listed as a disagreement of the code.

## 4. Theorems

Each holds for every value of the constants that its assumption allows.

| Theorem | Statement | Assumes of the faults |
|---|---|---|
| *`PMICertExitProofs`*: `TypeCorrect` | `Spec => []TypeOK` | nothing |
| `VerdictsHold` | `Spec => []VerdictsAreTrue` | nothing |
| `Invariance` | `Spec => []FileInv` | nothing |
| `CertificatesStayApart` | `Spec => []CertsNotMixed` | nothing |
| `ProcessorHasCert` | `Spec => []RunningProcessorHasCert` | no `shortwrite`, no `badalloc` |
| `EvidenceIsKept` | `Spec => []EvidenceKept` | no `shortwrite` |
| *`PMICertExitLogProofs`*: `OutcomeInvariance` | `Spec => []OutcomeInv` | nothing |
| `OutcomesHold` | `Spec => []OutcomesDoNotConflict` | nothing |
| `OutcomeForEveryCert` | `Spec => []EveryCertHasOutcome` | `NothingLost` |
| `PidsLeadToTheirProcess` | `Spec => []PidsAttributable` | `NothingLost` |
| `LogInvariance` | `Spec => []LogInv` | `NothingLost`, `FilesDeletable` |
| `EveryFileIsKnown` | `Spec => []NoOrphanTempFile` | `NothingLost`, `FilesDeletable` |
| *`DeliveryRefinementProofs`*: `DeliveryHolds` | `Spec => []DeliveryInv` | no `shortwrite`, no `badalloc` |
| `Implementation` | `Spec => ImplementsDelivery` | no `shortwrite`, no `badalloc` |
| *`ProcessorCommandProofs`*: `Invariance` | `Spec => []CommandInv` | |
| `CertificatesDoNotMix` | `Spec => []OneCertificate` | |
| `RegistrationTakesEffect` | `Spec => []NothingOutdated` | |
| `NewProgramNewArguments` | `Spec => []ArgumentsNotOlder` | |
| *`CommandLineProofs`*: `WalkInside` | `Spec => []WalkStaysInside` | |
| `Invariance` | `Spec => []WalkInv` | |
| `RoomHolds` | `Spec => []RoomForEach` | |
| `LineInvariance` | `Spec => []LineInv` | |
| `NothingIsTruncated` | `Spec => []NothingTruncated` | |
| `RegisteredArguments` | `Spec => []ArgumentsAreRegistered` | |
| *`ReceivedProofs`*: `ReadInvariance` | `Spec => []ReadInv` | (`PlainStrings`) |
| `ArgumentsAreReceived` | `Spec => []ReceivedAsGiven` | (`PlainStrings`) |
| *`PowerShellProofs`*: `EventIsReceived` | `Spec => []PowerShellReceives` | |
| *`MessagesSetupProofs`*: `Invariance` | `Spec => []SetupInv` | |
| `InstallationHolds` | `Spec => []InstallationStands` | |
| `SuccessHolds` | `Spec => SuccessIsAsAsked` | |

Of the constants they assume: `ConstantsAssumption` (a certificate has at least
one unit, the null values are not values), `CallAssumption`,
`CertServerAssumption` and `ConfigAssumption` (the same, and a natural bound),
`BufferAssumption` and `DataAssumption` (a buffer of two characters or more;
registry values, identifiers and paths are sequences of characters),
`CommandLineAssumption` (see below) and `SetupAssumption` (the program's
own path is a path, null values are not values). `PlainStrings`, which only the
two theorems that name it assume, allows strings of any length and with any
characters but quotes; TLC evaluates it in *command_line*. `NothingLost` says that no
allocation is refused, `ReportEventW` does not fail and every error has a text;
`FilesDeletable` that `CreateFileW` and `DeleteFileW` do not fail and nothing
skips a destructor. The runs short_write, alloc_throws, undecodable_error and
create_file_fails show that the theorems with assumptions are false without
them.

The argument. `RunningProcessorHasCert` and `EvidenceKept` are about files whose
call may be long over, so they are not inductive: nothing in them stops a later
call from deleting such a file. What stops it is that a file is deleted only by
the call whose `strTempFile` names it, that no two calls name the same file
(`FileOwned`, because a fresh name is one no file has), and that the call which
does name it is bound to preserve it (`BoundToKeep`). `FileKept(n, c)` says that
of the file `n` and the certificate of `c`; `RunningKept` and `EvidenceInv`
demand it of every running processor and every evidence entry. They rest on
`ContentInv` (what the write loop has appended so far: pieces of the certificate
of its call, `cbTotal` units in all) and `StructInv` (the locals of a thread at
each place of the code, and what it knows of its process). Their conjunction
`FileInv` is inductive under every fault. That the file *is* the certificate needs
full writes, and is said as such in `CertWritten`. An allocation that throws
takes the file from a processor only after its call has started it and before
the call has kept the file; that call is then over, which is why `RunningKept`
excepts the calls that an exception has ended (`Thrown`), and no others. No entry
yet names such a file for debugging, so `EvidenceInv` needs no exception. TLC
checks `FileInv` in *every_fault*.

The proof has a lemma per operation (what it does to its own component), a lemma
per action for `StructInv` and for the rest of `FileInv`, and `ThreadFrame`, which
states once what a step of one thread leaves alone.

The log. That nothing conflicts (`OutcomeInv`) follows from where a thread can be
once its outcome is in the log: behind the verdict with a result that is not a
failure, so that the end of `Notify` adds nothing. It needs no assumption,
because an entry that is lost conflicts with nothing. The other three are about
entries that must be there, hence `NothingLost`. `AnswerInv` follows each
notification from the point where it can no longer fail, or has failed, to its
entry. `PidInv` says that a call holds its process by a handle until its last
entry is written, that no two processes held by a handle have one identifier,
and that the newest start entry with that identifier is therefore its own.
`NamedInv` says that a file whose call may yet preserve it is named by an entry,
and all others are going to be deleted. TLC checks the four as `LogInv` in
*concurrent*, and `OutcomeInv` in *every_fault*. The lemma `ThreadAlone` states
once what a step of one thread leaves alone, `ReportEntry` what each report adds.

The command. `CommandInv` says that a context in use belongs to
one call and the object of that call is set to it, so every property read is its
own; that the values in the registry are ordered as an import writes them
(`RegistryOrdered`); and that what has been read lies between what was complete
when the key was opened and what is there now (`ReadsOrdered`). The two orders
together give `ArgumentsNotOlder`.

The promise. `Implementation` takes `Spec` to `CertDelivery` step by step: the
initial states match, and of each action of `PMICertExit` the proof names the
step of the promise it is. The start of a process is `Offer`, its end `Finish`,
a report of its result or of a failure `Tell`, the deletion of its file
`Withdraw`, the end of `Notify` `Answer`, a crash `Die`; everything else changes
nothing that the mapping reads. What a step needs to know of the place it starts
from is in `DeliveryPlace`, which says it for the file (it holds the certificate
or nothing, until a processor has it), for the log (nothing is told before
`RunProcess` is about to return) and for the decision (a file that is going to be
deleted under a processor belongs to one that succeeded, with no problem told).
`FileInv` gives that a deletion touches no other call's file, `OutcomeInv` that no
entry follows an outcome. A crash ends every notification and takes no file away.
The two excluded faults are the ones that break the promise: short_write and
alloc_throws show how.

The list. `ListInv` is the walk's position and what it takes to be left, with the
two nulls at the end that `QueryMultiStringValue` insists on. For `RoomForEach`
the invariant `RoomInv` counts without recursion: `Starts(p)` is the set of
places before `p` at which a string begins. Both walks have counted
`Starts(pwsz)`, and both end at the first empty string, because every string
before it ends (`StringEnds`, by the least null behind it); a string at which the
second walk is, is thus one that the first has counted. `ChainInv` says what the
second walk leaves behind: the pointers lead from the first character to the
place where the walk is, and between two of them lies one string that is not
empty, and its null. So `CString` of a pointer is what lies between it and the
next (`CStringAt`), those pieces with their nulls put together are the data up to
the end of the walk (`FlattenBase`), and that is `ArgumentsAreRegistered`.
`FlattenSeq` is a recursive function of the library; no induction over it is
needed, because a function with the same defining equation is already at hand,
and the two cannot differ at a least place (`FlattenAs`).

The command line. `NothingTruncated` speaks of the last state of a loop, so
`LineInv` says it of every turn: the room in the buffer is more than
`RoomBehind(written)`, the most that the arguments not yet written can take. An
argument from the registry takes its length and a null there; a space and two
quotes make it at most twice as long, because it is not empty. An argument of the
event takes what `EventRoom` lists. `CommandLineAssumption` is that sum, with the
program in front: twice the registry buffer, the program, identifier and path,
and 21 characters for quotes, apostrophes, spaces and the five other arguments,
which count one character each here. In the code these are about a hundred
characters with the serial number, the registry buffers have 1024
(`g_cbRegValueBuffer`) and a path at most 260, so about 3,500 of the 32,768
characters of `g_cchMaxCommandLine` are ever needed.

The reader of the command line. `ReceivedAsGiven` is about a text of any length
and a reader that takes it character by character. `ArgvRead` is a recursive
function on the places of its text, so it has a value at every place
(`ArgvPlacesExist`, `ArgvReadPlaces`), a character more is one `ArgvChar` more
(`ArgvReadOn`), and what holds at a place and goes on from each to the next holds
at the last (`Upward`, by the least place at which it would not). `ReadInv` says
after each argument that `FormatCommandLine` has written that the reader is
`Ready`: a blank makes it have exactly the arguments so far. A word without
blanks and one in quotes get it there (`GoodWord`); inside either, every
character is `Ordinary`. That awkward arguments are *never* received needs a
reason that the rest of the line cannot undo, `Bad`. In `Lost` there is something
else in the place of argument `k` (what comes before a tab, half of the
backslashes), or the reader is collecting for that place what has a character
the argument does not have (the escaped quote); `LostStays` says so for
every character that may follow. In `Skipped` the argument was nothing but tabs,
or nothing at all, and the next one that is more than tabs takes its place.
The proof that the arguments are received and the proof that they are not meet at
the end of the text (`EndAfterReady`, `EndAfterBad`).

PowerShell. `Command(x, y)` is the text of the seven arguments of the event with
their spaces, and `TokenRead` is followed over it in the same way. Between
arguments the reader is `Fresh`, with the first few of the seven read (`WordRead`,
`TellEscaped`), and when no apostrophe comes it is so to the end
(`PlainEventRead`). With one in the identifier, or in the path alone, either the
token in its place comes out shorter than it is (`Short`: two apostrophes in a
row leave one, a single one leaves none) and, being complete, stays so; or the
reader is inside a string when it has read it. For the path that is the end of
the text, and no command is read. For the identifier the three words behind it
belong to the open string, and of what comes behind the next apostrophe, the path
and two characters, `Counted` keeps account: four more arguments take a blank
each, so the seventh is shorter than the path.

The registration program. `SetupInv` ties `next` and the handle of each run to what
is in the key: a run that still regards the key as its own (`intact`) has written
exactly the values before `next`, and one with a live handle has all of them
present. `SuccessHolds` is the action property, from `SetupInv` and one case per
action.

Not proved: liveness (`NotifyReturns`, `IssuedCertIsOffered`,
`SuccessfulFileIsDeleted`), which needs fairness and `ENABLED` and stays with
TLC. Every invariant and every action property that a passing run checks is a
theorem, and so is the refinement.

## 5. Not modelled

- `CPMIExitModule` and the property store behind it return constants.
- COM registration, entry points, the proxy DLL and the message DLL are
  generated or declarative. `PMICertExit.h:20` counts references without
  interlocking while `PMICertExit.rgs` declares `ThreadingModel` `Both`;
  whether that matters depends on `certsrv.exe`.
- `RunProcess` tests for a registration without `ExePath`; `Init` fails in that
  case, so the test never succeeds and has no action.
- Of `CCertServerExit`, `GetRequestProperty` and `GetContext`, which nothing
  calls.
- A property that `certsrv.exe` answers with a null `BSTR`. `CHeapWString::Copy`
  (`Buffer.h:241`) returns `S_OK` with a null string, and taking its length when
  the arguments are escaped or the command line is written ends the service with
  an access violation. The notifications then stop where they are, as in
  `CrashService`, which may happen at any place: the safety properties checked
  under `crash` hold for this too. `IssuedCertIsOffered` and the properties that
  exclude crashes assume that it does not happen.
- Registrations edited by hand or imported from a file with the values in
  another order; an `ExePath` stored without its terminating null; a
  `REG_EXPAND_SZ`, which the code does not expand.
- Quotes inside an argument, for which `Process.cpp:209` makes no claim.
- The texts of messages beyond the inserts that identify a process or a file.
- `CHeapBuffer` and `CHeapWString` belong to one thread each. What can be seen of
  them, an allocation that is refused or throws, is in the models of their
  users.
- The sample scripts are instances of "a processor exits with any code at any
  time". The build files have no behaviour.

## 6. Plan

Done: the inventory; the exit module and everything it drives, with faults and
crashes; the promise and its refinement; where a command comes from; the list of
arguments and the command line; the registration program. All of it is checked,
and every safety property of a passing run is proved.

Left, in this order:

1. Hand-edited registrations in `ProcessorCommand`: what is left of
   `ArgumentsNotOlder` when the values may be written in any order.
2. The lifetime of the COM object, if the calls of `certsrv.exe` can be pinned
   down from the code.
