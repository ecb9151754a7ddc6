----------------------------- MODULE CommandLine ------------------------------
(***************************************************************************)
(* From the registered command to the one that the event processor sees:   *)
(* the registered arguments (ArgumentList), those that                     *)
(* CEventProcessor::NotifyCertIssued adds (EventProcessor.cpp), the        *)
(* command line that CProcess makes of them (Process.cpp), and how the     *)
(* started program takes it apart again, which is not up to this code.     *)
(*                                                                         *)
(* A string is a sequence of characters; the names of the options, in      *)
(* which nothing is special, are characters of their own.                  *)
(***************************************************************************)
EXTENDS ArgumentList, SequencesExt

CONSTANTS
  ArgumentData,    \* values of Arguments
  ExePath,         \* values of ExePath
  Identifier,      \* subject key identifiers
  TempPath,        \* paths of temp files
  MaxCommandLine   \* g_cchMaxCommandLine

Space == " "
Tab == "\t"
Backslash == "\\"
Quote == "\""
Apostrophe == "'"

(* The arguments that NotifyCertIssued adds, and what is escaped of them.   *)
Dynamic(ski, path) ==
  << <<"certissued">>, <<"-subjectkeyidentifier">>, ski,
     <<"-serialnumber">>, <<"5e">>, <<"-rawcertpath">>, path >>

(* With 1024 characters for a registry value there is room in the 32768 of  *)
(* the command line for all a value can be, with a space and two quotes     *)
(* around everything.  CryptoAPI gives no identifier that would change it.  *)
ASSUME CommandLineAssumption ==
  /\ MaxCommandLine \in Nat
  /\ \A e \in ExePath, i \in Identifier, p \in TempPath :
       MaxCommandLine >= 2 * BufferLength + Len(e) + 2 + Len(i) + Len(p) + 19

(* A mistake: to forget that quotes take room.                              *)
CommandLineSizeUnquoted == MaxCommandLine - 2

(* What Create allocates for the command line.                              *)
CommandLineSize == MaxCommandLine

ASSUME DataAssumption ==
  \A s \in ArgumentData \cup ExePath \cup Identifier \cup TempPath :
    s \in Seq(STRING)

VARIABLES
  exe, ski, path,   \* the strings of this notification
  m_fEscapeForPS,
  bufArgs,          \* all arguments, in order
  written,          \* how many of them FormatCommandLine is done with
  m_bufCmdLine      \* what is in the buffer, and the room that is left

stringVars == <<exe, ski, path, m_fEscapeForPS>>
vars == <<listVars, stringVars, bufArgs, written, m_bufCmdLine>>

Init ==
  /\ ListStart
  /\ data \in ArgumentData
  /\ exe \in ExePath
  /\ ski \in Identifier
  /\ path \in TempPath
  /\ m_fEscapeForPS \in BOOLEAN
  /\ bufArgs = <<>>
  /\ written = 0
  /\ m_bufCmdLine = [text |-> <<>>, room |-> CommandLineSize, ok |-> TRUE]

-----------------------------------------------------------------------------
(* A mistake: to leave the closing apostrophe out.                          *)
EscapeArgumentForPSOpen(s) == <<Apostrophe>> \o s

EscapeArgumentForPS(s) == <<Apostrophe>> \o s \o <<Apostrophe>>

EventArguments ==
  IF m_fEscapeForPS
  THEN Dynamic(EscapeArgumentForPS(ski), EscapeArgumentForPS(path))
  ELSE Dynamic(ski, path)

(* NotifyCertIssued, from the temp file to RunProcess.                      *)
BuildArguments ==
  /\ pc = "build"
  /\ bufArgs' = BaseArguments \o EventArguments
  /\ pc' = "application"
  /\ UNCHANGED <<data, hr, cch, cArgs, m_bufArguments, nIndex, pwsz, cchMax,
                 stringVars, written, m_bufCmdLine>>

(* StringCchCopyExW: as much as fits with a null after it, and a failure    *)
(* when that is not all.  After a failure nothing more is copied.           *)
StringCchCopy(buf, s) ==
  LET n == IF Len(s) < buf.room THEN Len(s) ELSE buf.room - 1
  IN  IF buf.ok
      THEN [text |-> buf.text \o SubSeq(s, 1, n), room |-> buf.room - n,
            ok |-> n = Len(s)]
      ELSE buf

(* A mistake: to take every blank for white space but the one that is       *)
(* common in paths.                                                         *)
HasWhiteSpaceTab(s) == \E i \in DOMAIN s : s[i] = Tab

HasWhiteSpace(s) == \E i \in DOMAIN s : s[i] = Space

WriteArgument(buf, s) ==
  IF HasWhiteSpace(s)
  THEN StringCchCopy(StringCchCopy(StringCchCopy(buf, <<Quote>>), s), <<Quote>>)
  ELSE StringCchCopy(buf, s)

(* FormatCommandLine: the program, of which a failure is one of Create, and *)
(* the arguments, of which a failure is none.                               *)
FormatApplication ==
  /\ pc = "application"
  /\ m_bufCmdLine' = WriteArgument(m_bufCmdLine, exe)
  /\ pc' = IF m_bufCmdLine'.ok THEN "arguments" ELSE "failed"
  /\ UNCHANGED <<data, hr, cch, cArgs, m_bufArguments, nIndex, pwsz, cchMax,
                 stringVars, bufArgs, written>>

FormatArgument ==
  /\ pc = "arguments"
  /\ \/ /\ written < Len(bufArgs)
        /\ m_bufCmdLine' =
             WriteArgument(StringCchCopy(m_bufCmdLine, <<Space>>),
                           bufArgs[written + 1])
        /\ written' = written + 1
        /\ pc' = IF m_bufCmdLine'.ok THEN "arguments" ELSE "launched"
     \/ /\ written = Len(bufArgs)
        /\ pc' = "launched"
        /\ UNCHANGED <<m_bufCmdLine, written>>
  /\ UNCHANGED <<data, hr, cch, cArgs, m_bufArguments, nIndex, pwsz, cchMax,
                 stringVars, bufArgs>>

Next ==
  \/ ListNext /\ UNCHANGED <<stringVars, bufArgs, written, m_bufCmdLine>>
  \/ BuildArguments
  \/ FormatApplication
  \/ FormatArgument

Spec == Init /\ [][Next]_vars
-----------------------------------------------------------------------------
(* The program that is started (external).  It takes the command line apart *)
(* as CommandLineToArgvW does: blanks outside quotes end an argument,       *)
(* backslashes are themselves unless a quote follows, when two stand for    *)
(* one and an odd one makes the quote a character.  Parsers differ on two   *)
(* quotes in a row inside quotes, which the strings here do not produce.    *)
ArgvStart == [argv |-> <<>>, arg |-> <<>>, in |-> FALSE, quoted |-> FALSE,
              slashes |-> 0]

Slashes(n) == [i \in 1 .. n |-> Backslash]

ArgvChar(p, ch) ==
  CASE ch = Backslash ->
         [p EXCEPT !.slashes = @ + 1, !.in = TRUE]
    [] ch = Quote /\ p.slashes % 2 = 0 ->
         [p EXCEPT !.arg = @ \o Slashes(p.slashes \div 2), !.slashes = 0,
                   !.in = TRUE, !.quoted = ~ @]
    [] ch = Quote /\ p.slashes % 2 = 1 ->
         [p EXCEPT !.arg = @ \o Slashes(p.slashes \div 2) \o <<Quote>>,
                   !.slashes = 0]
    [] ch \in {Space, Tab} /\ ~ p.quoted ->
         IF p.in
         THEN [ArgvStart EXCEPT
                 !.argv = Append(p.argv, p.arg \o Slashes(p.slashes))]
         ELSE p
    [] OTHER ->
         [p EXCEPT !.arg = @ \o Slashes(p.slashes) \o <<ch>>,
                   !.slashes = 0, !.in = TRUE]

ArgvRead(text) ==
  LET at[i \in 0 .. Len(text)] ==
        IF i = 0 THEN ArgvStart ELSE ArgvChar(at[i - 1], text[i])
  IN  at[Len(text)]

(* The end of the text ends an argument, inside quotes too.                 *)
Argv(text) == ArgvChar([ArgvRead(text) EXCEPT !.quoted = FALSE], Space).argv

(* PowerShell, given a command in its arguments (external), joins them with *)
(* spaces and reads the text again: an apostrophe begins and ends a string, *)
(* in which two of them are one.                                            *)
TokenStart == [tokens |-> <<>>, token |-> <<>>, in |-> FALSE, quoted |-> FALSE,
               ended |-> FALSE]

TokenChar(p, ch) ==
  CASE ch = Apostrophe /\ ~ p.quoted ->
         [p EXCEPT !.token = IF p.ended THEN @ \o <<ch>> ELSE @,
                   !.in = TRUE, !.quoted = TRUE, !.ended = FALSE]
    [] ch = Apostrophe /\ p.quoted ->
         [p EXCEPT !.quoted = FALSE, !.ended = TRUE]
    [] ch \in {Space, Tab} /\ ~ p.quoted ->
         IF p.in THEN [TokenStart EXCEPT !.tokens = Append(p.tokens, p.token)]
         ELSE p
    [] OTHER ->
         [p EXCEPT !.token = @ \o <<ch>>, !.in = TRUE, !.ended = FALSE]

TokenRead(text) ==
  LET at[i \in 0 .. Len(text)] ==
        IF i = 0 THEN TokenStart ELSE TokenChar(at[i - 1], text[i])
  IN  at[Len(text)]

(* <<>> when the text ends in the middle of a string.                       *)
Tokens(args) ==
  LET end == TokenRead(FlattenSeq([i \in DOMAIN args |-> args[i] \o <<Space>>]))
  IN  IF end.quoted THEN <<>> ELSE end.tokens

-----------------------------------------------------------------------------
(* The arguments are the registered ones, all of them up to the first empty *)
(* string, and the seven of the event: the strings and their nulls, one     *)
(* after the other, are what the data begins with, and a null follows.      *)
ArgumentsAreRegistered ==
  (pc = "application" /\ m_bufArguments # <<>>) =>
    LET base == SubSeq(bufArgs, 1, Len(bufArgs) - 7)
        list == FlattenSeq([i \in DOMAIN base |-> base[i] \o <<NUL>>])
    IN  /\ <<>> \notin Range(base)
        /\ IsPrefix(Append(list, NUL), data)

(* FormatCommandLine hides that an argument did not fit, and Create would   *)
(* run the program on half of a command.  It does not happen: what the      *)
(* registry can hold always fits, quotes included.                          *)
NothingTruncated ==
  pc = "launched" => m_bufCmdLine.ok /\ written = Len(bufArgs)

(* The most that the arguments of the event take behind the first j of      *)
(* them, each with its space, and the strings of the event with two quotes  *)
(* and two apostrophes.                                                     *)
EventRoom(j) ==
  LET i == Len(ski)
      p == Len(path)
  IN  << 20 + i + p, 18 + i + p, 16 + i + p, 11 + p, 9 + p, 7 + p, 5 + p, 0 >>[j + 1]

(* The most that the arguments behind the first k take.  A registered one   *)
(* is not empty, so a space and two quotes at most double what it takes in  *)
(* the registry with its null.                                              *)
RoomBehind(k) ==
  IF k < nIndex THEN 2 * (pwsz - Place(k + 1)) + EventRoom(0)
  ELSE EventRoom(k - (nIndex - 1))

(* There is always room for what is still to come, and a null.              *)
LineInv ==
  /\ exe \in ExePath /\ ski \in Identifier /\ path \in TempPath
  /\ m_fEscapeForPS \in BOOLEAN
  /\ pc \notin {"arguments", "launched", "failed"} =>
       /\ m_bufCmdLine = [text |-> <<>>, room |-> CommandLineSize, ok |-> TRUE]
       /\ written = 0
  /\ pc \in {"application", "arguments", "launched"} =>
       bufArgs = BaseArguments \o EventArguments
  /\ pc = "arguments" =>
       /\ written \in 0 .. Len(bufArgs)
       /\ m_bufCmdLine.ok
       /\ m_bufCmdLine.room \in Nat /\ m_bufCmdLine.room > RoomBehind(written)
  /\ NothingTruncated

(* An argument that WriteArgument does not save: an empty one and one with a *)
(* tab call for quotes as well but get none, and a backslash at the end     *)
(* escapes the closing one.                                                 *)
Awkward(s) ==
  IF Space \in Range(s) THEN Last(s) = Backslash
  ELSE s = <<>> \/ Tab \in Range(s)

(* WriteArgument owns up to embedded quotes, so there are none, and ExePath *)
(* names a program that can be started.                                     *)
PlainStrings ==
  /\ \A s \in ArgumentData \cup ExePath \cup Identifier \cup TempPath :
       Quote \notin Range(s)
  /\ \A s \in ExePath : ~ Awkward(s)

(* The program gets the arguments it was registered with and the ones of    *)
(* the event, unless one of them is awkward, and in that case it never      *)
(* does.  This is of PlainStrings.                                          *)
ReceivedAsGiven ==
  pc = "launched" =>
    (Argv(m_bufCmdLine.text) = <<exe>> \o bufArgs
       <=> \A i \in DOMAIN bufArgs : ~ Awkward(bufArgs[i]))

(* With EscapeForPS, a PowerShell event processor that gets its arguments   *)
(* as given reads the identifier and the path to the certificate as they    *)
(* are, spaces included, unless one of them has an apostrophe itself, and   *)
(* in that case it never does.                                              *)
PowerShellReceives ==
  LET argv == Argv(m_bufCmdLine.text)
      event == SubSeq(argv, Len(argv) - 6, Len(argv))
  IN  (pc = "launched" /\ m_fEscapeForPS /\ argv = <<exe>> \o bufArgs) =>
        (Tokens(event) = Dynamic(ski, path)
           <=> Apostrophe \notin Range(ski) \cup Range(path))
=============================================================================
