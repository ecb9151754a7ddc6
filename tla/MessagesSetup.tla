---------------------------- MODULE MessagesSetup ---------------------------
(***************************************************************************)
(* PMIExitModuleMessagesSetup (main.cpp, Arguments.cpp): the program that  *)
(* registers the message DLL of the exit module as an event source, by     *)
(* writing five values under one registry key, or removes that key.        *)
(*                                                                         *)
(* Each s in Setup is one run of the program.  Runs may overlap, may be    *)
(* killed between two registry calls, and every call may fail.  A run that *)
(* opened the key before another run deleted it keeps a handle through     *)
(* which every write fails (ERROR_KEY_DELETED).                            *)
(***************************************************************************)
EXTENDS Naturals, Sequences

CONSTANTS
  Setup,    \* runs of the program
  Path,     \* paths of message DLLs
  OwnPath,  \* the path of the DLL in the directory of the program
  MaxArgs,  \* the longest argument list
  NoPath,   \* the empty string
  Unset     \* a value that does not exist

VARIABLES
  key,       \* the values under the registry key, or Unset
  pc,        \* where each run is
  args,      \* its argument list
  strPath,   \* the path it registers
  handle,    \* its handle to the key: "none", "live" or "stale"
  next,      \* index of the value it writes next
  exitCode,  \* what it returned
  intact     \* has nobody else touched the key since it opened it?

vars == <<key, pc, args, strPath, handle, next, exitCode, intact>>

(* The switches; "/?" stands for every one but "/i" and "/u".               *)
Switch == {"/i", "/u", "/?"}

ArgList == UNION {[1 .. n -> Switch \cup Path \cup {NoPath}] : n \in 0 .. MaxArgs}

(* The values of the key in the order in which they are written.            *)
ValueNames ==
  << "CategoryCount", "ParameterCount",
     "CategoryMessageFile", "EventMessageFile", "ParameterMessageFile" >>

ValueName == {ValueNames[i] : i \in 1 .. 5}

Value == {"CategoryCount", "ParameterCount"} \cup Path \cup Switch

ASSUME SetupAssumption ==
  /\ OwnPath \in Path
  /\ MaxArgs \in Nat
  /\ NoPath \notin Path \cup Switch
  /\ Unset \notin Value \cup {NoPath} \cup [ValueName -> Value \cup {Unset}]

(* What a run that registers the path p writes.                             *)
Registration(p) ==
  [v \in ValueName |-> IF v \in {"CategoryCount", "ParameterCount"} THEN v ELSE p]

Init ==
  /\ key = Unset
  /\ pc = [s \in Setup |-> "idle"]
  /\ args = [s \in Setup |-> <<>>]
  /\ strPath = [s \in Setup |-> NoPath]
  /\ handle = [s \in Setup |-> "none"]
  /\ next = [s \in Setup |-> 1]
  /\ exitCode = [s \in Setup |-> 0]
  /\ intact = [s \in Setup |-> FALSE]

Operation(a) == IF a # <<>> /\ Head(a) = "/u" THEN "UINSTALL" ELSE "INSTALL"

(* CArguments::TryParse.  The first argument is consumed whether it is a    *)
(* switch or not; only the second one is ever taken as the path.            *)
TryParse(a) ==
  /\ a # <<>> => Head(a) # "/?"
  /\ Len(a) <= 2
  /\ Len(a) = 2 => Operation(a) = "INSTALL"

ParsedPath(a) == IF Len(a) = 2 THEN a[2] ELSE NoPath

Return(s, code) ==
  /\ pc' = [pc EXCEPT ![s] = "done"]
  /\ exitCode' = [exitCode EXCEPT ![s] = code]

(* wmain, up to the first call that looks at the system.                    *)
Start(s, a) ==
  /\ pc[s] = "idle"
  /\ args' = [args EXCEPT ![s] = a]
  /\ strPath' = [strPath EXCEPT ![s] = ParsedPath(a)]
  /\ IF ~ TryParse(a) THEN Return(s, 1)
     ELSE /\ pc' = [pc EXCEPT ![s] =
                      IF Operation(a) = "UINSTALL" THEN "delete"
                      ELSE IF ParsedPath(a) = NoPath THEN "find" ELSE "create"]
          /\ UNCHANGED exitCode
  /\ UNCHANGED <<key, handle, next, intact>>

(* The DLL beside the program exists, or the run ends.                      *)
FindMessageDLL(s) ==
  /\ pc[s] = "find"
  /\ \/ /\ strPath' = [strPath EXCEPT ![s] = OwnPath]
        /\ pc' = [pc EXCEPT ![s] = "create"]
        /\ UNCHANGED exitCode
     \/ Return(s, 1) /\ UNCHANGED strPath
  /\ UNCHANGED <<key, args, handle, next, intact>>

(* InstallMessageDLL: ::RegCreateKeyExW creates the key or opens it.        *)
CreateKey(s) ==
  /\ pc[s] = "create"
  /\ \/ /\ key' = IF key = Unset THEN [v \in ValueName |-> Unset] ELSE key
        /\ handle' = [handle EXCEPT ![s] = "live"]
        /\ intact' = [intact EXCEPT ![s] = TRUE]
        /\ pc' = [pc EXCEPT ![s] = "set"]
        /\ UNCHANGED exitCode
     \/ Return(s, 1) /\ UNCHANGED <<key, handle, intact>>
  /\ UNCHANGED <<args, strPath, next>>

Others(s, f) == [t \in Setup |-> IF t = s THEN f[t] ELSE FALSE]

(* A mistake: an off-by-one at the end of the array of value names.         *)
SetValuePastEnd(s) ==
  /\ pc[s] = "set"
  /\ LET v == ValueNames[next[s]]
     IN  \/ /\ handle[s] = "live"
            /\ key' = [key EXCEPT ![v] = Registration(strPath[s])[v]]
            /\ intact' = Others(s, intact)
            /\ IF next[s] > 5
               THEN Return(s, 0) /\ UNCHANGED next
               ELSE /\ next' = [next EXCEPT ![s] = @ + 1]
                    /\ UNCHANGED <<pc, exitCode>>
         \/ Return(s, 1) /\ UNCHANGED <<key, next, intact>>
  /\ UNCHANGED <<args, strPath, handle>>

(* A mistake: to go on after a value that could not be written.             *)
SetValueUnchecked(s) ==
  /\ pc[s] = "set"
  /\ LET v == ValueNames[next[s]]
     IN  \/ /\ handle[s] = "live"
            /\ key' = [key EXCEPT ![v] = Registration(strPath[s])[v]]
            /\ intact' = Others(s, intact)
         \/ UNCHANGED <<key, intact>>
  /\ IF next[s] = 5
     THEN Return(s, 0) /\ UNCHANGED next
     ELSE /\ next' = [next EXCEPT ![s] = @ + 1]
          /\ UNCHANGED <<pc, exitCode>>
  /\ UNCHANGED <<args, strPath, handle>>

(* InstallMessageDLL: one ::RegSetKeyValueW.  The first failure ends the    *)
(* run, with the values it wrote so far left behind.                        *)
SetValue(s) ==
  /\ pc[s] = "set"
  /\ LET v == ValueNames[next[s]]
     IN  \/ /\ handle[s] = "live"
            /\ key' = [key EXCEPT ![v] = Registration(strPath[s])[v]]
            /\ intact' = Others(s, intact)
            /\ IF next[s] = 5
               THEN Return(s, 0) /\ UNCHANGED next
               ELSE /\ next' = [next EXCEPT ![s] = @ + 1]
                    /\ UNCHANGED <<pc, exitCode>>
         \/ Return(s, 1) /\ UNCHANGED <<key, next, intact>>
  /\ UNCHANGED <<args, strPath, handle>>

(* A mistake: to return success whatever ::RegDeleteKeyExW returns.         *)
DeleteKeyUnchecked(s) ==
  /\ pc[s] = "delete"
  /\ \/ /\ key' = Unset
        /\ handle' = [t \in Setup |->
                        IF handle[t] = "live" THEN "stale" ELSE handle[t]]
        /\ intact' = Others(s, intact)
     \/ UNCHANGED <<key, handle, intact>>
  /\ Return(s, 0)
  /\ UNCHANGED <<args, strPath, next>>

(* UninstallMessageDLL: a key that is not there counts as deleted.          *)
DeleteKey(s) ==
  /\ pc[s] = "delete"
  /\ \/ /\ key' = Unset
        /\ handle' = [t \in Setup |->
                        IF handle[t] = "live" THEN "stale" ELSE handle[t]]
        /\ intact' = Others(s, intact)
        /\ Return(s, 0)
     \/ Return(s, 1) /\ UNCHANGED <<key, handle, intact>>
  /\ UNCHANGED <<args, strPath, next>>

(* The program is killed, or the machine stops, between two calls.          *)
Kill(s) ==
  /\ pc[s] \in {"find", "create", "set", "delete"}
  /\ pc' = [pc EXCEPT ![s] = "killed"]
  /\ UNCHANGED <<key, args, strPath, handle, next, exitCode, intact>>

Next ==
  \E s \in Setup :
    \/ \E a \in ArgList : Start(s, a)
    \/ FindMessageDLL(s)
    \/ CreateKey(s)
    \/ SetValue(s)
    \/ DeleteKey(s)
    \/ Kill(s)

Spec == Init /\ [][Next]_vars
-----------------------------------------------------------------------------
TypeOK ==
  /\ key \in {Unset} \cup [ValueName -> Value \cup {Unset}]
  /\ pc \in [Setup -> {"idle", "find", "create", "set", "delete", "done", "killed"}]
  /\ args \in [Setup -> ArgList]
  /\ strPath \in [Setup -> Path \cup Switch \cup {NoPath}]
  /\ handle \in [Setup -> {"none", "live", "stale"}]
  /\ next \in [Setup -> 1 .. 5]
  /\ exitCode \in [Setup -> {0, 1}]
  /\ intact \in [Setup -> BOOLEAN]

Installed(s) ==
  pc[s] = "done" /\ exitCode[s] = 0 /\ Operation(args[s]) = "INSTALL"

(* "check %errorlevel% to make sure it is 0": an installation that returned *)
(* 0 stands in full, over whatever earlier and interrupted runs left        *)
(* behind, until another run writes to the key.                             *)
InstallationStands ==
  \A s \in Setup :
    Installed(s) /\ intact[s] => key = Registration(strPath[s])

(* At the moment a run returns 0 every value exists, or the key does not,   *)
(* as it was asked, however it overlapped with other runs: an installation  *)
(* that lost its key to a removal does not report success.                  *)
SuccessIsAsAsked ==
  [][\A s \in Setup :
       (pc[s] \in {"set", "delete"} /\ pc'[s] = "done" /\ exitCode'[s] = 0) =>
         IF Operation(args[s]) = "UINSTALL" THEN key' = Unset
         ELSE \A v \in ValueName : key'[v] # Unset]_vars

(* The command a run carries out is the one that it was given, and only an  *)
(* installation that has the key open, or had it, regards it as intact.     *)
ControlInv(s) ==
  /\ pc[s] \in {"find", "create", "set"} => Operation(args[s]) = "INSTALL"
  /\ pc[s] = "delete" => Operation(args[s]) = "UINSTALL"
  /\ pc[s] \in {"idle", "find", "create", "delete"} =>
       handle[s] = "none" /\ next[s] = 1
  /\ pc[s] \in {"create", "set"} => strPath[s] # NoPath
  /\ intact[s] => handle[s] = "live"

(* The key is there as long as a run holds a handle to it that works, and   *)
(* no value that the run has written is missing from it.                    *)
LiveInv(s) ==
  handle[s] = "live" =>
    /\ key # Unset
    /\ pc[s] = "set" => \A i \in 1 .. next[s] - 1 : key[ValueNames[i]] # Unset

(* The values that a run wrote to a key nobody else touched.                *)
IntactInv(s) ==
  intact[s] =>
    /\ pc[s] = "set" =>
         \A i \in 1 .. next[s] - 1 :
           key[ValueNames[i]] = Registration(strPath[s])[ValueNames[i]]
    /\ Installed(s) => key = Registration(strPath[s])

(* The inductive invariant.                                                 *)
SetupInv ==
  /\ TypeOK
  /\ \A s \in Setup : ControlInv(s) /\ LiveInv(s) /\ IntactInv(s)

(* The usage text, "[/i] [path to PMIExitModuleMessages.dll]", and the      *)
(* README, "you can pass the path to it as part of the args": a path given  *)
(* as the only argument is the path that is registered.                     *)
PathGivenIsRegistered ==
  \A s \in Setup, p \in Path :
    Installed(s) /\ args[s] = <<p>> => strPath[s] = p
=============================================================================
