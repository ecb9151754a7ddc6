------------------------- MODULE EventProcessorConfig -------------------------
(***************************************************************************)
(* CEventProcessorConfig::Init (EventProcessorConfig.cpp) and the registry *)
(* key it reads.  Every notification reads the three values anew, one      *)
(* after the other, while an administrator may be importing the next       *)
(* registration, which is written one value after the other as well.       *)
(*                                                                         *)
(* Registration v is the v-th .reg file imported; a value is the number of *)
(* the registration it is of.  What the strings say is for CommandLine.    *)
(***************************************************************************)
EXTENDS Calls

CONSTANT MaxImports  \* bound on the number of imports

ASSUME ConfigAssumption == MaxImports \in Nat

ValueName == {"ExePath", "EscapeForPS", "Arguments"}

Version == 0 .. MaxImports

VARIABLES
  registry,       \* the registration of each value; 0: there is no value
  imports,        \* the number of imports begun
  written,        \* how many values the newest import has written
  m_strExePath,   \* the registration of what each call has read; 0: it has
  m_fEscapeForPS, \*   read nothing, or nothing that Init can use
  m_bufArguments

registryVars == <<registry, imports, written>>
configVars == <<m_strExePath, m_fEscapeForPS, m_bufArguments>>

ConfigTypeOK ==
  /\ registry \in [ValueName -> Version]
  /\ imports \in Version
  /\ written \in 0 .. 3
  /\ m_strExePath \in [Call -> Version]
  /\ m_fEscapeForPS \in [Call -> Version]
  /\ m_bufArguments \in [Call -> Version]

ConfigStart ==
  /\ registry = [n \in ValueName |-> 0]
  /\ imports = 0
  /\ written = 3
  /\ m_strExePath = [c \in Call |-> 0]
  /\ m_fEscapeForPS = [c \in Call |-> 0]
  /\ m_bufArguments = [c \in Call |-> 0]

-----------------------------------------------------------------------------
(* Another file: the program before its arguments.                          *)
ImportOrderProgramFirst == <<"ExePath", "Arguments", "EscapeForPS">>

(* REG IMPORT writes the values in the order of the file, which is the one  *)
(* of ExitModuleExe.reg.                                                    *)
ImportOrder == <<"Arguments", "ExePath", "EscapeForPS">>

(* The next import may begin before an earlier one, killed half way, wrote  *)
(* all its values.                                                          *)
BeginImport ==
  /\ imports < MaxImports
  /\ imports' = imports + 1
  /\ written' = 0
  /\ UNCHANGED <<registry, configVars>>

ImportValue ==
  /\ written < 3
  /\ registry' = [registry EXCEPT ![ImportOrder[written + 1]] = imports]
  /\ written' = written + 1
  /\ UNCHANGED <<imports, configVars>>

(* The newest registration that was imported in full: its last value is     *)
(* there.                                                                   *)
Completed == registry["EscapeForPS"]

-----------------------------------------------------------------------------
(* A mistake: to read the arguments first.                                  *)
ReadOrderArgumentsFirst ==
  [OpenKey |-> "Arguments", Arguments |-> "ExePath",
   ExePath |-> "EscapeForPS", EscapeForPS |-> "launch"]

(* The order in which Init goes through the registry.                       *)
ReadOrder ==
  [OpenKey |-> "ExePath", ExePath |-> "EscapeForPS",
   EscapeForPS |-> "Arguments", Arguments |-> "launch"]

(* The first import creates the key with the first value.                   *)
OpenKey(ok) ==
  /\ ok => registry[ImportOrder[1]] # 0
  /\ UNCHANGED configVars

(* A mistake: to keep what an earlier notification has read.                *)
ReadExePathOnce(c, ok) ==
  /\ LET known == {d \in Call : m_strExePath[d] # 0}
         v == IF known = {} THEN registry["ExePath"]
              ELSE m_strExePath[CHOOSE d \in known : TRUE]
     IN  /\ ok => v # 0
         /\ m_strExePath' =
              [m_strExePath EXCEPT ![c] = IF ok THEN v ELSE 0]
  /\ UNCHANGED <<m_fEscapeForPS, m_bufArguments>>

(* Init fails without an ExePath that is a string and fits the buffer.      *)
ReadExePath(c, ok) ==
  /\ ok => registry["ExePath"] # 0
  /\ m_strExePath' =
       [m_strExePath EXCEPT ![c] = IF ok THEN registry["ExePath"] ELSE 0]
  /\ UNCHANGED <<m_fEscapeForPS, m_bufArguments>>

(* Optional: when the value is not there or not a DWORD, or the query       *)
(* fails, the flag stays false.                                             *)
ReadEscapeForPS(c) ==
  /\ \E v \in {0, registry["EscapeForPS"]} :
       m_fEscapeForPS' = [m_fEscapeForPS EXCEPT ![c] = v]
  /\ UNCHANGED <<m_strExePath, m_bufArguments>>

(* Optional: when the list is not there, does not fit or has another type,  *)
(* or the query fails, the processor is started without it.  Only a lack of *)
(* memory and a string without an end make Init fail.                       *)
ReadArguments(c, ok) ==
  /\ \E v \in {0, registry["Arguments"]} :
       m_bufArguments' = [m_bufArguments EXCEPT ![c] = IF ok THEN v ELSE 0]
  /\ UNCHANGED <<m_strExePath, m_fEscapeForPS>>
=============================================================================
