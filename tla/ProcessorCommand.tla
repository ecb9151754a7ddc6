--------------------------- MODULE ProcessorCommand ---------------------------
(***************************************************************************)
(* Where the command of an event processor comes from.                     *)
(* CPMICertExit::NotifyCertIssued (PMICertExit.cpp) reads the certificate  *)
(* property by property from certsrv.exe (CCertServerExit), and the        *)
(* registered command value by value from the registry                     *)
(* (CEventProcessorConfig), while other notifications do the same and an   *)
(* administrator imports registrations.  PMICertExit takes both reads as   *)
(* one step each; here every query is a step.                              *)
(***************************************************************************)
EXTENDS CertServerExit, EventProcessorConfig

VARIABLES
  pc,       \* per call: the query it is at
  context,  \* per call: the Context argument of Notify
  cert,     \* per call: whose property each property read is
  started,  \* per call: was an event processor started with all that?
  atOpen    \* per call: the registration complete when Init opened the key

localVars == <<pc, context, cert, started, atOpen>>
vars == <<certServerVars, registryVars, configVars, localVars>>

PropertyOrder ==
  [SubjectKeyIdentifier |-> "SerialNumber", SerialNumber |-> "RawCertificate",
   RawCertificate |-> "OpenKey"]

ActiveLabel ==
  Property \cup ValueName \cup {"server", "OpenKey", "launch", "leave"}

Active(c) == pc[c] \in ActiveLabel

Goto(c, label) == pc' = [pc EXCEPT ![c] = label]

TypeOK ==
  /\ CertServerTypeOK
  /\ ConfigTypeOK
  /\ pc \in [Call -> ActiveLabel \cup {"idle", "done"}]
  /\ context \in [Call -> Context \cup {NoContext}]
  /\ cert \in [Call -> [Property -> Call \cup {NoCall}]]
  /\ started \in [Call -> BOOLEAN]
  /\ atOpen \in [Call -> Version]

Init ==
  /\ CertServerStart
  /\ ConfigStart
  /\ pc = [c \in Call |-> "idle"]
  /\ context = [c \in Call |-> NoContext]
  /\ cert = [c \in Call |-> [p \in Property |-> NoCall]]
  /\ started = [c \in Call |-> FALSE]
  /\ atOpen = [c \in Call |-> 0]

-----------------------------------------------------------------------------
(* certsrv.exe calls Notify for an issued certificate.                      *)
Notify(c, x) ==
  /\ pc[c] = "idle"
  /\ OpenContext(c, x)
  /\ context' = [context EXCEPT ![c] = x]
  /\ Goto(c, "server")
  /\ UNCHANGED <<m_ptrInner, registryVars, configVars, cert, started, atOpen>>

InitServer(c) ==
  /\ pc[c] = "server"
  /\ \E ok \in BOOLEAN :
       /\ CertServerInit(c, context[c], ok)
       /\ Goto(c, IF ok THEN "SubjectKeyIdentifier" ELSE "leave")
  /\ UNCHANGED <<registryVars, configVars, context, cert, started, atOpen>>

ReadProperty(c, p) ==
  /\ pc[c] = p
  /\ \E ok \in BOOLEAN, v \in Call \cup {NoCall} :
       /\ CertificateProperty(c, v, ok)
       /\ cert' = [cert EXCEPT ![c][p] = v]
       /\ Goto(c, IF ok THEN PropertyOrder[p] ELSE "leave")
  /\ UNCHANGED <<certServerVars, registryVars, configVars, context, started,
                 atOpen>>

(* CEventProcessorConfig::Init, from query to query.                        *)
OpenRegistry(c) ==
  /\ pc[c] = "OpenKey"
  /\ \E ok \in BOOLEAN :
       /\ OpenKey(ok)
       /\ Goto(c, IF ok THEN ReadOrder["OpenKey"] ELSE "leave")
  /\ atOpen' = [atOpen EXCEPT ![c] = Completed]
  /\ UNCHANGED <<certServerVars, registryVars, context, cert, started>>

ReadValue(c, n) ==
  /\ pc[c] = n
  /\ \E ok \in BOOLEAN :
       /\ \/ n = "ExePath" /\ ReadExePath(c, ok)
          \/ n = "EscapeForPS" /\ ok /\ ReadEscapeForPS(c)
          \/ n = "Arguments" /\ ReadArguments(c, ok)
       /\ Goto(c, IF ok THEN ReadOrder[n] ELSE "leave")
  /\ UNCHANGED <<certServerVars, registryVars, context, cert, started, atOpen>>

(* CEventProcessor::NotifyCertIssued starts the processor, or does not.     *)
Launch(c) ==
  /\ pc[c] = "launch"
  /\ \E ok \in BOOLEAN : started' = [started EXCEPT ![c] = ok]
  /\ Goto(c, "leave")
  /\ UNCHANGED <<certServerVars, registryVars, configVars, context, cert,
                 atOpen>>

(* Notify returns: the object of the call is gone, and so is its context.   *)
Return(c) ==
  /\ pc[c] = "leave"
  /\ CertServerClear(c)
  /\ CloseContext(c)
  /\ Goto(c, "done")
  /\ UNCHANGED <<registryVars, configVars, context, cert, started, atOpen>>

Step(c) ==
  \/ InitServer(c)
  \/ \E p \in Property : ReadProperty(c, p)
  \/ OpenRegistry(c)
  \/ \E n \in ValueName : ReadValue(c, n)
  \/ Launch(c)
  \/ Return(c)

Import == (BeginImport \/ ImportValue) /\ UNCHANGED <<certServerVars, localVars>>

Next ==
  \/ \E c \in Call :
       \/ \E x \in Context : Notify(c, x)
       \/ Step(c)
  \/ Import

Spec == Init /\ [][Next]_vars
-----------------------------------------------------------------------------
(* A processor is told of one certificate, the one that its notification is *)
(* about: the -subjectkeyidentifier, the -serialnumber and the file at      *)
(* -rawcertpath were read in three calls, between which other notifications *)
(* set contexts of their own and certsrv.exe uses context numbers again.    *)
OneCertificate ==
  \A c \in Call : started[c] => \A p \in Property : cert[c][p] = c

(* What call c takes from the registry, an optional value left out being 0. *)
Values(c) == {m_strExePath[c], m_fEscapeForPS[c], m_bufArguments[c]} \ {0}

(* A registration takes effect without a restart of the service, and at     *)
(* once: nothing a processor is started with is older than the registration *)
(* that was complete when its notification turned to the registry.  So only *)
(* an import that overlaps the reads can mix registrations.                 *)
NothingOutdated ==
  \A c \in Call :
    started[c] => \A v \in Values(c) : atOpen[c] <= v /\ v <= imports

(* The module reads the values in another order than a file of the form of  *)
(* ExitModuleExe.reg writes them, which limits what an import that overlaps *)
(* the reads can mix: arguments never go to a program, and are never        *)
(* escaped for a shell, of a registration newer than their own.  The other  *)
(* way round can happen, a new list of arguments for the old program.       *)
ArgumentsNotOlder ==
  \A c \in Call :
    (started[c] /\ m_bufArguments[c] # 0) =>
      /\ m_bufArguments[c] >= m_strExePath[c]
      /\ m_bufArguments[c] >= m_fEscapeForPS[c]

-----------------------------------------------------------------------------
(* The invariant behind the three, as induction needs it.                   *)

(* An open context number belongs to one call.                              *)
ContextsOwned ==
  \A c \in Call : Active(c) => context[c] \in Context /\ server[context[c]] = c

(* From Init to Notify's end the object of a call has the call's context.   *)
ObjectsOwned ==
  \A c \in Call :
    pc[c] \in ActiveLabel \ {"server", "leave"} => m_ptrInner[c] = context[c]

(* Where all the values up to the one named have been read.                  *)
HasKey == ValueName \cup {"launch"}
HasExePath == {"EscapeForPS", "Arguments", "launch"}
HasEscapeForPS == {"Arguments", "launch"}

(* What call c has read of the certificate is its own.                      *)
PropertiesOwned ==
  \A c \in Call :
    /\ (\/ started[c]
        \/ pc[c] \in HasKey \cup {"OpenKey", "RawCertificate", "SerialNumber"}) =>
         cert[c]["SubjectKeyIdentifier"] = c
    /\ started[c] \/ pc[c] \in HasKey \cup {"OpenKey", "RawCertificate"} =>
         cert[c]["SerialNumber"] = c
    /\ started[c] \/ pc[c] \in HasKey \cup {"OpenKey"} =>
         cert[c]["RawCertificate"] = c

(* An import goes through the values in an order of its own, so that they   *)
(* are never newer than the ones before them in that order.                 *)
RegistryOrdered ==
  /\ registry["EscapeForPS"] <= registry["ExePath"]
  /\ registry["ExePath"] <= registry["Arguments"]
  /\ registry["Arguments"] <= imports
  /\ written >= 1 => registry["Arguments"] = imports
  /\ written >= 2 => registry["ExePath"] = imports

(* What has been read is between what was there when the key was opened and *)
(* what is there now.                                                       *)
ReadsOrdered ==
  \A c \in Call :
    /\ pc[c] \in HasKey \/ started[c] =>
         atOpen[c] <= registry["EscapeForPS"]
    /\ pc[c] \in HasExePath \/ started[c] =>
         atOpen[c] <= m_strExePath[c] /\ m_strExePath[c] <= registry["ExePath"]
    /\ pc[c] \in HasEscapeForPS \/ started[c] =>
         /\ m_fEscapeForPS[c] # 0 => atOpen[c] <= m_fEscapeForPS[c]
         /\ m_fEscapeForPS[c] <= registry["EscapeForPS"]
    /\ (pc[c] = "launch" \/ started[c]) /\ m_bufArguments[c] # 0 =>
         /\ atOpen[c] <= m_bufArguments[c]
         /\ m_strExePath[c] <= m_bufArguments[c]
         /\ m_fEscapeForPS[c] <= m_bufArguments[c]
         /\ m_bufArguments[c] <= registry["Arguments"]

StartedIsOver == \A c \in Call : started[c] => pc[c] \in {"leave", "done"}

CommandInv ==
  /\ TypeOK
  /\ ContextsOwned
  /\ ObjectsOwned
  /\ PropertiesOwned
  /\ RegistryOrdered
  /\ ReadsOrdered
  /\ StartedIsOver
=============================================================================
