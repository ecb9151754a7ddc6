------------------------ MODULE ProcessorCommandProofs ------------------------
(***************************************************************************)
(* That CommandInv is inductive, and with it the three properties of       *)
(* ProcessorCommand, for any number of calls, contexts and imports.        *)
(***************************************************************************)
EXTENDS ProcessorCommand, TLAPS

USE CallAssumption, CertServerAssumption, ConfigAssumption

(* The notifications have not begun, and the registry is empty.             *)
LEMMA InitCommandInv == Init => CommandInv
<1> SUFFICES ASSUME Init PROVE CommandInv
  OBVIOUS
<1> USE DEF Init, CertServerStart, ConfigStart
<1>1. TypeOK
  BY DEF TypeOK, CertServerTypeOK, ConfigTypeOK, Version, ActiveLabel, ValueName
<1>2. \A c \in Call : pc[c] = "idle" /\ ~ started[c]
  OBVIOUS
<1>3. ContextsOwned /\ ObjectsOwned /\ StartedIsOver
  BY <1>2 DEF ContextsOwned, ObjectsOwned, StartedIsOver, Active, ActiveLabel,
    Property, ValueName
<1>4. PropertiesOwned
  BY <1>2 DEF PropertiesOwned, HasKey, ActiveLabel, Property, ValueName
<1>5. RegistryOrdered
  BY DEF RegistryOrdered, ValueName
<1>6. ReadsOrdered
  BY <1>2 DEF ReadsOrdered, HasKey, HasExePath, HasEscapeForPS, ValueName
<1> QED
  BY <1>1, <1>3, <1>4, <1>5, <1>6 DEF CommandInv

(* A new call gets a context that no call in progress has.                 *)
LEMMA NotifyKeeps ==
  ASSUME NEW c \in Call, CommandInv, NEW x \in Context, Notify(c, x)
  PROVE  CommandInv'
<1> USE DEF CommandInv, Notify, OpenContext,
    certServerVars, registryVars, configVars, Goto
<1>1. TypeOK'
  BY DEF TypeOK, CertServerTypeOK, ConfigTypeOK, Version, ActiveLabel, Property, ValueName
<1>2. ContextsOwned'
  BY DEF TypeOK, CertServerTypeOK, ContextsOwned, Active, ActiveLabel, Property, ValueName
<1>3. ObjectsOwned'
  BY DEF TypeOK, CertServerTypeOK, ObjectsOwned, ContextsOwned, Active, ActiveLabel, Property, ValueName
<1>4. PropertiesOwned'
  BY DEF TypeOK, CertServerTypeOK, PropertiesOwned, ObjectsOwned, ContextsOwned,
    StartedIsOver, Active, HasKey, ActiveLabel, Property, ValueName
<1>5. RegistryOrdered'
  BY DEF TypeOK, ConfigTypeOK, Version, RegistryOrdered, ValueName
<1>6. ReadsOrdered'
  BY DEF TypeOK, ConfigTypeOK, Version, RegistryOrdered, ReadsOrdered,
    StartedIsOver, HasKey, HasExePath, HasEscapeForPS, ActiveLabel, Property, ValueName
<1>7. StartedIsOver'
  BY DEF TypeOK, StartedIsOver, ActiveLabel, Property, ValueName
<1> QED
  BY <1>1, <1>2, <1>3, <1>4, <1>5, <1>6, <1>7 DEF CommandInv

(* The object of the call, and no other, gets the context.                  *)
LEMMA InitServerKeeps ==
  ASSUME NEW c \in Call, CommandInv, InitServer(c)
  PROVE  CommandInv'
<1> USE DEF CommandInv, InitServer, CertServerInit,
    certServerVars, registryVars, configVars, Goto
<1>1. TypeOK'
  BY DEF TypeOK, CertServerTypeOK, ConfigTypeOK, Version, ActiveLabel, Property, ValueName
<1>2. ContextsOwned'
  BY DEF TypeOK, CertServerTypeOK, ContextsOwned, Active, ActiveLabel, Property, ValueName
<1>3. ObjectsOwned'
  BY DEF TypeOK, CertServerTypeOK, ObjectsOwned, ContextsOwned, Active, ActiveLabel, Property, ValueName
<1>4. PropertiesOwned'
  BY DEF TypeOK, CertServerTypeOK, PropertiesOwned, ObjectsOwned, ContextsOwned,
    StartedIsOver, Active, HasKey, ActiveLabel, Property, ValueName
<1>5. RegistryOrdered'
  BY DEF TypeOK, ConfigTypeOK, Version, RegistryOrdered, ValueName
<1>6. ReadsOrdered'
  BY DEF TypeOK, ConfigTypeOK, Version, RegistryOrdered, ReadsOrdered,
    StartedIsOver, HasKey, HasExePath, HasEscapeForPS, ActiveLabel, Property, ValueName
<1>7. StartedIsOver'
  BY DEF TypeOK, StartedIsOver, ActiveLabel, Property, ValueName
<1> QED
  BY <1>1, <1>2, <1>3, <1>4, <1>5, <1>6, <1>7 DEF CommandInv

(* The context still stands for the call, so the property is its own.       *)
LEMMA ReadPropertyKeeps ==
  ASSUME NEW c \in Call, CommandInv, NEW p \in Property, ReadProperty(c, p)
  PROVE  CommandInv'
<1> USE DEF CommandInv, ReadProperty, CertificateProperty, PropertyOrder,
    certServerVars, registryVars, configVars, Goto
<1>1. TypeOK'
  BY DEF TypeOK, CertServerTypeOK, ConfigTypeOK, Version, ActiveLabel, Property, ValueName
<1>2. ContextsOwned'
  BY DEF TypeOK, CertServerTypeOK, ContextsOwned, Active, ActiveLabel, Property, ValueName
<1>3. ObjectsOwned'
  BY DEF TypeOK, CertServerTypeOK, ObjectsOwned, ContextsOwned, Active, ActiveLabel, Property, ValueName
<1>4. PropertiesOwned'
  BY DEF TypeOK, CertServerTypeOK, PropertiesOwned, ObjectsOwned, ContextsOwned,
    StartedIsOver, Active, HasKey, ActiveLabel, Property, ValueName
<1>5. RegistryOrdered'
  BY DEF TypeOK, ConfigTypeOK, Version, RegistryOrdered, ValueName
<1>6. ReadsOrdered'
  BY DEF TypeOK, ConfigTypeOK, Version, RegistryOrdered, ReadsOrdered,
    StartedIsOver, HasKey, HasExePath, HasEscapeForPS, ActiveLabel, Property, ValueName
<1>7. StartedIsOver'
  BY DEF TypeOK, StartedIsOver, ActiveLabel, Property, ValueName
<1> QED
  BY <1>1, <1>2, <1>3, <1>4, <1>5, <1>6, <1>7 DEF CommandInv

(* Whatever is complete now stays, or is replaced by something newer.       *)
LEMMA OpenRegistryKeeps ==
  ASSUME NEW c \in Call, CommandInv, OpenRegistry(c)
  PROVE  CommandInv'
<1> USE DEF CommandInv, OpenRegistry, OpenKey, ReadOrder, Completed,
    certServerVars, registryVars, configVars, Goto
<1>1. TypeOK'
  BY DEF TypeOK, CertServerTypeOK, ConfigTypeOK, Version, ActiveLabel, Property, ValueName
<1>2. ContextsOwned'
  BY DEF TypeOK, CertServerTypeOK, ContextsOwned, Active, ActiveLabel, Property, ValueName
<1>3. ObjectsOwned'
  BY DEF TypeOK, CertServerTypeOK, ObjectsOwned, ContextsOwned, Active, ActiveLabel, Property, ValueName
<1>4. PropertiesOwned'
  BY DEF TypeOK, CertServerTypeOK, PropertiesOwned, ObjectsOwned, ContextsOwned,
    StartedIsOver, Active, HasKey, ActiveLabel, Property, ValueName
<1>5. RegistryOrdered'
  BY DEF TypeOK, ConfigTypeOK, Version, RegistryOrdered, ValueName
<1>6. ReadsOrdered'
  BY DEF TypeOK, ConfigTypeOK, Version, RegistryOrdered, ReadsOrdered,
    StartedIsOver, HasKey, HasExePath, HasEscapeForPS, ActiveLabel, Property, ValueName
<1>7. StartedIsOver'
  BY DEF TypeOK, StartedIsOver, ActiveLabel, Property, ValueName
<1> QED
  BY <1>1, <1>2, <1>3, <1>4, <1>5, <1>6, <1>7 DEF CommandInv

(* The program is at least as new as what was complete.                     *)
LEMMA ReadExePathKeeps ==
  ASSUME NEW c \in Call, CommandInv, ReadValue(c, "ExePath")
  PROVE  CommandInv'
<1> USE DEF CommandInv, ReadValue, ReadExePath, ReadOrder,
    certServerVars, registryVars, configVars, Goto
<1>1. TypeOK'
  BY DEF TypeOK, CertServerTypeOK, ConfigTypeOK, Version, ActiveLabel, Property, ValueName
<1>2. ContextsOwned'
  BY DEF TypeOK, CertServerTypeOK, ContextsOwned, Active, ActiveLabel, Property, ValueName
<1>3. ObjectsOwned'
  BY DEF TypeOK, CertServerTypeOK, ObjectsOwned, ContextsOwned, Active, ActiveLabel, Property, ValueName
<1>4. PropertiesOwned'
  BY DEF TypeOK, CertServerTypeOK, PropertiesOwned, ObjectsOwned, ContextsOwned,
    StartedIsOver, Active, HasKey, ActiveLabel, Property, ValueName
<1>5. RegistryOrdered'
  BY DEF TypeOK, ConfigTypeOK, Version, RegistryOrdered, ValueName
<1>6. ReadsOrdered'
  BY DEF TypeOK, ConfigTypeOK, Version, RegistryOrdered, ReadsOrdered,
    StartedIsOver, HasKey, HasExePath, HasEscapeForPS, ActiveLabel, Property, ValueName
<1>7. StartedIsOver'
  BY DEF TypeOK, StartedIsOver, ActiveLabel, Property, ValueName
<1> QED
  BY <1>1, <1>2, <1>3, <1>4, <1>5, <1>6, <1>7 DEF CommandInv

(* So is the flag, when it is there.                                        *)
LEMMA ReadEscapeForPSKeeps ==
  ASSUME NEW c \in Call, CommandInv, ReadValue(c, "EscapeForPS")
  PROVE  CommandInv'
<1> USE DEF CommandInv, ReadValue, ReadEscapeForPS, ReadOrder,
    certServerVars, registryVars, configVars, Goto
<1>1. TypeOK'
  BY DEF TypeOK, CertServerTypeOK, ConfigTypeOK, Version, ActiveLabel, Property, ValueName
<1>2. ContextsOwned'
  BY DEF TypeOK, CertServerTypeOK, ContextsOwned, Active, ActiveLabel, Property, ValueName
<1>3. ObjectsOwned'
  BY DEF TypeOK, CertServerTypeOK, ObjectsOwned, ContextsOwned, Active, ActiveLabel, Property, ValueName
<1>4. PropertiesOwned'
  BY DEF TypeOK, CertServerTypeOK, PropertiesOwned, ObjectsOwned, ContextsOwned,
    StartedIsOver, Active, HasKey, ActiveLabel, Property, ValueName
<1>5. RegistryOrdered'
  BY DEF TypeOK, ConfigTypeOK, Version, RegistryOrdered, ValueName
<1>6. ReadsOrdered'
  BY DEF TypeOK, ConfigTypeOK, Version, RegistryOrdered, ReadsOrdered,
    StartedIsOver, HasKey, HasExePath, HasEscapeForPS, ActiveLabel, Property, ValueName
<1>7. StartedIsOver'
  BY DEF TypeOK, StartedIsOver, ActiveLabel, Property, ValueName
<1> QED
  BY <1>1, <1>2, <1>3, <1>4, <1>5, <1>6, <1>7 DEF CommandInv

(* Read last and written first, the arguments are at least as new as both.  *)
LEMMA ReadArgumentsKeeps ==
  ASSUME NEW c \in Call, CommandInv, ReadValue(c, "Arguments")
  PROVE  CommandInv'
<1> USE DEF CommandInv, ReadValue, ReadArguments, ReadOrder,
    certServerVars, registryVars, configVars, Goto
<1>1. TypeOK'
  BY DEF TypeOK, CertServerTypeOK, ConfigTypeOK, Version, ActiveLabel, Property, ValueName
<1>2. ContextsOwned'
  BY DEF TypeOK, CertServerTypeOK, ContextsOwned, Active, ActiveLabel, Property, ValueName
<1>3. ObjectsOwned'
  BY DEF TypeOK, CertServerTypeOK, ObjectsOwned, ContextsOwned, Active, ActiveLabel, Property, ValueName
<1>4. PropertiesOwned'
  BY DEF TypeOK, CertServerTypeOK, PropertiesOwned, ObjectsOwned, ContextsOwned,
    StartedIsOver, Active, HasKey, ActiveLabel, Property, ValueName
<1>5. RegistryOrdered'
  BY DEF TypeOK, ConfigTypeOK, Version, RegistryOrdered, ValueName
<1>6. ReadsOrdered'
  BY DEF TypeOK, ConfigTypeOK, Version, RegistryOrdered, ReadsOrdered,
    StartedIsOver, HasKey, HasExePath, HasEscapeForPS, ActiveLabel, Property, ValueName
<1>7. StartedIsOver'
  BY DEF TypeOK, StartedIsOver, ActiveLabel, Property, ValueName
<1> QED
  BY <1>1, <1>2, <1>3, <1>4, <1>5, <1>6, <1>7 DEF CommandInv

(* What holds of a call about to launch holds of one that has.              *)
LEMMA LaunchKeeps ==
  ASSUME NEW c \in Call, CommandInv, Launch(c)
  PROVE  CommandInv'
<1> USE DEF CommandInv, Launch,
    certServerVars, registryVars, configVars, Goto
<1>1. TypeOK'
  BY DEF TypeOK, CertServerTypeOK, ConfigTypeOK, Version, ActiveLabel, Property, ValueName
<1>2. ContextsOwned'
  BY DEF TypeOK, CertServerTypeOK, ContextsOwned, Active, ActiveLabel, Property, ValueName
<1>3. ObjectsOwned'
  BY DEF TypeOK, CertServerTypeOK, ObjectsOwned, ContextsOwned, Active, ActiveLabel, Property, ValueName
<1>4. PropertiesOwned'
  BY DEF TypeOK, CertServerTypeOK, PropertiesOwned, ObjectsOwned, ContextsOwned,
    StartedIsOver, Active, HasKey, ActiveLabel, Property, ValueName
<1>5. RegistryOrdered'
  BY DEF TypeOK, ConfigTypeOK, Version, RegistryOrdered, ValueName
<1>6. ReadsOrdered'
  BY DEF TypeOK, ConfigTypeOK, Version, RegistryOrdered, ReadsOrdered,
    StartedIsOver, HasKey, HasExePath, HasEscapeForPS, ActiveLabel, Property, ValueName
<1>7. StartedIsOver'
  BY DEF TypeOK, StartedIsOver, ActiveLabel, Property, ValueName
<1> QED
  BY <1>1, <1>2, <1>3, <1>4, <1>5, <1>6, <1>7 DEF CommandInv

(* A call that returns frees its own context.                               *)
LEMMA ReturnKeeps ==
  ASSUME NEW c \in Call, CommandInv, Return(c)
  PROVE  CommandInv'
<1> USE DEF CommandInv, Return, CertServerClear, CloseContext,
    certServerVars, registryVars, configVars, Goto
<1>1. TypeOK'
  BY DEF TypeOK, CertServerTypeOK, ConfigTypeOK, Version, ActiveLabel, Property, ValueName
<1>2. ContextsOwned'
  BY DEF TypeOK, CertServerTypeOK, ContextsOwned, Active, ActiveLabel, Property, ValueName
<1>3. ObjectsOwned'
  BY DEF TypeOK, CertServerTypeOK, ObjectsOwned, ContextsOwned, Active, ActiveLabel, Property, ValueName
<1>4. PropertiesOwned'
  BY DEF TypeOK, CertServerTypeOK, PropertiesOwned, ObjectsOwned, ContextsOwned,
    StartedIsOver, Active, HasKey, ActiveLabel, Property, ValueName
<1>5. RegistryOrdered'
  BY DEF TypeOK, ConfigTypeOK, Version, RegistryOrdered, ValueName
<1>6. ReadsOrdered'
  BY DEF TypeOK, ConfigTypeOK, Version, RegistryOrdered, ReadsOrdered,
    StartedIsOver, HasKey, HasExePath, HasEscapeForPS, ActiveLabel, Property, ValueName
<1>7. StartedIsOver'
  BY DEF TypeOK, StartedIsOver, ActiveLabel, Property, ValueName
<1> QED
  BY <1>1, <1>2, <1>3, <1>4, <1>5, <1>6, <1>7 DEF CommandInv

(* An import that begins writes nothing yet.                                *)
LEMMA BeginImportKeeps ==
  ASSUME CommandInv, BeginImport, UNCHANGED <<certServerVars, localVars>>
  PROVE  CommandInv'
<1> USE DEF CommandInv, BeginImport,
    certServerVars, registryVars, configVars, Goto, localVars
<1>1. TypeOK'
  BY DEF TypeOK, CertServerTypeOK, ConfigTypeOK, Version, ActiveLabel, Property, ValueName
<1>2. ContextsOwned'
  BY DEF TypeOK, CertServerTypeOK, ContextsOwned, Active, ActiveLabel, Property, ValueName
<1>3. ObjectsOwned'
  BY DEF TypeOK, CertServerTypeOK, ObjectsOwned, ContextsOwned, Active, ActiveLabel, Property, ValueName
<1>4. PropertiesOwned'
  BY DEF TypeOK, CertServerTypeOK, PropertiesOwned, ObjectsOwned, ContextsOwned,
    StartedIsOver, Active, HasKey, ActiveLabel, Property, ValueName
<1>5. RegistryOrdered'
  BY DEF TypeOK, ConfigTypeOK, Version, RegistryOrdered, ValueName
<1>6. ReadsOrdered'
  BY DEF TypeOK, ConfigTypeOK, Version, RegistryOrdered, ReadsOrdered,
    StartedIsOver, HasKey, HasExePath, HasEscapeForPS, ActiveLabel, Property, ValueName
<1>7. StartedIsOver'
  BY DEF TypeOK, StartedIsOver, ActiveLabel, Property, ValueName
<1> QED
  BY <1>1, <1>2, <1>3, <1>4, <1>5, <1>6, <1>7 DEF CommandInv

(* What an import writes is the newest there is.                            *)
LEMMA ImportValueKeeps ==
  ASSUME CommandInv, ImportValue, UNCHANGED <<certServerVars, localVars>>
  PROVE  CommandInv'
<1> USE DEF CommandInv, ImportValue, ImportOrder,
    certServerVars, registryVars, configVars, Goto, localVars
<1>1. TypeOK'
  BY DEF TypeOK, CertServerTypeOK, ConfigTypeOK, Version, ActiveLabel, Property, ValueName
<1>2. ContextsOwned'
  BY DEF TypeOK, CertServerTypeOK, ContextsOwned, Active, ActiveLabel, Property, ValueName
<1>3. ObjectsOwned'
  BY DEF TypeOK, CertServerTypeOK, ObjectsOwned, ContextsOwned, Active, ActiveLabel, Property, ValueName
<1>4. PropertiesOwned'
  BY DEF TypeOK, CertServerTypeOK, PropertiesOwned, ObjectsOwned, ContextsOwned,
    StartedIsOver, Active, HasKey, ActiveLabel, Property, ValueName
<1>5. RegistryOrdered'
  BY DEF TypeOK, ConfigTypeOK, Version, RegistryOrdered, ValueName
<1>6. ReadsOrdered'
  BY DEF TypeOK, ConfigTypeOK, Version, RegistryOrdered, ReadsOrdered,
    StartedIsOver, HasKey, HasExePath, HasEscapeForPS, ActiveLabel, Property, ValueName
<1>7. StartedIsOver'
  BY DEF TypeOK, StartedIsOver, ActiveLabel, Property, ValueName
<1> QED
  BY <1>1, <1>2, <1>3, <1>4, <1>5, <1>6, <1>7 DEF CommandInv

(* Every step of the specification preserves the invariant.                 *)
LEMMA NextKeeps == CommandInv /\ [Next]_vars => CommandInv'
<1> SUFFICES ASSUME CommandInv, [Next]_vars PROVE CommandInv'
  OBVIOUS
<1>1. ASSUME NEW c \in Call, NEW x \in Context, Notify(c, x) PROVE CommandInv'
  BY <1>1, NotifyKeeps
<1>2. ASSUME NEW c \in Call, Step(c) PROVE CommandInv'
  <2>1. CASE InitServer(c)
    BY <2>1, InitServerKeeps
  <2>2. CASE \E p \in Property : ReadProperty(c, p)
    BY <2>2, ReadPropertyKeeps
  <2>3. CASE OpenRegistry(c)
    BY <2>3, OpenRegistryKeeps
  <2>4. CASE \E n \in ValueName : ReadValue(c, n)
    BY <2>4, ReadExePathKeeps, ReadEscapeForPSKeeps, ReadArgumentsKeeps
      DEF ValueName
  <2>5. CASE Launch(c)
    BY <2>5, LaunchKeeps
  <2>6. CASE Return(c)
    BY <2>6, ReturnKeeps
  <2> QED
    BY <1>2, <2>1, <2>2, <2>3, <2>4, <2>5, <2>6 DEF Step
<1>3. CASE Import
  BY <1>3, BeginImportKeeps, ImportValueKeeps DEF Import
<1>4. CASE UNCHANGED vars
  BY <1>4 DEF vars, certServerVars, registryVars, configVars, localVars, CommandInv,
    TypeOK, CertServerTypeOK, ConfigTypeOK, ContextsOwned, ObjectsOwned,
    PropertiesOwned, RegistryOrdered, ReadsOrdered, StartedIsOver, Active
<1> QED
  BY <1>1, <1>2, <1>3, <1>4 DEF Next

(* The invariant of every reachable state, type correctness included.       *)
THEOREM Invariance == Spec => []CommandInv
  BY InitCommandInv, NextKeeps, PTL DEF Spec

(* However notifications overlap and context numbers are used again, what a *)
(* processor is told of is the certificate of its own notification.         *)
THEOREM CertificatesDoNotMix == Spec => []OneCertificate
<1>1. CommandInv => OneCertificate
  BY DEF CommandInv, PropertiesOwned, OneCertificate, Property
<1> QED
  BY <1>1, Invariance, PTL

(* No notification uses less than the registration complete when it began   *)
(* to read, although there is no lock and no restart.                       *)
THEOREM RegistrationTakesEffect == Spec => []NothingOutdated
<1>1. CommandInv => NothingOutdated
  BY DEF CommandInv, TypeOK, ConfigTypeOK, Version, ReadsOrdered, RegistryOrdered,
    ValueName, NothingOutdated, Values
<1> QED
  BY <1>1, Invariance, PTL

(* Reading the arguments last, when every file writes them first, keeps old *)
(* arguments from a new program, for any number of imports.                 *)
THEOREM NewProgramNewArguments == Spec => []ArgumentsNotOlder
<1>1. CommandInv => ArgumentsNotOlder
  BY DEF CommandInv, TypeOK, ConfigTypeOK, Version, ReadsOrdered, ArgumentsNotOlder
<1> QED
  BY <1>1, Invariance, PTL
=============================================================================
