------------------------- MODULE MessagesSetupProofs ------------------------
(***************************************************************************)
(* Proofs about MessagesSetup, for any number of overlapping runs, any     *)
(* paths and argument lists of any length.                                 *)
(***************************************************************************)
EXTENDS MessagesSetup, SequenceTheorems, TLAPS

-----------------------------------------------------------------------------
(* Facts about arguments and values                                         *)

(* What a run can be asked to register.                                     *)
LEMMA ArgFacts ==
  ASSUME NEW a \in ArgList
  PROVE  /\ ParsedPath(a) \in Path \cup Switch \cup {NoPath}
         /\ Operation(a) \in {"INSTALL", "UINSTALL"}
<1> DEFINE S == Switch \cup Path \cup {NoPath}
<1>1. PICK n \in 0 .. MaxArgs : a \in [1 .. n -> S]
  BY DEF ArgList
<1>2. n \in Nat
  BY SetupAssumption
<1>3. a \in Seq(S)
  BY <1>1, <1>2, SeqDef
<1>4. ASSUME Len(a) = 2
      PROVE  a[2] \in S
  <2>1. Len(a) = n
    BY <1>1, <1>2, <1>3, LenProperties
  <2> QED
    BY <1>1, <1>4, <2>1
<1> QED
  BY <1>4 DEF ParsedPath, Operation

(* The five indices go through all the value names.                         *)
LEMMA NamesFacts ==
  /\ \A i \in 1 .. 5 : ValueNames[i] \in ValueName
  /\ \A v \in ValueName : \E i \in 1 .. 5 : v = ValueNames[i]
BY DEF ValueName

(* A registration has every value, and none of them is missing.             *)
LEMMA RegistrationFacts ==
  ASSUME NEW p \in Path \cup Switch
  PROVE  /\ Registration(p) \in [ValueName -> Value]
         /\ \A v \in ValueName : Registration(p)[v] # Unset
<1>1. \A v \in ValueName : Registration(p)[v] \in Value
  BY DEF Registration, Value
<1>2. Unset \notin Value
  BY SetupAssumption DEF Value
<1> QED
  BY <1>1, <1>2 DEF Registration

-----------------------------------------------------------------------------
(* The other runs                                                           *)

(* What a step of run s leaves alone in another run t.                      *)
SameRun(t) ==
  /\ pc'[t] = pc[t]
  /\ args'[t] = args[t]
  /\ strPath'[t] = strPath[t]
  /\ next'[t] = next[t]
  /\ exitCode'[t] = exitCode[t]
  /\ handle'[t] = handle[t]

RunInv(s) == ControlInv(s) /\ LiveInv(s) /\ IntactInv(s)

(* A step that does not write to the key cannot disturb another run.        *)
LEMMA OtherRuns ==
  ASSUME NEW t \in Setup, RunInv(t), SameRun(t), intact'[t] = intact[t],
         key # Unset => key' = key
  PROVE  RunInv(t)'
BY DEF RunInv, SameRun, ControlInv, LiveInv, IntactInv, Installed

-----------------------------------------------------------------------------
LEMMA InitInv == Init => SetupInv
<1> SUFFICES ASSUME Init PROVE SetupInv
  OBVIOUS
<1>1. <<>> \in ArgList
  <2>1. <<>> \in [1 .. 0 -> Switch \cup Path \cup {NoPath}]
    OBVIOUS
  <2>2. 0 \in 0 .. MaxArgs
    BY SetupAssumption
  <2> QED
    BY <2>1, <2>2 DEF ArgList
<1>2. TypeOK
  BY <1>1 DEF Init, TypeOK
<1>3. \A s \in Setup : ControlInv(s) /\ LiveInv(s) /\ IntactInv(s)
  BY DEF Init, ControlInv, LiveInv, IntactInv
<1> QED
  BY <1>2, <1>3 DEF SetupInv

LEMMA StartStep ==
  ASSUME SetupInv, NEW s \in Setup, NEW a \in ArgList, Start(s, a)
  PROVE  SetupInv'
<1>1. /\ pc[s] = "idle"
      /\ args' = [args EXCEPT ![s] = a]
      /\ strPath' = [strPath EXCEPT ![s] = ParsedPath(a)]
      /\ UNCHANGED <<key, handle, next, intact>>
  BY DEF Start
<1>2. \/ /\ pc' = [pc EXCEPT ![s] = "done"]
         /\ exitCode' = [exitCode EXCEPT ![s] = 1]
      \/ /\ UNCHANGED exitCode
         /\ \/ pc' = [pc EXCEPT ![s] = "delete"] /\ Operation(a) = "UINSTALL"
            \/ pc' = [pc EXCEPT ![s] = "find"] /\ Operation(a) = "INSTALL"
            \/ /\ pc' = [pc EXCEPT ![s] = "create"]
               /\ Operation(a) = "INSTALL"
               /\ ParsedPath(a) # NoPath
  BY ArgFacts DEF Start, Return
<1>3. TypeOK'
  BY <1>1, <1>2, ArgFacts DEF SetupInv, TypeOK
<1>4. RunInv(s)'
  BY <1>1, <1>2
     DEF SetupInv, TypeOK, RunInv, ControlInv, LiveInv, IntactInv, Installed
<1>5. \A t \in Setup \ {s} : RunInv(t)'
  BY <1>1, <1>2, OtherRuns DEF SetupInv, TypeOK, RunInv, SameRun
<1> QED
  BY <1>3, <1>4, <1>5 DEF SetupInv, RunInv

LEMMA FindStep ==
  ASSUME SetupInv, NEW s \in Setup, FindMessageDLL(s)
  PROVE  SetupInv'
<1>1. /\ pc[s] = "find"
      /\ UNCHANGED <<key, args, handle, next, intact>>
      /\ \/ /\ strPath' = [strPath EXCEPT ![s] = OwnPath]
            /\ pc' = [pc EXCEPT ![s] = "create"]
            /\ UNCHANGED exitCode
         \/ /\ pc' = [pc EXCEPT ![s] = "done"]
            /\ exitCode' = [exitCode EXCEPT ![s] = 1]
            /\ UNCHANGED strPath
  BY DEF FindMessageDLL, Return
<1>2. TypeOK'
  BY <1>1, SetupAssumption DEF SetupInv, TypeOK
<1>3. RunInv(s)'
  BY <1>1, SetupAssumption
     DEF SetupInv, TypeOK, RunInv, ControlInv, LiveInv, IntactInv, Installed
<1>4. \A t \in Setup \ {s} : RunInv(t)'
  BY <1>1, OtherRuns DEF SetupInv, TypeOK, RunInv, SameRun
<1> QED
  BY <1>2, <1>3, <1>4 DEF SetupInv, RunInv

LEMMA CreateStep ==
  ASSUME SetupInv, NEW s \in Setup, CreateKey(s)
  PROVE  SetupInv'
<1>1. /\ pc[s] = "create"
      /\ UNCHANGED <<args, strPath, next>>
      /\ handle[s] = "none" /\ next[s] = 1 /\ Operation(args[s]) = "INSTALL"
      /\ strPath[s] # NoPath /\ ~ intact[s]
  BY DEF CreateKey, SetupInv, ControlInv
<1>2. CASE /\ pc' = [pc EXCEPT ![s] = "done"]
           /\ exitCode' = [exitCode EXCEPT ![s] = 1]
           /\ UNCHANGED <<key, handle, intact>>
  <2>1. TypeOK'
    BY <1>1, <1>2 DEF SetupInv, TypeOK
  <2>2. RunInv(s)'
    BY <1>1, <1>2
       DEF SetupInv, TypeOK, RunInv, ControlInv, LiveInv, IntactInv, Installed
  <2>3. \A t \in Setup \ {s} : RunInv(t)'
    BY <1>1, <1>2, OtherRuns DEF SetupInv, TypeOK, RunInv, SameRun
  <2> QED
    BY <2>1, <2>2, <2>3 DEF SetupInv, RunInv
<1>3. CASE /\ key' = IF key = Unset THEN [v \in ValueName |-> Unset] ELSE key
           /\ handle' = [handle EXCEPT ![s] = "live"]
           /\ intact' = [intact EXCEPT ![s] = TRUE]
           /\ pc' = [pc EXCEPT ![s] = "set"]
           /\ UNCHANGED exitCode
  <2>1. key' \in [ValueName -> Value \cup {Unset}] /\ key' # Unset
    BY <1>3, SetupAssumption DEF SetupInv, TypeOK
  <2>2. TypeOK'
    BY <1>1, <1>3, <2>1 DEF SetupInv, TypeOK
  <2>3. RunInv(s)'
    BY <1>1, <1>3, <2>1
       DEF SetupInv, TypeOK, RunInv, ControlInv, LiveInv, IntactInv, Installed
  <2>4. \A t \in Setup \ {s} : RunInv(t)'
    BY <1>1, <1>3, OtherRuns DEF SetupInv, TypeOK, RunInv, SameRun
  <2> QED
    BY <2>2, <2>3, <2>4 DEF SetupInv, RunInv
<1> QED
  BY <1>2, <1>3 DEF CreateKey, Return

LEMMA SetValueStep ==
  ASSUME SetupInv, NEW s \in Setup, SetValue(s)
  PROVE  SetupInv'
<1> DEFINE v == ValueNames[next[s]]
           r == Registration(strPath[s])
<1>1. /\ pc[s] = "set"
      /\ next[s] \in 1 .. 5
      /\ v \in ValueName
      /\ strPath[s] \in Path \cup Switch
      /\ UNCHANGED <<args, strPath, handle>>
  BY NamesFacts DEF SetValue, SetupInv, TypeOK, ControlInv
<1>2. r \in [ValueName -> Value] /\ \A w \in ValueName : r[w] # Unset
  BY <1>1, RegistrationFacts
<1>3. CASE Return(s, 1) /\ UNCHANGED <<key, next, intact>>
  <2>1. TypeOK'
    BY <1>1, <1>3 DEF SetupInv, TypeOK, Return
  <2>2. RunInv(s)'
    BY <1>1, <1>3
       DEF SetupInv, TypeOK, RunInv, ControlInv, LiveInv, IntactInv, Installed, Return
  <2>3. \A t \in Setup \ {s} : RunInv(t)'
    BY <1>1, <1>3, OtherRuns DEF SetupInv, TypeOK, RunInv, SameRun, Return
  <2> QED
    BY <2>1, <2>2, <2>3 DEF SetupInv, RunInv
<1>4. CASE /\ handle[s] = "live"
           /\ key' = [key EXCEPT ![v] = r[v]]
           /\ intact' = Others(s, intact)
           /\ IF next[s] = 5
              THEN Return(s, 0) /\ UNCHANGED next
              ELSE /\ next' = [next EXCEPT ![s] = @ + 1]
                   /\ UNCHANGED <<pc, exitCode>>
  <2>1. key \in [ValueName -> Value \cup {Unset}]
    BY <1>4 DEF SetupInv, TypeOK, LiveInv
  <2>2. /\ key' \in [ValueName -> Value \cup {Unset}]
        /\ key' # Unset
        /\ key'[v] = r[v]
        /\ \A w \in ValueName \ {v} : key'[w] = key[w]
    BY <1>1, <1>2, <1>4, <2>1, SetupAssumption
  <2>3. /\ intact' \in [Setup -> BOOLEAN]
        /\ \A t \in Setup \ {s} : ~ intact'[t]
        /\ intact'[s] => intact[s]
    BY <1>4 DEF Others, SetupInv, TypeOK
  <2> HIDE DEF v, r
  <2>4. TypeOK'
    BY <1>1, <1>4, <2>2, <2>3 DEF SetupInv, TypeOK, Return
  <2>5. ASSUME NEW t \in Setup \ {s}
        PROVE  RunInv(t)'
    <3>1. ControlInv(t)'
      BY <1>1, <1>4, <2>3 DEF SetupInv, TypeOK, ControlInv, Return
    <3>2. LiveInv(t)'
      <4>1. next[t] \in 1 .. 5 /\ \A i \in 1 .. next[t] - 1 : ValueNames[i] \in ValueName
        BY NamesFacts DEF SetupInv, TypeOK
      <4>2. \A w \in ValueName : key[w] # Unset => key'[w] # Unset
        BY <1>1, <1>2, <2>2
      <4>3. next'[t] = next[t] /\ pc'[t] = pc[t] /\ handle'[t] = handle[t]
        BY <1>1, <1>4 DEF SetupInv, TypeOK, Return
      <4> QED
        BY <2>2, <4>1, <4>2, <4>3 DEF SetupInv, LiveInv
    <3>3. IntactInv(t)'
      BY <2>3 DEF IntactInv
    <3> QED
      BY <3>1, <3>2, <3>3 DEF RunInv
  <2>6. CASE next[s] # 5
    <3>1. next'[s] = next[s] + 1 /\ next'[s] \in 1 .. 5 /\ pc'[s] = "set"
      BY <1>1, <1>4, <2>6 DEF SetupInv, TypeOK
    <3>2. \A i \in 1 .. next'[s] - 1 : i \in 1 .. next[s] - 1 \/ i = next[s]
      BY <1>1, <3>1
    <3>3. \A i \in 1 .. next'[s] - 1 : ValueNames[i] \in ValueName
      BY <3>1, NamesFacts
    <3>4. ControlInv(s)'
      BY <1>1, <1>4, <2>3, <3>1 DEF SetupInv, TypeOK, ControlInv
    <3>5. LiveInv(s)'
      <4>1. \A i \in 1 .. next[s] - 1 : key[ValueNames[i]] # Unset
        BY <1>1, <1>4 DEF SetupInv, LiveInv
      <4>2. \A i \in 1 .. next'[s] - 1 : key'[ValueNames[i]] # Unset
        BY <1>1, <1>2, <2>2, <3>2, <3>3, <4>1 DEF v
      <4> QED
        BY <2>2, <4>2 DEF LiveInv
    <3>6. IntactInv(s)'
      <4>1. ASSUME intact[s]
            PROVE  \A i \in 1 .. next'[s] - 1 : key'[ValueNames[i]] = r[ValueNames[i]]
        <5>1. \A i \in 1 .. next[s] - 1 : key[ValueNames[i]] = r[ValueNames[i]]
          BY <1>1, <4>1 DEF SetupInv, IntactInv, r
        <5> QED
          BY <2>2, <3>2, <3>3, <5>1 DEF v
      <4>2. strPath'[s] = strPath[s]
        BY <1>1
      <4>3. intact'[s] => \A i \in 1 .. next'[s] - 1 :
                            key'[ValueNames[i]] = r[ValueNames[i]]
        BY <2>3, <4>1
      <4>4. ~ Installed(s)'
        BY <3>1 DEF Installed
      <4> QED
        BY <4>2, <4>3, <4>4 DEF IntactInv, r
    <3> QED
      BY <2>4, <2>5, <3>4, <3>5, <3>6 DEF SetupInv, RunInv
  <2>7. CASE next[s] = 5
    <3>1. /\ pc'[s] = "done" /\ exitCode'[s] = 0 /\ next'[s] = 5
      BY <1>1, <1>4, <2>7 DEF SetupInv, TypeOK, Return
    <3>2. ControlInv(s)'
      BY <1>1, <1>4, <2>3, <3>1 DEF SetupInv, TypeOK, ControlInv
    <3>3. LiveInv(s)'
      BY <2>2, <3>1 DEF LiveInv
    <3>4. ASSUME intact[s]
          PROVE  key' = r
      <4>1. \A i \in 1 .. 4 : key[ValueNames[i]] = r[ValueNames[i]]
        BY <1>1, <2>7, <3>4 DEF SetupInv, IntactInv, r
      <4>2. \A i \in 1 .. 5 : i \in 1 .. 4 \/ i = 5
        OBVIOUS
      <4>3. \A i \in 1 .. 5 : key'[ValueNames[i]] = r[ValueNames[i]]
        BY <2>2, <2>7, <4>1, <4>2, NamesFacts DEF v
      <4>4. \A w \in ValueName : key'[w] = r[w]
        BY <4>3, NamesFacts
      <4> QED
        BY <1>2, <2>2, <4>4
    <3>5. IntactInv(s)'
      <4>1. strPath'[s] = strPath[s]
        BY <1>1
      <4>2. intact'[s] => key' = r
        BY <2>3, <3>4
      <4> QED
        BY <3>1, <4>1, <4>2 DEF IntactInv, r
    <3> QED
      BY <2>4, <2>5, <3>2, <3>3, <3>5 DEF SetupInv, RunInv
  <2> QED
    BY <2>6, <2>7
<1> QED
  BY <1>3, <1>4 DEF SetValue

LEMMA DeleteStep ==
  ASSUME SetupInv, NEW s \in Setup, DeleteKey(s)
  PROVE  SetupInv'
<1>1. /\ pc[s] = "delete"
      /\ UNCHANGED <<args, strPath, next>>
      /\ Operation(args[s]) = "UINSTALL"
      /\ handle[s] = "none" /\ ~ intact[s]
  BY DEF DeleteKey, SetupInv, ControlInv
<1>2. CASE Return(s, 1) /\ UNCHANGED <<key, handle, intact>>
  <2>1. TypeOK'
    BY <1>1, <1>2 DEF SetupInv, TypeOK, Return
  <2>2. RunInv(s)'
    BY <1>1, <1>2
       DEF SetupInv, TypeOK, RunInv, ControlInv, LiveInv, IntactInv, Installed, Return
  <2>3. \A t \in Setup \ {s} : RunInv(t)'
    BY <1>1, <1>2, OtherRuns DEF SetupInv, TypeOK, RunInv, SameRun, Return
  <2> QED
    BY <2>1, <2>2, <2>3 DEF SetupInv, RunInv
<1>3. CASE /\ key' = Unset
           /\ handle' = [t \in Setup |->
                           IF handle[t] = "live" THEN "stale" ELSE handle[t]]
           /\ intact' = Others(s, intact)
           /\ Return(s, 0)
  <2>1. \A t \in Setup : handle'[t] # "live" /\ ~ intact'[t]
    BY <1>1, <1>3 DEF Others
  <2>2. TypeOK'
    BY <1>1, <1>3 DEF SetupInv, TypeOK, Return, Others
  <2>3. \A t \in Setup : LiveInv(t)' /\ IntactInv(t)'
    BY <2>1 DEF LiveInv, IntactInv
  <2>4. \A t \in Setup : ControlInv(t)'
    BY <1>1, <1>3, <2>1 DEF SetupInv, TypeOK, ControlInv, Return
  <2> QED
    BY <2>2, <2>3, <2>4 DEF SetupInv
<1> QED
  BY <1>2, <1>3 DEF DeleteKey

LEMMA KillStep ==
  ASSUME SetupInv, NEW s \in Setup, Kill(s)
  PROVE  SetupInv'
<1>1. /\ pc' = [pc EXCEPT ![s] = "killed"]
      /\ UNCHANGED <<key, args, strPath, handle, next, exitCode, intact>>
  BY DEF Kill
<1>2. TypeOK'
  BY <1>1 DEF SetupInv, TypeOK
<1>3. RunInv(s)'
  BY <1>1 DEF SetupInv, TypeOK, RunInv, ControlInv, LiveInv, IntactInv, Installed
<1>4. \A t \in Setup \ {s} : RunInv(t)'
  BY <1>1, OtherRuns DEF SetupInv, TypeOK, RunInv, SameRun
<1> QED
  BY <1>2, <1>3, <1>4 DEF SetupInv, RunInv

LEMMA NextInv == SetupInv /\ [Next]_vars => SetupInv'
<1> SUFFICES ASSUME SetupInv, [Next]_vars PROVE SetupInv'
  OBVIOUS
<1>1. CASE Next
  BY <1>1, StartStep, FindStep, CreateStep, SetValueStep, DeleteStep, KillStep
     DEF Next
<1>2. CASE UNCHANGED vars
  BY <1>2
     DEF vars, SetupInv, TypeOK, ControlInv, LiveInv, IntactInv, Installed
<1> QED
  BY <1>1, <1>2

(* The invariant holds for any number of runs that overlap as they like and *)
(* are killed anywhere.                                                     *)
THEOREM Invariance == Spec => []SetupInv
BY InitInv, NextInv, PTL DEF Spec

(* An installation that returned 0 has registered all its values, over      *)
(* whatever earlier and interrupted runs left, and they stay until another  *)
(* run touches the key.                                                     *)
THEOREM InstallationHolds == Spec => []InstallationStands
<1>1. SetupInv => InstallationStands
  BY DEF SetupInv, IntactInv, InstallationStands, Installed
<1> QED
  BY <1>1, Invariance, PTL

(* A run that returns 0 leaves behind what it was asked for: every value,   *)
(* or no key, however other runs got in between.                            *)
THEOREM SuccessHolds == Spec => SuccessIsAsAsked
<1> DEFINE Asked(s) ==
      (pc[s] \in {"set", "delete"} /\ pc'[s] = "done" /\ exitCode'[s] = 0) =>
        IF Operation(args[s]) = "UINSTALL" THEN key' = Unset
        ELSE \A v \in ValueName : key'[v] # Unset
<1>1. ASSUME SetupInv, Next, NEW s \in Setup, pc[s] = "set",
             pc'[s] = "done", exitCode'[s] = 0
      PROVE  Operation(args[s]) = "INSTALL" /\ \A v \in ValueName : key'[v] # Unset
  <2>1. SetValue(s)
    <3>1. PICK t \in Setup :
            \/ \E a \in ArgList : Start(t, a)
            \/ FindMessageDLL(t) \/ CreateKey(t) \/ SetValue(t)
            \/ DeleteKey(t) \/ Kill(t)
      BY <1>1 DEF Next
    <3>2. t = s
      BY <1>1, <3>1
         DEF SetupInv, TypeOK, Start, FindMessageDLL, CreateKey, SetValue,
             DeleteKey, Kill, Return
    <3> QED
      BY <1>1, <3>1, <3>2
         DEF Start, FindMessageDLL, CreateKey, DeleteKey, Kill, SetupInv, TypeOK
  <2>2. /\ Operation(args[s]) = "INSTALL"
        /\ handle[s] = "live"
        /\ next[s] \in 1 .. 5
        /\ strPath[s] \in Path \cup Switch
        /\ key \in [ValueName -> Value \cup {Unset}]
    <3>1. handle[s] = "live"
      BY <1>1, <2>1 DEF SetValue, Return, SetupInv, TypeOK
    <3> QED
      BY <1>1, <3>1 DEF SetupInv, TypeOK, ControlInv, LiveInv
  <2> DEFINE w == ValueNames[next[s]]
  <2>3. next[s] = 5 /\ key' = [key EXCEPT ![w] = Registration(strPath[s])[w]]
    BY <1>1, <2>1 DEF SetValue, Return, SetupInv, TypeOK
  <2>4. \A i \in 1 .. 4 : key[ValueNames[i]] # Unset
    BY <1>1, <2>2, <2>3 DEF SetupInv, LiveInv
  <2>5. w \in ValueName /\ Registration(strPath[s])[w] # Unset
    BY <2>2, NamesFacts, RegistrationFacts
  <2>6. \A i \in 1 .. 5 : i \in 1 .. 4 \/ i = next[s]
    BY <2>3
  <2>7. \A i \in 1 .. 5 : key'[ValueNames[i]] # Unset
    <3>1. key'[w] # Unset /\ \A v \in ValueName \ {w} : key'[v] = key[v]
      BY <2>2, <2>3, <2>5
    <3> QED
      BY <2>4, <2>6, <3>1, NamesFacts
  <2> QED
    BY <2>2, <2>7, NamesFacts
<1>2. ASSUME SetupInv, Next, NEW s \in Setup, pc[s] = "delete",
             pc'[s] = "done", exitCode'[s] = 0
      PROVE  Operation(args[s]) = "UINSTALL" /\ key' = Unset
  <2>1. DeleteKey(s)
    <3>1. PICK t \in Setup :
            \/ \E a \in ArgList : Start(t, a)
            \/ FindMessageDLL(t) \/ CreateKey(t) \/ SetValue(t)
            \/ DeleteKey(t) \/ Kill(t)
      BY <1>2 DEF Next
    <3>2. t = s
      BY <1>2, <3>1
         DEF SetupInv, TypeOK, Start, FindMessageDLL, CreateKey, SetValue,
             DeleteKey, Kill, Return
    <3> QED
      BY <1>2, <3>1, <3>2
         DEF Start, FindMessageDLL, CreateKey, SetValue, Kill, SetupInv, TypeOK
  <2> QED
    BY <1>2, <2>1 DEF DeleteKey, Return, SetupInv, TypeOK, ControlInv
<1>3. ASSUME SetupInv, [Next]_vars
      PROVE  [\A s \in Setup : Asked(s)]_vars
  BY <1>1, <1>2, <1>3
<1> QED
  BY <1>3, Invariance, PTL DEF Spec, SuccessIsAsAsked
=============================================================================
